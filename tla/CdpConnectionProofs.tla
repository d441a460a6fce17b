------------------------- MODULE CdpConnectionProofs -------------------------
(***************************************************************************)
(* The connection invariants of src/cdp/client.ts for any number of        *)
(* overlapping calls, connections, attempts and retries.                   *)
(*                                                                         *)
(* CInv is the inductive invariant. At most one operation is current, and  *)
(* while it makes its attempt there is no browser: that is why the browser *)
(* a successful attempt installs replaces none. A client that says it is   *)
(* connecting has such an attempt. A disconnect() that met no operation in *)
(* progress leaves none behind, so no loop is ever told to stop half way;  *)
(* and a heartbeat check whose browser was dropped is answered before the  *)
(* attempt that dropped it can end, so its verdict never starts a second   *)
(* loop.                                                                   *)
(***************************************************************************)
EXTENDS CdpConnection, TLAPS

(* Where an operation of connectInternal is before it knows how it ended. *)
Attempting == {"ensure", "ws", "pause", "backoff"}

(* Which operation can be where, and what it waits for there. *)
OpOK(r) ==
  /\ r.pc \in {"probe", "await", "notify"} => r.kind = "connect"
  /\ r.pc = "ping" <=> r.kind = "check"
  /\ r.pc \in {"backoff", "restore"} => r.kind = "handle"
  /\ r.pc \in {"probe", "await", "ping"} => r.current = FALSE
  /\ r.pc \in {"probe", "ping"} => r.on \in Conns
  /\ r.pc = "pause" => r.tries < MaxRetries

Shape == \A o \in Ops : Busy(o) => OpOK(op[o])

(* The types of what the rest of CInv is about. *)
CoreType ==
  /\ browser \in Conns \cup {None}
  /\ state \in {"disconnected", "connecting", "connected", "reconnecting"}
  /\ pending \in Ops \cup {None}
  /\ {reconnecting, disc, timer, checking, quit, stale} \subseteq BOOLEAN
  /\ strikes \in 0 .. 1
  /\ conn \in [Conns -> {"open", "half", "closed"}]
  /\ hooked \subseteq Conns
  /\ op \in [Ops -> Op \cup {None}]

(* One attempt is current. *)
OneCurrent ==
  \A o, q \in Ops : Busy(o) /\ Current(o) /\ Busy(q) /\ Current(q) => o = q

(* Only the browser in use has listeners or is not closed, and it is open. *)
Hooks ==
  /\ \A c \in Conns : c # browser => c \notin hooked /\ conn[c] = "closed"
  /\ browser # None => conn[browser] # "closed"

(* o makes the current attempt. *)
Leads(o) == Busy(o) /\ Current(o) /\ op[o].pc \in Attempting

(* The current attempt is made without a browser. *)
Vacant == (Reentered \/ \E o \in Ops : Leads(o)) => browser = None

(* pendingConnect is a connect() between its first await and its end. *)
PendingShape ==
  pending # None => /\ Busy(pending) /\ op[pending].kind = "connect"
                    /\ op[pending].pc \in {"ensure", "ws", "pause", "notify"}

(* A disconnect() that found nothing in progress. *)
QuietEnd == disc /\ ~quit => browser = None /\ \A o \in Ops : ~Busy(o)

(* The flag that holds tool calls back is raised by a loop still at work. *)
LoopAtWork ==
  reconnecting => quit \/ \E o \in Ops : /\ Busy(o) /\ op[o].kind = "handle"
                                         /\ op[o].pc # "restore"

(* A client that says it is connecting makes an attempt. *)
Charge == Reentered => quit \/ \E o \in Ops : Leads(o)

(* A loop that may still succeed has left the heartbeat running. *)
LoopWatched ==
  ~quit /\ ~stale => \A o \in Ops : Leads(o) /\ op[o].kind = "handle" => timer

(* A check is about the browser in use, or another attempt is under way. *)
CheckSeen ==
  ~quit /\ ~stale => \A o \in Ops : At(o, "ping") => op[o].on = browser \/ Reentered

CInv ==
  /\ CoreType /\ Shape /\ OneCurrent
  /\ Hooks /\ Vacant
  /\ PendingShape /\ QuietEnd /\ LoopAtWork /\ Charge
  /\ Watched /\ LoopWatched /\ CheckSeen

-----------------------------------------------------------------------------
(* What a step does to the operations it is not about: they may be           *)
(* superseded, or told that the call they wait for has ended.                *)

Kept(q) ==
  /\ Busy(q)' <=> Busy(q)
  /\ Busy(q) => /\ op'[q] \in Op
                /\ op'[q].kind = op[q].kind /\ op'[q].pc = op[q].pc
                /\ op'[q].tries = op[q].tries
                /\ op'[q].current => op[q].current
                /\ op[q].pc # "await" => op'[q].on = op[q].on

(* An operation in progress is a record with known fields. *)
LEMMA BusyType ==
  ASSUME CoreType, NEW o \in Ops, Busy(o)
  PROVE  /\ op[o] \in Op
         /\ op[o].kind \in {"connect", "force", "handle", "check"}
         /\ op[o].pc \in {"probe", "await", "ensure", "ws", "pause", "notify",
                          "ping", "backoff", "restore"}
         /\ op[o].current \in BOOLEAN /\ op[o].auto \in BOOLEAN /\ op[o].tick \in BOOLEAN
         /\ op[o].tries \in 0 .. MaxRetries
         /\ op[o].on \in Conns \cup Ops \cup {None}
  BY DEF CoreType, Busy, Op

(* The end of a call. *)
LEMMA EndOpKeeps ==
  ASSUME CoreType, NEW o \in Ops, EndOp(o)
  PROVE  /\ op' \in [Ops -> Op \cup {None}] /\ op'[o] = None
         /\ \A q \in Ops \ {o} : Kept(q) /\ (Busy(q) => op'[q].current = op[q].current)
<1>1. ASSUME NEW q \in Ops \ {o}, Busy(q)
      PROVE  /\ op'[q] \in Op /\ op'[q].current = op[q].current
             /\ Kept(q)
  <2>1. op[q] \in Op
    BY <1>1, BusyType
  <2>2. CASE At(q, "await") /\ op[q].on = o
    <3>1. op'[q] = [op[q] EXCEPT !.on = None]
      BY <2>2, <1>1 DEF EndOp
    <3> QED
      BY <3>1, <2>1, <2>2, <1>1, NoneAssumption DEF Kept, Busy, Op, At
  <2>3. CASE ~(At(q, "await") /\ op[q].on = o)
    <3>1. op'[q] = op[q]
      BY <2>3, <1>1 DEF EndOp
    <3> QED
      BY <3>1, <2>1, <1>1 DEF Kept, Busy
  <2> QED
    BY <2>2, <2>3
<1>2. ASSUME NEW q \in Ops \ {o}, ~Busy(q)
      PROVE  op'[q] = None /\ Kept(q)
  BY <1>2 DEF EndOp, At, Kept, Busy
<1>3. op'[o] = None
  BY DEF EndOp
<1>4. \A q \in Ops : op'[q] \in Op \cup {None}
  BY <1>1, <1>2, <1>3
<1>5. op' = [q \in Ops |-> op'[q]]
  BY DEF EndOp
<1> QED
  BY <1>1, <1>2, <1>3, <1>4, <1>5

(* A new attempt: the others are not current any more. *)
LEMMA NewGenerationKeeps ==
  ASSUME CoreType, NEW o \in Ops, NEW r \in Op \cup {None}, op' = NewGeneration(o, r)
  PROVE  /\ op' \in [Ops -> Op \cup {None}] /\ op'[o] = r
         /\ \A q \in Ops \ {o} : Kept(q) /\ (Busy(q) => op'[q].current = FALSE)
<1>1. ASSUME NEW q \in Ops \ {o}, Busy(q)
      PROVE  op'[q] \in Op /\ op'[q].current = FALSE /\ Kept(q)
  <2>1. op[q] \in Op
    BY <1>1, BusyType
  <2>2. op'[q] = [op[q] EXCEPT !.current = FALSE]
    BY <1>1 DEF NewGeneration
  <2> QED
    BY <2>1, <2>2, <1>1, NoneAssumption DEF Kept, Busy, Op
<1>2. ASSUME NEW q \in Ops \ {o}, ~Busy(q)
      PROVE  op'[q] = None /\ Kept(q)
  BY <1>2 DEF NewGeneration, Kept, Busy
<1>3. op'[o] = r
  BY DEF NewGeneration
<1>4. \A q \in Ops : op'[q] \in Op \cup {None}
  BY <1>1, <1>2, <1>3
<1>5. op' = [q \in Ops |-> op'[q]]
  BY DEF NewGeneration
<1> QED
  BY <1>1, <1>2, <1>3, <1>4, <1>5

(* A step of one operation. *)
LEMMA OneStepKeeps ==
  ASSUME CoreType, NEW o \in Ops, NEW r \in Op, op' = [op EXCEPT ![o] = r]
  PROVE  /\ op' \in [Ops -> Op \cup {None}] /\ op'[o] = r /\ Busy(o)'
         /\ \A q \in Ops \ {o} : Kept(q) /\ (Busy(q) => op'[q].current = op[q].current)
  BY BusyType, NoneAssumption DEF CoreType, Kept, Busy

(* DropBrowser leaves no connection open and no listener. *)
LEMMA DropBrowserEmpties ==
  ASSUME CoreType, Hooks, DropBrowser
  PROVE  /\ browser' = None /\ hooked' = {}
         /\ conn' \in [Conns -> {"open", "half", "closed"}]
         /\ \A c \in Conns : conn'[c] = "closed"
  BY ConnectionAssumption DEF CoreType, Hooks, DropBrowser

-----------------------------------------------------------------------------
(* The parts of a step.                                                      *)

(* The operations a step is not about stay where they can be. *)
LEMMA OthersShape ==
  ASSUME CoreType, Shape, NEW o \in Ops, \A q \in Ops \ {o} : Kept(q),
         op'[o] # None => OpOK(op'[o])
  PROVE  Shape'
<1> SUFFICES ASSUME NEW q \in Ops, q # o, op'[q] # None PROVE OpOK(op'[q])
  BY DEF Shape, Busy
<1>1. Busy(q) /\ OpOK(op[q]) /\ Kept(q)
  BY DEF Shape, Kept, Busy
<1>2. op[q].current \in BOOLEAN /\ op'[q].current \in BOOLEAN
  BY <1>1, BusyType DEF Kept, Op
<1> QED
  BY <1>1, <1>2 DEF Kept, OpOK

(* An operation that does not lead the current attempt ends, and gives back  *)
(* pendingConnect and the flag of the loop when they are its own.            *)
LEMMA EndKeeps ==
  ASSUME CInv, NEW o \in Ops, Busy(o), EndOp(o),
         UNCHANGED <<link, state, disc, timer, quit, stale>>,
         checking' \in BOOLEAN, strikes' \in 0 .. 1,
         pending' \in {pending, None}, pending = o => pending' = None,
         reconnecting' \in {reconnecting, FALSE},
         quit \/ ~Leads(o),
         quit \/ reconnecting' = FALSE \/ ~(op[o].kind = "handle" /\ op[o].pc # "restore")
  PROVE  CInv'
<1> USE DEF CInv
<1>1. /\ op' \in [Ops -> Op \cup {None}] /\ op'[o] = None
      /\ \A q \in Ops \ {o} : Kept(q) /\ (Busy(q) => op'[q].current = op[q].current)
  BY EndOpKeeps
<1>2. CoreType'
  BY <1>1 DEF CoreType, link
<1>3. Shape'
  BY <1>1, OthersShape
<1>4. \A q \in Ops : /\ Leads(q)' => Leads(q) /\ op'[q].kind = op[q].kind
                     /\ (q # o /\ Leads(q)) => Leads(q)'
  BY <1>1 DEF Leads, Kept, Busy, Current
<1>5. OneCurrent'
  BY <1>1 DEF OneCurrent, Kept, Busy, Current
<1>6. Hooks' /\ Vacant'
  BY <1>4 DEF Hooks, Vacant, Reentered, link
<1>7. PendingShape'
  BY <1>1 DEF PendingShape, Kept, Busy, CoreType
<1>8. QuietEnd'
  BY <1>1 DEF QuietEnd, Kept, Busy, link
<1>9. LoopAtWork'
  BY <1>1 DEF LoopAtWork, Kept, Busy
<1>10. Charge'
  BY <1>4 DEF Charge, Reentered
<1>11. Watched' /\ LoopWatched'
  BY <1>4 DEF Watched, LoopWatched, IsConnected, link
<1>12. CheckSeen'
  BY <1>1 DEF CheckSeen, Kept, Busy, At, Reentered, link
<1> QED
  BY <1>2, <1>3, <1>5, <1>6, <1>7, <1>8, <1>9, <1>10, <1>11, <1>12

(* When nothing is due, the checks in progress are about the browser.        *)
LEMMA NoneDueChecks ==
  ASSUME CInv, NoneDue, NEW o \in Ops, At(o, "ping")
  PROVE  op[o].on = browser /\ browser \in Conns
<1>1. op[o].on \in Conns
  BY DEF CInv, Shape, OpOK, At
<1>2. conn[op[o].on] # "closed"
  BY DEF NoneDue, Due
<1> QED
  BY <1>1, <1>2 DEF CInv, Hooks

(* The attempt of o failed and o ends, or stays to tell of it. Only the      *)
(* current attempt, or a superseded loop that is then noted, may change what *)
(* the client says of itself.                                                *)
LEMMA FailKeeps ==
  ASSUME CInv, NoneDue, NEW o \in Ops, Busy(o),
         op[o].pc \in {"ensure", "ws", "backoff"},
         op' \in [Ops -> Op \cup {None}],
         \A q \in Ops \ {o} : Kept(q) /\ (Busy(q) => op'[q].current = op[q].current),
         op'[o] # None => /\ OpOK(op'[o]) /\ op'[o].pc = "notify"
                          /\ op[o].kind = "connect"
                          /\ op'[o].current = op[o].current,
         UNCHANGED <<link, disc, quit>>,
         checking' \in BOOLEAN, stale' \in BOOLEAN, strikes' \in 0 .. 1,
         pending' \in {pending, None}, pending = o /\ op'[o] = None => pending' = None,
         state' \in {state, "disconnected"}, Current(o) => state' = "disconnected",
         reconnecting' \in {reconnecting, FALSE},
         op[o].kind = "handle" => reconnecting' = FALSE,
         timer' \in {timer, FALSE},
         stale => stale',
         (state' = state /\ timer' = timer) \/ Current(o) \/ stale'
  PROVE  CInv'
<1> USE DEF CInv
<1>1. Leads(o) <=> Current(o)
  BY DEF Leads, Attempting
<1>2. CoreType'
  BY DEF CoreType, link
<1>3. Shape'
  BY OthersShape
<1>4. /\ ~Leads(o)'
      /\ \A q \in Ops : /\ Leads(q)' => Leads(q) /\ op'[q].kind = op[q].kind
                        /\ (q # o /\ Leads(q)) => Leads(q)'
  BY DEF Leads, Kept, Busy, Current, Attempting
<1>5. OneCurrent'
  BY DEF OneCurrent, Kept, Busy, Current
<1>6. Hooks' /\ Vacant'
  BY <1>4 DEF Hooks, Vacant, Reentered, link
<1>7. PendingShape'
  BY DEF PendingShape, Kept, Busy, CoreType, OpOK
<1>8. QuietEnd'
  BY DEF QuietEnd, link
<1>9. LoopAtWork'
  BY DEF LoopAtWork, Kept, Busy
<1>10. Charge'
  BY <1>1, <1>4 DEF Charge, Reentered
<1>11. Watched'
  BY <1>1 DEF Watched, IsConnected, Vacant, link
<1>12. LoopWatched'
  <2> SUFFICES ASSUME ~quit, ~stale', NEW q \in Ops, Leads(q)', op'[q].kind = "handle"
               PROVE  timer'
    BY DEF LoopWatched
  <2>1. q # o /\ Leads(q) /\ op[q].kind = "handle" /\ timer
    BY <1>4 DEF LoopWatched
  <2>2. ~Current(o)
    BY <2>1 DEF OneCurrent, Leads
  <2> QED
    BY <2>1, <2>2
<1>13. CheckSeen'
  BY NoneDueChecks DEF CheckSeen, Kept, Busy, At, link
<1> QED
  BY <1>2, <1>3, <1>5, <1>6, <1>7, <1>8, <1>9, <1>10, <1>11, <1>12, <1>13

(* The attempt of o goes on. *)
LEMMA GoOnKeeps ==
  ASSUME CInv, NEW o \in Ops, Busy(o), op[o].pc \in Attempting,
         NEW r \in Op, OpOK(r), op' = [op EXCEPT ![o] = r],
         r.pc \in Attempting, r.kind = op[o].kind, r.current = op[o].current,
         UNCHANGED <<link, state, pending, flags, strikes, checking, quit, stale>>
  PROVE  CInv'
<1> USE DEF CInv
<1>1. /\ op' \in [Ops -> Op \cup {None}] /\ op'[o] = r /\ Busy(o)'
      /\ \A q \in Ops \ {o} : Kept(q) /\ (Busy(q) => op'[q].current = op[q].current)
  BY OneStepKeeps
<1>2. CoreType'
  BY <1>1 DEF CoreType, link, flags
<1>3. Shape'
  BY <1>1, OthersShape
<1>4. \A q \in Ops : Leads(q)' <=> Leads(q)
  BY <1>1 DEF Leads, Kept, Busy, Current
<1>5. \A q \in Ops : Busy(q) => op'[q].kind = op[q].kind
  BY <1>1 DEF Kept
<1>6. OneCurrent'
  BY <1>1 DEF OneCurrent, Kept, Busy, Current
<1>7. Hooks' /\ Vacant' /\ Watched' /\ LoopWatched'
  BY <1>4, <1>5 DEF Hooks, Vacant, Watched, LoopWatched, IsConnected, Reentered, Leads, link, flags
<1>8. PendingShape'
  BY <1>1 DEF PendingShape, Kept, Busy, CoreType, OpOK, Attempting
<1>9. QuietEnd'
  BY <1>1 DEF QuietEnd, Kept, Busy, link, flags
<1>10. LoopAtWork'
  BY <1>1 DEF LoopAtWork, Kept, Busy, flags, Attempting
<1>11. Charge'
  BY <1>4 DEF Charge, Reentered
<1>12. CheckSeen'
  BY <1>1 DEF CheckSeen, Kept, Busy, At, Reentered, link, Attempting
<1> QED
  BY <1>2, <1>3, <1>6, <1>7, <1>8, <1>9, <1>10, <1>11, <1>12

(* o is free, or waits for an answer before it makes an attempt. *)
Outside(o) == Busy(o) => op[o].pc \in {"probe", "await", "ping"}

LEMMA OutsideIsNobody ==
  ASSUME CInv, NEW o \in Ops, Outside(o)
  PROVE  /\ pending # o /\ ~Leads(o)
         /\ Busy(o) => op[o].kind \in {"connect", "check"}
  BY ConnectionAssumption DEF CInv, Outside, PendingShape, Leads, Attempting, Shape, OpOK

(* o starts an attempt without a browser and supersedes all others. *)
LEMMA StartKeeps ==
  ASSUME CInv, NEW o \in Ops, Outside(o),
         NEW r \in Op, OpOK(r), r.pc = "ensure", r.current = TRUE,
         op' = NewGeneration(o, r),
         browser' = None, hooked' = {},
         conn' \in [Conns -> {"open", "half", "closed"}],
         \A c \in Conns : conn'[c] = "closed",
         state' \in {"connecting", "reconnecting"}, disc' = FALSE,
         pending' \in {pending, None, o}, pending' = o => r.kind = "connect",
         reconnecting' \in BOOLEAN,
         reconnecting' => reconnecting \/ r.kind = "handle",
         timer' \in BOOLEAN, strikes' \in 0 .. 1,
         r.kind = "handle" => timer' \/ quit \/ stale,
         UNCHANGED <<checking, quit, stale>>
  PROVE  CInv'
<1> USE DEF CInv
<1>1. /\ op' \in [Ops -> Op \cup {None}] /\ op'[o] = r
      /\ \A q \in Ops \ {o} : Kept(q) /\ (Busy(q) => op'[q].current = FALSE)
  BY NewGenerationKeeps
<1>2. Busy(o)' /\ Leads(o)'
  BY <1>1, NoneAssumption DEF Busy, Leads, Current, Attempting
<1>3. CoreType'
  BY <1>1 DEF CoreType
<1>4. Shape'
  BY <1>1, OthersShape
<1>5. \A q \in Ops : Busy(q)' /\ Current(q)' => q = o
  BY <1>1 DEF Kept, Busy, Current
<1>6. OneCurrent'
  BY <1>5 DEF OneCurrent
<1>7. Hooks' /\ Vacant' /\ Watched' /\ QuietEnd'
  BY DEF Hooks, Vacant, Watched, QuietEnd, IsConnected
<1>8. PendingShape'
  <2>1. pending # o
    BY OutsideIsNobody
  <2>2. CASE pending' = o
    BY <2>2, <1>1, <1>2 DEF PendingShape
  <2>3. CASE pending' = pending
    BY <2>1, <2>3, <1>1 DEF PendingShape, Kept, Busy, CoreType
  <2>4. CASE pending' = None
    BY <2>4 DEF PendingShape
  <2> QED
    BY <2>2, <2>3, <2>4
<1>9. LoopAtWork'
  <2> SUFFICES ASSUME reconnecting', ~quit
               PROVE  \E q \in Ops : /\ Busy(q)' /\ op'[q].kind = "handle"
                                     /\ op'[q].pc # "restore"
    BY DEF LoopAtWork
  <2>1. CASE r.kind = "handle"
    BY <2>1, <1>1, <1>2
  <2>2. CASE r.kind # "handle"
    <3>1. PICK q \in Ops : Busy(q) /\ op[q].kind = "handle" /\ op[q].pc # "restore"
      BY <2>2 DEF LoopAtWork
    <3>2. q # o
      BY <3>1, OutsideIsNobody
    <3> QED
      BY <3>1, <3>2, <1>1 DEF Kept
  <2> QED
    BY <2>1, <2>2
<1>10. Charge'
  BY <1>2 DEF Charge
<1>11. LoopWatched'
  BY <1>1, <1>5 DEF LoopWatched, Leads
<1>12. CheckSeen'
  BY DEF CheckSeen, Reentered
<1> QED
  BY <1>3, <1>4, <1>6, <1>7, <1>8, <1>9, <1>10, <1>11, <1>12

(* After a disconnect() an attempt is not even started. *)
LEMMA RefuseKeeps ==
  ASSUME CInv, NEW o \in Ops, Outside(o), disc,
         op' = NewGeneration(o, None),
         browser' = None, hooked' = {},
         conn' \in [Conns -> {"open", "half", "closed"}],
         \A c \in Conns : conn'[c] = "closed",
         state' \in {state, "disconnected"}, disc' = disc,
         pending' \in {pending, None}, reconnecting' \in {reconnecting, FALSE},
         timer' \in BOOLEAN, strikes' \in 0 .. 1, checking' \in BOOLEAN,
         UNCHANGED <<quit, stale>>
  PROVE  CInv'
<1> USE DEF CInv
<1>1. /\ op' \in [Ops -> Op \cup {None}] /\ op'[o] = None
      /\ \A q \in Ops \ {o} : Kept(q) /\ (Busy(q) => op'[q].current = FALSE)
  BY NewGenerationKeeps
<1>2. CoreType'
  BY <1>1 DEF CoreType
<1>3. Shape'
  BY <1>1, OthersShape
<1>4. \A q \in Ops : ~(Busy(q)' /\ Current(q)')
  BY <1>1 DEF Kept, Busy, Current
<1>5. OneCurrent' /\ LoopWatched'
  BY <1>4 DEF OneCurrent, LoopWatched, Leads
<1>6. Hooks' /\ Vacant' /\ Watched'
  BY DEF Hooks, Vacant, Watched, IsConnected
<1>7. ~quit => \A q \in Ops : ~Busy(q) /\ ~Busy(q)'
  BY <1>1 DEF QuietEnd, Kept, Busy
<1>8. QuietEnd' /\ CheckSeen'
  BY <1>7 DEF QuietEnd, CheckSeen, At
<1>9. PendingShape'
  BY <1>1, OutsideIsNobody DEF PendingShape, Kept, Busy, CoreType
<1>10. LoopAtWork'
  BY <1>7 DEF LoopAtWork
<1>11. Charge'
  BY <1>7 DEF Charge, Reentered, Leads
<1> QED
  BY <1>2, <1>3, <1>5, <1>6, <1>8, <1>9, <1>10, <1>11

(* o waits for an answer, beside the current attempt. *)
LEMMA AskKeeps ==
  ASSUME CInv, NEW o \in Ops, Outside(o),
         NEW r \in Op, OpOK(r), op' = [op EXCEPT ![o] = r],
         r.pc \in {"probe", "await", "ping"},
         r.pc = "ping" => r.on = browser,
         browser # None \/ pending # None,
         checking' \in BOOLEAN,
         UNCHANGED <<link, state, pending, flags, strikes, quit, stale>>
  PROVE  CInv'
<1> USE DEF CInv
<1>1. /\ op' \in [Ops -> Op \cup {None}] /\ op'[o] = r /\ Busy(o)'
      /\ \A q \in Ops \ {o} : Kept(q) /\ (Busy(q) => op'[q].current = op[q].current)
  BY OneStepKeeps
<1>2. CoreType'
  BY <1>1 DEF CoreType, link, flags
<1>3. Shape'
  BY <1>1, OthersShape
<1>4. \A q \in Ops : /\ Leads(q)' <=> Leads(q)
                     /\ Leads(q) => op'[q].kind = op[q].kind
  BY <1>1, OutsideIsNobody DEF Leads, Kept, Busy, Current, Attempting
<1>5. OneCurrent'
  BY <1>1 DEF OneCurrent, Kept, Busy, Current, OpOK
<1>6. Hooks' /\ Vacant' /\ Watched' /\ LoopWatched'
  BY <1>4 DEF Hooks, Vacant, Watched, LoopWatched, IsConnected, Reentered, link, flags
<1>7. PendingShape'
  BY <1>1, OutsideIsNobody DEF PendingShape, Kept, Busy, CoreType
<1>8. QuietEnd'
  BY DEF QuietEnd, PendingShape, CoreType, link, flags
<1>9. LoopAtWork'
  BY <1>1, OutsideIsNobody DEF LoopAtWork, Kept, Busy, flags
<1>10. Charge'
  BY <1>4 DEF Charge, Reentered
<1>11. CheckSeen'
  BY <1>1 DEF CheckSeen, Kept, Busy, At, Reentered, link
<1> QED
  BY <1>2, <1>3, <1>5, <1>6, <1>7, <1>8, <1>9, <1>10, <1>11

(* The current attempt ends with a connection. *)
LEMMA ConnectedKeeps ==
  ASSUME CInv, NoneDue, NEW o \in Ops, At(o, "ws"), Current(o),
         op' \in [Ops -> Op \cup {None}],
         \A q \in Ops \ {o} : Kept(q) /\ (Busy(q) => op'[q].current = op[q].current),
         op'[o] # None => /\ OpOK(op'[o]) /\ op'[o].pc = "restore"
                          /\ op[o].kind = "handle",
         NEW c \in Conns, browser' = c, hooked' = hooked \cup {c},
         conn' = [conn EXCEPT ![c] = "open"], state' = "connected",
         pending' \in {pending, None}, pending = o => pending' = None,
         reconnecting' \in {reconnecting, FALSE},
         op[o].kind = "handle" => reconnecting' = FALSE,
         timer' = TRUE \/ (op[o].kind = "handle" /\ timer' = timer),
         strikes' \in 0 .. 1,
         stale' \in {stale, FALSE}, stale' = stale \/ timer' = TRUE,
         UNCHANGED <<disc, checking, quit>>
  PROVE  CInv'
<1> USE DEF CInv
<1>1. Leads(o) /\ browser = None
  BY DEF Leads, Attempting, At, Vacant
<1>2. CoreType'
  BY DEF CoreType
<1>3. Shape'
  BY OthersShape
<1>4. \A q \in Ops : q # o => ~(Busy(q)' /\ Current(q)')
  BY <1>1 DEF Kept, Busy, Current, OneCurrent, Leads
<1>5. \A q \in Ops : ~Leads(q)'
  BY <1>4 DEF Leads, Attempting, Busy
<1>6. OneCurrent' /\ LoopWatched'
  BY <1>4, <1>5 DEF OneCurrent, LoopWatched
<1>7. Hooks' /\ Vacant'
  BY <1>1, <1>5, ConnectionAssumption DEF Hooks, Vacant, Reentered, CoreType
<1>8. PendingShape'
  BY DEF PendingShape, Kept, Busy, CoreType
<1>9. QuietEnd'
  BY DEF QuietEnd, At
<1>10. LoopAtWork'
  BY DEF LoopAtWork, Kept, Busy
<1>11. Charge'
  BY DEF Charge, Reentered
<1>12. Watched'
  BY <1>1 DEF Watched, LoopWatched, CoreType
<1>13. CheckSeen'
  BY <1>1, NoneDueChecks, ConnectionAssumption DEF CheckSeen, Kept, Busy, At
<1> QED
  BY <1>2, <1>3, <1>6, <1>7, <1>8, <1>9, <1>10, <1>11, <1>12, <1>13

-----------------------------------------------------------------------------
(* One lemma per action.                                                     *)

(* Who goes on without being due finds nothing due. *)
LEMMA WakesFree ==
  ASSUME NEW o \in Ops, NEW pc \in {"ensure", "ws", "pause", "notify", "backoff", "restore"},
         Wakes(o, pc)
  PROVE  Busy(o) /\ op[o].pc = pc /\ At(o, pc) /\ NoneDue
  BY DEF Wakes, At, Due

(* A record that goes back to the start of connectInternal, or on from it. *)
LEMMA RecordSteps ==
  ASSUME NEW r \in Op
  PROVE  /\ \A pc \in {"ws", "pause"} : LET s == [r EXCEPT !.pc = pc] IN
              /\ s \in Op /\ s.pc = pc /\ s.kind = r.kind /\ s.current = r.current
              /\ s.tries = r.tries
         /\ \A pc \in {"notify", "backoff", "restore"} :
              LET s == [r EXCEPT !.pc = pc, !.tries = 0] IN
              /\ s \in Op /\ s.pc = pc /\ s.kind = r.kind /\ s.current = r.current
<1>1. ASSUME NEW pc \in {"ws", "pause"}
      PROVE  LET s == [r EXCEPT !.pc = pc] IN
              /\ s \in Op /\ s.pc = pc /\ s.kind = r.kind /\ s.current = r.current
              /\ s.tries = r.tries
  BY DEF Op
<1>2. ASSUME NEW pc \in {"notify", "backoff", "restore"}
      PROVE  LET s == [r EXCEPT !.pc = pc, !.tries = 0] IN
              /\ s \in Op /\ s.pc = pc /\ s.kind = r.kind /\ s.current = r.current
  <2>1. 0 \in 0 .. MaxRetries
    BY ConnectionAssumption
  <2> QED
    BY <2>1 DEF Op
<1> QED
  BY <1>1, <1>2

(* EndCheck keeps the flag a flag. *)
LEMMA EndCheckType ==
  ASSUME CoreType, NEW o \in Ops, EndCheck(o)
  PROVE  checking' \in BOOLEAN
  BY DEF EndCheck

(* A superseded attempt ends. *)
LEMMA SupersededKeeps ==
  ASSUME CInv, NEW o \in Ops, Busy(o), op[o].pc \in {"ensure", "ws"}, ~Current(o),
         Superseded(o)
  PROVE  CInv'
<1>1. op[o].kind \in {"connect", "force", "handle"}
  BY BusyType DEF CInv, Shape, OpOK
<1>2. /\ EndOp(o) /\ UNCHANGED <<link, state, disc, timer, quit, stale>>
      /\ checking' \in BOOLEAN /\ strikes' \in 0 .. 1 /\ ~Leads(o)
  BY EndCheckType DEF Superseded, CInv, CoreType, Leads
<1>3. CASE op[o].kind = "connect"
  BY <1>2, <1>3, EndKeeps DEF Superseded, ForgetPending
<1>4. CASE op[o].kind = "force"
  <2>1. pending # o
    BY <1>4, ConnectionAssumption DEF CInv, PendingShape
  <2> QED
    BY <1>2, <1>4, <2>1, EndKeeps DEF Superseded
<1>5. CASE op[o].kind = "handle"
  <2>1. pending # o
    BY <1>5, ConnectionAssumption DEF CInv, PendingShape
  <2> QED
    BY <1>2, <1>5, <2>1, EndKeeps DEF Superseded, HandleSuperseded
<1> QED
  BY <1>1, <1>3, <1>4, <1>5

(* A loop of handleDisconnect gives up. *)
LEMMA GivesUpKeeps ==
  ASSUME CInv, NoneDue, NEW o \in Ops, Busy(o), op[o].kind = "handle",
         op[o].pc \in {"ensure", "ws", "backoff"},
         GivesUp(o), UNCHANGED <<link, pending, disc, strikes, quit>>
  PROVE  CInv'
<1> USE DEF CInv
<1>1. /\ EndOp(o) /\ EndCheck(o)
      /\ state' = "disconnected" /\ reconnecting' = FALSE /\ timer' = FALSE
      /\ stale' = (stale \/ ~Current(o))
  BY DEF GivesUp
<1>2. /\ op' \in [Ops -> Op \cup {None}] /\ op'[o] = None
      /\ \A q \in Ops \ {o} : Kept(q) /\ (Busy(q) => op'[q].current = op[q].current)
  BY <1>1, EndOpKeeps
<1>3. pending # o
  BY ConnectionAssumption DEF PendingShape
<1>4. checking' \in BOOLEAN /\ stale' \in BOOLEAN /\ strikes' \in 0 .. 1
  BY <1>1, EndCheckType DEF CoreType
<1> QED
  BY <1>1, <1>2, <1>3, <1>4, FailKeeps

(* connectInternal threw. *)
LEMMA ThrewKeeps ==
  ASSUME CInv, NoneDue, NEW o \in Ops, Busy(o), op[o].pc \in {"ensure", "ws"},
         Threw(o), UNCHANGED link
  PROVE  CInv'
<1> USE DEF CInv
<1>1. op[o] \in Op /\ op[o].kind \in {"connect", "force", "handle"}
  BY BusyType DEF Shape, OpOK
<1>2. strikes' \in 0 .. 1 /\ stale \in BOOLEAN /\ checking \in BOOLEAN
      /\ UNCHANGED <<disc, quit>>
  BY DEF CoreType, Threw
<1>3. CASE op[o].kind = "connect" /\ op[o].auto
  <2> DEFINE r == [op[o] EXCEPT !.pc = "notify", !.tries = 0]
  <2>1. /\ op' = [op EXCEPT ![o] = r] /\ pending' = pending
        /\ state' = IF Current(o) THEN "disconnected" ELSE state
        /\ UNCHANGED <<reconnecting, timer, checking, stale>>
    BY <1>3 DEF Threw, Waits, CoreType
  <2>2. r \in Op /\ r.pc = "notify" /\ r.kind = "connect" /\ r.current = op[o].current
    BY <1>1, <1>3, RecordSteps
  <2>3. OpOK(r)
    BY <2>2 DEF OpOK
  <2> HIDE DEF r
  <2>4. /\ op' \in [Ops -> Op \cup {None}] /\ op'[o] = r /\ op'[o] # None
        /\ \A q \in Ops \ {o} : Kept(q) /\ (Busy(q) => op'[q].current = op[q].current)
    BY <2>1, <2>2, OneStepKeeps DEF Busy
  <2> QED
    BY <1>2, <1>3, <2>1, <2>2, <2>3, <2>4, FailKeeps
<1>4. CASE op[o].kind = "connect" /\ ~op[o].auto
  <2>1. /\ EndOp(o) /\ pending' = ForgetPending(o)
        /\ state' = IF Current(o) THEN "disconnected" ELSE state
        /\ UNCHANGED <<reconnecting, timer, checking, stale>>
    BY <1>4 DEF Threw
  <2>2. /\ op' \in [Ops -> Op \cup {None}] /\ op'[o] = None
        /\ \A q \in Ops \ {o} : Kept(q) /\ (Busy(q) => op'[q].current = op[q].current)
    BY <2>1, EndOpKeeps
  <2> QED
    BY <1>2, <1>4, <2>1, <2>2, FailKeeps DEF ForgetPending
<1>5. CASE op[o].kind = "force"
  <2>1. /\ EndOp(o) /\ UNCHANGED <<pending, reconnecting, timer, checking, stale>>
        /\ state' = IF Current(o) THEN "disconnected" ELSE state
    BY <1>5 DEF Threw
  <2>2. /\ op' \in [Ops -> Op \cup {None}] /\ op'[o] = None
        /\ \A q \in Ops \ {o} : Kept(q) /\ (Busy(q) => op'[q].current = op[q].current)
    BY <2>1, EndOpKeeps
  <2>3. pending # o
    BY <1>5, ConnectionAssumption DEF PendingShape
  <2> QED
    BY <1>2, <1>5, <2>1, <2>2, <2>3, FailKeeps
<1>6. CASE op[o].kind = "handle" /\ attempts < MaxAttempts
  <2> DEFINE r == [op[o] EXCEPT !.pc = "backoff", !.tries = 0]
  <2>1. /\ op' = [op EXCEPT ![o] = r]
        /\ UNCHANGED <<link, state, pending, flags, strikes, checking, quit, stale>>
    BY <1>6 DEF Threw, HandleThrew, Waits, CoreType, flags
  <2>2. r \in Op /\ r.pc = "backoff" /\ r.kind = "handle" /\ r.current = op[o].current
    BY <1>1, <1>6, RecordSteps
  <2>3. OpOK(r)
    BY <2>2 DEF OpOK
  <2> HIDE DEF r
  <2> QED
    BY <1>6, <2>1, <2>2, <2>3, GoOnKeeps DEF Attempting
<1>7. CASE op[o].kind = "handle" /\ ~(attempts < MaxAttempts)
  BY <1>2, <1>7, GivesUpKeeps DEF Threw, HandleThrew
<1> QED
  BY <1>1, <1>3, <1>4, <1>5, <1>6, <1>7

LEMMA NotifyEndsKeeps ==
  ASSUME CInv, NEW o \in Ops, NotifyEnds(o)
  PROVE  CInv'
<1>1. Busy(o) /\ op[o].pc = "notify"
  BY WakesFree DEF NotifyEnds
<1>2. op[o].kind = "connect" /\ ~Leads(o)
  BY <1>1 DEF CInv, Shape, OpOK, Leads, Attempting
<1> QED
  BY <1>1, <1>2, EndKeeps DEF NotifyEnds, ForgetPending, flags, beat, CInv, CoreType

LEMMA EnsureReturnsKeeps ==
  ASSUME CInv, NEW o \in Ops, EnsureReturns(o)
  PROVE  CInv'
<1>1. Busy(o) /\ op[o].pc = "ensure"
  BY WakesFree DEF EnsureReturns
<1>2. CASE Current(o)
  <2> DEFINE r == [op[o] EXCEPT !.pc = "ws"]
  <2>1. /\ op' = [op EXCEPT ![o] = r]
        /\ UNCHANGED <<link, state, pending, flags, strikes, checking, quit, stale>>
    BY <1>2 DEF EnsureReturns, CInv, CoreType, beat
  <2>2. r \in Op /\ r.pc = "ws" /\ r.kind = op[o].kind /\ r.current = op[o].current
    BY <1>1, BusyType, RecordSteps DEF CInv
  <2>3. op[o].kind # "check"
    BY <1>1 DEF CInv, Shape, OpOK
  <2>4. OpOK(r)
    BY <2>2, <2>3 DEF OpOK
  <2> HIDE DEF r
  <2> QED
    BY <1>1, <2>1, <2>2, <2>4, GoOnKeeps DEF Attempting
<1>3. CASE ~Current(o)
  BY <1>1, <1>3, SupersededKeeps DEF EnsureReturns
<1> QED
  BY <1>2, <1>3

LEMMA EnsureThrowsKeeps ==
  ASSUME CInv, NEW o \in Ops, EnsureThrows(o)
  PROVE  CInv'
  BY WakesFree, ThrewKeeps DEF EnsureThrows

LEMMA WsOpensKeeps ==
  ASSUME CInv, NEW o \in Ops, WsOpens(o)
  PROVE  CInv'
<1>1. Busy(o) /\ op[o].pc = "ws" /\ At(o, "ws") /\ NoneDue
  BY WakesFree DEF WsOpens
<1>2. CASE ~Current(o)
  BY <1>1, <1>2, SupersededKeeps DEF WsOpens, Usable
<1>3. CASE Current(o)
  <2>1. PICK c \in Fresh :
          /\ browser' = c /\ hooked' = hooked \cup {c}
          /\ conn' = [conn EXCEPT ![c] = "open"] /\ state' = "connected"
          /\ Succeeds(o) /\ stale' = (stale /\ op[o].kind = "handle")
          /\ UNCHANGED <<disc, checking, quit>>
    BY <1>3 DEF WsOpens, Usable
  <2>2. c \in Conns
    BY DEF Fresh
  <2>3. stale' \in {stale, FALSE} /\ (op[o].kind = "handle" => stale' = stale)
    BY <2>1, Zenon DEF CInv, CoreType
  <2>4. op[o] \in Op /\ op[o].kind \in {"connect", "force", "handle"}
    BY <1>1, BusyType DEF CInv, Shape, OpOK
  <2>5. strikes \in 0 .. 1 /\ 0 \in 0 .. 1
    BY DEF CInv, CoreType
  <2>6. CASE op[o].kind \in {"connect", "force"}
    <3>1. /\ EndOp(o) /\ timer' = TRUE /\ reconnecting' \in {reconnecting, FALSE}
          /\ strikes' \in 0 .. 1
          /\ op[o].kind = "connect" => pending' = ForgetPending(o)
          /\ op[o].kind = "force" => pending' = pending
      BY <2>1, <2>5, <2>6 DEF Succeeds
    <3>2. /\ op' \in [Ops -> Op \cup {None}] /\ op'[o] = None
          /\ \A q \in Ops \ {o} : Kept(q) /\ (Busy(q) => op'[q].current = op[q].current)
      BY <3>1, EndOpKeeps DEF CInv
    <3>3. op[o].kind = "force" => pending # o
      BY ConnectionAssumption DEF CInv, PendingShape
    <3>4. pending' \in {pending, None} /\ (pending = o => pending' = None)
      BY <2>6, <3>1, <3>3 DEF ForgetPending
    <3> QED
      BY <1>1, <1>3, <2>1, <2>2, <2>3, <2>6, <3>1, <3>2, <3>4, ConnectedKeeps
  <2>7. CASE op[o].kind = "handle"
    <3> DEFINE r == [op[o] EXCEPT !.pc = "restore", !.tries = 0]
    <3>1. /\ op' = [op EXCEPT ![o] = r] /\ reconnecting' = FALSE
          /\ UNCHANGED <<pending, timer, strikes>>
      BY <2>1, <2>7 DEF Succeeds, Waits, CInv, CoreType
    <3>2. r \in Op /\ r.pc = "restore" /\ r.kind = "handle"
      BY <2>4, <2>7, RecordSteps
    <3>3. OpOK(r)
      BY <3>2 DEF OpOK
    <3> HIDE DEF r
    <3>4. /\ op' \in [Ops -> Op \cup {None}] /\ op'[o] = r
          /\ \A q \in Ops \ {o} : Kept(q) /\ (Busy(q) => op'[q].current = op[q].current)
      BY <3>1, <3>2, OneStepKeeps DEF CInv
    <3>5. pending # o
      BY <2>7, ConnectionAssumption DEF CInv, PendingShape
    <3> QED
      BY <1>1, <1>3, <2>1, <2>2, <2>3, <2>5, <2>7, <3>1, <3>2, <3>3, <3>4, <3>5, ConnectedKeeps
  <2> QED
    BY <2>4, <2>6, <2>7
<1> QED
  BY <1>2, <1>3

(* puppeteer.connect threw, or lost against its timeout. *)
LEMMA WsThrewKeeps ==
  ASSUME CInv, NEW o \in Ops, Wakes(o, "ws"), WsThrew(o)
  PROVE  CInv'
<1>1. Busy(o) /\ op[o].pc = "ws" /\ NoneDue
  BY WakesFree
<1>2. CASE ~Current(o)
  BY <1>1, <1>2, SupersededKeeps DEF WsThrew
<1>3. CASE Current(o)
  <2>1. browser = None
    BY <1>1, <1>3 DEF CInv, Vacant, Leads, Attempting
  <2>2. DropBrowser
    BY <1>3 DEF WsThrew
  <2>3. UNCHANGED link
    BY <2>1, <2>2, ConnectionAssumption DEF CInv, CoreType, DropBrowser, link
  <2>4. CASE op[o].tries < MaxRetries
    <3> DEFINE r == [op[o] EXCEPT !.pc = "pause"]
    <3>1. /\ op' = [op EXCEPT ![o] = r]
          /\ UNCHANGED <<state, pending, flags, strikes, checking, quit, stale>>
      BY <1>3, <2>4 DEF WsThrew, CInv, CoreType, beat
    <3>2. /\ r \in Op /\ r.pc = "pause" /\ r.kind = op[o].kind
          /\ r.current = op[o].current /\ r.tries = op[o].tries
      BY <1>1, BusyType, RecordSteps DEF CInv
    <3>3. op[o].kind # "check"
      BY <1>1 DEF CInv, Shape, OpOK
    <3>4. OpOK(r)
      BY <2>4, <3>2, <3>3 DEF OpOK
    <3> HIDE DEF r
    <3> QED
      BY <1>1, <2>3, <3>1, <3>2, <3>4, GoOnKeeps DEF Attempting
  <2>5. CASE ~(op[o].tries < MaxRetries)
    BY <1>1, <1>3, <2>3, <2>5, ThrewKeeps DEF WsThrew
  <2> QED
    BY <2>4, <2>5
<1> QED
  BY <1>2, <1>3

LEMMA PauseEndsKeeps ==
  ASSUME CInv, NEW o \in Ops, PauseEnds(o)
  PROVE  CInv'
<1> DEFINE r == [op[o] EXCEPT !.pc = "ensure", !.tries = @ + 1]
<1>1. Busy(o) /\ op[o].pc = "pause"
  BY WakesFree DEF PauseEnds
<1>2. op[o] \in Op /\ op[o].tries < MaxRetries /\ op[o].kind # "check"
  BY <1>1, BusyType DEF CInv, Shape, OpOK
<1>3. op[o].tries + 1 \in 0 .. MaxRetries
  BY <1>1, <1>2, BusyType, ConnectionAssumption DEF CInv
<1>4. op' = [op EXCEPT ![o] = r]
  BY <1>1, <1>2 DEF PauseEnds, CInv, CoreType
<1>5. r \in Op /\ r.pc = "ensure" /\ r.kind = op[o].kind /\ r.current = op[o].current
  BY <1>2, <1>3 DEF Op
<1>6. OpOK(r)
  BY <1>2, <1>5 DEF OpOK
<1> HIDE DEF r
<1> QED
  BY <1>1, <1>4, <1>5, <1>6, GoOnKeeps DEF PauseEnds, Attempting, beat

(* The record of a call that starts an attempt. *)
LEMMA NewAttempt ==
  ASSUME NEW kind \in {"connect", "force"}, NEW auto \in BOOLEAN
  PROVE  LET r == Attempt(NewOp(kind, auto)) IN
         r \in Op /\ OpOK(r) /\ r.pc = "ensure" /\ r.current = TRUE /\ r.kind = kind
<1>1. 1 \in 0 .. MaxRetries
  BY ConnectionAssumption
<1> QED
  BY <1>1 DEF Attempt, NewOp, Op, OpOK

(* And that of a loop of handleDisconnect. *)
LEMMA NewLoop ==
  ASSUME NEW tick \in BOOLEAN
  PROVE  LET r == Attempt([NewOp("handle", FALSE) EXCEPT !.tick = tick]) IN
         r \in Op /\ OpOK(r) /\ r.pc = "ensure" /\ r.current = TRUE /\ r.kind = "handle"
<1>1. 1 \in 0 .. MaxRetries
  BY ConnectionAssumption
<1> QED
  BY <1>1 DEF Attempt, NewOp, Op, OpOK

LEMMA DoForceKeeps ==
  ASSUME CInv, NEW o \in Ops, Outside(o), DoForce(o)
  PROVE  CInv'
<1>1. /\ browser' = None /\ hooked' = {}
      /\ conn' \in [Conns -> {"open", "half", "closed"}]
      /\ \A c \in Conns : conn'[c] = "closed"
  BY DropBrowserEmpties DEF DoForce, CInv
<1>2. /\ pending' = None /\ timer' = FALSE /\ strikes' \in 0 .. 1 /\ checking' \in BOOLEAN
      /\ reconnecting' \in BOOLEAN /\ disc \in BOOLEAN
      /\ UNCHANGED <<disc, reconnecting, checking, quit, stale>>
  BY DEF DoForce, CInv, CoreType, beat
<1>3. CASE disc
  BY <1>1, <1>2, <1>3, RefuseKeeps DEF DoForce
<1>4. CASE ~disc
  <2> DEFINE r == Attempt(NewOp("force", FALSE))
  <2>1. r \in Op /\ OpOK(r) /\ r.pc = "ensure" /\ r.current = TRUE /\ r.kind = "force"
    BY NewAttempt
  <2>2. state' = "reconnecting" /\ op' = NewGeneration(o, r)
    BY <1>4 DEF DoForce
  <2>3. disc' = FALSE /\ timer' \in BOOLEAN /\ pending' \in {pending, None, o}
    BY <1>2, <1>4
  <2>4. pending' # o /\ (reconnecting' => reconnecting)
    BY <1>2, ConnectionAssumption
  <2> HIDE DEF r
  <2> QED
    BY <1>1, <1>2, <2>1, <2>2, <2>3, <2>4, StartKeeps
<1> QED
  BY <1>3, <1>4

LEMMA DoConnectKeeps ==
  ASSUME CInv, NEW o \in Ops, Outside(o), NEW auto \in BOOLEAN, DoConnect(o, auto)
  PROVE  CInv'
<1> USE DEF CInv
<1>0. 0 \in 0 .. MaxRetries
  BY ConnectionAssumption
<1>1. UNCHANGED <<link, reconnecting, timer, beat, quit, stale>>
  BY DEF DoConnect
<1>2. CASE IsConnected
  <2> DEFINE r == [Idle("connect", FALSE) EXCEPT !.pc = "probe", !.on = browser]
  <2>1. browser \in Conns /\ browser # None
    BY <1>2 DEF IsConnected, CoreType
  <2>2. r \in Op /\ r.pc = "probe" /\ OpOK(r)
    BY <1>0, <2>1 DEF Idle, NewOp, Op, OpOK
  <2>3. op' = [op EXCEPT ![o] = r] /\ UNCHANGED <<state, pending, disc>>
    BY <1>2 DEF DoConnect
  <2> HIDE DEF r
  <2> QED
    BY <1>1, <2>1, <2>2, <2>3, AskKeeps DEF flags, beat, CoreType
<1>3. CASE ~IsConnected /\ pending # None
  <2> DEFINE r == [Idle("connect", auto) EXCEPT !.pc = "await", !.on = pending]
  <2>1. pending \in Ops
    BY <1>3 DEF CoreType
  <2>2. r \in Op /\ r.pc = "await" /\ OpOK(r)
    BY <1>0, <2>1 DEF Idle, NewOp, Op, OpOK
  <2>3. op' = [op EXCEPT ![o] = r] /\ UNCHANGED <<state, pending, disc>>
    BY <1>3 DEF DoConnect
  <2> HIDE DEF r
  <2> QED
    BY <1>1, <1>3, <2>2, <2>3, AskKeeps DEF flags, beat, CoreType
<1>4. CASE ~IsConnected /\ pending = None
  <2> DEFINE r == Attempt(NewOp("connect", auto))
  <2>1. r \in Op /\ OpOK(r) /\ r.pc = "ensure" /\ r.current = TRUE /\ r.kind = "connect"
    BY NewAttempt
  <2>2. state' = "connecting" /\ pending' = o /\ disc' = FALSE /\ op' = NewGeneration(o, r)
    BY <1>4 DEF DoConnect
  <2>3. browser = None
    BY <1>4 DEF IsConnected, Hooks
  <2>4. /\ browser' = None /\ hooked' = {}
        /\ conn' \in [Conns -> {"open", "half", "closed"}]
        /\ \A c \in Conns : conn'[c] = "closed"
    BY <1>1, <2>3, ConnectionAssumption DEF Hooks, CoreType, link
  <2>5. reconnecting' \in BOOLEAN /\ timer' \in BOOLEAN /\ strikes' \in 0 .. 1
    BY <1>1 DEF CoreType, beat
  <2> HIDE DEF r
  <2> QED
    BY <1>1, <2>1, <2>2, <2>4, <2>5, StartKeeps DEF beat
<1> QED
  BY <1>2, <1>3, <1>4

(* handleDisconnect, when the heartbeat still runs. *)
LEMMA HandleKeeps ==
  ASSUME CInv, NEW o \in Ops, Outside(o), NEW tick \in BOOLEAN, Handle(o, tick),
         strikes' \in 0 .. 1, timer \/ quit \/ stale
  PROVE  CInv'
<1>1. /\ browser' = None /\ hooked' = {}
      /\ conn' \in [Conns -> {"open", "half", "closed"}]
      /\ \A c \in Conns : conn'[c] = "closed"
  BY DropBrowserEmpties DEF Handle, CInv
<1>2. UNCHANGED <<disc, pending, quit, stale>> /\ disc \in BOOLEAN
  BY DEF Handle, CInv, CoreType
<1>3. CASE disc
  <2>1. /\ op' = NewGeneration(o, None) /\ state' = "disconnected"
        /\ reconnecting' = FALSE /\ timer' = FALSE /\ checking' \in BOOLEAN
    BY <1>3 DEF Handle
  <2> QED
    BY <1>1, <1>2, <1>3, <2>1, RefuseKeeps
<1>4. CASE ~disc
  <2> DEFINE r == Attempt([NewOp("handle", FALSE) EXCEPT !.tick = tick])
  <2>1. r \in Op /\ OpOK(r) /\ r.pc = "ensure" /\ r.current = TRUE /\ r.kind = "handle"
    BY NewLoop
  <2>2. /\ state' = "reconnecting" /\ reconnecting' = TRUE
        /\ op' = NewGeneration(o, r) /\ UNCHANGED <<timer, checking>>
    BY <1>4 DEF Handle
  <2>3. disc' = FALSE /\ timer' \in BOOLEAN /\ reconnecting' \in BOOLEAN
    BY <1>2, <1>4, <2>2 DEF CInv, CoreType
  <2>4. (timer' \/ quit \/ stale) /\ pending' # o
    BY <1>2, <2>2, OutsideIsNobody
  <2> HIDE DEF r
  <2> QED
    BY <1>1, <1>2, <2>1, <2>2, <2>3, <2>4, StartKeeps
<1> QED
  BY <1>3, <1>4

LEMMA AwaitEndsKeeps ==
  ASSUME CInv, NEW o \in Ops, AwaitEnds(o)
  PROVE  CInv'
<1>1. Busy(o) /\ op[o].pc = "await" /\ Outside(o)
  BY DEF AwaitEnds, Wakes, At, Outside
<1>2. CASE DoConnect(o, op[o].auto)
  BY <1>1, <1>2, BusyType, DoConnectKeeps DEF CInv
<1>3. CASE EndOp(o) /\ UNCHANGED <<link, state, pending, flags, beat, quit, stale>>
  BY <1>1, <1>3, OutsideIsNobody, EndKeeps DEF flags, beat, CInv, CoreType
<1> QED
  BY <1>2, <1>3 DEF AwaitEnds

LEMMA ProbeOkKeeps ==
  ASSUME CInv, NEW o \in Ops, ProbeOk(o)
  PROVE  CInv'
<1>1. Busy(o) /\ op[o].pc = "probe" /\ Outside(o)
  BY DEF ProbeOk, Wakes, At, Outside
<1> QED
  BY <1>1, OutsideIsNobody, EndKeeps DEF ProbeOk, flags, beat, CInv, CoreType

LEMMA ProbeFailsKeeps ==
  ASSUME CInv, NEW o \in Ops, ProbeFails(o)
  PROVE  CInv'
  BY DoForceKeeps DEF ProbeFails, Wakes, At, Outside

LEMMA BackoffEndsKeeps ==
  ASSUME CInv, NEW o \in Ops, BackoffEnds(o)
  PROVE  CInv'
<1>1. Busy(o) /\ op[o].pc = "backoff" /\ NoneDue
  BY WakesFree DEF BackoffEnds
<1>2. op[o] \in Op /\ op[o].kind = "handle" /\ pending # o
  BY <1>1, BusyType, ConnectionAssumption DEF CInv, Shape, OpOK, PendingShape
<1>3. CASE disc
  <2>1. quit
    BY <1>1, <1>3 DEF CInv, QuietEnd
  <2>2. /\ EndOp(o) /\ checking' \in BOOLEAN
        /\ UNCHANGED <<link, state, pending, flags, strikes, quit, stale>>
    BY <1>3, EndCheckType DEF BackoffEnds, CInv, flags
  <2> QED
    BY <1>1, <1>2, <2>1, <2>2, EndKeeps DEF flags, CInv, CoreType
<1>4. CASE ~disc /\ attempts < MaxAttempts
  <2> DEFINE r == Attempt(op[o])
  <2>1. /\ op' = [op EXCEPT ![o] = r]
        /\ UNCHANGED <<link, state, pending, flags, strikes, checking, quit, stale>>
    BY <1>4 DEF BackoffEnds, flags
  <2>2. 1 \in 0 .. MaxRetries
    BY ConnectionAssumption
  <2>3. r \in Op /\ r.pc = "ensure" /\ r.kind = "handle" /\ r.current = op[o].current
    BY <1>2, <2>2 DEF Op, Attempt
  <2>4. OpOK(r)
    BY <2>3 DEF OpOK
  <2> HIDE DEF r
  <2> QED
    BY <1>1, <1>2, <2>1, <2>3, <2>4, GoOnKeeps DEF Attempting
<1>5. CASE ~disc /\ ~(attempts < MaxAttempts)
  BY <1>1, <1>2, <1>5, GivesUpKeeps DEF BackoffEnds
<1> QED
  BY <1>3, <1>4, <1>5

LEMMA RestoreEndsKeeps ==
  ASSUME CInv, NEW o \in Ops, RestoreEnds(o)
  PROVE  CInv'
<1>1. Busy(o) /\ op[o].pc = "restore"
  BY WakesFree DEF RestoreEnds
<1>2. op[o].kind = "handle" /\ pending # o /\ ~Leads(o)
  BY <1>1, ConnectionAssumption DEF CInv, Shape, OpOK, PendingShape, Leads, Attempting
<1>3. EndOp(o) /\ checking' \in BOOLEAN
  BY EndCheckType DEF RestoreEnds, CInv
<1> QED
  BY <1>1, <1>2, <1>3, EndKeeps DEF RestoreEnds, flags, CInv, CoreType

LEMMA LostKeeps ==
  ASSUME CInv, NEW o \in Ops, NEW c \in Conns, Lost(o, c)
  PROVE  CInv'
<1>1. Outside(o)
  BY DEF Lost, Begins, Outside
<1>2. browser = c /\ conn[c] # "closed" /\ browser # None
  BY ConnectionAssumption DEF Lost, CInv, Hooks
<1>3. timer \/ quit \/ stale
  BY <1>2 DEF CInv, Watched, IsConnected
<1>4. Handle(o, FALSE) /\ strikes' \in 0 .. 1
  BY DEF Lost, CInv, CoreType
<1> QED
  BY <1>1, <1>3, <1>4, HandleKeeps

LEMMA GoesSilentKeeps ==
  ASSUME CInv, NEW c \in Conns, GoesSilent(c)
  PROVE  CInv'
<1> USE DEF CInv, GoesSilent, flags, beat
<1>1. CoreType'
  BY DEF CoreType
<1>2. /\ Shape' /\ OneCurrent' /\ PendingShape' /\ QuietEnd' /\ LoopAtWork' /\ Charge'
      /\ Vacant' /\ LoopWatched' /\ CheckSeen'
  BY DEF Shape, OneCurrent, PendingShape, QuietEnd, LoopAtWork, Charge, Vacant, LoopWatched,
         CheckSeen, Busy, Current, Leads, Reentered, At
<1>3. Hooks'
  BY DEF Hooks, Reachable, CoreType
<1>4. Watched'
  BY DEF Watched, IsConnected, Hooks
<1> QED
  BY <1>1, <1>2, <1>3, <1>4

LEMMA TickKeeps ==
  ASSUME CInv, NEW o \in Ops, Tick(o)
  PROVE  CInv'
<1> DEFINE r == [Idle("check", FALSE) EXCEPT !.pc = "ping", !.on = browser, !.tick = TRUE]
<1>1. Outside(o)
  BY DEF Tick, Begins, Outside
<1>2. browser \in Conns /\ browser # None
  BY DEF Tick, IsConnected, CInv, CoreType
<1>3. 0 \in 0 .. MaxRetries
  BY ConnectionAssumption
<1>4. r \in Op /\ r.pc = "ping" /\ r.on = browser /\ OpOK(r)
  BY <1>2, <1>3 DEF Idle, NewOp, Op, OpOK
<1>5. op' = [op EXCEPT ![o] = r] /\ checking' \in BOOLEAN
  BY DEF Tick
<1> HIDE DEF r
<1> QED
  BY <1>1, <1>2, <1>4, <1>5, AskKeeps DEF Tick

LEMMA PingOkKeeps ==
  ASSUME CInv, NEW o \in Ops, PingOk(o)
  PROVE  CInv'
<1>1. Busy(o) /\ Outside(o)
  BY DEF PingOk, Wakes, At, Outside
<1>2. EndOp(o) /\ checking' \in BOOLEAN /\ strikes' \in 0 .. 1
  BY EndCheckType DEF PingOk, CInv
<1> QED
  BY <1>1, <1>2, OutsideIsNobody, EndKeeps DEF PingOk, flags

LEMMA PingFailsKeeps ==
  ASSUME CInv, NEW o \in Ops, PingFails(o)
  PROVE  CInv'
<1>1. Busy(o) /\ Outside(o) /\ At(o, "ping")
  BY DEF PingFails, Wakes, At, Outside
<1>2. strikes' \in 0 .. 1
  <2>1. strikes = 0 \/ strikes = 1
    BY DEF CInv, CoreType
  <2> QED
    BY <2>1 DEF PingFails
<1>3. CASE strikes = 0 \/ Reentered
  <2>1. EndOp(o) /\ checking' \in BOOLEAN
    BY <1>3, EndCheckType DEF PingFails, CInv
  <2> QED
    BY <1>1, <1>2, <1>3, <2>1, OutsideIsNobody, EndKeeps DEF PingFails, flags
<1>4. CASE ~(strikes = 0 \/ Reentered)
  <2>1. quit \/ stale \/ (op[o].on = browser /\ browser # None)
    BY <1>1, <1>4, ConnectionAssumption DEF CInv, CheckSeen, Shape, OpOK, At
  <2>2. timer \/ quit \/ stale
    BY <2>1 DEF CInv, Watched, IsConnected, Hooks
  <2> QED
    BY <1>1, <1>2, <1>4, <2>2, HandleKeeps DEF PingFails
<1> QED
  BY <1>3, <1>4

LEMMA DisconnectKeeps ==
  ASSUME CInv, Disconnect
  PROVE  CInv'
<1> USE DEF CInv
<1>1. /\ browser' = None /\ hooked' = {}
      /\ conn' \in [Conns -> {"open", "half", "closed"}]
      /\ \A c \in Conns : conn'[c] = "closed"
  BY DropBrowserEmpties DEF Disconnect
<1>2. /\ disc' = TRUE /\ timer' = FALSE
      /\ state' \in {state, "disconnected"} /\ (Reentered' => Reentered)
      /\ quit' = (quit \/ \E o \in Ops : Busy(o))
      /\ UNCHANGED <<pending, reconnecting, strikes, checking, op, stale>>
  BY DEF Disconnect, beat, Reentered
<1>3. CoreType'
  BY <1>1, <1>2 DEF CoreType
<1>4. Shape' /\ OneCurrent' /\ PendingShape'
  BY <1>2 DEF Shape, OneCurrent, PendingShape, Busy, Current
<1>5. Hooks' /\ Vacant' /\ Watched'
  BY <1>1 DEF Hooks, Vacant, Watched, IsConnected
<1>6. ~quit' => ~quit /\ \A o \in Ops : ~Busy(o) /\ ~Busy(o)'
  BY <1>2 DEF Busy
<1>7. QuietEnd' /\ LoopWatched' /\ CheckSeen'
  BY <1>1, <1>6 DEF QuietEnd, LoopWatched, CheckSeen, Leads, At
<1>8. LoopAtWork'
  BY <1>2, <1>6 DEF LoopAtWork
<1>9. Charge'
  BY <1>2, <1>6 DEF Charge, Leads
<1> QED
  BY <1>3, <1>4, <1>5, <1>7, <1>8, <1>9

-----------------------------------------------------------------------------
(* What CInv leaves out: a late connection is never the browser.             *)

Aside ==
  /\ attempts \in 0 .. MaxAttempts /\ alarm \in BOOLEAN
  /\ late \subseteq Conns /\ browser \notin late

(* What a step does to it: a new browser is a connection that is not open. *)
AsideStep ==
  /\ attempts' \in 0 .. MaxAttempts /\ alarm' \in BOOLEAN
  /\ browser' \in {browser, None} \cup (Conns \ late)

(* IsConnected is a truth value. *)
LEMMA EmitFailedType ==
  ASSUME EmitFailed
  PROVE  alarm' \in BOOLEAN
  BY DEF EmitFailed, IsConnected

LEMMA ThrewAside ==
  ASSUME CInv, Aside, NEW o \in Ops, Busy(o), op[o].pc \in {"ensure", "ws"}, Threw(o)
  PROVE  attempts' \in 0 .. MaxAttempts /\ alarm' \in BOOLEAN
<1>1. op[o].kind \in {"connect", "force", "handle"}
  BY BusyType DEF CInv, Shape, OpOK
<1>2. 0 \in 0 .. MaxAttempts /\ attempts \in 0 .. MaxAttempts
  BY ConnectionAssumption DEF Aside
<1>3. CASE op[o].kind \in {"connect", "force"}
  BY <1>2, <1>3, EmitFailedType DEF Threw, Quiet
<1>4. CASE op[o].kind = "handle"
  BY <1>2, <1>4, EmitFailedType DEF Threw, HandleThrew, GivesUp, Quiet
<1> QED
  BY <1>1, <1>3, <1>4

LEMMA WsThrewAside ==
  ASSUME CInv, Aside, NEW o \in Ops, Wakes(o, "ws"), WsThrew(o)
  PROVE  AsideStep
<1>1. Busy(o) /\ op[o].pc = "ws"
  BY WakesFree
<1>2. CASE ~Current(o)
  BY <1>2 DEF WsThrew, Superseded, Quiet, Aside, AsideStep, link
<1>3. CASE Current(o) /\ op[o].tries < MaxRetries
  BY <1>3 DEF WsThrew, DropBrowser, Quiet, Aside, AsideStep, beat
<1>4. CASE Current(o) /\ ~(op[o].tries < MaxRetries)
  BY <1>1, <1>4, ThrewAside DEF WsThrew, DropBrowser, AsideStep
<1> QED
  BY <1>2, <1>3, <1>4

LEMMA WsOpensAside ==
  ASSUME CInv, Aside, NEW o \in Ops, WsOpens(o)
  PROVE  AsideStep
<1>1. 0 \in 0 .. MaxAttempts /\ attempts \in 0 .. MaxAttempts
  BY ConnectionAssumption DEF Aside
<1>2. CASE ~Usable(o)
  BY <1>1, <1>2 DEF WsOpens, Superseded, Quiet, AsideStep, link
<1>3. CASE Usable(o)
  <2>1. PICK c \in Fresh : browser' = c /\ Succeeds(o) /\ Quiet
    BY <1>3 DEF WsOpens
  <2>2. op[o].kind \in {"connect", "force", "handle"}
    BY BusyType, WakesFree DEF WsOpens, CInv, Shape, OpOK
  <2>3. attempts' \in {attempts, 0}
    BY <2>1, <2>2 DEF Succeeds
  <2> QED
    BY <1>1, <2>1, <2>3 DEF Fresh, Open, Quiet, AsideStep
<1> QED
  BY <1>2, <1>3

LEMMA StepAside ==
  ASSUME CInv, Aside, Step
  PROVE  AsideStep
<1>1. 0 \in 0 .. MaxAttempts /\ 1 \in 0 .. MaxAttempts /\ attempts \in 0 .. MaxAttempts
  BY ConnectionAssumption DEF Aside
<1>2. ASSUME NEW o \in Ops, DoForce(o) \/ \E auto \in BOOLEAN : DoConnect(o, auto) PROVE AsideStep
  BY <1>1, <1>2 DEF DoForce, DoConnect, DropBrowser, Quiet, AsideStep, link, beat
<1>3. ASSUME NEW o \in Ops, NEW tick \in BOOLEAN, Handle(o, tick) PROVE AsideStep
  BY <1>1, <1>3 DEF Handle, DropBrowser, Quiet, AsideStep
<1>4. ASSUME NEW o \in Ops, EnsureThrows(o) PROVE AsideStep
  BY <1>4, WakesFree, ThrewAside DEF EnsureThrows, AsideStep, link
<1>5. ASSUME NEW o \in Ops, BackoffEnds(o) PROVE AsideStep
  <2>1. CASE disc
    BY <1>1, <1>5, <2>1 DEF BackoffEnds, Quiet, AsideStep, link
  <2>2. CASE ~disc /\ attempts < MaxAttempts
    <3>1. attempts + 1 \in 0 .. MaxAttempts
      BY <1>1, <2>2, ConnectionAssumption
    <3> QED
      BY <1>5, <2>2, <3>1 DEF BackoffEnds, Quiet, AsideStep, link
  <2>3. CASE ~disc /\ ~(attempts < MaxAttempts)
    BY <1>1, <1>5, <2>3, EmitFailedType DEF BackoffEnds, GivesUp, AsideStep, link
  <2> QED
    BY <2>1, <2>2, <2>3
<1>6. ASSUME NEW o \in Ops, EnsureReturns(o) PROVE AsideStep
  BY <1>1, <1>6 DEF EnsureReturns, Superseded, Quiet, AsideStep, link, beat
<1>7. ASSUME NEW o \in Ops,
             PauseEnds(o) \/ NotifyEnds(o) \/ RestoreEnds(o) \/ ProbeOk(o) \/ PingOk(o) \/ Tick(o)
      PROVE  AsideStep
  BY <1>1, <1>7 DEF PauseEnds, NotifyEnds, RestoreEnds, ProbeOk, PingOk, Tick, Quiet,
                    AsideStep, link, beat
<1>8. ASSUME NEW o \in Ops, AwaitEnds(o) PROVE AsideStep
  <2>1. CASE DoConnect(o, op[o].auto)
    <3>1. op[o].auto \in BOOLEAN
      BY <1>8, BusyType DEF AwaitEnds, Wakes, At, CInv
    <3> QED
      BY <1>2, <2>1, <3>1
  <2>2. CASE UNCHANGED <<link, beat>> /\ Quiet
    BY <1>1, <2>2 DEF Quiet, AsideStep, link, beat
  <2> QED
    BY <1>8, <2>1, <2>2 DEF AwaitEnds
<1>9. ASSUME NEW o \in Ops, PingFails(o) PROVE AsideStep
  <2>1. CASE strikes = 0 \/ Reentered
    BY <1>1, <1>9, <2>1 DEF PingFails, Quiet, AsideStep, link
  <2>2. CASE ~(strikes = 0 \/ Reentered)
    BY <1>3, <1>9, <2>2 DEF PingFails
  <2> QED
    BY <2>1, <2>2
<1>10. ASSUME (\E c \in Conns : GoesSilent(c)) \/ Disconnect PROVE AsideStep
  BY <1>1, <1>10 DEF GoesSilent, Disconnect, DropBrowser, Quiet, AsideStep, beat
<1>11. ASSUME NEW o \in Ops, Answer(o) PROVE AsideStep
  BY <1>2, <1>4, <1>5, <1>6, <1>7, <1>8, <1>9, <1>11, WsOpensAside, WsThrewAside
     DEF Answer, WsFails, ProbeFails
<1> QED
  BY <1>2, <1>3, <1>7, <1>10, <1>11 DEF Step, ForceReconnect, Connect, Lost

-----------------------------------------------------------------------------
(* The theorems.                                                             *)

(* CInv holds of every state of the connection; it says nothing of the late  *)
(* connections, the shared counter of the loops and the last event.          *)
THEOREM CInvHolds == Spec => []CInv
<1>1. Init => CInv
  <2> SUFFICES ASSUME Init PROVE CInv
    OBVIOUS
  <2>1. CoreType
    <3>1. {reconnecting, disc, timer, checking, quit, stale} \subseteq BOOLEAN
      BY Zenon DEF Init
    <3> QED
      BY <3>1 DEF Init, CoreType
  <2>2. \A o \in Ops : ~Busy(o)
    BY DEF Init, Busy
  <2>3. Shape /\ OneCurrent /\ Hooks /\ Vacant /\ PendingShape /\ QuietEnd
    BY <2>2 DEF Init, Shape, OneCurrent, Hooks, Vacant, PendingShape, QuietEnd
  <2>4. LoopAtWork /\ Charge /\ Watched /\ LoopWatched /\ CheckSeen
    BY <2>2 DEF Init, LoopAtWork, Charge, Watched, LoopWatched, CheckSeen, Reentered,
                IsConnected, Leads, At
  <2> QED
    BY <2>1, <2>3, <2>4 DEF CInv
<1>2. CInv /\ [Next]_vars => CInv'
  <2> SUFFICES ASSUME CInv, [Next]_vars PROVE CInv'
    OBVIOUS
  <2>1. ASSUME NEW o \in Ops, Answer(o) PROVE CInv'
    BY <2>1, EnsureReturnsKeeps, EnsureThrowsKeeps, WsOpensKeeps, WsThrewKeeps,
       PauseEndsKeeps, NotifyEndsKeeps, BackoffEndsKeeps, RestoreEndsKeeps, AwaitEndsKeeps,
       ProbeOkKeeps, ProbeFailsKeeps, PingOkKeeps, PingFailsKeeps DEF Answer, WsFails
  <2>2. ASSUME NEW o \in Ops, ForceReconnect(o) PROVE CInv'
    BY <2>2, DoForceKeeps DEF ForceReconnect, Begins, Outside
  <2>3. ASSUME NEW o \in Ops, NEW auto \in BOOLEAN, Connect(o, auto) PROVE CInv'
    BY <2>3, DoConnectKeeps DEF Connect, Begins, Outside
  <2>4. CASE UNCHANGED <<link, state, pending, flags, beat, op, quit, stale>>
    BY <2>4 DEF link, flags, beat, CInv, CoreType, Shape, OneCurrent, Hooks, Vacant,
                PendingShape, QuietEnd, LoopAtWork, Charge, Watched, LoopWatched, CheckSeen,
                Busy, At, Current, Leads, Reentered, IsConnected
  <2>5. ASSUME NEW o \in Ops, WsTimesOut(o) PROVE CInv'
    BY <2>5, WsThrewKeeps DEF WsTimesOut
  <2>6. ASSUME NEW c \in Conns, LateEnds(c) PROVE CInv'
    BY <2>4, <2>6 DEF LateEnds
  <2>7. CASE Step
    BY <2>1, <2>2, <2>3, <2>7, TickKeeps, LostKeeps, GoesSilentKeeps, DisconnectKeeps DEF Step
  <2>8. CASE UNCHANGED vars
    BY <2>4, <2>8 DEF vars
  <2> QED
    BY <2>5, <2>6, <2>7, <2>8 DEF Next
<1> QED
  BY <1>1, <1>2, PTL DEF Spec

(* A connection that opens after its timeout is never the client's own, and  *)
(* the counter of the loops stays within its limit.                          *)
THEOREM AsideHolds == Spec => []Aside
<1>1. Init => Aside
  <2>1. 0 \in 0 .. MaxAttempts
    BY ConnectionAssumption
  <2> QED
    BY <2>1, Zenon DEF Init, Aside
<1>2. CInv /\ Aside /\ [Next]_vars => Aside'
  <2> SUFFICES ASSUME CInv, Aside, [Next]_vars PROVE Aside'
    OBVIOUS
  <2>1. CASE Step /\ UNCHANGED late
    BY <2>1, StepAside, ConnectionAssumption DEF Aside, AsideStep
  <2>2. ASSUME NEW o \in Ops, WsTimesOut(o) PROVE Aside'
    <3>1. AsideStep
      BY <2>2, WsThrewAside DEF WsTimesOut
    <3>2. PICK c \in Fresh : late' = {c}
      BY <2>2 DEF WsTimesOut
    <3>3. late = {}
      BY <2>2 DEF WsTimesOut
    <3>4. browser' \in {browser, None}
      BY <2>2, <3>1 DEF WsTimesOut, WsThrew, Superseded, DropBrowser, link
    <3> QED
      BY <3>1, <3>2, <3>4, ConnectionAssumption DEF Aside, AsideStep, Fresh
  <2>3. ASSUME NEW c \in Conns, LateEnds(c) PROVE Aside'
    BY <2>3 DEF LateEnds, Quiet, Aside, link, beat
  <2>4. CASE UNCHANGED vars
    BY <2>4 DEF vars, link, beat, Aside
  <2> QED
    BY <2>1, <2>2, <2>3, <2>4 DEF Next
<1> QED
  BY <1>1, <1>2, CInvHolds, PTL DEF Spec

(* Type correctness of the connection: the states, the one pendingConnect,   *)
(* the retry counters and the heartbeat's strikes stay in range.             *)
THEOREM ConnectionTypeCorrect == Spec => []TypeOK
<1>1. CInv /\ Aside => TypeOK
  BY Zenon DEF CInv, CoreType, Aside, TypeOK
<1> QED
  BY <1>1, CInvHolds, AsideHolds, PTL

(* OneConnection: however many calls of connect, forceReconnect, disconnect  *)
(* and the heartbeat overlap, no connection but the browser has a listener,  *)
(* none but the browser is open unless it opened after its timeout, such a   *)
(* late one is never the browser, and the browser is not open while an       *)
(* attempt is reported.                                                      *)
THEOREM OnlyOneConnection == Spec => []OneConnection
<1>1. CInv /\ Aside => OneConnection
  BY DEF CInv, Hooks, Vacant, Aside, OneConnection, Open, IsConnected
<1> QED
  BY <1>1, CInvHolds, AsideHolds, PTL

(* NothingLeftBehind: pendingConnect is a call in progress, and the flag     *)
(* that holds tool calls back belongs to a loop of handleDisconnect.         *)
THEOREM AttemptsLeaveNothing == Spec => []NothingLeftBehind
<1>1. CInv => NothingLeftBehind
  BY DEF CInv, PendingShape, LoopAtWork, NothingLeftBehind
<1> QED
  BY <1>1, CInvHolds, PTL

(* InCharge: whoever says it is connecting or reconnecting has an attempt    *)
(* that is still current.                                                    *)
THEOREM SomebodyIsInCharge == Spec => []InCharge
<1>1. CInv => InCharge
  BY DEF CInv, Charge, Leads, InCharge
<1> QED
  BY <1>1, CInvHolds, PTL

(* Watched: a connection in use is reported as connected and has a           *)
(* heartbeat, but for the two cases the definition names.                    *)
THEOREM ConnectionIsWatched == Spec => []Watched
<1>1. CInv => Watched
  BY DEF CInv
<1> QED
  BY <1>1, CInvHolds, PTL

=============================================================================
