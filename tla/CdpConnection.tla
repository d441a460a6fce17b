---------------------------- MODULE CdpConnection ----------------------------
(***************************************************************************)
(* The connection of src/cdp/client.ts to Chrome: connect, forceReconnect, *)
(* the loop of handleDisconnect, disconnect and the heartbeat, which all   *)
(* work on one `browser`, one `connectionState` and one heartbeat timer    *)
(* and overlap at every await. A generation number tells an attempt that   *)
(* was superseded while it waited; only "is it still the current one" is   *)
(* ever asked of it, and that is what an operation keeps here.             *)
(*                                                                         *)
(* One action is one turn of the event loop. browser.disconnect() settles  *)
(* within the turn that calls it and rejects at once what waits for an     *)
(* answer of that browser. Which attempts fail is left to the environment. *)
(* Budgets only shorten the retries, `lastVerifiedAt` only saves probes,   *)
(* and the contents of the caches cleared are left out.                    *)
(***************************************************************************)
EXTENDS Naturals

CONSTANTS
  Ops,         (* bound: calls and heartbeat checks in progress at once     *)
  Conns,       (* bound: connections open or referred to, as numbers        *)
  MaxAttempts, (* maxReconnectAttempts, when it is finite                   *)
  MaxRetries,  (* maxConnectRetries of connectInternal                      *)
  None

ASSUME ConnectionAssumption ==
  /\ Conns \subseteq Nat /\ None \notin Ops \cup Conns
  /\ MaxAttempts \in Nat \ {0} /\ MaxRetries \in Nat \ {0}

VARIABLES
  browser,     (* this.browser                                              *)
  state,       (* this.connectionState                                      *)
  pending,     (* the call behind this.pendingConnect                       *)
  reconnecting,
  disc,        (* this.disconnectRequested                                  *)
  timer,       (* the heartbeat timer is armed                              *)
  strikes,     (* consecutiveHeartbeatFailures                              *)
  attempts,    (* reconnectAttempts, one for all loops of handleDisconnect  *)
  checking,    (* checkConnectionInFlight                                   *)
  conn,        (* each connection of the client                             *)
  hooked,      (* the connections with our listeners                        *)
  late,        (* the connections that opened after their timeout           *)
  op,          (* each operation in progress                                *)
  (* History. *)
  quit,        (* disconnect() came while an operation was in progress      *)
  stale,       (* a loop that was superseded gave up, and no connect() or   *)
               (* forceReconnect() has succeeded since                      *)
  alarm        (* the last step emitted reconnect_failed beside a live      *)
               (* connection                                                *)

link == <<browser, conn, hooked>>
flags == <<reconnecting, disc, timer>>
beat == <<strikes, attempts, checking>>
vars == <<link, late, state, pending, flags, beat, op, quit, stale, alarm>>

(* current: no later attempt was started; tries: passes of connectInternal;  *)
(* on: what is probed or waited for; tick: part of a heartbeat check.        *)
Op == [kind : {"connect", "force", "handle", "check"},
       pc : {"probe", "await", "ensure", "ws", "pause", "notify", "ping",
             "backoff", "restore"},
       current : BOOLEAN, auto : BOOLEAN, tries : 0 .. MaxRetries,
       on : Conns \cup Ops \cup {None}, tick : BOOLEAN]

(* A free slot is not mistaken for an operation. *)
ASSUME NoneAssumption == None \notin Op

Busy(o) == op[o] # None
At(o, pc) == Busy(o) /\ op[o].pc = pc

TypeOK ==
  /\ browser \in Conns \cup {None}
  /\ state \in {"disconnected", "connecting", "connected", "reconnecting"}
  /\ pending \in Ops \cup {None}
  /\ {reconnecting, disc, timer, checking, quit, stale, alarm} \subseteq BOOLEAN
  /\ strikes \in 0 .. 1 /\ attempts \in 0 .. MaxAttempts
  /\ conn \in [Conns -> {"open", "half", "closed"}]
  /\ hooked \subseteq Conns /\ late \subseteq Conns
  /\ op \in [Ops -> Op \cup {None}]

Init ==
  /\ browser = None /\ state = "disconnected" /\ pending = None
  /\ reconnecting = FALSE /\ disc = FALSE /\ timer = FALSE
  /\ strikes = 0 /\ attempts = 0 /\ checking = FALSE
  /\ conn = [c \in Conns |-> "closed"] /\ hooked = {} /\ late = {}
  /\ op = [o \in Ops |-> None]
  /\ quit = FALSE /\ stale = FALSE /\ alarm = FALSE

Current(o) == op[o].current
Reachable(c) == conn[c] = "open"

(* The WebSocket is open, whether the client knows of it or not. *)
Open(c) == conn[c] # "closed" \/ c \in late

(* The promise o waits for is settled: a probe of a connection that was      *)
(* closed is rejected, a connect() in progress has ended. o goes on before   *)
(* the next event is handled.                                                *)
Due(o) ==
  \/ (At(o, "probe") \/ At(o, "ping")) /\ conn[op[o].on] = "closed"
  \/ At(o, "await") /\ op[o].on = None

NoneDue == \A o \in Ops : ~Due(o)

(* The event loop goes on with o, which waits at pc. *)
Wakes(o, pc) == At(o, pc) /\ (Due(o) \/ NoneDue)

(* A new event, or a call from outside, on the free slot o. *)
Begins(o) == ~Busy(o) /\ NoneDue

IsConnected == browser # None /\ conn[browser] # "closed"

-----------------------------------------------------------------------------
(* connectInternal                                                           *)

(* Fault: the listeners of the replaced browser stay. *)
DropBrowserHooked ==
  /\ browser' = None
  /\ conn' = IF browser = None THEN conn ELSE [conn EXCEPT ![browser] = "closed"]
  /\ UNCHANGED hooked

(* removeAllListeners, disconnect, this.browser = null *)
DropBrowser ==
  /\ browser' = None
  /\ conn' = IF browser = None THEN conn ELSE [conn EXCEPT ![browser] = "closed"]
  /\ hooked' = hooked \ {browser}

(* A new attempt, on behalf of o, makes all others superseded. *)
NewGeneration(o, r) ==
  [q \in Ops |-> IF q = o THEN r
                 ELSE IF Busy(q) THEN [op[q] EXCEPT !.current = FALSE] ELSE None]

(* The call is over; a connect() that waited for it may go on. *)
EndOp(o) ==
  op' = [q \in Ops |-> CASE q = o -> None
                         [] q # o /\ At(q, "await") /\ op[q].on = o ->
                              [op[q] EXCEPT !.on = None]
                         [] OTHER -> op[q]]

(* The start of connectInternal. *)
Attempt(r) == [r EXCEPT !.pc = "ensure", !.tries = 1]

(* connectInternal has returned, the call goes on. *)
Waits(o, pc) == op' = [op EXCEPT ![o].pc = pc, ![o].tries = 0]

(* The `finally` of checkConnection, when o is part of a check. *)
EndCheck(o) == checking' = (checking /\ ~op[o].tick)

(* The `finally` of connect(): only its own promise is forgotten. *)
ForgetPending(o) == IF pending = o THEN None ELSE pending

(* reconnect_failed makes the session manager drop every target. *)
EmitFailed == alarm' = IsConnected

(* No reconnect_failed. *)
Quiet == alarm' = FALSE

(* Fault: a superseded loop returns as it is. *)
HandleSupersededQuietly(o) == UNCHANGED <<reconnecting>>

HandleSuperseded(o) == reconnecting' = FALSE

(* connectInternal returned false. *)
Superseded(o) ==
  /\ EndOp(o) /\ EndCheck(o)
  /\ CASE op[o].kind = "connect" ->
            pending' = ForgetPending(o) /\ UNCHANGED reconnecting
       [] op[o].kind = "force" -> UNCHANGED <<pending, reconnecting>>
       [] op[o].kind = "handle" -> HandleSuperseded(o) /\ UNCHANGED pending
  /\ UNCHANGED <<link, state, disc, timer, strikes, attempts, quit, stale>> /\ Quiet

(* Fault: the loop gives up without a word. *)
GivesUpSilently(o) ==
  /\ EndOp(o) /\ EndCheck(o)
  /\ reconnecting' = FALSE /\ attempts' = 0
  /\ UNCHANGED <<state, timer, stale>> /\ Quiet

(* The loop of handleDisconnect has made all its attempts. *)
GivesUp(o) ==
  /\ EndOp(o) /\ EndCheck(o)
  /\ state' = "disconnected" /\ reconnecting' = FALSE /\ timer' = FALSE
  /\ attempts' = 0
  /\ EmitFailed
  /\ stale' = (stale \/ ~Current(o))

(* The catch block of handleDisconnect: back off, or give up. *)
HandleThrew(o) ==
  IF attempts < MaxAttempts
  THEN /\ Waits(o, "backoff")
       /\ UNCHANGED <<state, reconnecting, timer, attempts, checking, stale>> /\ Quiet
  ELSE GivesUp(o)

(* connectInternal threw: only connect and forceReconnect look at the        *)
(* generation before they set the state.                                     *)
Threw(o) ==
  /\ CASE op[o].kind = "connect" ->
            /\ IF op[o].auto THEN Waits(o, "notify") ELSE EndOp(o)
            /\ pending' = IF op[o].auto THEN pending ELSE ForgetPending(o)
            /\ state' = IF Current(o) THEN "disconnected" ELSE state
            /\ UNCHANGED <<reconnecting, timer, attempts, checking, stale>> /\ Quiet
       [] op[o].kind = "force" ->
            /\ EndOp(o)
            /\ state' = IF Current(o) THEN "disconnected" ELSE state
            /\ EmitFailed
            /\ UNCHANGED <<pending, reconnecting, timer, attempts, checking, stale>>
       [] op[o].kind = "handle" -> HandleThrew(o) /\ UNCHANGED pending
  /\ UNCHANGED <<disc, strikes, quit>>

(* notifyInitialAutoLaunchFailure, awaited before connect() rethrows. *)
NotifyEnds(o) ==
  /\ Wakes(o, "notify")
  /\ EndOp(o) /\ pending' = ForgetPending(o)
  /\ UNCHANGED <<link, state, flags, beat, quit, stale>> /\ Quiet

EnsureReturns(o) ==
  /\ Wakes(o, "ensure")
  /\ IF Current(o)
     THEN /\ op' = [op EXCEPT ![o].pc = "ws"]
          /\ UNCHANGED <<link, state, pending, flags, beat, quit, stale>> /\ Quiet
     ELSE Superseded(o)

(* ensureChrome throws outside the try block: the generation is not read.    *)
(* Overlapping calls end independently: so they do while the launcher has a  *)
(* cached instance, which each call probes for itself; without one they      *)
(* share one launch (launchInFlight) and its end.                            *)
EnsureThrows(o) == Wakes(o, "ensure") /\ Threw(o) /\ UNCHANGED link

(* Fault: connect() leaves the heartbeat to its caller. *)
SucceedsUnwatched(o) ==
  CASE op[o].kind = "connect" ->
         /\ EndOp(o) /\ pending' = ForgetPending(o)
         /\ UNCHANGED <<reconnecting, strikes, attempts, timer>>
    [] op[o].kind = "force" ->
         /\ EndOp(o) /\ timer' = TRUE /\ reconnecting' = FALSE /\ strikes' = 0
         /\ UNCHANGED <<pending, attempts>>
    [] op[o].kind = "handle" ->
         /\ Waits(o, "restore") /\ reconnecting' = FALSE /\ attempts' = 0
         /\ UNCHANGED <<pending, timer, strikes>>

(* What each caller does once connected. *)
Succeeds(o) ==
  CASE op[o].kind = "connect" ->
         /\ EndOp(o) /\ timer' = TRUE /\ pending' = ForgetPending(o)
         /\ UNCHANGED <<reconnecting, strikes, attempts>>
    [] op[o].kind = "force" ->
         /\ EndOp(o) /\ timer' = TRUE /\ reconnecting' = FALSE /\ strikes' = 0
         /\ UNCHANGED <<pending, attempts>>
    [] op[o].kind = "handle" ->
         /\ Waits(o, "restore") /\ reconnecting' = FALSE /\ attempts' = 0
         /\ UNCHANGED <<pending, timer, strikes>>

(* The check after puppeteer.connect. *)
Usable(o) == Current(o)

(* Numbers for a new connection. They are all alike: a connection takes the  *)
(* lowest, a late one the highest.                                           *)
Fresh == {c \in Conns : ~Open(c) /\ c # browser
                        /\ \A o \in Ops : Busy(o) => op[o].on # c}

(* puppeteer.connect succeeds; a superseded connection is closed at once. *)
WsOpens(o) ==
  /\ Wakes(o, "ws")
  /\ \E c \in Fresh :
       /\ \A d \in Fresh : c <= d
       /\ IF Usable(o)
          THEN /\ browser' = c /\ hooked' = hooked \cup {c}
               /\ conn' = [conn EXCEPT ![c] = "open"]
               /\ state' = "connected"
               /\ Succeeds(o)
               /\ stale' = (stale /\ op[o].kind = "handle")
               /\ UNCHANGED <<disc, checking, quit>> /\ Quiet
          ELSE Superseded(o)

(* The catch block around puppeteer.connect. *)
WsThrew(o) ==
  IF ~Current(o) THEN Superseded(o)
  ELSE /\ DropBrowser
       /\ IF op[o].tries < MaxRetries
          THEN /\ op' = [op EXCEPT ![o].pc = "pause"]
               /\ UNCHANGED <<state, pending, flags, beat, quit, stale>> /\ Quiet
          ELSE Threw(o)

(* puppeteer.connect fails, or times out and never answers. *)
WsFails(o) == Wakes(o, "ws") /\ WsThrew(o)

(* The timeout wins the race, but puppeteer.connect is not cancelled and     *)
(* succeeds later: a Browser that nobody has and nobody closes. It is open   *)
(* from here on, since nobody waits for its answer. At most one at a time is *)
(* a bound.                                                                  *)
WsTimesOut(o) ==
  /\ Wakes(o, "ws") /\ late = {}
  /\ \E c \in Fresh : (\A d \in Fresh : d <= c) /\ late' = {c}
  /\ WsThrew(o)

(* The connection ends at Chrome's side. *)
LateEnds(c) ==
  /\ c \in late /\ NoneDue
  /\ late' = late \ {c}
  /\ UNCHANGED <<link, state, pending, flags, beat, op, quit, stale>> /\ Quiet

PauseEnds(o) ==
  /\ Wakes(o, "pause")
  /\ op' = [op EXCEPT ![o].pc = "ensure", ![o].tries = @ + 1]
  /\ UNCHANGED <<link, state, pending, flags, beat, quit, stale>> /\ Quiet

-----------------------------------------------------------------------------
(* connect, forceReconnect                                                   *)

NewOp(kind, auto) ==
  [kind |-> kind, pc |-> "ensure", current |-> TRUE, auto |-> auto, tries |-> 0,
   on |-> None, tick |-> FALSE]

(* A call that makes no attempt of its own yet. *)
Idle(kind, auto) == [NewOp(kind, auto) EXCEPT !.current = FALSE]

(* The body of connect(). A call that returns at once, or that shares the    *)
(* promise of another, has no step.                                          *)
DoConnect(o, auto) ==
  /\ CASE IsConnected ->
            /\ op' = [op EXCEPT ![o] =
                 [Idle("connect", FALSE) EXCEPT !.pc = "probe", !.on = browser]]
            /\ UNCHANGED <<state, pending, disc>>
       [] ~IsConnected /\ pending # None ->
            /\ op[pending].auto # auto
            /\ op' = [op EXCEPT ![o] =
                 [Idle("connect", auto) EXCEPT !.pc = "await", !.on = pending]]
            /\ UNCHANGED <<state, pending, disc>>
       [] OTHER ->
            /\ state' = "connecting" /\ pending' = o /\ disc' = FALSE
            /\ op' = NewGeneration(o, Attempt(NewOp("connect", auto)))
  /\ UNCHANGED <<link, reconnecting, timer, beat, quit, stale>> /\ Quiet

Connect(o, auto) == Begins(o) /\ DoConnect(o, auto)

(* The call with the other autoLaunch has settled: enter again. *)
AwaitEnds(o) ==
  /\ Wakes(o, "await") /\ op[o].on = None
  /\ \/ DoConnect(o, op[o].auto)
     \/ /\ IsConnected \/ (pending # None /\ op[pending].auto = op[o].auto)
        /\ EndOp(o)
        /\ UNCHANGED <<link, state, pending, flags, beat, quit, stale>> /\ Quiet

(* The body of forceReconnect(). Its autoLaunch only decides whether         *)
(* ensureChrome can succeed.                                                 *)
DoForce(o) ==
  /\ pending' = None /\ timer' = FALSE
  /\ DropBrowser
  /\ IF disc
     THEN op' = NewGeneration(o, None) /\ UNCHANGED state
     ELSE /\ state' = "reconnecting"
          /\ op' = NewGeneration(o, Attempt(NewOp("force", FALSE)))
  /\ UNCHANGED <<disc, reconnecting, beat, quit, stale>> /\ Quiet

(* forceReconnect(): by the watchdog after a relaunch, by the server before  *)
(* it retries a tool, by a heartbeat tick that comes far too late.           *)
ForceReconnect(o) == Begins(o) /\ DoForce(o)

ProbeOk(o) ==
  /\ Wakes(o, "probe") /\ Reachable(op[o].on)
  /\ EndOp(o)
  /\ UNCHANGED <<link, state, pending, flags, beat, quit, stale>> /\ Quiet

(* The probe fails or its browser was dropped meanwhile. *)
ProbeFails(o) ==
  /\ Wakes(o, "probe") /\ ~Reachable(op[o].on)
  /\ DoForce(o)

-----------------------------------------------------------------------------
(* handleDisconnect                                                          *)

Reentered == state \in {"reconnecting", "connecting"}

(* From its first line to the first await; `tick`: called by the heartbeat.  *)
(* After a disconnect() the loop is not entered.                             *)
Handle(o, tick) ==
  LET r == [NewOp("handle", FALSE) EXCEPT !.tick = tick] IN
  /\ DropBrowser
  /\ IF disc
     THEN /\ op' = NewGeneration(o, None)
          /\ state' = "disconnected" /\ reconnecting' = FALSE /\ timer' = FALSE
          /\ attempts' = 0 /\ checking' = (checking /\ ~tick)
     ELSE /\ state' = "reconnecting" /\ reconnecting' = TRUE /\ attempts' = 1
          /\ op' = NewGeneration(o, Attempt(r))
          /\ UNCHANGED <<timer, checking>>
  /\ UNCHANGED <<disc, pending, quit, stale>> /\ Quiet

(* Another loop may have used up the attempts meanwhile. *)
BackoffEnds(o) ==
  /\ Wakes(o, "backoff")
  /\ CASE disc ->
            /\ EndOp(o) /\ EndCheck(o)
            /\ UNCHANGED <<state, reconnecting, timer, attempts, stale>> /\ Quiet
       [] ~disc /\ attempts < MaxAttempts ->
            /\ op' = [op EXCEPT ![o] = Attempt(op[o])] /\ attempts' = attempts + 1
            /\ UNCHANGED <<state, reconnecting, timer, checking, stale>> /\ Quiet
       [] OTHER -> GivesUp(o)
  /\ UNCHANGED <<link, pending, disc, strikes, quit>>

(* The cookies are restored before the call returns. *)
RestoreEnds(o) ==
  /\ Wakes(o, "restore")
  /\ EndOp(o) /\ EndCheck(o)
  /\ UNCHANGED <<link, state, pending, flags, strikes, attempts, quit, stale>> /\ Quiet

(* A connection ends, and its `disconnected` listener calls handleDisconnect *)
(* on whatever is the browser then. No other connection has a listener, and  *)
(* the browser none while Reentered (OneConnection).                         *)
Lost(o, c) ==
  /\ Begins(o) /\ c \in hooked /\ conn[c] # "closed" /\ ~Reentered
  /\ Handle(o, FALSE) /\ UNCHANGED strikes

(* A half-open connection: isConnected() is still true. *)
GoesSilent(c) ==
  /\ Reachable(c) /\ NoneDue
  /\ conn' = [conn EXCEPT ![c] = "half"]
  /\ UNCHANGED <<browser, hooked, state, pending, flags, beat, op, quit, stale>> /\ Quiet

-----------------------------------------------------------------------------
(* The heartbeat, and disconnect                                             *)

(* A tick of the timer starts a check. *)
Tick(o) ==
  /\ Begins(o) /\ timer /\ ~checking /\ IsConnected
  /\ checking' = TRUE
  /\ op' = [op EXCEPT ![o] =
       [Idle("check", FALSE) EXCEPT !.pc = "ping", !.on = browser, !.tick = TRUE]]
  /\ UNCHANGED <<link, state, pending, flags, strikes, attempts, quit, stale>> /\ Quiet

PingOk(o) ==
  /\ Wakes(o, "ping") /\ Reachable(op[o].on)
  /\ strikes' = 0
  /\ EndOp(o) /\ EndCheck(o)
  /\ UNCHANGED <<link, state, pending, flags, attempts, quit, stale>> /\ Quiet

(* Fault: the strikes are not taken back. *)
PingFailsOn(o) ==
  /\ Wakes(o, "ping") /\ ~Reachable(op[o].on)
  /\ strikes' = strikes + 1
  /\ IF strikes = 0 \/ Reentered
     THEN /\ EndOp(o) /\ EndCheck(o)
          /\ UNCHANGED <<link, state, pending, flags, attempts, quit, stale>> /\ Quiet
     ELSE Handle(o, TRUE)

(* Two strikes in a row end the connection, whichever it is by then. *)
PingFails(o) ==
  /\ Wakes(o, "ping") /\ ~Reachable(op[o].on)
  /\ strikes' = (strikes + 1) % 2
  /\ IF strikes = 0 \/ Reentered
     THEN /\ EndOp(o) /\ EndCheck(o)
          /\ UNCHANGED <<link, state, pending, flags, attempts, quit, stale>> /\ Quiet
     ELSE Handle(o, TRUE)

Disconnect ==
  /\ NoneDue
  /\ disc' = TRUE /\ timer' = FALSE
  /\ DropBrowser
  /\ state' = IF browser = None THEN state ELSE "disconnected"
  /\ quit' = (quit \/ \E o \in Ops : Busy(o))
  /\ UNCHANGED <<pending, reconnecting, beat, op, stale>> /\ Quiet

-----------------------------------------------------------------------------

Answer(o) ==
  \/ EnsureReturns(o) \/ EnsureThrows(o) \/ WsOpens(o) \/ WsFails(o)
  \/ PauseEnds(o) \/ NotifyEnds(o) \/ BackoffEnds(o) \/ RestoreEnds(o)
  \/ AwaitEnds(o) \/ ProbeOk(o) \/ ProbeFails(o) \/ PingOk(o) \/ PingFails(o)

Step ==
  \/ \E o \in Ops :
       \/ Answer(o) \/ ForceReconnect(o) \/ Tick(o)
       \/ \E auto \in BOOLEAN : Connect(o, auto)
       \/ \E c \in Conns : Lost(o, c)
  \/ \E c \in Conns : GoesSilent(c)
  \/ Disconnect

Next ==
  \/ Step /\ UNCHANGED late
  \/ \E o \in Ops : WsTimesOut(o)
  \/ \E c \in Conns : LateEnds(c)

Spec == Init /\ [][Next]_vars

-----------------------------------------------------------------------------
(* Properties                                                                *)

(* A connection that was replaced is closed and has no listener left whose   *)
(* event could tear down its successor, however the attempts overlapped; and *)
(* a new one is made only when the client has none open. The one exception   *)
(* to "closed" is a puppeteer.connect that answers after its timeout: nobody *)
(* closes its connection, but it never becomes the client's own and never    *)
(* has a listener, whatever the client does meanwhile.                       *)
OneConnection ==
  /\ \A c \in Conns : c # browser => c \notin hooked /\ (Open(c) => c \in late)
  /\ browser \notin late
  /\ Reentered => ~IsConnected

(* A connection in use is reported as connected and watched by a heartbeat,  *)
(* but for a disconnect() in the middle of an attempt, and for a loop of     *)
(* handleDisconnect that gives up after it was superseded, until the next    *)
(* connect() or forceReconnect() succeeds.                                   *)
Watched ==
  IsConnected /\ ~quit /\ ~stale => state = "connected" /\ timer

(* An attempt that was superseded leaves nothing behind: pendingConnect is a *)
(* call in progress (a stale promise would hold up or answer every later     *)
(* connect()), and the flag that holds tool calls back is raised only while  *)
(* a loop of handleDisconnect is in progress, unless disconnect() ended it.  *)
NothingLeftBehind ==
  /\ pending # None => Busy(pending)
  /\ reconnecting => quit \/ \E o \in Ops : Busy(o) /\ op[o].kind = "handle"

(* A client that is connecting or reconnecting has an attempt that is still  *)
(* current and will say how it ended: handleDisconnect does nothing in these *)
(* states, so without one the connection would be lost for good.             *)
InCharge ==
  Reentered => quit \/ \E o \in Ops : Busy(o) /\ Current(o)

(* The session manager forgets every target on reconnect_failed, because     *)
(* "Chrome is gone": no connection is in use when it is emitted.             *)
FailureIsReal == ~alarm

=============================================================================
