------------------------- MODULE WorkflowEngineProofs -------------------------
(***************************************************************************)
(* The invariants of WorkflowEngine, proved for every number of workers,   *)
(* calls and restarts.                                                     *)
(***************************************************************************)
EXTENDS WorkflowEngine, FiniteSetTheorems, TLAPS

(* The calls of completeWorker in progress at one of the stages. *)
At(c, stage) == call[c] # None /\ call[c].stage = stage

(* An orchestration is well-formed and counts what its statuses say. *)
Sound(o) == o \in Orch /\ CountersMatch(o)

(* A call has an orchestration to write once it has accounted its worker. *)
SnapOK(r) == IF r.stage \in {"pad", "lock"} THEN r.snap = None ELSE Sound(r.snap)

(* The memory, the file and what a call is to write are sound. *)
Books ==
  /\ mem # None => Sound(mem)
  /\ file # None => Sound(file)
  /\ \A c \in Callers : call[c] # None => SnapOK(call[c])

(* The lock is held over awaits by the file fallback only, and the fallback  *)
(* is for the time there is no memory.                                       *)
LockKept ==
  /\ \A c \in Callers : At(c, "fallback") <=> holder = c
  /\ mem # None => holder = None

(* The memory lives once: between the set-up and the cleanup or the restart. *)
Life ==
  /\ mem # None => cleanup \in {"no", "deleting"} /\ file # None /\ restarts = 0
  /\ restarts > 0 /\ cleanup = "no" => file # None
  /\ cleanup = "deleting" => mem # None \/ file # None
  /\ mem = None => timer = {} /\ ~gtimer /\ \A w \in Workers : rt[w] = None
  /\ mem = None /\ file = None /\ cleanup = "no" =>
       /\ \A w \in Workers : forced[w] = 0
       /\ \A c \in Callers : call[c] = None
       /\ holder = None /\ global = None

(* A worker's timeout is armed exactly while it is watched and nobody has    *)
(* forced it.                                                                *)
Armed(w) == rt[w] # None /\ ~rt[w].timedOut

Timers ==
  \A w \in Workers :
    /\ w \in timer <=> Armed(w)
    /\ Armed(w) => forced[w] = 0

(* What is so of every worker while the workflow is in memory. *)
Worker(w) ==
  /\ forced[w] <= 1
  /\ rt[w] = None => IsEnd(mem.stat[w])
  /\ rt[w] # None /\ ~Armed(w) /\ ~IsEnd(mem.stat[w]) => call[<<"force", w>>] # None
  /\ Armed(w) => call[<<"force", w>>] = None
  /\ call[<<"again", w>>] = None
  /\ global # None =>
       /\ w \in global.todo => rt[w] # None
       /\ Armed(w) /\ ~IsEnd(mem.stat[w]) => w \in global.todo

Watched == mem # None => \A w \in Workers : Worker(w)

(* A worker is written behind after it has ended. *)
Written ==
  mem # None => \A c \in Callers : At(c, "write") => IsEnd(mem.stat[c[2]])

(* The global timeout comes once, and forces "again" those it takes off its  *)
(* list.                                                                     *)
Swept ==
  /\ global # None => ~gtimer
  /\ \A w \in Workers :
       call[<<"again", w>>] # None => ~gtimer /\ (global # None => w \notin global.todo)

(* After a restart nothing is written behind, and the call in the fallback   *)
(* has read what the others reported.                                        *)
Fallback ==
  /\ reported # {} => restarts > 0
  /\ restarts > 0 => \A c \in Callers : ~At(c, "write")
  /\ \A c \in Callers :
       At(c, "fallback") => \A w \in reported \cup {c[2]} : IsEnd(call[c].snap.stat[w])

WInv ==
  /\ TypeOK /\ Books /\ LockKept /\ Life /\ Timers /\ Watched /\ Written /\ Swept
  /\ Fallback /\ FallbackKept
-----------------------------------------------------------------------------
(* The counters                                                              *)

OkSet(stat) == {w \in Workers : Ok(stat[w])}
FailSet(stat) == {w \in Workers : stat[w] = "FAIL"}

(* Taking a worker into, or out of, a set of workers moves its size by one. *)
LEMMA OneMore ==
  ASSUME NEW S \in SUBSET Workers, NEW w \in Workers
  PROVE  /\ Cardinality(S) \in 0 .. Cardinality(Workers)
         /\ w \notin S => Cardinality(S \cup {w}) = Cardinality(S) + 1
         /\ w \in S => Cardinality(S \ {w}) = Cardinality(S) - 1
<1>1. IsFiniteSet(Workers) /\ IsFiniteSet(S)
  BY WorkflowAssumption, FS_Subset
<1>2. Cardinality(S) \in Nat /\ Cardinality(Workers) \in Nat
  BY <1>1, FS_CardinalityType
<1>3. Cardinality(S) <= Cardinality(Workers)
  BY <1>1, FS_Subset
<1>4. Cardinality(S \cup {w}) = IF w \in S THEN Cardinality(S) ELSE Cardinality(S) + 1
  BY <1>1, FS_AddElement
<1>5. Cardinality(S \ {w}) = IF w \in S THEN Cardinality(S) - 1 ELSE Cardinality(S)
  BY <1>1, FS_RemoveElement
<1> QED  BY <1>2, <1>3, <1>4, <1>5

(* Accounting a completion keeps an orchestration sound: the counters follow *)
(* the status of the worker from whatever it was to what it becomes.         *)
LEMMA AccountSound ==
  ASSUME NEW o, Sound(o), NEW w \in Workers, NEW s \in EndStatus
  PROVE  /\ Sound(Account(o, w, s))
         /\ Account(o, w, s).stat = [o.stat EXCEPT ![w] = s]
<1> DEFINE stat == [o.stat EXCEPT ![w] = s]
           n == Count(o, w, s)
           N == Cardinality(Workers)
<1>1. o \in Orch /\ CountersMatch(o)
  BY DEF Sound
<1>2. /\ o.stat \in [Workers -> {"INIT"} \cup EndStatus]
      /\ o.completed = Cardinality(OkSet(o.stat)) /\ o.failed = Cardinality(FailSet(o.stat))
  BY <1>1 DEF Orch, CountersMatch, OkSet, FailSet
<1>3. stat \in [Workers -> {"INIT"} \cup EndStatus]
  BY <1>2
<1>4. /\ OkSet(stat) = IF Ok(s) THEN OkSet(o.stat) \cup {w} ELSE OkSet(o.stat) \ {w}
      /\ FailSet(stat) = IF s = "FAIL" THEN FailSet(o.stat) \cup {w} ELSE FailSet(o.stat) \ {w}
  BY <1>2 DEF OkSet, FailSet
<1>5. /\ w \in OkSet(o.stat) <=> Ok(o.stat[w])
      /\ w \in FailSet(o.stat) <=> o.stat[w] = "FAIL"
  BY DEF OkSet, FailSet
<1>6. /\ OkSet(o.stat) \in SUBSET Workers /\ FailSet(o.stat) \in SUBSET Workers
      /\ OkSet(stat) \in SUBSET Workers /\ FailSet(stat) \in SUBSET Workers
  BY DEF OkSet, FailSet
<1>7. /\ Cardinality(OkSet(stat)) \in 0 .. N /\ Cardinality(FailSet(stat)) \in 0 .. N
      /\ Cardinality(OkSet(o.stat)) \in 0 .. N /\ Cardinality(FailSet(o.stat)) \in 0 .. N
      /\ N \in Nat
  BY <1>6, OneMore, WorkflowAssumption, FS_CardinalityType
<1>8. o.stat[w] \in {"INIT", "SUCCESS", "PARTIAL", "FAIL"} /\ s \in {"SUCCESS", "PARTIAL", "FAIL"}
  BY <1>2 DEF EndStatus
<1>9. n.completed = Cardinality(OkSet(stat))
  <2>1. CASE Ok(o.stat[w]) /\ Ok(s)
    <3>1. OkSet(stat) = OkSet(o.stat)
      BY <2>1, <1>4, <1>5
    <3> QED  BY <2>1, <3>1, <1>2, <1>8 DEF Count, Ok, IsEnd, EndStatus
  <2>2. CASE Ok(o.stat[w]) /\ ~Ok(s)
    <3>1. Cardinality(OkSet(stat)) = Cardinality(OkSet(o.stat)) - 1
      BY <2>2, <1>4, <1>5, <1>6, OneMore
    <3> QED  BY <2>2, <3>1, <1>2, <1>8 DEF Count, Ok, IsEnd, EndStatus
  <2>3. CASE ~Ok(o.stat[w]) /\ Ok(s)
    <3>1. Cardinality(OkSet(stat)) = Cardinality(OkSet(o.stat)) + 1
      BY <2>3, <1>4, <1>5, <1>6, OneMore
    <3> QED  BY <2>3, <3>1, <1>2, <1>8 DEF Count, Ok, IsEnd, EndStatus
  <2>4. CASE ~Ok(o.stat[w]) /\ ~Ok(s)
    <3>1. OkSet(stat) = OkSet(o.stat)
      BY <2>4, <1>4, <1>5
    <3> QED  BY <2>4, <3>1, <1>2, <1>8 DEF Count, Ok, IsEnd, EndStatus
  <2> QED  BY <2>1, <2>2, <2>3, <2>4
<1>10. n.failed = Cardinality(FailSet(stat))
  <2>1. CASE o.stat[w] = "FAIL" /\ s = "FAIL"
    <3>1. FailSet(stat) = FailSet(o.stat)
      BY <2>1, <1>4, <1>5
    <3> QED  BY <2>1, <3>1, <1>2, <1>8 DEF Count, Ok, IsEnd, EndStatus
  <2>2. CASE o.stat[w] = "FAIL" /\ s # "FAIL"
    <3>1. Cardinality(FailSet(stat)) = Cardinality(FailSet(o.stat)) - 1
      BY <2>2, <1>4, <1>5, <1>6, OneMore
    <3> QED  BY <2>2, <3>1, <1>2, <1>8 DEF Count, Ok, IsEnd, EndStatus
  <2>3. CASE o.stat[w] # "FAIL" /\ s = "FAIL"
    <3>1. Cardinality(FailSet(stat)) = Cardinality(FailSet(o.stat)) + 1
      BY <2>3, <1>4, <1>5, <1>6, OneMore
    <3> QED  BY <2>3, <3>1, <1>2, <1>8 DEF Count, Ok, IsEnd, EndStatus
  <2>4. CASE o.stat[w] # "FAIL" /\ s # "FAIL"
    <3>1. FailSet(stat) = FailSet(o.stat)
      BY <2>4, <1>4, <1>5
    <3> QED  BY <2>4, <3>1, <1>2, <1>8 DEF Count, Ok, IsEnd, EndStatus
  <2> QED  BY <2>1, <2>2, <2>3, <2>4
<1>11. Overall(stat, n.failed) \in {"RUNNING", "COMPLETED", "PARTIAL", "FAILED"}
  BY DEF Overall
<1> HIDE DEF stat, n, N
<1>12. Account(o, w, s) = [o EXCEPT !.stat = stat, !.completed = n.completed,
                                    !.failed = n.failed, !.overall = Overall(stat, n.failed)]
  BY DEF Account, stat, n
<1>13. /\ Account(o, w, s) \in Orch /\ Account(o, w, s).stat = stat
       /\ Account(o, w, s).completed = n.completed /\ Account(o, w, s).failed = n.failed
       /\ Account(o, w, s).overall = Overall(stat, n.failed)
  BY <1>1, <1>3, <1>7, <1>9, <1>10, <1>11, <1>12 DEF Orch, N
<1>14. CountersMatch(Account(o, w, s))
  BY <1>9, <1>10, <1>13 DEF CountersMatch, OkSet, FailSet
<1> QED  BY <1>13, <1>14 DEF Sound, stat

-----------------------------------------------------------------------------
(* Calls                                                                     *)

(* The calls a worker may have. *)
LEMMA CallerFacts ==
  /\ \A w \in Workers, by \in {"agent", "force", "again"} :
       <<by, w>> \in Callers /\ <<by, w>>[1] = by /\ <<by, w>>[2] = w
  /\ \A c \in Callers : /\ c[1] \in {"agent", "force", "again"} /\ c[2] \in Workers
                        /\ c = <<c[1], c[2]>> /\ c # None
BY NoneAssumption DEF Callers, Forcers

(* A completion that begins is well-formed and has nothing to write. *)
LEMMA BeginFacts ==
  ASSUME NEW status \in EndStatus, NEW data \in Data \cup {None}
  PROVE  /\ Begin(status, data) \in Completion /\ Begin(status, data) # None
         /\ Begin(status, data).stage = "pad" /\ SnapOK(Begin(status, data))
<1>1. Begin(status, data) \in Completion
  BY DEF Begin, Completion
<1> QED  BY <1>1, NoneAssumption DEF Begin, SnapOK

(* What a call in progress is. *)
LEMMA CallTyped ==
  ASSUME TypeOK, NEW c \in Callers, call[c] # None
  PROVE  /\ call[c] \in Completion
         /\ call[c].status \in EndStatus /\ call[c].data \in Data \cup {None}
         /\ call[c].stage \in {"pad", "lock", "write", "fallback"}
         /\ call[c].snap \in Orch \cup {None}
BY DEF TypeOK, Completion

(* A call goes to stage pad or lock, or returns, without having been in the  *)
(* fallback: the parts of the invariant that follow the calls stay.          *)
LEMMA QuietCall ==
  ASSUME WInv, NEW c \in Callers, NEW r,
         r # None => r.stage \in {"pad", "lock"} /\ SnapOK(r),
         call' = [call EXCEPT ![c] = r],
         ~At(c, "fallback"),
         UNCHANGED <<mem, holder, restarts, reported>>
  PROVE  /\ \A d \in Callers : call'[d] = IF d = c THEN r ELSE call[d]
         /\ (\A d \in Callers : call[d] # None => SnapOK(call[d]))'
         /\ LockKept' /\ Written' /\ Fallback'
<1>1. \A d \in Callers : call'[d] = IF d = c THEN r ELSE call[d]
  BY DEF WInv, TypeOK
<1>2. /\ ~(At(c, "fallback"))' /\ ~(At(c, "write"))'
      /\ \A d \in Callers \ {c} : /\ At(d, "fallback")' <=> At(d, "fallback")
                                 /\ At(d, "write")' <=> At(d, "write")
  BY <1>1 DEF At
<1>3. (\A d \in Callers : call[d] # None => SnapOK(call[d]))'
  BY <1>1 DEF WInv, Books, SnapOK, Sound, CountersMatch
<1>4. LockKept'
  BY <1>1 DEF WInv, LockKept, At
<1>5. Written'
  BY <1>1 DEF WInv, Written, At
<1>6. Fallback'
  <2>1. ASSUME NEW d \in Callers, At(d, "fallback")'
        PROVE  \A w \in reported \cup {d[2]} : IsEnd(call'[d].snap.stat[w])
    <3>1. d # c /\ At(d, "fallback") /\ call'[d] = call[d]
      BY <2>1, <1>1 DEF At
    <3> QED  BY <3>1 DEF WInv, Fallback
  <2>2. ASSUME restarts > 0, NEW d \in Callers  PROVE ~At(d, "write")'
    <3>1. ~At(d, "write")
      BY <2>2 DEF WInv, Fallback
    <3> QED  BY <3>1, <1>1 DEF At
  <2>3. \A d \in Callers :
          At(d, "fallback")' => \A w \in reported \cup {d[2]} : IsEnd(call'[d].snap.stat[w])
    BY <2>1
  <2> QED  BY <2>2, <2>3 DEF WInv, Fallback
<1> QED  BY <1>1, <1>3, <1>4, <1>5, <1>6

-----------------------------------------------------------------------------
(* Forcing                                                                   *)

(* The global timeout takes w off its list. *)
TakenOff(w) ==
  /\ global # None /\ w \in global.todo
  /\ global' \in Sweep /\ global'.todo = global.todo \ {w}

(* forceCompleteWorker, by whomever: of the worker's timeout or the breaker, *)
(* which need a watched worker, or of the global timeout, which takes the    *)
(* worker off its list.                                                      *)
LEMMA ForceStep ==
  ASSUME WInv, NEW w \in Workers, ForceComplete(w),
         (global' = global /\ Armed(w)) \/ TakenOff(w),
         UNCHANGED <<mem, file, holder, gtimer, cleanup, restarts, reported>>
  PROVE  /\ rt' \in [Workers -> Runtime \cup {None}] /\ timer' \subseteq Workers
         /\ call' \in [Callers -> Completion \cup {None}] /\ forced' \in [Workers -> Nat]
         /\ Books' /\ LockKept' /\ Life' /\ Timers' /\ Watched' /\ Written' /\ Swept'
         /\ Fallback' /\ FallbackKept'
<1> DEFINE b == Begin("PARTIAL", None)
<1>1. /\ TypeOK /\ Books /\ LockKept /\ Life /\ Timers /\ Watched /\ Written /\ Swept
      /\ Fallback /\ FallbackKept
  BY DEF WInv
<1>2. Armed(w) => mem # None
  BY <1>1 DEF Armed, Life
<1>3. global' # None => global # None /\ (\A v \in Workers \ {w} : v \in global'.todo <=> v \in global.todo)
  BY NoneAssumption DEF TakenOff
<1>4. mem = None /\ file = None /\ cleanup = "no" => FALSE
  BY <1>1, <1>2 DEF Life, TakenOff
<1>5. FallbackKept'
  BY <1>1 DEF FallbackKept
<1>6. CASE rt[w] # None /\ rt[w].timedOut
  <2>1. UNCHANGED <<rt, timer, call, forced>> /\ ~Armed(w)
    BY <1>6 DEF ForceComplete, Armed
  <2>2. TakenOff(w)
    BY <2>1
  <2>3. Books' /\ LockKept' /\ Timers' /\ Written' /\ Fallback'
    BY <1>1, <2>1 DEF Books, LockKept, Timers, Armed, Written, Fallback, At, SnapOK, Sound, CountersMatch
  <2>4. Life'
    BY <1>1, <1>4, <2>1 DEF Life
  <2>5. Swept'
    BY <1>1, <2>1, <2>2 DEF Swept, TakenOff
  <2>6. ASSUME mem # None, NEW v \in Workers  PROVE Worker(v)'
    <3>1. Worker(v)
      BY <1>1, <2>6 DEF Watched
    <3>2. Armed(v)' <=> Armed(v)
      BY <2>1 DEF Armed
    <3> QED  BY <2>1, <2>2, <3>1, <3>2 DEF Worker, TakenOff
  <2> QED  BY <1>1, <1>5, <2>1, <2>3, <2>4, <2>5, <2>6 DEF Watched, TypeOK
<1>7. CASE ~(rt[w] # None /\ rt[w].timedOut)
  <2> DEFINE c == Forcing(w)
  <2>1. PICK d \in Callers : d = c
    BY CallerFacts DEF Forcing
  <2>2. d = IF call[<<"force", w>>] = None THEN <<"force", w>> ELSE <<"again", w>>
    BY <2>1 DEF Forcing
  <2> HIDE DEF c
  <2>3. /\ rt' = IF rt[w] = None THEN rt ELSE [rt EXCEPT ![w].timedOut = TRUE]
        /\ timer' = timer \ {w}
        /\ forced' = [forced EXCEPT ![w] = @ + 1]
        /\ call' = [call EXCEPT ![d] = b]
    BY <1>7, <2>1 DEF ForceComplete, c
  <2>4. call[d] = None
    <3>1. CASE call[<<"force", w>>] = None
      BY <2>2, <3>1
    <3>2. CASE call[<<"force", w>>] # None
      <4>1. ~Armed(w)
        <5>1. CASE mem = None
          BY <1>2, <5>1
        <5>2. CASE mem # None
          BY <3>2, <5>2, <1>1 DEF Watched, Worker
        <5> QED  BY <5>1, <5>2
      <4>2. call[<<"again", w>>] = None
        BY <4>1, <1>1 DEF Swept, TakenOff
      <4> QED  BY <3>2, <4>2, <2>2
    <3> QED  BY <3>1, <3>2
  <2>5. b \in Completion /\ b # None /\ b.stage = "pad" /\ SnapOK(b)
    BY BeginFacts DEF EndStatus
  <2> HIDE DEF b
  <2>6. ~At(d, "fallback")
    BY <2>4 DEF At
  <2>7. /\ \A e \in Callers : call'[e] = IF e = d THEN b ELSE call[e]
        /\ (\A e \in Callers : call[e] # None => SnapOK(call[e]))'
        /\ LockKept' /\ Written' /\ Fallback'
    BY <2>3, <2>5, <2>6, QuietCall
  <2>8. Books'
    BY <1>1, <2>7 DEF Books, Sound, CountersMatch
  <2>9. call' \in [Callers -> Completion \cup {None}]
    BY <1>1, <2>3, <2>5 DEF TypeOK
  <2>10. /\ rt \in [Workers -> Runtime \cup {None}] /\ forced \in [Workers -> Nat]
         /\ timer \subseteq Workers
    BY <1>1 DEF TypeOK
  <2>11. /\ rt' \in [Workers -> Runtime \cup {None}]
         /\ ~Armed(w)' /\ (rt[w] = None <=> rt'[w] = None)
         /\ \A v \in Workers \ {w} : rt'[v] = rt[v]
    <3>1. CASE rt[w] = None
      BY <2>3, <2>10, <3>1 DEF Armed
    <3>2. CASE rt[w] # None
      <4>1. rt[w] \in Runtime
        BY <2>10, <3>2
      <4> DEFINE q == [rt[w] EXCEPT !.timedOut = TRUE]
      <4>2. q \in Runtime /\ q.timedOut = TRUE /\ q # None
        BY <4>1, NoneAssumption DEF Runtime
      <4>3. rt' = [rt EXCEPT ![w] = q]
        BY <2>3, <3>2
      <4> HIDE DEF q
      <4> QED  BY <2>10, <3>2, <4>2, <4>3 DEF Armed
    <3> QED  BY <3>1, <3>2
  <2>12. /\ forced' \in [Workers -> Nat] /\ forced'[w] = forced[w] + 1
         /\ \A v \in Workers \ {w} : forced'[v] = forced[v]
    BY <2>3, <2>10
  <2>13. \A v \in Workers \ {w} : Armed(v)' <=> Armed(v)
    BY <2>11 DEF Armed
  <2>14. Timers'
    BY <1>1, <2>3, <2>11, <2>12, <2>13 DEF Timers
  <2>15. mem = None => rt[w] = None /\ timer' = {}
    BY <1>1, <2>3 DEF Life
  <2>16. Life'
    BY <1>1, <1>4, <2>15, <2>3 DEF Life
  <2>17. Swept'
    <3>1. global' # None => ~gtimer
      BY <1>1, <1>3 DEF Swept
    <3>2. ASSUME NEW v \in Workers, call'[<<"again", v>>] # None
          PROVE  ~gtimer /\ (global' # None => v \notin global'.todo)
      <4>1. CASE call[<<"again", v>>] # None
        BY <4>1, <1>1, <1>3, NoneAssumption DEF Swept, TakenOff
      <4>2. CASE call[<<"again", v>>] = None
        <5>1. d = <<"again", v>>
          BY <3>2, <4>2, <2>7, CallerFacts
        <5>2. v = w /\ call[<<"force", w>>] # None
          BY <5>1, <2>2, CallerFacts
        <5>3. ~Armed(w)
          BY <5>2, <1>1, <1>2 DEF Watched, Worker
        <5> QED  BY <5>2, <5>3, <1>1 DEF Swept, TakenOff
      <4> QED  BY <4>1, <4>2
    <3> QED  BY <3>1, <3>2 DEF Swept
  <2>18. ASSUME mem # None, NEW v \in Workers  PROVE Worker(v)'
    <3>1. Worker(v) /\ Worker(w)
      BY <1>1, <2>18 DEF Watched
    <3>2. Armed(w)
      BY <3>1, <1>7 DEF Worker, Armed, TakenOff
    <3>3. d = <<"force", w>> /\ forced[w] = 0
      BY <3>1, <3>2, <2>2, <1>1 DEF Worker, Timers
    <3>4. call'[<<"force", w>>] # None /\ call'[<<"again", v>>] = call[<<"again", v>>]
      BY <3>3, <2>5, <2>7, CallerFacts
    <3>5. v # w => call'[<<"force", v>>] = call[<<"force", v>>]
      BY <3>3, <2>7, CallerFacts
    <3>6. CASE v = w
      <4>1. global' # None => rt'[w] # None
        BY <3>2, <2>11 DEF Armed
      <4>2. forced'[w] <= 1
        BY <3>3, <2>12
      <4> QED  BY <3>1, <3>2, <3>4, <3>6, <4>1, <4>2, <2>11 DEF Worker, Armed
    <3>7. CASE v # w
      <4>1. (Armed(v)' <=> Armed(v)) /\ rt'[v] = rt[v] /\ forced'[v] = forced[v]
        BY <3>7, <2>11, <2>12, <2>13
      <4>2. global' # None => global # None /\ (v \in global'.todo <=> v \in global.todo)
        BY <1>3, <3>7
      <4> QED  BY <3>1, <3>4, <3>5, <3>7, <4>1, <4>2 DEF Worker
    <3> QED  BY <3>6, <3>7
  <2> QED  BY <1>5, <2>3, <2>7, <2>8, <2>9, <2>10, <2>11, <2>12, <2>14, <2>16, <2>17, <2>18 DEF Watched
<1> QED  BY <1>6, <1>7

-----------------------------------------------------------------------------
(* The actions                                                               *)

LEMMA InitInv == Init => WInv
<1> SUFFICES ASSUME Init PROVE WInv
  OBVIOUS
<1>1. Cardinality(Workers) \in Nat /\ 0 \in 0 .. MaxRequests /\ 0 \in 0 .. MaxRestarts
  BY WorkflowAssumption, FS_CardinalityType
<1>2. TypeOK
  BY <1>1 DEF Init, TypeOK, Pad
<1>3. \A c \in Callers : call[c] = None
  BY DEF Init
<1>4. Books /\ Written /\ Fallback /\ FallbackKept
  BY <1>3 DEF Init, Books, Written, Fallback, FallbackKept, At
<1>5. LockKept
  BY <1>3, CallerFacts DEF Init, LockKept, At
<1>6. Life /\ Timers /\ Watched /\ Swept
  BY <1>3, CallerFacts DEF Init, Life, Timers, Watched, Swept, Armed
<1> QED  BY <1>2, <1>4, <1>5, <1>6 DEF WInv

(* initWorkflow enters the failed navigations into the counters at once. *)
LEMMA FreshSound ==
  ASSUME NEW ok \in SUBSET Workers, NEW ids \in BOOLEAN, NEW o,
         o = [stat |-> [w \in Workers |-> IF w \in ok THEN "INIT" ELSE "FAIL"],
              completed |-> 0, failed |-> Cardinality(Workers \ ok),
              overall |-> "INIT", ids |-> ids]
  PROVE  Sound(o) /\ o # None
<1> DEFINE stat == [w \in Workers |-> IF w \in ok THEN "INIT" ELSE "FAIL"]
<1>1. stat \in [Workers -> {"INIT"} \cup EndStatus]
  BY DEF EndStatus
<1>2. OkSet(stat) = {} /\ FailSet(stat) = Workers \ ok
  BY DEF OkSet, FailSet, Ok
<1>3. Cardinality(OkSet(stat)) = 0
  BY <1>2, FS_EmptySet
<1>4. PICK w \in Workers : TRUE
  BY WorkflowAssumption
<1>5. Cardinality(Workers \ ok) \in 0 .. Cardinality(Workers) /\ Cardinality(Workers) \in Nat
  BY <1>4, OneMore, WorkflowAssumption, FS_CardinalityType
<1> HIDE DEF stat
<1>6. /\ o.stat = stat /\ o.completed = 0 /\ o.failed = Cardinality(Workers \ ok)
      /\ o.overall = "INIT"
  BY DEF stat
<1>7. o \in Orch
  BY <1>1, <1>5 DEF Orch, stat
<1>8. CountersMatch(o)
  BY <1>2, <1>3, <1>6 DEF CountersMatch, OkSet, FailSet
<1> QED  BY <1>7, <1>8, NoneAssumption DEF Sound

LEMMA InitWorkflowStep ==
  ASSUME WInv, NEW ok \in SUBSET Workers, InitWorkflow(ok)
  PROVE  WInv'
<1>1. /\ TypeOK /\ LockKept /\ Life /\ Timers /\ Swept /\ Fallback
  BY DEF WInv
<1>2. /\ \A w \in Workers : forced[w] = 0 /\ rt[w] = None
      /\ \A c \in Callers : call[c] = None
      /\ holder = None /\ global = None
  BY <1>1 DEF Life, InitWorkflow
<1>3. restarts = 0 /\ reported = {}
  BY <1>1 DEF Life, InitWorkflow, Fallback, TypeOK
<1>4. UNCHANGED <<global, call, holder, cleanup, requests, restarts, forced, reported, erased>>
  BY DEF InitWorkflow, bounds, history
<1>5. Sound(mem') /\ mem' # None
  BY FreshSound DEF InitWorkflow
<1>6. Sound(file') /\ file' # None
  <2>1. file' = [stat |-> [w \in Workers |-> IF w \in Workers THEN "INIT" ELSE "FAIL"],
              completed |-> 0, failed |-> Cardinality(Workers \ Workers),
              overall |-> "INIT", ids |-> TRUE]
    <3>1. Workers \ Workers = {}
      OBVIOUS
    <3>2. [w \in Workers |-> "INIT"] = [w \in Workers |-> IF w \in Workers THEN "INIT" ELSE "FAIL"]
      OBVIOUS
    <3>3. Cardinality(Workers \ Workers) = 0
      BY <3>1, FS_EmptySet
    <3> QED  BY <3>2, <3>3 DEF InitWorkflow
  <2> QED  BY <2>1, FreshSound
<1>7. /\ \A w \in Workers : rt'[w] = IF w \in ok THEN [timedOut |-> FALSE, stale |-> 0, hash |-> None]
                                                 ELSE None
      /\ timer' = ok /\ gtimer' = TRUE
  BY <1>2 DEF InitWorkflow
<1>8. [timedOut |-> FALSE, stale |-> 0, hash |-> None] \in Runtime
  BY DEF Runtime
<1>9. \A w \in Workers : Armed(w)' <=> w \in ok
  BY <1>7, <1>8, NoneAssumption DEF Armed
<1>10. TypeOK'
  <2>1. rt' \in [Workers -> Runtime \cup {None}]
    BY <1>2, <1>8 DEF InitWorkflow
  <2>2. pad' \in [Workers -> Pad] /\ tab' \subseteq Workers
    BY DEF InitWorkflow, Pad
  <2> QED  BY <2>1, <2>2, <1>1, <1>4, <1>5, <1>6, <1>7 DEF TypeOK, Sound
<1>11. Books' /\ Written' /\ Fallback' /\ LockKept'
  <2>1. \A c \in Callers : call'[c] = None
    BY <1>2, <1>4
  <2>2. Books'
    BY <2>1, <1>5, <1>6 DEF Books, Sound, CountersMatch
  <2>3. Written' /\ Fallback'
    BY <2>1, <1>3, <1>4 DEF Written, Fallback, At
  <2>4. LockKept'
    BY <2>1, <1>2, <1>4, CallerFacts DEF LockKept, At
  <2> QED  BY <2>2, <2>3, <2>4
<1>12. Life' /\ Timers' /\ Swept' /\ FallbackKept'
  <2>1. Life'
    BY <1>3, <1>4, <1>5, <1>6 DEF Life, InitWorkflow
  <2>2. Timers'
    BY <1>2, <1>4, <1>7, <1>9 DEF Timers
  <2>3. Swept' /\ FallbackKept'
    BY <1>2, <1>3, <1>4, CallerFacts DEF Swept, FallbackKept
  <2> QED  BY <2>1, <2>2, <2>3
<1>13. ASSUME NEW w \in Workers  PROVE Worker(w)'
  <2>1. mem'.stat[w] = IF w \in ok THEN "INIT" ELSE "FAIL"
    BY DEF InitWorkflow
  <2>2. rt'[w] = None <=> w \notin ok
    BY <1>7, <1>8, NoneAssumption
  <2>3. forced'[w] = 0 /\ call'[<<"force", w>>] = None /\ call'[<<"again", w>>] = None /\ global' = None
    BY <1>2, <1>4, CallerFacts
  <2> QED  BY <2>1, <2>2, <2>3, <1>9 DEF Worker, IsEnd, EndStatus
<1> QED  BY <1>10, <1>11, <1>12, <1>13 DEF WInv, Watched

(* A step of an agent's call, or of any call that does not change what is    *)
(* accounted: the rest of the state stays.                                   *)
LEMMA KeptAroundCalls ==
  ASSUME WInv, UNCHANGED <<mem, rt, timer, gtimer, global, cleanup, forced, file, reported, restarts>>,
         \E c \in Callers : call[c] # None \/ Known,
         \A w \in Workers : /\ call[<<"again", w>>] = None => call'[<<"again", w>>] = None
                            /\ mem # None => (call[<<"force", w>>] = None <=> call'[<<"force", w>>] = None)
  PROVE  Life' /\ Timers' /\ Watched' /\ Swept' /\ FallbackKept'
<1>1. Life /\ Timers /\ Watched /\ Swept /\ FallbackKept
  BY DEF WInv
<1>2. ~(mem = None /\ file = None /\ cleanup = "no")
  BY <1>1 DEF Life, Known
<1>3. Life'
  BY <1>1, <1>2 DEF Life
<1>4. Timers' /\ FallbackKept'
  BY <1>1 DEF Timers, Armed, FallbackKept
<1>5. Swept'
  BY <1>1 DEF Swept
<1>6. ASSUME mem # None, NEW w \in Workers  PROVE Worker(w)'
  <2>1. Worker(w) /\ (Armed(w)' <=> Armed(w))
    BY <1>1, <1>6 DEF Watched, Armed
  <2> QED  BY <2>1, <1>6 DEF Worker
<1> QED  BY <1>3, <1>4, <1>5, <1>6 DEF Watched

LEMMA CompleteStarts ==
  ASSUME WInv, NEW w \in Workers, NEW status \in EndStatus, NEW data \in Data \cup {None},
         Complete(w, status, data)
  PROVE  WInv'
<1>1. PICK c \in Callers : c = <<"agent", w>>
  BY CallerFacts
<1>2. PICK b : b = Begin(status, data)
  OBVIOUS
<1>3. b \in Completion /\ b # None /\ b.stage = "pad" /\ SnapOK(b)
  BY <1>2, BeginFacts
<1>4. /\ call[c] = None /\ call' = [call EXCEPT ![c] = b] /\ Known
      /\ requests' = requests + 1 /\ requests < MaxRequests
      /\ UNCHANGED <<mem, rt, timer, gtimer, global, holder, file, pad, tab, cleanup, restarts,
                     forced, reported, erased>>
  BY <1>1, <1>2 DEF Complete, disk, history
<1>5. /\ \A e \in Callers : call'[e] = IF e = c THEN b ELSE call[e]
      /\ (\A e \in Callers : call[e] # None => SnapOK(call[e]))'
      /\ LockKept' /\ Written' /\ Fallback'
  BY <1>3, <1>4, QuietCall DEF At
<1>6. TypeOK'
  <2>1. TypeOK
    BY DEF WInv
  <2>2. call' \in [Callers -> Completion \cup {None}] /\ requests' \in 0 .. MaxRequests
    BY <2>1, <1>3, <1>4, WorkflowAssumption DEF TypeOK
  <2> QED  BY <2>1, <2>2, <1>4 DEF TypeOK
<1>7. Books'
  BY <1>4, <1>5 DEF WInv, Books, Sound, CountersMatch
<1>8. \A v \in Workers : call'[<<"again", v>>] = call[<<"again", v>>] /\ call'[<<"force", v>>] = call[<<"force", v>>]
  BY <1>1, <1>5, CallerFacts
<1>9. Life' /\ Timers' /\ Watched' /\ Swept' /\ FallbackKept'
  BY <1>4, <1>8, KeptAroundCalls
<1> QED  BY <1>5, <1>6, <1>7, <1>9 DEF WInv

LEMMA CompletePadStep ==
  ASSUME WInv, NEW c \in Callers, CompletePad(c)
  PROVE  WInv'
<1>1. TypeOK /\ Books /\ call[c] # None /\ call[c].stage = "pad" /\ c[2] \in Workers
  BY CallerFacts DEF WInv, CompletePad
<1>2. PICK b : b = [call[c] EXCEPT !.stage = "lock", !.data = None]
  OBVIOUS
<1>3. call[c] \in Completion /\ call[c].snap = None /\ call[c].data \in Data \cup {None}
  BY <1>1, CallTyped DEF Books, SnapOK
<1>4. b \in Completion /\ b # None /\ b.stage = "lock" /\ SnapOK(b)
  BY <1>2, <1>3, NoneAssumption DEF Completion, SnapOK
<1>5. /\ call' = [call EXCEPT ![c] = b]
      /\ UNCHANGED <<mem, rt, timer, gtimer, global, holder, file, tab, cleanup, requests,
                     restarts, forced, reported>>
  BY <1>2 DEF CompletePad, bounds
<1>6. /\ \A e \in Callers : call'[e] = IF e = c THEN b ELSE call[e]
      /\ (\A e \in Callers : call[e] # None => SnapOK(call[e]))'
      /\ LockKept' /\ Written' /\ Fallback'
  BY <1>1, <1>4, <1>5, QuietCall DEF At
<1>7. TypeOK'
  <2>1. call' \in [Callers -> Completion \cup {None}]
    BY <1>1, <1>4, <1>5 DEF TypeOK
  <2>2. pad' \in [Workers -> Pad]
    BY <1>1, <1>3 DEF CompletePad, WritePad, TypeOK, Pad
  <2>3. erased' \in BOOLEAN
    BY <1>1 DEF CompletePad, TypeOK
  <2> QED  BY <2>1, <2>2, <2>3, <1>1, <1>5 DEF TypeOK
<1>8. Books'
  BY <1>1, <1>5, <1>6 DEF Books, Sound, CountersMatch
<1>9. \A e \in Callers : call'[e] = None <=> call[e] = None
  BY <1>1, <1>4, <1>6
<1>10. Life' /\ Timers' /\ Watched' /\ Swept' /\ FallbackKept'
  BY <1>1, <1>5, <1>9, KeptAroundCalls, CallerFacts
<1> QED  BY <1>6, <1>7, <1>8, <1>10 DEF WInv

(* The critical section: a worker that has ended stays ended, and the call   *)
(* takes a sound orchestration with it.                                      *)
LEMMA AccountStep ==
  ASSUME WInv, NEW c \in Callers, AccountInMemory(c)
  PROVE  WInv'
<1>1. /\ TypeOK /\ Books /\ LockKept /\ Life /\ Timers /\ Watched /\ Written /\ Swept
      /\ Fallback /\ FallbackKept
  BY DEF WInv
<1>2. /\ call[c] # None /\ call[c].stage = "lock" /\ mem # None /\ c[2] \in Workers
      /\ mem' = Account(mem, c[2], call[c].status)
      /\ UNCHANGED <<rt, timer, gtimer, global, holder, file, pad, tab, cleanup, requests,
                     restarts, forced, reported, erased>>
  BY CallerFacts DEF AccountInMemory, disk, bounds, history
<1>3. call[c] \in Completion /\ call[c].status \in EndStatus
  BY <1>1, <1>2, CallTyped
<1>4. Sound(mem') /\ mem'.stat = [mem.stat EXCEPT ![c[2]] = call[c].status]
  BY <1>1, <1>2, <1>3, AccountSound DEF Books
<1>5. mem' \in Orch /\ mem' # None
  BY <1>4, NoneAssumption DEF Sound
<1>6. PICK m : m = mem'
  OBVIOUS
<1>7. PICK b : b = [call[c] EXCEPT !.stage = "write", !.snap = m]
  OBVIOUS
<1>8. b \in Completion /\ b # None /\ b.stage = "write" /\ b.snap = m
  BY <1>3, <1>5, <1>6, <1>7, NoneAssumption DEF Completion
<1>9. call' = [call EXCEPT ![c] = b]
  BY <1>6, <1>7 DEF AccountInMemory
<1>10. \A e \in Callers : call'[e] = IF e = c THEN b ELSE call[e]
  BY <1>1, <1>9 DEF TypeOK
<1>11. /\ \A w \in Workers : IsEnd(mem.stat[w]) => IsEnd(mem'.stat[w])
       /\ IsEnd(mem'.stat[c[2]])
  <2>1. mem.stat \in [Workers -> {"INIT"} \cup EndStatus]
    BY <1>1, <1>2 DEF Books, Sound, Orch
  <2> QED  BY <2>1, <1>2, <1>3, <1>4 DEF IsEnd
<1>12. TypeOK'
  <2>1. call' \in [Callers -> Completion \cup {None}]
    BY <1>1, <1>8, <1>9 DEF TypeOK
  <2> QED  BY <2>1, <1>1, <1>2, <1>5 DEF TypeOK
<1>13. Books'
  <2>1. SnapOK(b)
    BY <1>4, <1>6, <1>8 DEF SnapOK
  <2>2. ASSUME NEW e \in Callers, call'[e] # None  PROVE SnapOK(call'[e])
    BY <2>1, <2>2, <1>1, <1>10 DEF Books
  <2>3. (\A e \in Callers : call[e] # None => SnapOK(call[e]))'
    BY <2>2 DEF SnapOK, Sound, CountersMatch
  <2> QED  BY <2>3, <1>1, <1>2, <1>4 DEF Books, Sound, CountersMatch
<1>14. LockKept'
  BY <1>1, <1>2, <1>8, <1>10 DEF LockKept, At
<1>15. Life' /\ Timers' /\ FallbackKept'
  BY <1>1, <1>2, <1>5 DEF Life, Timers, Armed, FallbackKept
<1>16. \A e \in Callers : call'[e] = None <=> call[e] = None
  BY <1>2, <1>8, <1>10
<1>17. Swept'
  BY <1>1, <1>2, <1>16, CallerFacts DEF Swept
<1>18. ASSUME NEW w \in Workers  PROVE Worker(w)'
  <2>1. Worker(w) /\ (Armed(w)' <=> Armed(w))
    BY <1>1, <1>2 DEF Watched, Armed
  <2>2. /\ call'[<<"force", w>>] = None <=> call[<<"force", w>>] = None
        /\ call'[<<"again", w>>] = None <=> call[<<"again", w>>] = None
    BY <1>16, CallerFacts
  <2> QED  BY <2>1, <2>2, <1>2, <1>11 DEF Worker
<1>19. Written'
  <2>1. ASSUME NEW e \in Callers, At(e, "write")'  PROVE IsEnd(mem'.stat[e[2]])
    <3>1. CASE e = c
      BY <3>1, <1>11
    <3>2. CASE e # c
      BY <3>2, <2>1, <1>1, <1>2, <1>10, <1>11, CallerFacts DEF At, Written
    <3> QED  BY <3>1, <3>2
  <2> QED  BY <2>1 DEF Written, At
<1>20. Fallback'
  <2>1. ASSUME NEW e \in Callers, At(e, "fallback")'
        PROVE  \A w \in reported \cup {e[2]} : IsEnd(call'[e].snap.stat[w])
    <3>1. At(e, "fallback") /\ call'[e] = call[e]
      BY <2>1, <1>8, <1>10 DEF At
    <3> QED  BY <3>1, <1>1 DEF Fallback
  <2>2. restarts = 0
    BY <1>1, <1>2 DEF Life
  <2>3. \A e \in Callers :
          At(e, "fallback")' => \A w \in reported \cup {e[2]} : IsEnd(call'[e].snap.stat[w])
    BY <2>1
  <2> QED  BY <2>2, <2>3, <1>1, <1>2 DEF Fallback
<1> QED  BY <1>12, <1>13, <1>14, <1>15, <1>17, <1>18, <1>19, <1>20 DEF WInv, Watched

(* A forced completion that returns leaves an ended worker. *)
LEMMA WriteBehindStep ==
  ASSUME WInv, NEW c \in Callers, NEW fails \in BOOLEAN, WriteBehind(c, fails)
  PROVE  WInv'
<1>1. /\ TypeOK /\ Books /\ LockKept /\ Life /\ Timers /\ Watched /\ Written /\ Swept
      /\ Fallback /\ FallbackKept
  BY DEF WInv
<1>2. /\ call[c] # None /\ call[c].stage = "write" /\ c[2] \in Workers
      /\ file' = IF fails THEN file ELSE call[c].snap
      /\ call' = [call EXCEPT ![c] = None]
      /\ UNCHANGED <<mem, rt, timer, gtimer, global, holder, pad, tab, cleanup, requests,
                     restarts, forced, reported, erased>>
  BY CallerFacts DEF WriteBehind, bounds, history
<1>3. Sound(call[c].snap) /\ call[c].snap \in Orch /\ call[c].snap # None
  BY <1>1, <1>2, NoneAssumption DEF Books, SnapOK, Sound
<1>4. /\ \A e \in Callers : call'[e] = IF e = c THEN None ELSE call[e]
      /\ (\A e \in Callers : call[e] # None => SnapOK(call[e]))'
      /\ LockKept' /\ Written' /\ Fallback'
  BY <1>2, QuietCall DEF At
<1>5. (file # None => file' # None) /\ (file' # None => Sound(file'))
  BY <1>1, <1>2, <1>3 DEF Books
<1>6. TypeOK'
  BY <1>1, <1>2, <1>3 DEF TypeOK
<1>7. Books'
  BY <1>1, <1>2, <1>4, <1>5 DEF Books, Sound, CountersMatch
<1>8. ~(mem = None /\ file = None /\ cleanup = "no")
  BY <1>1, <1>2 DEF Life
<1>9. Life' /\ Timers'
  BY <1>1, <1>2, <1>5, <1>8 DEF Life, Timers, Armed
<1>10. Swept'
  BY <1>1, <1>2, <1>4, CallerFacts DEF Swept
<1>11. FallbackKept'
  <2>1. reported = {}
    BY <1>1, <1>2 DEF Fallback, At
  <2> QED  BY <2>1, <1>2 DEF FallbackKept
<1>12. ASSUME mem # None, NEW w \in Workers  PROVE Worker(w)'
  <2>1. Worker(w) /\ (Armed(w)' <=> Armed(w))
    BY <1>1, <1>2, <1>12 DEF Watched, Armed
  <2>2. /\ call[<<"force", w>>] = None => call'[<<"force", w>>] = None
        /\ call[<<"again", w>>] = None => call'[<<"again", w>>] = None
        /\ c # <<"force", w>> => call'[<<"force", w>>] = call[<<"force", w>>]
    BY <1>4, CallerFacts
  <2>3. c = <<"force", w>> => IsEnd(mem.stat[w])
    BY <1>1, <1>2, <1>12, CallerFacts DEF Written, At
  <2> QED  BY <2>1, <2>2, <2>3, <1>2, <1>12 DEF Worker
<1> QED  BY <1>2, <1>4, <1>6, <1>7, <1>9, <1>10, <1>11, <1>12 DEF WInv, Watched

(* The fallback takes the lock and what it read, or returns when there is no *)
(* file.                                                                     *)
LEMMA FallbackReadStep ==
  ASSUME WInv, NEW c \in Callers, FallbackRead(c)
  PROVE  WInv'
<1>1. /\ TypeOK /\ Books /\ LockKept /\ Life /\ Timers /\ Watched /\ Written /\ Swept
      /\ Fallback /\ FallbackKept
  BY DEF WInv
<1>2. /\ call[c] # None /\ call[c].stage = "lock" /\ holder = None /\ mem = None
      /\ c[2] \in Workers
      /\ UNCHANGED <<mem, rt, timer, gtimer, global, file, pad, tab, cleanup, requests,
                     restarts, forced, reported, erased>>
  BY CallerFacts DEF FallbackRead, LockFree, disk, bounds, history
<1>3. call[c] \in Completion /\ call[c].status \in EndStatus
  BY <1>1, <1>2, CallTyped
<1>4. CASE file = None
  <2>1. call' = [call EXCEPT ![c] = None] /\ holder' = holder
    BY <1>4 DEF FallbackRead
  <2>2. /\ \A e \in Callers : call'[e] = IF e = c THEN None ELSE call[e]
        /\ (\A e \in Callers : call[e] # None => SnapOK(call[e]))'
        /\ LockKept' /\ Written' /\ Fallback'
    BY <1>2, <2>1, QuietCall DEF At
  <2>3. TypeOK'
    BY <1>1, <1>2, <2>1 DEF TypeOK
  <2>4. Books'
    BY <1>1, <1>2, <2>2 DEF Books, Sound, CountersMatch
  <2>5. \A w \in Workers : call[<<"again", w>>] = None => call'[<<"again", w>>] = None
    BY <2>2, CallerFacts
  <2>6. Life' /\ Timers' /\ Watched' /\ Swept' /\ FallbackKept'
    BY <1>2, <2>5, KeptAroundCalls
  <2> QED  BY <2>2, <2>3, <2>4, <2>6 DEF WInv
<1>5. CASE file # None
  <2>1. PICK o : o = Account(file, c[2], call[c].status)
    OBVIOUS
  <2>2. Sound(o) /\ o.stat = [file.stat EXCEPT ![c[2]] = call[c].status]
    BY <1>1, <1>2, <1>3, <1>5, <2>1, AccountSound DEF Books
  <2>3. PICK b : b = [call[c] EXCEPT !.stage = "fallback", !.snap = o]
    OBVIOUS
  <2>4. b \in Completion /\ b # None /\ b.stage = "fallback" /\ b.snap = o
    BY <1>3, <2>2, <2>3, NoneAssumption DEF Completion, Sound
  <2>5. call' = [call EXCEPT ![c] = b] /\ holder' = c
    BY <1>5, <2>1, <2>3 DEF FallbackRead
  <2>6. \A e \in Callers : call'[e] = IF e = c THEN b ELSE call[e]
    BY <1>1, <2>5 DEF TypeOK
  <2>7. TypeOK'
    <3>1. call' \in [Callers -> Completion \cup {None}]
      BY <1>1, <2>4, <2>5 DEF TypeOK
    <3> QED  BY <3>1, <1>1, <1>2, <2>5 DEF TypeOK
  <2>8. Books'
    <3>1. SnapOK(b)
      BY <2>2, <2>4 DEF SnapOK
    <3>2. ASSUME NEW e \in Callers, call'[e] # None  PROVE SnapOK(call'[e])
      BY <3>1, <3>2, <1>1, <2>6 DEF Books
    <3>3. (\A e \in Callers : call[e] # None => SnapOK(call[e]))'
      BY <3>2 DEF SnapOK, Sound, CountersMatch
    <3> QED  BY <3>3, <1>1, <1>2 DEF Books, Sound, CountersMatch
  <2>9. LockKept'
    <3>1. \A e \in Callers : ~At(e, "fallback")
      BY <1>1, <1>2, CallerFacts DEF LockKept
    <3> QED  BY <3>1, <1>2, <2>4, <2>5, <2>6 DEF LockKept, At
  <2>10. \A e \in Callers : call'[e] = None <=> call[e] = None
    BY <1>2, <2>4, <2>6
  <2>11. Life' /\ Timers' /\ Watched' /\ Swept' /\ FallbackKept'
    BY <1>2, <2>10, KeptAroundCalls, CallerFacts
  <2>12. Written'
    BY <1>2 DEF Written
  <2>13. Fallback'
    <3>1. ASSUME NEW w \in reported \cup {c[2]}  PROVE IsEnd(b.snap.stat[w])
      <4>1. file.stat \in [Workers -> {"INIT"} \cup EndStatus] /\ w \in Workers
        BY <1>1, <1>2, <1>5 DEF Books, Sound, Orch, TypeOK
      <4>2. w # c[2] => IsEnd(file.stat[w])
        BY <1>1, <1>5 DEF FallbackKept
      <4> QED  BY <4>1, <4>2, <1>2, <1>3, <2>2, <2>4 DEF IsEnd
    <3>2. ASSUME NEW e \in Callers, At(e, "fallback")'
          PROVE  \A w \in reported \cup {e[2]} : IsEnd(call'[e].snap.stat[w])
      <4>1. CASE e = c
        BY <3>1, <4>1, <2>6
      <4>2. CASE e # c
        BY <3>2, <4>2, <2>6, <1>1 DEF At, Fallback
      <4> QED  BY <4>1, <4>2
    <3>3. ASSUME restarts > 0, NEW e \in Callers  PROVE ~At(e, "write")'
      BY <3>3, <2>4, <2>6, <1>1 DEF At, Fallback
    <3>4. \A e \in Callers :
            At(e, "fallback")' => \A w \in reported \cup {e[2]} : IsEnd(call'[e].snap.stat[w])
      BY <3>2
    <3> QED  BY <3>3, <3>4, <1>1, <1>2 DEF Fallback
  <2> QED  BY <2>7, <2>8, <2>9, <2>11, <2>12, <2>13 DEF WInv
<1> QED  BY <1>4, <1>5

(* The fallback writes what no other call has changed since it read. *)
LEMMA FallbackWriteStep ==
  ASSUME WInv, NEW c \in Callers, FallbackWrite(c)
  PROVE  WInv'
<1>1. /\ TypeOK /\ Books /\ LockKept /\ Life /\ Timers /\ Watched /\ Written /\ Swept
      /\ Fallback /\ FallbackKept
  BY DEF WInv
<1>2. /\ call[c] # None /\ call[c].stage = "fallback" /\ c[2] \in Workers
      /\ file' = call[c].snap
      /\ call' = [call EXCEPT ![c] = None]
      /\ holder' = None
      /\ reported' = IF restarts > 0 THEN reported \cup {c[2]} ELSE reported
      /\ UNCHANGED <<mem, rt, timer, gtimer, global, pad, tab, cleanup, requests,
                     restarts, forced, erased>>
  BY CallerFacts DEF FallbackWrite, bounds
<1>3. Sound(call[c].snap) /\ call[c].snap \in Orch /\ call[c].snap # None
  BY <1>1, <1>2, NoneAssumption DEF Books, SnapOK, Sound
<1>4. holder = c /\ mem = None
  BY <1>1, <1>2, CallerFacts DEF LockKept, At
<1>5. \A e \in Callers : call'[e] = IF e = c THEN None ELSE call[e]
  BY <1>1, <1>2 DEF TypeOK
<1>6. \A e \in Callers : ~At(e, "fallback")'
  BY <1>1, <1>4, <1>5 DEF LockKept, At
<1>7. TypeOK'
  BY <1>1, <1>2, <1>3 DEF TypeOK
<1>8. Books'
  <2>1. ASSUME NEW e \in Callers, call'[e] # None  PROVE SnapOK(call'[e])
    BY <2>1, <1>1, <1>5 DEF Books
  <2>2. (\A e \in Callers : call[e] # None => SnapOK(call[e]))'
    BY <2>1 DEF SnapOK, Sound, CountersMatch
  <2>3. (file # None => Sound(file))'
    BY <1>2, <1>3 DEF Sound, CountersMatch
  <2>4. (mem # None => Sound(mem))'
    BY <1>2, <1>4
  <2> QED  BY <2>2, <2>3, <2>4 DEF Books
<1>9. LockKept'
  <2>1. mem' = None /\ holder' = None
    BY <1>2, <1>4
  <2>2. \A e \in Callers : holder' # e
    BY <2>1, CallerFacts
  <2> QED  BY <1>6, <2>1, <2>2 DEF LockKept, At
<1>10. Life' /\ Timers'
  BY <1>1, <1>2, <1>3 DEF Life, Timers, Armed
<1>11. Watched' /\ Written'
  BY <1>2, <1>4 DEF Watched, Written
<1>12. Swept'
  BY <1>1, <1>2, <1>5, CallerFacts DEF Swept
<1>13. Fallback'
  <2>1. ASSUME restarts > 0, NEW e \in Callers  PROVE ~At(e, "write")'
    BY <2>1, <1>1, <1>5 DEF At, Fallback
  <2>2. reported' # {} => restarts > 0
    BY <1>1, <1>2 DEF Fallback
  <2> QED  BY <1>2, <1>6, <2>1, <2>2 DEF Fallback
<1>14. FallbackKept'
  <2>1. \A w \in reported \cup {c[2]} : IsEnd(call[c].snap.stat[w])
    BY <1>1, <1>2 DEF Fallback, At
  <2> QED  BY <2>1, <1>2 DEF FallbackKept
<1> QED  BY <1>7, <1>8, <1>9, <1>10, <1>11, <1>12, <1>13, <1>14 DEF WInv

(* A write that fails only gives the lock back, and may end the global loop. *)
LEMMA FallbackFailsStep ==
  ASSUME WInv, NEW c \in Callers, FallbackFails(c)
  PROVE  WInv'
<1>1. /\ TypeOK /\ Books /\ LockKept /\ Life /\ Timers /\ Watched /\ Written /\ Swept
      /\ Fallback /\ FallbackKept
  BY DEF WInv
<1>2. /\ call[c] # None /\ call[c].stage = "fallback"
      /\ call' = [call EXCEPT ![c] = None]
      /\ holder' = None
      /\ global' = IF global # None /\ global.awaits = c
                   THEN [global EXCEPT !.todo = {}] ELSE global
      /\ UNCHANGED <<mem, rt, timer, gtimer, file, pad, tab, cleanup, requests,
                     restarts, forced, reported, erased>>
  BY DEF FallbackFails, disk, bounds, history
<1>3. holder = c /\ mem = None
  BY <1>1, <1>2, CallerFacts DEF LockKept, At
<1>4. \A e \in Callers : call'[e] = IF e = c THEN None ELSE call[e]
  BY <1>1, <1>2 DEF TypeOK
<1>5. \A e \in Callers : ~At(e, "fallback")'
  BY <1>1, <1>3, <1>4 DEF LockKept, At
<1>6. /\ global' \in Sweep \cup {None} /\ (global' # None => global # None)
      /\ global # None => global'.todo \subseteq global.todo
  BY <1>1, <1>2, NoneAssumption DEF TypeOK, Sweep
<1>7. TypeOK'
  BY <1>1, <1>2, <1>6 DEF TypeOK
<1>8. Books'
  <2>1. ASSUME NEW e \in Callers, call'[e] # None  PROVE SnapOK(call'[e])
    BY <2>1, <1>1, <1>4 DEF Books
  <2>2. (\A e \in Callers : call[e] # None => SnapOK(call[e]))'
    BY <2>1 DEF SnapOK, Sound, CountersMatch
  <2> QED  BY <2>2, <1>1, <1>2, <1>3 DEF Books, Sound, CountersMatch
<1>9. LockKept'
  <2>1. \A e \in Callers : holder' # e
    BY <1>2, CallerFacts
  <2> QED  BY <1>2, <1>3, <1>5, <2>1 DEF LockKept, At
<1>10. Life' /\ Timers'
  BY <1>1, <1>2, <1>6 DEF Life, Timers, Armed
<1>11. Watched' /\ Written'
  BY <1>2, <1>3 DEF Watched, Written
<1>12. Swept'
  BY <1>1, <1>2, <1>4, <1>6, CallerFacts DEF Swept
<1>13. Fallback' /\ FallbackKept'
  BY <1>1, <1>2, <1>4, <1>5 DEF Fallback, FallbackKept, At
<1> QED  BY <1>7, <1>8, <1>9, <1>10, <1>11, <1>12, <1>13 DEF WInv

LEMMA TimeoutStep ==
  ASSUME WInv, NEW w \in Workers, WorkerTimeout(w)
  PROVE  WInv'
<1>1. /\ ForceComplete(w) /\ w \in timer
      /\ UNCHANGED <<mem, gtimer, global, holder, file, pad, tab, cleanup, requests, restarts,
                     reported, erased>>
  BY DEF WorkerTimeout, disk, bounds
<1>2. TypeOK /\ Armed(w)
  BY <1>1 DEF WInv, Timers
<1>3. /\ rt' \in [Workers -> Runtime \cup {None}] /\ timer' \subseteq Workers
      /\ call' \in [Callers -> Completion \cup {None}] /\ forced' \in [Workers -> Nat]
      /\ Books' /\ LockKept' /\ Life' /\ Timers' /\ Watched' /\ Written' /\ Swept'
      /\ Fallback' /\ FallbackKept'
  BY <1>1, <1>2, ForceStep
<1>4. TypeOK'
  BY <1>1, <1>2, <1>3 DEF TypeOK
<1> QED  BY <1>3, <1>4 DEF WInv

LEMMA GlobalForceStep ==
  ASSUME WInv, NEW w \in Workers, GlobalForce(w)
  PROVE  WInv'
<1>1. /\ ForceComplete(w) /\ global # None /\ w \in global.todo
      /\ UNCHANGED <<mem, gtimer, holder, file, pad, tab, cleanup, requests, restarts,
                     reported, erased>>
  BY DEF GlobalForce, GlobalReady, disk, bounds
<1>2. PICK a : a = IF forced'[w] > forced[w] THEN Forcing(w) ELSE None
  OBVIOUS
<1>3. a \in Callers \cup {None}
  BY <1>2, CallerFacts DEF Forcing
<1>4. global' = [todo |-> global.todo \ {w}, awaits |-> a]
  BY <1>2 DEF GlobalForce
<1>5. TypeOK /\ global \in Sweep
  BY <1>1 DEF WInv, TypeOK
<1>6. global.todo \subseteq Workers
  BY <1>5 DEF Sweep
<1>7. TakenOff(w)
  BY <1>1, <1>3, <1>4, <1>6 DEF TakenOff, Sweep
<1>8. /\ rt' \in [Workers -> Runtime \cup {None}] /\ timer' \subseteq Workers
      /\ call' \in [Callers -> Completion \cup {None}] /\ forced' \in [Workers -> Nat]
      /\ Books' /\ LockKept' /\ Life' /\ Timers' /\ Watched' /\ Written' /\ Swept'
      /\ Fallback' /\ FallbackKept'
  BY <1>1, <1>7, ForceStep
<1>9. TypeOK'
  BY <1>1, <1>5, <1>7, <1>8 DEF TypeOK, TakenOff
<1> QED  BY <1>8, <1>9 DEF WInv

(* The global timeout lists everybody whose timeout is armed and who has not *)
(* ended.                                                                    *)
LEMMA GlobalTimeoutStep ==
  ASSUME WInv, GlobalTimeout
  PROVE  WInv'
<1>1. /\ TypeOK /\ Books /\ LockKept /\ Life /\ Timers /\ Watched /\ Written /\ Swept
      /\ Fallback /\ FallbackKept
  BY DEF WInv
<1>2. /\ gtimer /\ global = None /\ gtimer' = FALSE
      /\ UNCHANGED <<mem, rt, timer, call, holder, file, pad, tab, cleanup, requests, restarts,
                     forced, reported, erased>>
  BY DEF GlobalTimeout, disk, bounds, history
<1>3. mem # None
  BY <1>1, <1>2 DEF Life
<1>4. global' = [todo |-> RunningWorkers, awaits |-> None]
  BY <1>3 DEF GlobalTimeout
<1>5. global' \in Sweep /\ global' # None /\ global'.todo = RunningWorkers
  BY <1>4, NoneAssumption DEF Sweep, RunningWorkers
<1>6. TypeOK'
  BY <1>1, <1>2, <1>5 DEF TypeOK
<1>7. Books' /\ LockKept' /\ Timers' /\ Written' /\ Fallback' /\ FallbackKept'
  BY <1>1, <1>2
     DEF Books, LockKept, Timers, Armed, Written, Fallback, FallbackKept, At, SnapOK, Sound, CountersMatch
<1>8. Life'
  BY <1>1, <1>2, <1>3 DEF Life
<1>9. Swept'
  BY <1>1, <1>2 DEF Swept
<1>10. ASSUME NEW w \in Workers  PROVE Worker(w)'
  <2>1. Worker(w) /\ (Armed(w)' <=> Armed(w))
    BY <1>1, <1>2, <1>3 DEF Watched, Armed
  <2>2. w \in global'.todo <=> ~IsEnd(mem.stat[w])
    BY <1>5 DEF RunningWorkers
  <2> QED  BY <2>1, <2>2, <1>2 DEF Worker
<1> QED  BY <1>6, <1>7, <1>8, <1>9, <1>10 DEF WInv, Watched

(* New data, or the same once more, leaves a worker as armed as it was; the  *)
(* breaker forces it.                                                        *)
LEMMA UpdateStep ==
  ASSUME WInv, NEW w \in Workers, NEW data \in Data \cup {None}, Update(w, data)
  PROVE  WInv'
<1>1. /\ TypeOK /\ Books /\ LockKept /\ Life /\ Timers /\ Watched /\ Written /\ Swept
      /\ Fallback /\ FallbackKept
  BY DEF WInv
<1>2. /\ requests' = requests + 1 /\ requests < MaxRequests /\ WritePad(w, data) /\ Known
      /\ UNCHANGED <<mem, gtimer, global, holder, file, tab, cleanup, restarts, reported, erased>>
  BY DEF Update
<1>3. requests' \in 0 .. MaxRequests /\ pad' \in [Workers -> Pad]
  BY <1>1, <1>2, WorkflowAssumption DEF TypeOK, WritePad, Pad
<1>4. CASE ~UNCHANGED <<timer, call, forced>>
  <2>1. ForceComplete(w) /\ Armed(w)
    BY <1>4 DEF Update, Armed
  <2>2. /\ rt' \in [Workers -> Runtime \cup {None}] /\ timer' \subseteq Workers
        /\ call' \in [Callers -> Completion \cup {None}] /\ forced' \in [Workers -> Nat]
        /\ Books' /\ LockKept' /\ Life' /\ Timers' /\ Watched' /\ Written' /\ Swept'
        /\ Fallback' /\ FallbackKept'
    BY <1>2, <2>1, ForceStep
  <2>3. TypeOK'
    BY <1>1, <1>2, <1>3, <2>2 DEF TypeOK
  <2> QED  BY <2>2, <2>3 DEF WInv
<1>5. CASE UNCHANGED <<timer, call, forced>>
  <2>1. /\ rt' \in [Workers -> Runtime \cup {None}]
        /\ \A v \in Workers : (rt'[v] = None <=> rt[v] = None) /\ (Armed(v)' <=> Armed(v))
    <3>1. CASE rt' = rt
      BY <3>1, <1>1 DEF TypeOK, Armed
    <3>2. CASE rt' # rt
      <4>1. rt[w] # None /\ ~rt[w].timedOut
        BY <3>2 DEF Update
      <4>2. ~ForceComplete(w)
        <5>1. SUFFICES ASSUME ForceComplete(w) PROVE FALSE
          OBVIOUS
        <5>2. timer' = timer \ {w} /\ w \in timer
          BY <4>1, <5>1, <1>1 DEF ForceComplete, Timers, Armed
        <5> QED  BY <5>2, <1>5
      <4>3. rt[w] \in Runtime /\ rt \in [Workers -> Runtime \cup {None}]
        BY <4>1, <1>1 DEF TypeOK
      <4>4. PICK q : q = IF data # rt[w].hash THEN [rt[w] EXCEPT !.hash = data, !.stale = 0]
                                               ELSE [rt[w] EXCEPT !.stale = @ + 1]
        OBVIOUS
      <4>5. rt' = [rt EXCEPT ![w] = q]
        BY <3>2, <4>1, <4>2, <4>4 DEF Update
      <4>6. q \in Runtime /\ q # None /\ q.timedOut = rt[w].timedOut
        <5>1. /\ rt[w].stale \in Nat /\ rt[w].timedOut \in BOOLEAN
              /\ rt[w].hash \in Data \cup {None}
          BY <4>3 DEF Runtime
        <5>2. CASE data # rt[w].hash
          <6>1. q = [rt[w] EXCEPT !.hash = data, !.stale = 0]
            BY <4>4, <5>2
          <6>2. rt[w] = [timedOut |-> rt[w].timedOut, stale |-> rt[w].stale, hash |-> rt[w].hash]
            BY <4>3 DEF Runtime
          <6>3. q = [timedOut |-> rt[w].timedOut, stale |-> 0, hash |-> data]
            BY <6>1, <6>2
          <6> QED  BY <5>1, <6>3, NoneAssumption DEF Runtime
        <5>3. CASE data = rt[w].hash
          <6>1. q = [rt[w] EXCEPT !.stale = rt[w].stale + 1]
            BY <4>3, <4>4, <5>3 DEF Runtime
          <6>2. rt[w].stale + 1 \in Nat
            BY <5>1
          <6> QED  BY <4>3, <6>1, <6>2, NoneAssumption DEF Runtime
        <5> QED  BY <5>2, <5>3
      <4>7. \A v \in Workers : rt'[v] = IF v = w THEN q ELSE rt[v]
        BY <4>3, <4>5
      <4>8. rt' \in [Workers -> Runtime \cup {None}]
        BY <4>3, <4>5, <4>6
      <4> QED  BY <4>1, <4>6, <4>7, <4>8 DEF Armed
    <3> QED  BY <3>1, <3>2
  <2>2. TypeOK'
    BY <1>1, <1>2, <1>3, <1>5, <2>1 DEF TypeOK
  <2>3. Books' /\ LockKept' /\ Written' /\ Fallback' /\ FallbackKept'
    BY <1>1, <1>2, <1>5
       DEF Books, LockKept, Written, Fallback, FallbackKept, At, SnapOK, Sound, CountersMatch
  <2>4. Life'
    BY <1>1, <1>2, <1>5, <2>1 DEF Life
  <2>5. Timers' /\ Swept'
    BY <1>1, <1>2, <1>5, <2>1 DEF Timers, Swept
  <2>6. ASSUME mem # None, NEW v \in Workers  PROVE Worker(v)'
    BY <2>6, <1>1, <1>2, <1>5, <2>1 DEF Watched, Worker
  <2> QED  BY <1>2, <2>2, <2>3, <2>4, <2>5, <2>6 DEF WInv, Watched
<1> QED  BY <1>4, <1>5

LEMMA CleanupDeleteStep ==
  ASSUME WInv, CleanupDelete
  PROVE  WInv'
<1>1. /\ TypeOK /\ Books /\ LockKept /\ Life /\ Timers /\ Watched /\ Written /\ Swept
      /\ Fallback /\ FallbackKept
  BY DEF WInv
<1>2. /\ mem # None \/ file # None
      /\ cleanup' = "deleting" /\ tab' = tab \ Found
      /\ UNCHANGED <<mem, rt, timer, gtimer, global, call, holder, file, pad, requests, restarts,
                     forced, reported, erased>>
  BY DEF CleanupDelete, engine, disk, bounds, history
<1>3. TypeOK'
  BY <1>1, <1>2 DEF TypeOK
<1>4. Books' /\ LockKept' /\ Written' /\ Fallback' /\ FallbackKept'
  BY <1>1, <1>2
     DEF Books, LockKept, Written, Fallback, FallbackKept, At, SnapOK, Sound, CountersMatch
<1>5. Life' /\ Timers' /\ Swept'
  BY <1>1, <1>2 DEF Life, Timers, Swept, Armed
<1>6. Watched'
  BY <1>1, <1>2 DEF Watched, Worker, Armed
<1> QED  BY <1>3, <1>4, <1>5, <1>6 DEF WInv

(* The memory goes, and with it everything that is so of it. *)
LEMMA CleanupMemoryStep ==
  ASSUME WInv, CleanupMemory
  PROVE  WInv'
<1>1. /\ TypeOK /\ Books /\ LockKept /\ Life /\ Timers /\ Watched /\ Written /\ Swept
      /\ Fallback /\ FallbackKept
  BY DEF WInv
<1>2. /\ mem' = None /\ rt' = [w \in Workers |-> None] /\ timer' = {} /\ gtimer' = FALSE
      /\ cleanup' = "files"
      /\ UNCHANGED <<global, call, holder, file, pad, tab, requests, restarts, forced, reported,
                     erased>>
  BY DEF CleanupMemory, disk, bounds, history
<1>3. TypeOK'
  BY <1>1, <1>2 DEF TypeOK
<1>4. Books' /\ Fallback' /\ FallbackKept'
  BY <1>1, <1>2 DEF Books, Fallback, FallbackKept, At, SnapOK, Sound, CountersMatch
<1>5. LockKept' /\ Written' /\ Watched'
  BY <1>1, <1>2 DEF LockKept, Written, Watched, At
<1>6. Life' /\ Timers' /\ Swept'
  BY <1>1, <1>2 DEF Life, Timers, Swept, Armed
<1> QED  BY <1>3, <1>4, <1>5, <1>6 DEF WInv

LEMMA CleanupFilesStep ==
  ASSUME WInv, CleanupFiles
  PROVE  WInv'
<1>1. /\ TypeOK /\ Books /\ LockKept /\ Life /\ Timers /\ Watched /\ Written /\ Swept
      /\ Fallback /\ FallbackKept
  BY DEF WInv
<1>2. /\ cleanup = "files" /\ cleanup' = "done" /\ file' = None
      /\ pad' = [w \in Workers |-> "missing"]
      /\ UNCHANGED <<mem, rt, timer, gtimer, global, call, holder, tab, requests, restarts,
                     forced, reported, erased>>
  BY DEF CleanupFiles, engine, bounds, history
<1>3. mem = None
  BY <1>1, <1>2 DEF Life
<1>4. TypeOK'
  BY <1>1, <1>2 DEF TypeOK, Pad
<1>5. Books' /\ Fallback' /\ FallbackKept'
  BY <1>1, <1>2, <1>3 DEF Books, Fallback, FallbackKept, At, SnapOK, Sound, CountersMatch
<1>6. LockKept' /\ Written' /\ Watched'
  BY <1>1, <1>2, <1>3 DEF LockKept, Written, Watched, At
<1>7. Life' /\ Timers' /\ Swept'
  BY <1>1, <1>2, <1>3 DEF Life, Timers, Swept, Armed
<1> QED  BY <1>4, <1>5, <1>6, <1>7 DEF WInv

(* After a restart there are the files and nothing else. *)
LEMMA RestartStep ==
  ASSUME WInv, Restart
  PROVE  WInv'
<1>1. /\ TypeOK /\ Books /\ Life /\ Timers /\ Fallback /\ FallbackKept
  BY DEF WInv
<1>2. /\ mem # None /\ restarts < MaxRestarts /\ restarts' = restarts + 1
      /\ mem' = None /\ rt' = [w \in Workers |-> None] /\ timer' = {} /\ gtimer' = FALSE
      /\ global' = None /\ call' = [c \in Callers |-> None] /\ holder' = None /\ cleanup' = "no"
      /\ UNCHANGED <<file, pad, tab, requests, forced, reported, erased>>
  BY DEF Restart, disk, history
<1>3. file # None /\ reported = {}
  BY <1>1, <1>2 DEF Life, Fallback
<1>4. TypeOK'
  <2>1. restarts' \in 0 .. MaxRestarts
    BY <1>1, <1>2, WorkflowAssumption DEF TypeOK
  <2> QED  BY <2>1, <1>1, <1>2 DEF TypeOK
<1>5. \A c \in Callers : call'[c] = None
  BY <1>2
<1>6. Books' /\ Fallback' /\ FallbackKept'
  <2>1. Books'
    BY <1>1, <1>2, <1>5 DEF Books, Sound, CountersMatch
  <2>2. Fallback' /\ FallbackKept'
    BY <1>2, <1>3, <1>5 DEF Fallback, FallbackKept, At
  <2> QED  BY <2>1, <2>2
<1>7. LockKept' /\ Written' /\ Watched'
  BY <1>2, <1>5, CallerFacts DEF LockKept, Written, Watched, At
<1>8. Life' /\ Timers' /\ Swept'
  BY <1>2, <1>3, <1>5, CallerFacts DEF Life, Timers, Swept, Armed
<1> QED  BY <1>4, <1>6, <1>7, <1>8 DEF WInv

LEMMA NothingChanges ==
  ASSUME WInv, UNCHANGED vars
  PROVE  WInv'
<1>1. /\ TypeOK /\ Books /\ LockKept /\ Life /\ Timers /\ Watched /\ Written /\ Swept
      /\ Fallback /\ FallbackKept
  BY DEF WInv
<1>2. UNCHANGED <<mem, rt, timer, gtimer, global, call, holder, file, pad, tab, cleanup, requests,
                  restarts, forced, reported, erased>>
  BY DEF vars, engine, disk, bounds, history
<1>3. TypeOK'
  BY <1>1, <1>2 DEF TypeOK
<1>4. Books' /\ LockKept' /\ Written' /\ Fallback' /\ FallbackKept'
  BY <1>1, <1>2
     DEF Books, LockKept, Written, Fallback, FallbackKept, At, SnapOK, Sound, CountersMatch
<1>5. Life' /\ Timers' /\ Swept'
  BY <1>1, <1>2 DEF Life, Timers, Swept, Armed
<1>6. Watched'
  BY <1>1, <1>2 DEF Watched, Worker, Armed
<1> QED  BY <1>3, <1>4, <1>5, <1>6 DEF WInv

-----------------------------------------------------------------------------
(* The theorems                                                              *)

(* WInv is inductive. *)
THEOREM WInvHolds == Spec => []WInv
<1>1. ASSUME WInv, [Next]_vars  PROVE WInv'
  <2>1. ASSUME NEW ok \in SUBSET Workers, InitWorkflow(ok)  PROVE WInv'
    BY <1>1, <2>1, InitWorkflowStep
  <2>2. ASSUME NEW w \in Workers, NEW r \in Reports, Complete(w, r[1], r[2])
        PROVE  WInv'
    <3>1. r[1] \in EndStatus /\ r[2] \in Data \cup {None}
      BY ReportsAssumption
    <3> QED
      BY <1>1, <2>2, <3>1, CompleteStarts
  <2>3. ASSUME NEW w \in Workers, NEW data \in Data \cup {None}, Update(w, data)  PROVE WInv'
    BY <1>1, <2>3, UpdateStep
  <2>4. ASSUME NEW c \in Callers, CompleteStep(c)  PROVE WInv'
    BY <1>1, <2>4, CompletePadStep, AccountStep, WriteBehindStep, FallbackReadStep,
       FallbackWriteStep, FallbackFailsStep DEF CompleteStep
  <2>5. ASSUME NEW w \in Workers, WorkerTimeout(w) \/ GlobalForce(w)  PROVE WInv'
    BY <1>1, <2>5, TimeoutStep, GlobalForceStep
  <2>6. CASE GlobalTimeout \/ CleanupDelete \/ CleanupMemory \/ CleanupFiles \/ Restart
    BY <1>1, <2>6, GlobalTimeoutStep, CleanupDeleteStep, CleanupMemoryStep, CleanupFilesStep,
       RestartStep
  <2>7. CASE UNCHANGED vars
    BY <1>1, <2>7, NothingChanges
  <2> QED  BY <1>1, <2>1, <2>2, <2>3, <2>4, <2>5, <2>6, <2>7 DEF Next
<1> QED  BY InitInv, <1>1, PTL DEF Spec

(* Whoever completes a worker, how often and in whatever order (the agent,   *)
(* its timeout, the global timeout, the breaker), completeWorker's counters  *)
(* and overall status agree with the statuses, in memory, in orchestration.md *)
(* and in every write-behind on its way.                                     *)
THEOREM CountersAlwaysMatch == Spec => []Consistent
<1>1. WInv => Consistent
  <2> SUFFICES ASSUME WInv PROVE Consistent
    OBVIOUS
  <2>1. ASSUME NEW c \in Callers, call[c] # None, call[c].snap # None
        PROVE  CountersMatch(call[c].snap)
    BY <2>1 DEF WInv, Books, SnapOK, Sound
  <2>2. mem # None => CountersMatch(mem)
    BY DEF WInv, Books, Sound
  <2>3. file # None => CountersMatch(file)
    BY DEF WInv, Books, Sound
  <2> QED  BY <2>1, <2>2, <2>3 DEF Consistent, WInv
<1> QED  BY <1>1, WInvHolds, PTL

(* The three ways to force a worker, racing each other, force it once while  *)
(* the workflow lives: the timedOut mark of forceCompleteWorker suffices.    *)
THEOREM NobodyForcedTwice == Spec => []ForcedOnce
<1>1. WInv => ForcedOnce
  BY DEF WInv, Watched, Worker, ForcedOnce
<1> QED  BY <1>1, WInvHolds, PTL

(* The file fallback's lock suffices: completions after a restart do not     *)
(* undo each other, with any number of agents.                               *)
THEOREM FallbackLosesNothing == Spec => []FallbackKept
<1>1. WInv => FallbackKept
  BY DEF WInv
<1> QED  BY <1>1, WInvHolds, PTL

(* No worker runs with nobody left to end it: disarming a timeout and taking *)
(* a worker off the global list go with a completion under way.              *)
THEOREM NobodyIsStranded == Spec => []NeverStranded
<1>1. WInv => NeverStranded
  <2> SUFFICES ASSUME WInv, mem # None, NEW w \in Workers, ~IsEnd(mem.stat[w]),
                      call[<<"force", w>>] = None
               PROVE  w \in timer /\ ~(GlobalReady /\ global.todo = {})
    BY DEF NeverStranded, Forcers
  <2>1. Worker(w) /\ (w \in timer <=> Armed(w))
    BY DEF WInv, Watched, Timers
  <2>2. Armed(w)
    BY <2>1 DEF Worker
  <2>3. global # None => w \in global.todo
    BY <2>1, <2>2 DEF Worker
  <2> QED  BY <2>1, <2>2, <2>3 DEF GlobalReady
<1> QED  BY <1>1, WInvHolds, PTL
===============================================================================
