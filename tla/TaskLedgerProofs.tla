--------------------------- MODULE TaskLedgerProofs ---------------------------
(***************************************************************************)
(* The safety of the task ledger, and that it implements TaskLife, for any *)
(* tasks, servers, process ids and tool calls.                             *)
(*                                                                         *)
(* TInv is the inductive invariant. A draft is made and written under the  *)
(* lock, so the row it was made from is still there when it is written     *)
(* (Drafted); a runner and its row move together (RunnerOK), and while the *)
(* runner lives the row carries the pid of a server that lives, which is   *)
(* what keeps every sweep away from it; a pid that lives again excuses the *)
(* tasks it once belonged to (DeadPids).                                   *)
(***************************************************************************)
EXTENDS TaskLedger, FiniteSetTheorems, TLAPS

Status(t) == meta[t].status

(* The draft d of the update u, beside the row it was made from. *)
Drafted(u, d) ==
  LET m == meta[u.task] IN
  /\ d \in Meta /\ m.status \notin Terminal
  /\ d.kind = m.kind /\ d.pid = m.pid /\ (m.cancel => d.cancel)
  /\ d.orphaned => m.orphaned \/ u.op = "reap"
  /\ d.calls = IF u.op = "record" THEN m.calls + 1 ELSE m.calls
  /\ u.op = "start" => m.status = "PENDING" /\ d.status = "RUNNING"
  /\ u.op = "final" => d.status = outcome[u.task]
  /\ u.op = "reap" => d.status = "FAILED" /\ run[u.task] = "dead"
  /\ u.op = "cancel" => /\ d.cancel
                        /\ d.status = IF m.kind = "tool" /\ m.status = "RUNNING"
                                      THEN "RUNNING" ELSE "CANCELLED"
  /\ u.op = "finish" => d.status = u.arg
  /\ u.op = "record" => d.status = m.status

(* Who makes which update, and the lock it holds once it has read the row. *)
UpdOK(a) ==
  upd[a] # None =>
    LET u == upd[a] IN
    /\ Created(u.task)
    /\ u.op \in {"start", "final"} => a \in Tasks /\ u.task = a /\ u.by = at[a]
    /\ u.op = "reap" => a \in Servers /\ u.by = a /\ srv[a] = "reaping"
    /\ u.op \in {"cancel", "finish", "record"} => a \in Calls
    /\ u.op = "finish" => u.arg \in Terminal
    /\ u.op \in {"finish", "record"} => ~IsTool(u.task)
    /\ u.stage # "lock" => lock[u.task] = a
    /\ u.stage = "write" => Drafted(u, u.draft)

(* A lock that is not of a dead process is held by an update of that task. *)
LockOK(t) ==
  lock[t] \in Actors => /\ upd[lock[t]] # None
                        /\ upd[lock[t]].task = t /\ upd[lock[t]].stage # "lock"

(* The runner of t and the row of t. *)
RunnerOK(t) ==
  /\ run[t] = "none" <=> ~Created(t)
  /\ run[t] = "start" =>
       /\ IsTool(t) /\ upd[t] # None /\ upd[t].op = "start"
       /\ upd[t].stage = "lock" => Status(t) # "RUNNING"
       /\ upd[t].stage = "release" => IF upd[t].draft = None THEN Ended(t)
                                      ELSE Status(t) = "RUNNING"
  /\ run[t] \in {"invoke", "write"} => IsTool(t) /\ Status(t) = "RUNNING"
  /\ run[t] = "final" =>
       /\ IsTool(t) /\ upd[t] # None /\ upd[t].op = "final"
       /\ IF upd[t].stage = "release" THEN Ended(t) ELSE Status(t) = "RUNNING"
       /\ outcome[t] = "COMPLETED" => t \in result
  /\ run[t] \in {"write", "final"} => outcome[t] \in Terminal
  /\ run[t] = "host" => ~IsTool(t)
  /\ run[t] = "done" => Ended(t)
  /\ run[t] \notin {"start", "final"} => upd[t] = None
  /\ Created(t) /\ ~IsTool(t) => Status(t) # "PENDING"

(* A task with a runner belongs to a server that is not down. *)
HomeOK(t) ==
  run[t] \in Live \cup {"threw"} => /\ at[t] \in Servers /\ srv[at[t]] # "down"
                                    /\ meta[t].pid = pid[at[t]]

(* A server has a pid of its own while it is up, and sweeps only once. *)
ServerOK(s) ==
  /\ pid[s] = None <=> srv[s] = "down"
  /\ \A r \in Servers : pid[r] = pid[s] /\ pid[s] # None => r = s
  /\ srv[s] # "reaping" => todo[s] = {} /\ upd[s] = None
  /\ \A t \in todo[s] : Created(t)

(* A dead task whose pid lives is excused. *)
DeadPids ==
  \A t \in Tasks : run[t] = "dead" /\ PidAlive(meta[t].pid) => t \in excused

(* What a sweep has found is ended, or the sweep is still about it. *)
SweepOK(s) ==
  \A t \in left[s] :
    /\ run[t] = "dead" /\ Created(t)
    /\ srv[s] # "down" /\ t \notin excused =>
         \/ Ended(t) \/ t \in todo[s]
         \/ upd[s] # None /\ upd[s].task = t /\ upd[s].stage # "release"

OrphansDead == \A t \in Tasks : Created(t) /\ meta[t].orphaned => run[t] = "dead"

(* A cancelled tool never has a successful outcome. *)
TimelyOK ==
  \A t \in timely :
    /\ IsTool(t) /\ meta[t].cancel /\ Status(t) # "COMPLETED"
    /\ run[t] \in {"write", "final"} => outcome[t] # "COMPLETED"

(* The calls to be recorded for t. *)
Recording(t) ==
  {c \in Calls : upd[c] # None /\ upd[c].op = "record" /\ upd[c].task = t
                 /\ upd[c].stage # "release"}

CountOK(t) ==
  /\ IF Created(t) THEN meta[t].calls = counted[t] ELSE counted[t] = 0
  /\ counted[t] + Cardinality(Recording(t)) <= MaxCounted

TInv ==
  /\ TypeOK
  /\ \A a \in Actors : UpdOK(a)
  /\ \A t \in Tasks : LockOK(t) /\ RunnerOK(t) /\ HomeOK(t) /\ CountOK(t)
  /\ \A s \in Servers : ServerOK(s) /\ SweepOK(s)
  /\ DeadPids /\ OrphansDead /\ TimelyOK

-----------------------------------------------------------------------------
(* Types                                                                     *)

(* A row is a record with known fields. *)
LEMMA RowType ==
  ASSUME TypeOK, NEW t \in Tasks, Created(t)
  PROVE  /\ meta[t] \in Meta
         /\ meta[t].kind \in {"tool", "browser_task"}
         /\ meta[t].status \in {"PENDING", "RUNNING", "COMPLETED", "FAILED", "CANCELLED"}
         /\ meta[t].pid \in Pids /\ meta[t].calls \in 0 .. MaxCounted
         /\ meta[t].cancel \in BOOLEAN /\ meta[t].orphaned \in BOOLEAN
  BY DEF TypeOK, Created, Meta, Terminal

(* An update in progress is a record with known fields. *)
LEMMA UpdType ==
  ASSUME TypeOK, NEW a \in Actors, upd[a] # None
  PROVE  /\ upd[a] \in Update
         /\ upd[a].op \in {"start", "final", "reap", "cancel", "finish", "record"}
         /\ upd[a].task \in Tasks /\ upd[a].by \in Servers
         /\ upd[a].arg \in Terminal \cup {None}
         /\ upd[a].stage \in {"lock", "write", "release"}
         /\ upd[a].draft \in Meta \cup {None}
  BY DEF TypeOK, Update

(* A request is an update that has not read the row. *)
LEMMA RequestType ==
  ASSUME NEW o \in {"start", "final", "reap", "cancel", "finish", "record"},
         NEW t \in Tasks, NEW s \in Servers, NEW arg \in Terminal \cup {None}
  PROVE  LET r == Request(o, t, s, arg) IN
         /\ r \in Update /\ r # None
         /\ r.op = o /\ r.task = t /\ r.by = s /\ r.arg = arg /\ r.stage = "lock"
         /\ r.draft = None
  BY NoneAssumption DEF Request, Update

(* The calls to be recorded are finitely many. *)
LEMMA RecordingFinite ==
  ASSUME NEW t
  PROVE  IsFiniteSet(Recording(t)) /\ Cardinality(Recording(t)) \in Nat
<1>1. IsFiniteSet(Recording(t))
  BY LedgerAssumption, FS_Subset DEF Recording
<1> QED
  BY <1>1, FS_CardinalityType

(* A call that is to be recorded has room for it. *)
LEMMA RoomToRecord ==
  ASSUME TypeOK, NEW t \in Tasks, CountOK(t), NEW c \in Recording(t)
  PROVE  /\ counted[t] + 1 \in 0 .. MaxCounted
         /\ counted[t] + 1 + Cardinality(Recording(t) \ {c}) <= MaxCounted
<1>1. Cardinality(Recording(t) \ {c}) = Cardinality(Recording(t)) - 1
  BY RecordingFinite, FS_RemoveElement
<1>2. IsFiniteSet(Recording(t) \ {c})
  BY RecordingFinite, FS_RemoveElement
<1>3. Cardinality(Recording(t) \ {c}) \in Nat /\ Cardinality(Recording(t)) \in Nat
  BY <1>2, RecordingFinite, FS_CardinalityType
<1>4. counted[t] \in 0 .. MaxCounted
  BY DEF TypeOK
<1> QED
  BY <1>1, <1>3, <1>4, LedgerAssumption DEF CountOK

-----------------------------------------------------------------------------
(* The mutators                                                              *)

(* A mutator that does not abort makes a draft of the row it read; one that  *)
(* aborts has found the task ended, or nothing it may do.                    *)
LEMMA MutatedOK ==
  ASSUME TInv, NEW a \in Actors, In(a, "lock")
  PROVE  LET u == upd[a] IN
         /\ Mutated(u) \in Meta \cup {None}
         /\ Mutated(u) # None => Drafted(u, Mutated(u))
         /\ Mutated(u) = None =>
              \/ Ended(u.task)
              \/ u.op = "reap" /\ PidAlive(meta[u.task].pid)
<1> DEFINE u == upd[a]
           t == u.task
           m == meta[t]
<1> USE DEF TInv
<1>1. /\ upd[a] # None /\ u.stage = "lock" /\ u.arg \in Terminal \cup {None} /\ t \in Tasks
      /\ u.op \in {"start", "final", "reap", "cancel", "finish", "record"}
      /\ Created(t) /\ UpdOK(a)
  BY UpdType DEF In, UpdOK
<1>2. /\ m \in Meta /\ m # None /\ m.calls \in 0 .. MaxCounted
      /\ m.kind \in {"tool", "browser_task"} /\ m.orphaned \in BOOLEAN /\ m.cancel \in BOOLEAN
      /\ m.status \in {"PENDING", "RUNNING", "COMPLETED", "FAILED", "CANCELLED"}
  BY <1>1, RowType DEF Created
<1>3. Ended(t) <=> m.status \in Terminal
  BY <1>1 DEF Ended
<1>4. CASE u.op = "start"
  <2>1. t = a /\ a \in Tasks /\ run[t] = "start"
    BY <1>1, <1>4 DEF UpdOK, RunnerOK
  <2>2. at[t] \in Servers /\ pid[at[t]] = m.pid /\ m.status # "RUNNING"
    BY <1>1, <1>4, <2>1 DEF HomeOK, RunnerOK, Live, Status
  <2> DEFINE d == [m EXCEPT !.status = "RUNNING", !.pid = pid[at[t]]]
  <2>3. Mutated(u) = IF m.status # "PENDING" THEN None ELSE d
    BY <1>4 DEF Mutated, Started, Unless
  <2>4. d \in Meta /\ d.kind = m.kind /\ d.pid = m.pid /\ d.cancel = m.cancel
        /\ d.orphaned = m.orphaned /\ d.calls = m.calls /\ d.status = "RUNNING"
    BY <1>2, <2>2 DEF Meta
  <2>5. m.status # "PENDING" => m.status \in Terminal
    BY <1>2, <2>2 DEF Terminal
  <2> HIDE DEF d, u, t, m
  <2>6. Drafted(u, d) \/ m.status # "PENDING"
    BY <1>4, <2>4 DEF Drafted, Terminal, t, m
  <2> QED
    BY <1>3, <2>3, <2>4, <2>5, <2>6, NoneAssumption DEF u, t, m
<1>5. CASE u.op = "final"
  <2>1. t = a /\ a \in Tasks /\ run[t] = "final"
    BY <1>1, <1>5 DEF UpdOK, RunnerOK
  <2>2. outcome[t] \in Terminal
    BY <1>1, <2>1 DEF RunnerOK
  <2> DEFINE d == [m EXCEPT !.status = outcome[t]]
  <2>3. Mutated(u) = IF Ended(t) THEN None ELSE d
    BY <1>5 DEF Mutated, RunEnded, Unless
  <2>4. d \in Meta /\ d.kind = m.kind /\ d.pid = m.pid /\ d.cancel = m.cancel
        /\ d.orphaned = m.orphaned /\ d.calls = m.calls /\ d.status = outcome[t]
    BY <1>2, <2>2 DEF Meta
  <2> HIDE DEF d, u, t, m
  <2>5. Drafted(u, d) \/ Ended(t)
    BY <1>3, <1>5, <2>4 DEF Drafted, t, m
  <2> QED
    BY <2>3, <2>4, <2>5, NoneAssumption DEF u, t, m
<1>6. CASE u.op = "reap"
  <2> DEFINE d == [m EXCEPT !.status = "FAILED", !.orphaned = TRUE]
  <2>1. Mutated(u) = IF Ended(t) \/ PidAlive(m.pid) THEN None ELSE d
    BY <1>6 DEF Mutated, Reaped, Unless
  <2>2. d \in Meta /\ d.kind = m.kind /\ d.pid = m.pid /\ d.cancel = m.cancel
        /\ d.calls = m.calls /\ d.status = "FAILED"
    BY <1>2 DEF Meta, Terminal
  <2>3. Ended(t) \/ PidAlive(m.pid) \/ run[t] = "dead"
    BY <1>1 DEF RunnerOK, HomeOK, PidAlive, TypeOK
  <2> HIDE DEF d, u, t, m
  <2>4. Drafted(u, d) \/ Ended(t) \/ PidAlive(m.pid)
    BY <1>3, <1>6, <2>2, <2>3 DEF Drafted, t, m
  <2> QED
    BY <1>6, <2>1, <2>2, <2>4, NoneAssumption DEF u, t, m
<1>7. CASE u.op = "cancel"
  <2> DEFINE d == [m EXCEPT !.status = "CANCELLED", !.cancel = TRUE]
             e == [m EXCEPT !.cancel = TRUE]
  <2>1. Mutated(u) = IF Ended(t) THEN None
                     ELSE IF m.status = "PENDING" \/ ~IsTool(t) THEN d ELSE e
    BY <1>7 DEF Mutated, Cancelled, Unless
  <2>2. d \in Meta /\ d.kind = m.kind /\ d.pid = m.pid /\ d.cancel = TRUE
        /\ d.orphaned = m.orphaned /\ d.calls = m.calls /\ d.status = "CANCELLED"
    BY <1>2 DEF Meta, Terminal
  <2>3. e \in Meta /\ e.kind = m.kind /\ e.pid = m.pid /\ e.cancel = TRUE
        /\ e.orphaned = m.orphaned /\ e.calls = m.calls /\ e.status = m.status
    BY <1>2 DEF Meta
  <2>4. IsTool(t) <=> m.kind = "tool"
    BY <1>1 DEF IsTool
  <2> HIDE DEF d, e, u, t, m
  <2>5. Drafted(u, d) \/ Ended(t) \/ ~(m.status = "PENDING" \/ ~IsTool(t))
    BY <1>3, <1>7, <2>2, <2>4 DEF Drafted, t, m
  <2>6. Drafted(u, e) \/ Ended(t) \/ m.status = "PENDING" \/ ~IsTool(t)
    BY <1>2, <1>3, <1>7, <2>3, <2>4 DEF Drafted, Terminal, t, m
  <2> QED
    BY <2>1, <2>2, <2>3, <2>5, <2>6, NoneAssumption DEF u, t, m
<1>8. CASE u.op = "finish"
  <2>1. u.arg \in Terminal
    BY <1>1, <1>8 DEF UpdOK
  <2> DEFINE d == [m EXCEPT !.status = u.arg]
  <2>2. Mutated(u) = IF Ended(t) THEN None ELSE d
    BY <1>8 DEF Mutated, Finished, Unless
  <2>3. d \in Meta /\ d.kind = m.kind /\ d.pid = m.pid /\ d.cancel = m.cancel
        /\ d.orphaned = m.orphaned /\ d.calls = m.calls /\ d.status = u.arg
    BY <1>2, <2>1 DEF Meta
  <2> HIDE DEF d, u, t, m
  <2>4. Drafted(u, d) \/ Ended(t)
    BY <1>3, <1>8, <2>3 DEF Drafted, t, m
  <2> QED
    BY <2>2, <2>3, <2>4, NoneAssumption DEF u, t, m
<1>9. CASE u.op = "record"
  <2>1. a \in Recording(t) /\ CountOK(t)
    BY <1>1, <1>9 DEF UpdOK, Recording
  <2>2. m.calls + 1 \in 0 .. MaxCounted
    BY <1>1, <2>1, RoomToRecord DEF CountOK
  <2> DEFINE d == [m EXCEPT !.calls = @ + 1]
  <2>3. Mutated(u) = IF Ended(t) THEN None ELSE d
    BY <1>9 DEF Mutated, Recorded, Unless
  <2>4. d \in Meta /\ d.kind = m.kind /\ d.pid = m.pid /\ d.cancel = m.cancel
        /\ d.orphaned = m.orphaned /\ d.calls = m.calls + 1 /\ d.status = m.status
    BY <1>2, <2>2 DEF Meta
  <2> HIDE DEF d, u, t, m
  <2>5. Drafted(u, d) \/ Ended(t)
    BY <1>3, <1>9, <2>4 DEF Drafted, t, m
  <2> QED
    BY <2>3, <2>4, <2>5, NoneAssumption DEF u, t, m
<1> QED
  BY <1>1, <1>4, <1>5, <1>6, <1>7, <1>8, <1>9

-----------------------------------------------------------------------------
(* TaskStore.update                                                          *)

LEMMA LockKeeps ==
  ASSUME TInv, NEW a \in Actors, Lock(a)
  PROVE  TInv'
<1> DEFINE t == upd[a].task
           next == Mutated(upd[a])
           r == [upd[a] EXCEPT !.stage = IF next = None THEN "release" ELSE "write",
                               !.draft = next]
<1> USE DEF TInv
<1>1. /\ upd[a] # None /\ upd[a].stage = "lock" /\ upd[a] \in Update /\ t \in Tasks
      /\ In(a, "lock") /\ lock[t] = None /\ UpdOK(a)
  BY UpdType DEF Lock, In, MayLock
<1>2. /\ next \in Meta \cup {None} /\ (next # None => Drafted(upd[a], next))
      /\ next = None => Ended(t) \/ (upd[a].op = "reap" /\ PidAlive(meta[t].pid))
  BY <1>1, MutatedOK
<1>3. /\ upd' = [upd EXCEPT ![a] = r] /\ lock' = [lock EXCEPT ![t] = a]
      /\ UNCHANGED <<meta, result, server, runner, history>>
  BY DEF Lock
<1>4. /\ r \in Update /\ r.op = upd[a].op /\ r.task = t /\ r.by = upd[a].by
      /\ r.arg = upd[a].arg /\ r.draft = next
      /\ r.stage = IF next = None THEN "release" ELSE "write"
  BY <1>1, <1>2 DEF Update
<1> HIDE DEF next, r
<1>5. r # None
  BY <1>4, NoneAssumption
<1>6. /\ upd'[a] = r /\ \A b \in Actors \ {a} : upd'[b] = upd[b]
      /\ lock'[t] = a /\ \A x \in Tasks \ {t} : lock'[x] = lock[x]
  BY <1>1, <1>3 DEF TypeOK
<1>7. UNCHANGED <<meta, result, srv, pid, todo, at, starts, run, outcome, detected,
                  counted, timely, left, excused>>
  BY <1>3 DEF server, runner, history
<1>8. TypeOK'
  BY <1>1, <1>3, <1>4, <1>7 DEF TypeOK
<1>9. ASSUME NEW b \in Actors PROVE UpdOK(b)'
  <2>1. CASE b = a
    BY <1>1, <1>2, <1>4, <1>6, <1>7, <2>1 DEF UpdOK, Created, IsTool, Drafted
  <2>2. CASE b # a
    <3>1. upd[b] # None /\ upd[b].stage # "lock" => upd[b].task \in Tasks \ {t}
      BY <1>1, UpdType, LedgerAssumption DEF UpdOK, Actors
    <3> QED
      BY <1>6, <1>7, <2>2, <3>1 DEF UpdOK, Created, IsTool, Drafted
  <2> QED
    BY <2>1, <2>2
<1>10. ASSUME NEW x \in Tasks PROVE LockOK(x)'
  <2>1. lock[x] # a
    BY <1>1, <1>6 DEF LockOK
  <2> QED
    BY <1>4, <1>5, <1>6, <2>1 DEF LockOK
<1>11. ASSUME NEW x \in Tasks PROVE RunnerOK(x)'
  <2>1. CASE x = a
    <3>1. upd[x].op \in {"start", "final"} /\ t = x
      BY <1>1, <2>1, UpdType, LedgerAssumption DEF UpdOK, Actors
    <3>2. run[x] \in {"start", "final"}
      BY <1>1, <2>1 DEF RunnerOK
    <3>3. next # None => meta[x].status = "PENDING" \/ run[x] = "final"
      BY <1>1, <1>2, <2>1, <3>1, <3>2 DEF RunnerOK, Drafted
    <3>4. next = None => Ended(x)
      BY <1>2, <2>1, <3>1
    <3> QED
      BY <1>1, <1>4, <1>5, <1>6, <1>7, <2>1, <3>1, <3>2, <3>3, <3>4
         DEF RunnerOK, Created, IsTool, Ended, Status
  <2>2. CASE x # a
    <3>1. upd'[x] = upd[x]
      BY <1>6, <2>2 DEF Actors
    <3> QED
      BY <1>7, <3>1 DEF RunnerOK, Created, IsTool, Ended, Status
  <2> QED
    BY <2>1, <2>2
<1>12. ASSUME NEW x \in Tasks PROVE HomeOK(x)'
  BY <1>7 DEF HomeOK
<1>13. ASSUME NEW x \in Tasks PROVE CountOK(x)'
  <2>1. Recording(x)' \subseteq Recording(x)
    BY <1>1, <1>4, <1>6 DEF Recording, Actors
  <2>2. Cardinality(Recording(x)') <= Cardinality(Recording(x))
    BY <2>1, RecordingFinite, FS_Subset
  <2>3. Cardinality(Recording(x)') \in Nat
    BY <2>1, RecordingFinite, FS_Subset, FS_CardinalityType
  <2> QED
    BY <1>7, <2>2, <2>3, RecordingFinite, LedgerAssumption DEF CountOK, Created, TypeOK
<1>14. ASSUME NEW s \in Servers PROVE ServerOK(s)' /\ SweepOK(s)'
  <2>1. ServerOK(s)'
    BY <1>1, <1>6, <1>7 DEF ServerOK, Actors, Created
  <2>2. SweepOK(s)'
    <3>1. CASE s = a
      <4>1. upd[a].op = "reap"
        BY <1>1, <3>1, UpdType, LedgerAssumption DEF UpdOK, Actors
      <4>2. ASSUME NEW x \in left[s], x = t, x \notin excused, next = None PROVE Ended(x)
        BY <1>2, <1>1, <4>2 DEF SweepOK, DeadPids
      <4> QED
        BY <1>1, <1>4, <1>5, <1>6, <1>7, <3>1, <4>2 DEF SweepOK, Created, Ended
    <3>2. CASE s # a
      BY <1>6, <1>7, <3>2 DEF SweepOK, Created, Ended, Actors
    <3> QED
      BY <3>1, <3>2
  <2> QED
    BY <2>1, <2>2
<1>15. DeadPids' /\ OrphansDead' /\ TimelyOK'
  BY <1>7 DEF DeadPids, PidAlive, OrphansDead, TimelyOK, Created, IsTool, Status
<1> QED
  BY <1>8, <1>9, <1>10, <1>11, <1>12, <1>13, <1>14, <1>15

LEMMA WriteKeeps ==
  ASSUME TInv, NEW a \in Actors, Write(a)
  PROVE  TInv'
<1> USE DEF TInv
<1>0. PICK t \in Tasks : t = upd[a].task
  BY UpdType DEF Write, In
<1> DEFINE u == upd[a]
           m == meta[t]
           d == upd[a].draft
           r == [upd[a] EXCEPT !.stage = "release"]
<1>1. /\ u.task = t /\ upd[a] # None /\ u.stage = "write" /\ u \in Update /\ t \in Tasks /\ UpdOK(a)
      /\ u.op \in {"start", "final", "reap", "cancel", "finish", "record"}
      /\ lock[t] = a /\ Drafted(u, d) /\ Created(t)
  BY <1>0, UpdType DEF Write, In, UpdOK
<1>2. /\ meta' = [meta EXCEPT ![t] = d] /\ upd' = [upd EXCEPT ![a] = r]
      /\ counted' = IF u.op = "record" THEN [counted EXCEPT ![t] = @ + 1] ELSE counted
      /\ timely' = IF u.op = "cancel" /\ Running(t) THEN timely \cup {t} ELSE timely
      /\ UNCHANGED <<result, lock, server, runner, left, excused>>
  BY <1>0 DEF Write
<1>3. /\ r \in Update /\ r # None /\ r.op = u.op /\ r.task = t /\ r.by = u.by
      /\ r.arg = u.arg /\ r.draft = d /\ r.stage = "release"
  BY <1>1, NoneAssumption DEF Update
<1>4. /\ d \in Meta /\ d # None /\ d.kind = m.kind /\ d.pid = m.pid
      /\ m.status \notin Terminal /\ ~Ended(t)
      /\ d.status \in {"PENDING", "RUNNING", "COMPLETED", "FAILED", "CANCELLED"}
  BY <1>1, NoneAssumption DEF Drafted, Meta, Ended, Terminal
<1>5. /\ upd'[a] = r /\ \A b \in Actors \ {a} : upd'[b] = upd[b]
      /\ meta'[t] = d /\ \A x \in Tasks \ {t} : meta'[x] = meta[x]
  BY <1>1, <1>2 DEF TypeOK
<1>6. UNCHANGED <<result, lock, srv, pid, todo, at, starts, run, outcome, detected,
                  left, excused>>
  BY <1>2 DEF server, runner
<1>7. /\ \A x \in Tasks : Created(x)' <=> Created(x)
      /\ \A x \in Tasks : IsTool(x)' <=> IsTool(x)
      /\ \A x \in Tasks : Ended(x) => Ended(x)'
      /\ Ended(t)' <=> d.status \in Terminal
  BY <1>1, <1>4, <1>5 DEF Created, IsTool, Ended
<1>8. \A b \in Actors \ {a} : upd[b] # None /\ upd[b].task = t => upd[b].stage = "lock"
  BY <1>1 DEF UpdOK
<1>9. u.op = "record" => a \in Recording(t) /\ a \in Calls
  BY <1>1 DEF UpdOK, Recording
<1>10. TypeOK'
  <2>1. counted' \in [Tasks -> 0 .. MaxCounted]
    BY <1>1, <1>2, <1>9, RoomToRecord DEF TypeOK
  <2>2. timely' \subseteq Tasks
    BY <1>1, <1>2 DEF TypeOK
  <2> HIDE DEF d, r
  <2> QED
    BY <1>1, <1>2, <1>3, <1>4, <1>6, <2>1, <2>2 DEF TypeOK
<1> HIDE DEF r
<1>11. ASSUME NEW b \in Actors PROVE UpdOK(b)'
  <2>1. CASE b = a
    BY <1>1, <1>3, <1>5, <1>6, <1>7, <2>1 DEF UpdOK
  <2>2. CASE b # a /\ upd[b] # None
    <3>1. upd[b].task \in Tasks
      BY <2>2, UpdType
    <3>2. upd[b].stage = "write" => meta'[upd[b].task] = meta[upd[b].task]
      BY <1>5, <1>8, <2>2, <3>1
    <3>3. upd[b].stage = "write" => Drafted(upd[b], upd[b].draft)'
      BY <1>5, <1>6, <2>2, <3>1, <3>2 DEF UpdOK, Drafted
    <3> QED
      BY <1>5, <1>6, <1>7, <2>2, <3>1, <3>3 DEF UpdOK
  <2>3. CASE b # a /\ upd[b] = None
    BY <1>5, <2>3 DEF UpdOK
  <2> QED
    BY <2>1, <2>2, <2>3
<1>12. ASSUME NEW x \in Tasks PROVE LockOK(x)'
  BY <1>3, <1>5, <1>6, <1>1 DEF LockOK
<1>13. ASSUME NEW x \in Tasks PROVE RunnerOK(x)'
  <2>1. CASE x # t
    <3>1. x # a
      BY <1>1, <2>1, LedgerAssumption DEF UpdOK, Actors
    <3>2. upd'[x] = upd[x] /\ meta'[x] = meta[x]
      BY <1>5, <2>1, <3>1 DEF Actors
    <3> QED
      BY <1>6, <3>2 DEF RunnerOK, Created, IsTool, Ended, Status
  <2>2. CASE x = t /\ a = t
    <3>1. u.op \in {"start", "final"} /\ run[t] \in {"start", "final"}
      BY <1>1, <2>2, LedgerAssumption DEF UpdOK, RunnerOK
    <3>2. run[t] = "start" => u.op = "start" /\ d.status = "RUNNING"
      BY <1>1, <2>2 DEF RunnerOK, Drafted
    <3>3. run[t] = "final" => u.op = "final" /\ d.status \in Terminal
      BY <1>1, <2>2 DEF RunnerOK, Drafted
    <3>4. IsTool(t)
      BY <2>2, <3>1 DEF RunnerOK
    <3> QED
      BY <1>1, <1>3, <1>4, <1>5, <1>6, <1>7, <2>2, <3>1, <3>2, <3>3, <3>4 DEF RunnerOK, Status
  <2>3. CASE x = t /\ a # t
    <3>1. u.op \in {"reap", "cancel", "finish", "record"}
      BY <1>1, <2>3 DEF UpdOK
    <3>2. upd'[t] = upd[t] /\ (upd[t] # None => upd[t].stage = "lock")
      BY <1>1, <1>5, <1>8, <2>3 DEF Actors, RunnerOK, UpdOK
    <3>3. run[t] # "done" /\ run[t] # "none"
      BY <1>1, <1>4 DEF RunnerOK
    <3>4. CASE u.op = "reap"
      BY <1>1, <1>4, <1>5, <1>6, <1>7, <2>3, <3>2, <3>4 DEF RunnerOK, Status, Drafted
    <3>5. CASE u.op = "cancel"
      <4>1. IsTool(t) <=> m.kind = "tool"
        BY <1>1 DEF IsTool
      <4>2. d.status = IF m.kind = "tool" /\ m.status = "RUNNING" THEN "RUNNING" ELSE "CANCELLED"
        BY <1>1, <3>5 DEF Drafted
      <4> QED
        BY <1>1, <1>4, <1>5, <1>6, <1>7, <2>3, <3>2, <3>3, <4>1, <4>2 DEF RunnerOK, Status
    <3>6. CASE u.op \in {"finish", "record"}
      <4>1. ~IsTool(t) /\ run[t] \notin {"start", "invoke", "write", "final"}
        BY <1>1, <3>6 DEF UpdOK, RunnerOK
      <4>2. d.status # "PENDING"
        BY <1>1, <3>6, <4>1 DEF UpdOK, RunnerOK, Drafted, Status, Terminal
      <4> QED
        BY <1>4, <1>5, <1>6, <1>7, <2>3, <3>2, <3>3, <4>1, <4>2 DEF RunnerOK, Status
    <3> QED
      BY <3>1, <3>4, <3>5, <3>6
  <2> QED
    BY <2>1, <2>2, <2>3
<1>14. ASSUME NEW x \in Tasks PROVE HomeOK(x)'
  BY <1>4, <1>5, <1>6 DEF HomeOK
<1>15. ASSUME NEW x \in Tasks PROVE CountOK(x)'
  <2>1. counted[x] \in 0 .. MaxCounted
    BY DEF TypeOK
  <2>2. CASE x = t /\ u.op = "record"
    <3>1. Recording(t)' = Recording(t) \ {a}
      BY <1>3, <1>5 DEF Recording, Actors
    <3>2. counted'[t] = counted[t] + 1 /\ d.calls = m.calls + 1
      BY <1>1, <1>2, <2>2 DEF TypeOK, Drafted
    <3>3. counted[t] + 1 + Cardinality(Recording(t)') <= MaxCounted
      BY <1>1, <1>9, <2>2, <3>1, RoomToRecord
    <3>4. meta'[t].calls = counted'[t] /\ Created(t)'
      BY <1>1, <1>5, <1>7, <3>2 DEF CountOK
    <3> QED
      BY <2>2, <3>2, <3>3, <3>4 DEF CountOK
  <2>3. CASE ~(x = t /\ u.op = "record")
    <3>1. Recording(x)' = Recording(x)
      BY <1>1, <1>3, <1>5, <2>3 DEF Recording, Actors
    <3>2. counted'[x] = counted[x]
      BY <1>1, <1>2, <2>3 DEF TypeOK
    <3>3. Created(x) => meta'[x].calls = meta[x].calls
      BY <1>1, <1>5, <2>3 DEF Drafted
    <3> QED
      BY <1>7, <3>1, <3>2, <3>3 DEF CountOK
  <2> QED
    BY <2>2, <2>3
<1>16. ASSUME NEW s \in Servers PROVE ServerOK(s)' /\ SweepOK(s)'
  <2>1. ServerOK(s)'
    BY <1>1, <1>5, <1>6, <1>7 DEF ServerOK, Actors, TypeOK
  <2>2. SweepOK(s)'
    <3>1. left[s] \subseteq Tasks
      BY DEF TypeOK
    <3>2. CASE s = a
      <4>1. u.op = "reap" /\ Ended(t)'
        BY <1>1, <1>7, <3>2, LedgerAssumption DEF UpdOK, Drafted, Terminal
      <4>2. ASSUME NEW x \in left[s], srv[s] # "down", x \notin excused
            PROVE  Ended(x)' \/ x \in todo[s]
        BY <1>1, <1>7, <3>1, <3>2, <4>1, <4>2 DEF SweepOK
      <4> QED
        BY <1>6, <1>7, <3>1, <4>2 DEF SweepOK
    <3>3. CASE s # a
      BY <1>5, <1>6, <1>7, <3>1, <3>3 DEF SweepOK, Actors
    <3> QED
      BY <3>2, <3>3
  <2> QED
    BY <2>1, <2>2
<1>17. DeadPids' /\ OrphansDead'
  BY <1>1, <1>4, <1>5, <1>6, <1>7 DEF DeadPids, PidAlive, OrphansDead, Drafted
<1>18. TimelyOK'
  <2> SUFFICES ASSUME NEW x \in timely'
               PROVE  (/\ IsTool(x) /\ meta[x].cancel /\ Status(x) # "COMPLETED"
                       /\ run[x] \in {"write", "final"} => outcome[x] # "COMPLETED")'
    BY DEF TimelyOK
  <2>1. CASE x # t
    BY <1>2, <1>5, <1>6, <1>7, <1>10, <2>1 DEF TimelyOK, Status, TypeOK
  <2>2. CASE x = t /\ x \in timely
    <3>1. /\ IsTool(t) /\ m.cancel /\ m.status # "COMPLETED"
          /\ run[t] \in {"write", "final"} => outcome[t] # "COMPLETED"
      BY <2>2 DEF TimelyOK, Status
    <3>2. d.cancel
      BY <1>1, <3>1 DEF Drafted
    <3>3. u.op # "finish" /\ (u.op = "final" => run[t] = "final")
      BY <1>1, <3>1 DEF UpdOK, RunnerOK
    <3>4. d.status # "COMPLETED"
      BY <1>1, <3>1, <3>3 DEF Drafted
    <3> QED
      BY <1>1, <1>5, <1>6, <1>7, <2>2, <3>1, <3>2, <3>4 DEF Status
  <2>3. CASE x = t /\ x \notin timely
    <3>1. u.op = "cancel" /\ run[t] \in {"start", "invoke"}
      BY <1>2, <2>3 DEF Running
    <3>2. IsTool(t) /\ d.cancel /\ d.status # "COMPLETED"
      BY <1>1, <3>1 DEF RunnerOK, Drafted
    <3> QED
      BY <1>1, <1>5, <1>6, <1>7, <2>3, <3>1, <3>2 DEF Status
  <2> QED
    BY <2>1, <2>2, <2>3
<1> QED
  BY <1>10, <1>11, <1>12, <1>13, <1>14, <1>15, <1>16, <1>17, <1>18

(* An update ends: its lock is released and its caller goes on. *)
LEMMA EndUpdateKeeps ==
  ASSUME TInv, NEW a \in Actors, NEW t \in Tasks, upd[a] # None, upd[a].task = t,
         upd' = [upd EXCEPT ![a] = None],
         lock' = IF upd[a].stage = "lock" THEN lock ELSE [lock EXCEPT ![t] = None],
         NEW next \in {"invoke", "done", "threw"},
         run' = IF a \in Tasks THEN [run EXCEPT ![a] = next] ELSE run,
         a \in Tasks /\ next = "invoke" => Status(a) = "RUNNING",
         a \in Tasks /\ next = "done" => Ended(a),
         excused \subseteq excused', excused' \subseteq Tasks,
         upd[a].op = "reap" /\ upd[a].stage # "release" => t \in excused',
         UNCHANGED <<meta, result, srv, pid, todo, at, starts, outcome, detected,
                     counted, timely, left>>
  PROVE  TInv'
<1> USE DEF TInv
<1>1. /\ upd'[a] = None /\ (\A b \in Actors \ {a} : upd'[b] = upd[b])
      /\ \A x \in Tasks : lock'[x] = IF x = t /\ upd[a].stage # "lock" THEN None ELSE lock[x]
      /\ \A x \in Tasks \ {a} : run'[x] = run[x]
      /\ a \in Tasks => run'[a] = next
  BY DEF TypeOK
<1>2. a \in Tasks => /\ run[a] \in {"start", "final"} /\ IsTool(a) /\ t = a
                     /\ upd[a].op \in {"start", "final"}
  BY UpdType, LedgerAssumption DEF RunnerOK, UpdOK
<1>3. /\ \A x : Created(x)' <=> Created(x)
      /\ \A x : IsTool(x)' <=> IsTool(x)
      /\ \A x : Ended(x)' <=> Ended(x)
      /\ \A x : Status(x)' = Status(x)
  BY DEF Created, IsTool, Ended, Status
<1>4. \A x \in Tasks : /\ run'[x] = "dead" <=> run[x] = "dead"
                       /\ run'[x] \in {"write", "final"} => run'[x] = run[x]
  BY <1>1, <1>2
<1>5. TypeOK'
  BY DEF TypeOK, Live
<1>6. ASSUME NEW b \in Actors PROVE UpdOK(b)'
  <2>1. CASE b # a /\ upd[b] # None
    <3>1. upd'[b] = upd[b] /\ upd[b].task \in Tasks
      BY <1>1, <2>1, UpdType
    <3>2. upd[b].stage # "lock" => lock'[upd[b].task] = b
      BY <1>1, <2>1, <3>1 DEF UpdOK
    <3>3. upd[b].stage = "write" => Drafted(upd[b], upd[b].draft)'
      BY <1>4, <2>1, <3>1 DEF UpdOK, Drafted
    <3> QED
      BY <1>3, <2>1, <3>1, <3>2, <3>3 DEF UpdOK
  <2>2. CASE b = a \/ upd[b] = None
    BY <1>1, <2>2 DEF UpdOK
  <2> QED
    BY <2>1, <2>2
<1>7. ASSUME NEW x \in Tasks PROVE LockOK(x)'
  BY <1>1, LedgerAssumption DEF LockOK, Actors
<1>8. ASSUME NEW x \in Tasks PROVE RunnerOK(x)'
  <2>1. CASE x = a
    BY <1>1, <1>2, <1>3, <2>1 DEF RunnerOK, IsTool
  <2>2. CASE x # a
    <3>1. upd'[x] = upd[x] /\ run'[x] = run[x]
      BY <1>1, <2>2 DEF Actors
    <3> QED
      BY <1>3, <3>1 DEF RunnerOK
  <2> QED
    BY <2>1, <2>2
<1>9. ASSUME NEW x \in Tasks PROVE HomeOK(x)'
  BY <1>1, <1>2 DEF HomeOK, Live
<1>10. ASSUME NEW x \in Tasks PROVE CountOK(x)'
  <2>1. Recording(x)' \subseteq Recording(x)
    BY <1>1 DEF Recording, Actors
  <2>2. Cardinality(Recording(x)') <= Cardinality(Recording(x))
    BY <2>1, RecordingFinite, FS_Subset
  <2>3. Cardinality(Recording(x)') \in Nat
    BY <2>1, RecordingFinite, FS_Subset, FS_CardinalityType
  <2> QED
    BY <1>3, <2>2, <2>3, RecordingFinite, LedgerAssumption DEF CountOK, TypeOK
<1>11. ASSUME NEW s \in Servers PROVE ServerOK(s)' /\ SweepOK(s)'
  <2>1. ServerOK(s)'
    BY <1>1, <1>3 DEF ServerOK, Actors
  <2>2. ASSUME NEW x \in left[s], srv[s] # "down", x \notin excused'
        PROVE  \/ Ended(x) \/ x \in todo[s]
               \/ upd'[s] # None /\ upd'[s].task = x /\ upd'[s].stage # "release"
    <3>1. CASE s = a
      <4>1. upd[a].op = "reap"
        BY <3>1, UpdType, LedgerAssumption DEF UpdOK
      <4> QED
        BY <2>2, <3>1, <4>1 DEF SweepOK
    <3>2. CASE s # a
      BY <1>1, <2>2, <3>2 DEF SweepOK, Actors
    <3> QED
      BY <3>1, <3>2
  <2>3. left[s] \subseteq Tasks
    BY DEF TypeOK
  <2>4. SweepOK(s)'
    BY <1>3, <1>4, <2>2, <2>3 DEF SweepOK
  <2> QED
    BY <2>1, <2>4
<1>12. DeadPids' /\ OrphansDead'
  BY <1>3, <1>4 DEF DeadPids, PidAlive, OrphansDead
<1>13. TimelyOK'
  BY <1>3, <1>4 DEF TimelyOK, TypeOK
<1> QED
  BY <1>5, <1>6, <1>7, <1>8, <1>9, <1>10, <1>11, <1>12, <1>13

LEMMA ReleaseKeeps ==
  ASSUME TInv, NEW a \in Actors, Release(a)
  PROVE  TInv'
<1> DEFINE next == IF upd[a].op = "start" /\ upd[a].draft # None THEN "invoke" ELSE "done"
<1>1. upd[a] # None /\ upd[a].stage = "release"
  BY DEF Release, In
<1>2. PICK t \in Tasks : t = upd[a].task
  BY <1>1, UpdType DEF TInv
<1>3. a \in Tasks => (next = "invoke" => Status(a) = "RUNNING") /\ (next = "done" => Ended(a))
  BY <1>1 DEF TInv, RunnerOK
<1>4. /\ next \in {"invoke", "done", "threw"}
      /\ run' = IF a \in Tasks THEN [run EXCEPT ![a] = next] ELSE run
  BY DEF Release, Resume
<1>5. /\ upd' = [upd EXCEPT ![a] = None] /\ lock' = [lock EXCEPT ![t] = None]
      /\ UNCHANGED <<meta, result, srv, pid, todo, at, starts, outcome, detected,
                     counted, timely, left, excused>>
  BY <1>2 DEF Release, server, history
<1>6. excused \subseteq Tasks
  BY DEF TInv, TypeOK
<1> HIDE DEF next
<1> QED
  BY <1>1, <1>2, <1>3, <1>4, <1>5, <1>6, EndUpdateKeeps

LEMMA UpdateThrowsKeeps ==
  ASSUME TInv, NEW a \in Actors, UpdateThrows(a)
  PROVE  TInv'
<1>1. upd[a] # None /\ upd[a].stage \in {"lock", "write"}
  BY DEF UpdateThrows, In
<1>2. PICK t \in Tasks : t = upd[a].task
  BY <1>1, UpdType DEF TInv
<1>3. /\ run' = IF a \in Tasks THEN [run EXCEPT ![a] = "threw"] ELSE run
      /\ upd' = [upd EXCEPT ![a] = None]
      /\ excused' = IF upd[a].op = "reap" THEN excused \cup {t} ELSE excused
      /\ UNCHANGED <<meta, result, srv, pid, todo, at, starts, outcome, detected,
                     counted, timely, left>>
  BY <1>2 DEF UpdateThrows, Resume, server
<1>4. lock' = IF upd[a].stage = "lock" THEN lock ELSE [lock EXCEPT ![t] = None]
  BY <1>2 DEF UpdateThrows, In
<1>5. excused \subseteq excused' /\ excused' \subseteq Tasks
  BY <1>3 DEF TInv, TypeOK
<1> QED
  BY <1>1, <1>2, <1>3, <1>4, <1>5, EndUpdateKeeps

-----------------------------------------------------------------------------
(* runTask                                                                   *)

(* The runner settles an outcome, and asks for its last update or not yet.   *)
LEMMA RunnerKeeps ==
  ASSUME TInv, NEW t \in Tasks, run[t] \in {"invoke", "write"},
         NEW n \in {"write", "final"}, run' = [run EXCEPT ![t] = n],
         NEW o \in Terminal, outcome' = [outcome EXCEPT ![t] = o],
         upd' = IF n = "final" THEN [upd EXCEPT ![t] = Request("final", t, at[t], None)] ELSE upd,
         result \subseteq result', result' \subseteq Tasks,
         n = "final" /\ o = "COMPLETED" => t \in result',
         t \in timely => o # "COMPLETED",
         detected' \in [Tasks -> BOOLEAN],
         UNCHANGED <<meta, lock, server, history>>
  PROVE  TInv'
<1> USE DEF TInv
<1> DEFINE r == Request("final", t, at[t], None)
<1>1. UNCHANGED <<srv, pid, todo, at, starts, counted, timely, left, excused>>
  BY DEF server, history
<1>2. at[t] \in Servers /\ IsTool(t) /\ Status(t) = "RUNNING" /\ upd[t] = None
  BY DEF HomeOK, RunnerOK, Live
<1>3. /\ r \in Update /\ r # None /\ r.op = "final" /\ r.task = t /\ r.by = at[t]
      /\ r.stage = "lock"
  BY <1>2, RequestType
<1> HIDE DEF r
<1>4. /\ \A b \in Actors \ {t} : upd'[b] = upd[b]
      /\ upd'[t] = IF n = "final" THEN r ELSE None
      /\ \A x \in Tasks \ {t} : run'[x] = run[x] /\ outcome'[x] = outcome[x]
      /\ run'[t] = n /\ outcome'[t] = o
  BY <1>2 DEF TypeOK, Actors, r
<1>5. /\ \A x : Created(x)' <=> Created(x)
      /\ \A x : IsTool(x)' <=> IsTool(x)
      /\ \A x : Ended(x)' <=> Ended(x)
      /\ \A x : Status(x)' = Status(x)
  BY DEF Created, IsTool, Ended, Status
<1>6. TypeOK'
  <2>1. upd' \in [Actors -> Update \cup {None}]
    BY <1>3 DEF TypeOK, Actors, r
  <2> QED
    BY <1>1, <2>1 DEF TypeOK, Live
<1>7. ASSUME NEW b \in Actors PROVE UpdOK(b)'
  <2>1. CASE b = t
    BY <1>1, <1>2, <1>3, <1>4, <1>5, <2>1 DEF UpdOK, IsTool
  <2>2. CASE b # t /\ upd[b] # None
    <3>1. upd'[b] = upd[b] /\ upd[b].task \in Tasks
      BY <1>4, <2>2, UpdType
    <3>2. upd[b].stage = "write" => Drafted(upd[b], upd[b].draft)'
      BY <1>4, <2>2, <3>1 DEF UpdOK, Drafted
    <3> QED
      BY <1>1, <1>5, <2>2, <3>1, <3>2 DEF UpdOK
  <2>3. CASE b # t /\ upd[b] = None
    BY <1>4, <2>3 DEF UpdOK
  <2> QED
    BY <2>1, <2>2, <2>3
<1>8. ASSUME NEW x \in Tasks PROVE LockOK(x)'
  BY <1>2, <1>4 DEF LockOK
<1>9. ASSUME NEW x \in Tasks PROVE RunnerOK(x)'
  <2>1. CASE x = t
    BY <1>2, <1>3, <1>4, <1>5, <2>1 DEF RunnerOK, IsTool
  <2>2. CASE x # t
    <3>1. upd'[x] = upd[x] /\ run'[x] = run[x] /\ outcome'[x] = outcome[x]
      BY <1>4, <2>2 DEF Actors
    <3> QED
      BY <1>5, <3>1 DEF RunnerOK
  <2> QED
    BY <2>1, <2>2
<1>10. ASSUME NEW x \in Tasks PROVE HomeOK(x)'
  BY <1>1, <1>4 DEF HomeOK, Live
<1>11. ASSUME NEW x \in Tasks PROVE CountOK(x)'
  <2>1. Recording(x)' = Recording(x)
    BY <1>4, LedgerAssumption DEF Recording, Actors
  <2> QED
    BY <1>1, <1>5, <2>1 DEF CountOK
<1>12. ASSUME NEW s \in Servers PROVE ServerOK(s)' /\ SweepOK(s)'
  <2>1. s # t /\ upd'[s] = upd[s] /\ left[s] \subseteq Tasks
    BY <1>4, LedgerAssumption DEF Actors, TypeOK
  <2> QED
    BY <1>1, <1>4, <1>5, <2>1 DEF ServerOK, SweepOK
<1>13. DeadPids' /\ OrphansDead'
  BY <1>1, <1>4, <1>5 DEF DeadPids, PidAlive, OrphansDead
<1>14. TimelyOK'
  BY <1>1, <1>4, <1>5 DEF TimelyOK, TypeOK
<1> QED
  BY <1>6, <1>7, <1>8, <1>9, <1>10, <1>11, <1>12, <1>13, <1>14

LEMMA InvokeReturnsKeeps ==
  ASSUME TInv, NEW t \in Tasks, NEW error \in BOOLEAN, InvokeReturns(t, error)
  PROVE  TInv'
<1> DEFINE o == IF Known(t) THEN "CANCELLED" ELSE IF error THEN "FAILED" ELSE "COMPLETED"
<1>1. /\ run[t] = "invoke" /\ run' = [run EXCEPT ![t] = "write"]
      /\ outcome' = [outcome EXCEPT ![t] = o] /\ detected' = [detected EXCEPT ![t] = Known(t)]
      /\ UNCHANGED <<meta, lock, server, history, result, upd>>
  BY DEF InvokeReturns, store
<1>2. o \in Terminal /\ Known(t) \in BOOLEAN
  BY DEF Terminal, Known
<1>3. t \in timely => Known(t)
  BY DEF TInv, TimelyOK, Known
<1>4. detected' \in [Tasks -> BOOLEAN] /\ result \subseteq Tasks
  BY <1>1, <1>2 DEF TInv, TypeOK
<1>5. t \in timely => o # "COMPLETED"
  BY <1>3
<1> HIDE DEF o
<1> QED
  BY <1>1, <1>2, <1>4, <1>5, RunnerKeeps

(* The catch block never records a success. *)
LEMMA CatchKeeps ==
  ASSUME TInv, NEW t \in Tasks, run[t] \in {"invoke", "write"}, Catch(t),
         UNCHANGED <<store, server, detected, history>>
  PROVE  TInv'
<1> DEFINE o == IF detected[t] THEN "CANCELLED" ELSE "FAILED"
<1>1. o \in Terminal /\ o # "COMPLETED"
  BY DEF Terminal
<1>2. /\ run' = [run EXCEPT ![t] = "final"] /\ outcome' = [outcome EXCEPT ![t] = o]
      /\ upd' = [upd EXCEPT ![t] = Request("final", t, at[t], None)]
      /\ UNCHANGED <<meta, lock, result>>
  BY DEF Catch, store
<1>3. detected' \in [Tasks -> BOOLEAN] /\ result \subseteq Tasks
  BY DEF TInv, TypeOK
<1> HIDE DEF o
<1> QED
  BY <1>1, <1>2, <1>3, RunnerKeeps

LEMMA WriteResultKeeps ==
  ASSUME TInv, NEW t \in Tasks, WriteResult(t)
  PROVE  TInv'
<1>1. /\ run[t] = "write" /\ run' = [run EXCEPT ![t] = "final"]
      /\ upd' = [upd EXCEPT ![t] = Request("final", t, at[t], None)]
      /\ result' = result \cup {t}
      /\ UNCHANGED <<meta, lock, server, outcome, detected, history>>
  BY DEF WriteResult
<1>2. outcome[t] \in Terminal /\ (t \in timely => outcome[t] # "COMPLETED")
  BY <1>1 DEF TInv, RunnerOK, TimelyOK
<1>3. outcome' = [outcome EXCEPT ![t] = outcome[t]]
  BY <1>1 DEF TInv, TypeOK
<1>4. detected' \in [Tasks -> BOOLEAN] /\ result' \subseteq Tasks
  BY <1>1 DEF TInv, TypeOK
<1> QED
  BY <1>1, <1>2, <1>3, <1>4, RunnerKeeps

(* The poll only takes note of the cancellation. *)
LEMMA NoteKeeps ==
  ASSUME TInv, detected' \in [Tasks -> BOOLEAN],
         UNCHANGED <<meta, result, lock, upd, srv, pid, todo, at, starts, run, outcome,
                     counted, timely, left, excused>>
  PROVE  TInv'
<1> USE DEF TInv
<1>1. TypeOK'
  BY DEF TypeOK
<1>2. /\ \A x : Created(x)' <=> Created(x)
      /\ \A x : IsTool(x)' <=> IsTool(x)
      /\ \A x : Ended(x)' <=> Ended(x)
      /\ \A x : Status(x)' = Status(x)
  BY DEF Created, IsTool, Ended, Status
<1>3. \A a \in Actors : UpdOK(a)'
  BY <1>2 DEF UpdOK, Drafted
<1>4. \A t \in Tasks : LockOK(t)' /\ HomeOK(t)'
  BY DEF LockOK, HomeOK
<1>5. \A t \in Tasks : RunnerOK(t)'
  BY <1>2 DEF RunnerOK
<1>6. \A t \in Tasks : CountOK(t)'
  BY <1>2 DEF CountOK, Recording
<1>7. \A s \in Servers : ServerOK(s)' /\ SweepOK(s)'
  BY <1>2 DEF ServerOK, SweepOK
<1>8. DeadPids' /\ OrphansDead' /\ TimelyOK'
  BY <1>2 DEF DeadPids, OrphansDead, TimelyOK, PidAlive
<1> QED
  BY <1>1, <1>3, <1>4, <1>5, <1>6, <1>7, <1>8

LEMMA PollKeeps ==
  ASSUME TInv, NEW t \in Tasks, Poll(t)
  PROVE  TInv'
<1>1. detected' \in [Tasks -> BOOLEAN]
  BY DEF Poll, TInv, TypeOK
<1> QED
  BY <1>1, NoteKeeps DEF Poll, store, server, history

-----------------------------------------------------------------------------
(* Tool calls, servers                                                       *)

(* A tool call asks for an update of a task that is there. *)
LEMMA CallKeeps ==
  ASSUME TInv, NEW c \in Calls, NEW s \in Servers, NEW t \in Tasks,
         NEW o \in {"cancel", "finish", "record"}, NEW arg \in Terminal \cup {None},
         Call(c, s, t, o, arg), Created(t),
         o = "finish" => arg \in Terminal, o \in {"finish", "record"} => ~IsTool(t),
         o = "record" =>
           counted[t] + Cardinality({d \in Calls : upd[d] # None /\ upd[d].op = "record"})
             < MaxCounted
  PROVE  TInv'
<1> USE DEF TInv
<1> DEFINE r == Request(o, t, s, arg)
<1>1. /\ upd[c] = None /\ upd' = [upd EXCEPT ![c] = r]
      /\ UNCHANGED <<meta, result, lock, srv, pid, todo, at, starts, run, outcome, detected,
                     counted, timely, left, excused>>
  BY DEF Call, store, server, runner, history
<1>2. /\ r \in Update /\ r # None /\ r.op = o /\ r.task = t /\ r.by = s /\ r.arg = arg
      /\ r.stage = "lock"
  BY RequestType
<1> HIDE DEF r
<1>3. c \in Actors /\ c \notin Tasks /\ c \notin Servers
  BY LedgerAssumption DEF Actors
<1>4. upd'[c] = r /\ \A b \in Actors \ {c} : upd'[b] = upd[b]
  BY <1>1, <1>3 DEF TypeOK
<1>5. /\ \A x : Created(x)' <=> Created(x)
      /\ \A x : IsTool(x)' <=> IsTool(x)
      /\ \A x : Ended(x)' <=> Ended(x)
      /\ \A x : Status(x)' = Status(x)
  BY <1>1 DEF Created, IsTool, Ended, Status
<1>6. TypeOK'
  BY <1>1, <1>2, <1>3 DEF TypeOK
<1>7. ASSUME NEW b \in Actors PROVE UpdOK(b)'
  <2>1. CASE b = c
    BY <1>2, <1>3, <1>4, <1>5, <2>1 DEF UpdOK
  <2>2. CASE b # c
    BY <1>1, <1>4, <1>5, <2>2 DEF UpdOK, Drafted
  <2> QED
    BY <2>1, <2>2
<1>8. ASSUME NEW x \in Tasks PROVE LockOK(x)'
  BY <1>1, <1>4 DEF LockOK
<1>9. ASSUME NEW x \in Tasks PROVE RunnerOK(x)' /\ HomeOK(x)'
  <2>1. upd'[x] = upd[x]
    BY <1>3, <1>4 DEF Actors
  <2> QED
    BY <1>1, <1>5, <2>1 DEF RunnerOK, HomeOK
<1>10. ASSUME NEW x \in Tasks PROVE CountOK(x)'
  <2>1. CASE ~(o = "record" /\ x = t)
    <3>1. Recording(x)' = Recording(x)
      BY <1>1, <1>2, <1>4, <2>1 DEF Recording, Actors
    <3> QED
      BY <1>1, <1>5, <3>1 DEF CountOK
  <2>2. CASE o = "record" /\ x = t
    <3> DEFINE R == {d \in Calls : upd[d] # None /\ upd[d].op = "record"}
    <3>1. Recording(t)' = Recording(t) \cup {c} /\ c \notin Recording(t)
      BY <1>1, <1>2, <1>4, <2>2 DEF Recording, Actors
    <3>2. Cardinality(Recording(t)') = Cardinality(Recording(t)) + 1
      BY <3>1, RecordingFinite, FS_AddElement
    <3>3. IsFiniteSet(R)
      BY LedgerAssumption, FS_Subset
    <3>4. Recording(t) \subseteq R
      BY DEF Recording
    <3>5. Cardinality(Recording(t)) <= Cardinality(R) /\ Cardinality(R) \in Nat
      BY <3>3, <3>4, FS_Subset, FS_CardinalityType
    <3>6. counted[t] \in Nat /\ counted[t] + Cardinality(R) < MaxCounted
      BY <2>2 DEF TypeOK
    <3> HIDE DEF R
    <3>7. counted[t] + Cardinality(Recording(t)') <= MaxCounted
      BY <3>2, <3>5, <3>6, RecordingFinite, LedgerAssumption
    <3> QED
      BY <1>1, <1>5, <2>2, <3>7 DEF CountOK
  <2> QED
    BY <2>1, <2>2
<1>11. ASSUME NEW q \in Servers PROVE ServerOK(q)' /\ SweepOK(q)'
  <2>1. upd'[q] = upd[q]
    BY <1>3, <1>4 DEF Actors
  <2> QED
    BY <1>1, <1>5, <2>1 DEF ServerOK, SweepOK
<1>12. DeadPids' /\ OrphansDead' /\ TimelyOK'
  BY <1>1, <1>5 DEF DeadPids, PidAlive, OrphansDead, TimelyOK
<1> QED
  BY <1>6, <1>7, <1>8, <1>9, <1>10, <1>11, <1>12

LEMMA StartKeeps ==
  ASSUME TInv, NEW s \in Servers, NEW t \in Tasks, NEW kind \in {"tool", "browser_task"},
         Start(s, t, kind)
  PROVE  TInv'
<1> USE DEF TInv
<1> DEFINE tool == kind = "tool"
           r == Request("start", t, s, None)
           m == [kind |-> kind, status |-> IF tool THEN "PENDING" ELSE "RUNNING",
                 pid |-> pid[s], cancel |-> FALSE, orphaned |-> FALSE, calls |-> 0]
<1>1. /\ srv[s] = "up" /\ ~Created(t) /\ meta' = [meta EXCEPT ![t] = m]
      /\ at' = [at EXCEPT ![t] = s]
      /\ run' = [run EXCEPT ![t] = IF tool THEN "start" ELSE "host"]
      /\ upd' = IF tool THEN [upd EXCEPT ![t] = r] ELSE upd
      /\ UNCHANGED <<result, lock, srv, pid, todo, starts, outcome, detected, counted, timely,
                     left, excused>>
  BY DEF Start, history
<1>2. pid[s] \in Pids /\ run[t] = "none" /\ upd[t] = None /\ counted[t] = 0
  BY <1>1 DEF ServerOK, TypeOK, RunnerOK, CountOK
<1>3. /\ m \in Meta /\ m # None /\ m.kind = kind /\ m.pid = pid[s] /\ m.calls = 0
      /\ m.status = (IF tool THEN "PENDING" ELSE "RUNNING") /\ m.orphaned = FALSE
  <2>1. 0 \in 0 .. MaxCounted
    BY LedgerAssumption
  <2>2. m \in Meta
    BY <1>2, <2>1 DEF Meta
  <2> QED
    BY <2>2, NoneAssumption
<1>4. /\ r \in Update /\ r # None /\ r.op = "start" /\ r.task = t /\ r.by = s
      /\ r.stage = "lock"
  BY RequestType
<1> HIDE DEF r, m
<1>5. /\ t \in Actors /\ t \notin Calls /\ t \notin Servers
      /\ \A b \in Actors \ {t} : upd'[b] = upd[b]
      /\ upd'[t] = IF tool THEN r ELSE None
      /\ \A x \in Tasks \ {t} : meta'[x] = meta[x] /\ run'[x] = run[x] /\ at'[x] = at[x]
      /\ meta'[t] = m /\ at'[t] = s /\ run'[t] = IF tool THEN "start" ELSE "host"
  BY <1>1, <1>2, LedgerAssumption DEF TypeOK, Actors
<1>6. /\ Created(t)' /\ (IsTool(t)' <=> tool) /\ ~Ended(t) /\ ~IsTool(t)
      /\ \A x \in Tasks \ {t} : /\ Created(x)' <=> Created(x)
                                /\ IsTool(x)' <=> IsTool(x)
                                /\ Ended(x)' <=> Ended(x)
                                /\ Status(x)' = Status(x)
  BY <1>1, <1>3, <1>5 DEF Created, IsTool, Ended, Status
<1>7. TypeOK'
  <2>1. upd' \in [Actors -> Update \cup {None}]
    BY <1>1, <1>4, <1>5 DEF TypeOK
  <2> QED
    BY <1>1, <1>3, <2>1 DEF TypeOK, Live
<1>8. \A b \in Actors : upd[b] # None => upd[b].task \in Tasks \ {t}
  BY <1>1, UpdType DEF UpdOK
<1>9. ASSUME NEW b \in Actors PROVE UpdOK(b)'
  <2>1. CASE b = t
    BY <1>4, <1>5, <1>6, <2>1 DEF UpdOK
  <2>2. CASE b # t /\ upd[b] # None
    <3>1. upd'[b] = upd[b] /\ (upd[b].op \in {"start", "final"} => b \in Tasks \ {t})
      BY <1>5, <2>2 DEF UpdOK
    <3>2. upd[b].stage = "write" => Drafted(upd[b], upd[b].draft)'
      BY <1>1, <1>5, <1>8, <2>2, <3>1 DEF UpdOK, Drafted
    <3> QED
      BY <1>1, <1>5, <1>6, <1>8, <2>2, <3>1, <3>2 DEF UpdOK
  <2>3. CASE b # t /\ upd[b] = None
    BY <1>5, <2>3 DEF UpdOK
  <2> QED
    BY <2>1, <2>2, <2>3
<1>10. ASSUME NEW x \in Tasks PROVE LockOK(x)'
  BY <1>1, <1>2, <1>5 DEF LockOK
<1>11. ASSUME NEW x \in Tasks PROVE RunnerOK(x)'
  <2>1. CASE x = t
    BY <1>3, <1>4, <1>5, <1>6, <2>1 DEF RunnerOK, Status
  <2>2. CASE x # t
    <3>1. upd'[x] = upd[x]
      BY <1>5, <2>2 DEF Actors
    <3> QED
      BY <1>1, <1>5, <1>6, <2>2, <3>1 DEF RunnerOK
  <2> QED
    BY <2>1, <2>2
<1>12. ASSUME NEW x \in Tasks PROVE HomeOK(x)'
  BY <1>1, <1>3, <1>5 DEF HomeOK
<1>13. ASSUME NEW x \in Tasks PROVE CountOK(x)'
  <2>1. Recording(x)' = Recording(x)
    BY <1>5 DEF Recording, Actors
  <2> QED
    BY <1>1, <1>2, <1>3, <1>5, <1>6, <2>1 DEF CountOK
<1>14. ASSUME NEW q \in Servers PROVE ServerOK(q)' /\ SweepOK(q)'
  <2>1. q # t /\ upd'[q] = upd[q] /\ left[q] \subseteq Tasks \ {t} /\ todo[q] \subseteq Tasks
    BY <1>1, <1>5 DEF Actors, TypeOK, SweepOK
  <2>2. ServerOK(q)'
    BY <1>1, <1>6, <2>1 DEF ServerOK
  <2> QED
    BY <1>1, <1>5, <1>6, <2>1, <2>2 DEF SweepOK
<1>15. DeadPids' /\ OrphansDead'
  BY <1>1, <1>3, <1>5, <1>6 DEF DeadPids, PidAlive, OrphansDead
<1>16. TimelyOK'
  <2>1. timely \subseteq Tasks \ {t}
    BY <1>6 DEF TimelyOK, TypeOK
  <2> QED
    BY <1>1, <1>5, <1>6, <2>1 DEF TimelyOK
<1> QED
  BY <1>7, <1>9, <1>10, <1>11, <1>12, <1>13, <1>14, <1>15, <1>16

LEMMA BootKeeps ==
  ASSUME TInv, NEW s \in Servers, NEW p \in Pids, Boot(s, p)
  PROVE  TInv'
<1> USE DEF TInv
<1>1. /\ srv[s] = "down" /\ starts < MaxStarts /\ ~PidAlive(p) /\ starts' = starts + 1
      /\ srv' = [srv EXCEPT ![s] = "reaping"] /\ pid' = [pid EXCEPT ![s] = p]
      /\ todo' = [todo EXCEPT ![s] = Candidates]
      /\ left' = [left EXCEPT ![s] = {t \in Tasks : Open(t) /\ run[t] = "dead"}]
      /\ excused' = excused \cup {t \in Tasks : Created(t) /\ meta[t].pid = p}
      /\ UNCHANGED <<meta, result, lock, upd, at, run, outcome, detected, counted, timely>>
  BY DEF Boot, store, runner
<1>2. /\ srv'[s] = "reaping" /\ pid'[s] = p /\ todo'[s] = Candidates
      /\ left'[s] = {t \in Tasks : Open(t) /\ run[t] = "dead"}
      /\ \A q \in Servers \ {s} : /\ srv'[q] = srv[q] /\ pid'[q] = pid[q]
                                  /\ todo'[q] = todo[q] /\ left'[q] = left[q]
  BY <1>1 DEF TypeOK
<1>3. /\ \A x : Created(x)' <=> Created(x)
      /\ \A x : IsTool(x)' <=> IsTool(x)
      /\ \A x : Ended(x)' <=> Ended(x)
      /\ \A x : Status(x)' = Status(x)
  BY <1>1 DEF Created, IsTool, Ended, Status
<1>4. TypeOK'
  <2>1. starts' \in 0 .. MaxStarts
    BY <1>1, LedgerAssumption DEF TypeOK
  <2>2. todo' \in [Servers -> SUBSET Tasks] /\ left' \in [Servers -> SUBSET Tasks]
    BY <1>1 DEF TypeOK, Candidates
  <2> QED
    BY <1>1, <2>1, <2>2 DEF TypeOK
<1>5. \A b \in Actors : UpdOK(b)'
  BY <1>1, <1>2, <1>3 DEF UpdOK, Drafted
<1>6. \A x \in Tasks : LockOK(x)' /\ RunnerOK(x)'
  BY <1>1, <1>3 DEF LockOK, RunnerOK
<1>7. \A x \in Tasks : HomeOK(x)'
  BY <1>1, <1>2 DEF HomeOK
<1>8. \A x \in Tasks : CountOK(x)'
  BY <1>1, <1>3 DEF CountOK, Recording
<1>9. ASSUME NEW q \in Servers PROVE ServerOK(q)'
  BY <1>1, <1>2, <1>3, LedgerAssumption DEF ServerOK, PidAlive, Candidates, Open
<1>10. ASSUME NEW q \in Servers PROVE SweepOK(q)'
  <2>1. CASE q = s
    BY <1>1, <1>2, <1>3, <2>1 DEF SweepOK, Candidates, Open
  <2>2. CASE q # s
    BY <1>1, <1>2, <1>3, <2>2 DEF SweepOK
  <2> QED
    BY <2>1, <2>2
<1>11. DeadPids'
  <2> SUFFICES ASSUME NEW t \in Tasks, run[t] = "dead", NEW q \in Servers, pid'[q] = meta[t].pid,
                      meta[t].pid # p
               PROVE  t \in excused
    BY <1>1 DEF DeadPids, PidAlive, RunnerOK
  <2>1. pid[q] = meta[t].pid
    BY <1>2
  <2> QED
    BY <2>1 DEF DeadPids, PidAlive
<1>12. OrphansDead' /\ TimelyOK'
  BY <1>1, <1>3 DEF OrphansDead, TimelyOK
<1> QED
  BY <1>4, <1>5, <1>6, <1>7, <1>8, <1>9, <1>10, <1>11, <1>12

LEMMA ReapKeeps ==
  ASSUME TInv, NEW s \in Servers, NEW t \in Tasks, Reap(s, t)
  PROVE  TInv'
<1> USE DEF TInv
<1> DEFINE r == Request("reap", t, s, None)
           alive == PidAlive(meta[t].pid)
<1>1. /\ upd[s] = None /\ t \in todo[s] /\ todo' = [todo EXCEPT ![s] = @ \ {t}]
      /\ upd' = IF alive THEN upd ELSE [upd EXCEPT ![s] = r]
      /\ UNCHANGED <<meta, result, lock, srv, pid, at, starts, run, outcome, detected,
                     counted, timely, left, excused>>
  BY DEF Reap, store, runner, history
<1>2. /\ r \in Update /\ r # None /\ r.op = "reap" /\ r.task = t /\ r.by = s
      /\ r.stage = "lock"
  BY RequestType
<1>3. srv[s] = "reaping" /\ Created(t)
  BY <1>1 DEF ServerOK
<1> HIDE DEF r
<1>4. /\ s \in Actors /\ s \notin Tasks /\ s \notin Calls
      /\ todo'[s] = todo[s] \ {t} /\ \A q \in Servers \ {s} : todo'[q] = todo[q]
      /\ upd'[s] = (IF alive THEN None ELSE r) /\ \A b \in Actors \ {s} : upd'[b] = upd[b]
  BY <1>1, LedgerAssumption DEF TypeOK, Actors
<1>5. /\ \A x : Created(x)' <=> Created(x)
      /\ \A x : IsTool(x)' <=> IsTool(x)
      /\ \A x : Ended(x)' <=> Ended(x)
      /\ \A x : Status(x)' = Status(x)
  BY <1>1 DEF Created, IsTool, Ended, Status
<1>6. TypeOK'
  <2>1. upd' \in [Actors -> Update \cup {None}]
    BY <1>1, <1>2, <1>4 DEF TypeOK
  <2> QED
    BY <1>1, <2>1 DEF TypeOK
<1>7. ASSUME NEW b \in Actors PROVE UpdOK(b)'
  <2>1. CASE b = s
    BY <1>1, <1>2, <1>3, <1>4, <1>5, <2>1 DEF UpdOK
  <2>2. CASE b # s
    BY <1>1, <1>4, <1>5, <2>2 DEF UpdOK, Drafted
  <2> QED
    BY <2>1, <2>2
<1>8. ASSUME NEW x \in Tasks PROVE LockOK(x)'
  BY <1>1, <1>4 DEF LockOK
<1>9. ASSUME NEW x \in Tasks PROVE RunnerOK(x)' /\ HomeOK(x)'
  <2>1. upd'[x] = upd[x]
    BY <1>4 DEF Actors
  <2> QED
    BY <1>1, <1>5, <2>1 DEF RunnerOK, HomeOK
<1>10. ASSUME NEW x \in Tasks PROVE CountOK(x)'
  <2>1. Recording(x)' = Recording(x)
    BY <1>4 DEF Recording, Actors
  <2> QED
    BY <1>1, <1>5, <2>1 DEF CountOK
<1>11. ASSUME NEW q \in Servers PROVE ServerOK(q)'
  BY <1>1, <1>3, <1>4, <1>5 DEF ServerOK, Actors
<1>12. ASSUME NEW q \in Servers PROVE SweepOK(q)'
  <2>1. CASE q = s
    <3>1. ASSUME NEW x \in left[s], x \notin excused
          PROVE  Ended(x) \/ x \in todo'[s]
                 \/ (upd'[s] # None /\ upd'[s].task = x /\ upd'[s].stage # "release")
      <4>1. Ended(x) \/ x \in todo[s]
        BY <1>1, <1>3, <3>1 DEF SweepOK
      <4>2. x = t => ~alive
        BY <3>1 DEF SweepOK, DeadPids
      <4> QED
        BY <1>2, <1>4, <4>1, <4>2
    <3> QED
      BY <1>1, <1>5, <2>1, <3>1 DEF SweepOK
  <2>2. CASE q # s
    <3>1. upd'[q] = upd[q] /\ todo'[q] = todo[q]
      BY <1>4, <2>2 DEF Actors
    <3> QED
      BY <1>1, <1>5, <3>1 DEF SweepOK
  <2> QED
    BY <2>1, <2>2
<1>13. DeadPids' /\ OrphansDead' /\ TimelyOK'
  BY <1>1, <1>5 DEF DeadPids, PidAlive, OrphansDead, TimelyOK
<1> QED
  BY <1>6, <1>7, <1>8, <1>9, <1>10, <1>11, <1>12, <1>13

LEMMA ReapDoneKeeps ==
  ASSUME TInv, NEW s \in Servers, ReapDone(s)
  PROVE  TInv'
<1> USE DEF TInv
<1>1. /\ srv[s] = "reaping" /\ todo[s] = {} /\ upd[s] = None
      /\ srv' = [srv EXCEPT ![s] = "up"]
      /\ UNCHANGED <<meta, result, lock, upd, pid, todo, at, starts, run, outcome, detected,
                     counted, timely, left, excused>>
  BY DEF ReapDone, store, runner, history
<1>2. srv'[s] = "up" /\ \A q \in Servers \ {s} : srv'[q] = srv[q]
  BY <1>1 DEF TypeOK
<1>3. /\ \A x : Created(x)' <=> Created(x)
      /\ \A x : IsTool(x)' <=> IsTool(x)
      /\ \A x : Ended(x)' <=> Ended(x)
      /\ \A x : Status(x)' = Status(x)
  BY <1>1 DEF Created, IsTool, Ended, Status
<1>4. TypeOK'
  BY <1>1 DEF TypeOK
<1>5. \A b \in Actors : UpdOK(b)'
  BY <1>1, <1>2, <1>3 DEF UpdOK, Drafted
<1>6. \A x \in Tasks : LockOK(x)' /\ RunnerOK(x)'
  BY <1>1, <1>3 DEF LockOK, RunnerOK
<1>7. \A x \in Tasks : HomeOK(x)'
  BY <1>1, <1>2 DEF HomeOK
<1>8. \A x \in Tasks : CountOK(x)'
  BY <1>1, <1>3 DEF CountOK, Recording
<1>9. \A q \in Servers : ServerOK(q)'
  BY <1>1, <1>2, <1>3 DEF ServerOK
<1>10. \A q \in Servers : SweepOK(q)'
  BY <1>1, <1>2, <1>3 DEF SweepOK
<1>11. DeadPids' /\ OrphansDead' /\ TimelyOK'
  BY <1>1, <1>3 DEF DeadPids, PidAlive, OrphansDead, TimelyOK
<1> QED
  BY <1>4, <1>5, <1>6, <1>7, <1>8, <1>9, <1>10, <1>11

LEMMA CrashKeeps ==
  ASSUME TInv, NEW s \in Servers, Crash(s)
  PROVE  TInv'
<1> USE DEF TInv
<1>0. PICK mine : mine = {a \in Actors : upd[a] # None /\ upd[a].by = s}
  OBVIOUS
<1>1. /\ srv[s] # "down" /\ srv' = [srv EXCEPT ![s] = "down"]
      /\ pid' = [pid EXCEPT ![s] = None] /\ todo' = [todo EXCEPT ![s] = {}]
      /\ lock' = [t \in Tasks |-> IF lock[t] \in mine THEN Dead ELSE lock[t]]
      /\ upd' = [a \in Actors |-> IF a \in mine THEN None ELSE upd[a]]
      /\ run' = [t \in Tasks |->
           IF at[t] = s /\ run[t] \in Live \cup {"threw"} THEN "dead" ELSE run[t]]
      /\ UNCHANGED <<meta, result, at, starts, outcome, detected, counted, timely, left, excused>>
  BY <1>0 DEF Crash, history
<1>2. /\ srv'[s] = "down" /\ pid'[s] = None /\ todo'[s] = {}
      /\ \A q \in Servers \ {s} : srv'[q] = srv[q] /\ pid'[q] = pid[q] /\ todo'[q] = todo[q]
  BY <1>1 DEF TypeOK
<1>3. /\ \A x : Created(x)' <=> Created(x)
      /\ \A x : IsTool(x)' <=> IsTool(x)
      /\ \A x : Ended(x)' <=> Ended(x)
      /\ \A x : Status(x)' = Status(x)
  BY <1>1 DEF Created, IsTool, Ended, Status
<1>4. TypeOK'
  BY <1>1 DEF TypeOK
<1>5. ASSUME NEW b \in Actors PROVE UpdOK(b)'
  <2>1. CASE b \in mine \/ upd[b] = None
    BY <1>1, <2>1 DEF UpdOK
  <2>2. CASE b \notin mine /\ upd[b] # None
    <3>1. upd'[b] = upd[b] /\ upd[b].by # s /\ upd[b].task \in Tasks
      BY <1>0, <1>1, <2>2, UpdType
    <3>2. upd[b].stage # "lock" => lock'[upd[b].task] = b
      BY <1>1, <2>2, <3>1 DEF UpdOK
    <3>3. upd[b].stage = "write" => Drafted(upd[b], upd[b].draft)'
      <4>1. run[upd[b].task] = "dead" => run'[upd[b].task] = "dead"
        BY <1>1, <3>1
      <4> QED
        BY <1>1, <2>2, <3>1, <4>1 DEF UpdOK, Drafted
    <3>4. upd[b].op = "reap" => b # s
      BY <2>2, <3>1 DEF UpdOK
    <3> QED
      BY <1>1, <1>2, <1>3, <2>2, <3>1, <3>2, <3>3, <3>4 DEF UpdOK
  <2> QED
    BY <2>1, <2>2
<1>6. ASSUME NEW x \in Tasks PROVE LockOK(x)'
  BY <1>1, LedgerAssumption DEF LockOK, Actors
<1>7. ASSUME NEW x \in Tasks PROVE RunnerOK(x)'
  <2>1. upd[x] # None => run[x] \in {"start", "final"} /\ upd[x].by = at[x]
    BY DEF RunnerOK, UpdOK, Actors
  <2>2. CASE at[x] = s /\ run[x] \in Live \cup {"threw"}
    <3>1. run'[x] = "dead" /\ upd'[x] = None
      BY <1>0, <1>1, <2>1, <2>2 DEF Actors
    <3> QED
      BY <1>3, <2>2, <3>1 DEF RunnerOK, Live
  <2>3. CASE ~(at[x] = s /\ run[x] \in Live \cup {"threw"})
    <3>1. run'[x] = run[x] /\ upd'[x] = upd[x]
      BY <1>0, <1>1, <2>1, <2>3 DEF Actors, Live
    <3> QED
      BY <1>1, <1>3, <3>1 DEF RunnerOK
  <2> QED
    BY <2>2, <2>3
<1>8. ASSUME NEW x \in Tasks PROVE HomeOK(x)'
  BY <1>1, <1>2 DEF HomeOK, Live
<1>9. ASSUME NEW x \in Tasks PROVE CountOK(x)'
  <2>1. Recording(x)' \subseteq Recording(x)
    BY <1>1 DEF Recording, Actors
  <2>2. Cardinality(Recording(x)') <= Cardinality(Recording(x))
    BY <2>1, RecordingFinite, FS_Subset
  <2>3. Cardinality(Recording(x)') \in Nat
    BY <2>1, RecordingFinite, FS_Subset, FS_CardinalityType
  <2> QED
    BY <1>1, <1>3, <2>2, <2>3, RecordingFinite, LedgerAssumption DEF CountOK, TypeOK
<1>10. ASSUME NEW q \in Servers, upd[q] # None PROVE upd[q].by = q
  BY <1>10, UpdType, LedgerAssumption DEF UpdOK, Actors
<1>11. ASSUME NEW q \in Servers PROVE ServerOK(q)' /\ SweepOK(q)'
  <2>1. CASE q = s
    <3>1. upd'[s] = None
      BY <1>0, <1>1, <1>10 DEF Actors
    <3>2. ServerOK(q)'
      BY <1>2, <2>1, <3>1 DEF ServerOK
    <3>3. left[s] \subseteq Tasks
      BY DEF TypeOK
    <3> QED
      BY <1>1, <1>2, <1>3, <2>1, <3>2, <3>3 DEF SweepOK
  <2>2. CASE q # s
    <3>1. upd'[q] = upd[q] /\ left[q] \subseteq Tasks
      BY <1>0, <1>1, <1>10, <2>2 DEF Actors, TypeOK
    <3>2. ServerOK(q)'
      BY <1>2, <1>3, <2>2, <3>1 DEF ServerOK
    <3> QED
      BY <1>1, <1>2, <1>3, <2>2, <3>1, <3>2 DEF SweepOK
  <2> QED
    BY <2>1, <2>2
<1>12. DeadPids'
  <2> SUFFICES ASSUME NEW t \in Tasks, run'[t] = "dead", NEW q \in Servers,
                      pid'[q] = meta[t].pid
               PROVE  t \in excused
    BY <1>1 DEF DeadPids, PidAlive
  <2>1. Created(t)
    BY <1>1 DEF RunnerOK, Live
  <2>2. meta[t].pid \in Pids /\ q # s /\ pid[q] = meta[t].pid
    BY <1>2, <2>1, RowType, LedgerAssumption
  <2>3. CASE run[t] = "dead"
    BY <2>2, <2>3 DEF DeadPids, PidAlive
  <2>4. CASE run[t] # "dead"
    <3>1. meta[t].pid = pid[s]
      BY <1>1, <2>4 DEF HomeOK
    <3> QED
      BY <2>2, <3>1, LedgerAssumption DEF ServerOK
  <2> QED
    BY <2>3, <2>4
<1>13. OrphansDead'
  BY <1>1, <1>3 DEF OrphansDead
<1>14. TimelyOK'
  BY <1>1, <1>3 DEF TimelyOK, TypeOK
<1> QED
  BY <1>4, <1>5, <1>6, <1>7, <1>8, <1>9, <1>11, <1>12, <1>13, <1>14

LEMMA LockGoesStaleKeeps ==
  ASSUME TInv, NEW t \in Tasks, LockGoesStale(t)
  PROVE  TInv'
<1> USE DEF TInv
<1>1. /\ lock[t] = Dead /\ lock' = [lock EXCEPT ![t] = None]
      /\ UNCHANGED <<meta, result, upd, srv, pid, todo, at, starts, run, outcome, detected,
                     counted, timely, left, excused>>
  BY DEF LockGoesStale, server, runner, history
<1>2. lock'[t] = None /\ \A x \in Tasks \ {t} : lock'[x] = lock[x]
  BY <1>1 DEF TypeOK
<1>3. /\ \A x : Created(x)' <=> Created(x)
      /\ \A x : IsTool(x)' <=> IsTool(x)
      /\ \A x : Ended(x)' <=> Ended(x)
      /\ \A x : Status(x)' = Status(x)
  BY <1>1 DEF Created, IsTool, Ended, Status
<1>4. TypeOK'
  BY <1>1 DEF TypeOK
<1>5. ASSUME NEW b \in Actors PROVE UpdOK(b)'
  <2>1. upd[b] # None /\ upd[b].stage # "lock" => upd[b].task \in Tasks \ {t}
    BY <1>1, UpdType, LedgerAssumption DEF UpdOK, Actors
  <2> QED
    BY <1>1, <1>2, <1>3, <2>1 DEF UpdOK, Drafted
<1>6. ASSUME NEW x \in Tasks PROVE LockOK(x)'
  BY <1>1, <1>2, LedgerAssumption DEF LockOK, Actors
<1>7. \A x \in Tasks : RunnerOK(x)' /\ HomeOK(x)'
  BY <1>1, <1>3 DEF RunnerOK, HomeOK
<1>8. \A x \in Tasks : CountOK(x)'
  BY <1>1, <1>3 DEF CountOK, Recording
<1>9. \A q \in Servers : ServerOK(q)' /\ SweepOK(q)'
  BY <1>1, <1>3 DEF ServerOK, SweepOK
<1>10. DeadPids' /\ OrphansDead' /\ TimelyOK'
  BY <1>1, <1>3 DEF DeadPids, PidAlive, OrphansDead, TimelyOK
<1> QED
  BY <1>4, <1>5, <1>6, <1>7, <1>8, <1>9, <1>10

-----------------------------------------------------------------------------
(* The theorems.                                                             *)

(* The initial state satisfies the inductive invariant. *)
LEMMA InitTInv == Init => TInv
<1> SUFFICES ASSUME Init PROVE TInv
  OBVIOUS
<1> USE DEF Init
<1>1. TypeOK
  BY LedgerAssumption DEF TypeOK
<1>2. \A a \in Actors : UpdOK(a)
  BY DEF UpdOK
<1>3. \A t \in Tasks : ~Created(t) /\ ~IsTool(t)
  BY DEF Created, IsTool
<1>4. \A t \in Tasks : LockOK(t) /\ RunnerOK(t) /\ HomeOK(t)
  BY <1>3, LedgerAssumption DEF LockOK, RunnerOK, HomeOK, Actors, Live
<1>5. ASSUME NEW t \in Tasks PROVE CountOK(t)
  <2>1. Recording(t) = {}
    BY DEF Recording, Actors
  <2>2. Cardinality({}) = 0
    BY FS_EmptySet
  <2> QED
    BY <1>3, <2>1, <2>2, LedgerAssumption DEF CountOK
<1>6. \A s \in Servers : ServerOK(s) /\ SweepOK(s)
  BY DEF ServerOK, SweepOK, Actors
<1>7. DeadPids /\ OrphansDead /\ TimelyOK
  BY <1>3 DEF DeadPids, OrphansDead, TimelyOK
<1> QED
  BY <1>1, <1>2, <1>4, <1>5, <1>6, <1>7 DEF TInv

(* Every step keeps it. *)
LEMMA NextTInv == TInv /\ [Next]_vars => TInv'
<1> SUFFICES ASSUME TInv, [Next]_vars PROVE TInv'
  OBVIOUS
<1>1. ASSUME NEW a \in Actors, UpdateStep(a) PROVE TInv'
  BY <1>1, LockKeeps, WriteKeeps, ReleaseKeeps, UpdateThrowsKeeps DEF UpdateStep
<1>2. ASSUME NEW t \in Tasks, RunnerStep(t) PROVE TInv'
  BY <1>2, InvokeReturnsKeeps, CatchKeeps, WriteResultKeeps
     DEF RunnerStep, InvokeThrows, WriteResultThrows
<1>3. ASSUME NEW c \in Calls, NEW s \in Servers, NEW t \in Tasks, Cancel(c, s, t)
      PROVE  TInv'
  BY <1>3, CallKeeps DEF Cancel
<1>4. ASSUME NEW c \in Calls, NEW s \in Servers, NEW t \in Tasks, RecordToolCall(c, s, t)
      PROVE  TInv'
  BY <1>4, CallKeeps DEF RecordToolCall, Open
<1>5. ASSUME NEW c \in Calls, NEW s \in Servers, NEW t \in Tasks, NEW status \in Terminal,
             Finish(c, s, t, status)
      PROVE  TInv'
  BY <1>5, CallKeeps DEF Finish
<1>6. ASSUME NEW s \in Servers, ReaperStep(s) PROVE TInv'
  BY <1>6, ReapDoneKeeps, ReapKeeps DEF ReaperStep
<1>7. CASE UNCHANGED vars
  BY <1>7, NoteKeeps DEF vars, store, server, runner, history, TInv, TypeOK
<1> QED
  BY <1>1, <1>2, <1>3, <1>4, <1>5, <1>6, <1>7, PollKeeps, LockGoesStaleKeeps, StartKeeps,
     CrashKeeps, BootKeeps DEF Next

(* TInv holds of every state of the ledger. *)
THEOREM TInvHolds == Spec => []TInv
  BY InitTInv, NextTInv, PTL DEF Spec

(* Type correctness of the ledger: rows, updates and bounds. *)
THEOREM LedgerTypeCorrect == Spec => []TypeOK
<1>1. TInv => TypeOK
  BY DEF TInv
<1> QED
  BY <1>1, TInvHolds, PTL

(* CallsCounted: the read-modify-write of TaskStore.update loses no recorded *)
(* tool call, however updates, crashes and stale locks interleave.           *)
THEOREM NoCallIsLost == Spec => []CallsCounted
<1>1. TInv => CallsCounted
  BY DEF TInv, CountOK, CallsCounted
<1> QED
  BY <1>1, TInvHolds, PTL

(* CancelHonoured: a tool cancelled before it came back never ends           *)
(* COMPLETED.                                                                *)
THEOREM CancelIsHonoured == Spec => []CancelHonoured
<1>1. TInv => CancelHonoured
  BY DEF TInv, TimelyOK, Status, CancelHonoured
<1> QED
  BY <1>1, TInvHolds, PTL

(* SweepIsExact: a sweep fails only tasks whose server is dead, and a server *)
(* accepts tasks only once it has reaped what it found.                      *)
THEOREM SweepsAreExact == Spec => []SweepIsExact
<1>1. TInv => SweepIsExact
  BY DEF TInv, OrphansDead, SweepOK, ServerOK, SweepIsExact
<1> QED
  BY <1>1, TInvHolds, PTL

-----------------------------------------------------------------------------
(* The refinement of TaskLife                                                *)

(* The status of the tasks as TaskLife sees it. *)
LifeStatus == [t \in Tasks |-> IF meta[t] = None THEN "none" ELSE meta[t].status]

(* A step of the ledger as TaskLife sees it. *)
LifeStep ==
  Life!Next \/ UNCHANGED <<LifeStatus, {t \in Tasks : IsTool(t)}, result>>

(* A step that changes neither a row nor a result is none of TaskLife. *)
LEMMA QuietStep ==
  ASSUME UNCHANGED <<meta, result>>
  PROVE  LifeStep
  BY DEF LifeStep, LifeStatus, IsTool, Created

(* Writing a row moves the task along its life, or does not move it. *)
LEMMA WriteIsLife ==
  ASSUME TInv, NEW a \in Actors, Write(a)
  PROVE  LifeStep
<1>0. PICK t \in Tasks : t = upd[a].task
  BY UpdType DEF Write, In, TInv
<1> DEFINE u == upd[a]
           m == meta[t]
           d == upd[a].draft
<1>1. /\ u.task = t /\ upd[a] # None /\ u.stage = "write" /\ UpdOK(a)
      /\ u.op \in {"start", "final", "reap", "cancel", "finish", "record"}
      /\ Drafted(u, d) /\ Created(t) /\ meta' = [meta EXCEPT ![t] = d] /\ UNCHANGED result
  BY <1>0, UpdType DEF Write, In, UpdOK, TInv
<1>2. /\ d # None /\ d.kind = m.kind /\ m.status \in {"PENDING", "RUNNING"} /\ m # None
      /\ d.status \in {"PENDING", "RUNNING"} \cup Terminal
  BY <1>1, RowType, NoneAssumption DEF Drafted, Meta, Terminal, Created, TInv
<1> HIDE DEF u, d
<1>3. /\ LifeStatus[t] = m.status /\ LifeStatus' = [LifeStatus EXCEPT ![t] = d.status]
      /\ {x \in Tasks : IsTool(x)}' = {x \in Tasks : IsTool(x)}
  <2>1. meta'[t] = d /\ \A x \in Tasks \ {t} : meta'[x] = meta[x]
    BY <1>1 DEF TInv, TypeOK
  <2>2. LifeStatus[t] = m.status
    BY <1>2 DEF LifeStatus
  <2>3. LifeStatus' = [LifeStatus EXCEPT ![t] = d.status]
    BY <1>2, <2>1 DEF LifeStatus
  <2>4. \A x \in Tasks : IsTool(x)' <=> IsTool(x)
    BY <1>2, <2>1 DEF IsTool, Created
  <2> QED
    BY <2>2, <2>3, <2>4
<1> HIDE DEF m
<1>4. CASE d.status = m.status
  BY <1>1, <1>3, <1>4 DEF LifeStep, LifeStatus
<1>5. CASE d.status # m.status
  <2>1. u.op # "record"
    BY <1>1, <1>5 DEF Drafted, u, m, d
  <2>2. CASE u.op = "start"
    <3>1. Life!Begin(t)
      BY <1>1, <1>3, <2>2 DEF Drafted, u, m, d, LifeStatus, Life!Begin, Life!Become
    <3> QED
      BY <3>1 DEF LifeStep, Life!Next
  <2>3. CASE u.op # "start"
    <3>1. d.status \in Terminal
      BY <1>1, <1>2, <1>5, <2>1, <2>3 DEF Drafted, UpdOK, RunnerOK, TInv, Terminal, u, m, d
    <3>2. CASE m.status = "PENDING"
      <4>1. d.status # "COMPLETED"
        BY <1>1, <2>1, <2>3, <3>2 DEF Drafted, UpdOK, RunnerOK, TInv, Status, u, m, d
      <4>2. Life!Drop(t, d.status)
        BY <1>1, <1>3, <3>2, <4>1 DEF LifeStatus, Life!Drop, Life!Become
      <4> QED
        BY <3>1, <4>2 DEF LifeStep, Life!Next, Life!Final, Terminal
    <3>3. CASE m.status = "RUNNING"
      <4>1. d.status = "COMPLETED" /\ IsTool(t) => t \in result
        BY <1>1, <2>1, <2>3, <3>3 DEF Drafted, UpdOK, RunnerOK, TInv, u, m, d
      <4>2. Life!Finish(t, d.status)
        BY <1>1, <1>3, <3>3, <4>1 DEF LifeStatus, Life!Finish, Life!Become
      <4> QED
        BY <3>1, <4>2 DEF LifeStep, Life!Next, Life!Final, Terminal
    <3> QED
      BY <1>2, <3>2, <3>3
  <2> QED
    BY <2>2, <2>3
<1> QED
  BY <1>4, <1>5

(* Starting a task creates it. *)
LEMMA StartIsLife ==
  ASSUME TInv, NEW s \in Servers, NEW t \in Tasks, NEW kind \in {"tool", "browser_task"},
         Start(s, t, kind)
  PROVE  LifeStep
<1> DEFINE m == [kind |-> kind, status |-> IF kind = "tool" THEN "PENDING" ELSE "RUNNING",
                 pid |-> pid[s], cancel |-> FALSE, orphaned |-> FALSE, calls |-> 0]
<1>1. ~Created(t) /\ meta' = [meta EXCEPT ![t] = m] /\ UNCHANGED result
  BY DEF Start
<1>2. m.kind = kind /\ m.status = IF kind = "tool" THEN "PENDING" ELSE "RUNNING"
  OBVIOUS
<1>3. m # None
  <2>1. Created(t)' /\ t \in Tasks
    <3>1. run'[t] # "none"
      BY DEF Start, TInv, TypeOK
    <3>2. RunnerOK(t)'
      BY StartKeeps DEF TInv
    <3> QED
      BY <3>1, <3>2 DEF RunnerOK
  <2> QED
    BY <1>1, <2>1 DEF Created, TInv, TypeOK
<1> HIDE DEF m
<1>4. LifeStatus[t] = "none" /\ LifeStatus' = [LifeStatus EXCEPT ![t] = m.status]
  BY <1>1, <1>3 DEF LifeStatus, Created, TInv, TypeOK
<1>5. {x \in Tasks : IsTool(x)}' =
        IF kind = "tool" THEN {x \in Tasks : IsTool(x)} \cup {t} ELSE {x \in Tasks : IsTool(x)}
  BY <1>1, <1>2, <1>3 DEF IsTool, Created, TInv, TypeOK
<1>6. CASE kind = "tool"
  <2>1. Life!CreateTool(t)
    BY <1>1, <1>2, <1>4, <1>5, <1>6 DEF LifeStatus, Life!CreateTool
  <2> QED
    BY <2>1 DEF LifeStep, Life!Next
<1>7. CASE kind # "tool"
  <2>1. Life!CreateHosted(t)
    BY <1>1, <1>2, <1>4, <1>5, <1>7 DEF LifeStatus, Life!CreateHosted, Life!Become
  <2> QED
    BY <2>1 DEF LifeStep, Life!Next
<1> QED
  BY <1>6, <1>7

(* result.json is stored while the tool task still runs. *)
LEMMA WriteResultIsLife ==
  ASSUME TInv, NEW t \in Tasks, WriteResult(t)
  PROVE  LifeStep
<1>1. run[t] = "write" /\ result' = result \cup {t} /\ UNCHANGED meta
  BY DEF WriteResult
<1>2. IsTool(t) /\ meta[t] # None /\ meta[t].status = "RUNNING"
  BY <1>1 DEF TInv, RunnerOK, Status, IsTool, Created
<1>3. Life!Store(t)
  BY <1>1, <1>2 DEF Life!Store, IsTool, Created
<1> QED
  BY <1>3 DEF LifeStep, Life!Next

(* LifeSpec: the ledger implements TaskLife. Whatever servers crash, sweep,  *)
(* cancel and finish, a final status is never changed, a task cancelled      *)
(* while PENDING never runs, and a COMPLETED tool task has its result.       *)
THEOREM LedgerImplementsLife == Spec => LifeSpec
<1>1. Init => Life!Init
  BY DEF Init, Life!Init, IsTool, Created
<1>2. TInv /\ [Next]_vars => LifeStep
  <2> SUFFICES ASSUME TInv, [Next]_vars PROVE LifeStep
    OBVIOUS
  <2>1. ASSUME NEW a \in Actors, UpdateStep(a) PROVE LifeStep
    BY <2>1, WriteIsLife, QuietStep DEF UpdateStep, Lock, Release, UpdateThrows
  <2>2. ASSUME NEW t \in Tasks, RunnerStep(t) PROVE LifeStep
    BY <2>2, WriteResultIsLife, QuietStep
       DEF RunnerStep, InvokeReturns, InvokeThrows, WriteResultThrows, store
  <2>3. ASSUME NEW t \in Tasks, Poll(t) \/ LockGoesStale(t) PROVE LifeStep
    BY <2>3, QuietStep DEF Poll, LockGoesStale, store
  <2>4. ASSUME NEW c \in Calls, NEW s \in Servers, NEW t \in Tasks,
               \/ Cancel(c, s, t) \/ RecordToolCall(c, s, t)
               \/ \E status \in Terminal : Finish(c, s, t, status)
        PROVE  LifeStep
    BY <2>4, QuietStep DEF Cancel, RecordToolCall, Finish, Call, store
  <2>5. ASSUME NEW s \in Servers,
               ReaperStep(s) \/ Crash(s) \/ \E p \in Pids : Boot(s, p)
        PROVE  LifeStep
    BY <2>5, QuietStep DEF ReaperStep, ReapDone, Reap, Crash, Boot, store
  <2>6. CASE UNCHANGED vars
    BY <2>6, QuietStep DEF vars, store
  <2> QED
    BY <2>1, <2>2, <2>3, <2>4, <2>5, <2>6, StartIsLife DEF Next
<1> QED
  BY <1>1, <1>2, TInvHolds, PTL DEF Spec, LifeSpec, Life!Spec, LifeStep, LifeStatus

=============================================================================
