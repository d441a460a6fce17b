------------------------------ MODULE TaskLedger ------------------------------
(***************************************************************************)
(* The task ledger: meta.json and result.json of every task (src/core/     *)
(* task-ledger/store.ts), the runner that drives a tool task through its   *)
(* states (runner.ts), the tools that cancel, finish and count calls of a  *)
(* task, and the sweep for orphans that a server makes when it starts.     *)
(*                                                                         *)
(* TaskStore.update is a protocol of its own: wait for the lock file of    *)
(* the task, read, compute, write, release. Runners, sweeps and tool calls *)
(* of several servers are its actors; each waits for or holds one lock at  *)
(* a time, and its server may die at any point of it. The event log is     *)
(* advisory and left out, and so are the fields that no decision reads.    *)
(***************************************************************************)
EXTENDS Naturals, FiniteSets

CONSTANTS
  Tasks,
  Servers,
  Pids,
  Calls,       (* bound: tool calls in progress                             *)
  MaxStarts,   (* bound: starts of servers                                  *)
  MaxCounted,  (* bound: tool calls recorded per task                       *)
  None, Dead   (* no value; the holder of a lock that died                  *)

ASSUME LedgerAssumption ==
  /\ MaxStarts \in Nat /\ MaxCounted \in Nat
  /\ IsFiniteSet(Calls)
  /\ Tasks \cap Servers = {} /\ Tasks \cap Calls = {} /\ Servers \cap Calls = {}
  /\ {None, Dead} \cap (Tasks \cup Servers \cup Pids \cup Calls) = {}

(* Who updates a task: its runner (named by the task), the sweep of a server *)
(* (named by the server) or a tool call.                                     *)
Actors == Tasks \cup Servers \cup Calls

VARIABLES
  meta,        (* meta.json of each task                                    *)
  result,      (* the tasks with a result.json                              *)
  lock,        (* the holder of each task's lock file                       *)
  upd,         (* the update each actor is in                               *)
  srv, pid,    (* each server's stage and process id                        *)
  todo,        (* the tasks its sweep has listed and not yet looked at      *)
  at,          (* the server of each task's runner                          *)
  run,         (* where the runner of a task is                             *)
  outcome,     (* the outcome it will record                                *)
  detected,    (* it knows of the cancellation                              *)
  starts,
  (* History. *)
  counted,     (* the tool calls whose recording succeeded                  *)
  timely,      (* tasks cancelled before their tool came back               *)
  left,        (* what each server found orphaned when it started           *)
  excused      (* tasks whose reaping failed or whose pid was taken again   *)

store == <<meta, result, lock>>
server == <<srv, pid, todo, at, starts>>
runner == <<run, outcome, detected>>
history == <<counted, timely, left, excused>>
vars == <<store, upd, server, runner, history>>

Terminal == {"COMPLETED", "FAILED", "CANCELLED"}

(* kind: a tool to run, or a browser_task that its client drives. *)
Meta == [kind : {"tool", "browser_task"}, status : {"PENDING", "RUNNING"} \cup Terminal,
         pid : Pids, cancel : BOOLEAN, orphaned : BOOLEAN, calls : 0 .. MaxCounted]

(* An update in progress: it waits for the lock, writes its draft, releases. *)
Update == [op : {"start", "final", "reap", "cancel", "finish", "record"},
           task : Tasks, by : Servers, arg : Terminal \cup {None},
           stage : {"lock", "write", "release"}, draft : Meta \cup {None}]

(* No row, or no update, is not mistaken for one. *)
ASSUME NoneAssumption == None \notin Meta \cup Update

(* "host": a browser_task has no runner but the client. *)
Live == {"start", "invoke", "write", "final", "host"}

TypeOK ==
  /\ meta \in [Tasks -> Meta \cup {None}]
  /\ result \subseteq Tasks
  /\ lock \in [Tasks -> Actors \cup {None, Dead}]
  /\ upd \in [Actors -> Update \cup {None}]
  /\ srv \in [Servers -> {"down", "reaping", "up"}]
  /\ pid \in [Servers -> Pids \cup {None}]
  /\ todo \in [Servers -> SUBSET Tasks]
  /\ at \in [Tasks -> Servers \cup {None}]
  /\ run \in [Tasks -> Live \cup {"none", "done", "threw", "dead"}]
  /\ outcome \in [Tasks -> Terminal \cup {None}]
  /\ detected \in [Tasks -> BOOLEAN]
  /\ starts \in 0 .. MaxStarts
  /\ counted \in [Tasks -> 0 .. MaxCounted]
  /\ timely \subseteq Tasks /\ excused \subseteq Tasks
  /\ left \in [Servers -> SUBSET Tasks]

Init ==
  /\ meta = [t \in Tasks |-> None]
  /\ result = {}
  /\ lock = [t \in Tasks |-> None]
  /\ upd = [a \in Actors |-> None]
  /\ srv = [s \in Servers |-> "down"]
  /\ pid = [s \in Servers |-> None]
  /\ todo = [s \in Servers |-> {}]
  /\ at = [t \in Tasks |-> None]
  /\ run = [t \in Tasks |-> "none"]
  /\ outcome = [t \in Tasks |-> None]
  /\ detected = [t \in Tasks |-> FALSE]
  /\ starts = 0
  /\ counted = [t \in Tasks |-> 0]
  /\ timely = {} /\ excused = {}
  /\ left = [s \in Servers |-> {}]

Created(t) == meta[t] # None
Ended(t) == Created(t) /\ meta[t].status \in Terminal
Open(t) == Created(t) /\ meta[t].status \notin Terminal
IsTool(t) == Created(t) /\ meta[t].kind = "tool"

(* Fault: a process that may not be signalled is taken for dead. *)
PidVisible(p) == FALSE

(* isPidAlive: some process has the pid, whichever it is. *)
PidAlive(p) == \E s \in Servers : pid[s] = p

-----------------------------------------------------------------------------
(* The mutators: the next meta of task t, or None to abort.                  *)

Unless(abort, next) == IF abort THEN None ELSE next

(* Fault: the runner starts whatever became of the task. *)
StartedAnyway(t) ==
  [meta[t] EXCEPT !.status = "RUNNING", !.pid = pid[at[t]]]

Started(t) ==
  Unless(meta[t].status # "PENDING",
         [meta[t] EXCEPT !.status = "RUNNING", !.pid = pid[at[t]]])

(* Fault: the last transition of a cancelled task is left to the canceller. *)
FinalUnlessCancelled(t) ==
  Unless(Ended(t) \/ meta[t].cancel, [meta[t] EXCEPT !.status = outcome[t]])

RunEnded(t) == Unless(Ended(t), [meta[t] EXCEPT !.status = outcome[t]])

Reaped(t) ==
  Unless(Ended(t) \/ PidAlive(meta[t].pid),
         [meta[t] EXCEPT !.status = "FAILED", !.orphaned = TRUE])

(* oc_task_cancel: a tool that runs is only asked to stop. *)
Cancelled(t) ==
  Unless(Ended(t),
         IF meta[t].status = "PENDING" \/ ~IsTool(t)
         THEN [meta[t] EXCEPT !.status = "CANCELLED", !.cancel = TRUE]
         ELSE [meta[t] EXCEPT !.cancel = TRUE])

Finished(t, s) == Unless(Ended(t), [meta[t] EXCEPT !.status = s])

Recorded(t) == Unless(Ended(t), [meta[t] EXCEPT !.calls = @ + 1])

Mutated(u) ==
  CASE u.op = "start"  -> Started(u.task)
    [] u.op = "final"  -> RunEnded(u.task)
    [] u.op = "reap"   -> Reaped(u.task)
    [] u.op = "cancel" -> Cancelled(u.task)
    [] u.op = "finish" -> Finished(u.task, u.arg)
    [] u.op = "record" -> Recorded(u.task)

-----------------------------------------------------------------------------
(* TaskStore.update                                                          *)

Request(op, t, s, arg) ==
  [op |-> op, task |-> t, by |-> s, arg |-> arg, stage |-> "lock", draft |-> None]

In(a, stage) == upd[a] # None /\ upd[a].stage = stage

(* What a runner does when its update has returned. *)
Resume(a, stage) ==
  run' = IF a \in Tasks THEN [run EXCEPT ![a] = stage] ELSE run

(* Fault: nobody is excluded between the read and the write. *)
MayLockAlways(t) == lock[t] \in Actors \cup {None}

MayLock(t) == lock[t] = None

(* The lock is granted; an aborting mutator leads straight to the release. *)
Lock(a) ==
  /\ In(a, "lock") /\ MayLock(upd[a].task)
  /\ LET next == Mutated(upd[a]) IN
       upd' = [upd EXCEPT ![a].stage = IF next = None THEN "release" ELSE "write",
                          ![a].draft = next]
  /\ lock' = [lock EXCEPT ![upd[a].task] = a]
  /\ UNCHANGED <<meta, result, server, runner, history>>

(* Whether the tool of t has yet to come back. *)
Running(t) == run[t] \in {"start", "invoke"}

(* meta.json is renamed into place. *)
Write(a) ==
  LET t == upd[a].task op == upd[a].op IN
  /\ In(a, "write")
  /\ meta' = [meta EXCEPT ![t] = upd[a].draft]
  /\ upd' = [upd EXCEPT ![a].stage = "release"]
  /\ counted' = IF op = "record" THEN [counted EXCEPT ![t] = @ + 1] ELSE counted
  /\ timely' = IF op = "cancel" /\ Running(t) THEN timely \cup {t} ELSE timely
  /\ UNCHANGED <<result, lock, server, runner, left, excused>>

(* The lock is released and the caller goes on with what was written. *)
Release(a) ==
  /\ In(a, "release")
  /\ lock' = [lock EXCEPT ![upd[a].task] = None]
  /\ upd' = [upd EXCEPT ![a] = None]
  /\ Resume(a, IF upd[a].op = "start" /\ upd[a].draft # None THEN "invoke" ELSE "done")
  /\ UNCHANGED <<meta, result, server, outcome, detected, history>>

(* acquireLock gives up, or the write fails and the lock is released. *)
UpdateThrows(a) ==
  /\ upd[a] # None
  /\ \/ In(a, "lock") /\ lock[upd[a].task] # None /\ UNCHANGED lock
     \/ In(a, "write") /\ lock' = [lock EXCEPT ![upd[a].task] = None]
  /\ excused' = IF upd[a].op = "reap" THEN excused \cup {upd[a].task} ELSE excused
  /\ upd' = [upd EXCEPT ![a] = None]
  /\ Resume(a, "threw")
  /\ UNCHANGED <<meta, result, server, outcome, detected, counted, timely, left>>

-----------------------------------------------------------------------------
(* runTask                                                                   *)

(* oc_task_start: the row is created, and a tool task gets its runner. *)
Start(s, t, kind) ==
  LET tool == kind = "tool" IN
  /\ srv[s] = "up"
  /\ ~Created(t)
  /\ meta' = [meta EXCEPT ![t] =
       [kind |-> kind, status |-> IF tool THEN "PENDING" ELSE "RUNNING",
        pid |-> pid[s], cancel |-> FALSE, orphaned |-> FALSE, calls |-> 0]]
  /\ at' = [at EXCEPT ![t] = s]
  /\ run' = [run EXCEPT ![t] = IF tool THEN "start" ELSE "host"]
  /\ upd' = IF tool THEN [upd EXCEPT ![t] = Request("start", t, s, None)] ELSE upd
  /\ UNCHANGED <<result, lock, srv, pid, todo, starts, outcome, detected, history>>

(* cancelPoll, every 100 ms until the outcome is settled. *)
Poll(t) ==
  /\ run[t] \in {"invoke", "write"}
  /\ meta[t].cancel /\ ~detected[t]
  /\ detected' = [detected EXCEPT ![t] = TRUE]
  /\ UNCHANGED <<store, upd, server, run, outcome, history>>

(* Fault: the flag is not read again when the tool comes back. *)
KnownPolled(t) == detected[t]

(* cancelDetectedAt, with the last look at meta.json. *)
Known(t) == detected[t] \/ meta[t].cancel

InvokeReturns(t, error) ==
  /\ run[t] = "invoke"
  /\ detected' = [detected EXCEPT ![t] = Known(t)]
  /\ outcome' = [outcome EXCEPT ![t] =
       IF Known(t) THEN "CANCELLED" ELSE IF error THEN "FAILED" ELSE "COMPLETED"]
  /\ run' = [run EXCEPT ![t] = "write"]
  /\ UNCHANGED <<store, upd, server, history>>

(* Fault: the catch block settles no outcome. *)
CatchUnsettled(t) ==
  /\ run' = [run EXCEPT ![t] = "final"]
  /\ upd' = [upd EXCEPT ![t] = Request("final", t, at[t], None)]
  /\ UNCHANGED outcome

(* The catch block: only what the poll has seen counts. *)
Catch(t) ==
  /\ outcome' = [outcome EXCEPT ![t] = IF detected[t] THEN "CANCELLED" ELSE "FAILED"]
  /\ run' = [run EXCEPT ![t] = "final"]
  /\ upd' = [upd EXCEPT ![t] = Request("final", t, at[t], None)]

InvokeThrows(t) ==
  /\ run[t] = "invoke"
  /\ Catch(t)
  /\ UNCHANGED <<store, server, detected, history>>

WriteResult(t) ==
  /\ run[t] = "write"
  /\ result' = result \cup {t}
  /\ run' = [run EXCEPT ![t] = "final"]
  /\ upd' = [upd EXCEPT ![t] = Request("final", t, at[t], None)]
  /\ UNCHANGED <<meta, lock, server, outcome, detected, history>>

WriteResultThrows(t) ==
  /\ run[t] = "write"
  /\ Catch(t)
  /\ UNCHANGED <<store, server, detected, history>>

-----------------------------------------------------------------------------
(* Tool calls on a task                                                      *)

Call(c, s, t, op, arg) ==
  /\ upd[c] = None
  /\ upd' = [upd EXCEPT ![c] = Request(op, t, s, arg)]
  /\ UNCHANGED <<store, server, runner, history>>

Cancel(c, s, t) ==
  srv[s] = "up" /\ Created(t) /\ Call(c, s, t, "cancel", None)

Finish(c, s, t, status) ==
  /\ srv[s] = "up" /\ Created(t) /\ ~IsTool(t)
  /\ Call(c, s, t, "finish", status)

(* recordTaskToolCall: does not wait for the sweep. *)
RecordToolCall(c, s, t) ==
  /\ srv[s] # "down" /\ Open(t) /\ ~IsTool(t)
  /\ counted[t] + Cardinality({d \in Calls : upd[d] # None /\ upd[d].op = "record"})
       < MaxCounted
  /\ Call(c, s, t, "record", None)

-----------------------------------------------------------------------------
(* Servers                                                                   *)

(* list({status: ['PENDING', 'RUNNING']}) *)
Candidates == {t \in Tasks : Open(t)}

(* A server starts, with a pid nobody has now, and lists the ledger. *)
Boot(s, p) ==
  /\ srv[s] = "down" /\ starts < MaxStarts
  /\ ~PidAlive(p)
  /\ starts' = starts + 1
  /\ srv' = [srv EXCEPT ![s] = "reaping"]
  /\ pid' = [pid EXCEPT ![s] = p]
  /\ todo' = [todo EXCEPT ![s] = Candidates]
  /\ left' = [left EXCEPT ![s] = {t \in Tasks : Open(t) /\ run[t] = "dead"}]
  /\ excused' = excused \cup {t \in Tasks : Created(t) /\ meta[t].pid = p}
  /\ UNCHANGED <<store, upd, at, runner, counted, timely>>

(* reapOrphans: the next candidate, if its pid is not alive. *)
Reap(s, t) ==
  /\ upd[s] = None /\ t \in todo[s]
  /\ todo' = [todo EXCEPT ![s] = @ \ {t}]
  /\ upd' = IF PidAlive(meta[t].pid) THEN upd
            ELSE [upd EXCEPT ![s] = Request("reap", t, s, None)]
  /\ UNCHANGED <<store, srv, pid, at, starts, runner, history>>

(* startupReapPromise settles; the tools that wait for it go on. *)
ReapDone(s) ==
  /\ srv[s] = "reaping" /\ todo[s] = {} /\ upd[s] = None
  /\ srv' = [srv EXCEPT ![s] = "up"]
  /\ UNCHANGED <<store, upd, pid, todo, at, starts, runner, history>>

(* The process dies, wherever its updates are. *)
Crash(s) ==
  LET mine == {a \in Actors : upd[a] # None /\ upd[a].by = s} IN
  /\ srv[s] # "down"
  /\ srv' = [srv EXCEPT ![s] = "down"]
  /\ pid' = [pid EXCEPT ![s] = None]
  /\ todo' = [todo EXCEPT ![s] = {}]
  /\ lock' = [t \in Tasks |-> IF lock[t] \in mine THEN Dead ELSE lock[t]]
  /\ upd' = [a \in Actors |-> IF a \in mine THEN None ELSE upd[a]]
  /\ run' = [t \in Tasks |->
       IF at[t] = s /\ run[t] \in Live \cup {"threw"} THEN "dead" ELSE run[t]]
  /\ UNCHANGED <<meta, result, at, starts, outcome, detected, history>>

(* proper-lockfile: the lock of a dead process goes stale. *)
LockGoesStale(t) ==
  /\ lock[t] = Dead
  /\ lock' = [lock EXCEPT ![t] = None]
  /\ UNCHANGED <<meta, result, upd, server, runner, history>>

-----------------------------------------------------------------------------

UpdateStep(a) == Lock(a) \/ Write(a) \/ Release(a) \/ UpdateThrows(a)

RunnerStep(t) ==
  \/ \E error \in BOOLEAN : InvokeReturns(t, error)
  \/ InvokeThrows(t)
  \/ WriteResult(t) \/ WriteResultThrows(t)

ReaperStep(s) == ReapDone(s) \/ \E t \in Tasks : Reap(s, t)

Next ==
  \/ \E a \in Actors : UpdateStep(a)
  \/ \E t \in Tasks : RunnerStep(t) \/ Poll(t) \/ LockGoesStale(t)
  \/ \E s \in Servers, t \in Tasks, kind \in {"tool", "browser_task"} :
       Start(s, t, kind)
  \/ \E c \in Calls, s \in Servers, t \in Tasks :
       \/ Cancel(c, s, t)
       \/ RecordToolCall(c, s, t)
       \/ \E status \in Terminal : Finish(c, s, t, status)
  \/ \E s \in Servers : ReaperStep(s) \/ Crash(s) \/ \E p \in Pids : Boot(s, p)

Spec == Init /\ [][Next]_vars

(* Locks are granted or waited for in vain, writes end, tools come back or   *)
(* run into their own timeouts, and the sweep goes on to its end.            *)
FairSpec ==
  /\ Spec
  /\ \A a \in Actors : WF_vars(UpdateStep(a))
  /\ \A t \in Tasks : WF_vars(RunnerStep(t)) /\ WF_vars(LockGoesStale(t))
  /\ \A s \in Servers : WF_vars(ReaperStep(s))

-----------------------------------------------------------------------------
(* Properties                                                                *)

(* The ledger keeps the promise of TaskLife: final statuses are immutable,   *)
(* nothing cancelled while PENDING ever runs, and the result of a COMPLETED  *)
(* tool task is on disk before its status says so.                           *)
Life == INSTANCE TaskLife WITH
  status <- [t \in Tasks |-> IF meta[t] = None THEN "none" ELSE meta[t].status],
  tools <- {t \in Tasks : IsTool(t)},
  stored <- result

LifeSpec == Life!Spec

(* Read-modify-write updates of a row do not lose each other: every recorded *)
(* tool call is counted, whatever is cancelled, finished or swept meanwhile. *)
CallsCounted ==
  \A t \in Tasks : Created(t) => meta[t].calls = counted[t]

(* A cancellation that reached meta.json before the tool came back is        *)
(* honoured even if the poll never saw it: the task does not end COMPLETED.  *)
CancelHonoured ==
  \A t \in timely : meta[t].status # "COMPLETED"

(* Sweeps fail exactly the orphans: never a task whose own server still      *)
(* lives, and a server that accepts tasks has reaped all that an earlier     *)
(* crash left behind (unless the update failed or the dead pid belongs to    *)
(* somebody again).                                                          *)
SweepIsExact ==
  /\ \A t \in Tasks : Created(t) /\ meta[t].orphaned => run[t] = "dead"
  /\ \A s \in Servers : srv[s] = "up" => \A t \in left[s] \ excused : Ended(t)

(* A tool task ends, however it was cancelled meanwhile, unless its server   *)
(* dies or cannot write the row.                                             *)
TaskEnds ==
  \A t \in Tasks :
    run[t] = "start" ~> Ended(t) \/ run[t] \in {"threw", "dead"}

(* The header of runner.ts: a tool that ends after cancel_requested_at was   *)
(* set is recorded CANCELLED rather than FAILED.                             *)
CancelBeatsFailure ==
  \A t \in timely : Ended(t) /\ run[t] = "done" => meta[t].status = "CANCELLED"

(* The layout in the header of store.ts: result.json is present iff the      *)
(* status is COMPLETED.                                                      *)
ResultIffCompleted ==
  \A t \in Tasks : Ended(t) /\ IsTool(t) => (t \in result <=> meta[t].status = "COMPLETED")

===============================================================================
