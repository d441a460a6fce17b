---------------------------- MODULE WorkflowEngine ----------------------------
(***************************************************************************)
(* One workflow of src/orchestration/workflow-engine.ts: the accounting in *)
(* memory, the scratchpad of each worker and orchestration.md on disk      *)
(* (state-manager.ts), and everything that may complete a worker: its own  *)
(* agent, its timeout, the global timeout and the circuit breaker. The     *)
(* engine may restart and go on from the file.                             *)
(*                                                                         *)
(* completeWorker is three steps with awaits between them: the scratchpad, *)
(* the accounting under the completion lock, the write-behind of what the  *)
(* accounting left. An update of a scratchpad holds the worker's lock from *)
(* its read to its write and is one action; of its fields only the data is *)
(* kept.                                                                   *)
(***************************************************************************)
EXTENDS Naturals, FiniteSets

CONSTANTS
  Workers,
  Data,        (* what a worker may extract                                 *)
  Reports,     (* status and data of the worker_complete calls of agents    *)
  MaxStale,    (* maxStaleIterations                                        *)
  MaxRequests, (* bound: worker_complete and worker_update calls            *)
  MaxRestarts, (* bound: restarts of the engine                             *)
  None

ASSUME WorkflowAssumption ==
  /\ Workers # {} /\ IsFiniteSet(Workers)
  /\ None \notin Workers \cup Data
  /\ MaxStale \in Nat /\ MaxRequests \in Nat /\ MaxRestarts \in Nat

(* Completions by forceCompleteWorker: a cleanup in between lets the global  *)
(* timeout force a worker "again" while it is being forced.                  *)
Forcers == {"force", "again"}

(* Who calls completeWorker for a worker: its agent or forceCompleteWorker. *)
Callers == ({"agent"} \cup Forcers) \X Workers

VARIABLES
  mem,         (* the InMemoryWorkflowState, None when there is none        *)
  file,        (* orchestration.md                                          *)
  pad,         (* worker-<name>.md                                          *)
  tab,         (* the workers that exist in the session manager             *)
  rt,          (* workerRuntimeStates                                       *)
  timer,       (* the workers whose timeout is armed                        *)
  gtimer,      (* the global timeout is armed                               *)
  global,      (* forceCompleteAllRunningWorkers: whom it has still to      *)
               (* force, and whose completion it awaits                     *)
  call,        (* the completeWorker calls in progress                      *)
  holder,      (* the call that holds the completion lock over its awaits   *)
  cleanup,     (* where cleanupWorkflow is                                  *)
  requests, restarts,
  (* History. *)
  forced,      (* how often each worker was force-completed                 *)
  reported,    (* completions that returned after the engine restarted      *)
  erased       (* a forced completion took the data of a worker away        *)

engine == <<mem, rt, timer, gtimer, global, call, holder>>
disk == <<file, pad>>
bounds == <<requests, restarts>>
history == <<forced, reported, erased>>
vars == <<engine, disk, tab, cleanup, bounds, history>>

EndStatus == {"SUCCESS", "PARTIAL", "FAIL"}

(* An orchestration, as both the memory and the file keep it. `ids`: whether *)
(* the entries carry the ids of the workers or, in their place, the names.   *)
Orch == [stat : [Workers -> {"INIT"} \cup EndStatus],
         completed : 0 .. Cardinality(Workers), failed : 0 .. Cardinality(Workers),
         overall : {"INIT", "RUNNING", "COMPLETED", "PARTIAL", "FAILED"},
         ids : BOOLEAN]

ASSUME ReportsAssumption == Reports \subseteq EndStatus \X (Data \cup {None})

(* The data in a scratchpad; "missing" when there is no scratchpad. *)
Pad == Data \cup {None, "missing"}

Runtime == [timedOut : BOOLEAN, stale : Nat, hash : Data \cup {None}]

Completion == [status : EndStatus, data : Data \cup {None},
               stage : {"pad", "lock", "write", "fallback"}, snap : Orch \cup {None}]

(* A run of forceCompleteAllRunningWorkers. *)
Sweep == [todo : SUBSET Workers, awaits : Callers \cup {None}]

(* What is absent is not mistaken for a state, a record or a call. *)
ASSUME NoneAssumption == None \notin Orch \cup Runtime \cup Completion \cup Sweep \cup Callers

TypeOK ==
  /\ mem \in Orch \cup {None} /\ file \in Orch \cup {None}
  /\ pad \in [Workers -> Pad]
  /\ tab \subseteq Workers /\ timer \subseteq Workers
  /\ rt \in [Workers -> Runtime \cup {None}]
  /\ gtimer \in BOOLEAN
  /\ global \in Sweep \cup {None}
  /\ call \in [Callers -> Completion \cup {None}]
  /\ holder \in Callers \cup {None}
  /\ cleanup \in {"no", "deleting", "files", "done"}
  /\ requests \in 0 .. MaxRequests
  /\ restarts \in 0 .. MaxRestarts
  /\ forced \in [Workers -> Nat]
  /\ reported \subseteq Workers /\ erased \in BOOLEAN

Init ==
  /\ mem = None /\ file = None
  /\ pad = [w \in Workers |-> "missing"]
  /\ tab = {} /\ timer = {}
  /\ rt = [w \in Workers |-> None]
  /\ gtimer = FALSE /\ global = None
  /\ call = [c \in Callers |-> None]
  /\ holder = None
  /\ cleanup = "no"
  /\ requests = 0
  /\ restarts = 0
  /\ forced = [w \in Workers |-> 0]
  /\ reported = {} /\ erased = FALSE

-----------------------------------------------------------------------------
(* initWorkflow: `ok` are the workers whose navigation succeeded. The file   *)
(* is written before the navigation failures are entered in memory.          *)
InitWorkflow(ok) ==
  /\ mem = None /\ file = None /\ cleanup = "no"
  /\ tab' = Workers
  /\ pad' = [w \in Workers |-> None]
  /\ file' = [stat |-> [w \in Workers |-> "INIT"], completed |-> 0, failed |-> 0,
              overall |-> "INIT", ids |-> TRUE]
  /\ mem' = [stat |-> [w \in Workers |-> IF w \in ok THEN "INIT" ELSE "FAIL"],
             completed |-> 0, failed |-> Cardinality(Workers \ ok),
             overall |-> "INIT", ids |-> FALSE]
  /\ rt' = [w \in Workers |->
       IF w \in ok THEN [timedOut |-> FALSE, stale |-> 0, hash |-> None] ELSE rt[w]]
  /\ timer' = ok
  /\ gtimer' = TRUE
  /\ UNCHANGED <<global, call, holder, cleanup, bounds, history>>

-----------------------------------------------------------------------------
(* Completion                                                                *)

IsEnd(s) == s \in EndStatus
Ok(s) == s \in {"SUCCESS", "PARTIAL"}

(* Fault: a failed worker that recovers is counted as completed only. *)
CountRecovered(o, w, s) ==
  LET was == o.stat[w] IN
  CASE ~IsEnd(was) /\ s = "FAIL" -> [completed |-> o.completed, failed |-> o.failed + 1]
    [] ~Ok(was) /\ Ok(s)         -> [completed |-> o.completed + 1, failed |-> o.failed]
    [] Ok(was) /\ s = "FAIL"     -> [completed |-> o.completed - 1, failed |-> o.failed + 1]
    [] OTHER                     -> [completed |-> o.completed, failed |-> o.failed]

(* The counters after worker w went from its old status to s. *)
Count(o, w, s) ==
  LET was == o.stat[w] IN
  CASE ~IsEnd(was) /\ Ok(s)      -> [completed |-> o.completed + 1, failed |-> o.failed]
    [] ~IsEnd(was) /\ s = "FAIL" -> [completed |-> o.completed, failed |-> o.failed + 1]
    [] Ok(was) /\ s = "FAIL"     -> [completed |-> o.completed - 1, failed |-> o.failed + 1]
    [] was = "FAIL" /\ Ok(s)     -> [completed |-> o.completed + 1, failed |-> o.failed - 1]
    [] OTHER                     -> [completed |-> o.completed, failed |-> o.failed]

Overall(stat, failed) ==
  IF \E w \in Workers : ~IsEnd(stat[w]) THEN "RUNNING"
  ELSE IF failed = Cardinality(Workers) THEN "FAILED"
  ELSE IF failed > 0 THEN "PARTIAL" ELSE "COMPLETED"

(* The orchestration after worker w was completed with s; the memory and the *)
(* file are accounted alike.                                                 *)
Account(o, w, s) ==
  LET n == Count(o, w, s)
      stat == [o.stat EXCEPT ![w] = s]
  IN [o EXCEPT !.stat = stat, !.completed = n.completed, !.failed = n.failed,
               !.overall = Overall(stat, n.failed)]

Begin(status, data) ==
  [status |-> status, data |-> data, stage |-> "pad", snap |-> None]

(* Agents are told of their worker when the workflow has been set up. *)
Known == mem # None \/ file # None

(* worker_complete *)
Complete(w, status, data) ==
  /\ Known
  /\ call[<<"agent", w>>] = None /\ requests < MaxRequests
  /\ requests' = requests + 1
  /\ call' = [call EXCEPT ![<<"agent", w>>] = Begin(status, data)]
  /\ UNCHANGED <<mem, rt, timer, gtimer, global, holder, disk, tab, cleanup, restarts, history>>

(* updateWorkerState: the data of the update, given or not, replaces the     *)
(* data on disk.                                                             *)
WritePad(w, data) ==
  pad' = IF pad[w] = "missing" THEN pad ELSE [pad EXCEPT ![w] = data]

CompletePad(c) ==
  /\ call[c] # None /\ call[c].stage = "pad"
  /\ WritePad(c[2], call[c].data)
  /\ call' = [call EXCEPT ![c].stage = "lock", ![c].data = None]
  /\ erased' = \/ erased
               \/ c[1] \in Forcers /\ pad[c[2]] \in Data /\ pad'[c[2]] = None
  /\ UNCHANGED <<mem, rt, timer, gtimer, global, holder, file, tab, cleanup,
                 bounds, forced, reported>>

(* Fault: the file fallback does not wait for the lock. *)
LockFreeForMemory == holder = None \/ mem = None

(* acquireLock. The holder of the lock only awaits in the file fallback. *)
LockFree == holder = None

(* The critical section, on the memory: what it leaves is to be written. *)
AccountInMemory(c) ==
  /\ call[c] # None /\ call[c].stage = "lock" /\ LockFree /\ mem # None
  /\ mem' = Account(mem, c[2], call[c].status)
  /\ call' = [call EXCEPT ![c].stage = "write", ![c].snap = mem']
  /\ UNCHANGED <<rt, timer, gtimer, global, holder, disk, tab, cleanup,
                 bounds, history>>

(* _writeOrchestrationStateBehind reaches the disk: overlapping writes in    *)
(* any order, and a failing one changes nothing.                             *)
WriteBehind(c, fails) ==
  /\ call[c] # None /\ call[c].stage = "write"
  /\ file' = IF fails THEN file ELSE call[c].snap
  /\ call' = [call EXCEPT ![c] = None]
  /\ UNCHANGED <<mem, rt, timer, gtimer, global, holder, pad, tab, cleanup,
                 bounds, history>>

(* _completeWorkerFileFallback reads under the lock ... *)
FallbackRead(c) ==
  /\ call[c] # None /\ call[c].stage = "lock" /\ LockFree /\ mem = None
  /\ IF file = None
     THEN call' = [call EXCEPT ![c] = None] /\ UNCHANGED holder
     ELSE /\ call' = [call EXCEPT ![c].stage = "fallback",
                                  ![c].snap = Account(file, c[2], call[c].status)]
          /\ holder' = c
  /\ UNCHANGED <<mem, rt, timer, gtimer, global, disk, tab, cleanup, bounds, history>>

(* ... and writes. *)
FallbackWrite(c) ==
  /\ call[c] # None /\ call[c].stage = "fallback"
  /\ file' = call[c].snap
  /\ call' = [call EXCEPT ![c] = None]
  /\ holder' = None
  /\ reported' = IF restarts > 0 THEN reported \cup {c[2]} ELSE reported
  /\ UNCHANGED <<mem, rt, timer, gtimer, global, pad, tab, cleanup, bounds, forced, erased>>

(* The write fails: the lock is given back and completeWorker throws, which  *)
(* ends the global timeout's loop when that awaits it.                       *)
FallbackFails(c) ==
  /\ call[c] # None /\ call[c].stage = "fallback"
  /\ call' = [call EXCEPT ![c] = None]
  /\ holder' = None
  /\ global' = IF global # None /\ global.awaits = c
               THEN [global EXCEPT !.todo = {}] ELSE global
  /\ UNCHANGED <<mem, rt, timer, gtimer, disk, tab, cleanup, bounds, history>>

-----------------------------------------------------------------------------
(* Timeouts and the circuit breaker                                          *)

(* The call a forced completion of w is. *)
Forcing(w) == <<IF call[<<"force", w>>] = None THEN "force" ELSE "again", w>>

(* Fault: a worker that is being forced already is forced again. *)
ForceAgain(w) ==
  /\ timer' = timer \ {w}
  /\ rt' = rt
  /\ forced' = [forced EXCEPT ![w] = @ + 1]
  /\ call' = [call EXCEPT ![Forcing(w)] = Begin("PARTIAL", None)]

(* Fault: the worker is marked and disarmed, its completion left to others. *)
ForceMarks(w) ==
  /\ rt' = IF rt[w] = None THEN rt ELSE [rt EXCEPT ![w].timedOut = TRUE]
  /\ timer' = timer \ {w}
  /\ UNCHANGED <<call, forced>>

(* forceCompleteWorker: marks the worker, disarms its timeout and completes  *)
(* it as PARTIAL with no data.                                               *)
ForceComplete(w) ==
  IF rt[w] # None /\ rt[w].timedOut
  THEN UNCHANGED <<rt, timer, call, forced>>
  ELSE /\ rt' = IF rt[w] = None THEN rt ELSE [rt EXCEPT ![w].timedOut = TRUE]
       /\ timer' = timer \ {w}
       /\ forced' = [forced EXCEPT ![w] = @ + 1]
       /\ call' = [call EXCEPT ![Forcing(w)] = Begin("PARTIAL", None)]

(* The timeout of a worker fires; nothing but forcing it or the cleanup ever *)
(* disarms it.                                                               *)
WorkerTimeout(w) ==
  /\ w \in timer
  /\ ForceComplete(w)
  /\ UNCHANGED <<mem, gtimer, global, holder, disk, tab, cleanup, bounds, reported, erased>>

RunningWorkers == {w \in Workers : ~IsEnd(mem.stat[w])}

(* forceCompleteAllRunningWorkers: takes the list once ... *)
GlobalTimeout ==
  /\ gtimer /\ global = None
  /\ gtimer' = FALSE
  /\ global' = [todo |-> IF mem = None THEN {} ELSE RunningWorkers, awaits |-> None]
  /\ UNCHANGED <<mem, rt, timer, call, holder, disk, tab, cleanup, bounds, history>>

(* The completion it forced last has returned. *)
GlobalReady ==
  /\ global # None
  /\ global.awaits # None => call[global.awaits] = None

(* ... and forces one after the other, each awaited to its end. *)
GlobalForce(w) ==
  /\ GlobalReady /\ w \in global.todo
  /\ ForceComplete(w)
  /\ global' = [todo |-> global.todo \ {w},
                awaits |-> IF forced'[w] > forced[w] THEN Forcing(w) ELSE None]
  /\ UNCHANGED <<mem, gtimer, holder, disk, tab, cleanup, bounds, reported, erased>>

(* worker_update writes the scratchpad and shows new data to the circuit     *)
(* breaker.                                                                  *)
Update(w, data) ==
  /\ Known
  /\ requests < MaxRequests
  /\ requests' = requests + 1
  /\ WritePad(w, data)
  /\ IF data = None \/ rt[w] = None \/ rt[w].timedOut
     THEN UNCHANGED <<rt, timer, call, forced>>
     ELSE IF data # rt[w].hash
     THEN /\ rt' = [rt EXCEPT ![w].hash = data, ![w].stale = 0]
          /\ UNCHANGED <<timer, call, forced>>
     ELSE IF rt[w].stale + 1 < MaxStale
     THEN /\ rt' = [rt EXCEPT ![w].stale = @ + 1]
          /\ UNCHANGED <<timer, call, forced>>
     ELSE ForceComplete(w)
  /\ UNCHANGED <<mem, gtimer, global, holder, file, tab, cleanup, restarts, reported, erased>>

-----------------------------------------------------------------------------
(* cleanupWorkflow                                                           *)

(* The workers whose deletion finds them: deleteWorker ignores a name.       *)
Found == IF (IF mem # None THEN mem ELSE file).ids THEN Workers ELSE {}

CleanupDelete ==
  /\ cleanup = "no" /\ (mem # None \/ file # None)
  /\ tab' = tab \ Found
  /\ cleanup' = "deleting"
  /\ UNCHANGED <<engine, disk, bounds, history>>

CleanupMemory ==
  /\ cleanup = "deleting"
  /\ mem' = None
  /\ rt' = [w \in Workers |-> None]
  /\ timer' = {} /\ gtimer' = FALSE
  /\ cleanup' = "files"
  /\ UNCHANGED <<global, call, holder, disk, tab, bounds, history>>

CleanupFiles ==
  /\ cleanup = "files"
  /\ file' = None
  /\ pad' = [w \in Workers |-> "missing"]
  /\ cleanup' = "done"
  /\ UNCHANGED <<engine, tab, bounds, history>>

(* The server process is replaced: the tabs and the files stay. *)
Restart ==
  /\ restarts < MaxRestarts /\ mem # None
  /\ restarts' = restarts + 1
  /\ mem' = None
  /\ rt' = [w \in Workers |-> None]
  /\ timer' = {} /\ gtimer' = FALSE /\ global' = None
  /\ call' = [c \in Callers |-> None]
  /\ holder' = None
  /\ cleanup' = "no"
  /\ UNCHANGED <<disk, tab, requests, history>>

-----------------------------------------------------------------------------

CompleteStep(c) ==
  \/ CompletePad(c)
  \/ AccountInMemory(c) \/ \E fails \in BOOLEAN : WriteBehind(c, fails)
  \/ FallbackRead(c) \/ FallbackWrite(c) \/ FallbackFails(c)

Next ==
  \/ \E ok \in SUBSET Workers : InitWorkflow(ok)
  \/ \E w \in Workers, r \in Reports : Complete(w, r[1], r[2])
  \/ \E w \in Workers, data \in Data \cup {None} : Update(w, data)
  \/ \E c \in Callers : CompleteStep(c)
  \/ \E w \in Workers : WorkerTimeout(w) \/ GlobalForce(w)
  \/ GlobalTimeout
  \/ CleanupDelete \/ CleanupMemory \/ CleanupFiles
  \/ Restart

Spec == Init /\ [][Next]_vars

-----------------------------------------------------------------------------
(* Properties                                                                *)

CountersMatch(o) ==
  /\ o.completed = Cardinality({w \in Workers : Ok(o.stat[w])})
  /\ o.failed = Cardinality({w \in Workers : o.stat[w] = "FAIL"})
  /\ o.overall # "INIT" => o.overall = Overall(o.stat, o.failed)

(* However often and by whom a worker is completed, in whatever order the    *)
(* snapshots reach the disk and whichever path did the accounting, the state *)
(* is well-formed, and counters and overall status are those of the statuses *)
(* beside them.                                                              *)
Consistent ==
  /\ TypeOK
  /\ \A o \in {mem, file} \cup {call[c].snap : c \in {d \in Callers : call[d] # None}} :
       o # None => CountersMatch(o)

(* The worker's timeout, the global timeout and the circuit breaker between  *)
(* them force a worker once.                                                 *)
ForcedOnce == \A w \in Workers : mem # None => forced[w] <= 1

(* After a restart the file is all there is, and completions that overlap    *)
(* do not undo each other in it.                                             *)
FallbackKept ==
  file # None => \A w \in reported : IsEnd(file.stat[w])

(* Something will always end a worker that runs, whatever its agent does and *)
(* whichever timeout, breaker or completion came first: its timeout is armed *)
(* or a completion is under way. After the global timeout has gone through   *)
(* its list, only the latter counts.                                         *)
NeverStranded ==
  mem # None =>
    \A w \in Workers :
      \/ IsEnd(mem.stat[w])
      \/ \E by \in Forcers : call[<<by, w>>] # None
      \/ w \in timer /\ ~(GlobalReady /\ global.todo = {})

(* The comment of forceCompleteWorker: PARTIAL "preserves any data collected *)
(* so far".                                                                  *)
ForceKeepsData == ~erased

(* The comment of cleanupWorkflow: "Delete workers (which closes tabs and    *)
(* contexts)".                                                               *)
CleanupDeletesWorkers == cleanup = "done" => tab = {}

===============================================================================
