------------------------------- MODULE TaskLife -------------------------------
(***************************************************************************)
(* What the task ledger promises of a task, whatever processes start,      *)
(* cancel, finish, reap or crash around it (state machine of               *)
(* src/core/task-ledger/types.ts): the life of every task is a path from   *)
(* PENDING or RUNNING to one final status, and what a COMPLETED tool task  *)
(* returned can be read.                                                   *)
(***************************************************************************)
CONSTANTS Tasks

VARIABLES
  status,   (* the status of each task, "none" before it is created         *)
  tools,    (* the tasks that run a tool; a client drives the others        *)
  stored    (* the tasks whose result is stored                             *)

Final == {"COMPLETED", "FAILED", "CANCELLED"}

Init ==
  /\ status = [t \in Tasks |-> "none"]
  /\ tools = {} /\ stored = {}

Become(t, s) == status' = [status EXCEPT ![t] = s] /\ UNCHANGED <<tools, stored>>

(* A tool waits for its runner, a client is already at work. *)
CreateTool(t) ==
  /\ status[t] = "none"
  /\ status' = [status EXCEPT ![t] = "PENDING"]
  /\ tools' = tools \cup {t}
  /\ UNCHANGED stored

CreateHosted(t) == status[t] = "none" /\ Become(t, "RUNNING")

Begin(t) == status[t] = "PENDING" /\ Become(t, "RUNNING")

(* A task that never ran is cancelled or given up. *)
Drop(t, s) == status[t] = "PENDING" /\ s # "COMPLETED" /\ Become(t, s)

Store(t) ==
  /\ t \in tools /\ status[t] = "RUNNING"
  /\ stored' = stored \cup {t}
  /\ UNCHANGED <<status, tools>>

Finish(t, s) ==
  /\ status[t] = "RUNNING"
  /\ s = "COMPLETED" /\ t \in tools => t \in stored
  /\ Become(t, s)

Next ==
  \E t \in Tasks :
    \/ CreateTool(t) \/ CreateHosted(t) \/ Begin(t) \/ Store(t)
    \/ \E s \in Final : Drop(t, s) \/ Finish(t, s)

Spec == Init /\ [][Next]_<<status, tools, stored>>

===============================================================================
