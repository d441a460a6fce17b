------------------------- MODULE TargetCommandQueue -------------------------
(***************************************************************************)
(* The per-target command queue of src/session/target-command-queue.ts: a  *)
(* FIFO that runs one command at a time for one browser target, admits at  *)
(* most MaxPending waiting commands, gives every waiting command a         *)
(* deadline and an abort signal, and is closed for good by cancel().       *)
(*                                                                         *)
(* The module also models the one map entry that TargetQueueManager keeps  *)
(* for the target: created on first use, kept as a closed tombstone by     *)
(* cancelTarget, dropped by reconcileAliveTargetIds.                       *)
(*                                                                         *)
(* One action is one turn of the event loop: JavaScript runs to its next   *)
(* await, so the pop, the checks and the start of the next command are     *)
(* part of the turn that ended the previous one.                           *)
(***************************************************************************)
EXTENDS Integers, Sequences, FiniteSets

CONSTANTS
  Commands,    (* the calls of enqueue(), each made at most once            *)
  MaxPending,  (* the constructor's maxPending                              *)
  NoCommand    (* "no command is in flight"                                 *)

ASSUME QueueAssumption ==
  /\ MaxPending \in Nat \ {0}
  /\ NoCommand \notin Commands

VARIABLES
  entry,       (* the manager's map: no entry, an open or a closed queue    *)
  queue,       (* waiting items of that entry, oldest first                 *)
  drain,       (* its running marker `processing`                           *)
  inflight,    (* the item its drain() is awaiting                          *)
  orphans,     (* items awaited by drains of entries already dropped        *)
  status,      (* what the caller's promise says                            *)
  due,         (* items whose admission deadline has passed                 *)
  aborted,     (* items whose caller aborted its signal                     *)
  started      (* history: items whose fn was invoked                       *)

vars == <<entry, queue, drain, inflight, orphans,
          status, due, aborted, started>>

(* Promises rejected with an error whose `execution` field is 'not_started'. *)
NotStarted == {"QUEUE_FULL", "QUEUE_DEADLINE", "QUEUE_ABORTED", "CANCELLED"}

Settled == NotStarted \cup {"resolved", "failed"}

Status == {"new", "queued", "running"} \cup Settled

TypeOK ==
  /\ entry \in {"none", "open", "closed"}
  /\ queue \in Seq(Commands)
  /\ drain \in {"idle", "running"}
  /\ inflight \in Commands \cup {NoCommand}
  /\ orphans \in SUBSET Commands
  /\ status \in [Commands -> Status]
  /\ due \in SUBSET Commands
  /\ aborted \in SUBSET Commands
  /\ started \in SUBSET Commands

Init ==
  /\ entry = "none"
  /\ queue = <<>>
  /\ drain = "idle"
  /\ inflight = NoCommand
  /\ orphans = {}
  /\ status = [c \in Commands |-> "new"]
  /\ due = {}
  /\ aborted = {}
  /\ started = {}

-----------------------------------------------------------------------------
(* The synchronous part of drain().                                          *)

Positions(q) == 1 .. Len(q)

Waiting(q) == {q[i] : i \in Positions(q)}

(* The code of the admission error drain() throws for a popped item.         *)
LateCode(c) == IF c \in aborted THEN "QUEUE_ABORTED" ELSE "QUEUE_DEADLINE"

Stale(c) == c \in aborted \/ c \in due

(* k is the position of the first item of q whose fn drain() will invoke:    *)
(* items before it are popped and rejected in the same turn. It is           *)
(* Len(q) + 1 when every item is stale.                                      *)
FirstRunnable(q, k) ==
  /\ \A j \in Positions(q) : j < k => Stale(q[j])
  /\ k \in Positions(q) => ~Stale(q[k])

(* Fault: the newest item is popped instead of the oldest. *)
DrainNewestFirst(q, st) ==
  LET next == IF q = <<>> THEN NoCommand ELSE q[Len(q)]
  IN /\ queue' = SubSeq(q, 1, Len(q) - 1)
     /\ inflight' = next
     /\ drain' = IF next = NoCommand THEN "idle" ELSE "running"
     /\ started' = started \cup ({next} \ {NoCommand})
     /\ status' = [c \in Commands |-> IF c = next THEN "running" ELSE st[c]]

(* drain() runs its loop over q until it awaits the next fn() or the queue   *)
(* is empty; st is the status function so far in this turn.                  *)
Drain(q, st) ==
  \E k \in 1 .. Len(q) + 1 :
    LET late == {q[j] : j \in {i \in Positions(q) : i < k}}
        next == IF k \in Positions(q) THEN q[k] ELSE NoCommand
    IN /\ FirstRunnable(q, k)
       /\ queue' = SubSeq(q, k + 1, Len(q))
       /\ inflight' = next
       /\ drain' = IF next = NoCommand THEN "idle" ELSE "running"
       /\ started' = started \cup ({next} \ {NoCommand})
       /\ status' = [c \in Commands |->
                       IF c \in late THEN LateCode(c)
                       ELSE IF c = next THEN "running" ELSE st[c]]

-----------------------------------------------------------------------------
(* enqueue()                                                                 *)

RejectEnqueue(c, code) ==
  /\ status' = [status EXCEPT ![c] = code]
  /\ UNCHANGED <<queue, drain, inflight, started>>

(* Fault: a closed entry admits commands again. *)
AdmissionCodeIgnoringClosed(c) ==
  IF c \in aborted THEN "QUEUE_ABORTED"
  ELSE IF c \in due THEN "QUEUE_DEADLINE"
  ELSE IF Len(queue) >= MaxPending THEN "QUEUE_FULL"
  ELSE "queued"

(* The admission checks, in the order of the code. *)
AdmissionCode(c) ==
  IF entry = "closed" THEN "CANCELLED"
  ELSE IF c \in aborted THEN "QUEUE_ABORTED"
  ELSE IF c \in due THEN "QUEUE_DEADLINE"
  ELSE IF Len(queue) >= MaxPending THEN "QUEUE_FULL"
  ELSE "queued"

(* Fault: start() does not look at the running marker. *)
EnqueueWithoutMarker(c) ==
  /\ status[c] = "new"
  /\ entry' = IF entry = "none" THEN "open" ELSE entry
  /\ IF AdmissionCode(c) # "queued"
     THEN RejectEnqueue(c, AdmissionCode(c))
     ELSE Drain(Append(queue, c), [status EXCEPT ![c] = "queued"])
  /\ UNCHANGED <<orphans, due, aborted>>

(* TargetQueueManager.enqueue creates the entry when there is none, and      *)
(* start() runs drain() in the same turn when no drain is running.           *)
Enqueue(c) ==
  /\ status[c] = "new"
  /\ entry' = IF entry = "none" THEN "open" ELSE entry
  /\ IF AdmissionCode(c) # "queued"
     THEN RejectEnqueue(c, AdmissionCode(c))
     ELSE LET st == [status EXCEPT ![c] = "queued"]
          IN IF drain = "running"
             THEN /\ queue' = Append(queue, c)
                  /\ status' = st
                  /\ UNCHANGED <<drain, inflight, started>>
             ELSE Drain(Append(queue, c), st)
  /\ UNCHANGED <<orphans, due, aborted>>

-----------------------------------------------------------------------------
(* remove(): a waiting item leaves the queue without running.                *)

Remove(c, code) ==
  /\ \E i \in Positions(queue) :
       /\ queue[i] = c
       /\ queue' = SubSeq(queue, 1, i - 1) \o SubSeq(queue, i + 1, Len(queue))
  /\ status' = [status EXCEPT ![c] = code]

(* Time passes the admission deadline of c. *)
DeadlinePasses(c) ==
  /\ c \notin due
  /\ due' = due \cup {c}
  /\ UNCHANGED <<entry, queue, drain, inflight, orphans,
                 status, aborted, started>>

(* Fault: the timer only removes an item while no command is executing. *)
TimerFiresWhenIdle(c) ==
  /\ drain = "idle"
  /\ c \in due
  /\ status[c] = "queued"
  /\ Remove(c, "QUEUE_DEADLINE")
  /\ UNCHANGED <<entry, drain, inflight, orphans, due,
                 aborted, started>>

(* The item's timer fires: it was not cleared, so the item still waits. *)
TimerFires(c) ==
  /\ c \in due
  /\ status[c] = "queued"
  /\ Remove(c, "QUEUE_DEADLINE")
  /\ UNCHANGED <<entry, drain, inflight, orphans, due,
                 aborted, started>>

(* Fault: no `index === -1` test, so an executing item is rejected too. *)
AbortExecuting(c) ==
  /\ c \notin aborted
  /\ aborted' = aborted \cup {c}
  /\ IF status[c] = "queued"
     THEN Remove(c, "QUEUE_ABORTED")
     ELSE /\ status' = [status EXCEPT ![c] = IF @ = "running" THEN "QUEUE_ABORTED"
                                                              ELSE @]
          /\ UNCHANGED queue
  /\ UNCHANGED <<entry, drain, inflight, orphans, due, started>>

(* The caller aborts: the listener runs synchronously and removes a waiting  *)
(* item; an item already executing is left alone.                            *)
Abort(c) ==
  /\ c \notin aborted
  /\ aborted' = aborted \cup {c}
  /\ IF status[c] = "queued"
     THEN Remove(c, "QUEUE_ABORTED")
     ELSE UNCHANGED <<queue, status>>
  /\ UNCHANGED <<entry, drain, inflight, orphans, due, started>>

-----------------------------------------------------------------------------
(* fn() settles: drain() resumes, settles the caller's promise and goes on   *)
(* with its loop unless the queue was closed meanwhile.                      *)

(* Fault: drain() returns after one item. *)
SettleAndStop(c, outcome) ==
  /\ inflight = c
  /\ status' = [status EXCEPT ![c] = outcome]
  /\ inflight' = NoCommand
  /\ drain' = "idle"
  /\ UNCHANGED <<entry, queue, orphans, due, aborted, started>>

Settle(c, outcome) ==
  /\ inflight = c
  /\ LET st == [status EXCEPT ![c] = outcome]
     IN IF entry = "closed"
        THEN /\ status' = st
             /\ inflight' = NoCommand
             /\ drain' = "idle"
             /\ UNCHANGED <<queue, started>>
        ELSE Drain(queue, st)
  /\ UNCHANGED <<entry, orphans, due, aborted>>

(* Fault: the outcome of a command whose entry is gone is dropped. *)
SettleOrphanUnknown(c, outcome) ==
  /\ c \in orphans
  /\ orphans' = orphans \ {c}
  /\ status' = [status EXCEPT ![c] = "unknown"]
  /\ UNCHANGED <<entry, queue, drain, inflight, due, aborted,
                 started>>

(* The same for a drain whose entry was dropped: its queue is closed. *)
SettleOrphan(c, outcome) ==
  /\ c \in orphans
  /\ orphans' = orphans \ {c}
  /\ status' = [status EXCEPT ![c] = outcome]
  /\ UNCHANGED <<entry, queue, drain, inflight, due, aborted,
                 started>>

-----------------------------------------------------------------------------
(* cancel(), cancelTarget() and reconcileAliveTargetIds()                    *)

(* Fault: the item being awaited is rejected along with the waiting ones. *)
CancelWaitingAndInflight ==
  /\ queue' = <<>>
  /\ status' = [c \in Commands |->
                  IF c \in Waiting(queue) \/ c = inflight
                  THEN "CANCELLED" ELSE status[c]]

CancelWaiting ==
  /\ queue' = <<>>
  /\ status' = [c \in Commands |->
                  IF c \in Waiting(queue) THEN "CANCELLED" ELSE status[c]]

(* cancelTarget: the closed entry stays in the map as a tombstone. *)
CancelTarget ==
  /\ entry # "none"
  /\ entry' = "closed"
  /\ CancelWaiting
  /\ UNCHANGED <<drain, inflight, orphans, due, aborted, started>>

(* reconcileAliveTargetIds, called with the target not alive. *)
Reconcile ==
  /\ entry # "none"
  /\ CancelWaiting
  /\ entry' = "none"
  /\ drain' = "idle"
  /\ inflight' = NoCommand
  /\ orphans' = IF inflight = NoCommand THEN orphans ELSE orphans \cup {inflight}
  /\ UNCHANGED <<due, aborted, started>>

-----------------------------------------------------------------------------

Next ==
  \/ \E c \in Commands :
       \/ Enqueue(c)
       \/ DeadlinePasses(c)
       \/ TimerFires(c)
       \/ Abort(c)
       \/ \E outcome \in {"resolved", "failed"} :
            Settle(c, outcome) \/ SettleOrphan(c, outcome)
  \/ CancelTarget
  \/ Reconcile

Spec == Init /\ [][Next]_vars

(* Clocks advance and an armed timer of the event loop fires. Nothing is     *)
(* assumed of fn(): a command may hang for ever.                             *)
FairSpec ==
  /\ Spec
  /\ \A c \in Commands : WF_vars(DeadlinePasses(c)) /\ WF_vars(TimerFires(c))

-----------------------------------------------------------------------------
(* Properties                                                                *)

(* A promise rejected with execution 'not_started' is telling the truth: fn  *)
(* was never invoked, whatever raced with the deadline, the abort or the     *)
(* close (TargetQueueAdmissionError, TargetQueueCancelledError).             *)
NotStartedIsTrue ==
  \A c \in Commands : status[c] \in NotStarted => c \notin started

(* One mutation window at a time: of the commands admitted to the current    *)
(* entry only the one its drain() awaits is executing.                       *)
SerialExecution ==
  \A c \in Commands :
    status[c] = "running" /\ c \notin orphans => c = inflight /\ drain = "running"

(* No lost wakeup: a command waits only in an open entry whose drain() is    *)
(* still suspended on a command that is executing, and in no other place.    *)
NoStrandedCommand ==
  \A c \in Commands :
    status[c] = "queued" =>
      /\ c \in Waiting(queue)
      /\ entry = "open" /\ drain = "running"
      /\ inflight # NoCommand /\ status[inflight] = "running"

(* d is served no later than c: d waits, and c waits behind it or has not    *)
(* been enqueued yet.                                                        *)
Ahead(d, c) ==
  \E i \in Positions(queue) :
    /\ queue[i] = d
    /\ \/ status[c] = "new"
       \/ \E j \in Positions(queue) : i < j /\ queue[j] = c

(* First in, first out: no step lets a command overtake one that was ahead   *)
(* of it and is still waiting.                                               *)
FirstInFirstOut ==
  [][\A c, d \in Commands :
       Ahead(d, c) /\ d \in Waiting(queue') =>
         /\ status'[c] # "running"
         /\ c \in Waiting(queue') =>
              \E i, j \in 1 .. Len(queue') :
                i < j /\ queue'[i] = d /\ queue'[j] = c]_vars

Life == INSTANCE CommandLife WITH
          Refusals <- NotStarted, promise <- status, invoked <- started

(* The queue implements CommandLife: no timer, abort, cancel or late drain   *)
(* changes an outcome the caller already has, fails a command that executes  *)
(* or invokes fn twice, and one turn invokes one fn.                         *)
CommandLifeSpec == Life!Spec

(* A tombstone does not resurrect: while the closed entry is in the map no   *)
(* command starts on the target (comment on cancelTarget).                   *)
TombstoneHolds ==
  [][entry = "closed" /\ entry' # "none" => entry' = "closed" /\ started' = started]_vars

(* A command never waits for ever, even behind one that hangs: the admission *)
(* deadline is enforced by a timer and not only when drain() reaches it.     *)
WaitIsBounded ==
  \A c \in Commands : status[c] = "queued" ~> status[c] # "queued"

=============================================================================
