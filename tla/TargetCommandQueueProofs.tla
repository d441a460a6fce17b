---------------------- MODULE TargetCommandQueueProofs ----------------------
(***************************************************************************)
(* Safety of the target command queue for any set of commands and any      *)
(* queue limit, and the refinement of CommandLife.                         *)
(*                                                                         *)
(* QInv is the inductive invariant. The promises alone do not say who is   *)
(* waiting or executing: the argument is that the queue, the drains and    *)
(* the promises never disagree, that no command waits twice, and that a    *)
(* queue with waiting commands always has a drain() on its way.            *)
(***************************************************************************)
EXTENDS TargetCommandQueue, TLAPS

(* Every command waits at most once. *)
WaitsOnce ==
  \A i, j \in Positions(queue) : queue[i] = queue[j] => i = j

(* The queue and the callers' promises agree on who waits. *)
WaitingAgree ==
  \A c \in Commands : status[c] = "queued" <=> c \in Waiting(queue)

(* The drains and the callers' promises agree on who executes. *)
RunningAgree ==
  /\ \A c \in Commands : status[c] = "running" <=> (c = inflight \/ c \in orphans)
  /\ inflight \notin orphans
  /\ drain = "running" <=> inflight # NoCommand

(* Only an open, draining entry has waiting commands. *)
EntryShape ==
  /\ Len(queue) > 0 => entry = "open" /\ drain = "running"
  /\ entry = "none" => drain = "idle"

(* A command that never executed never had its fn invoked. *)
StartedShape ==
  \A c \in started : status[c] \in {"running", "resolved", "failed"}

QInv ==
  /\ TypeOK
  /\ WaitsOnce
  /\ WaitingAgree
  /\ RunningAgree
  /\ EntryShape
  /\ StartedShape

-----------------------------------------------------------------------------

(* The initial state satisfies the inductive invariant. *)
LEMMA InitQInv == Init => QInv
<1> SUFFICES ASSUME Init PROVE QInv
  OBVIOUS
<1> USE QueueAssumption DEF Init, Positions, Waiting
<1>1. TypeOK
  BY DEF TypeOK, Status
<1>2. WaitsOnce /\ WaitingAgree
  BY DEF WaitsOnce, WaitingAgree
<1>3. RunningAgree /\ EntryShape /\ StartedShape
  BY DEF RunningAgree, EntryShape, StartedShape
<1> QED
  BY <1>1, <1>2, <1>3 DEF QInv

(* What the synchronous part of drain() leaves behind, given a queue q       *)
(* without repetition whose items are the waiting commands of st.            *)
LEMMA DrainLemma ==
  ASSUME TypeOK,
         NEW q \in Seq(Commands), NEW st \in [Commands -> Status],
         \A i, j \in Positions(q) : q[i] = q[j] => i = j,
         \A c \in Commands : st[c] = "queued" <=> c \in Waiting(q),
         \A c \in Commands : st[c] = "running" <=> c \in orphans,
         \A c \in started : st[c] \in {"running", "resolved", "failed"},
         orphans' = orphans,
         Drain(q, st)
  PROVE  /\ queue' \in Seq(Commands)
         /\ drain' \in {"idle", "running"}
         /\ inflight' \in Commands \cup {NoCommand}
         /\ status' \in [Commands -> Status]
         /\ started' \in SUBSET Commands
         /\ WaitsOnce'
         /\ WaitingAgree'
         /\ RunningAgree'
         /\ Len(queue') > 0 => drain' = "running"
         /\ StartedShape'
<1> USE QueueAssumption
<1> DEFINE next(k) == IF k \in Positions(q) THEN q[k] ELSE NoCommand
           passed(k) == {q[j] : j \in {i \in Positions(q) : i < k}}
<1>p. PICK k \in 1 .. Len(q) + 1 :
      /\ queue' = SubSeq(q, k + 1, Len(q))
      /\ inflight' = next(k)
      /\ drain' = (IF next(k) = NoCommand THEN "idle" ELSE "running")
      /\ started' = started \cup ({next(k)} \ {NoCommand})
      /\ status' = [c \in Commands |->
                      IF c \in passed(k) THEN LateCode(c)
                      ELSE IF c = next(k) THEN "running" ELSE st[c]]
  BY Zenon DEF Drain
<1>0. /\ queue' = SubSeq(q, k + 1, Len(q))
      /\ inflight' = next(k)
      /\ drain' = (IF inflight' = NoCommand THEN "idle" ELSE "running")
      /\ started' = started \cup ({inflight'} \ {NoCommand})
      /\ status' = [c \in Commands |->
                      IF c \in passed(k) THEN LateCode(c)
                      ELSE IF c = inflight' THEN "running" ELSE st[c]]
  BY <1>p
<1> DEFINE late == {q[j] : j \in {i \in Positions(q) : i < k}}
<1>a. status' = [c \in Commands |->
                      IF c \in late THEN LateCode(c)
                      ELSE IF c = inflight' THEN "running" ELSE st[c]]
  BY <1>0
<1>1. /\ queue' \in Seq(Commands)
      /\ Len(queue') = IF k \in Positions(q) THEN Len(q) - k ELSE 0
      /\ \A i \in 1 .. Len(queue') : i + k \in Positions(q) /\ queue'[i] = q[i + k]
  BY <1>0 DEF Positions
<1>2. inflight' \in Commands \cup {NoCommand}
  BY <1>0 DEF Positions
<1>3. drain' \in {"idle", "running"} /\ started' \in SUBSET Commands
  BY <1>0, <1>2 DEF TypeOK
<1>4. status' \in [Commands -> Status]
  BY <1>0 DEF LateCode, Status, Settled, NotStarted
<1>5. WaitsOnce'
  BY <1>1 DEF WaitsOnce, Positions
<1>6. ASSUME NEW c \in Commands
      PROVE  c \in Waiting(q) <=>
               (c \in late \/ c = inflight' \/ c \in Waiting(queue'))
  <2>1. ASSUME NEW i \in Positions(q), c = q[i]
        PROVE  c \in late \/ c = inflight' \/ c \in Waiting(queue')
    <3>1. CASE i < k
      BY <2>1, <3>1
    <3>2. CASE i = k
      BY <2>1, <3>2, <1>0
    <3>3. CASE i > k
      <4>1. i - k \in 1 .. Len(queue') /\ queue'[i - k] = q[i]
        BY <3>3, <1>1 DEF Positions
      <4> QED
        BY <4>1, <2>1 DEF Waiting, Positions
    <3> QED
      BY <3>1, <3>2, <3>3 DEF Positions
  <2>2. c \in late => c \in Waiting(q)
    BY DEF Waiting
  <2>3. c = inflight' => c \in Waiting(q)
    BY <1>0 DEF Waiting
  <2>4. c \in Waiting(queue') => c \in Waiting(q)
    BY <1>1 DEF Waiting, Positions
  <2> QED
    BY <2>1, <2>2, <2>3, <2>4 DEF Waiting
<1>7. /\ \A c \in late : c # inflight' /\ c \notin Waiting(queue')
      /\ inflight' \notin Waiting(queue')
  BY <1>0, <1>1 DEF Waiting, Positions
<1>8. \A c \in Commands : LateCode(c) \in {"QUEUE_ABORTED", "QUEUE_DEADLINE"}
  BY DEF LateCode
<1> HIDE DEF late
<1>9. WaitingAgree'
  BY <1>a, <1>6, <1>7, <1>8 DEF WaitingAgree
<1>10. RunningAgree'
  <2>1. ASSUME NEW c \in Commands
        PROVE  status'[c] = "running" <=> (c = inflight' \/ c \in orphans)
    BY <1>a, <1>6, <1>7, <1>8
  <2>2. inflight' \notin orphans
    BY <1>2, <1>6 DEF TypeOK
  <2>3. drain' = "running" <=> inflight' # NoCommand
    BY <1>0
  <2> QED
    BY <2>1, <2>2, <2>3 DEF RunningAgree
<1>11. Len(queue') > 0 => drain' = "running"
  BY <1>0, <1>1 DEF Positions
<1>12. StartedShape'
  BY <1>0, <1>a, <1>2, <1>6, <1>7, <1>8 DEF StartedShape, TypeOK
<1> QED
  BY <1>1, <1>2, <1>3, <1>4, <1>5, <1>9, <1>10, <1>11, <1>12

(* A sequence without its item i: the items behind it move up by one. *)
LEMMA WithoutOne ==
  ASSUME NEW q \in Seq(Commands), NEW i \in Positions(q)
  PROVE  \A r : r = SubSeq(q, 1, i - 1) \o SubSeq(q, i + 1, Len(q)) =>
           /\ r \in Seq(Commands)
           /\ Len(r) = Len(q) - 1
           /\ \A j \in 1 .. Len(r) : r[j] = IF j < i THEN q[j] ELSE q[j + 1]
<1> DEFINE head == SubSeq(q, 1, i - 1)
           tail == SubSeq(q, i + 1, Len(q))
           r == head \o tail
<1>0. i \in 1 .. Len(q) /\ Len(q) \in Nat
  BY DEF Positions
<1>1. /\ head \in Seq(Commands) /\ Len(head) = i - 1
      /\ \A j \in 1 .. i - 1 : head[j] = q[j]
  BY <1>0
<1>2. /\ tail \in Seq(Commands) /\ Len(tail) = Len(q) - i
      /\ \A j \in 1 .. Len(q) - i : tail[j] = q[i + j]
  BY <1>0
<1> SUFFICES /\ r \in Seq(Commands)
             /\ Len(r) = Len(q) - 1
             /\ \A j \in 1 .. Len(r) : r[j] = IF j < i THEN q[j] ELSE q[j + 1]
  OBVIOUS
<1>3. r = head \o tail
  OBVIOUS
<1> HIDE DEF head, tail, r
<1>4. r \in Seq(Commands) /\ Len(r) = Len(q) - 1
  BY <1>0, <1>1, <1>2, <1>3
<1>5. ASSUME NEW j \in 1 .. Len(r)
      PROVE  r[j] = IF j < i THEN q[j] ELSE q[j + 1]
  <2>1. CASE j < i
    BY <1>0, <1>1, <1>2, <1>3, <1>4, <2>1
  <2>2. CASE ~(j < i)
    <3>1. r[j] = tail[j - (i - 1)] /\ j - (i - 1) \in 1 .. Len(q) - i
      BY <1>0, <1>1, <1>2, <1>3, <1>4, <2>2
    <3> QED
      BY <3>1, <1>2, <1>0
  <2> QED
    BY <2>1, <2>2
<1> QED
  BY <1>4, <1>5

(* Removing a waiting command leaves the others, in order, without           *)
(* repetition.                                                               *)
LEMMA RemoveLemma ==
  ASSUME QInv, NEW c \in Commands, NEW code \in NotStarted, Remove(c, code)
  PROVE  /\ queue' \in Seq(Commands)
         /\ status' = [status EXCEPT ![c] = code]
         /\ status[c] = "queued"
         /\ WaitsOnce'
         /\ WaitingAgree'
         /\ Len(queue') > 0 => Len(queue) > 0
<1> USE QueueAssumption DEF QInv
<1>1. PICK i \in Positions(queue) :
        /\ queue[i] = c
        /\ queue' = SubSeq(queue, 1, i - 1) \o SubSeq(queue, i + 1, Len(queue))
  BY Zenon DEF Remove
<1>2. status' = [status EXCEPT ![c] = code]
  BY DEF Remove
<1>3. queue \in Seq(Commands) /\ status \in [Commands -> Status]
  BY DEF TypeOK
<1>4. /\ queue' \in Seq(Commands)
      /\ Len(queue') = Len(queue) - 1
      /\ \A j \in 1 .. Len(queue') :
            queue'[j] = IF j < i THEN queue[j] ELSE queue[j + 1]
  <2>1. \A r : r = SubSeq(queue, 1, i - 1) \o SubSeq(queue, i + 1, Len(queue)) =>
          /\ r \in Seq(Commands)
          /\ Len(r) = Len(queue) - 1
          /\ \A j \in 1 .. Len(r) : r[j] = IF j < i THEN queue[j] ELSE queue[j + 1]
    BY <1>3, WithoutOne, Zenon
  <2> QED
    BY <1>1, <2>1, Zenon
<1>k. /\ i \in 1 .. Len(queue) /\ queue[i] = c /\ Len(queue) \in Nat
      /\ Len(queue') = Len(queue) - 1
  <2>1. queue[i] = c
    BY <1>1
  <2> QED
    BY <1>3, <1>4, <2>1 DEF Positions
<1>m. ASSUME NEW j \in 1 .. Len(queue')
      PROVE  IF j < i THEN /\ j \in Positions(queue) /\ j # i
                           /\ queue'[j] = queue[j]
                      ELSE /\ j + 1 \in Positions(queue) /\ j + 1 # i
                           /\ queue'[j] = queue[j + 1]
  <2>1. queue'[j] = IF j < i THEN queue[j] ELSE queue[j + 1]
    BY <1>4
  <2> QED
    BY <1>k, <2>1 DEF Positions
<1>5. WaitsOnce'
  <2> SUFFICES ASSUME NEW a \in 1 .. Len(queue'), NEW b \in 1 .. Len(queue'),
                      queue'[a] = queue'[b]
               PROVE  a = b
    BY DEF WaitsOnce, Positions
  <2> DEFINE g(j) == IF j < i THEN j ELSE j + 1
  <2>1. g(a) \in Positions(queue) /\ g(b) \in Positions(queue)
        /\ queue[g(a)] = queue[g(b)]
    BY <1>m
  <2>2. g(a) = g(b)
    BY <2>1 DEF WaitsOnce
  <2> QED
    BY <2>2, <1>k
<1>6. ASSUME NEW d \in Commands
      PROVE  d \in Waiting(queue') <=> (d # c /\ d \in Waiting(queue))
  <2>1. ASSUME NEW j \in 1 .. Len(queue'), d = queue'[j]
        PROVE  d # c /\ d \in Waiting(queue)
    <3>1. CASE j < i
      <4>1. j \in Positions(queue) /\ d = queue[j] /\ j # i
        BY <1>m, <2>1, <3>1
      <4> QED
        BY <1>k, <4>1 DEF Waiting, WaitsOnce, Positions
    <3>2. CASE ~(j < i)
      <4>1. j + 1 \in Positions(queue) /\ d = queue[j + 1] /\ j + 1 # i
        BY <1>m, <2>1, <3>2
      <4> QED
        BY <1>k, <4>1 DEF Waiting, WaitsOnce, Positions
    <3> QED
      BY <3>1, <3>2
  <2>2. ASSUME NEW j \in Positions(queue), d = queue[j], d # c
        PROVE  d \in Waiting(queue')
    <3>1. CASE j < i
      BY <1>3, <1>4, <2>2, <3>1 DEF Waiting, Positions
    <3>2. CASE j > i
      <4>1. j - 1 \in 1 .. Len(queue') /\ queue'[j - 1] = queue[j]
        BY <1>3, <1>4, <3>2 DEF Positions
      <4> QED
        BY <2>2, <4>1 DEF Waiting, Positions
    <3> QED
      BY <1>1, <2>2, <3>1, <3>2 DEF Positions
  <2>3. d \in Waiting(queue') => \E j \in 1 .. Len(queue') : d = queue'[j]
    BY DEF Waiting, Positions
  <2>4. d \in Waiting(queue) => \E j \in Positions(queue) : d = queue[j]
    BY DEF Waiting
  <2> QED
    BY <2>1, <2>2, <2>3, <2>4
<1>7. status[c] = "queued"
  BY <1>1 DEF WaitingAgree, Waiting
<1>8. WaitingAgree'
  <2> SUFFICES ASSUME NEW d \in Commands
               PROVE  status'[d] = "queued" <=> d \in Waiting(queue')
    BY DEF WaitingAgree
  <2> QED
    BY <1>2, <1>3, <1>6 DEF WaitingAgree, NotStarted
<1> QED
  BY <1>2, <1>3, <1>4, <1>5, <1>7, <1>8

(* A waiting command that is removed while entry and drains stay as they are *)
(* keeps the invariant: timer and abort.                                     *)
LEMMA RemoveKeepsQInv ==
  ASSUME QInv, NEW c \in Commands, NEW code \in NotStarted, Remove(c, code),
         UNCHANGED <<entry, drain, inflight, orphans, started>>,
         due' \in SUBSET Commands, aborted' \in SUBSET Commands
  PROVE  QInv'
<1> USE DEF QInv
<1>1. /\ queue' \in Seq(Commands)
      /\ status' = [status EXCEPT ![c] = code]
      /\ status[c] = "queued"
      /\ WaitsOnce'
      /\ WaitingAgree'
      /\ Len(queue') > 0 => Len(queue) > 0
  BY RemoveLemma
<1>2. TypeOK'
  BY <1>1 DEF TypeOK, Status, Settled
<1>3. RunningAgree'
  <2>1. \A d \in Commands : status'[d] = "running" <=> status[d] = "running"
    BY <1>1 DEF TypeOK, NotStarted
  <2> QED
    BY <2>1 DEF RunningAgree
<1>4. EntryShape'
  BY <1>1 DEF EntryShape
<1>5. StartedShape'
  BY <1>1 DEF StartedShape, TypeOK
<1> QED
  BY <1>1, <1>2, <1>3, <1>4, <1>5

-----------------------------------------------------------------------------

(* enqueue() keeps the invariant: rejected, left waiting or run at once. *)
LEMMA EnqueueKeepsQInv ==
  ASSUME QInv, NEW c \in Commands, Enqueue(c)
  PROVE  QInv'
<1> USE QueueAssumption DEF QInv
<1> DEFINE st == [status EXCEPT ![c] = "queued"]
           q == Append(queue, c)
<1>0. /\ status[c] = "new"
      /\ entry' = (IF entry = "none" THEN "open" ELSE entry)
      /\ UNCHANGED <<orphans, due, aborted>>
  BY DEF Enqueue
<1>1. /\ q \in Seq(Commands) /\ Len(q) = Len(queue) + 1 /\ q[Len(q)] = c
      /\ \A i \in 1 .. Len(queue) : q[i] = queue[i]
      /\ Len(queue) \in Nat
  BY DEF TypeOK
<1>2. /\ st \in [Commands -> Status] /\ st[c] = "queued"
      /\ \A d \in Commands : d # c => st[d] = status[d]
  BY DEF TypeOK, Status
<1> HIDE DEF q, st
<1>3. c \notin Waiting(queue) /\ c # inflight /\ c \notin orphans
  BY <1>0 DEF WaitingAgree, RunningAgree
<1>4. \A d \in Commands : d \in Waiting(q) <=> (d = c \/ d \in Waiting(queue))
  BY <1>1 DEF Waiting, Positions
<1>5. \A i, j \in Positions(q) : q[i] = q[j] => i = j
  BY <1>1, <1>3 DEF Waiting, Positions, WaitsOnce
<1>6. \A d \in Commands : st[d] = "queued" <=> d \in Waiting(q)
  BY <1>2, <1>4 DEF WaitingAgree
<1>7. \A d \in Commands :
         st[d] = "running" <=> (d = inflight \/ d \in orphans)
  BY <1>2, <1>3 DEF RunningAgree
<1>8. \A d \in started : st[d] \in {"running", "resolved", "failed"}
  BY <1>0, <1>2 DEF StartedShape, TypeOK
<1>9. CASE AdmissionCode(c) # "queued"
  <2>1. /\ status' = [status EXCEPT ![c] = AdmissionCode(c)]
        /\ UNCHANGED <<queue, drain, inflight, started>>
    BY <1>9 DEF Enqueue, RejectEnqueue
  <2>2. AdmissionCode(c) \in NotStarted
    BY <1>9 DEF AdmissionCode, NotStarted
  <2>3. TypeOK'
    BY <1>0, <2>1, <2>2 DEF TypeOK, Status, Settled
  <2>4. \A d \in Commands :
          /\ status'[d] = "queued" <=> status[d] = "queued"
          /\ status'[d] = "running" <=> status[d] = "running"
          /\ d \in started => status'[d] = status[d]
    BY <1>0, <2>1, <2>2 DEF TypeOK, NotStarted, StartedShape
  <2>5. WaitsOnce' /\ WaitingAgree'
    BY <2>1, <2>4 DEF WaitsOnce, WaitingAgree, Waiting, Positions
  <2>6. RunningAgree'
    BY <1>0, <2>1, <2>4 DEF RunningAgree
  <2>7. EntryShape' /\ StartedShape'
    BY <1>0, <2>1, <2>4 DEF EntryShape, StartedShape, TypeOK
  <2> QED
    BY <2>3, <2>5, <2>6, <2>7
<1>10. CASE AdmissionCode(c) = "queued" /\ drain = "running"
  <2>1. queue' = q /\ status' = st /\ UNCHANGED <<drain, inflight, started>>
    BY <1>10 DEF Enqueue, q, st
  <2>2. TypeOK'
    BY <1>0, <1>1, <1>2, <2>1 DEF TypeOK
  <2>3. WaitsOnce' /\ WaitingAgree'
    BY <1>5, <1>6, <2>1 DEF WaitsOnce, WaitingAgree, Waiting, Positions
  <2>4. RunningAgree'
    BY <1>0, <1>7, <2>1 DEF RunningAgree
  <2>5. EntryShape'
    BY <1>0, <1>10, <2>1 DEF EntryShape, AdmissionCode, TypeOK
  <2>6. StartedShape'
    BY <1>8, <2>1 DEF StartedShape
  <2> QED
    BY <2>2, <2>3, <2>4, <2>5, <2>6
<1>11. CASE AdmissionCode(c) = "queued" /\ drain # "running"
  <2>1. Drain(q, st)
    BY <1>11, Zenon DEF Enqueue, q, st
  <2>2. \A d \in Commands : st[d] = "running" <=> d \in orphans
    BY <1>7, <1>11 DEF RunningAgree
  <2>3. /\ queue' \in Seq(Commands)
        /\ drain' \in {"idle", "running"}
        /\ inflight' \in Commands \cup {NoCommand}
        /\ status' \in [Commands -> Status]
        /\ started' \in SUBSET Commands
        /\ WaitsOnce'
        /\ WaitingAgree'
        /\ RunningAgree'
        /\ Len(queue') > 0 => drain' = "running"
        /\ StartedShape'
    BY <1>0, <1>1, <1>2, <1>5, <1>6, <1>8, <2>1, <2>2, DrainLemma
  <2>4. entry' = "open"
    BY <1>0, <1>11 DEF AdmissionCode, TypeOK
  <2>5. TypeOK'
    BY <1>0, <2>3, <2>4 DEF TypeOK
  <2>6. EntryShape'
    BY <2>3, <2>4 DEF EntryShape
  <2> QED
    BY <2>3, <2>5, <2>6
<1> QED
  BY <1>9, <1>10, <1>11

(* The end of the executing command keeps the invariant. *)
LEMMA SettleKeepsQInv ==
  ASSUME QInv, NEW c \in Commands, NEW outcome \in {"resolved", "failed"},
         Settle(c, outcome)
  PROVE  QInv'
<1> USE QueueAssumption DEF QInv
<1> DEFINE st == [status EXCEPT ![c] = outcome]
<1>0. inflight = c /\ UNCHANGED <<entry, orphans, due, aborted>>
  BY DEF Settle
<1>1. status[c] = "running" /\ drain = "running" /\ c \notin orphans
  BY <1>0 DEF RunningAgree
<1>2. /\ st \in [Commands -> Status] /\ st[c] = outcome
      /\ \A d \in Commands : d # c => st[d] = status[d]
  BY DEF TypeOK, Status, Settled
<1>3. \A d \in Commands : st[d] = "queued" <=> d \in Waiting(queue)
  BY <1>1, <1>2 DEF WaitingAgree
<1>4. \A d \in Commands : st[d] = "running" <=> d \in orphans
  BY <1>0, <1>1, <1>2 DEF RunningAgree
<1>5. \A d \in started : st[d] \in {"running", "resolved", "failed"}
  BY <1>2 DEF StartedShape, TypeOK
<1>6. queue \in Seq(Commands) /\ orphans \in SUBSET Commands
  BY DEF TypeOK
<1>7. CASE entry = "closed"
  <2>1. /\ status' = st /\ inflight' = NoCommand /\ drain' = "idle"
        /\ UNCHANGED <<queue, started>>
    BY <1>7 DEF Settle
  <2> HIDE DEF st
  <2>2. TypeOK'
    BY <1>0, <1>2, <2>1 DEF TypeOK
  <2>3. WaitsOnce' /\ WaitingAgree'
    BY <1>3, <2>1 DEF WaitsOnce, WaitingAgree, Waiting, Positions
  <2>4. RunningAgree'
    BY <1>0, <1>4, <1>6, <2>1 DEF RunningAgree
  <2>5. EntryShape' /\ StartedShape'
    BY <1>0, <1>5, <1>7, <2>1 DEF EntryShape, StartedShape
  <2> QED
    BY <2>2, <2>3, <2>4, <2>5
<1>8. CASE entry # "closed"
  <2>1. Drain(queue, st)
    BY <1>8, Zenon DEF Settle
  <2> HIDE DEF st
  <2>2. /\ queue' \in Seq(Commands)
        /\ drain' \in {"idle", "running"}
        /\ inflight' \in Commands \cup {NoCommand}
        /\ status' \in [Commands -> Status]
        /\ started' \in SUBSET Commands
        /\ WaitsOnce'
        /\ WaitingAgree'
        /\ RunningAgree'
        /\ Len(queue') > 0 => drain' = "running"
        /\ StartedShape'
    BY <1>0, <1>2, <1>3, <1>4, <1>5, <1>6, <2>1, DrainLemma DEF WaitsOnce
  <2>3. entry' = "open"
    BY <1>0, <1>1, <1>8 DEF EntryShape, TypeOK
  <2>4. TypeOK'
    BY <1>0, <2>2, <2>3 DEF TypeOK
  <2>5. EntryShape'
    BY <2>2, <2>3 DEF EntryShape
  <2> QED
    BY <2>2, <2>4, <2>5
<1> QED
  BY <1>7, <1>8

(* What cancel() does to the waiting commands: none is left, and all others  *)
(* keep their promise.                                                       *)
LEMMA CancelLemma ==
  ASSUME QInv, CancelWaiting
  PROVE  /\ queue' = <<>> /\ status' \in [Commands -> Status]
         /\ \A c \in Commands :
              /\ status'[c] # "queued"
              /\ status[c] # "queued" => status'[c] = status[c]
              /\ status[c] = "queued" => status'[c] = "CANCELLED"
         /\ WaitsOnce' /\ WaitingAgree'
<1> USE DEF QInv
<1>1. /\ queue' = <<>> /\ status' \in [Commands -> Status]
      /\ \A c \in Commands :
            status'[c] = IF status[c] = "queued" THEN "CANCELLED" ELSE status[c]
  BY DEF CancelWaiting, WaitingAgree, TypeOK, Status, Settled, NotStarted
<1> QED
  BY <1>1 DEF WaitsOnce, WaitingAgree, Waiting, Positions

(* cancelTarget() and reconcileAliveTargetIds() keep the invariant. *)
LEMMA CancelKeepsQInv ==
  ASSUME QInv, CancelTarget \/ Reconcile
  PROVE  QInv'
<1> USE QueueAssumption DEF QInv
<1>1. /\ queue' = <<>> /\ status' \in [Commands -> Status]
      /\ \A c \in Commands :
              /\ status'[c] # "queued"
              /\ status[c] # "queued" => status'[c] = status[c]
              /\ status[c] = "queued" => status'[c] = "CANCELLED"
      /\ WaitsOnce' /\ WaitingAgree'
  BY CancelLemma DEF CancelTarget, Reconcile
<1>2. StartedShape'
  BY <1>1 DEF StartedShape, TypeOK, CancelTarget, Reconcile
<1>3. CASE CancelTarget
  <2>1. TypeOK'
    BY <1>1, <1>3 DEF TypeOK, CancelTarget
  <2>2. RunningAgree' /\ EntryShape'
    BY <1>1, <1>3 DEF RunningAgree, EntryShape, CancelTarget
  <2> QED
    BY <1>1, <1>2, <2>1, <2>2
<1>4. CASE Reconcile
  <2>1. TypeOK'
    BY <1>1, <1>4 DEF TypeOK, Reconcile
  <2>2. RunningAgree' /\ EntryShape'
    BY <1>1, <1>4 DEF RunningAgree, EntryShape, Reconcile, TypeOK
  <2> QED
    BY <1>1, <1>2, <2>1, <2>2
<1> QED
  BY <1>3, <1>4

(* Every step keeps the invariant. *)
LEMMA NextKeepsQInv == QInv /\ [Next]_vars => QInv'
<1> SUFFICES ASSUME QInv, [Next]_vars PROVE QInv'
  OBVIOUS
<1>1. ASSUME NEW c \in Commands, Enqueue(c) PROVE QInv'
  BY <1>1, EnqueueKeepsQInv
<1>2. ASSUME NEW c \in Commands, DeadlinePasses(c) PROVE QInv'
  <2>1. TypeOK'
    BY <1>2 DEF DeadlinePasses, QInv, TypeOK
  <2>2. WaitsOnce' /\ WaitingAgree' /\ RunningAgree' /\ EntryShape' /\ StartedShape'
    BY <1>2 DEF DeadlinePasses, QInv, WaitsOnce, WaitingAgree, RunningAgree,
                EntryShape, StartedShape, Waiting, Positions
  <2> QED
    BY <2>1, <2>2 DEF QInv
<1>3. ASSUME NEW c \in Commands, TimerFires(c) PROVE QInv'
  <2>1. /\ Remove(c, "QUEUE_DEADLINE")
        /\ UNCHANGED <<entry, drain, inflight, orphans, started>>
        /\ due' \in SUBSET Commands /\ aborted' \in SUBSET Commands
    BY <1>3 DEF TimerFires, QInv, TypeOK
  <2> QED
    BY <2>1, RemoveKeepsQInv DEF NotStarted
<1>4. ASSUME NEW c \in Commands, Abort(c) PROVE QInv'
  <2>1. /\ UNCHANGED <<entry, drain, inflight, orphans, started>>
        /\ due' \in SUBSET Commands /\ aborted' \in SUBSET Commands
    BY <1>4 DEF Abort, QInv, TypeOK
  <2>2. CASE status[c] = "queued"
    <3>1. Remove(c, "QUEUE_ABORTED")
      BY <1>4, <2>2 DEF Abort
    <3> QED
      BY <2>1, <3>1, RemoveKeepsQInv DEF NotStarted
  <2>3. CASE status[c] # "queued"
    <3>1. UNCHANGED <<queue, status>>
      BY <1>4, <2>3 DEF Abort
    <3>2. TypeOK'
      BY <2>1, <3>1 DEF QInv, TypeOK
    <3> QED
      BY <2>1, <3>1, <3>2 DEF QInv, WaitsOnce, WaitingAgree, RunningAgree,
                EntryShape, StartedShape, Waiting, Positions
  <2> QED
    BY <2>2, <2>3
<1>5. ASSUME NEW c \in Commands, NEW outcome \in {"resolved", "failed"},
             Settle(c, outcome)
      PROVE  QInv'
  BY <1>5, SettleKeepsQInv
<1>6. ASSUME NEW c \in Commands, NEW outcome \in {"resolved", "failed"},
             SettleOrphan(c, outcome)
      PROVE  QInv'
  <2> USE DEF QInv
  <2>1. /\ c \in orphans /\ orphans' = orphans \ {c}
        /\ status' = [status EXCEPT ![c] = outcome]
        /\ UNCHANGED <<entry, queue, drain, inflight, due, aborted, started>>
    BY <1>6 DEF SettleOrphan
  <2>2. status[c] = "running" /\ c # inflight
    BY <2>1 DEF RunningAgree
  <2>3. TypeOK'
    BY <2>1 DEF TypeOK, Status, Settled
  <2>4. \A d \in Commands : d # c => status'[d] = status[d]
    BY <2>1 DEF TypeOK
  <2>5. status'[c] = outcome
    BY <2>1 DEF TypeOK
  <2>6. WaitsOnce' /\ WaitingAgree'
    BY <2>1, <2>2, <2>4, <2>5 DEF WaitsOnce, WaitingAgree, Waiting, Positions
  <2>7. RunningAgree'
    BY <2>1, <2>2, <2>4, <2>5 DEF RunningAgree
  <2>8. EntryShape' /\ StartedShape'
    BY <2>1, <2>4, <2>5 DEF EntryShape, StartedShape, TypeOK
  <2> QED
    BY <2>3, <2>6, <2>7, <2>8
<1>7. CASE CancelTarget \/ Reconcile
  BY <1>7, CancelKeepsQInv
<1>8. CASE UNCHANGED vars
  <2>1. TypeOK'
    BY <1>8 DEF vars, QInv, TypeOK
  <2> QED
    BY <1>8, <2>1 DEF vars, QInv, WaitsOnce, WaitingAgree, RunningAgree,
                EntryShape, StartedShape, Waiting, Positions
<1> QED
  BY <1>1, <1>2, <1>3, <1>4, <1>5, <1>6, <1>7, <1>8 DEF Next

-----------------------------------------------------------------------------

(* The inductive invariant holds in every reachable state. *)
THEOREM QInvHolds == Spec => []QInv
  BY InitQInv, NextKeepsQInv, PTL DEF Spec

(* Every variable keeps its type, whatever the commands and the limit. *)
THEOREM TypeCorrect == Spec => []TypeOK
<1>1. QInv => TypeOK
  BY DEF QInv
<1> QED
  BY <1>1, QInvHolds, PTL

(* A caller told 'not_started' can rely on it: fn was never invoked. *)
THEOREM NotStartedNeverRan == Spec => []NotStartedIsTrue
<1>1. QInv => NotStartedIsTrue
  BY DEF QInv, StartedShape, NotStartedIsTrue, NotStarted, TypeOK
<1> QED
  BY <1>1, QInvHolds, PTL

(* The commands of one entry execute one at a time. *)
THEOREM OneAtATime == Spec => []SerialExecution
<1>1. QInv => SerialExecution
  BY QueueAssumption DEF QInv, RunningAgree, SerialExecution, TypeOK
<1> QED
  BY <1>1, QInvHolds, PTL

(* A waiting command always has a suspended drain() that will reach it. *)
THEOREM NoLostWakeup == Spec => []NoStrandedCommand
<1>1. QInv => NoStrandedCommand
  <2> SUFFICES ASSUME QInv, NEW c \in Commands, status[c] = "queued"
               PROVE  /\ c \in Waiting(queue)
                      /\ entry = "open" /\ drain = "running"
                      /\ inflight # NoCommand /\ status[inflight] = "running"
    BY DEF NoStrandedCommand
  <2>1. c \in Waiting(queue)
    BY DEF QInv, WaitingAgree
  <2>2. Len(queue) > 0
    BY <2>1 DEF QInv, TypeOK, Waiting, Positions
  <2>3. entry = "open" /\ drain = "running" /\ inflight # NoCommand
    BY <2>2 DEF QInv, EntryShape, RunningAgree
  <2>4. inflight \in Commands
    BY <2>3 DEF QInv, TypeOK
  <2> QED
    BY <2>1, <2>3, <2>4 DEF QInv, RunningAgree
<1> QED
  BY <1>1, QInvHolds, PTL

(* One pass of drain() over the waiting commands of st starts the command it *)
(* will await, refuses some others and leaves the promises of the rest.      *)
LEMMA DrainMoves ==
  ASSUME NEW q \in Seq(Commands), NEW st \in [Commands -> Status],
         \A i, j \in Positions(q) : q[i] = q[j] => i = j,
         \A c \in Commands : st[c] = "queued" <=> c \in Waiting(q),
         Drain(q, st)
  PROVE  /\ \A c \in Commands :
              \/ status'[c] = st[c] /\ c # inflight'
              \/ st[c] = "queued" /\ status'[c] = "running" /\ c = inflight'
              \/ st[c] = "queued" /\ status'[c] \in NotStarted /\ c # inflight'
         /\ started' = started \cup ({inflight'} \ {NoCommand})
         /\ inflight' \in Commands \cup {NoCommand}
<1> USE QueueAssumption
<1> DEFINE late(k) == {q[j] : j \in {i \in Positions(q) : i < k}}
           next(k) == IF k \in Positions(q) THEN q[k] ELSE NoCommand
<1>1. PICK k \in 1 .. Len(q) + 1 :
        /\ inflight' = next(k)
        /\ started' = started \cup ({next(k)} \ {NoCommand})
        /\ status' = [d \in Commands |->
                        IF d \in late(k) THEN LateCode(d)
                        ELSE IF d = next(k) THEN "running" ELSE st[d]]
  BY Zenon DEF Drain
<1>2. inflight' \in Commands \cup {NoCommand}
  BY <1>1 DEF Positions
<1>3. inflight' \notin late(k)
  <2>1. CASE k \in Positions(q)
    <3>1. \A j \in Positions(q) : j < k => q[j] # q[k]
      BY <2>1 DEF Positions
    <3> QED
      BY <1>1, <2>1, <3>1
  <2>2. CASE k \notin Positions(q)
    <3>1. \A j \in Positions(q) : q[j] \in Commands
      BY DEF Positions
    <3> QED
      BY <1>1, <2>2, <3>1
  <2> QED
    BY <2>1, <2>2
<1>4. \A c \in late(k) : st[c] = "queued" /\ LateCode(c) \in NotStarted
  <2>1. \A c \in late(k) : c \in Waiting(q) /\ c \in Commands
    BY DEF Waiting, Positions
  <2> QED
    BY <2>1 DEF LateCode, NotStarted
<1>5. inflight' \in Commands => st[inflight'] = "queued"
  BY <1>1 DEF Waiting
<1>6. /\ started' = started \cup ({inflight'} \ {NoCommand})
      /\ \A c \in Commands :
           status'[c] = IF c \in late(k) THEN LateCode(c)
                        ELSE IF c = inflight' THEN "running" ELSE st[c]
  BY <1>1
<1> HIDE DEF late, next
<1> QED
  BY <1>2, <1>3, <1>4, <1>5, <1>6

(* A turn that starts nothing. *)
LEMMA SettlingIsTurn ==
  ASSUME QInv, UNCHANGED started,
         \A c \in Commands :
           status'[c] = status[c] \/ (status'[c] \in Life!After(status[c]) /\ status'[c] # "running")
  PROVE  Life!Turn
<1>1. {c \in Commands : Life!Starts(c)} = {}
  BY DEF Life!Starts
<1> QED
  BY <1>1 DEF Life!Turn

(* A turn that drains, c having been admitted or settled in it. *)
LEMMA DrainIsTurn ==
  ASSUME QInv, NEW c \in Commands, NEW q \in Seq(Commands), NEW p \in Status \ {"running"},
         p = "queued" => status[c] = "new",
         p # "queued" => p \in {"resolved", "failed"} /\ status[c] = "running",
         \A i, j \in Positions(q) : q[i] = q[j] => i = j,
         \A d \in Commands : [status EXCEPT ![c] = p][d] = "queued" <=> d \in Waiting(q),
         Drain(q, [status EXCEPT ![c] = p])
  PROVE  Life!Turn
<1> DEFINE st == [status EXCEPT ![c] = p]
<1>1. /\ st \in [Commands -> Status] /\ st[c] = p
      /\ \A d \in Commands : d # c => st[d] = status[d]
  BY DEF QInv, TypeOK
<1>2. /\ \A d \in Commands :
           \/ status'[d] = st[d] /\ d # inflight'
           \/ st[d] = "queued" /\ status'[d] = "running" /\ d = inflight'
           \/ st[d] = "queued" /\ status'[d] \in NotStarted /\ d # inflight'
      /\ started' = started \cup ({inflight'} \ {NoCommand})
      /\ inflight' \in Commands \cup {NoCommand}
  <2> HIDE DEF st
  <2>1. Drain(q, st) /\ \A d \in Commands : st[d] = "queued" <=> d \in Waiting(q)
    BY DEF st
  <2> QED
    BY <1>1, <2>1, DrainMoves
<1> HIDE DEF st
<1>3. ASSUME NEW d \in Commands
      PROVE  status'[d] = status[d] \/ status'[d] \in Life!After(status[d])
  <2>1. CASE d = c
    BY <1>1, <1>2, <2>1 DEF Life!After
  <2>2. CASE d # c
    BY <1>1, <1>2, <2>2 DEF Life!After
  <2> QED
    BY <2>1, <2>2
<1>4. ASSUME NEW d \in Commands PROVE Life!Starts(d) <=> d = inflight'
  <2>1. CASE d = c
    BY <1>1, <1>2, <2>1 DEF Life!Starts, NotStarted
  <2>2. CASE d # c
    BY <1>1, <1>2, <2>2 DEF Life!Starts, NotStarted
  <2> QED
    BY <2>1, <2>2
<1>5. {d \in Commands : Life!Starts(d)} = {inflight'} \ {NoCommand}
  BY <1>2, <1>4, QueueAssumption
<1> QED
  BY <1>2, <1>3, <1>4, <1>5 DEF Life!Turn

(* Every step is a turn of the command's life. *)
LEMMA StepIsTurn ==
  ASSUME QInv, [Next]_vars
  PROVE  Life!Turn
<1> USE QueueAssumption
<1>0. queue \in Seq(Commands) /\ status \in [Commands -> Status] /\ WaitsOnce /\ WaitingAgree
  BY DEF QInv, TypeOK
<1>1. ASSUME UNCHANGED <<status, started>> PROVE Life!Turn
  BY <1>1, SettlingIsTurn
<1>2. ASSUME NEW c \in Commands, Enqueue(c) PROVE Life!Turn
  <2>1. status[c] = "new"
    BY <1>2 DEF Enqueue
  <2>2. \/ /\ status' = [status EXCEPT ![c] = AdmissionCode(c)] /\ UNCHANGED started
           /\ AdmissionCode(c) \in NotStarted
        \/ status' = [status EXCEPT ![c] = "queued"] /\ UNCHANGED started
        \/ Drain(Append(queue, c), [status EXCEPT ![c] = "queued"])
    BY <1>2 DEF Enqueue, RejectEnqueue, AdmissionCode, NotStarted
  <2>3. CASE /\ status' = [status EXCEPT ![c] = AdmissionCode(c)] /\ UNCHANGED started
             /\ AdmissionCode(c) \in NotStarted
    <3>1. /\ status'[c] \in NotStarted /\ status'[c] # "running"
          /\ \A d \in Commands : d # c => status'[d] = status[d]
      BY <1>0, <2>3 DEF NotStarted
    <3> QED
      BY <2>1, <2>3, <3>1, SettlingIsTurn DEF Life!After
  <2>4. CASE status' = [status EXCEPT ![c] = "queued"] /\ UNCHANGED started
    <3>1. status'[c] = "queued" /\ \A d \in Commands : d # c => status'[d] = status[d]
      BY <1>0, <2>4
    <3> QED
      BY <2>1, <2>4, <3>1, SettlingIsTurn DEF Life!After
  <2>5. CASE Drain(Append(queue, c), [status EXCEPT ![c] = "queued"])
    <3> DEFINE q == Append(queue, c)
    <3>1. /\ q \in Seq(Commands) /\ Len(q) = Len(queue) + 1 /\ q[Len(q)] = c
          /\ \A i \in Positions(queue) : q[i] = queue[i] /\ i \in Positions(q)
          /\ \A i \in Positions(q) : i \in Positions(queue) \/ i = Len(q)
      BY <1>0 DEF Positions
    <3>2. c \notin Waiting(queue)
      BY <1>0, <2>1 DEF WaitingAgree
    <3>3. \A i \in Positions(queue) : queue[i] # c
      BY <3>2 DEF Waiting
    <3> HIDE DEF q
    <3>4. \A i, j \in Positions(q) : q[i] = q[j] => i = j
      BY <1>0, <3>1, <3>3 DEF WaitsOnce
    <3>5. ASSUME NEW d \in Commands PROVE d \in Waiting(q) <=> d = c \/ d \in Waiting(queue)
      <4>1. Len(q) \in Positions(q)
        BY <1>0, <3>1 DEF Positions
      <4> QED
        BY <3>1, <4>1 DEF Waiting
    <3>6. \A d \in Commands : [status EXCEPT ![c] = "queued"][d] = "queued" <=> d \in Waiting(q)
      BY <1>0, <3>5 DEF WaitingAgree
    <3>7. Drain(q, [status EXCEPT ![c] = "queued"])
      BY <2>5 DEF q
    <3>8. "queued" \in Status \ {"running"}
      BY DEF Status
    <3> QED
      BY <2>1, <3>1, <3>4, <3>6, <3>7, <3>8, DrainIsTurn
  <2> QED
    BY <2>2, <2>3, <2>4, <2>5
<1>3. ASSUME NEW c \in Commands, DeadlinePasses(c) PROVE Life!Turn
  BY <1>1, <1>3 DEF DeadlinePasses
<1>4. ASSUME NEW c \in Commands, TimerFires(c) \/ Abort(c) PROVE Life!Turn
  <2>1. CASE UNCHANGED <<status, started>>
    BY <1>1, <2>1
  <2>2. CASE ~UNCHANGED <<status, started>>
    <3>1. /\ status[c] = "queued" /\ UNCHANGED started
          /\ \E code \in NotStarted : status' = [status EXCEPT ![c] = code]
      BY <1>4, <2>2 DEF TimerFires, Abort, Remove, NotStarted
    <3>2. /\ status'[c] \in NotStarted /\ status'[c] # "running"
          /\ \A d \in Commands : d # c => status'[d] = status[d]
      BY <1>0, <3>1 DEF NotStarted
    <3> QED
      BY <3>1, <3>2, SettlingIsTurn DEF Life!After
  <2> QED
    BY <2>1, <2>2
<1>5. ASSUME NEW c \in Commands, NEW outcome \in {"resolved", "failed"},
             Settle(c, outcome) \/ SettleOrphan(c, outcome)
      PROVE  Life!Turn
  <2>1. status[c] = "running"
    BY <1>5 DEF Settle, SettleOrphan, QInv, RunningAgree
  <2>2. \/ status' = [status EXCEPT ![c] = outcome] /\ UNCHANGED started
        \/ Drain(queue, [status EXCEPT ![c] = outcome])
    BY <1>5 DEF Settle, SettleOrphan
  <2>3. CASE status' = [status EXCEPT ![c] = outcome] /\ UNCHANGED started
    <3>1. status'[c] = outcome /\ \A d \in Commands : d # c => status'[d] = status[d]
      BY <1>0, <2>3
    <3> QED
      BY <2>1, <2>3, <3>1, SettlingIsTurn DEF Life!After
  <2>4. CASE Drain(queue, [status EXCEPT ![c] = outcome])
    <3>1. \A d \in Commands : [status EXCEPT ![c] = outcome][d] = "queued" <=> d \in Waiting(queue)
      BY <1>0, <2>1 DEF WaitingAgree
    <3>2. outcome \in Status \ {"running"} /\ outcome # "queued"
      BY DEF Status, Settled
    <3> QED
      BY <1>0, <2>1, <2>4, <3>1, <3>2, DrainIsTurn DEF WaitsOnce
  <2> QED
    BY <2>2, <2>3, <2>4
<1>6. CASE CancelTarget \/ Reconcile
  <2>1. CancelWaiting /\ UNCHANGED started
    BY <1>6 DEF CancelTarget, Reconcile
  <2>2. \A c \in Commands : /\ status[c] # "queued" => status'[c] = status[c]
                            /\ status[c] = "queued" => status'[c] = "CANCELLED"
    BY <2>1, CancelLemma
  <2> QED
    BY <2>1, <2>2, SettlingIsTurn DEF Life!After, NotStarted
<1>7. CASE UNCHANGED vars
  BY <1>1, <1>7 DEF vars
<1> QED
  BY <1>2, <1>3, <1>4, <1>5, <1>6, <1>7 DEF Next

(* The queue implements CommandLife for any commands and any limit: a caller *)
(* hears one outcome, fn is invoked at most once, by one turn at a time, and *)
(* never for a command that was refused.                                     *)
THEOREM QueueImplementsLife == Spec => CommandLifeSpec
<1>1. Init => Life!Init
  BY DEF Init, Life!Init
<1>2. QInv /\ [Next]_vars => [Life!Turn]_<<status, started>>
  BY StepIsTurn
<1> QED
  BY <1>1, <1>2, QInvHolds, PTL DEF Spec, CommandLifeSpec, Life!Spec

(* Until reconcile drops it, a closed entry stays closed and starts nothing. *)
THEOREM TombstoneStays == Spec => TombstoneHolds
<1>1. ASSUME QInv, [Next]_vars, entry = "closed", entry' # "none"
      PROVE  entry' = "closed" /\ started' = started
  <2>1. ASSUME NEW c \in Commands, Enqueue(c)
        PROVE  entry' = "closed" /\ started' = started
    <3>1. AdmissionCode(c) = "CANCELLED"
      BY <1>1 DEF AdmissionCode
    <3> QED
      BY <1>1, <2>1, <3>1 DEF Enqueue, RejectEnqueue
  <2>2. ASSUME NEW c \in Commands, DeadlinePasses(c) \/ TimerFires(c) \/ Abort(c)
        PROVE  entry' = "closed" /\ started' = started
    BY <1>1, <2>2 DEF DeadlinePasses, TimerFires, Abort
  <2>3. ASSUME NEW c \in Commands, NEW outcome \in {"resolved", "failed"},
               Settle(c, outcome) \/ SettleOrphan(c, outcome)
        PROVE  entry' = "closed" /\ started' = started
    BY <1>1, <2>3 DEF Settle, SettleOrphan
  <2>4. CASE CancelTarget \/ Reconcile
    BY <1>1, <2>4 DEF CancelTarget, Reconcile
  <2>5. CASE UNCHANGED vars
    BY <1>1, <2>5 DEF vars
  <2> QED
    BY <1>1, <2>1, <2>2, <2>3, <2>4, <2>5 DEF Next
<1>2. QInv /\ [Next]_vars
        => [entry = "closed" /\ entry' # "none"
              => entry' = "closed" /\ started' = started]_vars
  BY <1>1
<1> QED
  BY <1>2, QInvHolds, PTL DEF Spec, TombstoneHolds

-----------------------------------------------------------------------------

(* One pass of drain() changes only the promises of the commands in q. *)
LEMMA DrainTouchesWaiting ==
  ASSUME NEW q \in Seq(Commands), NEW st \in [Commands -> Status], Drain(q, st),
         NEW c \in Commands, c \notin Waiting(q)
  PROVE  status'[c] = st[c]
<1> USE QueueAssumption
<1> DEFINE late(k) == {q[j] : j \in {i \in Positions(q) : i < k}}
           next(k) == IF k \in Positions(q) THEN q[k] ELSE NoCommand
<1>1. PICK k \in 1 .. Len(q) + 1 :
        status' = [d \in Commands |->
                     IF d \in late(k) THEN LateCode(d)
                     ELSE IF d = next(k) THEN "running" ELSE st[d]]
  BY Zenon DEF Drain
<1>2. c \notin late(k)
  BY DEF Waiting
<1>3. c # next(k)
  BY DEF Waiting
<1> QED
  BY <1>1, <1>2, <1>3

(* c stays behind d in r: both wait there, d first, or c waits no longer. *)
Behind(c, d, r) ==
  c \in Waiting(r) =>
    \E i, j \in 1 .. Len(r) : i < j /\ r[i] = d /\ r[j] = c

(* drain() pops in order: while d is still waiting, nothing behind it was    *)
(* started, and the rest of the queue is in the order it had.                *)
LEMMA DrainInOrder ==
  ASSUME NEW q \in Seq(Commands), NEW st \in [Commands -> Status], Drain(q, st),
         \A x, y \in Positions(q) : q[x] = q[y] => x = y,
         NEW i \in Positions(q), NEW j \in Positions(q), i < j,
         q[i] \in Waiting(queue'), st[q[j]] # "running"
  PROVE  status'[q[j]] # "running" /\ Behind(q[j], q[i], queue')
<1> USE QueueAssumption
<1> DEFINE late(k) == {q[m] : m \in {n \in Positions(q) : n < k}}
           next(k) == IF k \in Positions(q) THEN q[k] ELSE NoCommand
<1>1. PICK k \in 1 .. Len(q) + 1 :
        /\ queue' = SubSeq(q, k + 1, Len(q))
        /\ status' = [d \in Commands |->
                        IF d \in late(k) THEN LateCode(d)
                        ELSE IF d = next(k) THEN "running" ELSE st[d]]
  BY Zenon DEF Drain
<1>2. /\ Len(queue') = IF k \in Positions(q) THEN Len(q) - k ELSE 0
      /\ \A m \in 1 .. Len(queue') : m + k \in Positions(q) /\ queue'[m] = q[m + k]
  BY <1>1 DEF Positions
<1>3. PICK m \in 1 .. Len(queue') : queue'[m] = q[i]
  BY DEF Waiting, Positions
<1>4. i = m + k
  BY <1>2, <1>3
<1>5. k < i /\ k < j /\ k \in Positions(q)
  BY <1>2, <1>3, <1>4 DEF Positions
<1>6. i - k \in 1 .. Len(queue') /\ j - k \in 1 .. Len(queue') /\ i - k < j - k
  BY <1>2, <1>5 DEF Positions
<1>7. queue'[i - k] = q[i] /\ queue'[j - k] = q[j]
  BY <1>2, <1>6 DEF Positions
<1>8. Behind(q[j], q[i], queue')
  BY <1>6, <1>7 DEF Behind
<1>9. q[j] \in Commands /\ q[j] # next(k) /\ q[j] \notin late(k)
  BY <1>5 DEF Positions
<1>10. status'[q[j]] = st[q[j]]
  BY <1>1, <1>9
<1> QED
  BY <1>8, <1>10

(* Removing a command keeps the order of the others. *)
LEMMA RemoveInOrder ==
  ASSUME QInv, NEW e \in Commands, NEW code \in NotStarted, Remove(e, code),
         NEW i \in Positions(queue), NEW j \in Positions(queue), i < j,
         queue[i] # e, queue[j] # e
  PROVE  Behind(queue[j], queue[i], queue')
<1>1. PICK x \in Positions(queue) :
        /\ queue[x] = e
        /\ queue' = SubSeq(queue, 1, x - 1) \o SubSeq(queue, x + 1, Len(queue))
  BY Zenon DEF Remove
<1>2. queue \in Seq(Commands)
  BY DEF QInv, TypeOK
<1>3. /\ Len(queue') = Len(queue) - 1
      /\ \A m \in 1 .. Len(queue') :
            queue'[m] = IF m < x THEN queue[m] ELSE queue[m + 1]
  <2>1. \A r : r = SubSeq(queue, 1, x - 1) \o SubSeq(queue, x + 1, Len(queue)) =>
          /\ r \in Seq(Commands)
          /\ Len(r) = Len(queue) - 1
          /\ \A m \in 1 .. Len(r) : r[m] = IF m < x THEN queue[m] ELSE queue[m + 1]
    BY <1>2, WithoutOne, Zenon
  <2> QED
    BY <1>1, <2>1, Zenon
<1> DEFINE at(m) == IF m < x THEN m ELSE m - 1
<1>4. ASSUME NEW m \in Positions(queue), queue[m] # e
      PROVE  at(m) \in 1 .. Len(queue') /\ queue'[at(m)] = queue[m]
  <2>1. m # x /\ m \in 1 .. Len(queue) /\ x \in 1 .. Len(queue) /\ Len(queue) \in Nat
    BY <1>1, <1>2, <1>4 DEF Positions
  <2>2. CASE m < x
    BY <1>3, <2>1, <2>2
  <2>3. CASE ~(m < x)
    <3>1. m - 1 \in 1 .. Len(queue') /\ ~(m - 1 < x)
      BY <1>3, <2>1, <2>3
    <3>2. queue'[m - 1] = queue[(m - 1) + 1]
      BY <1>3, <3>1
    <3> QED
      BY <2>1, <2>3, <3>1, <3>2
  <2> QED
    BY <2>2, <2>3
<1>5. at(i) \in 1 .. Len(queue') /\ queue'[at(i)] = queue[i]
  BY <1>4
<1>6. at(j) \in 1 .. Len(queue') /\ queue'[at(j)] = queue[j]
  BY <1>4
<1>7. at(i) < at(j)
  BY <1>1, <1>2 DEF Positions
<1> HIDE DEF at
<1> QED
  BY <1>5, <1>6, <1>7 DEF Behind

(* A step keeps c behind a command d that is ahead of it and still waits.    *)
LEMMA StepInOrder ==
  ASSUME QInv, [Next]_vars, NEW c \in Commands, NEW d \in Commands,
         Ahead(d, c), d \in Waiting(queue')
  PROVE  status'[c] # "running" /\ Behind(c, d, queue')
<1> USE QueueAssumption DEF QInv
<1>a. QInv'
  BY NextKeepsQInv
<1>b. queue \in Seq(Commands) /\ status \in [Commands -> Status]
  BY DEF TypeOK
<1>c. PICK i \in Positions(queue) :
        queue[i] = d /\ (\/ status[c] = "new"
                        \/ \E j \in Positions(queue) : i < j /\ queue[j] = c)
  BY Zenon DEF Ahead
<1>d. status[c] \in {"new", "queued"}
  BY <1>c DEF WaitingAgree, Waiting
<1>e. Len(queue) > 0 /\ drain = "running"
  <2>1. Len(queue) > 0
    BY <1>b, <1>c DEF Positions
  <2> QED
    BY <2>1 DEF EntryShape
<1>f. c \notin orphans /\ c # inflight
  BY <1>d DEF RunningAgree
(* A promise that is settled or still new is of no concern. *)
<1>g. status'[c] \notin {"queued", "running"} =>
        status'[c] # "running" /\ Behind(c, d, queue')
  BY <1>a DEF WaitingAgree, Behind
(* Neither is a step that leaves the queue and the promise of c alone. *)
<1>h. queue' = queue /\ status'[c] = status[c] =>
        status'[c] # "running" /\ Behind(c, d, queue')
  <2> SUFFICES ASSUME queue' = queue, status'[c] = status[c], status[c] = "queued"
               PROVE  Behind(c, d, queue')
    BY <1>d, <1>g
  <2>1. PICK j \in Positions(queue) : i < j /\ queue[j] = c
    BY <1>c
  <2> QED
    BY <1>c, <2>1 DEF Behind, Positions
<1>1. ASSUME NEW e \in Commands, Enqueue(e)
      PROVE  status'[c] # "running" /\ Behind(c, d, queue')
  <2>1. CASE AdmissionCode(e) # "queued"
    <3>1. queue' = queue /\ status' = [status EXCEPT ![e] = AdmissionCode(e)]
      BY <1>1, <2>1 DEF Enqueue, RejectEnqueue
    <3>2. AdmissionCode(e) \in NotStarted
      BY <2>1 DEF AdmissionCode, NotStarted
    <3>3. CASE c = e
      BY <1>b, <1>g, <3>1, <3>2, <3>3 DEF NotStarted
    <3>4. CASE c # e
      BY <1>b, <1>h, <3>1, <3>4
    <3> QED
      BY <3>3, <3>4
  <2>2. CASE AdmissionCode(e) = "queued"
    <3>1. queue' = Append(queue, e) /\ status' = [status EXCEPT ![e] = "queued"]
      BY <1>1, <1>e, <2>2 DEF Enqueue
    <3>2. /\ Len(queue') = Len(queue) + 1 /\ queue'[Len(queue) + 1] = e
          /\ \A m \in Positions(queue) : queue'[m] = queue[m]
          /\ Len(queue) \in Nat
      BY <1>b, <3>1 DEF Positions
    <3>3. CASE c = e
      <4>1. i \in 1 .. Len(queue') /\ Len(queue) + 1 \in 1 .. Len(queue')
            /\ i < Len(queue) + 1
        BY <3>2 DEF Positions
      <4>2. queue'[i] = d /\ queue'[Len(queue) + 1] = c
        BY <1>c, <3>2, <3>3
      <4>3. status'[c] # "running"
        BY <1>b, <3>1, <3>3
      <4> QED
        BY <4>1, <4>2, <4>3 DEF Behind
    <3>4. CASE c # e
      <4>1. status'[c] = status[c]
        BY <1>b, <3>1, <3>4
      <4>2. CASE status[c] = "new"
        BY <1>g, <4>1, <4>2
      <4>3. CASE status[c] # "new"
        <5>1. PICK j \in Positions(queue) : i < j /\ queue[j] = c
          BY <1>c, <4>3
        <5>2. i \in 1 .. Len(queue') /\ j \in 1 .. Len(queue')
          BY <3>2 DEF Positions
        <5>3. queue'[i] = d /\ queue'[j] = c
          BY <1>c, <3>2, <5>1
        <5> QED
          BY <1>d, <4>1, <5>1, <5>2, <5>3 DEF Behind
      <4> QED
        BY <4>2, <4>3
    <3> QED
      BY <3>3, <3>4
  <2> QED
    BY <2>1, <2>2
<1>2. ASSUME NEW e \in Commands, NEW code \in NotStarted, Remove(e, code)
      PROVE  status'[c] # "running" /\ Behind(c, d, queue')
  <2>1. status' = [status EXCEPT ![e] = code] /\ code \notin {"queued", "running"}
    BY <1>2 DEF Remove, NotStarted
  <2>2. CASE c = e
    BY <1>b, <1>g, <2>1, <2>2
  <2>3. CASE c # e /\ status[c] = "new"
    BY <1>b, <1>g, <2>1, <2>3
  <2>4. CASE c # e /\ status[c] # "new"
    <3>1. PICK j \in Positions(queue) : i < j /\ queue[j] = c
      BY <1>c, <2>4
    <3>2. d # e
      <4>1. status'[d] = "queued"
        BY <1>a DEF WaitingAgree
      <4> QED
        BY <1>b, <2>1, <4>1
    <3>3. Behind(queue[j], queue[i], queue')
      BY <1>2, <1>c, <2>4, <3>1, <3>2, RemoveInOrder
    <3>4. status'[c] = status[c]
      BY <1>b, <2>1, <2>4
    <3> QED
      BY <1>c, <1>d, <3>1, <3>3, <3>4
  <2> QED
    BY <2>2, <2>3, <2>4
<1>3. ASSUME NEW e \in Commands, DeadlinePasses(e) \/ TimerFires(e) \/ Abort(e)
      PROVE  status'[c] # "running" /\ Behind(c, d, queue')
  <2>1. \/ queue' = queue /\ status' = status
        \/ Remove(e, "QUEUE_DEADLINE")
        \/ Remove(e, "QUEUE_ABORTED")
    BY <1>3 DEF DeadlinePasses, TimerFires, Abort
  <2> QED
    BY <1>2, <1>h, <2>1 DEF NotStarted
<1>4. ASSUME NEW e \in Commands, NEW outcome \in {"resolved", "failed"},
             Settle(e, outcome)
      PROVE  status'[c] # "running" /\ Behind(c, d, queue')
  <2> DEFINE st == [status EXCEPT ![e] = outcome]
  <2>1. e = inflight /\ e # c
    BY <1>4, <1>f DEF Settle
  <2>2. st \in [Commands -> Status] /\ st[c] = status[c]
    BY <1>b, <2>1 DEF Status, Settled
  <2>3. (queue' = queue /\ status' = st) \/ Drain(queue, st)
    BY <1>4, Zenon DEF Settle
  <2> HIDE DEF st
  <2>4. CASE queue' = queue /\ status' = st
    BY <1>h, <2>2, <2>4
  <2>5. CASE Drain(queue, st) /\ status[c] = "new"
    <3>1. c \notin Waiting(queue)
      BY <2>5 DEF WaitingAgree
    <3>2. status'[c] = st[c]
      BY <1>b, <2>2, <2>5, <3>1, DrainTouchesWaiting
    <3> QED
      BY <1>g, <2>2, <2>5, <3>2
  <2>6. CASE Drain(queue, st) /\ status[c] # "new"
    <3>1. PICK j \in Positions(queue) : i < j /\ queue[j] = c
      BY <1>c, <2>6
    <3>2. queue[i] \in Waiting(queue') /\ st[queue[j]] # "running"
      BY <1>c, <1>d, <2>2, <3>1
    <3>3. \A x, y \in Positions(queue) : queue[x] = queue[y] => x = y
      BY DEF WaitsOnce
    <3>4. status'[queue[j]] # "running" /\ Behind(queue[j], queue[i], queue')
      BY <1>b, <2>2, <2>6, <3>1, <3>2, <3>3, DrainInOrder
    <3> QED
      BY <1>c, <3>1, <3>4
  <2> QED
    BY <2>3, <2>4, <2>5, <2>6
<1>5. ASSUME NEW e \in Commands, NEW outcome \in {"resolved", "failed"},
             SettleOrphan(e, outcome)
      PROVE  status'[c] # "running" /\ Behind(c, d, queue')
  BY <1>5, <1>b, <1>f, <1>h DEF SettleOrphan
<1>6. CASE CancelTarget \/ Reconcile
  BY <1>6 DEF CancelTarget, Reconcile, CancelWaiting, Waiting, Positions
<1>7. CASE UNCHANGED vars
  BY <1>7, <1>h DEF vars
<1> QED
  BY <1>1, <1>3, <1>4, <1>5, <1>6, <1>7 DEF Next

(* First in, first out: whatever is removed, cancelled or enqueued, no       *)
(* command overtakes one that was ahead of it and still waits.               *)
THEOREM NobodyOvertakes == Spec => FirstInFirstOut
<1>1. ASSUME QInv, [Next]_vars, NEW c \in Commands, NEW d \in Commands,
             Ahead(d, c), d \in Waiting(queue')
      PROVE  /\ status'[c] # "running"
             /\ c \in Waiting(queue') =>
                  \E i, j \in 1 .. Len(queue') :
                    i < j /\ queue'[i] = d /\ queue'[j] = c
  BY <1>1, StepInOrder DEF Behind
<1>2. QInv /\ [Next]_vars
        => [\A c, d \in Commands :
              Ahead(d, c) /\ d \in Waiting(queue') =>
                /\ status'[c] # "running"
                /\ c \in Waiting(queue') =>
                     \E i, j \in 1 .. Len(queue') :
                       i < j /\ queue'[i] = d /\ queue'[j] = c]_vars
  BY <1>1
<1> QED
  BY <1>2, QInvHolds, PTL DEF Spec, FirstInFirstOut

=============================================================================
