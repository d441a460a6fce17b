------------------------- MODULE ControllerLockProofs -------------------------
(***************************************************************************)
(* For any number of processes on any hosts, and any limits: the lock file *)
(* never names a process that did not create it, and the counters of a     *)
(* contender stay within their limits.                                     *)
(***************************************************************************)
EXTENDS ControllerLock, TLAPS

(* A heartbeat past its pid guard has its own inode open. *)
BeatsOwnInode ==
  \A p \in Procs :
    /\ pc[p] = "beatRead" => seen[p] # Nobody
    /\ pc[p] \in {"beatTruncate", "beatWrite"} => seen[p] = p

(* Past the guards of the outer loop there is budget for one more round. *)
WithinBudget ==
  \A p \in Procs :
    /\ pc[p] \in {"probing", "recheck", "takeover"} => rounds[p] < MaxIterations
    /\ pc[p] \in {"recheck", "takeover"} => takeovers[p] < MaxTakeovers

LInv == TypeOK /\ NeverResurrected /\ BeatsOwnInode /\ WithinBudget

(* The initial state satisfies the inductive invariant. *)
LEMMA InitLInv == Init => LInv
  BY LockAssumption DEF Init, LInv, TypeOK, NeverResurrected, BeatsOwnInode, WithinBudget

(* A contender's steps write nothing but its own inode. *)
LEMMA AcquireKeepsLInv ==
  ASSUME LInv, NEW p \in Procs,
         \/ Start(p) \/ Create(p) \/ Write(p) \/ OpenExists(p)
         \/ FindUnreadable(p) \/ FindDead(p) \/ Unlink(p)
  PROVE  LInv'
<1> USE LockAssumption DEF LInv, Goto
<1>1. TypeOK'
  BY DEF TypeOK, Start, Create, Write, OpenExists, FindUnreadable, FindDead,
         Unlink, Contending, Owning, Finished
<1>2. NeverResurrected'
  BY DEF TypeOK, NeverResurrected, Start, Create, Write, OpenExists,
         FindUnreadable, FindDead, Unlink
<1>3. BeatsOwnInode'
  BY DEF TypeOK, BeatsOwnInode, Start, Create, Write, OpenExists,
         FindUnreadable, FindDead, Unlink
<1>4. WithinBudget'
  BY DEF TypeOK, WithinBudget, Start, Create, Write, OpenExists,
         FindUnreadable, FindDead, Unlink
<1> QED
  BY <1>1, <1>2, <1>3, <1>4

(* The takeover path stays within the limits of rounds and takeovers. *)
LEMMA TakeoverKeepsLInv ==
  ASSUME LInv, NEW p \in Procs,
         FindAlive(p) \/ Probe(p) \/ Recheck(p) \/ TakeoverUnlink(p)
  PROVE  LInv'
<1> USE LockAssumption DEF LInv, Goto
<1>1. CASE FindAlive(p)
  <2>1. TypeOK'
    BY <1>1 DEF TypeOK, FindAlive, Contending, Owning, Finished, Readable
  <2>2. NeverResurrected' /\ BeatsOwnInode'
    BY <1>1 DEF TypeOK, NeverResurrected, BeatsOwnInode, FindAlive
  <2>3. WithinBudget'
    BY <1>1 DEF TypeOK, WithinBudget, FindAlive, Refuses
  <2> QED
    BY <2>1, <2>2, <2>3
<1>2. CASE Probe(p)
  <2>1. TypeOK'
    BY <1>2 DEF TypeOK, Probe, Contending, Owning, Finished
  <2>2. NeverResurrected' /\ BeatsOwnInode'
    BY <1>2 DEF TypeOK, NeverResurrected, BeatsOwnInode, Probe
  <2>3. WithinBudget'
    BY <1>2 DEF TypeOK, WithinBudget, Probe
  <2> QED
    BY <2>1, <2>2, <2>3
<1>3. CASE Recheck(p)
  <2>1. rounds[p] < MaxIterations /\ takeovers[p] < MaxTakeovers
    BY <1>3 DEF WithinBudget, Recheck
  <2>2. TypeOK'
    BY <1>3, <2>1 DEF TypeOK, Recheck, NextRound, Contending, Owning, Finished
  <2>3. NeverResurrected' /\ BeatsOwnInode'
    BY <1>3 DEF TypeOK, NeverResurrected, BeatsOwnInode, Recheck, NextRound
  <2>4. WithinBudget'
    BY <1>3 DEF TypeOK, WithinBudget, Recheck, NextRound
  <2> QED
    BY <2>2, <2>3, <2>4
<1>4. CASE TakeoverUnlink(p)
  <2>1. rounds[p] < MaxIterations /\ takeovers[p] < MaxTakeovers
    BY <1>4 DEF WithinBudget, TakeoverUnlink
  <2>2. TypeOK'
    BY <1>4, <2>1 DEF TypeOK, TakeoverUnlink, NextRound, Contending, Owning, Finished
  <2>3. NeverResurrected' /\ BeatsOwnInode'
    BY <1>4 DEF TypeOK, NeverResurrected, BeatsOwnInode, TakeoverUnlink, NextRound
  <2>4. WithinBudget'
    BY <1>4 DEF TypeOK, WithinBudget, TakeoverUnlink, NextRound
  <2> QED
    BY <2>2, <2>3, <2>4
<1> QED
  BY <1>1, <1>2, <1>3, <1>4

(* A heartbeat writes its own inode: the pid it read there is its own. *)
LEMMA BeatKeepsLInv ==
  ASSUME LInv, NEW p \in Procs,
         BeatOpen(p) \/ BeatRead(p) \/ BeatTruncate(p) \/ BeatWrite(p)
  PROVE  LInv'
<1> USE LockAssumption DEF LInv, Goto
<1>1. TypeOK'
  BY DEF TypeOK, BeatOpen, BeatRead, BeatTruncate, BeatWrite, BeatsOwnInode,
         Contending, Owning, Finished
<1>2. NeverResurrected'
  BY DEF TypeOK, NeverResurrected, BeatsOwnInode, BeatOpen, BeatRead,
         BeatTruncate, BeatWrite
<1>3. BeatsOwnInode'
  BY DEF TypeOK, NeverResurrected, BeatsOwnInode, BeatOpen, BeatRead,
         BeatTruncate, BeatWrite
<1>4. WithinBudget'
  BY DEF TypeOK, WithinBudget, BeatOpen, BeatRead, BeatTruncate, BeatWrite
<1> QED
  BY <1>1, <1>2, <1>3, <1>4

(* Release, crash, the clock and Chrome write no lock file. *)
LEMMA WorldKeepsLInv ==
  ASSUME LInv,
         \/ \E p \in Procs : ReleaseRead(p) \/ ReleaseUnlink(p) \/ Crash(p) \/ GraceExpires(p)
         \/ ChromeUp \/ ChromeDown \/ UNCHANGED vars
  PROVE  LInv'
<1> USE LockAssumption DEF LInv, Goto
<1>1. TypeOK'
  BY DEF TypeOK, ReleaseRead, ReleaseUnlink, Crash, GraceExpires, ChromeUp, ChromeDown,
         vars, Contending, Owning, Finished
<1>2. NeverResurrected'
  BY DEF TypeOK, NeverResurrected, ReleaseRead, ReleaseUnlink, Crash, GraceExpires,
         ChromeUp, ChromeDown, vars
<1>3. BeatsOwnInode'
  BY DEF TypeOK, BeatsOwnInode, ReleaseRead, ReleaseUnlink, Crash, GraceExpires,
         ChromeUp, ChromeDown, vars
<1>4. WithinBudget'
  BY DEF TypeOK, WithinBudget, ReleaseRead, ReleaseUnlink, Crash, GraceExpires,
         ChromeUp, ChromeDown, vars
<1> QED
  BY <1>1, <1>2, <1>3, <1>4

(* The inductive invariant holds in every reachable state. *)
THEOREM LInvHolds == Spec => []LInv
<1>1. LInv /\ [Next]_vars => LInv'
  <2> SUFFICES ASSUME LInv, [Next]_vars PROVE LInv'
    OBVIOUS
  <2>1. ASSUME NEW p \in Procs, Start(p) \/ Continue(p) \/ BeatOpen(p)
        PROVE  LInv'
    BY <2>1, AcquireKeepsLInv, TakeoverKeepsLInv, BeatKeepsLInv, WorldKeepsLInv
       DEF Continue
  <2>2. ASSUME NEW p \in Procs, ReleaseRead(p) \/ Crash(p) \/ GraceExpires(p)
        PROVE  LInv'
    BY <2>2, WorldKeepsLInv
  <2>3. CASE ChromeUp \/ ChromeDown \/ UNCHANGED vars
    BY <2>3, WorldKeepsLInv
  <2> QED
    BY <2>1, <2>2, <2>3 DEF Next
<1> QED
  BY <1>1, InitLInv, PTL DEF Spec

(* Type correctness, the limits on rounds and takeovers included. *)
THEOREM LockTypeCorrect == Spec => []TypeOK
<1>1. LInv => TypeOK
  BY DEF LInv
<1> QED
  BY <1>1, LInvHolds, PTL

(* No interleaving of heartbeats and takeovers makes the file name a process *)
(* that did not create it: a stale owner resurrects nothing.                 *)
THEOREM StaleOwnerNeverResurrects == Spec => []NeverResurrected
<1>1. LInv => NeverResurrected
  BY DEF LInv
<1> QED
  BY <1>1, LInvHolds, PTL

===============================================================================
