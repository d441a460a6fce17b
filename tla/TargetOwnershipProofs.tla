------------------------- MODULE TargetOwnershipProofs -------------------------
(***************************************************************************)
(* Type correctness, the balance of slot reservations and the capacity     *)
(* limit of target ownership, for any sessions, tabs, limits and bounds.   *)
(*                                                                         *)
(* OInv is the inductive invariant. The counters stay in range because     *)
(* every reservation belongs to a creation in flight; a page counts for    *)
(* one creation only because a tab that does not exist yet has no maker;   *)
(* a worker object exists because a live session was created; and the      *)
(* handler of a popup looks up an opener that it has been given.           *)
(***************************************************************************)
EXTENDS TargetOwnership, FiniteSetTheorems, TLAPS

(* A session that is there was created. *)
LiveShape == \A s \in live : life[s] > 0

(* A window that has just opened has an opener. *)
PopupShape == \A t \in Popups : popup[t].stage = "opened" => popup[t].opener \in Targets

(* A tab that Chrome has not opened was not made by a creation. *)
AbsentUnmade == \A t \in Targets : tab[t] = "absent" => maker[t] = None

OInv == TypeOK /\ LiveShape /\ PopupShape /\ AbsentUnmade /\ ReservationsBalance

-----------------------------------------------------------------------------

(* The worker a live session leads to is one of the worker objects. *)
LEMMA WorkerOfType ==
  ASSUME TypeOK, LiveShape, NEW s \in live
  PROVE  s \in Sessions /\ WorkerOf(s) \in Workers
  BY OwnershipAssumption DEF TypeOK, LiveShape, WorkerOf, Workers

(* The pages that creations of w have opened and not registered. *)
Made(w) == {t \in Targets : maker[t] = w}

(* They are finitely many, as the tabs are. *)
LEMMA MadeFinite ==
  ASSUME NEW w
  PROVE  IsFiniteSet(Made(w)) /\ Cardinality(Made(w)) \in Nat
<1>1. IsFiniteSet(Made(w))
  BY OwnershipAssumption, FS_Subset DEF Made
<1> QED
  BY <1>1, FS_CardinalityType

(* The initial state satisfies the inductive invariant. *)
LEMMA InitOInv == Init => OInv
<1> SUFFICES ASSUME Init PROVE OInv
  OBVIOUS
<1> USE OwnershipAssumption DEF Init
<1>1. TypeOK
  BY DEF TypeOK, NoPopup, NoDeletion, Targets
<1>2. LiveShape /\ PopupShape /\ AbsentUnmade
  BY DEF LiveShape, PopupShape, AbsentUnmade, NoPopup
<1>3. ReservationsBalance
  <2> SUFFICES ASSUME NEW w \in Workers
               PROVE  Cardinality({t \in Targets : maker[t] = w}) = 0
    BY DEF ReservationsBalance
  <2>1. {t \in Targets : maker[t] = w} = {}
    OBVIOUS
  <2> QED
    BY <2>1, FS_EmptySet
<1> QED
  BY <1>1, <1>2, <1>3 DEF OInv

-----------------------------------------------------------------------------
(* The shared parts of the operations keep the types of what they assign.    *)

(* Registering a target keeps the types of the registries. *)
LEMMA RegisterType ==
  ASSUME TypeOK, NEW w \in Workers, NEW t \in Targets, Register(w, t)
  PROVE  /\ members' \in [Workers -> SUBSET Targets]
         /\ owner' \in [Targets -> Sessions \cup {None}]
         /\ lease' \in [Targets -> Sessions \cup {None}]
         /\ idle' \subseteq Targets
  BY DEF TypeOK, Register, Workers

(* So does onTargetClosed, whatever the targets. *)
LEMMA DropType ==
  ASSUME TypeOK, NEW T \in SUBSET Targets, Drop(T, record)
  PROVE  /\ members' \in [Workers -> SUBSET Targets]
         /\ owner' \in [Targets -> Sessions \cup {None}]
         /\ borrowed' \subseteq UserTabs
         /\ record' \in [Popups -> {"none", "pending", "blocked", "closed"}]
  BY DEF TypeOK, Drop, MarkClosed

(* And the release of their leases. *)
LEMMA ForgetType ==
  ASSUME TypeOK, NEW T \in SUBSET Targets, Forget(T, record)
  PROVE  /\ members' \in [Workers -> SUBSET Targets]
         /\ owner' \in [Targets -> Sessions \cup {None}]
         /\ borrowed' \subseteq UserTabs
         /\ record' \in [Popups -> {"none", "pending", "blocked", "closed"}]
         /\ lease' \in [Targets -> Sessions \cup {None}]
<1>1. lease' \in [Targets -> Sessions \cup {None}]
  BY DEF TypeOK, Forget, Released
<1> QED
  BY <1>1, DropType DEF Forget

(* A page that is closed was there. *)
LEMMA ClosePageType ==
  ASSUME TypeOK, NEW t \in Targets, ClosePage(t)
  PROVE  /\ tab' \in [Targets -> {"absent", "spare", "open", "gone", "closed"}]
         /\ notices' \subseteq Targets
         /\ \A u \in Targets : tab'[u] = "absent" <=> tab[u] = "absent"
  BY DEF TypeOK, ClosePage

(* A step that leaves the creations alone keeps the balance. *)
LEMMA FrameKeepsBalance ==
  ASSUME OInv, UNCHANGED <<reserved, creating, maker>>,
         \A u \in Targets : tab'[u] = "absent" => tab[u] = "absent"
  PROVE  AbsentUnmade' /\ ReservationsBalance'
  BY DEF OInv, AbsentUnmade, ReservationsBalance

-----------------------------------------------------------------------------
(* Sessions *)

(* Creating and deleting sessions keeps the invariant. *)
LEMMA SessionStepKeepsOInv ==
  ASSUME OInv, SessionStep
  PROVE  OInv'
<1> USE OwnershipAssumption DEF OInv, registries, calls, world
<1>1. ASSUME NEW s \in Sessions, CreateSession(s) PROVE OInv'
  <2>1. TypeOK'
    BY <1>1 DEF TypeOK, CreateSession
  <2>2. LiveShape' /\ PopupShape'
    BY <1>1 DEF TypeOK, CreateSession, LiveShape, PopupShape
  <2>3. AbsentUnmade' /\ ReservationsBalance'
    BY <1>1, FrameKeepsBalance DEF CreateSession
  <2> QED
    BY <2>1, <2>2, <2>3
<1>2. ASSUME NEW d \in Deleters, NEW s \in Sessions, DeleteBegin(d, s) PROVE OInv'
  <2> DEFINE T == {t \in borrowed : owner[t] = s /\ t \in members[WorkerOf(s)]}
  <2>1. T \in SUBSET Targets /\ Forget(T, record)
    BY <1>2 DEF DeleteBegin, TypeOK, Targets
  <2>2. deletion' \in [Deleters -> [worker : Workers \cup {None}, visited : SUBSET Targets]]
    BY <1>2, WorkerOfType DEF DeleteBegin, TypeOK
  <2> HIDE DEF T
  <2>3. TypeOK'
    BY <1>2, <2>1, <2>2, ForgetType DEF TypeOK, DeleteBegin
  <2>4. LiveShape' /\ PopupShape'
    BY <1>2 DEF DeleteBegin, LiveShape, PopupShape
  <2>5. AbsentUnmade' /\ ReservationsBalance'
    BY <1>2, FrameKeepsBalance DEF DeleteBegin
  <2> QED
    BY <2>3, <2>4, <2>5
<1>3. ASSUME NEW d \in Deleters, NEW t \in Targets, DeleteVisit(d, t) PROVE OInv'
  <2> DEFINE w == deletion[d].worker
             T == {t} \cap {u \in Targets : owner[u] = w[1]}
  <2>1. deletion' \in [Deleters -> [worker : Workers \cup {None}, visited : SUBSET Targets]]
    BY <1>3 DEF DeleteVisit, TypeOK
  <2>2. \/ Forget(T, record) /\ UNCHANGED <<tab, notices>>
        \/ /\ ClosePage(t) \/ UNCHANGED <<tab, notices>>
           /\ owner' = [owner EXCEPT ![t] = None]
           /\ lease' = [lease EXCEPT ![t] = IF @ = w[1] THEN None ELSE @]
           /\ UNCHANGED <<members, borrowed, record>>
    BY <1>3 DEF DeleteVisit
  <2>3. UNCHANGED <<life, live, deleting, reserved, idle,
                    creating, maker, popup, closing, recovering, reclaim, sweeping>>
    BY <1>3 DEF DeleteVisit
  <2>4. T \in SUBSET Targets
    OBVIOUS
  <2> HIDE DEF T, w
  <2>5. /\ members' \in [Workers -> SUBSET Targets]
        /\ owner' \in [Targets -> Sessions \cup {None}]
        /\ borrowed' \subseteq UserTabs
        /\ record' \in [Popups -> {"none", "pending", "blocked", "closed"}]
        /\ lease' \in [Targets -> Sessions \cup {None}]
    <3>1. CASE Forget(T, record)
      BY <2>4, <3>1, ForgetType
    <3>2. CASE ~Forget(T, record)
      <4>1. /\ owner' = [owner EXCEPT ![t] = None]
            /\ lease' = [lease EXCEPT ![t] = IF @ = w[1] THEN None ELSE @]
            /\ UNCHANGED <<members, borrowed, record>>
        BY <2>2, <3>2
      <4>2. lease' \in [Targets -> Sessions \cup {None}]
        BY <4>1 DEF TypeOK
      <4> QED
        BY <4>1, <4>2 DEF TypeOK
    <3> QED
      BY <3>1, <3>2
  <2>6. /\ tab' \in [Targets -> {"absent", "spare", "open", "gone", "closed"}]
        /\ notices' \subseteq Targets
        /\ \A u \in Targets : tab'[u] = "absent" <=> tab[u] = "absent"
    BY <2>2, ClosePageType DEF TypeOK
  <2>7. TypeOK'
    BY <2>1, <2>3, <2>5, <2>6 DEF TypeOK
  <2>8. LiveShape' /\ PopupShape'
    BY <2>3 DEF LiveShape, PopupShape
  <2>9. AbsentUnmade' /\ ReservationsBalance'
    BY <2>3, <2>6, FrameKeepsBalance
  <2> QED
    BY <2>7, <2>8, <2>9
<1>4. ASSUME NEW d \in Deleters, DeleteFinish(d) PROVE OInv'
  <2>1. deletion' \in [Deleters -> [worker : Workers \cup {None}, visited : SUBSET Targets]]
    BY <1>4 DEF DeleteFinish, TypeOK, NoDeletion
  <2>2. TypeOK'
    BY <1>4, <2>1 DEF TypeOK, DeleteFinish
  <2>3. LiveShape' /\ PopupShape'
    BY <1>4 DEF DeleteFinish, LiveShape, PopupShape
  <2>4. AbsentUnmade' /\ ReservationsBalance'
    BY <1>4, FrameKeepsBalance DEF DeleteFinish
  <2> QED
    BY <2>2, <2>3, <2>4
<1> QED
  BY <1>1, <1>2, <1>3, <1>4 DEF SessionStep

-----------------------------------------------------------------------------
(* Creations and pages that exist already *)

(* A worker has finitely many targets. *)
LEMMA MembersFinite ==
  ASSUME TypeOK, NEW w \in Workers
  PROVE  IsFiniteSet(members[w]) /\ Cardinality(members[w]) \in Nat
<1>1. members[w] \in SUBSET Targets
  BY DEF TypeOK
<1>2. IsFiniteSet(members[w])
  BY <1>1, OwnershipAssumption, FS_Subset
<1> QED
  BY <1>2, FS_CardinalityType

(* The reservations of a worker, as numbers. *)
LEMMA BalanceOf ==
  ASSUME OInv, NEW w \in Workers
  PROVE  /\ reserved[w] \in 0 .. MaxTargets /\ creating[w] \in 0 .. MaxTargets
         /\ Cardinality(Made(w)) \in Nat
         /\ reserved[w] = creating[w] + Cardinality(Made(w))
  BY MadeFinite DEF OInv, TypeOK, ReservationsBalance, Made

(* A creation takes a slot and is counted. *)
LEMMA CreateBeginKeepsOInv ==
  ASSUME OInv, NEW s \in Sessions, CreateBegin(s)
  PROVE  OInv'
<1> DEFINE v == WorkerOf(s)
<1> USE OwnershipAssumption DEF OInv, world
<1>1. /\ s \in live /\ ~Full(v)
      /\ reserved' = [reserved EXCEPT ![v] = @ + 1]
      /\ creating' = [creating EXCEPT ![v] = @ + 1]
      /\ UNCHANGED <<life, live, deleting, members, owner, lease, borrowed, record,
                     maker, popup, closing, recovering, reclaim, sweeping, deletion,
                     idle, tab, notices>>
  BY DEF CreateBegin
<1>2. v \in Workers
  BY <1>1, WorkerOfType
<1> HIDE DEF v
<1>3. reserved[v] + 1 \in 0 .. MaxTargets /\ creating[v] + 1 \in 0 .. MaxTargets
  BY <1>1, <1>2, BalanceOf, MembersFinite DEF Full
<1>4. TypeOK'
  BY <1>1, <1>2, <1>3 DEF TypeOK
<1>5. LiveShape' /\ PopupShape' /\ AbsentUnmade'
  BY <1>1 DEF LiveShape, PopupShape, AbsentUnmade
<1>6. ReservationsBalance'
  <2> SUFFICES ASSUME NEW w \in Workers
               PROVE  reserved'[w] = creating'[w] + Cardinality(Made(w))
    BY <1>1 DEF ReservationsBalance, Made
  <2>1. CASE w = v
    BY <1>1, <1>2, <2>1, BalanceOf DEF TypeOK
  <2>2. CASE w # v
    BY <1>1, <1>2, <2>2, BalanceOf DEF TypeOK
  <2> QED
    BY <2>1, <2>2
<1> QED
  BY <1>4, <1>5, <1>6

(* A creation that fails gives its slot back. *)
LEMMA CreateFailKeepsOInv ==
  ASSUME OInv, NEW v \in Workers, CreateFail(v)
  PROVE  OInv'
<1> USE OwnershipAssumption DEF OInv, world
<1>1. /\ creating[v] > 0
      /\ reserved' = [reserved EXCEPT ![v] = @ - 1]
      /\ creating' = [creating EXCEPT ![v] = @ - 1]
      /\ UNCHANGED <<life, live, deleting, members, owner, lease, borrowed, record,
                     maker, popup, closing, recovering, reclaim, sweeping, deletion,
                     idle, tab, notices>>
  BY DEF CreateFail
<1>2. reserved[v] - 1 \in 0 .. MaxTargets /\ creating[v] - 1 \in 0 .. MaxTargets
  BY <1>1, BalanceOf
<1>3. TypeOK'
  BY <1>1, <1>2 DEF TypeOK
<1>4. LiveShape' /\ PopupShape' /\ AbsentUnmade'
  BY <1>1 DEF LiveShape, PopupShape, AbsentUnmade
<1>5. ReservationsBalance'
  <2> SUFFICES ASSUME NEW w \in Workers
               PROVE  reserved'[w] = creating'[w] + Cardinality(Made(w))
    BY <1>1 DEF ReservationsBalance, Made
  <2>1. CASE w = v
    BY <1>1, <2>1, BalanceOf DEF TypeOK
  <2>2. CASE w # v
    BY <1>1, <2>2, BalanceOf DEF TypeOK
  <2> QED
    BY <2>1, <2>2
<1> QED
  BY <1>3, <1>4, <1>5

(* The page of a creation in flight is counted in its place. *)
LEMMA CreatePageKeepsOInv ==
  ASSUME OInv, NEW v \in Workers, NEW t \in Targets, CreatePage(v, t)
  PROVE  OInv'
<1> USE OwnershipAssumption DEF OInv, registries
<1>1. /\ creating[v] > 0 /\ tab[t] = "absent"
      /\ creating' = [creating EXCEPT ![v] = @ - 1]
      /\ maker' = [maker EXCEPT ![t] = v]
      /\ tab' = [tab EXCEPT ![t] = "open"]
      /\ UNCHANGED <<life, live, deleting, members, reserved, owner, lease, borrowed,
                     record, popup, closing, recovering, reclaim, sweeping, deletion,
                     idle, notices>>
  BY DEF CreatePage
<1>2. creating[v] - 1 \in 0 .. MaxTargets
  BY <1>1, BalanceOf
<1>3. TypeOK'
  BY <1>1, <1>2 DEF TypeOK
<1>4. LiveShape' /\ PopupShape' /\ AbsentUnmade'
  BY <1>1 DEF LiveShape, PopupShape, AbsentUnmade, TypeOK
<1>5. maker[t] = None /\ None \notin Workers
  BY <1>1 DEF AbsentUnmade
<1>6. ReservationsBalance'
  <2> SUFFICES ASSUME NEW w \in Workers
               PROVE  reserved'[w] = creating'[w] + Cardinality(Made(w)')
    BY DEF ReservationsBalance, Made
  <2>1. CASE w = v
    <3>1. Made(w)' = Made(w) \cup {t} /\ t \notin Made(w)
      BY <1>1, <1>5, <2>1 DEF Made, TypeOK
    <3>2. Cardinality(Made(w)') = Cardinality(Made(w)) + 1
      BY <3>1, MadeFinite, FS_AddElement
    <3> QED
      BY <1>1, <2>1, <3>2, BalanceOf DEF TypeOK
  <2>2. CASE w # v
    <3>1. Made(w)' = Made(w)
      BY <1>1, <1>5, <2>2 DEF Made, TypeOK
    <3> QED
      BY <1>1, <2>2, <3>1, BalanceOf DEF TypeOK
  <2> QED
    BY <2>1, <2>2
<1> QED
  BY <1>3, <1>4, <1>6

(* A registered page gives its slot back. *)
LEMMA CreateRegisterKeepsOInv ==
  ASSUME OInv, NEW t \in Targets, CreateRegister(t)
  PROVE  OInv'
<1> DEFINE v == maker[t]
<1> USE OwnershipAssumption DEF OInv
<1>1. /\ v # None /\ Register(v, t)
      /\ reserved' = [reserved EXCEPT ![v] = @ - 1]
      /\ maker' = [maker EXCEPT ![t] = None]
      /\ UNCHANGED <<life, live, deleting, borrowed, record, creating, popup, closing,
                     recovering, reclaim, sweeping, deletion, tab, notices>>
  BY DEF CreateRegister
<1>2. v \in Workers /\ None \notin Workers
  BY <1>1 DEF TypeOK
<1>3. t \in Made(v)
  BY DEF Made
<1>4. Cardinality(Made(v) \ {t}) = Cardinality(Made(v)) - 1 /\ Cardinality(Made(v) \ {t}) \in Nat
  <2>1. IsFiniteSet(Made(v)) /\ IsFiniteSet(Made(v) \ {t})
    BY MadeFinite, FS_RemoveElement
  <2> QED
    BY <1>3, <2>1, FS_RemoveElement, FS_CardinalityType
<1>0. maker[t] = v
  OBVIOUS
<1> HIDE DEF v
<1>5. reserved[v] - 1 \in 0 .. MaxTargets
  BY <1>2, <1>4, BalanceOf
<1>6. TypeOK'
  BY <1>1, <1>2, <1>5, RegisterType DEF TypeOK
<1>7. LiveShape' /\ PopupShape' /\ AbsentUnmade'
  BY <1>1 DEF LiveShape, PopupShape, AbsentUnmade, TypeOK
<1>8. ReservationsBalance'
  <2> SUFFICES ASSUME NEW w \in Workers
               PROVE  reserved'[w] = creating'[w] + Cardinality(Made(w)')
    BY DEF ReservationsBalance, Made
  <2>1. CASE w = v
    <3>1. Made(w)' = Made(w) \ {t}
      BY <1>0, <1>1, <1>2, <2>1 DEF Made, TypeOK
    <3> QED
      BY <1>1, <1>2, <1>4, <2>1, <3>1, BalanceOf DEF TypeOK
  <2>2. CASE w # v
    <3>1. Made(w)' = Made(w)
      BY <1>0, <1>1, <1>2, <2>2 DEF Made, TypeOK
    <3> QED
      BY <1>1, <1>2, <2>2, <3>1, BalanceOf DEF TypeOK
  <2> QED
    BY <2>1, <2>2
<1> QED
  BY <1>6, <1>7, <1>8

(* A page that a live session registers. *)
LEMMA PageStepKeepsOInv ==
  ASSUME OInv, NEW t \in Targets,
         \/ PageAppears(t)
         \/ \E s \in Sessions : RegisterExisting(s, t) \/ RegisterExternal(s, t)
  PROVE  OInv'
<1> USE OwnershipAssumption DEF OInv, registries, calls
<1>1. CASE PageAppears(t)
  <2>1. TypeOK' /\ \A u \in Targets : tab'[u] = "absent" => tab[u] = "absent"
    BY <1>1 DEF TypeOK, PageAppears
  <2>2. LiveShape' /\ PopupShape'
    BY <1>1 DEF PageAppears, LiveShape, PopupShape
  <2> QED
    BY <1>1, <2>1, <2>2, FrameKeepsBalance DEF PageAppears
<1>2. ASSUME NEW s \in Sessions, RegisterExisting(s, t) \/ RegisterExternal(s, t)
      PROVE  OInv'
  <2>1. /\ s \in live /\ Register(WorkerOf(s), t)
        /\ tab' = [tab EXCEPT ![t] = "open"]
        /\ UNCHANGED <<life, live, deleting, reserved, borrowed, record, creating, maker,
                       popup, closing, recovering, reclaim, sweeping, deletion, notices>>
    BY <1>2 DEF RegisterExisting, RegisterExternal, Admits
  <2>2. WorkerOf(s) \in Workers
    BY <2>1, WorkerOfType
  <2>3. /\ tab' \in [Targets -> {"absent", "spare", "open", "gone", "closed"}]
        /\ \A u \in Targets : tab'[u] = "absent" => tab[u] = "absent"
    BY <2>1 DEF TypeOK
  <2>4. TypeOK'
    BY <2>1, <2>2, <2>3, RegisterType DEF TypeOK
  <2>5. LiveShape' /\ PopupShape'
    BY <2>1 DEF LiveShape, PopupShape
  <2> QED
    BY <2>1, <2>3, <2>4, <2>5, FrameKeepsBalance
<1> QED
  BY <1>1, <1>2

(* Creations and registrations keep the invariant. *)
LEMMA CreationStepKeepsOInv ==
  ASSUME OInv, CreationStep
  PROVE  OInv'
<1>1. ToolTabs \subseteq Targets /\ Batchers \subseteq Sessions
  BY OwnershipAssumption DEF Targets
<1> QED
  BY <1>1, CreateBeginKeepsOInv, CreateFailKeepsOInv, CreatePageKeepsOInv,
     CreateRegisterKeepsOInv, PageStepKeepsOInv DEF CreationStep

-----------------------------------------------------------------------------
(* Use, close, idle sweep *)

(* What a sweep does with one target keeps the types. *)
LEMMA ReclaimType ==
  ASSUME TypeOK, NEW s \in Sessions \cup {None}, NEW t \in Targets, Reclaim(s, t)
  PROVE  /\ members' \in [Workers -> SUBSET Targets]
         /\ owner' \in [Targets -> Sessions \cup {None}]
         /\ borrowed' \subseteq UserTabs
         /\ record' \in [Popups -> {"none", "pending", "blocked", "closed"}]
         /\ closing' \in [Targets -> Sessions \cup {None}]
         /\ sweeping' \in Targets \cup {None}
<1> DEFINE T == {t} \cap {u \in Targets : owner[u] = s}
<1>1. T \in SUBSET Targets
  OBVIOUS
<1>2. CASE t \in borrowed
  <2>1. Drop(T, record) /\ UNCHANGED closing /\ sweeping' = t
    BY <1>2 DEF Reclaim
  <2> HIDE DEF T
  <2>2. closing' \in [Targets -> Sessions \cup {None}]
    BY <2>1 DEF TypeOK
  <2> QED
    BY <1>1, <2>1, <2>2, DropType
<1>3. CASE t \notin borrowed
  BY <1>3 DEF Reclaim, TypeOK, MarkClosed
<1> QED
  BY <1>2, <1>3

(* Steps that change ownership and leases only, through Forget. *)
LEMMA ForgetKeepsOInv ==
  ASSUME OInv, NEW T \in SUBSET Targets, Forget(T, record),
         UNCHANGED <<life, live, deleting, reserved, creating, maker, popup, recovering,
                     reclaim, sweeping, deletion, idle>>,
         closing' \in [Targets -> Sessions \cup {None}],
         tab' \in [Targets -> {"absent", "spare", "open", "gone", "closed"}],
         notices' \subseteq Targets,
         \A u \in Targets : tab'[u] = "absent" => tab[u] = "absent"
  PROVE  OInv'
<1> USE DEF OInv
<1>1. TypeOK'
  BY ForgetType DEF TypeOK
<1>2. LiveShape' /\ PopupShape'
  BY DEF LiveShape, PopupShape
<1> QED
  BY <1>1, <1>2, FrameKeepsBalance

(* Loans, recoveries, closes and the sweep keep the invariant. *)
LEMMA TabStepKeepsOInv ==
  ASSUME OInv, TabStep
  PROVE  OInv'
<1> USE OwnershipAssumption DEF OInv, registries, calls, world
<1>0. UserTabs \subseteq Targets /\ Recoverers \subseteq Sessions
  BY DEF Targets
<1>1. ASSUME NEW t \in Targets, ReleaseBorrowed(t) \/ FindClosed(t) PROVE OInv'
  <2>1. /\ Forget({t}, record)
        /\ UNCHANGED <<life, live, deleting, reserved, creating, maker, popup, closing,
                       recovering, reclaim, sweeping, deletion, idle, tab, notices>>
    BY <1>1 DEF ReleaseBorrowed, FindClosed
  <2>2. /\ closing' \in [Targets -> Sessions \cup {None}]
        /\ tab' \in [Targets -> {"absent", "spare", "open", "gone", "closed"}]
        /\ notices' \subseteq Targets
    BY <2>1 DEF TypeOK
  <2> QED
    BY <2>1, <2>2, ForgetKeepsOInv
<1>2. ASSUME NEW s \in Sessions, NEW t \in UserTabs, Borrow(s, t) PROVE OInv'
  <2>1. /\ s \in live /\ Register(WorkerOf(s), t)
        /\ borrowed' = borrowed \cup {t}
        /\ UNCHANGED <<life, live, deleting, reserved, record, creating, maker,
                       popup, closing, recovering, reclaim, sweeping, deletion, tab, notices>>
    BY <1>2 DEF Borrow, Admits
  <2>2. WorkerOf(s) \in Workers /\ t \in Targets
    BY <1>0, <2>1, WorkerOfType
  <2>3. TypeOK'
    BY <2>1, <2>2, RegisterType DEF TypeOK
  <2>4. LiveShape' /\ PopupShape'
    BY <2>1 DEF LiveShape, PopupShape
  <2> QED
    BY <2>1, <2>3, <2>4, FrameKeepsBalance
<1>3. ASSUME NEW s \in Recoverers, NEW t \in Targets, RecoverBegin(s, t) PROVE OInv'
  <2>1. TypeOK'
    BY <1>3 DEF RecoverBegin, TypeOK
  <2>2. LiveShape' /\ PopupShape'
    BY <1>3 DEF RecoverBegin, LiveShape, PopupShape
  <2> QED
    BY <1>3, <2>1, <2>2, FrameKeepsBalance DEF RecoverBegin
<1>4. ASSUME NEW s \in Recoverers, NEW t \in Targets, RecoverFinish(s, t) PROVE OInv'
  <2>1. /\ recovering' = recovering \ {<<s, t>>}
        /\ UNCHANGED <<life, live, deleting, reserved, borrowed, record, creating, maker,
                       popup, closing, reclaim, sweeping, deletion, tab, notices>>
    BY <1>4 DEF RecoverFinish
  <2>2. /\ members' \in [Workers -> SUBSET Targets]
        /\ owner' \in [Targets -> Sessions \cup {None}]
        /\ lease' \in [Targets -> Sessions \cup {None}]
        /\ idle' \subseteq Targets
    <3>1. CASE s \in live /\ Register(WorkerOf(s), t)
      BY <3>1, WorkerOfType, RegisterType
    <3>2. CASE UNCHANGED <<members, owner, lease, idle>>
      BY <3>2 DEF TypeOK
    <3> QED
      BY <1>4, <3>1, <3>2 DEF RecoverFinish
  <2>3. TypeOK'
    BY <2>1, <2>2 DEF TypeOK
  <2>4. LiveShape' /\ PopupShape'
    BY <2>1 DEF LiveShape, PopupShape
  <2> QED
    BY <2>1, <2>3, <2>4, FrameKeepsBalance
<1>5. ASSUME NEW t \in Targets, Use(t) \/ GoIdle(t) PROVE OInv'
  <2>1. TypeOK'
    BY <1>5 DEF Use, GoIdle, TypeOK
  <2>2. LiveShape' /\ PopupShape'
    BY <1>5 DEF Use, GoIdle, LiveShape, PopupShape
  <2> QED
    BY <1>5, <2>1, <2>2, FrameKeepsBalance DEF Use, GoIdle
<1>6. ASSUME NEW t \in Targets, CloseBegin(t) PROVE OInv'
  <2>1. TypeOK'
    BY <1>6 DEF CloseBegin, MarkClosed, TypeOK
  <2>2. LiveShape' /\ PopupShape'
    BY <1>6 DEF CloseBegin, LiveShape, PopupShape
  <2> QED
    BY <1>6, <2>1, <2>2, FrameKeepsBalance DEF CloseBegin
<1>7. ASSUME NEW t \in Targets, CloseFinish(t) PROVE OInv'
  <2> DEFINE s == closing[t]
             v == WorkerOf(s)
  <2>1. /\ ClosePage(t)
        /\ members' = [members EXCEPT ![v] = IF s \in live THEN @ \ {t} ELSE @]
        /\ owner' = [owner EXCEPT ![t] = None]
        /\ lease' = [lease EXCEPT ![t] = IF @ = s THEN None ELSE @]
        /\ closing' = [closing EXCEPT ![t] = None]
        /\ UNCHANGED <<life, live, deleting, reserved, borrowed, record, creating, maker,
                       popup, recovering, reclaim, sweeping, deletion, idle>>
    BY <1>7 DEF CloseFinish
  <2> HIDE DEF s, v
  <2>2. members' \in [Workers -> SUBSET Targets]
    BY <2>1 DEF TypeOK
  <2>3. /\ owner' \in [Targets -> Sessions \cup {None}]
        /\ lease' \in [Targets -> Sessions \cup {None}]
        /\ closing' \in [Targets -> Sessions \cup {None}]
    BY <2>1 DEF TypeOK
  <2>4. TypeOK'
    BY <2>1, <2>2, <2>3, ClosePageType DEF TypeOK
  <2>5. LiveShape' /\ PopupShape'
    BY <2>1 DEF LiveShape, PopupShape
  <2>6. \A u \in Targets : tab'[u] = "absent" => tab[u] = "absent"
    BY <2>1, ClosePageType
  <2> QED
    BY <2>1, <2>4, <2>5, <2>6, FrameKeepsBalance
<1>8. ASSUME NEW t \in Targets, CloseFail(t) PROVE OInv'
  <2>1. /\ Forget({t}, record)
        /\ closing' = [closing EXCEPT ![t] = None]
        /\ UNCHANGED <<life, live, deleting, reserved, creating, maker, popup,
                       recovering, reclaim, sweeping, deletion, idle, tab, notices>>
    BY <1>8 DEF CloseFail
  <2>2. /\ closing' \in [Targets -> Sessions \cup {None}]
        /\ tab' \in [Targets -> {"absent", "spare", "open", "gone", "closed"}]
        /\ notices' \subseteq Targets
    BY <2>1 DEF TypeOK
  <2> QED
    BY <2>1, <2>2, ForgetKeepsOInv
<1>9. ASSUME NEW t \in Targets, ExpireLeases(t) \/ ReclaimNext(t) PROVE OInv'
  <2>1. /\ \E s \in Sessions \cup {None} : Reclaim(s, t)
        /\ reclaim' \in [Targets -> Sessions \cup {None}]
        /\ lease' \in [Targets -> Sessions \cup {None}]
    BY <1>9 DEF ExpireLeases, ReclaimNext, Released, TypeOK
  <2>2. UNCHANGED <<life, live, deleting, reserved, creating, maker, popup, recovering,
                    deletion, idle, tab, notices>>
    BY <1>9 DEF ExpireLeases, ReclaimNext
  <2>3. TypeOK'
    BY <2>1, <2>2, ReclaimType DEF TypeOK
  <2>4. LiveShape' /\ PopupShape'
    BY <2>2 DEF LiveShape, PopupShape
  <2> QED
    BY <2>2, <2>3, <2>4, FrameKeepsBalance
<1>10. CASE ReclaimDone
  <2>1. TypeOK'
    BY <1>10 DEF ReclaimDone, TypeOK
  <2>2. LiveShape' /\ PopupShape'
    BY <1>10 DEF ReclaimDone, LiveShape, PopupShape
  <2> QED
    BY <1>10, <2>1, <2>2, FrameKeepsBalance DEF ReclaimDone
<1> QED
  BY <1>0, <1>1, <1>2, <1>3, <1>4, <1>5, <1>6, <1>7, <1>8, <1>9, <1>10 DEF TabStep

-----------------------------------------------------------------------------
(* What Chrome reports *)

(* Chrome's reports keep the invariant. *)
LEMMA ChromeStepKeepsOInv ==
  ASSUME OInv, ChromeStep
  PROVE  OInv'
<1> USE OwnershipAssumption DEF OInv, registries, calls, world
<1>1. ASSUME NEW t \in Targets, TabCloses(t) PROVE OInv'
  <2>1. TypeOK' /\ \A u \in Targets : tab'[u] = "absent" => tab[u] = "absent"
    BY <1>1 DEF TabCloses, TypeOK
  <2>2. LiveShape' /\ PopupShape'
    BY <1>1 DEF TabCloses, LiveShape, PopupShape
  <2> QED
    BY <1>1, <2>1, <2>2, FrameKeepsBalance DEF TabCloses
<1>2. ASSUME NEW t \in Targets, TargetDestroyed(t) \/ RendererCrashes(t) PROVE OInv'
  <2>1. /\ Forget({t}, record)
        /\ notices' \in {notices, notices \ {t}}
        /\ UNCHANGED <<life, live, deleting, reserved, creating, maker, popup, closing,
                       recovering, reclaim, sweeping, deletion, idle, tab>>
    BY <1>2 DEF TargetDestroyed, RendererCrashes
  <2>2. /\ closing' \in [Targets -> Sessions \cup {None}]
        /\ tab' \in [Targets -> {"absent", "spare", "open", "gone", "closed"}]
        /\ notices' \subseteq Targets
    BY <2>1 DEF TypeOK
  <2> QED
    BY <2>1, <2>2, ForgetKeepsOInv
<1>3. CASE ReconnectFailed
  <2> DEFINE T == {t \in Targets : owner[t] # None}
  <2>1. /\ Drop(T, record)
        /\ UNCHANGED <<life, live, deleting, reserved, creating, maker, popup, closing,
                       recovering, reclaim, sweeping, deletion, idle>>
    BY <1>3 DEF ReconnectFailed
  <2>2. /\ lease' \in [Targets -> Sessions \cup {None}]
        /\ tab' \in [Targets -> {"absent", "spare", "open", "gone", "closed"}]
        /\ notices' \subseteq Targets
        /\ \A u \in Targets : tab'[u] = "absent" => tab[u] = "absent"
    BY <1>3 DEF ReconnectFailed, TypeOK
  <2>3. T \in SUBSET Targets
    OBVIOUS
  <2> HIDE DEF T
  <2>4. TypeOK'
    BY <2>1, <2>2, <2>3, DropType DEF TypeOK
  <2>5. LiveShape' /\ PopupShape'
    BY <2>1 DEF LiveShape, PopupShape
  <2> QED
    BY <2>1, <2>2, <2>4, <2>5, FrameKeepsBalance
<1> QED
  BY <1>1, <1>2, <1>3 DEF ChromeStep

-----------------------------------------------------------------------------
(* Popups *)

PopupType ==
  popup \in [Popups -> [stage : {"none", "opened", "queued", "registered", "owned",
                                 "refused", "evicting", "done"},
                        session : Sessions \cup {None},
                        opener : Targets \cup {None}]]

(* The handler goes on to a later stage. *)
LEMMA StageType ==
  ASSUME TypeOK, PopupShape, NEW t \in Popups, NEW stage, Stage(t, stage),
         stage \in {"queued", "registered", "owned", "refused", "evicting", "done"}
  PROVE  PopupType' /\ PopupShape'
<1>1. PopupType
  BY DEF TypeOK, PopupType
<1>2. popup' = [popup EXCEPT ![t].stage = stage]
  BY DEF Stage
<1>3. PopupType'
  BY <1>1, <1>2 DEF PopupType
<1>4. \A u \in Popups : u # t => popup'[u] = popup[u]
  BY <1>1, <1>2 DEF PopupType
<1>5. popup'[t].stage = stage
  BY <1>1, <1>2 DEF PopupType
<1> QED
  BY <1>3, <1>4, <1>5 DEF PopupShape

(* A step of a popup's handler that leaves sessions and creations alone. *)
LEMMA PopupFrame ==
  ASSUME OInv, PopupType', PopupShape',
         UNCHANGED <<life, live, deleting, reserved, creating, maker, closing, recovering,
                     reclaim, sweeping, deletion>>,
         members' \in [Workers -> SUBSET Targets],
         owner' \in [Targets -> Sessions \cup {None}],
         lease' \in [Targets -> Sessions \cup {None}],
         idle' \subseteq Targets,
         borrowed' \subseteq UserTabs,
         record' \in [Popups -> {"none", "pending", "blocked", "closed"}],
         tab' \in [Targets -> {"absent", "spare", "open", "gone", "closed"}],
         notices' \subseteq Targets,
         \A u \in Targets : tab'[u] = "absent" => tab[u] = "absent"
  PROVE  OInv'
<1> USE DEF OInv
<1>1. TypeOK'
  BY DEF TypeOK, PopupType
<1>2. LiveShape'
  BY DEF LiveShape
<1> QED
  BY <1>1, <1>2, FrameKeepsBalance

(* The handler of a popup keeps the invariant. *)
LEMMA PopupStepKeepsOInv ==
  ASSUME OInv, PopupStep
  PROVE  OInv'
<1> USE OwnershipAssumption DEF OInv, registries, calls, world
<1>0. Popups \subseteq Targets
  BY DEF Targets
<1>1. ASSUME NEW t \in Popups, NEW o \in Targets, PopupOpens(t, o) PROVE OInv'
  <2>1. PopupType' /\ PopupShape'
    BY <1>1 DEF PopupOpens, PopupType, PopupShape, TypeOK
  <2>2. /\ tab' \in [Targets -> {"absent", "spare", "open", "gone", "closed"}]
        /\ \A u \in Targets : tab'[u] = "absent" => tab[u] = "absent"
    BY <1>0, <1>1 DEF PopupOpens, TypeOK
  <2>3. UNCHANGED <<life, live, deleting, members, reserved, owner, lease, borrowed, record,
                    creating, maker, closing, recovering, reclaim, sweeping, deletion,
                    idle, notices>>
    BY <1>1 DEF PopupOpens
  <2> QED
    BY <2>1, <2>2, <2>3, PopupFrame DEF TypeOK
<1>2. ASSUME NEW t \in Popups, PopupBegin(t) \/ PopupForbidden(t) PROVE OInv'
  <2>1. UNCHANGED <<life, live, deleting, members, reserved, owner, lease, borrowed,
                    creating, maker, closing, recovering, reclaim, sweeping, deletion,
                    idle, tab, notices>>
    BY <1>2 DEF PopupBegin, PopupForbidden
  <2>2. record' \in [Popups -> {"none", "pending", "blocked", "closed"}]
    BY <1>2 DEF PopupBegin, PopupForbidden, TypeOK
  <2>3. owner[popup[t].opener] \in Sessions \cup {None}
    BY <1>2 DEF PopupBegin, PopupForbidden, PopupShape, TypeOK
  <2>4. PopupType' /\ PopupShape'
    <3>1. CASE Stage(t, "done") \/ Stage(t, "refused")
      BY <3>1, StageType
    <3>2. ASSUME NEW x \in Sessions \cup {None}, NEW stage \in {"queued", "refused"},
                 popup' = [popup EXCEPT ![t] = [stage |-> stage, session |-> x,
                                                opener |-> @.opener]]
          PROVE  PopupType' /\ PopupShape'
      BY <3>2 DEF PopupType, PopupShape, TypeOK
    <3>3. CASE PopupBegin(t)
      BY <3>1, <3>2, <3>3 DEF PopupBegin
    <3>4. CASE PopupForbidden(t)
      BY <2>3, <3>2, <3>4 DEF PopupForbidden
    <3> QED
      BY <1>2, <3>3, <3>4
  <2> QED
    BY <2>1, <2>2, <2>4, PopupFrame DEF TypeOK
<1>3. ASSUME NEW t \in Popups, PopupRegister(t) PROVE OInv'
  <2> DEFINE s == popup[t].session
  <2>1. UNCHANGED <<life, live, deleting, reserved, borrowed, creating, maker, closing,
                    recovering, reclaim, sweeping, deletion, tab, notices>>
    BY <1>3 DEF PopupRegister
  <2>2. Stage(t, "registered") \/ Stage(t, "refused")
    BY <1>3 DEF PopupRegister
  <2>3. record' \in [Popups -> {"none", "pending", "blocked", "closed"}]
    BY <1>3 DEF PopupRegister, MarkBlocked, TypeOK
  <2>4. \/ s \in live /\ Register(WorkerOf(s), t)
        \/ UNCHANGED <<members, owner, lease, idle>>
    BY <1>3 DEF PopupRegister, PopupAccepted, Admits
  <2> HIDE DEF s
  <2>5. /\ members' \in [Workers -> SUBSET Targets]
        /\ owner' \in [Targets -> Sessions \cup {None}]
        /\ lease' \in [Targets -> Sessions \cup {None}]
        /\ idle' \subseteq Targets
    <3>1. CASE s \in live /\ Register(WorkerOf(s), t)
      BY <1>0, <3>1, WorkerOfType, RegisterType
    <3>2. CASE UNCHANGED <<members, owner, lease, idle>>
      BY <3>2 DEF TypeOK
    <3> QED
      BY <2>4, <3>1, <3>2
  <2>6. PopupType' /\ PopupShape'
    BY <2>2, StageType
  <2> QED
    BY <2>1, <2>3, <2>5, <2>6, PopupFrame DEF TypeOK
<1>4. ASSUME NEW t \in Popups, PopupCommit(t) \/ PopupIndex(t) PROVE OInv'
  <2>1. UNCHANGED <<life, live, deleting, reserved, creating, maker, closing,
                    recovering, reclaim, sweeping, deletion, idle, tab, notices>>
    BY <1>4 DEF PopupCommit, PopupIndex
  <2>2. \E stage \in {"owned", "refused", "done", "evicting"} : Stage(t, stage)
    BY <1>4 DEF PopupCommit, PopupIndex
  <2>3. \/ Forget({t}, record)
        \/ UNCHANGED <<members, owner, lease, borrowed>> /\ (UNCHANGED record \/ MarkBlocked(t))
    BY <1>4 DEF PopupCommit, PopupIndex
  <2>4. /\ members' \in [Workers -> SUBSET Targets]
        /\ owner' \in [Targets -> Sessions \cup {None}]
        /\ borrowed' \subseteq UserTabs
        /\ record' \in [Popups -> {"none", "pending", "blocked", "closed"}]
        /\ lease' \in [Targets -> Sessions \cup {None}]
    <3>1. CASE Forget({t}, record)
      BY <1>0, <3>1, ForgetType
    <3>2. CASE ~Forget({t}, record)
      BY <2>3, <3>2 DEF TypeOK, MarkBlocked
    <3> QED
      BY <3>1, <3>2
  <2>5. PopupType' /\ PopupShape'
    BY <2>2, StageType
  <2> QED
    BY <2>1, <2>4, <2>5, PopupFrame DEF TypeOK
<1>5. ASSUME NEW t \in Popups, PopupStrays(t) PROVE OInv'
  <2>1. /\ ClosePage(t)
        /\ UNCHANGED <<life, live, deleting, members, reserved, owner, lease, borrowed,
                       creating, maker, popup, closing, recovering, reclaim, sweeping,
                       deletion, idle>>
    BY <1>5 DEF PopupStrays
  <2>2. record' \in [Popups -> {"none", "pending", "blocked", "closed"}]
    BY <1>5 DEF PopupStrays, MarkBlocked, TypeOK
  <2>3. PopupType' /\ PopupShape'
    BY <2>1 DEF PopupType, PopupShape, TypeOK
  <2>4. /\ tab' \in [Targets -> {"absent", "spare", "open", "gone", "closed"}]
        /\ notices' \subseteq Targets
        /\ \A u \in Targets : tab'[u] = "absent" => tab[u] = "absent"
    BY <1>0, <2>1, ClosePageType
  <2> QED
    BY <2>1, <2>2, <2>3, <2>4, PopupFrame DEF TypeOK
<1>6. ASSUME NEW t \in Popups, PopupClose(t) PROVE OInv'
  <2>1. /\ Stage(t, "done")
        /\ ClosePage(t) \/ UNCHANGED <<tab, notices>>
        /\ Forget({t}, record) \/ UNCHANGED <<members, owner, lease, borrowed, record>>
        /\ UNCHANGED <<life, live, deleting, reserved, creating, maker, closing,
                       recovering, reclaim, sweeping, deletion, idle>>
    BY <1>6 DEF PopupClose
  <2>2. /\ members' \in [Workers -> SUBSET Targets]
        /\ owner' \in [Targets -> Sessions \cup {None}]
        /\ borrowed' \subseteq UserTabs
        /\ record' \in [Popups -> {"none", "pending", "blocked", "closed"}]
        /\ lease' \in [Targets -> Sessions \cup {None}]
    <3>1. CASE Forget({t}, record)
      BY <1>0, <3>1, ForgetType
    <3>2. CASE UNCHANGED <<members, owner, lease, borrowed, record>>
      BY <3>2 DEF TypeOK
    <3> QED
      BY <2>1, <3>1, <3>2
  <2>3. /\ tab' \in [Targets -> {"absent", "spare", "open", "gone", "closed"}]
        /\ notices' \subseteq Targets
        /\ \A u \in Targets : tab'[u] = "absent" => tab[u] = "absent"
    <3>1. CASE ClosePage(t)
      BY <1>0, <3>1, ClosePageType
    <3>2. CASE UNCHANGED <<tab, notices>>
      BY <3>2 DEF TypeOK
    <3> QED
      BY <2>1, <3>1, <3>2
  <2>4. PopupType' /\ PopupShape'
    BY <2>1, StageType
  <2> QED
    BY <2>1, <2>2, <2>3, <2>4, PopupFrame DEF TypeOK
<1> QED
  BY <1>1, <1>2, <1>3, <1>4, <1>5, <1>6 DEF PopupStep

-----------------------------------------------------------------------------

(* A step that changes nothing keeps the invariant. *)
LEMMA StutterKeepsOInv ==
  ASSUME OInv, UNCHANGED vars
  PROVE  OInv'
<1> USE DEF OInv, vars, registries, calls, world
<1>1. TypeOK'
  BY DEF TypeOK
<1>2. LiveShape' /\ PopupShape'
  BY DEF LiveShape, PopupShape
<1> QED
  BY <1>1, <1>2, FrameKeepsBalance

(* The inductive invariant holds in every reachable state. *)
THEOREM OInvHolds == Spec => []OInv
<1>1. OInv /\ [Next]_vars => OInv'
  BY SessionStepKeepsOInv, CreationStepKeepsOInv, TabStepKeepsOInv, ChromeStepKeepsOInv,
     PopupStepKeepsOInv, StutterKeepsOInv DEF Next
<1> QED
  BY <1>1, InitOInv, PTL DEF Spec

(* The registries and the calls in flight keep their types, the counters of  *)
(* reservations their range.                                                 *)
THEOREM OwnershipTypeCorrect == Spec => []TypeOK
<1>1. OInv => TypeOK
  BY DEF OInv
<1> QED
  BY <1>1, OInvHolds, PTL

(* Every slot that reserveTargetSlot took belongs to a creation in flight,   *)
(* with recoveries, deletions and popups in any number around it.            *)
THEOREM SlotsAreReturned == Spec => []ReservationsBalance
<1>1. OInv => ReservationsBalance
  BY DEF OInv
<1> QED
  BY <1>1, OInvHolds, PTL

-----------------------------------------------------------------------------
(* Capacity: every way into the worker of a session that neither recovers    *)
(* untracked tabs nor registers pool pages asks for a place.                 *)

(* Losing targets or reservations does no harm. *)
LEMMA ShrinkKeepsCapacity ==
  ASSUME TypeOK, TypeOK', CapacityRespected,
         \A w \in Workers : members'[w] \in SUBSET members[w] /\ reserved'[w] <= reserved[w]
  PROVE  CapacityRespected'
<1> SUFFICES ASSUME NEW w \in Workers, w[1] \notin Recoverers \cup Batchers
             PROVE  Cardinality(members'[w]) + reserved'[w] <= MaxTargets
  BY DEF CapacityRespected
<1>1. IsFiniteSet(members[w]) /\ Cardinality(members[w]) \in Nat
  BY MembersFinite
<1>2. /\ IsFiniteSet(members'[w]) /\ Cardinality(members'[w]) \in Nat
      /\ Cardinality(members'[w]) <= Cardinality(members[w])
  BY <1>1, FS_Subset, FS_CardinalityType
<1>3. reserved[w] \in Nat /\ reserved'[w] \in Nat /\ MaxTargets \in Nat
  BY OwnershipAssumption DEF TypeOK
<1>4. Cardinality(members[w]) + reserved[w] <= MaxTargets /\ reserved'[w] <= reserved[w]
  BY DEF CapacityRespected
<1> QED
  BY <1>1, <1>2, <1>3, <1>4

(* Registering one target takes at most one place. *)
LEMMA RegisterCounts ==
  ASSUME TypeOK, NEW v \in Workers, NEW t \in Targets, Register(v, t)
  PROVE  /\ Cardinality(members[v]) \in Nat /\ Cardinality(members'[v]) \in Nat
         /\ Cardinality(members'[v]) <= Cardinality(members[v]) + 1
         /\ \A w \in Workers : w # v => members'[w] = members[w]
<1>1. IsFiniteSet(members[v]) /\ Cardinality(members[v]) \in Nat
  BY MembersFinite
<1>2. members'[v] = members[v] \cup {t} /\ \A w \in Workers : w # v => members'[w] = members[w]
  BY DEF Register, TypeOK
<1>3. Cardinality(members[v] \cup {t}) \in {Cardinality(members[v]), Cardinality(members[v]) + 1}
  BY <1>1, FS_AddElement
<1> QED
  BY <1>1, <1>2, <1>3

(* A target enters a worker that is not full. *)
LEMMA AdmissionKeepsCapacity ==
  ASSUME TypeOK, CapacityRespected, NEW v \in Workers, NEW t \in Targets,
         Register(v, t), ~Full(v), UNCHANGED reserved
  PROVE  CapacityRespected'
<1> SUFFICES ASSUME NEW w \in Workers, w[1] \notin Recoverers \cup Batchers
             PROVE  Cardinality(members'[w]) + reserved'[w] <= MaxTargets
  BY DEF CapacityRespected
<1>1. reserved[v] \in Nat /\ MaxTargets \in Nat
  BY OwnershipAssumption DEF TypeOK
<1>2. CASE w = v
  BY <1>1, <1>2, RegisterCounts DEF Full
<1>3. CASE w # v
  <2>1. members'[w] = members[w]
    BY <1>3, RegisterCounts
  <2> QED
    BY <2>1 DEF CapacityRespected
<1> QED
  BY <1>2, <1>3

(* A target that enters unasked enters the worker of a session that recovers *)
(* tabs or registers pool pages, and no other worker.                        *)
LEMMA IntrusionKeepsCapacity ==
  ASSUME TypeOK, CapacityRespected, NEW s \in Recoverers \cup Batchers, NEW t \in Targets,
         WorkerOf(s) \in Workers, Register(WorkerOf(s), t), UNCHANGED reserved
  PROVE  CapacityRespected'
<1> SUFFICES ASSUME NEW w \in Workers, w[1] \notin Recoverers \cup Batchers
             PROVE  Cardinality(members'[w]) + reserved'[w] <= MaxTargets
  BY DEF CapacityRespected
<1>1. w # WorkerOf(s)
  BY DEF WorkerOf
<1>2. members'[w] = members[w]
  BY <1>1, RegisterCounts
<1> QED
  BY <1>2 DEF CapacityRespected

(* onTargetClosed adds no target to any worker. *)
LEMMA DropShrinks ==
  ASSUME TypeOK, NEW T, Drop(T, record)
  PROVE  \A w \in Workers : members'[w] \in SUBSET members[w]
  BY DEF TypeOK, Drop

(* A creation registers in the slot it reserved. *)
LEMMA CreationKeepsCapacity ==
  ASSUME OInv, TypeOK', CapacityRespected, CreationStep
  PROVE  CapacityRespected'
<1> USE OwnershipAssumption DEF OInv, registries
<1>0. ToolTabs \subseteq Targets
  BY DEF Targets
<1>1. ASSUME NEW s \in Sessions, CreateBegin(s) PROVE CapacityRespected'
  <2> DEFINE v == WorkerOf(s)
  <2>1. /\ s \in live /\ ~Full(v) /\ UNCHANGED members
        /\ reserved' = [reserved EXCEPT ![v] = @ + 1]
    BY <1>1 DEF CreateBegin
  <2>2. v \in Workers
    BY <2>1, WorkerOfType
  <2> HIDE DEF v
  <2>3. ASSUME NEW w \in Workers, w[1] \notin Recoverers \cup Batchers
        PROVE  Cardinality(members[w]) + reserved'[w] <= MaxTargets
    <3>1. reserved[w] \in Nat /\ Cardinality(members[w]) \in Nat
      BY MembersFinite DEF TypeOK
    <3>2. CASE w = v
      BY <2>1, <3>1, <3>2 DEF Full, TypeOK
    <3>3. CASE w # v
      BY <2>1, <2>3, <3>3 DEF CapacityRespected, TypeOK
    <3> QED
      BY <3>2, <3>3
  <2> QED
    BY <2>1, <2>3 DEF CapacityRespected
<1>2. ASSUME NEW v \in Workers, CreateFail(v) PROVE CapacityRespected'
  <2>1. \A w \in Workers : members'[w] \in SUBSET members[w] /\ reserved'[w] <= reserved[w]
    BY <1>2 DEF CreateFail, TypeOK
  <2> QED
    BY <2>1, ShrinkKeepsCapacity
<1>3. ASSUME NEW v \in Workers, NEW t \in ToolTabs, CreatePage(v, t) PROVE CapacityRespected'
  BY <1>3 DEF CreatePage, CapacityRespected
<1>4. ASSUME NEW t \in ToolTabs, CreateRegister(t) PROVE CapacityRespected'
  <2> DEFINE v == maker[t]
  <2>1. v # None /\ Register(v, t) /\ reserved' = [reserved EXCEPT ![v] = @ - 1]
    BY <1>4 DEF CreateRegister
  <2>2. v \in Workers /\ t \in Targets
    BY <1>0, <2>1 DEF TypeOK
  <2> HIDE DEF v
  <2> SUFFICES ASSUME NEW w \in Workers, w[1] \notin Recoverers \cup Batchers
               PROVE  Cardinality(members'[w]) + reserved'[w] <= MaxTargets
    BY DEF CapacityRespected
  <2>3. CASE w = v
    <3>1. reserved[v] \in Nat /\ reserved'[v] = reserved[v] - 1
      BY <2>1, <2>2 DEF TypeOK
    <3> QED
      BY <2>1, <2>2, <2>3, <3>1, RegisterCounts DEF CapacityRespected
  <2>4. CASE w # v
    <3>1. members'[w] = members[w] /\ reserved'[w] = reserved[w]
      BY <2>1, <2>2, <2>4, RegisterCounts DEF TypeOK
    <3> QED
      BY <3>1 DEF CapacityRespected
  <2> QED
    BY <2>3, <2>4
<1>5. ASSUME NEW t \in ToolTabs, PageAppears(t) PROVE CapacityRespected'
  BY <1>5 DEF PageAppears, CapacityRespected
<1>6. ASSUME NEW t \in ToolTabs, NEW s \in Sessions, RegisterExternal(s, t)
      PROVE  CapacityRespected'
  <2>1. /\ s \in live /\ ~Full(WorkerOf(s))
        /\ Register(WorkerOf(s), t) /\ UNCHANGED reserved
    BY <1>6 DEF RegisterExternal, Admits
  <2>2. WorkerOf(s) \in Workers /\ t \in Targets
    BY <1>0, <2>1, WorkerOfType
  <2> QED
    BY <2>1, <2>2, AdmissionKeepsCapacity
<1>7. ASSUME NEW t \in ToolTabs, NEW s \in Batchers, RegisterExisting(s, t)
      PROVE  CapacityRespected'
  <2>1. s \in live /\ Register(WorkerOf(s), t) /\ UNCHANGED reserved
    BY <1>7 DEF RegisterExisting
  <2>2. WorkerOf(s) \in Workers /\ t \in Targets
    BY <1>0, <2>1, WorkerOfType
  <2> QED
    BY <2>1, <2>2, IntrusionKeepsCapacity
<1> QED
  BY <1>1, <1>2, <1>3, <1>4, <1>5, <1>6, <1>7 DEF CreationStep

(* The other steps register through Admits or in a worker that is exempt, or *)
(* only lose targets.                                                        *)
LEMMA OtherStepKeepsCapacity ==
  ASSUME OInv, TypeOK', CapacityRespected,
         SessionStep \/ TabStep \/ ChromeStep \/ PopupStep \/ UNCHANGED vars
  PROVE  CapacityRespected'
<1> USE OwnershipAssumption DEF OInv, registries, calls, world
<1>0. UserTabs \subseteq Targets /\ Popups \subseteq Targets
  BY DEF Targets
<1> DEFINE Shrinks == UNCHANGED reserved /\ \A w \in Workers : members'[w] \in SUBSET members[w]
<1>1. ASSUME Shrinks PROVE CapacityRespected'
  <2>1. \A w \in Workers : reserved'[w] <= reserved[w]
    BY <1>1 DEF TypeOK
  <2> QED
    BY <1>1, <2>1, ShrinkKeepsCapacity
<1>2. ASSUME NEW T, Drop(T, record), UNCHANGED reserved PROVE CapacityRespected'
  BY <1>1, <1>2, DropShrinks
<1>3. ASSUME NEW s \in live, NEW t \in Targets, ~Full(WorkerOf(s)),
             Register(WorkerOf(s), t), UNCHANGED reserved
      PROVE  CapacityRespected'
  BY <1>3, WorkerOfType, AdmissionKeepsCapacity
<1>4. ASSUME UNCHANGED <<members, reserved>> PROVE CapacityRespected'
  BY <1>4 DEF CapacityRespected
<1>5. CASE SessionStep
  <2>1. ASSUME NEW s \in Sessions, CreateSession(s) PROVE CapacityRespected'
    BY <1>4, <2>1 DEF CreateSession
  <2>2. ASSUME NEW d \in Deleters, NEW s \in Sessions, DeleteBegin(d, s) PROVE CapacityRespected'
    BY <1>2, <2>2 DEF DeleteBegin, Forget
  <2>3. ASSUME NEW d \in Deleters, NEW t \in Targets, DeleteVisit(d, t) PROVE CapacityRespected'
    BY <1>2, <1>4, <2>3 DEF DeleteVisit, Forget
  <2>4. ASSUME NEW d \in Deleters, DeleteFinish(d) PROVE CapacityRespected'
    BY <1>4, <2>4 DEF DeleteFinish
  <2> QED
    BY <1>5, <2>1, <2>2, <2>3, <2>4 DEF SessionStep
<1>6. CASE TabStep
  <2>1. ASSUME NEW t \in Targets, ReleaseBorrowed(t) \/ FindClosed(t) \/ CloseFail(t)
        PROVE  CapacityRespected'
    BY <1>2, <2>1 DEF ReleaseBorrowed, FindClosed, CloseFail, Forget
  <2>2. ASSUME NEW s \in Sessions, NEW t \in UserTabs, Borrow(s, t) PROVE CapacityRespected'
    BY <1>0, <1>3, <2>2 DEF Borrow, Admits
  <2>3. ASSUME NEW t \in Targets, Use(t) \/ GoIdle(t) \/ CloseBegin(t)
        PROVE  CapacityRespected'
    BY <1>4, <2>3 DEF Use, GoIdle, CloseBegin
  <2>4. ASSUME NEW t \in Targets, CloseFinish(t) PROVE CapacityRespected'
    <3> DEFINE v == WorkerOf(closing[t])
               keep == closing[t] \notin live
    <3>1. /\ members' = [members EXCEPT ![v] = IF ~keep THEN @ \ {t} ELSE @]
          /\ UNCHANGED reserved
      BY <2>4 DEF CloseFinish
    <3> HIDE DEF v, keep
    <3>2. Shrinks
      BY <3>1 DEF TypeOK
    <3> QED
      BY <1>1, <3>2
  <2>5. ASSUME NEW t \in Targets, ExpireLeases(t) \/ ReclaimNext(t) PROVE CapacityRespected'
    BY <1>2, <1>4, <2>5 DEF ExpireLeases, ReclaimNext, Reclaim
  <2>6. CASE ReclaimDone
    BY <1>4, <2>6 DEF ReclaimDone
  <2>7. ASSUME NEW s \in Recoverers, NEW t \in Targets, RecoverBegin(s, t)
        PROVE  CapacityRespected'
    BY <1>4, <2>7 DEF RecoverBegin
  <2>8. ASSUME NEW s \in Recoverers, NEW t \in Targets, RecoverFinish(s, t)
        PROVE  CapacityRespected'
    <3>1. CASE s \in live /\ Register(WorkerOf(s), t)
      <4>1. UNCHANGED reserved
        BY <2>8 DEF RecoverFinish
      <4>2. WorkerOf(s) \in Workers
        BY <3>1, WorkerOfType
      <4> QED
        BY <3>1, <4>1, <4>2, IntrusionKeepsCapacity
    <3>2. CASE UNCHANGED <<members, reserved>>
      BY <1>4, <3>2
    <3> QED
      BY <2>8, <3>1, <3>2 DEF RecoverFinish
  <2> QED
    BY <1>0, <1>6, <2>1, <2>2, <2>3, <2>4, <2>5, <2>6, <2>7, <2>8 DEF TabStep
<1>7. CASE ChromeStep
  <2>1. ASSUME NEW t \in Targets, TabCloses(t) PROVE CapacityRespected'
    BY <1>4, <2>1 DEF TabCloses
  <2>2. ASSUME NEW t \in Targets, TargetDestroyed(t) \/ RendererCrashes(t)
        PROVE  CapacityRespected'
    BY <1>2, <2>2 DEF TargetDestroyed, RendererCrashes, Forget
  <2>3. CASE ReconnectFailed
    BY <1>2, <2>3 DEF ReconnectFailed
  <2> QED
    BY <1>7, <2>1, <2>2, <2>3 DEF ChromeStep
<1>8. CASE PopupStep
  <2>1. ASSUME NEW t \in Popups,
               \/ \E o \in Targets : PopupOpens(t, o)
               \/ PopupBegin(t) \/ PopupForbidden(t) \/ PopupStrays(t)
        PROVE  CapacityRespected'
    BY <1>4, <2>1 DEF PopupOpens, PopupBegin, PopupForbidden, PopupStrays
  <2>2. ASSUME NEW t \in Popups, PopupRegister(t) PROVE CapacityRespected'
    BY <1>0, <1>3, <1>4, <2>2 DEF PopupRegister, PopupAccepted, Admits
  <2>3. ASSUME NEW t \in Popups, PopupCommit(t) \/ PopupIndex(t) \/ PopupClose(t)
        PROVE  CapacityRespected'
    BY <1>2, <1>4, <2>3 DEF PopupCommit, PopupIndex, PopupClose, Forget
  <2> QED
    BY <1>8, <2>1, <2>2, <2>3 DEF PopupStep
<1>9. CASE UNCHANGED vars
  BY <1>4, <1>9 DEF vars
<1> QED
  BY <1>5, <1>6, <1>7, <1>8, <1>9

(* "New work is rejected at capacity", however many creations, popups,       *)
(* headed pages and borrowed tabs compete: a worker never has more targets   *)
(* and reservations than its limit. The two ways in without a check exempt   *)
(* the sessions that use them only: a session that recovers untracked tabs   *)
(* or registers pool pages cannot push another one over its limit.           *)
THEOREM CapacityNeverExceeded == Spec => []CapacityRespected
<1>1. Init => CapacityRespected
  <2> SUFFICES ASSUME Init PROVE CapacityRespected
    OBVIOUS
  <2>1. MaxTargets \in Nat /\ Cardinality({}) = 0
    BY OwnershipAssumption, FS_EmptySet
  <2> QED
    BY <2>1 DEF Init, CapacityRespected
<1>2. OInv /\ OInv' /\ CapacityRespected /\ [Next]_vars => CapacityRespected'
  BY CreationKeepsCapacity, OtherStepKeepsCapacity DEF Next, OInv
<1> QED
  BY <1>1, <1>2, OInvHolds, PTL DEF Spec

================================================================================
