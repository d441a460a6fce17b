------------------------ MODULE OwnershipRegistryProofs ------------------------
(***************************************************************************)
(* Who owns which tab, for any sessions, tabs, limits and bounds: the      *)
(* registries agree, a popup belongs to a session that exists and is       *)
(* forgotten once it is closed, a user's tab is never closed, no tab       *)
(* changes hands, the sweep spares the default session, a deletion orphans *)
(* only what a creation registers late, and the ownership map implements   *)
(* TabLife.                                                                *)
(*                                                                         *)
(* The argument is that a tab enters the registries at most once, but for  *)
(* a user's tab, which enters when nobody has it. FInv says so: whatever   *)
(* may still be registered (it is not Settled) has no owner, no lease, no  *)
(* close under way and no worker. RInv adds how the registries, the loans  *)
(* and the deletions fit together, DInv what a closed popup leaves behind. *)
(***************************************************************************)
EXTENDS TargetOwnershipProofs

(* A window exists once its handler has begun. *)
WindowsExist == \A t \in Popups : popup[t].stage # "none" => tab[t] # "absent"

(* So does the page of a creation; it was not taken from the pool. *)
PagesExist == \A t \in Targets : maker[t] # None => tab[t] \notin {"absent", "spare"}

(* What may still be registered is in no registry. *)
Fresh ==
  \A t \in Targets \ UserTabs :
    ~Settled(t) => /\ owner[t] = None /\ lease[t] = None /\ closing[t] = None
                   /\ \A w \in Workers : t \notin members[w]

(* Only settled tabs are recovered. *)
RecoverSettled == \A r \in recovering : Settled(r[2]) /\ r[2] \notin UserTabs

FInv == WindowsExist /\ PagesExist /\ Fresh /\ RecoverSettled

(* A worker's target is its session's or nobody's. *)
MemberOf == \A w \in Workers : \A t \in members[w] : owner[t] \in {None, w[1]}

(* So is a target that is being closed. *)
ClosingOf == \A t \in Targets : closing[t] # None => owner[t] \in {None, closing[t]}

(* A worker object that has not been made has no targets and no creations. *)
Unborn ==
  \A w \in Workers :
    w[2] > life[w[1]] => /\ members[w] = {} /\ creating[w] = 0
                         /\ \A t \in Targets : maker[t] # w

(* A deletion works on the worker its session has, and what it has visited   *)
(* is out of the ownership map for good.                                     *)
Deletions ==
  \A d \in Deleters :
    LET w == deletion[d].worker
    IN /\ w # None => w[1] \in live \cap deleting /\ w = WorkerOf(w[1])
       /\ \A t \in deletion[d].visited :
            t \notin UserTabs /\ Settled(t) /\ owner[t] = None

(* A user's tab is owned while it is on loan, to a session that is there and *)
(* is not being deleted, and is a target of that session's worker alone.     *)
Loans ==
  \A t \in UserTabs :
    /\ t \notin borrowed => owner[t] = None
    /\ t \in borrowed => /\ owner[t] \in live \ deleting
                         /\ t \in members[WorkerOf(owner[t])]
    /\ closing[t] = None /\ tab[t] # "closed"
    /\ \A w \in Workers :
         t \in members[w] => /\ w[1] \in live \ deleting /\ w = WorkerOf(w[1])
                             /\ t \in borrowed

(* The owner of a popup is there, and its worker lists the popup. *)
PopupHome ==
  \A t \in Popups :
    owner[t] # None => owner[t] \in live /\ t \in members[WorkerOf(owner[t])]

RInv ==
  /\ MemberOf /\ ClosingOf /\ Unborn /\ Deletions /\ Loans /\ PopupHome
  /\ RegistriesAgree

(* Of a popup that is gone and that has an owner Chrome's event is still to  *)
(* come, or the handler is still to look.                                    *)
Reported ==
  \A t \in Popups :
    /\ owner[t] # None /\ tab[t] \in {"gone", "closed"} /\ t \notin notices
    => popup[t].stage \in {"registered", "owned"}

(* A popup whose record is closed has an owner only until its registration   *)
(* is taken back or its close ends.                                          *)
RecordClosed ==
  \A t \in Popups :
    record[t] = "closed" => \/ owner[t] = None
                            \/ popup[t].stage = "registered"
                            \/ closing[t] # None

DInv == Reported /\ RecordClosed

(* No two deletions of one session are under way. *)
OneDeletion ==
  \A d, e \in Deleters :
    /\ deletion[d].worker # None /\ deletion[e].worker # None
    /\ deletion[d].worker[1] = deletion[e].worker[1]
    => d = e

-----------------------------------------------------------------------------
(* How steps move tabs and registries                                        *)

(* Tabs only move on: what is settled stays so. *)
Moving == (\A t \in Targets : Settled(t) => Settled(t)') /\ WindowsExist' /\ PagesExist'

(* The registries only lose entries, and a close is begun for the owner. *)
Losing ==
  /\ \A t \in Targets :
       /\ owner'[t] \in {owner[t], None}
       /\ lease'[t] \in {lease[t], None}
       /\ closing'[t] # None => closing'[t] \in {closing[t], owner[t]}
  /\ \A w \in Workers : members'[w] \subseteq members[w]

(* A target enters the registries. *)
Entering(w, t) ==
  /\ Register(w, t)
  /\ UNCHANGED closing
  /\ t \notin UserTabs => Settled(t)'

(* The kinds of targets, apart. *)
LEMMA Kinds ==
  /\ ToolTabs \subseteq Targets /\ Popups \subseteq Targets /\ UserTabs \subseteq Targets
  /\ \A t \in ToolTabs : t \notin Popups /\ t \notin UserTabs
  /\ \A t \in Popups : t \notin ToolTabs /\ t \notin UserTabs
  BY OwnershipAssumption DEF Targets

(* Tabs that change state are not absent and not in the pool afterwards, a   *)
(* creation ends, and the handler of a window goes on.                       *)
LEMMA MovesOn ==
  ASSUME TypeOK, FInv,
         \A t \in Targets : maker'[t] \in {maker[t], None},
         \A t \in Targets : tab'[t] = tab[t] \/ tab'[t] \notin {"absent", "spare"},
         \A t \in Popups :
           \/ popup'[t].stage = popup[t].stage
           \/ /\ popup[t].stage # "none"
              /\ popup'[t].stage \notin {"none", "opened", "queued"}
  PROVE  Moving
<1>1. WindowsExist'
  BY Kinds DEF FInv, WindowsExist
<1>2. PagesExist'
  BY DEF FInv, PagesExist
<1>3. ASSUME NEW t \in Targets, Settled(t) PROVE Settled(t)'
  BY <1>3, Kinds DEF Settled
<1> QED
  BY <1>1, <1>2, <1>3 DEF Moving

(* Nothing the movements are about has changed. *)
LEMMA StandsStill ==
  ASSUME TypeOK, FInv, UNCHANGED <<maker, tab, popup>>
  PROVE  Moving
  BY MovesOn

(* Losing entries keeps FInv. *)
LEMMA LosingKeepsFInv ==
  ASSUME OInv, FInv, Moving, Losing, recovering' \subseteq recovering
  PROVE  FInv'
<1>1. Fresh'
  <2> SUFFICES ASSUME NEW t \in Targets \ UserTabs, ~Settled(t)'
               PROVE  /\ owner'[t] = None /\ lease'[t] = None /\ closing'[t] = None
                      /\ \A w \in Workers : t \notin members'[w]
    BY DEF Fresh
  <2>1. ~Settled(t)
    BY DEF Moving
  <2>2. /\ owner[t] = None /\ lease[t] = None /\ closing[t] = None
        /\ \A w \in Workers : t \notin members[w]
    BY <2>1 DEF FInv, Fresh
  <2> QED
    BY <2>2 DEF Losing
<1>2. RecoverSettled'
  <2> SUFFICES ASSUME NEW r \in recovering' PROVE Settled(r[2])' /\ r[2] \notin UserTabs
    BY DEF RecoverSettled
  <2>1. r[2] \in Targets
    BY DEF OInv, TypeOK
  <2> QED
    BY <2>1 DEF FInv, RecoverSettled, Moving
<1> QED
  BY <1>1, <1>2 DEF FInv, Moving

(* So does a registration. *)
LEMMA EnteringKeepsFInv ==
  ASSUME OInv, FInv, Moving, NEW v \in Workers, NEW x \in Targets, Entering(v, x),
         recovering' \subseteq recovering
  PROVE  FInv'
<1>1. Fresh'
  <2> SUFFICES ASSUME NEW t \in Targets \ UserTabs, ~Settled(t)'
               PROVE  /\ owner'[t] = None /\ lease'[t] = None /\ closing'[t] = None
                      /\ \A w \in Workers : t \notin members'[w]
    BY DEF Fresh
  <2>1. ~Settled(t) /\ t # x
    BY DEF Moving, Entering
  <2>2. /\ owner[t] = None /\ lease[t] = None /\ closing[t] = None
        /\ \A w \in Workers : t \notin members[w]
    BY <2>1 DEF FInv, Fresh
  <2>3. /\ owner'[t] = owner[t] /\ lease'[t] = lease[t] /\ closing'[t] = closing[t]
    BY <2>1 DEF Entering, Register, OInv, TypeOK
  <2>4. ASSUME NEW w \in Workers PROVE t \notin members'[w]
    BY <2>1, <2>2 DEF Entering, Register, OInv, TypeOK
  <2> QED
    BY <2>2, <2>3, <2>4
<1>2. RecoverSettled'
  <2> SUFFICES ASSUME NEW r \in recovering' PROVE Settled(r[2])' /\ r[2] \notin UserTabs
    BY DEF RecoverSettled
  <2>1. r[2] \in Targets
    BY DEF OInv, TypeOK
  <2> QED
    BY <2>1 DEF FInv, RecoverSettled, Moving
<1> QED
  BY <1>1, <1>2 DEF FInv, Moving

(* onTargetClosed loses what it forgets. *)
LEMMA DropLoses ==
  ASSUME TypeOK, NEW T, NEW r, Drop(T, r)
  PROVE  /\ \A t \in Targets : owner'[t] = IF t \in T THEN None ELSE owner[t]
         /\ \A w \in Workers : members'[w] \subseteq members[w]
  BY DEF TypeOK, Drop

(* And so does the release of leases. *)
LEMMA ForgetLoses ==
  ASSUME TypeOK, NEW T, NEW r, Forget(T, r), UNCHANGED closing
  PROVE  Losing
<1>1. \A t \in Targets : lease'[t] \in {lease[t], None}
  BY DEF Forget, Released
<1> QED
  BY <1>1, DropLoses DEF Forget, Losing

(* A page that is closed moves on. *)
LEMMA ClosePageMoves ==
  ASSUME TypeOK, NEW t \in Targets, ClosePage(t) \/ UNCHANGED <<tab, notices>>
  PROVE  \A u \in Targets : tab'[u] = tab[u] \/ (u = t /\ tab'[u] = "closed")
  BY DEF TypeOK, ClosePage

(* Nothing is registered, recovered or brought back. *)
Calm == Moving /\ Losing /\ recovering' \subseteq recovering

(* Creating and deleting sessions registers nothing. *)
LEMMA SessionStepCalm ==
  ASSUME OInv, FInv, SessionStep
  PROVE  Calm
<1> USE DEF OInv, calls, world
<1>1. ASSUME NEW s \in Sessions, CreateSession(s) PROVE Calm
  BY <1>1, StandsStill DEF CreateSession, Losing, Calm
<1>2. ASSUME NEW d \in Deleters, NEW s \in Sessions, DeleteBegin(d, s) PROVE Calm
  BY <1>2, StandsStill, ForgetLoses DEF DeleteBegin, Calm
<1>3. ASSUME NEW d \in Deleters, NEW t \in Targets, DeleteVisit(d, t) PROVE Calm
  <2> DEFINE w == deletion[d].worker
             T == {t} \cap {u \in Targets : owner[u] = w[1]}
  <2>1. \/ Forget(T, record) /\ UNCHANGED <<tab, notices>>
        \/ /\ ClosePage(t) \/ UNCHANGED <<tab, notices>>
           /\ owner' = [owner EXCEPT ![t] = None]
           /\ lease' = [lease EXCEPT ![t] = IF @ = w[1] THEN None ELSE @]
           /\ UNCHANGED <<members, borrowed, record>>
    BY <1>3 DEF DeleteVisit
  <2>2. UNCHANGED <<maker, popup, closing, recovering>>
    BY <1>3 DEF DeleteVisit
  <2> HIDE DEF w, T
  <2>3. Losing
    <3>1. CASE Forget(T, record)
      BY <2>2, <3>1, ForgetLoses
    <3>2. CASE ~Forget(T, record)
      <4>1. /\ owner' = [owner EXCEPT ![t] = None]
            /\ lease' = [lease EXCEPT ![t] = IF @ = w[1] THEN None ELSE @]
            /\ UNCHANGED members
        BY <2>1, <3>2
      <4>2. \A u \in Targets : owner'[u] \in {owner[u], None} /\ lease'[u] \in {lease[u], None}
        BY <4>1 DEF TypeOK
      <4> QED
        BY <2>2, <4>1, <4>2 DEF Losing
    <3> QED
      BY <3>1, <3>2
  <2>4. Moving
    BY <2>1, <2>2, ClosePageMoves, MovesOn
  <2> QED
    BY <2>2, <2>3, <2>4 DEF Calm
<1>4. ASSUME NEW d \in Deleters, DeleteFinish(d) PROVE Calm
  <2>1. \A t \in Targets : lease'[t] \in {lease[t], None}
    BY <1>4 DEF DeleteFinish
  <2> QED
    BY <1>4, <2>1, StandsStill DEF DeleteFinish, Losing, Calm
<1> QED
  BY <1>1, <1>2, <1>3, <1>4 DEF SessionStep

(* Nor do the steps of a creation before its page is there. *)
LEMMA CreatingCalm ==
  ASSUME OInv, FInv,
         \/ \E s \in Sessions : CreateBegin(s)
         \/ \E w \in Workers : CreateFail(w) \/ \E t \in ToolTabs : CreatePage(w, t)
         \/ \E t \in ToolTabs : PageAppears(t)
  PROVE  Calm
<1> USE DEF OInv, registries, calls, world
<1>1. ASSUME NEW s \in Sessions, CreateBegin(s) PROVE Calm
  BY <1>1, StandsStill DEF CreateBegin, Losing, Calm
<1>2. ASSUME NEW w \in Workers, CreateFail(w) PROVE Calm
  BY <1>2, StandsStill DEF CreateFail, Losing, Calm
<1>3. ASSUME NEW w \in Workers, NEW t \in ToolTabs, CreatePage(w, t) PROVE Calm
  <2>1. /\ tab[t] = "absent"
        /\ maker' = [maker EXCEPT ![t] = w]
        /\ tab' = [tab EXCEPT ![t] = "open"]
        /\ UNCHANGED <<owner, lease, members, closing, popup, recovering>>
    BY <1>3 DEF CreatePage
  <2>2. ASSUME NEW u \in Targets, Settled(u) PROVE Settled(u)'
    BY <2>1, <2>2, Kinds DEF Settled, TypeOK
  <2>3. WindowsExist' /\ PagesExist'
    BY <2>1, Kinds DEF FInv, WindowsExist, PagesExist, TypeOK
  <2> QED
    BY <2>1, <2>2, <2>3 DEF Moving, Losing, Calm
<1>4. ASSUME NEW t \in ToolTabs, PageAppears(t) PROVE Calm
  <2>1. /\ tab[t] = "absent"
        /\ tab' = [tab EXCEPT ![t] = "spare"]
        /\ UNCHANGED <<owner, lease, members, closing, popup, recovering, maker>>
    BY <1>4 DEF PageAppears
  <2>2. ASSUME NEW u \in Targets, Settled(u) PROVE Settled(u)'
    BY <2>1, <2>2, Kinds DEF Settled, TypeOK
  <2>3. WindowsExist' /\ PagesExist'
    BY <2>1, Kinds DEF FInv, WindowsExist, PagesExist, TypeOK
  <2> QED
    BY <2>1, <2>2, <2>3 DEF Moving, Losing, Calm
<1> QED
  BY <1>1, <1>2, <1>3, <1>4

(* The sweep begins a close for the owner, or hands a tab back. *)
LEMMA ReclaimLoses ==
  ASSUME TypeOK, NEW s, NEW t \in Targets, Reclaim(s, t)
  PROVE  /\ \A u \in Targets : owner'[u] \in {owner[u], None}
         /\ \A u \in Targets : closing'[u] # None => closing'[u] \in {closing[u], owner[u]}
         /\ \A w \in Workers : members'[w] \subseteq members[w]
<1>1. CASE t \in borrowed
  BY <1>1, DropLoses DEF Reclaim
<1>2. CASE t \notin borrowed
  BY <1>2 DEF Reclaim, CanClose, TypeOK
<1> QED
  BY <1>1, <1>2

(* Using, closing and reclaiming tabs registers nothing. *)
LEMMA TabUseCalm ==
  ASSUME OInv, FInv, NEW t \in Targets,
         \/ ReleaseBorrowed(t) \/ Use(t) \/ GoIdle(t) \/ FindClosed(t)
         \/ CloseBegin(t) \/ CloseFinish(t) \/ CloseFail(t)
         \/ ExpireLeases(t) \/ ReclaimNext(t) \/ ReclaimDone
  PROVE  Calm
<1> USE DEF OInv, registries, calls, world
<1>1. CASE ReleaseBorrowed(t) \/ FindClosed(t)
  BY <1>1, StandsStill, ForgetLoses DEF ReleaseBorrowed, FindClosed, Calm
<1>2. CASE Use(t) \/ GoIdle(t) \/ ReclaimDone
  BY <1>2, StandsStill DEF Use, GoIdle, ReclaimDone, Losing, Calm
<1>3. CASE CloseBegin(t)
  BY <1>3, StandsStill DEF CloseBegin, Losing, Calm, TypeOK
<1>4. CASE CloseFinish(t)
  <2> DEFINE s == closing[t]
             v == WorkerOf(s)
             there == s \in live
  <2>1. /\ ClosePage(t)
        /\ members' = [members EXCEPT ![v] = IF there THEN @ \ {t} ELSE @]
        /\ owner' = [owner EXCEPT ![t] = None]
        /\ lease' = [lease EXCEPT ![t] = IF @ = s THEN None ELSE @]
        /\ closing' = [closing EXCEPT ![t] = None]
        /\ UNCHANGED <<maker, popup, recovering>>
    BY <1>4 DEF CloseFinish
  <2> HIDE DEF s, v, there
  <2>2. Moving
    BY <2>1, ClosePageMoves, MovesOn
  <2>3. \A u \in Targets : /\ owner'[u] \in {owner[u], None} /\ lease'[u] \in {lease[u], None}
                           /\ closing'[u] # None => closing'[u] = closing[u]
    BY <2>1 DEF TypeOK
  <2>4. \A w \in Workers : members'[w] \subseteq members[w]
    BY <2>1 DEF TypeOK
  <2> QED
    BY <2>1, <2>2, <2>3, <2>4 DEF Losing, Calm
<1>5. CASE CloseFail(t)
  <2>1. Forget({t}, record) /\ closing' = [closing EXCEPT ![t] = None]
        /\ UNCHANGED <<maker, tab, popup, recovering>>
    BY <1>5 DEF CloseFail
  <2>2. \A u \in Targets : lease'[u] \in {lease[u], None}
    BY <2>1 DEF Forget, Released
  <2>3. \A u \in Targets : closing'[u] # None => closing'[u] = closing[u]
    BY <2>1 DEF TypeOK
  <2>4. Losing
    BY <2>1, <2>2, <2>3, DropLoses DEF Forget, Losing
  <2> QED
    BY <2>1, <2>4, StandsStill DEF Calm
<1>6. CASE ExpireLeases(t)
  <2>1. Reclaim(lease[t], t) /\ UNCHANGED <<maker, tab, popup, recovering>>
    BY <1>6 DEF ExpireLeases
  <2>2. \A u \in Targets : lease'[u] \in {lease[u], None}
    BY <1>6 DEF ExpireLeases
  <2> QED
    BY <2>1, <2>2, StandsStill, ReclaimLoses DEF Losing, Calm
<1>7. CASE ReclaimNext(t)
  <2>1. Reclaim(reclaim[t], t) /\ UNCHANGED <<maker, tab, popup, recovering>>
    BY <1>7 DEF ReclaimNext
  <2>2. \A u \in Targets : lease'[u] \in {lease[u], None}
    BY <1>7 DEF ReclaimNext, Released
  <2> QED
    BY <2>1, <2>2, StandsStill, ReclaimLoses DEF Losing, Calm
<1> QED
  BY <1>1, <1>2, <1>3, <1>4, <1>5, <1>6, <1>7

(* Nor do Chrome's events. *)
LEMMA ChromeStepCalm ==
  ASSUME OInv, FInv, ChromeStep
  PROVE  Calm
<1> USE DEF OInv, registries, calls, world
<1>1. ASSUME NEW t \in Targets, TabCloses(t) PROVE Calm
  <2>1. Moving
    BY <1>1, MovesOn DEF TabCloses, TypeOK
  <2> QED
    BY <1>1, <2>1 DEF TabCloses, Losing, Calm
<1>2. ASSUME NEW t \in Targets, TargetDestroyed(t) \/ RendererCrashes(t) PROVE Calm
  BY <1>2, StandsStill, ForgetLoses DEF TargetDestroyed, RendererCrashes, Calm
<1>3. CASE ReconnectFailed
  <2> DEFINE owned == {t \in Targets : owner[t] # None}
  <2>1. /\ Drop(owned, record)
        /\ lease' = [t \in Targets |-> IF t \in owned THEN None ELSE lease[t]]
        /\ \A u \in Targets : tab'[u] = tab[u] \/ tab'[u] = "gone"
        /\ UNCHANGED <<maker, popup, recovering, closing>>
    BY <1>3 DEF ReconnectFailed
  <2>2. Moving
    BY <2>1, MovesOn
  <2>3. Losing
    BY <2>1, DropLoses DEF Losing
  <2> QED
    BY <2>1, <2>2, <2>3 DEF Calm
<1> QED
  BY <1>1, <1>2, <1>3 DEF ChromeStep

(* The stage of one handler changes. *)
LEMMA StageMoves ==
  ASSUME TypeOK, FInv, NEW t \in Popups, NEW stage, popup' = [popup EXCEPT ![t].stage = stage],
         popup[t].stage # "none", stage \notin {"none", "opened", "queued"},
         UNCHANGED maker,
         \A u \in Targets : tab'[u] = tab[u] \/ tab'[u] \notin {"absent", "spare"}
  PROVE  Moving
<1>1. \A u \in Popups : \/ popup'[u].stage = popup[u].stage
                        \/ u = t /\ popup'[u].stage = stage
  BY DEF TypeOK
<1> QED
  BY <1>1, MovesOn

(* The steps of a popup other than its registration. *)
LEMMA PopupCalm ==
  ASSUME OInv, FInv, NEW t \in Popups,
         \/ \E o \in Targets \ {t} : PopupOpens(t, o)
         \/ PopupBegin(t) \/ PopupForbidden(t) \/ PopupStrays(t)
         \/ PopupCommit(t) \/ PopupIndex(t) \/ PopupClose(t)
  PROVE  Calm
<1> USE Kinds DEF OInv, registries, calls, world
<1>1. ASSUME NEW o \in Targets, PopupOpens(t, o) PROVE Calm
  <2>1. /\ tab[t] = "absent"
        /\ tab' = [tab EXCEPT ![t] = "open"]
        /\ popup' = [popup EXCEPT ![t] = [stage |-> "opened", session |-> None, opener |-> o]]
        /\ UNCHANGED <<owner, lease, members, closing, maker, recovering>>
    BY <1>1 DEF PopupOpens
  <2>2. popup[t].stage = "none"
    BY <2>1 DEF FInv, WindowsExist
  <2>3. \A u \in Popups : u # t => popup'[u] = popup[u]
    BY <2>1 DEF TypeOK
  <2>4. ASSUME NEW u \in Targets, Settled(u) PROVE Settled(u)'
    BY <2>1, <2>2, <2>3, <2>4 DEF Settled, TypeOK
  <2>5. WindowsExist'
    BY <2>1, <2>3 DEF FInv, WindowsExist, TypeOK
  <2>6. PagesExist'
    BY <2>1 DEF FInv, PagesExist, TypeOK
  <2> QED
    BY <2>1, <2>4, <2>5, <2>6 DEF Moving, Losing, Calm
<1>2. ASSUME PopupBegin(t) \/ PopupForbidden(t) PROVE Calm
  <2>1. popup[t].stage = "opened" /\ UNCHANGED <<owner, lease, members, closing, maker, tab, recovering>>
    BY <1>2 DEF PopupBegin, PopupForbidden
  <2>2. \A u \in Popups : /\ u # t => popup'[u] = popup[u]
                          /\ popup'[t].stage # "none"
    BY <1>2 DEF PopupBegin, PopupForbidden, Stage, TypeOK
  <2>3. ASSUME NEW u \in Targets, Settled(u) PROVE Settled(u)'
    BY <2>1, <2>2, <2>3 DEF Settled
  <2>4. WindowsExist' /\ PagesExist'
    BY <2>1, <2>2 DEF FInv, WindowsExist, PagesExist
  <2> QED
    BY <2>1, <2>3, <2>4 DEF Moving, Losing, Calm
<1>3. ASSUME PopupStrays(t) PROVE Calm
  <2>1. ClosePage(t) /\ UNCHANGED <<owner, lease, members, closing, maker, popup, recovering>>
    BY <1>3 DEF PopupStrays
  <2>2. Moving
    BY <2>1, ClosePageMoves, MovesOn
  <2> QED
    BY <2>1, <2>2 DEF Losing, Calm
<1>4. ASSUME PopupCommit(t) PROVE Calm
  <2>1. /\ popup[t].stage = "registered" /\ UNCHANGED <<closing, maker, tab, recovering>>
        /\ Stage(t, "owned") \/ Stage(t, "refused")
        /\ UNCHANGED <<owner, lease, members>> \/ Forget({t}, record)
    BY <1>4 DEF PopupCommit
  <2>2. Moving
    BY <2>1, StageMoves DEF Stage
  <2>3. Losing
    BY <2>1, ForgetLoses DEF Losing
  <2> QED
    BY <2>1, <2>2, <2>3 DEF Calm
<1>5. ASSUME PopupIndex(t) PROVE Calm
  <2>1. /\ popup[t].stage = "owned" /\ UNCHANGED <<closing, maker, tab, recovering>>
        /\ Stage(t, "done") \/ Stage(t, "refused") \/ Stage(t, "evicting")
        /\ UNCHANGED <<owner, lease, members>> \/ Forget({t}, record)
    BY <1>5 DEF PopupIndex
  <2>2. Moving
    BY <2>1, StageMoves DEF Stage
  <2>3. Losing
    BY <2>1, ForgetLoses DEF Losing
  <2> QED
    BY <2>1, <2>2, <2>3 DEF Calm
<1>6. ASSUME PopupClose(t) PROVE Calm
  <2>1. /\ popup[t].stage \in {"refused", "evicting"} /\ UNCHANGED <<closing, maker, recovering>>
        /\ Stage(t, "done")
        /\ ClosePage(t) \/ UNCHANGED <<tab, notices>>
        /\ UNCHANGED <<owner, lease, members>> \/ Forget({t}, record)
    BY <1>6 DEF PopupClose
  <2>0. \A u \in Targets : tab'[u] = tab[u] \/ tab'[u] \notin {"absent", "spare"}
    BY <2>1, ClosePageMoves
  <2>2. Moving
    <3>1. popup[t].stage # "none" /\ UNCHANGED maker
      BY <2>1
    <3>2. popup' = [popup EXCEPT ![t].stage = "done"]
      BY <2>1 DEF Stage
    <3>3. \A u \in Popups : \/ popup'[u].stage = popup[u].stage
                            \/ popup[u].stage # "none" /\ popup'[u].stage = "done"
      BY <3>1, <3>2 DEF TypeOK
    <3> QED
      BY <2>0, <3>1, <3>3, MovesOn
  <2>3. Losing
    BY <2>1, ForgetLoses DEF Losing
  <2> QED
    BY <2>1, <2>2, <2>3 DEF Calm
<1> QED
  BY <1>1, <1>2, <1>3, <1>4, <1>5, <1>6

-----------------------------------------------------------------------------
(* The ways into the registries                                              *)

(* A creation registers a page that nobody else can register. *)
LEMMA CreateRegisterEnters ==
  ASSUME OInv, FInv, NEW t \in ToolTabs, CreateRegister(t)
  PROVE  /\ maker[t] \in Workers /\ ~Settled(t)
         /\ Moving /\ Entering(maker[t], t) /\ UNCHANGED recovering
<1> USE DEF OInv
<1>1. /\ maker[t] # None /\ Register(maker[t], t)
      /\ maker' = [maker EXCEPT ![t] = None]
      /\ UNCHANGED <<closing, tab, popup, recovering>>
  BY DEF CreateRegister
<1>2. maker[t] \in Workers /\ ~Settled(t) /\ t \notin Popups
  BY <1>1, Kinds DEF TypeOK, Settled
<1>3. Moving
  BY <1>1, MovesOn DEF TypeOK
<1>4. Settled(t)'
  BY <1>1, <1>2, Kinds DEF Settled, FInv, PagesExist, TypeOK
<1> QED
  BY <1>1, <1>2, <1>3, <1>4 DEF Entering

(* A pool page and a headed page leave the pool as they are registered. *)
LEMMA SpareEnters ==
  ASSUME OInv, FInv, NEW s \in Sessions, NEW t \in ToolTabs,
         RegisterExisting(s, t) \/ RegisterExternal(s, t)
  PROVE  /\ s \in live /\ WorkerOf(s) \in Workers /\ ~Settled(t)
         /\ Moving /\ Entering(WorkerOf(s), t) /\ UNCHANGED recovering
<1> USE DEF OInv
<1>1. /\ s \in live /\ tab[t] = "spare" /\ Register(WorkerOf(s), t)
      /\ tab' = [tab EXCEPT ![t] = "open"]
      /\ UNCHANGED <<closing, maker, popup, recovering>>
  BY DEF RegisterExisting, RegisterExternal, Admits, calls
<1>2. WorkerOf(s) \in Workers /\ ~Settled(t) /\ t \notin Popups /\ t \in Targets
  BY <1>1, Kinds, WorkerOfType DEF Settled
<1>3. Moving
  BY <1>1, MovesOn DEF TypeOK
<1>4. maker[t] = None /\ tab'[t] = "open"
  BY <1>1, <1>2 DEF FInv, PagesExist, TypeOK
<1>5. Settled(t)'
  BY <1>1, <1>2, <1>4 DEF Settled
<1> QED
  BY <1>1, <1>2, <1>3, <1>5 DEF Entering

(* A user's tab is borrowed when nobody has it. *)
LEMMA BorrowEnters ==
  ASSUME OInv, FInv, NEW s \in Sessions, NEW t \in UserTabs, Borrow(s, t)
  PROVE  /\ s \in live \ deleting /\ WorkerOf(s) \in Workers /\ owner[t] = None
         /\ Moving /\ Entering(WorkerOf(s), t) /\ UNCHANGED recovering
<1> USE DEF OInv
<1>1. /\ s \in live /\ s \notin deleting /\ owner[t] = None /\ Register(WorkerOf(s), t)
      /\ UNCHANGED <<closing, tab, maker, popup, recovering>>
  BY DEF Borrow, Admits, calls
<1>2. WorkerOf(s) \in Workers
  BY <1>1, WorkerOfType
<1> QED
  BY <1>1, <1>2, StandsStill DEF Entering

(* The handler of a popup registers it, or takes it for registered, or       *)
(* refuses it.                                                               *)
LEMMA PopupRegisters ==
  ASSUME OInv, FInv, NEW t \in Popups, PopupRegister(t)
  PROVE  /\ Moving /\ UNCHANGED recovering
         /\ \/ Losing /\ UNCHANGED <<owner, members, lease, closing, borrowed>>
            \/ LET s == popup[t].session
               IN /\ s \in live \ deleting /\ WorkerOf(s) \in Workers /\ ~Settled(t)
                  /\ Entering(WorkerOf(s), t) /\ popup'[t].stage = "registered"
<1> USE DEF OInv
<1> DEFINE s == popup[t].session
<1>1. /\ popup[t].stage = "queued"
      /\ UNCHANGED <<life, live, closing, tab, maker, recovering, borrowed>>
      /\ \/ PopupAccepted(t) /\ Register(WorkerOf(s), t) /\ Stage(t, "registered")
         \/ /\ Stage(t, "registered") \/ Stage(t, "refused")
            /\ UNCHANGED <<members, owner, lease>>
  BY DEF PopupRegister
<1>2. Moving
  BY <1>1, StageMoves DEF Stage
<1>3. CASE UNCHANGED <<members, owner, lease>>
  BY <1>1, <1>2, <1>3 DEF Losing
<1>4. CASE PopupAccepted(t) /\ Register(WorkerOf(s), t) /\ Stage(t, "registered")
  <2>1. s \in live \ deleting
    BY <1>4 DEF PopupAccepted, Admits
  <2>2. WorkerOf(s) \in Workers /\ ~Settled(t) /\ t \notin ToolTabs
    BY <1>1, <2>1, WorkerOfType, Kinds DEF Settled
  <2>3. popup'[t].stage = "registered"
    BY <1>4 DEF Stage, TypeOK
  <2>4. Settled(t)'
    BY <2>2, <2>3 DEF Settled
  <2> QED
    BY <1>1, <1>2, <1>4, <2>1, <2>2, <2>3, <2>4 DEF Entering
<1> QED
  BY <1>1, <1>2, <1>3, <1>4

(* A recovery is about a settled tab. *)
LEMMA RecoveryKeepsFInv ==
  ASSUME OInv, FInv, NEW s \in Recoverers, NEW t \in Targets,
         RecoverBegin(s, t) \/ RecoverFinish(s, t)
  PROVE  FInv'
<1> USE OwnershipAssumption DEF OInv, registries, calls, world
<1>1. t \notin UserTabs
  OBVIOUS
<1>2. CASE RecoverBegin(s, t)
  <2>1. Settled(t)
    BY <1>2 DEF RecoverBegin, Settled
  <2>2. /\ recovering' = recovering \cup {<<s, t>>}
        /\ UNCHANGED <<owner, lease, members, closing, tab, maker, popup>>
    BY <1>2 DEF RecoverBegin
  <2>3. Moving
    BY <2>2, StandsStill
  <2>4. Fresh'
    BY <2>2 DEF FInv, Fresh, Settled
  <2>5. RecoverSettled'
    <3> SUFFICES ASSUME NEW r \in recovering' PROVE Settled(r[2])' /\ r[2] \notin UserTabs
      BY DEF RecoverSettled
    <3>1. CASE r \in recovering
      BY <3>1, <2>3 DEF FInv, RecoverSettled, Moving, TypeOK
    <3>2. CASE r = <<s, t>>
      BY <1>1, <2>1, <2>3, <3>2 DEF Moving
    <3> QED
      BY <2>2, <3>1, <3>2
  <2> QED
    BY <2>3, <2>4, <2>5 DEF FInv, Moving
<1>3. CASE RecoverFinish(s, t)
  <2>1. /\ <<s, t>> \in recovering /\ recovering' \subseteq recovering
        /\ UNCHANGED <<closing, tab, maker, popup>>
        /\ \/ s \in live /\ Register(WorkerOf(s), t)
           \/ UNCHANGED <<members, owner, lease, idle>>
    BY <1>3 DEF RecoverFinish
  <2>2. Moving
    BY <2>1, StandsStill
  <2>3. CASE UNCHANGED <<members, owner, lease, idle>>
    BY <2>1, <2>2, <2>3, LosingKeepsFInv DEF Losing
  <2>4. CASE s \in live /\ Register(WorkerOf(s), t)
    <3>1. WorkerOf(s) \in Workers
      BY <2>4, WorkerOfType
    <3>2. Settled(t)
      BY <2>1 DEF FInv, RecoverSettled
    <3>3. Entering(WorkerOf(s), t)
      BY <2>1, <2>2, <2>4, <3>2 DEF Entering, Moving
    <3> QED
      BY <2>1, <2>2, <3>1, <3>3, EnteringKeepsFInv
  <2> QED
    BY <2>1, <2>3, <2>4
<1> QED
  BY <1>2, <1>3

(* Every step keeps FInv. *)
LEMMA StepKeepsFInv ==
  ASSUME OInv, FInv, [Next]_vars
  PROVE  FInv'
<1>1. ASSUME Calm PROVE FInv'
  BY <1>1, LosingKeepsFInv DEF Calm
<1>2. CASE SessionStep
  BY <1>1, <1>2, SessionStepCalm
<1>3. CASE CreationStep
  <2>1. ASSUME NEW t \in ToolTabs, CreateRegister(t) PROVE FInv'
    BY <2>1, Kinds, CreateRegisterEnters, EnteringKeepsFInv
  <2>2. ASSUME NEW t \in ToolTabs, NEW s \in Sessions, RegisterExisting(s, t) \/ RegisterExternal(s, t)
        PROVE  FInv'
    BY <2>2, Kinds, SpareEnters, EnteringKeepsFInv
  <2> QED
    BY <1>1, <1>3, <2>1, <2>2, CreatingCalm, OwnershipAssumption DEF CreationStep
<1>4. CASE TabStep
  <2>1. ASSUME NEW s \in Sessions, NEW t \in UserTabs, Borrow(s, t) PROVE FInv'
    BY <2>1, Kinds, BorrowEnters, EnteringKeepsFInv
  <2>2. ASSUME NEW t \in Targets,
               \/ ReleaseBorrowed(t) \/ Use(t) \/ GoIdle(t) \/ FindClosed(t)
               \/ CloseBegin(t) \/ CloseFinish(t) \/ CloseFail(t)
               \/ ExpireLeases(t) \/ ReclaimNext(t)
        PROVE  FInv'
    BY <1>1, <2>2, TabUseCalm
  <2>3. CASE ReclaimDone
    <3>1. UNCHANGED <<owner, lease, members, closing, maker, tab, popup, recovering>>
      BY <2>3 DEF ReclaimDone, registries, world
    <3>2. Moving
      BY <3>1, StandsStill DEF OInv
    <3> QED
      BY <1>1, <3>1, <3>2 DEF Losing, Calm
  <2> QED
    BY <1>4, <2>1, <2>2, <2>3, Kinds, RecoveryKeepsFInv DEF TabStep
<1>5. CASE ChromeStep
  BY <1>1, <1>5, ChromeStepCalm
<1>6. CASE PopupStep
  <2>1. ASSUME NEW t \in Popups, PopupRegister(t) PROVE FInv'
    BY <2>1, Kinds, PopupRegisters, LosingKeepsFInv, EnteringKeepsFInv
  <2> QED
    BY <1>1, <1>6, <2>1, PopupCalm DEF PopupStep
<1>7. CASE UNCHANGED vars
  <2>1. UNCHANGED <<owner, lease, members, closing, maker, tab, popup, recovering>>
    BY <1>7 DEF vars, registries, calls, world
  <2>2. Moving
    BY <2>1, StandsStill DEF OInv
  <2> QED
    BY <1>1, <2>1, <2>2 DEF Losing, Calm
<1> QED
  BY <1>2, <1>3, <1>4, <1>5, <1>6, <1>7 DEF Next

(* At any time, what may still be registered is in no registry, with every   *)
(* feature of the session manager in use.                                    *)
THEOREM FInvHolds == Spec => []FInv
<1>1. Init => FInv
  BY OwnershipAssumption DEF Init, FInv, WindowsExist, PagesExist, Fresh, RecoverSettled, NoPopup
<1> QED
  BY <1>1, OInvHolds, StepKeepsFInv, PTL DEF Spec

-----------------------------------------------------------------------------
(* A tab has one turn                                                        *)

(* What is being recovered is nobody's, or some recoverer's. *)
Claimable == \A r \in recovering : owner[r[2]] \in Recoverers \cup {None}

(* A step that registers nothing lets tabs go. *)
LEMMA CalmLetsGo ==
  ASSUME OInv, TypeOK', FInv, Calm
  PROVE  Life!Next
<1> DEFINE T == {t \in Targets : owner'[t] # owner[t] \/ (~Settled(t) /\ Settled(t)')}
<1>1. owner' = [t \in Targets |-> IF t \in T THEN None ELSE owner[t]]
  <2>1. \A t \in Targets : owner'[t] \in {owner[t], None} /\ (~Settled(t) => owner[t] = None \/ t \in UserTabs)
    BY DEF Calm, Losing, FInv, Fresh
  <2>2. \A t \in UserTabs : Settled(t)
    BY Kinds DEF Settled
  <2>3. \A t \in Targets : owner'[t] = IF t \in T THEN None ELSE owner[t]
    BY <2>1, <2>2
  <2>4. owner' \in [Targets -> Sessions \cup {None}]
    BY DEF TypeOK
  <2> QED
    BY <2>3, <2>4
<1>2. Spent' = Spent \cup (T \ UserTabs)
  <2>1. ASSUME NEW t \in Targets \ UserTabs
        PROVE  Settled(t)' <=> Settled(t) \/ t \in T
    <3>1. Settled(t) => Settled(t)'
      BY DEF Calm, Moving
    <3>2. owner'[t] # owner[t] => Settled(t)
      BY DEF Calm, Losing, FInv, Fresh
    <3> QED
      BY <3>1, <3>2
  <2> HIDE DEF T
  <2>2. T \subseteq Targets
    BY DEF T
  <2> QED
    BY <2>1, <2>2 DEF Spent
<1>3. Life!LetGo(T)
  BY <1>1, <1>2 DEF Life!LetGo
<1>4. T \in SUBSET Targets
  OBVIOUS
<1> HIDE DEF T
<1> QED
  BY <1>3, <1>4 DEF Life!Next

(* A registration that settles its tab and no other is the tab's turn. *)
LEMMA EnteringTakes ==
  ASSUME OInv, FInv, NEW v \in Workers, NEW x \in Targets, Entering(v, x),
         owner[x] = None, x \in UserTabs \/ ~Settled(x),
         \A u \in Targets : u # x => (Settled(u)' <=> Settled(u))
  PROVE  Life!Next
<1>1. owner' = [owner EXCEPT ![x] = v[1]]
  BY DEF Entering, Register
<1>2. Spent' = Spent \cup ({x} \ UserTabs)
  BY DEF Spent, Entering
<1>3. x \notin Spent /\ v[1] \in Sessions
  BY DEF Spent, Workers
<1>4. Life!Take(x, v[1])
  BY <1>1, <1>2, <1>3 DEF Life!Take
<1> QED
  BY <1>3, <1>4 DEF Life!Next

(* Nobody but a recoverer gets a tab that is being recovered. *)
LEMMA EnteringKeepsClaimable ==
  ASSUME OInv, FInv, Claimable, NEW v \in Workers, NEW x \in Targets, Entering(v, x),
         x \in UserTabs \/ ~Settled(x), UNCHANGED recovering
  PROVE  Claimable'
<1>1. ASSUME NEW r \in recovering PROVE r[2] \in Targets /\ r[2] # x
  BY DEF FInv, RecoverSettled, OInv, TypeOK
<1>2. \A t \in Targets : t # x => owner'[t] = owner[t]
  BY DEF Entering, Register, OInv, TypeOK
<1> QED
  BY <1>1, <1>2 DEF Claimable

(* Every step keeps Claimable and is a step of the tab's life. *)
LEMMA StepIsLifeStep ==
  ASSUME OInv, TypeOK', FInv, Claimable, [Next]_vars
  PROVE  Claimable' /\ (Life!Next \/ UNCHANGED <<owner, Spent>>)
<1> DEFINE Good == Claimable' /\ (Life!Next \/ UNCHANGED <<owner, Spent>>)
<1>1. ASSUME Calm PROVE Good
  <2>1. \A r \in recovering : r[2] \in Targets
    BY DEF OInv, TypeOK
  <2>2. Claimable'
    BY <1>1, <2>1 DEF Calm, Losing, Claimable
  <2> QED
    BY <1>1, <2>2, CalmLetsGo
<1>2. ASSUME NEW t \in Targets \ UserTabs, ~Settled(t) PROVE owner[t] = None
  BY <1>2 DEF FInv, Fresh
<1>3. ASSUME NEW v \in Workers, NEW x \in Targets, Entering(v, x),
             x \in UserTabs \/ ~Settled(x), owner[x] = None, UNCHANGED recovering,
             \A u \in Targets : u # x => (Settled(u)' <=> Settled(u))
      PROVE  Good
  BY <1>3, EnteringTakes, EnteringKeepsClaimable
<1>4. ASSUME UNCHANGED <<maker, tab, popup>>
      PROVE  Moving /\ Spent' = Spent /\ \A u \in Targets : Settled(u)' <=> Settled(u)
  BY <1>4, StandsStill DEF OInv, Spent, Settled
<1> SUFFICES Good
  OBVIOUS
<1> HIDE DEF Good
<1>5. CASE SessionStep
  BY <1>1, <1>5, SessionStepCalm
<1>6. CASE CreationStep
  <2>1. ASSUME NEW t \in ToolTabs, CreateRegister(t) PROVE Good
    <3>1. maker' = [maker EXCEPT ![t] = None] /\ UNCHANGED <<tab, popup>>
      BY <2>1 DEF CreateRegister
    <3>2. \A u \in Targets : u # t => (Settled(u)' <=> Settled(u))
      BY <3>1 DEF OInv, TypeOK, Settled
    <3> QED
      BY <1>2, <1>3, <2>1, <3>2, Kinds, CreateRegisterEnters
  <2>2. ASSUME NEW t \in ToolTabs, NEW s \in Sessions, RegisterExisting(s, t) \/ RegisterExternal(s, t)
        PROVE  Good
    <3>1. tab' = [tab EXCEPT ![t] = "open"] /\ UNCHANGED <<maker, popup>>
      BY <2>2 DEF RegisterExisting, RegisterExternal, calls
    <3>2. \A u \in Targets : u # t => (Settled(u)' <=> Settled(u))
      BY <3>1 DEF OInv, TypeOK, Settled
    <3> QED
      BY <1>2, <1>3, <2>2, <3>2, Kinds, SpareEnters
  <2> QED
    BY <1>1, <1>6, <2>1, <2>2, CreatingCalm, OwnershipAssumption DEF CreationStep
<1>7. CASE TabStep
  <2>1. ASSUME NEW s \in Sessions, NEW t \in UserTabs, Borrow(s, t) PROVE Good
    <3>1. UNCHANGED <<maker, tab, popup>>
      BY <2>1 DEF Borrow, calls
    <3> QED
      BY <1>3, <1>4, <2>1, <3>1, Kinds, BorrowEnters
  <2>2. ASSUME NEW t \in Targets,
               \/ ReleaseBorrowed(t) \/ Use(t) \/ GoIdle(t) \/ FindClosed(t)
               \/ CloseBegin(t) \/ CloseFinish(t) \/ CloseFail(t)
               \/ ExpireLeases(t) \/ ReclaimNext(t)
        PROVE  Good
    BY <1>1, <2>2, TabUseCalm
  <2>3. CASE ReclaimDone
    <3>1. UNCHANGED <<owner, maker, tab, popup, recovering>>
      BY <2>3 DEF ReclaimDone, registries, world
    <3> QED
      BY <1>4, <3>1 DEF Good, Claimable
  <2>4. ASSUME NEW s \in Recoverers, NEW t \in Targets, RecoverBegin(s, t) PROVE Good
    <3>1. /\ owner[t] = None /\ UNCHANGED <<owner, maker, tab, popup>>
          /\ recovering' = recovering \cup {<<s, t>>}
      BY <2>4 DEF RecoverBegin, registries, world
    <3> QED
      BY <1>4, <3>1 DEF Good, Claimable
  <2>5. ASSUME NEW s \in Recoverers, NEW t \in Targets, RecoverFinish(s, t) PROVE Good
    <3>1. /\ <<s, t>> \in recovering /\ recovering' \subseteq recovering
          /\ UNCHANGED <<maker, tab, popup>>
          /\ owner' = [owner EXCEPT ![t] = s] \/ UNCHANGED owner
      BY <2>5 DEF RecoverFinish, Register, WorkerOf
    <3>2. /\ t \in Spent /\ owner[t] \in Recoverers \cup {None} /\ Spent' = Spent
          /\ \A r \in recovering : r[2] \in Targets
      BY <1>4, <3>1 DEF FInv, RecoverSettled, Claimable, Spent, OInv, TypeOK
    <3>3. CASE UNCHANGED owner
      BY <3>1, <3>2, <3>3 DEF Good, Claimable
    <3>4. CASE owner' = [owner EXCEPT ![t] = s]
      <4>1. \A u \in Targets : owner'[u] = IF u = t THEN s ELSE owner[u]
        BY <3>4 DEF OInv, TypeOK
      <4>2. Claimable'
        BY <3>1, <3>2, <4>1 DEF Claimable
      <4>3. Life!Recover(t, s)
        BY <3>2, <3>4 DEF Life!Recover
      <4> QED
        BY <4>2, <4>3 DEF Good, Life!Next
    <3> QED
      BY <3>1, <3>3, <3>4
  <2> QED
    BY <1>7, <2>1, <2>2, <2>3, <2>4, <2>5, Kinds DEF TabStep
<1>8. CASE ChromeStep
  BY <1>1, <1>8, ChromeStepCalm
<1>9. CASE PopupStep
  <2>1. ASSUME NEW t \in Popups, PopupRegister(t) PROVE Good
    <3>1. UNCHANGED <<maker, tab>> /\ \E stage : popup' = [popup EXCEPT ![t].stage = stage]
      BY <2>1 DEF PopupRegister, Stage
    <3>2. \A u \in Popups : u # t => popup'[u] = popup[u]
      BY <3>1 DEF OInv, TypeOK
    <3>3. \A u \in Targets : u # t => (Settled(u)' <=> Settled(u))
      BY <3>1, <3>2 DEF Settled
    <3> QED
      BY <1>1, <1>2, <1>3, <2>1, <3>3, Kinds, PopupRegisters DEF Calm
  <2> QED
    BY <1>1, <1>9, <2>1, PopupCalm DEF PopupStep
<1>10. CASE UNCHANGED vars
  <2>1. UNCHANGED <<owner, maker, tab, popup, recovering>>
    BY <1>10 DEF vars, registries, calls, world
  <2> QED
    BY <1>4, <2>1 DEF Good, Claimable
<1> QED
  BY <1>5, <1>6, <1>7, <1>8, <1>9, <1>10 DEF Next

(* The ownership map implements TabLife for any sessions, creations, pool    *)
(* pages, popups, loans, recoveries, deletions and sweeps: a tab has one     *)
(* turn, whatever resumes late, and a session that recovers no tabs loses    *)
(* none to another session.                                                  *)
THEOREM OwnershipImplementsTabLife == Spec => TabLifeSpec
<1>1. Init => Claimable
  BY DEF Init, Claimable
<1>2. Init => Life!Init
  <2> SUFFICES ASSUME Init PROVE Life!Init
    OBVIOUS
  <2>1. \A t \in Targets \ UserTabs : ~Settled(t)
    BY DEF Init, Settled, Targets, NoPopup
  <2> QED
    BY <2>1 DEF Init, Life!Init, Spent
<1>3. OInv /\ OInv' /\ FInv /\ Claimable /\ [Next]_vars => Claimable'
  BY StepIsLifeStep DEF OInv
<1>4. OInv /\ OInv' /\ FInv /\ Claimable /\ [Next]_vars => [Life!Next]_<<owner, Spent>>
  BY StepIsLifeStep DEF OInv
<1> QED
  BY <1>1, <1>2, <1>3, <1>4, OInvHolds, FInvHolds, PTL DEF Spec, TabLifeSpec, Life!Spec

(* So a target that has an owner is not given to another session, as long as *)
(* at most one session recovers untracked tabs: only a second recovery       *)
(* registers a tab without looking at its owner again.                       *)
THEOREM NoTabChangesHands ==
  ASSUME \A r, q \in Recoverers : r = q
  PROVE  Spec => NeverReassigned
<1>1. OInv /\ [Life!Next]_<<owner, Spent>> =>
        [\A t \in Targets : owner[t] # None => owner'[t] \in {owner[t], None}]_vars
  <2> SUFFICES ASSUME OInv, [Life!Next]_<<owner, Spent>>, NEW t \in Targets, owner[t] # None
               PROVE  owner'[t] \in {owner[t], None}
    OBVIOUS
  <2>1. owner \in [Targets -> Sessions \cup {None}]
    BY DEF OInv, TypeOK
  <2>2. ASSUME NEW u \in Targets, NEW s \in Sessions, Life!Take(u, s) PROVE owner'[t] = owner[t]
    BY <2>1, <2>2 DEF Life!Take
  <2>3. ASSUME NEW u \in Targets, NEW s \in Recoverers, Life!Recover(u, s)
        PROVE  owner'[t] = owner[t]
    <3>1. owner[u] \in {s, None} /\ owner' = [owner EXCEPT ![u] = s]
      BY <2>3 DEF Life!Recover
    <3> QED
      BY <2>1, <3>1
  <2>4. ASSUME NEW T \in SUBSET Targets, Life!LetGo(T) PROVE owner'[t] \in {owner[t], None}
    BY <2>4 DEF Life!LetGo
  <2> QED
    BY <2>2, <2>3, <2>4 DEF Life!Next
<1> QED
  BY <1>1, OwnershipImplementsTabLife, OInvHolds, PTL DEF TabLifeSpec, Life!Spec, NeverReassigned

-----------------------------------------------------------------------------
(* The sweep and the default session                                         *)

(* What the sweep may take was some other session's: the leases of the       *)
(* default session never go idle, and a tab it registers is idle no longer.  *)
NotDefaults ==
  /\ \A t \in idle : lease[t] # Default
  /\ \A t \in Targets : reclaim[t] # Default

(* A step of somebody else than the sweep, at which no tab goes idle. *)
Quiet ==
  /\ UNCHANGED <<reclaim, sweeping>>
  /\ \A t \in idle' : t \in idle /\ lease'[t] \in {lease[t], None}

LEMMA CalmIsQuiet ==
  ASSUME OInv, Calm, UNCHANGED <<reclaim, sweeping, idle>>
  PROVE  Quiet
  BY DEF Quiet, Calm, Losing, OInv, TypeOK

LEMMA RegisterIsQuiet ==
  ASSUME OInv, NEW w, NEW t, Register(w, t), UNCHANGED <<reclaim, sweeping>>
  PROVE  Quiet
  BY DEF Quiet, Register, OInv, TypeOK

LEMMA SessionsAreQuiet ==
  ASSUME OInv, FInv, SessionStep
  PROVE  Quiet
<1>1. UNCHANGED <<reclaim, sweeping, idle>>
  BY DEF SessionStep, CreateSession, DeleteBegin, DeleteVisit, DeleteFinish, calls, world
<1> QED
  BY <1>1, SessionStepCalm, CalmIsQuiet

LEMMA CreationsAreQuiet ==
  ASSUME OInv, FInv, CreationStep
  PROVE  Quiet
<1>1. ASSUME NEW t \in ToolTabs, CreateRegister(t) PROVE Quiet
  BY <1>1, RegisterIsQuiet DEF CreateRegister
<1>2. ASSUME NEW t \in ToolTabs, NEW s \in Sessions, RegisterExisting(s, t) \/ RegisterExternal(s, t)
      PROVE  Quiet
  BY <1>2, RegisterIsQuiet DEF RegisterExisting, RegisterExternal, calls
<1>3. ASSUME \/ \E s \in Sessions : CreateBegin(s)
             \/ \E w \in Workers : CreateFail(w) \/ \E t \in ToolTabs : CreatePage(w, t)
             \/ \E t \in ToolTabs : PageAppears(t)
      PROVE  Quiet
  <2>1. UNCHANGED <<reclaim, sweeping, idle>>
    BY <1>3 DEF CreateBegin, CreateFail, CreatePage, PageAppears, calls, world
  <2> QED
    BY <1>3, <2>1, CreatingCalm, CalmIsQuiet
<1> QED
  BY <1>1, <1>2, <1>3, OwnershipAssumption DEF CreationStep

LEMMA EventsAreQuiet ==
  ASSUME OInv, FInv, ChromeStep \/ PopupStep \/ UNCHANGED vars
  PROVE  Quiet
<1>1. CASE ChromeStep
  <2>1. UNCHANGED <<reclaim, sweeping, idle>>
    BY <1>1 DEF ChromeStep, TabCloses, TargetDestroyed, RendererCrashes, ReconnectFailed, calls, world
  <2> QED
    BY <1>1, <2>1, ChromeStepCalm, CalmIsQuiet
<1>2. ASSUME NEW t \in Popups, PopupRegister(t) PROVE Quiet
  <2>1. /\ UNCHANGED <<reclaim, sweeping>>
        /\ Register(WorkerOf(popup[t].session), t) \/ UNCHANGED <<lease, idle>>
    BY <1>2 DEF PopupRegister
  <2> QED
    BY <2>1, RegisterIsQuiet DEF Quiet
<1>3. ASSUME NEW t \in Popups,
             \/ \E o \in Targets \ {t} : PopupOpens(t, o)
             \/ PopupBegin(t) \/ PopupForbidden(t) \/ PopupStrays(t)
             \/ PopupCommit(t) \/ PopupIndex(t) \/ PopupClose(t)
      PROVE  Quiet
  <2>1. UNCHANGED <<reclaim, sweeping, idle>>
    BY <1>3 DEF PopupOpens, PopupBegin, PopupForbidden, PopupStrays, PopupCommit, PopupIndex,
                PopupClose, calls, world
  <2> QED
    BY <1>3, <2>1, PopupCalm, CalmIsQuiet
<1>4. CASE UNCHANGED vars
  BY <1>4 DEF vars, registries, calls, world, Quiet
<1> QED
  BY <1>1, <1>2, <1>3, <1>4 DEF PopupStep

LEMMA TabsAreQuiet ==
  ASSUME OInv, FInv, TabStep
  PROVE  \/ Quiet
         \/ \E t \in Targets : GoIdle(t) \/ ExpireLeases(t) \/ ReclaimNext(t)
         \/ ReclaimDone
<1> USE DEF calls, world
<1>1. ASSUME NEW s \in Sessions, NEW t \in UserTabs, Borrow(s, t) PROVE Quiet
  BY <1>1, RegisterIsQuiet DEF Borrow
<1>2. ASSUME NEW s \in Recoverers, NEW t \in Targets, RecoverBegin(s, t) PROVE Quiet
  BY <1>2 DEF RecoverBegin, registries, Quiet
<1>3. ASSUME NEW s \in Recoverers, NEW t \in Targets, RecoverFinish(s, t) PROVE Quiet
  <2>1. /\ UNCHANGED <<reclaim, sweeping>>
        /\ Register(WorkerOf(s), t) \/ UNCHANGED <<lease, idle>>
    BY <1>3 DEF RecoverFinish
  <2> QED
    BY <2>1, RegisterIsQuiet DEF Quiet
<1>4. ASSUME NEW t \in Targets, Use(t) PROVE Quiet
  BY <1>4 DEF Use, registries, Quiet
<1>5. ASSUME NEW t \in Targets,
             \/ ReleaseBorrowed(t) \/ FindClosed(t)
             \/ CloseBegin(t) \/ CloseFinish(t) \/ CloseFail(t)
      PROVE  Quiet
  <2>1. UNCHANGED <<reclaim, sweeping, idle>>
    BY <1>5 DEF ReleaseBorrowed, FindClosed, CloseBegin, CloseFinish, CloseFail
  <2> QED
    BY <1>5, <2>1, TabUseCalm, CalmIsQuiet
<1> QED
  BY <1>1, <1>2, <1>3, <1>4, <1>5, Kinds DEF TabStep

(* The sweep finds nothing to do for a tab of another session. *)
LEMMA ReclaimSpares ==
  ASSUME OInv, NEW s, NEW t \in Targets, Reclaim(s, t), owner[t] # s
  PROVE  UNCHANGED owner /\ UNCHANGED closing
<1>1. CASE t \in borrowed
  <2>1. {t} \cap {u \in Targets : owner[u] = s} = {}
    OBVIOUS
  <2>2. Drop({}, record) /\ UNCHANGED closing
    BY <1>1, <2>1 DEF Reclaim
  <2>3. owner' = [u \in Targets |-> owner[u]]
    BY <2>2 DEF Drop
  <2> QED
    BY <2>2, <2>3 DEF OInv, TypeOK
<1>2. CASE t \notin borrowed
  BY <1>2 DEF Reclaim, CanClose, OInv, TypeOK
<1> QED
  BY <1>1, <1>2

(* Every step keeps NotDefaults and spares the default session. *)
LEMMA StepSparesDefault ==
  ASSUME OInv, FInv, NotDefaults, [Next]_vars
  PROVE  /\ NotDefaults'
         /\ \A t \in Targets : sweeping' = t /\ sweeping # t /\ owner[t] = Default =>
              owner'[t] = Default /\ closing'[t] = closing[t]
<1> USE OwnershipAssumption
<1> DEFINE Spares == \A t \in Targets : sweeping' = t /\ sweeping # t /\ owner[t] = Default =>
                       owner'[t] = Default /\ closing'[t] = closing[t]
<1>1. CASE Quiet
  BY <1>1 DEF Quiet, NotDefaults
<1>2. ASSUME NEW t \in Targets, GoIdle(t) PROVE NotDefaults' /\ Spares
  BY <1>2 DEF GoIdle, NotDefaults, registries, calls
<1>3. ASSUME NEW t \in Targets, ExpireLeases(t) PROVE NotDefaults' /\ Spares
  <2>1. /\ t \in idle /\ Reclaim(lease[t], t) /\ idle' = idle
        /\ \A u \in Targets : lease'[u] \in {lease[u], None}
        /\ \A u \in Targets : reclaim'[u] # None => u \in idle /\ reclaim'[u] = lease[u]
    BY <1>3 DEF ExpireLeases, world
  <2>2. NotDefaults'
    BY <2>1 DEF NotDefaults, OInv, TypeOK
  <2>3. sweeping' = t /\ lease[t] # Default
    BY <2>1 DEF Reclaim, NotDefaults
  <2>4. Spares
    BY <2>1, <2>3, ReclaimSpares
  <2> QED
    BY <2>2, <2>4
<1>4. ASSUME NEW t \in Targets, ReclaimNext(t) PROVE NotDefaults' /\ Spares
  <2>1. /\ Reclaim(reclaim[t], t) /\ idle' = idle
        /\ \A u \in Targets : lease'[u] \in {lease[u], None}
        /\ reclaim' = [reclaim EXCEPT ![t] = None]
    BY <1>4 DEF ReclaimNext, world, Released
  <2>2. NotDefaults'
    BY <2>1 DEF NotDefaults, OInv, TypeOK
  <2>3. sweeping' = t /\ reclaim[t] # Default
    BY <2>1 DEF Reclaim, NotDefaults
  <2>4. Spares
    BY <2>1, <2>3, ReclaimSpares
  <2> QED
    BY <2>2, <2>4
<1>5. CASE ReclaimDone
  BY <1>5 DEF ReclaimDone, NotDefaults, registries, world
<1> QED
  BY <1>1, <1>2, <1>3, <1>4, <1>5, SessionsAreQuiet, CreationsAreQuiet, TabsAreQuiet, EventsAreQuiet
     DEF Next

(* The idle sweep spares the default session for any sessions, tabs, loans   *)
(* and recoveries, though it works from a list of leases that may since have *)
(* passed to another session.                                                *)
THEOREM DefaultSessionIsExempt == Spec => SweepSparesDefault
<1>1. Init => NotDefaults
  BY OwnershipAssumption DEF Init, NotDefaults
<1>2. OInv /\ FInv /\ NotDefaults /\ [Next]_vars => NotDefaults'
  BY StepSparesDefault
<1>3. OInv /\ FInv /\ NotDefaults /\ [Next]_vars =>
        [\A t \in Targets :
           sweeping' = t /\ sweeping # t /\ owner[t] = Default =>
             owner'[t] = Default /\ closing'[t] = closing[t]]_vars
  BY StepSparesDefault
<1> QED
  BY <1>1, <1>2, <1>3, OInvHolds, FInvHolds, PTL DEF Spec, SweepSparesDefault

-----------------------------------------------------------------------------
(* The registries agree, without recovery                                    *)

(* A step that registers nothing, and cleans up after what it takes away: a  *)
(* target that loses its owner loses its lease, its loan and its place in    *)
(* the worker of a session that goes on; and nothing else loses its place.   *)
Clean ==
  /\ UNCHANGED <<life, live>> /\ deleting \subseteq deleting'
  /\ Calm
  /\ \A t \in Targets :
       owner'[t] # owner[t] => /\ lease'[t] = None
                               /\ \A s \in live \ deleting : t \notin members'[WorkerOf(s)]
  /\ \A w \in Workers : \A t \in members[w] : t \in members'[w] \/ owner'[t] = None
  /\ \A t \in UserTabs :
       /\ t \in borrowed' <=> t \in borrowed /\ owner'[t] # None
       /\ closing'[t] = None
       /\ tab'[t] # "closed"
       /\ owner'[t] \notin deleting' \ deleting

(* Such a step leaves what deletions rely on. *)
LEMMA CleanKeepsDeletion ==
  ASSUME OInv, RInv, Clean, NEW d \in Deleters
  PROVE  LET w == deletion[d].worker
         IN /\ w # None => w[1] \in live \cap deleting' /\ w = <<w[1], life[w[1]]>>
            /\ \A t \in deletion[d].visited :
                 t \notin UserTabs /\ Settled(t)' /\ owner'[t] = None
<1>1. \A t \in deletion[d].visited :
         t \in Targets /\ t \notin UserTabs /\ Settled(t) /\ owner[t] = None
  BY DEF OInv, TypeOK, RInv, Deletions
<1>2. \A t \in deletion[d].visited : t \notin UserTabs /\ Settled(t)' /\ owner'[t] = None
  BY <1>1 DEF Clean, Calm, Moving, Losing
<1>3. LET w == deletion[d].worker
      IN w # None => w[1] \in live \cap deleting /\ w = <<w[1], life[w[1]]>>
  BY DEF RInv, Deletions, WorkerOf
<1> QED
  BY <1>2, <1>3 DEF Clean, WorkerOf

(* And keeps what RInv says. *)
LEMMA CleanKeepsRInv ==
  ASSUME OInv, FInv, RInv, Clean, Unborn', Deletions'
  PROVE  RInv'
<1> USE DEF OInv, Clean, Calm
<1>0. /\ \A s \in live : s \in Sessions /\ WorkerOf(s) \in Workers /\ WorkerOf(s)' = WorkerOf(s)
      /\ live \subseteq Sessions /\ None \notin Sessions
  BY WorkerOfType, OwnershipAssumption DEF WorkerOf, TypeOK
<1>1. MemberOf'
  <2> SUFFICES ASSUME NEW w \in Workers, NEW t \in members'[w] PROVE owner'[t] \in {None, w[1]}
    BY DEF MemberOf
  <2>1. t \in members[w] /\ t \in Targets
    BY DEF Losing, TypeOK
  <2> QED
    BY <2>1 DEF Losing, RInv, MemberOf
<1>2. ClosingOf'
  <2> SUFFICES ASSUME NEW t \in Targets, closing'[t] # None
               PROVE  owner'[t] \in {None, closing'[t]}
    BY DEF ClosingOf
  <2>1. closing'[t] \in {closing[t], owner[t]} /\ owner'[t] \in {owner[t], None}
    BY DEF Losing
  <2> QED
    BY <2>1 DEF RInv, ClosingOf
<1>3. Loans'
  <2> SUFFICES ASSUME NEW t \in UserTabs
               PROVE  /\ t \notin borrowed' => owner'[t] = None
                      /\ t \in borrowed' => /\ owner'[t] \in live \ deleting'
                                            /\ t \in members'[WorkerOf(owner'[t])]
                      /\ \A w \in Workers :
                           t \in members'[w] => /\ w[1] \in live \ deleting' /\ w = WorkerOf(w[1])
                                                /\ t \in borrowed'
    BY DEF Loans, WorkerOf
  <2>1. t \in Targets /\ owner'[t] \in {owner[t], None}
    BY Kinds DEF Losing
  <2>2. /\ t \notin borrowed => owner[t] = None
        /\ t \in borrowed => /\ owner[t] \in live \ deleting
                             /\ t \in members[WorkerOf(owner[t])]
    BY DEF RInv, Loans
  <2>3. ASSUME NEW w \in Workers, t \in members'[w]
        PROVE  /\ w[1] \in live \ deleting' /\ w = WorkerOf(w[1]) /\ t \in borrowed'
    <3>1. t \in members[w]
      BY <2>3 DEF Losing
    <3>2. /\ w[1] \in live \ deleting /\ w = WorkerOf(w[1]) /\ t \in borrowed
      BY <3>1 DEF RInv, Loans
    <3>3. owner'[t] = owner[t]
      BY <2>1, <2>3, <3>2
    <3>4. owner[t] = w[1]
      BY <3>1, <3>2 DEF RInv, RegistriesAgree
    <3> QED
      BY <1>0, <2>2, <3>2, <3>3, <3>4
  <2> QED
    BY <1>0, <2>1, <2>2, <2>3
<1>4. PopupHome'
  <2> SUFFICES ASSUME NEW t \in Popups, owner'[t] # None
               PROVE  owner'[t] \in live /\ t \in members'[WorkerOf(owner'[t])]
    BY DEF PopupHome, WorkerOf
  <2>1. owner'[t] = owner[t]
    BY Kinds DEF Losing
  <2>2. owner[t] \in live /\ t \in members[WorkerOf(owner[t])]
    BY <2>1 DEF RInv, PopupHome
  <2> QED
    BY <1>0, <2>1, <2>2
<1>5. RegistriesAgree'
  <2>1. ASSUME NEW s \in live \ deleting', NEW t \in members'[WorkerOf(s)] PROVE owner'[t] = s
    <3>1. WorkerOf(s) \in Workers /\ t \in members[WorkerOf(s)] /\ t \in Targets
      BY <1>0 DEF Losing, TypeOK
    <3>2. owner[t] = s
      BY <3>1 DEF RInv, RegistriesAgree
    <3> QED
      BY <3>1, <3>2
  <2>2. ASSUME NEW t \in Targets, lease'[t] # None PROVE owner'[t] = lease'[t]
    <3>1. lease'[t] = lease[t] /\ owner'[t] = owner[t]
      BY <2>2 DEF Losing
    <3> QED
      BY <2>2, <3>1 DEF RInv, RegistriesAgree
  <2> QED
    BY <2>1, <2>2 DEF RegistriesAgree, WorkerOf
<1> QED
  BY <1>1, <1>2, <1>3, <1>4, <1>5 DEF RInv

(* A clean step of somebody else keeps what deletions rely on. *)
LEMMA CleanKeepsDeletions ==
  ASSUME OInv, RInv, Clean, UNCHANGED deletion
  PROVE  Deletions'
  BY CleanKeepsDeletion DEF Deletions, WorkerOf, Clean

(* A step that leaves the registries alone is clean. *)
LEMMA IdleIsClean ==
  ASSUME OInv, RInv, Calm, UNCHANGED <<life, live, deleting, owner, members, borrowed>>,
         \A t \in UserTabs : closing'[t] = None /\ tab'[t] # "closed"
  PROVE  Clean
  BY OwnershipAssumption DEF Clean, RInv, Loans, OInv, TypeOK

(* And so is onTargetClosed, once the leases are released. *)
LEMMA DropIsClean ==
  ASSUME OInv, TypeOK', RInv, Calm, NEW T, Drop(T, record),
         \A t \in T : t \in Targets => lease'[t] = None,
         UNCHANGED <<life, live>>, deleting \subseteq deleting',
         \A t \in UserTabs : /\ closing'[t] = None /\ tab'[t] # "closed"
                             /\ t \in borrowed \ T => owner[t] \notin deleting' \ deleting
  PROVE  Clean
<1> USE DEF OInv
<1>1. \A t \in Targets : owner'[t] = IF t \in T THEN None ELSE owner[t]
  BY DropLoses
<1>2. ASSUME NEW s \in live \ deleting, NEW t \in Targets, owner'[t] # owner[t],
             t \in members'[WorkerOf(s)]
      PROVE  FALSE
  <2>1. s \in Sessions /\ WorkerOf(s) \in Workers /\ t \in T
    BY <1>1, <1>2, WorkerOfType
  <2>2. t \in members[WorkerOf(s)]
    BY <1>2, <2>1, DropLoses
  <2>3. owner[t] = s
    BY <2>2 DEF RInv, RegistriesAgree
  <2>4. WorkerOf(s)[1] = s
    BY DEF WorkerOf
  <2>5. members'[WorkerOf(s)] = members[WorkerOf(s)] \ {u \in T : owner[u] = s}
    BY <2>1, <2>4 DEF Drop
  <2> QED
    BY <1>2, <2>1, <2>3, <2>5
<1>3. ASSUME NEW w \in Workers, NEW t \in members[w], t \notin members'[w] PROVE owner'[t] = None
  <2>1. t \in Targets /\ t \in T
    BY <1>3 DEF Drop, TypeOK
  <2> QED
    BY <1>1, <2>1
<1>4. ASSUME NEW t \in UserTabs
      PROVE  t \in borrowed' <=> t \in borrowed /\ owner'[t] # None
  <2>1. t \in borrowed => owner[t] # None
    BY OwnershipAssumption DEF RInv, Loans, TypeOK
  <2> QED
    BY <1>1, <2>1, Kinds DEF Drop
<1>5. ASSUME NEW t \in UserTabs PROVE owner'[t] \notin deleting' \ deleting
  <2>0. t \in Targets /\ None \notin Sessions /\ deleting' \subseteq Sessions
    BY Kinds, OwnershipAssumption DEF TypeOK
  <2>1. CASE t \in borrowed \ T
    BY <1>1, <2>0, <2>1
  <2>2. CASE t \notin borrowed \ T
    <3>1. owner'[t] = None
      BY <1>1, <2>0, <2>2 DEF RInv, Loans
    <3> QED
      BY <2>0, <3>1
  <2> QED
    BY <2>1, <2>2
<1> QED
  BY <1>1, <1>2, <1>3, <1>4, <1>5 DEF Clean

(* The leases of forgotten targets are released, as they name the owner. *)
LEMMA ForgetReleases ==
  ASSUME RInv, NEW T, NEW r, Forget(T, r)
  PROVE  \A t \in T : t \in Targets => lease'[t] = None
  BY DEF Forget, Released, RInv, RegistriesAgree

(* A step that leaves creations and lives alone. *)
LEMMA UnbornFrame ==
  ASSUME Unborn, Losing, UNCHANGED <<life, creating, maker>>
  PROVE  Unborn'
  BY DEF Unborn, Losing

(* What enters the registries: a tab that is registered for the first time,  *)
(* or a user's tab that nobody has, into a worker that exists.               *)
Admitted(v, x) ==
  /\ v[2] <= life[v[1]]
  /\ x \notin UserTabs => ~Settled(x) /\ UNCHANGED borrowed
  /\ x \in UserTabs => owner[x] = None /\ borrowed' = borrowed \cup {x} /\ v[1] \notin deleting
  /\ x \in UserTabs \cup Popups => v[1] \in live /\ v = WorkerOf(v[1])

(* Nothing refers to it before. *)
LEMMA AdmittedIsNew ==
  ASSUME OInv, FInv, RInv, NEW v \in Workers, NEW x \in Targets, Admitted(v, x)
  PROVE  /\ owner[x] = None /\ closing[x] = None /\ x \notin borrowed
         /\ \A w \in Workers : x \notin members[w]
         /\ \A d \in Deleters : x \notin deletion[d].visited
<1>0. None \notin Sessions /\ live \subseteq Sessions
  BY OwnershipAssumption DEF OInv, TypeOK
<1>1. CASE x \notin UserTabs
  <2>1. ~Settled(x)
    BY <1>1 DEF Admitted
  <2>2. borrowed \subseteq UserTabs
    BY DEF OInv, TypeOK
  <2>3. \A d \in Deleters : x \notin deletion[d].visited
    BY <2>1 DEF RInv, Deletions
  <2> QED
    BY <1>1, <2>1, <2>2, <2>3 DEF FInv, Fresh
<1>2. CASE x \in UserTabs
  <2>1. owner[x] = None
    BY <1>2 DEF Admitted
  <2>2. x \notin borrowed /\ closing[x] = None /\ \A w \in Workers : x \notin members[w]
    BY <1>0, <1>2, <2>1 DEF RInv, Loans
  <2>3. \A d \in Deleters : x \notin deletion[d].visited
    BY <1>2 DEF RInv, Deletions
  <2> QED
    BY <2>1, <2>2, <2>3
<1> QED
  BY <1>1, <1>2

(* A registration keeps what RInv says. *)
LEMMA EnteringKeepsRInv ==
  ASSUME OInv, FInv, RInv, Moving, NEW v \in Workers, NEW x \in Targets,
         Entering(v, x), Admitted(v, x), UNCHANGED <<life, live, deleting, deletion, creating>>,
         \A t \in Targets : maker'[t] \in {maker[t], None},
         \A t \in UserTabs : tab'[t] # "closed"
  PROVE  RInv'
<1> USE DEF OInv
<1>0. /\ \A s \in live : s \in Sessions /\ WorkerOf(s) \in Workers
      /\ None \notin Sessions /\ None \notin Workers /\ v[1] \in Sessions
  BY WorkerOfType, OwnershipAssumption DEF Workers
<1>1. /\ owner[x] = None /\ closing[x] = None /\ x \notin borrowed
      /\ \A w \in Workers : x \notin members[w]
      /\ \A d \in Deleters : x \notin deletion[d].visited
  BY AdmittedIsNew
<1>2. /\ \A w \in Workers : members'[w] = IF w = v THEN members[w] \cup {x} ELSE members[w]
      /\ \A t \in Targets : owner'[t] = IF t = x THEN v[1] ELSE owner[t]
      /\ \A t \in Targets : lease'[t] = IF t = x THEN v[1] ELSE lease[t]
      /\ closing' = closing
  BY DEF Entering, Register, TypeOK
<1>3. MemberOf'
  <2> SUFFICES ASSUME NEW w \in Workers, NEW t \in members'[w] PROVE owner'[t] \in {None, w[1]}
    BY DEF MemberOf
  <2>1. CASE t = x
    BY <1>1, <1>2, <2>1
  <2>2. CASE t # x
    <3>0. t \in members[w]
      BY <1>2, <2>2
    <3>1. t \in members[w] /\ t \in Targets
      BY <3>0 DEF TypeOK
    <3> QED
      BY <1>2, <2>2, <3>1 DEF RInv, MemberOf
  <2> QED
    BY <2>1, <2>2
<1>4. ClosingOf'
  BY <1>1, <1>2 DEF RInv, ClosingOf
<1>5. Unborn'
  <2> SUFFICES ASSUME NEW w \in Workers, w[2] > life[w[1]]
               PROVE  /\ members'[w] = {} /\ creating[w] = 0
                      /\ \A t \in Targets : maker'[t] # w
    BY DEF Unborn
  <2>1. /\ members[w] = {} /\ creating[w] = 0 /\ \A t \in Targets : maker[t] # w
    BY DEF RInv, Unborn
  <2>2. w # v
    <3>1. life[v[1]] \in Int /\ v[2] \in Int
      BY OwnershipAssumption DEF Workers, TypeOK
    <3> QED
      BY <3>1 DEF Admitted
  <2> QED
    BY <1>0, <1>2, <2>1, <2>2
<1>6. Deletions'
  <2> SUFFICES ASSUME NEW d \in Deleters
               PROVE  LET w == deletion[d].worker
                      IN /\ w # None => w[1] \in live \cap deleting /\ w = WorkerOf(w[1])
                         /\ \A t \in deletion[d].visited :
                              t \notin UserTabs /\ Settled(t)' /\ owner'[t] = None
    BY DEF Deletions, WorkerOf
  <2>1. \A t \in deletion[d].visited :
           t \in Targets /\ t # x /\ t \notin UserTabs /\ Settled(t) /\ owner[t] = None
    BY <1>1 DEF TypeOK, RInv, Deletions
  <2> QED
    BY <1>2, <2>1 DEF RInv, Deletions, Moving
<1>7. Loans'
  <2> SUFFICES ASSUME NEW t \in UserTabs
               PROVE  /\ t \notin borrowed' => owner'[t] = None
                      /\ t \in borrowed' => /\ owner'[t] \in live \ deleting
                                            /\ t \in members'[WorkerOf(owner'[t])]
                      /\ closing'[t] = None
                      /\ \A w \in Workers :
                           t \in members'[w] => /\ w[1] \in live \ deleting /\ w = WorkerOf(w[1])
                                                /\ t \in borrowed'
    BY DEF Loans, WorkerOf
  <2>0. t \in Targets /\ closing'[t] = None
    BY <1>2, Kinds DEF RInv, Loans
  <2>1. CASE t = x
    <3>1. /\ borrowed' = borrowed \cup {x} /\ v[1] \in live \ deleting /\ v = WorkerOf(v[1])
      BY <2>1 DEF Admitted
    <3>2. owner'[t] = v[1] /\ t \in members'[v]
      BY <1>2, <2>1
    <3>3. ASSUME NEW w \in Workers, t \in members'[w] PROVE w = v
      BY <1>1, <1>2, <2>1, <3>3
    <3> QED
      BY <2>0, <2>1, <3>1, <3>2, <3>3
  <2>2. CASE t # x
    <3>1. /\ t \in borrowed' <=> t \in borrowed
          /\ owner'[t] = owner[t]
          /\ \A w \in Workers : t \in members'[w] <=> t \in members[w]
      BY <1>2, <2>0, <2>2 DEF Admitted
    <3>2. /\ t \notin borrowed => owner[t] = None
          /\ t \in borrowed => /\ owner[t] \in live \ deleting
                               /\ t \in members[WorkerOf(owner[t])]
          /\ \A w \in Workers :
               t \in members[w] => /\ w[1] \in live \ deleting /\ w = WorkerOf(w[1])
                                   /\ t \in borrowed
      BY DEF RInv, Loans
    <3> QED
      BY <1>0, <2>0, <3>1, <3>2
  <2> QED
    BY <2>1, <2>2
<1>8. PopupHome'
  <2> SUFFICES ASSUME NEW t \in Popups, owner'[t] # None
               PROVE  owner'[t] \in live /\ t \in members'[WorkerOf(owner'[t])]
    BY DEF PopupHome, WorkerOf
  <2>1. CASE t = x
    BY <1>2, <2>1 DEF Admitted
  <2>2. CASE t # x
    <3>1. owner'[t] = owner[t] /\ owner[t] \in live /\ t \in members[WorkerOf(owner[t])]
      BY <1>2, <2>2, Kinds DEF RInv, PopupHome
    <3> QED
      BY <1>0, <1>2, <3>1
  <2> QED
    BY <2>1, <2>2
<1>9. RegistriesAgree'
  <2>1. ASSUME NEW s \in live \ deleting, NEW t \in members'[WorkerOf(s)] PROVE owner'[t] = s
    <3>1. WorkerOf(s) \in Workers /\ WorkerOf(s)[1] = s
      BY <1>0 DEF WorkerOf
    <3>2. CASE t = x
      BY <1>1, <1>2, <3>1, <3>2
    <3>3. CASE t # x
      <4>0. t \in members[WorkerOf(s)]
        BY <1>2, <3>1, <3>3
      <4>1. t \in members[WorkerOf(s)] /\ t \in Targets
        BY <3>1, <4>0 DEF TypeOK
      <4>2. owner[t] = s
        BY <4>1 DEF RInv, RegistriesAgree
      <4> QED
        BY <1>2, <3>3, <4>1, <4>2
    <3> QED
      BY <3>2, <3>3
  <2>2. ASSUME NEW t \in Targets, lease'[t] # None PROVE owner'[t] = lease'[t]
    BY <1>2, <2>2 DEF RInv, RegistriesAgree
  <2> QED
    BY <2>1, <2>2 DEF RegistriesAgree, WorkerOf
<1> QED
  BY <1>3, <1>4, <1>5, <1>6, <1>7, <1>8, <1>9 DEF RInv

(* A new session begins with a worker that has nothing. *)
LEMMA CreateSessionKeepsRInv ==
  ASSUME OInv, FInv, RInv, NEW s \in Sessions, CreateSession(s)
  PROVE  RInv'
<1> USE DEF OInv
<1>1. /\ s \notin live /\ life[s] < MaxLives
      /\ life' = [life EXCEPT ![s] = @ + 1]
      /\ live' = live \cup {s}
      /\ UNCHANGED <<deleting, members, owner, lease, borrowed, creating, maker, popup, closing,
                     deletion, tab>>
  BY DEF CreateSession, calls, world
<1>2. /\ \A u \in Sessions : life'[u] = IF u = s THEN life[u] + 1 ELSE life[u]
      /\ \A u \in Sessions : life[u] \in Nat
  BY <1>1, OwnershipAssumption DEF TypeOK
<1>3. /\ \A u \in live : u \in Sessions /\ u # s /\ WorkerOf(u)' = WorkerOf(u)
      /\ WorkerOf(s)' = <<s, life[s] + 1>>
  BY <1>1, <1>2 DEF TypeOK, WorkerOf
<1>4. \A w \in Workers : w[1] \in Sessions /\ w[2] \in Nat
  BY DEF Workers
<1>5. /\ WorkerOf(s)' \in Workers /\ WorkerOf(s)'[1] = s /\ WorkerOf(s)'[2] > life[s]
  BY <1>1, <1>2, <1>3, OwnershipAssumption DEF Workers
<1>6. members[WorkerOf(s)'] = {}
  BY <1>5 DEF RInv, Unborn
<1>7. MemberOf' /\ ClosingOf'
  BY <1>1 DEF RInv, MemberOf, ClosingOf
<1>8. Unborn'
  <2> SUFFICES ASSUME NEW w \in Workers, w[2] > life'[w[1]]
               PROVE  members[w] = {} /\ creating[w] = 0 /\ \A t \in Targets : maker[t] # w
    BY <1>1 DEF Unborn
  <2>1. w[2] > life[w[1]]
    BY <1>2, <1>4
  <2> QED
    BY <2>1 DEF RInv, Unborn
<1>9. Deletions'
  <2> SUFFICES ASSUME NEW d \in Deleters
               PROVE  LET w == deletion[d].worker
                      IN /\ w # None => w[1] \in live' \cap deleting /\ w = <<w[1], life'[w[1]]>>
                         /\ \A t \in deletion[d].visited :
                              t \notin UserTabs /\ Settled(t) /\ owner[t] = None
    BY <1>1 DEF Deletions, WorkerOf, Settled
  <2>1. LET w == deletion[d].worker
        IN /\ w # None => w[1] \in live \cap deleting /\ w = <<w[1], life[w[1]]>>
           /\ \A t \in deletion[d].visited :
                t \notin UserTabs /\ Settled(t) /\ owner[t] = None
    BY DEF RInv, Deletions, WorkerOf
  <2> QED
    BY <1>1, <1>2, <1>3, <2>1
<1>10. Loans'
  <2> SUFFICES ASSUME NEW t \in UserTabs
               PROVE  /\ t \notin borrowed => owner[t] = None
                      /\ t \in borrowed => /\ owner[t] \in live' \ deleting
                                           /\ t \in members[WorkerOf(owner[t])']
                      /\ closing[t] = None /\ tab[t] # "closed"
                      /\ \A w \in Workers :
                           t \in members[w] => /\ w[1] \in live' \ deleting
                                               /\ w = WorkerOf(w[1])' /\ t \in borrowed
    BY <1>1 DEF Loans, WorkerOf
  <2>1. /\ t \notin borrowed => owner[t] = None
        /\ t \in borrowed => /\ owner[t] \in live \ deleting
                             /\ t \in members[WorkerOf(owner[t])]
        /\ closing[t] = None /\ tab[t] # "closed"
        /\ \A w \in Workers :
             t \in members[w] => /\ w[1] \in live \ deleting /\ w = WorkerOf(w[1])
                                 /\ t \in borrowed
    BY DEF RInv, Loans
  <2>2. t \in borrowed => WorkerOf(owner[t])' = WorkerOf(owner[t])
    BY <1>1, <1>2, <1>3, <2>1 DEF WorkerOf
  <2>3. \A w \in Workers : w[1] \in live => WorkerOf(w[1])' = WorkerOf(w[1])
    BY <1>3
  <2> QED
    BY <1>1, <2>1, <2>2, <2>3
<1>11. PopupHome'
  <2> SUFFICES ASSUME NEW t \in Popups, owner[t] # None
               PROVE  owner[t] \in live' /\ t \in members[<<owner[t], life'[owner[t]]>>]
    BY <1>1 DEF PopupHome, WorkerOf
  <2>1. owner[t] \in live /\ t \in members[<<owner[t], life[owner[t]]>>]
    BY DEF RInv, PopupHome, WorkerOf
  <2>2. life'[owner[t]] = life[owner[t]]
    BY <1>2, <1>3, <2>1
  <2> QED
    BY <1>1, <2>1, <2>2
<1>12. RegistriesAgree'
  <2>1. ASSUME NEW u \in live' \ deleting, NEW t \in members[WorkerOf(u)'] PROVE owner[t] = u
    <3>1. u \in live
      BY <1>1, <1>6
    <3>2. t \in members[WorkerOf(u)]
      BY <1>3, <3>1
    <3> QED
      BY <3>1, <3>2 DEF RInv, RegistriesAgree
  <2>2. \A t \in Targets : lease[t] # None => owner[t] = lease[t]
    BY DEF RInv, RegistriesAgree
  <2> QED
    BY <1>1, <2>1, <2>2 DEF RegistriesAgree, WorkerOf
<1> QED
  BY <1>7, <1>8, <1>9, <1>10, <1>11, <1>12 DEF RInv

(* A deletion begins: the loans of its session end, whatever other sessions  *)
(* have on loan.                                                             *)
LEMMA DeleteBeginKeepsRInv ==
  ASSUME OInv, TypeOK', FInv, RInv, NEW d \in Deleters, NEW s \in Sessions, DeleteBegin(d, s)
  PROVE  RInv'
<1> USE DEF OInv
<1> DEFINE T == {t \in borrowed : owner[t] = s /\ t \in members[WorkerOf(s)]}
<1>1. /\ deletion[d] = NoDeletion /\ s \in live /\ deleting' = deleting \cup {s}
      /\ deletion' = [deletion EXCEPT ![d].worker = WorkerOf(s)]
      /\ Forget(T, record)
      /\ UNCHANGED <<life, live, creating, maker, closing, tab>>
  BY DEF DeleteBegin, world
<1>2. Calm
  BY SessionStepCalm DEF SessionStep
<1>3. ASSUME NEW t \in UserTabs, t \in borrowed \ T PROVE owner[t] # s
  BY <1>3 DEF RInv, Loans
<1>4. \A t \in UserTabs : closing[t] = None /\ tab[t] # "closed"
  BY DEF RInv, Loans
<1> HIDE DEF T
<1>5. Clean
  BY <1>1, <1>2, <1>3, <1>4, ForgetReleases, DropIsClean DEF Forget
<1>6. Unborn'
  BY <1>1, <1>2, UnbornFrame DEF RInv, Calm
<1>7. Deletions'
  <2> SUFFICES ASSUME NEW e \in Deleters
               PROVE  LET w == deletion'[e].worker
                      IN /\ w # None => w[1] \in live \cap deleting' /\ w = <<w[1], life[w[1]]>>
                         /\ \A t \in deletion'[e].visited :
                              t \notin UserTabs /\ Settled(t)' /\ owner'[t] = None
    BY <1>1 DEF Deletions, WorkerOf
  <2>1. CASE e = d
    <3>1. deletion'[e].worker = WorkerOf(s) /\ deletion'[e].visited = {}
      BY <1>1, <2>1 DEF TypeOK, NoDeletion
    <3> QED
      BY <1>1, <3>1 DEF WorkerOf
  <2>2. CASE e # d
    <3>1. deletion'[e] = deletion[e]
      BY <1>1, <2>2 DEF TypeOK
    <3> QED
      BY <1>5, <3>1, CleanKeepsDeletion
  <2> QED
    BY <2>1, <2>2
<1> QED
  BY <1>5, <1>6, <1>7, CleanKeepsRInv

(* A deletion visits a target, which is no user's tab and which no other     *)
(* session has: it is nobody's from then on.                                 *)
LEMMA DeleteVisitKeepsRInv ==
  ASSUME OInv, FInv, RInv, NEW d \in Deleters, NEW t \in Targets, DeleteVisit(d, t)
  PROVE  RInv'
<1> USE DEF OInv
<1> DEFINE w == deletion[d].worker
<1>1. /\ w # None /\ t \in members[w]
      /\ deletion' = [deletion EXCEPT ![d].visited = @ \cup {t}]
      /\ UNCHANGED <<life, live, deleting, creating, maker, closing>>
  BY DEF DeleteVisit
<1>2. /\ w \in Workers /\ w[1] \in live \cap deleting /\ w = WorkerOf(w[1])
  BY <1>1 DEF RInv, Deletions, TypeOK
<1>3. t \notin UserTabs /\ t \notin borrowed
  BY <1>1, <1>2 DEF RInv, Loans, TypeOK
<1>4. /\ ClosePage(t) \/ UNCHANGED <<tab, notices>>
      /\ owner' = [owner EXCEPT ![t] = None]
      /\ lease' = [lease EXCEPT ![t] = IF @ = w[1] THEN None ELSE @]
      /\ UNCHANGED <<members, borrowed>>
  BY <1>3 DEF DeleteVisit
<1>5. Calm
  BY SessionStepCalm DEF SessionStep
<1>6. owner[t] \in {None, w[1]}
  BY <1>1, <1>2 DEF RInv, MemberOf
<1>7. Settled(t)
  BY <1>1, <1>2, <1>3 DEF FInv, Fresh
<1>8. lease'[t] = None
  BY <1>4, <1>6, OwnershipAssumption DEF RInv, RegistriesAgree, TypeOK
<1>9. ASSUME NEW s \in live \ deleting PROVE t \notin members[WorkerOf(s)]
  <2>1. t \in members[WorkerOf(s)] => owner[t] = s
    BY DEF RInv, RegistriesAgree
  <2>2. s # w[1] /\ s # None
    BY <1>2, OwnershipAssumption DEF TypeOK
  <2> QED
    BY <1>6, <2>1, <2>2
<1>10. \A u \in UserTabs : closing[u] = None /\ tab'[u] # "closed"
  BY <1>3, <1>4, ClosePageMoves, Kinds DEF RInv, Loans
<1>11. \A u \in Targets : owner'[u] = IF u = t THEN None ELSE owner[u]
  BY <1>4 DEF TypeOK
<1> HIDE DEF w
<1>12. Clean
  <2>1. \A u \in UserTabs : owner'[u] = owner[u] /\ (u \in borrowed => owner[u] # None)
    BY <1>3, <1>11, Kinds, OwnershipAssumption DEF RInv, Loans, TypeOK
  <2>2. \A u \in Targets : owner'[u] # owner[u] => u = t
    BY <1>11
  <2> QED
    BY <1>1, <1>4, <1>5, <1>8, <1>9, <1>10, <2>1, <2>2 DEF Clean
<1>13. Unborn'
  BY <1>1, <1>5, UnbornFrame DEF RInv, Calm
<1>14. Deletions'
  <2> SUFFICES ASSUME NEW e \in Deleters
               PROVE  LET x == deletion'[e].worker
                      IN /\ x # None => x[1] \in live \cap deleting' /\ x = <<x[1], life[x[1]]>>
                         /\ \A u \in deletion'[e].visited :
                              u \notin UserTabs /\ Settled(u)' /\ owner'[u] = None
    BY <1>1 DEF Deletions, WorkerOf
  <2>1. /\ deletion'[e].worker = deletion[e].worker
        /\ deletion'[e].visited \subseteq deletion[e].visited \cup {t}
    BY <1>1 DEF TypeOK
  <2>2. t \notin UserTabs /\ Settled(t)' /\ owner'[t] = None
    BY <1>3, <1>5, <1>7, <1>11 DEF Calm, Moving
  <2> QED
    BY <1>12, <2>1, <2>2, CleanKeepsDeletion
<1> QED
  BY <1>12, <1>13, <1>14, CleanKeepsRInv

(* A deletion ends when every target of the worker was visited: no popup is  *)
(* left with the session.                                                    *)
LEMMA DeleteFinishKeepsRInv ==
  ASSUME OInv, FInv, RInv, OneDeletion, NEW d \in Deleters, DeleteFinish(d)
  PROVE  RInv'
<1> USE DEF OInv
<1> DEFINE w == deletion[d].worker
           s == w[1]
<1>1. /\ w # None /\ members[w] \subseteq deletion[d].visited
      /\ live' = live \ {s} /\ deleting' = deleting \ {s}
      /\ lease' = [t \in Targets |-> IF lease[t] = s THEN None ELSE lease[t]]
      /\ deletion' = [deletion EXCEPT ![d] = NoDeletion]
      /\ UNCHANGED <<life, members, owner, borrowed, creating, maker, popup, closing, tab>>
  BY DEF DeleteFinish, world
<1>2. /\ w \in Workers /\ s \in live \cap deleting /\ w = WorkerOf(s)
      /\ \A t \in deletion[d].visited : owner[t] = None
  BY <1>1 DEF RInv, Deletions, TypeOK
<1>3. ASSUME NEW e \in Deleters, e # d, deletion[e].worker # None
      PROVE  deletion[e].worker[1] # s
  BY <1>1, <1>3 DEF OneDeletion
<1> HIDE DEF w, s
<1>4. MemberOf' /\ ClosingOf' /\ Unborn'
  BY <1>1 DEF RInv, MemberOf, ClosingOf, Unborn
<1>5. Deletions'
  <2> SUFFICES ASSUME NEW e \in Deleters
               PROVE  LET x == deletion'[e].worker
                      IN /\ x # None => x[1] \in live' \cap deleting' /\ x = <<x[1], life[x[1]]>>
                         /\ \A t \in deletion'[e].visited :
                              t \notin UserTabs /\ Settled(t) /\ owner[t] = None
    BY <1>1 DEF Deletions, WorkerOf, Settled
  <2>1. CASE e = d
    BY <1>1, <2>1 DEF TypeOK, NoDeletion
  <2>2. CASE e # d
    <3>1. deletion'[e] = deletion[e]
      BY <1>1, <2>2 DEF TypeOK
    <3>2. LET x == deletion[e].worker
          IN /\ x # None => x[1] \in live \cap deleting /\ x = <<x[1], life[x[1]]>>
             /\ \A t \in deletion[e].visited :
                  t \notin UserTabs /\ Settled(t) /\ owner[t] = None
      BY DEF RInv, Deletions, WorkerOf
    <3> QED
      BY <1>1, <1>3, <2>2, <3>1, <3>2
  <2> QED
    BY <2>1, <2>2
<1>6. Loans'
  BY <1>1, <1>2 DEF RInv, Loans, WorkerOf
<1>7. PopupHome'
  <2> SUFFICES ASSUME NEW t \in Popups, owner[t] # None
               PROVE  owner[t] \in live' /\ t \in members[WorkerOf(owner[t])]
    BY <1>1 DEF PopupHome, WorkerOf
  <2>1. owner[t] \in live /\ t \in members[WorkerOf(owner[t])]
    BY DEF RInv, PopupHome
  <2>2. owner[t] # s
    BY <1>1, <1>2, <2>1
  <2> QED
    BY <1>1, <2>1, <2>2
<1>8. RegistriesAgree'
  <2>1. \A u \in live' \ deleting' : u \in live \ deleting
    BY <1>1
  <2>2. \A t \in Targets : lease'[t] # None => lease'[t] = lease[t]
    BY <1>1
  <2> QED
    BY <1>1, <2>1, <2>2 DEF RInv, RegistriesAgree, WorkerOf
<1> QED
  BY <1>4, <1>5, <1>6, <1>7, <1>8 DEF RInv

(* A clean step that leaves creations and deletions alone. *)
LEMMA CleanStep ==
  ASSUME OInv, FInv, RInv, Clean, UNCHANGED <<creating, maker, deletion>>
  PROVE  RInv'
<1>1. Unborn'
  BY UnbornFrame DEF RInv, Clean, Calm
<1> QED
  BY <1>1, CleanKeepsDeletions, CleanKeepsRInv

(* Creations, pool pages and headed pages keep what RInv says. *)
LEMMA CreationStepKeepsRInv ==
  ASSUME OInv, FInv, RInv, CreationStep
  PROVE  RInv'
<1> USE DEF OInv, registries, calls, world
<1>0. /\ \A t \in UserTabs : closing[t] = None /\ tab[t] # "closed"
      /\ \A w \in Workers : w[1] \in Sessions /\ w[2] \in Nat
      /\ \A s \in Sessions : life[s] \in Nat
      /\ \A w \in Workers : creating[w] \in Nat
      /\ None \notin Workers
  BY OwnershipAssumption DEF RInv, Loans, Workers, TypeOK
<1>1. ASSUME NEW s \in Sessions, CreateBegin(s) PROVE RInv'
  <2>1. /\ s \in live /\ creating' = [creating EXCEPT ![WorkerOf(s)] = @ + 1]
        /\ UNCHANGED <<life, live, deleting, members, owner, lease, borrowed, maker, popup,
                       closing, recovering, deletion, tab>>
    BY <1>1 DEF CreateBegin
  <2>2. Clean
    BY <1>0, <1>1, <2>1, CreatingCalm, IdleIsClean
  <2>3. Unborn'
    <3> SUFFICES ASSUME NEW w \in Workers, w[2] > life[w[1]]
                 PROVE  /\ members[w] = {} /\ creating'[w] = 0
                        /\ \A t \in Targets : maker[t] # w
      BY <2>1 DEF Unborn
    <3>1. w # WorkerOf(s)
      BY <1>0 DEF WorkerOf
    <3> QED
      BY <2>1, <3>1 DEF RInv, Unborn, TypeOK
  <2> QED
    BY <2>1, <2>2, <2>3, CleanKeepsDeletions, CleanKeepsRInv
<1>2. ASSUME NEW v \in Workers, CreateFail(v) PROVE RInv'
  <2>1. /\ creating[v] > 0 /\ creating' = [creating EXCEPT ![v] = @ - 1]
        /\ UNCHANGED <<life, live, deleting, members, owner, lease, borrowed, maker, popup,
                       closing, recovering, deletion, tab>>
    BY <1>2 DEF CreateFail
  <2>2. Clean
    BY <1>0, <1>2, <2>1, CreatingCalm, IdleIsClean
  <2>3. Unborn'
    BY <1>0, <2>1 DEF RInv, Unborn, TypeOK
  <2> QED
    BY <2>1, <2>2, <2>3, CleanKeepsDeletions, CleanKeepsRInv
<1>3. ASSUME NEW v \in Workers, NEW t \in ToolTabs, CreatePage(v, t) PROVE RInv'
  <2>1. /\ creating[v] > 0 /\ creating' = [creating EXCEPT ![v] = @ - 1]
        /\ maker' = [maker EXCEPT ![t] = v] /\ tab' = [tab EXCEPT ![t] = "open"]
        /\ UNCHANGED <<life, live, deleting, members, owner, lease, borrowed, popup,
                       closing, recovering, deletion>>
    BY <1>3 DEF CreatePage
  <2>2. \A u \in UserTabs : tab'[u] # "closed"
    BY <1>0, <2>1, Kinds DEF TypeOK
  <2>3. Clean
    BY <1>0, <1>3, <2>1, <2>2, CreatingCalm, IdleIsClean
  <2>4. Unborn'
    <3> SUFFICES ASSUME NEW w \in Workers, w[2] > life[w[1]]
                 PROVE  /\ members[w] = {} /\ creating'[w] = 0
                        /\ \A u \in Targets : maker'[u] # w
      BY <2>1 DEF Unborn
    <3>1. members[w] = {} /\ creating[w] = 0 /\ \A u \in Targets : maker[u] # w
      BY DEF RInv, Unborn
    <3>2. w # v
      BY <2>1, <3>1
    <3> QED
      BY <2>1, <3>1, <3>2, Kinds DEF TypeOK
  <2> QED
    BY <2>1, <2>3, <2>4, CleanKeepsDeletions, CleanKeepsRInv
<1>4. ASSUME NEW t \in ToolTabs, PageAppears(t) PROVE RInv'
  <2>1. /\ tab' = [tab EXCEPT ![t] = "spare"]
        /\ UNCHANGED <<life, live, deleting, members, owner, lease, borrowed, popup,
                       closing, recovering, deletion, creating, maker>>
    BY <1>4 DEF PageAppears
  <2>2. \A u \in UserTabs : tab'[u] # "closed"
    BY <1>0, <2>1, Kinds DEF TypeOK
  <2>3. Clean
    BY <1>0, <1>4, <2>1, <2>2, CreatingCalm, IdleIsClean
  <2> QED
    BY <2>1, <2>3, CleanStep
<1>5. ASSUME NEW t \in ToolTabs, CreateRegister(t) PROVE RInv'
  <2>1. /\ maker' = [maker EXCEPT ![t] = None]
        /\ UNCHANGED <<life, live, deleting, borrowed, deletion, creating, tab>>
    BY <1>5 DEF CreateRegister
  <2>2. maker[t] \in Workers /\ ~Settled(t) /\ Moving /\ Entering(maker[t], t)
    BY <1>5, CreateRegisterEnters
  <2>3. maker[t][2] <= life[maker[t][1]]
    <3>1. ~(maker[t][2] > life[maker[t][1]])
      BY <2>2, Kinds DEF RInv, Unborn
    <3> QED
      BY <1>0, <2>2, <3>1
  <2>4. Admitted(maker[t], t)
    BY <2>1, <2>2, <2>3, Kinds DEF Admitted
  <2>5. \A u \in Targets : maker'[u] \in {maker[u], None}
    BY <2>1 DEF TypeOK
  <2> QED
    BY <1>0, <2>1, <2>2, <2>4, <2>5, Kinds, EnteringKeepsRInv
<1>6. ASSUME NEW t \in ToolTabs, NEW s \in Sessions, RegisterExisting(s, t) \/ RegisterExternal(s, t)
      PROVE  RInv'
  <2>1. /\ tab' = [tab EXCEPT ![t] = "open"]
        /\ UNCHANGED <<life, live, deleting, borrowed, deletion, creating, maker>>
    BY <1>6 DEF RegisterExisting, RegisterExternal
  <2>2. /\ s \in live /\ WorkerOf(s) \in Workers /\ ~Settled(t)
        /\ Moving /\ Entering(WorkerOf(s), t)
    BY <1>6, SpareEnters
  <2>3. Admitted(WorkerOf(s), t)
    BY <1>0, <2>1, <2>2, Kinds DEF Admitted, WorkerOf
  <2>4. \A u \in UserTabs : tab'[u] # "closed"
    BY <1>0, <2>1, Kinds DEF TypeOK
  <2> QED
    BY <2>1, <2>2, <2>3, <2>4, Kinds, EnteringKeepsRInv
<1> QED
  BY <1>1, <1>2, <1>3, <1>4, <1>5, <1>6, OwnershipAssumption DEF CreationStep

(* Without recovery, so do loans, closes and the idle sweep. *)
LEMMA TabStepKeepsRInv ==
  ASSUME OInv, TypeOK', FInv, RInv, Recoverers = {}, TabStep
  PROVE  RInv'
<1> USE DEF OInv, registries, calls, world
<1>0. \A t \in UserTabs : /\ closing[t] = None /\ tab[t] # "closed"
                          /\ t \in Targets /\ (t \notin borrowed => owner[t] = None)
  BY Kinds DEF RInv, Loans
<1>1. ASSUME NEW t \in Targets, ReleaseBorrowed(t) \/ FindClosed(t) PROVE RInv'
  <2>1. /\ Forget({t}, record)
        /\ UNCHANGED <<life, live, deleting, deletion, creating, maker, closing, tab>>
    BY <1>1 DEF ReleaseBorrowed, FindClosed
  <2>2. Calm
    BY <1>1, TabUseCalm
  <2>3. Clean
    BY <1>0, <2>1, <2>2, ForgetReleases, DropIsClean DEF Forget
  <2> QED
    BY <2>1, <2>3, CleanStep
<1>2. ASSUME NEW t \in Targets, Use(t) \/ GoIdle(t) PROVE RInv'
  <2>1. UNCHANGED <<life, live, deleting, deletion, owner, members, borrowed, creating, maker,
                    closing, tab>>
    BY <1>2 DEF Use, GoIdle
  <2> QED
    BY <1>0, <1>2, <2>1, TabUseCalm, IdleIsClean, CleanStep
<1>3. ASSUME NEW t \in Targets, CloseBegin(t) PROVE RInv'
  <2>1. /\ owner[t] # None /\ t \notin borrowed /\ closing' = [closing EXCEPT ![t] = owner[t]]
        /\ UNCHANGED <<life, live, deleting, deletion, owner, members, borrowed, creating, maker,
                       tab>>
    BY <1>3 DEF CloseBegin, CanClose
  <2>2. t \notin UserTabs
    BY <1>0, <2>1
  <2>3. \A u \in UserTabs : closing'[u] = None
    BY <1>0, <2>1, <2>2 DEF TypeOK
  <2> QED
    BY <1>0, <1>3, <2>1, <2>3, TabUseCalm, IdleIsClean, CleanStep
<1>4. ASSUME NEW t \in Targets, CloseFinish(t) PROVE RInv'
  <2> DEFINE s == closing[t]
  <2>1. /\ s # None /\ ClosePage(t)
        /\ members' = [members EXCEPT ![WorkerOf(s)] = IF s \in live THEN @ \ {t} ELSE @]
        /\ owner' = [owner EXCEPT ![t] = None]
        /\ lease' = [lease EXCEPT ![t] = IF @ = s THEN None ELSE @]
        /\ closing' = [closing EXCEPT ![t] = None]
        /\ UNCHANGED <<life, live, deleting, deletion, borrowed, creating, maker>>
    BY <1>4 DEF CloseFinish
  <2>2. t \notin UserTabs /\ owner[t] \in {None, s}
    BY <1>0, <2>1 DEF RInv, ClosingOf
  <2>3. Calm
    BY <1>4, TabUseCalm
  <2>4. \A u \in Targets : owner'[u] = IF u = t THEN None ELSE owner[u]
    BY <2>1 DEF TypeOK
  <2>5. lease'[t] = None
    BY <2>1, <2>2 DEF RInv, RegistriesAgree, TypeOK
  <2>6. ASSUME NEW u \in live \ deleting, t \in members'[WorkerOf(u)] PROVE FALSE
    <3>1. WorkerOf(u) \in Workers /\ u # None
      BY WorkerOfType, OwnershipAssumption DEF TypeOK
    <3>2. t \in members[WorkerOf(u)]
      BY <2>3, <2>6, <3>1 DEF Calm, Losing
    <3>3. u = s
      BY <2>2, <3>1, <3>2 DEF RInv, RegistriesAgree
    <3>4. members'[WorkerOf(u)] = members[WorkerOf(u)] \ {t}
      BY <2>1, <3>1, <3>3 DEF TypeOK
    <3> QED
      BY <2>6, <3>4
  <2>7. ASSUME NEW w \in Workers, NEW u \in members[w], u \notin members'[w] PROVE owner'[u] = None
    <3>1. members'[w] \in {members[w], members[w] \ {t}}
      BY <2>1 DEF TypeOK
    <3>2. u = t
      BY <2>7, <3>1
    <3> QED
      BY <2>4, <3>2
  <2>8. \A u \in UserTabs : closing'[u] = None /\ tab'[u] # "closed"
    BY <1>0, <2>1, <2>2, ClosePageMoves DEF TypeOK
  <2> HIDE DEF s
  <2>9. Clean
    <3>1. \A u \in UserTabs : owner'[u] = owner[u] /\ (u \in borrowed => owner[u] # None)
      BY <2>2, <2>4, Kinds, OwnershipAssumption DEF RInv, Loans, TypeOK
    <3>2. \A u \in Targets : owner'[u] # owner[u] => u = t
      BY <2>4
    <3> QED
      BY <2>1, <2>3, <2>5, <2>6, <2>7, <2>8, <3>1, <3>2 DEF Clean
  <2> QED
    BY <2>1, <2>9, CleanStep
<1>5. ASSUME NEW t \in Targets, CloseFail(t) PROVE RInv'
  <2>1. /\ Forget({t}, record) /\ closing' = [closing EXCEPT ![t] = None]
        /\ UNCHANGED <<life, live, deleting, deletion, creating, maker, tab>>
    BY <1>5 DEF CloseFail
  <2>2. \A u \in UserTabs : closing'[u] = None
    BY <1>0, <2>1 DEF TypeOK
  <2>3. Calm
    BY <1>5, TabUseCalm
  <2>4. Clean
    BY <1>0, <2>1, <2>2, <2>3, ForgetReleases, DropIsClean DEF Forget
  <2> QED
    BY <2>1, <2>4, CleanStep
<1>6. ASSUME NEW t \in Targets, ExpireLeases(t) \/ ReclaimNext(t) PROVE RInv'
  <2> DEFINE s == IF ExpireLeases(t) THEN lease[t] ELSE reclaim[t]
             T == {t} \cap {u \in Targets : owner[u] = s}
  <2>1. /\ Reclaim(s, t)
        /\ UNCHANGED <<life, live, deleting, deletion, creating, maker, tab>>
    BY <1>6 DEF ExpireLeases, ReclaimNext
  <2>2. Calm
    BY <1>6, TabUseCalm
  <2>3. CASE t \in borrowed
    <3>1. Drop(T, record) /\ UNCHANGED closing
      BY <2>1, <2>3 DEF Reclaim
    <3>2. ASSUME t \in T PROVE lease'[t] = None
      <4>1. CASE ExpireLeases(t)
        BY <4>1 DEF ExpireLeases
      <4>2. CASE ~ExpireLeases(t)
        <5>1. owner[t] = reclaim[t] /\ lease' = Released({t})
          BY <1>6, <2>3, <3>2, <4>2 DEF ReclaimNext
        <5> QED
          BY <5>1 DEF Released, RInv, RegistriesAgree
      <4> QED
        BY <4>1, <4>2
    <3>3. \A u \in T : u \in Targets => lease'[u] = None
      BY <3>2
    <3> HIDE DEF T
    <3>4. Clean
      BY <1>0, <2>1, <2>2, <3>1, <3>3, DropIsClean
    <3> QED
      BY <2>1, <3>4, CleanStep
  <2>4. CASE t \notin borrowed
    <3>1. /\ closing' = [closing EXCEPT ![t] = IF CanClose(s, t) THEN s ELSE @]
          /\ UNCHANGED <<borrowed, members, owner>>
      BY <2>1, <2>4 DEF Reclaim
    <3>2. s # None
      BY <1>6 DEF ExpireLeases, ReclaimNext
    <3>3. t \in UserTabs => ~CanClose(s, t)
      BY <1>0, <2>4, <3>2 DEF CanClose
    <3> HIDE DEF s
    <3>4. \A u \in UserTabs : closing'[u] = None
      BY <1>0, <3>1, <3>3 DEF TypeOK
    <3> QED
      BY <1>0, <2>1, <2>2, <3>1, <3>4, IdleIsClean, CleanStep
  <2> QED
    BY <2>3, <2>4
<1>7. CASE ReclaimDone
  <2>1. UNCHANGED <<life, live, deleting, deletion, owner, members, borrowed, lease, creating,
                    maker, closing, tab, popup, recovering>>
    BY <1>7 DEF ReclaimDone
  <2>2. Calm
    BY <2>1, StandsStill DEF Calm, Losing
  <2> QED
    BY <1>0, <2>1, <2>2, IdleIsClean, CleanStep
<1>8. ASSUME NEW s \in Sessions, NEW t \in UserTabs, Borrow(s, t) PROVE RInv'
  <2>1. /\ borrowed' = borrowed \cup {t}
        /\ UNCHANGED <<life, live, deleting, deletion, creating, maker, tab>>
    BY <1>8 DEF Borrow
  <2>2. /\ s \in live \ deleting /\ WorkerOf(s) \in Workers /\ owner[t] = None
        /\ Moving /\ Entering(WorkerOf(s), t)
    BY <1>8, BorrowEnters
  <2>3. life[s] \in Int
    BY DEF TypeOK
  <2>4. Admitted(WorkerOf(s), t)
    BY <2>1, <2>2, <2>3, Kinds DEF Admitted, WorkerOf
  <2> QED
    BY <1>0, <2>1, <2>2, <2>4, EnteringKeepsRInv
<1> QED
  BY <1>0, <1>1, <1>2, <1>3, <1>4, <1>5, <1>6, <1>7, <1>8 DEF TabStep

(* Chrome's events keep what RInv says. *)
LEMMA ChromeStepKeepsRInv ==
  ASSUME OInv, TypeOK', FInv, RInv, ChromeStep
  PROVE  RInv'
<1> USE DEF OInv, registries, calls, world
<1>0. \A t \in UserTabs : closing[t] = None /\ tab[t] # "closed" /\ t \in Targets
  BY Kinds DEF RInv, Loans
<1>1. Calm
  BY ChromeStepCalm
<1>2. ASSUME NEW t \in Targets, TabCloses(t) PROVE RInv'
  <2>1. /\ tab' = [tab EXCEPT ![t] = "gone"]
        /\ UNCHANGED <<life, live, deleting, deletion, owner, members, borrowed, creating, maker,
                       closing>>
    BY <1>2 DEF TabCloses
  <2>2. \A u \in UserTabs : tab'[u] # "closed"
    BY <1>0, <2>1 DEF TypeOK
  <2> QED
    BY <1>0, <1>1, <2>1, <2>2, IdleIsClean, CleanStep
<1>3. ASSUME NEW t \in Targets, TargetDestroyed(t) \/ RendererCrashes(t) PROVE RInv'
  <2>1. /\ Forget({t}, record)
        /\ UNCHANGED <<life, live, deleting, deletion, creating, maker, closing, tab>>
    BY <1>3 DEF TargetDestroyed, RendererCrashes
  <2>2. Clean
    BY <1>0, <1>1, <2>1, ForgetReleases, DropIsClean DEF Forget
  <2> QED
    BY <2>1, <2>2, CleanStep
<1>4. CASE ReconnectFailed
  <2> DEFINE owned == {t \in Targets : owner[t] # None}
  <2>1. /\ Drop(owned, record)
        /\ lease' = [t \in Targets |-> IF t \in owned THEN None ELSE lease[t]]
        /\ \A u \in Targets : tab'[u] = tab[u] \/ tab'[u] = "gone"
        /\ UNCHANGED <<life, live, deleting, deletion, creating, maker, closing>>
    BY <1>4 DEF ReconnectFailed
  <2>2. \A u \in UserTabs : tab'[u] # "closed"
    BY <1>0, <2>1
  <2>3. \A t \in owned : lease'[t] = None
    BY <2>1
  <2> HIDE DEF owned
  <2>4. Clean
    BY <1>0, <1>1, <2>1, <2>2, <2>3, DropIsClean
  <2> QED
    BY <2>1, <2>4, CleanStep
<1> QED
  BY <1>2, <1>3, <1>4 DEF ChromeStep

(* And so do the steps of a popup. *)
LEMMA PopupStepKeepsRInv ==
  ASSUME OInv, TypeOK', FInv, RInv, PopupStep
  PROVE  RInv'
<1> USE DEF OInv, registries, calls, world
<1>0. /\ \A t \in UserTabs : closing[t] = None /\ tab[t] # "closed" /\ t \in Targets
      /\ \A t \in Popups : t \in Targets /\ t \notin UserTabs
  BY Kinds DEF RInv, Loans
<1>1. ASSUME NEW t \in Popups, NEW o \in Targets \ {t}, PopupOpens(t, o) PROVE RInv'
  <2>1. /\ tab' = [tab EXCEPT ![t] = "open"]
        /\ UNCHANGED <<life, live, deleting, deletion, owner, members, borrowed, creating, maker,
                       closing>>
    BY <1>1 DEF PopupOpens
  <2>2. \A u \in UserTabs : tab'[u] # "closed"
    BY <1>0, <2>1 DEF TypeOK
  <2> QED
    BY <1>0, <1>1, <2>1, <2>2, PopupCalm, IdleIsClean, CleanStep
<1>2. ASSUME NEW t \in Popups, PopupBegin(t) \/ PopupForbidden(t) PROVE RInv'
  <2>1. UNCHANGED <<life, live, deleting, deletion, owner, members, borrowed, creating, maker,
                    closing, tab>>
    BY <1>2 DEF PopupBegin, PopupForbidden
  <2> QED
    BY <1>0, <1>2, <2>1, PopupCalm, IdleIsClean, CleanStep
<1>3. ASSUME NEW t \in Popups, PopupStrays(t) PROVE RInv'
  <2>1. /\ ClosePage(t)
        /\ UNCHANGED <<life, live, deleting, deletion, owner, members, borrowed, creating, maker,
                       closing>>
    BY <1>3 DEF PopupStrays
  <2>2. \A u \in UserTabs : tab'[u] # "closed"
    BY <1>0, <2>1, ClosePageMoves
  <2> QED
    BY <1>0, <1>3, <2>1, <2>2, PopupCalm, IdleIsClean, CleanStep
<1>4. ASSUME NEW t \in Popups, PopupCommit(t) \/ PopupIndex(t) \/ PopupClose(t) PROVE RInv'
  <2>1. /\ ClosePage(t) \/ UNCHANGED <<tab, notices>>
        /\ UNCHANGED <<owner, members, borrowed>> \/ Forget({t}, record)
        /\ UNCHANGED <<life, live, deleting, deletion, creating, maker, closing>>
    BY <1>4 DEF PopupCommit, PopupIndex, PopupClose
  <2>2. \A u \in UserTabs : tab'[u] # "closed"
    BY <1>0, <2>1, ClosePageMoves
  <2>3. Calm
    BY <1>4, PopupCalm
  <2>4. CASE UNCHANGED <<owner, members, borrowed>>
    BY <1>0, <2>1, <2>2, <2>3, <2>4, IdleIsClean, CleanStep
  <2>5. CASE Forget({t}, record)
    <3>1. Clean
      BY <1>0, <2>1, <2>2, <2>3, <2>5, ForgetReleases, DropIsClean DEF Forget
    <3> QED
      BY <2>1, <3>1, CleanStep
  <2> QED
    BY <2>1, <2>4, <2>5
<1>5. ASSUME NEW t \in Popups, PopupRegister(t) PROVE RInv'
  <2> DEFINE s == popup[t].session
  <2>1. UNCHANGED <<life, live, deleting, deletion, creating, maker, closing, tab, borrowed>>
    BY <1>5 DEF PopupRegister
  <2>2. Moving /\ UNCHANGED recovering
    BY <1>5, PopupRegisters
  <2>3. CASE Losing /\ UNCHANGED <<owner, members>>
    BY <1>0, <2>1, <2>2, <2>3, IdleIsClean, CleanStep DEF Calm
  <2>4. CASE /\ s \in live \ deleting /\ WorkerOf(s) \in Workers /\ ~Settled(t)
             /\ Entering(WorkerOf(s), t)
    <3>1. s \in Sessions /\ life[s] \in Int
      BY <2>4 DEF TypeOK
    <3>2. Admitted(WorkerOf(s), t)
      BY <1>0, <2>1, <2>4, <3>1 DEF Admitted, WorkerOf
    <3> QED
      BY <1>0, <2>1, <2>2, <2>4, <3>2, EnteringKeepsRInv
  <2> QED
    BY <1>5, <2>3, <2>4, PopupRegisters
<1> QED
  BY <1>1, <1>2, <1>3, <1>4, <1>5 DEF PopupStep

(* Without recovery and with one deletion of a session at a time, every step *)
(* keeps RInv.                                                               *)
LEMMA StepKeepsRInv ==
  ASSUME OInv, OInv', FInv, RInv, OneDeletion, Recoverers = {}, [Next]_vars
  PROVE  RInv'
<1>0. TypeOK'
  BY DEF OInv
<1>1. CASE SessionStep
  BY <1>0, <1>1, CreateSessionKeepsRInv, DeleteBeginKeepsRInv, DeleteVisitKeepsRInv,
     DeleteFinishKeepsRInv DEF SessionStep
<1>2. CASE CreationStep
  BY <1>2, CreationStepKeepsRInv
<1>3. CASE TabStep
  BY <1>0, <1>3, TabStepKeepsRInv
<1>4. CASE ChromeStep
  BY <1>0, <1>4, ChromeStepKeepsRInv
<1>5. CASE PopupStep
  BY <1>0, <1>5, PopupStepKeepsRInv
<1>6. CASE UNCHANGED vars
  <2>1. UNCHANGED <<life, live, deleting, deletion, owner, members, borrowed, lease, creating,
                    maker, closing, tab, popup, recovering>>
    BY <1>6 DEF vars, registries, calls, world
  <2>2. Calm
    BY <2>1, StandsStill DEF Calm, Losing, OInv
  <2>3. \A t \in UserTabs : closing[t] = None /\ tab[t] # "closed"
    BY DEF RInv, Loans
  <2> QED
    BY <2>1, <2>2, <2>3, IdleIsClean, CleanStep
<1> QED
  BY <1>1, <1>2, <1>3, <1>4, <1>5, <1>6 DEF Next

(* The registries, the loans and the deletions fit together at any time,     *)
(* without recovery and as long as no session is deleted twice at a time.    *)
THEOREM RInvHolds ==
  ASSUME Recoverers = {}
  PROVE  Spec /\ []OneDeletion => []RInv
<1>1. Init => RInv
  <2> SUFFICES ASSUME Init PROVE RInv
    OBVIOUS
  <2> USE OwnershipAssumption, Kinds DEF Init
  <2>1. MemberOf /\ ClosingOf /\ Unborn /\ PopupHome /\ RegistriesAgree
    BY DEF MemberOf, ClosingOf, Unborn, PopupHome, RegistriesAgree
  <2>2. Deletions
    BY DEF Deletions, NoDeletion
  <2>3. Loans
    BY DEF Loans
  <2> QED
    BY <2>1, <2>2, <2>3 DEF RInv
<1>2. OInv /\ OInv' /\ FInv /\ RInv /\ OneDeletion /\ [Next]_vars => RInv'
  BY StepKeepsRInv
<1> QED
  BY <1>1, <1>2, OInvHolds, FInvHolds, PTL DEF Spec

(* What worker.targets lists targetToWorker attributes to the session, and a *)
(* lease names the owner, for any number of sessions, creations, popups,     *)
(* loans, sweeps and events of Chrome; without recovery, and as long as no   *)
(* session is deleted twice at a time, as both break it.                     *)
THEOREM RegistriesAlwaysAgree ==
  ASSUME Recoverers = {}
  PROVE  Spec /\ []OneDeletion => []RegistriesAgree
<1>1. RInv => RegistriesAgree
  BY DEF RInv
<1> QED
  BY <1>1, RInvHolds, PTL

(* The owner of a popup is a session that exists: a deletion visits every    *)
(* popup of its session, and none is registered for one under deletion.      *)
THEOREM PopupOwnersLive ==
  ASSUME Recoverers = {}
  PROVE  Spec /\ []OneDeletion => []PopupOwnerLives
<1>1. RInv => PopupOwnerLives
  BY DEF RInv, PopupHome, PopupOwnerLives
<1> QED
  BY <1>1, RInvHolds, PTL

(* Borrowed tabs are never closed by the program, and a loan ends with its   *)
(* session. The session manager does not recover tabs while user tabs are    *)
(* enabled, so only double deletions are left out.                           *)
THEOREM UserTabsAreKept == Spec /\ []OneDeletion => []UserTabKept
<1>1. CASE Recoverers = {}
  <2>1. OInv => borrowed \subseteq UserTabs
    BY DEF OInv, TypeOK
  <2>2. OInv /\ RInv => UserTabKept
    BY <2>1 DEF UserTabKept, RInv, Loans
  <2>3. Spec /\ []OneDeletion => []RInv
    BY <1>1, RInvHolds
  <2> QED
    BY <2>2, <2>3, OInvHolds, PTL
<1>2. CASE Recoverers # {}
  <2>1. UserTabs = {}
    BY <1>2, OwnershipAssumption
  <2>2. OInv => UserTabKept
    BY <2>1 DEF OInv, TypeOK, UserTabKept
  <2> QED
    BY <2>2, OInvHolds, PTL
<1> QED
  BY <1>1, <1>2

-----------------------------------------------------------------------------
(* What a deletion leaves behind                                             *)

(* What the ownership map attributes to a session a worker of the session    *)
(* lists, of this life or of an earlier one.                                 *)
Home ==
  \A t \in Targets : owner[t] # None => \E w \in Workers : w[1] = owner[t] /\ t \in members[w]

(* A worker loses only targets that nobody has. *)
LEMMA LosingKeepsHome ==
  ASSUME Home,
         \A t \in Targets : owner'[t] \in {owner[t], None},
         \A w \in Workers : \A t \in members[w] : t \in members'[w] \/ owner'[t] = None
  PROVE  Home'
<1> SUFFICES ASSUME NEW t \in Targets, owner'[t] # None
             PROVE  \E w \in Workers : w[1] = owner'[t] /\ t \in members'[w]
  BY DEF Home
<1>1. PICK w \in Workers : w[1] = owner[t] /\ t \in members[w]
  BY DEF Home
<1> QED
  BY <1>1

(* onTargetClosed does not. *)
LEMMA DropKeepsHome ==
  ASSUME OInv, Home, NEW T, NEW r, Drop(T, r)
  PROVE  Home'
<1>1. \A t \in Targets : owner'[t] = IF t \in T THEN None ELSE owner[t]
  BY DropLoses DEF OInv
<1>2. ASSUME NEW w \in Workers, NEW t \in members[w] PROVE t \in members'[w] \/ owner'[t] = None
  <2>1. t \in Targets
    BY DEF OInv, TypeOK
  <2>2. CASE t \in T
    BY <1>1, <2>1, <2>2
  <2>3. CASE t \notin T
    BY <2>3 DEF Drop
  <2> QED
    BY <2>2, <2>3
<1> QED
  BY <1>1, <1>2, LosingKeepsHome

(* A registration enters both maps. *)
LEMMA RegisterKeepsHome ==
  ASSUME OInv, Home, NEW v \in Workers, NEW x \in Targets, Register(v, x)
  PROVE  Home'
<1> SUFFICES ASSUME NEW t \in Targets, owner'[t] # None
             PROVE  \E w \in Workers : w[1] = owner'[t] /\ t \in members'[w]
  BY DEF Home
<1>1. /\ owner'[t] = IF t = x THEN v[1] ELSE owner[t]
      /\ \A w \in Workers : members[w] \subseteq members'[w]
      /\ x \in members'[v]
  BY DEF Register, OInv, TypeOK
<1>2. CASE t = x
  BY <1>1, <1>2
<1>3. CASE t # x
  <2>1. PICK w \in Workers : w[1] = owner[t] /\ t \in members[w]
    BY <1>1, <1>3 DEF Home
  <2> QED
    BY <1>1, <1>3, <2>1
<1> QED
  BY <1>2, <1>3

(* Every step keeps Home, and only a creation and the end of a deletion can  *)
(* orphan a target: the other registrations are for a session that is there. *)
OnlyForLive ==
  /\ Home'
  /\ live \subseteq live'
  /\ \A t \in Targets : owner'[t] \in {owner[t], None} \cup live

LEMMA FrameIsForLive ==
  ASSUME OInv, Home, UNCHANGED <<owner, members>>, live \subseteq live'
  PROVE  OnlyForLive
  BY LosingKeepsHome DEF OnlyForLive

LEMMA DropIsForLive ==
  ASSUME OInv, Home, NEW T, NEW r, Drop(T, r), UNCHANGED live
  PROVE  OnlyForLive
  BY DropKeepsHome, DropLoses DEF OnlyForLive, OInv

LEMMA RegisterIsForLive ==
  ASSUME OInv, Home, NEW s \in live, NEW x \in Targets, Register(WorkerOf(s), x), UNCHANGED live
  PROVE  OnlyForLive
<1>1. WorkerOf(s) \in Workers
  BY WorkerOfType DEF OInv
<1>2. Home'
  BY <1>1, RegisterKeepsHome
<1>3. \A t \in Targets : owner'[t] \in {owner[t], None} \cup live
  BY DEF Register, WorkerOf, OInv, TypeOK
<1> QED
  BY <1>2, <1>3 DEF OnlyForLive

LEMMA SessionsAreForLive ==
  ASSUME OInv, Home,
         \/ \E s \in Sessions : CreateSession(s)
         \/ \E d \in Deleters : \/ \E s \in Sessions : DeleteBegin(d, s)
                                \/ \E t \in Targets : DeleteVisit(d, t)
  PROVE  OnlyForLive
<1>1. ASSUME NEW s \in Sessions, CreateSession(s) PROVE OnlyForLive
  BY <1>1, FrameIsForLive DEF CreateSession
<1>2. ASSUME NEW d \in Deleters, NEW s \in Sessions, DeleteBegin(d, s) PROVE OnlyForLive
  BY <1>2, DropIsForLive DEF DeleteBegin, Forget
<1>3. ASSUME NEW d \in Deleters, NEW t \in Targets, DeleteVisit(d, t) PROVE OnlyForLive
  <2>1. CASE t \in borrowed
    BY <1>3, <2>1, DropIsForLive DEF DeleteVisit, Forget
  <2>2. CASE t \notin borrowed
    <3>1. owner' = [owner EXCEPT ![t] = None] /\ UNCHANGED <<members, live>>
      BY <1>3, <2>2 DEF DeleteVisit
    <3>2. \A u \in Targets : owner'[u] \in {owner[u], None}
      BY <3>1 DEF OInv, TypeOK
    <3> QED
      BY <3>1, <3>2, LosingKeepsHome DEF OnlyForLive
  <2> QED
    BY <2>1, <2>2
<1> QED
  BY <1>1, <1>2, <1>3

LEMMA CreationsAreForLive ==
  ASSUME OInv, Home, CreationStep
  PROVE  OnlyForLive \/ \E t \in ToolTabs : CreateRegister(t)
<1> USE OwnershipAssumption DEF registries
<1>1. ASSUME NEW s \in Sessions, CreateBegin(s) PROVE OnlyForLive
  BY <1>1, FrameIsForLive DEF CreateBegin
<1>2. ASSUME NEW w \in Workers, CreateFail(w) PROVE OnlyForLive
  BY <1>2, FrameIsForLive DEF CreateFail
<1>3. ASSUME NEW w \in Workers, NEW t \in ToolTabs, CreatePage(w, t) PROVE OnlyForLive
  BY <1>3, FrameIsForLive DEF CreatePage
<1>4. ASSUME NEW t \in ToolTabs, PageAppears(t) PROVE OnlyForLive
  BY <1>4, FrameIsForLive DEF PageAppears
<1>5. ASSUME NEW t \in ToolTabs, NEW s \in Sessions, RegisterExisting(s, t) \/ RegisterExternal(s, t)
      PROVE  OnlyForLive
  <2>1. s \in live /\ Register(WorkerOf(s), t) /\ UNCHANGED live
    BY <1>5 DEF RegisterExisting, RegisterExternal, Admits
  <2> QED
    BY <2>1, Kinds, RegisterIsForLive
<1> QED
  BY <1>1, <1>2, <1>3, <1>4, <1>5 DEF CreationStep

LEMMA TabsAreForLive ==
  ASSUME OInv, Home, TabStep
  PROVE  OnlyForLive
<1> USE DEF registries
<1>1. ASSUME NEW t \in Targets, ReleaseBorrowed(t) \/ FindClosed(t) \/ CloseFail(t)
      PROVE  OnlyForLive
  BY <1>1, DropIsForLive DEF ReleaseBorrowed, FindClosed, CloseFail, Forget
<1>2. ASSUME NEW s \in Sessions, NEW t \in UserTabs, Borrow(s, t) PROVE OnlyForLive
  BY <1>2, Kinds, RegisterIsForLive DEF Borrow, Admits
<1>3. ASSUME NEW t \in Targets, Use(t) \/ GoIdle(t) \/ CloseBegin(t) PROVE OnlyForLive
  BY <1>3, FrameIsForLive DEF Use, GoIdle, CloseBegin
<1>4. ASSUME NEW t \in Targets, CloseFinish(t) PROVE OnlyForLive
  <2>1. /\ members' = [members EXCEPT ![WorkerOf(closing[t])] =
                         IF closing[t] \in live THEN @ \ {t} ELSE @]
        /\ owner' = [owner EXCEPT ![t] = None]
        /\ UNCHANGED live
    BY <1>4 DEF CloseFinish
  <2>2. \A u \in Targets : owner'[u] = IF u = t THEN None ELSE owner[u]
    BY <2>1 DEF OInv, TypeOK
  <2>3. \A w \in Workers : \A u \in members[w] : u \in Targets /\ (u \in members'[w] \/ u = t)
    BY <2>1 DEF OInv, TypeOK
  <2> QED
    BY <2>1, <2>2, <2>3, LosingKeepsHome DEF OnlyForLive
<1>5. ASSUME NEW t \in Targets, ExpireLeases(t) \/ ReclaimNext(t) PROVE OnlyForLive
  <2>1. /\ UNCHANGED live
        /\ \E s : Reclaim(s, t)
    BY <1>5 DEF ExpireLeases, ReclaimNext
  <2>2. PICK s : Reclaim(s, t)
    BY <2>1
  <2>3. CASE t \in borrowed
    BY <2>1, <2>2, <2>3, DropIsForLive DEF Reclaim
  <2>4. CASE t \notin borrowed
    BY <2>1, <2>2, <2>4, FrameIsForLive DEF Reclaim
  <2> QED
    BY <2>3, <2>4
<1>6. CASE ReclaimDone
  BY <1>6, FrameIsForLive DEF ReclaimDone
<1>7. ASSUME NEW s \in Recoverers, NEW t \in Targets, RecoverBegin(s, t) PROVE OnlyForLive
  BY <1>7, FrameIsForLive DEF RecoverBegin
<1>8. ASSUME NEW s \in Recoverers, NEW t \in Targets, RecoverFinish(s, t) PROVE OnlyForLive
  <2>1. /\ UNCHANGED live
        /\ (s \in live /\ Register(WorkerOf(s), t)) \/ UNCHANGED <<members, owner>>
    BY <1>8 DEF RecoverFinish
  <2> QED
    BY <2>1, RegisterIsForLive, FrameIsForLive
<1> QED
  BY <1>1, <1>2, <1>3, <1>4, <1>5, <1>6, <1>7, <1>8, Kinds DEF TabStep

LEMMA EventsAreForLive ==
  ASSUME OInv, Home, ChromeStep \/ PopupStep \/ UNCHANGED vars
  PROVE  OnlyForLive
<1> USE DEF registries
<1>1. ASSUME NEW t \in Targets, TabCloses(t) PROVE OnlyForLive
  BY <1>1, FrameIsForLive DEF TabCloses
<1>2. ASSUME NEW t \in Targets, TargetDestroyed(t) \/ RendererCrashes(t) PROVE OnlyForLive
  BY <1>2, DropIsForLive DEF TargetDestroyed, RendererCrashes, Forget
<1>3. CASE ReconnectFailed
  BY <1>3, DropIsForLive DEF ReconnectFailed
<1>4. ASSUME NEW t \in Popups,
             \/ \E o \in Targets : PopupOpens(t, o)
             \/ PopupBegin(t) \/ PopupForbidden(t) \/ PopupStrays(t)
      PROVE  OnlyForLive
  BY <1>4, FrameIsForLive DEF PopupOpens, PopupBegin, PopupForbidden, PopupStrays
<1>5. ASSUME NEW t \in Popups, PopupRegister(t) PROVE OnlyForLive
  <2> DEFINE s == popup[t].session
  <2>1. /\ UNCHANGED live
        /\ (s \in live /\ Register(WorkerOf(s), t)) \/ UNCHANGED <<members, owner>>
    BY <1>5 DEF PopupRegister, PopupAccepted, Admits
  <2> HIDE DEF s
  <2> QED
    BY <2>1, Kinds, RegisterIsForLive, FrameIsForLive
<1>6. ASSUME NEW t \in Popups, PopupCommit(t) \/ PopupIndex(t) \/ PopupClose(t)
      PROVE  OnlyForLive
  <2>1. UNCHANGED live /\ (Drop({t}, record) \/ UNCHANGED <<members, owner>>)
    BY <1>6 DEF PopupCommit, PopupIndex, PopupClose, Forget
  <2> QED
    BY <2>1, DropIsForLive, FrameIsForLive
<1>7. CASE UNCHANGED vars
  BY <1>7, FrameIsForLive DEF vars
<1> QED
  BY <1>1, <1>2, <1>3, <1>4, <1>5, <1>6, <1>7 DEF ChromeStep, PopupStep

(* Every step keeps Home. *)
LEMMA StepKeepsHome ==
  ASSUME OInv, Home, [Next]_vars
  PROVE  Home'
<1>1. ASSUME NEW t \in ToolTabs, CreateRegister(t) PROVE Home'
  <2>1. maker[t] \in Workers /\ t \in Targets /\ Register(maker[t], t)
    BY <1>1, Kinds DEF CreateRegister, OInv, TypeOK
  <2> QED
    BY <2>1, RegisterKeepsHome
<1>2. ASSUME NEW d \in Deleters, DeleteFinish(d) PROVE Home'
  BY <1>2, LosingKeepsHome DEF DeleteFinish
<1> QED
  BY <1>1, <1>2, SessionsAreForLive, CreationsAreForLive, TabsAreForLive, EventsAreForLive
     DEF Next, SessionStep, OnlyForLive

(* The end of a deletion orphans no target that its worker lists. *)
LEMMA DeletionOrphans ==
  ASSUME OInv, RInv, Home, NEW d \in Deleters, DeleteFinish(d), NEW t \in Targets,
         Orphan(t)', ~Orphan(t)
  PROVE  /\ t \in ToolTabs
         /\ \E w \in Workers : t \in members[w] /\ w[1] = owner[t] /\ w # WorkerOf(owner[t])
<1>1. PICK v \in Workers : v = deletion[d].worker
  BY DEF DeleteFinish, OInv, TypeOK
<1>2. /\ v[1] \in live \cap deleting /\ v = WorkerOf(v[1]) /\ v # None
      /\ \A u \in deletion[d].visited : owner[u] = None
  BY <1>1 DEF RInv, Deletions, DeleteFinish
<1>3. members[v] \subseteq deletion[d].visited /\ live' = live \ {v[1]} /\ UNCHANGED owner
  BY <1>1 DEF DeleteFinish
<1>4. owner[t] = v[1] /\ t \notin members[v] /\ owner[t] # None
  BY <1>2, <1>3 DEF Orphan
<1>5. t \in ToolTabs
  <2>1. t \notin Popups
    BY <1>2, <1>4 DEF RInv, PopupHome
  <2>2. t \notin UserTabs
    BY <1>2, <1>4 DEF RInv, Loans
  <2> QED
    BY <2>1, <2>2 DEF Targets
<1> QED
  BY <1>2, <1>4, <1>5 DEF Home

(* Without recovery and double deletions, a target is orphaned only when a   *)
(* creation registers it for a session that is gone, or when it is listed by *)
(* a worker of an earlier life, for any sessions, lives, creations, loans    *)
(* and sweeps: a popup and a tab on loan are never orphaned.                 *)
THEOREM OnlyLateCreationsAreOrphaned ==
  ASSUME Recoverers = {}
  PROVE  Spec /\ []OneDeletion => OrphansComeLate
<1> DEFINE Late(t) == \/ maker[t] # None
                      \/ /\ t \in ToolTabs
                         /\ \E w \in Workers :
                              t \in members[w] /\ w[1] = owner[t] /\ w # WorkerOf(owner[t])
<1>1. Init => Home
  BY DEF Init, Home
<1>2. OInv /\ RInv /\ Home /\ [Next]_vars =>
        [\A t \in Targets : Orphan(t)' /\ ~Orphan(t) => Late(t)]_vars
  <2> SUFFICES ASSUME OInv, RInv, Home, [Next]_vars, NEW t \in Targets, Orphan(t)', ~Orphan(t)
               PROVE  Late(t)
    OBVIOUS
  <2>1. ~OnlyForLive
    BY DEF OnlyForLive, Orphan
  <2>2. ASSUME NEW x \in ToolTabs, CreateRegister(x) PROVE Late(t)
    <3>1. maker[x] # None /\ UNCHANGED live /\ owner' = [owner EXCEPT ![x] = maker[x][1]]
      BY <2>2 DEF CreateRegister, Register
    <3>2. t = x
      BY <3>1 DEF Orphan, OInv, TypeOK
    <3> QED
      BY <3>1, <3>2
  <2>3. ASSUME NEW d \in Deleters, DeleteFinish(d) PROVE Late(t)
    BY <2>3, DeletionOrphans
  <2> QED
    BY <2>1, <2>2, <2>3, SessionsAreForLive, CreationsAreForLive, TabsAreForLive, EventsAreForLive
       DEF Next, SessionStep
<1>3. OInv /\ Home /\ [Next]_vars => Home'
  BY StepKeepsHome
<1> QED
  BY <1>1, <1>2, <1>3, OInvHolds, RInvHolds, PTL DEF Spec, OrphansComeLate

-----------------------------------------------------------------------------
(* Popups that are gone                                                      *)

(* What a step may do to a popup and keep DInv: a popup that gets an owner   *)
(* has just been registered; one that dies is reported; one whose record is  *)
(* closed, whose close ends or whose handler goes on loses its owner, where  *)
(* it has to.                                                                *)
LEMMA PopupsKept ==
  ASSUME DInv,
    \A t \in Popups :
      \/ popup'[t].stage = "registered"
      \/ owner'[t] = None
      \/ /\ owner'[t] = owner[t]
         /\ tab'[t] \in {"gone", "closed"} /\ t \notin notices'
            => tab[t] \in {"gone", "closed"} /\ t \notin notices
         /\ popup[t].stage \in {"registered", "owned"}
            => popup'[t].stage \in {"registered", "owned"} \/ tab'[t] \notin {"gone", "closed"}
         /\ record'[t] = "closed" => record[t] = "closed" \/ closing'[t] # None
         /\ popup[t].stage = "registered" => record'[t] # "closed"
         /\ closing[t] # None => closing'[t] # None
  PROVE  DInv'
<1>1. Reported'
  BY DEF DInv, Reported
<1>2. RecordClosed'
  BY DEF DInv, RecordClosed
<1> QED
  BY <1>1, <1>2 DEF DInv

(* onTargetClosed closes the records of what it forgets only. *)
LEMMA DropRecords ==
  ASSUME TypeOK, NEW T, Drop(T, record)
  PROVE  \A t \in Popups : IF t \in T THEN owner'[t] = None
                                      ELSE owner'[t] = owner[t] /\ record'[t] = record[t]
  BY Kinds DEF Drop, MarkClosed, TypeOK

(* A page that this program closes is reported. *)
LEMMA ClosePageReports ==
  ASSUME TypeOK, NEW t \in Targets, ClosePage(t) \/ UNCHANGED <<tab, notices>>
  PROVE  \A u \in Targets :
           tab'[u] \in {"gone", "closed"} /\ u \notin notices'
           => tab[u] \in {"gone", "closed"} /\ u \notin notices
  BY DEF TypeOK, ClosePage

(* Steps of sessions and creations. *)
LEMMA SessionsKeepDInv ==
  ASSUME OInv, FInv, DInv, SessionStep \/ CreationStep
  PROVE  DInv'
<1> USE Kinds DEF OInv, registries, calls, world
<1>1. ASSUME NEW s \in Sessions, CreateSession(s) PROVE DInv'
  BY <1>1, PopupsKept DEF CreateSession
<1>2. ASSUME NEW d \in Deleters, NEW s \in Sessions, DeleteBegin(d, s) PROVE DInv'
  BY <1>2, DropRecords, PopupsKept DEF DeleteBegin, Forget
<1>3. ASSUME NEW d \in Deleters, NEW t \in Targets, DeleteVisit(d, t) PROVE DInv'
  <2>1. UNCHANGED <<popup, closing>>
    BY <1>3 DEF DeleteVisit
  <2>2. CASE t \in borrowed
    BY <1>3, <2>2, DropRecords, PopupsKept DEF DeleteVisit, Forget
  <2>3. CASE t \notin borrowed
    <3>1. /\ ClosePage(t) \/ UNCHANGED <<tab, notices>>
          /\ owner' = [owner EXCEPT ![t] = None] /\ UNCHANGED record
      BY <1>3, <2>3 DEF DeleteVisit
    <3>2. \A u \in Popups : IF u = t THEN owner'[u] = None ELSE owner'[u] = owner[u]
      BY <3>1 DEF TypeOK
    <3> QED
      BY <2>1, <3>1, <3>2, ClosePageReports, PopupsKept
  <2> QED
    BY <2>2, <2>3
<1>4. ASSUME NEW d \in Deleters, DeleteFinish(d) PROVE DInv'
  <2>1. \A t \in Popups : record'[t] \in {"none", record[t]}
    BY <1>4 DEF DeleteFinish
  <2> QED
    BY <1>4, <2>1, PopupsKept DEF DeleteFinish
<1>5. ASSUME NEW s \in Sessions, CreateBegin(s) PROVE DInv'
  BY <1>5, PopupsKept DEF CreateBegin
<1>6. ASSUME NEW w \in Workers, CreateFail(w) PROVE DInv'
  BY <1>6, PopupsKept DEF CreateFail
<1>7. ASSUME NEW t \in ToolTabs, PageAppears(t) \/ \E w \in Workers : CreatePage(w, t) PROVE DInv'
  <2>1. /\ \A u \in Popups : tab'[u] = tab[u]
        /\ UNCHANGED <<owner, record, popup, closing, notices>>
    BY <1>7 DEF CreatePage, PageAppears, TypeOK
  <2> QED
    BY <2>1, PopupsKept
<1>8. ASSUME NEW t \in ToolTabs, NEW s \in Sessions,
             RegisterExisting(s, t) \/ RegisterExternal(s, t)
      PROVE  DInv'
  <2>1. /\ \A u \in Popups : tab'[u] = tab[u] /\ owner'[u] = owner[u]
        /\ UNCHANGED <<record, popup, closing, notices>>
    BY <1>8 DEF RegisterExisting, RegisterExternal, Register, TypeOK
  <2> QED
    BY <2>1, PopupsKept
<1>9. ASSUME NEW t \in ToolTabs, CreateRegister(t) PROVE DInv'
  <2>1. /\ \A u \in Popups : tab'[u] = tab[u] /\ owner'[u] = owner[u]
        /\ UNCHANGED <<record, popup, closing, notices>>
    BY <1>9 DEF CreateRegister, Register, TypeOK
  <2> QED
    BY <2>1, PopupsKept
<1> QED
  BY <1>1, <1>2, <1>3, <1>4, <1>5, <1>6, <1>7, <1>8, <1>9, OwnershipAssumption
     DEF SessionStep, CreationStep

(* Loans, closes and the idle sweep: a close that ends has forgotten the     *)
(* target, and the sweep closes a record only with a close under way.        *)
LEMMA TabsKeepDInv ==
  ASSUME OInv, FInv, DInv, Recoverers = {}, TabStep
  PROVE  DInv'
<1> USE Kinds DEF OInv, registries, calls, world
<1>0. \A u \in Popups : u \notin borrowed
  BY DEF TypeOK
<1>1. ASSUME NEW t \in Targets, ReleaseBorrowed(t) \/ FindClosed(t) PROVE DInv'
  BY <1>1, DropRecords, PopupsKept DEF ReleaseBorrowed, FindClosed, Forget
<1>2. ASSUME NEW s \in Sessions, NEW t \in UserTabs, Borrow(s, t) PROVE DInv'
  <2>1. /\ \A u \in Popups : owner'[u] = owner[u]
        /\ UNCHANGED <<record, popup, closing, notices, tab>>
    BY <1>2 DEF Borrow, Register, TypeOK
  <2> QED
    BY <2>1, PopupsKept
<1>3. ASSUME NEW t \in Targets, Use(t) \/ GoIdle(t) \/ ReclaimDone PROVE DInv'
  BY <1>3, PopupsKept DEF Use, GoIdle, ReclaimDone
<1>4. ASSUME NEW t \in Targets, CloseBegin(t) PROVE DInv'
  <2>1. /\ owner[t] # None
        /\ closing' = [closing EXCEPT ![t] = owner[t]]
        /\ record' = MarkClosed(record, {t})
        /\ UNCHANGED <<owner, popup, tab, notices>>
    BY <1>4 DEF CloseBegin
  <2>2. \A u \in Popups : /\ u # t => closing'[u] = closing[u] /\ record'[u] = record[u]
                          /\ u = t => closing'[u] # None
    BY <2>1 DEF MarkClosed, TypeOK
  <2> QED
    BY <2>1, <2>2 DEF DInv, Reported, RecordClosed
<1>5. ASSUME NEW t \in Targets, CloseFinish(t) PROVE DInv'
  <2>1. /\ ClosePage(t)
        /\ owner' = [owner EXCEPT ![t] = None]
        /\ closing' = [closing EXCEPT ![t] = None]
        /\ UNCHANGED <<record, popup>>
    BY <1>5 DEF CloseFinish
  <2>2. \A u \in Popups : IF u = t THEN owner'[u] = None
                                   ELSE owner'[u] = owner[u] /\ closing'[u] = closing[u]
    BY <2>1 DEF TypeOK
  <2> QED
    BY <2>1, <2>2, ClosePageReports, PopupsKept
<1>6. ASSUME NEW t \in Targets, CloseFail(t) PROVE DInv'
  <2>1. /\ Drop({t}, record) /\ closing' = [closing EXCEPT ![t] = None]
        /\ UNCHANGED <<popup, tab, notices>>
    BY <1>6 DEF CloseFail, Forget
  <2>2. \A u \in Popups : u # t => closing'[u] = closing[u]
    BY <2>1 DEF TypeOK
  <2> QED
    BY <2>1, <2>2, DropRecords, PopupsKept
<1>7. ASSUME NEW t \in Targets, ExpireLeases(t) \/ ReclaimNext(t) PROVE DInv'
  <2> DEFINE s == IF ExpireLeases(t) THEN lease[t] ELSE reclaim[t]
             T == {t} \cap {u \in Targets : owner[u] = s}
  <2>1. Reclaim(s, t) /\ s # None /\ UNCHANGED <<popup, tab, notices>>
    BY <1>7 DEF ExpireLeases, ReclaimNext
  <2>2. CASE t \in borrowed
    <3>1. Drop(T, record) /\ UNCHANGED closing
      BY <2>1, <2>2 DEF Reclaim
    <3> HIDE DEF T
    <3> QED
      BY <2>1, <3>1, DropRecords, PopupsKept
  <2>3. CASE t \notin borrowed
    <3>1. /\ closing' = [closing EXCEPT ![t] = IF CanClose(s, t) THEN s ELSE @]
          /\ record' = IF owner[t] = s THEN MarkClosed(record, {t}) ELSE record
          /\ UNCHANGED owner
      BY <2>1, <2>3 DEF Reclaim
    <3> HIDE DEF s
    <3>2. \A u \in Popups : u # t => closing'[u] = closing[u] /\ record'[u] = record[u]
      BY <3>1 DEF MarkClosed, TypeOK
    <3>3. t \in Popups => /\ closing[t] # None => closing'[t] # None
                          /\ record'[t] = "closed" => record[t] = "closed" \/ closing'[t] # None
      BY <2>1, <2>3, <3>1 DEF MarkClosed, CanClose, TypeOK
    <3> QED
      BY <2>1, <3>1, <3>2, <3>3 DEF DInv, Reported, RecordClosed
  <2> QED
    BY <2>2, <2>3
<1>8. ASSUME ReclaimDone PROVE DInv'
  BY <1>8, PopupsKept DEF ReclaimDone
<1> QED
  BY <1>1, <1>2, <1>3, <1>4, <1>5, <1>6, <1>7, <1>8 DEF TabStep

(* Chrome's events: a tab that closes is reported, and what is reported is   *)
(* forgotten.                                                                *)
LEMMA ChromeKeepsDInv ==
  ASSUME OInv, FInv, DInv, ChromeStep
  PROVE  DInv'
<1> USE Kinds DEF OInv, registries, calls, world
<1>1. ASSUME NEW t \in Targets, TabCloses(t) PROVE DInv'
  <2>1. /\ \A u \in Popups : u # t => tab'[u] = tab[u]
        /\ notices' = notices \cup {t}
        /\ UNCHANGED <<owner, record, popup, closing>>
    BY <1>1 DEF TabCloses, TypeOK
  <2> QED
    BY <2>1 DEF DInv, Reported, RecordClosed
<1>2. ASSUME NEW t \in Targets, TargetDestroyed(t) PROVE DInv'
  <2>1. Drop({t}, record) /\ notices' = notices \ {t} /\ UNCHANGED <<popup, closing, tab>>
    BY <1>2 DEF TargetDestroyed, Forget
  <2> QED
    BY <2>1, DropRecords, PopupsKept
<1>3. ASSUME NEW t \in Targets, RendererCrashes(t) PROVE DInv'
  BY <1>3, DropRecords, PopupsKept DEF RendererCrashes, Forget
<1>4. CASE ReconnectFailed
  <2>1. \A t \in Popups : owner'[t] = None
    BY <1>4 DEF ReconnectFailed, Drop
  <2> QED
    BY <2>1 DEF DInv, Reported, RecordClosed
<1> QED
  BY <1>1, <1>2, <1>3, <1>4 DEF ChromeStep

(* The steps of a popup itself. *)
LEMMA PopupsKeepDInv ==
  ASSUME OInv, FInv, DInv, PopupStep
  PROVE  DInv'
<1> USE Kinds DEF OInv, registries, calls, world
<1>0. ASSUME NEW t \in Popups, NEW stage, Stage(t, stage)
      PROVE  /\ \A u \in Popups : u # t => popup'[u] = popup[u]
             /\ popup'[t].stage = stage
  BY <1>0 DEF Stage, TypeOK
<1>1. ASSUME NEW t \in Popups, NEW o \in Targets \ {t}, PopupOpens(t, o) PROVE DInv'
  <2>1. /\ tab[t] = "absent" /\ tab' = [tab EXCEPT ![t] = "open"]
        /\ popup' = [popup EXCEPT ![t] = [stage |-> "opened", session |-> None, opener |-> o]]
        /\ UNCHANGED <<owner, record, closing, notices>>
    BY <1>1 DEF PopupOpens
  <2>2. ~Settled(t)
    BY <2>1 DEF FInv, WindowsExist, Settled
  <2>3. owner[t] = None
    BY <2>2 DEF FInv, Fresh
  <2>4. \A u \in Popups : u # t => popup'[u] = popup[u] /\ tab'[u] = tab[u]
    BY <2>1 DEF TypeOK
  <2> QED
    BY <2>1, <2>3, <2>4 DEF DInv, Reported, RecordClosed
<1>2. ASSUME NEW t \in Popups, PopupBegin(t) \/ PopupForbidden(t) PROVE DInv'
  <2>1. popup[t].stage = "opened" /\ UNCHANGED <<owner, closing, tab, notices>>
    BY <1>2 DEF PopupBegin, PopupForbidden
  <2>2. owner[t] = None
    BY <2>1 DEF FInv, Fresh, Settled
  <2>3. \A u \in Popups : u # t => popup'[u] = popup[u] /\ record'[u] = record[u]
    BY <1>2 DEF PopupBegin, PopupForbidden, Stage, TypeOK
  <2> QED
    BY <2>1, <2>2, <2>3 DEF DInv, Reported, RecordClosed
<1>3. ASSUME NEW t \in Popups, PopupRegister(t) PROVE DInv'
  <2>1. /\ popup[t].stage = "queued" /\ UNCHANGED <<closing, tab, notices>>
        /\ \/ Stage(t, "registered")
           \/ Stage(t, "refused") /\ MarkBlocked(t) /\ UNCHANGED owner
    BY <1>3 DEF PopupRegister
  <2>2. owner[t] = None
    BY <2>1 DEF FInv, Fresh, Settled
  <2>3. \A u \in Popups : u # t => /\ popup'[u] = popup[u] /\ record'[u] = record[u]
                                   /\ owner'[u] = owner[u]
    BY <1>3 DEF PopupRegister, Stage, MarkBlocked, Register, TypeOK
  <2>4. popup'[t].stage = "registered" \/ owner'[t] = None
    BY <1>0, <2>1, <2>2
  <2> QED
    BY <2>1, <2>3, <2>4 DEF DInv, Reported, RecordClosed
<1>4. ASSUME NEW t \in Popups, PopupCommit(t) PROVE DInv'
  <2>1. popup[t].stage = "registered" /\ UNCHANGED <<closing, tab, notices>>
    BY <1>4 DEF PopupCommit
  <2>2. CASE record[t] = "pending"
    <3>1. Stage(t, "owned") /\ UNCHANGED <<owner, record>>
      BY <1>4, <2>2 DEF PopupCommit
    <3> QED
      BY <1>0, <2>1, <2>2, <3>1 DEF DInv, Reported, RecordClosed
  <2>3. CASE record[t] # "pending"
    <3>1. Stage(t, "refused") /\ Drop({t}, record)
      BY <1>4, <2>3 DEF PopupCommit, Forget
    <3> QED
      BY <1>0, <2>1, <3>1, DropRecords DEF DInv, Reported, RecordClosed
  <2> QED
    BY <2>2, <2>3
<1>5. ASSUME NEW t \in Popups, PopupIndex(t) PROVE DInv'
  <2>1. popup[t].stage = "owned" /\ UNCHANGED <<closing, tab, notices>>
    BY <1>5 DEF PopupIndex
  <2>2. \A u \in Popups : u # t => /\ popup'[u] = popup[u] /\ record'[u] = record[u]
                                   /\ owner'[u] = owner[u]
    BY <1>5, DropRecords DEF PopupIndex, Stage, MarkBlocked, Forget, TypeOK
  <2>3. CASE tab[t] = "open"
    <3>1. UNCHANGED owner /\ record'[t] \in {record[t], "blocked"}
      BY <1>5, <2>3 DEF PopupIndex, MarkBlocked, TypeOK
    <3> QED
      BY <2>1, <2>2, <2>3, <3>1 DEF DInv, Reported, RecordClosed
  <2>4. CASE tab[t] # "open"
    <3>1. owner'[t] = None
      BY <1>5, <2>4, DropRecords DEF PopupIndex, Forget
    <3> QED
      BY <2>1, <2>2, <3>1 DEF DInv, Reported, RecordClosed
  <2> QED
    BY <2>3, <2>4
<1>6. ASSUME NEW t \in Popups, PopupStrays(t) PROVE DInv'
  <2>1. ClosePage(t) /\ UNCHANGED <<owner, popup, closing>>
    BY <1>6 DEF PopupStrays
  <2>2. \A u \in Popups : record'[u] \in {record[u], "blocked"}
    BY <1>6 DEF PopupStrays, MarkBlocked, TypeOK
  <2> QED
    BY <2>1, <2>2, ClosePageReports DEF DInv, Reported, RecordClosed
<1>7. ASSUME NEW t \in Popups, PopupClose(t) PROVE DInv'
  <2>1. /\ popup[t].stage \in {"refused", "evicting"} /\ Stage(t, "done")
        /\ ClosePage(t) \/ UNCHANGED <<tab, notices>>
        /\ UNCHANGED closing
        /\ Drop({t}, record) \/ UNCHANGED <<owner, record>>
    BY <1>7 DEF PopupClose, Forget
  <2>2. \A u \in Popups : u # t => popup'[u] = popup[u]
    BY <1>0, <2>1
  <2>3. \A u \in Popups : owner'[u] = None \/ (owner'[u] = owner[u] /\ record'[u] = record[u])
    BY <2>1, DropRecords
  <2> QED
    BY <2>1, <2>2, <2>3, ClosePageReports DEF DInv, Reported, RecordClosed
<1> QED
  BY <1>1, <1>2, <1>3, <1>4, <1>5, <1>6, <1>7 DEF PopupStep

(* A window that closed while its registration was under way is not kept:    *)
(* once its handler is done and Chrome's events are in, a dead popup has no  *)
(* owner; nor has one whose record says "closed", outside a close or a       *)
(* registration that will be taken back. For any popups, sessions and        *)
(* overlapping deletions, without recovery, which registers tabs again.      *)
THEOREM DeadPopupsForgotten ==
  ASSUME Recoverers = {}
  PROVE  Spec => []DeadPopupForgotten
<1>1. Init => DInv
  BY Kinds, OwnershipAssumption DEF Init, DInv, Reported, RecordClosed
<1>2. OInv /\ FInv /\ DInv /\ [Next]_vars => DInv'
  <2> SUFFICES ASSUME OInv, FInv, DInv, [Next]_vars PROVE DInv'
    OBVIOUS
  <2>1. CASE UNCHANGED vars
    BY <2>1 DEF vars, registries, calls, world, DInv, Reported, RecordClosed
  <2> QED
    BY <2>1, SessionsKeepDInv, TabsKeepDInv, ChromeKeepsDInv, PopupsKeepDInv DEF Next
<1>3. DInv => DeadPopupForgotten
  BY DEF DInv, Reported, RecordClosed, DeadPopupForgotten
<1> QED
  BY <1>1, <1>2, <1>3, OInvHolds, FInvHolds, PTL DEF Spec

================================================================================
