---------------------------- MODULE TargetOwnership ----------------------------
(***************************************************************************)
(* Who owns which tab: the registries of src/session/manager.ts (sessions, *)
(* worker.targets, targetToWorker, target leases, slot reservations,       *)
(* borrowed tabs, the state of creation records) and the operations that   *)
(* change them while they await Chrome.                                    *)
(*                                                                         *)
(* One action is one turn of the event loop. An operation that awaits is   *)
(* split at the await, and what it captured before is a variable: the      *)
(* worker object of a creation, the session of a close, the opener's owner *)
(* of a popup, the leases an idle sweep removed.                           *)
(*                                                                         *)
(* Each session has its default worker only; a worker object is the pair   *)
(* of a session and its life, the number of times the id was created. The  *)
(* connection pool keeps no returned page (its default), so closing a      *)
(* target closes its page.                                                 *)
(***************************************************************************)
EXTENDS Naturals, FiniteSets

CONSTANTS
  Sessions,       (* session ids                                            *)
  Default,        (* the session that has no lease TTL                      *)
  ToolTabs,       (* targets opened by tool calls and by the page pool      *)
  Popups,         (* targets opened by pages                                *)
  UserTabs,       (* the user's own tabs; non-empty: OPENCHROME_USER_TABS=1 *)
  Recoverers,     (* sessions whose client may name an untracked tab        *)
  Batchers,       (* sessions that run workflows on batch-acquired pages    *)
  Deleters,       (* calls of deleteSession that may overlap                *)
  MaxTargets,     (* config.maxTargetsPerWorker                             *)
  MaxLives,       (* bound: how often a session id is created               *)
  None

Targets == ToolTabs \cup Popups \cup UserTabs
Workers == Sessions \X (1 .. MaxLives)

ASSUME OwnershipAssumption ==
  /\ Recoverers \subseteq Sessions /\ Batchers \subseteq Sessions
  /\ UserTabs # {} => Recoverers = {}
  /\ ToolTabs \cap Popups = {} /\ UserTabs \cap (ToolTabs \cup Popups) = {}
  /\ IsFiniteSet(Targets)
  /\ MaxTargets \in Nat /\ MaxLives \in Nat
  /\ None \notin {Default} \cup Sessions \cup Targets \cup Workers

VARIABLES
  life,        (* how often each session id was created                     *)
  live,        (* the keys of `sessions`                                    *)
  deleting,    (* deletingSessions, deletingWorkers                         *)
  members,     (* worker.targets of every worker object                     *)
  reserved,    (* targetReservations                                        *)
  creating,    (* creations in flight that have no page yet                 *)
  maker,       (* the worker whose creation opened the page, unregistered   *)
  owner,       (* targetToWorker                                            *)
  lease,       (* targetLeases: the session of the lease                    *)
  idle,        (* targets not used for longer than the lease TTL            *)
  borrowed,    (* borrowedTargets                                           *)
  record,      (* state of the creation record of a popup                   *)
  popup,       (* progress of the targetcreated handler of a popup          *)
  tab,         (* the tab in Chrome; "spare": handed to no session yet,     *)
               (* "closed": by this program                                 *)
  notices,     (* targetdestroyed events not yet delivered                  *)
  closing,     (* the session of a closeTarget awaiting Chrome              *)
  recovering,  (* calls of tryRecoverTarget awaiting Chrome                 *)
  reclaim,     (* expired leases an idle sweep has still to close           *)
  sweeping,    (* the target whose close the idle sweep awaits              *)
  deletion     (* progress of every deleteSession                           *)

registries == <<life, live, deleting, members, reserved, owner, lease, borrowed, record>>
calls == <<creating, maker, popup, closing, recovering, reclaim, sweeping, deletion>>
world == <<idle, tab, notices>>
vars == <<registries, calls, world>>

NoPopup == [stage |-> "none", session |-> None, opener |-> None]
NoDeletion == [worker |-> None, visited |-> {}]

TypeOK ==
  /\ life \in [Sessions -> 0 .. MaxLives]
  /\ live \subseteq Sessions
  /\ deleting \subseteq Sessions
  /\ members \in [Workers -> SUBSET Targets]
  /\ reserved \in [Workers -> 0 .. MaxTargets]
  /\ creating \in [Workers -> 0 .. MaxTargets]
  /\ maker \in [Targets -> Workers \cup {None}]
  /\ owner \in [Targets -> Sessions \cup {None}]
  /\ lease \in [Targets -> Sessions \cup {None}]
  /\ idle \subseteq Targets
  /\ borrowed \subseteq UserTabs
  /\ record \in [Popups -> {"none", "pending", "blocked", "closed"}]
  /\ popup \in [Popups -> [stage : {"none", "opened", "queued", "registered", "owned",
                                    "refused", "evicting", "done"},
                           session : Sessions \cup {None},
                           opener : Targets \cup {None}]]
  /\ tab \in [Targets -> {"absent", "spare", "open", "gone", "closed"}]
  /\ notices \subseteq Targets
  /\ closing \in [Targets -> Sessions \cup {None}]
  /\ recovering \subseteq Recoverers \X Targets
  /\ reclaim \in [Targets -> Sessions \cup {None}]
  /\ sweeping \in Targets \cup {None}
  /\ deletion \in [Deleters -> [worker : Workers \cup {None}, visited : SUBSET Targets]]

Init ==
  /\ life = [s \in Sessions |-> 0]
  /\ live = {}
  /\ deleting = {}
  /\ members = [w \in Workers |-> {}]
  /\ reserved = [w \in Workers |-> 0]
  /\ creating = [w \in Workers |-> 0]
  /\ maker = [t \in Targets |-> None]
  /\ owner = [t \in Targets |-> None]
  /\ lease = [t \in Targets |-> None]
  /\ idle = {}
  /\ borrowed = {}
  /\ record = [t \in Popups |-> "none"]
  /\ popup = [t \in Popups |-> NoPopup]
  /\ tab = [t \in Targets |-> IF t \in UserTabs THEN "open" ELSE "absent"]
  /\ notices = {}
  /\ closing = [t \in Targets |-> None]
  /\ recovering = {}
  /\ reclaim = [t \in Targets |-> None]
  /\ sweeping = None
  /\ deletion = [d \in Deleters |-> NoDeletion]

(* The worker object that sessions.get(s) leads to. *)
WorkerOf(s) == <<s, life[s]>>

-----------------------------------------------------------------------------
(* Shared parts of the operations                                            *)

(* Fault: the limit is compared with the registered targets only. *)
FullOfTargets(w) == Cardinality(members[w]) >= MaxTargets

(* Full(w): reserveTargetSlot and registerExternalTargetLocked refuse. *)
Full(w) == Cardinality(members[w]) + reserved[w] >= MaxTargets

(* worker.targets.add, targetToWorker.set, acquireTargetLease: a lease of    *)
(* another session is transferred, one of this session refreshed.            *)
Register(w, t) ==
  /\ members' = [members EXCEPT ![w] = @ \cup {t}]
  /\ owner' = [owner EXCEPT ![t] = w[1]]
  /\ lease' = [lease EXCEPT ![t] = w[1]]
  /\ idle' = idle \ {t}

(* markClosed of the ledger: a blocked record stays blocked. *)
MarkClosed(r, T) ==
  [t \in Popups |-> IF t \in T /\ r[t] = "pending" THEN "closed" ELSE r[t]]

(* onTargetClosed for the targets of T, r being the records so far; the      *)
(* worker is looked up by the id the ownership entry names.                  *)
Drop(T, r) ==
  /\ borrowed' = borrowed \ T
  /\ record' = MarkClosed(r, T)
  /\ owner' = [t \in Targets |-> IF t \in T THEN None ELSE owner[t]]
  /\ members' = [w \in Workers |->
                   IF w[1] \in live /\ w = WorkerOf(w[1])
                   THEN members[w] \ {t \in T : owner[t] = w[1]} ELSE members[w]]

(* Fault: a lease is left to its TTL. *)
ReleasedNever(T) == lease

(* targetLeases.release(t, ownerInfo?.sessionId) for the targets of T: a     *)
(* lease of another session than the owner stays.                            *)
Released(T) ==
  [t \in Targets |-> IF t \in T /\ owner[t] \in {None, lease[t]} THEN None ELSE lease[t]]

Forget(T, r) == Drop(T, r) /\ lease' = Released(T)

(* closePage: the tab closes, unless it has, and its event is on the way. *)
ClosePage(t) ==
  /\ tab' = [tab EXCEPT ![t] = IF @ = "open" THEN "closed" ELSE @]
  /\ notices' = IF tab[t] = "open" THEN notices \cup {t} ELSE notices

-----------------------------------------------------------------------------
(* Sessions                                                                  *)

CreateSession(s) ==
  /\ s \notin live
  /\ life[s] < MaxLives
  /\ life' = [life EXCEPT ![s] = @ + 1]
  /\ live' = live \cup {s}
  /\ UNCHANGED <<deleting, members, reserved, owner, lease, borrowed, record, calls, world>>

(* deleteSession up to its first await: borrowed tabs are handed back. *)
DeleteBegin(d, s) ==
  /\ deletion[d] = NoDeletion
  /\ s \in live
  /\ deleting' = deleting \cup {s}
  /\ deletion' = [deletion EXCEPT ![d].worker = WorkerOf(s)]
  /\ Forget({t \in borrowed : owner[t] = s /\ t \in members[WorkerOf(s)]}, record)
  /\ UNCHANGED <<life, live, reserved, creating, maker, popup, closing, recovering,
                 reclaim, sweeping, world>>

(* Fault: a target whose page cannot be closed keeps its owner. *)
DeleteVisitIfClosed(d, t) ==
  LET w == deletion[d].worker
  IN /\ w # None
     /\ t \in members[w] \ deletion[d].visited
     /\ deletion' = [deletion EXCEPT ![d].visited = @ \cup {t}]
     /\ \/ ClosePage(t) /\ owner' = [owner EXCEPT ![t] = None]
        \/ UNCHANGED <<tab, notices, owner>>
     /\ lease' = [lease EXCEPT ![t] = IF @ = w[1] THEN None ELSE @]
     /\ UNCHANGED <<members, borrowed, record, life, live, deleting, reserved, idle,
                    creating, maker, popup, closing, recovering, reclaim, sweeping>>

(* deleteWorkerInternal handles one target of the live set worker.targets;   *)
(* a page that cannot be closed is forgotten all the same.                   *)
DeleteVisit(d, t) ==
  LET w == deletion[d].worker
  IN /\ w # None
     /\ t \in members[w] \ deletion[d].visited
     /\ deletion' = [deletion EXCEPT ![d].visited = @ \cup {t}]
     /\ IF t \in borrowed
        THEN /\ Forget({t} \cap {u \in Targets : owner[u] = w[1]}, record)
             /\ UNCHANGED <<tab, notices>>
        ELSE /\ ClosePage(t) \/ UNCHANGED <<tab, notices>>
             /\ owner' = [owner EXCEPT ![t] = None]
             /\ lease' = [lease EXCEPT ![t] = IF @ = w[1] THEN None ELSE @]
             /\ UNCHANGED <<members, borrowed, record>>
     /\ UNCHANGED <<life, live, deleting, reserved, idle,
                    creating, maker, popup, closing, recovering, reclaim, sweeping>>

(* The rest of deleteSession once every target of the worker was visited. *)
DeleteFinish(d) ==
  LET w == deletion[d].worker
  IN /\ w # None
     /\ members[w] \subseteq deletion[d].visited
     /\ record' = [t \in Popups |-> IF popup[t].session = w[1] THEN "none" ELSE record[t]]
     /\ live' = live \ {w[1]}
     /\ lease' = [t \in Targets |-> IF lease[t] = w[1] THEN None ELSE lease[t]]
     /\ deleting' = deleting \ {w[1]}
     /\ deletion' = [deletion EXCEPT ![d] = NoDeletion]
     /\ UNCHANGED <<life, members, reserved, owner, borrowed, creating, maker, popup,
                    closing, recovering, reclaim, sweeping, world>>

-----------------------------------------------------------------------------
(* createTarget and createTargetStealth                                      *)

(* reserveTargetSlot, before anything is awaited. *)
CreateBegin(s) ==
  LET w == WorkerOf(s)
  IN /\ s \in live
     /\ ~Full(w)
     /\ reserved' = [reserved EXCEPT ![w] = @ + 1]
     /\ creating' = [creating EXCEPT ![w] = @ + 1]
     /\ UNCHANGED <<life, live, deleting, members, owner, lease, borrowed, record,
                    maker, popup, closing, recovering, reclaim, sweeping, deletion, world>>

(* Chrome opens the page. *)
CreatePage(w, t) ==
  /\ creating[w] > 0
  /\ tab[t] = "absent"
  /\ creating' = [creating EXCEPT ![w] = @ - 1]
  /\ maker' = [maker EXCEPT ![t] = w]
  /\ tab' = [tab EXCEPT ![t] = "open"]
  /\ UNCHANGED <<registries, popup, closing, recovering, reclaim, sweeping, deletion,
                 idle, notices>>

(* Fault: the slot is not given back on success. *)
CreateRegisterKeepsSlot(t) ==
  /\ maker[t] # None
  /\ Register(maker[t], t)
  /\ maker' = [maker EXCEPT ![t] = None]
  /\ UNCHANGED <<reserved, life, live, deleting, borrowed, record, creating, popup, closing,
                 recovering, reclaim, sweeping, deletion, tab, notices>>

(* The creation resumes and registers the page with the worker it captured. *)
CreateRegister(t) ==
  /\ maker[t] # None
  /\ Register(maker[t], t)
  /\ reserved' = [reserved EXCEPT ![maker[t]] = @ - 1]
  /\ maker' = [maker EXCEPT ![t] = None]
  /\ UNCHANGED <<life, live, deleting, borrowed, record, creating, popup, closing,
                 recovering, reclaim, sweeping, deletion, tab, notices>>

(* Chrome does not: the `finally` gives the slot back. *)
CreateFail(w) ==
  /\ creating[w] > 0
  /\ creating' = [creating EXCEPT ![w] = @ - 1]
  /\ reserved' = [reserved EXCEPT ![w] = @ - 1]
  /\ UNCHANGED <<life, live, deleting, members, owner, lease, borrowed, record,
                 maker, popup, closing, recovering, reclaim, sweeping, deletion, world>>

-----------------------------------------------------------------------------
(* Pages that exist already                                                  *)

(* The page pool, or a headed fallback browser, opens a page. *)
PageAppears(t) ==
  /\ tab[t] = "absent"
  /\ tab' = [tab EXCEPT ![t] = "spare"]
  /\ UNCHANGED <<registries, calls, idle, notices>>

(* registerExistingTarget, called by the workflow engine for a pool page. *)
RegisterExisting(s, t) ==
  /\ s \in live
  /\ tab[t] = "spare"
  /\ tab' = [tab EXCEPT ![t] = "open"]
  /\ Register(WorkerOf(s), t)
  /\ UNCHANGED <<life, live, deleting, reserved, borrowed, record, calls, notices>>

(* The common checks of registerExternalTargetLocked. *)
Admits(s, t) ==
  /\ s \in live
  /\ s \notin deleting
  /\ owner[t] = None
  /\ ~Full(WorkerOf(s))

(* registerExternalTarget of a page without an opener (registerHeadedPage). *)
RegisterExternal(s, t) ==
  /\ tab[t] = "spare"
  /\ tab' = [tab EXCEPT ![t] = "open"]
  /\ Admits(s, t)
  /\ Register(WorkerOf(s), t)
  /\ UNCHANGED <<life, live, deleting, reserved, borrowed, record, calls, notices>>

(* borrowUserTab *)
Borrow(s, t) ==
  /\ tab[t] = "open"
  /\ Admits(s, t)
  /\ Register(WorkerOf(s), t)
  /\ borrowed' = borrowed \cup {t}
  /\ UNCHANGED <<life, live, deleting, reserved, record, calls, tab, notices>>

(* releaseBorrowedTarget, called by the client. *)
ReleaseBorrowed(t) ==
  /\ t \in borrowed
  /\ owner[t] # None
  /\ Forget({t}, record)
  /\ UNCHANGED <<life, live, deleting, reserved, calls, world>>

(* Fault: the ownership map is not consulted. *)
RecoverBeginAny(s, t) ==
  /\ tab[t] = "open"
  /\ maker[t] = None
  /\ recovering' = recovering \cup {<<s, t>>}
  /\ UNCHANGED <<registries, creating, maker, popup, closing, reclaim, sweeping,
                 deletion, world>>

(* getPage of a target nobody owns: tryRecoverTarget awaits Chrome. A client *)
(* does not know the id of a tab whose creation is still under way.          *)
RecoverBegin(s, t) ==
  /\ owner[t] = None
  /\ tab[t] = "open"
  /\ maker[t] = None
  /\ t \in Popups => popup[t].stage = "done"
  /\ recovering' = recovering \cup {<<s, t>>}
  /\ UNCHANGED <<registries, creating, maker, popup, closing, reclaim, sweeping,
                 deletion, world>>

(* ... and registers the tab if it is open and the session has a tab.       *)
RecoverFinish(s, t) ==
  /\ <<s, t>> \in recovering
  /\ recovering' = recovering \ {<<s, t>>}
  /\ IF tab[t] = "open" /\ s \in live /\ members[WorkerOf(s)] # {}
     THEN Register(WorkerOf(s), t)
     ELSE UNCHANGED <<members, owner, lease, idle>>
  /\ UNCHANGED <<life, live, deleting, reserved, borrowed, record, creating, maker, popup,
                 closing, reclaim, sweeping, deletion, tab, notices>>

-----------------------------------------------------------------------------
(* Use, close, idle sweep                                                    *)

(* getPage or runTargetExclusive by the owner: the lease slides forward. *)
Use(t) ==
  /\ owner[t] # None
  /\ t \in idle
  /\ idle' = idle \ {t}
  /\ UNCHANGED <<registries, calls, tab, notices>>

(* Nobody uses the target for longer than the lease TTL. *)
GoIdle(t) ==
  /\ lease[t] \notin {None, Default}
  /\ t \notin idle
  /\ idle' = idle \cup {t}
  /\ UNCHANGED <<registries, calls, tab, notices>>

(* getPage or a failed close finds the page gone: onTargetClosed. *)
FindClosed(t) ==
  /\ owner[t] # None
  /\ tab[t] # "open"
  /\ Forget({t}, record)
  /\ UNCHANGED <<life, live, deleting, reserved, calls, world>>

(* Fault: a tab on loan is closed like any other. *)
CanCloseBorrowed(s, t) == owner[t] = s /\ closing[t] = None

(* The synchronous part of closeTarget(s, t). *)
CanClose(s, t) == owner[t] = s /\ t \notin borrowed /\ closing[t] = None

CloseBegin(t) ==
  /\ owner[t] # None
  /\ CanClose(owner[t], t)
  /\ closing' = [closing EXCEPT ![t] = owner[t]]
  /\ record' = MarkClosed(record, {t})
  /\ UNCHANGED <<life, live, deleting, members, reserved, owner, lease, borrowed,
                 creating, maker, popup, recovering, reclaim, sweeping, deletion, world>>

(* closeTarget resumes: the page is closed, the registries are cleaned. *)
CloseFinish(t) ==
  LET s == closing[t]
  IN /\ s # None
     /\ ClosePage(t)
     /\ members' = [members EXCEPT ![WorkerOf(s)] = IF s \in live THEN @ \ {t} ELSE @]
     /\ owner' = [owner EXCEPT ![t] = None]
     /\ lease' = [lease EXCEPT ![t] = IF @ = s THEN None ELSE @]
     /\ closing' = [closing EXCEPT ![t] = None]
     /\ UNCHANGED <<life, live, deleting, reserved, borrowed, record, creating, maker,
                    popup, recovering, reclaim, sweeping, deletion, idle>>

(* Chrome does not close the page: the catch clause forgets the target. *)
CloseFail(t) ==
  /\ closing[t] # None
  /\ closing' = [closing EXCEPT ![t] = None]
  /\ Forget({t}, record)
  /\ UNCHANGED <<life, live, deleting, reserved, creating, maker, popup, recovering,
                 reclaim, sweeping, deletion, world>>

(* Fault: a tab on loan is handed back whoever has it now. *)
ReclaimFromAnybody(s, t) ==
  /\ sweeping' = t
  /\ IF t \in borrowed
     THEN Drop({t}, record) /\ UNCHANGED closing
     ELSE /\ closing' = [closing EXCEPT ![t] = IF CanClose(s, t) THEN s ELSE @]
          /\ record' = IF owner[t] = s THEN MarkClosed(record, {t}) ELSE record
          /\ UNCHANGED <<borrowed, members, owner>>

(* The sweep closes t for s, or hands it back, or finds nothing to do. *)
Reclaim(s, t) ==
  /\ sweeping' = t
  /\ IF t \in borrowed
     THEN /\ Drop({t} \cap {u \in Targets : owner[u] = s}, record)
          /\ UNCHANGED closing
     ELSE /\ closing' = [closing EXCEPT ![t] = IF CanClose(s, t) THEN s ELSE @]
          /\ record' = IF owner[t] = s THEN MarkClosed(record, {t}) ELSE record
          /\ UNCHANGED <<borrowed, members, owner>>

(* cleanupInactiveSessions: expire() drops every idle lease, and the close   *)
(* of the first target begins in the same turn.                              *)
ExpireLeases(t) ==
  LET expired == {u \in idle : lease[u] # None}
  IN /\ sweeping = None
     /\ t \in expired
     /\ reclaim' = [u \in Targets |-> IF u \in expired \ {t} THEN lease[u] ELSE None]
     /\ lease' = [u \in Targets |-> IF u \in expired THEN None ELSE lease[u]]
     /\ Reclaim(lease[t], t)
     /\ UNCHANGED <<life, live, deleting, reserved, creating, maker, popup, recovering,
                    deletion, world>>

(* The sweep resumes with the next expired lease ... *)
ReclaimNext(t) ==
  /\ sweeping # None
  /\ closing[sweeping] = None
  /\ reclaim[t] # None
  /\ reclaim' = [reclaim EXCEPT ![t] = None]
  /\ Reclaim(reclaim[t], t)
  /\ lease' = IF t \in borrowed /\ owner[t] = reclaim[t] THEN Released({t}) ELSE lease
  /\ UNCHANGED <<life, live, deleting, reserved, creating, maker, popup, recovering,
                 deletion, world>>

(* ... until there is none. *)
ReclaimDone ==
  /\ sweeping # None
  /\ closing[sweeping] = None
  /\ \A t \in Targets : reclaim[t] = None
  /\ sweeping' = None
  /\ UNCHANGED <<registries, creating, maker, popup, closing, recovering, reclaim,
                 deletion, world>>

-----------------------------------------------------------------------------
(* What Chrome reports                                                       *)

(* The page closes itself, the user closes the tab, or the domain policy     *)
(* closes a page that has no creation record.                                *)
TabCloses(t) ==
  /\ tab[t] = "open"
  /\ tab' = [tab EXCEPT ![t] = "gone"]
  /\ notices' = notices \cup {t}
  /\ UNCHANGED <<registries, calls, idle>>

(* targetdestroyed: onTargetClosed. *)
TargetDestroyed(t) ==
  /\ t \in notices
  /\ notices' = notices \ {t}
  /\ Forget({t}, record)
  /\ UNCHANGED <<life, live, deleting, reserved, calls, idle, tab>>

(* The renderer crashes: onTargetClosed although the tab is still there. *)
RendererCrashes(t) ==
  /\ tab[t] = "open"
  /\ owner[t] # None
  /\ Forget({t}, record)
  /\ UNCHANGED <<life, live, deleting, reserved, calls, world>>

(* reconnect_failed: every owned target is purged, "Chrome is gone". Its tabs *)
(* are gone with it, unless the event was emitted beside a live connection   *)
(* (FailureIsReal of CdpConnection).                                         *)
ReconnectFailed ==
  LET owned == {t \in Targets : owner[t] # None}
  IN /\ owned # {}
     /\ Drop(owned, record)
     /\ lease' = [t \in Targets |-> IF t \in owned THEN None ELSE lease[t]]
     /\ \/ /\ tab' = [t \in Targets |-> IF tab[t] = "open" THEN "gone" ELSE tab[t]]
           /\ notices' = {}
        \/ UNCHANGED <<tab, notices>>
     /\ UNCHANGED <<life, live, deleting, reserved, calls, idle>>

-----------------------------------------------------------------------------
(* Popups: the targetcreated handler and registerPopupTarget                 *)

Stage(t, stage) == popup' = [popup EXCEPT ![t].stage = stage]

(* A page opens a window. *)
PopupOpens(t, o) ==
  /\ tab[t] = "absent"
  /\ tab[o] = "open"
  /\ tab' = [tab EXCEPT ![t] = "open"]
  /\ popup' = [popup EXCEPT ![t] = [stage |-> "opened", session |-> None, opener |-> o]]
  /\ UNCHANGED <<registries, creating, maker, closing, recovering, reclaim, sweeping,
                 deletion, idle, notices>>

(* The opener's owner is captured and a creation record is made; without an  *)
(* owner the tab is left alone, one of a session under deletion is closed.   *)
PopupBegin(t) ==
  LET s == owner[popup[t].opener]
  IN /\ popup[t].stage = "opened"
     /\ \/ /\ s = None
           /\ Stage(t, "done")
           /\ UNCHANGED record
        \/ /\ s \in deleting
           /\ Stage(t, "refused")
           /\ UNCHANGED record
        \/ /\ s \in Sessions \ deleting
           /\ popup' = [popup EXCEPT ![t] = [stage |-> "queued", session |-> s,
                                             opener |-> @.opener]]
           /\ record' = [record EXCEPT ![t] = "pending"]
     /\ UNCHANGED <<life, live, deleting, members, reserved, owner, lease, borrowed,
                    creating, maker, closing, recovering, reclaim, sweeping, deletion, world>>

(* markBlocked; there may be no record any more. *)
MarkBlocked(t) == record' = [record EXCEPT ![t] = IF @ = "none" THEN @ ELSE "blocked"]

(* The domain policy refuses the URL the window opens with. *)
PopupForbidden(t) ==
  LET s == owner[popup[t].opener]
  IN /\ popup[t].stage = "opened"
     /\ popup' = [popup EXCEPT ![t] = [stage |-> "refused",
                                       session |-> IF s \in deleting THEN None ELSE s,
                                       opener |-> @.opener]]
     /\ record' = [record EXCEPT ![t] = IF s \in Sessions \ deleting THEN "blocked" ELSE @]
     /\ UNCHANGED <<life, live, deleting, members, reserved, owner, lease, borrowed,
                    creating, maker, closing, recovering, reclaim, sweeping, deletion, world>>

(* registerExternalTargetLocked revalidates the record and the opener. *)
PopupAccepted(t) ==
  /\ record[t] = "pending"
  /\ Admits(popup[t].session, t)
  /\ owner[popup[t].opener] = popup[t].session

(* The registration lock is granted. A target its session owns already is    *)
(* taken for registered.                                                     *)
PopupRegister(t) ==
  LET s == popup[t].session
      known == record[t] = "pending" /\ s \notin deleting /\ owner[t] = s
  IN /\ popup[t].stage = "queued"
     /\ \/ /\ PopupAccepted(t)
           /\ Register(WorkerOf(s), t)
           /\ Stage(t, "registered")
           /\ UNCHANGED record
        \/ /\ known
           /\ Stage(t, "registered")
           /\ UNCHANGED <<members, owner, lease, idle, record>>
        \/ /\ ~known /\ ~PopupAccepted(t)
           /\ Stage(t, "refused")
           /\ MarkBlocked(t)
           /\ UNCHANGED <<members, owner, lease, idle>>
     /\ UNCHANGED <<life, live, deleting, reserved, borrowed, creating, maker, closing,
                    recovering, reclaim, sweeping, deletion, tab, notices>>

(* markOwnershipCommitted: a window closed or blocked meanwhile is dropped. *)
PopupCommit(t) ==
  /\ popup[t].stage = "registered"
  /\ IF record[t] = "pending"
     THEN /\ Stage(t, "owned")
          /\ UNCHANGED <<members, owner, lease, borrowed, record>>
     ELSE /\ Stage(t, "refused")
          /\ Forget({t}, record)
  /\ UNCHANGED <<life, live, deleting, reserved, creating, maker, closing, recovering,
                 reclaim, sweeping, deletion, world>>

(* Fault: a missing page is not noticed. *)
PopupIndexBlindly(t) ==
  /\ popup[t].stage = "owned"
  /\ Stage(t, "done")
  /\ UNCHANGED <<registries, creating, maker, closing, recovering, reclaim, sweeping,
                 deletion, world>>

(* The handler indexes the page, finds it gone, sees a forbidden URL, or     *)
(* cannot initialise it.                                                     *)
PopupIndex(t) ==
  /\ popup[t].stage = "owned"
  /\ \/ /\ tab[t] = "open"
        /\ Stage(t, "done")
        /\ UNCHANGED <<members, owner, lease, borrowed, record>>
     \/ /\ tab[t] # "open"
        /\ Stage(t, "done")
        /\ Forget({t}, record)
     \/ /\ tab[t] = "open"
        /\ Stage(t, "refused") \/ Stage(t, "evicting")
        /\ MarkBlocked(t)
        /\ UNCHANGED <<members, owner, lease, borrowed>>
  /\ UNCHANGED <<life, live, deleting, reserved, creating, maker, closing, recovering,
                 reclaim, sweeping, deletion, world>>

(* targetchanged: the window moves to a forbidden domain. *)
PopupStrays(t) ==
  /\ tab[t] = "open"
  /\ record[t] # "none"
  /\ MarkBlocked(t)
  /\ ClosePage(t)
  /\ UNCHANGED <<life, live, deleting, members, reserved, owner, lease, borrowed, calls, idle>>

(* The page of a refused window is closed, best effort; an evicted target is *)
(* forgotten whether that works or not.                                      *)
PopupClose(t) ==
  /\ popup[t].stage \in {"refused", "evicting"}
  /\ Stage(t, "done")
  /\ ClosePage(t) \/ UNCHANGED <<tab, notices>>
  /\ IF popup[t].stage = "evicting"
     THEN Forget({t}, record)
     ELSE UNCHANGED <<members, owner, lease, borrowed, record>>
  /\ UNCHANGED <<life, live, deleting, reserved, creating, maker, closing, recovering,
                 reclaim, sweeping, deletion, idle>>

-----------------------------------------------------------------------------
SessionStep ==
  \/ \E s \in Sessions : CreateSession(s)
  \/ \E d \in Deleters : \/ \E s \in Sessions : DeleteBegin(d, s)
                         \/ \E t \in Targets : DeleteVisit(d, t)
                         \/ DeleteFinish(d)

CreationStep ==
  \/ \E s \in Sessions : CreateBegin(s)
  \/ \E w \in Workers : CreateFail(w) \/ \E t \in ToolTabs : CreatePage(w, t)
  \/ \E t \in ToolTabs : CreateRegister(t) \/ PageAppears(t)
  \/ \E t \in ToolTabs : \/ \E s \in Batchers : RegisterExisting(s, t)
                         \/ \E s \in Sessions : RegisterExternal(s, t)

TabStep ==
  \/ \E t \in UserTabs : ReleaseBorrowed(t) \/ \E s \in Sessions : Borrow(s, t)
  \/ \E s \in Recoverers, t \in Targets : RecoverBegin(s, t) \/ RecoverFinish(s, t)
  \/ \E t \in Targets : \/ Use(t) \/ GoIdle(t) \/ FindClosed(t)
                        \/ CloseBegin(t) \/ CloseFinish(t) \/ CloseFail(t)
                        \/ ExpireLeases(t) \/ ReclaimNext(t)
  \/ ReclaimDone

ChromeStep ==
  \/ \E t \in Targets : TabCloses(t) \/ TargetDestroyed(t) \/ RendererCrashes(t)
  \/ ReconnectFailed

PopupStep ==
  \E t \in Popups :
    \/ \E o \in Targets \ {t} : PopupOpens(t, o)
    \/ PopupBegin(t) \/ PopupForbidden(t) \/ PopupRegister(t)
    \/ PopupCommit(t) \/ PopupIndex(t) \/ PopupStrays(t) \/ PopupClose(t)

Next == SessionStep \/ CreationStep \/ TabStep \/ ChromeStep \/ PopupStep

Spec == Init /\ [][Next]_vars

-----------------------------------------------------------------------------
(* Properties                                                                *)

(* A slot that reserveTargetSlot took is given back exactly once, when the   *)
(* creation registers its page or fails: every reservation belongs to a      *)
(* creation in flight, whatever happened to the session meanwhile.           *)
ReservationsBalance ==
  \A w \in Workers :
    reserved[w] = creating[w] + Cardinality({t \in Targets : maker[t] = w})

(* "New work is rejected at capacity" (maxTargetsPerWorker): concurrent      *)
(* creations, popups, headed pages and borrowed tabs together never take     *)
(* more than the worker's share. tryRecoverTarget and registerExistingTarget *)
(* ask nobody: a session that uses them may outgrow its own worker, and no   *)
(* other one.                                                                *)
CapacityRespected ==
  \A w \in Workers :
    w[1] \notin Recoverers \cup Batchers => Cardinality(members[w]) + reserved[w] <= MaxTargets

(* The registries agree: what worker.targets lists, and so takes capacity,   *)
(* targetToWorker attributes to the session; and "the lease registry never   *)
(* outlives the legacy ownership map", a lease names the owner.              *)
RegistriesAgree ==
  /\ \A s \in live \ deleting : \A t \in members[WorkerOf(s)] : owner[t] = s
  /\ \A t \in Targets : lease[t] # None => owner[t] = lease[t]

(* A window that its opener's session was deleted under is not registered:   *)
(* the owner of a popup is a session that exists.                            *)
PopupOwnerLives ==
  \A t \in Popups : owner[t] # None => owner[t] \in live

(* A window that closed while its registration was under way is not kept:    *)
(* once the handler is done and Chrome's events are in, a dead popup has no  *)
(* owner; nor has one whose creation record says "closed", outside a close   *)
(* or a registration that will be taken back.                                *)
DeadPopupForgotten ==
  \A t \in Popups :
    /\ popup[t].stage = "done" /\ tab[t] \in {"gone", "closed"} /\ t \notin notices
         => owner[t] = None
    /\ record[t] = "closed" /\ popup[t].stage # "registered" /\ closing[t] = None
         => owner[t] = None

(* "Borrowed tabs are never closed by close, session end or TTL cleanup";    *)
(* and a loan ends with its session, so that the user's tab can be borrowed  *)
(* again after a deletion.                                                   *)
UserTabKept ==
  /\ \A t \in UserTabs : tab[t] # "closed"
  /\ \A t \in borrowed : owner[t] \in live

(* "Delete a session and clean up all workers": no target belongs to a       *)
(* session that is not there.                                                *)
DeletedSessionOwnsNothing ==
  \A t \in Targets : owner[t] # None => owner[t] \in live

(* A target whose owner is not there. *)
Orphan(t) == owner[t] # None /\ owner[t] \notin live

(* What a deletion leaves behind: a target is orphaned only if a creation    *)
(* opened it that resumes when its session is gone, or that has resumed when *)
(* its session had been deleted and created again, so that the target is     *)
(* listed by a worker of an earlier life. A popup or a tab on loan never is, *)
(* however the deletion overlaps with its registration.                      *)
OrphansComeLate ==
  [][\A t \in Targets :
       Orphan(t)' /\ ~Orphan(t) =>
         \/ maker[t] # None
         \/ /\ t \in ToolTabs
            /\ \E w \in Workers :
                 t \in members[w] /\ w[1] = owner[t] /\ w # WorkerOf(owner[t])]_vars

(* A target that has an owner is not given to another session               *)
(* ("does not recover or reassign a target already owned by another          *)
(* session").                                                                *)
NeverReassigned ==
  [][\A t \in Targets : owner[t] # None => owner'[t] \in {owner[t], None}]_vars

(* A tab whose registration is behind it, or will never come. *)
Settled(t) ==
  /\ t \in Popups => popup[t].stage \notin {"none", "opened", "queued"}
  /\ t \in ToolTabs => tab[t] \notin {"absent", "spare"} /\ maker[t] = None

Spent == {t \in Targets \ UserTabs : Settled(t)}

Life == INSTANCE TabLife WITH Tabs <- Targets, holder <- owner, spent <- Spent

(* The ownership map implements TabLife: a tab is registered once, by one    *)
(* session, and no creation, popup handler or pool registration that resumes *)
(* late takes a tab from its owner or brings a forgotten one back. Only      *)
(* tryRecoverTarget does, for a tab that was let go, and from no session but *)
(* one that recovers tabs itself.                                            *)
TabLifeSpec == Life!Spec

(* "An actively used tab is never reclaimed": the idle sweep begins to close *)
(* a tab only when it has been idle for the lease's TTL.                     *)
ActiveTabNeverReclaimed ==
  [][\A t \in Targets :
       sweeping' = t /\ closing[t] = None /\ closing'[t] # None => t \in idle]_vars

(* "The default session is exempt": the sweep neither closes nor hands back  *)
(* a tab of the session that has no TTL, not even one that came to it after  *)
(* the sweep found the lease of its former owner expired.                    *)
SweepSparesDefault ==
  [][\A t \in Targets :
       sweeping' = t /\ sweeping # t /\ owner[t] = Default =>
         owner'[t] = Default /\ closing'[t] = closing[t]]_vars

================================================================================
