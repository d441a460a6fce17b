------------------------------- MODULE CrawlJob -------------------------------
(***************************************************************************)
(* One resumable crawl job: the event log of src/core/crawl/job-store.ts,  *)
(* the crawl_status calls that advance it (src/core/crawl/runner.ts) and   *)
(* crawl_cancel. Several calls, in one or more processes, work on the job  *)
(* at the same time; any process may die between two appends.              *)
(*                                                                         *)
(* The log itself is append-only and every reader replays it, so the model *)
(* keeps what the replay yields: an append applies its event. Of the queue *)
(* it keeps what was ever enqueued and which of it is gone. A call holds   *)
(* the lock file of the job over the await of a fetch; a section that      *)
(* takes the lock, reads, appends once and releases is one action.         *)
(*                                                                         *)
(* A page is its normalised URL. The URL of a queue entry, of its key and  *)
(* of a `fetched` event are told apart, since replay compares them. Robots *)
(* rules, the content cache, scope filters and the redaction of secrets    *)
(* only choose among the outcomes of a fetch and the links in scope.       *)
(***************************************************************************)
EXTENDS Naturals, Sequences, FiniteSets

CONSTANTS
  Urls,        (* normalised URLs                                           *)
  Start,       (* config.url, normalised                                    *)
  Links,       (* the in-scope links of each page, in document order        *)
  MaxDepth,    (* config.max_depth                                          *)
  MaxPages,    (* config.max_pages                                          *)
  DelayMs,     (* config.delay_ms                                           *)
  MaxAdvance,  (* bound: the largest `advance` of a call                    *)
  Calls,       (* bound: the crawl_status calls                             *)
  Local,       (* the calls served by the process that created the job      *)
  MaxCrashes,  (* bound: deaths of processes                                *)
  None

ASSUME CrawlAssumption ==
  /\ Start \in Urls /\ None \notin Urls \cup Calls
  /\ Links \in [Urls -> Seq(Urls)]
  /\ MaxDepth \in Nat /\ MaxPages \in Nat \ {0} /\ DelayMs \in Nat
  /\ MaxAdvance \in Nat /\ MaxCrashes \in Nat
  /\ Local \subseteq Calls

VARIABLES
  (* The job as every reader replays it. *)
  status, visited,
  queue,       (* the entries enqueued so far                               *)
  gone,        (* the positions that are no longer in the queue             *)
  pages,       (* the URLs of the recorded pages                            *)
  (* Memory of the process that created the job. *)
  raw,         (* the start URL was not given in its normal form            *)
  known,       (* ORIGINAL_START_URLS still has it                          *)
  (* The calls. *)
  lock,        (* the call that holds the lock file                         *)
  pc, left,    (* where a call is, and the pages it may still fetch         *)
  cur,         (* the entry it dequeued                                     *)
  old,         (* the retention TTL has elapsed                             *)
  crashes,
  (* History. *)
  cancelled,   (* a crawl_cancel returned ok                                *)
  followed,    (* pages fetched without error above the depth limit         *)
  torn         (* a process died between `fetched` and its `enqueue`        *)

job == <<status, queue, gone, visited, pages>>
env == <<raw, known, old, crashes>>
history == <<cancelled, followed, torn>>
vars == <<job, env, lock, pc, left, cur, history>>

Entry == [url : Urls, depth : Nat, keyed : BOOLEAN]

(* What the log may call a page: the key of an entry, its normalised URL, or *)
(* the start URL as it was given.                                            *)
Name == {"key", "url", "raw"} \X Urls

(* A free slot is not mistaken for an entry. *)
ASSUME NoneAssumption == None \notin Entry

(* CrawlTracker.keyFor: entry.key, or the URL. *)
KeyOf(e) == <<IF e.keyed THEN "key" ELSE "url", e.url>>

Sticky == {"cancelled", "completed"}
Ended == {"done", "failed", "dead"}
Stages == {"idle", "load", "expire", "seed", "promote", "page", "fetch",
           "links", "after", "sleep", "final"} \cup Ended

(* Stages that wait for the lock, and stages that hold it. *)
Waiting == {"load", "expire", "seed", "page", "final"}
Holding == {"promote", "fetch", "links"}

TypeOK ==
  /\ status \in {"pending", "running", "expired"} \cup Sticky
  /\ queue \in Seq(Entry) /\ gone \subseteq 1 .. Len(queue)
  /\ visited \subseteq Name
  /\ pages \in Seq(Urls)
  /\ raw \in BOOLEAN /\ known \in BOOLEAN /\ old \in BOOLEAN
  /\ crashes \in 0 .. MaxCrashes
  /\ lock \in Calls \cup {None}
  /\ pc \in [Calls -> Stages]
  /\ left \in [Calls -> 0 .. MaxAdvance]
  /\ cur \in [Calls -> Entry \cup {None}]
  /\ cancelled \in BOOLEAN /\ torn \in BOOLEAN
  /\ followed \subseteq Urls

Init ==
  /\ status = "pending"
  /\ queue = <<>> /\ gone = {} /\ visited = {} /\ pages = <<>>
  /\ raw \in BOOLEAN /\ known = TRUE
  /\ lock = None
  /\ pc = [c \in Calls |-> "idle"]
  /\ left = [c \in Calls |-> 0]
  /\ cur = [c \in Calls |-> None]
  /\ old = FALSE /\ crashes = 0
  /\ cancelled = FALSE /\ followed = {} /\ torn = FALSE

-----------------------------------------------------------------------------
(* applyEvent: what an appended event does to the replayed job.              *)

ApplyStatus(s) == status' = IF status \in Sticky THEN status ELSE s

ApplyEnqueue(entries) ==
  /\ queue' = queue \o entries
  /\ gone' = gone \cup {i \in Len(queue) + 1 .. Len(queue) + Len(entries) :
                          KeyOf(entries[i - Len(queue)]) \in visited}

(* The positions still in the queue. *)
Queued == 1 .. Len(queue) \ gone

(* `fetched` of entry e, logged under the URL `name` when e has no key. *)
ApplyFetched(e, name) ==
  LET dropped(q) == IF e.keyed THEN KeyOf(q) = KeyOf(e)
                               ELSE name = <<"url", q.url>>
  IN /\ visited' = visited \cup {IF e.keyed THEN KeyOf(e) ELSE name}
     /\ gone' = gone \cup {i \in 1 .. Len(queue) : dropped(queue[i])}
     /\ queue' = queue
     /\ pages' = Append(pages, e.url)

-----------------------------------------------------------------------------
(* advanceJob                                                                *)

Go(c, stage) == pc' = [pc EXCEPT ![c] = stage]

(* The condition of the while loop, on a job read in the same turn. *)
MayFetchMore(c) == left[c] > 0 /\ Len(pages) < MaxPages

(* The top of the loop: hasBudget may end it early. *)
LoopTest(c) ==
  \/ MayFetchMore(c) /\ Go(c, "page")
  \/ Go(c, "final")

(* crawl_status({advance: n}) reaches advanceJob. *)
Call(c, n) ==
  /\ pc[c] = "idle"
  /\ Go(c, "load")
  /\ left' = [left EXCEPT ![c] = n]
  /\ UNCHANGED <<job, env, lock, cur, history>>

(* The first read, and the early returns it decides. *)
Load(c) ==
  /\ pc[c] = "load" /\ lock = None
  /\ Go(c, CASE status \in Sticky -> "done"
             [] old /\ status \notin Sticky \cup {"expired"} -> "expire"
             [] status = "expired" -> "done"
             [] OTHER -> IF left[c] = 0 THEN "done" ELSE "seed")
  /\ UNCHANGED <<job, env, lock, left, cur, history>>

Expire(c) ==
  /\ pc[c] = "expire" /\ lock = None
  /\ ApplyStatus("expired")
  /\ Go(c, "done")
  /\ UNCHANGED <<queue, gone, visited, pages, env, lock, left, cur, history>>

Seed(c) ==
  /\ pc[c] = "seed" /\ lock = None
  /\ IF pages = <<>> /\ Queued = {}
     THEN ApplyEnqueue(<<[url |-> Start, depth |-> 0, keyed |-> FALSE]>>)
     ELSE UNCHANGED <<queue, gone>>
  /\ lock' = c
  /\ Go(c, "promote")
  /\ UNCHANGED <<status, visited, pages, env, left, cur, history>>

Promote(c) ==
  /\ pc[c] = "promote"
  /\ IF status \notin Sticky \cup {"running", "expired"}
     THEN ApplyStatus("running") ELSE UNCHANGED status
  /\ lock' = None
  /\ LoopTest(c)
  /\ UNCHANGED <<queue, gone, visited, pages, env, left, cur, history>>

(* The queue entries CrawlTracker would still hand out. *)
Pending == {i \in Queued : KeyOf(queue[i]) \notin visited}

(* tracker.dequeue: the oldest of them. *)
Dequeued == queue[CHOOSE i \in Pending : \A j \in Pending : i <= j]

(* Fault: the page limit is left to the unlocked test of the loop. *)
NothingToFetchUnlimited == status \in Sticky \/ Pending = {}

(* The `break`s of the critical section, on the job read under the lock. *)
NothingToFetch ==
  \/ status \in Sticky
  \/ Len(pages) >= MaxPages
  \/ Pending = {}

(* The entry is fetched with the lock held. *)
Dequeue(c) ==
  /\ cur' = [cur EXCEPT ![c] = Dequeued]
  /\ lock' = c
  /\ Go(c, "fetch")

(* Fault: an empty queue does not end the loop. *)
PageRetries(c) ==
  /\ pc[c] = "page" /\ lock = None
  /\ IF NothingToFetch \/ Dequeued.depth > MaxDepth
     THEN Go(c, "after") /\ UNCHANGED <<lock, cur>>
     ELSE Dequeue(c)
  /\ UNCHANGED <<job, env, left, history>>

(* One pass of the loop: break, skip an entry that is too deep, or fetch. *)
Page(c) ==
  /\ pc[c] = "page" /\ lock = None
  /\ IF NothingToFetch \/ Dequeued.depth > MaxDepth
     THEN /\ Go(c, IF NothingToFetch THEN "final" ELSE "after")
          /\ UNCHANGED <<lock, cur>>
     ELSE Dequeue(c)
  /\ UNCHANGED <<job, env, left, history>>

(* robots.txt forbids the page or the fetcher throws: logged under next.url. *)
FetchThrows(c) ==
  /\ pc[c] = "fetch"
  /\ ApplyFetched(cur[c], <<"url", cur[c].url>>)
  /\ left' = [left EXCEPT ![c] = @ - 1]
  /\ lock' = None
  /\ Go(c, "after")
  /\ UNCHANGED <<status, env, cur, history>>

(* Fault: the page is always logged under the URL as the caller gave it. *)
LoggedUrlAsGiven(c) ==
  <<IF cur[c].depth = 0 THEN "raw" ELSE "url", cur[c].url>>

(* result.url is the URL that was fetched: for the start page the one the    *)
(* creator's memory holds, which a terminal status has cleared.              *)
LoggedUrl(c) ==
  IF /\ cur[c].depth = 0 /\ c \in Local
     /\ raw /\ known /\ status \notin Sticky \cup {"expired"}
  THEN <<"raw", cur[c].url>> ELSE <<"url", cur[c].url>>

FollowsLinks(c, error) ==
  ~error /\ cur[c].depth < MaxDepth /\ Links[cur[c].url] # <<>>

(* The fetcher answers, with a page or with a page that reports an error. *)
FetchReturns(c, error) ==
  /\ pc[c] = "fetch"
  /\ ApplyFetched(cur[c], LoggedUrl(c))
  /\ left' = [left EXCEPT ![c] = @ - 1]
  /\ IF FollowsLinks(c, error)
     THEN /\ followed' = followed \cup {cur[c].url}
          /\ Go(c, "links") /\ UNCHANGED lock
     ELSE Go(c, "after") /\ lock' = None /\ UNCHANGED followed
  /\ UNCHANGED <<status, env, cur, cancelled, torn>>

(* Fault: no more links are queued than the page limit leaves room for. *)
FoundWithinLimit(c) ==
  LET all == [i \in 1 .. Len(Links[cur[c].url]) |->
                [url |-> Links[cur[c].url][i],
                 depth |-> cur[c].depth + 1, keyed |-> TRUE]]
  IN SelectSeq(all, LAMBDA e : Len(pages) + Cardinality(Queued) < MaxPages - 1)

(* The entries of the links of the page; links seen before are left out by   *)
(* ApplyEnqueue, as tracker.hasVisited compares the same keys.               *)
Found(c) ==
  [i \in 1 .. Len(Links[cur[c].url]) |->
     [url |-> Links[cur[c].url][i], depth |-> cur[c].depth + 1, keyed |-> TRUE]]

QueueLinks(c) ==
  /\ pc[c] = "links"
  /\ ApplyEnqueue(Found(c))
  /\ lock' = None
  /\ Go(c, "after")
  /\ UNCHANGED <<status, visited, pages, env, left, cur, history>>

(* Between two pages: the job is read again and, when there is a delay, the  *)
(* call sleeps without the lock.                                             *)
After(c) ==
  /\ pc[c] = "after"
  /\ IF DelayMs > 0 /\ MayFetchMore(c)
     THEN Go(c, IF status = "cancelled" THEN "final" ELSE "sleep")
     ELSE LoopTest(c)
  /\ UNCHANGED <<job, env, lock, left, cur, history>>

Wake(c) ==
  /\ pc[c] = "sleep"
  /\ IF status = "cancelled" THEN Go(c, "final") ELSE LoopTest(c)
  /\ UNCHANGED <<job, env, lock, left, cur, history>>

(* Fault: the job is completed without taking the lock. *)
FinalUnlocked(c) ==
  /\ pc[c] = "final"
  /\ IF /\ status \notin Sticky \cup {"expired"}
        /\ Queued = {} \/ Len(pages) >= MaxPages
     THEN ApplyStatus("completed") ELSE UNCHANGED status
  /\ Go(c, "done")
  /\ UNCHANGED <<queue, gone, visited, pages, env, lock, left, cur, history>>

Final(c) ==
  /\ pc[c] = "final" /\ lock = None
  /\ IF /\ status \notin Sticky \cup {"expired"}
        /\ Queued = {} \/ Len(pages) >= MaxPages
     THEN ApplyStatus("completed") ELSE UNCHANGED status
  /\ Go(c, "done")
  /\ UNCHANGED <<queue, gone, visited, pages, env, lock, left, cur, history>>

(* acquireLock runs out of retries while another call holds the lock. *)
LockTimeout(c) ==
  /\ pc[c] \in Waiting /\ lock # None
  /\ Go(c, "failed")
  /\ UNCHANGED <<job, env, lock, left, cur, history>>

-----------------------------------------------------------------------------

(* crawl_cancel: setStatus takes the lock and appends; the answer is ok      *)
(* whatever the status was.                                                  *)
Cancel ==
  /\ lock = None /\ ~cancelled
  /\ ApplyStatus("cancelled")
  /\ cancelled' = TRUE
  /\ UNCHANGED <<queue, gone, visited, pages, env, lock, pc, left, cur, followed, torn>>

(* isExpired turns true. *)
Age ==
  /\ ~old
  /\ old' = TRUE
  /\ UNCHANGED <<job, raw, known, crashes, lock, pc, left, cur, history>>

(* The calls of the creator's process die together; any other process serves *)
(* one call.                                                                 *)
Processes == {Local} \cup {{c} : c \in Calls \ Local}

Crash(process) ==
  /\ crashes < MaxCrashes
  /\ crashes' = crashes + 1
  /\ pc' = [c \in Calls |-> IF c \in process /\ pc[c] \notin Ended \cup {"idle"}
                            THEN "dead" ELSE pc[c]]
  /\ known' = (known /\ process # Local)
  /\ torn' = (torn \/ \E c \in process : pc[c] = "links")
  /\ UNCHANGED <<job, raw, old, lock, left, cur, cancelled, followed>>

(* proper-lockfile: the lock of a dead process goes stale. *)
LockGoesStale ==
  /\ lock # None /\ pc[lock] = "dead"
  /\ lock' = None
  /\ UNCHANGED <<job, env, pc, left, cur, history>>

-----------------------------------------------------------------------------

(* A step of a call in progress. *)
Step(c) ==
  \/ Load(c) \/ Expire(c) \/ Seed(c) \/ Promote(c)
  \/ Page(c)
  \/ FetchThrows(c) \/ \E error \in BOOLEAN : FetchReturns(c, error)
  \/ QueueLinks(c) \/ After(c) \/ Wake(c) \/ Final(c)
  \/ LockTimeout(c)

Next ==
  \/ \E c \in Calls : Step(c) \/ \E n \in 0 .. MaxAdvance : Call(c, n)
  \/ Cancel
  \/ Age
  \/ \E process \in Processes : Crash(process)
  \/ LockGoesStale

Spec == Init /\ [][Next]_vars

(* A call in progress goes on: fetches time out, locks are granted or waited *)
(* for in vain, sleeps end; a dead process's lock goes stale.                *)
FairSpec ==
  /\ Spec
  /\ \A c \in Calls : WF_vars(Step(c))
  /\ WF_vars(LockGoesStale)

-----------------------------------------------------------------------------
(* Properties                                                                *)

Fetches(u) == Cardinality({i \in 1 .. Len(pages) : pages[i] = u})

(* The limits hold: a call fetches no more than its `advance` (in TypeOK),   *)
(* and max_pages bounds the job, not each call: callers that read the count  *)
(* before either of them fetched cannot overshoot it together.               *)
PagesWithinLimit == TypeOK /\ Len(pages) <= MaxPages

(* A linked page is fetched once, however many pages link to it, calls       *)
(* overlap and processes die while it is being fetched. The start page may   *)
(* come back once more through a link, whose entry has a key where the seed  *)
(* has none; given in its normal form it is fetched no more than that.       *)
FetchedOnce ==
  /\ \A u \in Urls \ {Start} : Fetches(u) <= 1
  /\ ~raw => Fetches(Start) <= 2

(* Every link of a page that was followed is fetched or still queued, unless *)
(* a process died just between the two appends of that page.                 *)
LinksFollowed ==
  torn \/ \A u \in followed :
            \/ \E c \in Calls : pc[c] = "links" /\ cur[c].url = u
            \/ \A k \in 1 .. Len(Links[u]) :
                 \/ Fetches(Links[u][k]) > 0
                 \/ \E i \in Queued : queue[i].url = Links[u][k]

(* After crawl_cancel has answered no page is recorded any more, whatever    *)
(* calls were in flight (comment on advanceJob: cancelled is sticky); and a  *)
(* job that is complete gets no page and no link from a call still under way.*)
EndedIsFinal ==
  [][/\ cancelled => UNCHANGED pages
     /\ status = "completed" => UNCHANGED job]_vars

(* Every crawl_status call comes back, whatever the others do: no pass of    *)
(* the loop goes round without progress and no dead process keeps the lock.  *)
Returns == \A c \in Calls : pc[c] = "load" ~> pc[c] \in Ended

(* The runner's claim: serialising per page means "no double-fetch".         *)
NoDoubleFetch == \A u \in Urls : Fetches(u) <= 1

===============================================================================
