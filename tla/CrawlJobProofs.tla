---------------------------- MODULE CrawlJobProofs ----------------------------
(***************************************************************************)
(* The invariants of CrawlJob, proved for every site, limit and number of  *)
(* calls and crashes.                                                      *)
(***************************************************************************)
EXTENDS CrawlJob, FiniteSetTheorems, SequenceTheorems, WellFoundedInduction, TLAPS

(* A call that is past the seed. *)
PastSeed == {"promote", "page", "fetch", "links", "after", "sleep", "final"}

(* Who works on a page has the lock, found the job open when it took it, and *)
(* has a page left to fetch.                                                 *)
Locked ==
  \A c \in Calls :
    /\ pc[c] \in Holding => lock = c
    /\ pc[c] \in {"page", "fetch"} => left[c] > 0
    /\ pc[c] \in {"fetch", "links"} => status \notin Sticky /\ cur[c] # None
    /\ pc[c] = "fetch" => Len(pages) < MaxPages /\ KeyOf(cur[c]) \notin visited

(* The job has a page or will have one. *)
Seeded == pages # <<>> \/ Queued # {}

Started ==
  /\ pages = <<>> => visited = {}
  /\ (\E c \in Calls : pc[c] \in PastSeed) \/ status = "completed" => Seeded

(* A cancellation that was answered is in the status, unless the job had     *)
(* been completed before.                                                    *)
Closed == cancelled => status \in Sticky

(* Only the seed has no key. *)
SeedOrLink(e) == e.keyed \/ e.url = Start

Entries ==
  /\ \A i \in 1 .. Len(queue) : SeedOrLink(queue[i])
  /\ \A c \in Calls : cur[c] # None => SeedOrLink(cur[c])
  /\ \A u \in Urls : <<"url", u>> \in visited => u = Start

FetchedUrl(u) == \E i \in 1 .. Len(pages) : pages[i] = u

(* What is visited has been fetched, and as often as it is in the visited    *)
(* set.                                                                      *)
Seen(name) == IF name \in visited THEN 1 ELSE 0

Tally ==
  /\ \A name \in visited : FetchedUrl(name[2])
  /\ \A u \in Urls : u # Start \/ ~raw => Fetches(u) <= Seen(<<"key", u>>) + Seen(<<"url", u>>)

JInv ==
  /\ TypeOK /\ Len(pages) <= MaxPages
  /\ Locked /\ Started /\ Closed /\ Entries /\ Tally /\ LinksFollowed

-----------------------------------------------------------------------------
(* Queue and pages                                                           *)

(* The least of a set of numbers. *)
LEMMA Smallest ==
  ASSUME NEW T \in SUBSET Nat, T # {}
  PROVE  \E x \in T : \A y \in T : x <= y
<1> DEFINE R == OpToRel(<, Nat)
<1>1. IsWellFoundedOn(R, Nat)
  BY NatLessThanWellFounded
<1>2. \A x, y \in Nat : <<y, x>> \in R <=> y < x
  BY DEF OpToRel
<1> HIDE DEF R
<1>3. PICK x \in T : \A y \in T : ~(<<y, x>> \in R)
  BY <1>1, WFMin
<1>4. ASSUME NEW y \in T  PROVE x <= y
  <2>1. x \in Nat /\ y \in Nat /\ ~(y < x)
    BY <1>2, <1>3
  <2> QED  BY <2>1
<1> QED  BY <1>4

(* tracker.dequeue hands out an entry of the queue that was not visited. *)
LEMMA DequeuedFacts ==
  ASSUME TypeOK, Pending # {}
  PROVE  /\ Dequeued \in Entry /\ KeyOf(Dequeued) \notin visited
         /\ \E i \in 1 .. Len(queue) : Dequeued = queue[i]
<1>1. queue \in Seq(Entry) /\ Len(queue) \in Nat
  BY DEF TypeOK
<1>2. Pending \in SUBSET Nat /\ Pending \subseteq 1 .. Len(queue)
  BY <1>1 DEF Pending, Queued
<1>3. \E i \in Pending : \A j \in Pending : i <= j
  BY <1>2, Smallest
<1>4. PICK i \in Pending : Dequeued = queue[i]
  BY <1>3 DEF Dequeued
<1>5. i \in 1 .. Len(queue) /\ KeyOf(queue[i]) \notin visited
  BY <1>2, <1>4 DEF Pending
<1> QED  BY <1>1, <1>4, <1>5

(* The pages that are URL u. *)
Where(u) == {i \in 1 .. Len(pages) : pages[i] = u}

LEMMA FetchesFacts ==
  ASSUME pages \in Seq(Urls), NEW u
  PROVE  /\ IsFiniteSet(Where(u)) /\ Fetches(u) = Cardinality(Where(u)) /\ Fetches(u) \in Nat
         /\ Fetches(u) > 0 <=> FetchedUrl(u)
<1>1. Len(pages) \in Nat
  OBVIOUS
<1>2. IsFiniteSet(1 .. Len(pages))
  BY <1>1, FS_Interval
<1>3. IsFiniteSet(Where(u))
  BY <1>2, FS_Subset DEF Where
<1>4. Fetches(u) = Cardinality(Where(u)) /\ Fetches(u) \in Nat
  BY <1>3, FS_CardinalityType DEF Fetches, Where
<1>5. Cardinality(Where(u)) = 0 <=> Where(u) = {}
  BY <1>3, FS_EmptySet
<1>6. Where(u) = {} <=> ~FetchedUrl(u)
  BY DEF Where, FetchedUrl
<1> QED  BY <1>3, <1>4, <1>5, <1>6

(* A recorded page counts for its own URL and for no other. *)
LEMMA RecordPage ==
  ASSUME pages \in Seq(Urls), NEW v \in Urls, pages' = Append(pages, v)
  PROVE  /\ pages' \in Seq(Urls) /\ Len(pages') = Len(pages) + 1 /\ pages' # <<>>
         /\ \A u : /\ Fetches(u)' = IF u = v THEN Fetches(u) + 1 ELSE Fetches(u)
                   /\ FetchedUrl(u)' <=> FetchedUrl(u) \/ u = v
<1>1. /\ pages' \in Seq(Urls) /\ Len(pages') = Len(pages) + 1 /\ pages' # <<>>
      /\ Len(pages) \in Nat
      /\ \A i \in 1 .. Len(pages) : pages'[i] = pages[i]
      /\ pages'[Len(pages) + 1] = v
  BY AppendProperties
<1>2. ASSUME NEW u
      PROVE  /\ Fetches(u)' = IF u = v THEN Fetches(u) + 1 ELSE Fetches(u)
             /\ FetchedUrl(u)' <=> FetchedUrl(u) \/ u = v
  <2>1. Where(u)' = IF u = v THEN Where(u) \cup {Len(pages) + 1} ELSE Where(u)
    BY <1>1 DEF Where
  <2>2. IsFiniteSet(Where(u)) /\ Fetches(u) = Cardinality(Where(u))
    BY FetchesFacts
  <2>3. Len(pages) + 1 \notin Where(u)
    BY <1>1 DEF Where
  <2>4. Cardinality(Where(u) \cup {Len(pages) + 1}) = Cardinality(Where(u)) + 1
    BY <2>2, <2>3, FS_AddElement
  <2>5. Fetches(u)' = Cardinality(Where(u)')
    BY DEF Fetches, Where
  <2>6. FetchedUrl(u)' <=> FetchedUrl(u) \/ u = v
    BY <1>1 DEF FetchedUrl
  <2> QED  BY <2>1, <2>2, <2>4, <2>5, <2>6
<1> QED  BY <1>1, <1>2

(* A link is fetched or queued. *)
Got(l) == Fetches(l) > 0 \/ \E i \in Queued : queue[i].url = l

(* LinksFollowed stays when links that were got stay got and a page whose    *)
(* links are being queued stays so.                                          *)
LEMMA StillFollowed ==
  ASSUME LinksFollowed, TypeOK, \A l \in Urls : Got(l) => Got(l)',
         followed' = followed, torn => torn',
         \A c \in Calls : pc[c] = "links" => pc'[c] = "links" /\ cur'[c] = cur[c]
  PROVE  LinksFollowed'
<1>1. SUFFICES ASSUME ~torn', NEW u \in followed
               PROVE  \/ \E c \in Calls : pc'[c] = "links" /\ cur'[c].url = u
                      \/ \A k \in 1 .. Len(Links[u]) : Got(Links[u][k])'
  BY DEF LinksFollowed, Got
<1>2. \/ \E c \in Calls : pc[c] = "links" /\ cur[c].url = u
      \/ \A k \in 1 .. Len(Links[u]) : Got(Links[u][k])
  BY <1>1 DEF LinksFollowed, Got
<1>3. Links[u] \in Seq(Urls)
  BY CrawlAssumption DEF TypeOK
<1>4. \A k \in 1 .. Len(Links[u]) : Links[u][k] \in Urls
  BY <1>3
<1> QED  BY <1>2, <1>4

(* Appended events only add: what is in the queue keeps its place. *)
LEMMA EnqueueFacts ==
  ASSUME TypeOK, NEW s \in Seq(Entry), ApplyEnqueue(s)
  PROVE  /\ queue' \in Seq(Entry) /\ gone' \subseteq 1 .. Len(queue')
         /\ Len(queue') = Len(queue) + Len(s)
         /\ \A i \in 1 .. Len(queue) : queue'[i] = queue[i]
         /\ \A i \in 1 .. Len(s) : queue'[Len(queue) + i] = s[i]
         /\ \A i \in 1 .. Len(queue') : \/ i \in 1 .. Len(queue)
                                         \/ \E j \in 1 .. Len(s) : i = Len(queue) + j
         /\ Queued \subseteq Queued'
         /\ \A i \in 1 .. Len(s) : KeyOf(s[i]) \notin visited => Len(queue) + i \in Queued'
<1>1. queue \in Seq(Entry) /\ gone \subseteq 1 .. Len(queue) /\ Len(queue) \in Nat /\ Len(s) \in Nat
  BY DEF TypeOK
<1>2. /\ queue' = queue \o s
      /\ gone' = gone \cup {i \in Len(queue) + 1 .. Len(queue) + Len(s) :
                                KeyOf(s[i - Len(queue)]) \in visited}
  BY DEF ApplyEnqueue
<1>3. queue' \in Seq(Entry) /\ Len(queue') = Len(queue) + Len(s)
  BY <1>1, <1>2, ConcatProperties
<1>4. \A i \in 1 .. Len(queue) + Len(s) : queue'[i] = IF i <= Len(queue) THEN queue[i] ELSE s[i - Len(queue)]
  BY <1>1, <1>2, ConcatProperties
<1>5. \A i \in 1 .. Len(queue) : queue'[i] = queue[i]
  BY <1>1, <1>4
<1>6. \A i \in 1 .. Len(s) : queue'[Len(queue) + i] = s[i]
  <2> SUFFICES ASSUME NEW i \in 1 .. Len(s) PROVE queue'[Len(queue) + i] = s[i]
    OBVIOUS
  <2>1. /\ Len(queue) + i \in 1 .. Len(queue) + Len(s) /\ ~(Len(queue) + i <= Len(queue))
        /\ Len(queue) + i - Len(queue) = i
    BY <1>1
  <2> QED  BY <2>1, <1>4
<1>7. \A i \in 1 .. Len(queue') : i \in 1 .. Len(queue) \/ \E j \in 1 .. Len(s) : i = Len(queue) + j
  <2> SUFFICES ASSUME NEW i \in 1 .. Len(queue'), ~(i \in 1 .. Len(queue))
               PROVE  \E j \in 1 .. Len(s) : i = Len(queue) + j
    OBVIOUS
  <2>1. i - Len(queue) \in 1 .. Len(s) /\ i = Len(queue) + (i - Len(queue))
    BY <1>1, <1>3
  <2> QED  BY <2>1
<1>8. gone' \subseteq 1 .. Len(queue') /\ Queued \subseteq Queued'
  <2>1. ASSUME NEW i \in gone'  PROVE i \in 1 .. Len(queue')
    <3>1. i \in 1 .. Len(queue) \/ i \in Len(queue) + 1 .. Len(queue) + Len(s)
      BY <1>1, <1>2
    <3> QED  BY <3>1, <1>1, <1>3
  <2>2. ASSUME NEW i \in Queued  PROVE i \in Queued'
    <3>1. i \in 1 .. Len(queue) /\ i \notin gone
      BY DEF Queued
    <3>2. i \in 1 .. Len(queue') /\ ~(i \in Len(queue) + 1 .. Len(queue) + Len(s))
      BY <3>1, <1>1, <1>3
    <3>3. i \notin gone'
      BY <3>1, <3>2, <1>2
    <3> QED  BY <3>2, <3>3 DEF Queued
  <2> QED  BY <2>1, <2>2
<1>9. \A i \in 1 .. Len(s) : KeyOf(s[i]) \notin visited => Len(queue) + i \in Queued'
  <2> SUFFICES ASSUME NEW i \in 1 .. Len(s), KeyOf(s[i]) \notin visited
               PROVE  Len(queue) + i \in Queued'
    OBVIOUS
  <2>1. /\ Len(queue) + i \in 1 .. Len(queue') /\ Len(queue) + i - Len(queue) = i
        /\ Len(queue) + i \notin gone
    BY <1>1, <1>3
  <2>2. Len(queue) + i \notin gone'
    BY <1>2, <2>1
  <2> QED  BY <2>1, <2>2 DEF Queued
<1> QED  BY <1>3, <1>5, <1>6, <1>7, <1>8, <1>9

-----------------------------------------------------------------------------
(* The steps of a call                                                       *)

LEMMA InitInv == Init => JInv
<1> SUFFICES ASSUME Init PROVE JInv
  OBVIOUS
<1>1. 0 \in 0 .. MaxCrashes /\ 0 \in 0 .. MaxAdvance
  BY CrawlAssumption
<1>2. pages = <<>> /\ queue = <<>> /\ pages \in Seq(Urls) /\ queue \in Seq(Entry) /\ Len(pages) = 0 /\ Len(queue) = 0
  BY DEF Init
<1>3. TypeOK
  BY <1>1, <1>2 DEF Init, TypeOK, Stages
<1>4. Len(pages) <= MaxPages
  BY <1>2, CrawlAssumption
<1>5. Locked /\ Started /\ Closed
  BY DEF Init, Locked, Started, Closed, Holding, PastSeed
<1>6. Entries
  BY <1>2 DEF Init, Entries
<1>7. ASSUME NEW u \in Urls  PROVE Fetches(u) <= Seen(<<"key", u>>) + Seen(<<"url", u>>)
  <2>1. Fetches(u) \in Nat /\ (Fetches(u) > 0 <=> FetchedUrl(u))
    BY <1>2, FetchesFacts
  <2>2. ~FetchedUrl(u)
    BY <1>2 DEF FetchedUrl
  <2> QED  BY <2>1, <2>2 DEF Seen
<1>8. Tally
  BY <1>7 DEF Tally, Init
<1>9. LinksFollowed
  BY DEF Init, LinksFollowed
<1> QED  BY <1>3, <1>4, <1>5, <1>6, <1>8, <1>9 DEF JInv

(* Nothing of the log is touched. *)
Untouched == UNCHANGED <<queue, gone, visited, pages>>

LEMMA LogKept ==
  ASSUME JInv, Untouched, UNCHANGED raw
  PROVE  /\ (Len(pages) <= MaxPages)' /\ Tally' /\ (Seeded' <=> Seeded) /\ Queued' = Queued
         /\ \A l : Got(l)' <=> Got(l)
         /\ \A e : KeyOf(e) \notin visited => KeyOf(e) \notin visited'
<1>1. UNCHANGED <<queue, gone, visited, pages>>
  BY DEF Untouched
<1>2. Queued' = Queued /\ (Seeded' <=> Seeded)
  BY <1>1 DEF Queued, Seeded
<1>3. \A u : Fetches(u)' = Fetches(u) /\ (FetchedUrl(u)' <=> FetchedUrl(u)) /\ Seen(u)' = Seen(u)
  BY <1>1 DEF Fetches, FetchedUrl, Seen
<1>4. \A l : Got(l)' <=> Got(l)
  BY <1>1, <1>2, <1>3 DEF Got
<1>5. Tally'
  BY <1>1, <1>3 DEF JInv, Tally
<1> QED  BY <1>1, <1>2, <1>4, <1>5 DEF JInv

(* A step of a call that leaves the log alone: whoever changes the lock or   *)
(* the status has the lock, or finds it free.                                *)
LEMMA CallMoves ==
  ASSUME JInv, NEW c \in Calls, NEW stage \in Stages \ {"fetch", "links"}, Go(c, stage),
         Untouched, UNCHANGED <<raw, cur, cancelled, followed, torn>>, pc[c] # "links",
         \A d \in Calls \ {c} : left'[d] = left[d],
         lock' # lock \/ status' # status => lock \in {None, c},
         stage \in Holding => lock' = c,
         stage = "page" => left'[c] > 0,
         status \in Sticky => status' = status,
         stage \in PastSeed \/ (status' = "completed" /\ status # "completed") => Seeded
  PROVE  (Len(pages) <= MaxPages)' /\ Locked' /\ Started' /\ Closed' /\ Entries' /\ Tally' /\ LinksFollowed'
<1>1. TypeOK /\ Locked /\ Started /\ Closed /\ Entries /\ LinksFollowed
  BY DEF JInv
<1>2. UNCHANGED <<queue, gone, visited, pages>>
  BY DEF Untouched
<1>3. /\ (Len(pages) <= MaxPages)' /\ Tally' /\ (Seeded' <=> Seeded)
      /\ \A l : Got(l)' <=> Got(l)
  BY LogKept
<1>4. /\ pc'[c] = stage /\ \A d \in Calls \ {c} : pc'[d] = pc[d]
  BY <1>1 DEF Go, TypeOK
<1>5. Locked'
  <2>1. ASSUME NEW d \in Calls
        PROVE  /\ pc'[d] \in Holding => lock' = d
               /\ pc'[d] \in {"page", "fetch"} => left'[d] > 0
               /\ pc'[d] \in {"fetch", "links"} => status' \notin Sticky /\ cur'[d] # None
               /\ pc'[d] = "fetch" => Len(pages') < MaxPages /\ KeyOf(cur'[d]) \notin visited'
    <3>1. CASE d = c
      BY <3>1, <1>4
    <3>2. CASE d # c
      <4>1. /\ pc[d] \in Holding => lock = d
            /\ pc[d] \in {"page", "fetch"} => left[d] > 0
            /\ pc[d] \in {"fetch", "links"} => status \notin Sticky /\ cur[d] # None
            /\ pc[d] = "fetch" => Len(pages) < MaxPages /\ KeyOf(cur[d]) \notin visited
        BY <1>1 DEF Locked
      <4>2. pc'[d] = pc[d] /\ left'[d] = left[d] /\ cur'[d] = cur[d]
        BY <3>2, <1>4
      <4>3. pc[d] \in Holding => lock' = lock /\ status' = status
        BY <3>2, <4>1, CrawlAssumption
      <4> QED  BY <4>1, <4>2, <4>3, <1>2 DEF Holding
    <3> QED  BY <3>1, <3>2
  <2> QED  BY <2>1 DEF Locked, KeyOf
<1>6. Started'
  <2>1. (\E d \in Calls : pc'[d] \in PastSeed) \/ status' = "completed" => Seeded
    BY <1>1, <1>4 DEF Started
  <2> QED  BY <2>1, <1>1, <1>2, <1>3 DEF Started
<1>7. Closed' /\ Entries'
  BY <1>1, <1>2 DEF Closed, Entries, SeedOrLink
<1>8. LinksFollowed'
  <2>1. \A d \in Calls : pc[d] = "links" => pc'[d] = "links" /\ cur'[d] = cur[d]
    BY <1>4
  <2> QED  BY <2>1, <1>1, <1>3, StillFollowed
<1> QED  BY <1>3, <1>5, <1>6, <1>7, <1>8

(* The types of a step that moves a call and leaves the log alone. *)
LEMMA MoveTyped ==
  ASSUME JInv, NEW c \in Calls, NEW stage \in Stages, Go(c, stage),
         Untouched, UNCHANGED <<env, history>>,
         status' \in {"pending", "running", "expired"} \cup Sticky, lock' \in Calls \cup {None},
         left' \in [Calls -> 0 .. MaxAdvance], cur' \in [Calls -> Entry \cup {None}]
  PROVE  TypeOK'
<1>1. TypeOK /\ UNCHANGED <<queue, gone, visited, pages, raw, known, old, crashes, cancelled, followed, torn>>
  BY DEF JInv, Untouched, env, history
<1>2. pc' \in [Calls -> Stages]
  BY <1>1 DEF Go, TypeOK
<1> QED  BY <1>1, <1>2 DEF TypeOK

(* The top of the loop goes to the next page, with one left, or to the end. *)
LEMMA LoopTestFacts ==
  ASSUME NEW c \in Calls, LoopTest(c)
  PROVE  \E stage \in {"page", "final"} : Go(c, stage) /\ (stage = "page" => left[c] > 0)
BY DEF LoopTest, MayFetchMore

LEMMA CallStep ==
  ASSUME JInv, NEW c \in Calls, NEW n \in 0 .. MaxAdvance, Call(c, n)
  PROVE  JInv'
<1>1. TypeOK
  BY DEF JInv
<1>2. /\ pc[c] = "idle" /\ Go(c, "load") /\ left' = [left EXCEPT ![c] = n] /\ Untouched
      /\ UNCHANGED <<status, env, lock, cur, history, raw, cancelled, followed, torn>>
  BY DEF Call, job, Untouched, env, history
<1>3. "load" \in Stages \ {"fetch", "links"} /\ "load" \notin Holding \cup PastSeed
  BY DEF Stages, Holding, PastSeed
<1>4. left' \in [Calls -> 0 .. MaxAdvance] /\ \A d \in Calls \ {c} : left'[d] = left[d]
  BY <1>1, <1>2 DEF TypeOK
<1>5. TypeOK'
  BY <1>1, <1>2, <1>3, <1>4, MoveTyped DEF TypeOK
<1>6. (Len(pages) <= MaxPages)' /\ Locked' /\ Started' /\ Closed' /\ Entries' /\ Tally' /\ LinksFollowed'
  BY <1>2, <1>3, <1>4, CallMoves
<1> QED  BY <1>5, <1>6 DEF JInv

LEMMA LoadStep ==
  ASSUME JInv, NEW c \in Calls, Load(c)
  PROVE  JInv'
<1>1. TypeOK
  BY DEF JInv
<1>2. PICK stage \in {"done", "expire", "seed"} : Go(c, stage)
  BY DEF Load
<1>3. /\ pc[c] = "load" /\ Untouched
      /\ UNCHANGED <<status, env, lock, left, cur, history, raw, cancelled, followed, torn>>
  BY DEF Load, job, Untouched, env, history
<1>4. stage \in Stages \ {"fetch", "links"} /\ stage \notin Holding \cup PastSeed
  BY <1>2 DEF Stages, Holding, PastSeed, Ended
<1>5. TypeOK'
  BY <1>1, <1>2, <1>3, <1>4, MoveTyped DEF TypeOK
<1>6. (Len(pages) <= MaxPages)' /\ Locked' /\ Started' /\ Closed' /\ Entries' /\ Tally' /\ LinksFollowed'
  BY <1>2, <1>3, <1>4, CallMoves
<1> QED  BY <1>5, <1>6 DEF JInv

LEMMA ExpireStep ==
  ASSUME JInv, NEW c \in Calls, Expire(c)
  PROVE  JInv'
<1>1. TypeOK
  BY DEF JInv
<1>2. /\ pc[c] = "expire" /\ lock = None /\ Go(c, "done") /\ Untouched
      /\ status' = IF status \in Sticky THEN status ELSE "expired"
      /\ UNCHANGED <<env, lock, left, cur, history, raw, cancelled, followed, torn>>
  BY DEF Expire, ApplyStatus, Untouched, env, history
<1>3. "done" \in Stages \ {"fetch", "links"} /\ "done" \notin Holding \cup PastSeed
  BY DEF Stages, Holding, PastSeed, Ended
<1>4. TypeOK'
  BY <1>1, <1>2, <1>3, MoveTyped DEF TypeOK
<1>5. (Len(pages) <= MaxPages)' /\ Locked' /\ Started' /\ Closed' /\ Entries' /\ Tally' /\ LinksFollowed'
  BY <1>2, <1>3, CallMoves
<1> QED  BY <1>4, <1>5 DEF JInv

LEMMA PromoteStep ==
  ASSUME JInv, NEW c \in Calls, Promote(c)
  PROVE  JInv'
<1>1. TypeOK /\ Locked /\ Started
  BY DEF JInv
<1>2. PICK stage \in {"page", "final"} : Go(c, stage) /\ (stage = "page" => left[c] > 0)
  BY LoopTestFacts DEF Promote
<1>3. /\ pc[c] = "promote" /\ lock' = None /\ Untouched
      /\ status' \in {status, "running"} /\ (status \in Sticky => status' = status)
      /\ UNCHANGED <<env, left, cur, history, raw, cancelled, followed, torn>>
  BY DEF Promote, ApplyStatus, Untouched, env, history
<1>4. stage \in Stages \ {"fetch", "links"} /\ stage \notin Holding
  BY <1>2 DEF Stages, Holding
<1>5. lock = c /\ Seeded
  BY <1>1, <1>3 DEF Locked, Started, Holding, PastSeed
<1>6. TypeOK'
  BY <1>1, <1>2, <1>3, <1>4, MoveTyped DEF TypeOK
<1>7. (Len(pages) <= MaxPages)' /\ Locked' /\ Started' /\ Closed' /\ Entries' /\ Tally' /\ LinksFollowed'
  BY <1>2, <1>3, <1>4, <1>5, CallMoves
<1> QED  BY <1>6, <1>7 DEF JInv

LEMMA AfterOrWakeStep ==
  ASSUME JInv, NEW c \in Calls, After(c) \/ Wake(c)
  PROVE  JInv'
<1>1. TypeOK /\ Started
  BY DEF JInv
<1>2. PICK stage \in {"page", "final", "sleep"} : Go(c, stage) /\ (stage = "page" => left[c] > 0)
  BY LoopTestFacts DEF After, Wake
<1>3. /\ pc[c] \in {"after", "sleep"} /\ Untouched
      /\ UNCHANGED <<status, env, lock, left, cur, history, raw, cancelled, followed, torn>>
  BY DEF After, Wake, job, Untouched, env, history
<1>4. stage \in Stages \ {"fetch", "links"} /\ stage \notin Holding
  BY <1>2 DEF Stages, Holding
<1>5. Seeded
  BY <1>1, <1>3 DEF Started, PastSeed
<1>6. TypeOK'
  BY <1>1, <1>2, <1>3, <1>4, MoveTyped DEF TypeOK
<1>7. (Len(pages) <= MaxPages)' /\ Locked' /\ Started' /\ Closed' /\ Entries' /\ Tally' /\ LinksFollowed'
  BY <1>2, <1>3, <1>4, <1>5, CallMoves
<1> QED  BY <1>6, <1>7 DEF JInv

LEMMA FinalStep ==
  ASSUME JInv, NEW c \in Calls, Final(c)
  PROVE  JInv'
<1>1. TypeOK /\ Started
  BY DEF JInv
<1>2. /\ pc[c] = "final" /\ lock = None /\ Go(c, "done") /\ Untouched
      /\ status' \in {status, "completed"} /\ (status \in Sticky => status' = status)
      /\ UNCHANGED <<env, lock, left, cur, history, raw, cancelled, followed, torn>>
  BY DEF Final, ApplyStatus, Untouched, env, history
<1>3. "done" \in Stages \ {"fetch", "links"} /\ "done" \notin Holding \cup PastSeed
  BY DEF Stages, Holding, PastSeed, Ended
<1>4. Seeded
  BY <1>1, <1>2 DEF Started, PastSeed
<1>5. TypeOK'
  BY <1>1, <1>2, <1>3, MoveTyped DEF TypeOK, Sticky
<1>6. (Len(pages) <= MaxPages)' /\ Locked' /\ Started' /\ Closed' /\ Entries' /\ Tally' /\ LinksFollowed'
  BY <1>2, <1>3, <1>4, CallMoves
<1> QED  BY <1>5, <1>6 DEF JInv

LEMMA LockTimeoutStep ==
  ASSUME JInv, NEW c \in Calls, LockTimeout(c)
  PROVE  JInv'
<1>1. TypeOK
  BY DEF JInv
<1>2. /\ pc[c] # "links" /\ Go(c, "failed") /\ Untouched
      /\ UNCHANGED <<status, env, lock, left, cur, history, raw, cancelled, followed, torn>>
  BY DEF LockTimeout, Waiting, job, Untouched, env, history
<1>3. "failed" \in Stages \ {"fetch", "links"} /\ "failed" \notin Holding \cup PastSeed
  BY DEF Stages, Holding, PastSeed, Ended
<1>4. TypeOK'
  BY <1>1, <1>2, <1>3, MoveTyped DEF TypeOK
<1>5. (Len(pages) <= MaxPages)' /\ Locked' /\ Started' /\ Closed' /\ Entries' /\ Tally' /\ LinksFollowed'
  BY <1>2, <1>3, CallMoves
<1> QED  BY <1>4, <1>5 DEF JInv

(* The critical section of a page: it ends the loop or skips an entry, or    *)
(* takes the lock with an entry that was not visited, in an open job with    *)
(* room for a page.                                                          *)
LEMMA PageStep ==
  ASSUME JInv, NEW c \in Calls, Page(c)
  PROVE  JInv'
<1>1. TypeOK /\ Locked /\ Started /\ Closed /\ Entries /\ LinksFollowed
  BY DEF JInv
<1>2. /\ pc[c] = "page" /\ lock = None /\ Untouched
      /\ UNCHANGED <<status, env, left, history, raw, cancelled, followed, torn>>
  BY DEF Page, job, Untouched, env, history
<1>3. Seeded /\ left[c] > 0
  BY <1>1, <1>2 DEF Started, Locked, PastSeed
<1>4. CASE NothingToFetch \/ Dequeued.depth > MaxDepth
  <2>1. PICK stage \in {"final", "after"} : Go(c, stage)
    BY <1>4 DEF Page
  <2>2. UNCHANGED <<lock, cur>>
    BY <1>4 DEF Page
  <2>3. stage \in Stages \ {"fetch", "links"} /\ stage \notin Holding
    BY <2>1 DEF Stages, Holding
  <2>4. TypeOK'
    BY <1>1, <1>2, <2>1, <2>2, <2>3, MoveTyped DEF TypeOK
  <2>5. (Len(pages) <= MaxPages)' /\ Locked' /\ Started' /\ Closed' /\ Entries' /\ Tally' /\ LinksFollowed'
    BY <1>2, <1>3, <2>1, <2>2, <2>3, CallMoves
  <2> QED  BY <2>4, <2>5 DEF JInv
<1>5. CASE ~(NothingToFetch \/ Dequeued.depth > MaxDepth)
  <2>1. PICK e : e = Dequeued
    OBVIOUS
  <2>2. cur' = [cur EXCEPT ![c] = e] /\ lock' = c /\ Go(c, "fetch")
    BY <1>5, <2>1 DEF Page, Dequeue
  <2>3. status \notin Sticky /\ ~(Len(pages) >= MaxPages) /\ Pending # {}
    BY <1>5 DEF NothingToFetch
  <2>4. Len(pages) < MaxPages
    BY <2>3, <1>1, CrawlAssumption DEF TypeOK
  <2>5. /\ e \in Entry /\ e # None /\ KeyOf(e) \notin visited
        /\ \E i \in 1 .. Len(queue) : e = queue[i]
    BY <2>1, <2>3, <1>1, DequeuedFacts, NoneAssumption
  <2>6. SeedOrLink(e)
    BY <2>5, <1>1 DEF Entries
  <2>7. /\ pc'[c] = "fetch" /\ cur'[c] = e
        /\ \A d \in Calls \ {c} : pc'[d] = pc[d] /\ cur'[d] = cur[d]
    BY <1>1, <2>2 DEF Go, TypeOK
  <2>8. TypeOK'
    <3>1. cur' \in [Calls -> Entry \cup {None}]
      BY <1>1, <2>2, <2>5 DEF TypeOK
    <3>2. "fetch" \in Stages
      BY DEF Stages
    <3> QED  BY <3>1, <3>2, <1>1, <1>2, <2>2, MoveTyped DEF TypeOK
  <2>9. \A d \in Calls : pc[d] \notin Holding
    BY <1>1, <1>2, CrawlAssumption DEF Locked
  <2>10. Locked'
    <3>1. UNCHANGED <<visited, pages, left, status>>
      BY <1>2 DEF Untouched
    <3>2. ASSUME NEW d \in Calls, d # c
          PROVE  pc'[d] \notin Holding /\ (pc'[d] \in {"page", "fetch"} => left'[d] > 0)
      BY <3>1, <3>2, <1>1, <2>7, <2>9 DEF Locked
    <3>3. KeyOf(cur'[c]) \notin visited' /\ Len(pages') < MaxPages /\ status' \notin Sticky
      BY <3>1, <2>3, <2>4, <2>5, <2>7
    <3> QED  BY <3>1, <3>2, <3>3, <1>3, <2>2, <2>5, <2>7 DEF Locked, Holding, KeyOf
  <2>11. /\ (Len(pages) <= MaxPages)' /\ Tally' /\ (Seeded' <=> Seeded)
         /\ \A l : Got(l)' <=> Got(l)
    BY <1>2, LogKept
  <2>12. Started' /\ Closed'
    BY <1>1, <1>2, <1>3, <2>11 DEF Started, Closed, Untouched
  <2>13. Entries'
    BY <1>1, <1>2, <2>6, <2>7 DEF Entries, SeedOrLink, Untouched
  <2>14. \A d \in Calls : pc[d] = "links" => pc'[d] = "links" /\ cur'[d] = cur[d]
    BY <2>9 DEF Holding
  <2>15. LinksFollowed'
    BY <2>11, <2>14, <1>1, <1>2, StillFollowed
  <2> QED  BY <2>8, <2>10, <2>11, <2>12, <2>13, <2>15 DEF JInv
<1> QED  BY <1>4, <1>5

(* The seed is the only entry without a key, and the first to be queued. *)
LEMMA SeedStep ==
  ASSUME JInv, NEW c \in Calls, Seed(c)
  PROVE  JInv'
<1>1. TypeOK /\ Locked /\ Started /\ Closed /\ Entries /\ LinksFollowed /\ Tally
  BY DEF JInv
<1>2. /\ pc[c] = "seed" /\ lock = None /\ lock' = c /\ Go(c, "promote")
      /\ UNCHANGED <<status, visited, pages, env, left, cur, history, raw, cancelled, followed, torn>>
  BY DEF Seed, env, history
<1>3. "promote" \in Stages \ {"fetch", "links"}
  BY DEF Stages
<1>4. CASE Seeded
  <2>1. Untouched
    BY <1>2, <1>4 DEF Seed, Seeded, Untouched
  <2>2. TypeOK'
    BY <1>1, <1>2, <1>3, <2>1, MoveTyped DEF TypeOK
  <2>3. (Len(pages) <= MaxPages)' /\ Locked' /\ Started' /\ Closed' /\ Entries' /\ Tally' /\ LinksFollowed'
    BY <1>2, <1>3, <1>4, <2>1, CallMoves
  <2> QED  BY <2>2, <2>3 DEF JInv
<1>5. CASE ~Seeded
  <2>1. PICK e : e = [url |-> Start, depth |-> 0, keyed |-> FALSE]
    OBVIOUS
  <2>2. e \in Entry /\ e.keyed = FALSE /\ e.url = Start
    BY <2>1, CrawlAssumption DEF Entry
  <2>3. PICK s : s = <<e>>
    OBVIOUS
  <2>4. s \in Seq(Entry) /\ Len(s) = 1 /\ s[1] = e
    BY <2>2, <2>3
  <2>5. ApplyEnqueue(s) /\ visited = {}
    BY <1>1, <1>5, <2>1, <2>3 DEF Seed, Seeded, Started
  <2>6. /\ queue' \in Seq(Entry) /\ gone' \subseteq 1 .. Len(queue')
        /\ \A i \in 1 .. Len(queue) : queue'[i] = queue[i]
        /\ \A i \in 1 .. Len(s) : queue'[Len(queue) + i] = s[i]
        /\ \A i \in 1 .. Len(queue') : \/ i \in 1 .. Len(queue)
                                        \/ \E j \in 1 .. Len(s) : i = Len(queue) + j
        /\ Queued \subseteq Queued'
        /\ \A i \in 1 .. Len(s) : KeyOf(s[i]) \notin visited => Len(queue) + i \in Queued'
    BY <1>1, <2>4, <2>5, EnqueueFacts
  <2>7. Seeded'
    <3>1. 1 \in 1 .. Len(s) /\ KeyOf(s[1]) \notin visited
      BY <2>4, <2>5
    <3> QED  BY <2>6, <3>1 DEF Seeded
  <2>8. pc'[c] = "promote" /\ \A d \in Calls \ {c} : pc'[d] = pc[d]
    BY <1>1, <1>2 DEF Go, TypeOK
  <2>9. TypeOK'
    <3>1. pc' \in [Calls -> Stages]
      BY <1>1, <1>2, <1>3 DEF Go, TypeOK
    <3> QED  BY <3>1, <1>1, <1>2, <2>6 DEF TypeOK, env, history
  <2>10. \A d \in Calls : pc[d] \notin Holding
    BY <1>1, <1>2, CrawlAssumption DEF Locked
  <2>11. Locked'
    <3>1. ASSUME NEW d \in Calls, d # c
          PROVE  pc'[d] \notin Holding /\ (pc'[d] \in {"page", "fetch"} => left'[d] > 0)
      BY <3>1, <1>1, <1>2, <2>8, <2>10 DEF Locked
    <3> QED  BY <3>1, <1>2, <2>8 DEF Locked, Holding
  <2>12. (Len(pages) <= MaxPages)' /\ Started' /\ Closed'
    BY <1>1, <1>2, <2>7 DEF JInv, Started, Closed
  <2>13. Entries'
    <3>1. ASSUME NEW i \in 1 .. Len(queue')  PROVE SeedOrLink(queue'[i])
      BY <2>2, <2>4, <2>6, <1>1 DEF Entries, SeedOrLink
    <3> QED  BY <3>1, <1>1, <1>2 DEF Entries, SeedOrLink
  <2>14. Tally' /\ \A l : Got(l) => Got(l)'
    <3>1. \A u : Fetches(u)' = Fetches(u) /\ (FetchedUrl(u)' <=> FetchedUrl(u)) /\ Seen(u)' = Seen(u)
      BY <1>2 DEF Fetches, FetchedUrl, Seen
    <3>2. Tally'
      BY <1>1, <1>2, <3>1 DEF Tally
    <3>3. Queued \subseteq 1 .. Len(queue)
      BY DEF Queued
    <3> QED  BY <3>1, <3>2, <3>3, <2>6 DEF Got
  <2>15. \A d \in Calls : pc[d] = "links" => pc'[d] = "links" /\ cur'[d] = cur[d]
    BY <2>10 DEF Holding
  <2>16. LinksFollowed'
    BY <2>14, <2>15, <1>1, <1>2, StillFollowed
  <2> QED  BY <2>9, <2>11, <2>12, <2>13, <2>14, <2>16 DEF JInv
<1> QED  BY <1>4, <1>5

(* A page is recorded: its name enters the visited set together with it,     *)
(* and what leaves the queue are entries of the same URL.                    *)
LEMMA FetchedEvent ==
  ASSUME JInv, NEW c \in Calls, pc[c] = "fetch", NEW name,
         name = <<"url", cur[c].url>> \/ (name = <<"raw", cur[c].url>> /\ raw /\ cur[c].depth = 0),
         ApplyFetched(cur[c], name), UNCHANGED <<raw, cur>>
  PROVE  /\ queue' = queue /\ gone' \subseteq 1 .. Len(queue) /\ visited' \subseteq Name
         /\ pages' \in Seq(Urls) /\ (Len(pages) <= MaxPages)' /\ pages' # <<>>
         /\ Entries' /\ Tally' /\ \A l \in Urls : Got(l) => Got(l)'
<1>1. TypeOK /\ Locked /\ Entries /\ Tally
  BY DEF JInv
<1>2. PICK e \in Entry : e = cur[c]
  BY <1>1 DEF Locked, TypeOK
<1>3. /\ e.url \in Urls /\ e.keyed \in BOOLEAN /\ SeedOrLink(e)
      /\ Len(pages) < MaxPages /\ KeyOf(e) \notin visited
  BY <1>1, <1>2, NoneAssumption DEF Entry, Locked, Entries
<1>4. PICK seen : seen = IF e.keyed THEN KeyOf(e) ELSE name
  OBVIOUS
<1>5. seen = IF e.keyed THEN <<"key", e.url>> ELSE name
  BY <1>4 DEF KeyOf
<1>6. /\ seen \in Name /\ seen[2] = e.url /\ (seen[1] = "url" => ~e.keyed) /\ (seen[1] = "key" => e.keyed)
  <2>1. CASE e.keyed
    BY <1>3, <1>5, <2>1 DEF Name
  <2>2. CASE ~e.keyed
    BY <1>2, <1>3, <1>5, <2>2 DEF Name
  <2> QED  BY <2>1, <2>2
<1>7. /\ visited' = visited \cup {seen} /\ queue' = queue /\ pages' = Append(pages, e.url)
  BY <1>2, <1>4 DEF ApplyFetched
<1>8. \A i \in 1 .. Len(queue) : i \in gone' => i \in gone \/ queue[i].url = e.url
  <2> SUFFICES ASSUME NEW i \in 1 .. Len(queue), i \in gone', i \notin gone
               PROVE  queue[i].url = e.url
    OBVIOUS
  <2>1. CASE e.keyed
    <3>1. KeyOf(queue[i]) = KeyOf(e)
      BY <2>1, <1>2 DEF ApplyFetched
    <3> QED  BY <3>1 DEF KeyOf
  <2>2. CASE ~e.keyed
    <3>1. name = <<"url", queue[i].url>>
      BY <2>2, <1>2 DEF ApplyFetched
    <3> QED  BY <3>1, <1>2
  <2> QED  BY <2>1, <2>2
<1>9. gone' \subseteq 1 .. Len(queue)
  BY <1>1, <1>2 DEF ApplyFetched, TypeOK
<1>10. /\ pages' \in Seq(Urls) /\ Len(pages') = Len(pages) + 1 /\ pages' # <<>>
       /\ \A u : /\ Fetches(u)' = IF u = e.url THEN Fetches(u) + 1 ELSE Fetches(u)
                 /\ FetchedUrl(u)' <=> FetchedUrl(u) \/ u = e.url
  BY <1>1, <1>3, <1>7, RecordPage DEF TypeOK
<1>11. (Len(pages) <= MaxPages)'
  <2>1. Len(pages) \in Nat /\ MaxPages \in Nat
    BY <1>1, CrawlAssumption DEF TypeOK
  <2> QED  BY <2>1, <1>3, <1>10
<1>12. Entries'
  <2>1. ASSUME NEW u \in Urls, <<"url", u>> \in visited'  PROVE u = Start
    <3>1. CASE <<"url", u>> \in visited
      BY <3>1, <1>1 DEF Entries
    <3>2. CASE <<"url", u>> = seen
      <4>1. u = e.url /\ ~e.keyed
        BY <3>2, <1>6
      <4> QED  BY <4>1, <1>3 DEF SeedOrLink
    <3> QED  BY <2>1, <3>1, <3>2, <1>7
  <2> QED  BY <2>1, <1>1, <1>7 DEF Entries, SeedOrLink
<1>13. \A u \in Urls : Fetches(u) \in Nat
  BY <1>1, FetchesFacts DEF TypeOK
<1>14. Tally'
  <2>1. ASSUME NEW n \in visited'  PROVE FetchedUrl(n[2])'
    BY <2>1, <1>1, <1>6, <1>7, <1>10 DEF Tally
  <2>2. ASSUME NEW u \in Urls, u # Start \/ ~raw
        PROVE  Fetches(u)' <= Seen(<<"key", u>>)' + Seen(<<"url", u>>)'
    <3>1. Fetches(u) <= Seen(<<"key", u>>) + Seen(<<"url", u>>) /\ Fetches(u) \in Nat
      BY <2>2, <1>1, <1>13 DEF Tally
    <3>2. \A n : Seen(n) \in {0, 1} /\ Seen(n)' \in {0, 1} /\ Seen(n) <= Seen(n)'
      BY <1>7 DEF Seen
    <3>3. CASE u # e.url
      BY <3>1, <3>2, <3>3, <1>10
    <3>4. CASE u = e.url
      <4>1. seen = KeyOf(e)
        <5>1. CASE e.keyed
          BY <5>1, <1>4
        <5>2. CASE ~e.keyed
          <6>1. u = Start /\ ~raw
            BY <5>2, <3>4, <2>2, <1>3 DEF SeedOrLink
          <6> QED  BY <5>2, <6>1, <1>2, <1>4 DEF KeyOf
        <5> QED  BY <5>1, <5>2
      <4>2. seen \in {<<"key", u>>, <<"url", u>>}
        BY <4>1, <3>4 DEF KeyOf
      <4>3. Seen(seen) = 0 /\ Seen(seen)' = 1
        BY <4>1, <1>3, <1>7 DEF Seen
      <4>4. Fetches(u)' = Fetches(u) + 1
        BY <3>4, <1>10
      <4>5. CASE seen = <<"key", u>>
        BY <4>3, <4>4, <4>5, <3>1, <3>2
      <4>6. CASE seen = <<"url", u>>
        BY <4>3, <4>4, <4>6, <3>1, <3>2
      <4> QED  BY <4>2, <4>5, <4>6
    <3> QED  BY <3>3, <3>4
  <2> QED  BY <2>1, <2>2 DEF Tally
<1>15. ASSUME NEW l \in Urls, Got(l)  PROVE Got(l)'
  <2>1. CASE l = e.url
    BY <2>1, <1>10, <1>13 DEF Got
  <2>2. CASE l # e.url
    <3>1. CASE Fetches(l) > 0
      BY <3>1, <2>2, <1>10 DEF Got
    <3>2. CASE \E i \in Queued : queue[i].url = l
      <4>1. PICK i \in Queued : queue[i].url = l
        BY <3>2
      <4>2. i \in Queued'
        BY <4>1, <2>2, <1>7, <1>8 DEF Queued
      <4> QED  BY <4>1, <4>2, <1>7 DEF Got
    <3> QED  BY <1>15, <3>1, <3>2 DEF Got
  <2> QED  BY <2>1, <2>2
<1>16. visited' \subseteq Name
  BY <1>1, <1>6, <1>7 DEF TypeOK
<1> QED  BY <1>7, <1>9, <1>10, <1>11, <1>12, <1>14, <1>15, <1>16

(* A fetch ends: the call gives the lock back, or keeps it to queue links. *)
LEMMA FetchEnds ==
  ASSUME JInv, NEW c \in Calls, pc[c] = "fetch", NEW name,
         name = <<"url", cur[c].url>> \/ (name = <<"raw", cur[c].url>> /\ raw /\ cur[c].depth = 0),
         ApplyFetched(cur[c], name),
         left' = [left EXCEPT ![c] = @ - 1], UNCHANGED <<status, env, cur, cancelled, torn>>,
         \/ Go(c, "after") /\ lock' = None /\ followed' = followed
         \/ Go(c, "links") /\ lock' = lock /\ followed' = followed \cup {cur[c].url}
  PROVE  JInv'
<1>1. TypeOK /\ Locked /\ Started /\ Closed /\ LinksFollowed
  BY DEF JInv
<1>2. UNCHANGED <<raw, known, old, crashes>>
  BY DEF env
<1>3. /\ queue' = queue /\ gone' \subseteq 1 .. Len(queue) /\ visited' \subseteq Name
      /\ pages' \in Seq(Urls) /\ (Len(pages) <= MaxPages)' /\ pages' # <<>>
      /\ Entries' /\ Tally' /\ \A l \in Urls : Got(l) => Got(l)'
  BY <1>2, FetchedEvent
<1>4. /\ lock = c /\ left[c] > 0 /\ status \notin Sticky /\ cur[c] # None
  BY <1>1 DEF Locked, Holding
<1>5. cur[c].url \in Urls
  BY <1>1, <1>4 DEF TypeOK, Entry
<1>6. PICK stage \in {"after", "links"} : Go(c, stage)
  OBVIOUS
<1>7. pc'[c] = stage /\ \A d \in Calls \ {c} : pc'[d] = pc[d] /\ left'[d] = left[d]
  BY <1>1, <1>6 DEF Go, TypeOK
<1>8. TypeOK'
  <2>1. left[c] \in 0 .. MaxAdvance
    BY <1>1 DEF TypeOK
  <2>2. left[c] - 1 \in 0 .. MaxAdvance
    BY <2>1, <1>4, CrawlAssumption
  <2>3. left' \in [Calls -> 0 .. MaxAdvance]
    BY <2>2, <1>1 DEF TypeOK
  <2>4. pc' \in [Calls -> Stages]
    BY <1>1, <1>6 DEF Go, TypeOK, Stages
  <2>5. lock' \in Calls \cup {None} /\ followed' \subseteq Urls
    BY <1>1, <1>5 DEF TypeOK
  <2> QED  BY <2>3, <2>4, <2>5, <1>1, <1>2, <1>3 DEF TypeOK
<1>9. \A d \in Calls \ {c} : pc[d] \notin Holding
  BY <1>1, <1>4 DEF Locked
<1>10. Locked'
  <2>1. ASSUME NEW d \in Calls, d # c
        PROVE  pc'[d] \notin Holding /\ (pc'[d] \in {"page", "fetch"} => left'[d] > 0)
    BY <2>1, <1>1, <1>7, <1>9 DEF Locked
  <2>2. pc'[c] = "links" => lock' = c
    <3>1. ASSUME pc'[c] = "links"  PROVE lock' = lock
      BY <3>1, <1>1 DEF Go, TypeOK
    <3> QED  BY <3>1, <1>4
  <2> QED  BY <2>1, <2>2, <1>4, <1>7 DEF Locked, Holding
<1>11. Started' /\ Closed'
  BY <1>1, <1>3 DEF Started, Seeded, Closed
<1>12. LinksFollowed'
  <2>1. CASE followed' = followed
    <3>1. \A d \in Calls : pc[d] = "links" => pc'[d] = "links" /\ cur'[d] = cur[d]
      BY <1>7, <1>9 DEF Holding
    <3> QED  BY <2>1, <3>1, <1>1, <1>3, StillFollowed
  <2>2. CASE followed' = followed \cup {cur[c].url} /\ Go(c, "links")
    <3>1. pc'[c] = "links" /\ cur'[c] = cur[c]
      BY <2>2, <1>1 DEF Go, TypeOK
    <3>2. SUFFICES ASSUME ~torn, NEW u \in followed, u # cur[c].url
                   PROVE  \A k \in 1 .. Len(Links[u]) : Got(Links[u][k])'
      BY <2>2, <3>1 DEF LinksFollowed, Got
    <3>3. \A k \in 1 .. Len(Links[u]) : Got(Links[u][k])
      <4>1. \A d \in Calls : pc[d] # "links"
        BY <1>9 DEF Holding
      <4> QED  BY <3>2, <4>1, <1>1 DEF LinksFollowed, Got
    <3>4. Links[u] \in Seq(Urls)
      BY <1>1, CrawlAssumption DEF TypeOK
    <3>5. \A k \in 1 .. Len(Links[u]) : Links[u][k] \in Urls
      BY <3>4
    <3> QED  BY <3>3, <3>5, <1>3
  <2> QED  BY <2>1, <2>2
<1> QED  BY <1>3, <1>8, <1>10, <1>11, <1>12 DEF JInv

LEMMA FetchStep ==
  ASSUME JInv, NEW c \in Calls, FetchThrows(c) \/ \E error \in BOOLEAN : FetchReturns(c, error)
  PROVE  JInv'
<1>1. CASE FetchThrows(c)
  BY <1>1, FetchEnds DEF FetchThrows, history
<1>2. ASSUME NEW error \in BOOLEAN, FetchReturns(c, error)  PROVE JInv'
  <2>1. \/ LoggedUrl(c) = <<"url", cur[c].url>>
        \/ LoggedUrl(c) = <<"raw", cur[c].url>> /\ raw /\ cur[c].depth = 0
    BY DEF LoggedUrl
  <2>2. PICK name : name = LoggedUrl(c)
    OBVIOUS
  <2>3. ApplyFetched(cur[c], name)
    BY <1>2, <2>2 DEF FetchReturns
  <2> QED  BY <1>2, <2>1, <2>2, <2>3, FetchEnds DEF FetchReturns
<1> QED  BY <1>1, <1>2

(* The links of the page enter the queue, but those that were visited, which *)
(* have been fetched.                                                        *)
LEMMA QueueLinksStep ==
  ASSUME JInv, NEW c \in Calls, QueueLinks(c)
  PROVE  JInv'
<1>1. TypeOK /\ Locked /\ Started /\ Closed /\ Entries /\ Tally /\ LinksFollowed
  BY DEF JInv
<1>2. /\ pc[c] = "links" /\ lock' = None /\ Go(c, "after") /\ ApplyEnqueue(Found(c))
      /\ UNCHANGED <<status, visited, pages, raw, known, old, crashes, left, cur, cancelled, followed, torn>>
  BY DEF QueueLinks, env, history
<1>3. lock = c /\ cur[c] \in Entry
  BY <1>1, <1>2 DEF Locked, Holding, TypeOK
<1>4. PICK v \in Urls : v = cur[c].url
  BY <1>3 DEF Entry
<1>5. cur[c].depth + 1 \in Nat
  BY <1>3 DEF Entry
<1>6. Links[v] \in Seq(Urls) /\ Len(Links[v]) \in Nat
  BY CrawlAssumption
<1>7. PICK s : s = Found(c)
  OBVIOUS
<1>8. /\ s \in Seq(Entry) /\ Len(s) = Len(Links[v])
      /\ \A k \in 1 .. Len(s) : s[k].url = Links[v][k] /\ s[k].keyed = TRUE
  <2>1. s = [k \in 1 .. Len(Links[v]) |-> [url |-> Links[v][k], depth |-> cur[c].depth + 1, keyed |-> TRUE]]
    BY <1>4, <1>7 DEF Found
  <2>2. \A k \in 1 .. Len(Links[v]) :
          [url |-> Links[v][k], depth |-> cur[c].depth + 1, keyed |-> TRUE] \in Entry
    BY <1>5, <1>6 DEF Entry
  <2>3. s \in [1 .. Len(Links[v]) -> Entry]
    BY <2>1, <2>2
  <2>4. s \in Seq(Entry) /\ Len(s) = Len(Links[v])
    BY <2>3, <1>6
  <2> QED  BY <2>1, <2>4
<1>9. /\ queue' \in Seq(Entry) /\ gone' \subseteq 1 .. Len(queue')
      /\ \A i \in 1 .. Len(queue) : queue'[i] = queue[i]
      /\ \A i \in 1 .. Len(s) : queue'[Len(queue) + i] = s[i]
      /\ \A i \in 1 .. Len(queue') : \/ i \in 1 .. Len(queue)
                                      \/ \E j \in 1 .. Len(s) : i = Len(queue) + j
      /\ Queued \subseteq Queued'
      /\ \A i \in 1 .. Len(s) : KeyOf(s[i]) \notin visited => Len(queue) + i \in Queued'
  BY <1>1, <1>2, <1>7, <1>8, EnqueueFacts
<1>10. pc'[c] = "after" /\ \A d \in Calls \ {c} : pc'[d] = pc[d]
  BY <1>1, <1>2 DEF Go, TypeOK
<1>11. TypeOK'
  <2>1. pc' \in [Calls -> Stages]
    BY <1>1, <1>2 DEF Go, TypeOK, Stages
  <2> QED  BY <2>1, <1>1, <1>2, <1>9 DEF TypeOK
<1>12. \A d \in Calls \ {c} : pc[d] \notin Holding
  BY <1>1, <1>3 DEF Locked
<1>13. Locked'
  <2>1. ASSUME NEW d \in Calls, d # c
        PROVE  pc'[d] \notin Holding /\ (pc'[d] \in {"page", "fetch"} => left'[d] > 0)
    BY <2>1, <1>1, <1>2, <1>10, <1>12 DEF Locked
  <2> QED  BY <2>1, <1>10 DEF Locked, Holding
<1>14. Seeded'
  <2>1. Seeded
    BY <1>1, <1>2 DEF Started, PastSeed
  <2> QED  BY <2>1, <1>2, <1>9 DEF Seeded
<1>15. (Len(pages) <= MaxPages)' /\ Started' /\ Closed'
  BY <1>1, <1>2, <1>14 DEF JInv, Started, Closed
<1>16. Entries'
  <2>1. ASSUME NEW i \in 1 .. Len(queue')  PROVE SeedOrLink(queue'[i])
    BY <1>1, <1>8, <1>9 DEF Entries, SeedOrLink
  <2> QED  BY <2>1, <1>1, <1>2 DEF Entries, SeedOrLink
<1>17. \A u : Fetches(u)' = Fetches(u) /\ (FetchedUrl(u)' <=> FetchedUrl(u)) /\ Seen(u)' = Seen(u)
  BY <1>2 DEF Fetches, FetchedUrl, Seen
<1>18. Tally'
  BY <1>1, <1>2, <1>17 DEF Tally
<1>19. \A l : Got(l) => Got(l)'
  <2>1. Queued \subseteq 1 .. Len(queue)
    BY DEF Queued
  <2> QED  BY <2>1, <1>9, <1>17 DEF Got
<1>20. ASSUME NEW k \in 1 .. Len(Links[v])  PROVE Got(Links[v][k])'
  <2>1. k \in 1 .. Len(s) /\ s[k].url = Links[v][k] /\ KeyOf(s[k]) = <<"key", Links[v][k]>>
    BY <1>8 DEF KeyOf
  <2>2. CASE KeyOf(s[k]) \in visited
    <3>1. FetchedUrl(Links[v][k])
      BY <2>1, <2>2, <1>1 DEF Tally
    <3>2. Fetches(Links[v][k]) > 0
      BY <3>1, <1>1, FetchesFacts DEF TypeOK
    <3> QED  BY <3>2, <1>17 DEF Got
  <2>3. CASE KeyOf(s[k]) \notin visited
    <3>1. Len(queue) + k \in Queued' /\ queue'[Len(queue) + k] = s[k]
      BY <2>1, <2>3, <1>9
    <3> QED  BY <2>1, <3>1 DEF Got
  <2> QED  BY <2>2, <2>3
<1>21. LinksFollowed'
  <2>1. SUFFICES ASSUME ~torn, NEW u \in followed
                 PROVE  \A k \in 1 .. Len(Links[u]) : Got(Links[u][k])'
    BY <1>2 DEF LinksFollowed, Got
  <2>2. CASE u = v
    BY <2>2, <1>20
  <2>3. CASE u # v
    <3>1. \A d \in Calls : ~(pc[d] = "links" /\ cur[d].url = u)
      BY <2>3, <1>4, <1>12 DEF Holding
    <3>2. \A k \in 1 .. Len(Links[u]) : Got(Links[u][k])
      BY <2>1, <3>1, <1>1 DEF LinksFollowed, Got
    <3> QED  BY <3>2, <1>19
  <2> QED  BY <2>2, <2>3
<1> QED  BY <1>11, <1>13, <1>15, <1>16, <1>18, <1>21 DEF JInv

-----------------------------------------------------------------------------
(* What happens to the job besides                                           *)

(* A step that leaves log and calls alone. *)
LEMMA JobAside ==
  ASSUME JInv, Untouched, UNCHANGED <<raw, pc, left, cur, followed, torn>>,
         (lock' # lock \/ status' # status) => \A c \in Calls : pc[c] \notin Holding,
         status' = "completed" => status = "completed"
  PROVE  (Len(pages) <= MaxPages)' /\ Locked' /\ Started' /\ Entries' /\ Tally' /\ LinksFollowed'
<1>1. TypeOK /\ Locked /\ Started /\ Entries /\ LinksFollowed
  BY DEF JInv
<1>2. UNCHANGED <<queue, gone, visited, pages>>
  BY DEF Untouched
<1>3. /\ (Len(pages) <= MaxPages)' /\ Tally' /\ (Seeded' <=> Seeded)
      /\ \A l : Got(l)' <=> Got(l)
  BY LogKept
<1>4. Locked'
  <2>1. ASSUME NEW d \in Calls
        PROVE  /\ pc[d] \in Holding => lock' = d
               /\ pc[d] \in {"page", "fetch"} => left[d] > 0
               /\ pc[d] \in {"fetch", "links"} => status' \notin Sticky /\ cur[d] # None
               /\ pc[d] = "fetch" => Len(pages) < MaxPages /\ KeyOf(cur[d]) \notin visited
    BY <1>1 DEF Locked, Holding
  <2> QED  BY <2>1, <1>2 DEF Locked, KeyOf
<1>5. Started' /\ Entries'
  BY <1>1, <1>2, <1>3 DEF Started, Entries, SeedOrLink
<1>6. LinksFollowed'
  BY <1>1, <1>3, StillFollowed
<1> QED  BY <1>3, <1>4, <1>5, <1>6

LEMMA CancelStep ==
  ASSUME JInv, Cancel
  PROVE  JInv'
<1>1. TypeOK /\ Locked
  BY DEF JInv
<1>2. /\ lock = None /\ status' = IF status \in Sticky THEN status ELSE "cancelled"
      /\ Untouched /\ UNCHANGED <<raw, known, old, crashes, lock, pc, left, cur, followed, torn>>
      /\ cancelled' = TRUE
  BY DEF Cancel, ApplyStatus, Untouched, env
<1>3. \A c \in Calls : pc[c] \notin Holding
  BY <1>1, <1>2, CrawlAssumption DEF Locked
<1>4. (Len(pages) <= MaxPages)' /\ Locked' /\ Started' /\ Entries' /\ Tally' /\ LinksFollowed'
  BY <1>2, <1>3, JobAside
<1>5. TypeOK'
  BY <1>1, <1>2 DEF TypeOK, Untouched, Sticky
<1>6. Closed'
  BY <1>2 DEF Closed, Sticky
<1> QED  BY <1>4, <1>5, <1>6 DEF JInv

LEMMA AgeOrStaleStep ==
  ASSUME JInv, Age \/ LockGoesStale
  PROVE  JInv'
<1>1. TypeOK /\ Locked /\ Closed
  BY DEF JInv
<1>2. /\ Untouched /\ UNCHANGED <<status, raw, known, crashes, pc, left, cur, cancelled, followed, torn>>
      /\ lock' \in {lock, None} /\ old' \in {old, TRUE}
  BY DEF Age, LockGoesStale, job, env, history, Untouched
<1>3. lock' # lock => \A c \in Calls : pc[c] \notin Holding
  <2>1. SUFFICES ASSUME lock' # lock, NEW c \in Calls, pc[c] \in Holding  PROVE FALSE
    OBVIOUS
  <2>2. LockGoesStale /\ lock = c
    BY <2>1, <1>1 DEF Age, Locked
  <2> QED  BY <2>1, <2>2 DEF LockGoesStale, Holding
<1>4. (Len(pages) <= MaxPages)' /\ Locked' /\ Started' /\ Entries' /\ Tally' /\ LinksFollowed'
  BY <1>2, <1>3, JobAside
<1>5. old' \in BOOLEAN
  BY <1>1, <1>2 DEF TypeOK
<1>6. TypeOK' /\ Closed'
  BY <1>1, <1>2, <1>5 DEF TypeOK, Closed, Untouched
<1> QED  BY <1>4, <1>6 DEF JInv

(* Dead calls hold nothing but the lock file; who died between the two       *)
(* appends of a page is on record.                                           *)
LEMMA CrashStep ==
  ASSUME JInv, NEW process \in Processes, Crash(process)
  PROVE  JInv'
<1>1. TypeOK /\ Locked /\ Started /\ Closed /\ Entries /\ LinksFollowed
  BY DEF JInv
<1>2. /\ crashes < MaxCrashes /\ crashes' = crashes + 1
      /\ known' = (known /\ process # Local)
      /\ torn' = (torn \/ \E c \in process : pc[c] = "links")
      /\ Untouched /\ UNCHANGED <<status, raw, old, lock, left, cur, cancelled, followed>>
  BY DEF Crash, job, Untouched
<1>3. \A c \in Calls : pc'[c] = IF c \in process /\ pc[c] \notin Ended \cup {"idle"} THEN "dead" ELSE pc[c]
  BY DEF Crash
<1>4. \A c \in Calls : pc'[c] \in {pc[c], "dead"}
  BY <1>3
<1>5. TypeOK'
  <2>1. pc' \in [Calls -> Stages]
    BY <1>1 DEF Crash, TypeOK, Stages, Ended
  <2>2. crashes' \in 0 .. MaxCrashes
    BY <1>1, <1>2, CrawlAssumption DEF TypeOK
  <2>3. known' \in BOOLEAN
    BY <1>2
  <2>4. torn' \in BOOLEAN
    BY <1>2
  <2> QED  BY <2>1, <2>2, <2>3, <2>4, <1>1, <1>2 DEF TypeOK, Untouched
<1>6. /\ (Len(pages) <= MaxPages)' /\ Tally' /\ (Seeded' <=> Seeded)
      /\ \A l : Got(l)' <=> Got(l)
  BY <1>2, LogKept
<1>7. Locked'
  BY <1>1, <1>2, <1>4 DEF Locked, Holding, KeyOf, Untouched
<1>8. Started' /\ Closed' /\ Entries'
  BY <1>1, <1>2, <1>4, <1>6 DEF Started, Closed, Entries, SeedOrLink, PastSeed, Untouched
<1>9. LinksFollowed'
  <2>1. CASE torn'
    BY <2>1 DEF LinksFollowed
  <2>2. CASE ~torn'
    <3>1. \A c \in Calls : pc[c] = "links" => c \notin process
      BY <2>2, <1>2
    <3>2. \A c \in Calls : pc[c] = "links" => pc'[c] = "links" /\ cur'[c] = cur[c]
      BY <3>1, <1>2, <1>3
    <3> QED  BY <3>2, <1>1, <1>2, <1>6, StillFollowed
  <2> QED  BY <2>1, <2>2
<1> QED  BY <1>5, <1>6, <1>7, <1>8, <1>9 DEF JInv

LEMMA NothingChanges ==
  ASSUME JInv, UNCHANGED vars
  PROVE  JInv'
<1>1. /\ Untouched /\ UNCHANGED <<status, raw, known, old, crashes, lock, pc, left, cur, cancelled, followed, torn>>
  BY DEF vars, job, env, history, Untouched
<1>2. (Len(pages) <= MaxPages)' /\ Locked' /\ Started' /\ Entries' /\ Tally' /\ LinksFollowed'
  BY <1>1, JobAside
<1>3. TypeOK' /\ Closed'
  BY <1>1 DEF JInv, TypeOK, Closed, Untouched
<1> QED  BY <1>2, <1>3 DEF JInv

-----------------------------------------------------------------------------
(* The theorems                                                              *)

(* JInv is inductive. *)
THEOREM JInvHolds == Spec => []JInv
<1>1. ASSUME JInv, [Next]_vars  PROVE JInv'
  <2>1. ASSUME NEW c \in Calls, Step(c)  PROVE JInv'
    BY <1>1, <2>1, LoadStep, ExpireStep, SeedStep, PromoteStep, PageStep, FetchStep, QueueLinksStep,
       AfterOrWakeStep, FinalStep, LockTimeoutStep DEF Step
  <2>2. ASSUME NEW c \in Calls, NEW n \in 0 .. MaxAdvance, Call(c, n)  PROVE JInv'
    BY <1>1, <2>2, CallStep
  <2>3. CASE Cancel \/ Age \/ LockGoesStale
    BY <1>1, <2>3, CancelStep, AgeOrStaleStep
  <2>4. ASSUME NEW process \in Processes, Crash(process)  PROVE JInv'
    BY <1>1, <2>4, CrashStep
  <2>5. CASE UNCHANGED vars
    BY <1>1, <2>5, NothingChanges
  <2> QED  BY <1>1, <2>1, <2>2, <2>3, <2>4, <2>5 DEF Next
<1> QED  BY InitInv, <1>1, PTL DEF Spec

(* max_pages bounds the job whatever calls overlap: the second test, under   *)
(* the lock, is the one that counts. And no call goes below zero of its      *)
(* `advance`.                                                                *)
THEOREM LimitHolds == Spec => []PagesWithinLimit
<1>1. JInv => PagesWithinLimit
  BY DEF JInv, PagesWithinLimit
<1> QED  BY <1>1, JInvHolds, PTL

(* On every site, with any number of calls and crashes, a linked page is     *)
(* fetched once, and the start page twice at most.                           *)
THEOREM PagesFetchedOnce == Spec => []FetchedOnce
<1>1. JInv => FetchedOnce
  <2> SUFFICES ASSUME JInv PROVE FetchedOnce
    OBVIOUS
  <2>1. TypeOK /\ Entries /\ Tally
    BY DEF JInv
  <2>2. ASSUME NEW u \in Urls  PROVE Fetches(u) \in Nat /\ Seen(<<"key", u>>) \in {0, 1} /\ Seen(<<"url", u>>) \in {0, 1}
    BY <2>1, FetchesFacts DEF TypeOK, Seen
  <2>3. ASSUME NEW u \in Urls, u # Start  PROVE Fetches(u) <= 1
    <3>1. Seen(<<"url", u>>) = 0
      BY <2>1, <2>3 DEF Entries, Seen
    <3>2. Fetches(u) <= Seen(<<"key", u>>) + Seen(<<"url", u>>)
      BY <2>1, <2>3 DEF Tally
    <3> QED  BY <3>1, <3>2, <2>2
  <2>4. ~raw => Fetches(Start) <= 2
    <3>1. ASSUME ~raw  PROVE Fetches(Start) <= Seen(<<"key", Start>>) + Seen(<<"url", Start>>)
      BY <2>1, <3>1, CrawlAssumption DEF Tally
    <3>2. Start \in Urls
      BY CrawlAssumption
    <3> QED  BY <3>1, <3>2, <2>2
  <2> QED  BY <2>3, <2>4 DEF FetchedOnce
<1> QED  BY <1>1, JInvHolds, PTL

(* Nothing but a death between the two appends of a page loses a link. *)
THEOREM NoLinkIsLost == Spec => []LinksFollowed
<1>1. JInv => LinksFollowed
  BY DEF JInv
<1> QED  BY <1>1, JInvHolds, PTL

(* No step after the answer of crawl_cancel records a page, and no step      *)
(* changes a completed job: not even a late seed, since a job that could     *)
(* complete has a page or an entry.                                          *)
THEOREM EndIsFinal == Spec => EndedIsFinal
<1>1. ASSUME JInv, [Next]_vars
      PROVE  (cancelled => UNCHANGED pages) /\ (status = "completed" => UNCHANGED job)
  <2>1. TypeOK /\ Locked /\ Started /\ Closed
    BY <1>1 DEF JInv
  <2>2. ASSUME NEW c \in Calls, Step(c)
        PROVE  (cancelled => UNCHANGED pages) /\ (status = "completed" => UNCHANGED job)
    <3>1. CASE pc[c] \in {"fetch", "links"}
      <4>1. status \notin Sticky
        BY <2>1, <3>1 DEF Locked
      <4> QED  BY <4>1, <2>1 DEF Closed, Sticky
    <3>2. CASE pc[c] = "seed" /\ Seed(c)
      <4>1. UNCHANGED <<status, visited, pages>>
        BY <3>2 DEF Seed
      <4>2. status = "completed" => Seeded
        BY <2>1 DEF Started
      <4>3. Seeded => UNCHANGED <<queue, gone>>
        BY <3>2 DEF Seed, Seeded
      <4> QED  BY <4>1, <4>2, <4>3 DEF job
    <3>3. CASE pc[c] \notin {"fetch", "links"} /\ ~(pc[c] = "seed" /\ Seed(c))
      <4>1. UNCHANGED <<queue, gone, visited, pages>> /\ (status \in Sticky => status' = status)
        BY <2>2, <3>3
           DEF Step, Load, Expire, Seed, Promote, Page, FetchThrows, FetchReturns, QueueLinks, After,
               Wake, Final, LockTimeout, ApplyStatus, job
      <4> QED  BY <4>1 DEF job, Sticky
    <3> QED  BY <3>1, <3>2, <3>3
  <2>3. ASSUME NEW c \in Calls, NEW n \in 0 .. MaxAdvance, Call(c, n)  PROVE UNCHANGED job
    BY <2>3 DEF Call
  <2>4. CASE Cancel
    BY <2>4 DEF Cancel, ApplyStatus, Sticky, job
  <2>5. CASE Age \/ LockGoesStale
    BY <2>5 DEF Age, LockGoesStale, job
  <2>6. ASSUME NEW process \in Processes, Crash(process)  PROVE UNCHANGED job
    BY <2>6 DEF Crash
  <2>7. CASE UNCHANGED vars
    BY <2>7 DEF vars, job
  <2> QED  BY <1>1, <2>2, <2>3, <2>4, <2>5, <2>6, <2>7 DEF Next, job
<1> QED  BY <1>1, JInvHolds, PTL DEF Spec, EndedIsFinal
===============================================================================
