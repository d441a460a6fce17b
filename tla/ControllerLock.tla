---------------------------- MODULE ControllerLock ----------------------------
(***************************************************************************)
(* The controller lock of src/chrome/controller-lock.ts: a file, created   *)
(* with O_EXCL, that says which OpenChrome process owns the Chrome on a    *)
(* port. Contenders remove the lock of a dead owner, or of an owner whose  *)
(* Chrome is gone; the owner refreshes a heartbeat in the file.            *)
(*                                                                         *)
(* Processes share nothing but the file system and the debug port, so a    *)
(* step is one system call: open, read, truncate, write or unlink. A       *)
(* process creates the file at most once, so its name also stands for the  *)
(* inode it created (pid + startedAt). A process that was refused, has     *)
(* released or has died never comes back: a respawn is another process.    *)
(***************************************************************************)
EXTENDS Naturals, FiniteSets

CONSTANTS
  Procs,            (* OpenChrome processes configured for the same port    *)
  Nobody,           (* no process, and: no file at the path                 *)
  Remote,           (* the processes that run on the other host             *)
  TakeoverEnabled,  (* OPENCHROME_LOCK_HEALTH_TAKEOVER                      *)
  MaxTakeovers,     (* OPENCHROME_LOCK_MAX_TAKEOVERS                        *)
  MaxIterations     (* maxTakeovers + 8 in the code                         *)

ASSUME LockAssumption ==
  /\ Nobody \notin Procs
  /\ Remote \subseteq Procs
  /\ TakeoverEnabled \in {"on", "off"}
  /\ MaxTakeovers \in Nat
  /\ MaxIterations \in Nat

VARIABLES
  pc,         (* what each process does next                                *)
  linked,     (* the inode at the lock path                                 *)
  names,      (* the pid in each inode; Nobody: empty, JSON.parse fails     *)
  fresh,      (* inodes whose lastHeartbeatAt is within the grace period    *)
  seen,       (* the inode a process judged (err.owner) or has open (fd)    *)
  takeovers,  (* successful takeovers of a contender                        *)
  rounds,     (* iterations of its outer loop                               *)
  cdp         (* whether Chrome answers on the port                         *)

vars == <<pc, linked, names, fresh, seen, takeovers, rounds, cdp>>

Contending == {"open", "write", "read", "unlink", "probing", "recheck", "takeover"}

(* The owner as the process itself believes it, its heartbeat included. *)
Owning == {"held", "beatRead", "beatTruncate", "beatWrite", "releaseUnlink"}

Finished == {"refused", "gone", "dead"}

TypeOK ==
  /\ pc \in [Procs -> {"off"} \cup Contending \cup Owning \cup Finished]
  /\ linked \in Procs \cup {Nobody}
  /\ names \in [Procs -> Procs \cup {Nobody}]
  /\ fresh \in SUBSET Procs
  /\ seen \in [Procs -> Procs \cup {Nobody}]
  /\ takeovers \in [Procs -> 0 .. MaxTakeovers]
  /\ rounds \in [Procs -> 0 .. MaxIterations]
  /\ cdp \in {"up", "down"}

Init ==
  /\ pc = [p \in Procs |-> "off"]
  /\ linked = Nobody
  /\ names = [p \in Procs |-> Nobody]
  /\ fresh = {}
  /\ seen = [p \in Procs |-> Nobody]
  /\ takeovers = [p \in Procs |-> 0]
  /\ rounds = [p \in Procs |-> 0]
  /\ cdp = "down"

Goto(p, label) == pc' = [pc EXCEPT ![p] = label]

Alive(p) == pc[p] \notin {"off", "gone", "dead"}

SameHost(p, q) == p \in Remote <=> q \in Remote

(* readMetadata returns a record: the path exists and its content parses. *)
Readable == linked # Nobody /\ names[linked] # Nobody

(* isPidAlive(pid) evaluated by p. A pid of another host means nothing here: *)
(* some local process may or may not have it.                                *)
MayLookAlive(p, q) == SameHost(p, q) => Alive(q)
MayLookDead(p, q) == SameHost(p, q) => ~Alive(q)

-----------------------------------------------------------------------------
(* acquireControllerLock                                                     *)

Start(p) ==
  /\ pc[p] = "off"
  /\ Goto(p, "open")
  /\ UNCHANGED <<linked, names, fresh, seen, takeovers, rounds, cdp>>

(* openSync(lockPath, 'wx') succeeds: the file exists and is empty. *)
Create(p) ==
  /\ pc[p] = "open"
  /\ linked = Nobody
  /\ linked' = p
  /\ Goto(p, "write")
  /\ UNCHANGED <<names, fresh, seen, takeovers, rounds, cdp>>

(* writeFileSync(fd): the metadata reaches the inode, linked or not, and the *)
(* process has its handle.                                                   *)
Write(p) ==
  /\ pc[p] = "write"
  /\ names' = [names EXCEPT ![p] = p]
  /\ fresh' = fresh \cup {p}
  /\ Goto(p, "held")
  /\ UNCHANGED <<linked, seen, takeovers, rounds, cdp>>

(* openSync fails with EEXIST. *)
OpenExists(p) ==
  /\ pc[p] = "open"
  /\ linked # Nobody
  /\ Goto(p, "read")
  /\ UNCHANGED <<linked, names, fresh, seen, takeovers, rounds, cdp>>

(* Fault: an unreadable file is left in place and opened again. *)
FindUnreadableRetry(p) ==
  /\ pc[p] = "read"
  /\ ~Readable
  /\ Goto(p, "open")
  /\ UNCHANGED <<linked, names, fresh, seen, takeovers, rounds, cdp>>

(* readMetadata returns null: missing or malformed, to be removed. *)
FindUnreadable(p) ==
  /\ pc[p] = "read"
  /\ ~Readable
  /\ Goto(p, "unlink")
  /\ UNCHANGED <<linked, names, fresh, seen, takeovers, rounds, cdp>>

(* The pid in the file is not alive: a stale lock, to be removed. *)
FindDead(p) ==
  /\ pc[p] = "read"
  /\ Readable
  /\ MayLookDead(p, names[linked])
  /\ Goto(p, "unlink")
  /\ UNCHANGED <<linked, names, fresh, seen, takeovers, rounds, cdp>>

(* unlinkSync removes whatever is at the path by now; ENOENT is ignored. *)
Unlink(p) ==
  /\ pc[p] = "unlink"
  /\ linked' = Nobody
  /\ Goto(p, "open")
  /\ UNCHANGED <<names, fresh, seen, takeovers, rounds, cdp>>

-----------------------------------------------------------------------------
(* acquireControllerLockWithHealthCheck, on a DuplicateControllerError       *)

(* Fault: the duplicate error is always final, as before health checks. *)
RefusesAlways(p, q) == TRUE

(* The error goes to the caller before any probe: kill switch, other host,   *)
(* heartbeat within the grace period, or the last attempt after the loop.    *)
Refuses(p, q) ==
  \/ TakeoverEnabled = "off"
  \/ ~SameHost(p, q)
  \/ linked \in fresh
  \/ rounds[p] = MaxIterations

(* Reads the file of a live owner: DuplicateControllerError. *)
FindAlive(p) ==
  /\ pc[p] = "read"
  /\ Readable
  /\ MayLookAlive(p, names[linked])
  /\ IF Refuses(p, names[linked])
     THEN Goto(p, "refused") /\ UNCHANGED seen
     ELSE Goto(p, "probing") /\ seen' = [seen EXCEPT ![p] = linked]
  /\ UNCHANGED <<linked, names, fresh, takeovers, rounds, cdp>>

(* probeOwnerHealthy: any attempt that is answered refuses; only when the    *)
(* last one is not does the contender go on, if it has takeovers left. The   *)
(* attempts before the last that fail change nothing.                        *)
Probe(p) ==
  /\ pc[p] = "probing"
  /\ Goto(p, IF cdp = "up" \/ takeovers[p] >= MaxTakeovers THEN "refused" ELSE "recheck")
  /\ UNCHANGED <<linked, names, fresh, seen, takeovers, rounds, cdp>>

(* Fault: a lock that changed underneath also ends the attempt for good,     *)
(* with the iteration counter past its ceiling.                              *)
NextRoundTwice(p, taken) ==
  /\ takeovers' = [takeovers EXCEPT ![p] = @ + taken]
  /\ rounds' = [rounds EXCEPT ![p] = @ + 2]
  /\ Goto(p, "open")

(* The next iteration of the outer loop. *)
NextRound(p, taken) ==
  /\ takeovers' = [takeovers EXCEPT ![p] = @ + taken]
  /\ rounds' = [rounds EXCEPT ![p] = @ + 1]
  /\ Goto(p, "open")

(* unlinkStaleLock reads the file again: gone or malformed counts as taken   *)
(* over, another owner sends the contender back.                             *)
Recheck(p) ==
  /\ pc[p] = "recheck"
  /\ \/ ~Readable /\ NextRound(p, 1)
     \/ Readable /\ linked # seen[p] /\ NextRound(p, 0)
     \/ /\ Readable /\ linked = seen[p]
        /\ Goto(p, "takeover")
        /\ UNCHANGED <<takeovers, rounds>>
  /\ UNCHANGED <<linked, names, fresh, seen, cdp>>

(* ... and removes whatever is at the path by now. *)
TakeoverUnlink(p) ==
  /\ pc[p] = "takeover"
  /\ linked' = Nobody
  /\ NextRound(p, 1)
  /\ UNCHANGED <<names, fresh, seen, cdp>>

-----------------------------------------------------------------------------
(* recordControllerHeartbeat, when the owner's own probe was answered        *)

BeatOpen(p) ==
  /\ pc[p] = "held"
  /\ cdp = "up"
  /\ linked # Nobody
  /\ seen' = [seen EXCEPT ![p] = linked]
  /\ Goto(p, "beatRead")
  /\ UNCHANGED <<linked, names, fresh, takeovers, rounds, cdp>>

(* The pid guard: another owner's file, or one that does not parse, is left. *)
BeatRead(p) ==
  /\ pc[p] = "beatRead"
  /\ Goto(p, IF names[seen[p]] = p THEN "beatTruncate" ELSE "held")
  /\ UNCHANGED <<linked, names, fresh, seen, takeovers, rounds, cdp>>

BeatTruncate(p) ==
  /\ pc[p] = "beatTruncate"
  /\ names' = [names EXCEPT ![seen[p]] = Nobody]
  /\ Goto(p, "beatWrite")
  /\ UNCHANGED <<linked, fresh, seen, takeovers, rounds, cdp>>

(* Fault: the update goes to the path and not to the open descriptor. *)
BeatWriteToPath(p) ==
  /\ pc[p] = "beatWrite"
  /\ IF linked = Nobody
     THEN linked' = p /\ names' = [names EXCEPT ![p] = p]
     ELSE UNCHANGED linked /\ names' = [names EXCEPT ![linked] = p]
  /\ fresh' = fresh \cup {p}
  /\ Goto(p, "held")
  /\ UNCHANGED <<seen, takeovers, rounds, cdp>>

BeatWrite(p) ==
  /\ pc[p] = "beatWrite"
  /\ names' = [names EXCEPT ![seen[p]] = p]
  /\ fresh' = fresh \cup {seen[p]}
  /\ Goto(p, "held")
  /\ UNCHANGED <<linked, seen, takeovers, rounds, cdp>>

-----------------------------------------------------------------------------
(* releaseControllerLock, then the process ends                              *)

ReleaseRead(p) ==
  /\ pc[p] = "held"
  /\ Goto(p, IF Readable /\ names[linked] # p THEN "gone" ELSE "releaseUnlink")
  /\ UNCHANGED <<linked, names, fresh, seen, takeovers, rounds, cdp>>

ReleaseUnlink(p) ==
  /\ pc[p] = "releaseUnlink"
  /\ linked' = Nobody
  /\ Goto(p, "gone")
  /\ UNCHANGED <<names, fresh, seen, takeovers, rounds, cdp>>

-----------------------------------------------------------------------------
(* The world: crashes, time and Chrome                                       *)

Crash(p) ==
  /\ Alive(p)
  /\ pc[p] # "refused"
  /\ Goto(p, "dead")
  /\ UNCHANGED <<linked, names, fresh, seen, takeovers, rounds, cdp>>

(* The grace period of an inode's last heartbeat runs out. *)
GraceExpires(p) ==
  /\ p \in fresh
  /\ fresh' = fresh \ {p}
  /\ UNCHANGED <<pc, linked, names, seen, takeovers, rounds, cdp>>

(* Chrome is launched by a process that believes it owns the port. *)
ChromeUp ==
  /\ cdp = "down"
  /\ \E p \in Procs : pc[p] \in Owning
  /\ cdp' = "up"
  /\ UNCHANGED <<pc, linked, names, fresh, seen, takeovers, rounds>>

ChromeDown ==
  /\ cdp = "up"
  /\ cdp' = "down"
  /\ UNCHANGED <<pc, linked, names, fresh, seen, takeovers, rounds>>

-----------------------------------------------------------------------------

(* The steps that follow from what a process has begun. *)
Continue(p) ==
  \/ Create(p) \/ Write(p) \/ OpenExists(p)
  \/ FindUnreadable(p) \/ FindDead(p) \/ Unlink(p) \/ FindAlive(p)
  \/ Probe(p) \/ Recheck(p) \/ TakeoverUnlink(p)
  \/ BeatRead(p) \/ BeatTruncate(p) \/ BeatWrite(p)
  \/ ReleaseUnlink(p)

Next ==
  \/ \E p \in Procs :
       \/ Start(p) \/ Continue(p) \/ BeatOpen(p) \/ ReleaseRead(p)
       \/ Crash(p) \/ GraceExpires(p)
  \/ ChromeUp
  \/ ChromeDown

Spec == Init /\ [][Next]_vars

(* A process that is in the middle of a call is scheduled until it crashes. *)
FairSpec == Spec /\ \A p \in Procs : WF_vars(Continue(p))

-----------------------------------------------------------------------------
(* Properties                                                                *)

(* A stale owner never resurrects a lock it no longer holds: what a lock     *)
(* file says about its owner is either nothing or the process that created   *)
(* it, however heartbeats, takeovers and releases overlap                    *)
(* (recordControllerHeartbeat).                                              *)
NeverResurrected ==
  \A p \in Procs : names[p] \in {p, Nobody}

(* A contender is never left spinning: every acquisition ends in a handle,   *)
(* in a refusal or with the process, although acquireControllerLock retries  *)
(* without a bound.                                                          *)
Decides ==
  \A p \in Procs : pc[p] \in Contending ~> pc[p] \notin Contending

(* p contends alone against q, alive, whose Chrome and heartbeat are gone.   *)
FacesHalfZombie(p, q) ==
  /\ p # q
  /\ pc[p] = "open" /\ takeovers[p] = 0
  /\ pc[q] = "held" /\ linked = q /\ q \notin fresh
  /\ cdp = "down"
  /\ \A r \in Procs \ {p, q} : pc[r] \in Finished

(* No owner locks the port for ever. Whatever a crashed one left behind (an  *)
(* empty file, a truncated one, a full one), the last process standing gets  *)
(* the lock; and a half-zombie is taken over, unless Chrome comes back       *)
(* (comment on acquireControllerLockWithHealthCheck).                        *)
StuckOwnerReplaced ==
  /\ \A p \in Procs :
       /\ pc[p] = "open"
       /\ \A q \in Procs \ {p} : pc[q] \in {"gone", "dead"}
       ~> pc[p] \in Owning \cup {"gone", "dead"}
  /\ \A p, q \in Procs :
       FacesHalfZombie(p, q) ~> pc[p] \in Owning \cup {"gone", "dead"} \/ cdp = "up"

(* q serves a reachable Chrome and its lock file is in place. *)
Healthy(q) == pc[q] \in Owning \ {"releaseUnlink"} /\ linked = q /\ cdp = "up"

(* "A genuinely healthy owner is never evicted": no contender judges the     *)
(* lock of a healthy owner to be removable.                                  *)
HealthyOwnerNeverCondemned ==
  [][\A p, q \in Procs :
       Healthy(q) /\ p # q /\ pc[p] = "read" => pc'[p] # "unlink"]_vars

(* "An atomic compare-and-unlink takeover": the lock a takeover removes is   *)
(* the one it compared, never that of a new owner.                           *)
TakeoverSparesNewOwner ==
  [][\A p \in Procs :
       pc[p] = "takeover" /\ pc'[p] = "open" => linked \in {seen[p], Nobody}]_vars

(* "A shared lock directory across machines is never raced cross-host": a    *)
(* process never removes the lock of a live owner on the other host that     *)
(* holds a complete, fresh lock file.                                        *)
CrossHostNeverRaced ==
  [][\A p, q \in Procs :
       /\ ~SameHost(p, q) /\ pc[p] = "read"
       /\ pc[q] = "held" /\ linked = q /\ q \in fresh
       => pc'[p] # "unlink"]_vars

===============================================================================
