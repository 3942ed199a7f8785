----------------------------- MODULE SessionLock -----------------------------
(***************************************************************************)
(* The write lock of one session transcript: the kernel lock on the        *)
(* transcript itself (the guard), the claim record beside it, and every    *)
(* program path that takes, probes or cleans up either.  A step is one     *)
(* file operation; between two of them another process may run, or this    *)
(* one may be killed.                                                      *)
(***************************************************************************)
EXTENDS Naturals

CONSTANTS
  Actors,    (* the doors of every terva process: each runs one operation      *)
  Processes,
  ProcessOf, (* the process a door belongs to                                  *)
  None,
  Ops,       (* the operations in use                                          *)
  Faults,    (* "disk": a claim or a row may fail to be written; "unlink": a   *)
             (* file may fail to be removed; "kill": processes die             *)
  MaxRows    (* how many message rows are ever written                         *)

ASSUME LockAssumption ==
  /\ ProcessOf \in [Actors -> Processes] /\ None \notin Actors
  /\ MaxRows \in Nat

VARIABLES
  pc,        (* where each actor is                                            *)
  h,         (* what it knows                                                  *)
  file,      (* the transcript: "none", "linked" at its path, or "gone"        *)
  rows,      (* the message rows in it                                         *)
  guard,     (* who holds the kernel lock on it                                *)
  rec,       (* the claim record, or NoRecord                                  *)
  killed     (* the processes that died                                        *)

vars == <<pc, h, file, rows, guard, rec, killed>>

NoRecord == [kind |-> "none", by |-> None, life |-> "lapsed"]
Claim(a, k) == [kind |-> k, by |-> a, life |-> "fresh"]

(* An actor's operation, the rows its process has read or written, how     *)
(* many of them it wrote itself, and what its last acquire was refused for. *)
Idle == [op |-> "none", seen |-> 0, wrote |-> 0, cause |-> "none"]

(* The record a lock takes: `terva session lock` makes an explicit claim. *)
KindOf(a) == IF h[a].op = "lock" THEN "explicit" ELSE "auto"
Alive(a)  == ProcessOf[a] \notin killed

Init == /\ pc = [a \in Actors |-> "idle"] /\ h = [a \in Actors |-> Idle]
        /\ file = IF "new" \in Ops THEN "none" ELSE "linked"
        /\ rows = 0 /\ guard = None /\ rec = NoRecord /\ killed = {}

(* os.Remove on the record and on the transcript. *)
Cleared  == IF "unlink" \in Faults THEN {NoRecord, rec} ELSE {NoRecord}
Unlinked == IF "unlink" \in Faults THEN {"gone", "linked"} ELSE {"gone"}

At(a, p)    == pc[a] = p
Goto(a, p)  == pc' = [pc EXCEPT ![a] = p]
Done(a)     == Goto(a, "idle") /\ h' = [h EXCEPT ![a] = Idle]
Start(a, o, p) ==
  /\ o \in Ops /\ At(a, "idle") /\ Goto(a, p)
  /\ h' = [h EXCEPT ![a] = [Idle EXCEPT !.op = o, !.seen = IF o = "open" THEN rows ELSE 0]]
(* A refused creator removes what it created; the others report the cause. *)
Refuse(a, c) ==
  IF h[a].op = "new" THEN Goto(a, "abandon") /\ UNCHANGED h
  ELSE Goto(a, "idle") /\ h' = [h EXCEPT ![a] = [Idle EXCEPT !.cause = c]]

(***************************************************************************)
(* How each operation begins.                                              *)
(***************************************************************************)
(* newSessionAt: O_EXCL makes the transcript, then locks it. *)
New(a) == /\ file = "none" /\ Start(a, "new", "probe")
          /\ file' = "linked"
          /\ UNCHANGED <<rows, guard, rec, killed>>

(* openSession folds the whole transcript before it asks for the lock. *)
Replay(a) == /\ file = "linked" /\ Start(a, "open", "probe")
             /\ UNCHANGED <<file, rows, guard, rec, killed>>

(* ClaimSession and UnlockSession, from the command line. *)
ClaimSession(a) == /\ file = "linked" /\ Start(a, "lock", "probe")
                   /\ UNCHANGED <<file, rows, guard, rec, killed>>
UnlockSession(a) ==
  /\ Start(a, "unlock", IF file = "linked" THEN "probe" ELSE "sweep")
  /\ UNCHANGED <<file, rows, guard, rec, killed>>

(* PruneEmptySessions: a transcript with no message, or a record without one. *)
Prune(a) == /\ \/ file = "linked" /\ rows = 0 /\ Start(a, "prune", "probe")
               \/ file # "linked" /\ rec # NoRecord /\ Start(a, "prune", "sweep")
            /\ UNCHANGED <<file, rows, guard, rec, killed>>

ArchiveSession(a) == /\ file = "linked" /\ Start(a, "archive", "probe")
                     /\ UNCHANGED <<file, rows, guard, rec, killed>>

(* Workspace.DeleteSession closes what its own process has open, and asks   *)
(* no lock.                                                                *)
DeleteSession(a) ==
  /\ file = "linked" /\ Start(a, "delete", "unlink")
  /\ \A b \in Actors \ {a} : ProcessOf[b] = ProcessOf[a] =>
       pc[b] \notin {"open", "drop", "readback", "erase", "tidy"}
  /\ UNCHANGED <<file, rows, guard, rec, killed>>

(***************************************************************************)
(* Acquire, and the probes that share its lock.                            *)
(***************************************************************************)
(* lockTranscript opens the transcript; a missing one is an error, except  *)
(* that IsHeld answers free for it.                                        *)
Probe(a) ==
  /\ At(a, "probe")
  /\ \/ file = "linked" /\ Goto(a, "flock") /\ UNCHANGED h
     \/ file # "linked" /\ h[a].op = "prune" /\ Goto(a, "unlink") /\ UNCHANGED h
     \/ file # "linked" /\ h[a].op = "new" /\ Goto(a, "abandon") /\ UNCHANGED h
     \/ file # "linked" /\ h[a].op \notin {"new", "prune"} /\ Done(a)
  /\ UNCHANGED <<file, rows, guard, rec, killed>>

Locked(a) == Goto(a, CASE h[a].op \in {"new", "open", "lock"} -> "judge"
                       [] h[a].op = "unlock" -> "unclaim"
                       [] OTHER -> "unprobe")

(* Mutants: contention read as success; a claim made without the guard.    *)
FlockBusyIsFree(a) ==
  /\ At(a, "flock")
  /\ guard' = a /\ Locked(a)
  /\ UNCHANGED <<h, file, rows, rec, killed>>
FlockNotForClaims(a) ==
  /\ At(a, "flock")
  /\ IF guard # None /\ h[a].op # "lock"
     THEN Refuse(a, "live") /\ UNCHANGED guard
     ELSE guard' = (IF guard = None THEN a ELSE guard) /\ Locked(a) /\ UNCHANGED h
  /\ UNCHANGED <<file, rows, rec, killed>>

(* filelock.TryLockFile. *)
Flock(a) ==
  /\ At(a, "flock")
  /\ \/ guard # None /\ Refuse(a, "live") /\ UNCHANGED guard
     \/ guard = None /\ guard' = a /\ Locked(a) /\ UNCHANGED h
  /\ UNCHANGED <<file, rows, rec, killed>>

(* Mutant: an explicit claim is judged by a heartbeat, which it never has. *)
ExplicitBindsWhileFresh == rec.kind = "explicit" /\ rec.life = "fresh"

(* refuseByRecord: an explicit claim binds until it lapses; an automatic   *)
(* one only if its process lives and its heartbeat is fresh.               *)
ExplicitBinds == rec.kind = "explicit" /\ rec.life # "lapsed"
LooksLive(a) == /\ rec.kind = "auto" /\ rec.life = "fresh"
                /\ ProcessOf[rec.by] # ProcessOf[a] /\ Alive(rec.by)

(* Mutant: a refusal by the record forgets the guard it has taken.         *)
JudgeKeepsGuard(a) ==
  /\ At(a, "judge")
  /\ \/ (ExplicitBinds \/ LooksLive(a)) /\ Refuse(a, "explicit")
     \/ ~ExplicitBinds /\ ~LooksLive(a) /\ Goto(a, "stamp") /\ UNCHANGED h
  /\ UNCHANGED <<file, rows, guard, rec, killed>>

(* A refusal gives the guard back. *)
Judge(a) ==
  /\ At(a, "judge")
  /\ \/ ExplicitBinds /\ Refuse(a, "explicit") /\ guard' = None
     \/ LooksLive(a) /\ Refuse(a, "unflocked") /\ guard' = None
     \/ ~ExplicitBinds /\ ~LooksLive(a) /\ Goto(a, "stamp") /\ UNCHANGED <<h, guard>>
  /\ UNCHANGED <<file, rows, rec, killed>>

(* writeClaim: whatever record was there is replaced. *)
Stamp(a) ==
  /\ At(a, "stamp")
  /\ \/ /\ rec' = Claim(a, KindOf(a))
        /\ Goto(a, CASE h[a].op = "new" -> "open" [] h[a].op = "open" -> "handle"
                     [] OTHER -> "drop")
        /\ UNCHANGED <<h, guard>>
     \/ /\ "disk" \in Faults /\ Refuse(a, "none") /\ guard' = None
        /\ UNCHANGED rec
  /\ UNCHANGED <<file, rows, killed>>

(* Mutant: the error return forgets to release what was acquired.          *)
OpenHandleLeaky(a) ==
  /\ At(a, "handle")
  /\ \/ file = "linked" /\ Goto(a, "open") /\ UNCHANGED <<h, guard>>
     \/ file # "linked" /\ Done(a) /\ guard' = None
  /\ UNCHANGED <<file, rows, rec, killed>>

(* The append handle comes last; without a transcript the lock is released. *)
OpenHandle(a) ==
  /\ At(a, "handle")
  /\ Goto(a, IF file = "linked" THEN "open" ELSE "drop")
  /\ UNCHANGED <<h, file, rows, guard, rec, killed>>

(* A row, and the heartbeat it carries once an interval has passed. *)
Append(a) ==
  /\ At(a, "open") /\ rows < MaxRows
  /\ rows' = rows + 1
  /\ h' = [h EXCEPT ![a].seen = @ + 1, ![a].wrote = @ + 1]
  /\ rec' \in {rec, Claim(a, "auto")}
  /\ UNCHANGED <<pc, file, guard, killed>>

(***************************************************************************)
(* Session.Close, Handle.Release and the cleanups.                         *)
(***************************************************************************)
CloseWriter(a) == /\ At(a, "open") /\ Goto(a, "drop")
                  /\ UNCHANGED <<h, file, rows, guard, rec, killed>>

(* The guard goes first; an explicit record is left alone. *)
DropGuard(a) ==
  /\ At(a, "drop")
  /\ guard' = None
  /\ \/ h[a].op = "lock" /\ Done(a)
     \/ h[a].op # "lock" /\ Goto(a, "readback") /\ UNCHANGED h
  /\ UNCHANGED <<file, rows, rec, killed>>

(* Is the record still ours?  Two claims of one process made within the    *)
(* same second look the same.                                              *)
ReadBack(a) ==
  /\ At(a, "readback")
  /\ \/ /\ rec = NoRecord \/ (rec.kind = "auto" /\ ProcessOf[rec.by] = ProcessOf[a])
        /\ Goto(a, "erase")
     \/ /\ rec # NoRecord /\ (rec.kind = "explicit" \/ rec.by # a)
        /\ Goto(a, "tidy")
  /\ UNCHANGED <<h, file, rows, guard, rec, killed>>

Erase(a) == /\ At(a, "erase") /\ rec' \in Cleared /\ Goto(a, "tidy")
            /\ UNCHANGED <<h, file, rows, guard, killed>>

(* A session created here that never got a message takes its file along,   *)
(* unless a row failed to be written: so too when it was its first row, and *)
(* newSessionAt itself lets go.                                            *)
Tidy(a) ==
  /\ At(a, "tidy")
  /\ \/ h[a].op = "new" /\ h[a].wrote = 0 /\ Goto(a, "unlink") /\ UNCHANGED h
     \/ (~(h[a].op = "new" /\ h[a].wrote = 0) \/ "disk" \in Faults) /\ Done(a)
  /\ UNCHANGED <<file, rows, guard, rec, killed>>

(* IsHeld gives back the lock it took; what follows holds nothing. *)
Unprobe(a) == /\ At(a, "unprobe") /\ guard' = None /\ Goto(a, "unlink")
              /\ UNCHANGED <<h, file, rows, rec, killed>>

(* Only archiving minds that the transcript is gone already (gzipFile); it *)
(* and a delete mind that it stays, and go no further.                     *)
Unlink(a) ==
  LET minded == \/ h[a].op = "archive" /\ file # "linked"
                \/ h[a].op \in {"archive", "delete"} /\ file' = "linked"
  IN /\ At(a, "unlink")
     /\ file' \in (IF file = "linked" THEN Unlinked ELSE {file})
     /\ IF minded THEN Done(a) ELSE Goto(a, "sweep") /\ UNCHANGED h
     /\ UNCHANGED <<rows, guard, rec, killed>>

(* RemoveArtifacts. *)
Sweep(a) == /\ At(a, "sweep") /\ rec' \in Cleared /\ Done(a)
            /\ UNCHANGED <<file, rows, guard, killed>>

(* Unlock removes the record while it holds the guard ... *)
Unclaim(a) == /\ At(a, "unclaim") /\ rec' \in Cleared /\ Goto(a, "unguard")
              /\ UNCHANGED <<h, file, rows, guard, killed>>
(* ... and then lets go. *)
Unguard(a) == /\ At(a, "unguard") /\ guard' = None /\ Done(a)
              /\ UNCHANGED <<file, rows, rec, killed>>

(* newSessionAt, refused: the path is removed, whoever opened it since. *)
Abandon(a) == /\ At(a, "abandon") /\ Done(a)
              /\ IF file = "linked" THEN file' \in Unlinked ELSE UNCHANGED file
              /\ UNCHANGED <<rows, guard, rec, killed>>

(***************************************************************************)
(* The environment.                                                        *)
(***************************************************************************)
(* The kernel drops a dead process's locks; its record stays. *)
Kill(p) ==
  /\ "kill" \in Faults /\ p \notin killed
  /\ killed' = killed \cup {p}
  /\ pc' = [a \in Actors |-> IF ProcessOf[a] = p THEN "dead" ELSE pc[a]]
  /\ h' = [a \in Actors |-> IF ProcessOf[a] = p THEN Idle ELSE h[a]]
  /\ guard' = IF guard # None /\ ProcessOf[guard] = p THEN None ELSE guard
  /\ UNCHANGED <<file, rows, rec>>

(* Three beats pass, then the whole time to live. *)
Age == /\ rec.life # "lapsed"
       /\ rec' = [rec EXCEPT !.life = IF @ = "fresh" THEN "stale" ELSE "lapsed"]
       /\ UNCHANGED <<pc, h, file, rows, guard, killed>>

Begin(a) == \/ New(a) \/ Replay(a) \/ ClaimSession(a) \/ UnlockSession(a)
            \/ Prune(a) \/ ArchiveSession(a) \/ DeleteSession(a)
Acquire(a) == Probe(a) \/ Flock(a) \/ Judge(a) \/ Stamp(a) \/ OpenHandle(a)
Release(a) == CloseWriter(a) \/ DropGuard(a) \/ ReadBack(a) \/ Erase(a) \/ Tidy(a)
Clean(a) == Unprobe(a) \/ Unlink(a) \/ Sweep(a) \/ Unclaim(a) \/ Unguard(a) \/ Abandon(a)

Next == \/ \E a \in Actors : Begin(a) \/ Acquire(a) \/ Append(a) \/ Release(a) \/ Clean(a)
        \/ \E p \in Processes : Kill(p)
        \/ Age

Spec == Init /\ [][Next]_vars

(* A process that lives goes on, and whoever has a session open closes it. *)
FairSpec == Spec /\ \A a \in Actors : WF_vars(Acquire(a) \/ Release(a) \/ Clean(a))

(***************************************************************************)
(* Properties.                                                             *)
(***************************************************************************)
Places == {"idle", "dead", "probe", "flock", "judge", "stamp", "handle", "open",
           "drop", "readback", "erase", "tidy", "unprobe", "unlink", "sweep",
           "unclaim", "unguard", "abandon"}
Operations == {"new", "open", "lock", "unlock", "prune", "archive", "delete"}

(* Every variable has its type. *)
TypeOK ==
  /\ pc \in [Actors -> Places]
  /\ h \in [Actors -> [op : Operations \cup {"none"}, seen : Nat, wrote : Nat,
                       cause : {"none", "live", "unflocked", "explicit"}]]
  /\ file \in {"none", "linked", "gone"} /\ rows \in Nat
  /\ guard \in Actors \cup {None}
  /\ rec \in {NoRecord} \cup [kind : {"auto", "explicit"}, by : Actors,
                              life : {"fresh", "stale", "lapsed"}]
  /\ killed \in SUBSET Processes

(* Two terva processes never write one transcript at the same time, through *)
(* kills, claims, sweeps and failed opens.                                 *)
OneWriter == \A a, b \in Actors : pc[a] = "open" /\ pc[b] = "open" => a = b

(* The record beside a session somebody writes to may be missing, but it   *)
(* never names anybody else: a refusal shows the real holder.              *)
NamesHolder ==
  \A a \in Actors : pc[a] = "open" /\ rec # NoRecord => rec.by = a /\ rec.kind = "auto"

(* Where an actor still answers for the automatic record it wrote. *)
Answering == {"handle", "open", "drop", "readback", "erase"}
(* An automatic record that names a living process is about a session that *)
(* process still has: nobody is refused for a holder that let go, where    *)
(* records can be removed.                                                 *)
NothingLeft ==
  (rec.kind = "auto" /\ Alive(rec.by)) => pc[rec.by] \in Answering

Deliberate == rec.kind = "explicit" /\ rec.life \in {"fresh", "stale"}

(* A claim somebody made deliberately is never replaced before it lapses:  *)
(* what refuseByRecord read still holds when the new record is written.    *)
ClaimHonoured ==
  [][Deliberate => rec' = NoRecord \/ (rec'.kind = "explicit" /\ rec'.by = rec.by)]_vars

(* No refusal, failed write, missing transcript or death keeps the guard:  *)
(* it comes free again and again.                                          *)
GuardFreed == []<>(guard = None)

(* "Only Unlock, or the expiry, ends one": a claim does not disappear with *)
(* somebody else's automatic lock.                                         *)
ClaimOutlives ==
  [][Deliberate /\ rec' = NoRecord => \E a \in Actors : h[a].op = "unlock" /\ pc'[a] # pc[a]]_vars

(* A writer's memory is the transcript on disk, so that the indices of its *)
(* amend rows are counted against what the next reader folds.              *)
InSync == \A a \in Actors : pc[a] = "open" => h[a].seen = rows

(* No daemon goes on writing to an unlinked file.                          *)
WritesAreReachable == (\E a \in Actors : pc[a] = "open") => file = "linked"

(* "CauseLiveHandle: the flock is held, so a process has this session open". *)
BusyMeansOpen ==
  [][\A a \in Actors : h[a].cause # "live" /\ h'[a].cause = "live" =>
       guard # None /\ h[guard].op \in {"new", "open", "lock"}]_vars

(* "On a filesystem that honours locks this cannot happen". *)
NeverUnflocked == \A a \in Actors : h[a].cause # "unflocked"
=============================================================================
