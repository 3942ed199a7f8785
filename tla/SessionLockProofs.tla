-------------------------- MODULE SessionLockProofs --------------------------
(***************************************************************************)
(* For any number of processes: one writer at a time, a record that names  *)
(* nobody but that writer, and deliberate claims that are never replaced.  *)
(* Where records can be removed, none of a session that ended is left.     *)
(***************************************************************************)
EXTENDS SessionLock, TLAPS

(* Where an actor holds the guard. *)
Guarding == {"judge", "stamp", "handle", "open", "drop", "unclaim", "unguard", "unprobe"}

(* The places tie the guard, the operation and the record together: nobody *)
(* but the guard's holder writes a record, so what "judge" saw of it is    *)
(* still so at "stamp", and what "stamp" wrote is still so at "open".      *)
LockInv ==
  /\ TypeOK
  /\ \A a \in Actors : pc[a] \in Guarding => guard = a
  /\ \A a \in Actors : pc[a] \in {"handle", "open"} =>
       rec = NoRecord \/ (rec.by = a /\ rec.kind = "auto")
  /\ \A a \in Actors : pc[a] = "stamp" => ~Deliberate

(* Nothing holds the lock at first. *)
LEMMA LockInvInit == ASSUME LockAssumption, Init PROVE LockInv
BY DEF LockAssumption, Init, LockInv, TypeOK, Places, Operations, Idle, Guarding, NoRecord,
       Deliberate

(* The first steps of an operation touch neither the guard nor the record. *)
LEMMA BeginStep ==
  ASSUME LockAssumption, LockInv, NEW a \in Actors, Begin(a)
  PROVE  LockInv'
<1> USE DEF LockAssumption, LockInv, TypeOK, Places, Operations, Idle, Guarding,
            Deliberate, Start, At, Goto
<1>1. CASE New(a)
  BY <1>1 DEF New
<1>2. CASE Replay(a)
  BY <1>2 DEF Replay
<1>3. CASE ClaimSession(a)
  BY <1>3 DEF ClaimSession
<1>4. CASE UnlockSession(a)
  BY <1>4 DEF UnlockSession
<1>5. CASE Prune(a)
  <2>1. CASE Start(a, "prune", "probe") /\ UNCHANGED <<file, rows, guard, rec, killed>>
    BY <2>1
  <2>2. CASE Start(a, "prune", "sweep") /\ UNCHANGED <<file, rows, guard, rec, killed>>
    BY <2>2
  <2>3. QED
    BY <1>5, <2>1, <2>2 DEF Prune
<1>6. CASE ArchiveSession(a)
  BY <1>6 DEF ArchiveSession
<1>7. CASE DeleteSession(a)
  BY <1>7 DEF DeleteSession
<1>8. QED
  BY <1>1, <1>2, <1>3, <1>4, <1>5, <1>6, <1>7 DEF Begin

(* Acquiring: the guard is taken only when free, the record written under it. *)
LEMMA AcquireStep ==
  ASSUME LockAssumption, LockInv, NEW a \in Actors, Acquire(a)
  PROVE  LockInv'
<1> USE DEF LockAssumption, LockInv, TypeOK, Places, Operations, Idle, Guarding,
            Deliberate, At, Goto, Done, Refuse
<1>1. CASE Probe(a)
  <2>1. CASE pc' = [pc EXCEPT ![a] = "flock"] /\ UNCHANGED h
    BY <1>1, <2>1 DEF Probe
  <2>2. CASE pc' = [pc EXCEPT ![a] = "unlink"] /\ UNCHANGED h
    BY <1>1, <2>2 DEF Probe
  <2>3. CASE pc' = [pc EXCEPT ![a] = "abandon"] /\ UNCHANGED h
    BY <1>1, <2>3 DEF Probe
  <2>4. CASE Done(a)
    BY <1>1, <2>4 DEF Probe
  <2>5. QED
    BY <1>1, <2>1, <2>2, <2>3, <2>4 DEF Probe
<1>2. CASE Flock(a)
  <2>1. CASE Refuse(a, "live") /\ UNCHANGED <<guard, file, rows, rec, killed>>
    <3>1. CASE pc' = [pc EXCEPT ![a] = "abandon"] /\ UNCHANGED h
      BY <2>1, <3>1
    <3>2. CASE pc' = [pc EXCEPT ![a] = "idle"] /\ h' = [h EXCEPT ![a] = [Idle EXCEPT !.cause = "live"]]
      BY <2>1, <3>2
    <3>3. QED
      BY <2>1, <3>1, <3>2
  <2>2. CASE guard = None /\ guard' = a /\ Locked(a) /\ UNCHANGED <<h, file, rows, rec, killed>>
    BY <1>2, <2>2 DEF Flock, Locked
  <2>3. QED
    BY <1>2, <2>1, <2>2 DEF Flock
<1>3. CASE Judge(a)
  <2>1. guard = a
    BY <1>3 DEF Judge
  <2>2. ASSUME NEW c \in {"explicit", "unflocked"}, Refuse(a, c), guard' = None,
               UNCHANGED <<file, rows, rec, killed>>
        PROVE  LockInv'
    <3>1. \A b \in Actors \ {a} : pc[b] \notin Guarding
      BY <2>1
    <3>2. CASE pc' = [pc EXCEPT ![a] = "abandon"] /\ UNCHANGED h
      BY <2>2, <3>1, <3>2
    <3>3. CASE pc' = [pc EXCEPT ![a] = "idle"] /\ h' = [h EXCEPT ![a] = [Idle EXCEPT !.cause = c]]
      BY <2>2, <3>1, <3>3
    <3>4. QED
      BY <2>2, <3>2, <3>3
  <2>3. CASE /\ ~ExplicitBinds /\ pc' = [pc EXCEPT ![a] = "stamp"]
             /\ UNCHANGED <<h, guard, file, rows, rec, killed>>
    BY <2>1, <2>3 DEF ExplicitBinds
  <2>4. QED
    BY <1>3, <2>2, <2>3 DEF Judge
<1>4. CASE Stamp(a)
  <2>1. CASE rec' = Claim(a, KindOf(a)) /\ UNCHANGED <<h, guard, file, rows, killed>>
    <3>1. guard = a
      BY <1>4 DEF Stamp
    <3>2. rec' \in [kind : {"auto", "explicit"}, by : Actors,
                    life : {"fresh", "stale", "lapsed"}]
      BY <2>1 DEF Claim, KindOf
    <3>3. pc' \in [Actors -> Places]
      BY <1>4, <2>1 DEF Stamp
    <3>4. \A b \in Actors : pc'[b] \in Guarding => b = a
      BY <1>4, <2>1, <3>1 DEF Stamp
    <3>5. pc'[a] # "stamp" /\ (pc'[a] \in {"handle", "open"} => KindOf(a) = "auto")
      BY <1>4, <2>1 DEF Stamp, KindOf
    <3>6. rec'.by = a /\ rec'.kind = KindOf(a)
      BY <2>1 DEF Claim
    <3>7. QED
      BY <2>1, <3>1, <3>2, <3>3, <3>4, <3>5, <3>6
  <2>2. CASE Refuse(a, "none") /\ guard' = None /\ UNCHANGED <<rec, file, rows, killed>>
    <3>1. guard = a /\ \A b \in Actors \ {a} : pc[b] \notin Guarding
      BY <1>4 DEF Stamp
    <3>2. CASE pc' = [pc EXCEPT ![a] = "abandon"] /\ UNCHANGED h
      BY <2>2, <3>1, <3>2
    <3>3. CASE /\ pc' = [pc EXCEPT ![a] = "idle"]
               /\ h' = [h EXCEPT ![a] = [Idle EXCEPT !.cause = "none"]]
      BY <2>2, <3>1, <3>3
    <3>4. QED
      BY <2>2, <3>2, <3>3
  <2>3. QED
    BY <1>4, <2>1, <2>2 DEF Stamp
<1>5. CASE OpenHandle(a)
  BY <1>5 DEF OpenHandle
<1>6. QED
  BY <1>1, <1>2, <1>3, <1>4, <1>5 DEF Acquire

(* Releasing and cleaning up only ever removes the record. *)
LEMMA ReleaseStep ==
  ASSUME LockAssumption, LockInv, NEW a \in Actors, Release(a) \/ Clean(a)
  PROVE  LockInv'
<1> USE DEF LockAssumption, LockInv, TypeOK, Places, Operations, Idle, Guarding,
            Deliberate, At, Goto, Done
<1>1. CASE CloseWriter(a)
  BY <1>1 DEF CloseWriter
<1>2. CASE DropGuard(a)
  BY <1>2 DEF DropGuard
<1>3. CASE ReadBack(a)
  BY <1>3 DEF ReadBack
<1>4. CASE Erase(a)
  BY <1>4 DEF Erase, Cleared, NoRecord
<1>5. CASE Tidy(a)
  <2>1. CASE Goto(a, "unlink") /\ UNCHANGED <<h, file, rows, guard, rec, killed>>
    BY <2>1, <1>5 DEF Tidy
  <2>2. CASE Done(a) /\ UNCHANGED <<file, rows, guard, rec, killed>>
    BY <2>2, <1>5 DEF Tidy
  <2>3. QED
    BY <1>5, <2>1, <2>2 DEF Tidy
<1>6. CASE Unprobe(a)
  BY <1>6 DEF Unprobe
<1>7. CASE Unlink(a)
  <2>1. CASE Goto(a, "sweep") /\ UNCHANGED <<h, guard, rec, killed>>
    BY <1>7, <2>1 DEF Unlink, Unlinked
  <2>2. CASE Done(a) /\ UNCHANGED <<file, guard, rec, killed>>
    BY <1>7, <2>2 DEF Unlink
  <2>3. QED
    BY <1>7, <2>1, <2>2 DEF Unlink
<1>8. CASE Sweep(a)
  BY <1>8 DEF Sweep, Cleared, NoRecord
<1>9. CASE Unclaim(a)
  BY <1>9 DEF Unclaim, Cleared, NoRecord
<1>10. CASE Unguard(a)
  BY <1>10 DEF Unguard
<1>11. CASE Abandon(a)
  BY <1>11 DEF Abandon, Unlinked
<1>12. QED
  BY <1>1, <1>2, <1>3, <1>4, <1>5, <1>6, <1>7, <1>8, <1>9, <1>10, <1>11 DEF Release, Clean

(* A row, a death, and the passing of time. *)
LEMMA OtherStep ==
  ASSUME LockAssumption, LockInv,
         (\E a \in Actors : Append(a)) \/ (\E p \in Processes : Kill(p)) \/ Age
  PROVE  LockInv'
<1> USE DEF LockAssumption, LockInv, TypeOK, Places, Operations, Guarding, Deliberate, At
<1>1. ASSUME NEW a \in Actors, Append(a) PROVE LockInv'
  <2>1. CASE rec' = rec
    BY <1>1, <2>1 DEF Append
  <2>2. CASE rec' = Claim(a, "auto")
    BY <1>1, <2>2 DEF Append, Claim
  <2>3. QED
    BY <1>1, <2>1, <2>2 DEF Append
<1>2. ASSUME NEW p \in Processes, Kill(p) PROVE LockInv'
  BY <1>2 DEF Kill, Idle
<1>3. CASE Age
  BY <1>3 DEF Age, NoRecord
<1>4. QED
  BY <1>1, <1>2, <1>3

(* Every step keeps the invariant. *)
LEMMA LockInvNext == ASSUME LockAssumption, LockInv, [Next]_vars PROVE LockInv'
<1>1. CASE UNCHANGED vars
  BY <1>1 DEF vars, LockInv, TypeOK, Deliberate
<1>2. CASE Next
  BY <1>2, BeginStep, AcquireStep, ReleaseStep, OtherStep DEF Next
<1>3. QED
  BY <1>1, <1>2

(* A record is written at "stamp" and by the writer; both hold the guard,  *)
(* and neither ever finds a claim that still binds.                        *)
LEMMA ClaimStep ==
  ASSUME LockAssumption, LockInv, [Next]_vars, Deliberate
  PROVE  rec' = NoRecord \/ (rec'.kind = "explicit" /\ rec'.by = rec.by)
<1>1. rec # NoRecord
  BY DEF Deliberate, NoRecord
<1>2. ASSUME NEW a \in Actors, Stamp(a) PROVE rec' = rec
  BY <1>2 DEF Stamp, At, LockInv
<1>3. ASSUME NEW a \in Actors, Append(a) PROVE FALSE
  BY <1>1, <1>3 DEF Append, At, LockInv, Deliberate
<1>4. ASSUME NEW a \in Actors, Begin(a) PROVE rec' = rec
  BY <1>4 DEF Begin, New, Replay, ClaimSession, UnlockSession, Prune, ArchiveSession,
              DeleteSession
<1>5. ASSUME NEW a \in Actors, Acquire(a) PROVE rec' = rec
  BY <1>2, <1>5 DEF Acquire, Probe, Flock, Judge, OpenHandle
<1>6. ASSUME NEW a \in Actors, Release(a) \/ Clean(a) PROVE rec' \in {rec, NoRecord}
  BY <1>6 DEF Cleared, Release, CloseWriter, DropGuard, ReadBack, Erase, Tidy,
              Clean, Unprobe, Unlink, Sweep, Unclaim, Unguard, Abandon
<1>7. ASSUME NEW p \in Processes, Kill(p) PROVE rec' = rec
  BY <1>7 DEF Kill
<1>8. CASE Age
  BY <1>8 DEF Age, Deliberate, LockInv, TypeOK
<1>9. CASE UNCHANGED vars
  BY <1>9 DEF vars, Deliberate
<1>10. QED
  BY <1>3, <1>4, <1>5, <1>6, <1>7, <1>8, <1>9 DEF Next, Deliberate

(* NothingLeft is not inductive alone: a lock that lets go at "drop" must  *)
(* not leave an automatic record of its own behind.                        *)
LeftInv == /\ NothingLeft
           /\ \A a \in Actors : pc[a] = "drop" /\ h[a].op = "lock" => rec.kind # "auto"
           /\ \A a \in Actors : pc[a] \in {"handle", "open"} => h[a].op # "lock"

LEMMA LeftInvInit == ASSUME LockAssumption, Init PROVE LeftInv
BY DEF LockAssumption, Init, LeftInv, NothingLeft, NoRecord

(* The beginnings of an operation, which leave the record alone. *)
LEMMA BeginLeaves ==
  ASSUME LockAssumption, LockInv, LeftInv, NEW a \in Actors, Begin(a)
  PROVE  LeftInv'
<1>1. /\ UNCHANGED <<rec, killed>> /\ pc[a] = "idle"
      /\ \E p \in {"probe", "sweep", "unlink"} : pc' = [pc EXCEPT ![a] = p]
      /\ \E x : h' = [h EXCEPT ![a] = x]
  BY DEF Begin, New, Replay, ClaimSession, UnlockSession, Prune, ArchiveSession,
         DeleteSession, Start, At, Goto
<1>2. QED
  BY <1>1 DEF LeftInv, NothingLeft, Answering, Alive, LockInv, TypeOK

(* Acquiring writes the record where its owner answers for it. *)
LEMMA AcquireLeaves ==
  ASSUME LockAssumption, LockInv, LeftInv, NEW a \in Actors, Acquire(a)
  PROVE  LeftInv'
<1> USE DEF LeftInv, NothingLeft, Answering, Alive, LockInv, TypeOK, At, Goto, Guarding
<1>1. CASE UNCHANGED <<rec, killed>> /\ pc[a] \notin Answering
           /\ pc'[a] \notin {"drop", "handle", "open"}
           /\ \A b \in Actors \ {a} : pc'[b] = pc[b] /\ h'[b] = h[b]
  <2>1. rec.kind = "auto" => rec.by \in Actors
    BY DEF NoRecord
  <2>2. NothingLeft'
    BY <1>1, <2>1
  <2>3. QED
    BY <1>1, <2>2
<1>2. CASE Probe(a)
  BY <1>1, <1>2 DEF Probe, Done
<1>3. CASE Flock(a)
  BY <1>1, <1>3 DEF Flock, Refuse, Locked
<1>4. CASE Judge(a)
  BY <1>1, <1>4 DEF Judge, Refuse
<1>5. CASE Stamp(a)
  <2>1. CASE /\ rec' = Claim(a, KindOf(a)) /\ UNCHANGED <<h, killed>>
             /\ Goto(a, CASE h[a].op = "new" -> "open" [] h[a].op = "open" -> "handle"
                          [] OTHER -> "drop")
    <3>1. rec'.kind = KindOf(a) /\ rec'.by = a
      BY <2>1 DEF Claim
    <3>2. pc'[a] \in {"open", "handle", "drop"} /\ \A b \in Actors \ {a} : pc'[b] = pc[b]
      BY <2>1
    <3>3. pc[a] = "stamp" /\ guard = a
      BY <1>5 DEF Stamp
    <3>4. \A b \in Actors \ {a} : pc'[b] # "drop"
      BY <3>2, <3>3
    <3>5. h[a].op = "lock" => rec'.kind # "auto" /\ pc'[a] = "drop"
      BY <2>1, <3>1 DEF KindOf
    <3>6. NothingLeft'
      BY <3>1, <3>2
    <3>7. QED
      BY <2>1, <3>1, <3>2, <3>4, <3>5, <3>6
  <2>2. CASE UNCHANGED <<rec, killed>> /\ Refuse(a, "none")
    BY <1>1, <1>5, <2>2 DEF Refuse, Stamp
  <2>3. QED
    BY <1>5, <2>1, <2>2 DEF Stamp
<1>6. CASE OpenHandle(a)
  BY <1>6 DEF OpenHandle
<1>7. QED
  BY <1>2, <1>3, <1>4, <1>5, <1>6 DEF Acquire

(* Releasing: the owner stops answering once it has read back that the     *)
(* record is another's, or has erased it.                                  *)
LEMMA ReleaseLeaves ==
  ASSUME LockAssumption, "unlink" \notin Faults, LockInv, LeftInv, NEW a \in Actors, Release(a)
  PROVE  LeftInv'
<1> USE DEF LeftInv, NothingLeft, Answering, Alive, LockInv, TypeOK, At, Goto
<1>1. CASE CloseWriter(a)
  BY <1>1 DEF CloseWriter
<1>2. CASE DropGuard(a)
  <2>1. CASE h[a].op = "lock" /\ Done(a)
    <3>1. rec.kind # "auto"
      BY <1>2, <2>1 DEF DropGuard
    <3>2. QED
      BY <1>2, <2>1, <3>1 DEF DropGuard, Done, Idle
  <2>2. CASE h[a].op # "lock" /\ Goto(a, "readback") /\ UNCHANGED h
    BY <1>2, <2>2 DEF DropGuard
  <2>3. QED
    BY <1>2, <2>1, <2>2 DEF DropGuard
<1>3. CASE ReadBack(a)
  BY <1>3 DEF ReadBack, NoRecord
<1>4. CASE Erase(a)
  BY <1>4 DEF Erase, Cleared, NoRecord
<1>5. CASE Tidy(a)
  <2>1. CASE Goto(a, "unlink") /\ UNCHANGED h
    BY <1>5, <2>1 DEF Tidy
  <2>2. CASE Done(a)
    BY <1>5, <2>2 DEF Tidy, Done, Idle
  <2>3. QED
    BY <1>5, <2>1, <2>2 DEF Tidy
<1>6. QED
  BY <1>1, <1>2, <1>3, <1>4, <1>5 DEF Release

(* Cleaning up only ever removes a record. *)
LEMMA CleanLeaves ==
  ASSUME LockAssumption, LockInv, LeftInv, NEW a \in Actors, Clean(a)
  PROVE  LeftInv'
<1>1. /\ rec' \in {rec, NoRecord} /\ UNCHANGED killed
      /\ pc[a] \notin Answering
      /\ \E p \in {"unlink", "sweep", "idle", "unguard"} : pc' = [pc EXCEPT ![a] = p]
      /\ h' = h \/ h' = [h EXCEPT ![a] = Idle]
  BY DEF Clean, Unprobe, Unlink, Sweep, Unclaim, Unguard, Abandon, Cleared, Done, At, Goto,
         Answering
<1>2. QED
  BY <1>1 DEF LeftInv, NothingLeft, Answering, Alive, LockInv, TypeOK, NoRecord

(* A row is written where the writer answers; the dead have no say.        *)
LEMMA OtherLeaves ==
  ASSUME LockAssumption, LockInv, LeftInv,
         (\E a \in Actors : Append(a)) \/ (\E p \in Processes : Kill(p)) \/ Age
  PROVE  LeftInv'
<1> USE DEF LeftInv, NothingLeft, Answering, Alive, LockInv, TypeOK, At, Guarding
<1>1. ASSUME NEW a \in Actors, Append(a) PROVE LeftInv'
  <2>1. UNCHANGED <<pc, killed>> /\ pc[a] = "open" /\ guard = a
    BY <1>1 DEF Append
  <2>2. \A b \in Actors : h'[b].op = h[b].op
    BY <1>1 DEF Append
  <2>3. \A b \in Actors : pc[b] # "drop"
    BY <2>1
  <2>4. rec' = rec \/ (rec'.by = a /\ rec'.kind = "auto")
    BY <1>1 DEF Append, Claim
  <2>5. QED
    BY <2>1, <2>2, <2>3, <2>4
<1>2. ASSUME NEW p \in Processes, Kill(p) PROVE LeftInv'
  <2>1. rec.kind = "auto" => rec.by \in Actors
    BY DEF NoRecord
  <2>2. \A b \in Actors : ProcessOf[b] # p => pc'[b] = pc[b] /\ h'[b] = h[b]
    BY <1>2 DEF Kill
  <2>3. \A b \in Actors : ProcessOf[b] = p => pc'[b] = "dead"
    BY <1>2 DEF Kill
  <2>4. rec' = rec /\ killed' = killed \cup {p}
    BY <1>2 DEF Kill
  <2>5. QED
    BY <2>1, <2>2, <2>3, <2>4
<1>3. CASE Age
  BY <1>3 DEF Age, NoRecord
<1>4. QED
  BY <1>1, <1>2, <1>3

LEMMA LeftInvNext ==
  ASSUME LockAssumption, "unlink" \notin Faults, LockInv, LeftInv, [Next]_vars
  PROVE  LeftInv'
<1>1. CASE UNCHANGED vars
  BY <1>1 DEF vars, LeftInv, NothingLeft, Alive
<1>2. CASE Next
  BY <1>2, BeginLeaves, AcquireLeaves, ReleaseLeaves, CleanLeaves, OtherLeaves DEF Next
<1>3. QED
  BY <1>1, <1>2

(* The invariant holds throughout. *)
LEMMA LockInvAlways == Spec => []LockInv
<1>1. Init => LockInv
  BY LockAssumption, LockInvInit
<1>2. LockInv /\ [Next]_vars => LockInv'
  BY LockAssumption, LockInvNext
<1>3. QED
  BY <1>1, <1>2, PTL DEF Spec

(* Every variable keeps its type. *)
THEOREM LockTypes == Spec => []TypeOK
<1>1. LockInv => TypeOK
  BY DEF LockInv
<1>2. QED
  BY <1>1, LockInvAlways, PTL

(* Two terva processes never write one transcript at the same time.        *)
THEOREM WriterExclusion == Spec => []OneWriter
<1>1. LockInv => OneWriter
  BY DEF LockInv, OneWriter, Guarding
<1>2. QED
  BY <1>1, LockInvAlways, PTL

(* A refusal that shows a record beside an open session names its writer.  *)
THEOREM HolderNamed == Spec => []NamesHolder
<1>1. LockInv => NamesHolder
  BY DEF LockInv, NamesHolder
<1>2. QED
  BY <1>1, LockInvAlways, PTL

(* Nobody is refused for a holder that let go: an automatic record naming  *)
(* a living process is about a session that process still has, where a     *)
(* record can always be removed.                                           *)
THEOREM NoneLeft ==
  ASSUME "unlink" \notin Faults PROVE Spec => []NothingLeft
<1>1. Init => LeftInv
  BY LockAssumption, LeftInvInit
<1>2. LockInv /\ LeftInv /\ [Next]_vars => LeftInv'
  BY LockAssumption, LeftInvNext
<1>3. LeftInv => NothingLeft
  BY DEF LeftInv
<1>4. QED
  BY <1>1, <1>2, <1>3, LockInvAlways, PTL DEF Spec

(* A deliberate claim is never replaced before it lapses.                  *)
THEOREM ClaimsKept == Spec => ClaimHonoured
<1>1. LockInv /\ [Next]_vars =>
        [Deliberate => rec' = NoRecord \/ (rec'.kind = "explicit" /\ rec'.by = rec.by)]_vars
  BY LockAssumption, ClaimStep
<1>2. QED
  BY <1>1, LockInvAlways, PTL DEF Spec, ClaimHonoured
=============================================================================
