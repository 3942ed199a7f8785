----------------------------- MODULE SwarmProofs -----------------------------
(***************************************************************************)
(* For any number of agents, instances and restarts of the host: an        *)
(* agent's record outlives every archive, no lease comes back under an     *)
(* agent that its host runs, and revivals that wait for the last process   *)
(* never set two of one host at one session.                               *)
(***************************************************************************)
EXTENDS Swarm, TLAPS

(* What the status is good for: an instance that no stop marked is called  *)
(* unfinished for as long as it is queued or runs.                         *)
StatusInv == \A i \in Instances :
  run[i] \in {"queued", "running"} /\ stopper[i] = "none" => status[i] \in Unfinished

(* The table has the latest instance or none, and a caller between two     *)
(* steps has done what the second relies on.                               *)
TableInv == \A a \in Agents :
  /\ listed[a] \in {0, made[a]}
  /\ dropping[a] => archive[a]
  /\ resuming[a] > 0 => made[a] > 0
  /\ made[a] + resuming[a] <= MaxRuns

LeaseInv == \A i \in Instances : lease[i] = "back" => Ended(i) \/ stopper[i] # "none"

(* A process has the goroutine that runs it, or has outlived its host.     *)
ChildInv == \A a \in Agents, m \in 1..MaxRuns :
  /\ child[<<a, m>>] # "none" => run[<<a, m>>] \in {"running", "none"}
  /\ m > made[a] => child[<<a, m>>] = "none" /\ run[<<a, m>>] = "none"

SwarmInv == TypeOK /\ StatusInv /\ TableInv /\ LeaseInv /\ RecordKept /\ ChildInv

(* Only the latest instance has work, and none has while a caller that     *)
(* waited revives the agent.                                               *)
LastOnly == \A a \in Agents :
  /\ resuming[a] <= 1
  /\ \A m \in 1..MaxRuns : m # made[a] \/ resuming[a] > 0 => Ended(<<a, m>>)

LEMMA InstanceParts ==
  /\ \A a \in Agents, m \in 1..MaxRuns : <<a, m>> \in Instances
  /\ \A i \in Instances : i[1] \in Agents /\ i[2] \in 1..MaxRuns /\ i = <<i[1], i[2]>>
BY DEF Instances

(* No agent has been spawned.                                              *)
LEMMA SwarmInvInit == SwarmAssumption /\ Init => SwarmInv /\ LastOnly
<1> SUFFICES ASSUME SwarmAssumption, Init PROVE SwarmInv /\ LastOnly
  OBVIOUS
<1>1. TypeOK
  BY DEF SwarmAssumption, Init, TypeOK, Statuses
<1>2. StatusInv /\ LeaseInv
  BY DEF Init, StatusInv, LeaseInv
<1>3. TableInv /\ RecordKept
  BY DEF SwarmAssumption, Init, TableInv, RecordKept
<1>4. LastOnly /\ ChildInv
  BY InstanceParts DEF Init, LastOnly, ChildInv, Ended
<1>5. QED
  BY <1>1, <1>2, <1>3, <1>4 DEF SwarmInv

(* A step of a run goroutine, of a process, or of a stop leaves the table  *)
(* alone, and no instance at rest goes back to work.                       *)
LEMMA TableStays ==
  ASSUME SwarmInv, UNCHANGED table
  PROVE  TableInv' /\ RecordKept'
BY DEF SwarmInv, table, TableInv, RecordKept

LEMMA RunnerKeeps ==
  ASSUME SwarmAssumption, SwarmInv, NEW i \in Instances, Goroutine(i) \/ Process(i)
  PROVE  SwarmInv'
<1> USE DEF table, stops
<1>0. Process(i) => Alive(i) /\ (Listen(i) \/ \E orderly \in BOOLEAN : Ends(i, orderly))
  BY DEF Process, Listen, ChildEnds, Drain, Kill, Alive
<1>1. TableInv' /\ RecordKept'
  BY <1>0, TableStays DEF Goroutine, Begin, Return, Finish, Listen, Ends
<1>2. /\ status' \in [Instances -> Statuses]
      /\ run' \in [Instances -> {"none", "queued", "running", "closed", "over"}]
      /\ lease' \in [Instances -> {"none", "held", "back"}]
  BY <1>0 DEF Goroutine, Begin, Return, Finish, Listen, Ends, Released, SwarmInv, TypeOK, Statuses
<1>3. /\ cancelled' \in [Instances -> BOOLEAN] /\ told' \in [Instances -> BOOLEAN]
      /\ child' \in [Instances -> {"none", "booting", "listening", "ended", "unstarted"}]
  <2> USE DEF SwarmInv, TypeOK
  <2>1. CASE Begin(i)
    BY <2>1 DEF Begin
  <2>2. CASE Return(i)
    BY <2>2 DEF Return
  <2>3. CASE Finish(i) \/ Listen(i)
    BY <2>3 DEF Finish, Listen
  <2>4. CASE \E orderly \in BOOLEAN : Ends(i, orderly)
    BY <2>4 DEF Ends
  <2>5. QED
    BY <1>0, <2>1, <2>2, <2>3, <2>4 DEF Goroutine
<1>4. sock' \in [Agents -> 0..MaxRuns] /\ ending' \in [Agents -> BOOLEAN]
  <2> USE DEF SwarmInv, TypeOK
  <2>1. CASE Listen(i)
    BY <2>1, InstanceParts DEF Listen, SwarmAssumption
  <2>2. CASE Return(i)
    BY <2>2, InstanceParts DEF Return
  <2>3. CASE Begin(i) \/ Finish(i)
    BY <2>3 DEF Begin, Finish
  <2>4. CASE \E orderly \in BOOLEAN : Ends(i, orderly)
    <3>1. PICK orderly \in BOOLEAN : Ends(i, orderly)
      BY <2>4
    <3>2. ending[i[1]] \in BOOLEAN /\ Orphan(i) \in BOOLEAN
      BY InstanceParts DEF Orphan, Alive
    <3>3. ending' \in [Agents -> BOOLEAN]
      BY <3>1, <3>2 DEF Ends
    <3>4. sock' \in [Agents -> 0..MaxRuns]
      BY <3>1 DEF Ends, SwarmAssumption
    <3>5. QED
      BY <3>3, <3>4
  <2>5. QED
    BY <1>0, <2>1, <2>2, <2>3, <2>4 DEF Goroutine
<1>5. UNCHANGED <<table, stops, stopper>>
  BY <1>0 DEF Goroutine, Begin, Return, Finish, Listen, Ends
<1>6. TypeOK'
  BY <1>2, <1>3, <1>4, <1>5 DEF SwarmInv, TypeOK
<1>7. \A j \in Instances : j # i =>
        run'[j] = run[j] /\ status'[j] = status[j] /\ lease'[j] = lease[j] /\ child'[j] = child[j]
  BY <1>0 DEF Goroutine, Begin, Return, Finish, Listen, Ends, Released, SwarmInv, TypeOK
<1>8. /\ run'[i] \in {"queued", "running"} /\ stopper[i] = "none" => status'[i] \in Unfinished
      /\ lease'[i] = "back" => Ended(i)' \/ stopper[i] # "none"
  <2>1. CASE Begin(i)
    BY <2>1 DEF Begin, SwarmInv, TypeOK, StatusInv, LeaseInv, Ended, Unfinished
  <2>2. CASE Return(i)
    BY <2>2 DEF Return, SwarmInv, TypeOK, Ended
  <2>3. CASE Finish(i)
    BY <2>3 DEF Finish, SwarmInv, TypeOK, Ended
  <2>4. CASE Process(i)
    BY <1>0, <2>4 DEF Listen, Ends, SwarmInv, StatusInv, LeaseInv, Ended
  <2>5. QED
    BY <2>1, <2>2, <2>3, <2>4 DEF Goroutine
<1>9. StatusInv' /\ LeaseInv'
  BY <1>5, <1>7, <1>8 DEF SwarmInv, StatusInv, LeaseInv, Ended, Unfinished
<1>10. /\ child'[i] # "none" => run'[i] \in {"running", "none"}
       /\ run[i] # "none" \/ child[i] # "none"
  <2>1. i[1] \in Agents /\ i[2] \in 1..MaxRuns /\ i = <<i[1], i[2]>>
    BY InstanceParts
  <2>2. child[i] # "none" => run[i] \in {"running", "none"}
    BY <2>1 DEF SwarmInv, ChildInv
  <2>3. CASE Begin(i)
    BY <2>3 DEF Begin, SwarmInv, TypeOK
  <2>4. CASE Return(i)
    BY <2>4 DEF Return, SwarmInv, TypeOK
  <2>5. CASE Finish(i)
    BY <2>2, <2>5 DEF Finish, SwarmInv, TypeOK
  <2>6. CASE Process(i)
    BY <1>0, <2>2, <2>6 DEF Listen, Ends, Alive
  <2>7. QED
    BY <2>3, <2>4, <2>5, <2>6 DEF Goroutine
<1>11. ChildInv'
  <2>1. \A a \in Agents, m \in 1..MaxRuns : m > made[a] => <<a, m>> # i
    BY <1>10 DEF SwarmInv, ChildInv
  <2>2. QED
    BY <1>5, <1>7, <1>10, <2>1, InstanceParts DEF SwarmInv, ChildInv
<1>12. QED
  BY <1>1, <1>6, <1>9, <1>11 DEF SwarmInv

(* A stop marks the status only after it has its goroutine.                *)
LEMMA MarkKeeps ==
  ASSUME SwarmInv, NEW i \in Instances, MarkKilled(i), UNCHANGED <<run, lease>>
  PROVE  /\ status' \in [Instances -> Statuses]
         /\ stopper' \in [Instances -> {"none", "send", "wait", "cancel", "finish", "over"}]
         /\ StatusInv' /\ LeaseInv'
<1>1. /\ status' \in [Instances -> Statuses]
      /\ stopper' \in [Instances -> {"none", "send", "wait", "cancel", "finish", "over"}]
  BY DEF MarkKilled, SwarmInv, TypeOK, Statuses
<1>2. \A j \in Instances : /\ j # i => status'[j] = status[j] /\ stopper'[j] = stopper[j]
                           /\ j = i => stopper'[j] # "none"
  BY DEF MarkKilled, SwarmInv, TypeOK
<1>3. QED
  BY <1>1, <1>2 DEF SwarmInv, StatusInv, LeaseInv, Ended, Unfinished

LEMMA StopKeeps ==
  ASSUME SwarmAssumption, SwarmInv,
         \/ \E i \in Instances : Stopping(i) \/ StopOne(i)
         \/ \E a \in Agents : Stop(a)
         \/ StopAll \/ CancelAll
  PROVE  SwarmInv'
<1> USE DEF table, stops, runner
<1>1. UNCHANGED table
  BY DEF Stopping, StopOne, Stop, StopAll, CancelAll, Shutdown, Drained, GraceOver, Cancel, StopFinish
<1>2. TableInv' /\ RecordKept'
  BY <1>1, TableStays
<1>3. UNCHANGED <<run, child, sock, ending>>
  BY DEF Stopping, StopOne, Stop, StopAll, CancelAll, Shutdown, Drained, GraceOver, Cancel, StopFinish
<1>4. /\ \A a \in Agents : listed[a] # 0 => Entry(a) \in Instances
      /\ ChildInv'
  BY <1>1, <1>3, InstanceParts DEF Entry, SwarmInv, TypeOK, SwarmAssumption, ChildInv
<1>5. ASSUME NEW i \in Instances, Stopping(i) PROVE SwarmInv'
  <2>1. /\ stopper' \in [Instances -> {"none", "send", "wait", "cancel", "finish", "over"}]
        /\ \A j \in Instances : stopper[j] # "none" => stopper'[j] # "none"
        /\ stopper'[i] # "none" /\ status' = status
    BY <1>5 DEF Stopping, Shutdown, Drained, GraceOver, Cancel, StopFinish, SwarmInv, TypeOK
  <2>2. /\ lease' \in [Instances -> {"none", "held", "back"}]
        /\ \A j \in Instances : j # i => lease'[j] = lease[j]
    BY <1>5 DEF Stopping, Shutdown, Drained, GraceOver, Cancel, StopFinish, Released, SwarmInv, TypeOK
  <2>3. told' \in [Instances -> BOOLEAN] /\ cancelled' \in [Instances -> BOOLEAN]
    <3>1. CASE Cancel(i)
      BY <3>1 DEF Cancel, Ended, SwarmInv, TypeOK
    <3>2. CASE Shutdown(i)
      BY <3>2 DEF Shutdown, SwarmInv, TypeOK
    <3>3. QED
      BY <1>5, <3>1, <3>2 DEF Stopping, Drained, GraceOver, StopFinish, SwarmInv, TypeOK
  <2>4. UNCHANGED stops
    BY <1>5 DEF Stopping, Shutdown, Drained, GraceOver, Cancel, StopFinish
  <2>5. TypeOK'
    BY <1>1, <1>3, <2>1, <2>2, <2>3, <2>4 DEF SwarmInv, TypeOK
  <2>6. StatusInv' /\ LeaseInv'
    BY <1>3, <2>1, <2>2 DEF SwarmInv, StatusInv, LeaseInv, Ended, Unfinished
  <2>7. QED
    BY <1>2, <1>4, <2>5, <2>6 DEF SwarmInv
<1>6. ASSUME NEW i \in Instances, StopOne(i) PROVE SwarmInv'
  <2>1. /\ UNCHANGED <<cancelled, told, lease, closing, crashes>> /\ toStop' \subseteq toStop
    BY <1>6 DEF StopOne
  <2>2. /\ status' \in [Instances -> Statuses]
        /\ stopper' \in [Instances -> {"none", "send", "wait", "cancel", "finish", "over"}]
        /\ StatusInv' /\ LeaseInv'
    <3>1. CASE UNCHANGED <<status, stopper>>
      BY <1>3, <2>1, <3>1 DEF SwarmInv, TypeOK, StatusInv, LeaseInv, Ended, Unfinished
    <3>2. CASE listed[i[1]] # 0 /\ MarkKilled(Entry(i[1]))
      BY <1>3, <1>4, <2>1, <3>2, InstanceParts, MarkKeeps
    <3>3. QED
      BY <1>6, <3>1, <3>2 DEF StopOne
  <2>3. TypeOK'
    BY <1>1, <1>3, <2>1, <2>2 DEF SwarmInv, TypeOK
  <2>4. QED
    BY <1>2, <1>4, <2>2, <2>3 DEF SwarmInv
<1>7. ASSUME NEW a \in Agents, Stop(a) PROVE SwarmInv'
  <2>1. /\ UNCHANGED <<cancelled, told, lease, stops>>
        /\ Entry(a) \in Instances /\ MarkKilled(Entry(a))
    BY <1>4, <1>7 DEF Stop
  <2>2. /\ status' \in [Instances -> Statuses]
        /\ stopper' \in [Instances -> {"none", "send", "wait", "cancel", "finish", "over"}]
        /\ StatusInv' /\ LeaseInv'
    BY <1>3, <2>1, MarkKeeps
  <2>3. TypeOK'
    BY <1>1, <1>3, <2>1, <2>2 DEF SwarmInv, TypeOK
  <2>4. QED
    BY <1>2, <1>4, <2>2, <2>3 DEF SwarmInv
<1>8. CASE StopAll \/ CancelAll
  <2>1. /\ UNCHANGED <<told, lease, stopper, status, crashes>>
        /\ toStop' \subseteq Instances /\ closing' \in {"no", "stopping", "closed"}
        /\ cancelled' \in [Instances -> BOOLEAN]
    <3>1. CASE StopAll
      BY <3>1 DEF StopAll, SwarmInv, TypeOK
    <3>2. CASE CancelAll
      BY <3>2 DEF CancelAll, Ended, SwarmInv, TypeOK
    <3>3. QED
      BY <1>8, <3>1, <3>2
  <2>2. TypeOK'
    BY <1>1, <1>3, <2>1 DEF SwarmInv, TypeOK
  <2>3. StatusInv' /\ LeaseInv'
    BY <1>3, <2>1 DEF SwarmInv, StatusInv, LeaseInv, Ended, Unfinished
  <2>4. QED
    BY <1>2, <1>4, <2>2, <2>3 DEF SwarmInv
<1>9. QED
  BY <1>5, <1>6, <1>7, <1>8

(* A caller that judges by the status alone still leaves every running     *)
(* agent its lease, unless a stop has marked it.                           *)
LEMMA SettledEnded ==
  ASSUME SwarmAssumption, SwarmInv, NEW a \in Agents, Settled(a)
  PROVE  /\ Entry(a) \in Instances
         /\ stopper[Entry(a)] = "none" => Ended(Entry(a))
<1>1. Entry(a) \in Instances
  BY InstanceParts DEF Settled, Entry, SwarmInv, TypeOK, SwarmAssumption
<1>2. QED
  BY <1>1 DEF Settled, SwarmInv, StatusInv, TypeOK, Ended

(* Callers that give a lease back or drop files.                           *)
LEMMA DropKeeps ==
  ASSUME SwarmAssumption, SwarmInv, NEW a \in Agents, Remove(a) \/ Archive(a) \/ DropSource(a)
  PROVE  SwarmInv'
<1> USE DEF stops, runner
<1>1. UNCHANGED <<made, status, run, cancelled, child, told, sock, ending, stopper, stops>>
  BY DEF Remove, Archive, DropSource
<1>2. /\ listed' \in [Agents -> 0..MaxRuns] /\ \A b \in Agents : listed'[b] \in {listed[b], 0}
      /\ files' \in [Agents -> BOOLEAN] /\ removed' \in [Agents -> BOOLEAN]
  <2> USE DEF SwarmInv, TypeOK, SwarmAssumption
  <2>1. CASE Remove(a)
    BY <2>1 DEF Remove, Unlist
  <2>2. CASE Archive(a)
    BY <2>2 DEF Archive
  <2>3. CASE DropSource(a)
    BY <2>3 DEF DropSource, Unlist
  <2>4. QED
    BY <2>1, <2>2, <2>3
<1>3. /\ dropping' \in [Agents -> BOOLEAN] /\ archive' \in [Agents -> BOOLEAN]
      /\ resuming' = resuming
      /\ \A b \in Agents : /\ archive[b] => archive'[b]
                           /\ dropping'[b] => archive'[b]
  <2>1. CASE Remove(a)
    BY <2>1 DEF Remove, SwarmInv, TypeOK, TableInv
  <2>2. CASE Archive(a)
    <3>1. CASE UNCHANGED <<archive, dropping>>
      BY <2>2, <3>1 DEF Archive, SwarmInv, TypeOK, TableInv
    <3>2. CASE archive' = [archive EXCEPT ![a] = TRUE] /\ dropping' = [dropping EXCEPT ![a] = TRUE]
      BY <2>2, <3>2 DEF Archive, SwarmInv, TypeOK, TableInv
    <3>3. QED
      BY <2>2, <3>1, <3>2 DEF Archive
  <2>3. CASE DropSource(a)
    BY <2>3 DEF DropSource, SwarmInv, TypeOK, TableInv
  <2>4. QED
    BY <2>1, <2>2, <2>3
<1>4. \A b \in Agents : files[b] \/ archive[b] \/ removed[b] => files'[b] \/ archive'[b] \/ removed'[b]
  <2>1. CASE Remove(a)
    BY <2>1 DEF Remove, SwarmInv, TypeOK
  <2>2. CASE Archive(a)
    BY <1>3, <2>2 DEF Archive
  <2>3. CASE DropSource(a)
    BY <2>3 DEF DropSource, SwarmInv, TypeOK, TableInv
  <2>4. QED
    BY <2>1, <2>2, <2>3
<1>5. TableInv' /\ RecordKept'
  BY <1>1, <1>2, <1>3, <1>4 DEF SwarmInv, TypeOK, TableInv, RecordKept, SwarmAssumption
<1>6. lease' = lease \/ (Settled(a) /\ lease' = Released(Entry(a)))
  BY DEF Remove, Archive, DropSource
<1>7. lease' \in [Instances -> {"none", "held", "back"}]
  BY <1>6 DEF Released, SwarmInv, TypeOK
<1>8. LeaseInv'
  <2>1. CASE lease' = lease
    BY <1>1, <2>1 DEF SwarmInv, LeaseInv, Ended
  <2>2. CASE Settled(a) /\ lease' = Released(Entry(a))
    <3>1. \A j \in Instances : j # Entry(a) => lease'[j] = lease[j]
      BY <2>2 DEF Released, SwarmInv, TypeOK
    <3>2. Ended(Entry(a)) \/ stopper[Entry(a)] # "none"
      BY <2>2, SettledEnded
    <3>3. QED
      BY <1>1, <3>1, <3>2 DEF SwarmInv, LeaseInv, Ended
  <2>3. QED
    BY <1>6, <2>1, <2>2
<1>9. StatusInv' /\ ChildInv'
  BY <1>1 DEF SwarmInv, StatusInv, ChildInv
<1>10. TypeOK'
  BY <1>1, <1>2, <1>3, <1>7 DEF SwarmInv, TypeOK, SwarmAssumption
<1>11. QED
  BY <1>5, <1>8, <1>9, <1>10 DEF SwarmInv

(* A new instance: the first, or a revival's that has counted it.          *)
Newcomer(a) == /\ made[a] + resuming'[a] < MaxRuns
               /\ \/ made[a] = 0 /\ resuming' = resuming
                  \/ resuming[a] > 0 /\ resuming' = [resuming EXCEPT ![a] = resuming[a] - 1]

LEMMA LaunchKeeps ==
  ASSUME SwarmAssumption, SwarmInv, NEW a \in Agents, NEW leased \in {"held", "none"},
         Launch(a, leased), Newcomer(a)
  PROVE  SwarmInv'
<1> DEFINE n == made[a] + 1
<1>0. /\ resuming' \in [Agents -> 0..MaxRuns] /\ made[a] + resuming'[a] < MaxRuns
      /\ \A b \in Agents : b # a => resuming'[b] = resuming[b]
      /\ made[a] \in Nat
  <2>1. resuming[a] \in 0..MaxRuns /\ made[a] \in 0..MaxRuns
    BY DEF SwarmInv, TypeOK
  <2>2. resuming[a] > 0 => resuming[a] - 1 \in 0..MaxRuns
    BY <2>1 DEF SwarmAssumption
  <2>3. QED
    BY <2>1, <2>2 DEF Newcomer, SwarmInv, TypeOK, SwarmAssumption
<1>1. n \in 1..MaxRuns /\ NextOf(a) = <<a, n>> /\ NextOf(a) \in Instances
  <2>1. n \in 1..MaxRuns
    BY <1>0 DEF SwarmInv, TypeOK, SwarmAssumption
  <2>2. QED
    BY <2>1, InstanceParts DEF NextOf
<1>2. /\ made' \in [Agents -> 0..MaxRuns] /\ listed' \in [Agents -> 0..MaxRuns]
      /\ files' \in [Agents -> BOOLEAN]
      /\ made'[a] = n /\ listed'[a] = n /\ files'[a]
      /\ \A b \in Agents : b # a => /\ made'[b] = made[b] /\ listed'[b] = listed[b]
                                    /\ files'[b] = files[b]
  BY <1>1 DEF Launch, SwarmInv, TypeOK, SwarmAssumption
<1>3. /\ status' \in [Instances -> Statuses]
      /\ run' \in [Instances -> {"none", "queued", "running", "closed", "over"}]
      /\ lease' \in [Instances -> {"none", "held", "back"}]
      /\ cancelled' \in [Instances -> BOOLEAN]
  BY <1>1 DEF Launch, SwarmInv, TypeOK, Statuses
<1>4. /\ status'[NextOf(a)] = "pending" /\ lease'[NextOf(a)] # "back"
      /\ \A j \in Instances : j # NextOf(a) =>
           run'[j] = run[j] /\ status'[j] = status[j] /\ lease'[j] = lease[j]
  BY <1>1 DEF Launch, SwarmInv, TypeOK
<1>5. UNCHANGED <<child, told, sock, ending, stopper, archive, dropping, removed, stops>>
  BY DEF Launch
<1>6. \A b \in Agents : listed'[b] <= made'[b]
  BY <1>1, <1>2 DEF SwarmInv, TypeOK, SwarmAssumption
<1>7. TypeOK'
  BY <1>0, <1>2, <1>3, <1>5, <1>6 DEF SwarmInv, TypeOK, stops
<1>8. StatusInv' /\ LeaseInv'
  BY <1>4, <1>5 DEF SwarmInv, StatusInv, LeaseInv, Ended, Unfinished
<1>9. ChildInv'
  <2>1. ASSUME NEW b \in Agents, NEW m \in 1..MaxRuns, <<b, m>> # NextOf(a)
        PROVE  /\ child'[<<b, m>>] # "none" => run'[<<b, m>>] \in {"running", "none"}
               /\ m > made'[b] => child'[<<b, m>>] = "none" /\ run'[<<b, m>>] = "none"
    <3>1. run'[<<b, m>>] = run[<<b, m>>] /\ child'[<<b, m>>] = child[<<b, m>>]
      BY <1>4, <1>5, <2>1, InstanceParts
    <3>2. m > made'[b] => m > made[b]
      BY <1>0, <1>2
    <3>3. QED
      BY <3>1, <3>2 DEF SwarmInv, ChildInv
  <2>2. child'[NextOf(a)] = "none" /\ ~(n > made'[a])
    BY <1>0, <1>1, <1>2, <1>5 DEF SwarmInv, ChildInv
  <2>3. ASSUME NEW b \in Agents, NEW m \in 1..MaxRuns, <<b, m>> = NextOf(a)
        PROVE  b = a /\ m = n
    BY <1>1, <2>3
  <2>4. QED
    BY <2>1, <2>2, <2>3 DEF ChildInv
<1>10. TableInv'
  <2>1. \A b \in Agents : /\ listed[b] \in {0, made[b]}
                          /\ dropping[b] => archive[b]
                          /\ resuming[b] > 0 => made[b] > 0
                          /\ made[b] + resuming[b] <= MaxRuns
    BY DEF SwarmInv, TableInv
  <2>2. n > 0 /\ n + resuming'[a] <= MaxRuns
    BY <1>0 DEF SwarmAssumption
  <2>3. ASSUME NEW b \in Agents
        PROVE  /\ listed'[b] \in {0, made'[b]}
               /\ dropping'[b] => archive'[b]
               /\ resuming'[b] > 0 => made'[b] > 0
               /\ made'[b] + resuming'[b] <= MaxRuns
    <3>1. dropping'[b] => archive'[b]
      BY <1>5, <2>1
    <3>2. CASE b = a
      <4> HIDE DEF n
      <4>1. QED
        BY <1>2, <2>2, <3>1, <3>2
    <3>3. CASE b # a
      BY <1>0, <1>2, <2>1, <3>1, <3>3
    <3>4. QED
      BY <3>2, <3>3
  <2>4. QED
    BY <2>3 DEF TableInv
<1>11. RecordKept'
  BY <1>2, <1>5 DEF SwarmInv, RecordKept
<1>12. QED
  BY <1>7, <1>8, <1>9, <1>10, <1>11 DEF SwarmInv

(* The host starts again: it runs nothing, and the table is read off the   *)
(* state directories.                                                      *)
LEMMA RestartKeeps ==
  ASSUME SwarmAssumption, SwarmInv, HostRestarts
  PROVE  SwarmInv'
<1>1. /\ \A a \in Agents : listed'[a] \in {0, made[a]} /\ ~dropping'[a] /\ resuming'[a] = 0
      /\ UNCHANGED <<made, archive, files, removed, ending>>
  BY DEF HostRestarts
<1>2. /\ \A i \in Instances : run'[i] = "none" /\ lease'[i] = "none"
      /\ crashes' \in 0..MaxCrashes
  BY DEF HostRestarts, SwarmInv, TypeOK, SwarmAssumption
<1>3. /\ listed' \in [Agents -> 0..MaxRuns]
      /\ \A a \in Agents : listed'[a] <= made'[a]
  BY DEF HostRestarts, SwarmInv, TypeOK, SwarmAssumption
<1>4. status' \in [Instances -> Statuses]
  <2>1. \A i \in Instances : Reloaded(i[1]) \in Statuses
    BY InstanceParts DEF Reloaded, SwarmInv, TypeOK, Statuses
  <2>2. QED
    BY <2>1 DEF HostRestarts, Statuses
<1>5. TypeOK'
  <2>1. /\ child' \in [Instances -> {"none", "booting", "listening", "ended", "unstarted"}]
        /\ told' \in [Instances -> BOOLEAN]
    BY DEF HostRestarts, SwarmInv, TypeOK, Alive
  <2>2. QED
    BY <1>1, <1>2, <1>3, <1>4, <2>1 DEF HostRestarts, SwarmInv, TypeOK, SwarmAssumption
<1>6. StatusInv' /\ LeaseInv'
  BY <1>2 DEF StatusInv, LeaseInv
<1>7. TableInv' /\ RecordKept'
  BY <1>1 DEF SwarmInv, TypeOK, TableInv, RecordKept
<1>8. ChildInv'
  <2>1. \A i \in Instances : child'[i] \in {child[i], "none"}
    BY DEF HostRestarts
  <2>2. QED
    BY <1>1, <1>2, <2>1, InstanceParts DEF SwarmInv, ChildInv
<1>9. QED
  BY <1>5, <1>6, <1>7, <1>8 DEF SwarmInv

LEMMA SwarmInvNext == SwarmAssumption /\ SwarmInv /\ [Next]_vars => SwarmInv'
<1> SUFFICES ASSUME SwarmAssumption, SwarmInv, [Next]_vars PROVE SwarmInv'
  OBVIOUS
<1>1. ASSUME NEW i \in Instances, Goroutine(i) \/ Stopping(i) \/ Process(i) \/ StopOne(i)
      PROVE  SwarmInv'
  BY <1>1, RunnerKeeps, StopKeeps
<1>2. ASSUME NEW a \in Agents, Stop(a) \/ Remove(a) \/ Archive(a) \/ DropSource(a)
      PROVE  SwarmInv'
  BY <1>2, StopKeeps, DropKeeps
<1>3. ASSUME NEW a \in Agents, SpawnReq(a) PROVE SwarmInv'
  <2>1. Newcomer(a)
    BY <1>3 DEF SpawnReq, Unspawned, Newcomer, SwarmInv, TypeOK, TableInv, SwarmAssumption
  <2>2. QED
    BY <1>3, <2>1, LaunchKeeps DEF SpawnReq
<1>4. ASSUME NEW a \in Agents, SpawnFails(a) PROVE SwarmInv'
  <2>1. UNCHANGED <<table, status, runner, stopper, stops>>
    BY <1>4 DEF SpawnFails
  <2>2. /\ lease' \in [Instances -> {"none", "held", "back"}]
        /\ \A i \in Instances : lease'[i] = "back" => lease[i] = "back"
    BY <1>4 DEF SpawnFails, SwarmInv, TypeOK
  <2>3. QED
    BY <2>1, <2>2 DEF table, stops, runner, SwarmInv, TypeOK, StatusInv, TableInv, LeaseInv,
       RecordKept, ChildInv, Ended
<1>5. ASSUME NEW a \in Agents, ResumeCheck(a) PROVE SwarmInv'
  <2>1. /\ UNCHANGED <<made, listed, files, archive, dropping, removed, status, runner, stopper,
                       lease, stops>>
        /\ resuming' = [resuming EXCEPT ![a] = resuming[a] + 1]
        /\ listed[a] # 0 /\ made[a] + resuming[a] < MaxRuns
    BY <1>5 DEF ResumeCheck, Settled, Fresh
  <2>2. resuming[a] \in 0..MaxRuns /\ made[a] \in 0..MaxRuns /\ made[a] > 0
    BY <2>1 DEF SwarmInv, TypeOK, TableInv
  <2>3. resuming[a] + 1 \in 0..MaxRuns /\ made[a] + (resuming[a] + 1) <= MaxRuns
    BY <2>1, <2>2 DEF SwarmAssumption
  <2>4. /\ resuming' \in [Agents -> 0..MaxRuns] /\ resuming'[a] = resuming[a] + 1
        /\ \A b \in Agents : b # a => resuming'[b] = resuming[b]
    BY <2>1, <2>3 DEF SwarmInv, TypeOK
  <2>5. TypeOK'
    BY <2>1, <2>4 DEF SwarmInv, TypeOK, runner, stops
  <2>6. StatusInv' /\ LeaseInv' /\ ChildInv'
    BY <2>1 DEF SwarmInv, StatusInv, LeaseInv, ChildInv, Ended, runner
  <2>7. TableInv' /\ RecordKept'
    BY <2>1, <2>2, <2>3, <2>4 DEF SwarmInv, TableInv, RecordKept
  <2>8. QED
    BY <2>5, <2>6, <2>7 DEF SwarmInv
<1>6. ASSUME NEW a \in Agents, ResumeStart(a) PROVE SwarmInv'
  <2>1. Newcomer(a)
    <3>1. resuming[a] \in 0..MaxRuns /\ made[a] \in 0..MaxRuns /\ made[a] + resuming[a] <= MaxRuns
      BY DEF SwarmInv, TypeOK, TableInv
    <3>2. resuming[a] > 0 /\ resuming' = [resuming EXCEPT ![a] = resuming[a] - 1]
      BY <1>6 DEF ResumeStart
    <3>3. made[a] + (resuming[a] - 1) < MaxRuns
      BY <3>1, <3>2 DEF SwarmAssumption
    <3>4. QED
      BY <3>2, <3>3 DEF Newcomer, SwarmInv, TypeOK
  <2>2. QED
    BY <1>6, <2>1, LaunchKeeps DEF ResumeStart
<1>7. CASE UNCHANGED vars
  BY <1>7 DEF vars, table, stops, runner, SwarmInv, TypeOK, StatusInv, TableInv, LeaseInv,
     RecordKept, ChildInv, Ended
<1>8. QED
  BY <1>1, <1>2, <1>3, <1>4, <1>5, <1>6, <1>7, RestartKeeps, StopKeeps DEF Next, Calls

(***************************************************************************)
(* One runner at a time.                                                   *)
(***************************************************************************)
(* What is at rest stays at rest while no instance is launched.            *)
LEMMA LastStays ==
  ASSUME LastOnly, made' = made,
         \A i \in Instances : Ended(i) => Ended(i)',
         \A a \in Agents : resuming'[a] = resuming[a] \/ resuming'[a] = 0
  PROVE  LastOnly'
BY InstanceParts DEF LastOnly

LEMMA RestStays ==
  ASSUME SwarmInv, NEW i \in Instances, Goroutine(i)
  PROVE  \A j \in Instances : Ended(j) => Ended(j)'
BY DEF Goroutine, Begin, Return, Finish, Ended, SwarmInv, TypeOK

LEMMA LaunchLast ==
  ASSUME SwarmAssumption, SwarmInv, LastOnly, NEW a \in Agents, NEW leased, Launch(a, leased),
         Newcomer(a)
  PROVE  LastOnly'
<1>0. /\ made[a] \in 0..MaxRuns /\ \A b \in Agents : resuming[b] \in 0..1
      /\ resuming'[a] = 0 /\ (made[a] = 0 \/ resuming[a] > 0)
      /\ \A b \in Agents : b # a => resuming'[b] = resuming[b]
  <2>1. /\ made[a] \in 0..MaxRuns /\ \A b \in Agents : resuming[b] \in 0..1
        /\ resuming[a] > 0 => made[a] > 0
    BY DEF LastOnly, SwarmInv, TypeOK, TableInv, SwarmAssumption
  <2>2. CASE made[a] = 0 /\ resuming' = resuming
    BY <2>1, <2>2
  <2>3. CASE resuming[a] > 0 /\ resuming' = [resuming EXCEPT ![a] = resuming[a] - 1]
    BY <2>1, <2>3 DEF SwarmInv, TypeOK
  <2>4. QED
    BY <2>1, <2>2, <2>3 DEF Newcomer
<1>1. /\ NextOf(a) = <<a, made[a] + 1>> /\ made[a] + 1 \in 1..MaxRuns /\ NextOf(a) \in Instances
      /\ made' = [made EXCEPT ![a] = made[a] + 1] /\ run' = [run EXCEPT ![NextOf(a)] = "queued"]
  <2>1. made[a] + 1 \in 1..MaxRuns
    BY <1>0 DEF Newcomer, SwarmAssumption
  <2>2. QED
    BY <2>1, InstanceParts DEF Launch, NextOf
<1>2. \A b \in Agents : made'[b] = IF b = a THEN made[a] + 1 ELSE made[b]
  BY <1>1 DEF SwarmInv, TypeOK
<1>3. \A b \in Agents, m \in 1..MaxRuns :
        <<b, m>> # NextOf(a) => Ended(<<b, m>>)' = Ended(<<b, m>>)
  BY <1>1, InstanceParts DEF Ended, SwarmInv, TypeOK
<1>4. \A m \in 1..MaxRuns : Ended(<<a, m>>)
  BY <1>0 DEF LastOnly
<1>5. ASSUME NEW b \in Agents, NEW m \in 1..MaxRuns, m # made'[b] \/ resuming'[b] > 0
      PROVE  Ended(<<b, m>>)'
  <2>1. CASE b = a
    <3>1. <<b, m>> # NextOf(a)
      BY <1>0, <1>1, <1>2, <1>5, <2>1
    <3>2. QED
      BY <1>3, <1>4, <2>1, <3>1
  <2>2. CASE b # a
    <3>1. <<b, m>> # NextOf(a)
      BY <1>1, <2>2
    <3>2. Ended(<<b, m>>)
      BY <1>0, <1>2, <1>5, <2>2 DEF LastOnly
    <3>3. QED
      BY <1>3, <3>1, <3>2
  <2>3. QED
    BY <2>1, <2>2
<1>6. \A b \in Agents : resuming'[b] <= 1
  BY <1>0
<1>7. QED
  BY <1>5, <1>6 DEF LastOnly

LEMMA LastOnlyNext ==
  SwarmAssumption /\ AwaitExit /\ SwarmInv /\ LastOnly /\ [Next]_vars => LastOnly'
<1> SUFFICES ASSUME SwarmAssumption, AwaitExit, SwarmInv, LastOnly, [Next]_vars PROVE LastOnly'
  OBVIOUS
<1> USE DEF table, stops, runner
<1>1. ASSUME UNCHANGED <<made, run, resuming>>
      PROVE  LastOnly'
  BY <1>1, LastStays DEF Ended
<1>2. ASSUME NEW i \in Instances, Goroutine(i) PROVE LastOnly'
  <2>1. UNCHANGED <<made, resuming>>
    BY <1>2 DEF Goroutine, Begin, Return, Finish
  <2>2. QED
    BY <1>2, <2>1, RestStays, LastStays
<1>3. ASSUME NEW i \in Instances, Stopping(i) \/ StopOne(i) PROVE LastOnly'
  BY <1>1, <1>3 DEF Stopping, StopOne, Shutdown, Drained, GraceOver, Cancel, StopFinish
<1>4. ASSUME NEW i \in Instances, Process(i) PROVE LastOnly'
  BY <1>1, <1>4 DEF Process, Listen, ChildEnds, Drain, Kill, Ends
<1>5. ASSUME NEW a \in Agents,
             Stop(a) \/ SpawnFails(a) \/ Remove(a) \/ Archive(a) \/ DropSource(a)
      PROVE  LastOnly'
  BY <1>1, <1>5 DEF Stop, SpawnFails, Remove, Archive, DropSource
<1>6. ASSUME NEW a \in Agents, SpawnReq(a) PROVE LastOnly'
  <2>1. Newcomer(a)
    BY <1>6 DEF SpawnReq, Unspawned, Newcomer, SwarmInv, TypeOK, TableInv, SwarmAssumption
  <2>2. QED
    BY <1>6, <2>1, LaunchLast DEF SpawnReq
<1>7. ASSUME NEW a \in Agents, ResumeStart(a) PROVE LastOnly'
  <2>1. resuming[a] > 0 /\ resuming' = [resuming EXCEPT ![a] = resuming[a] - 1]
    BY <1>7 DEF ResumeStart
  <2>2. resuming[a] \in 0..MaxRuns /\ made[a] \in 0..MaxRuns /\ made[a] + resuming[a] <= MaxRuns
    BY DEF SwarmInv, TypeOK, TableInv
  <2>3. made[a] + (resuming[a] - 1) < MaxRuns
    BY <2>1, <2>2 DEF SwarmAssumption
  <2>4. Newcomer(a)
    BY <2>1, <2>3 DEF Newcomer, SwarmInv, TypeOK
  <2>5. QED
    BY <1>7, <2>4, LaunchLast DEF ResumeStart
<1>8. ASSUME NEW a \in Agents, ResumeCheck(a) PROVE LastOnly'
  <2>1. /\ UNCHANGED <<made, run>> /\ Ended(<<a, made[a]>>) /\ resuming[a] = 0
        /\ resuming' = [resuming EXCEPT ![a] = resuming[a] + 1]
    BY <1>8 DEF ResumeCheck, Settled, Exited, Entry, SwarmInv, TypeOK, TableInv
  <2>2. \A m \in 1..MaxRuns : Ended(<<a, m>>)
    BY <2>1 DEF LastOnly
  <2>3. resuming'[a] = 1 /\ \A b \in Agents : b # a => resuming'[b] = resuming[b]
    BY <2>1 DEF SwarmInv, TypeOK
  <2>4. QED
    BY <2>1, <2>2, <2>3 DEF LastOnly, Ended
<1>9. CASE HostRestarts
  BY <1>9, InstanceParts DEF HostRestarts, LastOnly, Ended
<1>10. CASE StopAll \/ CancelAll \/ UNCHANGED vars
  BY <1>1, <1>10 DEF StopAll, CancelAll, vars
<1>11. QED
  BY <1>2, <1>3, <1>4, <1>5, <1>6, <1>7, <1>8, <1>9, <1>10 DEF Next, Calls

(***************************************************************************)
(* The theorems.                                                           *)
(***************************************************************************)
LEMMA SwarmInvAlways == Spec => []SwarmInv
<1>1. Init => SwarmInv
  BY SwarmAssumption, SwarmInvInit
<1>2. SwarmInv /\ [Next]_vars => SwarmInv'
  BY SwarmAssumption, SwarmInvNext
<1>3. QED
  BY <1>1, <1>2, PTL DEF Spec

(* No restart of the host, archive or revival in any order leaves a spawned *)
(* agent with neither its live nor its archived record: Archive copies,    *)
(* then drops, and only Remove deletes both.                               *)
THEOREM RecordsKept == Spec => []RecordKept
<1>1. SwarmInv => RecordKept
  BY DEF SwarmInv
<1>2. QED
  BY <1>1, SwarmInvAlways, PTL

(* An agent that its host runs and nobody stopped keeps its leased         *)
(* worktree, also from callers that look at the status alone: a status     *)
(* that allows a removal or an archive is a returned runner's or a stop's. *)
THEOREM LeaseKept == Spec => []LeaseLasts
<1>1. SwarmInv => LeaseLasts
  BY DEF SwarmInv, LeaseInv, LeaseLasts, Ended
<1>2. QED
  BY <1>1, SwarmInvAlways, PTL

(* Where revivals wait for the last process to end and take the member's   *)
(* lock (the talkoot's), a host has one process of an agent at the most,   *)
(* whatever else stops, removes, archives and sweeps it by its status.     *)
(* Processes that an earlier host left are not its own, and may run beside *)
(* it.                                                                     *)
THEOREM OneAtATime ==
  ASSUME AwaitExit PROVE Spec => []OneRunner
<1>1. Init => SwarmInv /\ LastOnly
  BY SwarmAssumption, SwarmInvInit
<1>2. SwarmInv /\ LastOnly /\ [Next]_vars => SwarmInv' /\ LastOnly'
  BY SwarmAssumption, AwaitExit, SwarmInvNext, LastOnlyNext
<1>3. SwarmInv /\ LastOnly => OneRunner
  <2> SUFFICES ASSUME SwarmInv, LastOnly, NEW a \in Agents, NEW m \in 1..MaxRuns,
                      AtWork(<<a, m>>), ~Orphan(<<a, m>>)
               PROVE  m = made[a]
    BY DEF OneRunner
  <2>1. ~Ended(<<a, m>>)
    BY InstanceParts DEF AtWork, Alive, Orphan, Ended, SwarmInv, ChildInv
  <2>2. QED
    BY <2>1 DEF LastOnly
<1>4. QED
  BY <1>1, <1>2, <1>3, PTL DEF Spec
=============================================================================
