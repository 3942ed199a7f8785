------------------------------- MODULE Swarm -------------------------------
(***************************************************************************)
(* The supervisor of background agents.  An agent has one entry in the     *)
(* swarm's table and one state directory; each spawn, revival or reload    *)
(* gives the entry a new instance.  An instance with a runner has a child  *)
(* process, a goroutine that runs it to its end, and at most one goroutine *)
(* that stops it: the three run against each other and against the callers *)
(* that remove, archive and revive the entry by what its status says.  A   *)
(* child outlives a host that dies, and no later host knows of it.         *)
(***************************************************************************)
EXTENDS Naturals

CONSTANTS
  Agents,
  MaxRuns,     (* instances an entry may have                              *)
  MaxCrashes,  (* times the host dies and starts again                     *)
  AwaitExit    (* revivals wait for the last process and take a lock       *)

ASSUME SwarmAssumption ==
  MaxRuns \in Nat \ {0} /\ MaxCrashes \in Nat /\ AwaitExit \in BOOLEAN

Instances == Agents \X (1..MaxRuns)

VARIABLES
  made,      (* how many instances each agent has had                      *)
  listed,    (* the instance in the swarm's table; 0 for none              *)
  status,    (* what each instance's status says                           *)
  run,       (* how far its run goroutine is                               *)
  cancelled, (* its context                                                *)
  child,     (* its process                                                *)
  told,      (* the process has been sent a shutdown                       *)
  sock,      (* the instance whose process the agent's inbox reaches; or 0 *)
  stopper,   (* how far the goroutine of a Stop is                         *)
  lease,     (* the worktree leased at its spawn                           *)
  ending,    (* the agent's event log has an end in it                     *)
  files,     (* the agent's state directory is there                       *)
  archive,   (* its archived record is there                               *)
  dropping,  (* an Archive has its record in place and the source to drop  *)
  resuming,  (* callers between a revival's check and its new instance     *)
  removed,   (* somebody asked for the record to be deleted                *)
  toStop,    (* the instances StopAllAndWait has still to stop             *)
  closing,   (* how far StopAllAndWait is                                  *)
  crashes

table  == <<made, listed, archive, files, dropping, resuming, removed>>
stops  == <<toStop, closing, crashes>>
runner == <<run, cancelled, child, told, sock, ending>>
vars   == <<table, status, runner, stopper, lease, stops>>

Init ==
  /\ made = [a \in Agents |-> 0] /\ listed = [a \in Agents |-> 0]
  /\ status = [i \in Instances |-> "none"] /\ run = [i \in Instances |-> "none"]
  /\ cancelled = [i \in Instances |-> FALSE] /\ child = [i \in Instances |-> "none"]
  /\ told = [i \in Instances |-> FALSE] /\ sock = [a \in Agents |-> 0]
  /\ stopper = [i \in Instances |-> "none"] /\ lease = [i \in Instances |-> "none"]
  /\ ending = [a \in Agents |-> FALSE]
  /\ files = [a \in Agents |-> FALSE] /\ archive = [a \in Agents |-> FALSE]
  /\ dropping = [a \in Agents |-> FALSE] /\ resuming = [a \in Agents |-> 0]
  /\ removed = [a \in Agents |-> FALSE]
  /\ toStop = {} /\ closing = "no" /\ crashes = 0

Unfinished == {"running", "pending"}
Entry(a)   == <<a, listed[a]>>
NextOf(a)   == <<a, made[a] + 1>>
Fresh(a)   == made[a] + resuming[a] < MaxRuns
Ended(i)   == run[i] \in {"none", "closed", "over"}
Alive(i)   == child[i] \in {"booting", "listening"}
Orphan(i)  == Alive(i) /\ run[i] = "none"

(***************************************************************************)
(* The run goroutine and the child process.                                *)
(***************************************************************************)
(* A new instance in the table, and the go statement that runs it. *)
Launch(a, leased) ==
  /\ made' = [made EXCEPT ![a] = @ + 1]
  /\ listed' = [listed EXCEPT ![a] = made[a] + 1]
  /\ files' = [files EXCEPT ![a] = TRUE]
  /\ status' = [status EXCEPT ![NextOf(a)] = "pending"]
  /\ run' = [run EXCEPT ![NextOf(a)] = "queued"]
  /\ cancelled' = [cancelled EXCEPT ![NextOf(a)] = closing = "closed"]
  /\ lease' = [lease EXCEPT ![NextOf(a)] = leased]
  /\ UNCHANGED <<child, told, sock, ending, stopper, archive, dropping, removed, stops>>

Unspawned(a) == made[a] = 0 /\ lease[NextOf(a)] = "none"
SpawnReq(a) ==
  /\ Unspawned(a) /\ Launch(a, "held")
  /\ UNCHANGED resuming
(* A spawn that fails after it has its lease: the id is free again, and no *)
(* agent holds the release.                                                *)
SpawnFails(a) ==
  /\ Unspawned(a) /\ lease' = [lease EXCEPT ![NextOf(a)] = "held"]
  /\ UNCHANGED <<table, status, runner, stopper, stops>>

(* run marks the instance running with no look at what its status is now;  *)
(* the start of the process fails under a cancelled context, or by itself. *)
Begin(i) ==
  /\ run[i] = "queued"
  /\ run' = [run EXCEPT ![i] = "running"]
  /\ status' = [status EXCEPT ![i] = "running"]
  /\ \E c \in {"booting", "unstarted"} :
       /\ cancelled[i] => c = "unstarted"
       /\ child' = [child EXCEPT ![i] = c]
  /\ UNCHANGED <<cancelled, told, sock, ending, table, stopper, lease, stops>>

(* The child takes over the socket, whoever listened on it. *)
Listen(i) ==
  /\ child[i] = "booting"
  /\ child' = [child EXCEPT ![i] = "listening"]
  /\ sock' = [sock EXCEPT ![i[1]] = i[2]]
  /\ UNCHANGED <<run, cancelled, told, ending, table, status, stopper, lease, stops>>

(* A process that ends in order closes its listener, and with it unlinks   *)
(* the socket's path, whoever has it by then.  Its host waits for it and   *)
(* logs how it ended; an orphan is waited for by nobody, and logs its own  *)
(* end or dies of the write.                                               *)
Ends(i, orderly) ==
  /\ child' = [child EXCEPT ![i] = IF Orphan(i) THEN "none" ELSE "ended"]
  /\ told' = [told EXCEPT ![i] = FALSE]
  /\ ending' = [ending EXCEPT ![i[1]] = @ \/ (Orphan(i) /\ orderly)]
  /\ IF sock[i[1]] = i[2] \/ (orderly /\ child[i] = "listening")
       THEN sock' = [sock EXCEPT ![i[1]] = 0] ELSE UNCHANGED sock
  /\ UNCHANGED <<run, cancelled, table, status, stopper, lease, stops>>
(* By itself, after a shutdown, or killed. *)
ChildEnds(i) == Alive(i) /\ \E orderly \in BOOLEAN : Ends(i, orderly)
Drain(i)     == child[i] = "listening" /\ told[i] /\ Ends(i, TRUE)
Kill(i)      == Alive(i) /\ cancelled[i] /\ Ends(i, FALSE)

(* The runner returned: it logged the end of a process it had started, and *)
(* run settles the status, "over" for done, failed and killed alike, except *)
(* over a stop's, and closes done.  Nothing reads its process, its inbox   *)
(* or its context from here on.                                            *)
Return(i) ==
  /\ run[i] = "running" /\ child[i] \in {"ended", "unstarted"}
  /\ run' = [run EXCEPT ![i] = "closed"]
  /\ status' = [status EXCEPT ![i] = IF @ = "killed" THEN @ ELSE "over"]
  /\ ending' = [ending EXCEPT ![i[1]] = @ \/ child[i] = "ended"]
  /\ child' = [child EXCEPT ![i] = "none"] /\ cancelled' = [cancelled EXCEPT ![i] = FALSE]
  /\ UNCHANGED <<told, sock, table, stopper, lease, stops>>

(* finish gives the lease back, whoever comes first. *)
Released(i) == [lease EXCEPT ![i] = IF @ = "held" THEN "back" ELSE @]
Finish(i) ==
  /\ run[i] = "closed" /\ run' = [run EXCEPT ![i] = "over"]
  /\ lease' = Released(i)
  /\ UNCHANGED <<cancelled, child, told, sock, ending, table, status, stopper, stops>>

(***************************************************************************)
(* Stop: the status first, then the request, then the wait.                *)
(***************************************************************************)
MarkKilled(i) ==
  /\ status[i] \in Unfinished
  /\ status' = [status EXCEPT ![i] = "killed"]
  /\ stopper' = [stopper EXCEPT ![i] = IF @ \in {"none", "over"} THEN "send" ELSE @]

Stop(a) ==
  /\ listed[a] # 0 /\ MarkKilled(Entry(a))
  /\ UNCHANGED <<runner, table, lease, stops>>

(* The request reaches whichever process listens on the agent's inbox. *)
Shutdown(i) ==
  /\ stopper[i] = "send"
  /\ IF sock[i[1]] # 0
       THEN /\ told' = [told EXCEPT ![<<i[1], sock[i[1]]>>] = TRUE]
            /\ stopper' = [stopper EXCEPT ![i] = "wait"]
       ELSE /\ stopper' = [stopper EXCEPT ![i] = "cancel"] /\ UNCHANGED told
  /\ UNCHANGED <<run, cancelled, child, sock, ending, table, status, lease, stops>>
Drained(i) ==
  /\ stopper[i] = "wait" /\ Ended(i)
  /\ stopper' = [stopper EXCEPT ![i] = "finish"]
  /\ UNCHANGED <<runner, table, status, lease, stops>>
(* Mutant: after the grace the context is left alone. *)
GraceForgets(i) ==
  /\ stopper[i] = "wait" /\ stopper' = [stopper EXCEPT ![i] = "finish"]
  /\ UNCHANGED <<runner, table, status, lease, stops>>
GraceOver(i) ==
  /\ stopper[i] = "wait" /\ stopper' = [stopper EXCEPT ![i] = "cancel"]
  /\ UNCHANGED <<runner, table, status, lease, stops>>
Cancel(i) ==
  /\ stopper[i] = "cancel" /\ stopper' = [stopper EXCEPT ![i] = "finish"]
  /\ cancelled' = [cancelled EXCEPT ![i] = ~Ended(i)]
  /\ UNCHANGED <<run, child, told, sock, ending, table, status, lease, stops>>
StopFinish(i) ==
  /\ stopper[i] = "finish" /\ stopper' = [stopper EXCEPT ![i] = "over"]
  /\ lease' = Released(i)
  /\ UNCHANGED <<runner, table, status, stops>>

(* StopAllAndWait stops what it saw running, waits for them or its bound,  *)
(* and cancels the context every instance's own derives from.              *)
StopAll ==
  /\ closing = "no" /\ closing' = "stopping"
  /\ toStop' = {i \in Instances : listed[i[1]] = i[2] /\ status[i] \in Unfinished}
  /\ UNCHANGED <<table, status, runner, stopper, lease, crashes>>
StopOne(i) ==
  /\ i \in toStop /\ toStop' = toStop \ {i}
  /\ IF listed[i[1]] # 0 /\ status[Entry(i[1])] \in Unfinished
       THEN MarkKilled(Entry(i[1])) ELSE UNCHANGED <<status, stopper>>
  /\ UNCHANGED <<table, runner, lease, closing, crashes>>
CancelAll ==
  /\ closing = "stopping" /\ toStop = {} /\ closing' = "closed"
  /\ cancelled' = [i \in Instances |-> ~Ended(i)]
  /\ UNCHANGED <<run, child, told, sock, ending, table, status, stopper, lease, toStop, crashes>>

(***************************************************************************)
(* Callers that judge by the status: Remove, Archive and its sweep, and    *)
(* Resume.  The talkoot's revivals also wait for the last process to end   *)
(* and take one lock per member; the dashboard's do neither.               *)
(***************************************************************************)
(* Mutant: any listed agent may be removed. *)
SettledIfListed(a) == listed[a] # 0
Settled(a) == listed[a] # 0 /\ status[Entry(a)] \notin Unfinished
(* Mutant: the wait looks at the status alone. *)
ExitedByStatus(a) == Settled(a) /\ resuming[a] = 0
(* The wait is for the entry's done: closed by run, and from the start in  *)
(* an entry that Reload made.                                              *)
Exited(a) == Ended(Entry(a)) /\ resuming[a] = 0

Unlist(a)  == listed' = [listed EXCEPT ![a] = 0]
Remove(a) ==
  /\ Settled(a)
  /\ lease' = Released(Entry(a))
  /\ files' = [files EXCEPT ![a] = FALSE] /\ Unlist(a)
  /\ removed' = [removed EXCEPT ![a] = TRUE]
  /\ UNCHANGED <<made, archive, dropping, resuming, status, runner, stopper, stops>>

(* Mutant: the source is dropped before the record is in place. *)
ArchiveSourceFirst(a) ==
  /\ Settled(a)
  /\ lease' = Released(Entry(a))
  /\ ~archive[a] /\ files[a] /\ files' = [files EXCEPT ![a] = FALSE]
  /\ dropping' = [dropping EXCEPT ![a] = TRUE]
  /\ UNCHANGED <<made, listed, archive, resuming, removed, status, runner, stopper, stops>>
(* Archive gives the lease back before anything can fail; the source goes  *)
(* only after the archived record is in place.                             *)
Archive(a) ==
  /\ Settled(a)
  /\ lease' = Released(Entry(a))
  /\ \/ ~archive[a] /\ files[a] /\ archive' = [archive EXCEPT ![a] = TRUE]
        /\ dropping' = [dropping EXCEPT ![a] = TRUE]
     \/ UNCHANGED <<archive, dropping>>
  /\ UNCHANGED <<made, listed, files, resuming, removed, status, runner, stopper, stops>>
(* Nothing keeps the entry as the archive found it: a caller may have      *)
(* revived it since.                                                       *)
DropSource(a) ==
  /\ dropping[a] /\ dropping' = [dropping EXCEPT ![a] = FALSE]
  /\ files' = [files EXCEPT ![a] = FALSE] /\ Unlist(a)
  /\ UNCHANGED <<made, archive, resuming, removed, status, runner, stopper, lease, stops>>
(* ResumeIn reads the status, then builds and lists a new instance. *)
ResumeCheck(a) ==
  /\ Settled(a) /\ Fresh(a) /\ (AwaitExit => Exited(a))
  /\ resuming' = [resuming EXCEPT ![a] = @ + 1]
  /\ UNCHANGED <<made, listed, files, archive, dropping, removed, status, runner, stopper,
                 lease, stops>>
ResumeStart(a) ==
  /\ resuming[a] > 0 /\ resuming' = [resuming EXCEPT ![a] = @ - 1]
  /\ Launch(a, "none")

(* The host dies, or exits, and starts again.  Its goroutines and contexts *)
(* are gone, the children that work go on as nobody's, a lease's claim     *)
(* reads as stale, and Reload lists every state directory with the status  *)
(* its log ends with.                                                      *)
Reloaded(a) == IF ending[a] THEN "over" ELSE "detached"
HostRestarts ==
  /\ crashes < MaxCrashes /\ crashes' = crashes + 1
  /\ listed' = [a \in Agents |-> IF files[a] THEN made[a] ELSE 0]
  /\ status' = [i \in Instances |->
       IF files[i[1]] /\ made[i[1]] = i[2] THEN Reloaded(i[1]) ELSE "none"]
  /\ run' = [i \in Instances |-> "none"] /\ stopper' = [i \in Instances |-> "none"]
  /\ lease' = [i \in Instances |-> "none"]
  /\ cancelled' = [i \in Instances |-> FALSE]
  /\ child' = [i \in Instances |-> IF Alive(i) THEN child[i] ELSE "none"]
  /\ told' = [i \in Instances |-> Alive(i) /\ told[i]]
  /\ dropping' = [a \in Agents |-> FALSE] /\ resuming' = [a \in Agents |-> 0]
  /\ toStop' = {} /\ closing' = "no"
  /\ UNCHANGED <<made, archive, files, removed, ending, sock>>

Goroutine(i) == \/ Begin(i) \/ Return(i) \/ Finish(i)
Stopping(i)  == \/ Shutdown(i) \/ Drained(i) \/ GraceOver(i) \/ Cancel(i) \/ StopFinish(i)
Process(i)   == \/ Listen(i) \/ ChildEnds(i) \/ Drain(i) \/ Kill(i)
Calls(a)     == \/ SpawnReq(a) \/ SpawnFails(a) \/ Stop(a) \/ Remove(a) \/ Archive(a) \/ DropSource(a)
                \/ ResumeCheck(a) \/ ResumeStart(a)

Next == \/ \E i \in Instances : Goroutine(i) \/ Stopping(i) \/ Process(i) \/ StopOne(i)
        \/ \E a \in Agents : Calls(a)
        \/ StopAll \/ CancelAll \/ HostRestarts

Spec == Init /\ [][Next]_vars

(* The Go runtime schedules a goroutine that can go on, a timer fires, and *)
(* the kernel delivers a kill.                                             *)
Fairness == \A i \in Instances : /\ WF_vars(Goroutine(i)) /\ WF_vars(Kill(i))
                                 /\ WF_vars(Stopping(i))
FairSpec == Spec /\ Fairness

(***************************************************************************)
(* Properties.                                                             *)
(***************************************************************************)
Statuses == {"none", "pending", "running", "over", "killed", "detached"}

(* The shape of the state. *)
TypeOK ==
  /\ made \in [Agents -> 0..MaxRuns] /\ listed \in [Agents -> 0..MaxRuns]
  /\ \A a \in Agents : listed[a] <= made[a]
  /\ status \in [Instances -> Statuses]
  /\ run \in [Instances -> {"none", "queued", "running", "closed", "over"}]
  /\ cancelled \in [Instances -> BOOLEAN] /\ told \in [Instances -> BOOLEAN]
  /\ child \in [Instances -> {"none", "booting", "listening", "ended", "unstarted"}]
  /\ sock \in [Agents -> 0..MaxRuns]
  /\ stopper \in [Instances -> {"none", "send", "wait", "cancel", "finish", "over"}]
  /\ lease \in [Instances -> {"none", "held", "back"}]
  /\ ending \in [Agents -> BOOLEAN]
  /\ files \in [Agents -> BOOLEAN] /\ archive \in [Agents -> BOOLEAN]
  /\ dropping \in [Agents -> BOOLEAN] /\ resuming \in [Agents -> 0..MaxRuns]
  /\ removed \in [Agents -> BOOLEAN] /\ toStop \subseteq Instances
  /\ closing \in {"no", "stopping", "closed"} /\ crashes \in 0..MaxCrashes

(* A host never has two processes of one agent at a time, at one inbox and *)
(* one session: an instance that is queued, runs or has a process is the   *)
(* only one of its agent, but for processes that an earlier host left.     *)
AtWork(i) == run[i] \in {"queued", "running"} \/ Alive(i)
OneRunner == \A a \in Agents, m, n \in 1..MaxRuns :
  AtWork(<<a, m>>) /\ AtWork(<<a, n>>) =>
    m = n \/ Orphan(<<a, m>>) \/ Orphan(<<a, n>>)

(* workspace_talkoot_worker.go: the wait before a revival is for "the last *)
(* process of member's seated worker to end", whichever host started it.   *)
LastEnded == \A a \in Agents, m, n \in 1..MaxRuns :
  AtWork(<<a, m>>) /\ AtWork(<<a, n>>) => m = n

(* swarm.go, Config: a lease's release "is called exactly once when the    *)
(* agent reaches a terminal state", so a lease held is some agent's.       *)
LeaseHasAgent == \A i \in Instances : lease[i] = "held" => run[i] # "none"

(* A spawned agent works in its own leased tree for as long as its host    *)
(* runs it unstopped: no other path to finish gives the lease back.        *)
LeaseLasts == \A i \in Instances :
  run[i] = "running" /\ stopper[i] = "none" => lease[i] # "back"

(* An agent's record is on disk, live or archived, until somebody asks for *)
(* it to be deleted, whatever step of an archive the host dies in.         *)
RecordKept == \A a \in Agents : made[a] > 0 => files[a] \/ archive[a] \/ removed[a]

(* A stop ends: the runner returns, whatever the child does about the      *)
(* request and whichever process read it.  The lease comes back once the   *)
(* agent has ended or was stopped.                                         *)
StopEnds == \A i \in Instances :
  /\ stopper[i] = "send" ~> Ended(i)
  /\ lease[i] = "held" /\ (run[i] = "closed" \/ stopper[i] # "none") ~> lease[i] # "held"

(* retention.go: a terminal status "can no longer change on its own", so a *)
(* stopped agent is not reported running again.                            *)
StopSticks == [][\A i \in Instances : status[i] = "killed" => status'[i] # "running"]_vars
=============================================================================
