---------------------------- MODULE SessionTurns ----------------------------
(***************************************************************************)
(* The turn slot and the pending queue of one workspace session: every     *)
(* goroutine that prompts, queues, cancels or compacts the session, and    *)
(* the turn goroutine from the claim of the slot to the restart with the   *)
(* next queued text.  A step is what runs under one hold of wsSession.mu   *)
(* (or of the agent's mutex); what the code does between two holds is      *)
(* where the other goroutines get in.                                      *)
(***************************************************************************)
EXTENDS Lists

CONSTANTS
  Threads,     (* goroutines; a caller that starts a turn goes on as that turn *)
  Texts,       (* the texts that may be sent, each at most once                *)
  Deliveries,  (* the texts among them that a talkoot router delivers          *)
  None,        (* no thread, no text                                           *)
  Ops,         (* the client verbs in use                                      *)
  Faults,      (* what the environment may do to a turn                        *)
  MaxSteps,    (* the agent's step limit (maxSteps)                            *)
  MaxPops      (* how many times a client edits the queue                      *)

ASSUME TurnAssumption ==
  /\ Deliveries \subseteq Texts
  /\ None \notin Threads \cup Texts
  /\ MaxSteps \in Nat \ {0} /\ MaxPops \in Nat

VARIABLES
  pc,          (* where each goroutine is                                      *)
  th,          (* what it carries                                              *)
  turn,        (* the goroutine whose turn holds the slot (turnCancel # nil)   *)
  compacting,  (* a compaction marks the session busy                          *)
  running,     (* the holder of the agent's single-flight guard                *)
  queued,      (* the agent's pending queue                                    *)
  taken,       (* what the running turn took from it and has yet to record     *)
  perr,        (* the latched storage failure                                  *)
  log,         (* the user messages recorded in the transcript, in order       *)
  unsent,      (* texts nobody has sent yet                                    *)
  gone,        (* how a text left other than by being recorded                 *)
  edit,        (* a client's copy of the queue, and the edits it has left      *)
  stale        (* texts queued when their turn was interrupted, and how late   *)

sess == <<turn, compacting, running, queued, perr>>
hist == <<log, unsent, gone>>
vars == <<pc, th, sess, taken, hist, edit, stale>>

(* A goroutine: the text it carries,     what a refused claim falls back to, *)
(* the context and the error of its turn, whether the turn's own message is  *)
(* still the last thing that happened to the transcript, whether the request *)
(* was already retried once, the steps taken, endTurn's verdict.             *)
Blank == [text |-> None, from |-> "none", ctx |-> "live",
          err |-> "none", alone |-> FALSE, again |-> FALSE, steps |-> 0,
          failed |-> FALSE]

(* Where a thread owns a text that is in no other place. *)
Carrying == {"claim", "chatqueue", "again", "front", "preturn", "record"}
(* From the claim of the slot to its release. *)
InTurn == {"preturn", "record", "boundary", "inject", "step", "close", "release",
           "endcheck", "endturn"}
(* Inside promptExtra's single-flight. *)
InAgent == {"boundary", "inject", "step", "close", "release"}

Busy == turn # None \/ compacting

Init == /\ pc = [t \in Threads |-> "idle"] /\ th = [t \in Threads |-> Blank]
        /\ turn = None /\ compacting = FALSE /\ running = None
        /\ queued = <<>> /\ taken = <<>> /\ perr = FALSE
        /\ log = <<>> /\ unsent = Texts /\ gone = [x \in Texts |-> "no"]
        /\ edit = [mirror |-> <<>>, left |-> MaxPops]
        /\ stale = [x \in Texts |-> "no"]

(***************************************************************************)
(* Helpers on one thread.                                                  *)
(***************************************************************************)
At(t, p)   == pc[t] = p
Move(t, p) == pc' = [pc EXCEPT ![t] = p]
Goto(t, p) == Move(t, p) /\ UNCHANGED th
Stop(t)    == Move(t, "idle") /\ th' = [th EXCEPT ![t] = Blank]
Claim(t, x, f) == /\ Move(t, "claim")
                  /\ th' = [th EXCEPT ![t] = [Blank EXCEPT !.text = x, !.from = f]]
Leave(S, e) == gone' = [x \in Texts |-> IF x \in S THEN e ELSE gone[x]]
(* A durable write may latch the failure, and never clears it. *)
Writes == IF "storage" \in Faults THEN perr' \in {perr, TRUE} ELSE perr' = perr
(* The run returns e and promptExtra is about to release the guard. *)
Return(t, e) == Move(t, "release") /\ th' = [th EXCEPT ![t].err = e]

(***************************************************************************)
(* Clients.                                                                *)
(***************************************************************************)
(* The part of queue() under s.mu: behind a busy session the text waits;   *)
(* on an idle one the oldest waiting text starts the turn.                 *)
EnqueueOrStart(t, x) ==
  \/ /\ Busy
     /\ queued' = Append(queued, x)
     /\ Stop(t)
  \/ /\ ~Busy /\ queued # <<>>
     /\ queued' = Append(Tail(queued), x)
     /\ Claim(t, Head(queued), "front")
  \/ /\ ~Busy /\ queued = <<>>
     /\ Claim(t, x, "again")
     /\ UNCHANGED queued

Send(t, x) == At(t, "idle") /\ x \in unsent /\ unsent' = unsent \ {x}

(* Workspace.Prompt: a refusal is the caller's to show. *)
Prompt(t, x) ==
  /\ "prompt" \in Ops /\ x \notin Deliveries
  /\ Send(t, x)
  /\ Claim(t, x, "client")
  /\ UNCHANGED <<sess, log, gone, edit, stale, taken>>

(* chatWsHost.SubmitOrQueue: a refusal falls back to queue(). *)
SubmitOrQueue(t, x) ==
  /\ "chat" \in Ops /\ x \notin Deliveries
  /\ Send(t, x)
  /\ Claim(t, x, "chatqueue")
  /\ UNCHANGED <<sess, log, gone, edit, stale, taken>>

(* Workspace.Queue, and a talkoot delivery. *)
Queue(t, x) ==
  /\ "queue" \in Ops
  /\ Send(t, x)
  /\ EnqueueOrStart(t, x)
  /\ UNCHANGED <<turn, compacting, running, perr, log, gone, edit, stale, taken>>

(* interruptTurn ("user") and cancelTurn ("drain").  It finds no context to *)
(* cancel when no turn holds the slot.                                      *)
Cancel(cause) ==
  /\ cause \in Ops
  /\ turn # None /\ th[turn].ctx = "live"
  /\ th' = [th EXCEPT ![turn].ctx = cause]
  /\ stale' = [x \in Texts |->
       IF x \in Elems(queued) \ Deliveries
       THEN (IF At(turn, "endturn") THEN "late" ELSE "yes") ELSE stale[x]]
  /\ UNCHANGED <<pc, sess, taken, hist, edit>>

(* A client that mirrors the queue copies the list it will edit ...        *)
MirrorQueue ==
  /\ edit.left > 0 /\ queued # <<>> /\ edit.mirror # queued
  /\ edit' = [edit EXCEPT !.mirror = queued]
  /\ UNCHANGED <<pc, th, sess, taken, hist, stale>>

(* ... and commits it without its last text, over whatever is queued now.  *)
SetQueue ==
  /\ edit.mirror # <<>>
  /\ LET n == Len(edit.mirror)
     IN /\ queued' = SubSeq(edit.mirror, 1, n - 1)
        /\ Leave((Elems(queued) \cup {edit.mirror[n]}) \ Elems(queued'), "edited")
  /\ edit' = [mirror |-> <<>>, left |-> edit.left - 1]
  /\ UNCHANGED <<pc, th, turn, compacting, running, perr, taken, log, unsent, stale>>

(* Workspace.Compact. *)
Compact(t) ==
  /\ "compact" \in Ops
  /\ At(t, "idle") /\ ~perr /\ ~Busy
  /\ compacting' = TRUE
  /\ Goto(t, "compacting")
  /\ UNCHANGED <<turn, running, queued, perr, hist, edit, stale, taken>>

(***************************************************************************)
(* Claiming the slot, and what a refused claim does with its text.         *)
(***************************************************************************)
(* Mutant: the busy check as it was before compactions counted as busy.    *)
BeginTurnMidCompaction(t) ==
  /\ At(t, "claim") /\ ~perr /\ turn = None
  /\ turn' = t
  /\ Goto(t, "preturn")
  /\ UNCHANGED <<compacting, running, queued, perr, hist, edit, stale, taken>>

BeginTurn(t) ==
  /\ At(t, "claim") /\ ~perr /\ ~Busy
  /\ turn' = t
  /\ Goto(t, "preturn")
  /\ UNCHANGED <<compacting, running, queued, perr, hist, edit, stale, taken>>

Refused(t) ==
  /\ At(t, "claim") /\ (perr \/ Busy)
  /\ \/ /\ th[t].from = "client"
        /\ Leave({th[t].text}, "refused")
        /\ Stop(t)
     \/ /\ th[t].from \in {"chatqueue", "again", "front"}
        /\ Goto(t, th[t].from)
        /\ UNCHANGED gone
  /\ UNCHANGED <<sess, log, unsent, edit, stale, taken>>

Requeue(t) ==
  /\ \/ At(t, "front") /\ queued' = <<th[t].text>> \o queued
     \/ At(t, "again") /\ queued' = Append(queued, th[t].text)
  /\ Stop(t)
  /\ UNCHANGED <<turn, compacting, running, perr, hist, edit, stale, taken>>

ChatQueue(t) ==
  /\ At(t, "chatqueue")
  /\ EnqueueOrStart(t, th[t].text)
  /\ UNCHANGED <<turn, compacting, running, perr, hist, edit, stale, taken>>

(***************************************************************************)
(* The turn: PromptWithPolicyExtra, promptExtra, runLoop.                  *)
(***************************************************************************)
(* The text a turn would lose by ending before it is in the transcript. *)
Unrecorded(t) == IF th[t].again THEN {} ELSE {th[t].text}
Compacts(t) == "precompact" \in Faults \/ th[t].again

(* Compaction before the turn runs before the text is recorded: a cancel   *)
(* there ends the turn, and so does a workspace that is closing.           *)
PreTurn(t) ==
  /\ At(t, "preturn")
  /\ \/ /\ Goto(t, "record")
        /\ IF Compacts(t) THEN Writes ELSE UNCHANGED perr
        /\ UNCHANGED gone
     \/ /\ \/ Compacts(t) /\ th[t].ctx # "live"
           \/ "closing" \in Faults /\ ~th[t].again
        /\ Move(t, "endcheck") /\ th' = [th EXCEPT ![t].err = "cancelled"]
        /\ Leave(Unrecorded(t), "lost")
        /\ UNCHANGED perr
  /\ UNCHANGED <<turn, compacting, running, queued, log, unsent, edit, stale, taken>>

(* promptExtra up to runLoop: the latch, the user_message guard, the record. *)
RecordPrompt(t) ==
  /\ At(t, "record")
  /\ \/ /\ perr
        /\ Move(t, "endcheck") /\ th' = [th EXCEPT ![t].err = "storage"]
        /\ Leave(Unrecorded(t), "lost")
        /\ UNCHANGED <<running, log, perr>>
     \/ /\ ~perr /\ "reject" \in Faults
        /\ Goto(t, "endcheck")
        /\ Leave(Unrecorded(t), "rejected")
        /\ UNCHANGED <<running, log, perr>>
     \/ /\ ~perr
        /\ running' = t
        /\ log' = Append(log, th[t].text)
        /\ Move(t, "boundary")
        /\ th' = [th EXCEPT ![t].alone = TRUE, ![t].steps = 0]
        /\ Writes
        /\ UNCHANGED gone
  /\ UNCHANGED <<turn, compacting, queued, unsent, edit, stale, taken>>

(* Mutant: the latch is not looked at before the drain. *)
BoundaryUnlatched(t) ==
  /\ At(t, "boundary") /\ th[t].steps < MaxSteps
  /\ taken' = queued /\ queued' = <<>>
  /\ Move(t, IF queued = <<>> THEN "step" ELSE "inject")
  /\ th' = [th EXCEPT ![t].steps = @ + 1]
  /\ UNCHANGED <<turn, compacting, running, perr, hist, edit, stale>>

(* The top of runLoop's step: the limit, the latch, the drained queue. *)
Boundary(t) ==
  /\ At(t, "boundary")
  /\ \/ /\ th[t].steps = MaxSteps
        /\ Return(t, "failed")
        /\ UNCHANGED <<queued, taken>>
     \/ /\ th[t].steps < MaxSteps /\ perr
        /\ Return(t, "storage")
        /\ UNCHANGED <<queued, taken>>
     \/ /\ th[t].steps < MaxSteps /\ ~perr
        /\ taken' = queued /\ queued' = <<>>
        /\ Move(t, IF queued = <<>> THEN "step" ELSE "inject")
        /\ th' = [th EXCEPT ![t].steps = @ + 1]
  /\ UNCHANGED <<turn, compacting, running, perr, hist, edit, stale>>

(* appendQueuedAsUser, text by text: the guard, the transcript, the row.   *)
(* It does not look at the latch again.                                    *)
Inject(t) ==
  /\ At(t, "inject")
  /\ \/ /\ "reject" \in Faults
        /\ Leave({Head(taken)}, "rejected")
        /\ UNCHANGED <<th, log, perr>>
     \/ /\ log' = Append(log, Head(taken))
        /\ th' = [th EXCEPT ![t].alone = FALSE]
        /\ Writes
        /\ UNCHANGED gone
  /\ taken' = Tail(taken)
  /\ Move(t, IF Tail(taken) = <<>> THEN "step" ELSE "inject")
  /\ UNCHANGED <<turn, compacting, running, queued, unsent, edit, stale>>

(* One model request and its tools, by what it leaves behind. *)
Step(t) ==
  /\ At(t, "step")
  /\ \/ /\ perr                                       \* the latch, before the request
        /\ Return(t, "storage")
        /\ UNCHANGED <<perr, running>>
     \/ /\ ~perr /\ "reject" \in Faults               \* turn blocked by extension guard
        /\ Return(t, "none")
        /\ UNCHANGED <<perr, running>>
     \/ /\ ~perr                                      \* a final reply, or tool results
        /\ \/ Move(t, "close") /\ th' = [th EXCEPT ![t].alone = FALSE]
           \/ /\ th[t].ctx = "live"
              /\ Move(t, "boundary") /\ th' = [th EXCEPT ![t].alone = FALSE]
           \/ /\ th[t].ctx # "live"
              /\ Move(t, "release")
              /\ th' = [th EXCEPT ![t].alone = FALSE, ![t].err = "cancelled"]
        /\ Writes
        /\ UNCHANGED running
     \/ /\ ~perr /\ (th[t].ctx # "live" \/ "fail" \in Faults)
        /\ Move(t, "release")
        /\ \E kept \in BOOLEAN :                      \* partial text may be kept
             th' = [th EXCEPT ![t].alone = @ /\ ~kept,
                      ![t].err = IF th[t].ctx = "live" THEN "failed" ELSE "cancelled"]
        /\ Writes                                     \* with the rows of retries
        /\ UNCHANGED running
     \/ /\ ~perr /\ "oversize" \in Faults /\ th[t].ctx = "live" /\ ~th[t].again
        /\ Move(t, "preturn") /\ th' = [th EXCEPT ![t].again = TRUE]
        /\ running' = None                            \* compacted, prompted once more
        /\ Writes
  /\ UNCHANGED <<turn, compacting, queued, hist, edit, stale, taken>>

(* A text queued while the model spoke keeps the loop going. *)
Close(t) ==
  /\ At(t, "close")
  /\ \/ /\ perr /\ Return(t, "storage")
     \/ /\ ~perr /\ th[t].ctx = "live" /\ queued # <<>> /\ Goto(t, "boundary")
     \/ /\ ~perr /\ ~(th[t].ctx = "live" /\ queued # <<>>) /\ Return(t, "none")
  /\ UNCHANGED <<sess, hist, edit, stale, taken>>

(* promptExtra after runLoop: an interrupted prompt nothing followed is    *)
(* taken back out; the deferred release frees the guard.                   *)
Release(t) ==
  /\ At(t, "release")
  /\ running' = None
  /\ Goto(t, "endcheck")
  /\ \/ /\ th[t].ctx = "user" /\ th[t].alone
        /\ log' = SubSeq(log, 1, Len(log) - 1)
        /\ Leave({th[t].text}, "withdrawn")
        /\ Writes
     \/ /\ ~(th[t].ctx = "user" /\ th[t].alone)
        /\ UNCHANGED <<log, gone, perr>>
  /\ UNCHANGED <<turn, compacting, queued, unsent, edit, stale, taken>>

(***************************************************************************)
(* Settling the turn.                                                      *)
(***************************************************************************)
(* Mutant: a cancel that comes back clean does not count as a failure.     *)
EndCheckByError(t) ==
  /\ At(t, "endcheck")
  /\ Move(t, "endturn")
  /\ th' = [th EXCEPT ![t].failed = th[t].err # "none"]
  /\ UNCHANGED <<sess, hist, edit, stale, taken>>

(* endTurn decides whether the turn failed before it takes s.mu. *)
EndCheck(t) ==
  /\ At(t, "endcheck")
  /\ Move(t, "endturn")
  /\ th' = [th EXCEPT ![t].failed = th[t].err # "none" \/ th[t].ctx # "live"]
  /\ UNCHANGED <<sess, hist, edit, stale, taken>>

(* Mutant: a failed turn drops the whole queue. *)
KeptNone == <<>>

(* talkootReads.split: the deliveries no turn has read stay queued. *)
Kept == Filter(queued, Deliveries \ Elems(log))

(* A turn that came back clean and starts no other may condense. *)
Rest(t) ==
  \/ Stop(t)
  \/ /\ "autocompact" \in Ops /\ th[t].err = "none"
     /\ Move(t, "compact") /\ th' = [th EXCEPT ![t] = Blank]

EndTurn(t) ==
  /\ At(t, "endturn")
  /\ turn' = None
  /\ \/ /\ perr
        /\ Rest(t)
        /\ UNCHANGED <<queued, gone>>
     \/ /\ ~perr /\ th[t].failed
        /\ queued' = Kept
        /\ Leave(Elems(queued) \ Elems(Kept), "dropped")
        /\ Rest(t)
     \/ /\ ~perr /\ ~th[t].failed /\ queued # <<>>
        /\ queued' = Tail(queued)
        /\ Claim(t, Head(queued), "front")
        /\ UNCHANGED gone
     \/ /\ ~perr /\ ~th[t].failed /\ queued = <<>>
        /\ Rest(t)
        /\ UNCHANGED <<queued, gone>>
  /\ UNCHANGED <<compacting, running, perr, log, unsent, edit, stale, taken>>

(* The opportunistic compaction after a turn loses to a client's prompt. *)
CompactAfterTurn(t) ==
  /\ At(t, "compact")
  /\ \/ /\ perr \/ Busy
        /\ Stop(t)
        /\ UNCHANGED compacting
     \/ /\ ~perr /\ ~Busy
        /\ compacting' = TRUE
        /\ Goto(t, "compacting")
  /\ UNCHANGED <<turn, running, queued, perr, hist, edit, stale, taken>>

(* CompactWith holds the agent's guard while it summarizes. *)
Summarize(t) ==
  /\ \/ /\ At(t, "compacting")
        /\ running' = t
        /\ Goto(t, "summarizing")
        /\ UNCHANGED perr
     \/ /\ At(t, "summarizing")
        /\ running' = None
        /\ Goto(t, "endcompact")
        /\ Writes
  /\ UNCHANGED <<turn, compacting, queued, hist, edit, stale, taken>>

(* Mutant: the compaction ends without settling the queue behind it.       *)
EndCompactingNoDrain(t) ==
  /\ At(t, "endcompact")
  /\ compacting' = FALSE
  /\ Stop(t)
  /\ UNCHANGED <<turn, running, queued, perr, hist, edit, stale, taken>>

EndCompacting(t) ==
  /\ At(t, "endcompact")
  /\ compacting' = FALSE
  /\ \/ /\ queued = <<>>
        /\ Stop(t)
        /\ UNCHANGED queued
     \/ /\ queued # <<>>
        /\ queued' = Tail(queued)
        /\ Claim(t, Head(queued), "front")
  /\ UNCHANGED <<turn, running, perr, hist, edit, stale, taken>>

(***************************************************************************)
(* The specification.                                                      *)
(***************************************************************************)
Client == \/ \E t \in Threads, x \in Texts : Prompt(t, x) \/ SubmitOrQueue(t, x) \/ Queue(t, x)
          \/ \E t \in Threads : Compact(t)
          \/ \E cause \in {"user", "drain"} : Cancel(cause)
          \/ MirrorQueue \/ SetQueue

Work(t) == \/ BeginTurn(t) \/ Refused(t) \/ Requeue(t) \/ ChatQueue(t)
           \/ PreTurn(t) \/ RecordPrompt(t) \/ Boundary(t) \/ Inject(t) \/ Step(t)
           \/ Close(t) \/ Release(t) \/ EndCheck(t) \/ EndTurn(t)
           \/ CompactAfterTurn(t) \/ Summarize(t) \/ EndCompacting(t)

Next == Client \/ \E t \in Threads : Work(t)

Spec == Init /\ [][Next]_vars

(* A goroutine that can run does run; no client has to do anything. *)
FairSpec == Spec /\ \A t \in Threads : WF_vars(Work(t))

(***************************************************************************)
(* Properties.                                                             *)
(***************************************************************************)
Where == {"idle", "compact", "compacting", "summarizing", "endcompact"} \cup Carrying \cup InTurn
Fates == {"no", "refused", "rejected", "withdrawn", "dropped", "lost", "edited"}

Thread == [text : Texts \cup {None},
           from : {"none", "client", "chatqueue", "again", "front"},
           ctx : {"live", "user", "drain"},
           err : {"none", "failed", "cancelled", "storage"},
           alone : BOOLEAN, again : BOOLEAN, steps : 0..MaxSteps, failed : BOOLEAN]

(* Every variable has its type. *)
TypeOK == /\ pc \in [Threads -> Where] /\ th \in [Threads -> Thread]
          /\ turn \in Threads \cup {None} /\ running \in Threads \cup {None}
          /\ compacting \in BOOLEAN /\ perr \in BOOLEAN
          /\ queued \in Seq(Texts) /\ taken \in Seq(Texts) /\ log \in Seq(Texts)
          /\ unsent \in SUBSET Texts /\ gone \in [Texts -> Fates]
          /\ edit \in [mirror : Seq(Texts), left : 0..MaxPops]
          /\ stale \in [Texts -> {"no", "yes", "late"}]

(* The slot, the compacting mark and the agent's guard agree: one turn or  *)
(* one compaction at a time, and whoever is about to ask the agent for its *)
(* single-flight finds it free, so a claimed turn is never refused.        *)
OneAtATime ==
  /\ \A t \in Threads : pc[t] \in InTurn <=> turn = t
  /\ compacting <=> \E t \in Threads : pc[t] \in {"compacting", "summarizing", "endcompact"}
  /\ \A t \in Threads : pc[t] \in {"record", "compacting"} => running = None
  /\ turn # None => ~compacting

(* A text that was waiting when a person or a drain stopped the turn never *)
(* starts a turn of its own afterwards, when the cancel came before the    *)
(* turn's end was decided.                                                 *)
NoStaleStart ==
  \A t \in Threads : pc[t] \in InTurn => stale[th[t].text] # "yes"

(* The comment on endTurn knows no such exception: "stale follow-ups must  *)
(* not fire after an interrupt".                                           *)
NoStaleStartEver ==
  \A t \in Threads : pc[t] \in InTurn => stale[th[t].text] = "no"

(* The restart's comment: a text that lost the race for the slot is put    *)
(* back "so the new turn's first safe boundary delivers it instead of      *)
(* losing it": no text sits in the queue of a session where nothing runs.  *)
NothingStranded ==
  (~perr /\ \A t \in Threads : pc[t] = "idle") => \A x \in Elems(queued) : x \in Deliveries

(* A delivery that no turn has read stays available to the member: it is   *)
(* not lost with a turn that was stopped ("its sender cannot see a drop"). *)
DeliveryKept == \A x \in Deliveries : gone[x] \notin {"lost", "dropped"}

(* "Keep unsent input available for recovery": a storage failure loses no  *)
(* text the session had taken.                                             *)
UnsentInputKept == perr => \A x \in Texts : gone[x] # "lost"

(* "Editing or cancelling queued messages before they inject": no edit     *)
(* brings a text back that a turn has already read.                        *)
RecordedOnce == \A i, j \in 1..Len(log) : log[i] = log[j] => i = j

(* Once a write failed, the queue is left alone: no text is taken out of   *)
(* it to be recorded, and none is dropped.  What a boundary had taken      *)
(* before the failure still goes into the transcript, and only that does.  *)
LatchStops ==
  [][perr => /\ Elems(taken') \subseteq Elems(taken)
             /\ Elems(log') \subseteq Elems(log) \cup Elems(taken)
             /\ \A x \in Texts : gone'[x] = "dropped" => gone[x] = "dropped"]_vars

(* What the session promises about each text, step by step. *)
Pending == Elems(queued) \cup Elems(taken) \cup
           {th[t].text : t \in {u \in Threads : pc[u] \in Carrying /\ ~th[u].again}}
Fate == INSTANCE PromptFate WITH pending <- Pending, Ends <- Fates \ {"no", "withdrawn"}
FateSpec == Fate!Spec

(* ShiftQueuedMessage: the queue is consumed "in submission order".  A text *)
(* is never recorded while one that waited in front of it still waits.     *)
Before(x, y) == \E i, j \in 1..Len(queued) : i < j /\ queued[i] = x /\ queued[j] = y
InOrder ==
  \A x, y \in Texts :
    [](Before(x, y) => [](y \in Elems(log) => x \notin Pending))

(* A text that waits behind a turn or a compaction leaves the queue: it is *)
(* read at a boundary, starts a turn, or is dropped with a failed one.     *)
QueuedLeaves ==
  \A x \in Texts \ Deliveries :
    (Busy /\ x \in Elems(queued)) ~> (x \notin Elems(queued) \/ perr)
=============================================================================
