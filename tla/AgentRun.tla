------------------------------ MODULE AgentRun ------------------------------
(***************************************************************************)
(* One run of the agent (core.Agent.runLoop) and the two copies of its     *)
(* conversation: the live transcript in memory and the one its session     *)
(* file folds to.  The run thread appends to both, asks the provider,      *)
(* abandons attempts it retries, runs tool calls a person may have to      *)
(* approve, and condenses the transcript; the person queues texts, stops   *)
(* the run or answers an approval at any moment, a write may fail, and the *)
(* process may die between any two steps.                                  *)
(***************************************************************************)
EXTENDS Integers, Sequences

CONSTANTS
  Verbs,       (* how runs are started: see Begin                             *)
  Fates,       (* how a provider request may end, beside being cancelled      *)
  People,      (* what a person may do to a run: "queue", "unqueue", "cancel"   *)
  Faults,      (* "disk": a write may fail; "crash": the process may die      *)
  MaxRuns,     (* runs started in one behaviour                               *)
  MaxSteps,    (* Agent.maxSteps: requests answered in one run                *)
  MaxRetries,  (* Agent.maxRetries                                            *)
  MaxImages,   (* images a run can drop from the transcript                   *)
  MaxCalls,    (* tool calls in one reply                                     *)
  MaxTexts,    (* messages there may be when a text is queued                 *)
  KeepTail     (* messages a compaction keeps word for word                   *)

ASSUME RunAssumption ==
  /\ {MaxRuns, MaxSteps, MaxRetries, MaxImages, MaxCalls, MaxTexts, KeepTail} \subseteq Nat
  /\ MaxSteps > 0

VARIABLES
  live,    (* Agent.messages                                                  *)
  disk,    (* what a reload would fold the session file to                    *)
  minted,  (* the last id handed out; an abandoned attempt gives its id back  *)
  touched, (* Agent.rev moved since the run's own prompt was appended         *)
  perr,    (* the persistence latch                                           *)
  ctx,     (* the run's context: "live", or who cancelled it                  *)
  queue,   (* texts waiting for the next safe boundary                        *)
  ran,     (* the tool calls that had their effect: <<reply, position>>       *)
  runs,    (* runs started                                                    *)
  pc, r    (* where the run thread is, and what it knows                      *)

vars == <<live, disk, minted, touched, perr, ctx, queue, ran, runs, pc, r>>

(* "user" covers every message of that role: prompts, queued texts, gate   *)
(* nudges and compaction summaries.  A "directed" line is the author's,    *)
(* written in the assistant's role.                                        *)
Roles   == {"user", "directed", "reply", "tool"}
Message == [id : Nat, role : Roles, calls : Nat]
Say(role, n, k) == [id |-> n, role |-> role, calls |-> k]
Spoken(m)   == m.role \in {"reply", "directed"}   (* provider.RoleAssistant *)
Authored(m) == m.role \in {"user", "directed"}    (* isAuthoredLine         *)

(* A run: its verb, the prompt it appended, the step it is at,             *)
(* the attempt, the images dropped, the reply under way (fate, stop, calls,*)
(* and what became of it in memory), the position and the message a        *)
(* continue run left for its host, the next call, whether the gate at the  *)
(* close fired, whether compaction is armed.                               *)
NoRun == [verb |-> "none", own |-> 0, step |-> 1, attempt |-> 0, images |-> 0,
          fate |-> "ok", stop |-> "end", calls |-> 0, kept |-> "no", merged |-> 0,
          stash |-> Say("user", 0, 0), call |-> 1, nudged |-> FALSE, armed |-> TRUE]

Init == /\ live = <<>> /\ disk = <<>> /\ minted = 0 /\ touched = FALSE /\ perr = FALSE
        /\ ctx = "live" /\ queue = 0 /\ ran = {} /\ runs = 0
        /\ pc = "idle" /\ r = NoRun

At(p)   == pc = p
Goto(p) == pc' = p
Prefix(s, n) == SubSeq(s, 1, n)
Without(s, i) == SubSeq(s, 1, i - 1) \o SubSeq(s, i + 1, Len(s))
Prefill == r.verb = "continue"

(* A durable write.  A failed one latches and may have landed as any of    *)
(* torn; after the latch the session writes nothing.  A row that is no     *)
(* message (usage, a retry, a dropped image) leaves disk as it is.         *)
Save(new, torn) ==
  \/ perr /\ UNCHANGED <<disk, perr>>
  \/ ~perr /\ disk' = new /\ UNCHANGED perr
  \/ ~perr /\ "disk" \in Faults /\ perr' = TRUE /\ disk' \in torn

Note == Save(disk, {disk})

(* Append in memory, then on disk, one message after another. *)
Record(ms) ==
  /\ live' = live \o ms /\ minted' = minted + Len(ms)
  /\ Save(disk \o ms, {disk \o Prefix(ms, n) : n \in 0..Len(ms)})
Begin(v) == /\ v \in Verbs /\ At("idle") /\ ~perr /\ runs < MaxRuns
            /\ runs' = runs + 1 /\ UNCHANGED <<ctx, queue, ran>>
Started(v) == Goto("top") /\ r' = [NoRun EXCEPT !.verb = v]
Halted     == Goto("idle") /\ r' = NoRun
Leave      == /\ Goto("end")   (* all the ways out of the loop meet at Finish *)
              /\ r' = [NoRun EXCEPT !.verb = r.verb, !.own = r.own,
                                    !.merged = r.merged, !.stash = r.stash]

(***************************************************************************)
(* The verbs that start a run, and the one that only writes a line.        *)
(***************************************************************************)
Prompt ==
  /\ Begin("prompt") /\ Record(<<Say("user", minted + 1, 0)>>) /\ touched' = FALSE
  /\ Goto("top") /\ r' = [NoRun EXCEPT !.verb = "prompt", !.own = minted + 1]

(* The response is what follows the last line the author wrote; its        *)
(* retraction is durable before the live transcript is cut.                *)
Response(i) == Authored(live[i]) /\ \A j \in i + 1..Len(live) : ~Authored(live[j])
RetryTurn ==
  \E i \in 1..Len(live) - 1 :
    LET kept == IF i <= Len(disk) THEN Prefix(disk, i) ELSE disk IN
    /\ Begin("retry") /\ Response(i)
    /\ Save(kept, {disk, kept})
    /\ \/ ~perr' /\ live' = Prefix(live, i) /\ Started("retry")
       \/ perr' /\ Halted /\ UNCHANGED live
    /\ UNCHANGED <<minted, touched>>

Advance == /\ Begin("advance") /\ live # <<>> /\ Started("advance")
           /\ UNCHANGED <<live, disk, minted, touched, perr>>

ContinueTurn ==
  /\ Begin("continue") /\ live # <<>> /\ Spoken(live[Len(live)]) /\ Started("continue")
  /\ UNCHANGED <<live, disk, minted, touched, perr>>

(* postDirected writes first, and a line that was not saved is not shown. *)
PostDirected ==
  LET m == Say("directed", minted + 1, 0) IN
  /\ Begin("direct") /\ Save(Append(disk, m), {disk, Append(disk, m)})
  /\ live' = IF perr' THEN live ELSE Append(live, m)
  /\ minted' = minted + 1 /\ UNCHANGED <<touched, pc, r>>

(***************************************************************************)
(* The top of a step: the queue is drained, the transcript may be          *)
(* condensed, the request goes out.                                        *)
(***************************************************************************)
(* The step limit ends the run with an error. *)
NextStep(nudged) ==
  IF r.step >= MaxSteps THEN Leave
  ELSE Goto("top") /\ r' = [r EXCEPT !.step = @ + 1, !.attempt = 0, !.images = 0,
                                     !.stop = "end", !.calls = 0, !.call = 1, !.nudged = nudged]

Drain ==
  /\ At("top") /\ ~perr
  /\ Record([i \in 1..queue |-> Say("user", minted + i, 0)])
  /\ queue' = 0 /\ touched' = (touched \/ queue > 0)
  /\ \/ r.step = 1 /\ Goto("ask") /\ UNCHANGED r
     \/ r.step > 1 /\ Goto("ask") /\ r' = [r EXCEPT !.armed = TRUE]
     \/ r.step > 1 /\ ~(r.armed /\ Len(live') > KeepTail) /\ Goto("ask") /\ UNCHANGED r
     \/ r.step > 1 /\ r.armed /\ Len(live') > KeepTail
        /\ Goto("condense") /\ r' = [r EXCEPT !.armed = FALSE]
  /\ UNCHANGED <<ctx, ran, runs>>

(* The tail kept word for word never opens with results whose call it lost. *)
Newest(n) == SubSeq(live, Len(live) - n + 1, Len(live))
Condense ==
  /\ At("condense")
  /\ IF ctx = "live" THEN Goto("ask") /\ UNCHANGED r ELSE Leave
  /\ \/ UNCHANGED <<live, disk, minted, touched, perr>>
     \/ \E n \in 0..KeepTail :
          /\ ~perr /\ n < Len(live) /\ (n > 0 => Newest(n)[1].role # "tool")
          /\ live' = <<Say("user", minted + 1, 0)>> \o Newest(n)
          /\ touched' = TRUE /\ minted' = minted + 1 /\ Save(live', {disk, live'})
  /\ UNCHANGED <<ctx, queue, ran, runs>>

(* The latch is read before each step and each attempt. *)
Latched == /\ pc \in {"top", "ask"} /\ perr /\ Leave
           /\ UNCHANGED <<live, disk, minted, touched, perr, ctx, queue, ran, runs>>

(***************************************************************************)
(* One attempt: a reply of text, of calls or of nothing, in full or cut    *)
(* short.  An aborted reply that holds calls is not kept.  It is appended  *)
(* in memory only; a continue run merges plain text onto the last message. *)
(***************************************************************************)
Ends == {f \in Fates \cup {"abort"} : f = "abort" => ctx # "live"}
Possible(f, stop, k, text) ==
  /\ IF f = "ok" THEN (stop = "end" => k = 0) /\ (stop = "calls" => k > 0) ELSE stop = "end"
  /\ f \in {"abort", "image"} => k = 0
  /\ f = "image" => ~text
Merges(k) == Prefill /\ k = 0 /\ live # <<>> /\ Spoken(live[Len(live)])

Attempt ==
  /\ At("ask") /\ ~perr /\ Goto("judge")
  /\ \E f \in Ends, stop \in {"end", "calls", "length"}, k \in 0..MaxCalls, text \in BOOLEAN :
       LET heard == [r EXCEPT !.fate = f, !.stop = stop, !.calls = k, !.call = 1]
           n == Len(live) IN
       /\ Possible(f, stop, k, text)
       /\ \/ /\ ~text /\ k = 0 /\ r' = [heard EXCEPT !.kept = "no"]
             /\ UNCHANGED <<live, minted, touched>>
          \/ /\ text \/ k > 0
             /\ minted' = minted + 1 /\ touched' = TRUE
             /\ IF Merges(k)
                THEN /\ live' = [live EXCEPT ![n].id = minted + 1]
                     /\ r' = [heard EXCEPT !.kept = "merged", !.merged = n, !.stash = live'[n]]
                ELSE /\ live' = Append(live, Say("reply", minted + 1, k))
                     /\ r' = [heard EXCEPT !.kept = "new"]
  /\ Note /\ UNCHANGED <<ctx, queue, ran, runs>>

(***************************************************************************)
(* What becomes of the attempt.                                            *)
(***************************************************************************)
(* Mutant: the abandoned attempt stays in memory. *)
DropNothing == UNCHANGED <<live, minted>>
(* dropLastAssistantMessage, which a continue run skips. *)
DropReply ==
  LET n == Len(live) IN
  IF ~Prefill /\ live # <<>> /\ Spoken(live[n])
  THEN live' = Prefix(live, n - 1) /\ minted' = IF r.kept = "new" THEN minted - 1 ELSE minted
  ELSE UNCHANGED <<live, minted>>

(* The provider refused an image: the newest is replaced by a note. *)
Recover == /\ At("judge") /\ r.fate = "image" /\ r.images < MaxImages
           /\ DropReply /\ touched' = TRUE /\ Note
           /\ Goto("ask") /\ r' = [r EXCEPT !.images = @ + 1, !.kept = "no", !.fate = "ok"]
           /\ UNCHANGED <<ctx, queue, ran, runs>>

(* Mutant: one attempt more than Agent.maxRetries. *)
CanRetryOnceMore == r.fate = "retry" /\ r.attempt <= MaxRetries
CanRetry == r.fate = "retry" /\ r.attempt < MaxRetries
(* Mutant: the attempt is committed before it is abandoned. *)
RetryCommitted ==
  /\ At("judge") /\ CanRetry /\ DropReply
  /\ IF r.kept = "new"
     THEN LET new == Append(disk, live[Len(live)]) IN Save(new, {disk, new})
     ELSE UNCHANGED <<disk, perr>>
  /\ touched' = (touched \/ live' # live)
  /\ Goto("wait") /\ r' = [r EXCEPT !.kept = "no", !.fate = "ok", !.calls = 0]
  /\ UNCHANGED <<ctx, queue, ran, runs>>
Retry == /\ At("judge") /\ CanRetry /\ DropReply
         /\ touched' = (touched \/ live' # live)
         /\ Note /\ Goto("wait") /\ r' = [r EXCEPT !.kept = "no", !.fate = "ok", !.calls = 0]
         /\ UNCHANGED <<ctx, queue, ran, runs>>

(* sleepRetry: the timer, or the cancelled context. *)
Backoff == /\ At("wait")
           /\ \/ ctx # "live" /\ Leave
              \/ Goto("ask") /\ r' = [r EXCEPT !.attempt = @ + 1]
           /\ UNCHANGED <<live, disk, minted, touched, perr, ctx, queue, ran, runs>>

(* The reply is final: it is recorded once, marked when it fell short. *)
Final == ~CanRetry /\ ~(r.fate = "image" /\ r.images < MaxImages)
AfterReply == IF r.stop = "calls" THEN "call"
              ELSE IF r.stop = "length" /\ r.calls > 0 THEN "cut" ELSE "close"
(* Its attempts are over. *)
Settled == r' = [r EXCEPT !.kept = "no", !.attempt = 0, !.images = 0]
(* Mutant: the latch is not read after the commit. *)
CommitUnchecked ==
  /\ At("judge") /\ Final
  /\ IF r.kept = "new"
     THEN LET new == Append(disk, live[Len(live)]) IN Save(new, {disk, new})
     ELSE UNCHANGED <<disk, perr>>
  /\ IF r.fate # "ok" THEN Leave ELSE Goto(AfterReply) /\ Settled
  /\ UNCHANGED <<live, minted, touched, ctx, queue, ran, runs>>
Commit ==
  /\ At("judge") /\ Final
  /\ IF r.kept = "new"
     THEN LET new == Append(disk, live[Len(live)]) IN Save(new, {disk, new})
     ELSE UNCHANGED <<disk, perr>>
  /\ IF perr' \/ r.fate # "ok" THEN Leave
     ELSE Goto(AfterReply) /\ Settled
  /\ UNCHANGED <<live, minted, touched, ctx, queue, ran, runs>>

(* answerCutOffCalls: the output limit stopped a reply that held calls. *)
AnswerCutOff == /\ At("cut") /\ Record(<<Say("tool", minted + 1, 0)>>)
                /\ touched' = TRUE
                /\ IF perr' THEN Leave ELSE Goto("close") /\ UNCHANGED r
                /\ UNCHANGED <<ctx, queue, ran, runs>>

(***************************************************************************)
(* The tool batch: each call in turn asks the gate, which may wait for a   *)
(* person, and reads the context before it and after it.                   *)
(***************************************************************************)
Answered == Goto("call") /\ r' = [r EXCEPT !.call = @ + 1]
Dispatch ==
  /\ At("call") /\ r.call <= r.calls
  /\ \/ ctx # "live" /\ Answered
     \/ ctx = "live" /\ Goto("gate") /\ UNCHANGED r
  /\ UNCHANGED <<live, disk, minted, touched, perr, ctx, queue, ran, runs>>

Allow  == /\ At("gate") /\ Goto("allowed")
          /\ UNCHANGED <<live, disk, minted, touched, perr, ctx, queue, ran, runs, r>>
Refuse == /\ At("gate") /\ Answered
          /\ UNCHANGED <<live, disk, minted, touched, perr, ctx, queue, ran, runs>>
(* Mutant: the wait does not watch the run's context. *)
UnparkNever == FALSE /\ UNCHANGED vars
(* ConfirmWithRequest gives up, refusing, once the run is cancelled. *)
Unpark == /\ At("gate") /\ ctx # "live" /\ Answered
          /\ UNCHANGED <<live, disk, minted, touched, perr, ctx, queue, ran, runs>>

(* What a tool delegates writes rows of usage.                             *)
(* Mutant: an approval is acted on whenever it comes. *)
ExecuteOnApproval ==
  /\ At("allowed") /\ Answered
  /\ ran' = ran \cup {<<live[Len(live)].id, r.call>>}
  /\ Note /\ UNCHANGED <<live, minted, touched, ctx, queue, runs>>
Execute ==
  /\ At("allowed") /\ Answered
  /\ ran' = IF ctx = "live" THEN ran \cup {<<live[Len(live)].id, r.call>>} ELSE ran
  /\ Note /\ UNCHANGED <<live, minted, touched, ctx, queue, runs>>

(* A step gate, the stuck-loop detector, may end the run. *)
Results ==
  /\ At("call") /\ r.call > r.calls /\ Record(<<Say("tool", minted + 1, 0)>>)
  /\ touched' = TRUE
  /\ \/ Leave
     \/ ~perr' /\ ctx = "live" /\ NextStep(r.nudged)
  /\ UNCHANGED <<ctx, queue, ran, runs>>

(***************************************************************************)
(* The close: a queued text outranks the one nudge a gate may give.        *)
(***************************************************************************)
Close ==
  /\ At("close")
  /\ \/ /\ ctx = "live" /\ queue > 0 /\ NextStep(r.nudged)
        /\ UNCHANGED <<live, disk, minted, touched, perr>>
     \/ /\ ctx = "live" /\ queue = 0 /\ r.stop = "end" /\ ~r.nudged
        /\ Record(<<Say("user", minted + 1, 0)>>) /\ touched' = TRUE
        /\ NextStep(TRUE)
     \/ /\ ~(ctx = "live" /\ queue > 0) /\ Leave
        /\ UNCHANGED <<live, disk, minted, touched, perr>>
  /\ UNCHANGED <<ctx, queue, ran, runs>>

(* Mutant: whatever the person said last is withdrawn. *)
WithdrawsLastUser ==
  r.verb = "prompt" /\ ctx = "user" /\ live # <<>> /\ live[Len(live)].role = "user"
(* A prompt nothing followed goes back to the person who stopped it, and   *)
(* its row goes with it; what a continue run merged replaces its row.      *)
Withdraws == r.verb = "prompt" /\ ctx = "user" /\ ~touched
Finish ==
  LET n == Len(live)
      without == IF n \in DOMAIN disk THEN Without(disk, n) ELSE disk
      replaced == IF r.merged \in DOMAIN disk THEN [disk EXCEPT ![r.merged] = r.stash] ELSE disk IN
  /\ At("end") /\ Halted
  /\ live' = IF Withdraws THEN Prefix(live, n - 1) ELSE live
  /\ CASE Withdraws -> Save(without, {disk, without})
       [] r.merged > 0 -> Save(replaced, {disk, replaced})
       [] OTHER -> UNCHANGED <<disk, perr>>
  /\ ctx' = "live" /\ touched' = FALSE /\ UNCHANGED <<minted, queue, ran, runs>>

(***************************************************************************)
(* Everyone else.                                                          *)
(***************************************************************************)
Others == UNCHANGED <<live, disk, minted, touched, perr, ran, runs, pc, r>>
Queue  == /\ "queue" \in People /\ ~At("idle") /\ minted + queue < MaxTexts
          /\ queue' = queue + 1 /\ UNCHANGED ctx /\ Others
(* SetQueuedMessages takes a text back, or a guard rejects it at the drain. *)
Unqueue == /\ "unqueue" \in People /\ ~At("idle") /\ queue > 0
           /\ queue' \in 0..queue - 1 /\ UNCHANGED ctx /\ Others
Cancel == /\ "cancel" \in People /\ ~At("idle") /\ ctx = "live"
          /\ ctx' \in {"user", "drain"} /\ UNCHANGED queue /\ Others
Crash  == /\ "crash" \in Faults
          /\ live' = disk /\ touched' = FALSE /\ perr' = FALSE /\ ctx' = "live" /\ queue' = 0 /\ Halted
          /\ UNCHANGED <<disk, minted, ran, runs>>

Starts == Prompt \/ RetryTurn \/ Advance \/ ContinueTurn \/ PostDirected
Work   == \/ Drain \/ Condense \/ Latched \/ Attempt \/ Recover \/ Retry \/ Backoff \/ Commit
          \/ AnswerCutOff \/ Dispatch \/ Unpark \/ Execute \/ Results \/ Close \/ Finish
Person == Allow \/ Refuse \/ Queue \/ Unqueue \/ Cancel
Next   == Starts \/ Work \/ Person \/ Crash
Spec   == Init /\ [][Next]_vars

(* The run thread never stops on its own: requests end, timers fire.  No   *)
(* one owes an answer to an approval.                                      *)
FairSpec == Spec /\ WF_vars(Work)

-----------------------------------------------------------------------------
TypeOK ==
  /\ live \in Seq(Message) /\ disk \in Seq(Message)
  /\ minted \in Nat /\ touched \in BOOLEAN /\ perr \in BOOLEAN /\ ctx \in {"live", "user", "drain"}
  /\ queue \in 0..MaxTexts /\ ran \subseteq Nat \X Nat /\ runs \in 0..MaxRuns
  /\ pc \in {"idle", "top", "condense", "ask", "judge", "wait", "call", "gate", "allowed",
            "cut", "close", "end"}
  /\ r \in [verb : Verbs \cup {"none"}, own : Nat, step : 1..MaxSteps,
            attempt : 0..MaxRetries, images : 0..MaxImages, fate : Fates \cup {"ok", "abort"},
            stop : {"end", "calls", "length"}, calls : 0..MaxCalls,
            kept : {"no", "new", "merged"}, merged : Nat, stash : Message,
            call : 1..MaxCalls + 1, nudged : BOOLEAN, armed : BOOLEAN]

(* Between runs a session whose every write succeeded reloads to exactly   *)
(* the conversation its agent holds: no attempt that was abandoned is on   *)
(* disk, none took a recorded message with it, and a withdrawn prompt is   *)
(* gone from both.                                                         *)
LiveIsDurable == At("idle") /\ ~perr => live = disk

(* The durable session never records an abandoned attempt: no reply on it  *)
(* is followed by another one.                                             *)
OneReplyEach ==
  \A i \in 1..Len(disk) - 1 : ~(disk[i].role = "reply" /\ disk[i + 1].role = "reply")

(* A tool has its effect only after the reply that asked for it is on disk,*)
(* so that no crash leaves an effect the record cannot explain.            *)
EffectOnRecord ==
  [][\A c \in ran' \ ran : \E i \in DOMAIN disk : disk[i].id = c[1] /\ c[2] <= disk[i].calls]_vars

(* A cancelled run dispatches nothing further, whoever approved it when.   *)
NoLateEffect == [][ran' # ran => ctx = "live"]_vars

(* Ending a run removes at most the prompt that began it, with its own     *)
(* row, and only when a person stopped the run before anything followed.   *)
WithdrawsItsOwn ==
  [][Finish =>
       \A i \in DOMAIN live :
         \/ i \in DOMAIN live' /\ live'[i] = live[i]
         \/ live[i].id = r.own /\ ctx = "user" /\ i = Len(live)]_vars

(* Once cancelled, a run ends, even one that waits for an approval.        *)
CancelEnds == ctx # "live" ~> At("idle")

(* A retry abandons only its own attempt: "drop its (possibly partial)     *)
(* assistant message".  What is on disk stays in the transcript.           *)
AbandonsOnlyAttempts ==
  [][At("judge") =>
       \A i \in DOMAIN live : (\E j \in DOMAIN disk : disk[j] = live[i])
                              => i \in DOMAIN live' /\ live'[i] = live[i]]_vars
=============================================================================
