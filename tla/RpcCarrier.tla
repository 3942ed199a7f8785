----------------------------- MODULE RpcCarrier -----------------------------
(***************************************************************************)
(* One agent behind a pipe.  A read loop takes the client's commands one   *)
(* after another; turns run on goroutines of their own, one at a time and  *)
(* in the order of their commands; tools, and calls an extension makes     *)
(* beside the turns, park questions and approvals that only the client     *)
(* can answer.  Abort, dismissal, the end of stdin and the end of the      *)
(* process all release what is parked, each in steps of its own.           *)
(***************************************************************************)
EXTENDS Naturals, Sequences, FiniteSets

CONSTANTS
  Doors,    (* calls of extensions, which belong to no turn                *)
  None,
  MaxTurns, (* bound on prompts and compactions                            *)
  MaxAsks,  (* bound on questions and approvals                            *)
  MaxCalls, (* bound on all of these together                              *)
  Kinds,    (* of what may be asked: "question", "approval"                *)
  Inputs    (* of the client and the process: "compact", "abort",          *)
            (* "answer", "dismiss", "eof", "over"                          *)

ASSUME RpcAssumption ==
  /\ MaxTurns \in Nat /\ MaxAsks \in Nat /\ MaxCalls \in Nat
  /\ Kinds \subseteq {"question", "approval"}
  /\ None \notin Nat /\ Doors \cap Nat = {}

Turns   == 1..MaxTurns
Callers == Turns \cup Doors

VARIABLES
  line,      (* rpcTurnQueue: is a turn up, and who waits, first in first  *)
  joined,    (* turns the read loop has taken                              *)
  compact,   (* those of them that are compactions                         *)
  at,        (* where a turn or an extension's call is                     *)
  cancelled, (* turns whose own cancel function was called                 *)
  active,    (* activeCancel: the turn whose function it is                *)
  asks,      (* every question and approval, by its id                     *)
  reader,    (* what the read loop is in the middle of                     *)
  closed,    (* the connection's end, as the waits see it                  *)
  extReady,  (* the background start of the extensions is over             *)
  over       (* the process's context is done                              *)

vars == <<line, joined, compact, at, cancelled, active, asks, reader, closed, extReady, over>>
turnVars == <<line, joined, compact>>

Idle == [at |-> "idle", turn |-> None, id |-> 0, ids |-> {}]

Init ==
  /\ line = [busy |-> FALSE, waiting |-> <<>>] /\ joined = 0 /\ compact = {}
  /\ at = [c \in Callers |-> "none"]
  /\ cancelled = {} /\ active = None /\ asks = <<>>
  /\ reader = Idle /\ closed = FALSE /\ extReady = FALSE /\ over = FALSE

(* A caller's context: a turn's ends with its own cancel function or with  *)
(* the process, an extension's call runs under none.                       *)
CtxDone(c) == c \in Turns /\ (c \in cancelled \/ over)

(***************************************************************************)
(* The line of turns.  The place in it is taken on the read loop.          *)
(***************************************************************************)
join(t) ==
  IF line.busy THEN [line EXCEPT !.waiting = Append(@, t)]
  ELSE [line EXCEPT !.busy = TRUE]

Command(t, k) ==
  /\ reader.at = "idle" /\ ~closed /\ t = joined + 1 /\ joined + Len(asks) < MaxCalls
  /\ joined' = t /\ line' = join(t)
  /\ compact' = IF k = "compact" THEN compact \cup {t} ELSE compact
  /\ at' = [at EXCEPT ![t] = IF line.busy THEN "line" ELSE "up"]
  /\ UNCHANGED <<cancelled, active, asks, reader, closed, extReady, over>>

(* Mutant: whoever joined last is next. *)
leaveLast(t) ==
  LET n == Len(line.waiting)
  IN IF n = 0
     THEN /\ line' = [line EXCEPT !.busy = FALSE]
          /\ at' = [at EXCEPT ![t] = "gone"]
     ELSE /\ line' = [line EXCEPT !.waiting = SubSeq(@, 1, n - 1)]
          /\ at' = [at EXCEPT ![t] = "gone", ![line.waiting[n]] = "up"]
leave(t) ==
  IF line.waiting = <<>>
  THEN /\ line' = [line EXCEPT !.busy = FALSE]
       /\ at' = [at EXCEPT ![t] = "gone"]
  ELSE /\ line' = [line EXCEPT !.waiting = Tail(@)]
       /\ at' = [at EXCEPT ![t] = "gone", ![Head(line.waiting)] = "up"]

(***************************************************************************)
(* A turn: set the cancel function, say that it started, wait for the      *)
(* extensions, run the agent, say that it is done, and then the deferred   *)
(* calls.  The agent is left as a loop of model calls and tool calls that  *)
(* looks at its context before each model call.                            *)
(***************************************************************************)
Go(t, from, to) == at[t] = from /\ at' = [at EXCEPT ![t] = to]
StepKept == UNCHANGED <<turnVars, asks, reader, closed, extReady, over>>

SetCancel(t) == Go(t, "up", "ready") /\ active' = t /\ StepKept /\ UNCHANGED cancelled
Started(t) == Go(t, "ready", "await") /\ StepKept /\ UNCHANGED <<active, cancelled>>
(* The wait watches the turn's context and not the connection.             *)
awaitExtensions(t) ==
  /\ extReady \/ CtxDone(t)
  /\ Go(t, "await", IF t \in compact THEN "stream" ELSE "model")
  /\ StepKept /\ UNCHANGED <<active, cancelled>>
ModelCall(t) ==
  /\ Go(t, "model", IF CtxDone(t) THEN "fin" ELSE "stream")
  /\ StepKept /\ UNCHANGED <<active, cancelled>>
(* The model is done, or fails, or its context ended; a due compaction     *)
(* after the turn is one more model call. *)
Reply(t) == Go(t, "stream", "fin") /\ StepKept /\ UNCHANGED <<active, cancelled>>
Done(t)  == Go(t, "fin", "unset") /\ StepKept /\ UNCHANGED <<active, cancelled>>
Unset(t) == Go(t, "unset", "leave") /\ active' = None /\ StepKept /\ UNCHANGED cancelled
Leave(t) ==
  /\ at[t] = "leave" /\ leave(t)
  /\ UNCHANGED <<joined, compact, cancelled, active, asks, reader, closed, extReady, over>>

(***************************************************************************)
(* Ask and Confirm.  A question reads the active turn's cancel function    *)
(* first; then the caller parks under a new id, shows it to the client,    *)
(* and waits.  Of a question the state says who owns its end: nobody yet   *)
(* ("pending"), an answer ("resolving") or a cancellation; an approval is  *)
(* "pending" while the park table has it.                                  *)
(***************************************************************************)
currentTurnCancel == active

Ask(c, k) ==
  /\ Len(asks) < MaxAsks /\ joined + Len(asks) < MaxCalls
  /\ \/ c \in Turns \ compact /\ at[c] = "stream" /\ ~CtxDone(c)
     \/ c \in Doors /\ at[c] = "none"
  /\ asks' = Append(asks,
       [by |-> c, kind |-> k, turn |-> IF k = "question" THEN currentTurnCancel ELSE None,
        state |-> "unparked", answer |-> FALSE, told |-> FALSE, cut |-> FALSE, got |-> "nothing"])
  /\ at' = [at EXCEPT ![c] = "ask"]
  /\ UNCHANGED <<turnVars, cancelled, active, reader, closed, extReady, over>>

(* questionMu is held from the claim of an answer to its last frame. *)
Unlocked == reader.at # "answering"

Park(i) ==
  /\ asks[i].state = "unparked" /\ (asks[i].kind = "question" => Unlocked)
  /\ asks' = [asks EXCEPT ![i].state = "pending"]
  /\ at' = [at EXCEPT ![asks[i].by] = "parked"]
  /\ UNCHANGED <<turnVars, cancelled, active, reader, closed, extReady, over>>

(* How a wait ends: what the caller gets, in which state that leaves the   *)
(* ask, and which turns are cancelled on the way out. *)
Return(i, got, state, cut) ==
  /\ asks' = [asks EXCEPT ![i].got = got, ![i].state = state]
  /\ cancelled' = cancelled \cup cut
  /\ at' = [at EXCEPT ![asks[i].by] = IF asks[i].by \in Turns THEN "model" ELSE "gone"]
  /\ UNCHANGED <<turnVars, active, reader, closed, extReady, over>>

Parked(i)     == at[asks[i].by] = "parked" /\ asks[i].state # "unparked" /\ asks[i].got = "nothing"
Interrupted(i) == asks[i].cut \/ CtxDone(asks[i].by) \/ over \/ closed
Cancels(i)    == {asks[i].turn} \ {None}

(* The answer is in the channel; a question waits for the frames too. *)
Hear(i) ==
  /\ Parked(i) /\ asks[i].answer /\ (asks[i].kind = "question" => asks[i].told)
  /\ Return(i, "answer", asks[i].state, {})

(* A question's wait is cut: it claims the cancellation and then calls the *)
(* functions, or finds that an answer or another cancellation owns it. *)
(* Mutant: whoever is cut is cancelled, though an answer owns the question. *)
GiveUpAnyway(i) ==
  /\ Parked(i) /\ asks[i].kind = "question" /\ Interrupted(i) /\ Unlocked
  /\ Return(i, "cancelled", "cancelled", Cancels(i))
GiveUp(i) ==
  /\ Parked(i) /\ asks[i].kind = "question" /\ Interrupted(i) /\ Unlocked
  /\ CASE asks[i].state = "pending"   -> Return(i, "cancelled", "cancelled", Cancels(i))
       [] asks[i].state = "resolving" -> Return(i, "answer", "resolving", {})
       [] asks[i].state = "cancelled" -> Return(i, "cancelled", "cancelled", {})

(* An approval's wait is cut: the tool is refused, also when an answer     *)
(* came at the same time. *)
(* Mutant: an approval does not watch the connection. *)
DenyWhileOpen(i) ==
  /\ Parked(i) /\ asks[i].kind = "approval" /\ (CtxDone(asks[i].by) \/ over)
  /\ Return(i, "cancelled", "cancelled", {})
Deny(i) ==
  /\ Parked(i) /\ asks[i].kind = "approval" /\ Interrupted(i)
  /\ Return(i, "cancelled", "cancelled", {})

(***************************************************************************)
(* The read loop's other commands.                                         *)
(***************************************************************************)
CallerKept == UNCHANGED <<turnVars, at, extReady, over>>
Pending(i, k) == asks[i].kind = k /\ asks[i].state = "pending"

(* takeCancel, and then the call of what it took. *)
(* Mutant: an abort that finds its turn parked is acknowledged and dropped. *)
AbortUnlessParked ==
  /\ "abort" \in Inputs /\ reader.at = "idle" /\ ~closed /\ active # None
  /\ reader' = IF at[active] = "parked" THEN Idle ELSE [Idle EXCEPT !.at = "aborting", !.turn = active]
  /\ active' = None
  /\ CallerKept /\ UNCHANGED <<cancelled, asks, closed>>
Abort ==
  /\ "abort" \in Inputs /\ reader.at = "idle" /\ ~closed /\ active # None
  /\ reader' = [Idle EXCEPT !.at = "aborting", !.turn = active]
  /\ active' = None
  /\ CallerKept /\ UNCHANGED <<cancelled, asks, closed>>
AbortCalls ==
  /\ reader.at = "aborting"
  /\ cancelled' = cancelled \cup {reader.turn} /\ reader' = Idle
  /\ CallerKept /\ UNCHANGED <<active, asks, closed>>

(* A valid answer claims the question, goes out as question_resolved, and  *)
(* is delivered; then the command is acknowledged and the lock let go.     *)
(* Any other answer is an error frame and changes nothing.                 *)
Answer(i) ==
  /\ "answer" \in Inputs /\ reader.at = "idle" /\ ~closed /\ Pending(i, "question")
  /\ asks' = [asks EXCEPT ![i].state = "resolving", ![i].answer = TRUE]
  /\ reader' = [Idle EXCEPT !.at = "answering", !.id = i]
  /\ CallerKept /\ UNCHANGED <<cancelled, active, closed>>
Acknowledge ==
  /\ reader.at = "answering"
  /\ asks' = [asks EXCEPT ![reader.id].told = TRUE] /\ reader' = Idle
  /\ CallerKept /\ UNCHANGED <<cancelled, active, closed>>
Approve(i) ==
  /\ "answer" \in Inputs /\ reader.at = "idle" /\ ~closed /\ Pending(i, "approval")
  /\ asks' = [asks EXCEPT ![i].state = "resolving", ![i].answer = TRUE, ![i].told = TRUE]
  /\ CallerKept /\ UNCHANGED <<cancelled, active, reader, closed>>

(* Questions that lost their answer are cancelled in a second step, one    *)
(* after another and the turn before the wait. *)
Dismiss(i) ==
  /\ "dismiss" \in Inputs /\ reader.at = "idle" /\ ~closed /\ Pending(i, "question")
  /\ asks' = [asks EXCEPT ![i].state = "cancelled"]
  /\ reader' = [Idle EXCEPT !.at = "cutting", !.ids = {i}]
  /\ CallerKept /\ UNCHANGED <<cancelled, active, closed>>

(* Mutant: the wait before the turn. *)
WaitFirst == <<"wait", "turn">>
cancelOwnedQuestion == <<"turn", "wait">>
(* Mutant: the turn that is active by now. *)
CancelsActive(i) == {active} \ {None}
CutTurns(i) == Cancels(i)

Cut(i, what) ==
  IF what = "turn" THEN cancelled' = cancelled \cup CutTurns(i) /\ UNCHANGED asks
                   ELSE asks' = [asks EXCEPT ![i].cut = TRUE] /\ UNCHANGED cancelled
CutFirst(i) ==
  /\ reader.at = "cutting" /\ reader.id = 0 /\ i \in reader.ids
  /\ Cut(i, cancelOwnedQuestion[1]) /\ reader' = [reader EXCEPT !.id = i]
  /\ CallerKept /\ UNCHANGED <<active, closed>>
CutSecond ==
  /\ reader.at = "cutting" /\ reader.id # 0
  /\ Cut(reader.id, cancelOwnedQuestion[2])
  /\ reader' = IF reader.ids # {reader.id} THEN [reader EXCEPT !.id = 0, !.ids = @ \ {reader.id}]
               ELSE IF closed THEN [Idle EXCEPT !.at = "draining"] ELSE Idle
  /\ CallerKept /\ UNCHANGED <<active, closed>>

(* The end of stdin: the waits see it, pending questions are claimed, the  *)
(* turns are cancelled, and the process waits for what it still runs. *)
Eof ==
  /\ "eof" \in Inputs /\ reader.at = "idle" /\ ~closed
  /\ closed' = TRUE /\ reader' = [Idle EXCEPT !.at = "closing"]
  /\ CallerKept /\ UNCHANGED <<cancelled, active, asks>>
Sweep ==
  LET ids == {i \in DOMAIN asks : Pending(i, "question")}
  IN /\ reader.at = "closing"
     /\ asks' = [i \in DOMAIN asks |->
                   IF i \in ids THEN [asks[i] EXCEPT !.state = "cancelled"] ELSE asks[i]]
     /\ reader' = [Idle EXCEPT !.at = IF ids = {} THEN "draining" ELSE "cutting", !.ids = ids]
     /\ CallerKept /\ UNCHANGED <<cancelled, active, closed>>
Drained ==
  /\ reader.at = "draining" /\ \A t \in 1..joined : at[t] = "gone"
  /\ reader' = [Idle EXCEPT !.at = "ended"]
  /\ CallerKept /\ UNCHANGED <<cancelled, active, asks, closed>>

(* The extensions' handshakes have their time limits.                      *)
ExtStarted ==
  /\ ~extReady /\ extReady' = TRUE
  /\ UNCHANGED <<turnVars, at, cancelled, active, asks, reader, closed, over>>

Over ==
  /\ "over" \in Inputs /\ ~over /\ over' = TRUE
  /\ UNCHANGED <<turnVars, at, cancelled, active, asks, reader, closed, extReady>>

(***************************************************************************)
(* The whole.                                                              *)
(***************************************************************************)
Turn(t) == \/ SetCancel(t) \/ Started(t) \/ awaitExtensions(t) \/ ModelCall(t)
           \/ Reply(t) \/ Done(t) \/ Unset(t) \/ Leave(t)
Wait(i)   == Park(i) \/ Hear(i) \/ GiveUp(i) \/ Deny(i)
Reader    == \/ AbortCalls \/ Acknowledge \/ CutSecond \/ Sweep \/ Drained
             \/ \E i \in DOMAIN asks : CutFirst(i)
Client == \/ \E t \in Turns, k \in {"prompt", "compact"} \cap (Inputs \cup {"prompt"}) : Command(t, k)
          \/ Abort \/ Eof
          \/ \E i \in DOMAIN asks : Answer(i) \/ Approve(i) \/ Dismiss(i)

Next == \/ \E t \in Turns : Turn(t)
        \/ \E c \in Callers, k \in Kinds : Ask(c, k)
        \/ \E i \in DOMAIN asks : Wait(i)
        \/ Reader \/ Client \/ ExtStarted \/ Over

Spec == Init /\ [][Next]_vars

(* The goroutines run, model calls end, and so does the extensions' start; *)
(* no client owes a command, and no turn owes a question. *)
Mine(t) == Turn(t) \/ \E i \in DOMAIN asks : asks[i].by = t /\ Wait(i)
FairSpec == Spec /\ WF_vars(Reader) /\ WF_vars(ExtStarted) /\ \A t \in Turns : WF_vars(Mine(t))

(***************************************************************************)
(* Properties.                                                             *)
(***************************************************************************)
States == {"unparked", "pending", "resolving", "cancelled"}
TypeOK ==
  /\ line \in [busy : BOOLEAN, waiting : Seq(Turns)]
  /\ joined \in 0..MaxTurns /\ compact \subseteq Turns
  /\ at \in [Callers -> {"none", "line", "up", "ready", "await", "model", "stream", "ask",
                         "parked", "fin", "unset", "leave", "gone"}]
  /\ cancelled \subseteq Turns /\ active \in Turns \cup {None}
  /\ asks \in Seq([by : Callers, kind : Kinds, turn : Turns \cup {None}, state : States,
                   answer : BOOLEAN, told : BOOLEAN, cut : BOOLEAN,
                   got : {"nothing", "answer", "cancelled"}])
  /\ reader \in [at : {"idle", "aborting", "answering", "cutting", "closing", "draining", "ended"},
                 turn : Turns \cup {None}, id : 0..MaxAsks, ids : SUBSET (1..MaxAsks)]
  /\ closed \in BOOLEAN /\ extReady \in BOOLEAN /\ over \in BOOLEAN

Underway == {t \in Turns : at[t] \notin {"none", "line", "gone"}}
Running  == {t \in Turns : at[t] \in {"await", "model", "stream", "ask", "parked", "fin"}}

(* docs/rpc.md: at most one prompt or compact is in flight, and the others *)
(* run in the order they arrived.  A turn leaves the line only when all    *)
(* before it are over, and the line stands still only when it is empty.    *)
InOrder ==
  /\ \A t \in Underway : \A u \in 1..(t - 1) : at[u] = "gone"
  /\ line.busy <=> Underway # {}

(* While the client has seen a turn's start and not its end, an abort      *)
(* finds its cancel function: it is the active one, is being called, or    *)
(* was called.                                                             *)
InReach == \A t \in Running :
  active = t \/ t \in cancelled \/ (reader.at = "aborting" /\ reader.turn = t)

(* A tool's question ends with an answer exactly if the client was told    *)
(* that its answer was taken, whatever else ended at that time; the        *)
(* client's frames are out before the tool goes on.                        *)
AnswersAgree == \A i \in DOMAIN asks :
  asks[i].kind = "question" /\ asks[i].got # "nothing" =>
    (asks[i].got = "answer" <=> asks[i].told)

(* The turn first (cancelOwnedQuestion): while the connection lasts, no    *)
(* tool comes back from a cancelled question into a turn that goes on.     *)
NotIntoLiveTurn == [][\A i \in DOMAIN asks :
  asks[i].by \in Turns /\ asks[i].kind = "question"
    /\ asks'[i].got = "cancelled" /\ asks[i].got = "nothing" /\ ~closed
  => CtxDone(asks[i].by)']_vars

(* The same to the end: refuted, close() claims before it cancels.         *)
NeverIntoLiveTurn == [][\A i \in DOMAIN asks :
  asks[i].by \in Turns /\ asks[i].kind = "question"
    /\ asks'[i].got = "cancelled" /\ asks[i].got = "nothing"
  => CtxDone(asks[i].by)']_vars

(* A dismissal or the connection's end cancels no turn but the one in      *)
(* which its question was asked, by a tool of the turn or by an            *)
(* extension's call at its side, and never a later one.                    *)
OwnTurnOnly == [][\A t \in (cancelled' \ cancelled) \cap Running :
  \/ reader.at = "aborting" /\ reader.turn = t
  \/ \E i \in DOMAIN asks : /\ asks[i].by \in {t} \cup Doors /\ asks[i].kind = "question"
                            /\ asks[i].turn = t /\ asks'[i].state = "cancelled"]_vars

(* Whoever approves a call is heard: refuted, the wait may see its end     *)
(* first.                                                                  *)
ApprovalHeard == \A i \in DOMAIN asks :
  asks[i].kind = "approval" /\ asks[i].told => asks[i].got # "cancelled"

(* A cancelled turn ends, and so does the process once stdin has ended:    *)
(* nothing that is parked, or parks later, keeps either.  Both last, so    *)
(* that it is enough that nobody owes an end again and again.              *)
ReleasedEnds == []<>(/\ \A t \in cancelled : at[t] = "gone"
                     /\ closed => reader.at = "ended")
=============================================================================
