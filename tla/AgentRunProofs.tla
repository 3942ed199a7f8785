---------------------------- MODULE AgentRunProofs ----------------------------
(***************************************************************************)
(* For any number of runs, steps, retries and tool calls: the state keeps  *)
(* its type, no tool has its effect before the reply that asked for it is  *)
(* on disk, and none after its run was cancelled; a run takes back its own *)
(* prompt at most; and with prompts and retries the transcript and the     *)
(* file agree between runs, with one reply to each message.                *)
(***************************************************************************)
EXTENDS AgentRun, SequenceTheorems, TLAPS

Last(s) == s[Len(s)]
Batching == {"call", "gate", "allowed"}

(* What the run knows of the attempt under way: the reply it kept is the   *)
(* last message, and it holds the calls the run counted.                   *)
KeptInv ==
  /\ r.kept = "new" => pc = "judge" /\ live # <<>> /\ Last(live).calls = r.calls /\ minted > 0
  /\ pc = "judge" /\ r.calls > 0 => r.kept = "new"
  /\ pc = "judge" /\ r.stop = "calls" => r.calls > 0

(* While a batch runs, the reply that asked for it ends the live           *)
(* transcript and is on disk.                                              *)
BatchInv ==
  pc \in Batching =>
    /\ live # <<>> /\ Last(live).calls = r.calls
    /\ \E i \in DOMAIN disk : disk[i] = Last(live)

BoundInv ==
  /\ pc = "wait" => r.attempt < MaxRetries
  /\ pc \in {"gate", "allowed"} => r.call <= r.calls

RunInv == TypeOK /\ KeptInv /\ BatchInv /\ BoundInv

(* The type of r, and of the four variables a durable write may change. *)
RunRecord ==
  [verb : Verbs \cup {"none"}, own : Nat, step : 1..MaxSteps,
   attempt : 0..MaxRetries, images : 0..MaxImages, fate : Fates \cup {"ok", "abort"},
   stop : {"end", "calls", "length"}, calls : 0..MaxCalls,
   kept : {"no", "new", "merged"}, merged : Nat, stash : Message,
   call : 1..MaxCalls + 1, nudged : BOOLEAN, armed : BOOLEAN]
Recorded == live \in Seq(Message) /\ disk \in Seq(Message) /\ minted \in Nat /\ perr \in BOOLEAN

-----------------------------------------------------------------------------
(* Sequences: a prefix, and what Say builds. *)
LEMMA PrefixType ==
  ASSUME NEW S, NEW s \in Seq(S), NEW n \in 0..Len(s)
  PROVE  /\ Prefix(s, n) \in Seq(S) /\ Len(Prefix(s, n)) = n
         /\ \A i \in 1..n : Prefix(s, n)[i] = s[i]
<1>1. \A i \in 1..n : s[i] \in S
  BY ElementOfSeq, LenProperties
<1>2. QED
  BY <1>1, LenProperties, SubSeqProperties DEF Prefix

LEMMA SayType ==
  ASSUME NEW role \in Roles, NEW n \in Nat, NEW k \in Nat
  PROVE  Say(role, n, k) \in Message
BY DEF Say, Message

(* A durable write keeps the file a transcript, and one that did not fail   *)
(* left what was to be written.                                             *)
LEMMA SaveStep ==
  ASSUME NEW S, disk \in Seq(S), perr \in BOOLEAN,
         NEW new \in Seq(S), NEW torn \in SUBSET Seq(S), Save(new, torn)
  PROVE  /\ disk' \in Seq(S) /\ perr' \in BOOLEAN
         /\ perr => perr'
         /\ ~perr' => disk' = new
BY DEF Save

(* A row that is no message leaves the transcript as it was.                *)
LEMMA NoteStep ==
  ASSUME Note
  PROVE  /\ disk' = disk /\ (perr => perr')
         /\ perr \in BOOLEAN => perr' \in BOOLEAN
<1>1. \/ disk' = disk /\ perr' = perr
      \/ disk' = disk /\ perr' = TRUE
  BY DEF Note, Save
<1>2. CASE perr' = perr
  BY <1>1, <1>2, Zenon
<1>3. CASE perr' = TRUE
  BY <1>1, <1>3, Zenon
<1>4. QED
  BY <1>1, <1>2, <1>3, Zenon

LEMMA RecordStep ==
  ASSUME Recorded, NEW ms \in Seq(Message), Record(ms)
  PROVE  Recorded' /\ live' = live \o ms
<1>1. disk \o ms \in Seq(Message) /\ live \o ms \in Seq(Message)
  BY ConcatProperties DEF Recorded
<1>2. {disk \o Prefix(ms, n) : n \in 0..Len(ms)} \in SUBSET Seq(Message)
  <2>1. SUFFICES ASSUME NEW n \in 0..Len(ms) PROVE disk \o Prefix(ms, n) \in Seq(Message)
    OBVIOUS
  <2>2. Prefix(ms, n) \in Seq(Message)
    BY PrefixType
  <2>3. QED
    BY <2>2, ConcatProperties DEF Recorded
<1>3. minted + Len(ms) \in Nat
  BY LenProperties DEF Recorded
<1>4. disk' \in Seq(Message) /\ perr' \in BOOLEAN
  BY <1>1, <1>2, SaveStep DEF Record, Recorded
<1>5. QED
  BY <1>1, <1>3, <1>4 DEF Record, Recorded

LEMMA AppendedType ==
  ASSUME NEW s \in Seq(Message), NEW m \in Message
  PROVE  /\ Append(s, m) \in Seq(Message) /\ Append(s, m) # <<>>
         /\ Last(Append(s, m)) = m
BY AppendProperties DEF Last

LEMMA LastType ==
  ASSUME NEW s \in Seq(Message), s # <<>>
  PROVE  Len(s) \in DOMAIN s /\ Last(s) \in Message /\ Len(s) - 1 \in 0..Len(s)
BY EmptySeq, LenProperties, ElementOfSeq DEF Last

-----------------------------------------------------------------------------
(* Where no attempt is judged and no batch runs, only the type matters. *)
LEMMA Calm ==
  ASSUME pc' \notin Batching \cup {"judge", "wait"}, r'.kept # "new"
  PROVE  KeptInv' /\ BatchInv' /\ BoundInv'
BY DEF KeptInv, BatchInv, BoundInv, Batching

LEMMA NoRunType == ASSUME RunAssumption PROVE NoRun \in RunRecord /\ NoRun.kept = "no"
BY SayType DEF RunAssumption, NoRun, RunRecord, Roles

LEMMA LeaveType ==
  ASSUME RunAssumption, r \in RunRecord, Leave
  PROVE  r' \in RunRecord /\ pc' = "end" /\ r'.kept = "no"
BY NoRunType DEF Leave, Goto, RunRecord, NoRun

LEMMA NextStepType ==
  ASSUME RunAssumption, r \in RunRecord, NEW nudged \in BOOLEAN, NextStep(nudged)
  PROVE  /\ r' \in RunRecord /\ pc' \in {"end", "top"}
         /\ r.kept # "new" => r'.kept # "new"
<1>1. CASE r.step >= MaxSteps
  BY <1>1, LeaveType DEF NextStep
<1>2. CASE ~(r.step >= MaxSteps)
  <2>1. r.step + 1 \in 1..MaxSteps
    BY <1>2 DEF RunAssumption, RunRecord
  <2>2. /\ 0 \in 0..MaxRetries /\ 0 \in 0..MaxImages /\ 0 \in 0..MaxCalls /\ 1 \in 1..MaxCalls + 1
    BY DEF RunAssumption
  <2>3. r' = [r EXCEPT !.step = r.step + 1, !.attempt = 0, !.images = 0,
                       !.stop = "end", !.calls = 0, !.call = 1, !.nudged = nudged]
    BY <1>2 DEF NextStep
  <2>4. r' \in RunRecord /\ r'.kept = r.kept
    BY <2>1, <2>2, <2>3 DEF RunRecord
  <2>5. QED
    BY <1>2, <2>4 DEF NextStep, Goto
<1>3. QED
  BY <1>1, <1>2

LEMMA RunInvInit == ASSUME RunAssumption, Init PROVE RunInv
<1>1. <<>> \in Seq(Message)
  BY EmptySeq
<1>2. 0 \in 0..MaxTexts /\ 0 \in 0..MaxRuns
  BY DEF RunAssumption
<1>3. r \in RunRecord /\ r.kept = "no"
  BY NoRunType DEF Init
<1>4. TypeOK
  BY <1>1, <1>2, <1>3 DEF Init, TypeOK, RunRecord
<1>5. KeptInv /\ BatchInv /\ BoundInv
  BY <1>3 DEF Init, KeptInv, BatchInv, BoundInv, Batching
<1>6. QED
  BY <1>4, <1>5 DEF RunInv

LEMMA SubType ==
  ASSUME NEW S, NEW s \in Seq(S), NEW m \in Nat \ {0}, NEW n \in Int, n <= Len(s)
  PROVE  SubSeq(s, m, n) \in Seq(S)
<1>1. \A i \in m..n : s[i] \in S
  BY ElementOfSeq, LenProperties
<1>2. QED
  BY <1>1, SubSeqProperties

-----------------------------------------------------------------------------
(* The verbs that start a run. *)
LEMMA StartsStep ==
  ASSUME RunAssumption, RunInv, Starts
  PROVE  RunInv'
<1> USE DEF RunInv
<1>1. Recorded /\ minted + 1 \in Nat
  BY DEF TypeOK, Recorded
<1>2. runs' \in 0..MaxRuns /\ queue' \in 0..MaxTexts /\ ran' \subseteq Nat \X Nat
      /\ ctx' \in {"live", "user", "drain"}
  <2>1. runs < MaxRuns /\ runs' = runs + 1 /\ UNCHANGED <<ctx, queue, ran>>
    BY DEF Starts, Prompt, RetryTurn, Advance, ContinueTurn, PostDirected, Begin
  <2>2. MaxRuns \in Nat
    BY DEF RunAssumption
  <2>3. /\ runs \in 0..MaxRuns /\ queue \in 0..MaxTexts
        /\ ran \subseteq Nat \X Nat /\ ctx \in {"live", "user", "drain"}
    BY DEF TypeOK
  <2> HIDE DEF RunInv
  <2>4. runs' \in 0..MaxRuns
    BY <2>1, <2>2, <2>3
  <2>5. QED
    BY <2>1, <2>3, <2>4
<1>3. /\ \A v \in Verbs : Started(v) => pc' = "top" /\ r' \in RunRecord /\ r'.kept = "no"
      /\ Halted => pc' = "idle" /\ r' \in RunRecord /\ r'.kept = "no"
  <2>1. NoRun \in RunRecord /\ NoRun.kept = "no"
    BY NoRunType
  <2>2. QED
    BY <2>1 DEF Started, Halted, Goto, RunRecord
<1>4. SUFFICES Recorded' /\ touched' \in BOOLEAN /\ r' \in RunRecord /\ r'.kept # "new" /\ pc' \in {"idle", "top"}
  <2>1. KeptInv' /\ BatchInv' /\ BoundInv'
    BY <1>4, Calm DEF Batching
  <2>2. TypeOK'
    BY <1>2, <1>4 DEF TypeOK, Recorded, RunRecord
  <2>3. QED
    BY <2>1, <2>2
<1>5. CASE Prompt
  <2>1. <<Say("user", minted + 1, 0)>> \in Seq(Message)
    BY <1>1, SayType DEF Roles
  <2>2. Recorded'
    BY <1>1, <1>5, <2>1, RecordStep DEF Prompt
  <2>3. NoRun \in RunRecord /\ NoRun.kept = "no"
    BY NoRunType
  <2>4. r' \in RunRecord /\ r'.kept = "no"
    BY <1>1, <1>5, <2>3 DEF Prompt, Begin, RunRecord
  <2>5. QED
    BY <1>5, <2>2, <2>4 DEF Prompt, Goto
<1>6. CASE RetryTurn
  <2>1. PICK i \in 1..Len(live) - 1 :
          LET kept == IF i <= Len(disk) THEN Prefix(disk, i) ELSE disk IN
          /\ Begin("retry") /\ Response(i)
          /\ Save(kept, {disk, kept})
          /\ \/ ~perr' /\ live' = Prefix(live, i) /\ Started("retry")
             \/ perr' /\ Halted /\ UNCHANGED live
          /\ UNCHANGED <<minted, touched>>
    BY <1>6 DEF RetryTurn
  <2> DEFINE kept == IF i <= Len(disk) THEN Prefix(disk, i) ELSE disk
  <2>2. kept \in Seq(Message) /\ Prefix(live, i) \in Seq(Message)
    <3>1. Len(live) \in Nat /\ Len(disk) \in Nat
      BY <1>1, LenProperties DEF Recorded
    <3>2. i \in 0..Len(live) /\ (i <= Len(disk) => i \in 0..Len(disk))
      BY <3>1
    <3>3. QED
      BY <1>1, <3>2, PrefixType DEF Recorded
  <2>3. {disk, kept} \in SUBSET Seq(Message)
    BY <1>1, <2>2 DEF Recorded
  <2>4. disk' \in Seq(Message) /\ perr' \in BOOLEAN
    <3> HIDE DEF kept
    <3>1. Save(kept, {disk, kept})
      BY <2>1 DEF kept
    <3>2. QED
      BY <1>1, <2>2, <2>3, <3>1, SaveStep DEF Recorded
  <2>5. QED
    BY <1>1, <1>3, <2>1, <2>2, <2>4 DEF Recorded, Begin, TypeOK
<1>7. CASE Advance
  BY <1>1, <1>3, <1>7 DEF Advance, Begin, Recorded, TypeOK
<1>8. CASE ContinueTurn
  BY <1>1, <1>3, <1>8 DEF ContinueTurn, Begin, Recorded, TypeOK
<1>9. CASE PostDirected
  <2> DEFINE m == Say("directed", minted + 1, 0)
  <2>1. m \in Message
    BY <1>1, SayType DEF Roles
  <2> HIDE DEF m
  <2>2. Append(disk, m) \in Seq(Message) /\ Append(live, m) \in Seq(Message)
    BY <1>1, <2>1, AppendedType DEF Recorded
  <2>3. Save(Append(disk, m), {disk, Append(disk, m)})
    BY <1>9 DEF PostDirected, m
  <2>4. disk' \in Seq(Message) /\ perr' \in BOOLEAN
    BY <1>1, <2>2, <2>3, SaveStep DEF Recorded
  <2>5. live' = live \/ live' = Append(live, m)
    BY <1>9 DEF PostDirected, m
  <2>6. pc' = "idle" /\ r' = r /\ minted' = minted + 1 /\ touched' = touched
    BY <1>9 DEF PostDirected, Begin, At
  <2>7. r.kept # "new"
    BY <1>9 DEF PostDirected, Begin, At, TypeOK, KeptInv
  <2>8. QED
    BY <1>1, <2>2, <2>4, <2>5, <2>6, <2>7 DEF TypeOK, Recorded, RunRecord
<1>10. QED
  BY <1>5, <1>6, <1>7, <1>8, <1>9 DEF Starts

(* The steps that lead to a place where only the type matters share this. *)
LEMMA TypesAgain ==
  ASSUME RunAssumption, RunInv, Recorded', touched' \in BOOLEAN, r' \in RunRecord,
         pc' \in {"idle", "top", "condense", "ask", "judge", "wait", "call", "gate", "allowed",
                 "cut", "close", "end"},
         ctx' \in {"live", "user", "drain"}, queue' \in 0..MaxTexts,
         ran' \subseteq Nat \X Nat, runs' = runs
  PROVE  TypeOK'
BY DEF RunInv, TypeOK, Recorded, RunRecord

(* Away from the judge nothing is kept in doubt. *)
LEMMA NotKept == ASSUME RunInv, pc # "judge" PROVE r.kept # "new"
BY DEF RunInv, KeptInv

(* The drain, the compaction, the latch. *)
LEMMA TopStep ==
  ASSUME RunAssumption, RunInv, Drain \/ Condense \/ Latched
  PROVE  RunInv'
<1>1. Recorded /\ r \in RunRecord /\ r.kept # "new"
  BY NotKept DEF RunInv, TypeOK, Recorded, RunRecord, Drain, Condense, Latched, At
<1>2. SUFFICES /\ Recorded' /\ touched' \in BOOLEAN /\ queue' \in 0..MaxTexts
               /\ r' \in RunRecord /\ r'.kept # "new" /\ pc' \in {"ask", "condense", "end"}
  <2>1. UNCHANGED <<ctx, ran, runs>>
    BY DEF Drain, Condense, Latched
  <2>2. TypeOK'
    BY <1>2, <2>1, TypesAgain DEF RunInv, TypeOK
  <2>3. KeptInv' /\ BatchInv' /\ BoundInv'
    BY <1>2, Calm DEF Batching
  <2>4. QED
    BY <2>2, <2>3 DEF RunInv
<1>3. CASE Drain
  <2> DEFINE ms == [i \in 1..queue |-> Say("user", minted + i, 0)]
  <2>1. ms \in Seq(Message)
    <3>1. queue \in Nat /\ minted \in Nat
      BY DEF RunInv, TypeOK, RunAssumption
    <3>2. \A i \in 1..queue : Say("user", minted + i, 0) \in Message
      BY <3>1, SayType DEF Roles
    <3>3. ms \in [1..queue -> Message]
      BY <3>2
    <3>4. QED
      BY <3>1, <3>3, SeqDef
  <2> HIDE DEF ms
  <2>2. Recorded'
    <3>1. Record(ms)
      BY <1>3 DEF Drain, ms
    <3>2. QED
      BY <1>1, <2>1, <3>1, RecordStep
  <2>3. touched' \in BOOLEAN /\ queue' \in 0..MaxTexts
    BY <1>3 DEF Drain, RunInv, TypeOK, RunAssumption
  <2>4. r' \in RunRecord /\ r'.kept # "new" /\ pc' \in {"ask", "condense"}
    <3>1. \/ pc' = "ask" /\ r' = r
          \/ pc' = "ask" /\ r' = [r EXCEPT !.armed = TRUE]
          \/ pc' = "condense" /\ r' = [r EXCEPT !.armed = FALSE]
      BY <1>3 DEF Drain, Goto
    <3>2. QED
      BY <1>1, <3>1 DEF RunRecord
  <2>5. QED
    BY <2>2, <2>3, <2>4
<1>4. CASE Condense
  <2>1. r' \in RunRecord /\ r'.kept # "new" /\ pc' \in {"ask", "end"}
    BY <1>1, <1>4, LeaveType DEF Condense, Goto
  <2>2. Recorded' /\ touched' \in BOOLEAN
    <3>1. CASE UNCHANGED <<live, disk, minted, touched, perr>>
      BY <1>1, <3>1 DEF Recorded, RunInv, TypeOK
    <3>2. ASSUME NEW n \in 0..KeepTail, n < Len(live),
                 live' = <<Say("user", minted + 1, 0)>> \o Newest(n),
                 touched' = TRUE, minted' = minted + 1, Save(live', {disk, live'})
          PROVE  Recorded' /\ touched' \in BOOLEAN
      <4>1. Len(live) \in Nat /\ n \in Nat /\ minted + 1 \in Nat
        BY <1>1, LenProperties DEF Recorded, RunAssumption
      <4>2. Newest(n) \in Seq(Message)
        BY <1>1, <3>2, <4>1, SubType DEF Recorded, Newest
      <4>3. <<Say("user", minted + 1, 0)>> \in Seq(Message)
        BY <4>1, SayType DEF Roles
      <4>4. live' \in Seq(Message)
        BY <3>2, <4>2, <4>3, ConcatProperties
      <4>5. disk' \in Seq(Message) /\ perr' \in BOOLEAN
        BY <1>1, <3>2, <4>4, SaveStep DEF Recorded
      <4>6. QED
        BY <3>2, <4>1, <4>4, <4>5 DEF Recorded
    <3>3. QED
      BY <1>4, <3>1, <3>2 DEF Condense
  <2>3. queue' \in 0..MaxTexts
    BY <1>4 DEF Condense, RunInv, TypeOK
  <2>4. QED
    BY <2>1, <2>2, <2>3
<1>5. CASE Latched
  BY <1>1, <1>5, LeaveType DEF Latched, RunInv, TypeOK, Recorded
<1>6. QED
  BY <1>3, <1>4, <1>5

(* The reply an attempt keeps is the new end of the live transcript. *)
LEMMA AttemptStep ==
  ASSUME RunAssumption, RunInv, Attempt
  PROVE  RunInv'
<1>1. Recorded /\ r \in RunRecord /\ MaxCalls \in Nat
  BY DEF RunInv, TypeOK, Recorded, RunRecord, RunAssumption
<1>2. PICK f \in Ends, stop \in {"end", "calls", "length"}, k \in 0..MaxCalls, text \in BOOLEAN :
       LET heard == [r EXCEPT !.fate = f, !.stop = stop, !.calls = k, !.call = 1]
           n == Len(live) IN
       /\ Possible(f, stop, k, text)
       /\ \/ /\ ~text /\ k = 0 /\ r' = [heard EXCEPT !.kept = "no"]
             /\ UNCHANGED <<live, minted, touched>>
          \/ /\ text \/ k > 0
             /\ minted' = minted + 1 /\ touched' = TRUE
             /\ IF Merges(k)
                THEN /\ live' = [live EXCEPT ![n].id = minted + 1]
                     /\ r' = [heard EXCEPT !.kept = "merged", !.merged = n, !.stash = live'[n]]
                ELSE /\ live' = Append(live, Say("reply", minted + 1, k))
                     /\ r' = [heard EXCEPT !.kept = "new"]
  BY DEF Attempt
<1> DEFINE heard == [r EXCEPT !.fate = f, !.stop = stop, !.calls = k, !.call = 1]
<1>3. heard \in RunRecord /\ heard.calls = k /\ heard.stop = stop
  <2>1. f \in Fates \cup {"ok", "abort"} /\ 1 \in 1..MaxCalls + 1
    BY <1>1 DEF Ends
  <2>2. QED
    BY <1>1, <2>1 DEF RunRecord
<1>4. stop = "calls" => k > 0
  BY <1>2 DEF Possible
<1> HIDE DEF heard
<1>5. pc' = "judge" /\ disk' = disk /\ perr' \in BOOLEAN /\ UNCHANGED <<ctx, queue, ran, runs>>
  BY <1>1, NoteStep DEF Attempt, Goto, Recorded
<1>6. SUFFICES Recorded' /\ touched' \in BOOLEAN /\ r' \in RunRecord /\ KeptInv'
  <2>1. TypeOK'
    BY <1>5, <1>6, TypesAgain DEF RunInv, TypeOK
  <2>2. BatchInv' /\ BoundInv'
    <3>1. pc' = "judge"
      BY <1>5
    <3>2. pc' \notin Batching /\ pc' # "wait" /\ pc' \notin {"gate", "allowed"}
      BY <3>1 DEF Batching
    <3>3. BatchInv'
      BY <3>2 DEF BatchInv
    <3>4. BoundInv'
      BY <3>2 DEF BoundInv
    <3>5. QED
      BY <3>3, <3>4
  <2>3. QED
    BY <1>6, <2>1, <2>2 DEF RunInv
<1>7. CASE /\ ~text /\ k = 0 /\ r' = [heard EXCEPT !.kept = "no"]
           /\ UNCHANGED <<live, minted, touched>>
  <2>1. r' \in RunRecord /\ r'.kept = "no" /\ r'.calls = k /\ r'.stop = stop
    BY <1>3, <1>7 DEF RunRecord
  <2>2. QED
    <3>1. Recorded' /\ touched' \in BOOLEAN
      BY <1>1, <1>5, <1>7 DEF RunInv, TypeOK, Recorded
    <3>2. KeptInv'
      BY <1>4, <1>7, <2>1 DEF KeptInv
    <3>3. QED
      BY <2>1, <3>1, <3>2
<1>8. CASE /\ minted' = minted + 1 /\ touched' = TRUE /\ Merges(k)
           /\ live' = [live EXCEPT ![Len(live)].id = minted + 1]
           /\ r' = [heard EXCEPT !.kept = "merged", !.merged = Len(live), !.stash = live'[Len(live)]]
  <2>1. live # <<>> /\ k = 0
    BY <1>8 DEF Merges
  <2>2. Len(live) \in DOMAIN live /\ Last(live) \in Message /\ Len(live) \in Nat
    BY <1>1, <2>1, LastType, LenProperties DEF Recorded
  <2>3. [Last(live) EXCEPT !.id = minted + 1] \in Message
    <3> DEFINE m == Last(live)
    <3>1. m \in Message /\ minted + 1 \in Nat
      BY <1>1, <2>2 DEF Recorded
    <3> HIDE DEF m
    <3>2. [m EXCEPT !.id = minted + 1] \in Message
      BY <3>1 DEF Message
    <3>3. QED
      BY <3>2 DEF m
  <2>4. live' = [live EXCEPT ![Len(live)] = [Last(live) EXCEPT !.id = minted + 1]]
    BY <1>8 DEF Last
  <2>5. live' \in Seq(Message) /\ live'[Len(live)] \in Message
    BY <1>1, <2>2, <2>3, <2>4, ExceptSeq, LenProperties DEF Recorded
  <2>6. r' \in RunRecord /\ r'.kept = "merged" /\ r'.calls = k /\ r'.stop = stop
    BY <1>3, <1>8, <2>2, <2>5 DEF RunRecord
  <2>7. QED
    BY <1>1, <1>4, <1>5, <1>8, <2>1, <2>5, <2>6 DEF Recorded, KeptInv
<1>9. CASE /\ minted' = minted + 1 /\ touched' = TRUE
           /\ live' = Append(live, Say("reply", minted + 1, k))
           /\ r' = [heard EXCEPT !.kept = "new"]
  <2> DEFINE m == Say("reply", minted + 1, k)
  <2>1. m \in Message /\ m.calls = k
    BY <1>1, SayType DEF Roles, Say, Recorded
  <2> HIDE DEF m
  <2>2. live' = Append(live, m)
    BY <1>9 DEF m
  <2>3. live' \in Seq(Message) /\ live' # <<>> /\ Last(live') = m
    BY <1>1, <2>1, <2>2, AppendedType DEF Recorded
  <2>4. r' \in RunRecord /\ r'.calls = k /\ r'.stop = stop
    BY <1>3, <1>9 DEF RunRecord
  <2>5. QED
    <3>1. Recorded' /\ touched' \in BOOLEAN /\ minted' > 0
      BY <1>1, <1>5, <1>9, <2>3 DEF Recorded
    <3>2. KeptInv'
      <4>1. Last(live').calls = r'.calls
        BY <2>1, <2>3, <2>4
      <4>2. r'.kept = "new"
        BY <1>9
      <4>3. QED
        BY <1>4, <1>5, <2>3, <2>4, <3>1, <4>1, <4>2 DEF KeptInv
    <3>3. QED
      BY <2>4, <3>1, <3>2
<1>10. QED
  BY <1>2, <1>7, <1>8, <1>9 DEF heard

(* Dropping the attempt gives its id back, and only its own. *)
LEMMA DropReplyType ==
  ASSUME RunInv, pc = "judge", DropReply
  PROVE  live' \in Seq(Message) /\ minted' \in Nat
<1>1. Recorded
  BY DEF RunInv, TypeOK, Recorded
<1>2. CASE live # <<>> /\ live' = Prefix(live, Len(live) - 1)
           /\ minted' = IF r.kept = "new" THEN minted - 1 ELSE minted
  <2>1. live' \in Seq(Message)
    BY <1>1, <1>2, LastType, PrefixType DEF Recorded
  <2>2. minted' \in Nat
    BY <1>1, <1>2 DEF Recorded, RunInv, KeptInv
  <2>3. QED
    BY <2>1, <2>2
<1>3. CASE UNCHANGED <<live, minted>>
  BY <1>1, <1>3 DEF Recorded
<1>4. QED
  BY <1>2, <1>3 DEF DropReply

(* An attempt is abandoned, the wait is over, or the reply is final: only  *)
(* a reply whose commit did not fail opens a batch.                        *)
LEMMA JudgeStep ==
  ASSUME RunAssumption, RunInv, Recover \/ Retry \/ Backoff \/ Commit
  PROVE  RunInv'
<1>1. Recorded /\ r \in RunRecord /\ touched \in BOOLEAN
  BY DEF RunInv, TypeOK, Recorded, RunRecord
<1>2. UNCHANGED <<ctx, queue, ran, runs>>
  BY DEF Recover, Retry, Backoff, Commit
<1>3. CASE Recover
  <2>1. {disk} \in SUBSET Seq(Message) /\ disk \in Seq(Message)
    BY <1>1 DEF Recorded
  <2>2. Recorded'
    BY <1>1, <1>3, <2>1, DropReplyType, SaveStep DEF Recover, Note, At, Recorded
  <2>3. r' \in RunRecord /\ r'.kept = "no" /\ pc' = "ask" /\ touched' \in BOOLEAN
    <3>1. r.images + 1 \in 0..MaxImages
      BY <1>1, <1>3 DEF Recover, RunRecord, RunAssumption
    <3>2. r' = [r EXCEPT !.images = r.images + 1, !.kept = "no", !.fate = "ok"]
      BY <1>3 DEF Recover
    <3>3. QED
      BY <1>1, <1>3, <3>1, <3>2 DEF Recover, Goto, RunRecord
  <2>4. QED
    BY <1>2, <2>2, <2>3, TypesAgain, Calm DEF RunInv, TypeOK, Batching
<1>4. CASE Retry
  <2>1. Recorded'
    BY <1>1, <1>4, DropReplyType, NoteStep DEF Retry, At, Recorded
  <2>2. r' \in RunRecord /\ r'.kept = "no" /\ pc' = "wait" /\ r'.attempt < MaxRetries
    <3>1. 0 \in 0..MaxCalls
      BY DEF RunAssumption
    <3>2. r' = [r EXCEPT !.kept = "no", !.fate = "ok", !.calls = 0] /\ pc' = "wait"
      BY <1>4 DEF Retry, Goto
    <3>3. r' \in RunRecord /\ r'.kept = "no" /\ r'.attempt = r.attempt
      BY <1>1, <3>1, <3>2 DEF RunRecord
    <3>4. QED
      BY <1>4, <3>2, <3>3 DEF Retry, CanRetry
  <2>3. touched' \in BOOLEAN
    BY <1>1, <1>4 DEF Retry
  <2>4. TypeOK'
    BY <1>2, <2>1, <2>2, <2>3, TypesAgain DEF RunInv, TypeOK
  <2>5. QED
    BY <2>2, <2>4 DEF RunInv, KeptInv, BatchInv, BoundInv, Batching
<1>5. CASE Backoff
  <2>1. r' \in RunRecord /\ r'.kept # "new" /\ pc' \in {"ask", "end"}
    <3>1. r.kept # "new" /\ r.attempt + 1 \in 0..MaxRetries
      BY <1>1, <1>5 DEF Backoff, At, RunInv, KeptInv, BoundInv, RunRecord, RunAssumption
    <3>2. CASE Leave
      BY <1>1, <3>2, LeaveType
    <3>3. CASE Goto("ask") /\ r' = [r EXCEPT !.attempt = r.attempt + 1]
      BY <1>1, <3>1, <3>3 DEF Goto, RunRecord
    <3>4. QED
      BY <1>5, <3>2, <3>3 DEF Backoff
  <2>2. Recorded' /\ touched' \in BOOLEAN
    BY <1>1, <1>5 DEF Backoff, Recorded
  <2>3. QED
    BY <1>2, <2>1, <2>2, TypesAgain, Calm DEF RunInv, TypeOK, Batching
<1>6. CASE Commit
  <2> DEFINE new == Append(disk, live[Len(live)])
  <2>1. r.kept = "new" => new \in Seq(Message) /\ Last(new) = Last(live) /\ Len(new) \in DOMAIN new
    BY <1>1, LastType, AppendedType, LenProperties DEF RunInv, KeptInv, Recorded, Last
  <2>2. /\ r.kept = "new" => Save(new, {disk, new})
        /\ r.kept # "new" => UNCHANGED <<disk, perr>>
    BY <1>6 DEF Commit
  <2> HIDE DEF new
  <2>3. disk' \in Seq(Message) /\ perr' \in BOOLEAN /\ (~perr' /\ r.kept = "new" => disk' = new)
    BY <1>1, <2>1, <2>2, SaveStep DEF Recorded
  <2>4. Recorded' /\ touched' \in BOOLEAN
    BY <1>1, <1>6, <2>3 DEF Commit, Recorded
  <2>5. CASE Leave
    BY <1>1, <1>2, <2>4, <2>5, LeaveType, TypesAgain, Calm DEF RunInv, TypeOK, Batching
  <2>6. CASE ~perr' /\ Goto(AfterReply) /\ Settled
    <3>1. r' \in RunRecord /\ r'.kept = "no" /\ r'.calls = r.calls
      <4>1. 0 \in 0..MaxRetries /\ 0 \in 0..MaxImages
        BY DEF RunAssumption
      <4>2. QED
        BY <1>1, <2>6, <4>1 DEF Settled, RunRecord
    <3>2. pc' \in {"call", "cut", "close"}
      BY <2>6 DEF Goto, AfterReply
    <3>3. TypeOK'
      BY <1>2, <2>4, <3>1, <3>2, TypesAgain DEF RunInv, TypeOK
    <3>4. KeptInv' /\ BoundInv'
      BY <3>1, <3>2 DEF KeptInv, BoundInv
    <3>5. BatchInv'
      <4>1. SUFFICES ASSUME pc' = "call"
                     PROVE /\ live' # <<>> /\ Last(live').calls = r'.calls
                           /\ \E i \in DOMAIN disk' : disk'[i] = Last(live')
        BY <3>2 DEF BatchInv, Batching
      <4>2. r.stop = "calls"
        BY <2>6, <4>1 DEF Goto, AfterReply
      <4>3. r.kept = "new"
        BY <1>6, <4>2 DEF Commit, At, RunInv, TypeOK, KeptInv
      <4>4. live' = live /\ live # <<>> /\ Last(live).calls = r.calls
        BY <1>6, <4>3 DEF Commit, RunInv, KeptInv
      <4>5. disk' = new /\ Last(new) = Last(live) /\ Len(new) \in DOMAIN new
        BY <2>1, <2>3, <2>6, <4>3
      <4>6. \E i \in DOMAIN disk' : disk'[i] = Last(live)
        BY <4>5 DEF Last
      <4>7. QED
        BY <3>1, <4>4, <4>6
    <3>6. QED
      BY <3>3, <3>4, <3>5 DEF RunInv
  <2>7. QED
    BY <1>6, <2>5, <2>6 DEF Commit
<1>7. QED
  BY <1>3, <1>4, <1>5, <1>6

(* The batch: its calls are counted against the reply on disk. *)
LEMMA BatchStep ==
  ASSUME RunAssumption, RunInv, Dispatch \/ Allow \/ Refuse \/ Unpark \/ Execute
  PROVE  RunInv'
<1>1. Recorded /\ r \in RunRecord /\ touched \in BOOLEAN /\ r.kept # "new" /\ pc \in Batching
  BY NotKept DEF RunInv, TypeOK, Recorded, RunRecord, Dispatch, Allow, Refuse, Unpark, Execute,
     At, Batching
<1>2. UNCHANGED <<live, disk, minted, touched, ctx, queue, runs>> /\ perr' \in BOOLEAN
  BY <1>1, NoteStep DEF Dispatch, Allow, Refuse, Unpark, Execute, Recorded
<1>3. /\ pc' \in Batching
      /\ \/ r' = r
         \/ pc' = "call" /\ pc # "call" /\ r' = [r EXCEPT !.call = r.call + 1]
         \/ pc' = "call" /\ r.call <= r.calls /\ r' = [r EXCEPT !.call = r.call + 1]
      /\ pc' \in {"gate", "allowed"} => r' = r /\ (pc = "gate" \/ r.call <= r.calls)
  BY DEF Dispatch, Allow, Refuse, Unpark, Execute, Answered, At, Goto, Batching
<1>4. r' \in RunRecord /\ r'.kept = r.kept /\ r'.calls = r.calls
  <2>1. CASE r' = r
    BY <1>1, <2>1
  <2>2. CASE r.call <= r.calls /\ r' = [r EXCEPT !.call = r.call + 1]
    <3>1. r.call + 1 \in 1..MaxCalls + 1
      BY <1>1, <2>2 DEF RunRecord, RunAssumption
    <3>2. QED
      BY <1>1, <2>2, <3>1 DEF RunRecord
  <2>3. QED
    BY <1>1, <1>3, <2>1, <2>2 DEF RunInv, BoundInv, Batching
<1>5. ran' \subseteq Nat \X Nat
  <2>1. r.call \in Nat
    BY <1>1 DEF RunRecord, RunAssumption
  <2>2. Last(live).id \in Nat
    BY <1>1, LastType DEF RunInv, BatchInv, Message, Recorded
  <2>3. ran' = ran \/ ran' = ran \cup {<<Last(live).id, r.call>>}
    BY DEF Dispatch, Allow, Refuse, Unpark, Execute, Last
  <2>4. ran \subseteq Nat \X Nat /\ <<Last(live).id, r.call>> \in Nat \X Nat
    BY <2>1, <2>2 DEF RunInv, TypeOK
  <2>5. QED
    BY <2>3, <2>4
<1>6. TypeOK'
  BY <1>1, <1>2, <1>3, <1>4, <1>5, TypesAgain DEF RunInv, TypeOK, Recorded, Batching
<1>7. KeptInv' /\ BatchInv' /\ BoundInv'
  BY <1>1, <1>2, <1>3, <1>4 DEF RunInv, KeptInv, BatchInv, BoundInv, Batching, Last
<1>8. QED
  BY <1>6, <1>7 DEF RunInv

(* The answers to a batch, and the close. *)
LEMMA AnswerStep ==
  ASSUME RunAssumption, RunInv, AnswerCutOff \/ Results \/ Close
  PROVE  RunInv'
<1>1. Recorded /\ r \in RunRecord /\ touched \in BOOLEAN /\ r.kept # "new"
  BY NotKept DEF RunInv, TypeOK, Recorded, RunRecord, AnswerCutOff, Results, Close, At
<1>2. \A role \in Roles : <<Say(role, minted + 1, 0)>> \in Seq(Message)
  BY <1>1, SayType DEF Recorded
<1>3. Recorded'
  BY <1>1, <1>2, RecordStep DEF AnswerCutOff, Results, Close, Roles, Recorded
<1>4. touched' \in BOOLEAN /\ UNCHANGED <<ctx, queue, ran, runs>>
  BY <1>1 DEF AnswerCutOff, Results, Close
<1>5. r' \in RunRecord /\ r'.kept # "new" /\ pc' \in {"end", "top", "close"}
  <2>1. \/ Leave
        \/ pc' = "close" /\ r' = r
        \/ \E nudged \in BOOLEAN : NextStep(nudged)
    BY <1>1 DEF AnswerCutOff, Results, Close, Goto, RunRecord
  <2>2. QED
    BY <1>1, <2>1, LeaveType, NextStepType
<1>6. QED
  BY <1>3, <1>4, <1>5, TypesAgain, Calm DEF RunInv, TypeOK, Batching

(* The end of a run cuts a withdrawn prompt or replaces a merged message. *)
LEMMA FinishStep ==
  ASSUME RunAssumption, RunInv, Finish
  PROVE  RunInv'
<1> DEFINE n == Len(live)
           without == IF n \in DOMAIN disk THEN Without(disk, n) ELSE disk
           replaced == IF r.merged \in DOMAIN disk THEN [disk EXCEPT ![r.merged] = r.stash] ELSE disk
<1>1. Recorded /\ r \in RunRecord /\ n \in Nat /\ Len(disk) \in Nat
  BY LenProperties DEF RunInv, TypeOK, Recorded, RunRecord
<1>2. without \in Seq(Message)
  <2>1. ASSUME n \in DOMAIN disk PROVE Without(disk, n) \in Seq(Message)
    <3>1. n \in 1..Len(disk)
      BY <1>1, <2>1, LenProperties DEF Recorded
    <3>2. SubSeq(disk, 1, n - 1) \in Seq(Message) /\ SubSeq(disk, n + 1, Len(disk)) \in Seq(Message)
      BY <1>1, <3>1, SubType DEF Recorded
    <3>3. QED
      BY <3>2, ConcatProperties DEF Without
  <2>2. QED
    BY <1>1, <2>1 DEF Recorded
<1>3. replaced \in Seq(Message)
  <2>1. r.stash \in Message
    BY <1>1 DEF RunRecord
  <2>2. r.merged \in DOMAIN disk => r.merged \in 1..Len(disk)
    BY <1>1, LenProperties DEF Recorded
  <2>3. QED
    BY <1>1, <2>1, <2>2, ExceptSeq DEF Recorded
<1>4. live' \in Seq(Message)
  BY <1>1, SubType DEF Finish, Recorded, Prefix
<1>5. \/ Save(without, {disk, without})
      \/ Save(replaced, {disk, replaced})
      \/ UNCHANGED <<disk, perr>>
  BY DEF Finish
<1>6. disk' \in Seq(Message) /\ perr' \in BOOLEAN
  <2> HIDE DEF without, replaced
  <2>1. QED
    BY <1>1, <1>2, <1>3, <1>5, SaveStep DEF Recorded
<1>7. pc' = "idle" /\ r' = NoRun /\ ctx' = "live" /\ touched' = FALSE
      /\ UNCHANGED <<minted, queue, ran, runs>>
  BY DEF Finish, Halted, Goto
<1>8. QED
  BY <1>1, <1>4, <1>6, <1>7, NoRunType, TypesAgain, Calm DEF RunInv, TypeOK, Recorded, Batching

(* What other people do to a run, and the death of the process. *)
LEMMA OthersStep ==
  ASSUME RunAssumption, RunInv, Queue \/ Unqueue \/ Cancel \/ Crash
  PROVE  RunInv'
<1>1. CASE Crash
  <2>1. pc' = "idle" /\ r' = NoRun /\ ctx' = "live" /\ UNCHANGED <<ran, runs>>
    BY <1>1 DEF Crash, Halted, Goto
  <2>2. Recorded' /\ touched' \in BOOLEAN
    BY <1>1 DEF Crash, RunInv, TypeOK, Recorded
  <2>3. queue' \in 0..MaxTexts
    BY <1>1 DEF Crash, RunAssumption
  <2>4. ran' \subseteq Nat \X Nat
    BY <2>1 DEF RunInv, TypeOK
  <2>5. TypeOK'
    BY <2>1, <2>2, <2>3, <2>4, NoRunType, TypesAgain
  <2>6. QED
    BY <2>1, <2>5, NoRunType, Calm DEF RunInv, Batching
<1>2. CASE Queue \/ Unqueue \/ Cancel
  <2>1. Others /\ ctx' \in {"live", "user", "drain"}
    BY <1>2 DEF Queue, Unqueue, Cancel, RunInv, TypeOK
  <2>2. queue' \in 0..MaxTexts
    <3>1. minted \in Nat /\ queue \in Nat /\ queue <= MaxTexts /\ MaxTexts \in Nat
      BY DEF RunInv, TypeOK, RunAssumption
    <3>2. \/ queue' = queue + 1 /\ minted + queue < MaxTexts
          \/ queue' \in 0..queue - 1
          \/ queue' = queue
      BY <1>2 DEF Queue, Unqueue, Cancel
    <3>3. QED
      BY <3>1, <3>2
  <2>3. TypeOK'
    BY <2>1, <2>2 DEF Others, RunInv, TypeOK
  <2>4. KeptInv' /\ BatchInv' /\ BoundInv'
    BY <2>1 DEF Others, RunInv, KeptInv, BatchInv, BoundInv, Batching, Last
  <2>5. QED
    BY <2>3, <2>4 DEF RunInv
<1>3. QED
  BY <1>1, <1>2

LEMMA RunInvStep ==
  ASSUME RunAssumption, RunInv, [Next]_vars
  PROVE  RunInv'
<1>1. CASE UNCHANGED vars
  BY <1>1 DEF vars, RunInv, TypeOK, KeptInv, BatchInv, BoundInv, Batching, Last
<1>2. CASE Next
  BY <1>2, StartsStep, TopStep, AttemptStep, JudgeStep, BatchStep, AnswerStep, FinishStep, OthersStep
     DEF Next, Work, Person
<1>3. QED
  BY <1>1, <1>2

LEMMA RunInvAlways == Spec => []RunInv
BY RunAssumption, RunInvInit, RunInvStep, PTL DEF Spec

-----------------------------------------------------------------------------
(* Type correctness, for every value of the constants: the attempt, step   *)
(* and call counters of agent.go keep their bounds, and both copies of the *)
(* conversation stay transcripts.                                          *)
THEOREM RunTypes == Spec => []TypeOK
<1>1. RunInv => TypeOK
  BY DEF RunInv
<1>2. QED
  BY <1>1, RunInvAlways, PTL

(* A tool has its effect only after the reply that asked for it is in the  *)
(* session file: oneTurn commits the reply before executeTools runs, and a *)
(* commit that failed ends the run first.                                  *)
THEOREM EffectsRecorded == Spec => EffectOnRecord
<1>1. ASSUME RunInv, [Next]_vars
      PROVE  [\A c \in ran' \ ran : \E i \in DOMAIN disk :
                disk[i].id = c[1] /\ c[2] <= disk[i].calls]_vars
  <2>1. SUFFICES ASSUME NEW c \in ran' \ ran
                 PROVE  \E i \in DOMAIN disk : disk[i].id = c[1] /\ c[2] <= disk[i].calls
    OBVIOUS
  <2>2. Execute
    <3>1. ~UNCHANGED ran
      BY <2>1
    <3>2. Next
      BY <1>1, <3>1 DEF vars
    <3>3. QED
      BY <3>1, <3>2 DEF Next, Starts, Work, Person, Prompt, RetryTurn, Advance, ContinueTurn,
         PostDirected, Begin, Drain, Condense, Latched, Attempt, Recover, Retry, Backoff, Commit,
         AnswerCutOff, Dispatch, Unpark, Results, Close, Finish, Allow, Refuse, Queue, Unqueue,
         Cancel, Others, Crash
  <2>3. c = <<Last(live).id, r.call>> /\ pc = "allowed"
    BY <2>1, <2>2 DEF Execute, Last, At
  <2>4. PICK i \in DOMAIN disk : disk[i] = Last(live)
    BY <1>1, <2>3 DEF RunInv, BatchInv, Batching
  <2>5. Last(live).calls = r.calls /\ r.call <= r.calls
    BY <1>1, <2>3 DEF RunInv, BatchInv, BoundInv, Batching
  <2>6. QED
    BY <2>3, <2>4, <2>5
<1>2. QED
  BY <1>1, RunInvAlways, PTL DEF Spec, EffectOnRecord

(* A cancelled run dispatches nothing: executeTool reads the run's context *)
(* after the gate has answered, whoever answered it and however late.      *)
THEOREM CancelHonoured == Spec => NoLateEffect
<1>1. ASSUME [Next]_vars
      PROVE  [ran' # ran => ctx = "live"]_vars
  <2>1. SUFFICES ASSUME ran' # ran PROVE ctx = "live"
    OBVIOUS
  <2>2. Execute
    BY <1>1, <2>1 DEF vars, Next, Starts, Work, Person, Prompt, RetryTurn, Advance, ContinueTurn,
       PostDirected, Begin, Drain, Condense, Latched, Attempt, Recover, Retry, Backoff, Commit,
       AnswerCutOff, Dispatch, Unpark, Results, Close, Finish, Allow, Refuse, Queue, Unqueue,
       Cancel, Others, Crash
  <2>3. QED
    BY <2>1, <2>2 DEF Execute
<1>2. QED
  BY <1>1, PTL DEF Spec, NoLateEffect

-----------------------------------------------------------------------------
(***************************************************************************)
(* In a session driven by prompts and retries, whose queue nobody edits,   *)
(* the live transcript and the file agree between runs.  The two           *)
(* restrictions are the ones the code needs: with a run that begins on the *)
(* agent's own words, or a queue emptied behind the close, a retried       *)
(* attempt drops a message that is on disk.                                *)
(***************************************************************************)
PromptsOnly == Verbs \subseteq {"prompt", "retry"} /\ "unqueue" \notin People

Lines == {m \in Message : m.role # "directed"}

(* No verb here merges onto a message or writes the author's own line. *)
PlainInv ==
  /\ r.verb \in {"none", "prompt", "retry"} /\ r.merged = 0 /\ r.kept # "merged"
  /\ live \in Seq(Lines) /\ disk \in Seq(Lines)

(* Up to the reply in doubt, the two copies agree. *)
AgreeInv ==
  ~perr => disk = IF r.kept = "new" THEN Prefix(live, Len(live) - 1) ELSE live

(* A request goes out on a message that is not the agent's, so that what   *)
(* a retry drops is the attempt.                                           *)
Asks(s) == s # <<>> /\ ~Spoken(Last(s))
TurnInv ==
  /\ pc \in {"condense", "ask", "wait"} => Asks(live)
  /\ pc = "top" => queue > 0 \/ Asks(live)
  /\ pc = "judge" /\ r.kept = "no" => Asks(live)
  /\ r.kept = "new" => Spoken(Last(live)) /\ Asks(Prefix(live, Len(live) - 1))

DurInv == RunInv /\ PlainInv /\ AgreeInv /\ TurnInv

-----------------------------------------------------------------------------
(* Sequences: the last message, and a prefix that stops short of it. *)
LEMMA LastOfConcat ==
  ASSUME NEW S, NEW s \in Seq(S), NEW t \in Seq(S), t # <<>>
  PROVE  s \o t # <<>> /\ Last(s \o t) = Last(t)
<1>1. Len(s) \in Nat /\ Len(t) \in Nat /\ Len(t) > 0
  BY EmptySeq, LenProperties
<1>2. Len(s \o t) = Len(s) + Len(t)
  BY ConcatProperties
<1>3. (s \o t)[Len(s) + Len(t)] = t[Len(t)]
  BY <1>1, ConcatProperties
<1>4. s \o t # <<>>
  BY <1>1, <1>2, ConcatProperties, EmptySeq
<1>5. QED
  BY <1>2, <1>3, <1>4 DEF Last

LEMMA PrefixOfAppend ==
  ASSUME NEW S, NEW s \in Seq(S), NEW m \in S
  PROVE  Prefix(Append(s, m), Len(Append(s, m)) - 1) = s
<1>1. Append(s, m) \in Seq(S) /\ Len(Append(s, m)) = Len(s) + 1 /\ Len(s) \in Nat
  BY AppendProperties, LenProperties
<1>2. \A i \in 1..Len(s) : Append(s, m)[i] = s[i]
  BY AppendProperties
<1> DEFINE p == Prefix(Append(s, m), Len(s))
<1>3. p \in Seq(S) /\ Len(p) = Len(s) /\ \A i \in 1..Len(s) : p[i] = Append(s, m)[i]
  <2>1. Len(s) \in 0..Len(Append(s, m))
    BY <1>1
  <2>2. QED
    BY <1>1, <2>1, PrefixType
<1> HIDE DEF p
<1>4. p = s
  BY <1>2, <1>3, SeqEqual
<1>5. QED
  BY <1>1, <1>4 DEF p

LEMMA AppendOfPrefix ==
  ASSUME NEW S, NEW s \in Seq(S), s # <<>>
  PROVE  Append(Prefix(s, Len(s) - 1), Last(s)) = s
<1>1. Len(s) \in Nat /\ Len(s) > 0 /\ Last(s) \in S
  BY EmptySeq, LenProperties, ElementOfSeq DEF Last
<1>2. SubSeq(s, 1, Len(s)) = SubSeq(s, 1, Len(s) - 1) \o <<Last(s)>>
  BY <1>1, SubSeqRecursiveSecond DEF Last
<1>3. Prefix(s, Len(s) - 1) \in Seq(S)
  BY <1>1, PrefixType
<1>4. Append(Prefix(s, Len(s) - 1), Last(s)) = Prefix(s, Len(s) - 1) \o <<Last(s)>>
  BY <1>1, <1>3, AppendIsConcat
<1>5. QED
  BY <1>2, <1>4, SubSeqFull DEF Prefix

LEMMA WithoutLast ==
  ASSUME NEW S, NEW s \in Seq(S), s # <<>>
  PROVE  Without(s, Len(s)) = Prefix(s, Len(s) - 1)
<1>1. Len(s) \in Nat /\ Len(s) > 0
  BY EmptySeq, LenProperties
<1>2. SubSeq(s, Len(s) + 1, Len(s)) = <<>>
  BY <1>1, SubSeqEmpty
<1>3. Prefix(s, Len(s) - 1) \in Seq(S)
  BY <1>1, PrefixType
<1>4. QED
  BY <1>2, <1>3, ConcatEmptySeq DEF Without, Prefix

LEMMA LineType ==
  ASSUME NEW role \in {"user", "reply", "tool"}, NEW n \in Nat, NEW k \in Nat
  PROVE  /\ Say(role, n, k) \in Lines
         /\ Spoken(Say(role, n, k)) <=> role = "reply"
BY SayType DEF Roles, Lines, Say, Spoken, Message

(* Recording lines on two copies that agree leaves them in agreement. *)
LEMMA RecordLines ==
  ASSUME RunInv, PlainInv, AgreeInv, r.kept # "new", r'.kept # "new",
         NEW ms \in Seq(Lines), Record(ms)
  PROVE  /\ live' \in Seq(Lines) /\ disk' \in Seq(Lines) /\ AgreeInv'
         /\ live' = live \o ms
         /\ ms # <<>> => live' # <<>> /\ Last(live') = Last(ms)
<1>1. live \o ms \in Seq(Lines) /\ disk \o ms \in Seq(Lines)
  BY ConcatProperties DEF PlainInv
<1>2. {disk \o Prefix(ms, n) : n \in 0..Len(ms)} \in SUBSET Seq(Lines)
  <2>1. SUFFICES ASSUME NEW n \in 0..Len(ms) PROVE disk \o Prefix(ms, n) \in Seq(Lines)
    OBVIOUS
  <2>2. Prefix(ms, n) \in Seq(Lines)
    BY PrefixType
  <2>3. QED
    BY <2>2, ConcatProperties DEF PlainInv
<1>3. perr \in BOOLEAN /\ disk \in Seq(Lines)
  BY DEF RunInv, TypeOK, PlainInv
<1>4. disk' \in Seq(Lines) /\ (perr => perr') /\ (~perr' => disk' = disk \o ms)
  BY <1>1, <1>2, <1>3, SaveStep DEF Record
<1>5. live' = live \o ms
  BY DEF Record
<1>6. AgreeInv'
  BY <1>3, <1>4, <1>5 DEF AgreeInv
<1>7. ms # <<>> => live' # <<>> /\ Last(live') = Last(ms)
  BY <1>5, LastOfConcat DEF PlainInv
<1>8. QED
  BY <1>1, <1>4, <1>5, <1>6, <1>7

-----------------------------------------------------------------------------
LEMMA DurInvInit == ASSUME RunAssumption, PromptsOnly, Init PROVE DurInv
<1>1. RunInv
  BY RunInvInit
<1>2. <<>> \in Seq(Lines)
  BY EmptySeq
<1>3. PlainInv /\ AgreeInv /\ TurnInv
  BY <1>2 DEF Init, NoRun, PlainInv, AgreeInv, TurnInv
<1>4. QED
  BY <1>1, <1>3 DEF DurInv

(* The verbs that are left start on the author's words. *)
LEMMA DurStarts ==
  ASSUME RunAssumption, PromptsOnly, DurInv, Starts
  PROVE  PlainInv' /\ AgreeInv' /\ TurnInv'
<1>1. Prompt \/ RetryTurn
  BY DEF PromptsOnly, Starts, Advance, ContinueTurn, PostDirected, Begin
<1>2. live \in Seq(Lines) /\ disk \in Seq(Lines) /\ perr \in BOOLEAN /\ minted \in Nat
      /\ pc = "idle" /\ r.kept # "new"
  <2>1. pc = "idle"
    BY <1>1 DEF Prompt, RetryTurn, Begin, At
  <2>2. QED
    BY <2>1, NotKept DEF DurInv, PlainInv, RunInv, TypeOK
<1>3. /\ NoRun.merged = 0 /\ NoRun.kept = "no" /\ NoRun.verb = "none"
      /\ \A v \in {"prompt", "retry"}, o \in Nat :
           [NoRun EXCEPT !.verb = v].merged = 0 /\ [NoRun EXCEPT !.verb = v].kept = "no"
           /\ [NoRun EXCEPT !.verb = v].verb = v
           /\ [NoRun EXCEPT !.verb = v, !.own = o].merged = 0
           /\ [NoRun EXCEPT !.verb = v, !.own = o].kept = "no"
           /\ [NoRun EXCEPT !.verb = v, !.own = o].verb = v
  BY DEF NoRun
<1>4. CASE Prompt
  <2> DEFINE m == Say("user", minted + 1, 0)
             ms == <<m>>
  <2>1. m \in Lines /\ ~Spoken(m)
    BY <1>2, LineType
  <2> HIDE DEF m
  <2>2. ms \in Seq(Lines) /\ ms # <<>> /\ Last(ms) = m
    BY <2>1 DEF Last
  <2> HIDE DEF ms
  <2>3. r'.verb = "prompt" /\ r'.merged = 0 /\ r'.kept = "no" /\ pc' = "top"
    BY <1>2, <1>3, <1>4 DEF Prompt, Goto
  <2>4. Record(ms)
    BY <1>4 DEF Prompt, m, ms
  <2>5. live' \in Seq(Lines) /\ disk' \in Seq(Lines) /\ AgreeInv' /\ live' # <<>> /\ Last(live') = m
    BY <1>2, <2>2, <2>3, <2>4, RecordLines DEF DurInv
  <2>6. QED
    BY <2>1, <2>3, <2>5 DEF PlainInv, TurnInv, Asks
<1>5. CASE RetryTurn
  <2>1. PICK i \in 1..Len(live) - 1 :
          LET kept == IF i <= Len(disk) THEN Prefix(disk, i) ELSE disk IN
          /\ Begin("retry") /\ Response(i)
          /\ Save(kept, {disk, kept})
          /\ \/ ~perr' /\ live' = Prefix(live, i) /\ Started("retry")
             \/ perr' /\ Halted /\ UNCHANGED live
          /\ UNCHANGED <<minted, touched>>
    BY <1>5 DEF RetryTurn
  <2> DEFINE kept == IF i <= Len(disk) THEN Prefix(disk, i) ELSE disk
  <2>2. i \in 0..Len(live) /\ i > 0 /\ Len(disk) \in Nat /\ Len(live) \in Nat
    BY <1>2, LenProperties
  <2>3. kept \in Seq(Lines) /\ Prefix(live, i) \in Seq(Lines) /\ Len(Prefix(live, i)) = i
        /\ Prefix(live, i)[i] = live[i]
    <3>1. i <= Len(disk) => i \in 0..Len(disk)
      BY <2>2
    <3>2. /\ Prefix(live, i) \in Seq(Lines) /\ Len(Prefix(live, i)) = i
          /\ Prefix(live, i)[i] = live[i]
      <4>1. /\ Prefix(live, i) \in Seq(Lines) /\ Len(Prefix(live, i)) = i
            /\ \A j \in 1..i : Prefix(live, i)[j] = live[j]
        BY <1>2, <2>2, PrefixType
      <4>2. i \in 1..i
        BY <2>2
      <4>3. QED
        BY <4>1, <4>2
    <3>3. i <= Len(disk) => Prefix(disk, i) \in Seq(Lines)
      BY <1>2, <3>1, PrefixType
    <3>4. QED
      BY <1>2, <3>2, <3>3
  <2>4. Save(kept, {disk, kept})
    BY <2>1
  <2> HIDE DEF kept
  <2>5. disk' \in Seq(Lines) /\ (perr => perr') /\ (~perr' => disk' = kept)
    BY <1>2, <2>3, <2>4, SaveStep
  <2>6. CASE ~perr' /\ live' = Prefix(live, i) /\ Started("retry")
    <3>1. r'.verb = "retry" /\ r'.merged = 0 /\ r'.kept = "no" /\ pc' = "top"
      BY <1>3, <2>6 DEF Started, Goto
    <3>2. live' # <<>> /\ Last(live') = live[i]
      BY <2>2, <2>3, <2>6, EmptySeq DEF Last
    <3>3. ~Spoken(live[i])
      <4>1. live[i] \in Lines
        BY <1>2, <2>2, ElementOfSeq
      <4>2. QED
        BY <2>1, <4>1 DEF Response, Authored, Spoken, Lines
    <3>4. disk = live
      BY <1>2, <2>5, <2>6 DEF DurInv, AgreeInv
    <3>5. disk' = live'
      BY <2>2, <2>5, <2>6, <3>4 DEF kept
    <3>6. QED
      BY <2>3, <2>5, <2>6, <3>1, <3>2, <3>3, <3>5 DEF PlainInv, AgreeInv, TurnInv, Asks
  <2>7. CASE perr' /\ Halted /\ UNCHANGED live
    BY <1>2, <1>3, <2>5, <2>7 DEF Halted, Goto, PlainInv, AgreeInv, TurnInv
  <2>8. QED
    BY <2>1, <2>6, <2>7
<1>6. QED
  BY <1>1, <1>4, <1>5

(* Leaving the loop settles everything. *)
LEMMA LeaveDur ==
  ASSUME RunInv, PlainInv, Leave
  PROVE  /\ r'.verb \in {"none", "prompt", "retry"} /\ r'.merged = 0 /\ r'.kept = "no"
         /\ pc' = "end" /\ TurnInv'
<1>1. r \in RunRecord
  BY DEF RunInv, TypeOK, RunRecord
<1>2. r'.verb = r.verb /\ r'.merged = r.merged /\ r'.kept = "no" /\ pc' = "end"
  BY DEF Leave, NoRun, Goto
<1>3. QED
  BY <1>2 DEF PlainInv, TurnInv

LEMMA NextStepDur ==
  ASSUME RunInv, PlainInv, r.kept # "new", NEW nudged \in BOOLEAN, NextStep(nudged),
         queue' > 0 \/ Asks(live')
  PROVE  /\ r'.verb \in {"none", "prompt", "retry"} /\ r'.merged = 0
         /\ r'.kept \notin {"merged", "new"} /\ TurnInv'
<1>1. CASE Leave
  BY <1>1, LeaveDur
<1>2. CASE Goto("top") /\ r' = [r EXCEPT !.step = r.step + 1, !.attempt = 0, !.images = 0,
                                          !.stop = "end", !.calls = 0, !.call = 1, !.nudged = nudged]
  <2>1. r \in RunRecord
    BY DEF RunInv, TypeOK, RunRecord
  <2>2. r'.verb = r.verb /\ r'.merged = r.merged /\ r'.kept = r.kept /\ pc' = "top"
    BY <1>2, <2>1 DEF RunRecord, Goto
  <2>3. QED
    BY <2>2 DEF PlainInv, TurnInv
<1>3. QED
  BY <1>1, <1>2 DEF NextStep

(* Before a request goes out: the drain ends on a queued text, a condensed *)
(* transcript on its summary or on the message it ended on.                *)
LEMMA DurTop ==
  ASSUME RunAssumption, PromptsOnly, DurInv, Drain \/ Condense \/ Latched
  PROVE  PlainInv' /\ AgreeInv' /\ TurnInv'
<1>1. live \in Seq(Lines) /\ disk \in Seq(Lines) /\ perr \in BOOLEAN /\ minted \in Nat
      /\ r \in RunRecord /\ r.kept # "new" /\ queue \in Nat /\ RunInv /\ PlainInv
  <2>1. RunInv /\ PlainInv /\ live \in Seq(Lines) /\ disk \in Seq(Lines)
    BY DEF DurInv, PlainInv
  <2>2. perr \in BOOLEAN /\ minted \in Nat /\ r \in RunRecord /\ queue \in Nat
    BY <2>1 DEF RunInv, TypeOK, RunRecord, RunAssumption
  <2>3. r.kept # "new"
    BY <2>1, NotKept DEF Drain, Condense, Latched, At
  <2>4. QED
    BY <2>1, <2>2, <2>3
<1>2. CASE Drain
  <2> DEFINE ms == [i \in 1..queue |-> Say("user", minted + i, 0)]
  <2>1. \A i \in 1..queue : Say("user", minted + i, 0) \in Lines /\ ~Spoken(Say("user", minted + i, 0))
    BY <1>1, LineType
  <2>2. ms \in Seq(Lines) /\ Len(ms) = queue
    <3>1. ms \in [1..queue -> Lines]
      BY <2>1
    <3> HIDE DEF ms
    <3>2. queue \in Nat
      BY <1>1
    <3>3. ms \in Seq(Lines) /\ DOMAIN ms = 1..queue
      BY <3>1, <3>2, SeqDef
    <3>4. QED
      BY <3>2, <3>3, LenProperties
  <2>3. queue > 0 => ms # <<>> /\ ~Spoken(Last(ms))
    <3>1. SUFFICES ASSUME queue > 0 PROVE ms # <<>> /\ ~Spoken(Last(ms))
      OBVIOUS
    <3>2. ms[queue] = Say("user", minted + queue, 0) /\ queue \in 1..queue
      BY <1>1, <3>1
    <3>3. ~Spoken(ms[queue])
      BY <2>1, <3>2
    <3> HIDE DEF ms
    <3>4. Last(ms) = ms[queue]
      BY <2>2 DEF Last
    <3>5. ms # <<>>
      BY <2>2, <3>1, EmptySeq
    <3>6. QED
      BY <3>3, <3>4, <3>5
  <2>4. queue = 0 => ms = <<>>
    BY <2>2, EmptySeq
  <2>5. Record(ms)
    BY <1>2 DEF Drain
  <2> HIDE DEF ms
  <2>6. r'.verb = r.verb /\ r'.merged = r.merged /\ r'.kept = r.kept /\ pc' \in {"ask", "condense"}
    <3>1. \/ pc' = "ask" /\ r' = r
          \/ pc' = "ask" /\ r' = [r EXCEPT !.armed = TRUE]
          \/ pc' = "condense" /\ r' = [r EXCEPT !.armed = FALSE]
      BY <1>2 DEF Drain, Goto
    <3>2. QED
      BY <1>1, <3>1 DEF RunRecord
  <2>7. /\ live' \in Seq(Lines) /\ disk' \in Seq(Lines) /\ AgreeInv'
        /\ live' = live \o ms
        /\ ms # <<>> => live' # <<>> /\ Last(live') = Last(ms)
    BY <1>1, <2>2, <2>5, <2>6, RecordLines DEF DurInv
  <2>8. Asks(live')
    <3>1. CASE queue > 0
      BY <2>3, <2>7, <3>1 DEF Asks
    <3>2. CASE queue = 0
      <4>1. Asks(live)
        BY <1>2, <3>2 DEF Drain, At, DurInv, TurnInv
      <4>2. live' = live
        BY <1>1, <2>4, <2>7, <3>2, ConcatEmptySeq
      <4>3. QED
        BY <4>1, <4>2
    <3>3. QED
      BY <1>1, <3>1, <3>2
  <2>9. QED
    BY <1>1, <2>6, <2>7, <2>8 DEF PlainInv, TurnInv
<1>3. CASE Condense
  <2>1. r'.verb \in {"none", "prompt", "retry"} /\ r'.merged = 0 /\ r'.kept \notin {"new", "merged"}
        /\ pc' \in {"ask", "end"}
    BY <1>1, <1>3, LeaveDur DEF Condense, Goto, PlainInv
  <2>2. Asks(live)
    BY <1>3 DEF Condense, At, DurInv, TurnInv
  <2>3. live' \in Seq(Lines) /\ disk' \in Seq(Lines) /\ AgreeInv' /\ Asks(live')
    <3>1. CASE UNCHANGED <<live, disk, minted, touched, perr>>
      BY <1>1, <2>1, <2>2, <3>1 DEF DurInv, AgreeInv
    <3>2. ASSUME NEW n \in 0..KeepTail, n < Len(live),
                 live' = <<Say("user", minted + 1, 0)>> \o Newest(n),
                 Save(live', {disk, live'})
          PROVE  live' \in Seq(Lines) /\ disk' \in Seq(Lines) /\ AgreeInv' /\ Asks(live')
      <4> DEFINE m == Say("user", minted + 1, 0)
      <4>1. Len(live) \in Nat /\ n \in Nat /\ m \in Lines /\ ~Spoken(m)
        <5>1. Len(live) \in Nat
          BY <1>1, LenProperties
        <5>2. KeepTail \in Nat
          BY DEF RunAssumption
        <5>3. m \in Lines /\ ~Spoken(m)
          BY <1>1, LineType
        <5>4. QED
          BY <5>1, <5>2, <5>3
      <4> HIDE DEF m
      <4>2. <<m>> \in Seq(Lines) /\ <<m>> # <<>> /\ Last(<<m>>) = m
        BY <4>1 DEF Last
      <4>3. Newest(n) \in Seq(Lines)
        BY <1>1, <3>2, <4>1, SubType DEF Newest
      <4>4. live' = <<m>> \o Newest(n)
        BY <3>2 DEF m
      <4>5. live' \in Seq(Lines)
        BY <4>2, <4>3, <4>4, ConcatProperties
      <4>6. disk' \in Seq(Lines) /\ (~perr' => disk' = live')
        BY <1>1, <3>2, <4>5, SaveStep
      <4>7. Asks(live')
        <5>1. CASE n = 0
          <6>1. Newest(n) = <<>>
            BY <4>1, <5>1, SubSeqEmpty DEF Newest
          <6>2. live' = <<m>>
            BY <4>2, <4>4, <6>1, ConcatEmptySeq
          <6>3. QED
            BY <4>1, <4>2, <6>2 DEF Asks
        <5>2. CASE n > 0
          <6>1. \A i \in Len(live) - n + 1..Len(live) : live[i] \in Lines
            BY <1>1, <3>2, <4>1, ElementOfSeq
          <6>2. Len(Newest(n)) = n /\ Newest(n)[n] = live[Len(live)]
            BY <4>1, <5>2, <6>1, SubSeqProperties DEF Newest
          <6>3. Newest(n) # <<>> /\ Last(Newest(n)) = Last(live)
            BY <5>2, <6>2, EmptySeq DEF Last
          <6>4. QED
            BY <2>2, <4>2, <4>3, <4>4, <6>3, LastOfConcat DEF Asks
        <5>3. QED
          BY <4>1, <5>1, <5>2
      <4>8. AgreeInv'
        BY <2>1, <4>6 DEF AgreeInv
      <4>9. QED
        BY <4>5, <4>6, <4>7, <4>8
    <3>3. QED
      BY <1>3, <3>1, <3>2 DEF Condense
  <2>4. QED
    BY <2>1, <2>3 DEF PlainInv, TurnInv
<1>4. CASE Latched
  BY <1>1, <1>4, LeaveDur DEF Latched, DurInv, PlainInv, AgreeInv
<1>5. QED
  BY <1>2, <1>3, <1>4

(* What the proof says of the state outright: the types, spelt out. *)
LEMMA DurFacts ==
  ASSUME RunAssumption, DurInv
  PROVE  /\ live \in Seq(Lines) /\ disk \in Seq(Lines) /\ perr \in BOOLEAN /\ minted \in Nat
         /\ r \in RunRecord /\ queue \in Nat /\ RunInv /\ PlainInv
         /\ r.kept \in {"no", "new"} /\ ~Prefill
<1>1. RunInv /\ PlainInv /\ live \in Seq(Lines) /\ disk \in Seq(Lines)
  BY DEF DurInv, PlainInv
<1>2. perr \in BOOLEAN /\ minted \in Nat /\ r \in RunRecord /\ queue \in Nat
  BY <1>1 DEF RunInv, TypeOK, RunRecord, RunAssumption
<1>3. r.kept \in {"no", "new"} /\ ~Prefill
  BY <1>1, <1>2 DEF PlainInv, RunRecord, Prefill
<1>4. QED
  BY <1>1, <1>2, <1>3

LEMMA DurAttempt ==
  ASSUME RunAssumption, PromptsOnly, DurInv, Attempt
  PROVE  PlainInv' /\ AgreeInv' /\ TurnInv'
<1>1. /\ live \in Seq(Lines) /\ disk \in Seq(Lines) /\ perr \in BOOLEAN /\ minted \in Nat
      /\ r \in RunRecord /\ RunInv /\ PlainInv /\ r.kept \in {"no", "new"} /\ ~Prefill
  BY DurFacts
<1>2. PICK f \in Ends, stop \in {"end", "calls", "length"}, k \in 0..MaxCalls, text \in BOOLEAN :
       LET heard == [r EXCEPT !.fate = f, !.stop = stop, !.calls = k, !.call = 1] IN
       \/ r' = [heard EXCEPT !.kept = "no"] /\ UNCHANGED live
       \/ /\ live' = Append(live, Say("reply", minted + 1, k))
          /\ r' = [heard EXCEPT !.kept = "new"]
  <2>1. \A k \in 0..MaxCalls : ~Merges(k)
    BY <1>1 DEF Merges
  <2>2. PICK f \in Ends, stop \in {"end", "calls", "length"}, k \in 0..MaxCalls, text \in BOOLEAN :
          LET heard == [r EXCEPT !.fate = f, !.stop = stop, !.calls = k, !.call = 1]
              n == Len(live) IN
          /\ Possible(f, stop, k, text)
          /\ \/ /\ ~text /\ k = 0 /\ r' = [heard EXCEPT !.kept = "no"]
                /\ UNCHANGED <<live, minted, touched>>
             \/ /\ text \/ k > 0
                /\ minted' = minted + 1 /\ touched' = TRUE
                /\ IF Merges(k)
                   THEN /\ live' = [live EXCEPT ![n].id = minted + 1]
                        /\ r' = [heard EXCEPT !.kept = "merged", !.merged = n, !.stash = live'[n]]
                   ELSE /\ live' = Append(live, Say("reply", minted + 1, k))
                        /\ r' = [heard EXCEPT !.kept = "new"]
    BY Zenon DEF Attempt
  <2> DEFINE told == [r EXCEPT !.fate = f, !.stop = stop, !.calls = k, !.call = 1]
  <2>3. \/ r' = [told EXCEPT !.kept = "no"] /\ UNCHANGED <<live, minted, touched>>
        \/ /\ live' = Append(live, Say("reply", minted + 1, k))
           /\ r' = [told EXCEPT !.kept = "new"]
    BY <2>1, <2>2, Zenon
  <2>4. \/ r' = [told EXCEPT !.kept = "no"] /\ UNCHANGED live
        \/ /\ live' = Append(live, Say("reply", minted + 1, k))
           /\ r' = [told EXCEPT !.kept = "new"]
    <3> HIDE DEF told
    <3>1. QED
      BY <2>3
  <2>5. QED
    BY <2>4, Zenon
<1>3. pc = "ask" /\ pc' = "judge" /\ ~perr /\ UNCHANGED <<disk, queue>> /\ Asks(live)
  BY NoteStep DEF Attempt, At, Goto, DurInv, TurnInv
<1>4. disk = live
  BY <1>3 DEF DurInv, AgreeInv, RunInv, KeptInv
<1> DEFINE heard == [r EXCEPT !.fate = f, !.stop = stop, !.calls = k, !.call = 1]
<1>5. \A x \in {"no", "new"} : /\ [heard EXCEPT !.kept = x].kept = x
                              /\ [heard EXCEPT !.kept = x].verb = r.verb
                              /\ [heard EXCEPT !.kept = x].merged = r.merged
  BY <1>1 DEF RunRecord
<1>6. CASE r' = [heard EXCEPT !.kept = "no"] /\ UNCHANGED live
  <2>1. r'.kept = "no" /\ r'.verb = r.verb /\ r'.merged = r.merged
    BY <1>5, <1>6
  <2> HIDE DEF heard
  <2>2. QED
    BY <1>1, <1>3, <1>4, <1>6, <2>1 DEF PlainInv, AgreeInv, TurnInv
<1>7. CASE /\ live' = Append(live, Say("reply", minted + 1, k))
           /\ r' = [heard EXCEPT !.kept = "new"]
  <2>1. r'.kept = "new" /\ r'.verb = r.verb /\ r'.merged = r.merged
    BY <1>5, <1>7
  <2> HIDE DEF heard
  <2> DEFINE m == Say("reply", minted + 1, k)
  <2>2. m \in Lines /\ Spoken(m)
    <3>1. minted + 1 \in Nat /\ k \in Nat
      BY <1>1 DEF RunAssumption
    <3>2. QED
      BY <3>1, LineType
  <2> HIDE DEF m
  <2>3. live' = Append(live, m)
    BY <1>7 DEF m
  <2>4. live' \in Seq(Lines) /\ Last(live') = m
    <3>1. Append(live, m) \in Seq(Lines)
      BY <1>1, <2>2, AppendProperties
    <3>2. Append(live, m)[Len(Append(live, m))] = m
      BY <1>1, <2>2, AppendProperties
    <3>3. QED
      BY <2>3, <3>1, <3>2 DEF Last
  <2>5. Prefix(live', Len(live') - 1) = live
    BY <1>1, <2>2, <2>3, PrefixOfAppend
  <2>6. QED
    BY <1>1, <1>3, <1>4, <2>1, <2>2, <2>4, <2>5 DEF PlainInv, AgreeInv, TurnInv
<1>8. QED
  BY <1>2, <1>6, <1>7

(* Dropping the reply takes the attempt, and nothing that is on disk. *)
LEMMA DropDur ==
  ASSUME RunAssumption, DurInv, pc = "judge", DropReply
  PROVE  live' \in Seq(Lines) /\ Asks(live') /\ (~perr => disk = live')
<1>1. live \in Seq(Lines) /\ r.kept \in {"no", "new"} /\ ~Prefill
  BY DurFacts
<1>2. CASE r.kept = "new"
  <2>1. live # <<>> /\ Spoken(live[Len(live)]) /\ Asks(Prefix(live, Len(live) - 1))
    BY <1>2 DEF DurInv, TurnInv, RunInv, KeptInv, Last
  <2>2. live' = Prefix(live, Len(live) - 1)
    BY <1>1, <2>1 DEF DropReply
  <2>3. Len(live) - 1 \in 0..Len(live)
    BY <1>1, <2>1, EmptySeq, LenProperties
  <2>4. live' \in Seq(Lines)
    BY <1>1, <2>2, <2>3, PrefixType
  <2>5. QED
    BY <1>2, <2>1, <2>2, <2>4 DEF DurInv, AgreeInv
<1>3. CASE r.kept = "no"
  <2>1. Asks(live)
    BY <1>3 DEF DurInv, TurnInv
  <2>2. live' = live
    BY <2>1 DEF DropReply, Asks, Last
  <2>3. QED
    BY <1>1, <1>3, <2>1, <2>2 DEF DurInv, AgreeInv
<1>4. QED
  BY <1>1, <1>2, <1>3

LEMMA DurJudge ==
  ASSUME RunAssumption, PromptsOnly, DurInv, Recover \/ Retry \/ Backoff \/ Commit
  PROVE  PlainInv' /\ AgreeInv' /\ TurnInv'
<1>1. /\ live \in Seq(Lines) /\ disk \in Seq(Lines) /\ perr \in BOOLEAN /\ r \in RunRecord
      /\ RunInv /\ PlainInv /\ r.kept \in {"no", "new"}
  BY DurFacts
<1>2. /\ Settled => r'.kept = "no" /\ r'.verb = r.verb /\ r'.merged = r.merged
      /\ r' = [r EXCEPT !.kept = "no", !.fate = "ok", !.calls = 0]
           => r'.kept = "no" /\ r'.verb = r.verb /\ r'.merged = r.merged
      /\ r' = [r EXCEPT !.images = r.images + 1, !.kept = "no", !.fate = "ok"]
           => r'.kept = "no" /\ r'.verb = r.verb /\ r'.merged = r.merged
      /\ r' = [r EXCEPT !.attempt = r.attempt + 1]
           => r'.kept = r.kept /\ r'.verb = r.verb /\ r'.merged = r.merged
  BY <1>1 DEF RunRecord, Settled
<1>3. CASE Recover \/ Retry
  <2>1. live' \in Seq(Lines) /\ Asks(live') /\ (~perr => disk = live')
    BY <1>3, DropDur DEF Recover, Retry, At
  <2>2. r'.kept = "no" /\ r'.verb = r.verb /\ r'.merged = r.merged /\ pc' \in {"ask", "wait"}
    BY <1>2, <1>3 DEF Recover, Retry, Goto
  <2>3. disk' \in Seq(Lines) /\ (~perr' => ~perr /\ disk' = disk)
    <3>1. CASE Recover
      <4>1. Save(disk, {disk})
        BY <3>1 DEF Recover, Note
      <4>2. QED
        BY <1>1, <4>1, SaveStep
    <3>2. CASE Retry
      BY <1>1, <3>2, NoteStep DEF Retry
    <3>3. QED
      BY <1>3, <3>1, <3>2
  <2>4. QED
    BY <1>1, <2>1, <2>2, <2>3 DEF PlainInv, AgreeInv, TurnInv
<1>4. CASE Backoff
  <2>1. Asks(live) /\ r.kept = "no" /\ UNCHANGED <<live, disk, perr>>
    BY <1>1, <1>4, NotKept DEF Backoff, At, DurInv, TurnInv
  <2>2. CASE Leave
    BY <1>1, <2>1, <2>2, LeaveDur DEF PlainInv, DurInv, AgreeInv
  <2>3. CASE Goto("ask") /\ r' = [r EXCEPT !.attempt = r.attempt + 1]
    BY <1>1, <1>2, <2>1, <2>3 DEF Goto, DurInv, PlainInv, AgreeInv, TurnInv
  <2>4. QED
    BY <1>4, <2>2, <2>3 DEF Backoff
<1>5. CASE Commit
  <2> DEFINE new == Append(disk, live[Len(live)])
  <2>1. r.kept = "new" => new \in Seq(Lines) /\ (~perr => new = live)
    <3>1. SUFFICES ASSUME r.kept = "new" PROVE new \in Seq(Lines) /\ (~perr => new = live)
      OBVIOUS
    <3>2. live # <<>> /\ live[Len(live)] \in Lines
      BY <1>1, <3>1, EmptySeq, LenProperties, ElementOfSeq DEF RunInv, KeptInv
    <3>3. new \in Seq(Lines)
      BY <1>1, <3>2, AppendProperties
    <3>4. ~perr => new = live
      BY <1>1, <3>1, <3>2, AppendOfPrefix DEF DurInv, AgreeInv, Last
    <3>5. QED
      BY <3>3, <3>4
  <2>2. /\ r.kept = "new" => Save(new, {disk, new})
        /\ r.kept # "new" => UNCHANGED <<disk, perr>>
    BY <1>5 DEF Commit
  <2> HIDE DEF new
  <2>3. disk' \in Seq(Lines) /\ (~perr' => disk' = live)
    <3>1. CASE r.kept = "new"
      BY <1>1, <2>1, <2>2, <3>1, SaveStep
    <3>2. CASE r.kept # "new"
      BY <1>1, <2>2, <3>2 DEF DurInv, AgreeInv
    <3>3. QED
      BY <3>1, <3>2
  <2>4. live' = live
    BY <1>5 DEF Commit
  <2>5. CASE Leave
    BY <1>1, <2>3, <2>4, <2>5, LeaveDur DEF PlainInv, AgreeInv
  <2>6. CASE Goto(AfterReply) /\ Settled
    BY <1>1, <1>2, <2>3, <2>4, <2>6 DEF Goto, AfterReply, PlainInv, AgreeInv, TurnInv
  <2>7. QED
    BY <1>5, <2>5, <2>6 DEF Commit
<1>6. QED
  BY <1>3, <1>4, <1>5

(* Inside a batch the conversation does not move. *)
LEMMA DurBatch ==
  ASSUME RunAssumption, PromptsOnly, DurInv, Dispatch \/ Allow \/ Refuse \/ Unpark \/ Execute
  PROVE  PlainInv' /\ AgreeInv' /\ TurnInv'
<1>1. r \in RunRecord /\ PlainInv /\ r.kept # "new"
  BY DurFacts, NotKept DEF Dispatch, Allow, Refuse, Unpark, Execute, At
<1>2. /\ UNCHANGED <<live, disk, queue>> /\ (perr => perr')
      /\ pc' \in {"call", "gate", "allowed"}
      /\ (r' = r \/ r' = [r EXCEPT !.call = r.call + 1])
  BY NoteStep DEF Dispatch, Allow, Refuse, Unpark, Execute, Answered, Goto
<1>3. r'.kept = r.kept /\ r'.verb = r.verb /\ r'.merged = r.merged
  BY <1>1, <1>2 DEF RunRecord
<1>4. QED
  BY <1>1, <1>2, <1>3 DEF DurInv, PlainInv, AgreeInv, TurnInv

(* The results of a batch, the cut-off calls and the nudge end the         *)
(* transcript on a message that is not the agent's; otherwise a queued     *)
(* text carries the run on.                                                *)
LEMMA DurAnswer ==
  ASSUME RunAssumption, PromptsOnly, DurInv, AnswerCutOff \/ Results \/ Close
  PROVE  PlainInv' /\ AgreeInv' /\ TurnInv'
<1>1. /\ live \in Seq(Lines) /\ disk \in Seq(Lines) /\ perr \in BOOLEAN /\ minted \in Nat
      /\ r \in RunRecord /\ queue \in Nat /\ RunInv /\ PlainInv /\ r.kept = "no"
  BY DurFacts, NotKept DEF AnswerCutOff, Results, Close, At
<1>2. \A role \in {"user", "tool"} :
        /\ <<Say(role, minted + 1, 0)>> \in Seq(Lines) /\ <<Say(role, minted + 1, 0)>> # <<>>
        /\ ~Spoken(Last(<<Say(role, minted + 1, 0)>>))
  BY <1>1, LineType DEF Last
<1>3. \/ \E role \in {"user", "tool"} : Record(<<Say(role, minted + 1, 0)>>)
      \/ UNCHANGED <<live, disk, perr>> /\ (Leave \/ queue' > 0)
  BY DEF AnswerCutOff, Results, Close
<1>4. \/ Leave
      \/ pc' = "close" /\ r' = r
      \/ \E nudged \in BOOLEAN : NextStep(nudged)
  BY <1>1 DEF AnswerCutOff, Results, Close, Goto, RunRecord
<1>5. CASE \E role \in {"user", "tool"} : Record(<<Say(role, minted + 1, 0)>>)
  <2>1. PICK role \in {"user", "tool"} : Record(<<Say(role, minted + 1, 0)>>)
    BY <1>5
  <2> DEFINE ms == <<Say(role, minted + 1, 0)>>
  <2>2. ms \in Seq(Lines) /\ ms # <<>> /\ ~Spoken(Last(ms)) /\ Record(ms)
    BY <1>2, <2>1
  <2> HIDE DEF ms
  <2>3. live' = live \o ms
    BY <2>2 DEF Record
  <2>4. Asks(live')
    BY <1>1, <2>2, <2>3, LastOfConcat DEF Asks
  <2>5. /\ r'.verb \in {"none", "prompt", "retry"} /\ r'.merged = 0
        /\ r'.kept \notin {"merged", "new"} /\ TurnInv'
    BY <1>1, <1>4, <2>4, LeaveDur, NextStepDur DEF PlainInv, TurnInv
  <2>6. live' \in Seq(Lines) /\ disk' \in Seq(Lines) /\ AgreeInv'
    BY <1>1, <2>2, <2>5, RecordLines DEF DurInv
  <2>7. QED
    BY <2>5, <2>6 DEF PlainInv
<1>6. CASE UNCHANGED <<live, disk, perr>> /\ (Leave \/ queue' > 0)
  <2>1. /\ r'.verb \in {"none", "prompt", "retry"} /\ r'.merged = 0
        /\ r'.kept \notin {"merged", "new"} /\ TurnInv'
    BY <1>1, <1>4, <1>6, LeaveDur, NextStepDur DEF PlainInv, TurnInv
  <2>2. QED
    BY <1>1, <1>6, <2>1 DEF DurInv, PlainInv, AgreeInv
<1>7. QED
  BY <1>3, <1>5, <1>6

(* The withdrawn prompt is the last message of both copies. *)
LEMMA DurFinish ==
  ASSUME RunAssumption, PromptsOnly, DurInv, Finish
  PROVE  PlainInv' /\ AgreeInv' /\ TurnInv'
<1> DEFINE n == Len(live)
           without == IF n \in DOMAIN disk THEN Without(disk, n) ELSE disk
<1>1. /\ live \in Seq(Lines) /\ disk \in Seq(Lines) /\ perr \in BOOLEAN
      /\ RunInv /\ PlainInv /\ r.kept = "no" /\ n \in Nat /\ Len(disk) \in Nat
  BY DurFacts, NotKept, LenProperties DEF Finish, At
<1>2. r' = NoRun /\ pc' = "idle" /\ r'.kept = "no" /\ r'.merged = 0 /\ r'.verb = "none"
  BY DEF Finish, Halted, Goto, NoRun
<1>3. TurnInv'
  BY <1>2 DEF TurnInv
<1>4. CASE Withdraws
  <2>1. live' = Prefix(live, n - 1) /\ Save(without, {disk, without})
    <3>1. live' = IF Withdraws THEN Prefix(live, n - 1) ELSE live
      BY DEF Finish
    <3>2. Withdraws => Save(without, {disk, without})
      BY <1>1 DEF Finish, PlainInv
    <3>3. QED
      BY <1>4, <3>1, <3>2
  <2>2. live' \in Seq(Lines)
    BY <1>1, <2>1, SubType DEF Prefix
  <2>3. without \in Seq(Lines)
    <3>1. ASSUME n \in DOMAIN disk PROVE Without(disk, n) \in Seq(Lines)
      <4>1. n \in 1..Len(disk)
        BY <1>1, <3>1, LenProperties
      <4>2. SubSeq(disk, 1, n - 1) \in Seq(Lines) /\ SubSeq(disk, n + 1, Len(disk)) \in Seq(Lines)
        BY <1>1, <4>1, SubType
      <4>3. QED
        BY <4>2, ConcatProperties DEF Without
    <3>2. QED
      BY <1>1, <3>1
  <2>4. ~perr => without = live'
    <3>1. SUFFICES ASSUME ~perr PROVE without = Prefix(live, n - 1)
      BY <2>1
    <3>2. disk = live
      BY <1>1, <3>1 DEF DurInv, AgreeInv
    <3>3. CASE live = <<>>
      <4>1. n = 0 /\ n \notin DOMAIN disk
        BY <1>1, <3>2, <3>3, EmptySeq, LenProperties
      <4>2. Prefix(live, n - 1) = <<>>
        BY <4>1, SubSeqEmpty DEF Prefix
      <4>3. QED
        BY <3>2, <3>3, <4>1, <4>2
    <3>4. CASE live # <<>>
      <4>1. n \in DOMAIN disk
        BY <1>1, <3>2, <3>4, EmptySeq, LenProperties
      <4>2. QED
        BY <1>1, <3>2, <3>4, <4>1, WithoutLast
    <3>5. QED
      BY <3>3, <3>4
  <2> HIDE DEF without
  <2>5. disk' \in Seq(Lines) /\ (perr => perr') /\ (~perr' => disk' = without)
    BY <1>1, <2>1, <2>3, SaveStep
  <2>6. QED
    BY <1>1, <1>2, <1>3, <2>2, <2>4, <2>5 DEF PlainInv, AgreeInv
<1>5. CASE ~Withdraws
  <2>1. UNCHANGED <<live, disk, perr>>
    BY <1>1, <1>5 DEF Finish, PlainInv
  <2>2. QED
    BY <1>1, <1>2, <1>3, <2>1 DEF DurInv, PlainInv, AgreeInv
<1>6. QED
  BY <1>4, <1>5

(* A text may still be queued, the run stopped, or the process may die. *)
LEMMA DurOthers ==
  ASSUME RunAssumption, PromptsOnly, DurInv, Queue \/ Unqueue \/ Cancel \/ Crash
  PROVE  PlainInv' /\ AgreeInv' /\ TurnInv'
<1>1. CASE Crash
  BY <1>1 DEF Crash, Halted, Goto, NoRun, DurInv, PlainInv, AgreeInv, TurnInv
<1>2. CASE Queue \/ Unqueue \/ Cancel
  <2>1. Others /\ queue' \in {queue, queue + 1}
    BY <1>2, DurFacts DEF Queue, Unqueue, Cancel, PromptsOnly
  <2>2. QED
    <3>1. queue > 0 => queue' > 0
      BY <2>1, DurFacts
    <3>2. UNCHANGED <<live, disk, perr, pc, r>>
      BY <2>1 DEF Others
    <3>3. QED
      BY <3>1, <3>2 DEF DurInv, PlainInv, AgreeInv, TurnInv, Asks
<1>3. QED
  BY <1>1, <1>2

LEMMA DurInvStep ==
  ASSUME RunAssumption, PromptsOnly, DurInv, [Next]_vars
  PROVE  DurInv'
<1>1. RunInv'
  BY RunInvStep DEF DurInv
<1>2. CASE UNCHANGED vars
  BY <1>1, <1>2 DEF vars, DurInv, PlainInv, AgreeInv, TurnInv, Asks
<1>3. CASE Next
  <2>1. PlainInv' /\ AgreeInv' /\ TurnInv'
    BY <1>3, DurStarts, DurTop, DurAttempt, DurJudge, DurBatch, DurAnswer, DurFinish, DurOthers
       DEF Next, Work, Person
  <2>2. QED
    BY <1>1, <2>1 DEF DurInv
<1>4. QED
  BY <1>2, <1>3

-----------------------------------------------------------------------------
(* Between two runs of a session driven by prompts and retries the live    *)
(* conversation is the one its file folds to, unless a write has failed:   *)
(* runLoop abandons, commits, condenses and withdraws in step with the     *)
(* file, whatever is cancelled, queued or refused meanwhile, and a crash   *)
(* at any step loses only what was never final.                            *)
THEOREM AgreesWithFile ==
  ASSUME PromptsOnly
  PROVE  Spec => []LiveIsDurable
<1>1. DurInv => LiveIsDurable
  BY DEF DurInv, RunInv, KeptInv, AgreeInv, LiveIsDurable, At
<1>2. Init => DurInv
  BY RunAssumption, DurInvInit
<1>3. DurInv /\ [Next]_vars => DurInv'
  BY RunAssumption, DurInvStep
<1>4. QED
  BY <1>1, <1>2, <1>3, PTL DEF Spec

-----------------------------------------------------------------------------
(***************************************************************************)
(* No reply on disk is followed by another one: an attempt that is given   *)
(* up is never there, and a reply is recorded behind a message that is not *)
(* the agent's.                                                            *)
(***************************************************************************)
Single(s) == \A i \in 1..Len(s) - 1 : ~(s[i].role = "reply" /\ s[i + 1].role = "reply")

LEMMA SinglePart ==
  ASSUME NEW S, NEW s \in Seq(S), Single(s), NEW a \in 1..Len(s) + 1, NEW b \in 0..Len(s)
  PROVE  Single(SubSeq(s, a, b)) /\ SubSeq(s, a, b) \in Seq(S)
<1> DEFINE p == SubSeq(s, a, b)
<1>1. Len(s) \in Nat /\ \A i \in a..b : s[i] \in S
  BY LenProperties, ElementOfSeq
<1>2. /\ p \in Seq(S) /\ Len(p) = IF a <= b THEN b - a + 1 ELSE 0
      /\ \A i \in 1..b - a + 1 : p[i] = s[a + i - 1]
  BY <1>1, SubSeqProperties
<1> HIDE DEF p
<1>3. ASSUME NEW i \in 1..Len(p) - 1 PROVE ~(p[i].role = "reply" /\ p[i + 1].role = "reply")
  <2>1. /\ i \in 1..b - a + 1 /\ i + 1 \in 1..b - a + 1
        /\ a + i - 1 \in 1..Len(s) - 1 /\ a + (i + 1) - 1 = (a + i - 1) + 1
    BY <1>1, <1>2
  <2>2. p[i] = s[a + i - 1] /\ p[i + 1] = s[(a + i - 1) + 1]
    BY <1>2, <2>1
  <2>3. QED
    BY <2>1, <2>2 DEF Single
<1>4. QED
  BY <1>2, <1>3 DEF Single, p

LEMMA SingleConcat ==
  ASSUME NEW S, NEW s \in Seq(S), NEW u \in Seq(S), Single(s), Single(u),
         s = <<>> \/ u = <<>> \/ Last(s).role # "reply" \/ u[1].role # "reply"
  PROVE  Single(s \o u)
<1>1. Len(s) \in Nat /\ Len(u) \in Nat /\ Len(s \o u) = Len(s) + Len(u)
  BY LenProperties, ConcatProperties
<1>2. /\ \A i \in 1..Len(s) : (s \o u)[i] = s[i]
      /\ \A i \in 1..Len(u) : (s \o u)[Len(s) + i] = u[i]
  BY <1>1, ConcatProperties
<1>3. ASSUME NEW i \in 1..(Len(s) + Len(u)) - 1
      PROVE  ~((s \o u)[i].role = "reply" /\ (s \o u)[i + 1].role = "reply")
  <2>1. CASE i < Len(s)
    <3>1. i \in 1..Len(s) - 1 /\ i \in 1..Len(s) /\ i + 1 \in 1..Len(s)
      BY <1>1, <2>1
    <3>2. QED
      BY <1>2, <3>1 DEF Single
  <2>2. CASE i = Len(s)
    <3>1. i \in 1..Len(s) /\ 1 \in 1..Len(u) /\ i + 1 = Len(s) + 1
      BY <1>1, <2>2
    <3>2. (s \o u)[i] = Last(s) /\ (s \o u)[i + 1] = u[1]
      BY <1>2, <2>2, <3>1 DEF Last
    <3>3. s # <<>> /\ u # <<>>
      BY <3>1, EmptySeq
    <3>4. QED
      BY <3>2, <3>3
  <2>3. CASE i > Len(s)
    <3>1. /\ i - Len(s) \in 1..Len(u) - 1 /\ i - Len(s) \in 1..Len(u)
          /\ (i - Len(s)) + 1 \in 1..Len(u)
          /\ i = Len(s) + (i - Len(s)) /\ i + 1 = Len(s) + ((i - Len(s)) + 1)
      BY <1>1, <2>3
    <3>2. (s \o u)[i] = u[i - Len(s)] /\ (s \o u)[i + 1] = u[(i - Len(s)) + 1]
      BY <1>2, <3>1
    <3>3. QED
      BY <3>1, <3>2 DEF Single
  <2>4. QED
    BY <1>1, <2>1, <2>2, <2>3
<1>4. QED
  BY <1>1, <1>3 DEF Single

LEMMA SingleOne == ASSUME NEW m PROVE Single(<<m>>) /\ Single(<<>>)
BY DEF Single

(* A durable write leaves the file single if all it may leave is.          *)
LEMMA SingleSave ==
  ASSUME perr \in BOOLEAN, Single(disk), NEW new, NEW torn, Save(new, torn),
         ~perr => Single(new) /\ \A s \in torn : Single(s)
  PROVE  Single(disk')
BY DEF Save

(* Lines that are no replies may go anywhere. *)
LEMMA SingleRecord ==
  ASSUME DurInv, RunAssumption, Single(disk), NEW ms \in Seq(Lines), Record(ms),
         \A i \in 1..Len(ms) : ms[i].role # "reply"
  PROVE  Single(disk')
<1>1. disk \in Seq(Lines) /\ perr \in BOOLEAN /\ Len(ms) \in Nat
  BY DurFacts, LenProperties
<1>2. ASSUME NEW n \in 0..Len(ms)
      PROVE  Single(disk \o Prefix(ms, n))
  <2>1. /\ Prefix(ms, n) \in Seq(Lines) /\ Len(Prefix(ms, n)) = n
        /\ \A i \in 1..n : Prefix(ms, n)[i] = ms[i]
    BY PrefixType
  <2>2. \A i \in 1..n : i \in 1..Len(ms)
    BY <1>1
  <2>3. \A i \in 1..n : Prefix(ms, n)[i].role # "reply"
    BY <2>1, <2>2
  <2>4. Single(Prefix(ms, n))
    <3>1. \A i \in 1..n - 1 : i \in 1..n
      BY <1>1
    <3>2. QED
      BY <2>1, <2>3, <3>1 DEF Single
  <2>5. Prefix(ms, n) = <<>> \/ Prefix(ms, n)[1].role # "reply"
    <3>1. CASE n = 0
      BY <2>1, <3>1, EmptySeq
    <3>2. CASE n # 0
      <4>1. 1 \in 1..n
        BY <1>1, <3>2
      <4>2. QED
        BY <2>3, <4>1
    <3>3. QED
      BY <3>1, <3>2
  <2>6. QED
    BY <1>1, <2>1, <2>4, <2>5, SingleConcat
<1>3. Single(disk \o ms)
  <2>1. Len(ms) \in 0..Len(ms) /\ Prefix(ms, Len(ms)) = ms
    BY <1>1, SubSeqFull DEF Prefix
  <2>2. QED
    BY <1>2, <2>1
<1>4. Save(disk \o ms, {disk \o Prefix(ms, n) : n \in 0..Len(ms)})
  BY DEF Record
<1>5. QED
  BY <1>1, <1>2, <1>3, <1>4, SingleSave

LEMMA SingleSay ==
  ASSUME DurInv, RunAssumption, Single(disk), NEW role \in {"user", "tool"},
         Record(<<Say(role, minted + 1, 0)>>)
  PROVE  Single(disk')
<1> DEFINE m == Say(role, minted + 1, 0)
<1>1. m \in Lines /\ m.role # "reply"
  BY DurFacts, LineType DEF Say
<1> HIDE DEF m
<1>2. <<m>> \in Seq(Lines) /\ \A i \in 1..Len(<<m>>) : <<m>>[i].role # "reply"
  BY <1>1
<1>3. QED
  BY <1>2, SingleRecord DEF m

LEMMA SingleStep ==
  ASSUME RunAssumption, PromptsOnly, DurInv, Single(disk), [Next]_vars
  PROVE  Single(disk')
<1>1. /\ live \in Seq(Lines) /\ disk \in Seq(Lines) /\ perr \in BOOLEAN /\ minted \in Nat
      /\ r \in RunRecord /\ queue \in Nat /\ RunInv /\ PlainInv
      /\ Len(live) \in Nat /\ Len(disk) \in Nat
  BY DurFacts, LenProperties
<1>2. ASSUME UNCHANGED disk PROVE Single(disk')
  BY <1>2
<1>3. CASE Prompt
  BY <1>3, SingleSay DEF Prompt
<1>4. CASE RetryTurn
  <2>1. PICK i \in 1..Len(live) - 1 :
          LET kept == IF i <= Len(disk) THEN Prefix(disk, i) ELSE disk IN
          Save(kept, {disk, kept})
    BY <1>4 DEF RetryTurn
  <2>2. i <= Len(disk) => Single(Prefix(disk, i))
    <3>1. i <= Len(disk) => 1 \in 1..Len(disk) + 1 /\ i \in 0..Len(disk)
      BY <1>1
    <3>2. QED
      BY <1>1, <3>1, SinglePart DEF Prefix
  <2>3. QED
    BY <1>1, <2>1, <2>2, SingleSave
<1>5. CASE Drain
  <2> DEFINE ms == [i \in 1..queue |-> Say("user", minted + i, 0)]
  <2>1. \A i \in 1..queue : Say("user", minted + i, 0) \in Lines
                            /\ Say("user", minted + i, 0).role # "reply"
    <3> TAKE i \in 1..queue
    <3>1. minted + i \in Nat
      BY <1>1
    <3>2. Say("user", minted + i, 0) \in Lines /\ Say("user", minted + i, 0).role = "user"
      BY <3>1, LineType DEF Say, Message
    <3>3. QED
      BY <3>2
  <2>2. ms \in [1..queue -> Lines] /\ \A i \in 1..queue : ms[i].role # "reply"
    BY <2>1
  <2>3. Record(ms)
    BY <1>5 DEF Drain
  <2> HIDE DEF ms
  <2>4. ms \in Seq(Lines) /\ Len(ms) = queue
    <3>1. ms \in Seq(Lines) /\ DOMAIN ms = 1..queue
      BY <1>1, <2>2, SeqDef
    <3>2. QED
      BY <1>1, <3>1, LenProperties
  <2>5. QED
    BY <2>2, <2>3, <2>4, SingleRecord
<1>6. CASE Condense
  <2>1. ASSUME NEW n \in 0..KeepTail, ~perr, n < Len(live),
               live' = <<Say("user", minted + 1, 0)>> \o Newest(n), Save(live', {disk, live'})
        PROVE  Single(disk')
    <3> DEFINE m == Say("user", minted + 1, 0)
    <3>1. m \in Lines /\ m.role # "reply"
      BY <1>1, LineType DEF Say
    <3> HIDE DEF m
    <3>2. disk = live
      BY <1>1, <1>6, <2>1, NotKept DEF DurInv, AgreeInv, Condense, At
    <3>3. Single(Newest(n)) /\ Newest(n) \in Seq(Lines)
      <4>1. Len(live) - n + 1 \in 1..Len(live) + 1 /\ Len(live) \in 0..Len(live)
        BY <1>1, <2>1 DEF RunAssumption
      <4>2. QED
        BY <1>1, <3>2, <4>1, SinglePart DEF Newest
    <3>4. <<m>> \in Seq(Lines) /\ Single(<<m>>) /\ Last(<<m>>) = m
      BY <3>1, SingleOne DEF Last
    <3>5. Single(<<m>> \o Newest(n))
      BY <3>1, <3>3, <3>4, SingleConcat
    <3>6. live' = <<m>> \o Newest(n)
      BY <2>1 DEF m
    <3>7. QED
      BY <1>1, <2>1, <3>5, <3>6, SingleSave
  <2>2. QED
    BY <1>2, <1>6, <2>1 DEF Condense
<1>7. CASE Recover
  BY <1>1, <1>7, SingleSave DEF Recover, Note
<1>8. CASE Commit
  <2> DEFINE new == Append(disk, live[Len(live)])
  <2>1. ASSUME r.kept = "new", ~perr PROVE Single(new)
    <3>1. disk = Prefix(live, Len(live) - 1) /\ Asks(disk)
      BY <2>1 DEF DurInv, AgreeInv, TurnInv
    <3>2. live # <<>> /\ live[Len(live)] \in Lines
      BY <1>1, <2>1, EmptySeq, LenProperties, ElementOfSeq DEF RunInv, KeptInv
    <3>3. new = disk \o <<live[Len(live)]>> /\ <<live[Len(live)]>> \in Seq(Lines)
      BY <1>1, <3>2, AppendIsConcat
    <3>4. Last(disk).role # "reply"
      BY <3>1 DEF Asks, Spoken
    <3>5. QED
      BY <1>1, <3>3, <3>4, SingleConcat, SingleOne
  <2>2. r.kept = "new" => Save(new, {disk, new})
    BY <1>8 DEF Commit
  <2> HIDE DEF new
  <2>3. CASE r.kept = "new"
    BY <1>1, <2>1, <2>2, <2>3, SingleSave
  <2>4. CASE r.kept # "new"
    BY <1>2, <1>8, <2>4 DEF Commit
  <2>5. QED
    BY <2>3, <2>4
<1>9. CASE AnswerCutOff \/ Results
  BY <1>9, SingleSay DEF AnswerCutOff, Results
<1>10. CASE Close
  BY <1>2, <1>10, SingleSay DEF Close
<1>11. CASE Finish
  <2> DEFINE n == Len(live)
             without == IF n \in DOMAIN disk THEN Without(disk, n) ELSE disk
  <2>1. CASE Withdraws
    <3>1. Save(without, {disk, without})
      BY <1>1, <1>11, <2>1 DEF Finish, PlainInv
    <3>2. ~perr => Single(without)
      <4>1. SUFFICES ASSUME ~perr, n \in DOMAIN disk PROVE Single(Without(disk, n))
        OBVIOUS
      <4>2. disk = live /\ disk # <<>>
        BY <1>1, <1>11, <4>1, NotKept, EmptySeq DEF DurInv, AgreeInv, Finish, At
      <4>3. Without(disk, n) = SubSeq(disk, 1, n - 1)
        BY <1>1, <4>2, WithoutLast DEF Prefix
      <4>4. 1 \in 1..Len(disk) + 1 /\ n - 1 \in 0..Len(disk)
        BY <1>1, <4>2, EmptySeq
      <4>5. QED
        BY <1>1, <4>3, <4>4, SinglePart
    <3> HIDE DEF without
    <3>3. QED
      BY <1>1, <3>1, <3>2, SingleSave
  <2>2. CASE ~Withdraws
    BY <1>1, <1>2, <1>11, <2>2 DEF Finish, PlainInv
  <2>3. QED
    BY <2>1, <2>2
<1>12. CASE \/ Latched \/ Attempt \/ Retry \/ Backoff \/ Dispatch \/ Unpark \/ Execute
            \/ Person \/ Crash \/ Advance \/ ContinueTurn
  BY <1>2, <1>12, NoteStep DEF Latched, Attempt, Retry, Backoff, Dispatch, Unpark, Execute, Person, Crash,
     Allow, Refuse, Queue, Unqueue, Cancel, Others, Advance, ContinueTurn
<1>13. CASE UNCHANGED vars
  BY <1>2, <1>13 DEF vars
<1>14. ~PostDirected
  BY DEF PromptsOnly, PostDirected, Begin
<1>15. QED
  BY <1>3, <1>4, <1>5, <1>6, <1>7, <1>8, <1>9, <1>10, <1>11, <1>12, <1>13, <1>14
     DEF Next, Starts, Work

(* oneTurn records the reply it will not repeat: an attempt that is retried *)
(* or refused for an image is dropped first, and a reply follows a message *)
(* of the author, a result or a summary.                                   *)
THEOREM RepliesStandAlone ==
  ASSUME PromptsOnly
  PROVE  Spec => []OneReplyEach
<1>1. Init => DurInv /\ Single(disk)
  BY RunAssumption, DurInvInit, SingleOne DEF Init
<1>2. DurInv /\ Single(disk) /\ [Next]_vars => DurInv' /\ Single(disk)'
  BY RunAssumption, DurInvStep, SingleStep DEF Single
<1>3. Single(disk) => OneReplyEach
  BY DEF Single, OneReplyEach
<1>4. QED
  BY <1>1, <1>2, <1>3, PTL DEF Spec

-----------------------------------------------------------------------------
(***************************************************************************)
(* What the withdrawal of a prompt may take.                               *)
(***************************************************************************)
(* As long as nothing touched the transcript, the prompt that began the    *)
(* run is its last message: Agent.rev stands for the comparison.           *)
OwnInv ==
  pc # "idle" /\ r.verb = "prompt" /\ ~touched => live # <<>> /\ Last(live).id = r.own

(* The ways out of the loop, and round it, keep the run's verb and prompt. *)
LEMMA SameRun ==
  ASSUME RunInv
  PROVE  /\ Leave => r'.verb = r.verb /\ r'.own = r.own
         /\ \A nudged : NextStep(nudged) => r'.verb = r.verb /\ r'.own = r.own
         /\ Answered => r'.verb = r.verb /\ r'.own = r.own
<1>1. r \in RunRecord
  BY DEF RunInv, TypeOK, RunRecord
<1>2. Leave => r'.verb = r.verb /\ r'.own = r.own
  BY DEF Leave, NoRun
<1>3. ASSUME NEW nudged, NextStep(nudged) PROVE r'.verb = r.verb /\ r'.own = r.own
  <2>1. CASE Leave
    BY <1>2, <2>1
  <2>2. CASE r' = [r EXCEPT !.step = r.step + 1, !.attempt = 0, !.images = 0,
                            !.stop = "end", !.calls = 0, !.call = 1, !.nudged = nudged]
    BY <1>1, <2>2 DEF RunRecord
  <2>3. QED
    BY <1>3, <2>1, <2>2 DEF NextStep
<1>4. Answered => r'.verb = r.verb /\ r'.own = r.own
  BY <1>1 DEF Answered, RunRecord
<1>5. QED
  BY <1>2, <1>3, <1>4

LEMMA OwnAside ==
  ASSUME OwnInv, pc # "idle", live' = live, touched => touched',
         r'.verb = r.verb, r'.own = r.own
  PROVE  OwnInv'
BY DEF OwnInv, Last

LEMMA OwnStep ==
  ASSUME RunAssumption, RunInv, OwnInv, [Next]_vars
  PROVE  OwnInv'
<1>1. r \in RunRecord /\ live \in Seq(Message) /\ minted \in Nat /\ queue \in Nat
  BY DEF RunInv, TypeOK, RunRecord, RunAssumption
<1>2. ASSUME touched' \/ pc' = "idle" PROVE OwnInv'
  BY <1>2 DEF OwnInv
<1>3. CASE UNCHANGED vars
  BY <1>3 DEF vars, OwnInv, Last
<1>4. CASE Prompt
  <2> DEFINE m == Say("user", minted + 1, 0)
  <2>1. m \in Message /\ m.id = minted + 1
    BY <1>1, SayType DEF Say, Roles
  <2> HIDE DEF m
  <2>2. live' = live \o <<m>>
    BY <1>4 DEF Prompt, Record, m
  <2>3. <<m>> \in Seq(Message) /\ <<m>> # <<>> /\ Last(<<m>>) = m
    BY <2>1 DEF Last
  <2>4. live' # <<>> /\ Last(live') = m
    BY <1>1, <2>2, <2>3, LastOfConcat
  <2>5. r'.own = minted + 1
    BY <1>4 DEF Prompt, NoRun
  <2>6. QED
    BY <2>1, <2>4, <2>5 DEF OwnInv
<1>5. CASE RetryTurn \/ Advance \/ ContinueTurn
  <2>1. pc' = "idle" \/ r' = [NoRun EXCEPT !.verb = "retry"]
        \/ r' = [NoRun EXCEPT !.verb = "advance"] \/ r' = [NoRun EXCEPT !.verb = "continue"]
    BY <1>5 DEF RetryTurn, Advance, ContinueTurn, Started, Halted, Goto
  <2>2. QED
    BY <2>1 DEF OwnInv, NoRun
<1>6. CASE PostDirected
  BY <1>2, <1>6 DEF PostDirected, Begin, At
<1>7. CASE Drain
  <2>1. r'.verb = r.verb /\ r'.own = r.own
    <3>1. \/ r' = r \/ r' = [r EXCEPT !.armed = TRUE] \/ r' = [r EXCEPT !.armed = FALSE]
      BY <1>7 DEF Drain
    <3>2. QED
      BY <1>1, <3>1 DEF RunRecord
  <2>2. CASE queue > 0
    BY <1>2, <1>7, <2>2 DEF Drain
  <2>3. CASE queue = 0
    <3> DEFINE ms == [i \in 1..queue |-> Say("user", minted + i, 0)]
    <3>1. \A i \in 1..queue : Say("user", minted + i, 0) \in Message
      BY <2>3
    <3>2. ms \in [1..queue -> Message]
      BY <3>1
    <3>3. live' = live \o ms
      BY <1>7 DEF Drain, Record
    <3> HIDE DEF ms
    <3>4. ms \in Seq(Message) /\ DOMAIN ms = 1..queue
      BY <1>1, <3>2, SeqDef
    <3>5. ms = <<>>
      BY <1>1, <2>3, <3>4, LenProperties, EmptySeq
    <3>6. live' = live
      BY <1>1, <3>3, <3>5, ConcatEmptySeq
    <3>7. QED
      BY <1>7, <2>1, <3>6, OwnAside DEF Drain, At
  <2>4. QED
    BY <1>1, <2>2, <2>3
<1>8. CASE Condense
  <2>1. touched' \/ UNCHANGED <<live, touched>>
    BY <1>8 DEF Condense
  <2>2. r'.verb = r.verb /\ r'.own = r.own
    BY <1>8, SameRun DEF Condense
  <2>3. QED
    BY <1>2, <1>8, <2>1, <2>2, OwnAside DEF Condense, At
<1>9. CASE Latched
  BY <1>9, SameRun, OwnAside DEF Latched
<1>10. CASE Attempt
  <2>1. PICK f \in Ends, stop \in {"end", "calls", "length"}, k \in 0..MaxCalls :
          \/ touched'
          \/ /\ r' = [r EXCEPT !.fate = f, !.stop = stop, !.calls = k, !.call = 1, !.kept = "no"]
             /\ UNCHANGED <<live, touched>>
    BY <1>10 DEF Attempt
  <2>2. CASE touched'
    BY <1>2, <2>2
  <2>3. CASE /\ r' = [r EXCEPT !.fate = f, !.stop = stop, !.calls = k, !.call = 1, !.kept = "no"]
             /\ UNCHANGED <<live, touched>>
    <3>1. r'.verb = r.verb /\ r'.own = r.own
      BY <1>1, <2>3 DEF RunRecord
    <3>2. pc # "idle"
      BY <1>10 DEF Attempt, At
    <3>3. QED
      BY <2>3, <3>1, <3>2, OwnAside
  <2>4. QED
    BY <2>1, <2>2, <2>3
<1>11. CASE Recover
  BY <1>2, <1>11 DEF Recover
<1>12. CASE Retry
  <2>1. touched' \/ (live' = live /\ touched' = touched)
    <3>1. touched' = (touched \/ live' # live) /\ touched \in BOOLEAN
      BY <1>12 DEF Retry, RunInv, TypeOK
    <3>2. QED
      BY <3>1
  <2>2. r'.verb = r.verb /\ r'.own = r.own
    BY <1>1, <1>12 DEF Retry, RunRecord
  <2>3. QED
    BY <1>2, <1>12, <2>1, <2>2, OwnAside DEF Retry, At
<1>13. CASE Backoff
  <2>1. UNCHANGED <<live, touched>> /\ pc # "idle"
        /\ (Leave \/ r' = [r EXCEPT !.attempt = r.attempt + 1])
    BY <1>13 DEF Backoff, At
  <2>2. r'.verb = r.verb /\ r'.own = r.own
    BY <1>1, <2>1, SameRun DEF RunRecord
  <2>3. QED
    BY <2>1, <2>2, OwnAside
<1>14. CASE Commit
  <2>1. UNCHANGED <<live, touched>> /\ pc # "idle"
        /\ (Leave \/ Settled)
    BY <1>14 DEF Commit, At
  <2>2. r'.verb = r.verb /\ r'.own = r.own
    BY <1>1, <2>1, SameRun DEF RunRecord, Settled
  <2>3. QED
    BY <2>1, <2>2, OwnAside
<1>15. CASE AnswerCutOff \/ Results
  BY <1>2, <1>15 DEF AnswerCutOff, Results
<1>16. CASE Close
  <2>1. \/ touched'
        \/ UNCHANGED <<live, touched>> /\ (Leave \/ NextStep(r.nudged))
    BY <1>16 DEF Close
  <2>2. QED
    BY <1>2, <1>16, <2>1, SameRun, OwnAside DEF Close, At
<1>17. CASE Dispatch \/ Allow \/ Refuse \/ Unpark \/ Execute
  <2>1. UNCHANGED <<live, touched>> /\ pc # "idle" /\ (Answered \/ r' = r)
    BY <1>17 DEF Dispatch, Allow, Refuse, Unpark, Execute, At
  <2>2. QED
    BY <2>1, SameRun, OwnAside
<1>18. CASE Finish \/ Crash
  BY <1>2, <1>18 DEF Finish, Crash, Halted, Goto
<1>19. CASE Queue \/ Unqueue \/ Cancel
  BY <1>19, OwnAside DEF Queue, Unqueue, Cancel, Others, At
<1>20. QED
  BY <1>3, <1>4, <1>5, <1>6, <1>7, <1>8, <1>9, <1>10, <1>11, <1>12, <1>13, <1>14, <1>15,
     <1>16, <1>17, <1>18, <1>19 DEF Next, Starts, Work, Person

(* promptExtra withdraws the prompt of a run a person stopped, judging by  *)
(* the transcript's revision that nothing followed it: whatever the verb,  *)
(* the person and the provider did, the end of a run takes nothing else.   *)
THEOREM TakesItsOwnBack == Spec => WithdrawsItsOwn
<1>1. ASSUME RunInv, OwnInv, Finish, NEW i \in DOMAIN live
      PROVE  \/ i \in DOMAIN live' /\ live'[i] = live[i]
             \/ live[i].id = r.own /\ ctx = "user" /\ i = Len(live)
  <2>0. live \in Seq(Message)
    BY <1>1 DEF RunInv, TypeOK
  <2>1. live \in Seq(Message) /\ Len(live) \in Nat /\ DOMAIN live = 1..Len(live)
    BY <2>0, LenProperties
  <2>2. CASE ~Withdraws
    BY <1>1, <2>2 DEF Finish
  <2>3. CASE Withdraws /\ i = Len(live)
    BY <1>1, <2>3 DEF Withdraws, OwnInv, Finish, At, Last
  <2>4. CASE Withdraws /\ i # Len(live)
    <3>1. Len(live) - 1 \in 0..Len(live) /\ i \in 1..Len(live) - 1
      BY <1>1, <2>1, <2>4
    <3>2. live' = Prefix(live, Len(live) - 1)
      BY <1>1, <2>4 DEF Finish
    <3>3. /\ live' \in Seq(Message) /\ Len(live') = Len(live) - 1
          /\ \A j \in 1..Len(live) - 1 : live'[j] = live[j]
      BY <2>1, <3>1, <3>2, PrefixType
    <3>4. DOMAIN live' = 1..Len(live) - 1
      BY <3>3, LenProperties
    <3>5. QED
      BY <3>1, <3>3, <3>4
  <2>5. QED
    BY <2>2, <2>3, <2>4
<1>2. Init => OwnInv
  BY DEF Init, OwnInv
<1>3. RunInv /\ OwnInv /\ [Next]_vars => OwnInv'
  BY RunAssumption, OwnStep
<1>4. RunInv /\ OwnInv /\ [Next]_vars =>
        [Finish => \A i \in DOMAIN live :
                     \/ i \in DOMAIN live' /\ live'[i] = live[i]
                     \/ live[i].id = r.own /\ ctx = "user" /\ i = Len(live)]_vars
  BY <1>1
<1>5. QED
  BY <1>2, <1>3, <1>4, RunInvAlways, PTL DEF Spec, WithdrawsItsOwn

=============================================================================
