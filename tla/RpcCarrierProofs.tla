--------------------------- MODULE RpcCarrierProofs ---------------------------
(***************************************************************************)
(* For any number of turns, extension calls and questions: turns run in    *)
(* their order, a running turn is in reach of an abort, answers and        *)
(* cancellations agree on who owns a question, and a cancelled question    *)
(* stops the turn that asked it, and no later one.                         *)
(***************************************************************************)
EXTENDS RpcCarrier, SequenceTheorems, TLAPS

UpPlaces  == {"up", "ready", "await", "model", "stream", "ask", "parked", "fin", "unset", "leave"}
Places    == UpPlaces \cup {"none", "line", "gone"}
RunPlaces == {"ready", "await", "model", "stream", "ask", "parked", "fin"}
Asked == [by : Callers, kind : Kinds, turn : Turns \cup {None}, state : States,
          answer : BOOLEAN, told : BOOLEAN, cut : BOOLEAN,
          got : {"nothing", "answer", "cancelled"}]

(* The turn whose place in the line is the first.  Who waits is who joined *)
(* last, in the order of joining; all before the front are over.           *)
Front == joined - Len(line.waiting)
LineInv ==
  /\ ~line.busy => line.waiting = <<>>
  /\ line.busy => Front \in Turns
  /\ \A i \in 1..Len(line.waiting) : line.waiting[i] = Front + i
  /\ \A t \in Turns :
       /\ t < Front => at[t] = "gone"
       /\ t = Front => at[t] \in (IF line.busy THEN UpPlaces ELSE {"gone"})
       /\ Front < t /\ t <= joined => at[t] = "line"
       /\ joined < t => at[t] = "none"

(* The cancel function belongs to a turn that is up, and a turn that runs  *)
(* has it set, being called, or called.                                    *)
Reached(t) == t \in cancelled \/ (reader.at = "aborting" /\ reader.turn = t)
ReachInv ==
  /\ \A t \in Turns : at[t] \in RunPlaces => active = t \/ Reached(t)
  /\ active # None => at[active] \in RunPlaces \cup {"unset"}

(* Where an ask's caller is, and that a caller waits for one at a time.    *)
WaitInv == \A i \in DOMAIN asks :
  /\ asks[i].state \in {"unparked", "pending"} => asks[i].got = "nothing" /\ ~asks[i].answer
  /\ asks[i].got = "nothing" => at[asks[i].by] = IF asks[i].state = "unparked" THEN "ask" ELSE "parked"
  /\ \A j \in DOMAIN asks : /\ asks[i].got = "nothing" /\ asks[j].got = "nothing"
                            /\ asks[i].by = asks[j].by
                            => i = j

(* Who owns a question's end, and whose turn it would cancel.              *)
OwnerInv == \A i \in DOMAIN asks : asks[i].kind = "question" =>
  /\ asks[i].told => asks[i].state = "resolving"
  /\ asks[i].state = "resolving" => asks[i].told \/ (reader.at = "answering" /\ reader.id = i)
  /\ asks[i].got # "nothing" => (asks[i].got = "answer" <=> asks[i].told)
  /\ asks[i].by \in Turns => /\ asks[i].turn \in {asks[i].by, None}
                             /\ asks[i].turn = asks[i].by \/ Reached(asks[i].by)
                             /\ asks[i].cut => asks[i].by \in cancelled

(* What the read loop holds between the steps of a command.                *)
ReaderInv ==
  /\ reader.at = "aborting" => reader.turn \in Turns
  /\ reader.at = "answering" =>
       /\ reader.id \in DOMAIN asks
       /\ asks[reader.id].kind = "question" /\ asks[reader.id].state = "resolving"
       /\ asks[reader.id].got = "nothing" /\ ~asks[reader.id].told
  /\ reader.at = "cutting" =>
       /\ reader.ids \subseteq DOMAIN asks
       /\ \A i \in reader.ids : asks[i].kind = "question" /\ asks[i].state = "cancelled"
       /\ reader.id # 0 => reader.id \in reader.ids /\ Cancels(reader.id) \subseteq cancelled

RpcInv == /\ TypeOK /\ Len(asks) <= MaxAsks
          /\ LineInv /\ ReachInv /\ WaitInv /\ OwnerInv /\ ReaderInv

(* Nothing is up, asked or held at first.                                  *)
LEMMA RpcInvInit == RpcAssumption /\ Init => RpcInv
<1> SUFFICES ASSUME RpcAssumption, Init PROVE RpcInv
  OBVIOUS
<1>1. /\ asks = <<>> /\ line = [busy |-> FALSE, waiting |-> <<>>] /\ joined = 0
      /\ \A c \in Callers : at[c] = "none"
      /\ active = None /\ reader.at = "idle"
  BY DEF Init, Idle
<1>2. TypeOK
  <2>1. <<>> \in Seq(Turns) /\ \A S : <<>> \in Seq(S)
    BY EmptySeq
  <2>2. line \in [busy : BOOLEAN, waiting : Seq(Turns)] /\ asks \in Seq(Asked)
    BY <1>1, <2>1
  <2>3. joined \in 0..MaxTurns /\ compact \subseteq Turns /\ cancelled \subseteq Turns
    BY DEF RpcAssumption, Init
  <2>4. reader = [at |-> "idle", turn |-> None, id |-> 0, ids |-> {}] /\ 0 \in 0..MaxAsks
    BY DEF RpcAssumption, Init, Idle
  <2>5. at = [c \in Callers |-> "none"] /\ closed \in BOOLEAN /\ extReady \in BOOLEAN /\ over \in BOOLEAN
    BY DEF Init
  <2>6. QED
    BY <1>1, <2>2, <2>3, <2>4, <2>5 DEF TypeOK, Asked
<1>3. LineInv
  BY <1>1 DEF RpcAssumption, LineInv, Front, Turns, Callers
<1>4. QED
  BY <1>1, <1>2, <1>3 DEF RpcAssumption, RpcInv, ReachInv, WaitInv, OwnerInv, ReaderInv, Callers,
     RunPlaces

(***************************************************************************)
(* The line.                                                               *)
(***************************************************************************)
(* A step inside a turn leaves the line as it is.                          *)
LEMMA LineSteady ==
  ASSUME LineInv, UNCHANGED <<line, joined>>,
         \A t \in Turns : at'[t] = at[t] \/ (at[t] \in UpPlaces /\ at'[t] \in UpPlaces)
  PROVE  LineInv'
<1>1. Front' = Front
  BY DEF Front
<1>2. \A t \in Turns : at[t] \notin UpPlaces => at'[t] = at[t]
  OBVIOUS
<1>3. QED
  BY <1>1, <1>2 DEF LineInv, UpPlaces

(* Whoever is up is the front.                                             *)
LEMMA OneUp ==
  ASSUME RpcAssumption, RpcInv, NEW t \in Turns, at[t] \in UpPlaces
  PROVE  line.busy /\ t = Front
<1>1. t \in Nat /\ joined \in Nat /\ Front \in Int
  BY DEF RpcAssumption, RpcInv, TypeOK, Front, Turns
<1>2. QED
  BY <1>1 DEF RpcInv, LineInv, UpPlaces

(* A command takes the last place.                                         *)
LEMMA CommandLine ==
  ASSUME RpcAssumption, RpcInv, NEW t \in Turns, NEW k, Command(t, k)
  PROVE  LineInv' /\ line' \in [busy : BOOLEAN, waiting : Seq(Turns)]
<1> DEFINE w == line.waiting
<1>1. /\ line \in [busy : BOOLEAN, waiting : Seq(Turns)]
      /\ line' = join(t) /\ LineInv
      /\ at' = [at EXCEPT ![t] = IF line.busy THEN "line" ELSE "up"]
  BY DEF RpcInv, TypeOK, Command
<1>2. /\ w \in Seq(Turns) /\ Len(w) \in Nat /\ joined \in Nat /\ t = joined + 1
      /\ joined' = joined + 1 /\ Turns \subseteq Nat
  BY DEF RpcAssumption, RpcInv, TypeOK, Command, Turns
<1>3. \A u \in Turns : at'[u] = IF u # t THEN at[u] ELSE IF line.busy THEN "line" ELSE "up"
  BY <1>1 DEF RpcInv, TypeOK, Callers
<1>4. CASE line.busy
  <2>1. line' = [line EXCEPT !.waiting = Append(w, t)]
    BY <1>1, <1>4 DEF join
  <2>2. line' \in [busy : BOOLEAN, waiting : Seq(Turns)] /\ line'.busy /\ line'.waiting = Append(w, t)
    <3>1. Append(w, t) \in Seq(Turns)
      BY <1>2, AppendProperties
    <3>2. line' = [busy |-> TRUE, waiting |-> Append(w, t)]
      BY <1>1, <1>4, <2>1
    <3>3. QED
      BY <3>1, <3>2
  <2>3. /\ Len(Append(w, t)) = Len(w) + 1
        /\ \A i \in 1..(Len(w) + 1) : Append(w, t)[i] = IF i <= Len(w) THEN w[i] ELSE t
    BY <1>2, AppendProperties
  <2>4. Front = joined - Len(w) /\ Front' = joined' - Len(line'.waiting)
    BY DEF Front
  <2>5. Front' = Front /\ Front \in Int /\ Front + Len(w) = joined
    <3>1. Len(line'.waiting) = Len(w) + 1
      BY <2>2, <2>3
    <3>2. QED
      BY <1>2, <2>4, <3>1
  <2>6. \A i \in 1..Len(line'.waiting) : line'.waiting[i] = Front + i
    <3>1. \A i \in 1..Len(w) : w[i] = Front + i
      BY <1>1 DEF LineInv
    <3>2. t = Front + (Len(w) + 1)
      BY <1>2, <2>5
    <3>3. QED
      BY <1>2, <2>2, <2>3, <2>5, <3>1, <3>2
  <2>7. \A u \in Turns :
          /\ u < Front => at'[u] = "gone"
          /\ u = Front => at'[u] \in UpPlaces
          /\ Front < u /\ u <= joined + 1 => at'[u] = "line"
          /\ joined + 1 < u => at'[u] = "none"
    <3>1. Front < t
      BY <1>2, <2>5
    <3>2. QED
      BY <1>1, <1>2, <1>3, <1>4, <2>5, <3>1 DEF LineInv
  <2>8. Front \in Turns
    BY <1>1, <1>4 DEF LineInv
  <2>9. LineInv'
    BY <1>2, <2>2, <2>5, <2>6, <2>7, <2>8 DEF LineInv
  <2>10. QED
    BY <2>2, <2>9
<1>5. CASE ~line.busy
  <2>1. w = <<>> /\ line' = [line EXCEPT !.busy = TRUE]
    BY <1>1, <1>5 DEF join, LineInv
  <2>2. line' \in [busy : BOOLEAN, waiting : Seq(Turns)] /\ line'.busy /\ line'.waiting = <<>>
    BY <1>1, <2>1
  <2>3. Front = joined - 0 /\ Front' = joined' - 0
    BY <2>1, <2>2 DEF Front
  <2>4. Front = joined /\ Front' = t
    BY <1>2, <2>3
  <2>5. \A u \in Turns :
          /\ u < t => at'[u] = "gone"
          /\ u = t => at'[u] \in UpPlaces
          /\ ~(t < u /\ u <= joined + 1)
          /\ joined + 1 < u => at'[u] = "none"
    BY <1>1, <1>2, <1>3, <1>5, <2>4 DEF LineInv, UpPlaces
  <2>6. LineInv'
    BY <1>2, <2>2, <2>4, <2>5 DEF LineInv
  <2>7. QED
    BY <2>2, <2>6
<1>6. QED
  BY <1>4, <1>5

(* Who leaves wakes the next.                                              *)
LEMMA LeaveLine ==
  ASSUME RpcAssumption, RpcInv, NEW t \in Turns, Leave(t)
  PROVE  /\ LineInv' /\ line' \in [busy : BOOLEAN, waiting : Seq(Turns)]
         /\ at' \in [Callers -> Places]
         /\ at'[t] = "gone"
         /\ \A c \in Callers \ {t} : at'[c] = at[c] \/ (at[c] = "line" /\ at'[c] = "up")
<1> DEFINE w == line.waiting
<1>1. /\ line \in [busy : BOOLEAN, waiting : Seq(Turns)]
      /\ leave(t) /\ LineInv /\ at[t] = "leave"
      /\ at \in [Callers -> Places] /\ Turns \subseteq Callers
  BY DEF RpcInv, TypeOK, Leave, Places, UpPlaces, Callers
<1>2. /\ w \in Seq(Turns) /\ Len(w) \in Nat /\ joined \in Nat /\ t \in Nat
      /\ joined' = joined /\ Turns \subseteq Nat
  BY DEF RpcAssumption, RpcInv, TypeOK, Leave, Turns
<1>3. line.busy /\ t = Front
  BY <1>1, OneUp DEF UpPlaces
<1>4. Front = joined - Len(w) /\ Front' = joined' - Len(line'.waiting)
  BY DEF Front
<1>5. CASE w = <<>>
  <2>1. line' = [line EXCEPT !.busy = FALSE] /\ at' = [at EXCEPT ![t] = "gone"]
    BY <1>1, <1>5 DEF leave
  <2>2. line' \in [busy : BOOLEAN, waiting : Seq(Turns)] /\ ~line'.busy /\ line'.waiting = <<>>
    BY <1>1, <1>5, <2>1
  <2>3. Front = joined /\ Front' = joined
    BY <1>2, <1>4, <1>5, <2>2
  <2>4. /\ at' \in [Callers -> Places] /\ at'[t] = "gone"
        /\ \A c \in Callers \ {t} : at'[c] = at[c]
    BY <1>1, <2>1 DEF Places, UpPlaces
  <2>5. LineInv'
    BY <1>1, <1>2, <1>3, <2>2, <2>3, <2>4 DEF LineInv
  <2>6. QED
    BY <2>2, <2>4, <2>5
<1>6. CASE w # <<>>
  <2>1. /\ line' = [line EXCEPT !.waiting = Tail(w)]
        /\ at' = [at EXCEPT ![t] = "gone", ![Head(w)] = "up"]
    BY <1>1, <1>6 DEF leave
  <2>2. /\ Tail(w) \in Seq(Turns) /\ Len(Tail(w)) = Len(w) - 1 /\ Len(w) > 0
        /\ \A i \in 1..(Len(w) - 1) : Tail(w)[i] = w[i + 1]
        /\ Head(w) = w[1] /\ Head(w) \in Turns
    BY <1>2, <1>6, HeadTailProperties
  <2>3. line' \in [busy : BOOLEAN, waiting : Seq(Turns)] /\ line'.busy /\ line'.waiting = Tail(w)
    BY <1>1, <1>3, <2>1, <2>2
  <2>4. \A i \in 1..Len(w) : w[i] = t + i
    BY <1>1, <1>3 DEF LineInv
  <2>5. Head(w) = t + 1 /\ t + 1 \in Turns
    BY <1>2, <2>2, <2>4
  <2>6. Front' = t + 1 /\ t + 1 <= joined
    <3>1. Len(line'.waiting) = Len(w) - 1 /\ Len(w) > 0
      BY <2>2, <2>3
    <3>2. QED
      BY <1>2, <1>3, <1>4, <3>1
  <2>7. /\ at' \in [Callers -> Places]
        /\ \A c \in Callers : at'[c] = IF c = t + 1 THEN "up" ELSE IF c = t THEN "gone" ELSE at[c]
    BY <1>1, <2>1, <2>5 DEF Places, UpPlaces
  <2>8. at[t + 1] = "line"
    BY <1>1, <1>2, <1>3, <2>5, <2>6 DEF LineInv
  <2>9. \A i \in 1..Len(line'.waiting) : line'.waiting[i] = (t + 1) + i
    <3>1. \A i \in 1..(Len(w) - 1) : i + 1 \in 1..Len(w) /\ w[i + 1] = (t + 1) + i
      BY <1>2, <2>4
    <3>2. QED
      BY <2>2, <2>3, <3>1
  <2>10. \A u \in Turns :
          /\ u < t + 1 => at'[u] = "gone"
          /\ u = t + 1 => at'[u] = "up"
          /\ t + 1 < u /\ u <= joined => at'[u] = "line"
          /\ joined < u => at'[u] = "none"
    <3>1. \A u \in Turns : /\ u < t => at[u] = "gone"
                           /\ t < u /\ u <= joined => at[u] = "line"
                           /\ joined < u => at[u] = "none"
      BY <1>1, <1>3 DEF LineInv
    <3>2. QED
      BY <1>1, <1>2, <2>6, <2>7, <3>1
  <2>11. LineInv'
    BY <1>2, <2>3, <2>5, <2>6, <2>9, <2>10 DEF LineInv, UpPlaces
  <2>12. \A c \in Callers \ {t} : at'[c] = at[c] \/ (at[c] = "line" /\ at'[c] = "up")
    BY <2>7, <2>8
  <2>13. at'[t] = "gone"
    BY <1>1, <1>2, <2>7
  <2>14. QED
    BY <2>3, <2>7, <2>11, <2>12, <2>13
<1>7. QED
  BY <1>5, <1>6

(***************************************************************************)
(* What the steps have in common.                                          *)
(***************************************************************************)
LEMMA AskFacts ==
  ASSUME RpcInv
  PROVE  /\ asks \in Seq(Asked) /\ Len(asks) \in Nat /\ DOMAIN asks = 1..Len(asks)
         /\ \A i \in DOMAIN asks : asks[i] \in Asked
<1>1. asks \in Seq(Asked)
  BY DEF RpcInv, TypeOK, Asked
<1>2. QED
  BY <1>1, LenProperties, ElementOfSeq

(* An ask keeps its type when its state moves.                             *)
LEMMA RowState ==
  ASSUME NEW r \in Asked, NEW x \in States
  PROVE  [r EXCEPT !.state = x] \in Asked
BY DEF Asked

(* One ask changes.                                                        *)
LEMMA AskSet ==
  ASSUME asks \in Seq(Asked), NEW i \in DOMAIN asks, NEW r \in Asked,
         asks' = [asks EXCEPT ![i] = r]
  PROVE  /\ asks' \in Seq(Asked) /\ Len(asks') = Len(asks) /\ DOMAIN asks' = DOMAIN asks
         /\ asks'[i] = r /\ \A j \in DOMAIN asks : j # i => asks'[j] = asks[j]
<1>1. DOMAIN asks = 1..Len(asks)
  BY LenProperties
<1>2. QED
  BY <1>1, ExceptSeq

(* The asks and the read loop stay as they are, and so do all who wait.    *)
LEMMA AsksSteady ==
  ASSUME RpcInv, UNCHANGED <<asks, cancelled, reader>>,
         \A c \in Callers : at[c] \in {"ask", "parked"} => at'[c] = at[c]
  PROVE  Len(asks') <= MaxAsks /\ WaitInv' /\ OwnerInv' /\ ReaderInv'
<1>1. \A i \in DOMAIN asks : asks[i].by \in Callers
  BY AskFacts DEF Asked
<1>2. WaitInv'
  BY <1>1 DEF RpcInv, WaitInv
<1>3. OwnerInv'
  BY DEF RpcInv, OwnerInv, Reached
<1>4. ReaderInv'
  BY DEF RpcInv, ReaderInv, Cancels
<1>5. QED
  BY <1>2, <1>3, <1>4 DEF RpcInv

(* A step of a turn that neither asks nor leaves the line.                 *)
Own == UpPlaces \ {"ask", "parked"}
LEMMA GoKeeps ==
  ASSUME RpcAssumption, RpcInv, NEW t \in Turns, NEW p \in Own, NEW q \in Own,
         Go(t, p, q), StepKept, UNCHANGED cancelled, active' \in Turns \cup {None}, ReachInv'
  PROVE  RpcInv'
<1>1. /\ at \in [Callers -> Places] /\ at[t] = p /\ at' = [at EXCEPT ![t] = q] /\ t \in Callers
      /\ UNCHANGED <<line, joined, compact, asks, reader, closed, extReady, over, cancelled>>
  BY DEF RpcInv, TypeOK, Places, UpPlaces, Go, StepKept, turnVars, Callers
<1>2. /\ at' \in [Callers -> Places]
      /\ \A c \in Callers : at'[c] = IF c = t THEN q ELSE at[c]
  BY <1>1 DEF Own, Places
<1>3. TypeOK'
  BY <1>1, <1>2 DEF RpcInv, TypeOK, Places, UpPlaces
<1>4. \A c \in Turns : at'[c] = at[c] \/ (at[c] \in UpPlaces /\ at'[c] \in UpPlaces)
  BY <1>1, <1>2 DEF Own, Callers
<1>5. LineInv'
  BY <1>1, <1>4, LineSteady DEF RpcInv
<1>6. \A c \in Callers : at[c] \in {"ask", "parked"} => at'[c] = at[c]
  BY <1>1, <1>2 DEF Own
<1>7. Len(asks') <= MaxAsks /\ WaitInv' /\ OwnerInv' /\ ReaderInv'
  BY <1>1, <1>6, AsksSteady
<1>8. QED
  BY <1>3, <1>5, <1>7 DEF RpcInv

(* Who is up is alone, so the cancel function is its own.                  *)
LEMMA OnlyOne ==
  ASSUME RpcAssumption, RpcInv, NEW t \in Turns, at[t] \in UpPlaces
  PROVE  /\ \A u \in Turns : at[u] \in UpPlaces => u = t
         /\ active \in {t, None}
<1>1. \A u \in Turns : at[u] \in UpPlaces => u = t
  BY OneUp
<1>2. active # None => active \in Turns /\ at[active] \in UpPlaces
  BY DEF RpcInv, TypeOK, ReachInv, RunPlaces, UpPlaces
<1>3. QED
  BY <1>1, <1>2

LEMMA TurnKeeps ==
  ASSUME RpcAssumption, RpcInv, NEW t \in Turns, Turn(t)
  PROVE  RpcInv'
<1> DEFINE Quiet == UNCHANGED <<cancelled, reader>>
<1>1. /\ at \in [Callers -> Places] /\ t \in Callers /\ Turns \subseteq Callers /\ ReachInv
      /\ active \in Turns \cup {None} /\ None \notin Turns
  BY DEF RpcAssumption, RpcInv, TypeOK, Places, UpPlaces, Callers, Turns
<1>2. ASSUME NEW p \in Own, NEW q \in Own, Go(t, p, q), StepKept, UNCHANGED <<active, cancelled>>,
             q \in RunPlaces => p \in RunPlaces, p \in RunPlaces => q \in RunPlaces \cup {"unset"},
             p # "unset"
      PROVE  RpcInv'
  <2>1. \A u \in Turns : at'[u] = IF u = t THEN q ELSE at[u]
    BY <1>1, <1>2 DEF Go
  <2>2. at[t] = p
    BY <1>2 DEF Go
  <2>3. \A u \in Turns : Reached(u)' <=> Reached(u)
    BY <1>2 DEF StepKept, Reached
  <2>4. ReachInv'
    BY <1>1, <1>2, <2>1, <2>2, <2>3 DEF ReachInv, RunPlaces
  <2>5. QED
    BY <1>1, <1>2, <2>4, GoKeeps
<1>3. CASE SetCancel(t)
  <2>1. Go(t, "up", "ready") /\ active' = t /\ StepKept /\ UNCHANGED cancelled
    BY <1>3 DEF SetCancel
  <2>2. \A u \in Turns : at'[u] = IF u = t THEN "ready" ELSE at[u]
    BY <1>1, <2>1 DEF Go
  <2>3. \A u \in Turns : at[u] \in RunPlaces => u = t
    BY <2>1, OnlyOne DEF Go, UpPlaces, RunPlaces
  <2>4. ReachInv'
    BY <2>1, <2>2, <2>3 DEF ReachInv, RunPlaces
  <2>5. QED
    BY <2>1, <2>4, GoKeeps DEF Own, UpPlaces
<1>4. CASE Unset(t)
  <2>1. Go(t, "unset", "leave") /\ active' = None /\ StepKept /\ UNCHANGED cancelled
    BY <1>4 DEF Unset
  <2>2. \A u \in Turns : at'[u] = IF u = t THEN "leave" ELSE at[u]
    BY <1>1, <2>1 DEF Go
  <2>3. \A u \in Turns : at'[u] \notin RunPlaces
    BY <2>1, <2>2, OnlyOne DEF Go, UpPlaces, RunPlaces
  <2>4. ReachInv'
    BY <2>1, <2>3 DEF ReachInv
  <2>5. QED
    BY <2>1, <2>4, GoKeeps DEF Own, UpPlaces
<1>5. CASE Leave(t)
  <2>1. /\ LineInv' /\ line' \in [busy : BOOLEAN, waiting : Seq(Turns)]
        /\ at' \in [Callers -> Places]
        /\ at'[t] = "gone"
        /\ \A c \in Callers \ {t} : at'[c] = at[c] \/ (at[c] = "line" /\ at'[c] = "up")
    BY <1>5, LeaveLine
  <2>2. /\ UNCHANGED <<joined, compact, cancelled, active, asks, reader, closed, extReady, over>>
        /\ at[t] = "leave"
    BY <1>5 DEF Leave
  <2>3. TypeOK'
    BY <2>1, <2>2 DEF RpcInv, TypeOK, Places, UpPlaces
  <2>4. ReachInv'
    <3>1. \A u \in Turns : at'[u] \in RunPlaces => at[u] \in RunPlaces
      BY <1>1, <2>1 DEF RunPlaces
    <3>2. active # None => active # t /\ at[active] \in RunPlaces \cup {"unset"}
      BY <1>1, <2>2 DEF ReachInv, RunPlaces
    <3>3. active # None => at'[active] = at[active]
      BY <1>1, <2>1, <3>2 DEF RunPlaces
    <3>4. QED
      BY <1>1, <2>2, <3>1, <3>2, <3>3 DEF ReachInv, Reached
  <2>5. \A c \in Callers : at[c] \in {"ask", "parked"} => at'[c] = at[c]
    BY <2>1, <2>2
  <2>6. QED
    BY <2>1, <2>2, <2>3, <2>4, <2>5, AsksSteady DEF RpcInv
<1>6. CASE Started(t) \/ awaitExtensions(t) \/ ModelCall(t) \/ Reply(t) \/ Done(t)
  BY <1>2, <1>6 DEF Started, awaitExtensions, ModelCall, Reply, Done, Own, UpPlaces, RunPlaces
<1>7. QED
  BY <1>3, <1>4, <1>5, <1>6 DEF Turn

LEMMA CommandKeeps ==
  ASSUME RpcAssumption, RpcInv, NEW t \in Turns, NEW k, Command(t, k)
  PROVE  RpcInv'
<1>1. /\ t = joined + 1 /\ joined' = t /\ t \in Callers
      /\ compact' \subseteq Turns
      /\ at' = [at EXCEPT ![t] = IF line.busy THEN "line" ELSE "up"]
      /\ at \in [Callers -> Places] /\ Turns \subseteq Callers
      /\ UNCHANGED <<cancelled, active, asks, reader, closed, extReady, over>>
  BY DEF Command, RpcInv, TypeOK, Callers, Places, UpPlaces
<1>2. at[t] = "none"
  BY <1>1 DEF RpcAssumption, RpcInv, LineInv, TypeOK, Turns
<1>3. /\ at' \in [Callers -> Places] /\ at'[t] \in {"line", "up"}
      /\ \A c \in Callers \ {t} : at'[c] = at[c]
  BY <1>1 DEF Places, UpPlaces
<1>4. LineInv' /\ line' \in [busy : BOOLEAN, waiting : Seq(Turns)]
  BY CommandLine
<1>5. joined' \in 0..MaxTurns
  BY <1>1 DEF RpcAssumption, Turns
<1>6. TypeOK'
  BY <1>1, <1>3, <1>4, <1>5 DEF RpcInv, TypeOK, Places, UpPlaces
<1>7. ReachInv'
  BY <1>1, <1>2, <1>3 DEF RpcInv, TypeOK, ReachInv, Reached, RunPlaces
<1>8. \A c \in Callers : at[c] \in {"ask", "parked"} => at'[c] = at[c]
  BY <1>2, <1>3
<1>9. QED
  BY <1>1, <1>4, <1>6, <1>7, <1>8, AsksSteady DEF RpcInv

(***************************************************************************)
(* Asking and waiting.                                                     *)
(***************************************************************************)
(* A question remembers the cancel function of its own turn, or none: when *)
(* it finds none, its turn is being cancelled already.                     *)
LEMMA AskKeeps ==
  ASSUME RpcAssumption, RpcInv, NEW c \in Callers, NEW k \in Kinds, Ask(c, k)
  PROVE  RpcInv'
<1> DEFINE n == Len(asks) + 1
           new == [by |-> c, kind |-> k, turn |-> IF k = "question" THEN currentTurnCancel ELSE None,
                   state |-> "unparked", answer |-> FALSE, told |-> FALSE, cut |-> FALSE,
                   got |-> "nothing"]
<1>1. /\ asks' = Append(asks, new) /\ Len(asks) < MaxAsks
      /\ at' = [at EXCEPT ![c] = "ask"]
      /\ at \in [Callers -> Places] /\ Turns \subseteq Callers /\ active \in Turns \cup {None}
      /\ UNCHANGED <<line, joined, compact, cancelled, active, reader, closed, extReady, over>>
      /\ MaxAsks \in Nat
  BY DEF Ask, RpcAssumption, RpcInv, TypeOK, Callers, Places, UpPlaces, turnVars
<1>2. \/ c \in Turns /\ at[c] = "stream"
      \/ c \notin Turns /\ at[c] = "none"
  BY DEF Ask, RpcAssumption, Turns
<1>3. new \in Asked
  BY <1>1 DEF Asked, States, currentTurnCancel
<1>4. /\ asks \in Seq(Asked) /\ Len(asks) \in Nat /\ DOMAIN asks = 1..Len(asks)
      /\ \A i \in DOMAIN asks : asks[i] \in Asked
  BY AskFacts
<1>5. /\ asks' \in Seq(Asked) /\ Len(asks') = n /\ DOMAIN asks' = 1..n
      /\ asks'[n] = new /\ \A i \in DOMAIN asks : asks'[i] = asks[i]
  BY <1>1, <1>3, <1>4, AppendProperties, LenProperties
<1>6. \A i \in DOMAIN asks' : i \in DOMAIN asks \/ i = n
  BY <1>4, <1>5
<1>7. /\ at' \in [Callers -> Places]
      /\ \A u \in Callers : at'[u] = IF u = c THEN "ask" ELSE at[u]
  BY <1>1 DEF Places, UpPlaces
<1>8. TypeOK' /\ Len(asks') <= MaxAsks
  BY <1>1, <1>4, <1>5, <1>7 DEF RpcInv, TypeOK, Places, UpPlaces, Asked
<1>9. LineInv'
  BY <1>1, <1>2, <1>7, LineSteady DEF RpcInv, UpPlaces
<1>10. ReachInv'
  <2>1. \A u \in Turns : at'[u] \in RunPlaces <=> at[u] \in RunPlaces
    BY <1>1, <1>2, <1>7 DEF RunPlaces
  <2>2. active # None => at'[active] \in RunPlaces \cup {"unset"}
    BY <1>1, <1>7 DEF RpcInv, ReachInv, RunPlaces
  <2>3. QED
    BY <1>1, <2>1, <2>2 DEF RpcInv, ReachInv, Reached
<1>11. \A i \in DOMAIN asks : asks[i].by \in Callers /\ (asks[i].got = "nothing" => asks[i].by # c)
  BY <1>2, <1>4 DEF RpcInv, WaitInv, Asked
<1>12. WaitInv'
  <2>1. \A i \in DOMAIN asks' :
          /\ asks'[i].state \in {"unparked", "pending"} => asks'[i].got = "nothing" /\ ~asks'[i].answer
          /\ asks'[i].got = "nothing" =>
               at'[asks'[i].by] = IF asks'[i].state = "unparked" THEN "ask" ELSE "parked"
    BY <1>5, <1>6, <1>7, <1>11 DEF RpcInv, WaitInv
  <2>2. \A i, j \in DOMAIN asks' : /\ asks'[i].got = "nothing" /\ asks'[j].got = "nothing"
                                  /\ asks'[i].by = asks'[j].by
                                  => i = j
    BY <1>5, <1>6, <1>11 DEF RpcInv, WaitInv
  <2>3. QED
    BY <2>1, <2>2 DEF WaitInv
<1>13. k = "question" /\ c \in Turns => new.turn \in {c, None} /\ (new.turn = c \/ Reached(c))
  <2>1. c \in Turns => active \in {c, None}
    BY <1>2, OnlyOne DEF UpPlaces
  <2>2. c \in Turns => active = c \/ Reached(c)
    BY <1>2 DEF RpcInv, ReachInv, RunPlaces
  <2>3. QED
    BY <2>1, <2>2 DEF currentTurnCancel
<1>14. OwnerInv'
  <2>1. \A u \in Turns : Reached(u)' <=> Reached(u)
    BY <1>1 DEF Reached
  <2>2. ASSUME NEW i \in DOMAIN asks, asks[i].kind = "question"
        PROVE  /\ asks[i].told => asks[i].state = "resolving"
               /\ asks[i].state = "resolving" => asks[i].told \/ (reader.at = "answering" /\ reader.id = i)
               /\ asks[i].got # "nothing" => (asks[i].got = "answer" <=> asks[i].told)
               /\ asks[i].by \in Turns => /\ asks[i].turn \in {asks[i].by, None}
                                          /\ asks[i].turn = asks[i].by \/ Reached(asks[i].by)
                                          /\ asks[i].cut => asks[i].by \in cancelled
    BY <2>2 DEF RpcInv, OwnerInv
  <2>3. ASSUME NEW i \in DOMAIN asks', asks'[i].kind = "question"
        PROVE  /\ asks'[i].told => asks'[i].state = "resolving"
               /\ asks'[i].state = "resolving" => asks'[i].told \/ (reader'.at = "answering" /\ reader'.id = i)
               /\ asks'[i].got # "nothing" => (asks'[i].got = "answer" <=> asks'[i].told)
               /\ asks'[i].by \in Turns => /\ asks'[i].turn \in {asks'[i].by, None}
                                           /\ asks'[i].turn = asks'[i].by \/ Reached(asks'[i].by)
                                           /\ asks'[i].cut => asks'[i].by \in cancelled'
    <3>1. CASE i \in DOMAIN asks
      <4>1. asks'[i] = asks[i] /\ reader' = reader /\ cancelled' = cancelled
        BY <1>1, <1>5, <3>1
      <4>2. QED
        BY <2>1, <2>2, <2>3, <3>1, <4>1
    <3>2. CASE i = n
      <4>1. /\ asks'[i] = new /\ new.told = FALSE /\ new.state = "unparked" /\ new.got = "nothing"
            /\ new.by = c /\ new.kind = k /\ new.cut = FALSE
        BY <1>5, <3>2
      <4> HIDE DEF new
      <4>2. QED
        BY <1>13, <2>1, <2>3, <4>1
    <3>3. QED
      BY <1>6, <3>1, <3>2
  <2>4. \A i \in DOMAIN asks' : asks'[i].by \in Turns => (Reached(asks[i].by)' <=> Reached(asks'[i].by))
    BY <1>1 DEF Reached
  <2>5. QED
    BY <2>3, <2>4 DEF OwnerInv
<1>15. ReaderInv'
  BY <1>1, <1>4, <1>5 DEF RpcInv, ReaderInv, Cancels
<1>16. QED
  BY <1>8, <1>9, <1>10, <1>12, <1>14, <1>15 DEF RpcInv

(* What a wait's beginning and end have in common: one ask changes, and    *)
(* its caller moves.                                                       *)
LEMMA WaitKeeps ==
  ASSUME RpcAssumption, RpcInv, NEW i \in DOMAIN asks, asks[i].got = "nothing",
         NEW r \in Asked, asks' = [asks EXCEPT ![i] = r],
         r.by = asks[i].by, r.kind = asks[i].kind, r.turn = asks[i].turn, r.told = asks[i].told,
         r.answer = asks[i].answer, r.cut = asks[i].cut,
         NEW p \in {"parked", "model", "gone"}, at' = [at EXCEPT ![r.by] = p],
         r.got = "nothing" => p = "parked" /\ r.state = "pending" /\ asks[i].state = "unparked",
         r.got # "nothing" => p = IF r.by \in Turns THEN "model" ELSE "gone",
         r.got # "nothing" => r.state \notin {"unparked", "pending"},
         r.kind = "question" =>
           /\ r.told => r.state = "resolving"
           /\ r.state = "resolving" => r.told
           /\ r.got # "nothing" => (r.got = "answer" <=> r.told)
           /\ r.state = "unparked" => ~r.answer
           /\ asks[i].state = "cancelled" => r.state = "cancelled"
           /\ reader.at # "answering" \/ reader.id # i,
         r.state \in {"unparked", "pending"} => ~r.answer,
         cancelled \subseteq cancelled', cancelled' \subseteq Turns,
         UNCHANGED <<line, joined, compact, active, reader, closed, extReady, over>>
  PROVE  RpcInv'
<1>1. /\ asks \in Seq(Asked) /\ Len(asks) \in Nat /\ DOMAIN asks = 1..Len(asks)
      /\ \A j \in DOMAIN asks : asks[j] \in Asked
  BY AskFacts
<1>2. /\ asks' \in Seq(Asked) /\ Len(asks') = Len(asks) /\ DOMAIN asks' = DOMAIN asks
      /\ asks'[i] = r /\ \A j \in DOMAIN asks : j # i => asks'[j] = asks[j]
  BY <1>1, AskSet
<1>3. /\ at \in [Callers -> Places] /\ r.by \in Callers /\ Turns \subseteq Callers
      /\ active \in Turns \cup {None}
      /\ at[r.by] \in {"ask", "parked"}
  BY <1>1 DEF RpcInv, TypeOK, Places, UpPlaces, Callers, Asked, WaitInv
<1>4. /\ at' \in [Callers -> Places]
      /\ \A c \in Callers : at'[c] = IF c = r.by THEN p ELSE at[c]
  BY <1>3 DEF Places, UpPlaces
<1>5. TypeOK' /\ Len(asks') <= MaxAsks
  BY <1>2, <1>4 DEF RpcInv, TypeOK, Places, UpPlaces, Asked
<1>6. r.by \in Turns => p \in {"parked", "model"}
  OBVIOUS
<1>7. LineInv'
  BY <1>3, <1>4, <1>6, LineSteady DEF RpcInv, UpPlaces
<1>8. \A u \in Turns : Reached(u) => Reached(u)'
  BY DEF Reached
<1>9. ReachInv'
  <2>1. \A u \in Turns : at'[u] \in RunPlaces => at[u] \in RunPlaces
    BY <1>3, <1>4 DEF RunPlaces
  <2>2. active # None => at'[active] \in RunPlaces \cup {"unset"}
    BY <1>3, <1>4, <1>6 DEF RpcInv, ReachInv, RunPlaces
  <2>3. QED
    BY <1>8, <2>1, <2>2 DEF RpcInv, ReachInv
<1>10. \A j \in DOMAIN asks : asks[j].by \in Callers /\ (j # i /\ asks[j].got = "nothing" => asks[j].by # r.by)
  BY <1>1 DEF RpcInv, WaitInv, Asked
<1>11. WaitInv'
  <2>1. \A j \in DOMAIN asks :
          /\ asks'[j].state \in {"unparked", "pending"} => asks'[j].got = "nothing" /\ ~asks'[j].answer
          /\ asks'[j].got = "nothing" =>
               at'[asks'[j].by] = IF asks'[j].state = "unparked" THEN "ask" ELSE "parked"
    BY <1>2, <1>3, <1>4, <1>10 DEF RpcInv, WaitInv
  <2>2. \A j, m \in DOMAIN asks : /\ asks'[j].got = "nothing" /\ asks'[m].got = "nothing"
                                 /\ asks'[j].by = asks'[m].by
                                 => j = m
    BY <1>2, <1>10 DEF RpcInv, WaitInv
  <2>3. QED
    BY <1>2, <2>1, <2>2 DEF WaitInv
<1>12. OwnerInv'
  <2>1. ASSUME NEW j \in DOMAIN asks, asks[j].kind = "question"
        PROVE  /\ asks[j].told => asks[j].state = "resolving"
               /\ asks[j].state = "resolving" => asks[j].told \/ (reader.at = "answering" /\ reader.id = j)
               /\ asks[j].got # "nothing" => (asks[j].got = "answer" <=> asks[j].told)
               /\ asks[j].by \in Turns => /\ asks[j].turn \in {asks[j].by, None}
                                          /\ asks[j].turn = asks[j].by \/ Reached(asks[j].by)
                                          /\ asks[j].cut => asks[j].by \in cancelled
    BY <2>1 DEF RpcInv, OwnerInv
  <2>2. QED
    BY <1>2, <1>8, <2>1 DEF OwnerInv
<1>13. ReaderInv'
  <2>1. reader.at = "aborting" => reader.turn \in Turns
    BY DEF RpcInv, ReaderInv
  <2>2. reader.at = "answering" => reader.id # i
    BY DEF RpcInv, ReaderInv
  <2>3. \A j \in DOMAIN asks : Cancels(j)' = Cancels(j)
    BY <1>2 DEF Cancels
  <2>4. reader.at = "cutting" /\ i \in reader.ids => r.state = "cancelled"
    BY DEF RpcInv, ReaderInv
  <2>5. QED
    BY <1>2, <2>1, <2>2, <2>3, <2>4 DEF RpcInv, ReaderInv
<1>14. QED
  BY <1>5, <1>7, <1>9, <1>11, <1>12, <1>13 DEF RpcInv

(* Parking, and each way a wait ends.                                      *)
LEMMA WaitStep ==
  ASSUME RpcAssumption, RpcInv, NEW i \in DOMAIN asks, Wait(i)
  PROVE  RpcInv'
<1>1. /\ asks[i] \in Asked
      /\ asks[i].state \in {"unparked", "pending"} => asks[i].got = "nothing" /\ ~asks[i].answer
      /\ cancelled \subseteq Turns /\ asks \in Seq(Asked) /\ DOMAIN asks = 1..Len(asks)
  BY AskFacts DEF RpcInv, TypeOK, WaitInv
<1>2. asks[i].kind = "question" =>
        /\ asks[i].told => asks[i].state = "resolving"
        /\ asks[i].state = "resolving" => asks[i].told \/ (reader.at = "answering" /\ reader.id = i)
  BY DEF RpcInv, OwnerInv
<1>3. /\ reader.at = "answering" =>
           reader.id \in DOMAIN asks /\ asks[reader.id].kind = "question" /\ ~asks[reader.id].told
      /\ reader.at = "answering" => asks[reader.id].state = "resolving"
  BY DEF RpcInv, ReaderInv
<1>4. CASE Park(i)
  <2> DEFINE r == [asks[i] EXCEPT !.state = "pending"]
  <2>1. asks[i].state = "unparked" /\ asks' = [asks EXCEPT ![i] = r]
        /\ at' = [at EXCEPT ![asks[i].by] = "parked"]
        /\ UNCHANGED <<line, joined, compact, cancelled, active, reader, closed, extReady, over>>
    BY <1>4 DEF Park, turnVars
  <2>2. /\ r \in Asked /\ r.by = asks[i].by /\ r.kind = asks[i].kind /\ r.turn = asks[i].turn
        /\ r.told = asks[i].told /\ r.answer = asks[i].answer /\ r.cut = asks[i].cut
        /\ r.got = asks[i].got /\ r.state = "pending"
    BY <1>1 DEF Asked, States
  <2>3. reader.at # "answering" \/ reader.id # i
    BY <1>3, <2>1
  <2> HIDE DEF r
  <2>4. asks[i].got = "nothing" /\ ~asks[i].answer /\ (asks[i].kind = "question" => ~asks[i].told)
    BY <1>1, <1>2, <2>1
  <2>5. /\ r.got = "nothing" /\ ~r.answer /\ r.state = "pending"
        /\ at' = [at EXCEPT ![r.by] = "parked"]
        /\ cancelled \subseteq cancelled' /\ cancelled' \subseteq Turns
    BY <1>1, <2>1, <2>2, <2>4
  <2>6. r.kind = "question" => ~r.told
    BY <2>2, <2>4
  <2>7. r \in Asked /\ r.by = asks[i].by /\ r.kind = asks[i].kind /\ r.turn = asks[i].turn
        /\ r.told = asks[i].told /\ r.answer = asks[i].answer /\ r.cut = asks[i].cut
    BY <2>2
  <2>8. asks[i].state = "unparked" /\ asks[i].got = "nothing" /\ asks' = [asks EXCEPT ![i] = r]
        /\ UNCHANGED <<line, joined, compact, active, reader, closed, extReady, over>>
    BY <2>1, <2>4
  <2>9. QED
    BY <2>3, <2>5, <2>6, <2>7, <2>8, WaitKeeps
<1>5. ASSUME NEW g \in {"answer", "cancelled"}, NEW q \in {"resolving", "cancelled"},
             NEW cut \in SUBSET Turns, Parked(i), Return(i, g, q, cut),
             asks[i].kind = "question" =>
               /\ asks[i].told => q = "resolving"
               /\ q = "resolving" => asks[i].told
               /\ g = "answer" <=> asks[i].told
               /\ asks[i].state = "cancelled" => q = "cancelled"
               /\ reader.at # "answering" \/ reader.id # i
      PROVE  RpcInv'
  <2> DEFINE r == [asks[i] EXCEPT !.got = g, !.state = q]
             p == IF asks[i].by \in Turns THEN "model" ELSE "gone"
  <2>1. /\ asks' = [asks EXCEPT ![i] = r] /\ at' = [at EXCEPT ![asks[i].by] = p]
        /\ cancelled' = cancelled \cup cut /\ asks[i].got = "nothing"
        /\ UNCHANGED <<line, joined, compact, active, reader, closed, extReady, over>>
    BY <1>5 DEF Return, turnVars, Parked
  <2>2. /\ r \in Asked /\ r.by = asks[i].by /\ r.kind = asks[i].kind /\ r.turn = asks[i].turn
        /\ r.told = asks[i].told /\ r.answer = asks[i].answer /\ r.cut = asks[i].cut
        /\ r.got = g /\ r.state = q
    BY <1>1 DEF Asked, States
  <2>3. cancelled \subseteq cancelled' /\ cancelled' \subseteq Turns
    BY <1>1, <2>1
  <2> HIDE DEF r
  <2>4. at' = [at EXCEPT ![r.by] = p] /\ p \in {"parked", "model", "gone"}
        /\ p = IF r.by \in Turns THEN "model" ELSE "gone"
    BY <2>1, <2>2
  <2> HIDE DEF p
  <2>5. r.kind = "question" =>
           /\ r.told => r.state = "resolving"
           /\ r.state = "resolving" => r.told
           /\ r.got # "nothing" => (r.got = "answer" <=> r.told)
           /\ r.state = "unparked" => ~r.answer
           /\ asks[i].state = "cancelled" => r.state = "cancelled"
           /\ reader.at # "answering" \/ reader.id # i
    BY <1>5, <2>2
  <2>6. r.got # "nothing" /\ r.state \notin {"unparked", "pending"}
    BY <2>2
  <2>7. /\ r.by = asks[i].by /\ r.kind = asks[i].kind /\ r.turn = asks[i].turn
        /\ r.told = asks[i].told /\ r.answer = asks[i].answer /\ r.cut = asks[i].cut
        /\ r.got = "nothing" => p = "parked" /\ r.state = "pending" /\ asks[i].state = "unparked"
        /\ r.got # "nothing" => p = IF r.by \in Turns THEN "model" ELSE "gone"
        /\ r.got # "nothing" => r.state \notin {"unparked", "pending"}
        /\ r.state \in {"unparked", "pending"} => ~r.answer
        /\ r \in Asked
    BY <2>2, <2>4, <2>6
  <2>8. /\ asks' = [asks EXCEPT ![i] = r] /\ asks[i].got = "nothing"
        /\ UNCHANGED <<line, joined, compact, active, reader, closed, extReady, over>>
    BY <2>1
  <2>9. at' = [at EXCEPT ![r.by] = p] /\ p \in {"parked", "model", "gone"}
    BY <2>4
  <2>10. QED
    BY <2>3, <2>5, <2>7, <2>8, <2>9, WaitKeeps
<1>6. CASE Hear(i)
  <2>1. /\ Parked(i) /\ asks[i].answer /\ (asks[i].kind = "question" => asks[i].told)
        /\ Return(i, "answer", asks[i].state, {})
    BY <1>6 DEF Hear
  <2>2. asks[i].state \in {"resolving", "cancelled"}
    BY <1>1, <2>1 DEF Asked, States, Parked
  <2>3. QED
    BY <1>2, <1>3, <1>5, <1>6, <2>1, <2>2 DEF Hear
<1>7. Cancels(i) \in SUBSET Turns
  BY <1>1 DEF Cancels, Asked
<1>8. CASE GiveUp(i)
  <2>1. Parked(i) /\ reader.at # "answering"
    BY <1>8 DEF GiveUp, Unlocked
  <2>2. CASE asks[i].state = "pending"
    BY <1>2, <1>5, <1>7, <1>8, <2>1, <2>2 DEF GiveUp
  <2>3. CASE asks[i].state = "resolving"
    BY <1>2, <1>5, <1>8, <2>1, <2>3 DEF GiveUp
  <2>4. CASE asks[i].state = "cancelled"
    BY <1>2, <1>5, <1>8, <2>1, <2>4 DEF GiveUp
  <2>5. QED
    BY <1>1, <2>1, <2>2, <2>3, <2>4 DEF Parked, Asked, States
<1>9. CASE Deny(i)
  <2>1. Parked(i) /\ asks[i].kind = "approval" /\ Return(i, "cancelled", "cancelled", {})
    BY <1>9 DEF Deny
  <2>2. QED
    BY <1>5, <2>1
<1>10. QED
  BY <1>4, <1>6, <1>8, <1>9 DEF Wait

(***************************************************************************)
(* The read loop's commands.                                               *)
(***************************************************************************)
(* What a command may do to the asks: it neither adds nor ends one, parks  *)
(* none again, and leaves each with one owner.                             *)
AsksMove ==
  /\ asks' \in Seq(Asked) /\ DOMAIN asks' = DOMAIN asks /\ Len(asks') = Len(asks)
  /\ \A i \in DOMAIN asks :
       /\ asks'[i].by = asks[i].by /\ asks'[i].got = asks[i].got
       /\ asks'[i].kind = asks[i].kind /\ asks'[i].turn = asks[i].turn
       /\ asks'[i].state = "unparked" <=> asks[i].state = "unparked"
       /\ asks'[i].state = "pending" => asks[i].state = "pending" /\ asks'[i].answer = asks[i].answer
       /\ asks'[i].state = "unparked" => asks'[i].answer = asks[i].answer
       /\ asks[i].kind = "question" =>
            /\ asks'[i].told => asks'[i].state = "resolving"
            /\ asks'[i].state = "resolving" => asks'[i].told \/ (reader'.at = "answering" /\ reader'.id = i)
            /\ asks[i].got # "nothing" => asks'[i].told = asks[i].told
            /\ asks'[i].cut => asks[i].cut \/ (asks[i].by \in Turns => asks[i].by \in cancelled')

(* A turn in reach stays in reach.                                         *)
ReachedNext(t) == t \in cancelled' \/ (reader'.at = "aborting" /\ reader'.turn = t)
ReachMove ==
  /\ active' \in {active, None} /\ cancelled \subseteq cancelled' /\ cancelled' \subseteq Turns
  /\ \A t \in Turns : /\ active = t => active' = t \/ ReachedNext(t)
                      /\ Reached(t) => ReachedNext(t)

ReaderType ==
  reader \in [at : {"idle", "aborting", "answering", "cutting", "closing", "draining", "ended"},
             turn : Turns \cup {None}, id : 0..MaxAsks, ids : SUBSET (1..MaxAsks)]

(* A command, or a step of one, moves no turn.                             *)
LEMMA ReaderKeeps ==
  ASSUME RpcAssumption, RpcInv, CallerKept, closed' \in BOOLEAN,
         AsksMove, ReachMove, ReaderType', ReaderInv'
  PROVE  RpcInv'
<1> USE DEF CallerKept, turnVars
<1>1. TypeOK'
  BY DEF RpcInv, TypeOK, Asked, AsksMove, ReachMove, ReaderType
<1>2. LineInv'
  BY LineSteady DEF RpcInv
<1>3. ReachInv'
  <2>1. ASSUME NEW t \in Turns, at[t] \in RunPlaces PROVE active' = t \/ ReachedNext(t)
    BY <2>1 DEF RpcInv, ReachInv, ReachMove, ReachedNext, Reached
  <2>2. active' # None => at[active'] \in RunPlaces \cup {"unset"}
    BY DEF RpcInv, ReachInv, ReachMove
  <2>3. QED
    BY <2>1, <2>2 DEF ReachInv, Reached, ReachedNext
<1>4. WaitInv'
  <2>1. \A j \in DOMAIN asks :
          /\ asks'[j].state \in {"unparked", "pending"} => asks'[j].got = "nothing" /\ ~asks'[j].answer
          /\ asks'[j].got = "nothing" =>
               at'[asks'[j].by] = IF asks'[j].state = "unparked" THEN "ask" ELSE "parked"
    BY DEF RpcInv, WaitInv, AsksMove
  <2>2. \A j, m \in DOMAIN asks : /\ asks'[j].got = "nothing" /\ asks'[m].got = "nothing"
                                 /\ asks'[j].by = asks'[m].by
                                 => j = m
    BY DEF RpcInv, WaitInv, AsksMove
  <2>3. QED
    BY <2>1, <2>2 DEF WaitInv, AsksMove
<1>5. OwnerInv'
  <2>1. ASSUME NEW j \in DOMAIN asks, asks[j].kind = "question"
        PROVE  /\ asks[j].got # "nothing" => (asks[j].got = "answer" <=> asks[j].told)
               /\ asks[j].by \in Turns => /\ asks[j].turn \in {asks[j].by, None}
                                          /\ asks[j].turn = asks[j].by \/ Reached(asks[j].by)
                                          /\ asks[j].cut => asks[j].by \in cancelled
    BY <2>1 DEF RpcInv, OwnerInv
  <2>2. \A u \in Turns : Reached(u) => ReachedNext(u)
    BY DEF ReachMove, ReachedNext, Reached
  <2>3. cancelled \subseteq cancelled'
    BY DEF ReachMove
  <2>4. ASSUME NEW j \in DOMAIN asks, asks[j].kind = "question"
        PROVE  /\ asks'[j].told => asks'[j].state = "resolving"
               /\ asks'[j].state = "resolving" => asks'[j].told \/ (reader'.at = "answering" /\ reader'.id = j)
               /\ asks'[j].got # "nothing" => (asks'[j].got = "answer" <=> asks'[j].told)
               /\ asks'[j].by \in Turns => /\ asks'[j].turn \in {asks'[j].by, None}
                                           /\ asks'[j].turn = asks'[j].by \/ ReachedNext(asks'[j].by)
                                           /\ asks'[j].cut => asks'[j].by \in cancelled'
    <3>1. /\ asks'[j].by = asks[j].by /\ asks'[j].got = asks[j].got /\ asks'[j].turn = asks[j].turn
          /\ asks'[j].told => asks'[j].state = "resolving"
          /\ asks'[j].state = "resolving" => asks'[j].told \/ (reader'.at = "answering" /\ reader'.id = j)
          /\ asks[j].got # "nothing" => asks'[j].told = asks[j].told
          /\ asks'[j].cut => asks[j].cut \/ (asks[j].by \in Turns => asks[j].by \in cancelled')
      BY <2>4 DEF AsksMove
    <3>2. QED
      BY <2>1, <2>2, <2>3, <2>4, <3>1
  <2>5. \A j \in DOMAIN asks : asks'[j].kind = asks[j].kind
    BY DEF AsksMove
  <2>6. DOMAIN asks' = DOMAIN asks
    BY DEF AsksMove
  <2>7. QED
    BY <2>4, <2>5, <2>6 DEF OwnerInv, Reached, ReachedNext
<1>6. QED
  BY <1>1, <1>2, <1>3, <1>4, <1>5 DEF RpcInv, AsksMove

(* Outside an answer, a step that leaves the asks alone leaves their       *)
(* owners alone.                                                           *)
LEMMA AsksStay ==
  ASSUME RpcInv, asks' = asks, reader.at # "answering"
  PROVE  AsksMove
<1>1. \A i \in DOMAIN asks : asks[i].kind = "question" =>
        /\ asks[i].told => asks[i].state = "resolving"
        /\ asks[i].state = "resolving" => asks[i].told
  BY DEF RpcInv, OwnerInv
<1>2. QED
  BY <1>1, AskFacts DEF AsksMove

(* One ask changes hands.                                                  *)
LEMMA AskMoves ==
  ASSUME RpcInv, NEW i \in DOMAIN asks, NEW r \in Asked, asks' = [asks EXCEPT ![i] = r],
         reader.at # "answering" \/ reader.id = i,
         r.by = asks[i].by, r.got = asks[i].got, r.kind = asks[i].kind, r.turn = asks[i].turn,
         r.state \in {"resolving", "cancelled"}, asks[i].state # "unparked",
         r.kind = "question" =>
           /\ r.told => r.state = "resolving"
           /\ r.state = "resolving" => r.told \/ (reader'.at = "answering" /\ reader'.id = i)
           /\ r.got # "nothing" => r.told = asks[i].told
           /\ r.cut => asks[i].cut \/ (r.by \in Turns => r.by \in cancelled')
  PROVE  AsksMove
<1>1. /\ asks' \in Seq(Asked) /\ Len(asks') = Len(asks) /\ DOMAIN asks' = DOMAIN asks
      /\ asks'[i] = r /\ \A j \in DOMAIN asks : j # i => asks'[j] = asks[j]
  BY AskFacts, AskSet
<1>2. \A j \in DOMAIN asks : j # i /\ asks[j].kind = "question" =>
        /\ asks[j].told => asks[j].state = "resolving"
        /\ asks[j].state = "resolving" => asks[j].told
  BY DEF RpcInv, OwnerInv
<1>3. QED
  BY <1>1, <1>2 DEF AsksMove

(* Each command, and each step of one that takes several.                  *)
LEMMA AbortKeeps ==
  ASSUME RpcAssumption, RpcInv, Abort \/ AbortCalls
  PROVE  RpcInv'
<1>1. /\ reader \in [at : {"idle", "aborting", "answering", "cutting", "closing", "draining", "ended"},
                    turn : Turns \cup {None}, id : 0..MaxAsks, ids : SUBSET (1..MaxAsks)]
      /\ cancelled \subseteq Turns /\ active \in Turns \cup {None} /\ closed \in BOOLEAN
      /\ reader.at = "aborting" => reader.turn \in Turns
      /\ 0 \in 0..MaxAsks /\ {} \in SUBSET (1..MaxAsks)
  BY DEF RpcAssumption, RpcInv, TypeOK, ReaderInv
<1>2. CASE Abort
  <2>1. /\ reader.at = "idle" /\ active # None /\ active' = None /\ asks' = asks
        /\ reader' = [at |-> "aborting", turn |-> active, id |-> 0, ids |-> {}]
        /\ CallerKept /\ cancelled' = cancelled /\ closed' = closed
    BY <1>2 DEF Abort, Idle
  <2>2. AsksMove
    BY <2>1, AsksStay
  <2>3. ReachMove
    BY <1>1, <2>1 DEF ReachMove, Reached, ReachedNext
  <2>4. ReaderType' /\ ReaderInv'
    BY <1>1, <2>1 DEF ReaderType, ReaderInv
  <2>5. QED
    BY <1>1, <2>1, <2>2, <2>3, <2>4, ReaderKeeps
<1>3. CASE AbortCalls
  <2>1. /\ reader.at = "aborting" /\ active' = active /\ asks' = asks
        /\ reader' = [at |-> "idle", turn |-> None, id |-> 0, ids |-> {}]
        /\ CallerKept /\ cancelled' = cancelled \cup {reader.turn} /\ closed' = closed
    BY <1>3 DEF AbortCalls, Idle
  <2>2. AsksMove
    BY <2>1, AsksStay
  <2>3. ReachMove
    BY <1>1, <2>1 DEF ReachMove, Reached, ReachedNext
  <2>4. ReaderType' /\ ReaderInv'
    BY <1>1, <2>1 DEF ReaderType, ReaderInv
  <2>5. QED
    BY <1>1, <2>1, <2>2, <2>3, <2>4, ReaderKeeps
<1>4. QED
  BY <1>2, <1>3

(* While nothing is being aborted, the active turn and the reached turns   *)
(* stay in reach by themselves.                                            *)
LEMMA ReachStays ==
  ASSUME RpcInv, active' = active, reader.at # "aborting",
         cancelled \subseteq cancelled', cancelled' \subseteq Turns
  PROVE  ReachMove
BY DEF ReachMove, Reached, ReachedNext

LEMMA AnswerKeeps ==
  ASSUME RpcAssumption, RpcInv, NEW i \in DOMAIN asks, Answer(i) \/ Approve(i) \/ Dismiss(i)
  PROVE  RpcInv'
<1>1. /\ reader \in [at : {"idle", "aborting", "answering", "cutting", "closing", "draining", "ended"},
                    turn : Turns \cup {None}, id : 0..MaxAsks, ids : SUBSET (1..MaxAsks)]
      /\ cancelled \subseteq Turns /\ closed \in BOOLEAN
      /\ 0 \in 0..MaxAsks /\ {} \in SUBSET (1..MaxAsks)
  BY DEF RpcAssumption, RpcInv, TypeOK
<1>2. i \in 1..MaxAsks /\ i \in 0..MaxAsks /\ i # 0 /\ asks[i] \in Asked
  BY AskFacts DEF RpcInv, RpcAssumption
<1>3. /\ reader.at = "idle" /\ asks[i].state = "pending" /\ active' = active
      /\ cancelled' = cancelled /\ closed' = closed /\ CallerKept
  BY DEF Answer, Approve, Dismiss, Pending
<1>4. ReachMove
  BY <1>1, <1>3, ReachStays
<1>5. asks[i].got = "nothing" /\ (asks[i].kind = "question" => ~asks[i].told)
  BY <1>3 DEF RpcInv, WaitInv, OwnerInv
<1>6. CASE Answer(i)
  <2> DEFINE r == [asks[i] EXCEPT !.state = "resolving", !.answer = TRUE]
  <2>1. /\ asks' = [asks EXCEPT ![i] = r] /\ asks[i].kind = "question"
        /\ reader' = [at |-> "answering", turn |-> None, id |-> i, ids |-> {}]
    BY <1>6 DEF Answer, Idle, Pending
  <2>2. /\ r \in Asked /\ r.by = asks[i].by /\ r.kind = asks[i].kind /\ r.turn = asks[i].turn
        /\ r.told = asks[i].told /\ r.got = asks[i].got /\ r.cut = asks[i].cut
        /\ r.state = "resolving"
    BY <1>2 DEF Asked, States
  <2> HIDE DEF r
  <2>3. AsksMove
    BY <1>3, <1>5, <2>1, <2>2, AskMoves
  <2>4. asks'[i] = r /\ i \in DOMAIN asks'
    BY <2>1, <2>2, AskFacts, AskSet
  <2>5. ReaderInv'
    BY <1>5, <2>1, <2>2, <2>4 DEF ReaderInv
  <2>6. ReaderType'
    BY <1>1, <1>2, <2>1 DEF ReaderType
  <2>7. QED
    BY <1>1, <1>3, <1>4, <2>3, <2>5, <2>6, ReaderKeeps
<1>7. CASE Approve(i)
  <2> DEFINE r == [asks[i] EXCEPT !.state = "resolving", !.answer = TRUE, !.told = TRUE]
  <2>1. /\ asks' = [asks EXCEPT ![i] = r] /\ asks[i].kind = "approval" /\ reader' = reader
    BY <1>7 DEF Approve, Pending
  <2>2. /\ r \in Asked /\ r.by = asks[i].by /\ r.kind = asks[i].kind /\ r.turn = asks[i].turn
        /\ r.got = asks[i].got /\ r.cut = asks[i].cut /\ r.state = "resolving"
    BY <1>2 DEF Asked, States
  <2> HIDE DEF r
  <2>3. AsksMove
    BY <1>3, <2>1, <2>2, AskMoves
  <2>4. ReaderInv'
    BY <1>3, <2>1 DEF ReaderInv
  <2>5. ReaderType'
    BY <1>1, <2>1 DEF ReaderType
  <2>6. QED
    BY <1>1, <1>3, <1>4, <2>3, <2>4, <2>5, ReaderKeeps
<1>8. CASE Dismiss(i)
  <2> DEFINE r == [asks[i] EXCEPT !.state = "cancelled"]
  <2>1. /\ asks' = [asks EXCEPT ![i] = r] /\ asks[i].kind = "question"
        /\ reader' = [at |-> "cutting", turn |-> None, id |-> 0, ids |-> {i}]
    BY <1>8 DEF Dismiss, Idle, Pending
  <2>2. /\ r \in Asked /\ r.by = asks[i].by /\ r.kind = asks[i].kind /\ r.turn = asks[i].turn
        /\ r.told = asks[i].told /\ r.got = asks[i].got /\ r.cut = asks[i].cut
        /\ r.state = "cancelled"
    BY <1>2 DEF Asked, States
  <2> HIDE DEF r
  <2>3. AsksMove
    BY <1>3, <1>5, <2>1, <2>2, AskMoves
  <2>4. asks'[i] = r /\ i \in DOMAIN asks'
    BY <2>1, <2>2, AskFacts, AskSet
  <2>5. ReaderInv'
    BY <2>1, <2>2, <2>4 DEF ReaderInv
  <2>6. ReaderType'
    BY <1>1, <1>2, <2>1 DEF ReaderType
  <2>7. QED
    BY <1>1, <1>3, <1>4, <2>3, <2>5, <2>6, ReaderKeeps
<1>9. QED
  BY <1>6, <1>7, <1>8

LEMMA AcknowledgeKeeps ==
  ASSUME RpcAssumption, RpcInv, Acknowledge
  PROVE  RpcInv'
<1> DEFINE i == reader.id
           r == [asks[i] EXCEPT !.told = TRUE]
<1>1. /\ reader.at = "answering" /\ asks' = [asks EXCEPT ![i] = r]
      /\ reader' = [at |-> "idle", turn |-> None, id |-> 0, ids |-> {}]
      /\ active' = active /\ cancelled' = cancelled /\ closed' = closed /\ CallerKept
  BY DEF Acknowledge, Idle
<1>2. /\ i \in DOMAIN asks /\ asks[i].kind = "question" /\ asks[i].state = "resolving"
      /\ asks[i].got = "nothing" /\ asks[i] \in Asked
      /\ cancelled \subseteq Turns /\ closed \in BOOLEAN
      /\ 0 \in 0..MaxAsks /\ {} \in SUBSET (1..MaxAsks)
  BY <1>1, AskFacts DEF RpcAssumption, RpcInv, ReaderInv, TypeOK
<1>3. /\ r \in Asked /\ r.by = asks[i].by /\ r.kind = asks[i].kind /\ r.turn = asks[i].turn
      /\ r.told /\ r.got = asks[i].got /\ r.cut = asks[i].cut /\ r.state = asks[i].state
  BY <1>2 DEF Asked
<1>4. ReachMove
  BY <1>1, <1>2, ReachStays
<1> HIDE DEF r
<1>5. AsksMove
  BY <1>1, <1>2, <1>3, AskMoves
<1>6. ReaderType' /\ ReaderInv'
  BY <1>1, <1>2 DEF ReaderType, ReaderInv
<1>7. QED
  BY <1>1, <1>2, <1>4, <1>5, <1>6, ReaderKeeps

(* The turn's function is called first, so the wait is cut only after its  *)
(* turn is cancelled.                                                      *)
LEMMA CutKeeps ==
  ASSUME RpcAssumption, RpcInv, CutSecond \/ \E i \in DOMAIN asks : CutFirst(i)
  PROVE  RpcInv'
<1>1. /\ reader \in [at : {"idle", "aborting", "answering", "cutting", "closing", "draining", "ended"},
                    turn : Turns \cup {None}, id : 0..MaxAsks, ids : SUBSET (1..MaxAsks)]
      /\ cancelled \subseteq Turns /\ closed \in BOOLEAN
      /\ 0 \in 0..MaxAsks /\ {} \in SUBSET (1..MaxAsks)
  BY DEF RpcAssumption, RpcInv, TypeOK
<1>2. /\ reader.at = "cutting" /\ active' = active /\ closed' = closed /\ CallerKept
      /\ reader.ids \subseteq DOMAIN asks
      /\ \A j \in reader.ids : asks[j].kind = "question" /\ asks[j].state = "cancelled"
      /\ reader.id # 0 => reader.id \in reader.ids /\ Cancels(reader.id) \subseteq cancelled
  BY DEF CutFirst, CutSecond, RpcInv, ReaderInv
<1>3. ASSUME NEW i \in DOMAIN asks, CutFirst(i) PROVE RpcInv'
  <2>1. /\ i \in reader.ids /\ reader' = [reader EXCEPT !.id = i]
        /\ cancelled' = cancelled \cup Cancels(i) /\ asks' = asks
    BY <1>3 DEF CutFirst, Cut, cancelOwnedQuestion, CutTurns
  <2>2. asks[i] \in Asked /\ Cancels(i) \subseteq Turns
    BY AskFacts DEF Asked, Cancels
  <2>3. AsksMove
    BY <1>2, <2>1, AsksStay
  <2>4. ReachMove
    BY <1>1, <1>2, <2>1, <2>2, ReachStays
  <2>5. i \in 0..MaxAsks
    BY <1>1, <2>1
  <2>6. /\ reader'.at = "cutting" /\ reader'.id = i /\ reader'.ids = reader.ids /\ ReaderType'
    BY <1>1, <1>2, <2>1, <2>5 DEF ReaderType
  <2>7. ReaderInv'
    BY <1>2, <2>1, <2>6 DEF ReaderInv, Cancels
  <2>8. QED
    BY <1>1, <1>2, <2>3, <2>4, <2>6, <2>7, ReaderKeeps
<1>4. CASE CutSecond
  <2> DEFINE i == reader.id
             r == [asks[i] EXCEPT !.cut = TRUE]
  <2>1. /\ i # 0 /\ asks' = [asks EXCEPT ![i] = r] /\ cancelled' = cancelled
        /\ reader' = IF reader.ids # {i} THEN [reader EXCEPT !.id = 0, !.ids = @ \ {i}]
                     ELSE IF closed
                          THEN [at |-> "draining", turn |-> None, id |-> 0, ids |-> {}]
                          ELSE [at |-> "idle", turn |-> None, id |-> 0, ids |-> {}]
    <3>1. cancelOwnedQuestion[2] = "wait"
      BY DEF cancelOwnedQuestion
    <3>2. i # 0 /\ asks' = [asks EXCEPT ![i].cut = TRUE] /\ cancelled' = cancelled
      BY <1>4, <3>1 DEF CutSecond, Cut
    <3>3. asks' = [asks EXCEPT ![i] = r]
      BY <3>2
    <3>4. QED
      BY <1>4, <3>2, <3>3 DEF CutSecond, Idle
  <2>2. /\ i \in DOMAIN asks /\ asks[i] \in Asked
        /\ asks[i].kind = "question" /\ asks[i].state = "cancelled"
        /\ Cancels(i) \subseteq cancelled
    BY <1>2, <2>1, AskFacts
  <2>3. asks[i].by \in Turns => asks[i].by \in cancelled
    <3>1. asks[i].by \in Turns => asks[i].turn = asks[i].by \/ asks[i].by \in cancelled
      BY <1>2, <2>2 DEF RpcInv, OwnerInv, Reached
    <3>2. None \notin Turns
      BY DEF RpcAssumption, Turns
    <3>3. QED
      BY <2>2, <3>1, <3>2 DEF Cancels
  <2>4. asks[i].told => FALSE
    BY <2>2 DEF RpcInv, OwnerInv
  <2>5. /\ r \in Asked /\ r.by = asks[i].by /\ r.kind = asks[i].kind /\ r.turn = asks[i].turn
        /\ r.told = asks[i].told /\ r.got = asks[i].got /\ r.state = "cancelled"
    BY <2>2 DEF Asked
  <2> HIDE DEF r
  <2>6. AsksMove
    BY <1>2, <2>1, <2>2, <2>3, <2>4, <2>5, AskMoves
  <2>7. ReachMove
    BY <1>1, <1>2, <2>1, ReachStays
  <2>8. /\ DOMAIN asks' = DOMAIN asks
        /\ \A j \in DOMAIN asks : j # i => asks'[j] = asks[j]
    BY <2>1, <2>2, <2>5, AskFacts, AskSet
  <2>9. CASE reader.ids # {i}
    <3>1. /\ reader'.at = "cutting" /\ reader'.id = 0 /\ reader'.ids = reader.ids \ {i}
          /\ ReaderType'
      BY <1>1, <1>2, <2>1, <2>9 DEF ReaderType
    <3>2. ReaderInv'
      BY <1>2, <2>8, <3>1 DEF ReaderInv
    <3>3. QED
      BY <1>1, <1>2, <2>6, <2>7, <3>1, <3>2, ReaderKeeps
  <2>10. CASE reader.ids = {i}
    <3>1. reader'.at \in {"draining", "idle"} /\ ReaderType'
      BY <1>1, <2>1, <2>10 DEF ReaderType
    <3>2. ReaderInv'
      BY <3>1 DEF ReaderInv
    <3>3. QED
      BY <1>1, <1>2, <2>6, <2>7, <3>1, <3>2, ReaderKeeps
  <2>11. QED
    BY <2>9, <2>10
<1>5. QED
  BY <1>3, <1>4

(* The end of stdin, and of the process.                                   *)
LEMMA EndKeeps ==
  ASSUME RpcAssumption, RpcInv, Eof \/ Sweep \/ Drained
  PROVE  RpcInv'
<1>1. /\ 0 \in 0..MaxAsks /\ {} \in SUBSET (1..MaxAsks)
      /\ cancelled \subseteq Turns /\ closed \in BOOLEAN /\ cancelled' = cancelled
      /\ active' = active /\ CallerKept /\ closed' \in BOOLEAN
      /\ reader.at \notin {"aborting", "answering"}
  <2>1. cancelled \subseteq Turns /\ closed \in BOOLEAN /\ 0 \in 0..MaxAsks
    BY DEF RpcAssumption, RpcInv, TypeOK
  <2>2. /\ cancelled' = cancelled /\ active' = active /\ CallerKept
        /\ reader.at \notin {"aborting", "answering"} /\ closed' \in {closed, TRUE}
    BY DEF Eof, Sweep, Drained
  <2>3. QED
    BY <2>1, <2>2
<1>2. ReachMove
  BY <1>1, ReachStays
<1>3. CASE Eof \/ Drained
  <2>1. /\ asks' = asks
        /\ \E x \in {"closing", "ended"} : reader' = [at |-> x, turn |-> None, id |-> 0, ids |-> {}]
    BY <1>3 DEF Eof, Drained, Idle
  <2>2. AsksMove
    BY <1>1, <2>1, AsksStay
  <2>3. ReaderType' /\ ReaderInv'
    BY <1>1, <2>1 DEF ReaderType, ReaderInv
  <2>4. QED
    BY <1>1, <1>2, <2>2, <2>3, ReaderKeeps
<1>4. CASE Sweep
  <2> DEFINE ids == {i \in DOMAIN asks : Pending(i, "question")}
  <2>1. /\ asks' = [i \in DOMAIN asks |->
                      IF i \in ids THEN [asks[i] EXCEPT !.state = "cancelled"] ELSE asks[i]]
        /\ reader' = [at |-> IF ids = {} THEN "draining" ELSE "cutting",
                      turn |-> None, id |-> 0, ids |-> ids]
    BY <1>4 DEF Sweep, Idle
  <2>2. /\ asks \in Seq(Asked) /\ Len(asks) \in Nat /\ DOMAIN asks = 1..Len(asks)
        /\ \A i \in DOMAIN asks : asks[i] \in Asked
    BY AskFacts
  <2>3. \A i \in DOMAIN asks : asks'[i] \in Asked
    <3> TAKE i \in DOMAIN asks
    <3>1. asks[i] \in Asked /\ "cancelled" \in States
      BY <2>2 DEF States
    <3>2. asks'[i] \in {asks[i], [asks[i] EXCEPT !.state = "cancelled"]}
      BY <2>1
    <3>3. QED
      BY <3>1, <3>2, RowState
  <2>4. asks' \in Seq(Asked) /\ Len(asks') = Len(asks) /\ DOMAIN asks' = DOMAIN asks
    <3>1. DOMAIN asks' = DOMAIN asks /\ asks' \in [1..Len(asks) -> Asked]
      BY <2>1, <2>2, <2>3
    <3>2. asks' \in Seq(Asked)
      BY <2>2, <3>1, SeqDef
    <3>3. QED
      BY <2>2, <3>1, <3>2, LenProperties
  <2>5. \A i \in ids : asks[i].kind = "question" /\ asks[i].state = "pending"
    BY DEF Pending
  <2>6. ids \subseteq DOMAIN asks
    OBVIOUS
  <2>7. ids \in SUBSET (1..MaxAsks)
    BY <2>2, <2>6 DEF RpcInv, RpcAssumption
  <2> HIDE DEF ids
  <2>8. \A i \in DOMAIN asks :
          /\ asks'[i].by = asks[i].by /\ asks'[i].got = asks[i].got
          /\ asks'[i].kind = asks[i].kind /\ asks'[i].turn = asks[i].turn
          /\ asks'[i].answer = asks[i].answer /\ asks'[i].told = asks[i].told
          /\ asks'[i].cut = asks[i].cut
          /\ asks'[i].state = IF i \in ids THEN "cancelled" ELSE asks[i].state
    BY <2>1, <2>2 DEF Asked
  <2>9. \A i \in DOMAIN asks : asks[i].kind = "question" =>
          /\ asks[i].told => asks[i].state = "resolving"
          /\ asks[i].state = "resolving" => asks[i].told
    BY <1>1 DEF RpcInv, OwnerInv
  <2>10. AsksMove
    BY <2>4, <2>5, <2>8, <2>9 DEF AsksMove
  <2>11. ReaderType'
    BY <1>1, <2>1, <2>7 DEF ReaderType
  <2>12. ReaderInv'
    BY <2>1, <2>4, <2>5, <2>6, <2>8 DEF ReaderInv
  <2>13. QED
    BY <1>1, <1>2, <2>10, <2>11, <2>12, ReaderKeeps
<1>5. QED
  BY <1>3, <1>4

LEMMA StillKeeps ==
  ASSUME RpcInv, UNCHANGED <<turnVars, at, cancelled, active, asks, reader, closed>>,
         extReady' \in BOOLEAN, over' \in BOOLEAN
  PROVE  RpcInv'
<1>1. Front' = Front
  BY DEF Front, turnVars
<1>2. \A i \in Nat : Cancels(i)' = Cancels(i)
  BY DEF Cancels
<1>3. LineInv'
  BY <1>1 DEF RpcInv, LineInv, turnVars
<1>4. TypeOK' /\ Len(asks') <= MaxAsks
  BY DEF RpcInv, TypeOK, turnVars
<1>5. ReachInv' /\ WaitInv' /\ OwnerInv'
  BY DEF RpcInv, ReachInv, WaitInv, OwnerInv, Reached
<1>6. ReaderInv'
  BY DEF RpcInv, ReaderInv, Cancels
<1>7. QED
  BY <1>3, <1>4, <1>5, <1>6 DEF RpcInv

LEMMA RpcInvNext == RpcAssumption /\ RpcInv /\ [Next]_vars => RpcInv'
<1> SUFFICES ASSUME RpcAssumption, RpcInv, [Next]_vars PROVE RpcInv'
  OBVIOUS
<1>1. ASSUME NEW t \in Turns, Turn(t) PROVE RpcInv'
  BY <1>1, TurnKeeps
<1>2. ASSUME NEW c \in Callers, NEW k \in Kinds, Ask(c, k) PROVE RpcInv'
  BY <1>2, AskKeeps
<1>3. ASSUME NEW i \in DOMAIN asks, Wait(i) PROVE RpcInv'
  BY <1>3, WaitStep
<1>4. CASE Reader
  BY <1>4, AbortKeeps, AcknowledgeKeeps, CutKeeps, EndKeeps DEF Reader
<1>5. CASE Client
  BY <1>5, CommandKeeps, AbortKeeps, EndKeeps, AnswerKeeps DEF Client
<1>6. over \in BOOLEAN /\ extReady \in BOOLEAN
  BY DEF RpcInv, TypeOK
<1>7. CASE Over \/ ExtStarted \/ UNCHANGED vars
  BY <1>6, <1>7, StillKeeps DEF Over, ExtStarted, vars, turnVars
<1>8. QED
  BY <1>1, <1>2, <1>3, <1>4, <1>5, <1>7 DEF Next

(***************************************************************************)
(* What a step does to an ask's end, and to the cancelled turns.           *)
(***************************************************************************)
LEMMA GiveUpReturns ==
  ASSUME RpcInv, NEW i \in DOMAIN asks, GiveUp(i)
  PROVE  \E got \in {"answer", "cancelled"}, state \in {"resolving", "cancelled"} :
           Return(i, got, state, IF asks[i].state = "pending" THEN Cancels(i) ELSE {})
<1>1. asks[i].state \in {"pending", "resolving", "cancelled"}
  BY AskFacts DEF GiveUp, Parked, Asked, States
<1>2. CASE asks[i].state = "pending"
  BY <1>2 DEF GiveUp
<1>3. CASE asks[i].state = "resolving"
  BY <1>3 DEF GiveUp
<1>4. CASE asks[i].state = "cancelled"
  BY <1>4 DEF GiveUp
<1>5. QED
  BY <1>1, <1>2, <1>3, <1>4

LEMMA GotOnlyByWait ==
  ASSUME RpcInv, Next, NEW i \in DOMAIN asks, asks'[i].got # asks[i].got
  PROVE  Hear(i) \/ GiveUp(i) \/ Deny(i)
<1>1. /\ asks \in Seq(Asked) /\ Len(asks) \in Nat /\ DOMAIN asks = 1..Len(asks)
      /\ \A j \in DOMAIN asks : asks[j] \in Asked
  BY AskFacts
<1>2. ASSUME NEW t \in Turns, Turn(t) PROVE FALSE
  BY <1>2 DEF Turn, SetCancel, Started, awaitExtensions, ModelCall, Reply, Done, Unset, Leave, StepKept
<1>3. ASSUME NEW c \in Callers, NEW k \in Kinds, Ask(c, k) PROVE FALSE
  BY <1>1, <1>3, AppendProperties DEF Ask
<1>4. ASSUME NEW j \in DOMAIN asks, Wait(j) PROVE Hear(i) \/ GiveUp(i) \/ Deny(i)
  <2>1. CASE Park(j)
    BY <1>1, <2>1 DEF Park, Asked
  <2>2. ASSUME j # i, Hear(j) \/ GiveUp(j) \/ Deny(j) PROVE FALSE
    BY <1>1, <2>2 DEF Hear, GiveUp, Deny, Return, Parked, Asked, States
  <2>3. QED
    BY <1>4, <2>1, <2>2 DEF Wait
<1>5. ASSUME Reader PROVE FALSE
  <2>1. ASSUME NEW j \in DOMAIN asks, CutFirst(j) PROVE FALSE
    BY <1>1, <2>1 DEF CutFirst, Cut, Asked
  <2>2. CASE CutSecond
    BY <1>1, <2>2 DEF CutSecond, Cut, Asked
  <2>3. CASE Sweep
    BY <1>1, <2>3 DEF Sweep, Asked
  <2>4. CASE Acknowledge
    BY <1>1, <2>4 DEF Acknowledge, Asked
  <2>5. CASE AbortCalls \/ Drained
    BY <2>5 DEF AbortCalls, Drained
  <2>6. QED
    BY <1>5, <2>1, <2>2, <2>3, <2>4, <2>5 DEF Reader
<1>6. ASSUME Client PROVE FALSE
  <2>1. ASSUME NEW j \in DOMAIN asks, Answer(j) \/ Approve(j) \/ Dismiss(j) PROVE FALSE
    <3>1. CASE Answer(j)
      BY <1>1, <3>1 DEF Answer, Asked
    <3>2. CASE Approve(j)
      BY <1>1, <3>2 DEF Approve, Asked
    <3>3. CASE Dismiss(j)
      BY <1>1, <3>3 DEF Dismiss, Asked
    <3>4. QED
      BY <2>1, <3>1, <3>2, <3>3
  <2>2. CASE Abort \/ Eof
    BY <2>2 DEF Abort, Eof
  <2>3. ASSUME NEW t \in Turns, NEW k, Command(t, k) PROVE FALSE
    BY <2>3 DEF Command
  <2>4. QED
    BY <1>6, <2>1, <2>2, <2>3 DEF Client
<1>7. CASE ExtStarted \/ Over
  BY <1>7 DEF ExtStarted, Over
<1>8. QED
  BY <1>2, <1>3, <1>4, <1>5, <1>6, <1>7 DEF Next

LEMMA CancelOnlyByThree ==
  ASSUME RpcInv, Next, cancelled' # cancelled
  PROVE  AbortCalls \/ \E i \in DOMAIN asks : CutFirst(i) \/ (GiveUp(i) /\ asks[i].state = "pending")
<1>1. ASSUME NEW t \in Turns, Turn(t) PROVE FALSE
  BY <1>1 DEF Turn, SetCancel, Started, awaitExtensions, ModelCall, Reply, Done, Unset, Leave
<1>2. ASSUME NEW i \in DOMAIN asks, Wait(i)
      PROVE  GiveUp(i) /\ asks[i].state = "pending"
  <2>1. ASSUME Park(i) \/ Hear(i) \/ Deny(i) PROVE FALSE
    BY <2>1 DEF Park, Hear, Deny, Return
  <2>2. GiveUp(i)
    BY <1>2, <2>1 DEF Wait
  <2>3. cancelled' = cancelled \cup (IF asks[i].state = "pending" THEN Cancels(i) ELSE {})
    BY <2>2, GiveUpReturns DEF Return
  <2>4. QED
    BY <2>2, <2>3
<1>3. ASSUME Reader PROVE AbortCalls \/ \E i \in DOMAIN asks : CutFirst(i)
  <2>1. ASSUME CutSecond PROVE FALSE
    BY <2>1 DEF CutSecond, Cut, cancelOwnedQuestion
  <2>2. QED
    BY <1>3, <2>1 DEF Reader, Acknowledge, Sweep, Drained
<1>4. ASSUME Client PROVE FALSE
  BY <1>4 DEF Client, Command, Abort, Eof, Answer, Approve, Dismiss
<1>5. QED
  BY <1>1, <1>2, <1>3, <1>4 DEF Next, Ask, ExtStarted, Over

(***************************************************************************)
(* The theorems.                                                           *)
(***************************************************************************)
LEMMA RpcInvAlways == Spec => []RpcInv
<1>1. RpcAssumption
  BY RpcAssumption
<1>2. Init => RpcInv
  BY <1>1, RpcInvInit
<1>3. RpcInv /\ [Next]_vars => RpcInv'
  BY <1>1, RpcInvNext
<1>4. QED
  BY <1>2, <1>3, PTL DEF Spec

(* Turns are in flight one at a time and in the order of their commands,   *)
(* and the line is busy exactly while one is: rpcTurnQueue, for any number *)
(* of commands.                                                            *)
THEOREM TurnsInOrder == Spec => []InOrder
<1>1. RpcInv => InOrder
  <2> SUFFICES ASSUME RpcInv PROVE InOrder
    OBVIOUS
  <2>1. RpcAssumption
    BY RpcAssumption
  <2>2. Turns \subseteq Nat /\ Turns \subseteq Callers /\ at \in [Callers -> Places] /\ LineInv
    BY <2>1 DEF Turns, Callers, RpcAssumption, RpcInv, TypeOK, Places, UpPlaces
  <2>3. Underway = {t \in Turns : at[t] \in UpPlaces}
    BY <2>2 DEF Underway, Places, UpPlaces
  <2>4. \A t \in Underway : line.busy /\ t = Front
    BY <2>1, <2>3, OneUp
  <2>5. ASSUME NEW t \in Underway, NEW u \in 1..(t - 1) PROVE at[u] = "gone"
    <3>1. u \in Turns /\ u < t
      BY <2>1, <2>2, <2>3 DEF Turns, RpcAssumption
    <3>2. QED
      BY <2>2, <2>4, <3>1 DEF LineInv
  <2>6. line.busy => Front \in Underway
    BY <2>2, <2>3 DEF LineInv
  <2>7. QED
    BY <2>4, <2>5, <2>6 DEF InOrder
<1>2. QED
  BY <1>1, RpcInvAlways, PTL

(* Whenever the client has seen a turn start and not end, an abort finds   *)
(* the turn's cancel function or comes after one that did: set and cleared *)
(* inside the frames, taken under the lock (activeCancel, takeCancel).     *)
THEOREM AbortReaches == Spec => []InReach
<1>1. RpcInv => InReach
  BY DEF RpcInv, ReachInv, InReach, Running, RunPlaces, Reached
<1>2. QED
  BY <1>1, RpcInvAlways, PTL

(* The tool and the client agree on whether an answer was taken, whatever  *)
(* number of questions, aborts and ends of input race for it.              *)
THEOREM AnswersAgreed == Spec => []AnswersAgree
<1>1. RpcInv => AnswersAgree
  BY DEF RpcInv, OwnerInv, AnswersAgree
<1>2. QED
  BY <1>1, RpcInvAlways, PTL

(* While the connection lasts, the tool whose question was cancelled comes *)
(* back into a turn that is cancelled too.                                 *)
THEOREM CancelStopsTurn == Spec => NotIntoLiveTurn
<1> DEFINE Stops(i) == asks[i].by \in Turns /\ asks[i].kind = "question"
                         /\ asks'[i].got = "cancelled" /\ asks[i].got = "nothing" /\ ~closed
                       => CtxDone(asks[i].by)'
<1>1. ASSUME RpcInv, [Next]_vars, NEW i \in DOMAIN asks,
             asks[i].by \in Turns, asks[i].kind = "question",
             asks'[i].got = "cancelled", asks[i].got = "nothing", ~closed
      PROVE  CtxDone(asks[i].by)'
  <2>1. Next
    BY <1>1 DEF vars
  <2>2. Hear(i) \/ GiveUp(i) \/ Deny(i)
    BY <1>1, <2>1, GotOnlyByWait
  <2>3. /\ asks \in Seq(Asked) /\ Len(asks) \in Nat /\ DOMAIN asks = 1..Len(asks)
        /\ asks[i] \in Asked
    BY <1>1, AskFacts
  <2>4. GiveUp(i)
    BY <1>1, <2>2, <2>3 DEF Hear, Deny, Return, Asked
  <2>5. /\ asks[i].turn = asks[i].by \/ Reached(asks[i].by)
        /\ asks[i].cut => asks[i].by \in cancelled
    BY <1>1 DEF RpcInv, OwnerInv
  <2>6. /\ asks'[i].by = asks[i].by /\ over' = over /\ cancelled \subseteq cancelled'
    <3>1. PICK got, state : Return(i, got, state, IF asks[i].state = "pending" THEN Cancels(i) ELSE {})
      BY <1>1, <2>4, GiveUpReturns
    <3>2. asks' = [asks EXCEPT ![i].got = got, ![i].state = state]
      BY <3>1 DEF Return
    <3>3. asks'[i].by = asks[i].by
      BY <2>3, <3>2 DEF Asked
    <3>4. QED
      BY <3>1, <3>3 DEF Return
  <2>7. asks[i].by \in cancelled \/ over
    BY <1>1, <2>4, <2>5 DEF GiveUp, Interrupted, CtxDone
  <2>8. QED
    BY <1>1, <2>6, <2>7 DEF CtxDone
<1>2. RpcInv /\ [Next]_vars => [\A i \in DOMAIN asks : Stops(i)]_vars
  BY <1>1
<1>3. QED
  BY <1>2, RpcInvAlways, PTL DEF Spec, NotIntoLiveTurn

(* A running turn is cancelled by an abort that took its function, or with *)
(* a cancelled question that was asked while it was the active turn, by a  *)
(* tool of its own or by an extension's call (turnCancel).                 *)
THEOREM CancelsOwnTurn == Spec => OwnTurnOnly
<1> DEFINE OwnOnly == \A t \in (cancelled' \ cancelled) \cap Running :
             \/ reader.at = "aborting" /\ reader.turn = t
             \/ \E i \in DOMAIN asks : /\ asks[i].by \in {t} \cup Doors /\ asks[i].kind = "question"
                                       /\ asks[i].turn = t /\ asks'[i].state = "cancelled"
<1>1. ASSUME RpcInv, [Next]_vars, NEW t \in (cancelled' \ cancelled) \cap Running
      PROVE  \/ reader.at = "aborting" /\ reader.turn = t
             \/ \E i \in DOMAIN asks : /\ asks[i].by \in {t} \cup Doors /\ asks[i].kind = "question"
                                       /\ asks[i].turn = t /\ asks'[i].state = "cancelled"
  <2>1. Next /\ cancelled' # cancelled
    BY <1>1 DEF vars
  <2>2. CASE AbortCalls
    BY <1>1, <2>2 DEF AbortCalls
  <2>3. ASSUME NEW i \in DOMAIN asks, asks[i].kind = "question", t \in Cancels(i),
               asks'[i].state = "cancelled"
        PROVE  asks[i].by \in {t} \cup Doors /\ asks[i].turn = t
    <3>1. asks[i].by \in Callers /\ asks[i].turn = t /\ t # None
      BY <1>1, <2>3, AskFacts DEF Asked, Cancels
    <3>2. asks[i].by \in Turns => asks[i].turn \in {asks[i].by, None}
      BY <1>1, <2>3 DEF RpcInv, OwnerInv
    <3>3. QED
      BY <3>1, <3>2 DEF Callers
  <2>4. ASSUME NEW i \in DOMAIN asks, CutFirst(i)
        PROVE  asks[i].kind = "question" /\ t \in Cancels(i) /\ asks'[i].state = "cancelled"
    BY <1>1, <2>4 DEF CutFirst, Cut, cancelOwnedQuestion, CutTurns, RpcInv, ReaderInv
  <2>5. ASSUME NEW i \in DOMAIN asks, GiveUp(i), asks[i].state = "pending" PROVE t \in Cancels(i)
    BY <1>1, <2>5, GiveUpReturns DEF Return
  <2>6. ASSUME NEW i \in DOMAIN asks, GiveUp(i), asks[i].state = "pending"
        PROVE  asks[i].kind = "question" /\ asks'[i].state = "cancelled"
    <3>1. /\ asks[i].kind = "question"
          /\ asks' = [asks EXCEPT ![i].got = "cancelled", ![i].state = "cancelled"]
      BY <2>6 DEF GiveUp, Return
    <3>2. asks[i] \in Asked
      BY <1>1, AskFacts
    <3>3. [[asks[i] EXCEPT !.got = "cancelled"] EXCEPT !.state = "cancelled"].state = "cancelled"
      BY <3>2 DEF Asked
    <3>4. QED
      BY <3>1, <3>3
  <2>7. QED
    BY <1>1, <2>1, <2>2, <2>3, <2>4, <2>5, <2>6, CancelOnlyByThree
<1>2. RpcInv /\ [Next]_vars => [OwnOnly]_vars
  BY <1>1
<1>3. QED
  BY <1>2, RpcInvAlways, PTL DEF Spec, OwnTurnOnly
=============================================================================
