------------------------------ MODULE Revisions ------------------------------
(* A Stage session keeps its transcript twice: live in the agent, and as rows   *)
(* of a file that only grows.  A person regenerates, edits, deletes and swipes; *)
(* each verb changes the live transcript by what it computes, and appends rows  *)
(* that a later load replays.  Both halves also remember alternatives: takes of *)
(* the response that ends the transcript (the tail), and takes of single        *)
(* messages (the marks).  The file is kept here as what walkSession folds it to *)
(* (`disk`).  A verb excludes every other verb, every turn and every compaction *)
(* (revisionGuard, beginTurn), and carries the current epoch, so a verb with    *)
(* its turn is one step; a failing write or a kill cuts it after any row.       *)
(*                                                                              *)
(* Positions count from 1 (index 0 of the code), take numbers too.              *)
EXTENDS Integers, SequencesExt

CONSTANTS Openings,  \* greetings of the session's card
          Window,    \* messages a reload keeps in memory (100 in the code)
          KeepTail,  \* messages a compaction keeps after its summary
          Mixes,     \* what may be done to a session: sets of verbs, and of
                     \* "card": it opens with greetings; "long": it outgrows the
                     \* window; "condense": a prompt compacts first; "noreply": a
                     \* turn ends without a reply; "write": a write fails, or the
                     \* process dies between rows; "unline": a message the author
                     \* wrote may be deleted, or a line edited into a reply
          MaxBorn,   \* messages ever made
          MaxMsgs,   \* length of the live transcript
          MaxTakes   \* takes of one position

ASSUME RevisionAssumption ==
  /\ {Openings, KeepTail, MaxBorn, MaxMsgs, MaxTakes} \subseteq Nat
  /\ Window \in Nat \ {0}

VARIABLES
  live,     \* the agent's transcript
  tail,     \* wsSession.tail: start (0 for none), takes, active
  marks,    \* wsSession.msgVars: position -> takes (empty until loaded), count, active
  base,     \* wsSession.reviseBase
  head,     \* wsSession.reviseHead
  pending,  \* Session.pendingGreeting: its active opening, 0 when none is held back
  disk,     \* the fold of the file: msgs, start, takes, active, vars
  latched,  \* a write failed, or the process died
  born,     \* number of the latest message
  verbs     \* what may be done to this session
memory == <<live, tail, marks, base, head>>
vars == <<live, tail, marks, base, head, pending, disk, latched, born, verbs>>

----------------------------------------------------------------------------
(* Messages.  A line is what the author directed into the scene; an edit      *)
(* rebuilds a message from its role and text, so a line becomes an ordinary   *)
(* reply and a summary an ordinary user message.                              *)

Greetings == IF "card" \in verbs THEN Openings ELSE 0
Message(n, who) == [id |-> n, who |-> who]
Greeting(i) == Message(i, "model")
isAuthoredLine(m) == m.who # "model"
reviseMessageText(m, n) ==
  Message(n, IF m.who \in {"user", "summary"} THEN "user" ELSE "model")

Before(ms, p) == SubSeq(ms, 1, p - 1)
From(ms, p) == SubSeq(ms, p, Len(ms))

(* Mutant: anchored on the last user message alone, as it once was.          *)
lastResponseStartPrompt(ms) == 1 + Max({0} \cup {i \in DOMAIN ms : ms[i].who = "user"})
lastResponseStart(ms) == 1 + Max({0} \cup {i \in DOMAIN ms : isAuthoredLine(ms[i])})

(* Functions from positions, as the two halves keep them.                     *)
With(f, p, v) == [i \in DOMAIN f \cup {p} |-> IF i = p THEN v ELSE f[i]]
Without(f, p) == [i \in DOMAIN f \ {p} |-> f[i]]
DropVariantKeysFrom(f, p) == [i \in {j \in DOMAIN f : j < p} |-> f[i]]
ShiftVariantKeysOnDelete(f, p) ==
  [i \in {j \in DOMAIN f : j < p} \cup {j - 1 : j \in {k \in DOMAIN f : k > p}}
     |-> IF i < p THEN f[i] ELSE f[i + 1]]
ActiveAfterDrop(active, v, left) ==
  IF v < active THEN active - 1 ELSE IF active > left THEN left ELSE active

----------------------------------------------------------------------------
(* walkSession: one operator for each kind of row, on the fold w so far.  A   *)
(* row whose position is out of range changes nothing.                        *)

NoTail(w) == [w EXCEPT !.start = 0, !.takes = <<>>, !.active = 0]
beginTail(w, p) ==
  IF w.start = p THEN w
  ELSE [w EXCEPT !.start = p, !.takes = << From(w.msgs, p) >>, !.active = 1]
sealActiveTake(w) ==
  IF w.start \in 1..(Len(w.msgs) + 1) /\ w.active \in DOMAIN w.takes
  THEN [w EXCEPT !.takes[w.active] = From(w.msgs, w.start)] ELSE w

MessageRow(w, m) ==
  LET n == [w EXCEPT !.msgs = Append(@, m)] IN IF m.who = "user" THEN NoTail(n) ELSE n
(* The rows of several messages: any user message among them ends the tail.   *)
MessageRows(w, ms) ==
  LET n == [w EXCEPT !.msgs = @ \o ms]
  IN IF \E i \in DOMAIN ms : ms[i].who = "user" THEN NoTail(n) ELSE n

CompactionRow(w, ms) == [w EXCEPT !.msgs = ms, !.vars = <<>>]

ReplaceRow(w, p, m) == IF p \in DOMAIN w.msgs THEN [w EXCEPT !.msgs[p] = m] ELSE w

(* Mutant: a first edit keeps only the new text.                              *)
ReplaceVariantRowNewOnly(w, p, m) ==
  IF p \notin DOMAIN w.msgs THEN w
  ELSE LET old == IF p \in DOMAIN w.vars THEN w.vars[p].takes ELSE <<>>
       IN [w EXCEPT !.msgs[p] = m,
                    !.vars = With(@, p, [takes |-> Append(old, m), active |-> Len(old) + 1])]

ReplaceVariantRow(w, p, m) ==
  IF p \notin DOMAIN w.msgs THEN w
  ELSE LET old == IF p \in DOMAIN w.vars THEN w.vars[p].takes ELSE << w.msgs[p] >>
       IN [w EXCEPT !.msgs[p] = m,
                    !.vars = With(@, p, [takes |-> Append(old, m), active |-> Len(old) + 1])]

HasTake(w, p, v) ==
  p \in DOMAIN w.vars /\ p \in DOMAIN w.msgs /\ v \in DOMAIN w.vars[p].takes

MsgSelectRow(w, p, v) ==
  IF HasTake(w, p, v)
  THEN [w EXCEPT !.msgs[p] = w.vars[p].takes[v], !.vars[p].active = v] ELSE w

SealRow(w, p, v) ==
  IF HasTake(w, p, v)
  THEN [w EXCEPT !.msgs[p] = w.vars[p].takes[v], !.vars = Without(@, p)] ELSE w

DropTakeRow(w, p, v) ==
  IF ~HasTake(w, p, v) \/ Len(w.vars[p].takes) < 2 THEN w
  ELSE LET takes == RemoveAt(w.vars[p].takes, v)
           active == ActiveAfterDrop(w.vars[p].active, v, Len(takes))
       IN [w EXCEPT !.msgs[p] = takes[active],
                    !.vars = IF Len(takes) = 1 THEN Without(@, p)
                             ELSE With(@, p, [takes |-> takes, active |-> active])]

(* Mutant: the fold leaves the marks behind a deleted message where they were. *)
DeleteRowUnshifted(w, p) ==
  IF p \notin DOMAIN w.msgs THEN w
  ELSE LET n == [w EXCEPT !.msgs = RemoveAt(@, p), !.vars = Without(@, p)]
       IN IF w.start = 0 THEN n
          ELSE IF p >= w.start THEN NoTail(n) ELSE [n EXCEPT !.start = @ - 1]

DeleteRow(w, p) ==
  IF p \notin DOMAIN w.msgs THEN w
  ELSE LET n == [w EXCEPT !.msgs = RemoveAt(@, p),
                          !.vars = ShiftVariantKeysOnDelete(@, p)]
       IN IF w.start = 0 THEN n
          ELSE IF p >= w.start THEN NoTail(n) ELSE [n EXCEPT !.start = @ - 1]

(* Mutant: a regenerate truncates the file where it should keep the take.     *)
RetractRowTruncates(w, p) ==
  IF p \notin 1..(Len(w.msgs) + 1) THEN w ELSE [NoTail(w) EXCEPT !.msgs = Before(@, p)]

RetractRow(w, p) ==
  IF p \notin 1..(Len(w.msgs) + 1) THEN w
  ELSE LET s == sealActiveTake(beginTail(w, p))
       IN [s EXCEPT !.takes = Append(@, <<>>), !.active = Len(s.takes) + 1,
                    !.msgs = Before(@, p)]

SelectRow(w, p, v) ==
  IF p \notin 1..(Len(w.msgs) + 1) THEN w
  ELSE LET s == sealActiveTake(beginTail(w, p))
       IN IF v \in DOMAIN s.takes
          THEN [s EXCEPT !.active = v, !.msgs = Before(@, p) \o s.takes[v]] ELSE s

----------------------------------------------------------------------------
(* Writing.  A pending greeting goes to the file ahead of the first row.      *)

SeedGreetingVariants(w, active) ==  \* the file after each row of the openings
  LET after[k \in 1..(2 * Greetings - 1)] ==
        IF k = 1 THEN MessageRow(w, Greeting(1))
        ELSE IF k % 2 = 0 THEN RetractRow(after[k - 1], 1)
        ELSE MessageRow(after[k - 1], Greeting((k + 1) \div 2))
      seeded == [k \in 1..(2 * Greetings - 1) |-> after[k]]
  IN IF active = Greetings THEN seeded
     ELSE Append(seeded, SelectRow(Last(seeded), 1, active))

flushPendingGreeting == IF pending = 0 THEN <<>> ELSE SeedGreetingVariants(disk, pending)
Flushed == IF pending = 0 THEN disk ELSE Last(flushPendingGreeting)

(* The file after each row of a verb: all of them land, or a failed write     *)
(* latches the session with a part of them.                                   *)
Write(states) ==
  LET all == flushPendingGreeting \o states
  IN /\ pending' = 0
     /\ \/ disk' = Last(all) /\ UNCHANGED latched
        \/ /\ "write" \in verbs
           /\ disk' \in {disk} \cup {all[k] : k \in 1..(Len(all) - 1)}
           /\ latched' = TRUE

(* A revision changes the live session once its rows are in.  A turn does not *)
(* wait: what it makes is in memory, and shown, before its row is written.    *)
Then(change) == IF latched' THEN UNCHANGED memory ELSE change

----------------------------------------------------------------------------
(* The live session's alternatives, and its view of the file.                 *)

NoSwipe == [start |-> 0, takes |-> <<>>, active |-> 0]
mapped(p) == ~(head /\ p = 1)          \* diskIndex: is there a position on file
diskIndexInMemory(p) == p              \* mutant: the window's start is forgotten
diskIndex(p) == p + base

seedTail(old, w, ms, b) ==
  LET s == sealActiveTake(w)
      p == s.start - b
  IN IF /\ s.start > 0 /\ Len(s.takes) >= 2 /\ s.active \in DOMAIN s.takes
        /\ p >= 1 /\ p <= Len(ms) + 1
        /\ Len(s.takes[s.active]) = Len(ms) - p + 1
     THEN [start |-> p, takes |-> s.takes, active |-> s.active]
     ELSE old

seedMsgVars(w, b) ==
  [p \in {q - b : q \in {r \in DOMAIN w.vars : r > b /\ Len(w.vars[r].takes) >= 2}} |->
     [takes |-> <<>>, count |-> Len(w.vars[p + b].takes), active |-> w.vars[p + b].active]]

TrimMessagesForResume(ms) ==
  IF "long" \notin verbs \/ Len(ms) <= Window THEN [ms |-> ms, base |-> 0, head |-> FALSE]
  ELSE LET start == Len(ms) - Window
           top == ms[1].who = "summary" /\ start > 1
       IN [ms |-> (IF top THEN << ms[1] >> ELSE <<>>) \o From(ms, start + 1),
           base |-> start, head |-> top]

seedDeferredGreeting ==
  IF Greetings < 2 THEN NoSwipe
  ELSE [start |-> 1, takes |-> [i \in 1..Greetings |-> << Greeting(i) >>], active |-> 1]

(* buildSession of a session whose file folds to w.                           *)
Open(w) ==
  LET win == TrimMessagesForResume(w.msgs)
      fresh == w.msgs = <<>> /\ Greetings > 0
      ms == IF fresh THEN << Greeting(1) >> ELSE win.ms
  IN /\ live' = ms
     /\ pending' = IF fresh THEN 1 ELSE 0
     /\ base' = win.base /\ head' = win.head
     /\ tail' = seedTail(IF fresh THEN seedDeferredGreeting ELSE NoSwipe, w, ms, win.base)
     /\ marks' = seedMsgVars(w, win.base)

EmptyFile == [msgs |-> <<>>, start |-> 0, takes |-> <<>>, active |-> 0, vars |-> <<>>]

Init ==
  /\ verbs \in Mixes
  /\ disk = EmptyFile
  /\ live = IF Greetings > 0 THEN << Greeting(1) >> ELSE <<>>
  /\ pending = IF Greetings > 0 THEN 1 ELSE 0
  /\ tail = seedDeferredGreeting
  /\ marks = <<>> /\ base = 0 /\ head = FALSE
  /\ latched = FALSE /\ born = Greetings

----------------------------------------------------------------------------
(* Turns.                                                                     *)

May(verb, made) ==  \* revisionGuard: an idle session with a working file
  /\ verb \in verbs /\ ~latched /\ born + made <= MaxBorn
  /\ born' = born + made /\ UNCHANGED verbs

Condensed(ms, n) == << Message(n, "summary") >> \o From(ms, Len(ms) - KeepTail + 1)
CanCompact(ms) == Len(ms) > KeepTail

(* promptBlocks: the turn's own compaction, the text, the reply or none, the  *)
(* withdrawal of a text that was cancelled before it was answered.            *)
Prompt(condense, fate) ==
  LET old == IF condense THEN Condensed(live, born + 3) ELSE live
      file == IF condense THEN CompactionRow(Flushed, old) ELSE Flushed
      u == Message(born + 1, "user")
      a == Message(born + 2, "model")
      asked == MessageRow(file, u)
      p == Len(old) + 1
      rows == CASE fate = "answered"  -> << asked, MessageRow(asked, a) >>
                [] fate = "failed"    -> << asked >>
                [] fate = "withdrawn" -> << asked, DeleteRow(asked, diskIndex(p)) >>
      now == CASE fate = "answered"  -> old \o << u, a >>
               [] fate = "failed"    -> Append(old, u)
               [] fate = "withdrawn" -> old
      halted == latched' /\ condense /\ disk' \notin {file, asked}
  IN /\ May("prompt", IF condense THEN 3 ELSE 2)
     /\ fate # "answered" => "noreply" \in verbs
     /\ condense => "condense" \in verbs /\ CanCompact(live)
     /\ Len(now) <= MaxMsgs
     /\ Write((IF condense THEN << file >> ELSE <<>>) \o rows)
     /\ live' = IF halted THEN old
                ELSE IF latched' /\ disk' # asked /\ fate # "withdrawn" THEN Append(old, u) ELSE now
     /\ tail' = NoSwipe
     /\ marks' = IF fate = "withdrawn" /\ ~halted
                 THEN ShiftVariantKeysOnDelete(marks, p) ELSE marks
     /\ UNCHANGED <<base, head>>

(* retry: the response becomes a take, and a new one is asked for.  The cut is *)
(* on file before it is made in memory, the reply after it is there.          *)
retry(answered) ==
  LET idx == lastResponseStart(live)
      a == Message(born + 1, "model")
      cut == RetractRow(Flushed, diskIndex(idx))
      now == Before(live, idx) \o (IF answered THEN << a >> ELSE <<>>)
  IN /\ May("retry", 1)
     /\ ~answered => "noreply" \in verbs
     /\ 1 < idx /\ idx <= Len(live)
     /\ Len(Flushed.takes) < MaxTakes
     /\ Write(<< cut >> \o (IF answered THEN << MessageRow(cut, a) >> ELSE <<>>))
     /\ IF latched' /\ disk' # cut THEN UNCHANGED memory
        ELSE /\ live' = now
             /\ tail' = seedTail(NoSwipe, disk', now, base)
             /\ marks' = DropVariantKeysFrom(marks, idx)
             /\ UNCHANGED <<base, head>>

(* advance, and a resume that is owed a reply: the model writes on.           *)
advance ==
  LET a == Message(born + 1, "model")
  IN /\ May("advance", 1)
     /\ live # <<>> /\ Len(live) < MaxMsgs
     /\ Write(<< MessageRow(Flushed, a) >>)
     /\ live' = Append(live, a) /\ tail' = NoSwipe
     /\ UNCHANGED <<marks, base, head>>

(* continueTurn and persistContinue: the last reply grows in place.           *)
continueTurn ==
  LET n == Len(live)
      merged == Message(born + 1, live[n].who)
  IN /\ May("continue", 1)
     /\ n > 0 /\ live[n].who \in {"model", "line"}
     /\ Write(<< ReplaceRow(Flushed, diskIndex(n), merged) >>)
     /\ live' = [live EXCEPT ![n] = merged] /\ tail' = NoSwipe
     /\ UNCHANGED <<marks, base, head>>

(* postDirectedHeld: a line the author approved; no turn runs.                *)
postDirected ==
  LET m == Message(born + 1, "line")
  IN /\ May("post", 1)
     /\ Len(live) < MaxMsgs
     /\ Write(<< MessageRow(Flushed, m) >>)
     /\ Then(/\ live' = Append(live, m) /\ tail' = NoSwipe
             /\ UNCHANGED <<marks, base, head>>)

----------------------------------------------------------------------------
(* Revisions.                                                                 *)

editTailAsVariant(start, p) ==
  LET m == reviseMessageText(live[p], born + 1)
      span == From([live EXCEPT ![p] = m], start)
      cut == RetractRow(Flushed, diskIndex(start))
      now == Before(live, start) \o span
  IN /\ Len(Flushed.takes) < MaxTakes
     /\ Write(<< cut >> \o [k \in 1..Len(span) |-> MessageRows(cut, SubSeq(span, 1, k))])
     /\ Then(/\ live' = now /\ tail' = seedTail(tail, disk', now, base)
             /\ UNCHANGED <<marks, base, head>>)

editMessageAsVariant(p) ==
  LET m == reviseMessageText(live[p], born + 1)
      mark == IF p \notin DOMAIN marks
              THEN [takes |-> << live[p], m >>, count |-> 2, active |-> 2]
              ELSE [takes |-> IF marks[p].takes = <<>> THEN <<>> ELSE Append(marks[p].takes, m),
                    count |-> marks[p].count + 1, active |-> marks[p].count + 1]
  IN /\ mark.count <= MaxTakes
     /\ Write(<< ReplaceVariantRow(Flushed, diskIndex(p), m) >>)
     /\ Then(/\ live' = [live EXCEPT ![p] = m] /\ marks' = With(marks, p, mark)
             /\ UNCHANGED <<tail, base, head>>)

editMessage(p) ==
  /\ May("edit", 1)
  /\ mapped(p)
  /\ live[p].who = "line" => "unline" \in verbs
  /\ LET start == lastResponseStart(live)
     IN IF p >= start THEN editTailAsVariant(start, p) ELSE editMessageAsVariant(p)

deleteMessage(p) ==
  /\ May("delete", 0)
  /\ mapped(p)
  /\ isAuthoredLine(live[p]) => "unline" \in verbs
  /\ Write(<< DeleteRow(Flushed, diskIndex(p)) >>)
  /\ Then(/\ live' = RemoveAt(live, p) /\ tail' = NoSwipe
          /\ marks' = ShiftVariantKeysOnDelete(marks, p)
          /\ UNCHANGED <<base, head>>)

(* swipe: while the greeting is pending, a choice is kept in memory.          *)
swipe(v) ==
  LET select == SelectRow(disk, diskIndex(tail.start), v)
  IN /\ May("swipe", 0)
     /\ Len(tail.takes) >= 2 /\ v # tail.active /\ tail.start <= Len(live) + 1
     /\ Len(live) - Len(From(live, tail.start)) + Len(tail.takes[v]) <= MaxMsgs
     /\ IF pending # 0 THEN pending' = v /\ UNCHANGED <<disk, latched>>
        ELSE IF mapped(tail.start) THEN Write(<< select >>)
        ELSE UNCHANGED <<pending, disk, latched>>
     /\ Then(/\ live' = Before(live, tail.start) \o tail.takes[v]
             /\ tail' = [tail EXCEPT !.active = v]
             /\ UNCHANGED <<marks, base, head>>)

(* The takes of a mark: its own, or SessionMsgVariant's from the file.        *)
OnFile(p) == p \in DOMAIN disk.vars
takesOf(p) == IF marks[p].takes # <<>> THEN marks[p].takes ELSE disk.vars[diskIndex(p)].takes
hydrated(p) ==
  \/ marks[p].takes # <<>>
  \/ OnFile(diskIndex(p)) /\ Len(disk.vars[diskIndex(p)].takes) = marks[p].count

swipeMessage(p, v) ==
  /\ May("swipe", 0)
  /\ v # marks[p].active /\ mapped(p) /\ hydrated(p)
  /\ Write(<< MsgSelectRow(Flushed, diskIndex(p), v) >>)
  /\ Then(IF p \in DOMAIN live
          THEN /\ live' = [live EXCEPT ![p] = takesOf(p)[v]]
               /\ marks' = [marks EXCEPT ![p].takes = takesOf(p), ![p].active = v]
               /\ UNCHANGED <<tail, base, head>>
          ELSE UNCHANGED memory)

pruneVariants(p) ==
  /\ May("prune", 0)
  /\ mapped(p)
  /\ Write(<< SealRow(Flushed, diskIndex(p), marks[p].active) >>)
  /\ Then(marks' = Without(marks, p) /\ UNCHANGED <<live, tail, base, head>>)

dropVariant(p, v) ==
  LET left == RemoveAt(takesOf(p), v)
      active == ActiveAfterDrop(marks[p].active, v, Len(left))
  IN /\ May("prune", 0)
     /\ mapped(p) /\ hydrated(p)
     /\ Write(<< DropTakeRow(Flushed, diskIndex(p), v) >>)
     /\ Then(/\ live' = IF p \in DOMAIN live THEN [live EXCEPT ![p] = left[active]] ELSE live
             /\ marks' = IF Len(left) = 1 THEN Without(marks, p)
                         ELSE With(marks, p, [takes |-> left, count |-> Len(left), active |-> active])
             /\ UNCHANGED <<tail, base, head>>)

compact ==
  LET now == Condensed(live, born + 1)
  IN /\ May("compact", 1)
     /\ CanCompact(live)
     /\ Write(<< CompactionRow(Flushed, now) >>)
     /\ live' = now /\ tail' = NoSwipe /\ marks' = <<>> /\ UNCHANGED <<base, head>>

clear ==
  /\ May("clear", 0)
  /\ Write(<< CompactionRow(Flushed, <<>>) >>)
  /\ Then(live' = <<>> /\ tail' = NoSwipe /\ marks' = <<>> /\ UNCHANGED <<base, head>>)

(* The session is opened again: after a failed write, a restart, an eviction. *)
Reload ==
  /\ "reload" \in verbs
  /\ Open(disk)
  /\ latched' = FALSE /\ UNCHANGED <<disk, born, verbs>>

Next ==
  \/ \E condense \in BOOLEAN, fate \in {"answered", "failed", "withdrawn"} : Prompt(condense, fate)
  \/ \E answered \in BOOLEAN : retry(answered)
  \/ advance
  \/ continueTurn
  \/ postDirected
  \/ \E p \in DOMAIN live : editMessage(p) \/ deleteMessage(p)
  \/ \E v \in DOMAIN tail.takes : swipe(v)
  \/ \E p \in DOMAIN marks : \/ pruneVariants(p)
                             \/ \E v \in 1..marks[p].count : swipeMessage(p, v) \/ dropVariant(p, v)
  \/ compact
  \/ clear
  \/ Reload

Spec == Init /\ [][Next]_vars
----------------------------------------------------------------------------
(* Properties.                                                                *)

Msg == [id : 1..MaxBorn, who : {"user", "model", "line", "summary"}]
Swipe(positions) == [start : positions, takes : Seq(Seq(Msg)), active : 0..MaxTakes]
TypeOK ==
  /\ live \in Seq(Msg) /\ disk.msgs \in Seq(Msg)
  /\ base \in 0..MaxBorn /\ head \in BOOLEAN /\ latched \in BOOLEAN
  /\ pending \in 0..Greetings /\ born \in 0..MaxBorn /\ verbs \in Mixes
  /\ \A t \in {tail, [start |-> disk.start, takes |-> disk.takes, active |-> disk.active]} :
       /\ t.start \in 0..(MaxBorn + 1) /\ t.takes \in Seq(Seq(Msg))
       /\ t.active \in 0..Len(t.takes) /\ (t.start = 0 <=> t.takes = <<>>)
  /\ \A p \in DOMAIN marks : marks[p].takes \in Seq(Msg) /\ marks[p].active \in 1..marks[p].count
  /\ \A p \in DOMAIN disk.vars :
       disk.vars[p].takes \in Seq(Msg) /\ disk.vars[p].active \in DOMAIN disk.vars[p].takes

(* What a client sees is what a load of the file would show it: the replay,   *)
(* or in a resumed long session the summary and the replay's end, at the      *)
(* position the session's base gives.                                         *)
LiveIsReplayed ==
  ~latched =>
    live = (IF head THEN << Flushed.msgs[1] >> ELSE <<>>) \o From(Flushed.msgs, base + 1)

(* In a session resumed behind a summary, an amend to a message names that    *)
(* message on file.                                                           *)
WindowMapped ==
  head => \A p \in {q \in DOMAIN live : mapped(q)} :
            diskIndex(p) \in DOMAIN Flushed.msgs /\ Flushed.msgs[diskIndex(p)] = live[p]

(* A mark the session draws is on file at the same message, with the same     *)
(* takes and the same choice, and that choice is the message on screen.       *)
MarksAgree ==
  ~latched =>
    \A p \in DOMAIN marks :
      /\ p \in DOMAIN live /\ OnFile(diskIndex(p))
      /\ LET f == disk.vars[diskIndex(p)]
         IN /\ marks[p].count = Len(f.takes) /\ marks[p].active = f.active
            /\ marks[p].takes \in {<<>>, f.takes}
            /\ f.takes[f.active] = live[p]

(* The takes a swipe chooses from are the file's, at the same place, and the  *)
(* chosen one is what ends the transcript.                                    *)
TailAgrees ==
  ~latched /\ tail.start # 0 =>
    LET s == sealActiveTake(Flushed)
    IN /\ s.start = diskIndex(tail.start) /\ s.takes = tail.takes
       /\ (pending = 0 => s.active = tail.active)
       /\ From(live, tail.start) = tail.takes[tail.active]

SwipesAgree == MarksAgree /\ TailAgrees

(* A swipe or a regenerate throws away model output only: a step that loses   *)
(* what the author put into the scene is neither.                             *)
AuthoredKept ==
  [][ (\E i \in DOMAIN live : isAuthoredLine(live[i]) /\ live[i] \notin ToSet(live')) =>
        /\ \A v \in DOMAIN tail.takes : ~swipe(v)
        /\ \A answered \in BOOLEAN : ~retry(answered) ]_vars

(* An edit leaves the version it replaced one swipe away.                     *)
EditKeepsOriginal ==
  [][ \A p \in DOMAIN live :
        editMessage(p) /\ ~latched' =>
          LET start == lastResponseStart(live)
          IN IF p >= start
             THEN tail'.start = start /\ From(live, start) \in ToSet(tail'.takes)
             ELSE /\ p \in DOMAIN marks' /\ diskIndex(p) \in DOMAIN disk'.vars
                  /\ live[p] \in ToSet(disk'.vars[diskIndex(p)].takes) ]_vars

(* A failed write, or a kill between two rows, costs at most what the verb it *)
(* stops had just made: each message that was shown when the verb began is    *)
(* replayed, or is in a take.  A greeting is the card's, and seeded anew.     *)
OnRecord(w) ==
  ToSet(w.msgs) \cup UNION {ToSet(t) : t \in ToSet(w.takes)}
    \cup UNION {ToSet(w.vars[p].takes) : p \in DOMAIN w.vars}
ShownIsOnFile ==
  [][ ~latched /\ latched' => {m \in ToSet(live) : m.id > Greetings} \subseteq OnRecord(disk') ]_vars

(* What stays on screen after a failed write is on file, as agent.go appends  *)
(* a prompt and a reply to the transcript before it has their rows written.   *)
NewIsOnFile ==
  latched => {m \in ToSet(live) : m.id > Greetings} \subseteq OnRecord(disk)

(* A checkpoint ends the variant history of the file: nothing from before it  *)
(* can be chosen any more.                                                    *)
CheckpointCollapses ==
  [][ compact \/ clear => disk'.start = 0 /\ disk'.vars = <<>> ]_vars
=============================================================================
