--------------------------- MODULE TalkootRouter ---------------------------
(***************************************************************************)
(* The router of a talkoot: the envelopes people and members send, the     *)
(* guards that pause a member, a chain or the whole team, the deliveries   *)
(* it holds, and the goroutines that hand one delivery after another to a  *)
(* member's session with the router unlocked.  Every state change is a     *)
(* line in the room; a restart, or an update of the roster, rebuilds the   *)
(* router from those lines.  Both are kept as books of one shape: live is  *)
(* what the router holds, room what a replay of its lines would rebuild.   *)
(***************************************************************************)
EXTENDS Lists, FiniteSetsExt

CONSTANTS
  Members,
  MaxEnv,      (* envelopes                                                *)
  HopLimit,    (* member envelopes in a chain before it pauses             *)
  TurnCap,     (* turns a member may take in a day                         *)
  MaxWorking,  (* members at work at once                                  *)
  Loops,       (* dispatch calls at a time                                 *)
  MaxFails,    (* lines the room cannot record                             *)
  MaxRestarts, (* times a router is rebuilt: the daemon dies or is         *)
               (* stopped, or the roster is updated                        *)
  MaxPaused,   (* pauses by a person at a time                             *)
  MaxTyped,    (* turns a person starts in a member's own session          *)
  Inputs       (* which of "note", "fault" (drivers that refuse, turns     *)
               (* that fail), "busy" (turns that never ran), "cap",        *)
               (* "update", "day", "stop" the instance has                 *)

ASSUME RouterAssumption ==
  /\ MaxEnv \in Nat /\ HopLimit \in Nat /\ TurnCap \in Nat \ {0}
  /\ MaxWorking \in Nat \ {0} /\ MaxFails \in Nat /\ MaxRestarts \in Nat
  /\ MaxPaused \in Nat /\ MaxTyped \in Nat /\ IsFiniteSet(Members) /\ IsFiniteSet(Loops)

VARIABLES
  env,     (* the envelopes, in the order the room has them                *)
  live,    (* the router's book                                            *)
  room,    (* the book a replay would rebuild                              *)
  caps,    (* pauses it would rebuild from today's turn lines alone        *)
  turning, (* a delivered envelope started or joined the member's turn     *)
  loop,    (* the dispatch calls                                           *)
  queue,   (* texts in each member's session that no turn has read         *)
  opening, (* the text its next or running turn starts with                *)
  slot,    (* its session's turn slot: "idle", "claimed", "running"        *)
  open,    (* its turns the driver counts                                  *)
  ending,  (* how a turn that gave its slot back ended, until it reports   *)
  again,   (* the queued text that turn shifted, to start another with     *)
  stopped, (* Stop was called                                              *)
  due,     (* a Release is on its way                                      *)
  told,    (* history: the envelopes a turn has read                       *)
  unsaid,  (* history: deliveries whose outcome the room does not know     *)
  unlined, (* history: pauses whose line the room could not record         *)
  late,    (* history: dispatch held a delivery and nothing was released   *)
  leaked,  (* history: whose last turn to end never ran                   *)
  fails, restarts, typed

router  == <<env, live, room, caps, turning, loop, stopped, due>>
session == <<queue, opening, slot, open, ending, again>>
history == <<told, unsaid, unlined, late, leaked>>
vars    == <<router, session, history, fails, restarts, typed>>

Ids    == 1..MaxEnv
Team   == <<"team", 0>>
Of(m)  == <<"member", m>>
On(c)  == <<"chain", c>>
Scopes == {Team} \cup {Of(m) : m \in Members} \cup {On(c) : c \in Ids}
None   == "none"

Blank == [held   |-> <<>>,
          active |-> [m \in Members |-> 0],
          notes  |-> [m \in Members |-> <<>>],
          pauses |-> {},
          hops   |-> [c \in Ids |-> 0],
          allow  |-> [c \in Ids |-> HopLimit],
          used   |-> [m \in Members |-> 0]]
Free  == [todo |-> <<>>, at |-> "claim", notes |-> <<>>, ended |-> FALSE]

Idle == /\ queue = [m \in Members |-> <<>>] /\ opening = [m \in Members |-> <<>>]
        /\ slot = [m \in Members |-> "idle"] /\ open = [m \in Members |-> 0]
        /\ ending = [m \in Members |-> None] /\ again = [m \in Members |-> <<>>]
Init ==
  /\ env = <<>> /\ live = Blank /\ room = Blank /\ caps = {}
  /\ turning = [m \in Members |-> FALSE] /\ loop = [l \in Loops |-> Free]
  /\ Idle /\ stopped = FALSE /\ due = FALSE
  /\ told = {} /\ unsaid = {} /\ unlined = {} /\ late = FALSE /\ leaked = {}
  /\ fails = 0 /\ restarts = 0 /\ typed = 0

(***************************************************************************)
(* What a line does to a book, and what the router reads of one.           *)
(***************************************************************************)
Without(s, e) == Filter(s, Elems(s) \ {e})
To(e)    == env[e].to
Root(e)  == env[e].root

Settled(b, e, n) ==   (* a delivery line, or with n = 0 a refused delivery's *)
  [b EXCEPT !.held = Without(@, e),
            !.notes[To(e)] = SubSeq(@, (IF n > Len(@) THEN Len(@) ELSE n) + 1, Len(@))]
Resumed(b, s, personOnly) ==
  LET kept == {p \in b.pauses : p[1] # s \/ (personOnly /\ p[2] # "person")}
  IN  [b EXCEPT !.pauses = kept,
                !.allow = [c \in Ids |-> IF s = On(c) /\ ~personOnly
                                         THEN b.hops[c] + HopLimit ELSE @[c]]]
Spent(b, m) == [b EXCEPT !.used[m] = IF @ < TurnCap THEN @ + 1 ELSE @]
Pausing(b, P) == [b EXCEPT !.pauses = @ \cup P]
Capped(b, m) == IF "cap" \in Inputs /\ b.used[m] >= TurnCap
                THEN {<<Of(m), "turns">>} ELSE {}

Holds(P, e) == stopped \/ \E p \in P : p[1] \in {Team, Of(To(e)), On(Root(e))}
Blocked(e)  == Holds(live.pauses, e)

Sent(l)   == Elems(loop[l].todo)
Flying(m) == \E l \in Loops : \E e \in Sent(l) : To(e) = m
Busy(m)   == turning[m] \/ Flying(m) \/ open[m] > 0
Working   == {m \in Members : Busy(m)}

(* routeLocked over every held delivery, given the pauses and who is at     *)
(* work: what it still holds, and what it sends out.                       *)
Stays(P, atWork, e) ==
  Holds(P, e) \/ (To(e) \notin atWork /\ Cardinality(atWork) >= MaxWorking)
Route(held, P, atWork) ==
  LET routed[n \in 0..Len(held)] ==
        IF n = 0 THEN [held |-> <<>>, out |-> <<>>, atWork |-> atWork]
        ELSE LET r == routed[n - 1] IN
             IF Stays(P, r.atWork, held[n])
             THEN [r EXCEPT !.held = Append(@, held[n])]
             ELSE [r EXCEPT !.out = Append(@, held[n]), !.atWork = @ \cup {To(held[n])}]
  IN  routed[Len(held)]

Dispatch(out) ==
  IF out = <<>> THEN UNCHANGED loop
  ELSE \E l \in Loops : /\ loop[l] = Free
                        /\ loop' = [loop EXCEPT ![l].todo = out]

(* A line is recorded or not. *)
Tries == IF fails < MaxFails THEN {TRUE, FALSE} ELSE {TRUE}
Count(ok) == fails' = IF ok THEN fails ELSE fails + 1
(* record: a line the room could not take pauses the team, in memory only. *)
Broken == {<<Team, "room">>}
Unrecorded(ok) == IF ok THEN {} ELSE Broken

(***************************************************************************)
(* Post, Send.                                                             *)
(***************************************************************************)
(* routeLocked for a new envelope, in the books that have its line.  A     *)
(* note is buffered; a waking envelope is held, or a dispatch carries it.  *)
Enter(e, b) ==
  /\ env' = Append(env, e)
  /\ LET id == Len(env) + 1
         m  == e.to
         waits == /\ ~Busy(m) /\ Cardinality(Working) >= MaxWorking
         held  == stopped \/ \E p \in live.pauses : p[1] \in {Team, Of(m), On(e.root)}
     IN  IF ~e.wakes
         THEN /\ live' = [b EXCEPT !.notes[m] = Append(@, id)]
              /\ room' = [room EXCEPT !.notes[m] = Append(@, id), !.hops = b.hops]
              /\ UNCHANGED <<loop, unlined, fails>>
         ELSE /\ room' = [room EXCEPT !.held = Append(@, id), !.hops = b.hops]
              /\ IF held \/ waits
                 THEN \E ok \in (IF held THEN {TRUE} ELSE Tries) :
                        /\ live' = Pausing([b EXCEPT !.held = Append(@, id)], Unrecorded(ok))
                        /\ unlined' = unlined \cup Unrecorded(ok) /\ Count(ok)
                        /\ UNCHANGED loop
                 ELSE /\ live' = b /\ Dispatch(<<id>>) /\ UNCHANGED <<unlined, fails>>
  /\ UNCHANGED <<caps, turning, stopped, due, session, told, unsaid, late, leaked, restarts, typed>>

Post(m) ==
  /\ Len(env) < MaxEnv
  /\ Enter([to |-> m, root |-> Len(env) + 1, hops |-> 0, wakes |-> TRUE], live)

(* A member sends in the chain it last read; one past the chain's allowance *)
(* pauses the chain.  The hop is counted before the line is written.       *)
MaySend(m) == /\ live.active[m] # 0
              /\ \A p \in live.pauses : p[1] \notin {Team, Of(m), On(live.active[m])}
OneHop(c)  == [live EXCEPT !.hops[c] = @ + 1]
Send(m, to, wakes) ==
  /\ MaySend(m) /\ Len(env) < MaxEnv /\ (wakes \/ "note" \in Inputs)
  /\ LET c == live.active[m] IN
     /\ live.hops[c] < live.allow[c]
     /\ Enter([to |-> to, root |-> c, hops |-> live.hops[c] + 1, wakes |-> wakes], OneHop(c))
SendUnrecorded(m) ==
  /\ MaySend(m) /\ FALSE \in Tries /\ Count(FALSE)
  /\ live.hops[live.active[m]] < live.allow[live.active[m]]
  /\ live' = OneHop(live.active[m])
  /\ UNCHANGED <<env, room, caps, turning, loop, stopped, due, session, history, restarts, typed>>
SendTooFar(m) ==
  /\ MaySend(m) /\ live.hops[live.active[m]] >= live.allow[live.active[m]]
  /\ LET p == {<<On(live.active[m]), "guard">>} IN
     \E ok \in Tries : /\ live' = Pausing(live, p)
                       /\ room' = IF ok THEN Pausing(room, p) ELSE room
                       /\ unlined' = IF ok THEN unlined \ p ELSE unlined \cup p
                       /\ Count(ok)
  /\ UNCHANGED <<env, caps, turning, loop, stopped, due, session, told, unsaid, late, leaked, restarts, typed>>

(***************************************************************************)
(* dispatch: look at the pauses once more, call the driver unlocked, and   *)
(* settle what came of it.                                                 *)
(***************************************************************************)
Current(l) == Head(loop[l].todo)
(* Mutant: the claim moves the member into the delivery's chain. *)
ClaimChain(l) ==
  /\ loop[l].at = "claim" /\ loop[l].todo # <<>> /\ ~Blocked(Current(l))
  /\ loop' = [loop EXCEPT ![l].at = "drive", ![l].ended = FALSE,
                          ![l].notes = live.notes[To(Current(l))]]
  /\ live' = [live EXCEPT !.notes[To(Current(l))] = <<>>,
                          !.active[To(Current(l))] = Root(Current(l))]
  /\ UNCHANGED <<env, room, caps, turning, stopped, due, session, history, fails, restarts, typed>>
Claim(l) ==
  /\ loop[l].at = "claim" /\ loop[l].todo # <<>> /\ ~Blocked(Current(l))
  /\ loop' = [loop EXCEPT ![l].at = "drive", ![l].ended = FALSE,
                          ![l].notes = live.notes[To(Current(l))]]
  /\ live' = [live EXCEPT !.notes[To(Current(l))] = <<>>]
  /\ UNCHANGED <<env, room, caps, turning, stopped, due, session, history, fails, restarts, typed>>
(* Mutant: a delivery a pause stopped late is dropped. *)
HoldLost(l) ==
  /\ loop[l].at = "claim" /\ loop[l].todo # <<>> /\ Blocked(Current(l))
  /\ loop' = [loop EXCEPT ![l].todo = Tail(@)] /\ late' = TRUE
  /\ UNCHANGED <<env, live, room, caps, turning, stopped, due, session, told, unsaid, unlined,
                 fails, leaked, restarts, typed>>
HoldLate(l) ==
  /\ loop[l].at = "claim" /\ loop[l].todo # <<>> /\ Blocked(Current(l))
  /\ loop' = [loop EXCEPT ![l].todo = Tail(@)]
  /\ live' = [live EXCEPT !.held = Append(@, Current(l))]
  /\ late' = TRUE
  /\ UNCHANGED <<env, room, caps, turning, stopped, due, session, told, unsaid, unlined,
                 fails, leaked, restarts, typed>>

(* The driver queues the text into the member's session: an idle one       *)
(* claims its turn slot with it.                                           *)
Text(l) == [env |-> Current(l), notes |-> loop[l].notes]
DriverTakes(l) ==
  /\ loop[l].at = "drive" /\ loop' = [loop EXCEPT ![l].at = "took"]
  /\ LET m == To(Current(l)) IN
     IF slot[m] = "idle"
     THEN /\ slot' = [slot EXCEPT ![m] = "claimed"]
          /\ opening' = [opening EXCEPT ![m] = <<Text(l)>>] /\ UNCHANGED queue
     ELSE /\ queue' = [queue EXCEPT ![m] = Append(@, Text(l))] /\ UNCHANGED <<slot, opening>>
  /\ UNCHANGED <<env, live, room, caps, turning, stopped, due, open, ending, again, history,
                 fails, restarts, typed>>
DriverFails(l) ==
  /\ "fault" \in Inputs /\ loop[l].at = "drive"
  /\ loop' = [loop EXCEPT ![l].at = "failed"]
  /\ UNCHANGED <<env, live, room, caps, turning, stopped, due, session, history, fails, restarts, typed>>

(* Who is at work once loop l has let go of its delivery. *)
AtWorkBut(l) == {m \in Members : \/ turning[m] \/ open[m] > 0
                                 \/ \E e \in Sent(l) \ {Current(l)} : To(e) = m
                                 \/ \E k \in Loops \ {l} : \E e \in Sent(k) : To(e) = m}
GoOn(l, out) == loop' = [loop EXCEPT ![l] = [Free EXCEPT !.todo = Tail(loop[l].todo) \o out]]

(* A turn that ended while the driver ran was the turn this one started or  *)
(* joined: then the slot is free, and what waited is released.             *)
(* Mutant: the slot is marked taken whatever ended meanwhile. *)
ReturnTurning(l) ==
  /\ loop[l].at = "took"
  /\ \E ok \in Tries :
       /\ room' = IF ok THEN Settled(room, Current(l), Len(loop[l].notes)) ELSE room
       /\ unsaid' = IF ok THEN unsaid ELSE unsaid \cup {Current(l)}
       /\ Count(ok)
  /\ turning' = [turning EXCEPT ![To(Current(l))] = TRUE] /\ GoOn(l, <<>>)
  /\ UNCHANGED <<env, live, caps, stopped, due, session, told, unlined, late, leaked, restarts, typed>>
Return(l) ==
  /\ loop[l].at = "took"
  /\ \E ok \in Tries :
       /\ room' = IF ok THEN Settled(room, Current(l), Len(loop[l].notes)) ELSE room
       /\ unsaid' = IF ok THEN unsaid ELSE unsaid \cup {Current(l)}
       /\ Count(ok)
  /\ IF loop[l].ended
     THEN LET r == Route(live.held, live.pauses, AtWorkBut(l)) IN
          /\ live' = [live EXCEPT !.held = r.held] /\ GoOn(l, r.out)
          /\ late' = FALSE /\ UNCHANGED turning
     ELSE /\ turning' = [turning EXCEPT ![To(Current(l))] = TRUE]
          /\ GoOn(l, <<>>) /\ UNCHANGED <<live, late>>
  /\ UNCHANGED <<env, caps, stopped, due, session, told, unlined, leaked, restarts, typed>>

(* A refused delivery gives its notes back and is not tried again. *)
(* Mutant: the notes stay with the refused delivery. *)
NotesDropped(l) == live
NotesBack(l) == [live EXCEPT !.notes[To(Current(l))] = loop[l].notes \o @]
ReturnFailed(l) ==
  /\ loop[l].at = "failed"
  /\ \E ok \in Tries :
       LET b == Pausing(NotesBack(l), Unrecorded(ok))
           r == Route(b.held, b.pauses, AtWorkBut(l)) IN
       /\ room' = IF ok THEN Settled(room, Current(l), 0) ELSE room
       /\ unsaid' = IF ok THEN unsaid ELSE unsaid \cup {Current(l)}
       /\ unlined' = unlined \cup Unrecorded(ok) /\ Count(ok)
       /\ live' = [b EXCEPT !.held = r.held] /\ GoOn(l, r.out)
  /\ late' = FALSE
  /\ UNCHANGED <<env, caps, turning, stopped, due, session, told, leaked, restarts, typed>>

(***************************************************************************)
(* The member's session.                                                   *)
(***************************************************************************)
Routing == <<env, turning, stopped, due>>
PersonTurn(m) ==
  /\ typed < MaxTyped /\ typed' = typed + 1
  /\ slot[m] = "idle" /\ slot' = [slot EXCEPT ![m] = "claimed"]
  /\ UNCHANGED <<router, queue, opening, open, ending, again, history, fails, restarts>>
Launch(m) ==
  /\ slot[m] = "claimed" /\ slot' = [slot EXCEPT ![m] = "running"]
  /\ open' = [open EXCEPT ![m] = @ + 1]
  /\ UNCHANGED <<router, queue, opening, ending, again, history, fails, restarts, typed>>

(* A text enters the turn, at its start or at a safe boundary: the member  *)
(* moves into that delivery's chain, live and, by the read line, replayed. *)
Read(m) ==
  /\ slot[m] = "running" /\ opening[m] \o queue[m] # <<>>
  /\ LET t == Head(opening[m] \o queue[m]) IN
     \E ok \in Tries :
       /\ live' = Pausing([live EXCEPT !.active[m] = Root(t.env)], Unrecorded(ok))
       /\ room' = IF ok THEN [room EXCEPT !.active[m] = Root(t.env)] ELSE room
       /\ unlined' = unlined \cup Unrecorded(ok) /\ Count(ok)
       /\ told' = told \cup {t.env} \cup Elems(t.notes)
  /\ IF opening[m] # <<>>
       THEN opening' = [opening EXCEPT ![m] = <<>>] /\ UNCHANGED queue
       ELSE queue' = [queue EXCEPT ![m] = Tail(@)] /\ UNCHANGED opening
  /\ UNCHANGED <<Routing, caps, loop, slot, open, ending, again, unsaid, late, leaked, restarts, typed>>

(* endTurn gives the session's slot back.  A clean turn shifts the oldest   *)
(* queued text to start another with; a failed or interrupted one leaves   *)
(* its deliveries queued.  A turn whose report is overtaken by a whole     *)
(* further turn of the same session is left out.                           *)
Shift(m) == IF queue[m] = <<>> THEN UNCHANGED <<queue, again>>
            ELSE /\ again' = [again EXCEPT ![m] = <<Head(queue[m])>>]
                 /\ queue' = [queue EXCEPT ![m] = Tail(@)]
EndTurn(m) ==
  /\ slot[m] = "running" /\ opening[m] = <<>> /\ ending[m] = None /\ again[m] = <<>>
  /\ slot' = [slot EXCEPT ![m] = "idle"]
  /\ \/ ending' = [ending EXCEPT ![m] = "ended"] /\ Shift(m)
     \/ /\ "fault" \in Inputs /\ UNCHANGED <<queue, again>>
        /\ \E how \in {"failed", "interrupted"} : ending' = [ending EXCEPT ![m] = how]
  /\ UNCHANGED <<router, opening, open, history, fails, restarts, typed>>
(* Something else held the agent: the turn never ran, and what it was to    *)
(* start with is gone.                                                     *)
NotRun(m) ==
  /\ "busy" \in Inputs /\ slot[m] = "claimed" /\ ending[m] = None /\ again[m] = <<>>
  /\ slot' = [slot EXCEPT ![m] = "idle"] /\ open' = [open EXCEPT ![m] = @ + 1]
  /\ opening' = [opening EXCEPT ![m] = <<>>]
  /\ ending' = [ending EXCEPT ![m] = "notrun"] /\ Shift(m)
  /\ leaked' = leaked \cup {m}
  /\ UNCHANGED <<router, told, unsaid, unlined, late, fails, restarts, typed>>
(* The text it shifted starts another turn, or goes back to the front.     *)
Restart(m) ==
  /\ ending[m] = None /\ again[m] # <<>> /\ again' = [again EXCEPT ![m] = <<>>]
  /\ IF slot[m] = "idle"
       THEN /\ slot' = [slot EXCEPT ![m] = "claimed"]
            /\ opening' = [opening EXCEPT ![m] = again[m]] /\ UNCHANGED queue
       ELSE queue' = [queue EXCEPT ![m] = again[m] \o @] /\ UNCHANGED <<slot, opening>>
  /\ UNCHANGED <<router, open, ending, history, fails, restarts, typed>>

(***************************************************************************)
(* The end of a turn, as the router hears it.                              *)
(***************************************************************************)
(* releaseLocked, with the book and the members at work as they are then.  *)
Release(b, atWork) ==
  LET r == Route(b.held, b.pauses, atWork) IN
  /\ live' = [b EXCEPT !.held = r.held] /\ Dispatch(r.out) /\ late' = FALSE

(* A turn line: the chain it worked in, one turn of the day, a failure.    *)
Failure(m, how)   == IF how = "failed" THEN {<<Of(m), "failed">>} ELSE {}
TurnLine(b, m, how, chain) ==
  Pausing(Spent([b EXCEPT !.active[m] = IF chain = 0 THEN @ ELSE chain], m), Failure(m, how))
StillAtWork(m) == {k \in Members : \/ Flying(k)
                                   \/ k # m /\ (turning[k] \/ open[k] > 0)
                                   \/ k = m /\ open[m] > 1}
Ended(m) == [l \in Loops |->
  IF loop[l].todo # <<>> /\ loop[l].at # "claim" /\ To(Current(l)) = m
  THEN [loop[l] EXCEPT !.ended = TRUE] ELSE loop[l]]

(* As Dispatch, after the loops in flight have heard that m's turn ended.  *)
ReleaseEnded(b, m) ==
  LET r == Route(b.held, b.pauses, StillAtWork(m)) IN
  /\ live' = [b EXCEPT !.held = r.held] /\ late' = FALSE
  /\ IF r.out = <<>> THEN loop' = Ended(m)
     ELSE \E l \in Loops : /\ loop[l] = Free
                           /\ loop' = [Ended(m) EXCEPT ![l].todo = r.out]

(* turnEnded: the turn line first; without it the team pauses and nothing  *)
(* is released.  The caps follow from the turn lines, so their own line    *)
(* only explains them.                                                     *)
Closed(m) == /\ open' = [open EXCEPT ![m] = @ - 1]
             /\ ending' = [ending EXCEPT ![m] = None]
             /\ turning' = [turning EXCEPT ![m] = FALSE] /\ leaked' = leaked \ {m}
Report(m) ==
  /\ ending[m] \in {"ended", "failed", "interrupted"} /\ Closed(m)
  /\ LET line(b) == TurnLine(b, m, ending[m], live.active[m])
         new     == Capped(line(live), m) \ live.pauses
     IN  \/ \E ok \in IF new = {} THEN {TRUE} ELSE Tries :
              /\ room' = Pausing(line(room), IF ok THEN new ELSE {})
              /\ caps' = caps \cup Capped(line(room), m)
              /\ unlined' = IF ok THEN unlined \ new ELSE unlined \cup new
              /\ Count(ok) /\ ReleaseEnded(Pausing(line(live), new), m)
         \/ /\ FALSE \in Tries /\ Count(FALSE)
            /\ live' = Pausing(Spent(live, m), Broken) /\ unlined' = unlined \cup Broken
            /\ loop' = Ended(m) /\ UNCHANGED <<room, caps, late>>
  /\ UNCHANGED <<env, stopped, due, queue, opening, slot, again, told, unsaid, restarts, typed>>

(* No report releases what waited on the slot of a turn that never ran.    *)
ReportNotRun(m) ==
  /\ ending[m] = "notrun"
  /\ open' = [open EXCEPT ![m] = @ - 1] /\ ending' = [ending EXCEPT ![m] = None]
  /\ Release(live, {k \in Members : turning[k] \/ Flying(k) \/ open'[k] > 0})
  /\ UNCHANGED <<env, room, caps, turning, stopped, due, queue, opening, slot, again,
                 told, unsaid, unlined, fails, leaked, restarts, typed>>

(***************************************************************************)
(* Pause, Resume, and the end of a router.                                 *)
(***************************************************************************)
Known(s) == \/ s = Team \/ \E m \in Members : s = Of(m)
            \/ \E c \in DOMAIN env : env[c].hops = 0 /\ s = On(c)
Pause(s) ==
  /\ Known(s)
  /\ Cardinality({p \in live.pauses : p[2] = "person"}) < MaxPaused
  /\ live' = Pausing(live, {<<s, "person">>})
  /\ \E ok \in Tries :
       /\ room' = IF ok THEN Pausing(room, {<<s, "person">>}) ELSE room
       /\ unlined' = IF ok THEN unlined \ {<<s, "person">>} ELSE unlined \cup {<<s, "person">>}
       /\ Count(ok)
  /\ UNCHANGED <<env, caps, turning, loop, stopped, due, session, told, unsaid, late, leaked, restarts, typed>>

(* A person's pause is the top layer and is lifted alone; the line says so. *)
(* One that cannot be recorded lifts nothing.                              *)
PausesOn(P, s) == {p \in P : p[1] = s}
(* Mutant: replay lifts the whole stack whatever layer the line names. *)
LiftAll(b, s, personOnly) == Resumed(b, s, FALSE)
Lift(b, s, personOnly)    == Resumed(b, s, personOnly)
Resume(s) ==
  /\ PausesOn(live.pauses, s) # {}
  /\ LET personOnly == <<s, "person">> \in live.pauses IN
     /\ room' = Lift(room, s, personOnly)
     /\ caps' = IF personOnly THEN caps ELSE caps \ PausesOn(caps, s)
     /\ unlined' = unlined \ (IF personOnly THEN {<<s, "person">>} ELSE PausesOn(unlined, s))
     /\ Release(Resumed(live, s, personOnly), Working)
  /\ UNCHANGED <<env, turning, stopped, due, session, told, unsaid, fails, leaked, restarts, typed>>

ReleaseDue ==
  /\ due /\ due' = FALSE /\ Release(live, Working)
  /\ UNCHANGED <<env, room, caps, turning, stopped, session, told, unsaid, unlined, fails, leaked, restarts, typed>>

(* NewRouter replays the room.                                             *)
Replay(b, derived) ==
  /\ live' = Pausing(b, derived) /\ room' = b
  /\ turning' = [m \in Members |-> FALSE] /\ loop' = [l \in Loops |-> Free]
  /\ stopped' = FALSE /\ due' = TRUE
  /\ unsaid' = {} /\ unlined' = derived \ b.pauses
  /\ late' = FALSE /\ leaked' = {}
NewSessions ==
  /\ queue' = [m \in Members |-> <<>>] /\ opening' = [m \in Members |-> <<>>]
  /\ slot' = [m \in Members |-> "idle"] /\ open' = [m \in Members |-> 0]
  /\ ending' = [m \in Members |-> None] /\ again' = [m \in Members |-> <<>>]

Crash ==
  /\ restarts < MaxRestarts /\ restarts' = restarts + 1
  /\ Replay(room, caps) /\ NewSessions /\ UNCHANGED <<env, caps, told, fails, typed>>

(* stopTalkoots, then closeTalkoots once no call is in the router: a turn   *)
(* still open is recorded as one whose cost nobody knows.                  *)
Stop ==
  /\ "stop" \in Inputs /\ restarts < MaxRestarts /\ ~stopped /\ stopped' = TRUE
  /\ UNCHANGED <<env, live, room, caps, turning, loop, due, session, history, fails, restarts, typed>>
Close ==
  /\ stopped /\ restarts < MaxRestarts /\ restarts' = restarts + 1
  /\ \A l \in Loops : loop[l] = Free
  /\ LET lost == {m \in Members : open[m] > 0}
         b    == [room EXCEPT !.pauses = @ \cup {<<Of(m), "cost">> : m \in lost},
                   !.active = [m \in Members |-> IF m \in lost /\ live.active[m] # 0
                                                 THEN live.active[m] ELSE @[m]],
                   !.used = [m \in Members |-> IF m \in lost /\ @[m] < TurnCap
                                               THEN @[m] + 1 ELSE @[m]]]
         c    == caps \cup UNION {Capped(b, m) : m \in lost}
     IN Replay(b, c) /\ caps' = c
  /\ NewSessions /\ UNCHANGED <<env, told, fails, typed>>

(* An update of the roster swaps in a new router over the same room and    *)
(* leaves the sessions as they are.                                        *)
Update ==
  /\ "update" \in Inputs /\ ~stopped /\ \A l \in Loops : loop[l] = Free
  /\ restarts < MaxRestarts /\ restarts' = restarts + 1
  /\ Replay(room, caps)
  /\ UNCHANGED <<env, caps, session, told, fails, typed>>

NewDay ==
  /\ "day" \in Inputs /\ \E m \in Members : live.used[m] > 0
  /\ live' = [live EXCEPT !.used = [m \in Members |-> 0]]
  /\ room' = [room EXCEPT !.used = [m \in Members |-> 0]] /\ caps' = {}
  /\ UNCHANGED <<env, turning, loop, stopped, due, session, history, fails, restarts, typed>>

Sends(m)    == \/ Post(m) \/ SendUnrecorded(m) \/ SendTooFar(m)
               \/ \E to \in Members \ {m}, wakes \in BOOLEAN : Send(m, to, wakes)
Dispatching(l) == \/ Claim(l) \/ HoldLate(l) \/ DriverTakes(l) \/ DriverFails(l)
                  \/ Return(l) \/ ReturnFailed(l)
Session(m)  == \/ PersonTurn(m) \/ Launch(m) \/ Read(m) \/ EndTurn(m) \/ NotRun(m)
               \/ Restart(m) \/ Report(m) \/ ReportNotRun(m)
Next == \/ \E m \in Members : Sends(m) \/ Session(m)
        \/ \E l \in Loops : Dispatching(l)
        \/ \E s \in Scopes : Pause(s) \/ Resume(s)
        \/ ReleaseDue \/ Crash \/ Stop \/ Close \/ Update \/ NewDay

Spec == Init /\ [][Next]_vars

(***************************************************************************)
(* Properties.                                                             *)
(***************************************************************************)
Kinds == {"person", "room", "guard", "failed", "turns", "cost"}

(* The shape of the state. *)
BookOK(b) ==
  /\ DOMAIN b = DOMAIN Blank
  /\ Elems(b.held) \subseteq DOMAIN env /\ b.active \in [Members -> DOMAIN env \cup {0}]
  /\ \A m \in Members : Elems(b.notes[m]) \subseteq DOMAIN env
  /\ b.pauses \subseteq Scopes \X Kinds /\ b.used \in [Members -> 0..TurnCap]
TypeOK ==
  /\ BookOK(live) /\ BookOK(room) /\ caps \subseteq Scopes \X Kinds
  /\ turning \in [Members -> BOOLEAN] /\ stopped \in BOOLEAN /\ due \in BOOLEAN
  /\ slot \in [Members -> {"idle", "claimed", "running"}] /\ open \in [Members -> 0..2]
  /\ ending \in [Members -> {None, "ended", "failed", "interrupted", "notrun"}]
  /\ \A l \in Loops : /\ Sent(l) \subseteq DOMAIN env
                      /\ loop[l].at \in {"claim", "drive", "took", "failed"}
                      /\ (loop[l].todo = <<>> => loop[l] = Free)
  /\ \A m \in Members : (opening[m] # <<>> => slot[m] # "idle")

(* A waking envelope that no line of the room settles is either held or on  *)
(* its way, once, and one that is held or on its way the room still owes:   *)
(* a restart brings back exactly what this router had not handed over.     *)
Pending == Elems(live.held) \cup UNION {Sent(l) : l \in Loops}
OwedIsPending ==
  /\ Elems(room.held) = Pending \cup unsaid
  /\ Pending \cap unsaid = {}
  /\ \A l \in Loops : Sent(l) \cap Elems(live.held) = {}
  /\ \A k, l \in Loops : k # l => Sent(k) \cap Sent(l) = {}

(* As many notes as a member's router has not handed over, a replay has    *)
(* too, while no delivery's outcome is missing from the room.              *)
Carried(m) == {l \in Loops : loop[l].at # "claim" /\ To(Current(l)) = m}
NotesCounted == \A m \in Members : unsaid = {} =>
  Len(room.notes[m]) =
    Len(live.notes[m]) + FoldSet(LAMBDA l, n : n + Len(loop[l].notes), 0, Carried(m))

(* A pause holds after a restart, unless its own line was lost; and a       *)
(* restart brings back no pause a resume lifted.                           *)
PausesSurvive == /\ live.pauses \ unlined \subseteq room.pauses
                 /\ room.pauses \cup caps \subseteq live.pauses

(* A member works, and sends, only in the chain of an envelope that was    *)
(* addressed to it and that a turn of it has read.                         *)
ChainWasRead == \A m \in Members : \A b \in {live, room} :
  b.active[m] # 0 => \E e \in told : To(e) = m /\ Root(e) = b.active[m] /\ env[e].wakes

(* A slot the router counts as taken has a turn that will give it back,     *)
(* unless the member's last turn never ran; and nothing a person may send   *)
(* on its way waits for a working slot while one is free, unless a pause    *)
(* stopped a delivery on its way since the last release.                    *)
SlotHasTurn == \A m \in Members : turning[m] /\ m \notin leaked =>
  \/ slot[m] # "idle" \/ open[m] > 0 \/ again[m] # <<>>

Waits(e) == ~Blocked(e) /\ ~Busy(To(e)) /\ Cardinality(Working) < MaxWorking
Quiet    == ~due /\ \A l \in Loops : loop[l] = Free
SlotUsed   == Quiet /\ ~late => \A e \in Elems(live.held) : ~Waits(e)
SlotsAgree == SlotHasTurn /\ SlotUsed

(* router.go: held deliveries "wait for a resume or a working slot", so one *)
(* that nothing pauses waits only while every slot is taken.               *)
NoIdleHold == Quiet => \A e \in Elems(live.held) : ~Waits(e)

(* router.go: a lost delivery line is "a repeat, never a loss": a note is   *)
(* with a session, or a replay still has it.                               *)
InSession(m) == {n \in Ids : \E t \in Elems(opening[m] \o queue[m] \o again[m]) :
                               n \in Elems(t.notes)}
NoNoteLost == \A n \in DOMAIN env : ~env[n].wakes =>
  n \in Elems(room.notes[To(n)]) \cup told \cup InSession(To(n))

(* router.go: MaxWorking is "members working at once; further wakes wait".  *)
SlotsBounded == Cardinality(Working) <= MaxWorking

(* workspace_talkoot_run.go: "a delivery lost to shutdown stays owed".      *)
NothingLostAtStop == [][Close => \A e \in DOMAIN env :
  env[e].wakes /\ e \notin told => e \in Elems(room'.held)]_vars

(* router.go, capTrips: a cap pause "whose guard line never reached the     *)
(* room still comes back after a restart".                                 *)
CapsComeBack == [][Crash => \A m \in Members :
  <<Of(m), "turns">> \in live.pauses => <<Of(m), "turns">> \in live'.pauses]_vars
=============================================================================
