----------------------------- MODULE PromptFate -----------------------------
(***************************************************************************)
(* What a session promises about the words a person sends it, whatever     *)
(* happens inside: a text that was taken is recorded in the transcript     *)
(* once, or handed back, or dropped on purpose.  It never disappears and   *)
(* it never comes back.  SessionTurns is shown to implement this module.   *)
(***************************************************************************)
EXTENDS Naturals, Sequences

CONSTANTS
  Texts,       (* everything anybody may send, each text sent at most once *)
  Deliveries,  (* the texts a talkoot router delivers to a member session  *)
  Ends         (* the ways a text may end other than in the transcript     *)

VARIABLES
  unsent,   (* texts nobody has sent yet                                   *)
  pending,  (* texts the session has taken and not yet settled             *)
  log,      (* the user messages of the transcript, in order               *)
  gone      (* how each text left other than by being recorded             *)

vars == <<unsent, pending, log, gone>>

Init == /\ unsent = Texts
        /\ pending = {}
        /\ log = <<>>
        /\ gone = [x \in Texts |-> "no"]

Send(x) == /\ x \in unsent
           /\ unsent' = unsent \ {x}
           /\ pending' = pending \cup {x}
           /\ UNCHANGED <<log, gone>>

Record(x) == /\ x \in pending
             /\ pending' = pending \ {x}
             /\ log' = Append(log, x)
             /\ UNCHANGED <<unsent, gone>>

(* A delivery is never dropped with the stale follow-ups of a failed turn. *)
Settle(S) ==
  /\ S # {} /\ S \subseteq pending
  /\ pending' = pending \ S
  /\ \E e \in Ends :
       /\ e = "dropped" => S \cap Deliveries = {}
       /\ gone' = [x \in Texts |-> IF x \in S THEN e ELSE gone[x]]
  /\ UNCHANGED <<unsent, log>>

(* Only the newest message of the transcript may be taken back. *)
Withdraw ==
  /\ log # <<>>
  /\ gone' = [gone EXCEPT ![log[Len(log)]] = "withdrawn"]
  /\ log' = SubSeq(log, 1, Len(log) - 1)
  /\ UNCHANGED <<unsent, pending>>

Next == \/ \E x \in Texts : Send(x) \/ Record(x)
        \/ \E S \in SUBSET Texts : Settle(S)
        \/ Withdraw

Spec == Init /\ [][Next]_vars
=============================================================================
