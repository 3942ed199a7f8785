------------------------------- MODULE Lists -------------------------------
(***************************************************************************)
(* The queues that a session and a talkoot router keep as slices: what is  *)
(* in one, and the loop that leaves some of it in place.  The loop is a    *)
(* recursive function, so that a proof can say what it keeps.              *)
(***************************************************************************)
EXTENDS Naturals, Sequences

Elems(s) == {s[i] : i \in 1..Len(s)}

(* The loop of talkootReads.split: what is in S stays, in its order. *)
Filter(s, S) ==
  LET kept[n \in 0..Len(s)] == IF n = 0 THEN <<>>
                               ELSE IF s[n] \in S THEN Append(kept[n - 1], s[n])
                               ELSE kept[n - 1]
  IN  kept[Len(s)]
=============================================================================
