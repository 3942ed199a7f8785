---------------------------- MODULE MCRevisions ----------------------------
(* Constants for TLC: what may be done to a session in each configuration.    *)
(* The verbs that are left out of a mix are named, with the reason, in the    *)
(* README: each pair that is never together has a finding that shows why.     *)
EXTENDS Revisions

Chat == {"prompt", "retry", "advance", "continue", "edit", "swipe", "prune", "noreply"}

Checkpoints == Chat \cup {"delete", "compact", "clear", "reload", "write"}
Cards       == Chat \cup {"delete", "reload", "card"}
Directed    == Chat \cup {"delete", "post", "compact", "clear", "write"}
Long        == Chat \cup {"delete", "reload", "long", "write"}
Condensing  == (Chat \ {"edit", "prune"}) \cup {"delete", "reload", "condense"}
Lines       == {"prompt", "advance", "continue", "post", "delete", "reload", "unline",
                "write", "noreply"}
AgreeMixes  == {Checkpoints, Cards, Directed, Long, Condensing, Lines}

HeadMixes      == { {"prompt", "compact", "reload", "long"} }
MarkMixes      == { {"prompt", "retry", "edit", "delete", "unline", "swipe"} }
CondensedMixes == { {"prompt", "condense", "edit", "swipe"} }
LineMixes      == { {"prompt", "retry", "post", "reload", "swipe"} }
RebaseMixes    == { {"prompt", "clear", "reload", "long", "edit"} }
ClearedMixes   == { {"prompt", "advance", "swipe", "edit", "card", "reload", "clear"} }
=============================================================================
