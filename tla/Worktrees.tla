----------------------------- MODULE Worktrees -----------------------------
(***************************************************************************)
(* The managed git worktrees of one repository: git's own list of them,    *)
(* their branches, and the registry that says which are claimed and what   *)
(* they were branched from.  Every operation holds the repository's lock,  *)
(* so it is one step; between two of them people and agents edit, commit,  *)
(* push and delete, and owners come and go.                                *)
(***************************************************************************)
EXTENDS Naturals, FiniteSets

CONSTANTS
  Names,
  Owners,     (* sessions, swarm agents and talkoot members                *)
  None,
  MaxCommits, (* commits a branch may gain                                 *)
  Faults      (* "save": the registry cannot be written; "crash": a create *)
              (* dies after git and before the registry; "refuse": git     *)
              (* will not remove a checkout, for it is locked, holds       *)
              (* submodules, or was written to since it was looked at;     *)
              (* "count": git fails to count a checkout's commits          *)

ASSUME TreesAssumption == MaxCommits \in Nat /\ None \notin Owners

VARIABLES
  tree,     (* git's list: "none", "there", or "gone" when only the        *)
            (* directory was deleted                                       *)
  dirty,    (* uncommitted changes in it                                   *)
  branch,   (* commits on its branch past the repository's, or NoBranch    *)
  head,     (* the commits at its HEAD, or OnBranch while HEAD is that     *)
  pushed,   (* how many of them the branch's upstream has; NoBranch: none  *)
            (* is tracked                                                  *)
  entry,    (* the registry knows it                                       *)
  base,     (* the commit the registry says it was branched from           *)
  claim,    (* who holds it                                                *)
  broken,   (* where git fails to count commits                            *)
  toSweep,  (* what a bulk removal listed and has still to remove          *)
  stranded  (* where a create died half way or git refused a removal       *)

git  == <<tree, dirty, branch, head, pushed, broken>>
reg  == <<entry, base, claim>>
vars == <<git, reg, toSweep, stranded>>

NoBranch == MaxCommits + 1
OnBranch == MaxCommits + 1
Free     == [by |-> None, live |-> FALSE]

Init ==
  /\ tree = [n \in Names |-> "none"] /\ dirty = [n \in Names |-> FALSE]
  /\ branch = [n \in Names |-> NoBranch] /\ pushed = [n \in Names |-> NoBranch]
  /\ head = [n \in Names |-> OnBranch] /\ broken = {}
  /\ entry = [n \in Names |-> FALSE] /\ base = [n \in Names |-> 0]
  /\ claim = [n \in Names |-> Free] /\ toSweep = {} /\ stranded = {}

(* What a claim means to owner s: its own claim is its own whether or not  *)
(* it lapsed, another's holds while its process lives and it is young.     *)
HeldByOther(s, n) == claim[n].by \notin {None, s} /\ claim[n].live
Available(s, n)   == claim[n].by # s /\ ~HeldByOther(s, n)
NewClaim(s)       == [by |-> s, live |-> TRUE]

(* reconcile: the registry forgets what git no longer lists. *)
Known       == {n \in Names : entry[n] /\ tree[n] # "none"}
Forgotten(E) == /\ entry' = [n \in Names |-> n \in E]
                /\ base' = [n \in Names |-> IF n \in E THEN base[n] ELSE 0]

(***************************************************************************)
(* Create, Claim, Release.                                                 *)
(***************************************************************************)
(* Who holds it already keeps the claim it has.                            *)
Take(s, n) == /\ Forgotten(Known)
              /\ claim' = [m \in Names |-> IF m = n THEN NewClaim(s)
                                           ELSE IF m \in Known THEN claim[m] ELSE Free]
(* Mutant: a checkout is handed out whoever holds it. *)
ReuseAny(s, n) ==
  /\ n \in Known /\ Take(s, n)
  /\ UNCHANGED <<git, toSweep, stranded>>
Reuse(s, n) ==
  /\ n \in Known /\ Available(s, n)
  /\ Take(s, n)
  /\ UNCHANGED <<git, toSweep, stranded>>

(* A leftover branch is resumed on its own tip, and the tip is its base;   *)
(* a fresh one starts at the repository's HEAD.                            *)
Tip(n)  == IF branch[n] = NoBranch THEN 0 ELSE branch[n]
Add(s, n) ==
  /\ n \notin Known /\ tree[n] = "none"
  /\ tree' = [tree EXCEPT ![n] = "there"] /\ branch' = [branch EXCEPT ![n] = Tip(n)]
  /\ entry' = [m \in Names |-> m \in Known \cup {n}]
  /\ base' = [m \in Names |-> IF m = n THEN Tip(n) ELSE IF m \in Known THEN base[m] ELSE 0]
  /\ claim' = [m \in Names |-> IF m = n THEN NewClaim(s)
                               ELSE IF m \in Known THEN claim[m] ELSE Free]
  /\ UNCHANGED <<dirty, head, pushed, broken, toSweep, stranded>>
AddGit(n, left) == /\ branch' = [branch EXCEPT ![n] = Tip(n)]
                   /\ tree' = [tree EXCEPT ![n] = IF left THEN "there" ELSE @]
                   /\ UNCHANGED <<dirty, head, pushed, broken, reg, toSweep>>
(* Mutant: the checkout is left behind. *)
AddUnsavedKept(s, n) ==
  /\ "save" \in Faults /\ n \notin Known /\ tree[n] = "none"
  /\ AddGit(n, TRUE) /\ UNCHANGED stranded
(* The registry cannot be written: the checkout is removed again, unless   *)
(* that fails too, and the branch stays.                                   *)
AddUnsaved(s, n) ==
  /\ "save" \in Faults /\ n \notin Known /\ tree[n] = "none"
  /\ \/ AddGit(n, FALSE) /\ UNCHANGED stranded
     \/ "refuse" \in Faults /\ AddGit(n, TRUE) /\ stranded' = stranded \cup {n}
(* A create that dies between the two leaves the checkout. *)
AddDies(s, n) ==
  /\ "crash" \in Faults /\ n \notin Known /\ tree[n] = "none"
  /\ AddGit(n, TRUE) /\ stranded' = stranded \cup {n}
Create(s, n) == Reuse(s, n) \/ Add(s, n) \/ AddUnsaved(s, n) \/ AddDies(s, n)

Claim(s, n) ==
  /\ n \in Known /\ Available(s, n) /\ Take(s, n)
  /\ UNCHANGED <<git, toSweep, stranded>>

(* With no claim to clear nothing is written. *)
Release(s, n) ==
  /\ n \in Known /\ ~HeldByOther(s, n) /\ claim[n].by # None
  /\ Forgotten(Known)
  /\ claim' = [m \in Names |-> IF m = n \/ m \notin Known THEN Free ELSE claim[m]]
  /\ UNCHANGED <<git, toSweep, stranded>>

(***************************************************************************)
(* Remove and Reclaim: neither asks who holds the claim.                   *)
(***************************************************************************)
HeadAt(n)   == IF head[n] = OnBranch THEN branch[n] ELSE head[n]
Upstream(n) == head[n] = OnBranch /\ pushed[n] # NoBranch
(* Mutant: a branch that tracks no upstream counts as merged. *)
UnmergedIfTracked(n) == n \notin broken /\ Upstream(n) /\ branch[n] > pushed[n]
(* hasUnmergedWork: what HEAD has and its upstream lacks, or without one   *)
(* anything past the base; what cannot be counted counts as merged.        *)
Unmerged(n) == /\ n \notin broken
               /\ IF Upstream(n) THEN branch[n] > pushed[n] ELSE HeadAt(n) > base[n]
(* Only a checkout that is on the disk is looked at. *)
Expendable(n) == tree[n] = "there" => ~dirty[n] /\ ~Unmerged(n)

Forget(n) == /\ entry' = [entry EXCEPT ![n] = FALSE] /\ base' = [base EXCEPT ![n] = 0]
             /\ claim' = [claim EXCEPT ![n] = Free]
DropBranch(n, delete) ==
  /\ branch' = [branch EXCEPT ![n] = IF delete THEN NoBranch ELSE @]
  /\ pushed' = [pushed EXCEPT ![n] = IF delete THEN NoBranch ELSE @]
GitRemove(n, delete) ==
  /\ tree' = [tree EXCEPT ![n] = "none"] /\ dirty' = [dirty EXCEPT ![n] = FALSE]
  /\ head' = [head EXCEPT ![n] = OnBranch] /\ DropBranch(n, delete)
(* When git refuses, a prune that clears nothing counts as the removal;    *)
(* the branch stays if it is checked out.                                  *)
RemoveEntry(n, delete) ==
  /\ \/ /\ GitRemove(n, delete)
        /\ Forget(n) \/ ("save" \in Faults /\ UNCHANGED reg)
        /\ UNCHANGED stranded
     \/ /\ "refuse" \in Faults /\ tree[n] = "there"
        /\ DropBranch(n, delete /\ head[n] # OnBranch) /\ UNCHANGED <<tree, dirty, head>>
        /\ Forget(n) /\ stranded' = stranded \cup {n}
  /\ UNCHANGED broken

Remove(n, force, delete) ==
  /\ entry[n] /\ (force \/ Expendable(n))
  /\ RemoveEntry(n, delete)
  /\ UNCHANGED toSweep

(* Reclaim deletes the branch when it counts nothing at HEAD past the base. *)
Reclaim(n) ==
  /\ entry[n] /\ Expendable(n)
  /\ RemoveEntry(n, tree[n] = "there" /\ (n \in broken \/ HeadAt(n) <= base[n]))
  /\ UNCHANGED toSweep

(* A bulk removal lists what is available and removes one at a time. *)
SweepList(s) ==
  /\ toSweep = {} /\ Forgotten(Known)
  /\ claim' = [n \in Names |-> IF n \in Known THEN claim[n] ELSE Free]
  /\ toSweep' = {n \in Known : Available(s, n)}
  /\ UNCHANGED <<git, stranded>>
SweepOne(n) ==
  /\ n \in toSweep /\ toSweep' = toSweep \ {n}
  /\ IF entry[n] /\ Expendable(n)
       THEN RemoveEntry(n, FALSE)
       ELSE UNCHANGED <<git, reg, stranded>>

(***************************************************************************)
(* What happens around the engine.                                         *)
(***************************************************************************)
Edit(n)   == /\ tree[n] = "there" /\ dirty' = [dirty EXCEPT ![n] = TRUE]
             /\ UNCHANGED <<tree, branch, head, pushed, broken, reg, toSweep, stranded>>
Commit(n) == /\ tree[n] = "there" /\ dirty[n] /\ HeadAt(n) < MaxCommits
             /\ dirty' = [dirty EXCEPT ![n] = FALSE]
             /\ IF head[n] = OnBranch
                  THEN branch' = [branch EXCEPT ![n] = @ + 1] /\ UNCHANGED head
                  ELSE head' = [head EXCEPT ![n] = @ + 1] /\ UNCHANGED branch
             /\ UNCHANGED <<tree, pushed, broken, reg, toSweep, stranded>>
Push(n)   == /\ tree[n] = "there" /\ head[n] = OnBranch
             /\ pushed' = [pushed EXCEPT ![n] = branch[n]]
             /\ UNCHANGED <<tree, dirty, branch, head, broken, reg, toSweep, stranded>>
(* A clean checkout goes to an older commit, or back to its branch. *)
Checkout(n) ==
  /\ tree[n] = "there" /\ ~dirty[n]
  /\ \E h \in 0..MaxCommits : /\ h <= branch[n]
                              /\ head' = [head EXCEPT ![n] = IF h = branch[n] THEN OnBranch ELSE h]
  /\ UNCHANGED <<tree, dirty, branch, pushed, broken, reg, toSweep, stranded>>
(* Git can count a checkout's commits no more, or again. *)
Break(n)  == /\ "count" \in Faults /\ tree[n] = "there"
             /\ broken' = IF n \in broken THEN broken \ {n} ELSE broken \cup {n}
             /\ UNCHANGED <<tree, dirty, branch, head, pushed, reg, toSweep, stranded>>
(* A directory deleted by hand, and the prune that follows. *)
Vanish(n) == /\ tree[n] = "there" /\ tree' = [tree EXCEPT ![n] = "gone"]
             /\ dirty' = [dirty EXCEPT ![n] = FALSE] /\ head' = [head EXCEPT ![n] = OnBranch]
             /\ UNCHANGED <<branch, pushed, broken, reg, toSweep, stranded>>
Prune(n)  == /\ tree[n] = "gone" /\ tree' = [tree EXCEPT ![n] = "none"]
             /\ stranded' = stranded \ {n}
             /\ UNCHANGED <<dirty, branch, head, pushed, broken, reg, toSweep>>
(* The owner's process ended, or its claim is twelve hours old. *)
Lapse(n)  == /\ claim[n].live /\ claim' = [claim EXCEPT ![n].live = FALSE]
             /\ UNCHANGED <<git, entry, base, toSweep, stranded>>

Unforced == \/ \E s \in Owners, n \in Names :
                 Create(s, n) \/ Claim(s, n) \/ Release(s, n)
            \/ \E n \in Names, delete \in BOOLEAN : Remove(n, FALSE, delete)
            \/ \E s \in Owners : SweepList(s)
            \/ \E n \in Names : SweepOne(n) \/ Reclaim(n)
Forced   == \E n \in Names, delete \in BOOLEAN : Remove(n, TRUE, delete)
Around   == \E n \in Names : \/ Edit(n) \/ Commit(n) \/ Push(n) \/ Checkout(n) \/ Break(n)
                             \/ Vanish(n) \/ Prune(n) \/ Lapse(n)
Next == Unforced \/ Forced \/ Around
Spec == Init /\ [][Next]_vars

(***************************************************************************)
(* Properties.                                                             *)
(***************************************************************************)
(* The shape of the state. *)
TypeOK ==
  /\ tree \in [Names -> {"none", "there", "gone"}] /\ dirty \in [Names -> BOOLEAN]
  /\ branch \in [Names -> 0..NoBranch] /\ pushed \in [Names -> 0..NoBranch]
  /\ head \in [Names -> 0..OnBranch] /\ broken \subseteq Names
  /\ entry \in [Names -> BOOLEAN] /\ base \in [Names -> 0..MaxCommits]
  /\ claim \in [Names -> [by : Owners \cup {None}, live : BOOLEAN]]
  /\ toSweep \subseteq Names /\ stranded \subseteq Names
  /\ \A n \in Names : /\ (tree[n] = "none" => ~dirty[n])
                      /\ (claim[n].by # None => entry[n])
                      /\ (entry[n] /\ tree[n] = "there" => branch[n] # NoBranch)

(* What no operation but a forced removal takes from a checkout that is on *)
(* the disk and whose commits git can count: its uncommitted changes, and  *)
(* the commits at its HEAD that are past its base and on no upstream.      *)
(* Those keep their checkout, and their branch while HEAD is on it: from a *)
(* reclaim at an agent's end, a bulk removal, a failed registry write.     *)
Own(n) == /\ tree[n] = "there" /\ entry[n] /\ n \notin broken
          /\ HeadAt(n) > base[n] /\ (Upstream(n) => branch[n] > pushed[n])
OwnWorkKept == [][Unforced => \A n \in Names :
  /\ dirty[n] => dirty'[n]
  /\ Own(n) => tree'[n] = "there" /\ HeadAt(n)' = HeadAt(n)]_vars

(* A live claim on a checkout git still lists is nobody else's to take:    *)
(* while it lasts, the registry names no other holder.                     *)
ClaimStands == [][\A s \in Owners, n \in Known :
  claim[n].by = s /\ claim[n].live => claim'[n].by \in {s, None}]_vars

(* git lists no checkout the registry cannot name, except where a create   *)
(* died between the two or git refused, however registry writes fail.      *)
NothingStranded == \A n \in Names : tree[n] # "none" => entry[n] \/ n \in stranded

(* worktree.go, removeEntry: "prune and treat as removed if that clears    *)
(* it, else surface the original error", so what the registry forgets git  *)
(* no longer lists.                                                        *)
ForgottenIsGone == [][\A n \in Names : entry[n] /\ ~entry'[n] => tree'[n] = "none"]_vars

(* worktree.go, Reclaim: what it removes holds "no commits that exist only *)
(* here", so a branch goes only if nothing on it would be lost.            *)
ReclaimLosesNothing == [][\A n \in Names :
  Reclaim(n) /\ branch[n] # NoBranch /\ branch'[n] = NoBranch
    => branch[n] = 0 \/ (pushed[n] # NoBranch /\ branch[n] <= pushed[n])]_vars

(* worktree.go, Reclaim: "The branch is deleted only when this worktree     *)
(* positively never committed anything".                                   *)
NeverCommitted == [][\A n \in Names :
  Reclaim(n) /\ branch[n] # NoBranch /\ branch'[n] = NoBranch /\ n \notin broken
    => branch[n] <= base[n]]_vars

(* worktree.go, Reclaim: "Every path that cannot measure leaves it alone." *)
MeasuresFirst == [][\A n \in Names :
  Reclaim(n) /\ tree[n] = "there" /\ n \in broken => branch'[n] = branch[n]]_vars

(* worktree.go, Remove: "It refuses when the worktree has uncommitted      *)
(* changes or unmerged/unpushed commits unless Force is set".              *)
GoneRefuses == [][\A n \in Names :
  tree[n] = "gone" /\ Remove(n, FALSE, TRUE) /\ branch[n] # NoBranch /\ branch'[n] = NoBranch
    => branch[n] <= base[n] \/ (pushed[n] # NoBranch /\ branch[n] <= pushed[n])]_vars

(* workspace_worktrees.go: "a LIVE claim is simply not in the set" a bulk  *)
(* removal works through.                                                  *)
SweepSparesLive == [][\A n \in Names :
  n \in toSweep /\ SweepOne(n) /\ claim[n].live => entry'[n]]_vars

(* workspace_talkoot_lease.go: "a worktree that was removed from disk      *)
(* comes back", so a checkout that is handed out is on the disk.           *)
HandedOutIsThere == [][\A s \in Owners, n \in Names :
  Reuse(s, n) => tree'[n] = "there"]_vars
=============================================================================
