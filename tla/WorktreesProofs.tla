--------------------------- MODULE WorktreesProofs ---------------------------
(***************************************************************************)
(* For any number of worktrees, owners and commits, and whatever the       *)
(* registry and git refuse: no unforced operation takes what git counts in *)
(* a checkout that is there, no live claim changes hands, and git lists no *)
(* checkout the registry forgot but those a fault left behind.             *)
(***************************************************************************)
EXTENDS Worktrees, TLAPS

(* A removal looks for changes only in a checkout that is there, so work   *)
(* is safe only because nowhere else is dirty.                             *)
TreeInv ==
  /\ TypeOK
  /\ \A n \in Names : (dirty[n] \/ head[n] # OnBranch) => tree[n] = "there"
  /\ NothingStranded

(* A repository starts with no worktree.                                   *)
LEMMA TreeInvInit == TreesAssumption /\ Init => TreeInv
BY DEF TreesAssumption, Init, TreeInv, TypeOK, NothingStranded, NoBranch, OnBranch, Free

(* The operations that only move claims.                                   *)
LEMMA TakeKeeps ==
  ASSUME TreesAssumption, TreeInv, NEW s \in Owners, NEW n \in Known, Take(s, n),
         UNCHANGED <<git, toSweep, stranded>>
  PROVE  TreeInv'
BY DEF TreesAssumption, TreeInv, TypeOK, NothingStranded, NoBranch, OnBranch, Free, Take,
       Forgotten, Known, NewClaim, git

(* A create, whichever way it fails.                                       *)
LEMMA CreateKeeps ==
  ASSUME TreesAssumption, TreeInv, NEW s \in Owners, NEW n \in Names, Create(s, n)
  PROVE  TreeInv'
<1> USE DEF TreesAssumption, TreeInv, TypeOK, NothingStranded, NoBranch, OnBranch, Free
<1>1. CASE Reuse(s, n)
  BY <1>1, TakeKeeps DEF Reuse
<1>2. Tip(n) \in 0..MaxCommits
  BY DEF Tip
<1>3. CASE Add(s, n)
  <2>1. /\ entry' \in [Names -> BOOLEAN] /\ base' \in [Names -> 0..MaxCommits]
        /\ claim' \in [Names -> [by : Owners \cup {None}, live : BOOLEAN]]
    BY <1>2, <1>3 DEF Add, NewClaim, Known
  <2>2. /\ tree' \in [Names -> {"none", "there", "gone"}]
        /\ branch' \in [Names -> 0..(MaxCommits + 1)]
        /\ branch'[n] # MaxCommits + 1 /\ tree'[n] = "there" /\ entry'[n]
        /\ \A m \in Names \ {n} : tree'[m] = tree[m] /\ branch'[m] = branch[m]
    <3>1. branch' = [branch EXCEPT ![n] = Tip(n)] /\ tree' = [tree EXCEPT ![n] = "there"]
      BY <1>3 DEF Add
    <3>2. Tip(n) \in 0..(MaxCommits + 1) /\ Tip(n) # MaxCommits + 1
      BY <1>2
    <3>3. entry'[n]
      BY <1>3, Zenon DEF Add
    <3>4. QED
      BY <3>1, <3>2, <3>3
  <2>3. \A m \in Names \ {n} : entry'[m] <=> m \in Known
    BY <1>3, Zenon DEF Add
  <2>4. \A m \in Names : claim'[m].by # None => entry'[m]
    BY <1>3, <2>2, <2>3 DEF Add
  <2>5. QED
    BY <1>3, <2>1, <2>2, <2>3, <2>4 DEF Add, Known
<1>4. CASE AddGit(n, FALSE) /\ UNCHANGED stranded
  BY <1>2, <1>4 DEF AddGit, reg, Known
<1>5. CASE AddGit(n, TRUE) /\ stranded' = stranded \cup {n}
  BY <1>2, <1>5 DEF AddGit, reg, Known
<1>6. QED
  BY <1>1, <1>3, <1>4, <1>5 DEF Create, AddUnsaved, AddDies

(* A removal, whatever allowed it.                                         *)
LEMMA RemoveEntryKeeps ==
  ASSUME TreesAssumption, TreeInv, NEW n \in Names, NEW delete \in BOOLEAN,
         RemoveEntry(n, delete), toSweep' \subseteq Names
  PROVE  TreeInv'
<1> USE DEF TreesAssumption, TreeInv, TypeOK, NothingStranded, NoBranch, OnBranch, Free
<1>0. broken' = broken
  BY DEF RemoveEntry
<1>1. CASE GitRemove(n, delete) /\ Forget(n) /\ UNCHANGED stranded
  BY <1>0, <1>1 DEF GitRemove, DropBranch, Forget
<1>2. CASE GitRemove(n, delete) /\ UNCHANGED reg /\ UNCHANGED stranded
  BY <1>0, <1>2 DEF GitRemove, DropBranch, reg
<1>3. CASE /\ DropBranch(n, delete /\ head[n] # OnBranch) /\ UNCHANGED <<tree, dirty, head>>
           /\ Forget(n) /\ stranded' = stranded \cup {n}
  BY <1>0, <1>3 DEF DropBranch, Forget
<1>4. QED
  BY <1>1, <1>2, <1>3 DEF RemoveEntry

(* What people and agents do around the engine.                            *)
LEMMA AroundKeeps ==
  ASSUME TreesAssumption, TreeInv, NEW n \in Names,
         \/ Edit(n) \/ Commit(n) \/ Push(n) \/ Checkout(n) \/ Break(n)
         \/ Vanish(n) \/ Prune(n) \/ Lapse(n)
  PROVE  TreeInv'
<1> USE DEF TreesAssumption, TreeInv, TypeOK, NothingStranded, NoBranch, OnBranch, Free, reg, git
<1>1. CASE Edit(n)
  BY <1>1 DEF Edit
<1>2. CASE Commit(n)
  <2>1. CASE head[n] = OnBranch
    <3>1. branch[n] + 1 \in 0..MaxCommits
      BY <1>2, <2>1 DEF Commit, HeadAt
    <3>2. branch' \in [Names -> 0..NoBranch]
      BY <1>2, <2>1, <3>1 DEF Commit
    <3>3. \A m \in Names : entry'[m] /\ tree'[m] = "there" => branch'[m] # NoBranch
      BY <1>2, <2>1, <3>1 DEF Commit
    <3>4. QED
      BY <1>2, <2>1, <3>2, <3>3 DEF Commit
  <2>2. CASE head[n] # OnBranch
    BY <1>2, <2>2 DEF Commit, HeadAt
  <2>3. QED
    BY <2>1, <2>2
<1>3. CASE Push(n)
  BY <1>3 DEF Push
<1>4. CASE Vanish(n)
  BY <1>4 DEF Vanish
<1>5. CASE Prune(n)
  BY <1>5 DEF Prune
<1>6. CASE Lapse(n)
  BY <1>6 DEF Lapse
<1>7. CASE Checkout(n)
  BY <1>7 DEF Checkout
<1>8. CASE Break(n)
  BY <1>8 DEF Break
<1>9. QED
  BY <1>1, <1>2, <1>3, <1>4, <1>5, <1>6, <1>7, <1>8

(* No step of anybody breaks the invariant.                                *)
LEMMA TreeInvNext == TreesAssumption /\ TreeInv /\ [Next]_vars => TreeInv'
<1> SUFFICES ASSUME TreesAssumption, TreeInv, [Next]_vars PROVE TreeInv'
  OBVIOUS
<1>1. CASE UNCHANGED vars
  BY <1>1 DEF vars, git, reg, TreeInv, TypeOK, NothingStranded
<1>2. ASSUME NEW s \in Owners, NEW n \in Names, Create(s, n) PROVE TreeInv'
  BY <1>2, CreateKeeps
<1>3. ASSUME NEW s \in Owners, NEW n \in Names, Claim(s, n) PROVE TreeInv'
  BY <1>3, TakeKeeps DEF Claim
<1>4. ASSUME NEW s \in Owners, NEW n \in Names, Release(s, n) PROVE TreeInv'
  BY <1>4 DEF TreesAssumption, TreeInv, TypeOK, NothingStranded, NoBranch, OnBranch, Free, Release,
              Forgotten, Known, git
<1>5. ASSUME NEW s \in Owners, SweepList(s) PROVE TreeInv'
  BY <1>5 DEF TreesAssumption, TreeInv, TypeOK, NothingStranded, NoBranch, OnBranch, Free, SweepList,
              Forgotten, Known, git
<1>6. ASSUME NEW n \in Names, NEW force \in BOOLEAN, NEW delete \in BOOLEAN,
             Remove(n, force, delete)
      PROVE  TreeInv'
  BY <1>6, RemoveEntryKeeps DEF Remove, TreeInv, TypeOK
<1>7. ASSUME NEW n \in Names, Reclaim(n) PROVE TreeInv'
  BY <1>7, RemoveEntryKeeps DEF Reclaim, TreeInv, TypeOK
<1>8. ASSUME NEW n \in Names, SweepOne(n) PROVE TreeInv'
  <2>1. toSweep' \subseteq Names
    BY <1>8 DEF SweepOne, TreeInv, TypeOK
  <2>2. CASE RemoveEntry(n, FALSE)
    BY <2>1, <2>2, RemoveEntryKeeps
  <2>3. CASE UNCHANGED <<git, reg, stranded>>
    BY <2>1, <2>3 DEF TreeInv, TypeOK, NothingStranded, git, reg
  <2>4. QED
    BY <1>8, <2>2, <2>3 DEF SweepOne
<1>9. ASSUME NEW n \in Names,
             \/ Edit(n) \/ Commit(n) \/ Push(n) \/ Checkout(n) \/ Break(n)
             \/ Vanish(n) \/ Prune(n) \/ Lapse(n)
      PROVE  TreeInv'
  BY <1>9, AroundKeeps
<1>10. QED
  BY <1>1, <1>2, <1>3, <1>4, <1>5, <1>6, <1>7, <1>8, <1>9 DEF Next, Unforced, Forced, Around

(* Every variable keeps its type, and a claim needs an entry to stand on.  *)
THEOREM TreeTypes == Spec => []TypeOK
<1>1. Init => TreeInv
  BY TreesAssumption, TreeInvInit
<1>2. TreeInv /\ [Next]_vars => TreeInv'
  BY TreesAssumption, TreeInvNext
<1>3. TreeInv => TypeOK
  BY DEF TreeInv
<1>4. QED
  BY <1>1, <1>2, <1>3, PTL DEF Spec

(* What git lists the registry can name, except where a create died or git *)
(* refused: a registry that cannot be written strands nothing.             *)
THEOREM NoneStranded == Spec => []NothingStranded
<1>1. Init => TreeInv
  BY TreesAssumption, TreeInvInit
<1>2. TreeInv /\ [Next]_vars => TreeInv'
  BY TreesAssumption, TreeInvNext
<1>3. TreeInv => NothingStranded
  BY DEF TreeInv
<1>4. QED
  BY <1>1, <1>2, <1>3, PTL DEF Spec

(***************************************************************************)
(* What a step may not do.                                                 *)
(***************************************************************************)
Safe == \A n \in Names : /\ dirty[n] => dirty'[n]
                         /\ Own(n) => tree'[n] = "there" /\ HeadAt(n)' = HeadAt(n)

(* A removal that looked first takes nothing of one's own, whatever branch *)
(* it deletes.                                                             *)
LEMMA RemovalSpares ==
  ASSUME TreesAssumption, TreeInv, NEW n \in Names, NEW delete \in BOOLEAN,
         Expendable(n), RemoveEntry(n, delete)
  PROVE  Safe
<1>1. ~dirty[n] /\ ~Own(n)
  BY DEF TreeInv, Own, Expendable, Unmerged
<1>2. \A m \in Names : m # n =>
        UNCHANGED <<tree[m], dirty[m], branch[m], head[m]>>
  BY DEF RemoveEntry, GitRemove, DropBranch, TreeInv, TypeOK
<1>3. \A m \in Names : m # n => HeadAt(m)' = HeadAt(m)
  BY <1>2 DEF HeadAt
<1>4. QED
  BY <1>1, <1>2, <1>3 DEF Safe, Own

LEMMA UnforcedSpares == TreesAssumption /\ TreeInv /\ Unforced => Safe
<1> SUFFICES ASSUME TreesAssumption, TreeInv, Unforced PROVE Safe
  OBVIOUS
<1>1. CASE UNCHANGED git
  BY <1>1 DEF git, Safe, Own, HeadAt
<1>2. ASSUME NEW s \in Owners, NEW n \in Names, Create(s, n) PROVE Safe
  <2>1. CASE Reuse(s, n)
    BY <1>1, <2>1 DEF Reuse
  <2>2. ASSUME UNCHANGED <<dirty, head>>, tree[n] = "none",
               branch' = [branch EXCEPT ![n] = Tip(n)],
               \A m \in Names : m # n => tree'[m] = tree[m]
        PROVE  Safe
    <3>1. \A m \in Names : m # n => HeadAt(m)' = HeadAt(m)
      BY <2>2 DEF HeadAt, TreeInv, TypeOK
    <3>2. QED
      BY <2>2, <3>1 DEF Safe, Own
  <2>3. CASE ~Reuse(s, n)
    BY <1>2, <2>2, <2>3 DEF Create, Add, AddUnsaved, AddDies, AddGit, TreeInv, TypeOK
  <2>4. QED
    BY <2>1, <2>3
<1>3. ASSUME NEW s \in Owners, NEW n \in Names, Claim(s, n) \/ Release(s, n) PROVE Safe
  BY <1>1, <1>3 DEF Claim, Release
<1>4. ASSUME NEW s \in Owners, SweepList(s) PROVE Safe
  BY <1>1, <1>4 DEF SweepList
<1>5. ASSUME NEW n \in Names, NEW delete \in BOOLEAN, Remove(n, FALSE, delete) PROVE Safe
  BY <1>5, RemovalSpares DEF Remove
<1>6. ASSUME NEW n \in Names, Reclaim(n) PROVE Safe
  BY <1>6, RemovalSpares DEF Reclaim
<1>7. ASSUME NEW n \in Names, SweepOne(n) PROVE Safe
  <2>1. CASE UNCHANGED <<git, reg, stranded>>
    BY <1>1, <2>1
  <2>2. QED
    BY <1>7, <2>1, RemovalSpares DEF SweepOne
<1>8. QED
  BY <1>2, <1>3, <1>4, <1>5, <1>6, <1>7 DEF Unforced

(* From a checkout that is on the disk and whose commits git can count, no  *)
(* operation but a forced removal takes uncommitted changes, or commits at *)
(* its HEAD past the registry's base that its upstream lacks: no create,   *)
(* reclaim, bulk removal or failed write does.  Of a checkout that is gone, *)
(* of a branch that HEAD is not on, and of commits before the base it says *)
(* nothing.                                                                *)
THEOREM WorkSurvives == Spec => OwnWorkKept
<1>1. Init => TreeInv
  BY TreesAssumption, TreeInvInit
<1>2. TreeInv /\ [Next]_vars => TreeInv'
  BY TreesAssumption, TreeInvNext
<1>3. TreeInv /\ [Next]_vars => [Unforced => \A n \in Names :
        /\ dirty[n] => dirty'[n]
        /\ Own(n) => tree'[n] = "there" /\ HeadAt(n)' = HeadAt(n)]_vars
  BY TreesAssumption, UnforcedSpares DEF Safe
<1>4. QED
  BY <1>1, <1>2, <1>3, PTL DEF Spec, OwnWorkKept

(* The holder of a checkout git lists: it stays, or nobody has it.         *)
Stands == \A s \in Owners, n \in Known :
  claim[n].by = s /\ claim[n].live => claim'[n].by \in {s, None}

LEMMA TakeStands ==
  ASSUME TreesAssumption, TreeInv, NEW o \in Owners, NEW m \in Known, Available(o, m), Take(o, m)
  PROVE  Stands
BY DEF TreesAssumption, Available, HeldByOther, Take, Known, Stands

LEMMA RemovalStands ==
  ASSUME TreesAssumption, TreeInv, NEW n \in Names, NEW delete \in BOOLEAN, RemoveEntry(n, delete)
  PROVE  Stands
<1>1. CASE Forget(n)
  BY <1>1 DEF Forget, Free, Known, Stands, TreeInv, TypeOK
<1>2. CASE UNCHANGED reg
  BY <1>2 DEF reg, Stands
<1>3. QED
  BY <1>1, <1>2 DEF RemoveEntry

LEMMA NextStands == TreesAssumption /\ TreeInv /\ [Next]_vars => Stands
<1> SUFFICES ASSUME TreesAssumption, TreeInv, [Next]_vars PROVE Stands
  OBVIOUS
<1>1. CASE UNCHANGED claim
  BY <1>1 DEF Stands
<1>2. ASSUME NEW o \in Owners, NEW m \in Names, Create(o, m) PROVE Stands
  <2>1. CASE Reuse(o, m)
    BY <2>1, TakeStands DEF Reuse
  <2>2. CASE Add(o, m)
    BY <2>2 DEF Add, Known, Stands
  <2>3. QED
    BY <1>1, <1>2, <2>1, <2>2 DEF Create, AddUnsaved, AddDies, AddGit, reg
<1>3. ASSUME NEW o \in Owners, NEW m \in Names, Claim(o, m) PROVE Stands
  BY <1>3, TakeStands DEF Claim
<1>4. ASSUME NEW o \in Owners, NEW m \in Names, Release(o, m) PROVE Stands
  BY <1>4 DEF Release, Known, Free, Stands
<1>5. ASSUME NEW o \in Owners, SweepList(o) PROVE Stands
  BY <1>5 DEF SweepList, Known, Stands
<1>6. ASSUME NEW n \in Names, NEW force \in BOOLEAN, NEW delete \in BOOLEAN,
             Remove(n, force, delete)
      PROVE  Stands
  BY <1>6, RemovalStands DEF Remove
<1>7. ASSUME NEW n \in Names, Reclaim(n) PROVE Stands
  BY <1>7, RemovalStands DEF Reclaim
<1>8. ASSUME NEW n \in Names, SweepOne(n) PROVE Stands
  BY <1>1, <1>8, RemovalStands DEF SweepOne, reg
<1>9. ASSUME NEW n \in Names, Lapse(n) PROVE Stands
  BY <1>9 DEF Lapse, TreeInv, TypeOK, Stands
<1>10. QED
  BY <1>1, <1>2, <1>3, <1>4, <1>5, <1>6, <1>7, <1>8, <1>9
     DEF Next, Unforced, Forced, Around, Edit, Commit, Push, Checkout, Break, Vanish, Prune,
         reg, vars

(* A live claim on a checkout git still lists is taken over by nobody.     *)
THEOREM ClaimsStand == Spec => ClaimStands
<1>1. Init => TreeInv
  BY TreesAssumption, TreeInvInit
<1>2. TreeInv /\ [Next]_vars => TreeInv'
  BY TreesAssumption, TreeInvNext
<1>3. TreeInv /\ [Next]_vars => [\A s \in Owners, n \in Known :
        claim[n].by = s /\ claim[n].live => claim'[n].by \in {s, None}]_vars
  BY TreesAssumption, NextStands DEF Stands
<1>4. QED
  BY <1>1, <1>2, <1>3, PTL DEF Spec, ClaimStands
=============================================================================
