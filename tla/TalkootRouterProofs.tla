------------------------ MODULE TalkootRouterProofs ------------------------
(***************************************************************************)
(* Proofs about TalkootRouter.                                             *)
(*                                                                         *)
(* The types of every state, Base, come first: with them each operation on *)
(* a book, and then each step, is reduced to what it does to the parts the *)
(* invariants speak of (Entered, Trips, Handed, Released, Settles, Reads,  *)
(* Lifts, Replays).  Five inductive invariants follow, each beside Base:   *)
(* ChainInv, PausesInv, DueInv, the pair of TurnInv and UsedSlots, and     *)
(* CountInv, each with a lemma for the step and the theorem it gives.      *)
(* The sum that the last speaks of is shown to be one before all this.     *)
(***************************************************************************)
EXTENDS TalkootRouter, SequenceTheorems, FiniteSetTheorems, WellFoundedInduction, TLAPS

(***************************************************************************)
(* Facts about lists: what appending, taking the first away,               *)
(* concatenating and filtering do to the elements of a list, and to how    *)
(* often each is in it.  Filter is recursive: what it keeps is shown by    *)
(* counting up, which the least element of a set of naturals gives.        *)
(***************************************************************************)

(* No element is there twice. *)
Distinct(s) == \A i, j \in 1..Len(s) : s[i] = s[j] => i = j

(* The order of the naturals as a relation, and its least elements.        *)
LEMMA Below == \E R : IsWellFoundedOn(R, Nat) /\ \A x, y \in Nat : <<y, x>> \in R <=> y < x
<1> DEFINE R == OpToRel(<, Nat)
<1>1. IsWellFoundedOn(R, Nat)
  BY NatLessThanWellFounded
<1>2. \A x, y \in Nat : <<y, x>> \in R <=> y < x
  BY DEF OpToRel
<1>3. QED
  BY <1>1, <1>2, Zenon

LEMMA Least ==
  ASSUME NEW T \in SUBSET Nat, T # {}
  PROVE  \E x \in T : \A y \in T : x <= y
<1>1. PICK R : IsWellFoundedOn(R, Nat) /\ \A x, y \in Nat : <<y, x>> \in R <=> y < x
  BY Below
<1>2. PICK x \in T : \A y \in T : ~ (<<y, x>> \in R)
  BY <1>1, WFMin
<1>3. \A y \in T : ~(y < x)
  BY <1>1, <1>2
<1>4. QED
  BY <1>3

(* A set of naturals with 0 and the successor of each of its members up to *)
(* n has everything up to n.                                               *)
LEMMA CountUp ==
  ASSUME NEW T, NEW n \in Nat, 0 \in T, \A k \in 0..n - 1 : k \in T => k + 1 \in T
  PROVE  \A k \in 0..n : k \in T
<1> SUFFICES ASSUME {k \in 0..n : k \notin T} # {} PROVE FALSE
  OBVIOUS
<1>1. {k \in 0..n : k \notin T} \in SUBSET Nat
  OBVIOUS
<1>2. PICK x \in {k \in 0..n : k \notin T} : \A y \in {k \in 0..n : k \notin T} : x <= y
  BY <1>1, Least
<1>3. x # 0 /\ x - 1 \in 0..n - 1 /\ x - 1 < x
  BY <1>2
<1>4. x - 1 \in T
  BY <1>2, <1>3
<1>5. QED
  BY <1>2, <1>3, <1>4

(* A table that each of its entries continues by a step of its own.        *)
Continues(f, a, n, step) == f = [i \in 0..n |-> IF i = 0 THEN a ELSE step[i][f[i - 1]]]
LEMMA Continued ==
  ASSUME NEW S, NEW a \in S, NEW n \in Nat, NEW step \in [1..n -> [S -> S]]
  PROVE  \E f \in [0..n -> S] : Continues(f, a, n, step)
<1> DEFINE Is(f, k) == /\ f \in [0..k -> S] /\ f[0] = a
                       /\ \A i \in 1..k : f[i] = step[i][f[i - 1]]
<1> DEFINE T == {k \in Nat : k <= n => \E f : Is(f, k)}
<1>1. 0 \in T
  <2>1. Is([i \in 0..0 |-> a], 0)
    OBVIOUS
  <2>2. QED
    BY <2>1
<1>2. ASSUME NEW k \in 0..n - 1, k \in T PROVE k + 1 \in T
  <2>1. PICK f : Is(f, k)
    BY <1>2
  <2> DEFINE g == [i \in 0..k + 1 |-> IF i <= k THEN f[i] ELSE step[k + 1][f[k]]]
  <2>2. k + 1 \in 1..n /\ k \in 0..k /\ f[k] \in S
    BY <2>1
  <2>3. step[k + 1][f[k]] \in S
    BY <2>2
  <2>4. g \in [0..k + 1 -> S]
    BY <2>1, <2>3
  <2>5. \A i \in 0..k : g[i] = f[i]
    OBVIOUS
  <2>6. g[k + 1] = step[k + 1][f[k]]
    OBVIOUS
  <2> HIDE DEF g
  <2>7. ASSUME NEW i \in 1..k + 1 PROVE g[i] = step[i][g[i - 1]]
    <3>1. i - 1 \in 0..k /\ (i \in 1..k \/ i = k + 1) /\ (k + 1) - 1 = k
      OBVIOUS
    <3>2. QED
      BY <2>1, <2>2, <2>5, <2>6, <3>1
  <2>8. Is(g, k + 1)
    BY <2>1, <2>4, <2>5, <2>7
  <2>9. k + 1 \in Nat
    OBVIOUS
  <2>10. QED
    BY <2>8, <2>9
<1> HIDE DEF T
<1>3. \A k \in 0..n : k \in T
  BY <1>1, <1>2, CountUp
<1>4. PICK f : Is(f, n)
  BY <1>3 DEF T
<1>5. Continues(f, a, n, step)
  BY <1>4 DEF Continues
<1>6. QED
  BY <1>4, <1>5

(* The table of the filtered prefixes. *)
IsTable(f, s, A, n) ==
  f = [i \in 0..n |-> IF i = 0 THEN <<>>
                      ELSE IF s[i] \in A THEN Append(f[i - 1], s[i]) ELSE f[i - 1]]
LEMMA TableExists ==
  ASSUME NEW s, NEW A, NEW n \in Nat
  PROVE  \E f : IsTable(f, s, A, n)
<1> DEFINE T == {k \in Nat : \E f : IsTable(f, s, A, k)}
<1>1. 0 \in T
  <2>1. IsTable([i \in 0..0 |-> <<>>], s, A, 0)
    BY DEF IsTable
  <2>2. QED
    BY <2>1
<1>2. ASSUME NEW k \in 0..n - 1, k \in T PROVE k + 1 \in T
  <2>1. PICK f : IsTable(f, s, A, k)
    BY <1>2
  <2> DEFINE last == IF s[k + 1] \in A THEN Append(f[k], s[k + 1]) ELSE f[k]
  <2> DEFINE g == [i \in 0..k + 1 |-> IF i <= k THEN f[i] ELSE last]
  <2>2. \A i \in 0..k : f[i] = IF i = 0 THEN <<>>
             ELSE IF s[i] \in A THEN Append(f[i - 1], s[i]) ELSE f[i - 1]
    BY <2>1 DEF IsTable
  <2>3. \A i \in 0..k : g[i] = f[i]
    OBVIOUS
  <2>4. g[k + 1] = last
    OBVIOUS
  <2>5. g[k] = f[k] /\ k + 1 # 0 /\ (k + 1) - 1 = k
    BY <2>3
  <2> HIDE DEF g
  <2>6. \A i \in 0..k + 1 : g[i] = IF i = 0 THEN <<>>
             ELSE IF s[i] \in A THEN Append(g[i - 1], s[i]) ELSE g[i - 1]
    <3>1. ASSUME NEW i \in 0..k
          PROVE  g[i] = IF i = 0 THEN <<>>
             ELSE IF s[i] \in A THEN Append(g[i - 1], s[i]) ELSE g[i - 1]
      <4>1. i # 0 => i - 1 \in 0..k
        OBVIOUS
      <4>2. QED
        BY <2>2, <2>3, <4>1
    <3>2. g[k + 1] = IF k + 1 = 0 THEN <<>>
             ELSE IF s[k + 1] \in A THEN Append(g[k], s[k + 1]) ELSE g[k]
      BY <2>4, <2>5
    <3>3. \A i \in 0..k + 1 : i \in 0..k \/ i = k + 1
      OBVIOUS
    <3>4. QED
      BY <2>5, <3>1, <3>2, <3>3
  <2>7. IsTable(g, s, A, k + 1)
    BY <2>6 DEF IsTable, g
  <2>8. QED
    BY <2>7
<1> HIDE DEF T
<1>3. \A k \in 0..n : k \in T
  BY <1>1, <1>2, CountUp
<1>4. QED
  BY <1>3 DEF T

LEMMA OneMoreElem ==
  ASSUME NEW p, NEW q, NEW x, Len(p) \in Nat, Len(q) = Len(p) + 1, q[Len(p) + 1] = x,
         \A i \in 1..Len(p) : q[i] = p[i]
  PROVE  Elems(q) = Elems(p) \cup {x}
<1> DEFINE n == Len(p)
<1>1. 1..Len(q) = 1..n \cup {n + 1}
  BY SMT
<1>2. \A i \in 1..n : q[i] = p[i]
  OBVIOUS
<1>3. q[n + 1] = x
  OBVIOUS
<1> HIDE DEF n
<1>4. Elems(q) = {q[i] : i \in 1..n \cup {n + 1}}
  BY <1>1 DEF Elems
<1>5. {q[i] : i \in 1..n \cup {n + 1}} = {p[i] : i \in 1..n} \cup {x}
  BY <1>2, <1>3
<1>6. QED
  BY <1>4, <1>5 DEF Elems, n

LEMMA FilterTable ==
  ASSUME NEW S, NEW s \in Seq(S), NEW A
  PROVE  \E f : IsTable(f, s, A, Len(s)) /\ Filter(s, A) = f[Len(s)]
<1>1. \E f : IsTable(f, s, A, Len(s))
  <2>1. Len(s) \in Nat
    OBVIOUS
  <2>2. QED
    BY <2>1, TableExists
<1> DEFINE f == CHOOSE g : IsTable(g, s, A, Len(s))
<1>2. IsTable(f, s, A, Len(s))
  BY <1>1
<1>3. Filter(s, A) = f[Len(s)]
  BY DEF Filter, IsTable
<1>4. QED
  BY <1>2, <1>3

(* What a filter keeps: the elements in S, each as often as before.        *)
LEMMA FilterFacts ==
  ASSUME NEW S, NEW s \in Seq(S), NEW A
  PROVE  /\ Filter(s, A) \in Seq(S)
         /\ Elems(Filter(s, A)) = Elems(s) \cap A
         /\ Distinct(s) => Distinct(Filter(s, A))
<1> DEFINE n == Len(s)
<1>1. n \in Nat /\ \A i \in 1..n : s[i] \in S
  OBVIOUS
<1>2. PICK f : IsTable(f, s, A, n) /\ Filter(s, A) = f[n]
  BY FilterTable
<1>3. f[0] = <<>>
  BY <1>1, <1>2 DEF IsTable
<1>4. \A k \in 0..n - 1 : f[k + 1] = IF s[k + 1] \in A THEN Append(f[k], s[k + 1]) ELSE f[k]
  <2>1. \A i \in 0..n : f[i] = IF i = 0 THEN <<>>
             ELSE IF s[i] \in A THEN Append(f[i - 1], s[i]) ELSE f[i - 1]
    BY <1>2 DEF IsTable
  <2>2. \A k \in 0..n - 1 : k + 1 \in 0..n /\ k + 1 # 0 /\ (k + 1) - 1 = k
    BY <1>1
  <2>3. QED
    BY <2>1, <2>2
<1> DEFINE Upto(k) == {s[i] : i \in 1..k} \cap A
<1> DEFINE T == {k \in Nat : /\ f[k] \in Seq(S) /\ Elems(f[k]) = Upto(k)
                             /\ Distinct(s) => Distinct(f[k])}
<1>5. 0 \in T
  <2>1. Elems(f[0]) = {} /\ Upto(0) = {} /\ Distinct(f[0]) /\ f[0] \in Seq(S)
    BY <1>3 DEF Elems, Distinct
  <2>2. QED
    BY <2>1
<1>6. ASSUME NEW k \in 0..n - 1, k \in T PROVE k + 1 \in T
  <2> DEFINE x == s[k + 1]
  <2>1. x \in S /\ k + 1 \in 1..n /\ f[k] \in Seq(S) /\ Elems(f[k]) = Upto(k)
    BY <1>1, <1>6
  <2>2. {s[i] : i \in 1..k + 1} = {s[i] : i \in 1..k} \cup {x}
    BY <2>1
  <2>3. CASE x \notin A
    <3>1. f[k + 1] = f[k] /\ Upto(k + 1) = Upto(k)
      BY <1>4, <2>2, <2>3
    <3>2. QED
      BY <1>6, <3>1
  <2>4. CASE x \in A
    <3>1. f[k + 1] = Append(f[k], x) /\ Upto(k + 1) = Upto(k) \cup {x}
      BY <1>4, <2>2, <2>4
    <3>2. f[k + 1] \in Seq(S) /\ Len(f[k + 1]) = Len(f[k]) + 1 /\ f[k + 1][Len(f[k]) + 1] = x
          /\ \A i \in 1..Len(f[k]) : f[k + 1][i] = f[k][i]
      BY <2>1, <3>1
    <3>a. Len(f[k]) \in Nat
      BY <2>1
    <3>3. Elems(f[k + 1]) = Elems(f[k]) \cup {x}
      <4> DEFINE p == f[k]
      <4> DEFINE q == f[k + 1]
      <4>1. /\ Len(p) \in Nat /\ Len(q) = Len(p) + 1 /\ q[Len(p) + 1] = x
            /\ \A i \in 1..Len(p) : q[i] = p[i]
        BY <3>2, <3>a
      <4> HIDE DEF p, q, x, n
      <4>2. Elems(q) = Elems(p) \cup {x}
        BY <4>1, OneMoreElem
      <4>3. QED
        BY <4>2 DEF p, q, x
    <3>4. ASSUME Distinct(s) PROVE Distinct(f[k + 1])
      <4>1. x \notin Elems(f[k])
        BY <1>1, <2>1, <3>4 DEF Distinct
      <4>2. Distinct(f[k])
        BY <1>6, <3>4
      <4>3. QED
        <5>1. \A i \in 1..Len(f[k]) : f[k + 1][i] # x
          BY <3>2, <4>1 DEF Elems
        <5>2. \A i \in 1..Len(f[k + 1]) : i \in 1..Len(f[k]) \/ i = Len(f[k]) + 1
          BY <3>2, <3>a
        <5>3. QED
          BY <3>2, <4>2, <5>1, <5>2 DEF Distinct
    <3>5. Elems(f[k + 1]) = Upto(k + 1)
      BY <2>1, <3>1, <3>3
    <3>6. QED
      BY <2>1, <3>2, <3>4, <3>5
  <2>5. QED
    BY <2>3, <2>4
<1> HIDE DEF T
<1>7. \A k \in 0..n : k \in T
  BY <1>1, <1>5, <1>6, CountUp
<1>8. n \in T
  BY <1>1, <1>7
<1>9. Elems(s) = {s[i] : i \in 1..n}
  BY DEF Elems
<1>10. QED
  BY <1>2, <1>8, <1>9 DEF T

(* What the operations on a queue do to what is in it, and to how often.    *)
LEMMA AppendFacts ==
  ASSUME NEW S, NEW s \in Seq(S), NEW x \in S
  PROVE  /\ Elems(Append(s, x)) = Elems(s) \cup {x}
         /\ Distinct(s) /\ x \notin Elems(s) => Distinct(Append(s, x))
<1>1. Len(s) \in Nat /\ Len(Append(s, x)) = Len(s) + 1
  OBVIOUS
<1>2. 1..Len(Append(s, x)) = 1..Len(s) \cup {Len(s) + 1}
  BY <1>1
<1>3. \A i \in 1..Len(s) : Append(s, x)[i] = s[i]
  OBVIOUS
<1>4. Append(s, x)[Len(s) + 1] = x
  OBVIOUS
<1>5. Elems(Append(s, x)) = Elems(s) \cup {x}
  BY <1>1, <1>2, <1>3, <1>4 DEF Elems
<1>6. ASSUME Distinct(s), x \notin Elems(s) PROVE Distinct(Append(s, x))
  BY <1>1, <1>2, <1>3, <1>4, <1>6 DEF Elems, Distinct
<1>7. QED
  BY <1>5, <1>6

LEMMA TailFacts ==
  ASSUME NEW S, NEW s \in Seq(S), s # <<>>
  PROVE  /\ Elems(s) = Elems(Tail(s)) \cup {Head(s)} /\ Head(s) \in S
         /\ Distinct(s) => Distinct(Tail(s)) /\ Head(s) \notin Elems(Tail(s))
<1>1. Len(s) \in Nat \ {0} /\ Len(Tail(s)) = Len(s) - 1 /\ Head(s) = s[1]
  OBVIOUS
<1>2. \A i \in 1..Len(s) - 1 : Tail(s)[i] = s[i + 1]
  BY <1>1
<1>3. 1..Len(s) = {i + 1 : i \in 1..Len(s) - 1} \cup {1}
  <2>1. \A i \in 1..Len(s) : i # 1 => i - 1 \in 1..Len(s) - 1 /\ i = (i - 1) + 1
    BY <1>1
  <2>2. \A i \in 1..Len(s) - 1 : i + 1 \in 1..Len(s)
    BY <1>1
  <2>3. 1 \in 1..Len(s)
    BY <1>1
  <2>4. QED
    BY <2>1, <2>2, <2>3
<1>4. Elems(s) = Elems(Tail(s)) \cup {s[1]}
  BY <1>1, <1>2, <1>3 DEF Elems
<1>5. ASSUME Distinct(s) PROVE Distinct(Tail(s)) /\ s[1] \notin Elems(Tail(s))
  <2>1. \A i \in 1..Len(s) - 1 : i + 1 \in 1..Len(s) /\ i + 1 # 1
    BY <1>1
  <2>2. QED
    BY <1>1, <1>2, <1>5, <2>1 DEF Elems, Distinct
<1>6. QED
  BY <1>1, <1>4, <1>5

LEMMA ConcatFacts ==
  ASSUME NEW S, NEW s \in Seq(S), NEW u \in Seq(S)
  PROVE  /\ Elems(s \o u) = Elems(s) \cup Elems(u)
         /\ Distinct(s) /\ Distinct(u) /\ Elems(s) \cap Elems(u) = {} => Distinct(s \o u)
<1> DEFINE m == Len(s)
<1> DEFINE n == Len(u)
<1>1. m \in Nat /\ n \in Nat /\ Len(s \o u) = m + n
  BY ConcatProperties
<1>2. \A i \in 1..m : (s \o u)[i] = s[i]
  BY <1>1, ConcatProperties
<1>3. \A i \in 1..n : (s \o u)[m + i] = u[i]
  BY <1>1, ConcatProperties
<1>4. 1..m + n = 1..m \cup {m + i : i \in 1..n}
  <2>1. \A i \in 1..m + n : i \notin 1..m => i - m \in 1..n /\ i = m + (i - m)
    BY <1>1
  <2>2. \A i \in 1..n : m + i \in 1..m + n
    BY <1>1
  <2>3. \A i \in 1..m : i \in 1..m + n
    BY <1>1
  <2>4. QED
    BY <2>1, <2>2, <2>3
<1>5. Elems(s \o u) = Elems(s) \cup Elems(u)
  <2>1. \A i \in 1..m : s[i] \in Elems(s \o u)
    BY <1>2, <1>4, <1>1 DEF Elems
  <2>2. \A i \in 1..n : u[i] \in Elems(s \o u)
    BY <1>3, <1>4, <1>1 DEF Elems
  <2>3. \A i \in 1..m + n : (s \o u)[i] \in Elems(s) \cup Elems(u)
    <3>1. \A i \in 1..m : (s \o u)[i] \in Elems(s)
      BY <1>2 DEF Elems
    <3>2. \A i \in 1..n : (s \o u)[m + i] \in Elems(u)
      BY <1>3 DEF Elems
    <3> HIDE DEF m, n
    <3>3. QED
      BY <1>4, <3>1, <3>2
  <2>4. Elems(s) \cup Elems(u) \subseteq Elems(s \o u)
    BY <2>1, <2>2 DEF Elems
  <2>5. Elems(s \o u) \subseteq Elems(s) \cup Elems(u)
    BY <1>1, <2>3 DEF Elems
  <2>6. QED
    BY <2>4, <2>5
<1>6. ASSUME Distinct(s), Distinct(u), Elems(s) \cap Elems(u) = {} PROVE Distinct(s \o u)
  <2>1. \A i \in 1..m, j \in 1..n : s[i] # u[j]
    BY <1>6 DEF Elems
  <2>2. ASSUME NEW i \in 1..m + n, NEW j \in 1..m + n, (s \o u)[i] = (s \o u)[j]
        PROVE  i = j
    <3>1. CASE i \in 1..m /\ j \in 1..m
      BY <1>2, <1>6, <2>2, <3>1 DEF Distinct
    <3>2. ASSUME NEW k \in 1..n, i = m + k, j \in 1..m PROVE FALSE
      BY <1>2, <1>3, <2>1, <2>2, <3>2
    <3>3. ASSUME NEW k \in 1..n, j = m + k, i \in 1..m PROVE FALSE
      BY <1>2, <1>3, <2>1, <2>2, <3>3
    <3>4. ASSUME NEW k \in 1..n, NEW l \in 1..n, i = m + k, j = m + l PROVE i = j
      BY <1>3, <1>6, <2>2, <3>4 DEF Distinct
    <3>5. QED
      BY <1>4, <3>1, <3>2, <3>3, <3>4
  <2>3. QED
    BY <1>1, <2>2 DEF Distinct
<1>7. QED
  BY <1>5, <1>6

(***************************************************************************)
(* routeLocked over the held deliveries: it loses none and repeats none,   *)
(* and what it still holds is paused, or finds every slot taken.           *)
(***************************************************************************)
Routes == [held : Seq(Ids), out : Seq(Ids), atWork : SUBSET Members]
Begun(W) == [held |-> <<>>, out |-> <<>>, atWork |-> W]
Routed(P, r, e) ==
  IF Stays(P, r.atWork, e)
  THEN [r EXCEPT !.held = Append(@, e)]
  ELSE [r EXCEPT !.out = Append(@, e), !.atWork = @ \cup {To(e)}]
IsRoute(f, held, P, W) ==
  f = [n \in 0..Len(held) |-> IF n = 0 THEN Begun(W) ELSE Routed(P, f[n - 1], held[n])]

LEMMA RoutedTypes ==
  ASSUME NEW P, NEW r \in Routes, NEW e \in Ids, To(e) \in Members
  PROVE  Routed(P, r, e) \in Routes
<1>1. Append(r.held, e) \in Seq(Ids) /\ Append(r.out, e) \in Seq(Ids)
      /\ r.atWork \cup {To(e)} \in SUBSET Members
  BY DEF Routes
<1>2. CASE Stays(P, r.atWork, e)
  BY <1>1, <1>2 DEF Routed, Routes
<1>3. CASE ~Stays(P, r.atWork, e)
  BY <1>1, <1>3 DEF Routed, Routes
<1>4. QED
  BY <1>2, <1>3

LEMMA RouteTable ==
  ASSUME NEW held \in Seq(Ids), NEW P, NEW W \in SUBSET Members,
         \A e \in Elems(held) : To(e) \in Members
  PROVE  \E f : IsRoute(f, held, P, W) /\ Route(held, P, W) = f[Len(held)]
<1> DEFINE n == Len(held)
<1>1. n \in Nat /\ \A i \in 1..n : held[i] \in Ids /\ To(held[i]) \in Members
  BY DEF Elems
<1> DEFINE step == [i \in 1..n |-> [r \in Routes |-> Routed(P, r, held[i])]]
<1>2. step \in [1..n -> [Routes -> Routes]]
  BY <1>1, RoutedTypes
<1> DEFINE a == Begun(W)
<1>3. a \in Routes
  BY DEF Begun, Routes
<1>4. \E f \in [0..n -> Routes] : Continues(f, a, n, step)
  <2> HIDE DEF step, a, n
  <2>1. QED
    BY <1>1, <1>2, <1>3, Continued
<1>5. PICK f \in [0..n -> Routes] : f = [i \in 0..n |-> IF i = 0 THEN a ELSE step[i][f[i - 1]]]
  BY <1>4 DEF Continues
<1>6. \A i \in 1..n : i - 1 \in 0..n /\ f[i - 1] \in Routes
  BY <1>1
<1>7. f = [i \in 0..n |-> IF i = 0 THEN a ELSE Routed(P, f[i - 1], held[i])]
  <2>1. \A i \in 0..n : i # 0 => step[i][f[i - 1]] = Routed(P, f[i - 1], held[i])
    BY <1>6
  <2> HIDE DEF step, a
  <2>2. QED
    BY <1>5, <2>1
<1>8. IsRoute(f, held, P, W)
  BY <1>7 DEF IsRoute
<1> DEFINE g == CHOOSE h : IsRoute(h, held, P, W)
<1>9. IsRoute(g, held, P, W)
  BY <1>8
<1>10. Route(held, P, W) = g[n]
  BY DEF Route, IsRoute, Routed, Begun
<1>11. QED
  BY <1>9, <1>10

(* One delivery more: it joins what is held or what goes out. *)
Sorted(r, done, P, W) ==
  /\ r \in Routes
  /\ Elems(r.held) \cup Elems(r.out) = done
  /\ r.atWork = W \cup {To(e) : e \in Elems(r.out)}
  /\ \A e \in Elems(r.held) : Stays(P, r.atWork, e)
SortedOnce(r) == /\ Distinct(r.held) /\ Distinct(r.out)
                 /\ Elems(r.held) \cap Elems(r.out) = {}

LEMMA RoutedSorts ==
  ASSUME NEW P, NEW W \in SUBSET Members, NEW r, NEW done, Sorted(r, done, P, W),
         NEW e \in Ids, To(e) \in Members
  PROVE  /\ Sorted(Routed(P, r, e), done \cup {e}, P, W)
         /\ SortedOnce(r) /\ e \notin done => SortedOnce(Routed(P, r, e))
<1> DEFINE t == Routed(P, r, e)
<1>1. r.held \in Seq(Ids) /\ r.out \in Seq(Ids) /\ r \in Routes /\ t \in Routes
  BY RoutedTypes DEF Sorted, Routes
<1>2. /\ Elems(Append(r.held, e)) = Elems(r.held) \cup {e}
      /\ Distinct(r.held) /\ e \notin Elems(r.held) => Distinct(Append(r.held, e))
  BY <1>1, AppendFacts
<1>3. /\ Elems(Append(r.out, e)) = Elems(r.out) \cup {e}
      /\ Distinct(r.out) /\ e \notin Elems(r.out) => Distinct(Append(r.out, e))
  BY <1>1, AppendFacts
<1>4. CASE Stays(P, r.atWork, e)
  <2>1. t.held = Append(r.held, e) /\ t.out = r.out /\ t.atWork = r.atWork
    BY <1>1, <1>4 DEF Routed, Routes
  <2>2. Sorted(t, done \cup {e}, P, W)
    <3> HIDE DEF t
    <3>1. QED
      BY <1>1, <1>2, <1>4, <2>1 DEF Sorted
  <2>3. ASSUME SortedOnce(r), e \notin done PROVE SortedOnce(t)
    <3> HIDE DEF t
    <3>1. QED
      BY <1>2, <2>1, <2>3 DEF Sorted, SortedOnce
  <2>4. QED
    BY <2>2, <2>3
<1>5. CASE ~Stays(P, r.atWork, e)
  <2>1. t.held = r.held /\ t.out = Append(r.out, e) /\ t.atWork = r.atWork \cup {To(e)}
    BY <1>1, <1>5 DEF Routed, Routes
  <2>2. \A d \in Elems(r.held) : Stays(P, t.atWork, d)
    <3>1. CASE To(e) \in r.atWork
      <4>1. t.atWork = r.atWork
        BY <2>1, <3>1
      <4>2. QED
        BY <4>1 DEF Sorted
    <3>2. CASE To(e) \notin r.atWork
      <4>1. ~(Cardinality(r.atWork) >= MaxWorking)
        BY <1>5, <3>2 DEF Stays
      <4>2. \A d \in Elems(r.held) : Holds(P, d)
        BY <4>1 DEF Sorted, Stays
      <4>3. QED
        BY <4>2 DEF Stays
    <3>3. QED
      BY <3>1, <3>2
  <2>3. Sorted(t, done \cup {e}, P, W)
    <3> HIDE DEF t
    <3>1. {To(d) : d \in Elems(t.out)} = {To(d) : d \in Elems(r.out)} \cup {To(e)}
      BY <1>3, <2>1
    <3>2. QED
      BY <1>1, <1>3, <2>1, <2>2, <3>1 DEF Sorted
  <2>4. ASSUME SortedOnce(r), e \notin done PROVE SortedOnce(t)
    <3> HIDE DEF t
    <3>1. QED
      BY <1>3, <2>1, <2>4 DEF Sorted, SortedOnce
  <2>5. QED
    BY <2>3, <2>4
<1>6. QED
  BY <1>4, <1>5

LEMMA RouteFacts ==
  ASSUME NEW held \in Seq(Ids), NEW P, NEW W \in SUBSET Members,
         \A e \in Elems(held) : To(e) \in Members
  PROVE  /\ Sorted(Route(held, P, W), Elems(held), P, W)
         /\ Distinct(held) => SortedOnce(Route(held, P, W))
<1> DEFINE n == Len(held)
<1>1. n \in Nat /\ \A i \in 1..n : held[i] \in Ids /\ To(held[i]) \in Members
  BY DEF Elems
<1>2. PICK f : IsRoute(f, held, P, W) /\ Route(held, P, W) = f[n]
  BY RouteTable
<1> DEFINE done(k) == {held[i] : i \in 1..k}
<1> DEFINE T == {k \in Nat : /\ Sorted(f[k], done(k), P, W)
                             /\ Distinct(held) => SortedOnce(f[k])}
<1>3. 0 \in T
  <2>1. f[0] = Begun(W)
    BY <1>1, <1>2 DEF IsRoute
  <2>2. Sorted(Begun(W), {}, P, W) /\ SortedOnce(Begun(W))
    BY DEF Sorted, SortedOnce, Begun, Routes, Elems, Distinct
  <2>3. done(0) = {}
    OBVIOUS
  <2>4. QED
    BY <2>1, <2>2, <2>3
<1>4. ASSUME NEW k \in 0..n - 1, k \in T PROVE k + 1 \in T
  <2> DEFINE e == held[k + 1]
  <2>1. k + 1 \in 1..n /\ k + 1 \in 0..n /\ k + 1 # 0 /\ (k + 1) - 1 = k /\ k + 1 \in Nat
    BY <1>1
  <2>2. f[k + 1] = Routed(P, f[k], e)
    BY <1>2, <2>1 DEF IsRoute
  <2>3. e \in Ids /\ To(e) \in Members
    BY <1>1, <2>1
  <2>4. done(k + 1) = done(k) \cup {e}
    BY <2>1
  <2>5. Distinct(held) => e \notin done(k)
    <3>1. \A i \in 1..k : i \in 1..n /\ i # k + 1
      BY <1>1, <2>1
    <3>2. QED
      BY <2>1, <3>1 DEF Distinct
  <2>6. Sorted(f[k], done(k), P, W) /\ (Distinct(held) => SortedOnce(f[k]))
    BY <1>4
  <2> HIDE DEF done, e
  <2>7. /\ Sorted(f[k + 1], done(k) \cup {e}, P, W)
        /\ SortedOnce(f[k]) /\ e \notin done(k) => SortedOnce(f[k + 1])
    BY <2>2, <2>3, <2>6, RoutedSorts
  <2>8. QED
    BY <2>1, <2>4, <2>5, <2>6, <2>7
<1> HIDE DEF T
<1>5. \A k \in 0..n : k \in T
  BY <1>1, <1>3, <1>4, CountUp
<1>6. n \in T
  BY <1>1, <1>5
<1>7. done(n) = Elems(held)
  BY DEF Elems
<1>8. QED
  BY <1>2, <1>6, <1>7 DEF T

(***************************************************************************)
(* The sum of what several hold, as FoldSet adds it: one more member adds  *)
(* its own, whatever the order.                                            *)
(***************************************************************************)
Some(s) == CHOOSE x \in s : TRUE
IsSum(g, w, S) == g = [s \in SUBSET S |-> IF s = {} THEN 0 ELSE g[s \ {Some(s)}] + w[Some(s)]]

LEMMA SomeIn == ASSUME NEW s, s # {} PROVE Some(s) \in s
BY DEF Some

LEMMA OneLess ==
  ASSUME NEW S, IsFiniteSet(S)
  PROVE  /\ \A s \in SUBSET S : IsFiniteSet(s) /\ Cardinality(s) \in Nat
         /\ \A s \in SUBSET S : Cardinality(s) = 0 <=> s = {}
         /\ \A s \in SUBSET S : \A x \in s : Cardinality(s \ {x}) = Cardinality(s) - 1
<1>1. \A s \in SUBSET S : IsFiniteSet(s)
  BY FS_Subset
<1>2. QED
  BY <1>1, FS_CardinalityType, FS_EmptySet, FS_RemoveElement

LEMMA SumTable ==
  ASSUME NEW S, IsFiniteSet(S), NEW w, \A l \in S : w[l] \in Nat
  PROVE  \E g \in [SUBSET S -> Nat] : IsSum(g, w, S)
<1> DEFINE C(s) == Cardinality(s)
<1> DEFINE Entry(g, s) == IF s = {} THEN 0 ELSE g[s \ {Some(s)}] + w[Some(s)]
<1> DEFINE Upto(g, k) == /\ g \in [SUBSET S -> Nat]
                         /\ \A s \in SUBSET S : C(s) <= k => g[s] = Entry(g, s)
<1> DEFINE T == {k \in Nat : \E g : Upto(g, k)}
<1>1. \A s \in SUBSET S : C(s) \in Nat /\ (C(s) = 0 <=> s = {})
  BY OneLess
<1>2. \A s \in SUBSET S : s # {} => /\ Some(s) \in S /\ w[Some(s)] \in Nat
                                    /\ s \ {Some(s)} \in SUBSET S /\ C(s \ {Some(s)}) = C(s) - 1
  BY OneLess, SomeIn
<1>3. 0 \in T
  <2> DEFINE g == [s \in SUBSET S |-> 0]
  <2>1. \A s \in SUBSET S : C(s) <= 0 => s = {}
    BY <1>1
  <2>2. Upto(g, 0)
    BY <2>1
  <2>3. QED
    BY <2>2
<1> HIDE DEF C
<1>4. ASSUME NEW k \in 0..C(S) - 1, k \in T PROVE k + 1 \in T
  <2>1. PICK g : Upto(g, k)
    BY <1>4
  <2> DEFINE h == [s \in SUBSET S |-> IF C(s) <= k THEN g[s] ELSE Entry(g, s)]
  <2>2. \A s \in SUBSET S : Entry(g, s) \in Nat
    <3>1. g \in [SUBSET S -> Nat]
      BY <2>1
    <3> SUFFICES ASSUME NEW s \in SUBSET S, s # {} PROVE Entry(g, s) \in Nat
      OBVIOUS
    <3>2. w[Some(s)] \in Nat /\ g[s \ {Some(s)}] \in Nat
      BY <1>2, <3>1
    <3>3. QED
      BY <3>2
  <2>3. h \in [SUBSET S -> Nat]
    BY <2>1, <2>2
  <2>4. \A s \in SUBSET S : h[s] = Entry(g, s)
    BY <2>1
  <2>A. \A s \in SUBSET S : C(s) <= k => h[s] = g[s]
    OBVIOUS
  <2> HIDE DEF h
  <2>5. \A s \in SUBSET S : C(s) <= k + 1 => Entry(h, s) = Entry(g, s)
    <3> SUFFICES ASSUME NEW s \in SUBSET S, C(s) <= k + 1, s # {} PROVE Entry(h, s) = Entry(g, s)
      OBVIOUS
    <3>1. C(s \ {Some(s)}) <= k
      BY <1>1, <1>2
    <3>2. h[s \ {Some(s)}] = g[s \ {Some(s)}]
      BY <2>A, <3>1
    <3>3. QED
      BY <3>2
  <2>6. Upto(h, k + 1)
    BY <2>3, <2>4, <2>5
  <2> HIDE DEF Upto
  <2>7. k + 1 \in Nat
    OBVIOUS
  <2>8. QED
    BY <2>6, <2>7
<1>5. C(S) \in Nat /\ \A s \in SUBSET S : C(s) <= C(S)
  BY FS_Subset, FS_CardinalityType DEF C
<1> HIDE DEF T
<1>6. C(S) \in T
  <2>1. \A k \in 0..C(S) : k \in T
    BY <1>3, <1>4, <1>5, CountUp
  <2>2. QED
    BY <1>5, <2>1
<1>7. PICK g : Upto(g, C(S))
  BY <1>6 DEF T
<1>8. \A s \in SUBSET S : g[s] = Entry(g, s)
  BY <1>5, <1>7
<1>9. IsSum(g, w, S)
  BY <1>7, <1>8 DEF IsSum
<1>10. QED
  BY <1>7, <1>9

(* A sum is what one addend leaves of it and that addend. *)
Splits(g, w, S) == g[{}] = 0 /\ \A s \in SUBSET S : \A l \in s : g[s] = g[s \ {l}] + w[l]
LEMMA SumPart ==
  ASSUME NEW S, IsFiniteSet(S), NEW w, \A l \in S : w[l] \in Nat,
         NEW g, g \in [SUBSET S -> Nat], IsSum(g, w, S)
  PROVE  Splits(g, w, S)
<1> DEFINE C(s) == Cardinality(s)
<1> DEFINE Parts(s) == \A l \in s : g[s] = g[s \ {l}] + w[l]
<1> DEFINE T == {k \in Nat : \A s \in SUBSET S : C(s) <= k => Parts(s)}
<1>1. /\ \A s \in SUBSET S : C(s) \in Nat /\ (C(s) = 0 <=> s = {})
      /\ \A s \in SUBSET S : \A x \in s : C(s \ {x}) = C(s) - 1
  BY OneLess
<1>2. \A s \in SUBSET S : g[s] = IF s = {} THEN 0 ELSE g[s \ {Some(s)}] + w[Some(s)]
  BY DEF IsSum
<1>3. 0 \in T
  <2>1. \A s \in SUBSET S : C(s) <= 0 => s = {}
    BY <1>1
  <2>2. QED
    BY <2>1
<1>5. C(S) \in Nat /\ \A s \in SUBSET S : C(s) <= C(S)
  BY FS_Subset, FS_CardinalityType
<1> HIDE DEF C
<1>4. ASSUME NEW k \in 0..C(S) - 1, k \in T PROVE k + 1 \in T
  <2>1. SUFFICES ASSUME NEW s \in SUBSET S, C(s) <= k + 1, NEW l \in s
                 PROVE  g[s] = g[s \ {l}] + w[l]
    BY <1>4
  <2> DEFINE c == Some(s)
  <2>2. c \in s
    BY SomeIn
  <2> HIDE DEF c
  <2>3. g[s] = g[s \ {c}] + w[c]
    BY <1>2, <2>2 DEF c
  <2>4. CASE l = c
    BY <2>3, <2>4
  <2>5. CASE l # c
    <3>1. C(s \ {c}) <= k /\ C(s \ {l}) <= k
      BY <1>1, <2>1, <2>2
    <3>2. Parts(s \ {c}) /\ Parts(s \ {l})
      BY <1>4, <3>1
    <3>3. l \in s \ {c} /\ c \in s \ {l}
      BY <2>2, <2>5
    <3>4. (s \ {c}) \ {l} = (s \ {l}) \ {c}
      OBVIOUS
    <3>5. /\ g[s \ {c}] = g[(s \ {c}) \ {l}] + w[l]
          /\ g[s \ {l}] = g[(s \ {c}) \ {l}] + w[c]
      BY <3>2, <3>3, <3>4
    <3>6. g[(s \ {c}) \ {l}] \in Nat /\ w[l] \in Nat /\ w[c] \in Nat
      BY <2>2
    <3>7. QED
      BY <2>3, <3>5, <3>6
  <2>6. QED
    BY <2>4, <2>5
<1> HIDE DEF T
<1>6. C(S) \in T
  <2>1. \A k \in 0..C(S) : k \in T
    BY <1>3, <1>4, <1>5, CountUp
  <2>2. QED
    BY <1>5, <2>1
<1>7. \A s \in SUBSET S : Parts(s)
  BY <1>5, <1>6 DEF T
<1>8. QED
  BY <1>2, <1>7 DEF Splits

(* A sum depends on what it adds. *)
LEMMA SumSame ==
  ASSUME NEW S, IsFiniteSet(S), NEW w, NEW g, IsSum(g, w, S),
         NEW R, NEW v, NEW h, IsSum(h, v, R),
         NEW X \in SUBSET S, X \subseteq R, \A l \in X : w[l] = v[l]
  PROVE  g[X] = h[X]
<1> DEFINE C(s) == Cardinality(s)
<1> DEFINE T == {k \in Nat : \A s \in SUBSET X : C(s) <= k => g[s] = h[s]}
<1>0. IsFiniteSet(X)
  BY FS_Subset
<1>1. /\ \A s \in SUBSET X : C(s) \in Nat /\ (C(s) = 0 <=> s = {})
      /\ \A s \in SUBSET X : \A x \in s : C(s \ {x}) = C(s) - 1
  BY <1>0, OneLess
<1>2. /\ \A s \in SUBSET S : g[s] = IF s = {} THEN 0 ELSE g[s \ {Some(s)}] + w[Some(s)]
      /\ \A s \in SUBSET R : h[s] = IF s = {} THEN 0 ELSE h[s \ {Some(s)}] + v[Some(s)]
  BY DEF IsSum
<1>3. 0 \in T
  <2>1. \A s \in SUBSET X : C(s) <= 0 => s = {}
    BY <1>1
  <2>2. g[{}] = h[{}]
    BY <1>2
  <2>3. QED
    BY <2>1, <2>2
<1>5. C(X) \in Nat
  BY <1>1
<1> HIDE DEF C
<1>4. ASSUME NEW k \in 0..C(X) - 1, k \in T PROVE k + 1 \in T
  <2>1. SUFFICES ASSUME NEW s \in SUBSET X, C(s) <= k + 1, s # {}
                 PROVE  g[s] = h[s]
    <3>1. g[{}] = h[{}]
      BY <1>2
    <3>2. k + 1 \in Nat
      OBVIOUS
    <3>3. QED
      BY <2>1, <3>1, <3>2
  <2> DEFINE c == Some(s)
  <2>2. c \in s
    BY <2>1, SomeIn
  <2> HIDE DEF c
  <2>3. g[s] = g[s \ {c}] + w[c] /\ h[s] = h[s \ {c}] + v[c]
    BY <1>2, <2>1 DEF c
  <2>4. C(s \ {c}) <= k
    BY <1>1, <2>1, <2>2
  <2>5. g[s \ {c}] = h[s \ {c}]
    BY <1>4, <2>4
  <2>6. QED
    BY <2>2, <2>3, <2>5
<1> HIDE DEF T
<1>6. C(X) \in T
  <2>1. \A k \in 0..C(X) : k \in T
    BY <1>3, <1>4, <1>5, CountUp
  <2>2. QED
    BY <1>5, <2>1
<1>7. QED
  BY <1>5, <1>6 DEF T

Total(w, S) == FoldSet(LAMBDA l, n : n + w[l], 0, S)

LEMMA TotalIs ==
  ASSUME NEW S, NEW w, \E g : IsSum(g, w, S)
  PROVE  \E g : IsSum(g, w, S) /\ Total(w, S) = g[S]
<1> DEFINE g == CHOOSE f : IsSum(f, w, S)
<1>1. IsSum(g, w, S)
  OBVIOUS
<1>2. Total(w, S) = g[S]
  BY DEF Total, FoldSet, MapThenFoldSet, IsSum, Some
<1>3. QED
  BY <1>1, <1>2

LEMMA TotalFacts ==
  ASSUME NEW S, IsFiniteSet(S), NEW w, \A l \in S : w[l] \in Nat
  PROVE  /\ Total(w, S) \in Nat
         /\ S = {} => Total(w, S) = 0
         /\ \A l \in S : Total(w, S) = Total(w, S \ {l}) + w[l]
         /\ \A v : (\A l \in S : v[l] = w[l]) => Total(v, S) = Total(w, S)
<1>1. PICK g : g \in [SUBSET S -> Nat] /\ IsSum(g, w, S)
  BY SumTable
<1>2. PICK h : IsSum(h, w, S) /\ Total(w, S) = h[S]
  BY <1>1, TotalIs
<1>3. Total(w, S) = g[S]
  <2>1. S \in SUBSET S
    OBVIOUS
  <2>2. QED
    BY <1>1, <1>2, <2>1, SumSame
<1>4. Splits(g, w, S)
  BY <1>1, SumPart
<1>5. g[{}] = 0 /\ \A s \in SUBSET S : \A k \in s : g[s] = g[s \ {k}] + w[k]
  BY <1>4 DEF Splits
<1>6. ASSUME NEW l \in S PROVE Total(w, S) = Total(w, S \ {l}) + w[l]
  <2> DEFINE R == S \ {l}
  <2>1. IsFiniteSet(R) /\ R \in SUBSET S
    BY FS_Subset
  <2>2. \A k \in R : w[k] \in Nat
    OBVIOUS
  <2>3. \E f : IsSum(f, w, R)
    BY <2>1, <2>2, SumTable
  <2>4. PICK f : IsSum(f, w, R) /\ Total(w, R) = f[R]
    BY <2>3, TotalIs
  <2>5. g[R] = f[R]
    BY <1>1, <2>1, <2>4, SumSame
  <2>6. S \in SUBSET S
    OBVIOUS
  <2>7. g[S] = g[R] + w[l]
    BY <1>5, <2>6
  <2>8. QED
    BY <1>3, <2>4, <2>5, <2>7
<1>7. ASSUME NEW v, \A l \in S : v[l] = w[l] PROVE Total(v, S) = Total(w, S)
  <2>1. \A l \in S : v[l] \in Nat
    BY <1>7
  <2>2. \E f : IsSum(f, v, S)
    BY <2>1, SumTable
  <2>3. PICK f : IsSum(f, v, S) /\ Total(v, S) = f[S]
    BY <2>2, TotalIs
  <2>4. S \in SUBSET S /\ S \subseteq S
    OBVIOUS
  <2>5. g[S] = f[S]
    BY <1>1, <1>7, <2>3, <2>4, SumSame
  <2>6. QED
    BY <1>3, <2>3, <2>5
<1>8. S = {} => g[S] = 0
  BY <1>5
<1>9. g[S] \in Nat
  BY <1>1
<1>10. QED
  BY <1>3, <1>6, <1>7, <1>8, <1>9

(***************************************************************************)
(* What every state has: values of their types, and no list, text or loop  *)
(* that names an envelope the room has not, or one that wakes nobody.      *)
(***************************************************************************)
Envelope   == [to : Members, root : Ids, hops : Nat, wakes : BOOLEAN]
Books      == [held   : Seq(Ids),
               active : [Members -> Ids \cup {0}],
               notes  : [Members -> Seq(Ids)],
               pauses : SUBSET (Scopes \X Kinds),
               hops   : [Ids -> Nat],
               allow  : [Ids -> Nat],
               used   : [Members -> 0..TurnCap]]
Dispatches == [todo : Seq(Ids), at : {"claim", "drive", "took", "failed"},
               notes : Seq(Ids), ended : BOOLEAN]
Texts      == [env : Ids, notes : Seq(Ids)]

RoomTypes == /\ env \in Seq(Envelope) /\ Len(env) <= MaxEnv
             /\ live \in Books /\ room \in Books
             /\ caps \subseteq {<<Of(m), "turns">> : m \in Members}
             /\ turning \in [Members -> BOOLEAN] /\ stopped \in BOOLEAN /\ due \in BOOLEAN
LoopTypes == /\ loop \in [Loops -> Dispatches]
             /\ \A l \in Loops :
                  /\ loop[l].at # "claim" => loop[l].todo # <<>>
                  /\ loop[l].at = "claim" => loop[l].notes = <<>> /\ loop[l].ended = FALSE
SessionTypes ==
  /\ queue \in [Members -> Seq(Texts)] /\ opening \in [Members -> Seq(Texts)]
  /\ again \in [Members -> Seq(Texts)]
  /\ slot \in [Members -> {"idle", "claimed", "running"}] /\ open \in [Members -> Nat]
  /\ ending \in [Members -> {None, "ended", "failed", "interrupted", "notrun"}]

Waking == {i \in DOMAIN env : env[i].wakes}
HeldKnown == /\ Elems(live.held) \subseteq Waking /\ Elems(room.held) \subseteq Waking
             /\ unsaid \subseteq Waking /\ \A l \in Loops : Sent(l) \subseteq Waking
Mine(m)   == {t \in Texts : t.env \in Waking /\ To(t.env) = m}
TextsKnown == \A m \in Members : /\ queue[m] \in Seq(Mine(m)) /\ opening[m] \in Seq(Mine(m))
                                 /\ again[m] \in Seq(Mine(m))
(* The driver counts the turn that runs and the one that has not reported. *)
OpenInv == \A m \in Members :
  open[m] = (IF slot[m] = "running" THEN 1 ELSE 0) + (IF ending[m] # None THEN 1 ELSE 0)
Base == RoomTypes /\ LoopTypes /\ SessionTypes /\ HeldKnown /\ TextsKnown

USE RouterAssumption

LEMMA BaseInit == Init => Base
<1> SUFFICES ASSUME Init PROVE Base
  OBVIOUS
<1>1. Blank \in Books
  <2>1. \A c \in Ids : HopLimit \in Nat
    OBVIOUS
  <2>2. QED
    BY <2>1 DEF Blank, Books
<1>2. Free \in Dispatches
  BY DEF Free, Dispatches
<1>3. RoomTypes
  <2>1. env \in Seq(Envelope) /\ Len(env) <= MaxEnv
    BY DEF Init
  <2>2. turning \in [Members -> BOOLEAN] /\ stopped \in BOOLEAN /\ due \in BOOLEAN
    BY Zenon DEF Init
  <2>3. QED
    BY <1>1, <2>1, <2>2 DEF Init, RoomTypes
<1>4. LoopTypes
  BY <1>2 DEF Init, LoopTypes, Free
<1>5. SessionTypes
  BY DEF Init, Idle, SessionTypes, None
<1>6. HeldKnown
  BY DEF Init, HeldKnown, Sent, Elems, Free, Blank
<1>7. TextsKnown
  BY DEF Init, Idle, TextsKnown
<1>8. QED
  BY <1>3, <1>4, <1>5, <1>6, <1>7 DEF Base

(* The room only grows: what was known stays known, and the same. *)
Grows == /\ Waking \subseteq Waking'
         /\ \A e \in DOMAIN env : e \in DOMAIN env' /\ env'[e] = env[e]
LEMMA EnvGrows ==
  ASSUME RoomTypes, NEW e, env' = env \/ env' = Append(env, e)
  PROVE  Grows
<1>1. CASE env' = env
  BY <1>1 DEF Grows, Waking
<1>2. CASE env' = Append(env, e)
  <2>1. Len(env) \in Nat /\ DOMAIN env = 1..Len(env)
    BY DEF RoomTypes
  <2>2. DOMAIN env' = 1..Len(env) + 1 /\ \A i \in 1..Len(env) : env'[i] = env[i]
    BY <1>2, <2>1 DEF RoomTypes
  <2>3. QED
    BY <2>1, <2>2 DEF Grows, Waking
<1>3. QED
  BY <1>1, <1>2

LEMMA WakingTo ==
  ASSUME RoomTypes
  PROVE  /\ Waking \subseteq Ids /\ Waking \subseteq DOMAIN env
         /\ \A e \in DOMAIN env : e \in Ids /\ To(e) \in Members /\ Root(e) \in Ids
<1>1. DOMAIN env = 1..Len(env) /\ Len(env) \in Nat /\ \A e \in 1..Len(env) : env[e] \in Envelope
  BY DEF RoomTypes
<1>2. QED
  BY <1>1 DEF RoomTypes, Waking, Ids, Envelope, To, Root

LEMMA SeqWiden ==
  ASSUME NEW S, NEW T, NEW s \in Seq(S), S \subseteq T
  PROVE  s \in Seq(T)
OBVIOUS

LEMMA TextsStay ==
  ASSUME RoomTypes, Grows, NEW m \in Members, NEW s \in Seq(Mine(m))
  PROVE  s \in Seq(Mine(m)')
<1>1. Mine(m) \subseteq Mine(m)'
  BY DEF Mine, Grows, Waking, To
<1>2. QED
  BY <1>1, SeqWiden

(***************************************************************************)
(* What the operations on a book make of it.                               *)
(***************************************************************************)
LEMMA SettledBook ==
  ASSUME RoomTypes, NEW b \in Books, NEW e \in Waking, NEW n \in Nat
  PROVE  /\ Settled(b, e, n) \in Books /\ Settled(b, e, n).pauses = b.pauses
         /\ Settled(b, e, n).active = b.active /\ Settled(b, e, n).used = b.used
         /\ Elems(Settled(b, e, n).held) = Elems(b.held) \ {e}
         /\ Distinct(b.held) => Distinct(Settled(b, e, n).held)
<1> DEFINE h == Without(b.held, e)
<1> DEFINE m == To(e)
<1> DEFINE k == IF n > Len(b.notes[m]) THEN Len(b.notes[m]) ELSE n
<1> DEFINE s == SubSeq(b.notes[m], k + 1, Len(b.notes[m]))
<1>1. b.held \in Seq(Ids)
  BY DEF Books
<1>2. /\ h \in Seq(Ids) /\ Elems(h) = Elems(b.held) \ {e}
      /\ Distinct(b.held) => Distinct(h)
  <2>1. /\ h \in Seq(Ids) /\ Elems(h) = Elems(b.held) \cap (Elems(b.held) \ {e})
        /\ Distinct(b.held) => Distinct(h)
    BY <1>1, FilterFacts DEF Without
  <2>2. QED
    BY <2>1
<1>3. m \in Members
  BY WakingTo
<1>4. b.notes[m] \in Seq(Ids) /\ Len(b.notes[m]) \in Nat
  BY <1>3 DEF Books
<1>5. s \in Seq(Ids)
  <2>1. \A i \in k + 1..Len(b.notes[m]) : b.notes[m][i] \in Ids
    BY <1>4
  <2>2. QED
    BY <1>4, <2>1, SubSeqProperties
<1>6. Settled(b, e, n) = [b EXCEPT !.held = h, !.notes[m] = s]
  BY DEF Settled
<1> HIDE DEF h, s
<1>7. [b EXCEPT !.held = h, !.notes[m] = s] \in Books
  BY <1>2, <1>3, <1>5 DEF Books
<1>8. LET c == [b EXCEPT !.held = h, !.notes[m] = s] IN
      c.held = h /\ c.pauses = b.pauses /\ c.active = b.active /\ c.used = b.used
  BY DEF Books
<1>9. QED
  BY <1>2, <1>6, <1>7, <1>8

LEMMA PausingBook ==
  ASSUME NEW b \in Books, NEW P \in SUBSET (Scopes \X Kinds)
  PROVE  /\ Pausing(b, P) \in Books /\ Pausing(b, P).pauses = b.pauses \cup P
         /\ Pausing(b, P).held = b.held /\ Pausing(b, P).active = b.active
         /\ Pausing(b, P).used = b.used /\ Pausing(b, P).notes = b.notes
BY DEF Pausing, Books

LEMMA SpentBook ==
  ASSUME NEW b \in Books, NEW m \in Members
  PROVE  /\ Spent(b, m) \in Books /\ Spent(b, m).pauses = b.pauses
         /\ Spent(b, m).held = b.held /\ Spent(b, m).active = b.active
         /\ Spent(b, m).used = [b.used EXCEPT ![m] = IF @ < TurnCap THEN @ + 1 ELSE @]
<1> DEFINE u == [b.used EXCEPT ![m] = IF @ < TurnCap THEN @ + 1 ELSE @]
<1>1. b.used[m] \in 0..TurnCap /\ b.used \in [Members -> 0..TurnCap]
  BY DEF Books
<1>2. (IF b.used[m] < TurnCap THEN b.used[m] + 1 ELSE b.used[m]) \in 0..TurnCap
  BY <1>1
<1>3. u \in [Members -> 0..TurnCap]
  BY <1>1, <1>2
<1>4. Spent(b, m) = [b EXCEPT !.used = u]
  BY DEF Spent, Books
<1> HIDE DEF u
<1>5. QED
  BY <1>3, <1>4 DEF Books, u

LEMMA ResumedBook ==
  ASSUME NEW b \in Books, NEW s, NEW p \in BOOLEAN
  PROVE  LET c == Resumed(b, s, p) IN
         /\ c \in Books /\ c.held = b.held /\ c.active = b.active /\ c.used = b.used
         /\ c.pauses = {q \in b.pauses : q[1] # s \/ (p /\ q[2] # "person")}
<1>1. \A c \in Ids : b.hops[c] + HopLimit \in Nat /\ b.allow[c] \in Nat
  BY DEF Books
<1>2. QED
  BY <1>1 DEF Resumed, Books

LEMMA FailureScope ==
  ASSUME NEW m \in Members, NEW how
  PROVE  /\ Failure(m, how) \in SUBSET (Scopes \X Kinds)
         /\ {<<Of(m), "turns">>, <<Of(m), "cost">>} \in SUBSET (Scopes \X Kinds)
BY DEF Failure, Scopes, Kinds

LEMMA BrokenScope ==
  /\ Broken \in SUBSET (Scopes \X Kinds)
  /\ \A ok : Unrecorded(ok) \in SUBSET (Scopes \X Kinds) /\ Unrecorded(ok) \subseteq Broken
BY DEF Scopes, Kinds, Broken, Unrecorded

LEMMA TurnLineBook ==
  ASSUME NEW b \in Books, NEW m \in Members, NEW how, NEW c \in Ids \cup {0}
  PROVE  LET d == TurnLine(b, m, how, c) IN
         /\ d \in Books /\ d.held = b.held
         /\ d.pauses = b.pauses \cup Failure(m, how)
         /\ d.active = IF c = 0 THEN b.active ELSE [b.active EXCEPT ![m] = c]
         /\ d.used = [b.used EXCEPT ![m] = IF @ < TurnCap THEN @ + 1 ELSE @]
<1> DEFINE a == [b EXCEPT !.active[m] = IF c = 0 THEN @ ELSE c]
<1>1. a \in Books /\ a.held = b.held /\ a.pauses = b.pauses /\ a.used = b.used
      /\ a.active = IF c = 0 THEN b.active ELSE [b.active EXCEPT ![m] = c]
  BY DEF Books
<1>2. TurnLine(b, m, how, c) = Pausing(Spent(a, m), Failure(m, how))
  BY DEF TurnLine
<1> HIDE DEF a
<1> DEFINE sp == Spent(a, m)
<1>3. sp \in Books /\ sp.pauses = a.pauses /\ sp.held = a.held /\ sp.active = a.active
      /\ sp.used = [a.used EXCEPT ![m] = IF @ < TurnCap THEN @ + 1 ELSE @]
  BY <1>1, SpentBook
<1> HIDE DEF sp
<1> DEFINE d == Pausing(sp, Failure(m, how))
<1>4. d \in Books /\ d.pauses = sp.pauses \cup Failure(m, how) /\ d.held = sp.held
      /\ d.active = sp.active /\ d.used = sp.used
  BY <1>3, PausingBook, FailureScope
<1>5. TurnLine(b, m, how, c) = d
  BY <1>2 DEF sp
<1> HIDE DEF d
<1>6. QED
  BY <1>1, <1>3, <1>4, <1>5

(* Giving a book the rest of what it held. *)
LEMMA HeldBook ==
  ASSUME NEW b \in Books, NEW h \in Seq(Ids)
  PROVE  LET c == [b EXCEPT !.held = h] IN
         /\ c \in Books /\ c.held = h /\ c.pauses = b.pauses
         /\ c.active = b.active /\ c.used = b.used
BY DEF Books

Noted(b, m, n, hops)  == [b EXCEPT !.notes[m] = Append(@, n), !.hops = hops]
Holding(b, n, hops)   == [b EXCEPT !.held = Append(@, n), !.hops = hops]
LEMMA NotedBook ==
  ASSUME NEW b \in Books, NEW m \in Members, NEW n \in Ids, NEW hops \in [Ids -> Nat]
  PROVE  LET d == Noted(b, m, n, hops) IN
         /\ d \in Books /\ d.held = b.held /\ d.pauses = b.pauses
         /\ d.active = b.active /\ d.used = b.used
<1> DEFINE x == Append(b.notes[m], n)
<1> DEFINE y == [b.notes EXCEPT ![m] = x]
<1> DEFINE d == [b EXCEPT !.notes = y, !.hops = hops]
<1>1. b.notes \in [Members -> Seq(Ids)]
  BY DEF Books
<1>2. x \in Seq(Ids)
  BY <1>1
<1>3. y \in [Members -> Seq(Ids)]
  <2> HIDE DEF x
  <2>1. QED
    BY <1>1, <1>2
<1>4. Noted(b, m, n, hops) = d
  BY DEF Noted
<1> HIDE DEF y
<1>5. /\ d \in Books /\ d.held = b.held /\ d.pauses = b.pauses
      /\ d.active = b.active /\ d.used = b.used
  BY <1>3 DEF Books
<1> HIDE DEF d
<1>6. QED
  BY <1>4, <1>5

LEMMA HoldingBook ==
  ASSUME NEW b \in Books, NEW n \in Ids, NEW hops \in [Ids -> Nat]
  PROVE  LET d == Holding(b, n, hops) IN
         /\ d \in Books /\ d.held = Append(b.held, n) /\ d.pauses = b.pauses
         /\ d.active = b.active /\ d.used = b.used
<1> DEFINE x == Append(b.held, n)
<1> DEFINE d == [b EXCEPT !.held = x, !.hops = hops]
<1>1. b.held \in Seq(Ids)
  BY DEF Books
<1>2. x \in Seq(Ids)
  BY <1>1
<1>3. Holding(b, n, hops) = d
  BY DEF Holding
<1> HIDE DEF x
<1>4. /\ d \in Books /\ d.held = x /\ d.pauses = b.pauses
      /\ d.active = b.active /\ d.used = b.used
  BY <1>2 DEF Books
<1>5. QED
  BY <1>3, <1>4 DEF x

LEMMA RouteKnown ==
  ASSUME Base, NEW h \in Seq(Ids), Elems(h) \subseteq Waking, NEW P, NEW W \in SUBSET Members
  PROVE  LET r == Route(h, P, W) IN
         /\ r.held \in Seq(Ids) /\ r.out \in Seq(Ids)
         /\ Elems(r.held) \cup Elems(r.out) = Elems(h)
         /\ Distinct(h) => SortedOnce(r)
         /\ r.atWork = W \cup {To(e) : e \in Elems(r.out)}
         /\ \A e \in Elems(r.held) : Stays(P, r.atWork, e)
<1>1. \A e \in Elems(h) : To(e) \in Members
  BY WakingTo DEF Base
<1> DEFINE r == Route(h, P, W)
<1>2. Sorted(r, Elems(h), P, W) /\ (Distinct(h) => SortedOnce(r))
  BY <1>1, RouteFacts
<1> HIDE DEF r
<1>3. /\ r.held \in Seq(Ids) /\ r.out \in Seq(Ids)
      /\ Elems(r.held) \cup Elems(r.out) = Elems(h)
      /\ r.atWork = W \cup {To(e) : e \in Elems(r.out)}
      /\ \A e \in Elems(r.held) : Stays(P, r.atWork, e)
  BY <1>2 DEF Sorted, Routes
<1>4. QED
  BY <1>2, <1>3 DEF r

(***************************************************************************)
(* What a step may do to the dispatch calls: hand one that is free a list  *)
(* of deliveries, or let one go on behind the delivery it had.             *)
(***************************************************************************)
Handed(out) ==
  \/ out = <<>> /\ \A k \in Loops : loop'[k].todo = loop[k].todo
  \/ \E l \in Loops : /\ loop[l] = Free /\ loop'[l] = [Free EXCEPT !.todo = out]
                      /\ \A k \in Loops \ {l} : loop'[k].todo = loop[k].todo

LEMMA FreeIs ==
  ASSUME NEW out \in Seq(Ids)
  PROVE  LET f == [Free EXCEPT !.todo = out] IN
         /\ f \in Dispatches /\ f.todo = out /\ f.at = "claim" /\ f.notes = <<>>
         /\ f.ended = FALSE /\ Free \in Dispatches /\ Free.todo = <<>> /\ Free.at = "claim"
<1>1. Free = [todo |-> <<>>, at |-> "claim", notes |-> <<>>, ended |-> FALSE]
  BY DEF Free
<1>2. Free \in Dispatches
  BY <1>1 DEF Dispatches
<1> DEFINE f == [Free EXCEPT !.todo = out]
<1>3. f \in Dispatches /\ f.todo = out
  BY <1>2 DEF Dispatches
<1>4. f.at = Free.at /\ f.notes = Free.notes /\ f.ended = Free.ended
  BY <1>2 DEF Dispatches
<1>5. QED
  BY <1>1, <1>2, <1>3, <1>4

LEMMA DispatchFacts ==
  ASSUME LoopTypes, NEW out \in Seq(Ids), Dispatch(out)
  PROVE  /\ LoopTypes' /\ Handed(out)
         /\ \A k \in Loops : loop'[k] = loop[k] \/ loop'[k].at = "claim"
<1>1. CASE out = <<>>
  BY <1>1 DEF Dispatch, LoopTypes, Handed
<1>2. CASE out # <<>>
  <2>1. PICK l \in Loops : loop[l] = Free /\ loop' = [loop EXCEPT ![l].todo = out]
    BY <1>2 DEF Dispatch
  <2> DEFINE f == [Free EXCEPT !.todo = out]
  <2>2. loop' = [loop EXCEPT ![l] = f]
    BY <2>1
  <2>3. f \in Dispatches /\ f.at = "claim" /\ f.notes = <<>> /\ f.ended = FALSE
    BY FreeIs
  <2>4. Handed(out)
    BY <2>1, <2>2 DEF Handed, LoopTypes
  <2> HIDE DEF f
  <2>5. LoopTypes' /\ \A k \in Loops : loop'[k] = loop[k] \/ loop'[k].at = "claim"
    BY <2>2, <2>3 DEF LoopTypes
  <2>6. QED
    BY <2>4, <2>5
<1>3. QED
  BY <1>1, <1>2

LEMMA GoOnFacts ==
  ASSUME LoopTypes, NEW l \in Loops, loop[l].todo # <<>>, NEW out \in Seq(Ids), GoOn(l, out)
  PROVE  /\ LoopTypes'
         /\ loop'[l] = [Free EXCEPT !.todo = Tail(loop[l].todo) \o out]
         /\ loop'[l].todo = Tail(loop[l].todo) \o out /\ loop'[l].at = "claim"
         /\ \A k \in Loops \ {l} : loop'[k] = loop[k]
<1> DEFINE t == Tail(loop[l].todo) \o out
<1> DEFINE f == [Free EXCEPT !.todo = t]
<1>1. loop[l].todo \in Seq(Ids)
  BY DEF LoopTypes, Dispatches
<1>2. t \in Seq(Ids)
  BY <1>1
<1>3. f \in Dispatches /\ f.at = "claim" /\ f.notes = <<>> /\ f.ended = FALSE /\ f.todo = t
  <2> HIDE DEF t
  <2>1. QED
    BY <1>2, FreeIs
<1>4. loop' = [loop EXCEPT ![l] = f]
  BY DEF GoOn
<1> HIDE DEF f
<1>5. QED
  BY <1>3, <1>4 DEF LoopTypes, f

(* The end of m's turn, as the calls in flight hear it. *)
LEMMA EndedFacts ==
  ASSUME LoopTypes, NEW m
  PROVE  /\ Ended(m) \in [Loops -> Dispatches]
         /\ \A k \in Loops :
              /\ Ended(m)[k].todo = loop[k].todo /\ Ended(m)[k].at = loop[k].at
              /\ Ended(m)[k].notes = loop[k].notes
              /\ Ended(m)[k].ended = IF loop[k].at # "claim" /\ To(Current(k)) = m
                                     THEN TRUE ELSE loop[k].ended
<1>1. ASSUME NEW k \in Loops
      PROVE  /\ Ended(m)[k] \in Dispatches
             /\ Ended(m)[k].todo = loop[k].todo /\ Ended(m)[k].at = loop[k].at
             /\ Ended(m)[k].notes = loop[k].notes
             /\ Ended(m)[k].ended = IF loop[k].at # "claim" /\ To(Current(k)) = m
                                    THEN TRUE ELSE loop[k].ended
  <2>1. loop[k] \in Dispatches /\ (loop[k].at # "claim" => loop[k].todo # <<>>)
    BY DEF LoopTypes
  <2>2. CASE loop[k].at # "claim" /\ To(Current(k)) = m
    BY <2>1, <2>2 DEF Ended, Dispatches
  <2>3. CASE ~(loop[k].at # "claim" /\ To(Current(k)) = m)
    BY <2>1, <2>3 DEF Ended, Dispatches
  <2>4. QED
    BY <2>2, <2>3
<1>2. Ended(m) \in [Loops -> Dispatches]
  BY <1>1 DEF Ended
<1>3. QED
  BY <1>1, <1>2

LEMMA EndedTypes ==
  ASSUME LoopTypes, NEW m, loop' = Ended(m)
  PROVE  /\ LoopTypes' /\ Handed(<<>>)
         /\ \A k \in Loops : loop'[k].at = loop[k].at
                /\ loop'[k].ended = IF loop[k].at # "claim" /\ To(Current(k)) = m
                                    THEN TRUE ELSE loop[k].ended
<1> DEFINE E == Ended(m)
<1>1. /\ E \in [Loops -> Dispatches]
      /\ \A k \in Loops :
              /\ E[k].todo = loop[k].todo /\ E[k].at = loop[k].at
              /\ E[k].notes = loop[k].notes
              /\ E[k].ended = IF loop[k].at # "claim" /\ To(Current(k)) = m
                              THEN TRUE ELSE loop[k].ended
  BY EndedFacts
<1>2. loop' = E
  OBVIOUS
<1> HIDE DEF E
<1>3. \A k \in Loops : /\ loop[k].at # "claim" => loop[k].todo # <<>>
                       /\ loop[k].at = "claim" => loop[k].notes = <<>> /\ loop[k].ended = FALSE
  BY DEF LoopTypes
<1>4. LoopTypes'
  <2>1. loop' \in [Loops -> Dispatches]
    BY <1>1, <1>2
  <2>2. ASSUME NEW k \in Loops
        PROVE  /\ loop'[k].at # "claim" => loop'[k].todo # <<>>
               /\ loop'[k].at = "claim" => loop'[k].notes = <<>> /\ loop'[k].ended = FALSE
    <3>1. loop'[k].todo = loop[k].todo /\ loop'[k].at = loop[k].at /\ loop'[k].notes = loop[k].notes
      BY <1>1, <1>2
    <3>2. loop[k].at = "claim" => loop'[k].ended = loop[k].ended
      BY <1>1, <1>2
    <3>3. QED
      BY <1>3, <3>1, <3>2
  <2>3. QED
    BY <2>1, <2>2 DEF LoopTypes
<1>5. Handed(<<>>)
  BY <1>1, <1>2 DEF Handed
<1>6. QED
  BY <1>1, <1>2, <1>4, <1>5

LEMMA ReleaseEndedFacts ==
  ASSUME LoopTypes, NEW b, NEW m, ReleaseEnded(b, m),
         Route(b.held, b.pauses, StillAtWork(m)).out \in Seq(Ids)
  PROVE  /\ LoopTypes' /\ Handed(Route(b.held, b.pauses, StillAtWork(m)).out)
         /\ \A k \in Loops : \/ loop'[k].at = "claim"
              \/ /\ loop'[k].at = loop[k].at
                 /\ loop'[k].ended = IF loop[k].at # "claim" /\ To(Current(k)) = m
                                     THEN TRUE ELSE loop[k].ended
<1> DEFINE out == Route(b.held, b.pauses, StillAtWork(m)).out
<1>1. CASE out = <<>>
  <2>1. loop' = Ended(m)
    BY <1>1 DEF ReleaseEnded
  <2>2. QED
    BY <1>1, <2>1, EndedTypes
<1>2. CASE out # <<>>
  <2>1. PICK l \in Loops : loop[l] = Free /\ loop' = [Ended(m) EXCEPT ![l].todo = out]
    BY <1>2 DEF ReleaseEnded
  <2> HIDE DEF out
  <2>2. Free.at = "claim" /\ Free.todo = <<>>
    BY DEF Free
  <2>3. Ended(m)[l] = Free
    BY <2>1, <2>2 DEF Ended
  <2> DEFINE f == [Free EXCEPT !.todo = out]
  <2>4. loop' = [Ended(m) EXCEPT ![l] = f]
    BY <2>1, <2>3
  <2>5. f \in Dispatches /\ f.at = "claim" /\ f.notes = <<>> /\ f.ended = FALSE
    BY FreeIs DEF out
  <2>f. f = [Free EXCEPT !.todo = out]
    OBVIOUS
  <2> HIDE DEF f
  <2> DEFINE E == Ended(m)
  <2>e. /\ E \in [Loops -> Dispatches]
        /\ \A k \in Loops :
              /\ E[k].todo = loop[k].todo /\ E[k].at = loop[k].at
              /\ E[k].notes = loop[k].notes
              /\ E[k].ended = IF loop[k].at # "claim" /\ To(Current(k)) = m
                              THEN TRUE ELSE loop[k].ended
    BY EndedFacts
  <2>g. loop' = [E EXCEPT ![l] = f]
    BY <2>4
  <2> HIDE DEF E
  <2>6. loop' \in [Loops -> Dispatches] /\ loop'[l] = f
        /\ \A k \in Loops \ {l} : loop'[k] = E[k]
    BY <2>5, <2>e, <2>g
  <2>h. \A k \in Loops : /\ loop[k].at # "claim" => loop[k].todo # <<>>
                         /\ loop[k].at = "claim" => loop[k].notes = <<>> /\ loop[k].ended = FALSE
    BY DEF LoopTypes
  <2>7. LoopTypes'
    <3>1. ASSUME NEW k \in Loops
          PROVE  /\ loop'[k].at # "claim" => loop'[k].todo # <<>>
                 /\ loop'[k].at = "claim" => loop'[k].notes = <<>> /\ loop'[k].ended = FALSE
      <4>1. CASE k = l
        BY <2>5, <2>6, <4>1
      <4>2. CASE k # l
        <5>1. loop'[k] = E[k] /\ k \in Loops
          BY <2>6, <4>2
        <5>2. E[k].at = "claim" => E[k].ended = FALSE
          BY <2>e, <2>h, <5>1
        <5>3. E[k].at # "claim" => E[k].todo # <<>>
          BY <2>e, <2>h, <5>1
        <5>4. E[k].at = "claim" => E[k].notes = <<>>
          BY <2>e, <2>h, <5>1
        <5>5. QED
          BY <5>1, <5>2, <5>3, <5>4
      <4>3. QED
        BY <4>1, <4>2
    <3>2. QED
      BY <2>6, <3>1 DEF LoopTypes
  <2>8. Handed(out)
    <3>1. \A k \in Loops \ {l} : loop'[k].todo = loop[k].todo
      BY <2>6, <2>e
    <3>2. loop[l] = Free /\ loop'[l] = [Free EXCEPT !.todo = out]
      BY <2>1, <2>6, <2>f
    <3>3. QED
      BY <3>1, <3>2 DEF Handed
  <2>9. \A k \in Loops : \/ loop'[k].at = "claim"
              \/ /\ loop'[k].at = loop[k].at
                 /\ loop'[k].ended = IF loop[k].at # "claim" /\ To(Current(k)) = m
                                     THEN TRUE ELSE loop[k].ended
    BY <2>5, <2>6, <2>e
  <2>10. QED
    BY <2>7, <2>8, <2>9 DEF out
<1>3. QED
  BY <1>1, <1>2

(* What a call that was handed deliveries carries then. *)
LEMMA HandedSent ==
  ASSUME NEW out \in Seq(Ids), Handed(out)
  PROVE  \A k \in Loops : Sent(k)' = Sent(k) \/ Sent(k)' = Elems(out)
<1>1. [Free EXCEPT !.todo = out].todo = out
  BY FreeIs
<1>2. CASE \A k \in Loops : loop'[k].todo = loop[k].todo
  BY <1>2 DEF Sent
<1>3. ASSUME NEW l \in Loops, loop'[l] = [Free EXCEPT !.todo = out],
             \A k \in Loops \ {l} : loop'[k].todo = loop[k].todo
      PROVE  \A k \in Loops : Sent(k)' = Sent(k) \/ Sent(k)' = Elems(out)
  <2>1. loop'[l].todo = out
    BY <1>1, <1>3
  <2>2. QED
    BY <1>3, <2>1 DEF Sent
<1>4. QED
  BY <1>2, <1>3 DEF Handed

(***************************************************************************)
(* A new envelope, in the books that have its line.                        *)
(***************************************************************************)
New == Len(env) + 1
Entered(wakes) ==
  /\ Grows /\ New \notin DOMAIN env /\ New \in Ids
  /\ \E X \in SUBSET Broken : live'.pauses = live.pauses \cup X /\ unlined' = unlined \cup X
  /\ room'.pauses = room.pauses
  /\ live'.active = live.active /\ live'.used = live.used
  /\ room'.active = room.active /\ room'.used = room.used
  /\ ~wakes => live'.held = live.held /\ room'.held = room.held /\ loop' = loop
  /\ wakes => /\ New \in Waking' /\ room'.held = Append(room.held, New)
              /\ \/ live'.held = Append(live.held, New) /\ loop' = loop
                 \/ live'.held = live.held /\ Handed(<<New>>)

LEMMA EnterBase ==
  ASSUME Base, NEW e \in Envelope, NEW b \in Books, Len(env) < MaxEnv,
         b.held = live.held, b.pauses = live.pauses, b.active = live.active,
         b.used = live.used, Enter(e, b)
  PROVE  Base' /\ Entered(e.wakes)
<1> DEFINE m == e.to
<1>1. env \in Seq(Envelope) /\ Len(env) \in Nat /\ DOMAIN env = 1..Len(env)
  BY DEF Base, RoomTypes
<1>2. New \in Ids /\ New \notin DOMAIN env
  BY <1>1 DEF New, Ids
<1>3. env' = Append(env, e) /\ m \in Members
  BY DEF Enter, Envelope
<1>4. env' \in Seq(Envelope) /\ Len(env') <= MaxEnv /\ env'[New] = e /\ New \in DOMAIN env'
  BY <1>1, <1>3 DEF New
<1>5. Grows
  BY <1>3, EnvGrows DEF Base
<1>6. UNCHANGED <<caps, turning, stopped, due, session, unsaid>>
  BY DEF Enter
<1>7. live \in Books /\ room \in Books /\ LoopTypes
  BY DEF Base, RoomTypes
<1>8. SessionTypes' /\ TextsKnown'
  <2>1. SessionTypes'
    BY <1>6 DEF session, Base, SessionTypes
  <2>2. \A k \in Members : /\ queue[k] \in Seq(Mine(k)') /\ opening[k] \in Seq(Mine(k)')
                           /\ again[k] \in Seq(Mine(k)')
    BY <1>5, TextsStay DEF Base, TextsKnown
  <2>3. QED
    BY <1>6, <2>1, <2>2 DEF session, TextsKnown
<1> DEFINE c == Noted(b, m, New, b.hops)
<1> DEFINE d == Noted(room, m, New, b.hops)
<1> DEFINE g == Holding(b, New, b.hops)
<1> DEFINE h == Holding(room, New, b.hops)
<1>h. b.hops \in [Ids -> Nat]
  BY DEF Books
<1>9. /\ c \in Books /\ c.held = b.held /\ c.pauses = b.pauses /\ c.active = b.active
      /\ c.used = b.used
  BY <1>2, <1>3, <1>h, NotedBook
<1>10. /\ d \in Books /\ d.held = room.held /\ d.pauses = room.pauses /\ d.active = room.active
       /\ d.used = room.used
  BY <1>2, <1>3, <1>7, <1>h, NotedBook
<1>11. /\ g \in Books /\ g.held = Append(b.held, New) /\ g.pauses = b.pauses
       /\ g.active = b.active /\ g.used = b.used
  BY <1>2, <1>h, HoldingBook
<1>12. /\ h \in Books /\ h.held = Append(room.held, New) /\ h.pauses = room.pauses
       /\ h.active = room.active /\ h.used = room.used
  BY <1>2, <1>7, <1>h, HoldingBook
<1>13. /\ Elems(Append(b.held, New)) = Elems(live.held) \cup {New}
       /\ Elems(Append(room.held, New)) = Elems(room.held) \cup {New}
  <2>1. b.held \in Seq(Ids) /\ room.held \in Seq(Ids)
    BY <1>7 DEF Books
  <2>2. QED
    BY <1>2, <2>1, AppendFacts
<1>14. Elems(live.held) \subseteq Waking' /\ Elems(room.held) \subseteq Waking'
       /\ unsaid' \subseteq Waking' /\ \A l \in Loops : Sent(l) \subseteq Waking'
  BY <1>5, <1>6 DEF Grows, Base, HeldKnown
<1>15. live' \in Books /\ room' \in Books => RoomTypes'
  BY <1>4, <1>6 DEF Base, RoomTypes
<1>16. CASE ~e.wakes
  <2>1. live' = c /\ room' = d /\ loop' = loop /\ unlined' = unlined
    <3>1. [b EXCEPT !.notes[m] = Append(@, New)] = c
      BY DEF Noted, Books
    <3>2. QED
      BY <1>16, <3>1 DEF Enter, New, Noted
  <2> HIDE DEF c, d
  <2>2. RoomTypes' /\ LoopTypes'
    BY <1>7, <1>9, <1>10, <1>15, <2>1 DEF LoopTypes
  <2>3. HeldKnown'
    BY <1>9, <1>10, <1>14, <2>1 DEF HeldKnown, Sent
  <2>4. Entered(e.wakes)
    <3>1. {} \in SUBSET Broken /\ live'.pauses = live.pauses \cup {} /\ unlined' = unlined \cup {}
      BY <1>9, <2>1
    <3>2. QED
      BY <1>2, <1>5, <1>9, <1>10, <1>16, <2>1, <3>1 DEF Entered
  <2>5. QED
    BY <1>8, <2>2, <2>3, <2>4 DEF Base
<1>17. CASE e.wakes
  <2>1. New \in Waking'
    BY <1>4, <1>17 DEF Waking
  <2>2. room' = h
    BY <1>17 DEF Enter, New, Holding
  <2>3. ASSUME NEW ok, live' = Pausing(g, Unrecorded(ok)), unlined' = unlined \cup Unrecorded(ok),
               loop' = loop
        PROVE  Base' /\ Entered(e.wakes)
    <3> HIDE DEF g, h
    <3>1. live' \in Books /\ live'.pauses = g.pauses \cup Unrecorded(ok) /\ live'.held = g.held
          /\ live'.active = g.active /\ live'.used = g.used
      <4>1. g \in Books /\ Unrecorded(ok) \in SUBSET (Scopes \X Kinds)
        BY <1>11, BrokenScope
      <4>2. QED
        BY <2>3, <4>1, PausingBook
    <3>2. RoomTypes' /\ LoopTypes'
      BY <1>7, <1>12, <1>15, <2>2, <2>3, <3>1 DEF LoopTypes
    <3>3. HeldKnown'
      BY <1>11, <1>12, <1>13, <1>14, <2>1, <2>2, <2>3, <3>1 DEF HeldKnown, Sent
    <3>4. Unrecorded(ok) \in SUBSET Broken
      BY DEF Unrecorded
    <3>5. Entered(e.wakes)
      BY <1>2, <1>5, <1>11, <1>12, <1>17, <2>1, <2>2, <2>3, <3>1, <3>4 DEF Entered
    <3>6. QED
      BY <1>8, <3>2, <3>3, <3>5 DEF Base
  <2>4. ASSUME live' = b, Dispatch(<<New>>), unlined' = unlined
        PROVE  Base' /\ Entered(e.wakes)
    <3> HIDE DEF g, h
    <3>1. <<New>> \in Seq(Ids) /\ Elems(<<New>>) = {New}
      BY <1>2 DEF Elems
    <3>2. LoopTypes' /\ Handed(<<New>>)
      BY <1>7, <2>4, <3>1, DispatchFacts
    <3>3. \A l \in Loops : Sent(l)' = Sent(l) \/ Sent(l)' = {New}
      BY <3>1, <3>2, HandedSent
    <3>4. RoomTypes'
      BY <1>12, <1>15, <2>2, <2>4
    <3>5. HeldKnown'
      BY <1>12, <1>13, <1>14, <2>1, <2>2, <2>4, <3>3 DEF HeldKnown
    <3>6. Entered(e.wakes)
      <4>1. {} \in SUBSET Broken /\ live'.pauses = live.pauses \cup {} /\ unlined' = unlined \cup {}
        BY <2>4
      <4>2. QED
        BY <1>2, <1>5, <1>12, <1>17, <2>1, <2>2, <2>4, <3>2, <4>1 DEF Entered
    <3>7. QED
      BY <1>8, <3>2, <3>4, <3>5, <3>6 DEF Base
  <2>5. \/ \E ok : /\ live' = Pausing(g, Unrecorded(ok)) /\ unlined' = unlined \cup Unrecorded(ok)
                   /\ loop' = loop
        \/ live' = b /\ Dispatch(<<New>>) /\ unlined' = unlined
    <3>1. [b EXCEPT !.held = Append(@, New)] = g
      BY DEF Holding, Books
    <3>2. QED
      BY <1>17, <3>1 DEF Enter, New
  <2>6. QED
    BY <2>3, <2>4, <2>5
<1>18. QED
  BY <1>16, <1>17

LEMMA OneHopBook ==
  ASSUME live \in Books, NEW c \in Ids
  PROVE  /\ OneHop(c) \in Books /\ OneHop(c).held = live.held /\ OneHop(c).pauses = live.pauses
         /\ OneHop(c).active = live.active /\ OneHop(c).used = live.used
<1> DEFINE y == [live.hops EXCEPT ![c] = @ + 1]
<1>1. y \in [Ids -> Nat]
  BY DEF Books
<1>2. OneHop(c) = [live EXCEPT !.hops = y]
  BY DEF OneHop
<1> HIDE DEF y
<1>3. QED
  BY <1>1, <1>2 DEF Books

(* The envelope a post or a member's send makes, and the book it goes into. *)
LEMMA PostEnters ==
  ASSUME Base, NEW m \in Members, Post(m)
  PROVE  Base' /\ Entered(TRUE)
<1> DEFINE e == [to |-> m, root |-> Len(env) + 1, hops |-> 0, wakes |-> TRUE]
<1>1. live \in Books /\ Len(env) < MaxEnv /\ Len(env) + 1 \in Ids
  BY DEF Base, RoomTypes, Post, Ids
<1>2. e \in Envelope /\ e.wakes = TRUE
  BY <1>1 DEF Envelope
<1>3. Enter(e, live)
  BY DEF Post
<1> HIDE DEF e
<1>4. Base' /\ Entered(e.wakes)
  BY <1>1, <1>2, <1>3, EnterBase
<1>5. QED
  BY <1>2, <1>4

LEMMA SendEnters ==
  ASSUME Base, NEW m \in Members, NEW to \in Members, NEW wakes \in BOOLEAN, Send(m, to, wakes)
  PROVE  Base' /\ Entered(wakes)
<1> DEFINE c == live.active[m]
<1> DEFINE e == [to |-> to, root |-> c, hops |-> live.hops[c] + 1, wakes |-> wakes]
<1>1. live \in Books /\ Len(env) < MaxEnv
  BY DEF Base, RoomTypes, Send
<1>2. c \in Ids
  BY <1>1 DEF Send, MaySend, Books
<1>3. live.hops[c] + 1 \in Nat
  BY <1>1, <1>2 DEF Books
<1>4. e \in Envelope /\ e.wakes = wakes
  BY <1>2, <1>3 DEF Envelope
<1>5. Enter(e, OneHop(c))
  BY DEF Send
<1> HIDE DEF e, c
<1>6. Base' /\ Entered(e.wakes)
  BY <1>1, <1>2, <1>4, <1>5, OneHopBook, EnterBase
<1>7. QED
  BY <1>4, <1>6

(***************************************************************************)
(* The other steps, one by one.                                            *)
(***************************************************************************)
LEMMA Still ==
  ASSUME env' = env
  PROVE  Waking' = Waking /\ \A m : Mine(m)' = Mine(m)
BY DEF Waking, Mine, To

LEMMA SessionStill ==
  ASSUME Base, env' = env, UNCHANGED session
  PROVE  SessionTypes' /\ TextsKnown'
BY Still DEF Base, SessionTypes, TextsKnown, session

(* A pause P that the room takes, or cannot take. *)
Trips(P) ==
  /\ live'.held = live.held /\ live'.active = live.active /\ live'.used = live.used
  /\ room'.held = room.held /\ room'.active = room.active /\ room'.used = room.used
  /\ live'.pauses = live.pauses \cup P
  /\ \/ room'.pauses = room.pauses \cup P /\ unlined' = unlined \ P
     \/ room'.pauses = room.pauses /\ unlined' = unlined \cup P
  /\ UNCHANGED <<env, caps, turning, loop, stopped, due, session, told, unsaid, late, leaked>>

LEMMA TripsBase ==
  ASSUME Base, NEW P, Trips(P), live' \in Books, room' \in Books
  PROVE  Base'
<1>1. SessionTypes' /\ TextsKnown'
  BY SessionStill DEF Trips
<1>2. RoomTypes' /\ LoopTypes'
  BY DEF Base, RoomTypes, LoopTypes, Trips, Current
<1>3. HeldKnown'
  BY DEF Base, HeldKnown, Waking, Sent, Trips
<1>4. QED
  BY <1>1, <1>2, <1>3 DEF Base

LEMMA PausesTrip ==
  ASSUME Base, NEW P \in SUBSET (Scopes \X Kinds), live' = Pausing(live, P),
         \/ room' = Pausing(room, P) /\ unlined' = unlined \ P
         \/ room' = room /\ unlined' = unlined \cup P,
         UNCHANGED <<env, caps, turning, loop, stopped, due, session, told, unsaid, late, leaked>>
  PROVE  Base' /\ Trips(P)
<1>1. live \in Books /\ room \in Books
  BY DEF Base, RoomTypes
<1>2. /\ live' \in Books /\ live'.held = live.held /\ live'.active = live.active
      /\ live'.used = live.used /\ live'.pauses = live.pauses \cup P
  BY <1>1, PausingBook
<1>3. /\ room' \in Books /\ room'.held = room.held /\ room'.active = room.active
      /\ room'.used = room.used
      /\ \/ room'.pauses = room.pauses \cup P /\ unlined' = unlined \ P
         \/ room'.pauses = room.pauses /\ unlined' = unlined \cup P
  BY <1>1, PausingBook
<1>4. Trips(P)
  BY <1>2, <1>3 DEF Trips
<1>5. QED
  BY <1>2, <1>3, <1>4, TripsBase

LEMMA SendUnrecordedTrips ==
  ASSUME Base, NEW m \in Members, SendUnrecorded(m)
  PROVE  Base' /\ Trips({})
<1>1. live \in Books /\ room \in Books
  BY DEF Base, RoomTypes
<1>2. live.active[m] \in Ids /\ live' = OneHop(live.active[m]) /\ room' = room
  BY <1>1 DEF SendUnrecorded, MaySend, Books
<1>3. /\ live' \in Books /\ live'.held = live.held /\ live'.active = live.active
      /\ live'.used = live.used /\ live'.pauses = live.pauses
  BY <1>1, <1>2, OneHopBook
<1>4. UNCHANGED <<env, caps, turning, loop, stopped, due, session, told, unsaid, unlined, late, leaked>>
  BY DEF SendUnrecorded, history
<1>5. Trips({})
  BY <1>2, <1>3, <1>4 DEF Trips
<1>6. QED
  BY <1>1, <1>2, <1>3, <1>5, TripsBase

LEMMA SendTooFarTrips ==
  ASSUME Base, NEW m \in Members, SendTooFar(m)
  PROVE  Base' /\ \E P : Trips(P)
<1> DEFINE P == {<<On(live.active[m]), "guard">>}
<1>1. live \in Books
  BY DEF Base, RoomTypes
<1>2. P \in SUBSET (Scopes \X Kinds)
  BY <1>1 DEF SendTooFar, MaySend, Books, Scopes, Kinds
<1>3. /\ live' = Pausing(live, P)
      /\ \/ room' = Pausing(room, P) /\ unlined' = unlined \ P
         \/ room' = room /\ unlined' = unlined \cup P
      /\ UNCHANGED <<env, caps, turning, loop, stopped, due, session, told, unsaid, late, leaked>>
  BY DEF SendTooFar
<1> HIDE DEF P
<1>4. QED
  BY <1>2, <1>3, PausesTrip

LEMMA PauseTrips ==
  ASSUME Base, NEW s \in Scopes, Pause(s)
  PROVE  Base' /\ \E P : Trips(P)
<1> DEFINE P == {<<s, "person">>}
<1>1. P \in SUBSET (Scopes \X Kinds)
  BY DEF Kinds
<1>2. /\ live' = Pausing(live, P)
      /\ \/ room' = Pausing(room, P) /\ unlined' = unlined \ P
         \/ room' = room /\ unlined' = unlined \cup P
      /\ UNCHANGED <<env, caps, turning, loop, stopped, due, session, told, unsaid, late, leaked>>
  BY DEF Pause
<1> HIDE DEF P
<1>3. QED
  BY <1>1, <1>2, PausesTrip

(* Where a dispatch call is, and what it carries. *)
LEMMA CarryFacts ==
  ASSUME Base, NEW l \in Loops, loop[l].todo # <<>>
  PROVE  /\ loop[l].todo \in Seq(Ids) /\ Current(l) \in Sent(l) /\ Current(l) \in Waking
         /\ Current(l) \in Ids /\ To(Current(l)) \in Members /\ Root(Current(l)) \in Ids
         /\ Tail(loop[l].todo) \in Seq(Ids)
         /\ Sent(l) = Elems(Tail(loop[l].todo)) \cup {Current(l)}
         /\ Distinct(loop[l].todo) => /\ Distinct(Tail(loop[l].todo))
                                      /\ Current(l) \notin Elems(Tail(loop[l].todo))
<1>1. loop[l].todo \in Seq(Ids) /\ Sent(l) \subseteq Waking
  BY DEF Base, LoopTypes, Dispatches, HeldKnown
<1>2. Tail(loop[l].todo) \in Seq(Ids)
  BY <1>1
<1>3. /\ Elems(loop[l].todo) = Elems(Tail(loop[l].todo)) \cup {Head(loop[l].todo)}
      /\ Distinct(loop[l].todo) => /\ Distinct(Tail(loop[l].todo))
                                   /\ Head(loop[l].todo) \notin Elems(Tail(loop[l].todo))
  BY <1>1, TailFacts
<1>4. Current(l) \in Waking
  BY <1>1, <1>3 DEF Sent, Current
<1>5. QED
  BY <1>1, <1>2, <1>3, <1>4, WakingTo DEF Base, Sent, Current

(* A book whose notes for one member change. *)
LEMMA NotesBook ==
  ASSUME NEW b \in Books, NEW m \in Members, NEW n \in Seq(Ids)
  PROVE  LET c == [b EXCEPT !.notes[m] = n] IN
         /\ c \in Books /\ c.held = b.held /\ c.pauses = b.pauses
         /\ c.active = b.active /\ c.used = b.used
<1> DEFINE y == [b.notes EXCEPT ![m] = n]
<1> DEFINE c == [b EXCEPT !.notes = y]
<1>1. y \in [Members -> Seq(Ids)]
  BY DEF Books
<1>2. [b EXCEPT !.notes[m] = n] = c
  OBVIOUS
<1> HIDE DEF y
<1>3. /\ c \in Books /\ c.held = b.held /\ c.pauses = b.pauses
      /\ c.active = b.active /\ c.used = b.used
  BY <1>1 DEF Books
<1> HIDE DEF c
<1>4. QED
  BY <1>2, <1>3

LEMMA ClaimBase ==
  ASSUME Base, NEW l \in Loops, Claim(l)
  PROVE  /\ Base' /\ live'.held = live.held /\ live'.pauses = live.pauses
         /\ live'.active = live.active /\ live'.used = live.used
         /\ loop' = [loop EXCEPT ![l].at = "drive", ![l].ended = FALSE,
                                 ![l].notes = live.notes[To(Current(l))]]
         /\ loop' \in [Loops -> Dispatches]
         /\ loop'[l].at = "drive" /\ loop'[l].todo = loop[l].todo
<1> DEFINE n == live.notes[To(Current(l))]
<1>1. live \in Books /\ loop[l].todo # <<>> /\ loop[l] \in Dispatches /\ LoopTypes
  BY DEF Base, RoomTypes, LoopTypes, Claim
<1>2. To(Current(l)) \in Members
  BY <1>1, CarryFacts
<1>3. n \in Seq(Ids)
  BY <1>1, <1>2 DEF Books
<1>4. live' = [live EXCEPT !.notes[To(Current(l))] = <<>>] /\ <<>> \in Seq(Ids)
  BY DEF Claim
<1>5. /\ live' \in Books /\ live'.held = live.held /\ live'.pauses = live.pauses
      /\ live'.active = live.active /\ live'.used = live.used
  BY <1>1, <1>2, <1>4, NotesBook
<1>6. UNCHANGED <<env, room, caps, turning, stopped, due, session, unsaid>>
  BY DEF Claim, history
<1>7. SessionTypes' /\ TextsKnown'
  BY <1>6, SessionStill
<1> HIDE DEF n
<1>8. /\ loop' = [loop EXCEPT ![l].at = "drive", ![l].ended = FALSE, ![l].notes = n]
      /\ loop' \in [Loops -> Dispatches]
      /\ loop'[l].at = "drive" /\ loop'[l].todo = loop[l].todo
      /\ \A k \in Loops \ {l} : loop'[k] = loop[k]
  <2>1. loop' = [loop EXCEPT ![l].at = "drive", ![l].ended = FALSE, ![l].notes = n]
    BY DEF Claim, n
  <2>2. QED
    BY <1>1, <1>3, <2>1 DEF LoopTypes, Dispatches
<1>9. LoopTypes'
  <2>1. ASSUME NEW k \in Loops
        PROVE  /\ loop'[k].at # "claim" => loop'[k].todo # <<>>
               /\ loop'[k].at = "claim" => loop'[k].notes = <<>> /\ loop'[k].ended = FALSE
    <3>1. CASE k = l
      BY <1>1, <1>8, <3>1
    <3>2. CASE k # l
      BY <1>1, <1>8, <3>2 DEF LoopTypes
    <3>3. QED
      BY <3>1, <3>2
  <2>2. QED
    BY <1>8, <2>1 DEF LoopTypes
<1>10. RoomTypes'
  BY <1>5, <1>6 DEF Base, RoomTypes
<1>11. HeldKnown'
  <2>1. \A k \in Loops : loop'[k].todo = loop[k].todo
    BY <1>8
  <2>2. QED
    BY <1>5, <1>6, <2>1, Still DEF Base, HeldKnown, Sent
<1>12. QED
  BY <1>5, <1>7, <1>8, <1>9, <1>10, <1>11 DEF Base, n

LEMMA HoldLateBase ==
  ASSUME Base, NEW l \in Loops, HoldLate(l)
  PROVE  /\ Base' /\ live'.held = Append(live.held, Current(l)) /\ live'.pauses = live.pauses
         /\ live'.active = live.active /\ live'.used = live.used
         /\ loop[l].at = "claim" /\ loop'[l].at = "claim"
         /\ loop'[l].todo = Tail(loop[l].todo)
         /\ \A k \in Loops \ {l} : loop'[k] = loop[k]
<1>1. live \in Books /\ loop[l].todo # <<>> /\ loop[l] \in Dispatches /\ LoopTypes
  BY DEF Base, RoomTypes, LoopTypes, HoldLate
<1>2. Current(l) \in Ids /\ Current(l) \in Waking /\ Tail(loop[l].todo) \in Seq(Ids)
      /\ Sent(l) = Elems(Tail(loop[l].todo)) \cup {Current(l)}
  BY <1>1, CarryFacts
<1>3. live.hops \in [Ids -> Nat]
  BY <1>1 DEF Books
<1>4. live' = Holding(live, Current(l), live.hops)
  BY <1>1 DEF HoldLate, Holding, Books
<1>5. /\ live' \in Books /\ live'.held = Append(live.held, Current(l))
      /\ live'.pauses = live.pauses /\ live'.active = live.active /\ live'.used = live.used
  BY <1>1, <1>2, <1>3, <1>4, HoldingBook
<1>6. UNCHANGED <<env, room, caps, turning, stopped, due, session, unsaid>>
  BY DEF HoldLate
<1>7. SessionTypes' /\ TextsKnown'
  BY <1>6, SessionStill
<1> DEFINE t == Tail(loop[l].todo)
<1>t. t \in Seq(Ids) /\ loop' = [loop EXCEPT ![l].todo = t] /\ loop[l].at = "claim"
  BY <1>2 DEF HoldLate
<1> HIDE DEF t
<1>8. /\ loop' \in [Loops -> Dispatches]
      /\ loop'[l].todo = t /\ loop'[l].at = "claim"
      /\ loop'[l].notes = loop[l].notes /\ loop'[l].ended = loop[l].ended
      /\ \A k \in Loops \ {l} : loop'[k] = loop[k]
  BY <1>1, <1>t DEF LoopTypes, Dispatches
<1>9. LoopTypes'
  <2>1. ASSUME NEW k \in Loops
        PROVE  /\ loop'[k].at # "claim" => loop'[k].todo # <<>>
               /\ loop'[k].at = "claim" => loop'[k].notes = <<>> /\ loop'[k].ended = FALSE
    <3>1. CASE k = l
      BY <1>1, <1>8, <1>t, <3>1 DEF LoopTypes
    <3>2. CASE k # l
      BY <1>1, <1>8, <3>2 DEF LoopTypes
    <3>3. QED
      BY <3>1, <3>2
  <2>2. QED
    BY <1>8, <2>1 DEF LoopTypes
<1>10. RoomTypes'
  BY <1>5, <1>6 DEF Base, RoomTypes
<1>11. HeldKnown'
  <2>1. live.held \in Seq(Ids)
    BY <1>1 DEF Books
  <2>2. Elems(live'.held) = Elems(live.held) \cup {Current(l)}
    BY <1>2, <1>5, <2>1, AppendFacts
  <2>3. Sent(l)' \subseteq Sent(l) /\ \A k \in Loops \ {l} : Sent(k)' = Sent(k)
    BY <1>2, <1>8 DEF Sent, t
  <2>4. \A k \in Loops : Sent(k)' \subseteq Waking
    BY <2>3 DEF Base, HeldKnown
  <2>5. QED
    BY <1>2, <1>6, <2>2, <2>4, Still DEF Base, HeldKnown
<1>12. QED
  BY <1>5, <1>7, <1>8, <1>9, <1>10, <1>11, <1>t DEF Base, t

(* A call between the claim and the settling moves on: only its place changes. *)
LEMMA PlacedLoop ==
  ASSUME LoopTypes, NEW l \in Loops, loop[l].at # "claim",
         NEW at \in {"took", "failed"}, loop' = [loop EXCEPT ![l].at = at]
  PROVE  /\ LoopTypes' /\ loop'[l].at = at /\ loop'[l].ended = loop[l].ended
         /\ \A k \in Loops : loop'[k].todo = loop[k].todo
         /\ \A k \in Loops \ {l} : loop'[k] = loop[k]
<1>1. loop[l] \in Dispatches /\ loop[l].todo # <<>>
  BY DEF LoopTypes
<1>2. /\ loop' \in [Loops -> Dispatches] /\ loop'[l].at = at /\ loop'[l].ended = loop[l].ended
      /\ loop'[l].todo = loop[l].todo
      /\ \A k \in Loops \ {l} : loop'[k] = loop[k]
  BY <1>1 DEF LoopTypes, Dispatches
<1>3. ASSUME NEW k \in Loops
      PROVE  /\ loop'[k].at # "claim" => loop'[k].todo # <<>>
             /\ loop'[k].at = "claim" => loop'[k].notes = <<>> /\ loop'[k].ended = FALSE
  <2>1. CASE k = l
    BY <1>1, <1>2, <2>1
  <2>2. CASE k # l
    BY <1>2, <2>2 DEF LoopTypes
  <2>3. QED
    BY <2>1, <2>2
<1>4. LoopTypes'
  BY <1>2, <1>3 DEF LoopTypes
<1>5. QED
  BY <1>2, <1>4

LEMMA DriverTakesBase ==
  ASSUME Base, NEW l \in Loops, DriverTakes(l)
  PROVE  Base'
<1> DEFINE m == To(Current(l))
<1>1. LoopTypes /\ loop[l].at = "drive" /\ loop[l].todo # <<>> /\ loop[l] \in Dispatches
  BY DEF Base, LoopTypes, DriverTakes
<1>2. Current(l) \in Waking /\ Current(l) \in Ids /\ m \in Members
  BY <1>1, CarryFacts
<1>3. Text(l) \in Mine(m)
  BY <1>1, <1>2 DEF Text, Mine, Texts, Dispatches
<1>4. UNCHANGED <<env, live, room, caps, turning, stopped, due, open, ending, again, unsaid>>
      /\ loop' = [loop EXCEPT ![l].at = "took"]
  BY DEF DriverTakes, history
<1>5. LoopTypes' /\ \A k \in Loops : loop'[k].todo = loop[k].todo
  BY <1>1, <1>4, PlacedLoop
<1>6. RoomTypes' /\ HeldKnown'
  BY <1>4, <1>5, Still DEF Base, RoomTypes, HeldKnown, Sent
<1> DEFINE x == Text(l)
<1>7. \/ /\ slot' = [slot EXCEPT ![m] = "claimed"]
         /\ opening' = [opening EXCEPT ![m] = <<x>>] /\ queue' = queue
      \/ queue' = [queue EXCEPT ![m] = Append(@, x)] /\ slot' = slot /\ opening' = opening
  BY DEF DriverTakes
<1>8. \A k \in Members : /\ queue[k] \in Seq(Mine(k)) /\ opening[k] \in Seq(Mine(k))
                         /\ again[k] \in Seq(Mine(k))
  BY DEF Base, TextsKnown
<1> HIDE DEF x, m
<1>9. x \in Texts /\ x \in Mine(m)
  BY <1>3 DEF x, m, Mine
<1>10. <<x>> \in Seq(Texts) /\ <<x>> \in Seq(Mine(m))
  BY <1>9
<1>11. queue[m] \in Seq(Texts) /\ queue[m] \in Seq(Mine(m)) /\ m \in Members
  BY <1>2, <1>8 DEF Base, SessionTypes, m
<1>12. Append(queue[m], x) \in Seq(Texts) /\ Append(queue[m], x) \in Seq(Mine(m))
  BY <1>9, <1>11
<1>13. SessionTypes'
  BY <1>4, <1>7, <1>10, <1>11, <1>12 DEF Base, SessionTypes
<1>14. TextsKnown'
  <2>1. \A k \in Members : queue'[k] \in Seq(Mine(k)) /\ opening'[k] \in Seq(Mine(k))
    BY <1>7, <1>8, <1>10, <1>11, <1>12 DEF Base, SessionTypes
  <2>2. QED
    BY <1>4, <1>8, <2>1, Still DEF TextsKnown
<1>15. QED
  BY <1>5, <1>6, <1>13, <1>14 DEF Base

LEMMA DriverFailsBase ==
  ASSUME Base, NEW l \in Loops, DriverFails(l)
  PROVE  Base'
<1>1. LoopTypes /\ loop[l].at = "drive" /\ loop' = [loop EXCEPT ![l].at = "failed"]
      /\ UNCHANGED <<env, live, room, caps, turning, stopped, due, session, unsaid>>
  BY DEF Base, DriverFails, history
<1>2. LoopTypes' /\ \A k \in Loops : loop'[k].todo = loop[k].todo
  BY <1>1, PlacedLoop
<1>3. RoomTypes' /\ HeldKnown'
  BY <1>1, <1>2, Still DEF Base, RoomTypes, HeldKnown, Sent
<1>4. SessionTypes' /\ TextsKnown'
  BY <1>1, SessionStill
<1>5. QED
  BY <1>2, <1>3, <1>4 DEF Base

(***************************************************************************)
(* A delivery settled: the room has its line or the outcome is unsaid, and *)
(* the call goes on with the rest and what is released meanwhile.          *)
(***************************************************************************)
Settles(l, out) ==
  /\ loop[l].todo # <<>> /\ loop'[l].at = "claim"
  /\ loop'[l].todo = Tail(loop[l].todo) \o out
  /\ \A k \in Loops \ {l} : loop'[k] = loop[k]
  /\ room'.pauses = room.pauses /\ room'.active = room.active /\ room'.used = room.used
  /\ live'.active = live.active /\ live'.used = live.used
  /\ \/ /\ Elems(room'.held) = Elems(room.held) \ {Current(l)} /\ unsaid' = unsaid
        /\ Distinct(room.held) => Distinct(room'.held)
     \/ room'.held = room.held /\ unsaid' = unsaid \cup {Current(l)}

LEMMA IdsJoined ==
  ASSUME NEW s \in Seq(Ids), NEW u \in Seq(Ids)
  PROVE  Elems(s \o u) = Elems(s) \cup Elems(u)
BY ConcatFacts

LEMMA LineSettled ==
  ASSUME Base, NEW l \in Loops, loop[l].todo # <<>>, NEW n \in Nat
  PROVE  /\ Settled(room, Current(l), n) \in Books
         /\ Settled(room, Current(l), n).pauses = room.pauses
         /\ Settled(room, Current(l), n).active = room.active
         /\ Settled(room, Current(l), n).used = room.used
         /\ Elems(Settled(room, Current(l), n).held) = Elems(room.held) \ {Current(l)}
         /\ Distinct(room.held) => Distinct(Settled(room, Current(l), n).held)
<1>1. RoomTypes /\ room \in Books /\ Current(l) \in Waking
  BY CarryFacts DEF Base, RoomTypes
<1>2. ASSUME NEW e \in Waking
      PROVE  /\ Settled(room, e, n) \in Books /\ Settled(room, e, n).pauses = room.pauses
             /\ Settled(room, e, n).active = room.active /\ Settled(room, e, n).used = room.used
             /\ Elems(Settled(room, e, n).held) = Elems(room.held) \ {e}
             /\ Distinct(room.held) => Distinct(Settled(room, e, n).held)
  <2>1. RoomTypes /\ room \in Books
    BY <1>1
  <2>2. QED
    BY <2>1, SettledBook, Zenon
<1>3. QED
  BY <1>1, <1>2, Zenon

LEMMA SettlesBase ==
  ASSUME Base, NEW l \in Loops, loop[l].at # "claim", NEW n \in Nat,
         NEW h \in Seq(Ids), NEW out \in Seq(Ids), Elems(h) \cup Elems(out) \subseteq Waking,
         live' \in Books, live'.held = h, live'.active = live.active, live'.used = live.used,
         GoOn(l, out), turning' \in [Members -> BOOLEAN],
         NEW ok \in BOOLEAN,
         room' = IF ok THEN Settled(room, Current(l), n) ELSE room,
         unsaid' = IF ok THEN unsaid ELSE unsaid \cup {Current(l)},
         UNCHANGED <<env, caps, stopped, due, session>>
  PROVE  Base' /\ Settles(l, out)
<1>1. loop[l].todo # <<>> /\ LoopTypes /\ room \in Books
  BY DEF Base, RoomTypes, LoopTypes
<1>2. /\ Current(l) \in Waking /\ Tail(loop[l].todo) \in Seq(Ids)
      /\ Sent(l) = Elems(Tail(loop[l].todo)) \cup {Current(l)}
  BY <1>1, CarryFacts
<1>3. /\ room' \in Books /\ room'.pauses = room.pauses /\ room'.active = room.active
      /\ room'.used = room.used
      /\ \/ /\ Elems(room'.held) = Elems(room.held) \ {Current(l)} /\ unsaid' = unsaid
            /\ Distinct(room.held) => Distinct(room'.held)
         \/ room'.held = room.held /\ unsaid' = unsaid \cup {Current(l)}
  <2> DEFINE c == Settled(room, Current(l), n)
  <2>1. /\ c \in Books /\ c.pauses = room.pauses /\ c.active = room.active
        /\ c.used = room.used /\ Elems(c.held) = Elems(room.held) \ {Current(l)}
        /\ Distinct(room.held) => Distinct(c.held)
    BY <1>1, LineSettled, Zenon
  <2> HIDE DEF c
  <2>2. CASE ok
    <3>1. room' = c /\ unsaid' = unsaid
      BY <2>2 DEF c
    <3>2. QED
      BY <2>1, <3>1
  <2>3. CASE ~ok
    BY <1>1, <2>3
  <2>4. QED
    BY <2>2, <2>3
<1>4. /\ LoopTypes' /\ loop'[l].todo = Tail(loop[l].todo) \o out /\ loop'[l].at = "claim"
      /\ \A k \in Loops \ {l} : loop'[k] = loop[k]
  BY <1>1, GoOnFacts
<1>5. Settles(l, out)
  BY <1>1, <1>3, <1>4 DEF Settles
<1>6. Sent(l)' = Elems(Tail(loop[l].todo)) \cup Elems(out)
  <2>1. Elems(Tail(loop[l].todo) \o out) = Elems(Tail(loop[l].todo)) \cup Elems(out)
    <3>1. Tail(loop[l].todo) \in Seq(Ids) /\ out \in Seq(Ids)
      BY <1>2
    <3>2. QED
      BY <3>1, IdsJoined
  <2>2. QED
    BY <1>4, <2>1 DEF Sent
<1>7. HeldKnown'
  <2>1. \A k \in Loops : Sent(k) \subseteq Waking
    BY DEF Base, HeldKnown
  <2>2. \A k \in Loops \ {l} : Sent(k)' = Sent(k)
    BY <1>4 DEF Sent
  <2>3. \A k \in Loops : Sent(k)' \subseteq Waking
    BY <1>2, <1>6, <2>1, <2>2
  <2>4. Elems(room'.held) \subseteq Waking /\ unsaid' \subseteq Waking
    BY <1>2, <1>3 DEF Base, HeldKnown
  <2>5. Elems(live'.held) \subseteq Waking
    OBVIOUS
  <2>6. Waking' = Waking
    BY Still
  <2>7. QED
    BY <2>3, <2>4, <2>5, <2>6 DEF HeldKnown
<1>8. RoomTypes'
  BY <1>3 DEF Base, RoomTypes
<1>9. SessionTypes' /\ TextsKnown'
  BY SessionStill
<1>10. QED
  BY <1>4, <1>5, <1>7, <1>8, <1>9 DEF Base

(* What Return and ReturnFailed do besides: the book they release from, the *)
(* book that is left, and the deliveries that go out.                       *)
Returned(l, b, out) ==
  /\ Settles(l, out) /\ live'.pauses = b.pauses
  /\ \/ /\ ~loop[l].ended /\ loop[l].at = "took"
        /\ turning' = [turning EXCEPT ![To(Current(l))] = TRUE]
        /\ live' = live /\ out = <<>> /\ late' = late
     \/ LET r == Route(live.held, b.pauses, AtWorkBut(l)) IN
        /\ loop[l].ended \/ loop[l].at = "failed"
        /\ live'.held = r.held /\ out = r.out /\ turning' = turning /\ late' = FALSE

LEMMA ReturnBase ==
  ASSUME Base, NEW l \in Loops, Return(l)
  PROVE  Base' /\ \E out \in Seq(Ids) : Returned(l, live, out)
<1>1. live \in Books /\ live.held \in Seq(Ids) /\ Elems(live.held) \subseteq Waking
      /\ loop[l] \in Dispatches /\ loop[l].at = "took" /\ loop[l].todo # <<>>
      /\ turning \in [Members -> BOOLEAN]
  BY DEF Base, RoomTypes, LoopTypes, HeldKnown, Books, Return
<1>2. UNCHANGED <<env, caps, stopped, due, session>>
  BY DEF Return
<1>3. PICK ok \in BOOLEAN : /\ room' = IF ok THEN Settled(room, Current(l), Len(loop[l].notes)) ELSE room
                            /\ unsaid' = IF ok THEN unsaid ELSE unsaid \cup {Current(l)}
  BY DEF Return, Tries
<1>4. Len(loop[l].notes) \in Nat
  BY <1>1 DEF Dispatches
<1> DEFINE n == Len(loop[l].notes)
<1>5. CASE loop[l].ended
  <2> DEFINE r == Route(live.held, live.pauses, AtWorkBut(l))
  <2>1. AtWorkBut(l) \in SUBSET Members
    BY DEF AtWorkBut
  <2>2. r.held \in Seq(Ids) /\ r.out \in Seq(Ids)
        /\ Elems(r.held) \cup Elems(r.out) = Elems(live.held)
    BY <1>1, <2>1, RouteKnown
  <2>3. live' = [live EXCEPT !.held = r.held] /\ GoOn(l, r.out) /\ turning' = turning
        /\ late' = FALSE
    BY <1>5 DEF Return
  <2> DEFINE h == r.held
  <2> DEFINE out == r.out
  <2> HIDE DEF r
  <2>4. /\ live' \in Books /\ live'.held = h /\ live'.pauses = live.pauses
        /\ live'.active = live.active /\ live'.used = live.used
    BY <1>1, <2>2, <2>3, HeldBook
  <2>5. Base' /\ Settles(l, out)
    <3> HIDE DEF n
    <3>1. n \in Nat
      BY <1>4 DEF n
    <3>2. room' = IF ok THEN Settled(room, Current(l), n) ELSE room
      BY <1>3 DEF n
    <3>3. h \in Seq(Ids) /\ out \in Seq(Ids) /\ Elems(h) \cup Elems(out) \subseteq Waking
      BY <1>1, <2>2
    <3>4. GoOn(l, out) /\ turning' \in [Members -> BOOLEAN]
      BY <1>1, <2>3
    <3> HIDE DEF h, out
    <3>5. loop[l].at # "claim" /\ unsaid' = IF ok THEN unsaid ELSE unsaid \cup {Current(l)}
      BY <1>1, <1>3
    <3>6. QED
      BY <1>2, <2>4, <3>1, <3>2, <3>3, <3>4, <3>5, SettlesBase
  <2>6. Returned(l, live, out)
    BY <1>5, <2>3, <2>4, <2>5 DEF Returned, r
  <2>7. QED
    BY <2>2, <2>5, <2>6
<1>6. CASE ~loop[l].ended
  <2>1. /\ turning' = [turning EXCEPT ![To(Current(l))] = TRUE]
        /\ GoOn(l, <<>>) /\ live' = live /\ late' = late
    BY <1>6 DEF Return
  <2>2. turning' \in [Members -> BOOLEAN]
    BY <1>1, <2>1
  <2> DEFINE h == live.held
  <2> DEFINE out == <<>>
  <2>3. h \in Seq(Ids) /\ out \in Seq(Ids) /\ Elems(h) \cup Elems(out) \subseteq Waking
    BY <1>1 DEF Elems
  <2>4. live' \in Books /\ live'.held = h /\ live'.active = live.active /\ live'.used = live.used
    BY <1>1, <2>1
  <2>5. Base' /\ Settles(l, out)
    <3> HIDE DEF n
    <3>1. n \in Nat
      BY <1>4 DEF n
    <3>2. room' = IF ok THEN Settled(room, Current(l), n) ELSE room
      BY <1>3 DEF n
    <3>3. GoOn(l, out)
      BY <2>1
    <3> HIDE DEF h, out
    <3>4. loop[l].at # "claim" /\ unsaid' = IF ok THEN unsaid ELSE unsaid \cup {Current(l)}
      BY <1>1, <1>3
    <3>5. QED
      BY <1>2, <2>2, <2>3, <2>4, <3>1, <3>2, <3>3, <3>4, SettlesBase
  <2>6. Returned(l, live, out)
    BY <1>1, <1>6, <2>1, <2>5 DEF Returned
  <2>7. QED
    BY <2>3, <2>5, <2>6
<1>7. QED
  BY <1>5, <1>6

LEMMA ReturnFailedBase ==
  ASSUME Base, NEW l \in Loops, ReturnFailed(l)
  PROVE  /\ Base' /\ loop[l].at = "failed"
         /\ \E X \in SUBSET Broken, b \in Books, out \in Seq(Ids) :
              /\ b.pauses = live.pauses \cup X /\ unlined' = unlined \cup X
              /\ Returned(l, b, out)
<1>1. live \in Books /\ live.held \in Seq(Ids) /\ Elems(live.held) \subseteq Waking
      /\ loop[l] \in Dispatches /\ loop[l].at = "failed" /\ loop[l].todo # <<>>
      /\ turning \in [Members -> BOOLEAN]
  BY DEF Base, RoomTypes, LoopTypes, HeldKnown, Books, ReturnFailed
<1>2. UNCHANGED <<env, caps, turning, stopped, due, session>> /\ late' = FALSE
  BY DEF ReturnFailed
<1>3. PICK ok \in BOOLEAN :
        LET b == Pausing(NotesBack(l), Unrecorded(ok))
            r == Route(b.held, b.pauses, AtWorkBut(l)) IN
        /\ room' = IF ok THEN Settled(room, Current(l), 0) ELSE room
        /\ unsaid' = IF ok THEN unsaid ELSE unsaid \cup {Current(l)}
        /\ unlined' = unlined \cup Unrecorded(ok)
        /\ live' = [b EXCEPT !.held = r.held] /\ GoOn(l, r.out)
  BY DEF ReturnFailed, Tries
<1> DEFINE b == Pausing(NotesBack(l), Unrecorded(ok))
<1> DEFINE r == Route(b.held, b.pauses, AtWorkBut(l))
<1>4. live.notes[To(Current(l))] \in Seq(Ids) /\ loop[l].notes \in Seq(Ids)
      /\ To(Current(l)) \in Members
  BY <1>1, CarryFacts DEF Books, Dispatches
<1> DEFINE back == loop[l].notes \o live.notes[To(Current(l))]
<1>5. back \in Seq(Ids)
  BY <1>4, ConcatProperties
<1>6. NotesBack(l) = [live EXCEPT !.notes[To(Current(l))] = back]
  BY DEF NotesBack
<1> HIDE DEF back
<1>7. /\ NotesBack(l) \in Books /\ NotesBack(l).held = live.held
      /\ NotesBack(l).pauses = live.pauses /\ NotesBack(l).active = live.active
      /\ NotesBack(l).used = live.used
  BY <1>1, <1>4, <1>5, <1>6, NotesBook
<1>8. /\ b \in Books /\ b.held = live.held /\ b.pauses = live.pauses \cup Unrecorded(ok)
      /\ b.active = live.active /\ b.used = live.used
  BY <1>7, PausingBook, BrokenScope
<1>9. AtWorkBut(l) \in SUBSET Members
  BY DEF AtWorkBut
<1>10. live' = [b EXCEPT !.held = r.held] /\ GoOn(l, r.out)
  BY <1>3
<1> HIDE DEF b
<1>11. r.held \in Seq(Ids) /\ r.out \in Seq(Ids)
       /\ Elems(r.held) \cup Elems(r.out) = Elems(live.held)
       /\ r = Route(live.held, b.pauses, AtWorkBut(l))
  BY <1>1, <1>8, <1>9, RouteKnown
<1> DEFINE h == r.held
<1> DEFINE out == r.out
<1>r. r = Route(live.held, b.pauses, AtWorkBut(l))
  BY <1>11
<1> HIDE DEF r
<1>12. /\ live' \in Books /\ live'.held = h /\ live'.pauses = b.pauses
       /\ live'.active = live.active /\ live'.used = live.used
  BY <1>8, <1>10, <1>11, HeldBook
<1>13. Base' /\ Settles(l, out)
  <2>1. /\ h \in Seq(Ids) /\ out \in Seq(Ids) /\ Elems(h) \cup Elems(out) \subseteq Waking
        /\ GoOn(l, out) /\ turning' \in [Members -> BOOLEAN]
    BY <1>1, <1>2, <1>10, <1>11
  <2> HIDE DEF h, out
  <2>2. /\ loop[l].at # "claim" /\ unsaid' = (IF ok THEN unsaid ELSE unsaid \cup {Current(l)})
        /\ room' = IF ok THEN Settled(room, Current(l), 0) ELSE room
    BY <1>1, <1>3
  <2>3. QED
    BY <1>2, <1>12, <2>1, <2>2, SettlesBase
<1>14. Returned(l, b, out)
  BY <1>1, <1>2, <1>12, <1>13, <1>r DEF Returned
<1>15. Unrecorded(ok) \in SUBSET Broken /\ unlined' = unlined \cup Unrecorded(ok)
  BY <1>3, BrokenScope
<1>16. QED
  BY <1>1, <1>8, <1>11, <1>13, <1>14, <1>15

(***************************************************************************)
(* The member's session.                                                   *)
(***************************************************************************)
LEMMA RouterStill ==
  ASSUME Base, UNCHANGED <<router, unsaid>>
  PROVE  RoomTypes' /\ LoopTypes' /\ HeldKnown' /\ env' = env
BY Still DEF router, Base, RoomTypes, LoopTypes, HeldKnown, Sent

(* The texts of a session move between its lists, or are read. *)
LEMMA TextsMove ==
  ASSUME Base, env' = env,
         NEW m \in Members,
         queue' \in [Members -> Seq(Texts)] /\ queue'[m] \in Seq(Mine(m)),
         opening' \in [Members -> Seq(Texts)] /\ opening'[m] \in Seq(Mine(m)),
         again' \in [Members -> Seq(Texts)] /\ again'[m] \in Seq(Mine(m)),
         \A k \in Members \ {m} : /\ queue'[k] = queue[k] /\ opening'[k] = opening[k]
                                  /\ again'[k] = again[k]
  PROVE  TextsKnown'
BY Still DEF Base, TextsKnown

LEMMA ShiftFacts2 ==
  ASSUME Base, NEW m \in Members, Shift(m)
  PROVE  /\ queue' \in [Members -> Seq(Texts)] /\ queue'[m] \in Seq(Mine(m))
         /\ again' \in [Members -> Seq(Texts)] /\ again'[m] \in Seq(Mine(m))
         /\ \A k \in Members \ {m} : queue'[k] = queue[k] /\ again'[k] = again[k]
         /\ again'[m] = <<>> => again[m] = <<>>
<1>1. /\ queue \in [Members -> Seq(Texts)] /\ again \in [Members -> Seq(Texts)]
      /\ queue[m] \in Seq(Mine(m)) /\ again[m] \in Seq(Mine(m)) /\ queue[m] \in Seq(Texts)
  BY DEF Base, SessionTypes, TextsKnown
<1>2. CASE queue[m] = <<>>
  BY <1>1, <1>2 DEF Shift
<1>3. CASE queue[m] # <<>>
  <2> DEFINE x == <<Head(queue[m])>>
  <2> DEFINE t == Tail(queue[m])
  <2>1. x \in Seq(Texts) /\ x \in Seq(Mine(m)) /\ x # <<>>
    BY <1>1, <1>3
  <2>2. t \in Seq(Texts) /\ t \in Seq(Mine(m))
    BY <1>1, <1>3
  <2>3. again' = [again EXCEPT ![m] = x] /\ queue' = [queue EXCEPT ![m] = t]
    BY <1>3 DEF Shift
  <2> HIDE DEF x, t
  <2>4. QED
    BY <1>1, <2>1, <2>2, <2>3
<1>4. QED
  BY <1>2, <1>3

LEMMA SlotStepsBase ==
  ASSUME Base, NEW m \in Members, PersonTurn(m) \/ Launch(m) \/ EndTurn(m) \/ NotRun(m) \/ Restart(m)
  PROVE  Base'
<1>1. /\ slot \in [Members -> {"idle", "claimed", "running"}] /\ open \in [Members -> Nat]
      /\ ending \in [Members -> {None, "ended", "failed", "interrupted", "notrun"}]
      /\ queue \in [Members -> Seq(Texts)] /\ opening \in [Members -> Seq(Texts)]
      /\ again \in [Members -> Seq(Texts)]
      /\ queue[m] \in Seq(Mine(m)) /\ opening[m] \in Seq(Mine(m)) /\ again[m] \in Seq(Mine(m))
  BY DEF Base, SessionTypes, TextsKnown
<1>2. UNCHANGED <<router, unsaid>>
  BY DEF PersonTurn, Launch, EndTurn, NotRun, Restart, history
<1>3. RoomTypes' /\ LoopTypes' /\ HeldKnown' /\ env' = env
  BY <1>2, RouterStill
<1>4. CASE PersonTurn(m)
  <2>1. slot' = [slot EXCEPT ![m] = "claimed"]
        /\ UNCHANGED <<queue, opening, open, ending, again>>
    BY <1>4 DEF PersonTurn
  <2>2. SessionTypes' /\ TextsKnown'
    BY <1>1, <1>3, <2>1, Still DEF SessionTypes, Base, TextsKnown
  <2>3. QED
    BY <1>3, <2>2 DEF Base
<1>5. CASE Launch(m)
  <2>1. slot' = [slot EXCEPT ![m] = "running"] /\ open' = [open EXCEPT ![m] = @ + 1]
        /\ UNCHANGED <<queue, opening, ending, again>>
    BY <1>5 DEF Launch
  <2>2. SessionTypes' /\ TextsKnown'
    BY <1>1, <1>3, <2>1, Still DEF SessionTypes, Base, TextsKnown
  <2>3. QED
    BY <1>3, <2>2 DEF Base
<1>6. CASE EndTurn(m)
  <2>1. slot' = [slot EXCEPT ![m] = "idle"] /\ UNCHANGED <<opening, open>>
    BY <1>6 DEF EndTurn
  <2>2. ending' \in [Members -> {None, "ended", "failed", "interrupted", "notrun"}]
    BY <1>1, <1>6 DEF EndTurn
  <2>3. /\ queue' \in [Members -> Seq(Texts)] /\ queue'[m] \in Seq(Mine(m))
        /\ again' \in [Members -> Seq(Texts)] /\ again'[m] \in Seq(Mine(m))
        /\ \A k \in Members \ {m} : queue'[k] = queue[k] /\ again'[k] = again[k]
    <3>1. CASE Shift(m)
      BY <3>1, ShiftFacts2
    <3>2. CASE UNCHANGED <<queue, again>>
      BY <1>1, <3>2
    <3>3. QED
      BY <1>6, <3>1, <3>2 DEF EndTurn
  <2>4. TextsKnown'
    BY <1>1, <1>3, <2>1, <2>3, TextsMove
  <2>5. SessionTypes'
    BY <1>1, <2>1, <2>2, <2>3 DEF SessionTypes
  <2>6. QED
    BY <1>3, <2>4, <2>5 DEF Base
<1>7. CASE NotRun(m)
  <2>1. slot' = [slot EXCEPT ![m] = "idle"] /\ open' = [open EXCEPT ![m] = @ + 1]
        /\ opening' = [opening EXCEPT ![m] = <<>>] /\ ending' = [ending EXCEPT ![m] = "notrun"]
        /\ Shift(m)
    BY <1>7 DEF NotRun
  <2>2. /\ queue' \in [Members -> Seq(Texts)] /\ queue'[m] \in Seq(Mine(m))
        /\ again' \in [Members -> Seq(Texts)] /\ again'[m] \in Seq(Mine(m))
        /\ \A k \in Members \ {m} : queue'[k] = queue[k] /\ again'[k] = again[k]
    BY <2>1, ShiftFacts2
  <2>3. /\ opening' \in [Members -> Seq(Texts)] /\ opening'[m] \in Seq(Mine(m))
        /\ \A k \in Members \ {m} : opening'[k] = opening[k]
    BY <1>1, <2>1
  <2>4. TextsKnown'
    BY <1>3, <2>2, <2>3, TextsMove
  <2>5. SessionTypes'
    BY <1>1, <2>1, <2>2, <2>3 DEF SessionTypes
  <2>6. QED
    BY <1>3, <2>4, <2>5 DEF Base
<1>8. CASE Restart(m)
  <2>1. again' = [again EXCEPT ![m] = <<>>] /\ UNCHANGED <<open, ending>>
    BY <1>8 DEF Restart
  <2>2. /\ again' \in [Members -> Seq(Texts)] /\ again'[m] \in Seq(Mine(m))
        /\ \A k \in Members \ {m} : again'[k] = again[k]
    BY <1>1, <2>1
  <2>3. CASE /\ slot' = [slot EXCEPT ![m] = "claimed"]
             /\ opening' = [opening EXCEPT ![m] = again[m]] /\ queue' = queue
    <3>1. TextsKnown'
      BY <1>1, <1>3, <2>2, <2>3, TextsMove
    <3>2. SessionTypes'
      BY <1>1, <2>1, <2>2, <2>3 DEF SessionTypes
    <3>3. QED
      BY <1>3, <3>1, <3>2 DEF Base
  <2>4. CASE queue' = [queue EXCEPT ![m] = again[m] \o @] /\ UNCHANGED <<slot, opening>>
    <3> DEFINE x == again[m] \o queue[m]
    <3>1. x \in Seq(Texts) /\ x \in Seq(Mine(m))
      BY <1>1, ConcatProperties
    <3>2. queue' = [queue EXCEPT ![m] = x]
      BY <2>4
    <3> HIDE DEF x
    <3>3. /\ queue' \in [Members -> Seq(Texts)] /\ queue'[m] \in Seq(Mine(m))
          /\ \A k \in Members \ {m} : queue'[k] = queue[k]
      BY <1>1, <3>1, <3>2
    <3>4. TextsKnown'
      BY <1>1, <1>3, <2>2, <2>4, <3>3, TextsMove
    <3>5. SessionTypes'
      BY <1>1, <2>1, <2>2, <2>4, <3>3 DEF SessionTypes
    <3>6. QED
      BY <1>3, <3>4, <3>5 DEF Base
  <2>5. QED
    BY <1>8, <2>3, <2>4 DEF Restart
<1>9. QED
  BY <1>4, <1>5, <1>6, <1>7, <1>8

(* A turn reads a text: one that was queued for that member. *)
Reads(m, e) ==
  /\ e \in Waking /\ To(e) = m /\ e \in told' /\ told \subseteq told'
  /\ live'.held = live.held /\ live'.used = live.used
  /\ live'.active = [live.active EXCEPT ![m] = Root(e)]
  /\ \E X \in SUBSET Broken : live'.pauses = live.pauses \cup X /\ unlined' = unlined \cup X
  /\ \/ room' = room
     \/ /\ room'.active = [room.active EXCEPT ![m] = Root(e)] /\ room'.held = room.held
        /\ room'.pauses = room.pauses /\ room'.used = room.used

InChain(b, m, c) == [b EXCEPT !.active[m] = c]
LEMMA ActiveBook ==
  ASSUME NEW b \in Books, NEW m \in Members, NEW c \in Ids
  PROVE  /\ InChain(b, m, c) \in Books /\ InChain(b, m, c).held = b.held
         /\ InChain(b, m, c).pauses = b.pauses /\ InChain(b, m, c).used = b.used
         /\ InChain(b, m, c).active = [b.active EXCEPT ![m] = c]
<1> DEFINE y == [b.active EXCEPT ![m] = c]
<1> DEFINE d == [b EXCEPT !.active = y]
<1>1. y \in [Members -> Ids \cup {0}]
  BY DEF Books
<1>2. InChain(b, m, c) = d
  BY DEF InChain
<1> HIDE DEF y
<1>3. d \in Books /\ d.held = b.held /\ d.pauses = b.pauses /\ d.used = b.used /\ d.active = y
  BY <1>1 DEF Books
<1> HIDE DEF d
<1>4. QED
  BY <1>2, <1>3 DEF y

LEMMA HeadIn ==
  ASSUME NEW S, NEW s \in Seq(S), s # <<>>
  PROVE  Head(s) \in S
OBVIOUS

LEMMA ReadBase ==
  ASSUME Base, NEW m \in Members, Read(m)
  PROVE  Base' /\ \E e : Reads(m, e)
<1>1. /\ queue \in [Members -> Seq(Texts)] /\ opening \in [Members -> Seq(Texts)]
      /\ queue[m] \in Seq(Mine(m)) /\ opening[m] \in Seq(Mine(m))
      /\ live \in Books /\ room \in Books
  BY DEF Base, RoomTypes, SessionTypes, TextsKnown
<1> DEFINE t == Head(opening[m] \o queue[m])
<1>2. t \in Mine(m)
  <2>1. opening[m] \o queue[m] \in Seq(Mine(m)) /\ opening[m] \o queue[m] # <<>>
    BY <1>1, ConcatProperties DEF Read
  <2>2. QED
    BY <2>1, HeadIn
<1>3. t.env \in Waking /\ To(t.env) = m /\ Root(t.env) \in Ids
  BY <1>2, WakingTo DEF Mine, Base
<1>4. PICK ok \in BOOLEAN :
        /\ live' = Pausing([live EXCEPT !.active[m] = Root(t.env)], Unrecorded(ok))
        /\ room' = IF ok THEN [room EXCEPT !.active[m] = Root(t.env)] ELSE room
        /\ unlined' = unlined \cup Unrecorded(ok)
        /\ told' = told \cup {t.env} \cup Elems(t.notes)
  BY DEF Read, Tries
<1>5. UNCHANGED <<env, turning, stopped, due, caps, loop, slot, open, ending, again, unsaid>>
  BY DEF Read, Routing
<1> DEFINE e == t.env
<1>6. e \in Waking /\ To(e) = m /\ Root(e) \in Ids /\ e \in told' /\ told \subseteq told'
  BY <1>3, <1>4
<1> DEFINE a == InChain(live, m, Root(e))
<1>7. /\ a \in Books /\ a.held = live.held /\ a.pauses = live.pauses /\ a.used = live.used
      /\ a.active = [live.active EXCEPT ![m] = Root(e)]
  <2> HIDE DEF e
  <2>1. live \in Books /\ Root(e) \in Ids
    BY <1>1, <1>6
  <2>2. QED
    BY <2>1, ActiveBook
<1> HIDE DEF a
<1>8. /\ live' \in Books /\ live'.held = live.held
      /\ live'.pauses = live.pauses \cup Unrecorded(ok) /\ live'.used = live.used
      /\ live'.active = [live.active EXCEPT ![m] = Root(e)]
  <2>1. live' = Pausing(a, Unrecorded(ok))
    BY <1>4 DEF a, InChain
  <2>2. Unrecorded(ok) \in SUBSET (Scopes \X Kinds)
    BY BrokenScope
  <2>3. /\ live' \in Books /\ live'.pauses = a.pauses \cup Unrecorded(ok)
        /\ live'.held = a.held /\ live'.active = a.active /\ live'.used = a.used
    BY <1>7, <2>1, <2>2, PausingBook
  <2>4. QED
    BY <1>7, <2>3
<1>9. \/ room' = room
      \/ /\ room' \in Books /\ room'.held = room.held
         /\ room'.pauses = room.pauses /\ room'.used = room.used
         /\ room'.active = [room.active EXCEPT ![m] = Root(e)]
  <2> DEFINE d == InChain(room, m, Root(e))
  <2>1. room' = d \/ room' = room
    BY <1>4 DEF InChain
  <2>2. /\ d \in Books /\ d.held = room.held /\ d.pauses = room.pauses /\ d.used = room.used
        /\ d.active = [room.active EXCEPT ![m] = Root(e)]
    <3> HIDE DEF e
    <3>1. room \in Books /\ Root(e) \in Ids
      BY <1>1, <1>6
    <3>2. QED
      BY <3>1, ActiveBook
  <2> HIDE DEF d
  <2>3. QED
    BY <2>1, <2>2
<1> HIDE DEF e
<1>10. Reads(m, e)
  BY <1>4, <1>6, <1>8, <1>9, BrokenScope DEF Reads
<1>11. RoomTypes' /\ LoopTypes'
  BY <1>1, <1>5, <1>8, <1>9 DEF Base, RoomTypes, LoopTypes
<1>12. HeldKnown'
  BY <1>5, <1>8, <1>9, Still DEF Base, HeldKnown, Sent
<1>13. /\ queue' \in [Members -> Seq(Texts)] /\ queue'[m] \in Seq(Mine(m))
       /\ opening' \in [Members -> Seq(Texts)] /\ opening'[m] \in Seq(Mine(m))
       /\ \A k \in Members \ {m} : queue'[k] = queue[k] /\ opening'[k] = opening[k]
  <2>1. CASE opening[m] # <<>>
    <3>1. opening' = [opening EXCEPT ![m] = <<>>] /\ queue' = queue
      BY <2>1 DEF Read
    <3>2. QED
      BY <1>1, <3>1
  <2>2. CASE opening[m] = <<>>
    <3>1. queue[m] # <<>>
      BY <1>1, <2>2 DEF Read
    <3> DEFINE x == Tail(queue[m])
    <3>2. x \in Seq(Texts) /\ x \in Seq(Mine(m))
      BY <1>1, <3>1
    <3>3. queue' = [queue EXCEPT ![m] = x] /\ opening' = opening
      BY <2>2 DEF Read
    <3> HIDE DEF x
    <3>4. QED
      BY <1>1, <3>2, <3>3
  <2>3. QED
    BY <2>1, <2>2
<1>14. TextsKnown'
  <2>1. /\ again' \in [Members -> Seq(Texts)] /\ again'[m] \in Seq(Mine(m))
        /\ again' = again
    BY <1>5 DEF Base, SessionTypes, TextsKnown
  <2>2. QED
    BY <1>5, <1>13, <2>1, TextsMove
<1>15. SessionTypes'
  BY <1>5, <1>13 DEF Base, SessionTypes
<1>16. QED
  BY <1>10, <1>11, <1>12, <1>14, <1>15 DEF Base

(***************************************************************************)
(* Releases: what is held is routed once more, and handed to a call.       *)
(***************************************************************************)
Released(P, W) ==
  LET r == Route(live.held, P, W) IN
  /\ live'.held = r.held /\ live'.pauses = P /\ Handed(r.out) /\ late' = FALSE

LEMMA ReleaseBase ==
  ASSUME Base, NEW b \in Books, b.held = live.held, NEW W \in SUBSET Members, Release(b, W)
  PROVE  /\ live' \in Books /\ LoopTypes' /\ Released(b.pauses, W)
         /\ live'.active = b.active /\ live'.used = b.used
         /\ \A k \in Loops : loop'[k] = loop[k] \/ loop'[k].at = "claim"
<1> DEFINE r == Route(live.held, b.pauses, W)
<1>1. live.held \in Seq(Ids) /\ Elems(live.held) \subseteq Waking /\ LoopTypes
  BY DEF Base, RoomTypes, Books, HeldKnown
<1>2. r.held \in Seq(Ids) /\ r.out \in Seq(Ids)
  BY <1>1, RouteKnown
<1>3. live' = [b EXCEPT !.held = r.held] /\ Dispatch(r.out) /\ late' = FALSE
  BY DEF Release
<1>r. r = Route(live.held, b.pauses, W)
  OBVIOUS
<1> HIDE DEF r
<1>4. /\ live' \in Books /\ live'.held = r.held /\ live'.pauses = b.pauses
      /\ live'.active = b.active /\ live'.used = b.used
  BY <1>2, <1>3, HeldBook
<1>5. /\ LoopTypes' /\ Handed(r.out)
      /\ \A k \in Loops : loop'[k] = loop[k] \/ loop'[k].at = "claim"
  BY <1>1, <1>2, <1>3, DispatchFacts
<1>6. Released(b.pauses, W)
  BY <1>3, <1>4, <1>5, <1>r DEF Released
<1>7. QED
  BY <1>4, <1>5, <1>6

LEMMA ReleasedKnown ==
  ASSUME Base, NEW P, NEW W \in SUBSET Members, Released(P, W), env' = env,
         Elems(room'.held) \subseteq Waking, unsaid' \subseteq Waking
  PROVE  HeldKnown'
<1> DEFINE r == Route(live.held, P, W)
<1>1. live.held \in Seq(Ids) /\ Elems(live.held) \subseteq Waking
      /\ \A k \in Loops : Sent(k) \subseteq Waking
  BY DEF Base, RoomTypes, Books, HeldKnown
<1>2. r.held \in Seq(Ids) /\ r.out \in Seq(Ids)
      /\ Elems(r.held) \cup Elems(r.out) = Elems(live.held)
  BY <1>1, RouteKnown
<1>3. live'.held = r.held /\ Handed(r.out)
  BY DEF Released
<1> HIDE DEF r
<1>4. \A k \in Loops : Sent(k)' = Sent(k) \/ Sent(k)' = Elems(r.out)
  BY <1>2, <1>3, HandedSent
<1>5. QED
  BY <1>1, <1>2, <1>3, <1>4, Still DEF HeldKnown

LEMMA ReportNotRunBase ==
  ASSUME Base, NEW m \in Members, ReportNotRun(m), OpenInv
  PROVE  /\ Base' /\ live'.active = live.active /\ live'.used = live.used
         /\ \A k \in Loops : loop'[k] = loop[k] \/ loop'[k].at = "claim"
         /\ Released(live.pauses, {k \in Members : turning[k] \/ Flying(k) \/ open'[k] > 0})
<1> DEFINE W == {k \in Members : turning[k] \/ Flying(k) \/ open'[k] > 0}
<1>1. live \in Books /\ W \in SUBSET Members /\ Release(live, W)
  BY DEF Base, RoomTypes, ReportNotRun
<1> HIDE DEF W
<1>2. /\ live' \in Books /\ LoopTypes' /\ Released(live.pauses, W)
      /\ live'.active = live.active /\ live'.used = live.used
      /\ \A k \in Loops : loop'[k] = loop[k] \/ loop'[k].at = "claim"
  BY <1>1, ReleaseBase
<1>3. UNCHANGED <<env, room, caps, turning, stopped, due, queue, opening, slot, again, unsaid>>
      /\ open' = [open EXCEPT ![m] = @ - 1] /\ ending' = [ending EXCEPT ![m] = None]
  BY DEF ReportNotRun
<1>4. HeldKnown'
  BY <1>1, <1>2, <1>3, ReleasedKnown DEF Base, HeldKnown
<1>5. RoomTypes'
  BY <1>2, <1>3 DEF Base, RoomTypes
<1>6. open' \in [Members -> Nat]
  <2>1. open[m] \in Nat \ {0}
    BY DEF Base, SessionTypes, OpenInv, ReportNotRun, None
  <2>2. QED
    BY <1>3, <2>1 DEF Base, SessionTypes
<1>7. SessionTypes'
  BY <1>3, <1>6 DEF Base, SessionTypes
<1>8. TextsKnown'
  BY <1>3, Still DEF Base, TextsKnown
<1>9. QED
  BY <1>2, <1>4, <1>5, <1>7, <1>8 DEF Base, W

Spending(u, m) == [u EXCEPT ![m] = IF @ < TurnCap THEN @ + 1 ELSE @]
Reached(u, m)  == IF "cap" \in Inputs /\ u[m] >= TurnCap THEN {<<Of(m), "turns">>} ELSE {}
ReportedLine(m) ==
  LET F == Failure(m, ending[m])
      N == Reached(Spending(live.used, m), m) \ live.pauses IN
  /\ Released(live.pauses \cup F \cup N, StillAtWork(m))
  /\ live'.used = Spending(live.used, m) /\ room'.used = Spending(room.used, m)
  /\ caps' = caps \cup Reached(Spending(room.used, m), m)
  /\ \/ room'.pauses = room.pauses \cup F \cup N /\ unlined' = unlined \ N
     \/ room'.pauses = room.pauses \cup F /\ unlined' = unlined \cup N
  /\ live'.active = live.active /\ room'.held = room.held
  /\ room'.active = IF live.active[m] = 0 THEN room.active
                    ELSE [room.active EXCEPT ![m] = live.active[m]]
ReportUnlined(m) ==
  /\ live'.used = Spending(live.used, m) /\ live'.pauses = live.pauses \cup Broken
  /\ live'.active = live.active /\ live'.held = live.held
  /\ unlined' = unlined \cup Broken /\ room' = room /\ caps' = caps /\ Handed(<<>>)
Hears(m) == \A k \in Loops :
  \/ loop'[k].at = "claim"
  \/ /\ loop'[k].at = loop[k].at
     /\ loop'[k].ended = IF loop[k].at # "claim" /\ To(Current(k)) = m
                         THEN TRUE ELSE loop[k].ended

LEMMA CappedIs ==
  ASSUME NEW b, NEW m
  PROVE  Capped(b, m) = Reached(b.used, m)
BY DEF Capped, Reached

LEMMA TurnLineSpends ==
  ASSUME NEW b \in Books, NEW m \in Members, NEW how, NEW c \in Ids \cup {0}, NEW d,
         d = TurnLine(b, m, how, c)
  PROVE  /\ d \in Books /\ d.held = b.held
         /\ d.pauses = b.pauses \cup Failure(m, how)
         /\ d.active = IF c = 0 THEN b.active ELSE [b.active EXCEPT ![m] = c]
         /\ d.used = Spending(b.used, m)
BY TurnLineBook DEF Spending

LEMMA ReportBase ==
  ASSUME Base, NEW m \in Members, Report(m), OpenInv
  PROVE  Base' /\ Hears(m) /\ (ReportedLine(m) \/ ReportUnlined(m))
<1> DEFINE c == live.active[m]
<1> DEFINE F == Failure(m, ending[m])
<1> DEFINE L == TurnLine(live, m, ending[m], c)
<1> DEFINE R == TurnLine(room, m, ending[m], c)
<1> DEFINE N == Capped(L, m) \ live.pauses
<1>1. live \in Books /\ room \in Books /\ c \in Ids \cup {0} /\ LoopTypes
      /\ live.active \in [Members -> Ids \cup {0}]
  BY DEF Base, RoomTypes, Books
<1>2. /\ L \in Books /\ L.held = live.held /\ L.pauses = live.pauses \cup F
      /\ L.active = (IF c = 0 THEN live.active ELSE [live.active EXCEPT ![m] = c])
      /\ L.used = Spending(live.used, m)
  <2> DEFINE how == ending[m]
  <2>1. L = TurnLine(live, m, how, c) /\ F = Failure(m, how)
    OBVIOUS
  <2> HIDE DEF L, c, F, how
  <2>2. QED
    BY <1>1, <2>1, TurnLineSpends
<1>3. /\ R \in Books /\ R.held = room.held /\ R.pauses = room.pauses \cup F
      /\ R.active = (IF c = 0 THEN room.active ELSE [room.active EXCEPT ![m] = c])
      /\ R.used = Spending(room.used, m)
  <2> DEFINE how == ending[m]
  <2>1. R = TurnLine(room, m, how, c) /\ F = Failure(m, how)
    OBVIOUS
  <2> HIDE DEF R, c, F, how
  <2>2. QED
    BY <1>1, <2>1, TurnLineSpends
<1>4. L.active = live.active
  BY <1>1, <1>2
<1>5. /\ N = Reached(Spending(live.used, m), m) \ live.pauses
      /\ Capped(R, m) = Reached(Spending(room.used, m), m)
      /\ N \in SUBSET (Scopes \X Kinds)
      /\ Capped(R, m) \subseteq {<<Of(k), "turns">> : k \in Members}
  <2>1. Capped(L, m) = Reached(Spending(live.used, m), m)
    BY <1>2, CappedIs
  <2>2. Capped(R, m) = Reached(Spending(room.used, m), m)
    BY <1>3, CappedIs
  <2>3. Reached(Spending(live.used, m), m) \in SUBSET (Scopes \X Kinds)
    BY FailureScope DEF Reached
  <2>4. Reached(Spending(room.used, m), m) \subseteq {<<Of(k), "turns">> : k \in Members}
    BY DEF Reached
  <2>5. QED
    BY <2>1, <2>2, <2>3, <2>4
<1>6. /\ open' = [open EXCEPT ![m] = @ - 1] /\ ending' = [ending EXCEPT ![m] = None]
      /\ turning' = [turning EXCEPT ![m] = FALSE]
      /\ UNCHANGED <<env, stopped, due, queue, opening, slot, again, unsaid>>
  BY DEF Report, Closed
<1>7. SessionTypes' /\ TextsKnown'
  <2> HIDE DEF L, R, N, F, c
  <2>4. ending[m] # None
    BY DEF Report, None
  <2>1. open[m] \in Nat \ {0}
    BY <2>4 DEF Base, SessionTypes, OpenInv
  <2>2. open' \in [Members -> Nat]
    BY <1>6, <2>1 DEF Base, SessionTypes
  <2>3. QED
    BY <1>6, <2>2, Still DEF Base, SessionTypes, TextsKnown
<1>8. StillAtWork(m) \in SUBSET Members
  BY DEF StillAtWork
<1>9. caps \subseteq {<<Of(k), "turns">> : k \in Members} /\ turning' \in [Members -> BOOLEAN]
  BY <1>6 DEF Base, RoomTypes
<1>10. CASE \E ok \in BOOLEAN :
              /\ room' = Pausing(R, IF ok THEN N ELSE {})
              /\ caps' = caps \cup Capped(R, m)
              /\ unlined' = IF ok THEN unlined \ N ELSE unlined \cup N
              /\ ReleaseEnded(Pausing(L, N), m)
  <2>1. PICK ok \in BOOLEAN :
              /\ room' = Pausing(R, IF ok THEN N ELSE {})
              /\ caps' = caps \cup Capped(R, m)
              /\ unlined' = (IF ok THEN unlined \ N ELSE unlined \cup N)
              /\ ReleaseEnded(Pausing(L, N), m)
    BY <1>10
  <2> DEFINE b == Pausing(L, N)
  <2> HIDE DEF L, R, N
  <2>2. /\ b \in Books /\ b.held = live.held /\ b.pauses = live.pauses \cup F \cup N
        /\ b.active = live.active /\ b.used = Spending(live.used, m)
    BY <1>2, <1>4, <1>5, PausingBook
  <2>3. /\ room' \in Books /\ room'.held = room.held
        /\ room'.pauses = room.pauses \cup F \cup (IF ok THEN N ELSE {})
        /\ room'.active = (IF c = 0 THEN room.active ELSE [room.active EXCEPT ![m] = c])
        /\ room'.used = Spending(room.used, m)
    <3> DEFINE X == IF ok THEN N ELSE {}
    <3>1. X \in SUBSET (Scopes \X Kinds) /\ room' = Pausing(R, X)
      BY <1>5, <2>1
    <3> HIDE DEF X, F, c
    <3>2. /\ room' \in Books /\ room'.pauses = R.pauses \cup X
          /\ room'.held = R.held /\ room'.active = R.active /\ room'.used = R.used
      BY <1>3, <3>1, PausingBook
    <3>3. QED
      BY <1>3, <3>2 DEF X
  <2>4. ReleaseEnded(b, m)
    BY <2>1
  <2> HIDE DEF b
  <2> DEFINE r == Route(b.held, b.pauses, StillAtWork(m))
  <2>5. live' = [b EXCEPT !.held = r.held] /\ late' = FALSE
    BY <2>4 DEF ReleaseEnded
  <2>6. live.held \in Seq(Ids) /\ Elems(live.held) \subseteq Waking
    BY <1>1 DEF Books, Base, HeldKnown
  <2>7. r.held \in Seq(Ids) /\ r.out \in Seq(Ids)
    BY <1>8, <2>2, <2>6, RouteKnown
  <2>8. LoopTypes' /\ Handed(r.out) /\ Hears(m)
    BY <1>1, <2>4, <2>7, ReleaseEndedFacts DEF Hears
  <2>r. r = Route(live.held, b.pauses, StillAtWork(m))
    BY <2>2
  <2> HIDE DEF r
  <2>9. /\ live' \in Books /\ live'.held = r.held /\ live'.pauses = b.pauses
        /\ live'.active = b.active /\ live'.used = b.used
    BY <2>2, <2>5, <2>7, HeldBook
  <2>10. Released(b.pauses, StillAtWork(m))
    BY <2>5, <2>8, <2>9, <2>r DEF Released
  <2>11. HeldKnown'
    BY <1>6, <1>8, <2>3, <2>10, ReleasedKnown DEF Base, HeldKnown
  <2>12. RoomTypes'
    BY <1>5, <1>6, <1>9, <2>1, <2>3, <2>9 DEF Base, RoomTypes
  <2>13. ReportedLine(m)
    <3>1. Released(live.pauses \cup F \cup N, StillAtWork(m))
      BY <2>2, <2>10
    <3>2. \/ room'.pauses = room.pauses \cup F \cup N /\ unlined' = unlined \ N
          \/ room'.pauses = room.pauses \cup F /\ unlined' = unlined \cup N
      BY <2>1, <2>3
    <3>3. live'.used = Spending(live.used, m) /\ live'.active = live.active
      BY <2>2, <2>9
    <3>4. caps' = caps \cup Reached(Spending(room.used, m), m)
      BY <1>5, <2>1
    <3>5. QED
      BY <1>5, <2>3, <3>1, <3>2, <3>3, <3>4 DEF ReportedLine
  <2>14. QED
    BY <1>7, <2>8, <2>11, <2>12, <2>13 DEF Base
<1>11. CASE /\ live' = Pausing(Spent(live, m), Broken) /\ unlined' = unlined \cup Broken
            /\ loop' = Ended(m) /\ UNCHANGED <<room, caps, late>>
  <2> HIDE DEF L, R, N
  <2> DEFINE sp == Spent(live, m)
  <2>1. /\ sp \in Books /\ sp.pauses = live.pauses /\ sp.held = live.held
        /\ sp.active = live.active /\ sp.used = Spending(live.used, m)
    BY <1>1, SpentBook DEF Spending
  <2>2. live' = Pausing(sp, Broken)
    BY <1>11
  <2> HIDE DEF sp
  <2>3. /\ live' \in Books /\ live'.pauses = live.pauses \cup Broken /\ live'.held = live.held
        /\ live'.active = live.active /\ live'.used = Spending(live.used, m)
    BY <2>1, <2>2, PausingBook, BrokenScope
  <2>4. LoopTypes' /\ Handed(<<>>) /\ Hears(m)
    BY <1>1, <1>11, EndedTypes DEF Hears
  <2>5. HeldKnown'
    <3>1. <<>> \in Seq(Ids) /\ Elems(<<>>) = {}
      BY DEF Elems
    <3>2. \A k \in Loops : Sent(k)' = Sent(k) \/ Sent(k)' = {}
      BY <2>4, <3>1, HandedSent
    <3>3. QED
      BY <1>6, <1>11, <2>3, <3>2, Still DEF Base, HeldKnown
  <2>6. RoomTypes'
    BY <1>1, <1>6, <1>9, <1>11, <2>3 DEF Base, RoomTypes
  <2>7. ReportUnlined(m)
    BY <1>11, <2>3, <2>4 DEF ReportUnlined
  <2>8. QED
    BY <1>7, <2>4, <2>5, <2>6, <2>7 DEF Base
<1>12. QED
  BY <1>10, <1>11 DEF Report, Tries

(***************************************************************************)
(* Resume, and what ends a router.                                         *)
(***************************************************************************)
Left(P, s, personOnly) == {q \in P : q[1] # s \/ (personOnly /\ q[2] # "person")}
Lifts(s) ==
  LET personOnly == <<s, "person">> \in live.pauses IN
  /\ Released(Left(live.pauses, s, personOnly), Working)
  /\ room'.pauses = Left(room.pauses, s, personOnly)
  /\ live'.active = live.active /\ live'.used = live.used
  /\ room'.held = room.held /\ room'.active = room.active /\ room'.used = room.used
  /\ caps' = IF personOnly THEN caps ELSE caps \ PausesOn(caps, s)
  /\ unlined' = unlined \ (IF personOnly THEN {<<s, "person">>} ELSE PausesOn(unlined, s))
  /\ \A k \in Loops : loop'[k] = loop[k] \/ loop'[k].at = "claim"
  /\ UNCHANGED <<env, turning, stopped, due, session, told, unsaid, leaked>>

LEMMA ResumeLifts ==
  ASSUME Base, NEW s \in Scopes, Resume(s)
  PROVE  Base' /\ Lifts(s)
<1> DEFINE one == <<s, "person">> \in live.pauses
<1> DEFINE c == Resumed(live, s, one)
<1> DEFINE d == Resumed(room, s, one)
<1>1. live \in Books /\ room \in Books /\ one \in BOOLEAN
  BY DEF Base, RoomTypes
<1>2. /\ room' = d /\ Release(c, Working)
      /\ caps' = (IF one THEN caps ELSE caps \ PausesOn(caps, s))
      /\ unlined' = unlined \ (IF one THEN {<<s, "person">>} ELSE PausesOn(unlined, s))
      /\ UNCHANGED <<env, turning, stopped, due, session, told, unsaid, leaked>>
  BY DEF Resume, Lift
<1>3. /\ c \in Books /\ c.held = live.held /\ c.active = live.active /\ c.used = live.used
      /\ c.pauses = Left(live.pauses, s, one)
  <2> HIDE DEF one
  <2>1. QED
    BY <1>1, ResumedBook DEF Left
<1>4. /\ d \in Books /\ d.held = room.held /\ d.active = room.active /\ d.used = room.used
      /\ d.pauses = Left(room.pauses, s, one)
  <2> HIDE DEF one
  <2>1. QED
    BY <1>1, ResumedBook DEF Left
<1> HIDE DEF c, d
<1>5. Working \in SUBSET Members
  BY DEF Working
<1>6. /\ live' \in Books /\ LoopTypes' /\ Released(c.pauses, Working)
      /\ live'.active = c.active /\ live'.used = c.used
      /\ \A k \in Loops : loop'[k] = loop[k] \/ loop'[k].at = "claim"
  BY <1>2, <1>3, <1>5, ReleaseBase
<1>7. Lifts(s)
  BY <1>2, <1>3, <1>4, <1>6 DEF Lifts
<1>8. HeldKnown'
  BY <1>2, <1>4, <1>5, <1>6, ReleasedKnown DEF Base, HeldKnown
<1>9. RoomTypes'
  BY <1>2, <1>4, <1>6 DEF Base, RoomTypes
<1>10. SessionTypes' /\ TextsKnown'
  BY <1>2, SessionStill
<1>11. QED
  BY <1>6, <1>7, <1>8, <1>9, <1>10 DEF Base

LEMMA ReleaseDueBase ==
  ASSUME Base, ReleaseDue
  PROVE  /\ Base' /\ Released(live.pauses, Working)
         /\ live'.active = live.active /\ live'.used = live.used
         /\ \A k \in Loops : loop'[k] = loop[k] \/ loop'[k].at = "claim"
<1>1. live \in Books /\ Working \in SUBSET Members /\ Release(live, Working)
  BY DEF Base, RoomTypes, Working, ReleaseDue
<1>2. /\ live' \in Books /\ LoopTypes' /\ Released(live.pauses, Working)
      /\ live'.active = live.active /\ live'.used = live.used
      /\ \A k \in Loops : loop'[k] = loop[k] \/ loop'[k].at = "claim"
  BY <1>1, ReleaseBase
<1>3. UNCHANGED <<env, room, caps, turning, stopped, session, unsaid>> /\ due' \in BOOLEAN
  BY DEF ReleaseDue
<1>4. HeldKnown'
  BY <1>1, <1>2, <1>3, ReleasedKnown DEF Base, HeldKnown
<1>5. RoomTypes'
  BY <1>2, <1>3 DEF Base, RoomTypes
<1>6. SessionTypes' /\ TextsKnown'
  BY <1>3, SessionStill
<1>7. QED
  BY <1>2, <1>4, <1>5, <1>6 DEF Base

(* A router rebuilt from a book b of the room, with the caps c. *)
Replays(c) ==
  /\ live'.held = room.held /\ room'.held = room.held
  /\ live'.pauses = room'.pauses \cup c /\ caps' = c
  /\ room.pauses \subseteq room'.pauses
  /\ live'.active = room'.active /\ live'.used = room'.used
  /\ unsaid' = {} /\ unlined' = c \ room'.pauses /\ env' = env /\ told' = told
  /\ turning' = [m \in Members |-> FALSE] /\ loop' = [l \in Loops |-> Free]
  /\ due' = TRUE

LEMMA ReplayBase ==
  ASSUME Base, NEW b \in Books, b.held = room.held, room.pauses \subseteq b.pauses,
         NEW c, c \subseteq {<<Of(m), "turns">> : m \in Members},
         Replay(b, c), caps' = c, env' = env, told' = told
  PROVE  /\ RoomTypes' /\ LoopTypes' /\ HeldKnown' /\ Replays(c)
         /\ room'.active = b.active /\ room'.used = b.used /\ room'.pauses = b.pauses
<1>1. /\ live' = Pausing(b, c) /\ room' = b /\ stopped' = FALSE /\ due' = TRUE
      /\ turning' = [m \in Members |-> FALSE] /\ loop' = [l \in Loops |-> Free]
      /\ unsaid' = {} /\ unlined' = c \ b.pauses
  BY DEF Replay
<1>2. c \in SUBSET (Scopes \X Kinds)
  BY DEF Scopes, Kinds
<1>3. /\ live' \in Books /\ live'.held = b.held /\ live'.pauses = b.pauses \cup c
      /\ live'.active = b.active /\ live'.used = b.used
  BY <1>1, <1>2, PausingBook
<1>4. Replays(c)
  BY <1>1, <1>3 DEF Replays
<1>5. turning' \in [Members -> BOOLEAN] /\ stopped' \in BOOLEAN /\ due' \in BOOLEAN
  BY <1>1
<1>6. RoomTypes'
  BY <1>1, <1>3, <1>5 DEF Base, RoomTypes
<1>7. LoopTypes'
  <2>1. Free \in Dispatches /\ Free.at = "claim" /\ Free.notes = <<>> /\ Free.ended = FALSE
    BY DEF Free, Dispatches
  <2>2. QED
    BY <1>1, <2>1 DEF LoopTypes
<1>8. HeldKnown'
  <2>1. \A k \in Loops : Sent(k)' = {}
    BY <1>1 DEF Sent, Free, Elems
  <2>2. QED
    BY <1>1, <1>3, <2>1, Still DEF Base, HeldKnown
<1>9. QED
  BY <1>1, <1>4, <1>6, <1>7, <1>8

LEMMA NewSessionsBase ==
  ASSUME Base, NewSessions, env' = env
  PROVE  SessionTypes' /\ TextsKnown'
BY DEF Base, SessionTypes, TextsKnown, NewSessions, None

LEMMA CrashReplays ==
  ASSUME Base, Crash
  PROVE  /\ Base' /\ Replays(caps) /\ room'.active = room.active
         /\ room'.used = room.used /\ room'.pauses = room.pauses
<1>1. room \in Books /\ caps \subseteq {<<Of(m), "turns">> : m \in Members}
      /\ Replay(room, caps) /\ NewSessions /\ UNCHANGED <<env, caps, told>>
  BY DEF Base, RoomTypes, Crash
<1>2. QED
  BY <1>1, ReplayBase, NewSessionsBase DEF Base

LEMMA UpdateReplays ==
  ASSUME Base, Update
  PROVE  /\ Base' /\ Replays(caps) /\ room'.active = room.active
         /\ room'.used = room.used /\ room'.pauses = room.pauses
<1>1. room \in Books /\ caps \subseteq {<<Of(m), "turns">> : m \in Members}
      /\ Replay(room, caps) /\ UNCHANGED <<env, caps, told, session>>
  BY DEF Base, RoomTypes, Update
<1>2. QED
  BY <1>1, ReplayBase, SessionStill DEF Base

LEMMA CloseReplays ==
  ASSUME Base, Close
  PROVE  /\ Base'
         /\ \E c : caps \subseteq c /\ Replays(c)
         /\ \A m \in Members : room'.active[m] \in {room.active[m], live.active[m]}
<1> DEFINE lost == {m \in Members : open[m] > 0}
<1> DEFINE P == room.pauses \cup {<<Of(m), "cost">> : m \in lost}
<1> DEFINE A == [m \in Members |-> IF m \in lost /\ live.active[m] # 0
                                   THEN live.active[m] ELSE room.active[m]]
<1> DEFINE U == [m \in Members |-> IF m \in lost /\ room.used[m] < TurnCap
                                   THEN room.used[m] + 1 ELSE room.used[m]]
<1> DEFINE b == [room EXCEPT !.pauses = P, !.active = A, !.used = U]
<1> DEFINE c == caps \cup UNION {Capped(b, m) : m \in lost}
<1>1. Replay(b, c) /\ caps' = c /\ NewSessions /\ UNCHANGED <<env, told>>
  BY DEF Close, Base, RoomTypes, Books
<1>2. live \in Books /\ room \in Books
  BY DEF Base, RoomTypes
<1>3. P \in SUBSET (Scopes \X Kinds)
  <2>1. \A m \in Members : <<Of(m), "cost">> \in Scopes \X Kinds
    BY FailureScope
  <2>2. room.pauses \subseteq Scopes \X Kinds
    BY <1>2 DEF Books
  <2> HIDE DEF lost
  <2>3. {<<Of(m), "cost">> : m \in lost \cap Members} \subseteq Scopes \X Kinds
    BY <2>1
  <2>4. lost \cap Members = lost
    BY DEF lost
  <2>5. QED
    BY <2>2, <2>3, <2>4
<1>4. A \in [Members -> Ids \cup {0}]
      /\ \A m \in Members : A[m] \in {room.active[m], live.active[m]}
  BY <1>2 DEF Books
<1>5. U \in [Members -> 0..TurnCap]
  <2>1. \A m \in Members : room.used[m] \in 0..TurnCap
    BY <1>2 DEF Books
  <2>2. \A m \in Members : (IF m \in lost /\ room.used[m] < TurnCap
                            THEN room.used[m] + 1 ELSE room.used[m]) \in 0..TurnCap
    BY <2>1
  <2>3. QED
    BY <2>2
<1>6. /\ b \in Books /\ b.held = room.held /\ b.pauses = P /\ b.active = A /\ b.used = U
  <2> HIDE DEF P, A, U
  <2>1. QED
    BY <1>2, <1>3, <1>4, <1>5 DEF Books
<1> HIDE DEF b
<1>7. caps \subseteq c /\ c \subseteq {<<Of(m), "turns">> : m \in Members}
  BY DEF Base, RoomTypes, Capped
<1>8. room.pauses \subseteq b.pauses
  BY <1>6
<1> HIDE DEF c, P, A, U
<1>9. /\ RoomTypes' /\ LoopTypes' /\ HeldKnown' /\ Replays(c) /\ room'.active = b.active
  BY <1>1, <1>6, <1>7, <1>8, ReplayBase
<1>10. SessionTypes' /\ TextsKnown'
  BY <1>1, NewSessionsBase
<1>11. QED
  BY <1>4, <1>6, <1>7, <1>9, <1>10 DEF Base

LEMMA NewDayBase ==
  ASSUME Base, NewDay
  PROVE  /\ Base' /\ caps' = {}
         /\ live'.held = live.held /\ live'.active = live.active /\ live'.pauses = live.pauses
         /\ room'.held = room.held /\ room'.active = room.active /\ room'.pauses = room.pauses
         /\ live'.used = room'.used
         /\ UNCHANGED <<env, turning, loop, stopped, due, session, history>>
<1> DEFINE U == [m \in Members |-> 0]
<1>1. /\ live' = [live EXCEPT !.used = U] /\ room' = [room EXCEPT !.used = U] /\ caps' = {}
      /\ UNCHANGED <<env, turning, loop, stopped, due, session, history>>
  BY DEF NewDay
<1>2. U \in [Members -> 0..TurnCap]
  OBVIOUS
<1> HIDE DEF U
<1>3. live \in Books /\ room \in Books
  BY DEF Base, RoomTypes
<1>4. /\ live' \in Books /\ live'.held = live.held /\ live'.active = live.active
      /\ live'.pauses = live.pauses /\ live'.used = U
  BY <1>1, <1>2, <1>3 DEF Books
<1>5. /\ room' \in Books /\ room'.held = room.held /\ room'.active = room.active
      /\ room'.pauses = room.pauses /\ room'.used = U
  BY <1>1, <1>2, <1>3 DEF Books
<1>6. SessionTypes' /\ TextsKnown'
  BY <1>1, SessionStill
<1>7. RoomTypes' /\ LoopTypes'
  BY <1>1, <1>4, <1>5 DEF Base, RoomTypes, LoopTypes, Current
<1>8. HeldKnown'
  BY <1>1, <1>4, <1>5 DEF Base, HeldKnown, Waking, Sent, history
<1>9. QED
  BY <1>1, <1>4, <1>5, <1>6, <1>7, <1>8 DEF Base

LEMMA StopBase ==
  ASSUME Base, Stop
  PROVE  Base'
<1>1. UNCHANGED <<env, live, room, caps, turning, loop, due, session, unsaid>> /\ stopped' = TRUE
  BY DEF Stop, history
<1>2. SessionTypes' /\ TextsKnown'
  BY <1>1, SessionStill
<1>3. RoomTypes' /\ LoopTypes' /\ HeldKnown'
  BY <1>1, Still DEF Base, RoomTypes, LoopTypes, HeldKnown, Sent, Current
<1>4. QED
  BY <1>2, <1>3 DEF Base

(***************************************************************************)
(* The types, whatever the step.                                           *)
(***************************************************************************)
LEMMA OpenStill ==
  ASSUME OpenInv, open' = open, ending' = ending,
         \A k \in Members : slot'[k] = "running" <=> slot[k] = "running"
  PROVE  OpenInv'
BY DEF OpenInv

LEMMA OpenMoves ==
  ASSUME SessionTypes, OpenInv, NEW m \in Members, SessionTypes',
         \A k \in Members \ {m} : open'[k] = open[k] /\ ending'[k] = ending[k] /\ slot'[k] = slot[k],
         open'[m] = (IF slot'[m] = "running" THEN 1 ELSE 0) + (IF ending'[m] # None THEN 1 ELSE 0)
  PROVE  OpenInv'
BY DEF OpenInv

LEMMA SessionOpens ==
  ASSUME Base, OpenInv, Base', NEW m \in Members, Session(m)
  PROVE  OpenInv'
<1>1. /\ slot \in [Members -> {"idle", "claimed", "running"}] /\ open \in [Members -> Nat]
      /\ ending \in [Members -> {None, "ended", "failed", "interrupted", "notrun"}]
      /\ SessionTypes /\ SessionTypes'
      /\ open[m] = (IF slot[m] = "running" THEN 1 ELSE 0) + (IF ending[m] # None THEN 1 ELSE 0)
  BY DEF Base, SessionTypes, OpenInv
<1>2. CASE PersonTurn(m)
  BY <1>1, <1>2, OpenStill DEF PersonTurn
<1>3. CASE Launch(m)
  <2>1. /\ slot' = [slot EXCEPT ![m] = "running"] /\ open' = [open EXCEPT ![m] = @ + 1]
        /\ ending' = ending /\ slot[m] = "claimed"
    BY <1>3 DEF Launch
  <2>2. QED
    BY <1>1, <2>1, OpenMoves
<1>4. CASE Read(m)
  BY <1>4, OpenStill DEF Read
<1>5. CASE EndTurn(m)
  <2>1. /\ slot[m] = "running" /\ ending[m] = None /\ open' = open
        /\ slot' = [slot EXCEPT ![m] = "idle"]
        /\ \E how \in {"ended", "failed", "interrupted"} : ending' = [ending EXCEPT ![m] = how]
    BY <1>5 DEF EndTurn
  <2>2. slot'[m] = "idle" /\ ending'[m] # None
    BY <1>1, <2>1 DEF None
  <2>3. QED
    BY <1>1, <2>1, <2>2, OpenMoves
<1>6. CASE NotRun(m)
  <2>1. /\ slot[m] = "claimed" /\ ending[m] = None /\ open' = [open EXCEPT ![m] = @ + 1]
        /\ slot' = [slot EXCEPT ![m] = "idle"] /\ ending' = [ending EXCEPT ![m] = "notrun"]
    BY <1>6 DEF NotRun
  <2>2. slot'[m] = "idle" /\ ending'[m] # None
    BY <1>1, <2>1 DEF None
  <2>3. QED
    BY <1>1, <2>1, <2>2, OpenMoves
<1>7. CASE Restart(m)
  BY <1>1, <1>7, OpenStill DEF Restart
<1>8. CASE Report(m) \/ ReportNotRun(m)
  <2>1. /\ ending[m] # None /\ slot' = slot /\ open' = [open EXCEPT ![m] = @ - 1]
        /\ ending' = [ending EXCEPT ![m] = None]
    BY <1>8 DEF Report, ReportNotRun, Closed, None
  <2>2. QED
    BY <1>1, <2>1, OpenMoves
<1>9. QED
  BY <1>2, <1>3, <1>4, <1>5, <1>6, <1>7, <1>8 DEF Session

LEMMA SessionKeepsBase ==
  ASSUME Base, OpenInv, NEW m \in Members, Session(m)
  PROVE  Base'
<1>1. CASE Read(m)
  BY <1>1, ReadBase
<1>2. CASE Report(m)
  BY <1>2, ReportBase
<1>3. CASE ReportNotRun(m)
  BY <1>3, ReportNotRunBase
<1>4. QED
  BY <1>1, <1>2, <1>3, SlotStepsBase DEF Session

LEMMA SendsKeepBase ==
  ASSUME Base, OpenInv, NEW m \in Members, Sends(m)
  PROVE  Base' /\ OpenInv'
<1>1. UNCHANGED session
  BY DEF Sends, Post, Send, Enter, SendUnrecorded, SendTooFar
<1>2. OpenInv'
  BY <1>1, OpenStill DEF session
<1>3. ASSUME NEW to \in Members \ {m}, NEW wakes \in BOOLEAN, Send(m, to, wakes) PROVE Base'
  BY <1>3, SendEnters
<1>4. QED
  BY <1>2, <1>3, PostEnters, SendUnrecordedTrips, SendTooFarTrips DEF Sends

LEMMA DispatchingKeepsBase ==
  ASSUME Base, OpenInv, NEW l \in Loops, Dispatching(l)
  PROVE  Base' /\ OpenInv'
<1>1. Base'
  BY ClaimBase, HoldLateBase, DriverTakesBase, DriverFailsBase, ReturnBase, ReturnFailedBase
     DEF Dispatching
<1>2. CASE DriverTakes(l)
  <2>1. loop[l].todo # <<>>
    BY <1>2 DEF Base, LoopTypes, DriverTakes
  <2>2. To(Current(l)) \in Members
    BY <2>1, CarryFacts
  <2>3. slot \in [Members -> {"idle", "claimed", "running"}]
    BY DEF Base, SessionTypes
  <2>4. open' = open /\ ending' = ending
        /\ \A k \in Members : slot'[k] = "running" <=> slot[k] = "running"
    BY <1>2, <2>2, <2>3 DEF DriverTakes
  <2>5. QED
    BY <1>1, <2>4, OpenStill
<1>3. CASE ~DriverTakes(l)
  <2>1. UNCHANGED session
    BY <1>3 DEF Dispatching, Claim, HoldLate, DriverFails, Return, ReturnFailed
  <2>2. QED
    BY <1>1, <2>1, OpenStill DEF session
<1>4. QED
  BY <1>2, <1>3

LEMMA BaseStep ==
  ASSUME Base, OpenInv, [Next]_vars
  PROVE  Base' /\ OpenInv'
<1>1. ASSUME NEW m \in Members, Sends(m) \/ Session(m) PROVE Base' /\ OpenInv'
  BY <1>1, SendsKeepBase, SessionKeepsBase, SessionOpens
<1>2. ASSUME NEW l \in Loops, Dispatching(l) PROVE Base' /\ OpenInv'
  BY <1>2, DispatchingKeepsBase
<1>3. ASSUME NEW s \in Scopes, Pause(s) \/ Resume(s) PROVE Base' /\ OpenInv'
  <2>1. UNCHANGED session
    BY <1>3 DEF Pause, Resume
  <2>2. QED
    BY <1>3, <2>1, PauseTrips, ResumeLifts, OpenStill DEF session
<1>4. CASE ReleaseDue \/ Stop \/ Update \/ NewDay
  <2>1. UNCHANGED session
    BY <1>4 DEF ReleaseDue, Stop, Update, NewDay
  <2>2. QED
    BY <1>4, <2>1, ReleaseDueBase, StopBase, UpdateReplays, NewDayBase, OpenStill DEF session
<1>5. CASE Crash \/ Close
  <2>1. NewSessions
    BY <1>5 DEF Crash, Close
  <2>2. OpenInv'
    BY <2>1 DEF NewSessions, OpenInv, None
  <2>3. QED
    BY <1>5, <2>2, CrashReplays, CloseReplays
<1>6. CASE UNCHANGED vars
  <2>1. UNCHANGED router /\ UNCHANGED session /\ unsaid' = unsaid
    BY <1>6 DEF vars, history
  <2>2. RoomTypes' /\ LoopTypes' /\ HeldKnown' /\ env' = env
    BY <2>1, RouterStill
  <2>3. SessionTypes' /\ TextsKnown'
    BY <2>1, <2>2, SessionStill
  <2>4. OpenInv'
    BY <2>1, OpenStill DEF session
  <2>5. QED
    BY <2>2, <2>3, <2>4 DEF Base
<1>7. QED
  BY <1>1, <1>2, <1>3, <1>4, <1>5, <1>6 DEF Next

LEMMA OpenInit == Init => OpenInv
BY DEF Init, Idle, OpenInv, None

(***************************************************************************)
(* The chain a member works in is one it read of.                          *)
(***************************************************************************)
ChainOK(b) == \A m \in Members :
  b.active[m] # 0 => \E e \in told : e \in Waking /\ To(e) = m /\ Root(e) = b.active[m]
ChainInv == ChainOK(live) /\ ChainOK(room)

(* A step that moves no member into a chain neither book had for it. *)
ChainKept == \A m \in Members : \A b \in {live', room'} :
  b.active[m] = live.active[m] \/ b.active[m] = room.active[m]

LEMMA ChainStays ==
  ASSUME Base, ChainInv, Grows, told \subseteq told', ChainKept
  PROVE  ChainInv'
<1>1. \A e \in Waking : e \in Waking' /\ To(e)' = To(e) /\ Root(e)' = Root(e)
  BY DEF Grows, Waking, To, Root
<1>2. ASSUME NEW m \in Members, NEW c, c = live.active[m] \/ c = room.active[m], c # 0
      PROVE  \E e \in told' : e \in Waking' /\ To(e)' = m /\ Root(e)' = c
  <2>1. \E e \in told : e \in Waking /\ To(e) = m /\ Root(e) = c
    BY <1>2 DEF ChainInv, ChainOK
  <2>2. QED
    BY <1>1, <2>1
<1>3. ASSUME NEW m \in Members
      PROVE  /\ live'.active[m] = live.active[m] \/ live'.active[m] = room.active[m]
             /\ room'.active[m] = live.active[m] \/ room'.active[m] = room.active[m]
  BY DEF ChainKept
<1>4. QED
  BY <1>2, <1>3 DEF ChainInv, ChainOK

LEMMA ChainMoves ==
  ASSUME Base, ChainInv, NEW m \in Members, env' = env, \E e : Reads(m, e)
  PROVE  ChainInv'
<1>1. PICK e : Reads(m, e)
  OBVIOUS
<1>2. Waking' = Waking /\ \A d \in Waking : To(d)' = To(d) /\ Root(d)' = Root(d)
  BY Still DEF To, Root
<1>3. e \in told' /\ e \in Waking' /\ To(e)' = m /\ Root(e)' = Root(e) /\ told \subseteq told'
  BY <1>1, <1>2 DEF Reads
<1>4. live.active \in [Members -> Ids \cup {0}] /\ room.active \in [Members -> Ids \cup {0}]
  BY DEF Base, RoomTypes, Books
<1>5. /\ live'.active = [live.active EXCEPT ![m] = Root(e)]
      /\ room'.active = room.active \/ room'.active = [room.active EXCEPT ![m] = Root(e)]
  BY <1>1 DEF Reads
<1>6. ASSUME NEW k \in Members, NEW c,
             c = live.active[k] \/ c = room.active[k] \/ (k = m /\ c = Root(e)), c # 0
      PROVE  \E d \in told' : d \in Waking' /\ To(d)' = k /\ Root(d)' = c
  <2>1. CASE k = m /\ c = Root(e)
    BY <1>3, <2>1
  <2>2. CASE c = live.active[k] \/ c = room.active[k]
    <3>1. \E d \in told : d \in Waking /\ To(d) = k /\ Root(d) = c
      BY <1>6, <2>2 DEF ChainInv, ChainOK
    <3>2. QED
      BY <1>2, <1>3, <3>1
  <2>3. QED
    BY <1>6, <2>1, <2>2
<1>7. \A k \in Members :
        /\ live'.active[k] = live.active[k] \/ (k = m /\ live'.active[k] = Root(e))
        /\ room'.active[k] = room.active[k] \/ (k = m /\ room'.active[k] = Root(e))
  BY <1>4, <1>5
<1>8. QED
  BY <1>6, <1>7 DEF ChainInv, ChainOK

LEMMA SameGrows ==
  ASSUME Base, env' = env
  PROVE  Grows
BY EnvGrows DEF Base

LEMMA SendsKeepChain ==
  ASSUME Base, NEW m \in Members, Sends(m)
  PROVE  Grows /\ told' = told /\ ChainKept
<1>1. CASE Post(m)
  <2>1. Entered(TRUE) /\ told' = told
    BY <1>1, PostEnters DEF Post, Enter
  <2>2. QED
    BY <2>1 DEF Entered, ChainKept
<1>2. ASSUME NEW to \in Members \ {m}, NEW wakes \in BOOLEAN, Send(m, to, wakes)
      PROVE  Grows /\ told' = told /\ ChainKept
  <2>1. Entered(wakes) /\ told' = told
    BY <1>2, SendEnters DEF Send, Enter
  <2>2. QED
    BY <2>1 DEF Entered, ChainKept
<1>3. CASE SendUnrecorded(m) \/ SendTooFar(m)
  <2>1. \E P : Trips(P)
    BY <1>3, SendUnrecordedTrips, SendTooFarTrips
  <2>2. QED
    BY <2>1, SameGrows DEF Trips, ChainKept
<1>4. QED
  BY <1>1, <1>2, <1>3 DEF Sends

LEMMA DispatchingKeepsChain ==
  ASSUME Base, NEW l \in Loops, Dispatching(l)
  PROVE  Grows /\ told' = told /\ ChainKept
<1>1. env' = env /\ told' = told
  BY DEF Dispatching, Claim, HoldLate, DriverTakes, DriverFails, Return, ReturnFailed, history
<1>2. CASE Claim(l) \/ HoldLate(l)
  BY <1>1, <1>2, SameGrows, ClaimBase, HoldLateBase DEF ChainKept, Claim, HoldLate
<1>3. CASE DriverTakes(l) \/ DriverFails(l)
  BY <1>1, <1>3, SameGrows DEF DriverTakes, DriverFails, ChainKept
<1>4. CASE Return(l) \/ ReturnFailed(l)
  <2>1. \E out : Settles(l, out)
    BY <1>4, ReturnBase, ReturnFailedBase DEF Returned
  <2>2. QED
    BY <1>1, <2>1, SameGrows DEF Settles, ChainKept
<1>5. QED
  BY <1>2, <1>3, <1>4 DEF Dispatching

LEMMA ReportKeepsChain ==
  ASSUME Base, OpenInv, NEW m \in Members, Report(m)
  PROVE  env' = env /\ told' = told /\ ChainKept
<1>1. env' = env /\ told' = told
  BY DEF Report
<1>2. live.active \in [Members -> Ids \cup {0}] /\ room.active \in [Members -> Ids \cup {0}]
  BY DEF Base, RoomTypes, Books
<1>3. CASE ReportedLine(m)
  <2>1. /\ live'.active = live.active
        /\ room'.active = room.active \/ room'.active = [room.active EXCEPT ![m] = live.active[m]]
    BY <1>3 DEF ReportedLine
  <2>2. QED
    BY <1>1, <1>2, <2>1 DEF ChainKept
<1>4. CASE ReportUnlined(m)
  BY <1>1, <1>4 DEF ReportUnlined, ChainKept
<1>5. QED
  BY <1>3, <1>4, ReportBase

LEMMA ChainStep ==
  ASSUME Base, OpenInv, ChainInv, [Next]_vars
  PROVE  ChainInv'
<1>1. ASSUME NEW m \in Members, Sends(m) PROVE ChainInv'
  BY <1>1, SendsKeepChain, ChainStays
<1>2. ASSUME NEW l \in Loops, Dispatching(l) PROVE ChainInv'
  BY <1>2, DispatchingKeepsChain, ChainStays
<1>3. ASSUME NEW m \in Members, Session(m) PROVE ChainInv'
  <2>1. CASE Read(m)
    <3>1. env' = env
      BY <2>1 DEF Read, Routing
    <3>2. QED
      BY <2>1, <3>1, ReadBase, ChainMoves
  <2>2. CASE Report(m)
    BY <2>2, ReportKeepsChain, SameGrows, ChainStays
  <2>3. CASE ReportNotRun(m)
    <3>1. UNCHANGED <<env, room, told>> /\ live'.active = live.active
      BY <2>3, ReportNotRunBase DEF ReportNotRun
    <3>2. QED
      BY <3>1, SameGrows, ChainStays DEF ChainKept
  <2>4. CASE PersonTurn(m) \/ Launch(m) \/ EndTurn(m) \/ NotRun(m) \/ Restart(m)
    <3>1. UNCHANGED <<env, room, live, told>>
      BY <2>4 DEF PersonTurn, Launch, EndTurn, NotRun, Restart, router, history
    <3>2. QED
      BY <3>1, SameGrows, ChainStays DEF ChainKept
  <2>5. QED
    BY <1>3, <2>1, <2>2, <2>3, <2>4 DEF Session
<1>4. ASSUME NEW s \in Scopes, Pause(s) PROVE ChainInv'
  <2>1. \E P : Trips(P)
    BY <1>4, PauseTrips
  <2>2. QED
    BY <2>1, SameGrows, ChainStays DEF Trips, ChainKept
<1>5. ASSUME NEW s \in Scopes, Resume(s) PROVE ChainInv'
  <2>1. Lifts(s)
    BY <1>5, ResumeLifts
  <2>2. UNCHANGED <<env, told>> /\ live'.active = live.active /\ room'.active = room.active
    BY <2>1 DEF Lifts
  <2>3. QED
    BY <2>2, SameGrows, ChainStays DEF ChainKept
<1>6. CASE ReleaseDue \/ Stop
  <2>1. UNCHANGED <<env, told, room>> /\ live'.active = live.active
    BY <1>6, ReleaseDueBase DEF ReleaseDue, Stop, history
  <2>2. QED
    BY <2>1, SameGrows, ChainStays DEF ChainKept
<1>7. CASE Crash \/ Update \/ Close
  <2>1. /\ \E c : Replays(c)
        /\ \A m \in Members : room'.active[m] \in {room.active[m], live.active[m]}
    BY <1>7, CrashReplays, UpdateReplays, CloseReplays
  <2>2. UNCHANGED <<env, told>> /\ live'.active = room'.active
    BY <2>1 DEF Replays
  <2>3. QED
    BY <2>1, <2>2, SameGrows, ChainStays DEF ChainKept
<1>8. CASE NewDay
  <2>1. UNCHANGED <<env, told>> /\ live'.active = live.active /\ room'.active = room.active
    BY <1>8, NewDayBase DEF history
  <2>2. QED
    BY <2>1, SameGrows, ChainStays DEF ChainKept
<1>9. CASE UNCHANGED vars
  <2>1. UNCHANGED <<env, told, live, room>>
    BY <1>9 DEF vars, router, history
  <2>2. QED
    BY <2>1, SameGrows, ChainStays DEF ChainKept
<1>10. QED
  BY <1>1, <1>2, <1>3, <1>4, <1>5, <1>6, <1>7, <1>8, <1>9 DEF Next

(* A member works, and sends, only in a chain it has read of: what moves   *)
(* it there is the text that enters its turn, never the claim before.      *)
THEOREM OnlyChainsRead == Spec => []ChainWasRead
<1>1. Init => Base /\ OpenInv /\ ChainInv
  <2>1. Init => ChainInv
    BY DEF Init, Blank, ChainInv, ChainOK
  <2>2. QED
    BY <2>1, BaseInit, OpenInit
<1>2. Base /\ OpenInv /\ ChainInv /\ [Next]_vars => (Base /\ OpenInv /\ ChainInv)'
  BY BaseStep, ChainStep
<1>3. ChainInv => ChainWasRead
  BY DEF ChainInv, ChainOK, ChainWasRead, Waking
<1>4. QED
  BY <1>1, <1>2, <1>3, PTL DEF Spec

(***************************************************************************)
(* A pause, in the router and in what a replay would rebuild.              *)
(***************************************************************************)
UsedInv   == \A m \in Members : room.used[m] <= live.used[m]
PausesInv == PausesSurvive /\ UsedInv

(* Pauses X more, which the room does not have. *)
Adds(X) == /\ live'.pauses = live.pauses \cup X /\ unlined' = unlined \cup X
           /\ room'.pauses = room.pauses /\ caps' = caps
           /\ live'.used = live.used /\ room'.used = room.used

LEMMA AddsPauses ==
  ASSUME PausesInv, NEW X, Adds(X)
  PROVE  PausesInv'
BY DEF PausesInv, PausesSurvive, UsedInv, Adds

LEMMA TripsPauses ==
  ASSUME PausesInv, NEW P, Trips(P)
  PROVE  PausesInv'
BY DEF PausesInv, PausesSurvive, UsedInv, Trips

LEMMA LiftsPauses ==
  ASSUME Base, PausesInv, NEW s, Lifts(s)
  PROVE  PausesInv'
<1> DEFINE one == <<s, "person">> \in live.pauses
<1>1. /\ live'.pauses = Left(live.pauses, s, one) /\ room'.pauses = Left(room.pauses, s, one)
      /\ live'.used = live.used /\ room'.used = room.used
      /\ caps' = (IF one THEN caps ELSE caps \ PausesOn(caps, s))
      /\ unlined' = unlined \ (IF one THEN {<<s, "person">>} ELSE PausesOn(unlined, s))
  BY DEF Lifts, Released
<1>2. /\ \A p \in caps : p[2] # "person"
      /\ \A p \in live.pauses : p = <<p[1], p[2]>>
  BY DEF Base, RoomTypes, Books, Of
<1> HIDE DEF one
<1>3. room'.pauses \cup caps' \subseteq live'.pauses
  <2>1. room.pauses \subseteq live.pauses /\ caps \subseteq live.pauses
    BY DEF PausesInv, PausesSurvive
  <2>2. CASE one
    BY <1>1, <1>2, <2>1, <2>2 DEF Left
  <2>3. CASE ~one
    BY <1>1, <2>1, <2>3 DEF Left, PausesOn
  <2>4. QED
    BY <2>2, <2>3
<1>4. live'.pauses \ unlined' \subseteq room'.pauses
  <2>1. SUFFICES ASSUME NEW p \in live'.pauses, p \notin unlined' PROVE p \in room'.pauses
    OBVIOUS
  <2>2. p \in live.pauses /\ (p[1] # s \/ (one /\ p[2] # "person"))
    BY <1>1, <2>1 DEF Left
  <2>3. p \notin unlined
    BY <1>1, <1>2, <2>1, <2>2 DEF PausesOn
  <2>4. p \in room.pauses
    BY <2>2, <2>3 DEF PausesInv, PausesSurvive
  <2>5. QED
    BY <1>1, <2>2, <2>4 DEF Left
<1>5. QED
  BY <1>1, <1>3, <1>4 DEF PausesInv, PausesSurvive, UsedInv

LEMMA ReplayPauses ==
  ASSUME Base', NEW c, Replays(c)
  PROVE  PausesInv'
<1>1. live'.used = room'.used /\ \A m \in Members : room'.used[m] <= live'.used[m]
  BY DEF Replays, Base, RoomTypes, Books
<1>2. QED
  BY <1>1 DEF Replays, PausesInv, PausesSurvive, UsedInv

(* Both books count the turn; the live one never less. *)
LEMMA SpendingMore ==
  ASSUME Base, UsedInv, NEW m \in Members
  PROVE  /\ \A k \in Members : /\ Spending(room.used, m)[k] <= Spending(live.used, m)[k]
                               /\ room.used[k] <= Spending(live.used, m)[k]
         /\ Reached(Spending(room.used, m), m) \subseteq Reached(Spending(live.used, m), m)
<1>1. /\ room.used \in [Members -> 0..TurnCap] /\ live.used \in [Members -> 0..TurnCap]
      /\ TurnCap \in Nat
  BY DEF Base, RoomTypes, Books
<1>2. \A k \in Members : room.used[k] \in 0..TurnCap /\ live.used[k] \in 0..TurnCap
  BY <1>1
<1>3. \A k \in Members :
        /\ Spending(room.used, m)[k] = IF k = m /\ room.used[k] < TurnCap
                                       THEN room.used[k] + 1 ELSE room.used[k]
        /\ Spending(live.used, m)[k] = IF k = m /\ live.used[k] < TurnCap
                                       THEN live.used[k] + 1 ELSE live.used[k]
  BY <1>1 DEF Spending
<1>4. \A k \in Members : room.used[k] <= live.used[k]
  BY DEF UsedInv
<1>5. \A k \in Members : /\ Spending(room.used, m)[k] <= Spending(live.used, m)[k]
                         /\ room.used[k] <= Spending(live.used, m)[k]
                         /\ Spending(room.used, m)[k] \in Nat /\ Spending(live.used, m)[k] \in Nat
  BY <1>1, <1>2, <1>3, <1>4
<1>6. Spending(room.used, m)[m] >= TurnCap => Spending(live.used, m)[m] >= TurnCap
  BY <1>1, <1>5
<1>7. QED
  BY <1>5, <1>6 DEF Reached

LEMMA ReportPauses ==
  ASSUME Base, PausesInv, NEW m \in Members, ReportedLine(m) \/ ReportUnlined(m)
  PROVE  PausesInv'
<1>1. UsedInv /\ PausesSurvive
  BY DEF PausesInv
<1>2. /\ \A k \in Members : /\ Spending(room.used, m)[k] <= Spending(live.used, m)[k]
                            /\ room.used[k] <= Spending(live.used, m)[k]
      /\ Reached(Spending(room.used, m), m) \subseteq Reached(Spending(live.used, m), m)
  BY <1>1, SpendingMore
<1>3. CASE ReportedLine(m)
  <2> DEFINE F == Failure(m, ending[m])
  <2> DEFINE all == Reached(Spending(live.used, m), m)
  <2> DEFINE N == all \ live.pauses
  <2>1. /\ live'.pauses = live.pauses \cup F \cup N
        /\ live'.used = Spending(live.used, m) /\ room'.used = Spending(room.used, m)
        /\ caps' = caps \cup Reached(Spending(room.used, m), m)
        /\ \/ room'.pauses = room.pauses \cup F \cup N /\ unlined' = unlined \ N
           \/ room'.pauses = room.pauses \cup F /\ unlined' = unlined \cup N
    BY <1>3 DEF ReportedLine, Released
  <2>2. Reached(Spending(room.used, m), m) \subseteq all
    BY <1>2
  <2> HIDE DEF F, all
  <2>3. PausesSurvive'
    BY <1>1, <2>1, <2>2 DEF PausesSurvive
  <2>4. UsedInv'
    BY <1>2, <2>1 DEF UsedInv
  <2>5. QED
    BY <2>3, <2>4 DEF PausesInv
<1>4. CASE ReportUnlined(m)
  <2>1. PausesSurvive'
    BY <1>1, <1>4 DEF PausesSurvive, ReportUnlined
  <2>2. UsedInv'
    BY <1>2, <1>4 DEF UsedInv, ReportUnlined
  <2>3. QED
    BY <2>1, <2>2 DEF PausesInv
<1>5. QED
  BY <1>3, <1>4

LEMMA SendsKeepPauses ==
  ASSUME Base, PausesInv, NEW m \in Members, Sends(m)
  PROVE  PausesInv'
<1>1. CASE Post(m)
  <2>1. Entered(TRUE) /\ caps' = caps
    BY <1>1, PostEnters DEF Post, Enter
  <2>2. \E X : Adds(X)
    BY <2>1 DEF Entered, Adds
  <2>3. QED
    BY <2>2, AddsPauses
<1>2. ASSUME NEW to \in Members \ {m}, NEW wakes \in BOOLEAN, Send(m, to, wakes)
      PROVE  PausesInv'
  <2>1. Entered(wakes) /\ caps' = caps
    BY <1>2, SendEnters DEF Send, Enter
  <2>2. \E X : Adds(X)
    BY <2>1 DEF Entered, Adds
  <2>3. QED
    BY <2>2, AddsPauses
<1>3. CASE SendUnrecorded(m) \/ SendTooFar(m)
  BY <1>3, SendUnrecordedTrips, SendTooFarTrips, TripsPauses
<1>4. QED
  BY <1>1, <1>2, <1>3 DEF Sends

LEMMA DispatchingAdds ==
  ASSUME Base, NEW l \in Loops, Dispatching(l)
  PROVE  \E X : Adds(X)
<1>1. CASE Claim(l)
  <2>1. UNCHANGED <<room, caps, unlined>>
    BY <1>1 DEF Claim, history
  <2>2. Adds({})
    BY <1>1, <2>1, ClaimBase DEF Adds
  <2>3. QED
    BY <2>2
<1>2. CASE HoldLate(l)
  <2>1. UNCHANGED <<room, caps, unlined>>
    BY <1>2 DEF HoldLate
  <2>2. Adds({})
    BY <1>2, <2>1, HoldLateBase DEF Adds
  <2>3. QED
    BY <2>2
<1>3. CASE DriverTakes(l) \/ DriverFails(l)
  <2>1. Adds({})
    BY <1>3 DEF DriverTakes, DriverFails, history, Adds
  <2>2. QED
    BY <2>1
<1>4. CASE Return(l)
  <2>1. UNCHANGED <<caps, unlined>> /\ \E out : Returned(l, live, out)
    BY <1>4, ReturnBase DEF Return
  <2>2. Adds({})
    BY <2>1 DEF Returned, Settles, Adds
  <2>3. QED
    BY <2>2
<1>5. CASE ReturnFailed(l)
  <2>1. caps' = caps
    BY <1>5 DEF ReturnFailed
  <2>2. PICK X, b, out :
          b.pauses = live.pauses \cup X /\ unlined' = unlined \cup X /\ Returned(l, b, out)
    BY <1>5, ReturnFailedBase
  <2>3. Adds(X)
    BY <2>1, <2>2 DEF Returned, Settles, Adds
  <2>4. QED
    BY <2>3
<1>6. QED
  BY <1>1, <1>2, <1>3, <1>4, <1>5 DEF Dispatching

LEMMA SessionKeepsPauses ==
  ASSUME Base, OpenInv, PausesInv, NEW m \in Members, Session(m)
  PROVE  PausesInv'
<1>1. CASE Read(m)
  <2>1. caps' = caps /\ \E e : Reads(m, e)
    BY <1>1, ReadBase DEF Read
  <2>2. \E X : Adds(X)
    BY <2>1 DEF Reads, Adds
  <2>3. QED
    BY <2>2, AddsPauses
<1>2. CASE Report(m)
  BY <1>2, ReportBase, ReportPauses
<1>3. CASE ReportNotRun(m)
  <2>1. UNCHANGED <<room, caps, unlined>>
    BY <1>3 DEF ReportNotRun
  <2>2. Adds({})
    BY <1>3, <2>1, ReportNotRunBase DEF Released, Adds
  <2>3. QED
    BY <2>2, AddsPauses
<1>4. CASE PersonTurn(m) \/ Launch(m) \/ EndTurn(m) \/ NotRun(m) \/ Restart(m)
  <2>1. UNCHANGED <<live, room, caps, unlined>>
    BY <1>4 DEF PersonTurn, Launch, EndTurn, NotRun, Restart, router, history
  <2>2. QED
    BY <2>1 DEF PausesInv, PausesSurvive, UsedInv
<1>5. QED
  BY <1>1, <1>2, <1>3, <1>4 DEF Session

LEMMA PausesStep ==
  ASSUME Base, OpenInv, PausesInv, [Next]_vars
  PROVE  PausesInv'
<1>1. ASSUME NEW m \in Members, Sends(m) \/ Session(m) PROVE PausesInv'
  BY <1>1, SendsKeepPauses, SessionKeepsPauses
<1>2. ASSUME NEW l \in Loops, Dispatching(l) PROVE PausesInv'
  BY <1>2, DispatchingAdds, AddsPauses
<1>3. ASSUME NEW s \in Scopes, Pause(s) \/ Resume(s) PROVE PausesInv'
  BY <1>3, PauseTrips, TripsPauses, ResumeLifts, LiftsPauses
<1>4. CASE ReleaseDue \/ Stop
  <2>1. UNCHANGED <<room, caps, unlined>> /\ live'.used = live.used /\ live'.pauses = live.pauses
    BY <1>4, ReleaseDueBase DEF ReleaseDue, Stop, history, Released
  <2>2. QED
    BY <2>1 DEF PausesInv, PausesSurvive, UsedInv
<1>5. CASE Crash \/ Update \/ Close
  <2>1. Base' /\ \E c : Replays(c)
    BY <1>5, CrashReplays, UpdateReplays, CloseReplays
  <2>2. QED
    BY <2>1, ReplayPauses
<1>6. CASE NewDay
  <2>1. Base' /\ live'.used = room'.used
    BY <1>6, NewDayBase
  <2>2. \A m \in Members : room'.used[m] <= live'.used[m]
    BY <2>1 DEF Base, RoomTypes, Books
  <2>3. PausesSurvive'
    BY <1>6, NewDayBase DEF PausesInv, PausesSurvive, history
  <2>4. QED
    BY <2>2, <2>3 DEF PausesInv, UsedInv
<1>7. CASE UNCHANGED vars
  BY <1>7 DEF vars, router, history, PausesInv, PausesSurvive, UsedInv
<1>8. QED
  BY <1>1, <1>2, <1>3, <1>4, <1>5, <1>6, <1>7 DEF Next

(* A pause outlasts its router unless the room never took its line, and no *)
(* rebuilt router has a pause that was lifted: the replay of a resume      *)
(* lifts what the resume did, and no turn line trips a cap on its own.     *)
THEOREM PausesOutlast == Spec => []PausesSurvive
<1>1. Init => Base /\ OpenInv /\ PausesInv
  <2>1. Init => PausesInv
    BY DEF Init, Blank, PausesInv, PausesSurvive, UsedInv
  <2>2. QED
    BY <2>1, BaseInit, OpenInit
<1>2. Base /\ OpenInv /\ PausesInv /\ [Next]_vars => (Base /\ OpenInv /\ PausesInv)'
  BY BaseStep, PausesStep
<1>3. PausesInv => PausesSurvive
  BY DEF PausesInv
<1>4. QED
  BY <1>1, <1>2, <1>3, PTL DEF Spec

(***************************************************************************)
(* Every delivery the room owes is in one place.                           *)
(***************************************************************************)
(* R is owed: held in L, sent out in S by the loop, or, in U, of unknown   *)
(* outcome, and never in two of them.                                      *)
Placed(R, L, S, U) ==
  /\ \A e : e \in R <=> e \in L \/ e \in U \/ \E l \in Loops : e \in S[l]
  /\ \A e : ~(e \in L /\ e \in U)
  /\ \A l \in Loops : \A e : e \in S[l] => e \notin L /\ e \notin U
  /\ \A k, l \in Loops : \A e : e \in S[k] /\ e \in S[l] => k = l
Outgoing == [l \in Loops |-> Sent(l)]
OnceInv == /\ Distinct(room.held) /\ Distinct(live.held)
           /\ \A l \in Loops : Distinct(loop[l].todo)
DueInv  == OnceInv /\ Placed(Elems(room.held), Elems(live.held), Outgoing, unsaid)

LEMMA DuePending == DueInv => OwedIsPending
<1> SUFFICES ASSUME DueInv PROVE OwedIsPending
  OBVIOUS
<1>1. /\ \A e : e \in Elems(room.held) <=>
             e \in Elems(live.held) \/ e \in unsaid \/ \E l \in Loops : e \in Sent(l)
      /\ \A e : ~(e \in Elems(live.held) /\ e \in unsaid)
      /\ \A l \in Loops : \A e : e \in Sent(l) => e \notin Elems(live.held) /\ e \notin unsaid
      /\ \A k, l \in Loops : \A e : e \in Sent(k) /\ e \in Sent(l) => k = l
  BY DEF DueInv, Placed, Outgoing
<1>2. \A e : e \in Pending <=> e \in Elems(live.held) \/ \E l \in Loops : e \in Sent(l)
  BY DEF Pending
<1>3. Elems(room.held) = Pending \cup unsaid
  BY <1>1, <1>2
<1>4. Pending \cap unsaid = {}
  BY <1>1, <1>2
<1>5. \A l \in Loops : Sent(l) \cap Elems(live.held) = {}
  BY <1>1
<1>6. \A k, l \in Loops : k # l => Sent(k) \cap Sent(l) = {}
  BY <1>1
<1>7. QED
  BY <1>3, <1>4, <1>5, <1>6 DEF OwedIsPending

(* One delivery more, held or sent out. *)
LEMMA PlacedNew ==
  ASSUME NEW R, NEW L, NEW S, NEW U, DOMAIN S = Loops, Placed(R, L, S, U), NEW e, e \notin R
  PROVE  /\ Placed(R \cup {e}, L \cup {e}, S, U)
         /\ \A l \in Loops : S[l] = {} => Placed(R \cup {e}, L, [S EXCEPT ![l] = {e}], U)
<1>1. e \notin L /\ e \notin U /\ \A l \in Loops : e \notin S[l]
  BY DEF Placed
<1>2. Placed(R \cup {e}, L \cup {e}, S, U)
  BY <1>1 DEF Placed
<1>3. ASSUME NEW l \in Loops, S[l] = {}
      PROVE  Placed(R \cup {e}, L, [S EXCEPT ![l] = {e}], U)
  <2> DEFINE T == [S EXCEPT ![l] = {e}]
  <2>1. T[l] = {e} /\ \A k \in Loops \ {l} : T[k] = S[k]
    OBVIOUS
  <2> HIDE DEF T
  <2>2. Placed(R \cup {e}, L, T, U)
    BY <1>1, <1>3, <2>1 DEF Placed
  <2>3. QED
    BY <2>2 DEF T
<1>4. QED
  BY <1>2, <1>3

(* What was held is held or sent out. *)
LEMMA PlacedOut ==
  ASSUME NEW R, NEW L, NEW S, NEW U, DOMAIN S = Loops, Placed(R, L, S, U),
         NEW H, NEW O, H \cup O = L, H \cap O = {}, NEW l \in Loops, S[l] = {},
         NEW N, N = [S EXCEPT ![l] = O]
  PROVE  Placed(R, H, N, U)
<1>1. N[l] = O /\ S[l] = {} /\ \A k \in Loops \ {l} : N[k] = S[k]
  OBVIOUS
<1>2. \A e : e \in L <=> e \in H \/ e \in O
  OBVIOUS
<1>3. \A e : ~(e \in H /\ e \in O)
  OBVIOUS
<1>4. QED
  BY <1>1, <1>2, <1>3 DEF Placed

(* A delivery sent out is settled, of unknown outcome, or held again, as   *)
(* others that were held follow it.                                        *)
Settling(R, L, S, U, H, O, l, T, e, N) ==
  /\ DOMAIN S = Loops /\ Placed(R, L, S, U) /\ l \in Loops
  /\ H \cup O = L /\ H \cap O = {} /\ S[l] = T \cup {e} /\ e \notin T
  /\ N = [S EXCEPT ![l] = T \cup O]
LEMMA PlacedSettled ==
  ASSUME NEW R, NEW L, NEW S, NEW U, NEW H, NEW O, NEW l, NEW T, NEW e, NEW N,
         Settling(R, L, S, U, H, O, l, T, e, N)
  PROVE  /\ Placed(R \ {e}, H, N, U) /\ Placed(R, H, N, U \cup {e})
         /\ O = {} => Placed(R, H \cup {e}, N, U)
         /\ \A d \in T : d \notin O
<1>s. /\ DOMAIN S = Loops /\ Placed(R, L, S, U) /\ l \in Loops
      /\ H \cup O = L /\ H \cap O = {} /\ S[l] = T \cup {e} /\ e \notin T
      /\ N = [S EXCEPT ![l] = T \cup O]
  BY DEF Settling
<1>1. N[l] = T \cup O /\ \A k \in Loops \ {l} : N[k] = S[k]
  BY <1>s
<1>2. \A d : /\ d \in L <=> d \in H \/ d \in O
             /\ ~(d \in H /\ d \in O)
             /\ d \in S[l] <=> d \in T \/ d = e
             /\ d \in N[l] <=> d \in T \/ d \in O
  BY <1>s, <1>1
<1>3. /\ \A d : d \in R <=> d \in L \/ d \in U \/ \E k \in Loops : d \in S[k]
      /\ \A d : ~(d \in L /\ d \in U)
      /\ \A k \in Loops : \A d : d \in S[k] => d \notin L /\ d \notin U
      /\ \A j, k \in Loops : \A d : d \in S[j] /\ d \in S[k] => j = k
  BY <1>s DEF Placed
<1>4. /\ e \in R /\ e \notin L /\ e \notin U /\ e \notin T
      /\ \A k \in Loops \ {l} : e \notin S[k]
      /\ \A k \in Loops : e \notin N[k]
  BY <1>s, <1>1, <1>2, <1>3
<1>5. \A j, k \in Loops : \A d : d \in N[j] /\ d \in N[k] => j = k
  BY <1>s, <1>1, <1>2, <1>3
<1>6. \A k \in Loops : \A d : d \in N[k] => d \notin H /\ d \notin U /\ d # e
  BY <1>s, <1>1, <1>2, <1>3, <1>4
<1>7. \A d : d # e => (d \in R <=> d \in H \/ d \in U \/ \E k \in Loops : d \in N[k])
  BY <1>s, <1>1, <1>2, <1>3
<1>8. \A d : ~(d \in H /\ d \in U) /\ e \notin H
  BY <1>2, <1>3, <1>4
<1>9. Placed(R \ {e}, H, N, U)
  BY <1>s, <1>4, <1>5, <1>6, <1>7, <1>8 DEF Placed
<1>10. Placed(R, H, N, U \cup {e})
  BY <1>s, <1>4, <1>5, <1>6, <1>7, <1>8 DEF Placed
<1>11. O = {} => Placed(R, H \cup {e}, N, U)
  BY <1>s, <1>4, <1>5, <1>6, <1>7, <1>8 DEF Placed
<1>12. \A d \in T : d \notin O
  BY <1>s, <1>2, <1>3
<1>13. QED
  BY <1>9, <1>10, <1>11, <1>12

LEMMA DueStill ==
  ASSUME DueInv, room'.held = room.held, live'.held = live.held, unsaid' = unsaid,
         \A k \in Loops : loop'[k].todo = loop[k].todo
  PROVE  DueInv'
<1>1. Outgoing' = Outgoing
  BY DEF Outgoing, Sent
<1>2. OnceInv'
  BY DEF DueInv, OnceInv
<1>3. Placed(Elems(room'.held), Elems(live'.held), Outgoing', unsaid')
  BY <1>1 DEF DueInv
<1>4. QED
  BY <1>2, <1>3 DEF DueInv

LEMMA HandedOutgoing ==
  ASSUME Base, NEW out \in Seq(Ids), Handed(out)
  PROVE  /\ \/ out = <<>> /\ Outgoing' = Outgoing
            \/ \E l \in Loops : /\ Outgoing[l] = {}
                                /\ Outgoing' = [Outgoing EXCEPT ![l] = Elems(out)]
         /\ \A k \in Loops : loop'[k].todo = loop[k].todo \/ loop'[k].todo = out
<1>1. CASE out = <<>> /\ \A k \in Loops : loop'[k].todo = loop[k].todo
  BY <1>1 DEF Outgoing, Sent
<1>2. ASSUME NEW l \in Loops, loop[l] = Free, loop'[l] = [Free EXCEPT !.todo = out],
             \A k \in Loops \ {l} : loop'[k].todo = loop[k].todo
      PROVE  /\ Outgoing[l] = {} /\ Outgoing' = [Outgoing EXCEPT ![l] = Elems(out)]
             /\ \A k \in Loops : loop'[k].todo = loop[k].todo \/ loop'[k].todo = out
  <2>1. loop[l].todo = <<>> /\ loop'[l].todo = out
    BY <1>2, FreeIs
  <2>2. Sent(l) = {} /\ Sent(l)' = Elems(out) /\ \A k \in Loops \ {l} : Sent(k)' = Sent(k)
    <3>1. Elems(<<>>) = {}
      BY DEF Elems
    <3>2. QED
      BY <1>2, <2>1, <3>1 DEF Sent
  <2>3. QED
    BY <1>2, <2>1, <2>2 DEF Outgoing
<1>3. QED
  BY <1>1, <1>2 DEF Handed

LEMMA DueReleased ==
  ASSUME Base, DueInv, NEW P, NEW W \in SUBSET Members, Released(P, W),
         room'.held = room.held, unsaid' = unsaid
  PROVE  DueInv'
<1> DEFINE r == Route(live.held, P, W)
<1>1. live.held \in Seq(Ids) /\ Elems(live.held) \subseteq Waking
  BY DEF Base, RoomTypes, Books, HeldKnown
<1>2. /\ r.held \in Seq(Ids) /\ r.out \in Seq(Ids)
      /\ Elems(r.held) \cup Elems(r.out) = Elems(live.held)
      /\ Distinct(live.held) => SortedOnce(r)
  BY <1>1, RouteKnown
<1>3. live'.held = r.held /\ Handed(r.out)
  BY DEF Released
<1> DEFINE h == r.held
<1> DEFINE out == r.out
<1>4. /\ h \in Seq(Ids) /\ out \in Seq(Ids) /\ Elems(h) \cup Elems(out) = Elems(live.held)
      /\ Distinct(h) /\ Distinct(out) /\ Elems(h) \cap Elems(out) = {}
      /\ live'.held = h /\ Handed(out)
  BY <1>2, <1>3 DEF DueInv, OnceInv, SortedOnce
<1> HIDE DEF r, h, out
<1>5. /\ \/ out = <<>> /\ Outgoing' = Outgoing
         \/ \E l \in Loops : /\ Outgoing[l] = {}
                             /\ Outgoing' = [Outgoing EXCEPT ![l] = Elems(out)]
      /\ \A k \in Loops : loop'[k].todo = loop[k].todo \/ loop'[k].todo = out
  BY <1>4, HandedOutgoing
<1>6. OnceInv'
  BY <1>4, <1>5 DEF DueInv, OnceInv
<1> DEFINE R == Elems(room.held)
<1> DEFINE L == Elems(live.held)
<1>7. Placed(R, L, Outgoing, unsaid) /\ DOMAIN Outgoing = Loops
  BY DEF DueInv, Outgoing
<1>8. Elems(room'.held) = R /\ Elems(live'.held) = Elems(h)
  BY <1>4
<1>9. Placed(R, Elems(h), Outgoing', unsaid)
  <2>1. CASE out = <<>> /\ Outgoing' = Outgoing
    <3>1. Elems(out) = {}
      BY <2>1 DEF Elems
    <3>2. Elems(h) = L
      BY <1>4, <3>1
    <3>3. QED
      BY <1>7, <2>1, <3>2
  <2>2. ASSUME NEW l \in Loops, Outgoing[l] = {},
               Outgoing' = [Outgoing EXCEPT ![l] = Elems(out)]
        PROVE  Placed(R, Elems(h), Outgoing', unsaid)
    <3> HIDE DEF R
    <3>1. Elems(h) \cup Elems(out) = L /\ Elems(h) \cap Elems(out) = {}
      BY <1>4
    <3> HIDE DEF L
    <3>2. QED
      BY <1>7, <2>2, <3>1, PlacedOut
  <2>3. QED
    BY <1>5, <2>1, <2>2
<1>10. QED
  BY <1>6, <1>8, <1>9 DEF DueInv

LEMMA DueEntered ==
  ASSUME Base, DueInv, NEW wakes \in BOOLEAN, Entered(wakes), unsaid' = unsaid
  PROVE  DueInv'
<1>1. CASE ~wakes
  BY <1>1, DueStill DEF Entered
<1>2. CASE wakes
  <2>1. room.held \in Seq(Ids) /\ live.held \in Seq(Ids) /\ New \in Ids
    BY DEF Base, RoomTypes, Books, Entered
  <2>2. New \notin Elems(room.held)
    BY DEF Base, HeldKnown, Waking, Entered
  <2>3. Placed(Elems(room.held), Elems(live.held), Outgoing, unsaid) /\ DOMAIN Outgoing = Loops
        /\ OnceInv
    BY DEF DueInv, Outgoing
  <2>4. New \notin Elems(live.held)
    BY <2>2, <2>3 DEF Placed
  <2>5. /\ Elems(Append(room.held, New)) = Elems(room.held) \cup {New}
        /\ Distinct(Append(room.held, New))
        /\ Elems(Append(live.held, New)) = Elems(live.held) \cup {New}
        /\ Distinct(Append(live.held, New))
    BY <2>1, <2>2, <2>3, <2>4, AppendFacts DEF OnceInv
  <2>6. room'.held = Append(room.held, New)
    BY <1>2 DEF Entered
  <2>7. CASE live'.held = Append(live.held, New) /\ loop' = loop
    <3>1. Outgoing' = Outgoing
      BY <2>7 DEF Outgoing, Sent
    <3>2. OnceInv'
      BY <2>3, <2>5, <2>6, <2>7 DEF OnceInv
    <3>3. Placed(Elems(room.held) \cup {New}, Elems(live.held) \cup {New}, Outgoing, unsaid)
      BY <2>2, <2>3, PlacedNew
    <3>4. QED
      BY <2>5, <2>6, <2>7, <3>1, <3>2, <3>3 DEF DueInv
  <2>8. CASE live'.held = live.held /\ Handed(<<New>>)
    <3> DEFINE out == <<New>>
    <3>1. out \in Seq(Ids) /\ Elems(out) = {New} /\ Distinct(out) /\ out # <<>>
      BY <2>1 DEF Elems, Distinct
    <3> HIDE DEF out
    <3>2. /\ \E l \in Loops : /\ Outgoing[l] = {}
                              /\ Outgoing' = [Outgoing EXCEPT ![l] = Elems(out)]
          /\ \A k \in Loops : loop'[k].todo = loop[k].todo \/ loop'[k].todo = out
      BY <2>8, <3>1, HandedOutgoing DEF out
    <3>3. OnceInv'
      BY <2>3, <2>5, <2>6, <2>8, <3>1, <3>2 DEF OnceInv
    <3>4. Placed(Elems(room.held) \cup {New}, Elems(live.held), Outgoing', unsaid)
      <4>1. PICK l \in Loops : /\ Outgoing[l] = {}
                               /\ Outgoing' = [Outgoing EXCEPT ![l] = {New}]
        BY <3>1, <3>2
      <4> DEFINE R == Elems(room.held)
      <4> DEFINE L == Elems(live.held)
      <4> HIDE DEF R, L
      <4>2. Placed(R, L, Outgoing, unsaid) /\ DOMAIN Outgoing = Loops /\ New \notin R
        BY <2>2, <2>3 DEF R, L
      <4>3. Placed(R \cup {New}, L, [Outgoing EXCEPT ![l] = {New}], unsaid)
        BY <4>1, <4>2, PlacedNew
      <4>4. QED
        BY <4>1, <4>3 DEF R, L
    <3>5. QED
      BY <2>5, <2>6, <2>8, <3>3, <3>4 DEF DueInv
  <2>9. QED
    BY <1>2, <2>7, <2>8 DEF Entered
<1>3. QED
  BY <1>1, <1>2

(* What is known of a loop's deliveries without the first. *)
LEMMA OutgoingTail ==
  ASSUME Base, DueInv, NEW l \in Loops, loop[l].todo # <<>>, NEW out \in Seq(Ids),
         loop'[l].todo = Tail(loop[l].todo) \o out,
         \A k \in Loops \ {l} : loop'[k] = loop[k]
  PROVE  /\ Outgoing[l] = Elems(Tail(loop[l].todo)) \cup {Current(l)}
         /\ Current(l) \notin Elems(Tail(loop[l].todo))
         /\ Outgoing' = [Outgoing EXCEPT ![l] = Elems(Tail(loop[l].todo)) \cup Elems(out)]
         /\ Distinct(out) /\ Elems(Tail(loop[l].todo)) \cap Elems(out) = {}
            => Distinct(loop'[l].todo)
<1> DEFINE T == Elems(Tail(loop[l].todo))
<1>1. /\ Tail(loop[l].todo) \in Seq(Ids) /\ Sent(l) = T \cup {Current(l)}
      /\ Current(l) \notin T /\ Distinct(Tail(loop[l].todo))
  BY CarryFacts DEF DueInv, OnceInv
<1>2. /\ Elems(loop'[l].todo) = T \cup Elems(out)
      /\ Distinct(out) /\ T \cap Elems(out) = {} => Distinct(loop'[l].todo)
  <2> DEFINE s == Tail(loop[l].todo)
  <2>1. s \in Seq(Ids) /\ Distinct(s) /\ T = Elems(s) /\ loop'[l].todo = s \o out
    BY <1>1
  <2> HIDE DEF s, T
  <2>2. /\ Elems(s \o out) = Elems(s) \cup Elems(out)
        /\ Distinct(s) /\ Distinct(out) /\ Elems(s) \cap Elems(out) = {} => Distinct(s \o out)
    BY <2>1, ConcatFacts
  <2>3. QED
    BY <2>1, <2>2
<1>3. Sent(l)' = T \cup Elems(out) /\ \A k \in Loops \ {l} : Sent(k)' = Sent(k)
  BY <1>2 DEF Sent
<1> HIDE DEF T
<1>4. Outgoing[l] = T \cup {Current(l)} /\ Outgoing' = [Outgoing EXCEPT ![l] = T \cup Elems(out)]
  BY <1>1, <1>3 DEF Outgoing
<1>5. QED
  BY <1>1, <1>2, <1>4 DEF T

LEMMA DueHeldLate ==
  ASSUME Base, DueInv, NEW l \in Loops, HoldLate(l)
  PROVE  DueInv'
<1> DEFINE e == Current(l)
<1> DEFINE T == Elems(Tail(loop[l].todo))
<1> DEFINE R == Elems(room.held)
<1> DEFINE L == Elems(live.held)
<1>1. /\ live'.held = Append(live.held, e) /\ loop'[l].todo = Tail(loop[l].todo)
      /\ \A k \in Loops \ {l} : loop'[k] = loop[k]
  BY HoldLateBase
<1>2. loop[l].todo # <<>> /\ room' = room /\ unsaid' = unsaid
  BY DEF HoldLate
<1>3. /\ Tail(loop[l].todo) \in Seq(Ids) /\ e \in Ids /\ live.held \in Seq(Ids)
  BY <1>2, CarryFacts DEF Base, RoomTypes, Books
<1>4. <<>> \in Seq(Ids) /\ Elems(<<>>) = {} /\ Distinct(<<>>)
  BY DEF Elems, Distinct
<1>5. loop'[l].todo = Tail(loop[l].todo) \o <<>>
  BY <1>1, <1>3
<1>6. /\ Outgoing[l] = T \cup {e} /\ e \notin T
      /\ Outgoing' = [Outgoing EXCEPT ![l] = T \cup {}]
      /\ Distinct(loop'[l].todo)
  <2>1. /\ Outgoing[l] = T \cup {e} /\ e \notin T
        /\ Outgoing' = [Outgoing EXCEPT ![l] = T \cup Elems(<<>>)]
        /\ Distinct(<<>>) /\ T \cap Elems(<<>>) = {} => Distinct(loop'[l].todo)
    BY <1>1, <1>2, <1>4, <1>5, OutgoingTail, Zenon
  <2>2. QED
    BY <1>4, <2>1
<1>7. Placed(R, L, Outgoing, unsaid) /\ DOMAIN Outgoing = Loops /\ OnceInv
  BY DEF DueInv, Outgoing
<1>8. e \notin L
  BY <1>6, <1>7 DEF Placed
<1>9. Elems(live'.held) = L \cup {e} /\ Distinct(live'.held)
  BY <1>1, <1>3, <1>7, <1>8, AppendFacts DEF OnceInv
<1>10. OnceInv'
  BY <1>1, <1>2, <1>6, <1>7, <1>9 DEF OnceInv
<1> HIDE DEF R, L, T, e
<1>12. Placed(R, L \cup {e}, Outgoing', unsaid)
  <2> DEFINE S == Outgoing
  <2> DEFINE N == Outgoing'
  <2> DEFINE O == {}
  <2>1. /\ Placed(R, L, S, unsaid) /\ DOMAIN S = Loops /\ S[l] = T \cup {e} /\ e \notin T
        /\ N = [S EXCEPT ![l] = T \cup O] /\ L \cup O = L /\ L \cap O = {} /\ O = {}
    BY <1>6, <1>7
  <2> HIDE DEF S, N, O
  <2>4. Settling(R, L, S, unsaid, L, O, l, T, e, N)
    BY <2>1 DEF Settling
  <2>2. O = {} => Placed(R, L \cup {e}, N, unsaid)
    BY <2>4, PlacedSettled
  <2>3. QED
    BY <2>1, <2>2 DEF N
<1>13. QED
  BY <1>2, <1>9, <1>10, <1>12 DEF DueInv, R

LEMMA DueSettled ==
  ASSUME Base, DueInv, NEW l \in Loops, NEW b, NEW out \in Seq(Ids), Returned(l, b, out)
  PROVE  DueInv'
<1> DEFINE e == Current(l)
<1> DEFINE T == Elems(Tail(loop[l].todo))
<1> DEFINE R == Elems(room.held)
<1> DEFINE L == Elems(live.held)
<1> DEFINE H == Elems(live'.held)
<1> DEFINE O == Elems(out)
<1>1. /\ Settles(l, out) /\ loop[l].todo # <<>> /\ loop'[l].todo = Tail(loop[l].todo) \o out
      /\ \A k \in Loops \ {l} : loop'[k] = loop[k]
  BY DEF Returned, Settles
<1>2. Placed(R, L, Outgoing, unsaid) /\ DOMAIN Outgoing = Loops /\ OnceInv
  BY DEF DueInv, Outgoing
<1>3. live.held \in Seq(Ids) /\ L \subseteq Waking
  BY DEF Base, RoomTypes, Books, HeldKnown
<1>4. H \cup O = L /\ H \cap O = {} /\ Distinct(live'.held) /\ Distinct(out)
  <2>1. CASE live' = live /\ out = <<>>
    BY <1>2, <2>1 DEF Elems, Distinct, OnceInv
  <2>2. CASE LET r == Route(live.held, b.pauses, AtWorkBut(l)) IN
             live'.held = r.held /\ out = r.out
    <3>1. AtWorkBut(l) \in SUBSET Members
      BY DEF AtWorkBut
    <3> DEFINE r == Route(live.held, b.pauses, AtWorkBut(l))
    <3>2. /\ Elems(r.held) \cup Elems(r.out) = L /\ SortedOnce(r)
      BY <1>2, <1>3, <3>1, RouteKnown DEF OnceInv
    <3>3. live'.held = r.held /\ out = r.out
      BY <2>2
    <3> HIDE DEF r
    <3>4. QED
      BY <3>2, <3>3 DEF SortedOnce
  <2>3. QED
    BY <2>1, <2>2 DEF Returned
<1>5. /\ Outgoing[l] = T \cup {e} /\ e \notin T
      /\ Outgoing' = [Outgoing EXCEPT ![l] = T \cup O]
      /\ Distinct(out) /\ T \cap O = {} => Distinct(loop'[l].todo)
  BY <1>1, OutgoingTail
<1>6. /\ \/ Elems(room'.held) = R \ {e} /\ unsaid' = unsaid
         \/ Elems(room'.held) = R /\ unsaid' = unsaid \cup {e}
      /\ Distinct(room.held) => Distinct(room'.held)
  BY <1>1 DEF Settles
<1> HIDE DEF R, L, T, e, H, O
<1>7. /\ Placed(R \ {e}, H, Outgoing', unsaid) /\ Placed(R, H, Outgoing', unsaid \cup {e})
      /\ \A d \in T : d \notin O
  <2> DEFINE S == Outgoing
  <2> DEFINE N == Outgoing'
  <2>1. /\ Placed(R, L, S, unsaid) /\ DOMAIN S = Loops /\ S[l] = T \cup {e} /\ e \notin T
        /\ N = [S EXCEPT ![l] = T \cup O] /\ H \cup O = L /\ H \cap O = {}
    BY <1>2, <1>4, <1>5
  <2> HIDE DEF S, N
  <2>2. /\ Placed(R \ {e}, H, N, unsaid) /\ Placed(R, H, N, unsaid \cup {e})
        /\ \A d \in T : d \notin O
    <3>1. Settling(R, L, S, unsaid, H, O, l, T, e, N)
      BY <2>1 DEF Settling
    <3>2. QED
      BY <3>1, PlacedSettled
  <2>3. QED
    BY <2>2 DEF N
<1>8. T \cap O = {}
  BY <1>7
<1>9. OnceInv'
  BY <1>1, <1>2, <1>4, <1>5, <1>6, <1>8 DEF OnceInv
<1>10. QED
  BY <1>6, <1>7, <1>9 DEF DueInv, H

LEMMA DueReplayed ==
  ASSUME DueInv, NEW c, Replays(c)
  PROVE  DueInv'
<1>1. /\ live'.held = room.held /\ room'.held = room.held /\ unsaid' = {}
      /\ \A k \in Loops : loop'[k].todo = <<>>
  BY DEF Replays, Free
<1>2. Outgoing' = [k \in Loops |-> {}]
  BY <1>1 DEF Outgoing, Sent, Elems
<1>3. Distinct(<<>>)
  BY DEF Distinct
<1>4. OnceInv'
  BY <1>1, <1>3 DEF DueInv, OnceInv
<1>5. Placed(Elems(room.held), Elems(room.held), [k \in Loops |-> {}], {})
  BY DEF Placed
<1>6. QED
  BY <1>1, <1>2, <1>4, <1>5 DEF DueInv

LEMMA SendsKeepDue ==
  ASSUME Base, DueInv, NEW m \in Members, Sends(m)
  PROVE  DueInv'
<1>1. CASE Post(m)
  <2>1. Entered(TRUE) /\ unsaid' = unsaid
    BY <1>1, PostEnters DEF Post, Enter
  <2>2. QED
    BY <2>1, DueEntered
<1>2. ASSUME NEW to \in Members \ {m}, NEW wakes \in BOOLEAN, Send(m, to, wakes)
      PROVE  DueInv'
  <2>1. Entered(wakes) /\ unsaid' = unsaid
    BY <1>2, SendEnters DEF Send, Enter
  <2>2. QED
    BY <2>1, DueEntered
<1>3. CASE SendUnrecorded(m) \/ SendTooFar(m)
  <2>1. \E P : Trips(P)
    BY <1>3, SendUnrecordedTrips, SendTooFarTrips
  <2>2. QED
    BY <2>1, DueStill DEF Trips
<1>4. QED
  BY <1>1, <1>2, <1>3 DEF Sends

LEMMA DispatchingKeepsDue ==
  ASSUME Base, DueInv, NEW l \in Loops, Dispatching(l)
  PROVE  DueInv'
<1>1. CASE Claim(l)
  <2>1. UNCHANGED <<room, unsaid>> /\ live'.held = live.held
        /\ loop' = [loop EXCEPT ![l].at = "drive", ![l].ended = FALSE,
                                ![l].notes = live.notes[To(Current(l))]]
    BY <1>1, ClaimBase DEF Claim, history
  <2>2. \A k \in Loops : loop'[k].todo = loop[k].todo
    BY <2>1 DEF Base, LoopTypes, Dispatches
  <2>3. QED
    BY <2>1, <2>2, DueStill
<1>2. CASE HoldLate(l)
  BY <1>2, DueHeldLate
<1>3. CASE DriverTakes(l) \/ DriverFails(l)
  <2>1. UNCHANGED <<room, live, unsaid>>
        /\ \E at \in {"took", "failed"} : loop' = [loop EXCEPT ![l].at = at]
    BY <1>3 DEF DriverTakes, DriverFails, history
  <2>2. \A k \in Loops : loop'[k].todo = loop[k].todo
    BY <2>1 DEF Base, LoopTypes, Dispatches
  <2>3. QED
    BY <2>1, <2>2, DueStill
<1>4. CASE Return(l)
  BY <1>4, ReturnBase, DueSettled
<1>5. CASE ReturnFailed(l)
  BY <1>5, ReturnFailedBase, DueSettled
<1>6. QED
  BY <1>1, <1>2, <1>3, <1>4, <1>5 DEF Dispatching

LEMMA SessionKeepsDue ==
  ASSUME Base, OpenInv, DueInv, NEW m \in Members, Session(m)
  PROVE  DueInv'
<1>1. CASE Read(m)
  <2>1. UNCHANGED <<loop, unsaid>> /\ live'.held = live.held /\ room'.held = room.held
    BY <1>1, ReadBase DEF Read, Reads
  <2>2. QED
    BY <2>1, DueStill
<1>2. CASE Report(m)
  <2>1. unsaid' = unsaid
    BY <1>2 DEF Report
  <2>2. CASE ReportedLine(m)
    <3>1. room'.held = room.held /\ StillAtWork(m) \in SUBSET Members
          /\ \E P : Released(P, StillAtWork(m))
      BY <2>2 DEF ReportedLine, StillAtWork
    <3>2. QED
      BY <2>1, <3>1, DueReleased
  <2>3. CASE ReportUnlined(m)
    <3>1. <<>> \in Seq(Ids) /\ room' = room /\ live'.held = live.held /\ Handed(<<>>)
      BY <2>3 DEF ReportUnlined
    <3>2. \A k \in Loops : loop'[k].todo = loop[k].todo
      <4>1. \A k \in Loops : loop[k] = Free => loop[k].todo = <<>>
        BY DEF Free
      <4>2. [Free EXCEPT !.todo = <<>>].todo = <<>>
        BY DEF Free
      <4>3. QED
        BY <3>1, <4>1, <4>2 DEF Handed
    <3>3. QED
      BY <2>1, <3>1, <3>2, DueStill
  <2>4. QED
    BY <1>2, <2>2, <2>3, ReportBase
<1>3. CASE ReportNotRun(m)
  <2> DEFINE W == {k \in Members : turning[k] \/ Flying(k) \/ open'[k] > 0}
  <2>1. UNCHANGED <<room, unsaid>> /\ Released(live.pauses, W) /\ W \in SUBSET Members
    BY <1>3, ReportNotRunBase DEF ReportNotRun
  <2> HIDE DEF W
  <2>2. QED
    BY <2>1, DueReleased
<1>4. CASE PersonTurn(m) \/ Launch(m) \/ EndTurn(m) \/ NotRun(m) \/ Restart(m)
  <2>1. UNCHANGED <<live, room, loop, unsaid>>
    BY <1>4 DEF PersonTurn, Launch, EndTurn, NotRun, Restart, router, history
  <2>2. QED
    BY <2>1, DueStill
<1>5. QED
  BY <1>1, <1>2, <1>3, <1>4 DEF Session

LEMMA DueStep ==
  ASSUME Base, OpenInv, DueInv, [Next]_vars
  PROVE  DueInv'
<1>1. ASSUME NEW m \in Members, Sends(m) \/ Session(m) PROVE DueInv'
  BY <1>1, SendsKeepDue, SessionKeepsDue
<1>2. ASSUME NEW l \in Loops, Dispatching(l) PROVE DueInv'
  BY <1>2, DispatchingKeepsDue
<1>3. ASSUME NEW s \in Scopes, Pause(s) PROVE DueInv'
  <2>1. \E P : Trips(P)
    BY <1>3, PauseTrips
  <2>2. QED
    BY <2>1, DueStill DEF Trips
<1>4. ASSUME NEW s \in Scopes, Resume(s) PROVE DueInv'
  <2>1. /\ \E P : Released(P, Working)
        /\ room'.held = room.held /\ unsaid' = unsaid /\ Working \in SUBSET Members
    BY <1>4, ResumeLifts DEF Lifts, Working
  <2>2. QED
    BY <2>1, DueReleased
<1>5. CASE ReleaseDue
  <2>1. Released(live.pauses, Working) /\ Working \in SUBSET Members /\ UNCHANGED <<room, unsaid>>
    BY <1>5, ReleaseDueBase DEF ReleaseDue, Working
  <2>2. QED
    BY <2>1, DueReleased
<1>6. CASE Crash \/ Update \/ Close
  BY <1>6, CrashReplays, UpdateReplays, CloseReplays, DueReplayed
<1>7. CASE NewDay
  BY <1>7, NewDayBase, DueStill DEF history
<1>8. CASE Stop \/ UNCHANGED vars
  BY <1>8, DueStill DEF Stop, vars, router, history
<1>9. QED
  BY <1>1, <1>2, <1>3, <1>4, <1>5, <1>6, <1>7, <1>8 DEF Next

LEMMA DueInit == Init => DueInv
<1> SUFFICES ASSUME Init PROVE DueInv
  OBVIOUS
<1>1. /\ room.held = <<>> /\ live.held = <<>> /\ unsaid = {}
      /\ \A l \in Loops : loop[l].todo = <<>>
  BY DEF Init, Blank, Free
<1>2. Distinct(<<>>) /\ Elems(<<>>) = {} /\ \A l \in Loops : Outgoing[l] = {}
  BY <1>1 DEF Distinct, Elems, Outgoing, Sent
<1>3. QED
  BY <1>1, <1>2 DEF DueInv, OnceInv, Placed

(* What the room owes is what the router holds, has on its way, or handed  *)
(* over with a line it could not record, each delivery in one of them: a   *)
(* restart brings back what was not handed over, and no delivery twice.    *)
THEOREM OwedOnce == Spec => []OwedIsPending
<1>1. Init => Base /\ OpenInv /\ DueInv
  BY BaseInit, OpenInit, DueInit
<1>2. Base /\ OpenInv /\ DueInv /\ [Next]_vars => (Base /\ OpenInv /\ DueInv)'
  BY BaseStep, DueStep
<1>3. DueInv => OwedIsPending
  BY DuePending
<1>4. QED
  BY <1>1, <1>2, <1>3, PTL DEF Spec

(***************************************************************************)
(* A slot the router counts as taken has a turn that gives it back.        *)
(***************************************************************************)
GivesBack(m) == \/ slot[m] # "idle" \/ again[m] # <<>> \/ m \in leaked
                \/ ending[m] \in {"ended", "failed", "interrupted"}
TurnInv == /\ \A m \in Members : turning[m] => GivesBack(m)
           /\ \A l \in Loops : loop[l].at = "took" /\ ~loop[l].ended => GivesBack(To(Current(l)))

LEMMA TurnHasSlot ==
  ASSUME Base, OpenInv, TurnInv
  PROVE  SlotHasTurn
<1>1. ASSUME NEW m \in Members, ending[m] \in {"ended", "failed", "interrupted"} PROVE open[m] > 0
  <2>1. ending[m] # None
    BY <1>1 DEF None
  <2>2. open[m] = (IF slot[m] = "running" THEN 1 ELSE 0) + 1
    BY <2>1 DEF OpenInv
  <2>3. QED
    BY <2>2
<1>2. QED
  BY <1>1 DEF TurnInv, GivesBack, SlotHasTurn

LEMMA CurrentStays ==
  ASSUME Base, Grows, NEW k \in Loops, loop[k].at # "claim", loop'[k].todo = loop[k].todo
  PROVE  To(Current(k)) \in Members /\ To(Current(k))' = To(Current(k))
<1>1. loop[k].todo # <<>>
  BY DEF Base, LoopTypes
<1>2. Current(k) \in Waking /\ To(Current(k)) \in Members
  BY <1>1, CarryFacts
<1>3. Current(k)' = Current(k) /\ env'[Current(k)] = env[Current(k)]
  BY <1>2 DEF Current, Grows, Waking
<1>4. QED
  BY <1>2, <1>3 DEF To

LEMMA TurnStays ==
  ASSUME Base, TurnInv, Grows,
         \A m \in Members : /\ GivesBack(m) => GivesBack(m)'
                            /\ turning'[m] => turning[m],
         \A k \in Loops : loop'[k] = loop[k] \/ loop'[k].at # "took"
  PROVE  TurnInv'
<1>1. ASSUME NEW k \in Loops, loop'[k].at = "took", ~loop'[k].ended
      PROVE  GivesBack(To(Current(k)))'
  <2>1. loop'[k] = loop[k] /\ loop[k].at # "claim"
    BY <1>1
  <2>2. To(Current(k)) \in Members /\ To(Current(k))' = To(Current(k))
    BY <2>1, CurrentStays
  <2>3. GivesBack(To(Current(k)))
    BY <1>1, <2>1 DEF TurnInv
  <2>4. QED
    BY <2>2, <2>3 DEF GivesBack
<1>2. QED
  BY <1>1 DEF TurnInv

(* No session moves, and no delivery becomes a turn. *)
LEMMA TurnStill ==
  ASSUME Base, TurnInv, Grows, UNCHANGED <<session, turning, leaked>>,
         \A k \in Loops : loop'[k] = loop[k] \/ loop'[k].at # "took"
  PROVE  TurnInv'
<1>1. \A m \in Members : GivesBack(m) => GivesBack(m)'
  BY DEF GivesBack, session
<1>2. QED
  BY <1>1, TurnStays

LEMMA HandedLoops ==
  ASSUME Handed(<<>>) \/ (\E out \in Seq(Ids) : Handed(out)), NEW k \in Loops
  PROVE  loop'[k].todo = loop[k].todo \/ loop'[k].at = "claim"
<1>1. \A out \in Seq(Ids) : [Free EXCEPT !.todo = out].at = "claim"
  BY FreeIs
<1>2. PICK out \in Seq(Ids) : Handed(out)
  <2>1. <<>> \in Seq(Ids)
    OBVIOUS
  <2>2. QED
    BY <2>1
<1>3. CASE \A j \in Loops : loop'[j].todo = loop[j].todo
  BY <1>3
<1>4. ASSUME NEW l \in Loops, loop'[l] = [Free EXCEPT !.todo = out],
             \A j \in Loops \ {l} : loop'[j].todo = loop[j].todo
      PROVE  loop'[k].todo = loop[k].todo \/ loop'[k].at = "claim"
  BY <1>1, <1>4
<1>5. QED
  BY <1>2, <1>3, <1>4 DEF Handed

LEMMA ReportTurns ==
  ASSUME Base, OpenInv, TurnInv, NEW m \in Members, Report(m)
  PROVE  TurnInv'
<1>1. /\ UNCHANGED <<env, slot, again>> /\ ending' = [ending EXCEPT ![m] = None]
      /\ turning' = [turning EXCEPT ![m] = FALSE] /\ leaked' = leaked \ {m}
  BY DEF Report, Closed
<1>2. Grows
  BY <1>1, SameGrows
<1>3. /\ turning \in [Members -> BOOLEAN]
      /\ ending \in [Members -> {None, "ended", "failed", "interrupted", "notrun"}]
  BY DEF Base, RoomTypes, SessionTypes
<1>4. ~turning'[m] /\ \A k \in Members \ {m} : /\ turning'[k] = turning[k]
                                               /\ GivesBack(k) => GivesBack(k)'
  BY <1>1, <1>3 DEF GivesBack
<1>5. Hears(m) /\ \E out \in Seq(Ids) : Handed(out)
  <2>1. <<>> \in Seq(Ids) /\ StillAtWork(m) \in SUBSET Members
        /\ live.held \in Seq(Ids) /\ Elems(live.held) \subseteq Waking
    BY DEF StillAtWork, Base, RoomTypes, Books, HeldKnown
  <2>2. ASSUME NEW P, Released(P, StillAtWork(m)) PROVE \E out \in Seq(Ids) : Handed(out)
    <3>1. Route(live.held, P, StillAtWork(m)).out \in Seq(Ids)
      BY <2>1, RouteKnown
    <3>2. QED
      BY <2>2, <3>1 DEF Released
  <2>3. QED
    BY <2>1, <2>2, ReportBase DEF ReportedLine, ReportUnlined
<1>6. ASSUME NEW k \in Loops, loop'[k].at = "took", ~loop'[k].ended
      PROVE  GivesBack(To(Current(k)))'
  <2>1. loop'[k].todo = loop[k].todo
    BY <1>5, <1>6, HandedLoops
  <2>2. loop[k].at = "took" /\ To(Current(k)) # m /\ ~loop[k].ended
    BY <1>5, <1>6 DEF Hears
  <2>3. To(Current(k)) \in Members /\ To(Current(k))' = To(Current(k))
    BY <1>2, <2>1, <2>2, CurrentStays
  <2>4. GivesBack(To(Current(k)))
    BY <2>2 DEF TurnInv
  <2> DEFINE j == To(Current(k))
  <2>6. j \in Members \ {m} /\ GivesBack(j) /\ To(Current(k))' = j
    BY <2>2, <2>3, <2>4
  <2>7. slot'[j] = slot[j] /\ again'[j] = again[j] /\ ending'[j] = ending[j]
        /\ (j \in leaked => j \in leaked')
    BY <1>1, <1>3, <2>6
  <2> HIDE DEF j
  <2>8. QED
    BY <2>6, <2>7 DEF GivesBack
<1>7. \A k \in Members : turning'[k] => GivesBack(k)'
  BY <1>4 DEF TurnInv
<1>8. QED
  BY <1>6, <1>7 DEF TurnInv

LEMMA SessionKeepsTurns ==
  ASSUME Base, OpenInv, TurnInv, NEW m \in Members, Session(m)
  PROVE  TurnInv'
<1>1. /\ slot \in [Members -> {"idle", "claimed", "running"}] /\ again \in [Members -> Seq(Texts)]
      /\ ending \in [Members -> {None, "ended", "failed", "interrupted", "notrun"}]
      /\ Base'
  BY SessionKeepsBase DEF Base, SessionTypes
<1>2. CASE Report(m)
  BY <1>2, ReportTurns
<1>3. CASE ReportNotRun(m)
  <2>1. /\ UNCHANGED <<env, turning, slot, again, leaked>> /\ ending[m] = "notrun"
        /\ ending' = [ending EXCEPT ![m] = None]
    BY <1>3 DEF ReportNotRun
  <2>2. \A k \in Members : GivesBack(k) => GivesBack(k)'
    BY <1>1, <2>1 DEF GivesBack
  <2>3. \A k \in Loops : loop'[k] = loop[k] \/ loop'[k].at = "claim"
    BY <1>3, ReportNotRunBase
  <2>4. QED
    BY <2>1, <2>2, <2>3, SameGrows, TurnStays
<1>4. CASE Read(m)
  <2>1. UNCHANGED <<env, turning, slot, again, ending, leaked, loop>>
    BY <1>4 DEF Read, Routing
  <2>2. QED
    BY <2>1, SameGrows, TurnStays DEF GivesBack
<1>5. CASE PersonTurn(m) \/ Launch(m)
  <2>1. /\ UNCHANGED <<env, turning, again, ending, leaked, loop>>
        /\ \E to \in {"claimed", "running"} : slot' = [slot EXCEPT ![m] = to]
    BY <1>5 DEF PersonTurn, Launch, router, history
  <2>2. \A k \in Members : GivesBack(k) => GivesBack(k)'
    BY <1>1, <2>1 DEF GivesBack
  <2>3. QED
    BY <2>1, <2>2, SameGrows, TurnStays
<1>6. CASE EndTurn(m)
  <2>1. /\ UNCHANGED <<env, turning, leaked, loop>> /\ slot' = [slot EXCEPT ![m] = "idle"]
        /\ \E how \in {"ended", "failed", "interrupted"} : ending' = [ending EXCEPT ![m] = how]
        /\ \A k \in Members \ {m} : again'[k] = again[k]
    BY <1>1, <1>6 DEF EndTurn, Shift, router, history
  <2>2. \A k \in Members : GivesBack(k) => GivesBack(k)'
    BY <1>1, <2>1 DEF GivesBack
  <2>3. QED
    BY <2>1, <2>2, SameGrows, TurnStays
<1>7. CASE NotRun(m)
  <2>1. /\ UNCHANGED <<env, turning, loop>> /\ slot' = [slot EXCEPT ![m] = "idle"]
        /\ ending' = [ending EXCEPT ![m] = "notrun"] /\ leaked' = leaked \cup {m}
        /\ \A k \in Members \ {m} : again'[k] = again[k]
    BY <1>1, <1>7 DEF NotRun, Shift, router
  <2>2. \A k \in Members : GivesBack(k) => GivesBack(k)'
    BY <1>1, <2>1 DEF GivesBack
  <2>3. QED
    BY <2>1, <2>2, SameGrows, TurnStays
<1>8. CASE Restart(m)
  <2>1. /\ UNCHANGED <<env, turning, loop, leaked, ending>>
        /\ again' = [again EXCEPT ![m] = <<>>]
        /\ \/ slot[m] = "idle" /\ slot' = [slot EXCEPT ![m] = "claimed"]
           \/ slot[m] # "idle" /\ slot' = slot
    BY <1>8 DEF Restart, router, history
  <2>2. slot'[m] # "idle" /\ \A k \in Members \ {m} : slot'[k] = slot[k] /\ again'[k] = again[k]
    BY <1>1, <2>1
  <2>3. \A k \in Members : GivesBack(k) => GivesBack(k)'
    BY <2>1, <2>2 DEF GivesBack
  <2>4. QED
    BY <2>1, <2>3, SameGrows, TurnStays
<1>9. QED
  BY <1>2, <1>3, <1>4, <1>5, <1>6, <1>7, <1>8 DEF Session

LEMMA DriverTakesTurns ==
  ASSUME Base, TurnInv, NEW l \in Loops, DriverTakes(l)
  PROVE  TurnInv'
<1> DEFINE m == To(Current(l))
<1>1. /\ loop[l].at = "drive" /\ loop' = [loop EXCEPT ![l].at = "took"]
      /\ UNCHANGED <<env, turning, ending, again, leaked>>
      /\ \/ slot[m] = "idle" /\ slot' = [slot EXCEPT ![m] = "claimed"]
         \/ slot[m] # "idle" /\ slot' = slot
  BY DEF DriverTakes, history
<1>2. Grows
  BY <1>1, SameGrows
<1>3. LoopTypes
  BY DEF Base
<1>4. loop'[l].todo = loop[l].todo /\ \A k \in Loops \ {l} : loop'[k] = loop[k]
  BY <1>1, <1>3, PlacedLoop
<1>5. m \in Members /\ To(Current(l))' = m
  BY <1>1, <1>2, <1>4, CurrentStays
<1>6. slot'[m] # "idle" /\ \A k \in Members \ {m} : slot'[k] = slot[k]
  <2>1. slot \in [Members -> {"idle", "claimed", "running"}]
    BY DEF Base, SessionTypes
  <2> HIDE DEF m
  <2>2. QED
    BY <1>1, <1>5, <2>1
<1> HIDE DEF m
<1>7. \A k \in Members : GivesBack(k) => GivesBack(k)'
  BY <1>1, <1>6 DEF GivesBack
<1>8. ASSUME NEW k \in Loops, loop'[k].at = "took", ~loop'[k].ended
      PROVE  GivesBack(To(Current(k)))'
  <2>1. CASE k = l
    BY <1>5, <1>6, <2>1 DEF GivesBack
  <2>2. CASE k # l
    <3>1. loop'[k] = loop[k] /\ loop[k].at = "took" /\ ~loop[k].ended
      BY <1>4, <1>8, <2>2
    <3>2. To(Current(k)) \in Members /\ To(Current(k))' = To(Current(k))
      BY <1>2, <3>1, CurrentStays
    <3>3. GivesBack(To(Current(k)))
      BY <3>1 DEF TurnInv
    <3>4. PICK j \in Members : GivesBack(j) /\ To(Current(k))' = j
      BY <3>2, <3>3
    <3>5. GivesBack(j)'
      BY <1>1, <1>6, <3>4 DEF GivesBack
    <3>6. QED
      BY <3>4, <3>5 DEF GivesBack
  <2>3. QED
    BY <2>1, <2>2
<1>9. \A k \in Members : turning'[k] => GivesBack(k)'
  BY <1>1, <1>7 DEF TurnInv
<1>10. QED
  BY <1>8, <1>9 DEF TurnInv

LEMMA SettledTurns ==
  ASSUME Base, TurnInv, NEW l \in Loops, loop[l].at # "claim",
         NEW b, NEW out \in Seq(Ids), Returned(l, b, out),
         UNCHANGED <<env, session, leaked>>
  PROVE  TurnInv'
<1>1. Grows
  BY SameGrows
<1>2. /\ loop'[l].at = "claim" /\ \A k \in Loops \ {l} : loop'[k] = loop[k]
      /\ \/ turning' = turning
         \/ /\ ~loop[l].ended /\ loop[l].at = "took"
            /\ turning' = [turning EXCEPT ![To(Current(l))] = TRUE]
  BY DEF Returned, Settles
<1>3. CASE turning' = turning
  BY <1>1, <1>2, <1>3, TurnStill
<1>4. CASE /\ ~loop[l].ended /\ loop[l].at = "took"
           /\ turning' = [turning EXCEPT ![To(Current(l))] = TRUE]
  <2> DEFINE m == To(Current(l))
  <2>1. GivesBack(m) /\ turning \in [Members -> BOOLEAN]
    BY <1>4 DEF TurnInv, Base, RoomTypes
  <2>2. \A k \in Members : GivesBack(k) => GivesBack(k)'
    BY DEF GivesBack, session
  <2>3. m \in Members
    BY <1>4, CarryFacts DEF Base, LoopTypes
  <2>4. turning' = [turning EXCEPT ![m] = TRUE]
    BY <1>4
  <2> HIDE DEF m
  <2>5. \A k \in Members : turning'[k] => turning[k] \/ k = m
    BY <2>1, <2>4
  <2>6. \A k \in Members : turning'[k] => GivesBack(k)'
    BY <2>1, <2>2, <2>3, <2>5 DEF TurnInv
  <2>7. ASSUME NEW k \in Loops, loop'[k].at = "took", ~loop'[k].ended
        PROVE  GivesBack(To(Current(k)))'
    <3>1. loop'[k] = loop[k] /\ loop[k].at = "took" /\ ~loop[k].ended
      BY <1>2, <2>7
    <3>2. To(Current(k))' = To(Current(k)) /\ To(Current(k)) \in Members
      BY <1>1, <3>1, CurrentStays
    <3>3. GivesBack(To(Current(k)))
      BY <3>1 DEF TurnInv
    <3>4. QED
      BY <2>2, <3>2, <3>3 DEF GivesBack
  <2>8. QED
    BY <2>6, <2>7 DEF TurnInv
<1>5. QED
  BY <1>2, <1>3, <1>4

LEMMA DispatchingKeepsTurns ==
  ASSUME Base, TurnInv, NEW l \in Loops, Dispatching(l)
  PROVE  TurnInv'
<1>0. LoopTypes
  BY DEF Base
<1>1. CASE Claim(l)
  <2>1. /\ UNCHANGED <<env, session, turning, leaked>> /\ loop'[l].at = "drive"
        /\ loop' = [loop EXCEPT ![l].at = "drive", ![l].ended = FALSE,
                                ![l].notes = live.notes[To(Current(l))]]
    BY <1>1, ClaimBase DEF Claim, history
  <2>2. \A k \in Loops : loop'[k] = loop[k] \/ loop'[k].at # "took"
    BY <1>0, <2>1 DEF LoopTypes
  <2>3. QED
    BY <2>1, <2>2, SameGrows, TurnStill
<1>2. CASE HoldLate(l)
  <2>1. /\ UNCHANGED <<env, session, turning, leaked>>
        /\ \A k \in Loops : loop'[k] = loop[k] \/ loop'[k].at = "claim"
    BY <1>2, HoldLateBase DEF HoldLate
  <2>2. QED
    BY <2>1, SameGrows, TurnStill
<1>3. CASE DriverTakes(l)
  BY <1>3, DriverTakesTurns
<1>4. CASE DriverFails(l)
  <2>1. /\ UNCHANGED <<env, session, turning, leaked>> /\ loop[l].at # "claim"
        /\ loop' = [loop EXCEPT ![l].at = "failed"]
    BY <1>4 DEF DriverFails, history
  <2>2. \A k \in Loops : loop'[k] = loop[k] \/ loop'[k].at # "took"
    BY <1>0, <2>1, PlacedLoop
  <2>3. QED
    BY <2>1, <2>2, SameGrows, TurnStill
<1>5. CASE Return(l)
  <2>1. UNCHANGED <<env, session, leaked>> /\ loop[l].at # "claim"
    BY <1>5 DEF Return
  <2>2. QED
    BY <1>5, <2>1, ReturnBase, SettledTurns
<1>6. CASE ReturnFailed(l)
  <2>1. UNCHANGED <<env, session, leaked>> /\ loop[l].at # "claim"
    BY <1>6 DEF ReturnFailed
  <2>2. QED
    BY <1>6, <2>1, ReturnFailedBase, SettledTurns
<1>7. QED
  BY <1>1, <1>2, <1>3, <1>4, <1>5, <1>6 DEF Dispatching

LEMMA EnterLoops ==
  ASSUME LoopTypes, New \in Ids, NEW e, NEW b, Enter(e, b)
  PROVE  \A k \in Loops : loop'[k] = loop[k] \/ loop'[k].at = "claim"
<1> DEFINE out == <<New>>
<1>1. out \in Seq(Ids)
  OBVIOUS
<1>2. loop' = loop \/ Dispatch(out)
  BY Zenon DEF Enter, New
<1> HIDE DEF out
<1>3. QED
  BY <1>1, <1>2, DispatchFacts

LEMMA SendsKeepTurns ==
  ASSUME Base, TurnInv, NEW m \in Members, Sends(m)
  PROVE  TurnInv'
<1>1. UNCHANGED <<session, turning, leaked>>
  BY DEF Sends, Post, Send, Enter, SendUnrecorded, SendTooFar, history
<1>2. CASE \E wakes \in BOOLEAN : Entered(wakes) /\ \E e, b : Enter(e, b)
  <2>1. Grows /\ New \in Ids
    BY <1>2 DEF Entered
  <2>2. \A k \in Loops : loop'[k] = loop[k] \/ loop'[k].at = "claim"
    BY <1>2, <2>1, EnterLoops DEF Base
  <2>3. QED
    BY <1>1, <2>1, <2>2, TurnStill
<1>3. CASE \E P : Trips(P)
  <2>1. env' = env /\ loop' = loop
    BY <1>3 DEF Trips
  <2>2. QED
    BY <1>1, <2>1, SameGrows, TurnStill
<1>4. CASE Post(m)
  <2>1. Entered(TRUE) /\ \E e, b : Enter(e, b)
    BY <1>4, PostEnters DEF Post
  <2>2. QED
    BY <1>2, <2>1
<1>5. ASSUME NEW to \in Members \ {m}, NEW wakes \in BOOLEAN, Send(m, to, wakes)
      PROVE  TurnInv'
  <2>1. Entered(wakes) /\ \E e, b : Enter(e, b)
    BY <1>5, SendEnters DEF Send
  <2>2. QED
    BY <1>2, <2>1
<1>6. QED
  BY <1>3, <1>4, <1>5, SendUnrecordedTrips, SendTooFarTrips DEF Sends

LEMMA TurnStep ==
  ASSUME Base, OpenInv, TurnInv, [Next]_vars
  PROVE  TurnInv'
<1>1. ASSUME NEW m \in Members, Sends(m) \/ Session(m) PROVE TurnInv'
  BY <1>1, SendsKeepTurns, SessionKeepsTurns
<1>2. ASSUME NEW l \in Loops, Dispatching(l) PROVE TurnInv'
  BY <1>2, DispatchingKeepsTurns
<1>3. ASSUME NEW s \in Scopes, Pause(s) PROVE TurnInv'
  <2>1. UNCHANGED <<env, loop, session, turning, leaked>>
    BY <1>3 DEF Pause
  <2>2. QED
    BY <2>1, SameGrows, TurnStill
<1>4. ASSUME NEW s \in Scopes, Resume(s) PROVE TurnInv'
  <2>1. /\ UNCHANGED <<env, session, turning, leaked>>
        /\ \A k \in Loops : loop'[k] = loop[k] \/ loop'[k].at = "claim"
    BY <1>4, ResumeLifts DEF Lifts
  <2>2. QED
    BY <2>1, SameGrows, TurnStill
<1>5. CASE ReleaseDue
  <2>1. /\ UNCHANGED <<env, session, turning, leaked>>
        /\ \A k \in Loops : loop'[k] = loop[k] \/ loop'[k].at = "claim"
    BY <1>5, ReleaseDueBase DEF ReleaseDue
  <2>2. QED
    BY <2>1, SameGrows, TurnStill
<1>6. CASE Crash \/ Update \/ Close
  <2>1. \E c : Replays(c)
    BY <1>6, CrashReplays, UpdateReplays, CloseReplays
  <2>2. /\ \A m \in Members : ~turning'[m]
        /\ \A l \in Loops : loop'[l].at = "claim"
    BY <2>1 DEF Replays, Free
  <2>3. QED
    BY <2>2 DEF TurnInv
<1>7. CASE NewDay \/ Stop \/ UNCHANGED vars
  <2>1. UNCHANGED <<env, loop, session, turning, leaked>>
    BY <1>7 DEF NewDay, Stop, vars, router, history
  <2>2. QED
    BY <2>1, SameGrows, TurnStill
<1>8. QED
  BY <1>1, <1>2, <1>3, <1>4, <1>5, <1>6, <1>7 DEF Next

(***************************************************************************)
(* No delivery waits for a working slot while one is free.                 *)
(***************************************************************************)
UsedSlots == ~due /\ ~late => \A e \in Elems(live.held) : ~Waits(e)

LEMMA FewWorking ==
  ASSUME NEW W \in SUBSET Members
  PROVE  /\ Cardinality(W) \in Nat
         /\ \A V \in SUBSET W : Cardinality(V) \in Nat /\ Cardinality(V) <= Cardinality(W)
BY FS_Subset, FS_CardinalityType

(* With as much paused and as many at work, what waited for either does.   *)
LEMMA WaitsStill ==
  ASSUME RoomTypes, Grows, live.pauses \subseteq live'.pauses, stopped => stopped',
         Working \subseteq Working', NEW e \in Waking, ~Waits(e)
  PROVE  ~Waits(e)'
<1>1. /\ To(e)' = To(e) /\ Root(e)' = Root(e) /\ To(e) \in Members
  BY WakingTo DEF Grows, Waking, To, Root
<1>2. Blocked(e) => Blocked(e)'
  BY <1>1 DEF Blocked, Holds
<1>3. Busy(To(e)) => Busy(To(e))'
  <2>1. Busy(To(e)) => To(e) \in Working'
    BY <1>1 DEF Working
  <2>2. To(e)' \in Working' => Busy(To(e))'
    BY DEF Working
  <2>3. QED
    BY <1>1, <2>1, <2>2
<1>4. Cardinality(Working) <= Cardinality(Working')
      /\ Cardinality(Working) \in Nat /\ Cardinality(Working') \in Nat
  <2>1. Working' \in SUBSET Members
    BY DEF Working
  <2>2. QED
    BY <2>1, FewWorking
<1>5. Cardinality(Working) >= MaxWorking => Cardinality(Working') >= MaxWorking
  BY <1>4
<1>6. QED
  BY <1>2, <1>3, <1>4, <1>5 DEF Waits

LEMMA UsedStays ==
  ASSUME Base, UsedSlots, Grows, live.pauses \subseteq live'.pauses, stopped => stopped',
         Working \subseteq Working', live'.held = live.held,
         ~due' => ~due, ~late' => ~late
  PROVE  UsedSlots'
<1>1. ASSUME ~due', ~late', NEW e \in Elems(live'.held) PROVE ~Waits(e)'
  <2>1. e \in Elems(live.held) /\ ~due /\ ~late /\ e \in Waking
    BY <1>1 DEF Base, HeldKnown
  <2>2. ~Waits(e)
    BY <2>1 DEF UsedSlots
  <2>3. QED
    BY <2>1, <2>2, WaitsStill DEF Base
<1>2. QED
  BY <1>1 DEF UsedSlots

(* What a release leaves held is paused, or finds every slot taken.        *)
LEMMA UsedRouted ==
  ASSUME Base, NEW P, NEW W \in SUBSET Members, env' = env, stopped' = stopped,
         live'.held = Route(live.held, P, W).held, live'.pauses = P,
         \A m \in Members : Busy(m)' <=>
           m \in W \/ \E e \in Elems(Route(live.held, P, W).out) : To(e) = m
  PROVE  UsedSlots'
<1> DEFINE r == Route(live.held, P, W)
<1>1. live.held \in Seq(Ids) /\ Elems(live.held) \subseteq Waking
  BY DEF Base, RoomTypes, Books, HeldKnown
<1>2. /\ r.atWork = W \cup {To(e) : e \in Elems(r.out)}
      /\ \A e \in Elems(r.held) : Stays(P, r.atWork, e)
      /\ Elems(r.held) \cup Elems(r.out) = Elems(live.held)
  <2>1. Base /\ live.held \in Seq(Ids) /\ Elems(live.held) \subseteq Waking
        /\ W \in SUBSET Members
    BY <1>1
  <2>2. r.atWork = W \cup {To(e) : e \in Elems(r.out)}
    BY <2>1, RouteKnown
  <2>3. \A e \in Elems(r.held) : Stays(P, r.atWork, e)
    BY <2>1, RouteKnown
  <2>4. Elems(r.held) \cup Elems(r.out) = Elems(live.held)
    BY <2>1, RouteKnown
  <2>5. QED
    BY <2>2, <2>3, <2>4
<1>3. live'.held = r.held /\ \A m \in Members : Busy(m)' <=>
           m \in W \/ \E e \in Elems(r.out) : To(e) = m
  OBVIOUS
<1> HIDE DEF r
<1>4. \A e \in Elems(r.held) \cup Elems(r.out) : To(e) \in Members /\ e \in Waking
  BY <1>1, <1>2, WakingTo DEF Base
<1>5. Working' = r.atWork
  <2>1. \A m : m \in Working' <=> m \in Members /\ Busy(m)'
    BY DEF Working
  <2>2. \A m : m \in r.atWork <=> m \in W \/ \E e \in Elems(r.out) : To(e) = m
    BY <1>2
  <2>3. \A m : m \in r.atWork => m \in Members
    BY <1>4, <2>2
  <2>4. \A m : m \in Working' <=> m \in r.atWork
    BY <1>3, <2>1, <2>2, <2>3
  <2>5. QED
    BY <2>4
<1>6. ASSUME NEW e \in Elems(r.held) PROVE ~Waits(e)'
  <2>1. Stays(P, r.atWork, e) /\ To(e)' = To(e) /\ Root(e)' = Root(e)
    BY <1>2 DEF To, Root
  <2>2. CASE Holds(P, e)
    <3>1. Blocked(e)'
      BY <2>1, <2>2 DEF Blocked, Holds
    <3>2. QED
      BY <3>1 DEF Waits
  <2>3. CASE Cardinality(r.atWork) >= MaxWorking
    <3>1. Cardinality(Working') \in Nat
      <4>1. Working' \in SUBSET Members
        BY DEF Working
      <4>2. QED
        BY <4>1, FewWorking
    <3>2. ~(Cardinality(Working') < MaxWorking)
      BY <1>5, <2>3, <3>1
    <3>3. QED
      BY <3>2 DEF Waits
  <2>4. QED
    BY <2>1, <2>2, <2>3 DEF Stays
<1>7. QED
  BY <1>3, <1>6 DEF UsedSlots

LEMMA HandedFlying ==
  ASSUME Base, env' = env, NEW out \in Seq(Ids), Handed(out)
  PROVE  \A m : Flying(m)' <=> Flying(m) \/ \E e \in Elems(out) : To(e) = m
<1>1. \A m, e : To(e)' = m <=> To(e) = m
  BY DEF To
<1>2. CASE out = <<>> /\ \A k \in Loops : loop'[k].todo = loop[k].todo
  <2>1. Elems(out) = {} /\ \A k \in Loops : Sent(k)' = Sent(k)
    BY <1>2 DEF Elems, Sent
  <2>2. ASSUME NEW m PROVE Flying(m)' <=> Flying(m)
    <3>1. Flying(m)' <=> \E k \in Loops : \E e \in Sent(k)' : To(e) = m
      BY <1>1 DEF Flying
    <3>2. QED
      BY <2>1, <3>1 DEF Flying
  <2>3. QED
    BY <2>1, <2>2
<1>3. ASSUME NEW l \in Loops, loop[l] = Free, loop'[l] = [Free EXCEPT !.todo = out],
             \A k \in Loops \ {l} : loop'[k].todo = loop[k].todo
      PROVE  \A m : Flying(m)' <=> Flying(m) \/ \E e \in Elems(out) : To(e) = m
  <2>1. loop'[l].todo = out /\ loop[l].todo = <<>>
    BY <1>3, FreeIs
  <2>2. Sent(l) = {} /\ Sent(l)' = Elems(out) /\ \A k \in Loops \ {l} : Sent(k)' = Sent(k)
    <3>1. Elems(<<>>) = {}
      BY DEF Elems
    <3>2. QED
      BY <1>3, <2>1, <3>1 DEF Sent
  <2>3. ASSUME NEW m PROVE Flying(m)' <=> Flying(m) \/ \E e \in Elems(out) : To(e) = m
    <3>1. Flying(m)' <=> \E k \in Loops : \E e \in Sent(k)' : To(e) = m
      BY <1>1 DEF Flying
    <3>2. Flying(m) <=> \E k \in Loops \ {l} : \E e \in Sent(k) : To(e) = m
      BY <2>2 DEF Flying
    <3>3. QED
      BY <2>2, <3>1, <3>2
  <2>4. QED
    BY <2>3
<1>4. QED
  BY <1>2, <1>3 DEF Handed

LEMMA UsedReleased ==
  ASSUME Base, NEW P, NEW W \in SUBSET Members, Released(P, W), env' = env, stopped' = stopped,
         \A m \in Members : m \in W <=> turning'[m] \/ Flying(m) \/ open'[m] > 0
  PROVE  UsedSlots'
<1> DEFINE out == Route(live.held, P, W).out
<1>1. live.held \in Seq(Ids) /\ Elems(live.held) \subseteq Waking
  BY DEF Base, RoomTypes, Books, HeldKnown
<1>2. out \in Seq(Ids) /\ Handed(out)
  BY <1>1, RouteKnown DEF Released
<1>3. \A m : Flying(m)' <=> Flying(m) \/ \E e \in Elems(out) : To(e) = m
  <2> HIDE DEF out
  <2>1. QED
    BY <1>2, HandedFlying
<1>4. \A m \in Members : Busy(m)' <=> m \in W \/ \E e \in Elems(out) : To(e) = m
  <2> HIDE DEF out
  <2>1. QED
    BY <1>3 DEF Busy
<1>5. QED
  BY <1>4, UsedRouted DEF Released

(* The call that let go of a delivery takes the released ones with it.     *)
LEMMA UsedSettled ==
  ASSUME Base, UsedSlots, DueInv, NEW l \in Loops, loop[l].at # "claim", NEW b,
         NEW out \in Seq(Ids), Returned(l, b, out), live.pauses \subseteq b.pauses,
         UNCHANGED <<env, stopped, due, session>>
  PROVE  UsedSlots'
<1> DEFINE c == Current(l)
<1>1. /\ loop[l].todo # <<>> /\ loop'[l].todo = Tail(loop[l].todo) \o out
      /\ \A k \in Loops \ {l} : loop'[k] = loop[k]
      /\ live'.pauses = b.pauses
  BY DEF Returned, Settles
<1>2. /\ Sent(l) = Elems(Tail(loop[l].todo)) \cup {c} /\ c \notin Elems(Tail(loop[l].todo))
      /\ Tail(loop[l].todo) \in Seq(Ids) /\ To(c) \in Members
  BY <1>1, CarryFacts DEF DueInv, OnceInv
<1>3. Sent(l)' = (Sent(l) \ {c}) \cup Elems(out) /\ \A k \in Loops \ {l} : Sent(k)' = Sent(k)
  <2> DEFINE s == Tail(loop[l].todo)
  <2>1. s \in Seq(Ids) /\ loop'[l].todo = s \o out /\ Sent(l) \ {c} = Elems(s)
    BY <1>1, <1>2
  <2> HIDE DEF s, c
  <2>2. Elems(s \o out) = Elems(s) \cup Elems(out)
    BY <2>1, ConcatFacts
  <2>3. QED
    BY <1>1, <2>1, <2>2 DEF Sent
<1>4. \A e, m : To(e)' = m <=> To(e) = m
  BY DEF To
<1>5. \A m : Flying(m)' <=> \/ \E e \in Sent(l) \ {c} : To(e) = m
                            \/ \E e \in Elems(out) : To(e) = m
                            \/ \E k \in Loops \ {l} : \E e \in Sent(k) : To(e) = m
  <2> HIDE DEF c
  <2>1. QED
    BY <1>3, <1>4 DEF Flying
<1>6. CASE /\ turning' = [turning EXCEPT ![To(c)] = TRUE]
           /\ live' = live /\ late' = late
  <2>1. turning \in [Members -> BOOLEAN] /\ c \in Sent(l)
    BY <1>2 DEF Base, RoomTypes
  <2>2. \A m \in Members : Flying(m) => Flying(m)' \/ m = To(c)
    <3> HIDE DEF c
    <3>1. QED
      BY <1>5 DEF Flying
  <2>3. \A m \in Members : (turning[m] \/ m = To(c)) => turning'[m]
    <3> HIDE DEF c
    <3>1. QED
      BY <1>2, <1>6, <2>1
  <2>4. Working \subseteq Working'
    <3>1. \A m \in Members : Busy(m) => Busy(m)'
      BY <2>2, <2>3 DEF Busy, session
    <3>2. QED
      BY <3>1 DEF Working
  <2>5. QED
    BY <1>6, <2>4, SameGrows, UsedStays
<1>7. CASE LET r == Route(live.held, b.pauses, AtWorkBut(l)) IN
           live'.held = r.held /\ out = r.out /\ turning' = turning
  <2>1. AtWorkBut(l) \in SUBSET Members
    BY DEF AtWorkBut
  <2>2. \A m \in Members : Busy(m)' <=> m \in AtWorkBut(l) \/ \E e \in Elems(out) : To(e) = m
    BY <1>5, <1>7 DEF Busy, AtWorkBut, session
  <2>3. QED
    BY <1>1, <1>7, <2>1, <2>2, UsedRouted
<1>8. QED
  BY <1>6, <1>7 DEF Returned

LEMMA WorkingStays ==
  ASSUME Base, Grows,
         \A m \in Members : /\ turning[m] => turning'[m]
                            /\ open[m] > 0 => open'[m] > 0,
         \A k \in Loops : loop'[k].todo = loop[k].todo \/ loop[k].todo = <<>>
  PROVE  Working \subseteq Working'
<1>1. ASSUME NEW k \in Loops, NEW e \in Sent(k)
      PROVE  e \in Sent(k)' /\ To(e)' = To(e)
  <2>1. Sent(k)' = Sent(k)
    BY <1>1 DEF Sent, Elems
  <2>2. e \in Waking
    BY DEF Base, HeldKnown
  <2>3. QED
    BY <1>1, <2>1, <2>2 DEF Grows, Waking, To
<1>2. \A m : Flying(m) => Flying(m)'
  BY <1>1 DEF Flying
<1>3. \A m \in Members : Busy(m) => Busy(m)'
  BY <1>2 DEF Busy
<1>4. QED
  BY <1>3 DEF Working

LEMMA EnterUsed ==
  ASSUME Base, UsedSlots, NEW e \in Envelope, NEW b \in Books, Len(env) < MaxEnv,
         b.held = live.held, b.pauses = live.pauses, Enter(e, b), Entered(e.wakes)
  PROVE  UsedSlots'
<1> DEFINE blocked == stopped \/ \E p \in live.pauses : p[1] \in {Team, Of(e.to), On(e.root)}
<1> DEFINE waits   == ~Busy(e.to) /\ Cardinality(Working) >= MaxWorking
<1>1. /\ env' = Append(env, e) /\ UNCHANGED <<turning, open, stopped, due, late>>
  BY DEF Enter, session
<1>2. /\ Grows /\ New \in Ids /\ live.pauses \subseteq live'.pauses
      /\ ~e.wakes => live'.held = live.held /\ loop' = loop
      /\ e.wakes => \/ live'.held = Append(live.held, New) /\ loop' = loop
                    \/ live'.held = live.held /\ Handed(<<New>>)
  BY DEF Entered
<1>3. \A k \in Loops : loop'[k].todo = loop[k].todo \/ loop[k].todo = <<>>
  <2>1. Handed(<<New>>) => \A k \in Loops : loop'[k].todo = loop[k].todo \/ loop[k].todo = <<>>
    <3>1. Free.todo = <<>>
      BY DEF Free
    <3>2. QED
      BY <3>1 DEF Handed
  <2>2. QED
    BY <1>2, <2>1
<1>4. Working \subseteq Working'
  BY <1>1, <1>2, <1>3, WorkingStays
<1>5. CASE live'.held = live.held
  BY <1>1, <1>2, <1>4, <1>5, UsedStays
<1>6. CASE e.wakes /\ live'.held # live.held
  <2>1. live'.held = Append(live.held, New) /\ loop' = loop
    BY <1>2, <1>6
  <2>2. blocked \/ waits
    BY <1>6 DEF Enter, HeldBook
  <2>n. PICK n \in Ids : n = New
    BY <1>2
  <2>3. To(n)' = e.to /\ Root(n)' = e.root
    <3>1. Len(env) \in Nat /\ n = Len(env) + 1
      BY <2>n DEF New, Base, RoomTypes
    <3>2. env'[n] = e
      BY <1>1, <3>1 DEF Base, RoomTypes
    <3>3. QED
      BY <3>2 DEF To, Root
  <2>4. ~Waits(n)'
    <3>1. CASE blocked
      <4>1. Blocked(n)'
        BY <1>1, <1>2, <2>3, <3>1 DEF Blocked, Holds
      <4>2. QED
        BY <4>1 DEF Waits
    <3>2. CASE waits
      <4>1. Cardinality(Working) <= Cardinality(Working')
            /\ Cardinality(Working) \in Nat /\ Cardinality(Working') \in Nat
        <5>1. Working' \in SUBSET Members
          BY DEF Working
        <5>2. QED
          BY <1>4, <5>1, FewWorking
      <4>2. ~(Cardinality(Working') < MaxWorking)
        BY <3>2, <4>1
      <4>3. QED
        BY <4>2 DEF Waits
    <3>3. QED
      BY <2>2, <3>1, <3>2
  <2>5. Elems(live'.held) = Elems(live.held) \cup {n}
    BY <1>2, <2>1, <2>n, AppendFacts DEF Base, RoomTypes, Books
  <2>6. ASSUME ~due', ~late', NEW d \in Elems(live.held) PROVE ~Waits(d)'
    <3>1. d \in Waking /\ ~Waits(d)
      BY <1>1, <2>6 DEF Base, HeldKnown, UsedSlots
    <3>2. QED
      BY <1>1, <1>2, <1>4, <3>1, WaitsStill DEF Base
  <2>7. QED
    BY <2>4, <2>5, <2>6 DEF UsedSlots
<1>7. QED
  BY <1>2, <1>5, <1>6

LEMMA SendsKeepUsed ==
  ASSUME Base, UsedSlots, NEW m \in Members, Sends(m)
  PROVE  UsedSlots'
<1>0. live \in Books
  BY DEF Base, RoomTypes
<1>1. CASE Post(m)
  <2> DEFINE e == [to |-> m, root |-> Len(env) + 1, hops |-> 0, wakes |-> TRUE]
  <2>1. Len(env) < MaxEnv /\ Enter(e, live) /\ Len(env) + 1 \in Ids
    BY <1>1 DEF Post, Base, RoomTypes, Ids
  <2>2. e \in Envelope /\ e.wakes = TRUE
    BY <2>1 DEF Envelope
  <2> HIDE DEF e
  <2>3. Entered(e.wakes)
    BY <1>1, <2>2, PostEnters
  <2>4. QED
    BY <1>0, <2>1, <2>2, <2>3, EnterUsed
<1>2. ASSUME NEW to \in Members \ {m}, NEW wakes \in BOOLEAN, Send(m, to, wakes)
      PROVE  UsedSlots'
  <2> DEFINE c == live.active[m]
  <2> DEFINE e == [to |-> to, root |-> c, hops |-> live.hops[c] + 1, wakes |-> wakes]
  <2>1. Len(env) < MaxEnv /\ Enter(e, OneHop(c)) /\ c \in Ids
    BY <1>0, <1>2 DEF Send, MaySend, Books
  <2>2. live.hops[c] + 1 \in Nat
    BY <1>0, <2>1 DEF Books
  <2>3. e \in Envelope /\ e.wakes = wakes
    BY <2>1, <2>2 DEF Envelope
  <2> HIDE DEF e, c
  <2>4. Entered(e.wakes)
    BY <1>2, <2>3, SendEnters
  <2>5. OneHop(c) \in Books /\ OneHop(c).held = live.held /\ OneHop(c).pauses = live.pauses
    BY <1>0, <2>1, OneHopBook
  <2>6. QED
    BY <2>1, <2>3, <2>4, <2>5, EnterUsed
<1>3. CASE \E P : Trips(P)
  <2>1. /\ live.pauses \subseteq live'.pauses /\ live'.held = live.held
        /\ UNCHANGED <<env, turning, open, loop, stopped, due, late>>
    BY <1>3 DEF Trips, session
  <2>2. QED
    BY <2>1, SameGrows, WorkingStays, UsedStays
<1>4. QED
  BY <1>1, <1>2, <1>3, SendUnrecordedTrips, SendTooFarTrips DEF Sends

LEMMA DispatchingKeepsUsed ==
  ASSUME Base, UsedSlots, DueInv, NEW l \in Loops, Dispatching(l)
  PROVE  UsedSlots'
<1>0. LoopTypes
  BY DEF Base
<1>1. CASE Claim(l)
  <2>1. /\ UNCHANGED <<env, session, turning, stopped, due, late>>
        /\ live'.held = live.held /\ live'.pauses = live.pauses
        /\ loop' = [loop EXCEPT ![l].at = "drive", ![l].ended = FALSE,
                                ![l].notes = live.notes[To(Current(l))]]
    BY <1>1, ClaimBase DEF Claim, history
  <2>2. \A k \in Loops : loop'[k].todo = loop[k].todo
    BY <1>0, <2>1 DEF LoopTypes, Dispatches
  <2>3. QED
    BY <2>1, <2>2, SameGrows, WorkingStays, UsedStays DEF session
<1>2. CASE HoldLate(l)
  BY <1>2 DEF HoldLate, UsedSlots
<1>3. CASE DriverTakes(l) \/ DriverFails(l)
  <2>1. /\ UNCHANGED <<env, live, open, turning, stopped, due, late>>
        /\ \E at \in {"took", "failed"} : loop' = [loop EXCEPT ![l].at = at]
    BY <1>3 DEF DriverTakes, DriverFails, session, history
  <2>2. \A k \in Loops : loop'[k].todo = loop[k].todo
    BY <1>0, <2>1 DEF LoopTypes, Dispatches
  <2>3. QED
    BY <2>1, <2>2, SameGrows, WorkingStays, UsedStays
<1>4. CASE Return(l)
  <2>1. UNCHANGED <<env, stopped, due, session>> /\ loop[l].at # "claim"
        /\ \E out \in Seq(Ids) : Returned(l, live, out)
    BY <1>4, ReturnBase DEF Return
  <2>2. QED
    BY <2>1, UsedSettled
<1>5. CASE ReturnFailed(l)
  <2>1. UNCHANGED <<env, stopped, due, session>> /\ loop[l].at # "claim"
    BY <1>5 DEF ReturnFailed
  <2>2. \E b \in Books, out \in Seq(Ids) : live.pauses \subseteq b.pauses /\ Returned(l, b, out)
    BY <1>5, ReturnFailedBase
  <2>3. QED
    BY <2>1, <2>2, UsedSettled
<1>6. QED
  BY <1>1, <1>2, <1>3, <1>4, <1>5 DEF Dispatching

LEMMA ReportUsed ==
  ASSUME Base, OpenInv, UsedSlots, NEW m \in Members, Report(m)
  PROVE  UsedSlots'
<1>1. /\ UNCHANGED <<env, stopped, due>> /\ turning' = [turning EXCEPT ![m] = FALSE]
      /\ open' = [open EXCEPT ![m] = @ - 1]
  BY DEF Report, Closed
<1>2. turning \in [Members -> BOOLEAN] /\ open \in [Members -> Nat] /\ StillAtWork(m) \in SUBSET Members
  BY DEF Base, RoomTypes, SessionTypes, StillAtWork
<1>3. \A k \in Members : k \in StillAtWork(m) <=> turning'[k] \/ Flying(k) \/ open'[k] > 0
  <2>1. ~turning'[m] /\ (open'[m] > 0 <=> open[m] > 1)
    BY <1>1, <1>2
  <2>2. \A k \in Members \ {m} : turning'[k] = turning[k] /\ open'[k] = open[k]
    BY <1>1, <1>2
  <2>3. QED
    BY <2>1, <2>2 DEF StillAtWork
<1>4. CASE ReportedLine(m)
  <2>1. \E P : Released(P, StillAtWork(m))
    BY <1>4 DEF ReportedLine
  <2>2. QED
    BY <1>1, <1>2, <1>3, <2>1, UsedReleased
<1>5. CASE ReportUnlined(m)
  <2>1. \A e : Blocked(e)'
    <3>1. \E p \in live'.pauses : p[1] = Team
      <4>1. <<Team, "room">> \in live'.pauses
        BY <1>5 DEF ReportUnlined, Broken
      <4> DEFINE q == <<Team, "room">>
      <4>2. q[1] = Team
        OBVIOUS
      <4> HIDE DEF q
      <4>3. q \in live'.pauses
        BY <4>1 DEF q
      <4>4. QED
        BY <4>2, <4>3
    <3>2. QED
      BY <3>1 DEF Blocked, Holds
  <2>2. QED
    BY <2>1 DEF UsedSlots, Waits
<1>6. QED
  BY <1>4, <1>5, ReportBase

LEMMA SessionKeepsUsed ==
  ASSUME Base, OpenInv, UsedSlots, NEW m \in Members, Session(m)
  PROVE  UsedSlots'
<1>0. open \in [Members -> Nat]
  BY DEF Base, SessionTypes
<1>1. CASE Read(m)
  <2>1. /\ UNCHANGED <<env, turning, open, loop, stopped, due, late>>
        /\ live'.held = live.held /\ live.pauses \subseteq live'.pauses
    BY <1>1, ReadBase DEF Read, Reads, Routing
  <2>2. QED
    BY <2>1, SameGrows, WorkingStays, UsedStays
<1>2. CASE Report(m)
  BY <1>2, ReportUsed
<1>3. CASE ReportNotRun(m)
  <2> DEFINE W == {k \in Members : turning[k] \/ Flying(k) \/ open'[k] > 0}
  <2>1. /\ UNCHANGED <<env, turning, stopped>> /\ Released(live.pauses, W) /\ W \in SUBSET Members
        /\ \A k \in Members : k \in W <=> turning'[k] \/ Flying(k) \/ open'[k] > 0
    BY <1>3, ReportNotRunBase DEF ReportNotRun
  <2> HIDE DEF W
  <2>2. QED
    BY <2>1, UsedReleased
<1>4. CASE PersonTurn(m) \/ EndTurn(m) \/ Restart(m)
  <2>1. UNCHANGED <<env, live, turning, open, loop, stopped, due, late>>
    BY <1>4 DEF PersonTurn, EndTurn, Restart, router, history
  <2>2. QED
    BY <2>1, SameGrows, WorkingStays, UsedStays
<1>5. CASE Launch(m) \/ NotRun(m)
  <2>1. /\ UNCHANGED <<env, live, turning, loop, stopped, due, late>>
        /\ open' = [open EXCEPT ![m] = @ + 1]
    BY <1>5 DEF Launch, NotRun, router, history
  <2>2. \A k \in Members : open[k] > 0 => open'[k] > 0
    BY <1>0, <2>1
  <2>3. QED
    BY <2>1, <2>2, SameGrows, WorkingStays, UsedStays
<1>6. QED
  BY <1>1, <1>2, <1>3, <1>4, <1>5 DEF Session

LEMMA UsedStep ==
  ASSUME Base, OpenInv, DueInv, UsedSlots, [Next]_vars
  PROVE  UsedSlots'
<1>0. /\ Working \in SUBSET Members
      /\ \A m \in Members : m \in Working <=> turning[m] \/ Flying(m) \/ open[m] > 0
  BY DEF Working, Busy
<1>1. ASSUME NEW m \in Members, Sends(m) \/ Session(m) PROVE UsedSlots'
  BY <1>1, SendsKeepUsed, SessionKeepsUsed
<1>2. ASSUME NEW l \in Loops, Dispatching(l) PROVE UsedSlots'
  BY <1>2, DispatchingKeepsUsed
<1>3. ASSUME NEW s \in Scopes, Pause(s) PROVE UsedSlots'
  <2>1. \E P : Trips(P)
    BY <1>3, PauseTrips
  <2>2. /\ UNCHANGED <<env, turning, open, loop, stopped, due, late>>
        /\ live'.held = live.held /\ live.pauses \subseteq live'.pauses
    BY <2>1 DEF Trips, session
  <2>3. QED
    BY <2>2, SameGrows, WorkingStays, UsedStays
<1>4. ASSUME NEW s \in Scopes, Resume(s) PROVE UsedSlots'
  <2>1. /\ \E P : Released(P, Working)
        /\ UNCHANGED <<env, turning, stopped, open>>
    BY <1>4, ResumeLifts DEF Lifts, session
  <2>2. QED
    BY <1>0, <2>1, UsedReleased
<1>5. CASE ReleaseDue
  <2>1. Released(live.pauses, Working) /\ UNCHANGED <<env, turning, stopped, open>>
    BY <1>5, ReleaseDueBase DEF ReleaseDue, session
  <2>2. QED
    BY <1>0, <2>1, UsedReleased
<1>6. CASE Crash \/ Update \/ Close
  <2>1. due'
    BY <1>6 DEF Crash, Update, Close, Replay
  <2>2. QED
    BY <2>1 DEF UsedSlots
<1>7. CASE NewDay \/ Stop \/ UNCHANGED vars
  <2>1. /\ UNCHANGED <<env, turning, open, loop, due, late>> /\ (stopped => stopped')
        /\ live'.held = live.held /\ live'.pauses = live.pauses
    BY <1>7, NewDayBase DEF Stop, vars, router, session, history
  <2>2. QED
    BY <2>1, SameGrows, WorkingStays, UsedStays
<1>8. QED
  BY <1>1, <1>2, <1>3, <1>4, <1>5, <1>6, <1>7 DEF Next

(* A slot counted as taken has a turn in the member's session, or one that *)
(* has yet to report, that gives it back, unless the member's last turn    *)
(* never ran; and with no release on its way no delivery waits for a slot  *)
(* that is free, unless a pause stopped one on its way since the last      *)
(* release.  Neither holds without its exception.                          *)
THEOREM SlotsGivenBack == Spec => []SlotsAgree
<1>1. Init => Base /\ OpenInv /\ DueInv /\ TurnInv /\ UsedSlots
  <2>1. ASSUME Init PROVE TurnInv /\ UsedSlots
    BY <2>1 DEF Init, Blank, Free, TurnInv, UsedSlots, Elems
  <2>2. QED
    BY <2>1, BaseInit, OpenInit, DueInit
<1>2. /\ Base /\ OpenInv /\ DueInv /\ TurnInv /\ UsedSlots /\ [Next]_vars
      => (Base /\ OpenInv /\ DueInv /\ TurnInv /\ UsedSlots)'
  BY BaseStep, DueStep, TurnStep, UsedStep
<1>3. Base /\ OpenInv /\ TurnInv /\ UsedSlots => SlotsAgree
  <2>1. UsedSlots => SlotUsed
    BY DEF UsedSlots, SlotUsed, Quiet
  <2>2. QED
    BY <2>1, TurnHasSlot DEF SlotsAgree
<1>4. QED
  BY <1>1, <1>2, <1>3, PTL DEF Spec

(***************************************************************************)
(* The notes that a router has not handed over, in its book and with its   *)
(* calls, are as many as a replay would rebuild.                           *)
(***************************************************************************)

Weights  == [l \in Loops |-> Len(loop[l].notes)]
Notes(m) == Total(Weights, Carried(m))
Load(l, m) == IF l \in Carried(m) THEN Len(loop[l].notes) ELSE 0
CountInv == \A m \in Members : unsaid = {} =>
  Len(room.notes[m]) = Len(live.notes[m]) + Notes(m)

LEMMA WeightsAre ==
  ASSUME LoopTypes, NEW m
  PROVE  /\ IsFiniteSet(Carried(m)) /\ Carried(m) \subseteq Loops
         /\ \A l \in Loops : Weights[l] = Len(loop[l].notes) /\ Weights[l] \in Nat
<1>1. Carried(m) \subseteq Loops /\ IsFiniteSet(Loops)
  BY DEF Carried
<1>2. \A l \in Loops : loop[l].notes \in Seq(Ids)
  BY DEF LoopTypes, Dispatches
<1>3. \A l \in Loops : Weights[l] = Len(loop[l].notes) /\ Len(loop[l].notes) \in Nat
  BY <1>2 DEF Weights
<1>4. QED
  BY <1>1, <1>3, FS_Subset

(* The sum over the calls, as the property has it. *)
LEMMA NotesAre ==
  ASSUME LoopTypes, NEW m \in Members
  PROVE  FoldSet(LAMBDA l, n : n + Len(loop[l].notes), 0, Carried(m)) = Notes(m)
<1> DEFINE S == Carried(m)
<1> DEFINE Is(g) == g = [s \in SUBSET S |-> IF s = {} THEN 0
                           ELSE g[s \ {Some(s)}] + Len(loop[Some(s)].notes)]
<1> DEFINE g == CHOOSE f : Is(f)
<1>1. IsFiniteSet(S) /\ \A l \in S : Weights[l] = Len(loop[l].notes) /\ Weights[l] \in Nat
  BY WeightsAre
<1>2. \A f : Is(f) <=> IsSum(f, Weights, S)
  <2>1. \A s \in SUBSET S : s # {} => Len(loop[Some(s)].notes) = Weights[Some(s)]
    BY <1>1, SomeIn
  <2>2. ASSUME NEW f
        PROVE  [s \in SUBSET S |-> IF s = {} THEN 0 ELSE f[s \ {Some(s)}] + Len(loop[Some(s)].notes)]
               = [s \in SUBSET S |-> IF s = {} THEN 0 ELSE f[s \ {Some(s)}] + Weights[Some(s)]]
    BY <2>1
  <2>3. QED
    BY <2>2 DEF IsSum
<1>3. \E f : IsSum(f, Weights, S)
  BY <1>1, SumTable
<1>4. FoldSet(LAMBDA l, n : n + Len(loop[l].notes), 0, Carried(m)) = g[S]
  BY DEF FoldSet, MapThenFoldSet, Some
<1>5. IsSum(g, Weights, S)
  <2>1. Is(g)
    BY <1>2, <1>3
  <2>2. QED
    BY <1>2, <2>1
<1> HIDE DEF g
<1>6. PICK h : IsSum(h, Weights, S) /\ Total(Weights, S) = h[S]
  BY <1>3, TotalIs
<1>7. g[S] = h[S]
  <2>1. S \in SUBSET S /\ S \subseteq S
    OBVIOUS
  <2>2. QED
    BY <1>1, <1>5, <1>6, <2>1, SumSame
<1>8. QED
  BY <1>4, <1>6, <1>7 DEF Notes

SameLoad(k) ==
  \/ loop[k].at = "claim" /\ loop'[k].at = "claim"
  \/ /\ loop[k].at # "claim" /\ loop'[k].at # "claim"
     /\ loop'[k].todo = loop[k].todo /\ loop'[k].notes = loop[k].notes

LEMMA SameCarried ==
  ASSUME Base, Grows, NEW k \in Loops, SameLoad(k), NEW m \in Members
  PROVE  /\ k \in Carried(m)' <=> k \in Carried(m)
         /\ k \in Carried(m) => Weights'[k] = Weights[k]
<1>1. CASE loop[k].at = "claim" /\ loop'[k].at = "claim"
  BY <1>1 DEF Carried
<1>2. CASE /\ loop[k].at # "claim" /\ loop'[k].at # "claim"
           /\ loop'[k].todo = loop[k].todo /\ loop'[k].notes = loop[k].notes
  <2>1. To(Current(k))' = To(Current(k))
    BY <1>2, CurrentStays
  <2>2. k \in Carried(m)' <=> k \in Carried(m)
    BY <1>2, <2>1 DEF Carried
  <2>3. Weights'[k] = Weights[k]
    BY <1>2 DEF Weights
  <2>4. QED
    BY <2>2, <2>3
<1>3. QED
  BY <1>1, <1>2 DEF SameLoad

LEMMA LoadsSame ==
  ASSUME Base, Base', Grows, \A k \in Loops : SameLoad(k), NEW m \in Members
  PROVE  Notes(m)' = Notes(m) /\ Notes(m) \in Nat
<1> DEFINE S == Carried(m)
<1>1. IsFiniteSet(S) /\ S \subseteq Loops /\ \A l \in S : Weights[l] \in Nat
  BY WeightsAre DEF Base
<1>2. Carried(m)' = S /\ \A l \in S : Weights'[l] = Weights[l]
  <2>1. Carried(m)' \subseteq Loops
    BY DEF Carried
  <2>2. QED
    BY <1>1, <2>1, SameCarried
<1> HIDE DEF S
<1>3. /\ Total(Weights, S) \in Nat
      /\ \A v : (\A l \in S : v[l] = Weights[l]) => Total(v, S) = Total(Weights, S)
  BY <1>1, TotalFacts
<1>4. Total(Weights', S) = Total(Weights, S)
  BY <1>2, <1>3
<1>5. QED
  BY <1>2, <1>3, <1>4 DEF Notes, S

LEMMA OneLoad ==
  ASSUME Base, Base', Grows, NEW l \in Loops, \A k \in Loops \ {l} : SameLoad(k), NEW m \in Members
  PROVE  \E rest \in Nat : Notes(m) = rest + Load(l, m) /\ Notes(m)' = rest + Load(l, m)'
<1> DEFINE R == Carried(m) \ {l}
<1>1. /\ IsFiniteSet(Carried(m)) /\ \A k \in Carried(m) : Weights[k] \in Nat
      /\ IsFiniteSet(Carried(m)') /\ \A k \in Carried(m)' : Weights'[k] \in Nat
      /\ Weights[l] = Len(loop[l].notes) /\ Weights'[l] = Len(loop'[l].notes)
  <2>1. LoopTypes /\ LoopTypes'
    BY DEF Base
  <2>2. /\ IsFiniteSet(Carried(m)') /\ Carried(m)' \subseteq Loops
        /\ \A k \in Loops : Weights'[k] = Len(loop'[k].notes) /\ Weights'[k] \in Nat
    <3>1. Carried(m)' \subseteq Loops
      BY DEF Carried
    <3>2. \A k \in Loops : loop'[k].notes \in Seq(Ids)
      BY <2>1 DEF LoopTypes, Dispatches
    <3>3. \A k \in Loops : Weights'[k] = Len(loop'[k].notes) /\ Len(loop'[k].notes) \in Nat
      BY <3>2 DEF Weights
    <3>4. QED
      BY <3>1, <3>3, FS_Subset
  <2>3. /\ IsFiniteSet(Carried(m)) /\ Carried(m) \subseteq Loops
        /\ \A k \in Loops : Weights[k] = Len(loop[k].notes) /\ Weights[k] \in Nat
    BY <2>1, WeightsAre
  <2>4. QED
    BY <2>2, <2>3
<1>2. Carried(m)' \ {l} = R /\ \A k \in R : Weights'[k] = Weights[k]
  <2>1. Carried(m)' \subseteq Loops /\ Carried(m) \subseteq Loops
    BY DEF Carried
  <2>2. QED
    BY <2>1, SameCarried
<1>3. IsFiniteSet(R) /\ \A k \in R : Weights[k] \in Nat
  BY <1>1, FS_Subset
<1>r. R = Carried(m) \ {l}
  OBVIOUS
<1> HIDE DEF R
<1> DEFINE rest == Total(Weights, R)
<1>4. /\ rest \in Nat
      /\ \A v : (\A k \in R : v[k] = Weights[k]) => Total(v, R) = rest
  BY <1>3, TotalFacts
<1>5. Total(Weights', R) = rest
  BY <1>2, <1>4
<1> HIDE DEF rest
<1>6. Notes(m) = rest + Load(l, m)
  <2>1. CASE l \in Carried(m)
    <3>1. Total(Weights, Carried(m)) = Total(Weights, R) + Weights[l]
      BY <1>1, <1>r, <2>1, TotalFacts
    <3>2. QED
      BY <1>1, <2>1, <3>1 DEF Notes, Load, rest
  <2>2. CASE l \notin Carried(m)
    <3>1. R = Carried(m)
      BY <1>r, <2>2
    <3>2. QED
      BY <1>4, <2>2, <3>1 DEF Notes, Load, rest
  <2>3. QED
    BY <2>1, <2>2
<1>7. Notes(m)' = rest + Load(l, m)'
  <2>1. CASE l \in Carried(m)'
    <3>1. Total(Weights', Carried(m)') = Total(Weights', R) + Weights'[l]
      BY <1>1, <1>2, <2>1, TotalFacts
    <3>2. QED
      BY <1>1, <1>5, <2>1, <3>1 DEF Notes, Load
  <2>2. CASE l \notin Carried(m)'
    <3>1. R = Carried(m)'
      BY <1>2, <2>2
    <3>2. QED
      BY <1>4, <1>5, <2>2, <3>1 DEF Notes, Load
  <2>3. QED
    BY <2>1, <2>2
<1>8. QED
  BY <1>4, <1>6, <1>7

(***************************************************************************)
(* A step that hands no notes over keeps the count.                        *)
(***************************************************************************)
LEMMA CountMoves ==
  ASSUME Base, Base', Grows, CountInv, \A k \in Loops : SameLoad(k), unsaid \subseteq unsaid',
         \A m \in Members : Len(room'.notes[m]) + Len(live.notes[m])
                             = Len(room.notes[m]) + Len(live'.notes[m])
  PROVE  CountInv'
<1>1. SUFFICES ASSUME NEW m \in Members, unsaid' = {}
               PROVE  Len(room'.notes[m]) = Len(live'.notes[m]) + Notes(m)'
  BY DEF CountInv
<1>2. Notes(m)' = Notes(m) /\ Notes(m) \in Nat
  BY LoadsSame
<1>3. /\ room.notes[m] \in Seq(Ids) /\ live.notes[m] \in Seq(Ids)
      /\ room'.notes[m] \in Seq(Ids) /\ live'.notes[m] \in Seq(Ids)
  BY DEF Base, RoomTypes, Books
<1>4. /\ Len(room.notes[m]) \in Nat /\ Len(live.notes[m]) \in Nat
      /\ Len(room'.notes[m]) \in Nat /\ Len(live'.notes[m]) \in Nat
  BY <1>3
<1>5. Len(room.notes[m]) = Len(live.notes[m]) + Notes(m)
  BY <1>1 DEF CountInv
<1>6. Len(room'.notes[m]) + Len(live.notes[m]) = Len(room.notes[m]) + Len(live'.notes[m])
  BY <1>1
<1> DEFINE a == Len(room.notes[m])
<1> DEFINE b == Len(live.notes[m])
<1> DEFINE c == Len(room'.notes[m])
<1> DEFINE d == Len(live'.notes[m])
<1> DEFINE n == Notes(m)
<1>7. /\ a \in Nat /\ b \in Nat /\ c \in Nat /\ d \in Nat /\ n \in Nat
      /\ c + b = a + d /\ a = b + n
  BY <1>2, <1>4, <1>5, <1>6
<1>8. c = d + n
  <2> HIDE DEF a, b, c, d, n
  <2>1. QED
    BY <1>7
<1>9. QED
  BY <1>2, <1>8

LEMMA CountStays ==
  ASSUME Base, Base', Grows, CountInv, \A k \in Loops : SameLoad(k), unsaid \subseteq unsaid',
         room'.notes = room.notes, live'.notes = live.notes
  PROVE  CountInv'
<1>1. \A m \in Members : Len(room.notes[m]) \in Nat /\ Len(live.notes[m]) \in Nat
  BY DEF Base, RoomTypes, Books
<1>2. QED
  BY <1>1, CountMoves

(* No more than the pauses, the lists and the counts of a book. *)
LEMMA NotesKept ==
  ASSUME NEW b \in Books
  PROVE  /\ \A P : Pausing(b, P).notes = b.notes
         /\ \A m \in Members : Spent(b, m).notes = b.notes
         /\ \A h : [b EXCEPT !.held = h].notes = b.notes
         /\ \A s, one : Resumed(b, s, one).notes = b.notes
         /\ \A m, how, c : m \in Members => TurnLine(b, m, how, c).notes = b.notes
<1>1. \A h : [b EXCEPT !.held = h].notes = b.notes
  BY DEF Books
<1>2. \A P : Pausing(b, P).notes = b.notes
  BY DEF Pausing, Books
<1>3. \A m \in Members : Spent(b, m).notes = b.notes
  BY DEF Spent, Books
<1>4. \A s, one : Resumed(b, s, one).notes = b.notes
  BY DEF Resumed, Books
<1>5. \A m, how, c : m \in Members => TurnLine(b, m, how, c).notes = b.notes
  BY DEF TurnLine, Pausing, Spent, Books
<1>6. QED
  BY <1>1, <1>2, <1>3, <1>4, <1>5

(* A call is handed deliveries before it has claimed one. *)
LEMMA DispatchLoads ==
  ASSUME LoopTypes, NEW out, Dispatch(out)
  PROVE  \A k \in Loops : SameLoad(k)
<1>1. CASE out = <<>>
  BY <1>1 DEF Dispatch, SameLoad
<1>2. CASE out # <<>>
  <2>1. PICK l \in Loops : loop[l] = Free /\ loop' = [loop EXCEPT ![l].todo = out]
    BY <1>2 DEF Dispatch
  <2>2. loop[l].at = "claim" /\ loop'[l].at = "claim"
    BY <2>1 DEF Free, LoopTypes, Dispatches
  <2>3. \A k \in Loops \ {l} : loop'[k] = loop[k]
    BY <2>1 DEF LoopTypes
  <2>4. QED
    BY <2>2, <2>3 DEF SameLoad
<1>3. QED
  BY <1>1, <1>2

LEMMA EndedLoads ==
  ASSUME LoopTypes, NEW m, loop' = Ended(m)
  PROVE  \A k \in Loops : SameLoad(k)
<1> DEFINE E == Ended(m)
<1>1. \A k \in Loops : E[k].todo = loop[k].todo /\ E[k].at = loop[k].at /\ E[k].notes = loop[k].notes
  BY EndedFacts
<1>2. loop' = E
  OBVIOUS
<1> HIDE DEF E
<1>3. QED
  BY <1>1, <1>2 DEF SameLoad

LEMMA ReleaseEndedLoads ==
  ASSUME LoopTypes, NEW b, NEW m, ReleaseEnded(b, m)
  PROVE  \A k \in Loops : SameLoad(k)
<1> DEFINE out == Route(b.held, b.pauses, StillAtWork(m)).out
<1>1. CASE out = <<>>
  <2>1. loop' = Ended(m)
    BY <1>1 DEF ReleaseEnded
  <2>2. QED
    BY <2>1, EndedLoads
<1>2. CASE out # <<>>
  <2>1. PICK l \in Loops : loop[l] = Free /\ loop' = [Ended(m) EXCEPT ![l].todo = out]
    BY <1>2 DEF ReleaseEnded
  <2> HIDE DEF out
  <2> DEFINE E == Ended(m)
  <2>2. /\ E \in [Loops -> Dispatches]
        /\ \A k \in Loops : E[k].todo = loop[k].todo /\ E[k].at = loop[k].at
                           /\ E[k].notes = loop[k].notes
    BY EndedFacts
  <2>3. loop' = [E EXCEPT ![l].todo = out]
    BY <2>1
  <2> HIDE DEF E
  <2>4. loop[l].at = "claim" /\ loop'[l].at = "claim"
    <3>1. loop'[l] = [E[l] EXCEPT !.todo = out]
      BY <2>2, <2>3
    <3>2. E[l] \in Dispatches /\ E[l].at = "claim"
      BY <2>1, <2>2 DEF Free
    <3>3. QED
      BY <3>1, <3>2, <2>1 DEF Free, Dispatches
  <2>5. \A k \in Loops \ {l} : loop'[k] = E[k]
    BY <2>2, <2>3
  <2>6. QED
    BY <2>2, <2>4, <2>5 DEF SameLoad
<1>3. QED
  BY <1>1, <1>2

LEMMA ReleaseLoads ==
  ASSUME LoopTypes, NEW b \in Books, NEW W, Release(b, W)
  PROVE  live'.notes = b.notes /\ \A k \in Loops : SameLoad(k)
<1>1. live'.notes = b.notes
  BY NotesKept DEF Release
<1>2. QED
  BY <1>1, DispatchLoads DEF Release

(* A new envelope: a note goes into both books, or into neither. *)
LEMMA EnterCount ==
  ASSUME Base, Base', CountInv, NEW e \in Envelope, NEW b \in Books, b.notes = live.notes,
         Enter(e, b)
  PROVE  CountInv'
<1> DEFINE id == Len(env) + 1
<1>1. Grows /\ unsaid' = unsaid /\ LoopTypes
  BY EnvGrows DEF Enter, Base
<1>2. room \in Books /\ e.to \in Members
  BY DEF Base, RoomTypes, Envelope
<1>3. CASE ~e.wakes
  <2>1. /\ live' = [b EXCEPT !.notes[e.to] = Append(@, id)]
        /\ room' = [room EXCEPT !.notes[e.to] = Append(@, id), !.hops = b.hops]
        /\ loop' = loop
    BY <1>3 DEF Enter
  <2>2. \A m \in Members : b.notes[m] \in Seq(Ids) /\ room.notes[m] \in Seq(Ids)
    BY <1>2 DEF Books
  <2>3. /\ live'.notes = [b.notes EXCEPT ![e.to] = Append(@, id)]
        /\ room'.notes = [room.notes EXCEPT ![e.to] = Append(@, id)]
    BY <1>2, <2>1 DEF Books
  <2>4. ASSUME NEW m \in Members
        PROVE  Len(room'.notes[m]) + Len(live.notes[m]) = Len(room.notes[m]) + Len(live'.notes[m])
    <3>1. b.notes \in [Members -> Seq(Ids)] /\ room.notes \in [Members -> Seq(Ids)]
      BY <1>2 DEF Books
    <3>2. CASE m = e.to
      <4>1. live'.notes[m] = Append(b.notes[m], id) /\ room'.notes[m] = Append(room.notes[m], id)
        BY <1>2, <2>3, <3>1, <3>2
      <4> HIDE DEF id
      <4>2. live.notes[m] \in Seq(Ids) /\ room.notes[m] \in Seq(Ids)
        BY <2>2
      <4> DEFINE x == live.notes[m]
      <4> DEFINE y == room.notes[m]
      <4>3. live'.notes[m] = Append(x, id) /\ room'.notes[m] = Append(y, id)
        BY <4>1
      <4>4. Len(Append(x, id)) = Len(x) + 1 /\ Len(Append(y, id)) = Len(y) + 1
            /\ Len(x) \in Nat /\ Len(y) \in Nat
        <5> HIDE DEF x, y
        <5>1. QED
          BY <4>2 DEF x, y
      <4> HIDE DEF x, y
      <4>5. Len(room'.notes[m]) + Len(x) = Len(y) + Len(live'.notes[m])
        BY <4>3, <4>4
      <4>6. QED
        BY <4>5 DEF x, y
    <3>3. CASE m # e.to
      <4>1. live'.notes[m] = b.notes[m] /\ room'.notes[m] = room.notes[m]
        BY <1>2, <2>3, <3>1, <3>3
      <4>2. live'.notes[m] = live.notes[m]
        BY <4>1
      <4>3. Len(live.notes[m]) \in Nat /\ Len(room.notes[m]) \in Nat
        BY <2>2
      <4>4. QED
        BY <4>1, <4>2, <4>3
    <3>4. QED
      BY <3>2, <3>3
  <2>5. \A k \in Loops : SameLoad(k)
    BY <2>1 DEF SameLoad
  <2>6. QED
    BY <1>1, <2>4, <2>5, CountMoves
<1>4. CASE e.wakes
  <2>1. /\ \E h : room' = [room EXCEPT !.held = h, !.hops = b.hops]
        /\ \/ /\ \E P, h : live' = Pausing([b EXCEPT !.held = h], P)
              /\ loop' = loop
           \/ live' = b /\ Dispatch(<<id>>)
    BY <1>4 DEF Enter
  <2>2. room'.notes = room.notes
    BY <1>2, <2>1 DEF Books
  <2>3. live'.notes = live.notes
    BY <2>1 DEF Pausing, Books
  <2>4. \A k \in Loops : SameLoad(k)
    <3>1. loop' = loop => \A k \in Loops : SameLoad(k)
      BY DEF SameLoad
    <3>2. QED
      BY <1>1, <2>1, <3>1, DispatchLoads
  <2>5. QED
    BY <1>1, <2>2, <2>3, <2>4, CountStays
<1>5. QED
  BY <1>3, <1>4

LEMMA SendsKeepCount ==
  ASSUME Base, Base', CountInv, NEW m \in Members, Sends(m)
  PROVE  CountInv'
<1>0. live \in Books /\ room \in Books
  BY DEF Base, RoomTypes
<1>1. CASE Post(m)
  <2> DEFINE e == [to |-> m, root |-> Len(env) + 1, hops |-> 0, wakes |-> TRUE]
  <2>1. Enter(e, live) /\ Len(env) + 1 \in Ids
    BY <1>1 DEF Post, Base, RoomTypes, Ids
  <2>2. e \in Envelope
    BY <2>1 DEF Envelope
  <2> HIDE DEF e
  <2>3. QED
    BY <1>0, <2>1, <2>2, EnterCount
<1>h. \A c \in Ids : OneHop(c) \in Books /\ OneHop(c).notes = live.notes
  <2>1. \A c \in Ids : OneHop(c) \in Books
    BY <1>0, OneHopBook
  <2>2. \A c \in Ids : OneHop(c).notes = live.notes
    BY <1>0 DEF OneHop, Books
  <2>3. QED
    BY <2>1, <2>2
<1>2. ASSUME NEW to \in Members \ {m}, NEW wakes \in BOOLEAN, Send(m, to, wakes)
      PROVE  CountInv'
  <2> DEFINE c == live.active[m]
  <2> DEFINE e == [to |-> to, root |-> c, hops |-> live.hops[c] + 1, wakes |-> wakes]
  <2>1. Enter(e, OneHop(c)) /\ c \in Ids
    BY <1>0, <1>2 DEF Send, MaySend, Books
  <2>2. live.hops[c] + 1 \in Nat
    BY <1>0, <2>1 DEF Books
  <2>3. e \in Envelope
    BY <2>1, <2>2 DEF Envelope
  <2> HIDE DEF e, c
  <2>4. QED
    BY <1>h, <2>1, <2>3, EnterCount
<1>3. CASE SendUnrecorded(m) \/ SendTooFar(m)
  <2>1. /\ loop' = loop /\ unsaid' = unsaid /\ env' = env
    BY <1>3 DEF SendUnrecorded, SendTooFar, history
  <2>2. /\ room' = room \/ \E P : room' = Pausing(room, P)
        /\ live' = OneHop(live.active[m]) \/ \E P : live' = Pausing(live, P)
        /\ live.active[m] # 0
    BY <1>3 DEF SendUnrecorded, SendTooFar, MaySend
  <2>p. \A P : Pausing(room, P).notes = room.notes /\ Pausing(live, P).notes = live.notes
    BY <1>0, NotesKept
  <2>3. room'.notes = room.notes /\ live'.notes = live.notes
    <3>1. live.active[m] \in Ids
      BY <1>0, <2>2 DEF Books
    <3>2. QED
      BY <1>h, <2>2, <2>p, <3>1
  <2>4. \A k \in Loops : SameLoad(k)
    BY <2>1 DEF SameLoad
  <2>5. QED
    BY <2>1, <2>3, <2>4, SameGrows, CountStays
<1>4. QED
  BY <1>1, <1>2, <1>3 DEF Sends

(* One call takes notes from the live book, or lets go of those it had.     *)
Balanced(l, m) ==
  Len(room'.notes[m]) + Len(live.notes[m]) + Load(l, m)
    = Len(room.notes[m]) + Len(live'.notes[m]) + Load(l, m)'
LEMMA CountCarried ==
  ASSUME Base, Base', Grows, CountInv, NEW l \in Loops, \A k \in Loops \ {l} : SameLoad(k),
         unsaid \subseteq unsaid',
         \A m \in Members :
           unsaid' = {} /\ Len(room.notes[m]) >= Len(live.notes[m]) + Load(l, m)
           => Balanced(l, m)
  PROVE  CountInv'
<1> SUFFICES ASSUME NEW m \in Members, unsaid' = {}
             PROVE  Len(room'.notes[m]) = Len(live'.notes[m]) + Notes(m)'
  BY DEF CountInv
<1>1. PICK rest \in Nat : Notes(m) = rest + Load(l, m) /\ Notes(m)' = rest + Load(l, m)'
  BY OneLoad
<1>2. /\ room.notes[m] \in Seq(Ids) /\ live.notes[m] \in Seq(Ids)
      /\ room'.notes[m] \in Seq(Ids) /\ live'.notes[m] \in Seq(Ids)
      /\ loop[l].notes \in Seq(Ids) /\ loop'[l].notes \in Seq(Ids)
  BY DEF Base, RoomTypes, Books, LoopTypes, Dispatches
<1>3. Len(room.notes[m]) = Len(live.notes[m]) + Notes(m)
  BY DEF CountInv
<1> DEFINE a == Len(room.notes[m])
<1> DEFINE b == Len(live.notes[m])
<1> DEFINE c == Len(room'.notes[m])
<1> DEFINE d == Len(live'.notes[m])
<1> DEFINE x == Load(l, m)
<1> DEFINE y == Load(l, m)'
<1>4. a \in Nat /\ b \in Nat /\ c \in Nat /\ d \in Nat /\ x \in Nat /\ y \in Nat
  <2>1. a \in Nat /\ b \in Nat /\ c \in Nat /\ d \in Nat
    BY <1>2
  <2>2. Len(loop[l].notes) \in Nat /\ Len(loop'[l].notes) \in Nat
    BY <1>2
  <2>3. x \in Nat
    BY <2>2 DEF Load
  <2>4. y \in Nat
    BY <2>2 DEF Load
  <2>5. QED
    BY <2>1, <2>3, <2>4
<1>5. a = b + (rest + x) /\ (a >= b + x => c + b + x = a + d + y)
  BY <1>1, <1>3 DEF Balanced
<1>6. c = d + (rest + y)
  <2> HIDE DEF a, b, c, d, x, y
  <2>1. QED
    BY <1>4, <1>5
<1>7. QED
  BY <1>1, <1>6

LEMMA LoadIs ==
  ASSUME NEW l \in Loops, NEW m
  PROVE  /\ loop[l].at = "claim" => Load(l, m) = 0
         /\ loop[l].at # "claim" =>
              Load(l, m) = IF To(Current(l)) = m THEN Len(loop[l].notes) ELSE 0
         /\ loop'[l].at = "claim" => Load(l, m)' = 0
         /\ loop'[l].at # "claim" =>
              Load(l, m)' = IF To(Current(l))' = m THEN Len(loop'[l].notes) ELSE 0
BY DEF Load, Carried

LEMMA ClaimCount ==
  ASSUME Base, Base', CountInv, NEW l \in Loops, Claim(l)
  PROVE  CountInv'
<1> DEFINE c == To(Current(l))
<1>1. /\ UNCHANGED <<env, room, unsaid>> /\ loop[l].at = "claim" /\ loop[l].todo # <<>>
      /\ live' = [live EXCEPT !.notes[c] = <<>>]
      /\ loop' = [loop EXCEPT ![l].at = "drive", ![l].ended = FALSE, ![l].notes = live.notes[c]]
  BY DEF Claim, history
<1>2. live \in Books /\ loop \in [Loops -> Dispatches] /\ Grows /\ c \in Members
  BY <1>1, CarryFacts, SameGrows DEF Base, RoomTypes, LoopTypes
<1>3. /\ loop'[l].at = "drive" /\ loop'[l].notes = live.notes[c] /\ loop'[l].todo = loop[l].todo
      /\ \A k \in Loops \ {l} : loop'[k] = loop[k]
  BY <1>1, <1>2 DEF Dispatches
<1>4. To(Current(l))' = c
  BY <1>1, <1>3 DEF To, Current
<1>5. live'.notes = [live.notes EXCEPT ![c] = <<>>] /\ live.notes \in [Members -> Seq(Ids)]
  BY <1>1, <1>2 DEF Books
<1> HIDE DEF c
<1>6. ASSUME NEW m \in Members
      PROVE  Balanced(l, m)
  <2>0. Len(room.notes[m]) \in Nat /\ Len(live.notes[m]) \in Nat /\ room'.notes[m] = room.notes[m]
    <3>1. room.notes[m] \in Seq(Ids) /\ live.notes[m] \in Seq(Ids)
      BY DEF Base, RoomTypes, Books
    <3>2. QED
      BY <1>1, <3>1
  <2>1. Load(l, m) = 0
    BY <1>1, LoadIs
  <2>2. CASE m = c
    <3>1. Load(l, m)' = Len(live.notes[m])
      BY <1>3, <1>4, <2>2, LoadIs
    <3>2. Len(live'.notes[m]) = 0
      BY <1>5, <2>2
    <3>3. QED
      BY <2>0, <2>1, <3>1, <3>2 DEF Balanced
  <2>3. CASE m # c
    <3>1. Load(l, m)' = 0
      BY <1>3, <1>4, <2>3, LoadIs
    <3>2. live'.notes[m] = live.notes[m]
      BY <1>5, <2>3
    <3>3. QED
      BY <2>0, <2>1, <3>1, <3>2 DEF Balanced
  <2>4. QED
    BY <2>2, <2>3
<1>7. \A k \in Loops \ {l} : SameLoad(k)
  BY <1>3 DEF SameLoad
<1>8. QED
  BY <1>1, <1>2, <1>6, <1>7, CountCarried

LEMMA SettledNotes ==
  ASSUME NEW b \in Books, NEW e \in Ids, To(e) \in Members, NEW n \in Nat
  PROVE  \E s : /\ Settled(b, e, n).notes = [b.notes EXCEPT ![To(e)] = s]
                /\ n <= Len(b.notes[To(e)]) => Len(s) = Len(b.notes[To(e)]) - n
<1> DEFINE c == To(e)
<1> DEFINE h == Without(b.held, e)
<1> DEFINE k == IF n > Len(b.notes[c]) THEN Len(b.notes[c]) ELSE n
<1> DEFINE s == SubSeq(b.notes[c], k + 1, Len(b.notes[c]))
<1>1. b.notes \in [Members -> Seq(Ids)] /\ b.notes[c] \in Seq(Ids) /\ Len(b.notes[c]) \in Nat
  BY DEF Books
<1>2. k \in Nat /\ k <= Len(b.notes[c])
  BY <1>1
<1>3. Len(s) = Len(b.notes[c]) - k
  <2> DEFINE t == b.notes[c]
  <2> HIDE DEF k
  <2>1. /\ t \in Seq(Ids) /\ Len(t) \in Nat /\ k \in Nat /\ k <= Len(t)
    BY <1>1, <1>2
  <2> HIDE DEF t
  <2>2. \A i \in k + 1..Len(t) : t[i] \in Ids
    BY <2>1
  <2>3. Len(SubSeq(t, k + 1, Len(t))) = IF k + 1 <= Len(t) THEN Len(t) - (k + 1) + 1 ELSE 0
    BY <2>1, <2>2, SubSeqProperties
  <2>4. Len(SubSeq(t, k + 1, Len(t))) = Len(t) - k
    BY <2>1, <2>3
  <2>5. QED
    BY <2>4 DEF t
<1>4. Settled(b, e, n) = [b EXCEPT !.held = h, !.notes[c] = s]
  BY DEF Settled
<1> HIDE DEF s, h, k
<1>5. Settled(b, e, n).notes = [b.notes EXCEPT ![c] = s]
  BY <1>4 DEF Books
<1>6. n <= Len(b.notes[c]) => k = n
  BY <1>1 DEF k
<1>7. n <= Len(b.notes[c]) => Len(s) = Len(b.notes[c]) - n
  BY <1>3, <1>6
<1>8. QED
  BY <1>5, <1>7

(* A delivery whose line is recorded: its notes leave the room, or are      *)
(* back in the live book.                                                  *)
LEMMA CountSettled ==
  ASSUME Base, Base', CountInv, NEW l \in Loops, loop[l].at # "claim", env' = env,
         NEW out \in Seq(Ids), Settles(l, out), NEW n \in Nat, NEW ok \in BOOLEAN,
         room' = IF ok THEN Settled(room, Current(l), n) ELSE room,
         unsaid' = IF ok THEN unsaid ELSE unsaid \cup {Current(l)},
         \A m \in Members :
           Len(live'.notes[m]) + n = IF m = To(Current(l))
                                     THEN Len(live.notes[m]) + Len(loop[l].notes)
                                     ELSE Len(live.notes[m]) + n,
         n \in {0, Len(loop[l].notes)}
  PROVE  CountInv'
<1> DEFINE c == To(Current(l))
<1>1. /\ room \in Books /\ Grows /\ c \in Members /\ loop[l].notes \in Seq(Ids)
      /\ loop[l].todo # <<>> /\ Current(l) \in Ids
  BY CarryFacts, SameGrows DEF Base, RoomTypes, LoopTypes, Settles, Dispatches
<1>2. CASE ~ok
  <2>1. unsaid' # {}
    BY <1>2
  <2>2. QED
    BY <2>1 DEF CountInv
<1>3. CASE ok
  <2>1. unsaid' = unsaid /\ room' = Settled(room, Current(l), n)
    BY <1>3
  <2>2. loop'[l].at = "claim" /\ \A k \in Loops \ {l} : SameLoad(k)
    BY DEF Settles, SameLoad
  <2>3. ASSUME NEW m \in Members, Len(room.notes[m]) >= Len(live.notes[m]) + Load(l, m)
        PROVE  Balanced(l, m)
    <3> DEFINE a == Len(room.notes[m])
    <3> DEFINE b == Len(live.notes[m])
    <3> DEFINE d == Len(live'.notes[m])
    <3> DEFINE r == Len(room'.notes[m])
    <3> DEFINE x == Len(loop[l].notes)
    <3>1. a \in Nat /\ b \in Nat /\ d \in Nat /\ x \in Nat
      <4>1. /\ room.notes[m] \in Seq(Ids) /\ live.notes[m] \in Seq(Ids)
            /\ live'.notes[m] \in Seq(Ids) /\ loop[l].notes \in Seq(Ids)
        BY <1>1 DEF Base, RoomTypes, Books
      <4>2. QED
        BY <4>1
    <3>2. Load(l, m)' = 0 /\ Load(l, m) = IF m = c THEN x ELSE 0
      BY <2>2, LoadIs
    <3>3. (m # c => r = a) /\ (m = c /\ n <= a => r = a - n)
      <4>1. /\ m # To(Current(l)) => Settled(room, Current(l), n).notes[m] = room.notes[m]
            /\ m = To(Current(l)) /\ n <= Len(room.notes[m]) =>
                 Len(Settled(room, Current(l), n).notes[m]) = Len(room.notes[m]) - n
        <5>1. room \in Books /\ n \in Nat /\ Current(l) \in Ids /\ To(Current(l)) \in Members
          BY <1>1
        <5>2. PICK s : /\ Settled(room, Current(l), n).notes
                             = [room.notes EXCEPT ![To(Current(l))] = s]
                       /\ n <= Len(room.notes[To(Current(l))]) =>
                            Len(s) = Len(room.notes[To(Current(l))]) - n
          BY <5>1, SettledNotes
        <5>3. room.notes \in [Members -> Seq(Ids)]
          BY <5>1 DEF Books
        <5>4. QED
          BY <5>1, <5>2, <5>3
      <4>2. QED
        BY <2>1, <4>1
    <3>4. d + n = IF m = c THEN b + x ELSE b + n
      OBVIOUS
    <3>5. a >= b + Load(l, m) /\ n \in {0, x}
      BY <2>3
    <3>6. Balanced(l, m) <=> r + b + Load(l, m) = a + d + Load(l, m)'
      BY DEF Balanced
    <3> HIDE DEF a, b, d, r, x, c
    <3>7. CASE m = c
      BY <3>1, <3>2, <3>3, <3>4, <3>5, <3>6, <3>7
    <3>8. CASE m # c
      BY <3>1, <3>2, <3>3, <3>4, <3>6, <3>8
    <3>9. QED
      BY <3>7, <3>8
  <2>4. QED
    BY <1>1, <2>1, <2>2, <2>3, CountCarried
<1>4. QED
  BY <1>2, <1>3

LEMMA ReturnCount ==
  ASSUME Base, Base', CountInv, NEW l \in Loops, Return(l)
  PROVE  CountInv'
<1>1. PICK ok \in BOOLEAN : /\ room' = IF ok THEN Settled(room, Current(l), Len(loop[l].notes)) ELSE room
                            /\ unsaid' = IF ok THEN unsaid ELSE unsaid \cup {Current(l)}
  BY DEF Return, Tries
<1>2. PICK out \in Seq(Ids) : Settles(l, out)
  BY ReturnBase DEF Returned
<1>3. env' = env /\ loop[l].at # "claim"
  BY DEF Return
<1>4. live \in Books /\ loop[l].notes \in Seq(Ids)
  BY DEF Base, RoomTypes, LoopTypes, Dispatches
<1>5. live'.notes = live.notes
  <2>1. live' = live \/ \E h : live' = [live EXCEPT !.held = h]
    BY DEF Return
  <2>2. \A h : [live EXCEPT !.held = h].notes = live.notes
    BY <1>4, NotesKept
  <2>3. QED
    BY <2>1, <2>2
<1> DEFINE n == Len(loop[l].notes)
<1>6. n \in Nat
  BY <1>4
<1> HIDE DEF n
<1>7. /\ room' = IF ok THEN Settled(room, Current(l), n) ELSE room
      /\ n \in {0, Len(loop[l].notes)}
      /\ \A m \in Members :
           Len(live'.notes[m]) + n = IF m = To(Current(l))
                                     THEN Len(live.notes[m]) + Len(loop[l].notes)
                                     ELSE Len(live.notes[m]) + n
  BY <1>1, <1>5 DEF n
<1>8. QED
  BY <1>1, <1>2, <1>3, <1>6, <1>7, CountSettled

LEMMA ReturnFailedCount ==
  ASSUME Base, Base', CountInv, NEW l \in Loops, ReturnFailed(l)
  PROVE  CountInv'
<1>1. PICK ok \in BOOLEAN : /\ room' = IF ok THEN Settled(room, Current(l), 0) ELSE room
                            /\ unsaid' = IF ok THEN unsaid ELSE unsaid \cup {Current(l)}
                            /\ \E h, P : live' = [Pausing(NotesBack(l), P) EXCEPT !.held = h]
  BY DEF ReturnFailed, Tries
<1>2. PICK out \in Seq(Ids) : Settles(l, out)
  BY ReturnFailedBase DEF Returned
<1>3. env' = env /\ loop[l].at # "claim" /\ loop[l].todo # <<>>
  BY <1>2 DEF ReturnFailed, Settles
<1> DEFINE c == To(Current(l))
<1>4. /\ live \in Books /\ loop[l].notes \in Seq(Ids) /\ c \in Members
      /\ live.notes \in [Members -> Seq(Ids)]
  BY <1>3, CarryFacts DEF Base, RoomTypes, LoopTypes, Dispatches, Books
<1> DEFINE back == loop[l].notes \o live.notes[c]
<1>5. /\ back \in Seq(Ids) /\ Len(back) = Len(loop[l].notes) + Len(live.notes[c])
      /\ Len(loop[l].notes) \in Nat /\ Len(live.notes[c]) \in Nat
  BY <1>4, ConcatProperties
<1>6. NotesBack(l) = [live EXCEPT !.notes[c] = back]
  BY DEF NotesBack
<1> HIDE DEF c, back
<1>7. live'.notes = [live.notes EXCEPT ![c] = back]
  <2>1. NotesBack(l) \in Books /\ NotesBack(l).notes = [live.notes EXCEPT ![c] = back]
    <3>1. NotesBack(l) \in Books
      BY <1>4, <1>5, <1>6, NotesBook
    <3>2. QED
      BY <1>4, <1>6, <3>1 DEF Books
  <2>2. \A h, P : [Pausing(NotesBack(l), P) EXCEPT !.held = h].notes = NotesBack(l).notes
    BY <2>1 DEF Pausing, Books
  <2>3. QED
    BY <1>1, <2>1, <2>2
<1>8. \A m \in Members :
        Len(live'.notes[m]) + 0 = IF m = c THEN Len(live.notes[m]) + Len(loop[l].notes)
                                  ELSE Len(live.notes[m]) + 0
  <2>1. ASSUME NEW m \in Members, m = c PROVE Len(live'.notes[m]) + 0 = Len(live.notes[m]) + Len(loop[l].notes)
    <3>1. live'.notes[m] = back
      BY <1>4, <1>7, <2>1
    <3>2. Len(live'.notes[m]) = Len(loop[l].notes) + Len(live.notes[m])
      BY <1>5, <2>1, <3>1
    <3> DEFINE x == Len(loop[l].notes)
    <3> DEFINE y == Len(live.notes[m])
    <3>3. x \in Nat /\ y \in Nat /\ Len(live'.notes[m]) = x + y
      BY <1>5, <2>1, <3>2
    <3> HIDE DEF x, y
    <3>4. Len(live'.notes[m]) + 0 = y + x
      BY <3>3
    <3>5. QED
      BY <3>4 DEF x, y
  <2>2. ASSUME NEW m \in Members, m # c PROVE live'.notes[m] = live.notes[m]
    BY <1>4, <1>7, <2>2
  <2>3. QED
    BY <2>1, <2>2
<1>9. QED
  BY <1>1, <1>2, <1>3, <1>8, CountSettled DEF c

LEMMA DispatchingKeepsCount ==
  ASSUME Base, Base', CountInv, NEW l \in Loops, Dispatching(l)
  PROVE  CountInv'
<1>0. live \in Books /\ loop \in [Loops -> Dispatches]
  BY DEF Base, RoomTypes, LoopTypes
<1>1. CASE HoldLate(l)
  <2>1. /\ UNCHANGED <<env, room, unsaid>> /\ live'.notes = live.notes
    BY <1>0, <1>1 DEF HoldLate, Books
  <2>2. \A k \in Loops : SameLoad(k)
    BY <1>1, HoldLateBase DEF SameLoad
  <2>3. QED
    BY <2>1, <2>2, SameGrows, CountStays
<1>2. CASE DriverTakes(l) \/ DriverFails(l)
  <2>1. /\ UNCHANGED <<env, live, room, unsaid>> /\ loop[l].at = "drive"
        /\ \E at \in {"took", "failed"} : loop' = [loop EXCEPT ![l].at = at]
    BY <1>2 DEF DriverTakes, DriverFails, history
  <2>2. /\ loop'[l].at # "claim" /\ loop'[l].todo = loop[l].todo /\ loop'[l].notes = loop[l].notes
        /\ \A k \in Loops \ {l} : loop'[k] = loop[k]
    BY <1>0, <2>1 DEF Dispatches
  <2>3. \A k \in Loops : SameLoad(k)
    BY <2>1, <2>2 DEF SameLoad
  <2>4. QED
    BY <2>1, <2>3, SameGrows, CountStays
<1>3. QED
  BY <1>1, <1>2, ClaimCount, ReturnCount, ReturnFailedCount DEF Dispatching

LEMMA ReportCount ==
  ASSUME Base, Base', CountInv, NEW m \in Members, Report(m)
  PROVE  CountInv'
<1>1. live \in Books /\ room \in Books /\ LoopTypes
  BY DEF Base, RoomTypes
<1>2. UNCHANGED <<env, unsaid>>
  BY DEF Report
<1> DEFINE line(b) == TurnLine(b, m, ending[m], live.active[m])
<1>3. \/ \E P, Q : room' = Pausing(line(room), Q) /\ ReleaseEnded(Pausing(line(live), P), m)
      \/ room' = room /\ live' = Pausing(Spent(live, m), Broken) /\ loop' = Ended(m)
  BY DEF Report
<1> HIDE DEF line
<1>4. line(live).notes = live.notes /\ line(room).notes = room.notes
  BY <1>1, NotesKept DEF line
<1>5. CASE \E P, Q : room' = Pausing(line(room), Q) /\ ReleaseEnded(Pausing(line(live), P), m)
  <2>1. PICK P, Q : room' = Pausing(line(room), Q) /\ ReleaseEnded(Pausing(line(live), P), m)
    BY <1>5
  <2>2. \A k \in Loops : SameLoad(k)
    BY <1>1, <2>1, ReleaseEndedLoads
  <2>3. line(live) \in Books /\ line(room) \in Books
    <3>1. live.active[m] \in Ids \cup {0}
      BY <1>1 DEF Books
    <3>2. QED
      BY <1>1, <3>1, TurnLineBook DEF line
  <2>4. room'.notes = room.notes
    BY <1>4, <2>1, <2>3, NotesKept
  <2>5. live'.notes = live.notes
    <3>1. \E h : live' = [Pausing(line(live), P) EXCEPT !.held = h]
      BY <2>1 DEF ReleaseEnded
    <3>2. \A h : [Pausing(line(live), P) EXCEPT !.held = h].notes = line(live).notes
      BY <2>3 DEF Pausing, Books
    <3>3. QED
      BY <1>4, <3>1, <3>2
  <2>6. QED
    BY <1>2, <2>2, <2>4, <2>5, SameGrows, CountStays
<1>6. CASE room' = room /\ live' = Pausing(Spent(live, m), Broken) /\ loop' = Ended(m)
  <2>1. \A k \in Loops : SameLoad(k)
    BY <1>1, <1>6, EndedLoads
  <2>2. live'.notes = live.notes
    BY <1>1, <1>6 DEF Pausing, Spent, Books
  <2>3. QED
    BY <1>2, <1>6, <2>1, <2>2, SameGrows, CountStays
<1>7. QED
  BY <1>3, <1>5, <1>6

LEMMA SessionKeepsCount ==
  ASSUME Base, Base', CountInv, NEW m \in Members, Session(m)
  PROVE  CountInv'
<1>1. live \in Books /\ room \in Books /\ LoopTypes
  BY DEF Base, RoomTypes
<1>2. CASE Read(m)
  <2>1. UNCHANGED <<env, loop, unsaid>>
    BY <1>2 DEF Read, Routing
  <2>2. /\ \E c, P : live' = Pausing([live EXCEPT !.active[m] = c], P)
        /\ room' = room \/ \E c : room' = [room EXCEPT !.active[m] = c]
    BY <1>2 DEF Read
  <2>3. live'.notes = live.notes /\ room'.notes = room.notes
    BY <1>1, <2>2 DEF Pausing, Books
  <2>4. \A k \in Loops : SameLoad(k)
    BY <2>1 DEF SameLoad
  <2>5. QED
    BY <2>1, <2>3, <2>4, SameGrows, CountStays
<1>3. CASE ReportNotRun(m)
  <2>1. UNCHANGED <<env, room, unsaid>> /\ \E W : Release(live, W)
    BY <1>3 DEF ReportNotRun
  <2>2. QED
    BY <1>1, <2>1, ReleaseLoads, SameGrows, CountStays
<1>4. CASE PersonTurn(m) \/ Launch(m) \/ EndTurn(m) \/ NotRun(m) \/ Restart(m)
  <2>1. UNCHANGED <<env, room, live, loop, unsaid>>
    BY <1>4 DEF PersonTurn, Launch, EndTurn, NotRun, Restart, router, history
  <2>2. \A k \in Loops : SameLoad(k)
    BY <2>1 DEF SameLoad
  <2>3. QED
    BY <2>1, <2>2, SameGrows, CountStays
<1>5. QED
  BY <1>2, <1>3, <1>4, ReportCount DEF Session

(* A replay holds the notes the room has, and no call carries any. *)
LEMMA ReplayCount ==
  ASSUME Base', NEW b, NEW P, Replay(b, P)
  PROVE  CountInv'
<1>0. b \in Books
  BY DEF Replay, Base, RoomTypes
<1>1. live'.notes = b.notes /\ room' = b /\ loop' = [l \in Loops |-> Free]
  BY <1>0, NotesKept DEF Replay
<1>2. ASSUME NEW m \in Members PROVE Notes(m)' = 0
  <2>1. \A l \in Loops : loop'[l].at = "claim"
    BY <1>1 DEF Free
  <2>2. Carried(m)' = {}
    BY <2>1 DEF Carried
  <2>3. \A w : Total(w, {}) = 0
    BY TotalFacts, FS_EmptySet
  <2>4. QED
    BY <2>2, <2>3 DEF Notes
<1>3. \A m \in Members : Len(b.notes[m]) \in Nat
  BY <1>0 DEF Books
<1>4. QED
  BY <1>1, <1>2, <1>3 DEF CountInv

LEMMA CountStep ==
  ASSUME Base, Base', CountInv, [Next]_vars
  PROVE  CountInv'
<1>0. live \in Books /\ room \in Books /\ LoopTypes
  BY DEF Base, RoomTypes
<1>1. ASSUME NEW m \in Members, Sends(m) \/ Session(m) PROVE CountInv'
  BY <1>1, SendsKeepCount, SessionKeepsCount
<1>2. ASSUME NEW l \in Loops, Dispatching(l) PROVE CountInv'
  BY <1>2, DispatchingKeepsCount
<1>3. ASSUME NEW s \in Scopes, Pause(s) PROVE CountInv'
  <2>1. UNCHANGED <<env, loop, unsaid>>
    BY <1>3 DEF Pause
  <2>2. /\ \E P : live' = Pausing(live, P)
        /\ room' = room \/ \E P : room' = Pausing(room, P)
    BY <1>3 DEF Pause
  <2>3. live'.notes = live.notes /\ room'.notes = room.notes
    BY <1>0, <2>2, NotesKept
  <2>4. \A k \in Loops : SameLoad(k)
    BY <2>1 DEF SameLoad
  <2>5. QED
    BY <2>1, <2>3, <2>4, SameGrows, CountStays
<1>4. ASSUME NEW s \in Scopes, Resume(s) PROVE CountInv'
  <2>1. UNCHANGED <<env, unsaid>>
    BY <1>4 DEF Resume
  <2> DEFINE one == <<s, "person">> \in live.pauses
  <2> DEFINE b == Resumed(live, s, one)
  <2>2. room' = Resumed(room, s, one) /\ Release(b, Working)
    BY <1>4 DEF Resume, Lift
  <2>3. b \in Books /\ b.notes = live.notes /\ Resumed(room, s, one).notes = room.notes
    <3> HIDE DEF one
    <3>1. one \in BOOLEAN
      BY DEF one
    <3>2. b \in Books
      BY <1>0, <3>1, ResumedBook
    <3>3. \A p : Resumed(live, s, p).notes = live.notes /\ Resumed(room, s, p).notes = room.notes
      BY <1>0, NotesKept
    <3>4. QED
      BY <3>2, <3>3
  <2> HIDE DEF b, one
  <2>4. room'.notes = room.notes /\ live'.notes = live.notes /\ \A k \in Loops : SameLoad(k)
    BY <1>0, <2>2, <2>3, ReleaseLoads
  <2>5. QED
    BY <2>1, <2>4, SameGrows, CountStays
<1>5. CASE ReleaseDue
  <2>1. UNCHANGED <<env, room, unsaid>> /\ Release(live, Working)
    BY <1>5 DEF ReleaseDue
  <2>2. QED
    BY <1>0, <2>1, ReleaseLoads, SameGrows, CountStays
<1>6. CASE Crash \/ Update \/ Close
  <2>1. \E b, P : Replay(b, P)
    BY <1>6 DEF Crash, Update, Close
  <2>2. QED
    BY <2>1, ReplayCount
<1>7. CASE NewDay \/ Stop \/ UNCHANGED vars
  <2>1. UNCHANGED <<env, loop, unsaid>>
    BY <1>7 DEF NewDay, Stop, vars, router, history
  <2>2. live'.notes = live.notes /\ room'.notes = room.notes
    BY <1>0, <1>7 DEF NewDay, Stop, vars, router, Books
  <2>3. \A k \in Loops : SameLoad(k)
    BY <2>1 DEF SameLoad
  <2>4. QED
    BY <2>1, <2>2, <2>3, SameGrows, CountStays
<1>8. QED
  BY <1>1, <1>2, <1>3, <1>4, <1>5, <1>6, <1>7 DEF Next

LEMMA CountInit == Init => CountInv
<1> SUFFICES ASSUME Init, NEW m \in Members
             PROVE  Len(room.notes[m]) = Len(live.notes[m]) + Notes(m)
  BY DEF CountInv
<1>1. room.notes[m] = <<>> /\ live.notes[m] = <<>>
  BY DEF Init, Blank
<1>2. Carried(m) = {}
  BY DEF Init, Carried, Free
<1>3. \A w : Total(w, {}) = 0
  BY TotalFacts, FS_EmptySet
<1>4. QED
  BY <1>1, <1>2, <1>3 DEF Notes

(* While no delivery's outcome is missing from the room, a replay would     *)
(* rebuild as many notes for a member as its router still has: in the book, *)
(* or with a call that has yet to learn what came of its delivery.          *)
THEOREM NotesBothWays == Spec => []NotesCounted
<1>1. Init => Base /\ OpenInv /\ CountInv
  BY BaseInit, OpenInit, CountInit
<1>2. Base /\ OpenInv /\ CountInv /\ [Next]_vars => (Base /\ OpenInv /\ CountInv)'
  BY BaseStep, CountStep
<1>3. Base /\ CountInv => NotesCounted
  BY NotesAre DEF Base, CountInv, NotesCounted
<1>4. QED
  BY <1>1, <1>2, <1>3, PTL DEF Spec
=============================================================================
