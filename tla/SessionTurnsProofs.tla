------------------------- MODULE SessionTurnsProofs -------------------------
(***************************************************************************)
(* For any number of goroutines and texts, a session runs one turn or one  *)
(* compaction at a time, and whoever reaches the agent finds its           *)
(* single-flight guard free; a latched session drops nothing and records   *)
(* only what a boundary had taken before the write that failed.            *)
(* While no client edits the queue, an interrupted text starts no turn, and *)
(* the session implements PromptFate.                                      *)
(***************************************************************************)
EXTENDS SessionTurns, SequenceTheorems, WellFoundedInduction, TLAPS

(***************************************************************************)
(* Facts about lists: what appending, taking the first or the last away,   *)
(* concatenating and filtering do to the elements of a list, and to how    *)
(* often each is in it.  Filter is recursive: what it keeps is shown by    *)
(* counting up, which the least element of a set of naturals gives.        *)
(***************************************************************************)

(* No element is there twice. *)
Distinct(s) == \A i, j \in 1..Len(s) : s[i] = s[j] => i = j

(* The order of the naturals as a relation, and its least elements.        *)
LEMMA Below == \E R : IsWellFoundedOn(R, Nat) /\ \A x, y \in Nat : <<y, x>> \in R <=> y < x
<1> DEFINE R == OpToRel(<, Nat)
<1>1. IsWellFoundedOn(R, Nat)
  BY NatLessThanWellFounded
<1>2. \A x, y \in Nat : <<y, x>> \in R <=> y < x
  BY DEF OpToRel
<1>3. QED
  BY <1>1, <1>2, Zenon

LEMMA Least ==
  ASSUME NEW T \in SUBSET Nat, T # {}
  PROVE  \E x \in T : \A y \in T : x <= y
<1>1. PICK R : IsWellFoundedOn(R, Nat) /\ \A x, y \in Nat : <<y, x>> \in R <=> y < x
  BY Below
<1>2. PICK x \in T : \A y \in T : ~ (<<y, x>> \in R)
  BY <1>1, WFMin
<1>3. \A y \in T : ~(y < x)
  BY <1>1, <1>2
<1>4. QED
  BY <1>3

(* A set of naturals with 0 and the successor of each of its members up to *)
(* n has everything up to n.                                               *)
LEMMA CountUp ==
  ASSUME NEW T, NEW n \in Nat, 0 \in T, \A k \in 0..n - 1 : k \in T => k + 1 \in T
  PROVE  \A k \in 0..n : k \in T
<1> SUFFICES ASSUME {k \in 0..n : k \notin T} # {} PROVE FALSE
  OBVIOUS
<1>1. {k \in 0..n : k \notin T} \in SUBSET Nat
  OBVIOUS
<1>2. PICK x \in {k \in 0..n : k \notin T} : \A y \in {k \in 0..n : k \notin T} : x <= y
  BY <1>1, Least
<1>3. x # 0 /\ x - 1 \in 0..n - 1 /\ x - 1 < x
  BY <1>2
<1>4. x - 1 \in T
  BY <1>2, <1>3
<1>5. QED
  BY <1>2, <1>3, <1>4

(* The table of the filtered prefixes. *)
IsTable(f, s, A, n) ==
  f = [i \in 0..n |-> IF i = 0 THEN <<>>
                      ELSE IF s[i] \in A THEN Append(f[i - 1], s[i]) ELSE f[i - 1]]
LEMMA TableExists ==
  ASSUME NEW s, NEW A, NEW n \in Nat
  PROVE  \E f : IsTable(f, s, A, n)
<1> DEFINE T == {k \in Nat : \E f : IsTable(f, s, A, k)}
<1>1. 0 \in T
  <2>1. IsTable([i \in 0..0 |-> <<>>], s, A, 0)
    BY DEF IsTable
  <2>2. QED
    BY <2>1
<1>2. ASSUME NEW k \in 0..n - 1, k \in T PROVE k + 1 \in T
  <2>1. PICK f : IsTable(f, s, A, k)
    BY <1>2
  <2> DEFINE last == IF s[k + 1] \in A THEN Append(f[k], s[k + 1]) ELSE f[k]
  <2> DEFINE g == [i \in 0..k + 1 |-> IF i <= k THEN f[i] ELSE last]
  <2>2. \A i \in 0..k : f[i] = IF i = 0 THEN <<>>
             ELSE IF s[i] \in A THEN Append(f[i - 1], s[i]) ELSE f[i - 1]
    BY <2>1 DEF IsTable
  <2>3. \A i \in 0..k : g[i] = f[i]
    OBVIOUS
  <2>4. g[k + 1] = last
    OBVIOUS
  <2>5. g[k] = f[k] /\ k + 1 # 0 /\ (k + 1) - 1 = k
    BY <2>3
  <2> HIDE DEF g
  <2>6. \A i \in 0..k + 1 : g[i] = IF i = 0 THEN <<>>
             ELSE IF s[i] \in A THEN Append(g[i - 1], s[i]) ELSE g[i - 1]
    <3>1. ASSUME NEW i \in 0..k
          PROVE  g[i] = IF i = 0 THEN <<>>
             ELSE IF s[i] \in A THEN Append(g[i - 1], s[i]) ELSE g[i - 1]
      <4>1. i # 0 => i - 1 \in 0..k
        OBVIOUS
      <4>2. QED
        BY <2>2, <2>3, <4>1
    <3>2. g[k + 1] = IF k + 1 = 0 THEN <<>>
             ELSE IF s[k + 1] \in A THEN Append(g[k], s[k + 1]) ELSE g[k]
      BY <2>4, <2>5
    <3>3. \A i \in 0..k + 1 : i \in 0..k \/ i = k + 1
      OBVIOUS
    <3>4. QED
      BY <2>5, <3>1, <3>2, <3>3
  <2>7. IsTable(g, s, A, k + 1)
    BY <2>6 DEF IsTable, g
  <2>8. QED
    BY <2>7
<1> HIDE DEF T
<1>3. \A k \in 0..n : k \in T
  BY <1>1, <1>2, CountUp
<1>4. QED
  BY <1>3 DEF T

LEMMA OneMoreElem ==
  ASSUME NEW p, NEW q, NEW x, Len(p) \in Nat, Len(q) = Len(p) + 1, q[Len(p) + 1] = x,
         \A i \in 1..Len(p) : q[i] = p[i]
  PROVE  Elems(q) = Elems(p) \cup {x}
<1> DEFINE n == Len(p)
<1>1. 1..Len(q) = 1..n \cup {n + 1}
  BY SMT
<1>2. \A i \in 1..n : q[i] = p[i]
  OBVIOUS
<1>3. q[n + 1] = x
  OBVIOUS
<1> HIDE DEF n
<1>4. Elems(q) = {q[i] : i \in 1..n \cup {n + 1}}
  BY <1>1 DEF Elems
<1>5. {q[i] : i \in 1..n \cup {n + 1}} = {p[i] : i \in 1..n} \cup {x}
  BY <1>2, <1>3
<1>6. QED
  BY <1>4, <1>5 DEF Elems, n

LEMMA FilterTable ==
  ASSUME NEW S, NEW s \in Seq(S), NEW A
  PROVE  \E f : IsTable(f, s, A, Len(s)) /\ Filter(s, A) = f[Len(s)]
<1>1. \E f : IsTable(f, s, A, Len(s))
  <2>1. Len(s) \in Nat
    OBVIOUS
  <2>2. QED
    BY <2>1, TableExists
<1> DEFINE f == CHOOSE g : IsTable(g, s, A, Len(s))
<1>2. IsTable(f, s, A, Len(s))
  BY <1>1
<1>3. Filter(s, A) = f[Len(s)]
  BY DEF Filter, IsTable
<1>4. QED
  BY <1>2, <1>3

(* What a filter keeps: the elements in S, each as often as before.        *)
LEMMA FilterFacts ==
  ASSUME NEW S, NEW s \in Seq(S), NEW A
  PROVE  /\ Filter(s, A) \in Seq(S)
         /\ Elems(Filter(s, A)) = Elems(s) \cap A
         /\ Distinct(s) => Distinct(Filter(s, A))
<1> DEFINE n == Len(s)
<1>1. n \in Nat /\ \A i \in 1..n : s[i] \in S
  OBVIOUS
<1>2. PICK f : IsTable(f, s, A, n) /\ Filter(s, A) = f[n]
  BY FilterTable
<1>3. f[0] = <<>>
  BY <1>1, <1>2 DEF IsTable
<1>4. \A k \in 0..n - 1 : f[k + 1] = IF s[k + 1] \in A THEN Append(f[k], s[k + 1]) ELSE f[k]
  <2>1. \A i \in 0..n : f[i] = IF i = 0 THEN <<>>
             ELSE IF s[i] \in A THEN Append(f[i - 1], s[i]) ELSE f[i - 1]
    BY <1>2 DEF IsTable
  <2>2. \A k \in 0..n - 1 : k + 1 \in 0..n /\ k + 1 # 0 /\ (k + 1) - 1 = k
    BY <1>1
  <2>3. QED
    BY <2>1, <2>2
<1> DEFINE Upto(k) == {s[i] : i \in 1..k} \cap A
<1> DEFINE T == {k \in Nat : /\ f[k] \in Seq(S) /\ Elems(f[k]) = Upto(k)
                             /\ Distinct(s) => Distinct(f[k])}
<1>5. 0 \in T
  <2>1. Elems(f[0]) = {} /\ Upto(0) = {} /\ Distinct(f[0]) /\ f[0] \in Seq(S)
    BY <1>3 DEF Elems, Distinct
  <2>2. QED
    BY <2>1
<1>6. ASSUME NEW k \in 0..n - 1, k \in T PROVE k + 1 \in T
  <2> DEFINE x == s[k + 1]
  <2>1. x \in S /\ k + 1 \in 1..n /\ f[k] \in Seq(S) /\ Elems(f[k]) = Upto(k)
    BY <1>1, <1>6
  <2>2. {s[i] : i \in 1..k + 1} = {s[i] : i \in 1..k} \cup {x}
    BY <2>1
  <2>3. CASE x \notin A
    <3>1. f[k + 1] = f[k] /\ Upto(k + 1) = Upto(k)
      BY <1>4, <2>2, <2>3
    <3>2. QED
      BY <1>6, <3>1
  <2>4. CASE x \in A
    <3>1. f[k + 1] = Append(f[k], x) /\ Upto(k + 1) = Upto(k) \cup {x}
      BY <1>4, <2>2, <2>4
    <3>2. f[k + 1] \in Seq(S) /\ Len(f[k + 1]) = Len(f[k]) + 1 /\ f[k + 1][Len(f[k]) + 1] = x
          /\ \A i \in 1..Len(f[k]) : f[k + 1][i] = f[k][i]
      BY <2>1, <3>1
    <3>a. Len(f[k]) \in Nat
      BY <2>1
    <3>3. Elems(f[k + 1]) = Elems(f[k]) \cup {x}
      <4> DEFINE p == f[k]
      <4> DEFINE q == f[k + 1]
      <4>1. /\ Len(p) \in Nat /\ Len(q) = Len(p) + 1 /\ q[Len(p) + 1] = x
            /\ \A i \in 1..Len(p) : q[i] = p[i]
        BY <3>2, <3>a
      <4> HIDE DEF p, q, x, n
      <4>2. Elems(q) = Elems(p) \cup {x}
        BY <4>1, OneMoreElem
      <4>3. QED
        BY <4>2 DEF p, q, x
    <3>4. ASSUME Distinct(s) PROVE Distinct(f[k + 1])
      <4>1. x \notin Elems(f[k])
        BY <1>1, <2>1, <3>4 DEF Distinct
      <4>2. Distinct(f[k])
        BY <1>6, <3>4
      <4>3. QED
        <5>1. \A i \in 1..Len(f[k]) : f[k + 1][i] # x
          BY <3>2, <4>1 DEF Elems
        <5>2. \A i \in 1..Len(f[k + 1]) : i \in 1..Len(f[k]) \/ i = Len(f[k]) + 1
          BY <3>2, <3>a
        <5>3. QED
          BY <3>2, <4>2, <5>1, <5>2 DEF Distinct
    <3>5. Elems(f[k + 1]) = Upto(k + 1)
      BY <2>1, <3>1, <3>3
    <3>6. QED
      BY <2>1, <3>2, <3>4, <3>5
  <2>5. QED
    BY <2>3, <2>4
<1> HIDE DEF T
<1>7. \A k \in 0..n : k \in T
  BY <1>1, <1>5, <1>6, CountUp
<1>8. n \in T
  BY <1>1, <1>7
<1>9. Elems(s) = {s[i] : i \in 1..n}
  BY DEF Elems
<1>10. QED
  BY <1>2, <1>8, <1>9 DEF T

(* What the operations on the queue and on the transcript do to what is in *)
(* them, and to how often.                                                 *)
LEMMA AppendFacts ==
  ASSUME NEW S, NEW s \in Seq(S), NEW x \in S
  PROVE  /\ Elems(Append(s, x)) = Elems(s) \cup {x}
         /\ Distinct(s) /\ x \notin Elems(s) => Distinct(Append(s, x))
<1>1. Len(s) \in Nat /\ Len(Append(s, x)) = Len(s) + 1
  OBVIOUS
<1>2. 1..Len(Append(s, x)) = 1..Len(s) \cup {Len(s) + 1}
  BY <1>1
<1>3. \A i \in 1..Len(s) : Append(s, x)[i] = s[i]
  OBVIOUS
<1>4. Append(s, x)[Len(s) + 1] = x
  OBVIOUS
<1>5. Elems(Append(s, x)) = Elems(s) \cup {x}
  BY <1>1, <1>2, <1>3, <1>4 DEF Elems
<1>6. ASSUME Distinct(s), x \notin Elems(s) PROVE Distinct(Append(s, x))
  BY <1>1, <1>2, <1>3, <1>4, <1>6 DEF Elems, Distinct
<1>7. QED
  BY <1>5, <1>6

LEMMA TailFacts ==
  ASSUME NEW S, NEW s \in Seq(S), s # <<>>
  PROVE  /\ Elems(s) = Elems(Tail(s)) \cup {Head(s)} /\ Head(s) \in S
         /\ Distinct(s) => Distinct(Tail(s)) /\ Head(s) \notin Elems(Tail(s))
<1>1. Len(s) \in Nat \ {0} /\ Len(Tail(s)) = Len(s) - 1 /\ Head(s) = s[1]
  OBVIOUS
<1>2. \A i \in 1..Len(s) - 1 : Tail(s)[i] = s[i + 1]
  BY <1>1
<1>3. 1..Len(s) = {i + 1 : i \in 1..Len(s) - 1} \cup {1}
  <2>1. \A i \in 1..Len(s) : i # 1 => i - 1 \in 1..Len(s) - 1 /\ i = (i - 1) + 1
    BY <1>1
  <2>2. \A i \in 1..Len(s) - 1 : i + 1 \in 1..Len(s)
    BY <1>1
  <2>3. 1 \in 1..Len(s)
    BY <1>1
  <2>4. QED
    BY <2>1, <2>2, <2>3
<1>4. Elems(s) = Elems(Tail(s)) \cup {s[1]}
  BY <1>1, <1>2, <1>3 DEF Elems
<1>5. ASSUME Distinct(s) PROVE Distinct(Tail(s)) /\ s[1] \notin Elems(Tail(s))
  <2>1. \A i \in 1..Len(s) - 1 : i + 1 \in 1..Len(s) /\ i + 1 # 1
    BY <1>1
  <2>2. QED
    BY <1>1, <1>2, <1>5, <2>1 DEF Elems, Distinct
<1>6. QED
  BY <1>1, <1>4, <1>5

LEMMA ConcatFacts ==
  ASSUME NEW S, NEW s \in Seq(S), NEW u \in Seq(S)
  PROVE  /\ Elems(s \o u) = Elems(s) \cup Elems(u)
         /\ Distinct(s) /\ Distinct(u) /\ Elems(s) \cap Elems(u) = {} => Distinct(s \o u)
<1> DEFINE m == Len(s)
<1> DEFINE n == Len(u)
<1>1. m \in Nat /\ n \in Nat /\ Len(s \o u) = m + n
  BY ConcatProperties
<1>2. \A i \in 1..m : (s \o u)[i] = s[i]
  BY <1>1, ConcatProperties
<1>3. \A i \in 1..n : (s \o u)[m + i] = u[i]
  BY <1>1, ConcatProperties
<1>4. 1..m + n = 1..m \cup {m + i : i \in 1..n}
  <2>1. \A i \in 1..m + n : i \notin 1..m => i - m \in 1..n /\ i = m + (i - m)
    BY <1>1
  <2>2. \A i \in 1..n : m + i \in 1..m + n
    BY <1>1
  <2>3. \A i \in 1..m : i \in 1..m + n
    BY <1>1
  <2>4. QED
    BY <2>1, <2>2, <2>3
<1>5. Elems(s \o u) = Elems(s) \cup Elems(u)
  <2>1. \A i \in 1..m : s[i] \in Elems(s \o u)
    BY <1>2, <1>4, <1>1 DEF Elems
  <2>2. \A i \in 1..n : u[i] \in Elems(s \o u)
    BY <1>3, <1>4, <1>1 DEF Elems
  <2>3. \A i \in 1..m + n : (s \o u)[i] \in Elems(s) \cup Elems(u)
    <3>1. \A i \in 1..m : (s \o u)[i] \in Elems(s)
      BY <1>2 DEF Elems
    <3>2. \A i \in 1..n : (s \o u)[m + i] \in Elems(u)
      BY <1>3 DEF Elems
    <3> HIDE DEF m, n
    <3>3. QED
      BY <1>4, <3>1, <3>2
  <2>4. Elems(s) \cup Elems(u) \subseteq Elems(s \o u)
    BY <2>1, <2>2 DEF Elems
  <2>5. Elems(s \o u) \subseteq Elems(s) \cup Elems(u)
    BY <1>1, <2>3 DEF Elems
  <2>6. QED
    BY <2>4, <2>5
<1>6. ASSUME Distinct(s), Distinct(u), Elems(s) \cap Elems(u) = {} PROVE Distinct(s \o u)
  <2>1. \A i \in 1..m, j \in 1..n : s[i] # u[j]
    BY <1>6 DEF Elems
  <2>2. ASSUME NEW i \in 1..m + n, NEW j \in 1..m + n, (s \o u)[i] = (s \o u)[j]
        PROVE  i = j
    <3>1. CASE i \in 1..m /\ j \in 1..m
      BY <1>2, <1>6, <2>2, <3>1 DEF Distinct
    <3>2. ASSUME NEW k \in 1..n, i = m + k, j \in 1..m PROVE FALSE
      BY <1>2, <1>3, <2>1, <2>2, <3>2
    <3>3. ASSUME NEW k \in 1..n, j = m + k, i \in 1..m PROVE FALSE
      BY <1>2, <1>3, <2>1, <2>2, <3>3
    <3>4. ASSUME NEW k \in 1..n, NEW l \in 1..n, i = m + k, j = m + l PROVE i = j
      BY <1>3, <1>6, <2>2, <3>4 DEF Distinct
    <3>5. QED
      BY <1>4, <3>1, <3>2, <3>3, <3>4
  <2>3. QED
    BY <1>1, <2>2 DEF Distinct
<1>7. QED
  BY <1>5, <1>6

LEMMA FrontFacts ==
  ASSUME NEW S, NEW s \in Seq(S), s # <<>>
  PROVE  LET front == SubSeq(s, 1, Len(s) - 1) IN
         /\ front \in Seq(S) /\ Len(front) = Len(s) - 1
         /\ Elems(s) = Elems(front) \cup {s[Len(s)]} /\ s[Len(s)] \in S
         /\ Distinct(s) => Distinct(front) /\ s[Len(s)] \notin Elems(front)
<1> DEFINE front == SubSeq(s, 1, Len(s) - 1)
<1>0. Len(s) \in Nat \ {0} /\ 1 \in Int /\ Len(s) - 1 \in Int
      /\ \A i \in 1..Len(s) - 1 : s[i] \in S
  OBVIOUS
<1>1. Len(front) = (IF 1 <= Len(s) - 1 THEN (Len(s) - 1) - 1 + 1 ELSE 0)
      /\ \A i \in 1..(Len(s) - 1) - 1 + 1 : front[i] = s[1 + i - 1]
  BY <1>0, SubSeqProperties
<1> HIDE DEF front
<1>2. Len(front) = Len(s) - 1 /\ \A i \in 1..Len(s) - 1 : front[i] = s[i]
  <2>0. Len(front) = IF 1 <= Len(s) - 1 THEN (Len(s) - 1) - 1 + 1 ELSE 0
    BY <1>1
  <2>1. Len(front) = Len(s) - 1
    <3>1. ASSUME NEW k \in Nat \ {0}
          PROVE  (IF 1 <= k - 1 THEN (k - 1) - 1 + 1 ELSE 0) = k - 1
      OBVIOUS
    <3>2. QED
      BY <1>0, <2>0, <3>1
  <2>2. (Len(s) - 1) - 1 + 1 = Len(s) - 1
    BY <1>0
  <2>3. \A i \in 1..Len(s) - 1 : 1 + i - 1 = i
    BY <1>0
  <2>4. \A i \in 1..Len(s) - 1 : front[i] = s[1 + i - 1]
    BY <1>1, <2>2
  <2>5. QED
    BY <2>1, <2>3, <2>4
<1>3. 1..Len(s) = 1..Len(s) - 1 \cup {Len(s)}
  BY <1>0
<1>4. Elems(s) = Elems(front) \cup {s[Len(s)]}
  BY <1>0, <1>2, <1>3 DEF Elems
<1>5. ASSUME Distinct(s) PROVE Distinct(front) /\ s[Len(s)] \notin Elems(front)
  BY <1>0, <1>2, <1>3, <1>5 DEF Elems, Distinct
<1>6. s[Len(s)] \in S
  BY <1>0
<1>7. front \in Seq(S)
  BY <1>0, SubSeqProperties DEF front
<1>8. QED
  BY <1>2, <1>4, <1>5, <1>6, <1>7 DEF front

LEMMA ConsFacts ==
  ASSUME NEW S, NEW s \in Seq(S), NEW x \in S
  PROVE  /\ <<x>> \o s \in Seq(S)
         /\ Elems(<<x>> \o s) = Elems(s) \cup {x}
         /\ Distinct(s) /\ x \notin Elems(s) => Distinct(<<x>> \o s)
<1>1. <<x>> \in Seq(S) /\ Elems(<<x>>) = {x} /\ Distinct(<<x>>)
  BY DEF Elems, Distinct
<1>2. /\ Elems(<<x>> \o s) = Elems(<<x>>) \cup Elems(s)
      /\ Distinct(<<x>>) /\ Distinct(s) /\ Elems(<<x>>) \cap Elems(s) = {} => Distinct(<<x>> \o s)
  BY <1>1, ConcatFacts
<1>3. <<x>> \o s \in Seq(S)
  BY <1>1, ConcatProperties
<1>4. QED
  BY <1>1, <1>2, <1>3

(* The first goes, another comes in behind. *)
LEMMA ShiftFacts ==
  ASSUME NEW S, NEW s \in Seq(S), s # <<>>, NEW x \in S
  PROVE  LET u == Append(Tail(s), x) IN
         /\ u \in Seq(S) /\ Elems(u) = Elems(Tail(s)) \cup {x}
         /\ Distinct(s) /\ x \notin Elems(s) => Distinct(u)
<1>1. Tail(s) \in Seq(S)
  OBVIOUS
<1>2. Elems(s) = Elems(Tail(s)) \cup {Head(s)} /\ (Distinct(s) => Distinct(Tail(s)))
  BY TailFacts
<1> DEFINE t == Tail(s)
<1> HIDE DEF t
<1>3. /\ Append(t, x) \in Seq(S) /\ Elems(Append(t, x)) = Elems(t) \cup {x}
      /\ Distinct(t) /\ x \notin Elems(t) => Distinct(Append(t, x))
  <2>1. t \in Seq(S)
    BY <1>1 DEF t
  <2>2. QED
    BY <2>1, AppendFacts
<1>4. QED
  BY <1>2, <1>3 DEF t

(* Where a goroutine runs a compaction. *)
InCompaction == {"compacting", "summarizing", "endcompact"}

SlotType == /\ pc \in [Threads -> Where]
            /\ turn \in Threads \cup {None}
            /\ running \in Threads \cup {None}
            /\ compacting \in BOOLEAN

(* OneAtATime does not say that two goroutines never compact together, nor *)
(* where the holder of the guard is: both are needed for it to survive     *)
(* EndCompacting and the steps that take the guard.                        *)
SlotInv ==
  /\ SlotType
  /\ \A t \in Threads : pc[t] \in InTurn <=> turn = t
  /\ compacting <=> \E t \in Threads : pc[t] \in InCompaction
  /\ \A t, u \in Threads : pc[t] \in InCompaction /\ pc[u] \in InCompaction => t = u
  /\ turn # None => ~compacting
  /\ running # None => pc[running] \in InAgent \cup {"summarizing"}

(* The strengthening implies what the runs check. *)
LEMMA SlotInvImplies == TurnAssumption /\ SlotInv => OneAtATime
BY DEF TurnAssumption, SlotInv, SlotType, OneAtATime, InTurn, InAgent, InCompaction

(* A session starts with nothing running. *)
LEMMA SlotInvInit == TurnAssumption /\ Init => SlotInv
<1> SUFFICES ASSUME TurnAssumption, Init PROVE SlotInv
  OBVIOUS
<1>1. \A t \in Threads : pc[t] = "idle"
  BY DEF Init
<1>2. SlotType
  BY DEF TurnAssumption, Init, SlotType, Where
<1>3. None \notin Threads
  BY DEF TurnAssumption
<1>4. turn = None /\ running = None /\ compacting = FALSE
  BY DEF Init
<1>5. QED
  BY <1>1, <1>2, <1>3, <1>4 DEF SlotInv, Carrying, InTurn, InCompaction

(* The goroutine that compacts is the only one, and leaves none behind.    *)
LEMMA SlotCompacted ==
  ASSUME SlotInv, NEW t \in Threads, pc[t] = "endcompact", NEW p \in {"idle", "claim"},
         pc' = [pc EXCEPT ![t] = p], compacting' = FALSE, UNCHANGED <<turn, running>>
  PROVE  SlotInv'
<1>1. pc' \in [Threads -> Where] /\ pc'[t] = p /\ \A u \in Threads \ {t} : pc'[u] = pc[u]
  <2>1. p \in Where
    BY DEF Where, Carrying
  <2>2. QED
    BY <2>1 DEF SlotInv, SlotType
<1>2. p \notin InTurn /\ p \notin InCompaction /\ pc[t] \in InCompaction /\ pc[t] \notin InTurn
  BY DEF InTurn, InAgent, InCompaction
<1>3. \A u \in Threads : pc'[u] \in InTurn <=> turn = u
  BY <1>1, <1>2 DEF SlotInv
<1>4. \A u \in Threads : pc'[u] \notin InCompaction
  BY <1>1, <1>2 DEF SlotInv
<1>5. running # None => pc'[running] \in InAgent \cup {"summarizing"}
  <2>1. pc[t] \notin InAgent \cup {"summarizing"}
    BY DEF InAgent
  <2>2. running # None => running \in Threads /\ running # t
    BY <2>1 DEF SlotInv, SlotType
  <2>3. QED
    BY <1>1, <2>2 DEF SlotInv
<1>6. SlotType'
  BY <1>1 DEF SlotInv, SlotType
<1>7. QED
  BY <1>3, <1>4, <1>5, <1>6 DEF SlotInv

(* No step of any goroutine breaks it. *)
LEMMA SlotInvNext == TurnAssumption /\ SlotInv /\ [Next]_vars => SlotInv'
<1> SUFFICES ASSUME TurnAssumption, SlotInv, [Next]_vars PROVE SlotInv'
  OBVIOUS
<1> USE DEF TurnAssumption, SlotInv, SlotType, Where, Carrying, InTurn, InAgent,
            InCompaction, At, Move, Goto, Stop, Claim, Return, Busy, sess, hist
<1>1. CASE UNCHANGED vars
  BY <1>1 DEF vars
<1>2. ASSUME NEW t \in Threads, NEW x \in Texts, Prompt(t, x) PROVE SlotInv'
  BY <1>2 DEF Prompt, Send
<1>3. ASSUME NEW t \in Threads, NEW x \in Texts, SubmitOrQueue(t, x) PROVE SlotInv'
  BY <1>3 DEF SubmitOrQueue, Send
<1>4. ASSUME NEW t \in Threads, NEW x \in Texts, Queue(t, x) PROVE SlotInv'
  BY <1>4 DEF Queue, Send, EnqueueOrStart
<1>5. ASSUME NEW t \in Threads, Compact(t) PROVE SlotInv'
  BY <1>5 DEF Compact
<1>6. ASSUME NEW c \in {"user", "drain"}, Cancel(c) PROVE SlotInv'
  BY <1>6 DEF Cancel
<1>7. CASE MirrorQueue \/ SetQueue
  BY <1>7 DEF MirrorQueue, SetQueue
<1>8. ASSUME NEW t \in Threads, Work(t) PROVE SlotInv'
  <2>1. CASE BeginTurn(t)
    BY <2>1 DEF BeginTurn
  <2>2. CASE Refused(t)
    BY <2>2 DEF Refused
  <2>3. CASE Requeue(t)
    BY <2>3 DEF Requeue
  <2>4. CASE ChatQueue(t)
    BY <2>4 DEF ChatQueue, EnqueueOrStart
  <2>5. CASE PreTurn(t)
    BY <2>5 DEF PreTurn
  <2>6. CASE RecordPrompt(t)
    BY <2>6 DEF RecordPrompt
  <2>7. CASE Boundary(t) \/ Inject(t)
    <3>1. CASE pc' = [pc EXCEPT ![t] = "release"]
      BY <2>7, <3>1 DEF Boundary, Inject
    <3>2. CASE pc' = [pc EXCEPT ![t] = "step"]
      BY <2>7, <3>2 DEF Boundary, Inject
    <3>3. CASE pc' = [pc EXCEPT ![t] = "inject"]
      BY <2>7, <3>3 DEF Boundary, Inject
    <3>4. QED
      BY <2>7, <3>1, <3>2, <3>3 DEF Boundary, Inject
  <2>8. CASE Step(t)
    BY <2>8 DEF Step
  <2>9. CASE Close(t)
    BY <2>9 DEF Close
  <2>10. CASE Release(t)
    BY <2>10 DEF Release
  <2>11. CASE EndCheck(t)
    BY <2>11 DEF EndCheck
  <2>12. CASE EndTurn(t)
    BY <2>12 DEF EndTurn, Rest
  <2>13. CASE CompactAfterTurn(t)
    <3>1. CASE pc'[t] = "idle"
      BY <2>13, <3>1 DEF CompactAfterTurn
    <3>2. CASE turn = None /\ ~compacting /\ pc' = [pc EXCEPT ![t] = "compacting"]
      BY <2>13, <3>2 DEF CompactAfterTurn
    <3>3. QED
      BY <2>13, <3>1, <3>2 DEF CompactAfterTurn
  <2>14. CASE Summarize(t)
    BY <2>14 DEF Summarize
  <2>15. CASE EndCompacting(t)
    <3>1. PICK p \in {"idle", "claim"} : pc' = [pc EXCEPT ![t] = p]
      BY <2>15 DEF EndCompacting
    <3>2. pc[t] = "endcompact" /\ compacting' = FALSE /\ UNCHANGED <<turn, running>>
      BY <2>15 DEF EndCompacting
    <3> HIDE DEF SlotInv
    <3>3. QED
      BY <3>1, <3>2, SlotCompacted
  <2>16. QED
    BY <1>8, <2>1, <2>2, <2>3, <2>4, <2>5, <2>6, <2>7, <2>8, <2>9, <2>10,
       <2>11, <2>12, <2>13, <2>14, <2>15 DEF Work
<1>9. QED
  BY <1>1, <1>2, <1>3, <1>4, <1>5, <1>6, <1>7, <1>8 DEF Next, Client

(* The slot, the compacting mark and the agent's guard always agree.       *)
THEOREM SlotSafety == Spec => []OneAtATime
<1>1. Init => SlotInv
  BY TurnAssumption, SlotInvInit
<1>2. SlotInv /\ [Next]_vars => SlotInv'
  BY TurnAssumption, SlotInvNext
<1>3. SlotInv => OneAtATime
  BY TurnAssumption, SlotInvImplies
<1>4. QED
  BY <1>1, <1>2, <1>3, PTL DEF Spec

(* What was taken out of the queue waits while a boundary records it.      *)
TakenInv == taken # <<>> <=> \E t \in Threads : pc[t] = "inject"

LEMMA TakenInvInit == Init => TakenInv
BY DEF Init, TakenInv

LEMMA TakenSame ==
  ASSUME SlotInv, TakenInv, NEW t \in Threads, NEW p, Move(t, p),
         pc[t] # "inject", p # "inject", UNCHANGED taken
  PROVE  TakenInv'
BY DEF SlotInv, SlotType, TakenInv, Move

LEMMA TakenInvNext ==
  ASSUME SlotInv, TakenInv, [Next]_vars
  PROVE  TakenInv'
<1> USE DEF At, Goto, Stop, Claim, Return
<1>1. CASE UNCHANGED <<pc, taken>>
  BY <1>1 DEF TakenInv
<1>2. ASSUME NEW t \in Threads, pc[t] # "inject", UNCHANGED taken,
             \E p : Move(t, p) /\ p # "inject"
      PROVE  TakenInv'
  BY <1>2, TakenSame
<1>3. CASE Client
  <2>1. ASSUME NEW t \in Threads, NEW x \in Texts,
               Prompt(t, x) \/ SubmitOrQueue(t, x) \/ Queue(t, x)
        PROVE  TakenInv'
    BY <1>2, <2>1 DEF Prompt, SubmitOrQueue, Queue, Send, EnqueueOrStart
  <2>2. ASSUME NEW t \in Threads, Compact(t) PROVE TakenInv'
    BY <1>2, <2>2 DEF Compact
  <2>3. QED
    BY <1>1, <1>3, <2>1, <2>2 DEF Client, Cancel, MirrorQueue, SetQueue
<1>4. ASSUME NEW t \in Threads, Boundary(t) PROVE TakenInv'
  <2>1. CASE UNCHANGED taken
    <3>1. CASE \E p : Move(t, p) /\ p # "inject"
      BY <1>2, <1>4, <2>1, <3>1 DEF Boundary
    <3>2. CASE queued # <<>> /\ taken' = queued /\ Move(t, "inject")
      BY <3>2 DEF TakenInv, Move, SlotInv, SlotType
    <3>3. QED
      BY <1>4, <3>1, <3>2 DEF Boundary
  <2>2. CASE taken' = queued /\ Move(t, IF queued = <<>> THEN "step" ELSE "inject")
    <3>1. CASE queued = <<>>
      <4>1. Move(t, "step") /\ pc[t] = "boundary"
        BY <1>4, <2>2, <3>1 DEF Boundary
      <4>2. \A u \in Threads : pc'[u] # "inject"
        BY <4>1 DEF Move, SlotInv, SlotType, InTurn
      <4>3. QED
        BY <2>2, <3>1, <4>2 DEF TakenInv
    <3>2. CASE queued # <<>>
      BY <2>2, <3>2 DEF TakenInv, Move, SlotInv, SlotType
    <3>3. QED
      BY <3>1, <3>2
  <2>3. QED
    BY <1>4, <2>1, <2>2 DEF Boundary
<1>5. ASSUME NEW t \in Threads, Inject(t) PROVE TakenInv'
  <2>1. pc[t] = "inject" /\ taken' = Tail(taken)
    BY <1>5 DEF Inject
  <2>2. CASE Tail(taken) = <<>>
    <3>1. Move(t, "step")
      BY <1>5, <2>2 DEF Inject
    <3>2. \A u \in Threads : pc'[u] # "inject"
      BY <2>1, <3>1 DEF Move, SlotInv, SlotType, InTurn
    <3>3. QED
      BY <2>1, <2>2, <3>2 DEF TakenInv
  <2>3. CASE Tail(taken) # <<>>
    <3>1. Move(t, "inject")
      BY <1>5, <2>3 DEF Inject
    <3>2. QED
      BY <2>1, <2>3, <3>1 DEF TakenInv, Move, SlotInv, SlotType
  <2>4. QED
    BY <2>2, <2>3
<1>6. ASSUME NEW t \in Threads, Work(t) PROVE TakenInv'
  <2>1. CASE BeginTurn(t) \/ Refused(t) \/ Requeue(t) \/ ChatQueue(t)
    BY <1>2, <2>1 DEF BeginTurn, Refused, Requeue, ChatQueue, EnqueueOrStart
  <2>2. CASE PreTurn(t) \/ RecordPrompt(t) \/ Step(t) \/ Close(t)
    BY <1>2, <2>2 DEF PreTurn, RecordPrompt, Step, Close
  <2>3. CASE Release(t) \/ EndCheck(t) \/ EndTurn(t) \/ CompactAfterTurn(t)
    BY <1>2, <2>3 DEF Release, EndCheck, EndTurn, Rest, CompactAfterTurn
  <2>4. CASE Summarize(t) \/ EndCompacting(t)
    BY <1>2, <2>4 DEF Summarize, EndCompacting
  <2>5. QED
    BY <1>4, <1>5, <1>6, <2>1, <2>2, <2>3, <2>4 DEF Work
<1>7. CASE UNCHANGED vars
  BY <1>1, <1>7 DEF vars
<1>8. QED
  BY <1>3, <1>6, <1>7 DEF Next

-----------------------------------------------------------------------------
(***************************************************************************)
(* Types, and the latch.                                                   *)
(***************************************************************************)
(* Where a goroutine has a text of its own. *)
Holds(t) == pc[t] \in Carrying \cup InTurn

DataType == /\ th \in [Threads -> Thread] /\ perr \in BOOLEAN
            /\ queued \in Seq(Texts) /\ taken \in Seq(Texts) /\ log \in Seq(Texts)
            /\ unsent \in SUBSET Texts /\ gone \in [Texts -> Fates]
            /\ edit \in [mirror : Seq(Texts), left : 0..MaxPops]
            /\ stale \in [Texts -> {"no", "yes", "late"}]

(* A copy of the queue is only taken while edits are left. *)
DataInv == /\ DataType
           /\ \A t \in Threads : Holds(t) => th[t].text \in Texts
           /\ edit.mirror # <<>> => edit.left > 0

LEMMA TypeSplit == TypeOK <=> SlotType /\ DataType
BY DEF TypeOK, SlotType, DataType

LEMMA BlankType == TurnAssumption => Blank \in Thread
BY DEF TurnAssumption, Blank, Thread

LEMMA DataInvInit == TurnAssumption /\ Init => DataInv
<1> SUFFICES ASSUME TurnAssumption, Init PROVE DataInv
  OBVIOUS
<1>1. th \in [Threads -> Thread]
  BY BlankType DEF Init
<1>2. DataType
  <2>1. queued \in Seq(Texts) /\ taken \in Seq(Texts) /\ log \in Seq(Texts)
    BY DEF Init
  <2>2. edit \in [mirror : Seq(Texts), left : 0..MaxPops]
    BY DEF Init, TurnAssumption
  <2>3. QED
    BY <1>1, <2>1, <2>2 DEF Init, DataType, Fates
<1>3. QED
  BY <1>2 DEF Init, DataInv, Holds, Carrying, InTurn

(* What the helpers of a goroutine's step do to its data. *)
LEMMA StopData ==
  ASSUME TurnAssumption, SlotInv, DataInv, NEW t \in Threads, Stop(t)
  PROVE  th' \in [Threads -> Thread] /\ \A u \in Threads : Holds(u)' => th'[u].text \in Texts
BY BlankType DEF DataInv, DataType, SlotInv, SlotType, Stop, Move, Holds, Carrying, InTurn

LEMMA ClaimData ==
  ASSUME TurnAssumption, SlotInv, DataInv, NEW t \in Threads, NEW x \in Texts,
         NEW f \in {"none", "client", "chatqueue", "again", "front"}, Claim(t, x, f)
  PROVE  th' \in [Threads -> Thread] /\ \A u \in Threads : Holds(u)' => th'[u].text \in Texts
<1>1. [Blank EXCEPT !.text = x, !.from = f] \in Thread
  BY BlankType DEF Thread
<1>2. [Blank EXCEPT !.text = x, !.from = f].text = x
  BY DEF Blank
<1>3. QED
  BY <1>1, <1>2 DEF DataInv, DataType, SlotInv, SlotType, Claim, Move, Holds

LEMMA EnqueueData ==
  ASSUME TurnAssumption, SlotInv, DataInv, NEW t \in Threads, NEW x \in Texts,
         EnqueueOrStart(t, x)
  PROVE  /\ queued' \in Seq(Texts) /\ th' \in [Threads -> Thread]
         /\ \A u \in Threads : Holds(u)' => th'[u].text \in Texts
<1> USE DEF DataInv, DataType
<1>1. CASE queued' = Append(queued, x) /\ Stop(t)
  BY <1>1, StopData
<1>2. CASE queued # <<>> /\ queued' = Append(Tail(queued), x) /\ Claim(t, Head(queued), "front")
  <2>1. Head(queued) \in Texts /\ Tail(queued) \in Seq(Texts)
    BY <1>2
  <2>2. QED
    BY <1>2, <2>1, ClaimData
<1>3. CASE Claim(t, x, "again") /\ UNCHANGED queued
  BY <1>3, ClaimData
<1>4. QED
  BY <1>1, <1>2, <1>3 DEF EnqueueOrStart

(* A turn writes its error and what it knows of its message; its text and  *)
(* its context stay.                                                       *)
Alike(w) == {v \in Thread : v.text = w.text /\ v.ctx = w.ctx}
LEMMA ThreadSet ==
  ASSUME NEW w \in Thread
  PROVE  /\ w \in Alike(w)
         /\ \A c \in {"live", "user", "drain"} : [w EXCEPT !.ctx = c] \in Thread
         /\ \A e \in {"none", "failed", "cancelled", "storage"} :
              /\ [w EXCEPT !.err = e] \in Alike(w)
              /\ \A b \in BOOLEAN : [w EXCEPT !.alone = b, !.err = e] \in Alike(w)
         /\ \A b \in BOOLEAN : /\ [w EXCEPT !.alone = b] \in Alike(w)
                               /\ [w EXCEPT !.again = b] \in Alike(w)
                               /\ [w EXCEPT !.failed = b] \in Alike(w)
         /\ \A n \in 0..MaxSteps : /\ [w EXCEPT !.steps = n] \in Alike(w)
                                   /\ [w EXCEPT !.alone = TRUE, !.steps = n] \in Alike(w)
<1>1. w \in Alike(w) /\ \A c \in {"live", "user", "drain"} : [w EXCEPT !.ctx = c] \in Thread
  BY DEF Thread, Alike
<1>2. \A e \in {"none", "failed", "cancelled", "storage"} :
         /\ [w EXCEPT !.err = e] \in Alike(w)
         /\ \A b \in BOOLEAN : [w EXCEPT !.alone = b, !.err = e] \in Alike(w)
  <2> TAKE e \in {"none", "failed", "cancelled", "storage"}
  <2>1. [w EXCEPT !.err = e] \in Alike(w)
    BY DEF Thread, Alike
  <2>2. ASSUME NEW b \in BOOLEAN PROVE [w EXCEPT !.alone = b, !.err = e] \in Alike(w)
    BY DEF Thread, Alike
  <2>3. QED
    BY <2>1, <2>2
<1>3. \A b \in BOOLEAN : /\ [w EXCEPT !.alone = b] \in Alike(w)
                         /\ [w EXCEPT !.again = b] \in Alike(w)
                         /\ [w EXCEPT !.failed = b] \in Alike(w)
  BY DEF Thread, Alike
<1>4. \A n \in 0..MaxSteps : /\ [w EXCEPT !.steps = n] \in Alike(w)
                             /\ [w EXCEPT !.alone = TRUE, !.steps = n] \in Alike(w)
  BY DEF Thread, Alike
<1>5. QED
  BY <1>1, <1>2, <1>3, <1>4

(* Clients and the claim. *)
LEMMA ClientData == ASSUME TurnAssumption, SlotInv, DataInv, Client PROVE DataInv'
<1> USE DEF DataInv, DataType, sess, hist
<1>1. ASSUME NEW t \in Threads, NEW x \in Texts, Prompt(t, x) PROVE DataInv'
  BY <1>1, ClaimData DEF Prompt, Send
<1>2. ASSUME NEW t \in Threads, NEW x \in Texts, SubmitOrQueue(t, x) PROVE DataInv'
  BY <1>2, ClaimData DEF SubmitOrQueue, Send
<1>3. ASSUME NEW t \in Threads, NEW x \in Texts, Queue(t, x) PROVE DataInv'
  BY <1>3, EnqueueData DEF Queue, Send
<1>4. ASSUME NEW t \in Threads, Compact(t) PROVE DataInv'
  BY <1>4 DEF Compact, Goto, Move, Holds, Carrying, InTurn, SlotInv, SlotType
<1>5. ASSUME NEW c \in {"user", "drain"}, Cancel(c) PROVE DataInv'
  <2>1. turn \in Threads /\ th[turn] \in Thread
    BY <1>5 DEF Cancel, SlotInv, SlotType
  <2>2. [th[turn] EXCEPT !.ctx = c] \in Thread
    BY <2>1, ThreadSet DEF Alike
  <2>3. th' \in [Threads -> Thread]
    BY <1>5, <2>1, <2>2 DEF Cancel
  <2>4. \A u \in Threads : th'[u].text = th[u].text
    BY <1>5, <2>1 DEF Cancel
  <2>5. stale' \in [Texts -> {"no", "yes", "late"}]
    BY <1>5 DEF Cancel
  <2>6. QED
    BY <1>5, <2>3, <2>4, <2>5 DEF Cancel, Holds
<1>6. CASE MirrorQueue
  BY <1>6 DEF MirrorQueue, Holds
<1>7. CASE SetQueue
  <2> DEFINE n == Len(edit.mirror)
  <2>1. n \in Nat \ {0} /\ edit.left \in 0..MaxPops /\ edit.left > 0
    BY <1>7 DEF SetQueue
  <2>2. SubSeq(edit.mirror, 1, n - 1) \in Seq(Texts)
    BY <2>1
  <2>3. edit' \in [mirror : Seq(Texts), left : 0..MaxPops] /\ edit'.mirror = <<>>
    BY <1>7, <2>1 DEF SetQueue, TurnAssumption
  <2>4. gone' \in [Texts -> Fates]
    BY <1>7 DEF SetQueue, Leave, Fates
  <2>5. QED
    BY <1>7, <2>2, <2>3, <2>4 DEF SetQueue, Holds
<1>8. QED
  BY <1>1, <1>2, <1>3, <1>4, <1>5, <1>6, <1>7 DEF Client

LEMMA ClaimingData ==
  ASSUME TurnAssumption, SlotInv, DataInv, NEW t \in Threads,
         BeginTurn(t) \/ Refused(t) \/ Requeue(t) \/ ChatQueue(t)
  PROVE  DataInv'
<1> USE DEF DataInv, DataType, sess, hist
<1>1. CASE BeginTurn(t)
  BY <1>1 DEF BeginTurn, At, Goto, Move, Holds, Carrying, InTurn, SlotInv, SlotType
<1>2. CASE Refused(t)
  <2>1. CASE Leave({th[t].text}, "refused") /\ Stop(t)
    BY <1>2, <2>1, StopData DEF Refused, Leave, Fates
  <2>2. CASE th[t].from \in {"chatqueue", "again", "front"} /\ Goto(t, th[t].from)
             /\ UNCHANGED gone
    BY <1>2, <2>2 DEF Refused, At, Goto, Move, Holds, Carrying, InTurn, SlotInv, SlotType
  <2>3. QED
    BY <1>2, <2>1, <2>2 DEF Refused
<1>3. CASE Requeue(t)
  <2>1. th[t].text \in Texts
    BY <1>3 DEF Requeue, At, Holds, Carrying
  <2>2. queued' \in Seq(Texts)
    <3>1. <<th[t].text>> \in Seq(Texts)
      BY <2>1
    <3>2. <<th[t].text>> \o queued \in Seq(Texts)
      BY <3>1, ConcatProperties
    <3>3. Append(queued, th[t].text) \in Seq(Texts)
      BY <2>1
    <3>4. QED
      BY <1>3, <3>2, <3>3 DEF Requeue
  <2>3. QED
    BY <1>3, <2>2, StopData DEF Requeue
<1>4. CASE ChatQueue(t)
  <2>1. th[t].text \in Texts
    BY <1>4 DEF ChatQueue, At, Holds, Carrying
  <2>2. QED
    BY <1>4, <2>1, EnqueueData DEF ChatQueue
<1>5. QED
  BY <1>1, <1>2, <1>3, <1>4

(* The turn itself: its steps keep the text it runs for.                   *)
Rewrites(t) == \E w \in Alike(th[t]) : th' = [th EXCEPT ![t] = w]
LEMMA RunningThread ==
  ASSUME TurnAssumption, th \in [Threads -> Thread], NEW t \in Threads,
         PreTurn(t) \/ RecordPrompt(t) \/ Boundary(t) \/ Inject(t) \/ Step(t) \/ Close(t) \/ Release(t)
           \/ EndCheck(t)
  PROVE  Rewrites(t)
<1> USE DEF Move, Goto, Return
<1>1. th[t] \in Thread /\ th[t].alone \in BOOLEAN /\ th[t].steps \in 0..MaxSteps
  BY DEF Thread
<1>2. CASE th' = th
  <2>1. th' = [th EXCEPT ![t] = th[t]]
    BY <1>2
  <2>2. QED
    BY <1>1, <2>1, ThreadSet DEF Rewrites
<1>3. ASSUME NEW e \in {"none", "failed", "cancelled", "storage"},
             th' = [th EXCEPT ![t].err = e]
      PROVE  Rewrites(t)
  <2>1. [th[t] EXCEPT !.err = e] \in Alike(th[t])
    BY <1>1, ThreadSet
  <2>2. QED
    BY <1>3, <2>1 DEF Rewrites
<1>4. ASSUME NEW b \in BOOLEAN, th' = [th EXCEPT ![t].alone = b] PROVE Rewrites(t)
  <2>1. [th[t] EXCEPT !.alone = b] \in Alike(th[t])
    BY <1>1, ThreadSet
  <2>2. QED
    BY <1>4, <2>1 DEF Rewrites
<1>5. ASSUME NEW b \in BOOLEAN, NEW e \in {"none", "failed", "cancelled", "storage"},
             th' = [th EXCEPT ![t].alone = b, ![t].err = e]
      PROVE  Rewrites(t)
  <2>1. [th[t] EXCEPT !.alone = b, !.err = e] \in Alike(th[t])
    BY <1>1, ThreadSet
  <2>2. th' = [th EXCEPT ![t] = [th[t] EXCEPT !.alone = b, !.err = e]]
    BY <1>5
  <2>3. QED
    BY <2>1, <2>2 DEF Rewrites
<1>6. CASE PreTurn(t)
  BY <1>2, <1>3, <1>6 DEF PreTurn
<1>7. CASE RecordPrompt(t)
  <2>1. CASE th' = [th EXCEPT ![t].alone = TRUE, ![t].steps = 0]
    <3>1. [th[t] EXCEPT !.alone = TRUE, !.steps = 0] \in Alike(th[t])
      <4>1. 0 \in 0..MaxSteps
        BY DEF TurnAssumption
      <4>2. QED
        BY <1>1, <4>1, ThreadSet
    <3>2. th' = [th EXCEPT ![t] = [th[t] EXCEPT !.alone = TRUE, !.steps = 0]]
      BY <2>1
    <3>3. QED
      BY <3>1, <3>2 DEF Rewrites
  <2>2. QED
    BY <1>2, <1>3, <1>7, <2>1 DEF RecordPrompt
<1>8. CASE Boundary(t) \/ Inject(t)
  <2>1. ASSUME th[t].steps < MaxSteps, th' = [th EXCEPT ![t].steps = @ + 1]
        PROVE  Rewrites(t)
    <3>1. [th[t] EXCEPT !.steps = th[t].steps + 1] \in Alike(th[t])
      <4>1. th[t].steps + 1 \in 0..MaxSteps
        BY <1>1, <2>1 DEF TurnAssumption
      <4>2. QED
        BY <1>1, <4>1, ThreadSet
    <3>2. th' = [th EXCEPT ![t] = [th[t] EXCEPT !.steps = th[t].steps + 1]]
      BY <2>1
    <3>3. QED
      BY <3>1, <3>2 DEF Rewrites
  <2>2. QED
    BY <1>2, <1>3, <1>4, <1>8, <2>1 DEF Boundary, Inject
<1>9. CASE Step(t)
  <2>1. CASE th' = [th EXCEPT ![t].again = TRUE]
    <3>1. [th[t] EXCEPT !.again = TRUE] \in Alike(th[t])
      BY <1>1, ThreadSet
    <3>2. QED
      BY <2>1, <3>1 DEF Rewrites
  <2>2. ASSUME NEW kept \in BOOLEAN,
               th' = [th EXCEPT ![t].alone = @ /\ ~kept,
                        ![t].err = IF th[t].ctx = "live" THEN "failed" ELSE "cancelled"]
        PROVE  Rewrites(t)
    <3>1. (th[t].alone /\ ~kept) \in BOOLEAN
      OBVIOUS
    <3>2. (IF th[t].ctx = "live" THEN "failed" ELSE "cancelled") \in {"failed", "cancelled"}
      OBVIOUS
    <3>3. QED
      BY <1>5, <2>2, <3>1, <3>2
  <2>3. QED
    BY <1>3, <1>4, <1>5, <1>9, <2>1, <2>2 DEF Step
<1>10. CASE Close(t) \/ Release(t)
  BY <1>2, <1>3, <1>10 DEF Close, Release
<1>11. CASE EndCheck(t)
  <2>1. ASSUME NEW b \in BOOLEAN, th' = [th EXCEPT ![t].failed = b] PROVE Rewrites(t)
    <3>1. [th[t] EXCEPT !.failed = b] \in Alike(th[t])
      BY <1>1, ThreadSet
    <3>2. QED
      BY <2>1, <3>1 DEF Rewrites
  <2>2. (th[t].err # "none" \/ th[t].ctx # "live") \in BOOLEAN
    OBVIOUS
  <2>3. QED
    BY <1>11, <2>1, <2>2 DEF EndCheck
<1>12. QED
  BY <1>6, <1>7, <1>8, <1>9, <1>10, <1>11

LEMMA RunningData ==
  ASSUME TurnAssumption, SlotInv, TakenInv, DataInv, NEW t \in Threads,
         PreTurn(t) \/ RecordPrompt(t) \/ Boundary(t) \/ Inject(t) \/ Step(t) \/ Close(t) \/ Release(t)
           \/ EndCheck(t)
  PROVE  DataInv'
<1> USE DEF DataInv, DataType, sess, hist, At, Move, Goto, Return
<1>1. Holds(t) /\ th[t].text \in Texts /\ th[t] \in Thread
  BY DEF PreTurn, RecordPrompt, Boundary, Inject, Step, Close, Release, EndCheck, Holds, InTurn
<1>2. perr' \in BOOLEAN
  BY DEF PreTurn, RecordPrompt, Boundary, Inject, Step, Close, Release, EndCheck, Writes
<1>3. Rewrites(t)
  BY RunningThread
<1>4. th' \in [Threads -> Thread] /\ \A u \in Threads : th'[u].text = th[u].text
  BY <1>3 DEF Rewrites, Alike
<1>5. \A u \in Threads : Holds(u)' => Holds(u)
  BY <1>1 DEF PreTurn, RecordPrompt, Boundary, Inject, Step, Close, Release, EndCheck, Holds,
              Carrying, InTurn, SlotInv, SlotType
<1>6. log' \in Seq(Texts) /\ queued' \in Seq(Texts) /\ taken' \in Seq(Texts)
  <2>1. CASE Release(t)
    <3>1. SubSeq(log, 1, Len(log) - 1) \in Seq(Texts)
      OBVIOUS
    <3>2. QED
      BY <2>1, <3>1 DEF Release
  <2>2. CASE RecordPrompt(t) \/ Boundary(t)
    <3>1. Append(log, th[t].text) \in Seq(Texts) /\ <<>> \in Seq(Texts)
      BY <1>1
    <3>2. QED
      BY <2>2, <3>1 DEF RecordPrompt, Boundary
  <2>3. CASE Inject(t)
    <3>1. taken # <<>>
      BY <2>3 DEF Inject, TakenInv
    <3>2. Head(taken) \in Texts /\ Tail(taken) \in Seq(Texts)
      BY <3>1
    <3>3. Append(log, Head(taken)) \in Seq(Texts)
      BY <3>2
    <3>4. QED
      BY <2>3, <3>2, <3>3 DEF Inject
  <2>4. QED
    BY <2>1, <2>2, <2>3 DEF PreTurn, Step, Close, EndCheck
<1>7. gone' \in [Texts -> Fates]
  BY DEF PreTurn, RecordPrompt, Boundary, Inject, Step, Close, Release, EndCheck, Leave, Fates
<1>8. UNCHANGED <<unsent, edit, stale>>
  BY DEF PreTurn, RecordPrompt, Boundary, Inject, Step, Close, Release, EndCheck
<1>9. QED
  BY <1>2, <1>3, <1>4, <1>5, <1>6, <1>7, <1>8

(* Settling a turn, and a compaction. *)
LEMMA KeptFacts ==
  ASSUME queued \in Seq(Texts)
  PROVE  /\ Kept \in Seq(Texts)
         /\ Elems(Kept) = Elems(queued) \cap (Deliveries \ Elems(log))
         /\ Distinct(queued) => Distinct(Kept)
BY FilterFacts DEF Kept

LEMMA EndingData ==
  ASSUME TurnAssumption, SlotInv, DataInv, NEW t \in Threads,
         EndTurn(t) \/ CompactAfterTurn(t) \/ Summarize(t) \/ EndCompacting(t)
  PROVE  DataInv'
<1> USE DEF DataInv, DataType, sess, hist
<1>1. CASE EndTurn(t)
  <2>1. ASSUME Rest(t)
        PROVE  th' \in [Threads -> Thread] /\ \A u \in Threads : Holds(u)' => th'[u].text \in Texts
    <3>1. CASE Move(t, "compact") /\ th' = [th EXCEPT ![t] = Blank]
      <4>1. th' \in [Threads -> Thread]
        BY <3>1, BlankType
      <4>2. ASSUME NEW u \in Threads, Holds(u)' PROVE th'[u].text \in Texts
        <5>1. u # t /\ Holds(u) /\ th'[u] = th[u]
          BY <3>1, <4>2 DEF Move, Holds, Carrying, InTurn, SlotInv, SlotType
        <5>2. QED
          BY <5>1
      <4>3. QED
        BY <4>1, <4>2
    <3>2. QED
      BY <2>1, <3>1, StopData DEF Rest
  <2>2. CASE Rest(t) /\ UNCHANGED <<queued, gone>>
    BY <1>1, <2>1, <2>2 DEF EndTurn
  <2>3. CASE Rest(t) /\ queued' = Kept /\ Leave(Elems(queued) \ Elems(Kept), "dropped")
    <3>1. gone' \in [Texts -> Fates]
      BY <2>3 DEF Leave, Fates
    <3>2. QED
      BY <1>1, <2>1, <2>3, <3>1, KeptFacts DEF EndTurn
  <2>4. CASE /\ queued # <<>> /\ queued' = Tail(queued) /\ Claim(t, Head(queued), "front")
             /\ UNCHANGED gone
    <3>1. Head(queued) \in Texts /\ Tail(queued) \in Seq(Texts)
      BY <2>4
    <3>2. QED
      BY <1>1, <2>4, <3>1, ClaimData DEF EndTurn
  <2>5. QED
    BY <1>1, <2>2, <2>3, <2>4 DEF EndTurn
<1>2. CASE CompactAfterTurn(t)
  <2>1. CASE Stop(t)
    BY <1>2, <2>1, StopData DEF CompactAfterTurn
  <2>2. CASE Goto(t, "compacting")
    BY <1>2, <2>2 DEF CompactAfterTurn, Goto, Move, Holds, Carrying, InTurn, SlotInv, SlotType
  <2>3. QED
    BY <1>2, <2>1, <2>2 DEF CompactAfterTurn
<1>3. CASE Summarize(t)
  <2>1. /\ UNCHANGED <<th, queued, hist, edit, stale, taken>> /\ perr' \in {perr, TRUE}
        /\ \E p \in {"summarizing", "endcompact"} : Move(t, p)
    BY <1>3 DEF Summarize, Writes, Goto
  <2>2. \A u \in Threads : Holds(u)' => Holds(u)
    BY <2>1 DEF Move, Holds, Carrying, InTurn, SlotInv, SlotType
  <2>3. QED
    BY <2>1, <2>2
<1>4. CASE EndCompacting(t)
  <2>1. CASE Stop(t) /\ UNCHANGED queued
    BY <1>4, <2>1, StopData DEF EndCompacting
  <2>2. CASE queued # <<>> /\ queued' = Tail(queued) /\ Claim(t, Head(queued), "front")
    <3>1. Head(queued) \in Texts /\ Tail(queued) \in Seq(Texts)
      BY <2>2
    <3>2. QED
      BY <1>4, <2>2, <3>1, ClaimData DEF EndCompacting
  <2>3. QED
    BY <1>4, <2>1, <2>2 DEF EndCompacting
<1>5. QED
  BY <1>1, <1>2, <1>3, <1>4

LEMMA DataInvNext ==
  ASSUME TurnAssumption, SlotInv, TakenInv, DataInv, [Next]_vars
  PROVE  DataInv'
<1>1. CASE UNCHANGED vars
  BY <1>1 DEF vars, sess, hist, DataInv, DataType, Holds
<1>2. ASSUME NEW t \in Threads, Work(t) PROVE DataInv'
  BY <1>2, ClaimingData, RunningData, EndingData DEF Work
<1>3. QED
  BY <1>1, <1>2, ClientData DEF Next

(* The three hold throughout. *)
LEMMA TurnInvAlways == Spec => [](SlotInv /\ TakenInv /\ DataInv)
<1>1. Init => SlotInv /\ TakenInv /\ DataInv
  BY TurnAssumption, SlotInvInit, TakenInvInit, DataInvInit
<1>2. SlotInv /\ TakenInv /\ DataInv /\ [Next]_vars => (SlotInv /\ TakenInv /\ DataInv)'
  BY TurnAssumption, SlotInvNext, TakenInvNext, DataInvNext
<1>3. QED
  BY <1>1, <1>2, PTL DEF Spec

(* Every variable keeps its type, whatever clients do to the queue.        *)
THEOREM TurnTypes == Spec => []TypeOK
<1>1. SlotInv /\ DataInv => TypeOK
  BY TypeSplit DEF SlotInv, DataInv
<1>2. QED
  BY <1>1, TurnInvAlways, PTL

(* A latched session takes nothing from the queue and drops nothing of it. *)
LEMMA LatchStep ==
  ASSUME TurnAssumption, TakenInv, DataInv, [Next]_vars, perr
  PROVE  /\ Elems(taken') \subseteq Elems(taken)
         /\ Elems(log') \subseteq Elems(log) \cup Elems(taken)
         /\ \A x \in Texts : gone'[x] = "dropped" => gone[x] = "dropped"
<1> DEFINE Safe == /\ Elems(taken') \subseteq Elems(taken)
                   /\ Elems(log') \subseteq Elems(log) \cup Elems(taken)
                   /\ \A x \in Texts : gone'[x] = "dropped" => gone[x] = "dropped"
<1>1. log \in Seq(Texts) /\ taken \in Seq(Texts)
  BY DEF DataInv, DataType
<1>2. CASE UNCHANGED <<log, taken, gone>>
  BY <1>2
<1>3. ASSUME NEW S, NEW e \in Fates \ {"dropped"}, Leave(S, e), UNCHANGED <<log, taken>> PROVE Safe
  BY <1>3 DEF Leave
<1>4. CASE Client
  <2>1. CASE SetQueue
    <3>1. PICK S : Leave(S, "edited")
      BY <2>1 DEF SetQueue
    <3>2. QED
      BY <1>3, <2>1, <3>1 DEF SetQueue, Fates
  <2>2. QED
    BY <1>2, <1>4, <2>1 DEF Client, Prompt, SubmitOrQueue, Queue, Compact, Cancel, MirrorQueue, hist
<1>5. ASSUME NEW t \in Threads, Work(t) PROVE Safe
  <2>1. CASE Refused(t) \/ PreTurn(t) \/ RecordPrompt(t)
    BY <1>2, <1>3, <2>1 DEF Refused, PreTurn, RecordPrompt, Fates
  <2>2. CASE Release(t)
    <3>1. CASE log' = SubSeq(log, 1, Len(log) - 1) /\ Leave({th[t].text}, "withdrawn")
      <4>1. CASE log = <<>>
        <5>1. SubSeq(log, 1, Len(log) - 1) = <<>>
          BY <4>1, SubSeqEmpty
        <5>2. QED
          BY <2>2, <3>1, <4>1, <5>1 DEF Leave, Release
      <4>2. CASE log # <<>>
        <5>1. Elems(log') \subseteq Elems(log)
          BY <1>1, <3>1, <4>2, FrontFacts
        <5>2. QED
          BY <2>2, <3>1, <5>1 DEF Leave, Release
      <4>3. QED
        BY <4>1, <4>2
    <3>2. QED
      BY <1>2, <2>2, <3>1 DEF Release
  <2>3. CASE EndTurn(t)
    BY <1>2, <2>3 DEF EndTurn
  <2>4. CASE Boundary(t)
    BY <1>2, <2>4 DEF Boundary, hist
  <2>5. CASE Inject(t)
    <3>1. taken # <<>>
      BY <2>5 DEF Inject, At, TakenInv
    <3>2. /\ Elems(taken) = Elems(Tail(taken)) \cup {Head(taken)} /\ Head(taken) \in Texts
      BY <1>1, <3>1, TailFacts
    <3>3. CASE UNCHANGED log /\ Leave({Head(taken)}, "rejected")
      BY <2>5, <3>2, <3>3 DEF Inject, Leave
    <3>4. CASE log' = Append(log, Head(taken)) /\ UNCHANGED gone
      <4>1. Elems(log') = Elems(log) \cup {Head(taken)}
        BY <1>1, <3>2, <3>4, AppendFacts
      <4>2. QED
        BY <2>5, <3>2, <3>4, <4>1 DEF Inject
    <3>5. QED
      BY <2>5, <3>3, <3>4 DEF Inject
  <2>6. CASE ~(Refused(t) \/ PreTurn(t) \/ RecordPrompt(t) \/ Release(t) \/ EndTurn(t)
                 \/ Boundary(t) \/ Inject(t))
    BY <1>2, <1>5, <2>6 DEF Work, BeginTurn, Requeue, ChatQueue, Step, Close, EndCheck,
       CompactAfterTurn, Summarize, EndCompacting, sess, hist
  <2>7. QED
    BY <2>1, <2>2, <2>3, <2>4, <2>5, <2>6
<1>6. QED
  BY <1>2, <1>4, <1>5 DEF Next, vars, hist

(* Once a write has failed the queue is left alone: only what a boundary   *)
(* had taken out of it before is still recorded, and nothing is dropped.   *)
THEOREM LatchKept == Spec => LatchStops
<1>1. TakenInv /\ DataInv /\ [Next]_vars =>
        [perr => /\ Elems(taken') \subseteq Elems(taken)
                 /\ Elems(log') \subseteq Elems(log) \cup Elems(taken)
                 /\ \A x \in Texts : gone'[x] = "dropped" => gone[x] = "dropped"]_vars
  BY TurnAssumption, LatchStep
<1>2. QED
  BY <1>1, TurnInvAlways, PTL DEF Spec, LatchStops

-----------------------------------------------------------------------------
(***************************************************************************)
(* Whose a text is, while no client edits the queue (an edit writes back a *)
(* copy, which may hold what has left the queue since).                    *)
(***************************************************************************)
NoEdits == MaxPops = 0

(* What waits in the queue, or was taken out of it and is not recorded.    *)
Waiting == Elems(queued) \cup Elems(taken)

(* A text is unsent, waits once, or is one goroutine's.                    *)
HeldInv ==
  /\ edit.mirror = <<>> /\ edit.left = 0
  /\ Distinct(queued) /\ Distinct(taken) /\ Elems(queued) \cap Elems(taken) = {}
  /\ Waiting \cap unsent = {}
  /\ \A t \in Threads : Holds(t) => th[t].text \notin unsent \cup Waiting
  /\ \A t, u \in Threads : t # u /\ Holds(t) /\ Holds(u) => th[t].text # th[u].text

LEMMA HeldInvInit == ASSUME TurnAssumption, NoEdits, Init PROVE HeldInv
BY DEF NoEdits, Init, HeldInv, Waiting, Holds, Carrying, InTurn, Distinct, Elems

(* A goroutine lets its text go, or takes one that was unsent or first in  *)
(* the queue.                                                              *)
LEMMA HeldStop ==
  ASSUME TurnAssumption, SlotInv, DataInv, HeldInv, NEW t \in Threads, Stop(t),
         UNCHANGED edit
  PROVE  /\ \A u \in Threads : Holds(u)' => u # t /\ Holds(u) /\ th'[u] = th[u]
BY DEF Stop, Move, Holds, Carrying, InTurn, SlotInv, SlotType, DataInv, DataType

LEMMA HeldClaim ==
  ASSUME TurnAssumption, SlotInv, DataInv, HeldInv, NEW t \in Threads, NEW x, NEW f,
         Claim(t, x, f)
  PROVE  /\ th'[t].text = x
         /\ \A u \in Threads \ {t} : Holds(u)' => Holds(u) /\ th'[u] = th[u]
BY DEF Claim, Move, Holds, SlotInv, SlotType, DataInv, DataType, Blank

LEMMA HeldEnqueue ==
  ASSUME TurnAssumption, SlotInv, DataInv, HeldInv, NEW t \in Threads, NEW x \in Texts,
         EnqueueOrStart(t, x), unsent' \subseteq unsent, x \notin unsent' \cup Waiting,
         \A u \in Threads \ {t} : Holds(u) => th[u].text # x,
         UNCHANGED <<edit, taken>>
  PROVE  HeldInv'
<1> USE DEF HeldInv, Waiting
<1>1. queued \in Seq(Texts)
  BY DEF DataInv, DataType
<1>2. CASE queued' = Append(queued, x) /\ Stop(t)
  <2>1. Elems(queued') = Elems(queued) \cup {x} /\ Distinct(queued')
    BY <1>1, <1>2, AppendFacts
  <2>2. \A u \in Threads : Holds(u)' => u # t /\ Holds(u) /\ th'[u] = th[u]
    BY <1>2, HeldStop
  <2>3. QED
    BY <2>1, <2>2
<1>3. CASE queued # <<>> /\ queued' = Append(Tail(queued), x) /\ Claim(t, Head(queued), "front")
  <2> DEFINE y == Head(queued)
  <2>1. /\ Tail(queued) \in Seq(Texts) /\ y \in Texts
        /\ Elems(queued) = Elems(Tail(queued)) \cup {y}
        /\ Distinct(Tail(queued)) /\ y \notin Elems(Tail(queued))
    BY <1>1, <1>3, TailFacts
  <2>2. Elems(queued') = Elems(Tail(queued)) \cup {x} /\ Distinct(queued')
    BY <1>1, <1>3, ShiftFacts
  <2>3. th'[t].text = y /\ \A u \in Threads \ {t} : Holds(u)' => Holds(u) /\ th'[u] = th[u]
    BY <1>3, HeldClaim
  <2>4. \A u \in Threads \ {t} : Holds(u)' => th'[u].text # y /\ th'[u].text # x
    BY <2>1, <2>3
  <2>5. \A u \in Threads : Holds(u)' => th'[u].text \notin unsent' \cup Waiting'
    BY <2>1, <2>2, <2>3, <2>4
  <2>6. QED
    BY <2>1, <2>2, <2>3, <2>4, <2>5
<1>4. CASE Claim(t, x, "again") /\ UNCHANGED queued
  <2>1. th'[t].text = x /\ \A u \in Threads \ {t} : Holds(u)' => Holds(u) /\ th'[u] = th[u]
    BY <1>4, HeldClaim
  <2>2. QED
    BY <1>4, <2>1
<1>5. QED
  BY <1>2, <1>3, <1>4 DEF EnqueueOrStart

(* The head of the queue becomes a goroutine's. *)
LEMMA HeldTake ==
  ASSUME TurnAssumption, SlotInv, DataInv, HeldInv, NEW t \in Threads,
         queued # <<>>, queued' = Tail(queued), Claim(t, Head(queued), "front"),
         UNCHANGED <<unsent, edit, taken>>
  PROVE  HeldInv'
<1> USE DEF HeldInv, Waiting
<1> DEFINE y == Head(queued)
<1>1. /\ y \in Texts /\ Elems(queued) = Elems(queued') \cup {y}
      /\ Distinct(queued') /\ y \notin Elems(queued')
  BY TailFacts DEF DataInv, DataType
<1>2. th'[t].text = y /\ \A u \in Threads \ {t} : Holds(u)' => Holds(u) /\ th'[u] = th[u]
  BY HeldClaim
<1>3. \A u \in Threads \ {t} : Holds(u)' => th'[u].text # y
  BY <1>1, <1>2
<1>4. QED
  BY <1>1, <1>2, <1>3

(* A step that moves no text. *)
LEMMA HeldSame ==
  ASSUME HeldInv, UNCHANGED <<unsent, edit, taken>>, Distinct(queued'),
         Elems(queued') \subseteq Elems(queued),
         \A u \in Threads : Holds(u)' => Holds(u) /\ th'[u].text = th[u].text
  PROVE  HeldInv'
BY DEF HeldInv, Waiting

LEMMA HeldClient == ASSUME TurnAssumption, SlotInv, DataInv, HeldInv, Client PROVE HeldInv'
<1>1. ASSUME NEW t \in Threads, NEW x \in Texts, NEW f, Send(t, x), Claim(t, x, f),
             UNCHANGED <<queued, taken, edit>>
      PROVE  HeldInv'
  <2>1. th'[t].text = x /\ \A u \in Threads \ {t} : Holds(u)' => Holds(u) /\ th'[u] = th[u]
    BY <1>1, HeldClaim
  <2>2. QED
    BY <1>1, <2>1 DEF HeldInv, Waiting, Send
<1>2. ASSUME NEW t \in Threads, NEW x \in Texts, Prompt(t, x) \/ SubmitOrQueue(t, x)
      PROVE  HeldInv'
  BY <1>1, <1>2 DEF Prompt, SubmitOrQueue, sess
<1>3. ASSUME NEW t \in Threads, NEW x \in Texts, Queue(t, x) PROVE HeldInv'
  <2>1. x \in unsent /\ unsent' = unsent \ {x} /\ EnqueueOrStart(t, x)
        /\ UNCHANGED <<edit, taken>>
    BY <1>3 DEF Queue, Send
  <2>2. x \notin Waiting /\ \A u \in Threads \ {t} : Holds(u) => th[u].text # x
    BY <2>1 DEF HeldInv
  <2>3. QED
    BY <2>1, <2>2, HeldEnqueue
<1>4. ASSUME NEW t \in Threads, Compact(t) PROVE HeldInv'
  <2>1. \A u \in Threads : Holds(u)' => Holds(u) /\ th'[u].text = th[u].text
    BY <1>4 DEF Compact, Goto, Move, Holds, Carrying, InTurn, SlotInv, SlotType
  <2>2. QED
    BY <1>4, <2>1, HeldSame DEF Compact, hist, HeldInv
<1>5. ASSUME NEW c \in {"user", "drain"}, Cancel(c) PROVE HeldInv'
  <2>1. \A u \in Threads : Holds(u)' => Holds(u) /\ th'[u].text = th[u].text
    BY <1>5 DEF Cancel, Holds, SlotInv, SlotType, DataInv, DataType
  <2>2. QED
    BY <1>5, <2>1, HeldSame DEF Cancel, hist, sess, HeldInv
<1>6. CASE MirrorQueue \/ SetQueue
  BY <1>6 DEF MirrorQueue, SetQueue, HeldInv
<1>7. QED
  BY <1>2, <1>3, <1>4, <1>5, <1>6 DEF Client

LEMMA HeldClaiming ==
  ASSUME TurnAssumption, SlotInv, DataInv, HeldInv, NEW t \in Threads,
         BeginTurn(t) \/ Refused(t) \/ Requeue(t) \/ ChatQueue(t)
  PROVE  HeldInv'
<1>1. Holds(t) /\ th[t].text \in Texts /\ UNCHANGED <<unsent, edit, taken>>
  BY DEF BeginTurn, Refused, Requeue, ChatQueue, At, Holds, Carrying, DataInv, hist
<1>2. ASSUME NEW p, Goto(t, p), UNCHANGED queued PROVE HeldInv'
  <2>1. \A u \in Threads : Holds(u)' => Holds(u) /\ th'[u].text = th[u].text
    BY <1>1, <1>2 DEF Goto, Move, Holds, SlotInv, SlotType
  <2>2. QED
    BY <1>1, <1>2, <2>1, HeldSame DEF HeldInv
<1>3. ASSUME Stop(t), UNCHANGED queued PROVE HeldInv'
  <2>1. \A u \in Threads : Holds(u)' => Holds(u) /\ th'[u].text = th[u].text
    BY <1>1, <1>3, HeldStop
  <2>2. QED
    BY <1>1, <1>3, <2>1, HeldSame DEF HeldInv
<1>4. CASE BeginTurn(t) \/ Refused(t)
  BY <1>2, <1>3, <1>4 DEF BeginTurn, Refused, sess
<1>5. CASE Requeue(t)
  <2> DEFINE x == th[t].text
  <2>1. queued \in Seq(Texts) /\ Stop(t)
    BY <1>1, <1>5 DEF DataInv, DataType, Requeue
  <2>2. x \notin Elems(queued)
    BY <1>1 DEF HeldInv, Waiting
  <2>3. Elems(queued') = Elems(queued) \cup {x} /\ Distinct(queued')
    <3>1. CASE queued' = <<x>> \o queued
      BY <1>1, <2>1, <2>2, <3>1, ConsFacts DEF HeldInv
    <3>2. CASE queued' = Append(queued, x)
      BY <1>1, <2>1, <2>2, <3>2, AppendFacts DEF HeldInv
    <3>3. QED
      BY <1>5, <3>1, <3>2 DEF Requeue
  <2>4. \A u \in Threads : Holds(u)' => u # t /\ Holds(u) /\ th'[u] = th[u]
    BY <1>1, <2>1, HeldStop
  <2>5. QED
    BY <1>1, <2>3, <2>4 DEF HeldInv, Waiting
<1>6. CASE ChatQueue(t)
  BY <1>1, <1>6, HeldEnqueue DEF ChatQueue, HeldInv
<1>7. QED
  BY <1>4, <1>5, <1>6

(* A turn takes the whole queue at a boundary and records it text by text; *)
(* it keeps its own text.                                                  *)
LEMMA HeldRunning ==
  ASSUME TurnAssumption, SlotInv, TakenInv, DataInv, HeldInv, NEW t \in Threads,
         PreTurn(t) \/ RecordPrompt(t) \/ Boundary(t) \/ Inject(t) \/ Step(t) \/ Close(t) \/ Release(t)
           \/ EndCheck(t)
  PROVE  HeldInv'
<1>1. Holds(t)
  BY DEF PreTurn, RecordPrompt, Boundary, Inject, Step, Close, Release, EndCheck, At, Holds, InTurn
<1>2. \A u \in Threads : th'[u].text = th[u].text
  BY RunningThread DEF Rewrites, Alike, DataInv, DataType
<1>3. \A u \in Threads : Holds(u)' => Holds(u)
  BY <1>1 DEF PreTurn, RecordPrompt, Boundary, Inject, Step, Close, Release, EndCheck, Holds,
              Move, Goto, Return, SlotInv, SlotType
<1>4. \/ UNCHANGED <<queued, taken>>
      \/ queued' = <<>> /\ taken' = queued
      \/ queued' = queued /\ taken # <<>> /\ taken' = Tail(taken)
  <2>1. CASE Inject(t)
    BY <2>1 DEF Inject, At, TakenInv
  <2>2. CASE ~Inject(t)
    BY <2>2 DEF PreTurn, RecordPrompt, Boundary, Step, Close, Release, EndCheck, sess
  <2>3. QED
    BY <2>1, <2>2
<1>5. /\ Distinct(queued') /\ Distinct(taken') /\ Elems(queued') \cap Elems(taken') = {}
      /\ Waiting' \subseteq Waiting
  <2>1. CASE UNCHANGED <<queued, taken>>
    BY <2>1 DEF HeldInv, Waiting
  <2>2. CASE queued' = <<>> /\ taken' = queued
    BY <2>2 DEF HeldInv, Waiting, Distinct, Elems
  <2>3. CASE queued' = queued /\ taken # <<>> /\ taken' = Tail(taken)
    <3>1. Elems(taken') \subseteq Elems(taken) /\ Distinct(taken')
      BY <2>3, TailFacts DEF HeldInv, DataInv, DataType
    <3>2. QED
      BY <2>3, <3>1 DEF HeldInv, Waiting
  <2>4. QED
    BY <1>4, <2>1, <2>2, <2>3
<1>6. UNCHANGED <<unsent, edit>>
  BY DEF PreTurn, RecordPrompt, Boundary, Inject, Step, Close, Release, EndCheck, hist
<1>7. QED
  BY <1>2, <1>3, <1>5, <1>6 DEF HeldInv

LEMMA HeldEnding ==
  ASSUME TurnAssumption, SlotInv, DataInv, HeldInv, NEW t \in Threads,
         EndTurn(t) \/ CompactAfterTurn(t) \/ Summarize(t) \/ EndCompacting(t)
  PROVE  HeldInv'
<1>1. UNCHANGED <<unsent, edit, taken>>
  BY DEF EndTurn, CompactAfterTurn, Summarize, EndCompacting, hist
<1>2. ASSUME Stop(t), UNCHANGED queued PROVE HeldInv'
  <2>1. \A u \in Threads : Holds(u)' => Holds(u) /\ th'[u].text = th[u].text
    BY <1>1, <1>2, HeldStop
  <2>2. QED
    BY <1>1, <1>2, <2>1, HeldSame DEF HeldInv
<1>3. ASSUME NEW p \in {"compact", "compacting", "summarizing", "endcompact"}, Move(t, p),
             th' = th \/ th' = [th EXCEPT ![t] = Blank], UNCHANGED queued
      PROVE  HeldInv'
  <2>1. \A u \in Threads : Holds(u)' => Holds(u) /\ th'[u].text = th[u].text
    BY <1>3 DEF Move, Holds, Carrying, InTurn, SlotInv, SlotType, DataInv, DataType
  <2>2. QED
    BY <1>1, <1>3, <2>1, HeldSame DEF HeldInv
<1>4. CASE EndTurn(t)
  <2>1. CASE Rest(t) /\ queued' = Kept
    <3>1. Elems(Kept) \subseteq Elems(queued) /\ Distinct(Kept)
      BY KeptFacts DEF HeldInv, DataInv, DataType
    <3>2. \A u \in Threads : Holds(u)' => Holds(u) /\ th'[u].text = th[u].text
      <4>1. CASE Stop(t)
        BY <1>1, <4>1, HeldStop
      <4>2. CASE Move(t, "compact") /\ th' = [th EXCEPT ![t] = Blank]
        BY <4>2 DEF Move, Holds, Carrying, InTurn, SlotInv, SlotType, DataInv, DataType
      <4>3. QED
        BY <2>1, <4>1, <4>2 DEF Rest
    <3>3. QED
      BY <1>1, <2>1, <3>1, <3>2, HeldSame
  <2>2. CASE Rest(t) /\ UNCHANGED queued
    BY <1>2, <1>3, <2>2 DEF Rest
  <2>3. QED
    BY <1>1, <1>4, <2>1, <2>2, HeldTake DEF EndTurn
<1>5. CASE CompactAfterTurn(t) \/ Summarize(t) \/ EndCompacting(t)
  BY <1>1, <1>2, <1>3, <1>5, HeldTake DEF CompactAfterTurn, Summarize, EndCompacting, Goto
<1>6. QED
  BY <1>4, <1>5

LEMMA HeldInvNext ==
  ASSUME TurnAssumption, SlotInv, TakenInv, DataInv, HeldInv, [Next]_vars
  PROVE  HeldInv'
<1>1. CASE UNCHANGED vars
  BY <1>1 DEF vars, sess, hist, HeldInv, Waiting, Holds
<1>2. ASSUME NEW t \in Threads, Work(t) PROVE HeldInv'
  BY <1>2, HeldClaiming, HeldRunning, HeldEnding DEF Work
<1>3. QED
  BY <1>1, <1>2, HeldClient DEF Next

-----------------------------------------------------------------------------
(***************************************************************************)
(* Texts that waited when a turn was stopped.                              *)
(***************************************************************************)
(* The turn was stopped, and its end will take it for failed.              *)
Stopped == /\ turn # None /\ th[turn].ctx # "live"
           /\ pc[turn] = "endturn" => th[turn].failed

(* Such a text waits behind the stopped turn until that drops it; only a   *)
(* latched session keeps it, and there no turn starts any more.            *)
StaleInv == \A x \in Texts : stale[x] = "yes" =>
  /\ x \notin Deliveries \cup unsent
  /\ x \in Elems(queued) => perr \/ Stopped
  /\ \A t \in Threads : Holds(t) /\ th[t].text = x => perr /\ pc[t] \notin InTurn

LEMMA StaleInvInit == ASSUME Init PROVE StaleInv
BY DEF Init, StaleInv

(* What a step owes that marks nothing. *)
LEMMA StaleSame ==
  ASSUME StaleInv, UNCHANGED stale, unsent' \subseteq unsent,
         \A x \in Texts : stale[x] = "yes" /\ x \in Elems(queued') => perr' \/ Stopped',
         \A u \in Threads : Holds(u)' /\ stale[th'[u].text] = "yes" => perr' /\ pc'[u] \notin InTurn
  PROVE  StaleInv'
BY DEF StaleInv

LEMMA StaleEnqueue ==
  ASSUME TurnAssumption, SlotInv, DataInv, StaleInv, NEW t \in Threads, NEW x \in Texts,
         pc[t] \notin InTurn, EnqueueOrStart(t, x), stale[x] = "yes" => perr,
         UNCHANGED <<turn, perr, stale>>, unsent' \subseteq unsent
  PROVE  StaleInv'
<1>1. queued \in Seq(Texts) /\ turn # t /\ th \in [Threads -> Thread]
  BY DEF SlotInv, DataInv, DataType
<1>3. \A u \in Threads \ {t} : th'[u] = th[u] /\ pc'[u] = pc[u]
  BY <1>1 DEF EnqueueOrStart, Stop, Claim, Move, SlotInv, SlotType
<1>4. Stopped' <=> Stopped
  BY <1>1, <1>3 DEF Stopped, SlotInv, SlotType
<1>5. \A u \in Threads \ {t} :
        Holds(u)' /\ stale[th'[u].text] = "yes" => perr' /\ pc'[u] \notin InTurn
  BY <1>3 DEF StaleInv, Holds, DataInv
<1>6. CASE queued' = Append(queued, x) /\ Stop(t)
  <2>1. Elems(queued') = Elems(queued) \cup {x}
    BY <1>1, <1>6, AppendFacts
  <2>2. ~Holds(t)'
    BY <1>6 DEF Stop, Move, Holds, Carrying, InTurn, SlotInv, SlotType
  <2>3. QED
    BY <1>4, <1>5, <2>1, <2>2, StaleSame DEF StaleInv
<1>7. CASE /\ ~Busy /\ queued # <<>> /\ queued' = Append(Tail(queued), x)
           /\ Claim(t, Head(queued), "front")
  <2>1. /\ Elems(queued') = Elems(Tail(queued)) \cup {x} /\ Head(queued) \in Texts
        /\ Elems(queued) = Elems(Tail(queued)) \cup {Head(queued)}
    BY <1>1, <1>7, ShiftFacts, TailFacts
  <2>2. ~Stopped
    BY <1>7 DEF Busy, Stopped
  <2>3. th'[t].text = Head(queued) /\ pc'[t] = "claim"
    BY <1>1, <1>7 DEF Claim, Move, Blank, SlotInv, SlotType
  <2>4. Holds(t)' /\ stale[th'[t].text] = "yes" => perr' /\ pc'[t] \notin InTurn
    BY <2>1, <2>2, <2>3 DEF StaleInv, InTurn
  <2>5. QED
    BY <1>4, <1>5, <2>1, <2>4, StaleSame DEF StaleInv
<1>8. CASE Claim(t, x, "again") /\ UNCHANGED queued
  <2>1. th'[t].text = x /\ pc'[t] = "claim"
    BY <1>1, <1>8 DEF Claim, Move, Blank, SlotInv, SlotType
  <2>2. Holds(t)' /\ stale[th'[t].text] = "yes" => perr' /\ pc'[t] \notin InTurn
    BY <2>1 DEF InTurn
  <2>3. QED
    BY <1>4, <1>5, <1>8, <2>2, StaleSame DEF StaleInv
<1>9. QED
  BY <1>6, <1>7, <1>8 DEF EnqueueOrStart

(* A goroutine outside the turn goes on with what it had, or with nothing, *)
(* or lets a text wait that it may.                                        *)
LEMMA StaleAside ==
  ASSUME TurnAssumption, SlotInv, DataInv, StaleInv, NEW t \in Threads,
         pc[t] \notin InTurn, pc'[t] \notin InTurn, Stop(t) \/ \E p : Goto(t, p),
         Holds(t)' => Holds(t), Elems(queued') \subseteq Elems(queued) \cup {th[t].text},
         Holds(t) \/ queued' = queued, UNCHANGED <<turn, stale, unsent>>, perr => perr'
  PROVE  StaleInv'
<1>1. turn # t /\ th \in [Threads -> Thread]
  BY DEF SlotInv, DataInv, DataType
<1>2. \A u \in Threads \ {t} : th'[u] = th[u] /\ pc'[u] = pc[u]
  BY <1>1 DEF Stop, Goto, Move, SlotInv, SlotType
<1>3. Holds(t)' => th'[t] = th[t]
  BY <1>1 DEF Stop, Goto, Move, Holds, Carrying, InTurn, SlotInv, SlotType
<1>4. Stopped' <=> Stopped
  BY <1>1, <1>2 DEF Stopped, SlotInv, SlotType
<1>5. \A u \in Threads : Holds(u)' /\ stale[th'[u].text] = "yes" => perr' /\ pc'[u] \notin InTurn
  <2>1. \A u \in Threads : Holds(u)' => Holds(u) /\ th'[u] = th[u]
    BY <1>2, <1>3 DEF Holds
  <2>2. \A u \in Threads : pc'[u] \in InTurn => pc[u] \in InTurn
    BY <1>2
  <2>3. QED
    BY <2>1, <2>2 DEF StaleInv, DataInv
<1>6. \A x \in Texts : stale[x] = "yes" /\ x \in Elems(queued') => perr' \/ Stopped'
  BY <1>4 DEF StaleInv
<1>7. QED
  BY <1>5, <1>6, StaleSame

LEMMA StaleClient ==
  ASSUME TurnAssumption, NoEdits, SlotInv, DataInv, HeldInv, StaleInv, Client
  PROVE  StaleInv'
<1>1. ASSUME NEW t \in Threads, NEW x \in Texts, Prompt(t, x) \/ SubmitOrQueue(t, x)
      PROVE  StaleInv'
  <2>1. PICK f : /\ x \in unsent /\ unsent' = unsent \ {x} /\ pc[t] = "idle"
                 /\ Claim(t, x, f) /\ UNCHANGED <<sess, stale>>
    BY <1>1 DEF Prompt, SubmitOrQueue, Send, At
  <2>2. turn # t /\ stale[x] # "yes"
    BY <2>1 DEF SlotInv, InTurn, StaleInv
  <2>3. th'[t].text = x /\ \A u \in Threads \ {t} : th'[u] = th[u] /\ pc'[u] = pc[u]
    BY <2>1 DEF Claim, Move, Blank, SlotInv, SlotType, DataInv, DataType
  <2>4. Stopped' <=> Stopped
    BY <2>1, <2>2, <2>3 DEF Stopped, SlotInv, SlotType, sess
  <2>5. \A u \in Threads : Holds(u)' /\ stale[th'[u].text] = "yes" => perr' /\ pc'[u] \notin InTurn
    BY <2>1, <2>2, <2>3 DEF Holds, StaleInv, DataInv, sess
  <2>6. QED
    BY <2>1, <2>4, <2>5, StaleSame DEF StaleInv, sess
<1>2. ASSUME NEW t \in Threads, NEW x \in Texts, Queue(t, x) PROVE StaleInv'
  BY <1>2, StaleEnqueue DEF Queue, Send, At, InTurn, StaleInv
<1>3. ASSUME NEW t \in Threads, Compact(t) PROVE StaleInv'
  BY <1>3, StaleAside DEF Compact, At, Goto, Move, InTurn, Holds, Carrying, hist, SlotInv, SlotType
<1>4. ASSUME NEW c \in {"user", "drain"}, Cancel(c) PROVE StaleInv'
  <2>1. /\ turn \in Threads /\ turn # None /\ pc[turn] \in InTurn /\ th[turn].ctx = "live"
        /\ UNCHANGED <<pc, sess, hist>>
    BY <1>4 DEF Cancel, SlotInv, SlotType
  <2>2. /\ th'[turn].ctx # "live"
        /\ \A u \in Threads : th'[u].text = th[u].text
    BY <1>4, <2>1 DEF Cancel, DataInv, DataType
  <2>3. ASSUME NEW x \in Texts, stale'[x] = "yes"
        PROVE  \/ stale[x] = "yes" /\ x \notin Elems(queued) \ Deliveries
               \/ x \in Elems(queued) \ Deliveries /\ pc[turn] # "endturn"
    BY <1>4, <2>3 DEF Cancel, At
  <2>4. ASSUME NEW x \in Texts, stale[x] = "yes", x \notin Elems(queued) \ Deliveries
        PROVE  x \notin Elems(queued)
    BY <2>4 DEF StaleInv
  <2>5. ASSUME NEW x \in Texts, x \in Elems(queued) \ Deliveries, pc[turn] # "endturn"
        PROVE  /\ x \notin Deliveries \cup unsent' /\ Stopped'
               /\ \A t \in Threads : Holds(t)' => th'[t].text # x
    BY <2>1, <2>2, <2>5 DEF HeldInv, Waiting, Stopped, Holds, sess, hist
  <2>6. ASSUME NEW x \in Texts, stale[x] = "yes"
        PROVE  /\ x \notin Deliveries \cup unsent'
               /\ \A t \in Threads : Holds(t)' /\ th'[t].text = x => perr' /\ pc'[t] \notin InTurn
    BY <2>1, <2>2, <2>6 DEF StaleInv, Holds, sess, hist
  <2>7. queued' = queued
    BY <2>1 DEF sess
  <2>8. QED
    BY <2>3, <2>4, <2>5, <2>6, <2>7 DEF StaleInv
<1>5. CASE MirrorQueue \/ SetQueue
  BY <1>5 DEF MirrorQueue, SetQueue, HeldInv
<1>6. QED
  BY <1>1, <1>2, <1>3, <1>4, <1>5 DEF Client

LEMMA StaleClaiming ==
  ASSUME TurnAssumption, SlotInv, DataInv, StaleInv, NEW t \in Threads,
         BeginTurn(t) \/ Refused(t) \/ Requeue(t) \/ ChatQueue(t)
  PROVE  StaleInv'
<1>1. Holds(t) /\ pc[t] \notin InTurn /\ th[t].text \in Texts /\ UNCHANGED <<unsent, stale>>
  BY DEF BeginTurn, Refused, Requeue, ChatQueue, At, Holds, Carrying, InTurn, DataInv, hist
<1>2. CASE BeginTurn(t)
  <2>1. ~perr /\ turn = None /\ UNCHANGED <<th, queued, perr>>
    BY <1>2 DEF BeginTurn, Busy, Goto
  <2>2. ~Stopped /\ stale[th[t].text] # "yes"
    BY <1>1, <2>1 DEF Stopped, StaleInv
  <2>3. \A u \in Threads : u # t => pc'[u] = pc[u]
    BY <1>2 DEF BeginTurn, Goto, Move, SlotInv, SlotType
  <2>4. QED
    BY <1>1, <2>1, <2>2, <2>3, StaleSame DEF StaleInv, Holds, DataInv
<1>3. CASE Refused(t)
  <2>1. pc'[t] \notin InTurn
    BY <1>3 DEF Refused, Stop, Goto, Move, InTurn, SlotInv, SlotType
  <2>2. Stop(t) \/ Goto(t, th[t].from)
    BY <1>3 DEF Refused
  <2>3. QED
    BY <1>1, <1>3, <2>1, <2>2, StaleAside DEF Refused, sess
<1>4. CASE Requeue(t)
  <2> DEFINE x == th[t].text
  <2>1. queued \in Seq(Texts) /\ Stop(t) /\ pc'[t] \notin InTurn
    BY <1>4 DEF DataInv, DataType, Requeue, Stop, Move, InTurn, SlotInv, SlotType
  <2>2. Elems(queued') = Elems(queued) \cup {x}
    <3>1. CASE queued' = <<x>> \o queued
      BY <1>1, <2>1, <3>1, ConsFacts
    <3>2. CASE queued' = Append(queued, x)
      BY <1>1, <2>1, <3>2, AppendFacts
    <3>3. QED
      BY <1>4, <3>1, <3>2 DEF Requeue
  <2>3. QED
    BY <1>1, <1>4, <2>1, <2>2, StaleAside DEF Requeue
<1>5. CASE ChatQueue(t)
  BY <1>1, <1>5, StaleEnqueue DEF ChatQueue, StaleInv
<1>6. QED
  BY <1>2, <1>3, <1>4, <1>5

LEMMA WritesLatch == ASSUME Writes, perr PROVE perr'
BY Zenon DEF Writes

LEMMA StaleRunning ==
  ASSUME TurnAssumption, SlotInv, DataInv, StaleInv, NEW t \in Threads,
         PreTurn(t) \/ RecordPrompt(t) \/ Boundary(t) \/ Inject(t) \/ Step(t) \/ Close(t) \/ Release(t)
           \/ EndCheck(t)
  PROVE  StaleInv'
<1> USE DEF At, Move, Goto, Return
<1>1. pc[t] \in InTurn /\ turn = t /\ t # None
  BY DEF PreTurn, RecordPrompt, Boundary, Inject, Step, Close, Release, EndCheck, InTurn, SlotInv,
         TurnAssumption
<1>r. PICK w \in Alike(th[t]) : th' = [th EXCEPT ![t] = w]
  BY RunningThread DEF Rewrites, DataInv, DataType
<1>2. th' \in [Threads -> Thread] /\ \A u \in Threads : th'[u].text = th[u].text
  BY <1>r DEF Alike, DataInv, DataType
<1>3. th'[t].ctx = th[t].ctx
  BY <1>r DEF Alike, DataInv, DataType
<1>4. pc'[t] = "endturn" => th'[t].failed \/ th[t].ctx = "live"
  <2>1. CASE EndCheck(t)
    <3>1. CASE th[t].ctx # "live"
      <4>1. (th[t].err # "none" \/ th[t].ctx # "live") = TRUE
        BY <3>1
      <4>2. th' = [th EXCEPT ![t].failed = TRUE]
        BY <2>1, <4>1 DEF EndCheck
      <4>3. QED
        BY <4>2 DEF DataInv, DataType, Thread
    <3>2. QED
      BY <3>1
  <2>2. CASE ~EndCheck(t)
    <3>1. pc'[t] # "endturn"
      BY <2>2 DEF PreTurn, RecordPrompt, Boundary, Inject, Step, Close, Release, SlotInv, SlotType
    <3>2. QED
      BY <3>1
  <2>3. QED
    BY <2>1, <2>2
<1>5. \A u \in Threads \ {t} : pc'[u] = pc[u]
  BY DEF PreTurn, RecordPrompt, Boundary, Inject, Step, Close, Release, EndCheck, SlotInv, SlotType
<1>6. queued' = queued \/ queued' = <<>>
  BY DEF PreTurn, RecordPrompt, Boundary, Inject, Step, Close, Release, EndCheck, sess
<1>7. UNCHANGED <<turn, stale, unsent>> /\ (perr => perr')
  <2>1. UNCHANGED <<turn, stale, unsent>>
    BY DEF PreTurn, RecordPrompt, Boundary, Inject, Step, Close, Release, EndCheck, sess, hist
  <2>2. Writes \/ perr' = perr \/ ~perr
    BY DEF PreTurn, RecordPrompt, Boundary, Inject, Step, Close, Release, EndCheck, sess
  <2>3. QED
    BY <2>1, <2>2, WritesLatch
<1>8. Elems(queued') \subseteq Elems(queued)
  BY <1>6 DEF Elems
<1>9. Stopped => Stopped'
  BY <1>1, <1>3, <1>4, <1>7 DEF Stopped
<1>10. \A u \in Threads : Holds(u)' => Holds(u) /\ (pc[u] \in InTurn \/ pc'[u] = pc[u])
  BY <1>1, <1>5 DEF Holds
<1>11. \A u \in Threads : Holds(u)' /\ stale[th'[u].text] = "yes" => perr' /\ pc'[u] \notin InTurn
  BY <1>2, <1>7, <1>10 DEF StaleInv, DataInv
<1>12. QED
  BY <1>7, <1>8, <1>9, <1>11, StaleSame DEF StaleInv

LEMMA StaleEnding ==
  ASSUME TurnAssumption, SlotInv, DataInv, StaleInv, NEW t \in Threads,
         EndTurn(t) \/ CompactAfterTurn(t) \/ Summarize(t) \/ EndCompacting(t)
  PROVE  StaleInv'
<1>1. queued \in Seq(Texts) /\ UNCHANGED <<stale, unsent>> /\ th \in [Threads -> Thread]
  BY DEF EndTurn, CompactAfterTurn, Summarize, EndCompacting, DataInv, DataType, hist
<1>2. \A u \in Threads \ {t} : th'[u] = th[u] /\ pc'[u] = pc[u]
  BY <1>1 DEF EndTurn, Rest, CompactAfterTurn, Summarize, EndCompacting, Stop, Claim, Goto, Move,
         SlotInv, SlotType
<1>3. ASSUME turn = None \/ turn = t, turn' = None, perr' = perr, queued # <<>>,
             queued' = Tail(queued), Claim(t, Head(queued), "front"),
             turn # None => ~perr /\ pc[t] = "endturn" /\ ~th[t].failed
      PROVE  StaleInv'
  <2>1. /\ Elems(queued) = Elems(queued') \cup {Head(queued)} /\ Head(queued) \in Texts
    BY <1>1, <1>3, TailFacts
  <2>2. ~Stopped
    BY <1>3 DEF Stopped
  <2>3. th'[t].text = Head(queued) /\ pc'[t] = "claim"
    BY <1>1, <1>3 DEF Claim, Move, Blank, SlotInv, SlotType
  <2>4. \A u \in Threads : Holds(u)' /\ stale[th'[u].text] = "yes" => perr' /\ pc'[u] \notin InTurn
    BY <1>2, <1>3, <2>1, <2>2, <2>3 DEF StaleInv, InTurn, Holds, DataInv
  <2>5. QED
    BY <1>1, <1>3, <2>1, <2>2, <2>4, StaleSame DEF StaleInv
<1>4. CASE EndTurn(t)
  <2>1. turn = t /\ turn' = None /\ perr' = perr /\ pc[t] = "endturn"
    BY <1>4 DEF EndTurn, At, SlotInv, InTurn
  <2>2. ASSUME pc'[t] \in {"idle", "compact"},
               \A x \in Texts : stale[x] = "yes" /\ x \in Elems(queued') => perr
        PROVE  StaleInv'
    <3>1. \A u \in Threads : Holds(u)' => u # t
      BY <2>2 DEF Holds, Carrying, InTurn
    <3>2. QED
      BY <1>1, <1>2, <2>1, <2>2, <3>1, StaleSame DEF StaleInv, Holds, DataInv
  <2>r. Rest(t) => pc'[t] \in {"idle", "compact"}
    BY DEF Rest, Stop, Move, SlotInv, SlotType
  <2>3. CASE perr /\ Rest(t)
    BY <2>1, <2>2, <2>3, <2>r
  <2>4. CASE ~perr /\ Rest(t) /\ queued' = Kept
    <3>1. Elems(Kept) \subseteq Deliveries
      BY <1>1, KeptFacts
    <3>2. QED
      BY <2>2, <2>4, <2>r, <3>1 DEF StaleInv
  <2>5. CASE queued = <<>> /\ queued' = queued /\ Rest(t)
    BY <2>2, <2>5, <2>r DEF Elems
  <2>6. CASE /\ ~perr /\ ~th[t].failed /\ queued # <<>> /\ queued' = Tail(queued)
             /\ Claim(t, Head(queued), "front")
    BY <1>3, <2>1, <2>6
  <2>7. QED
    BY <1>4, <2>3, <2>4, <2>5, <2>6 DEF EndTurn
<1>5. ASSUME Stop(t) \/ \E p : Goto(t, p), pc[t] \notin Carrying \cup InTurn,
             pc'[t] \notin Carrying \cup InTurn, queued' = queued, turn' = turn, perr => perr'
      PROVE  StaleInv'
  BY <1>1, <1>5, StaleAside DEF Holds
<1>6. CASE CompactAfterTurn(t) \/ Summarize(t)
  <2>1. /\ pc[t] \in {"compact", "compacting", "summarizing"}
        /\ pc'[t] \in {"idle", "compacting", "summarizing", "endcompact"}
        /\ Stop(t) \/ \E p : Goto(t, p)
        /\ UNCHANGED <<queued, turn>> /\ (perr => perr')
    BY <1>6 DEF CompactAfterTurn, Summarize, At, Stop, Goto, Move, Writes, SlotInv, SlotType
  <2>2. QED
    BY <1>5, <2>1 DEF Carrying, InTurn
<1>7. CASE EndCompacting(t)
  <2>1. turn = None /\ turn' = turn /\ perr' = perr /\ pc[t] = "endcompact"
    BY <1>7 DEF EndCompacting, At, SlotInv, InCompaction
  <2>2. CASE queued = <<>> /\ Stop(t) /\ UNCHANGED queued
    BY <1>5, <2>1, <2>2 DEF Stop, Move, Carrying, InTurn, SlotInv, SlotType
  <2>3. CASE queued # <<>> /\ queued' = Tail(queued) /\ Claim(t, Head(queued), "front")
    BY <1>3, <2>1, <2>3
  <2>4. QED
    BY <1>7, <2>2, <2>3 DEF EndCompacting
<1>8. QED
  BY <1>4, <1>6, <1>7

LEMMA StaleInvNext ==
  ASSUME TurnAssumption, NoEdits, SlotInv, DataInv, HeldInv, StaleInv, [Next]_vars
  PROVE  StaleInv'
<1>1. CASE UNCHANGED vars
  BY <1>1 DEF vars, sess, hist, StaleInv, Stopped, Holds
<1>2. ASSUME NEW t \in Threads, Work(t) PROVE StaleInv'
  BY <1>2, StaleClaiming, StaleRunning, StaleEnding DEF Work
<1>3. QED
  BY <1>1, <1>2, StaleClient DEF Next

(* A text that was waiting when its turn was stopped never starts a turn   *)
(* afterwards, unless a client edits the queue: an edit may put a dropped  *)
(* text back.                                                              *)
THEOREM StaleNeverStarts == ASSUME NoEdits PROVE Spec => []NoStaleStart
<1>1. Init => HeldInv /\ StaleInv
  BY TurnAssumption, NoEdits, HeldInvInit, StaleInvInit
<1>2. SlotInv /\ TakenInv /\ DataInv /\ HeldInv /\ StaleInv /\ [Next]_vars => (HeldInv /\ StaleInv)'
  BY TurnAssumption, NoEdits, HeldInvNext, StaleInvNext
<1>3. DataInv /\ StaleInv => NoStaleStart
  BY DEF StaleInv, NoStaleStart, DataInv, Holds
<1>4. QED
  BY <1>1, <1>2, <1>3, TurnInvAlways, PTL DEF Spec

-----------------------------------------------------------------------------
(***************************************************************************)
(* The fate of each text: SessionTurns implements PromptFate, while no     *)
(* client edits the queue and no request is sent again for its size (which *)
(* records its prompt a second time).                                      *)
(***************************************************************************)
NoRetries == "oversize" \notin Faults

(* A text is in one place only; this much PromptFate keeps by itself.      *)
FateInv ==
  /\ Pending \subseteq Texts /\ Pending \cap (unsent \cup Elems(log)) = {}
  /\ Distinct(log) /\ Elems(log) \cap unsent = {}
  /\ \A x \in Texts : gone[x] # "no" => x \notin unsent \cup Pending \cup Elems(log)

(* A message that is alone is the last of the transcript.                  *)
AloneInv ==
  \A t \in Threads : /\ ~th[t].again
                     /\ pc[t] \in InAgent /\ th[t].alone =>
                          log # <<>> /\ log[Len(log)] = th[t].text

LEMMA FateInvKept ==
  ASSUME DataInv, log' \in Seq(Texts), FateInv, [Fate!Next]_(Fate!vars)
  PROVE  FateInv'
<1> USE DEF FateInv, DataInv, DataType
<1>1. CASE UNCHANGED Fate!vars
  BY <1>1 DEF Fate!vars
<1>2. ASSUME NEW x \in Texts, Fate!Send(x) PROVE FateInv'
  BY <1>2 DEF Fate!Send
<1>3. ASSUME NEW x \in Texts, Fate!Record(x) PROVE FateInv'
  <2>1. Elems(log') = Elems(log) \cup {x}
    BY <1>3, AppendFacts DEF Fate!Record
  <2>2. x \notin Elems(log)
    BY <1>3 DEF Fate!Record
  <2>3. Distinct(log')
    BY <1>3, <2>2, AppendFacts DEF Fate!Record
  <2>4. QED
    BY <1>3, <2>1, <2>3 DEF Fate!Record
<1>4. ASSUME NEW S \in SUBSET Texts, Fate!Settle(S) PROVE FateInv'
  BY <1>4 DEF Fate!Settle
<1>5. CASE Fate!Withdraw
  <2>1. /\ Elems(log) = Elems(log') \cup {log[Len(log)]} /\ log[Len(log)] \in Texts
        /\ Distinct(log') /\ log[Len(log)] \notin Elems(log')
    BY <1>5, FrontFacts DEF Fate!Withdraw
  <2>2. QED
    BY <1>5, <2>1 DEF Fate!Withdraw
<1>6. QED
  BY <1>1, <1>2, <1>3, <1>4, <1>5 DEF Fate!Next

(* A step of one goroutine leaves the others as they are.                  *)
Only(t) == \A u \in Threads \ {t} : pc'[u] = pc[u] /\ th'[u] = th[u]

LEMMA AloneMove ==
  ASSUME AloneInv, NEW t \in Threads, Only(t), UNCHANGED log, ~th'[t].again,
         \/ pc'[t] \notin InAgent
         \/ pc[t] \in InAgent /\ th'[t].text = th[t].text /\ (th'[t].alone => th[t].alone)
  PROVE  AloneInv'
BY DEF AloneInv, Only

LEMMA OnlyMove ==
  ASSUME SlotInv, DataInv, NEW t \in Threads, NEW p, NEW w,
         Move(t, p), th' = [th EXCEPT ![t] = w]
  PROVE  Only(t) /\ pc'[t] = p /\ th'[t] = w
BY DEF Move, Only, SlotInv, SlotType, DataInv, DataType

LEMMA OnlyFacts ==
  ASSUME SlotInv, DataInv, NEW t \in Threads
  PROVE  /\ Stop(t) => Only(t) /\ pc'[t] = "idle" /\ ~th'[t].again
         /\ \A p : Goto(t, p) => Only(t) /\ pc'[t] = p /\ th'[t] = th[t]
         /\ \A x, f : Claim(t, x, f) =>
              Only(t) /\ pc'[t] = "claim" /\ ~th'[t].again /\ th'[t].text = x
<1>1. Stop(t) => Only(t) /\ pc'[t] = "idle" /\ ~th'[t].again
  <2>1. ASSUME Stop(t) PROVE Only(t) /\ pc'[t] = "idle" /\ th'[t] = Blank
    BY <2>1, OnlyMove DEF Stop
  <2>2. QED
    BY <2>1 DEF Blank
<1>2. ASSUME NEW p, Goto(t, p) PROVE Only(t) /\ pc'[t] = p /\ th'[t] = th[t]
  BY <1>2 DEF Goto, Move, Only, SlotInv, SlotType
<1>3. ASSUME NEW x, NEW f, Claim(t, x, f)
      PROVE  Only(t) /\ pc'[t] = "claim" /\ ~th'[t].again /\ th'[t].text = x
  <2>1. Only(t) /\ pc'[t] = "claim" /\ th'[t] = [Blank EXCEPT !.text = x, !.from = f]
    BY <1>3, OnlyMove DEF Claim
  <2>2. QED
    BY <2>1 DEF Blank
<1>4. QED
  BY <1>1, <1>2, <1>3

LEMMA AloneClient ==
  ASSUME SlotInv, DataInv, AloneInv, Client
  PROVE  AloneInv'
<1> USE DEF sess, hist
<1>1. ASSUME NEW t \in Threads, NEW x \in Texts,
             Prompt(t, x) \/ SubmitOrQueue(t, x) \/ Queue(t, x)
      PROVE  AloneInv'
  <2>1. UNCHANGED log /\ (Stop(t) \/ \E y, f : Claim(t, y, f))
    BY <1>1 DEF Prompt, SubmitOrQueue, Queue, EnqueueOrStart
  <2>2. QED
    BY <2>1, OnlyFacts, AloneMove DEF InAgent
<1>2. ASSUME NEW t \in Threads, Compact(t) PROVE AloneInv'
  <2>1. UNCHANGED log /\ Goto(t, "compacting")
    BY <1>2 DEF Compact
  <2>2. QED
    BY <2>1, OnlyFacts, AloneMove DEF InAgent, AloneInv
<1>3. ASSUME NEW cause, Cancel(cause) PROVE AloneInv'
  <2>1. UNCHANGED <<log, pc>>
    BY <1>3 DEF Cancel
  <2>2. \A t \in Threads : /\ th'[t].alone = th[t].alone /\ th'[t].again = th[t].again
                           /\ th'[t].text = th[t].text
    BY <1>3 DEF Cancel, DataInv, DataType, Thread
  <2>3. QED
    BY <2>1, <2>2 DEF AloneInv
<1>4. CASE MirrorQueue \/ SetQueue
  BY <1>4 DEF MirrorQueue, SetQueue, AloneInv
<1>5. QED
  BY <1>1, <1>2, <1>3, <1>4 DEF Client

LEMMA AloneWork ==
  ASSUME NoRetries, TurnAssumption, SlotInv, DataInv, AloneInv, NEW t \in Threads, Work(t)
  PROVE  AloneInv'
<1> USE DEF sess, hist
<1>0. ~th[t].again
  BY DEF AloneInv
<1>a. ASSUME UNCHANGED log, (Stop(t) \/ \E y, f : Claim(t, y, f)) PROVE AloneInv'
  BY <1>a, OnlyFacts, AloneMove DEF InAgent
<1>b. ASSUME UNCHANGED log, NEW p, Goto(t, p), p \notin InAgent \/ pc[t] \in InAgent
      PROVE  AloneInv'
  BY <1>0, <1>b, OnlyFacts, AloneMove
<1>c. ASSUME UNCHANGED log, NEW p, NEW w, Move(t, p), th' = [th EXCEPT ![t] = w],
             ~w.again,
             \/ p \notin InAgent
             \/ pc[t] \in InAgent /\ w.text = th[t].text /\ (w.alone => th[t].alone)
      PROVE  AloneInv'
  <2>1. Only(t) /\ pc'[t] = p /\ th'[t] = w
    BY <1>c, OnlyMove
  <2>2. QED
    BY <1>c, <2>1, AloneMove
<1>d. th[t] \in Thread
  BY DEF DataInv, DataType
<1>1. CASE BeginTurn(t) \/ Refused(t) \/ Requeue(t) \/ ChatQueue(t)
  BY <1>1, <1>a, <1>b DEF BeginTurn, Refused, Requeue, ChatQueue, EnqueueOrStart, InAgent, Carrying
<1>2. CASE PreTurn(t)
  <2>1. UNCHANGED log
    BY <1>2 DEF PreTurn
  <2>2. \/ Goto(t, "record")
        \/ Move(t, "endcheck") /\ th' = [th EXCEPT ![t].err = "cancelled"]
    BY <1>2 DEF PreTurn
  <2>3. CASE Move(t, "endcheck") /\ th' = [th EXCEPT ![t].err = "cancelled"]
    <3>1. ~[th[t] EXCEPT !.err = "cancelled"].again
      BY <1>0, <1>d DEF Thread
    <3>2. QED
      BY <1>c, <2>1, <2>3, <3>1 DEF InAgent
  <2>4. QED
    BY <1>b, <2>1, <2>2, <2>3 DEF InAgent
<1>3. CASE RecordPrompt(t)
  <2>1. CASE /\ Move(t, "endcheck") /\ th' = [th EXCEPT ![t].err = "storage"]
             /\ UNCHANGED log
    <3>1. ~[th[t] EXCEPT !.err = "storage"].again
      BY <1>0, <1>d DEF Thread
    <3>2. QED
      BY <1>c, <2>1, <3>1 DEF InAgent
  <2>2. CASE Goto(t, "endcheck") /\ UNCHANGED log
    BY <1>b, <2>2 DEF InAgent
  <2>3. CASE /\ log' = Append(log, th[t].text) /\ Move(t, "boundary")
             /\ th' = [th EXCEPT ![t].alone = TRUE, ![t].steps = 0]
    <3>1. pc[t] = "record"
      BY <1>3 DEF RecordPrompt, At
    <3>2. \A u \in Threads \ {t} : pc'[u] = pc[u] /\ th'[u] = th[u] /\ pc[u] \notin InAgent
      BY <2>3, <3>1 DEF Move, SlotInv, SlotType, DataInv, DataType, InTurn, InAgent
    <3>3. ~th'[t].again /\ th'[t].text = th[t].text
      BY <1>0, <1>d, <2>3 DEF DataInv, DataType, Thread
    <3>4. th[t].text \in Texts /\ log \in Seq(Texts)
      BY <3>1 DEF DataInv, DataType, Holds, InTurn
    <3>5. log' # <<>> /\ log'[Len(log')] = th[t].text
      BY <2>3, <3>4
    <3>6. QED
      BY <3>2, <3>3, <3>5 DEF AloneInv
  <2>4. QED
    BY <1>3, <2>1, <2>2, <2>3 DEF RecordPrompt
<1>4. CASE Boundary(t)
  <2>0. pc[t] \in InAgent /\ UNCHANGED log
    BY <1>4 DEF Boundary, At, InAgent
  <2>1. CASE Return(t, "failed") \/ Return(t, "storage")
    BY <1>0, <1>c, <1>d, <2>0, <2>1 DEF Return, InAgent, Thread
  <2>2. CASE /\ Move(t, IF queued = <<>> THEN "step" ELSE "inject")
             /\ th' = [th EXCEPT ![t].steps = @ + 1]
    <3>1. /\ ~[th[t] EXCEPT !.steps = @ + 1].again
          /\ [th[t] EXCEPT !.steps = @ + 1].text = th[t].text
          /\ [th[t] EXCEPT !.steps = @ + 1].alone => th[t].alone
      BY <1>0, <1>d DEF Thread
    <3>2. QED
      BY <1>c, <2>0, <2>2, <3>1
  <2>3. QED
    BY <1>4, <2>1, <2>2 DEF Boundary
<1>i. CASE Inject(t)
  <2>1. pc[t] = "inject" /\ pc[t] \in InAgent /\ \E p : Move(t, p)
    BY <1>i DEF Inject, At, InAgent
  <2>2. CASE UNCHANGED <<th, log>>
    BY <1>b, <2>1, <2>2 DEF Goto
  <2>3. CASE th' = [th EXCEPT ![t].alone = FALSE]
    <3>1. \A u \in Threads \ {t} : pc'[u] = pc[u] /\ th'[u] = th[u] /\ pc[u] \notin InAgent
      BY <2>1, <2>3 DEF Move, SlotInv, SlotType, DataInv, DataType, InTurn, InAgent
    <3>2. ~th'[t].again /\ ~th'[t].alone
      BY <1>0, <1>d, <2>3 DEF DataInv, DataType, Thread
    <3>3. QED
      BY <3>1, <3>2 DEF AloneInv
  <2>4. QED
    BY <1>i, <2>2, <2>3 DEF Inject
<1>5. CASE Step(t)
  <2>1. pc[t] \in InAgent /\ UNCHANGED log
    BY <1>5 DEF Step, At, InAgent
  <2>2. PICK p, w : /\ Move(t, p) /\ th' = [th EXCEPT ![t] = w]
                    /\ w.again = th[t].again /\ w.text = th[t].text /\ (w.alone => th[t].alone)
    <3>1. ASSUME NEW e, Return(t, e)
          PROVE  \E p, w : /\ Move(t, p) /\ th' = [th EXCEPT ![t] = w]
                    /\ w.again = th[t].again /\ w.text = th[t].text /\ (w.alone => th[t].alone)
      <4>1. WITNESS "release", [th[t] EXCEPT !.err = e]
      <4>2. Move(t, "release") /\ th' = [th EXCEPT ![t] = [th[t] EXCEPT !.err = e]]
        BY <3>1 DEF Return
      <4>3. QED
        BY <1>d, <4>2 DEF Thread
    <3>2. ASSUME NEW p, Move(t, p), th' = [th EXCEPT ![t].alone = FALSE]
          PROVE  \E q, w : /\ Move(t, q) /\ th' = [th EXCEPT ![t] = w]
                    /\ w.again = th[t].again /\ w.text = th[t].text /\ (w.alone => th[t].alone)
      <4>1. WITNESS p, [th[t] EXCEPT !.alone = FALSE]
      <4>2. QED
        BY <1>d, <3>2 DEF Thread
    <3>3. ASSUME Move(t, "release"), NEW e, NEW b \in BOOLEAN,
                 th' = [th EXCEPT ![t].alone = @ /\ b, ![t].err = e]
          PROVE  \E q, w : /\ Move(t, q) /\ th' = [th EXCEPT ![t] = w]
                    /\ w.again = th[t].again /\ w.text = th[t].text /\ (w.alone => th[t].alone)
      <4>1. WITNESS "release", [th[t] EXCEPT !.alone = @ /\ b, !.err = e]
      <4>2. th' = [th EXCEPT ![t] = [th[t] EXCEPT !.alone = @ /\ b, !.err = e]]
        BY <3>3
      <4>3. /\ [th[t] EXCEPT !.alone = @ /\ b, !.err = e].again = th[t].again
            /\ [th[t] EXCEPT !.alone = @ /\ b, !.err = e].text = th[t].text
        BY <1>d DEF Thread
      <4>4. [th[t] EXCEPT !.alone = @ /\ b, !.err = e].alone => th[t].alone
        BY <1>d DEF Thread
      <4>5. QED
        BY <3>3, <4>2, <4>3, <4>4
    <3>4. QED
      BY <1>5, <3>1, <3>2, <3>3 DEF Step, NoRetries
  <2>3. QED
    BY <1>0, <1>c, <2>1, <2>2
<1>6. CASE Close(t)
  BY <1>0, <1>6, <1>b, <1>c, <1>d DEF Close, Return, At, InAgent, Thread
<1>7. CASE Release(t)
  <2>1. pc[t] \in InAgent /\ Goto(t, "endcheck")
    BY <1>7 DEF Release, At, InAgent
  <2>2. \A u \in Threads \ {t} : pc'[u] = pc[u] /\ pc[u] \notin InAgent
    BY <2>1 DEF Goto, Move, SlotInv, SlotType, InTurn, InAgent
  <2>3. QED
    BY <2>1, <2>2 DEF AloneInv, Goto, Move, InAgent, SlotInv, SlotType
<1>8. CASE EndCheck(t)
  <2>1. PICK b : /\ Move(t, "endturn") /\ th' = [th EXCEPT ![t].failed = b]
                 /\ UNCHANGED log
    BY <1>8 DEF EndCheck
  <2>2. ~[th[t] EXCEPT !.failed = b].again
    BY <1>0, <1>d DEF Thread
  <2>3. QED
    BY <1>c, <2>1, <2>2 DEF InAgent
<1>9. CASE EndTurn(t)
  <2>1. UNCHANGED log
    BY <1>9 DEF EndTurn
  <2>2. \/ Stop(t) \/ \E y, f : Claim(t, y, f)
        \/ Move(t, "compact") /\ th' = [th EXCEPT ![t] = Blank]
    BY <1>9 DEF EndTurn, Rest
  <2>3. QED
    <3>1. CASE Move(t, "compact") /\ th' = [th EXCEPT ![t] = Blank]
      <4>1. ~Blank.again
        BY DEF Blank
      <4>2. QED
        BY <1>c, <2>1, <3>1, <4>1 DEF InAgent
    <3>2. QED
      BY <1>a, <2>1, <2>2, <3>1
<1>10. CASE CompactAfterTurn(t) \/ Summarize(t) \/ EndCompacting(t)
  BY <1>10, <1>a, <1>b DEF CompactAfterTurn, Summarize, EndCompacting, InAgent
<1>11. QED
  BY <1>1, <1>2, <1>3, <1>4, <1>i, <1>5, <1>6, <1>7, <1>8, <1>9, <1>10 DEF Work

LEMMA AloneInvNext ==
  ASSUME NoRetries, TurnAssumption, SlotInv, DataInv, AloneInv, [Next]_vars
  PROVE  AloneInv'
<1>1. CASE UNCHANGED vars
  BY <1>1 DEF vars, sess, hist, AloneInv
<1>2. QED
  BY <1>1, AloneClient, AloneWork DEF Next

(* What waits, as one goroutine sees it: the queue, its own text, what a   *)
(* boundary took, and the texts of the others.                             *)
Own(t) == IF pc[t] \in Carrying THEN {th[t].text} ELSE {}
Carried(t) == {th[u].text : u \in {v \in Threads \ {t} : pc[v] \in Carrying}}
Others(t) == Elems(taken) \cup Carried(t)
Mine(t) == Elems(queued) \cup Own(t)

LEMMA PendingSplit ==
  ASSUME AloneInv, NEW t \in Threads
  PROVE  Pending = Mine(t) \cup Others(t)
BY DEF AloneInv, Pending, Mine, Own, Others, Carried

LEMMA CarriedSame == ASSUME NEW t \in Threads, Only(t) PROVE Carried(t)' = Carried(t)
BY DEF Only, Carried

LEMMA PendingStep ==
  ASSUME AloneInv, AloneInv', NEW t \in Threads, Only(t)
  PROVE  /\ Pending = Mine(t) \cup Others(t)
         /\ Pending' = Mine(t)' \cup Elems(taken') \cup Carried(t)
         /\ UNCHANGED taken => Pending' = Mine(t)' \cup Others(t)
<1>1. Pending' = Mine(t)' \cup Others(t)'
  BY DEF AloneInv, Pending, Mine, Own, Others, Carried
<1>2. Others(t)' = Elems(taken') \cup Carried(t)'
  BY DEF Others, Elems
<1>3. Pending' = Mine(t)' \cup Elems(taken') \cup Carried(t)
  BY <1>1, <1>2, CarriedSame
<1>4. QED
  BY <1>3, PendingSplit DEF Others

LEMMA OthersApart ==
  ASSUME HeldInv, NEW t \in Threads
  PROVE  Others(t) \cap Mine(t) = {} /\ Others(t) \cap unsent = {}
BY DEF HeldInv, Waiting, Others, Carried, Mine, Own, Holds

(* The three ways a step of SessionTurns is a step of PromptFate, and the   *)
(* steps that are none.                                                    *)
LEMMA FateStutter ==
  ASSUME AloneInv, AloneInv', NEW t \in Threads, Only(t), Mine(t)' = Mine(t),
         UNCHANGED taken, UNCHANGED hist
  PROVE  UNCHANGED Fate!vars
BY PendingStep DEF Fate!vars, hist

LEMMA FateSend ==
  ASSUME AloneInv, AloneInv', NEW t \in Threads, Only(t), NEW x \in unsent,
         Mine(t)' = Mine(t) \cup {x}, unsent' = unsent \ {x}, UNCHANGED <<log, gone, taken>>
  PROVE  Fate!Send(x)
BY PendingStep DEF Fate!Send

LEMMA FateSettle ==
  ASSUME AloneInv, AloneInv', HeldInv, NEW t \in Threads, Only(t),
         NEW S \in SUBSET Mine(t), S # {}, Mine(t)' = Mine(t) \ S,
         NEW e \in Fates \ {"no", "withdrawn"}, e = "dropped" => S \cap Deliveries = {},
         Leave(S, e), UNCHANGED <<unsent, log, taken>>
  PROVE  Fate!Settle(S)
<1>1. S \subseteq Pending /\ Pending' = Pending \ S
  BY PendingStep, OthersApart
<1>2. QED
  BY <1>1 DEF Fate!Settle, Leave

(* A text that joins the queue, or starts the turn in its place. *)
LEMMA FateEnqueue ==
  ASSUME SlotInv, DataInv, NEW t \in Threads, NEW x \in Texts, EnqueueOrStart(t, x)
  PROVE  Only(t) /\ Mine(t)' = Elems(queued) \cup {x}
<1>0. queued \in Seq(Texts)
  BY DEF DataInv, DataType
<1>1. CASE queued' = Append(queued, x) /\ Stop(t)
  <2>1. Elems(queued)' = Elems(queued) \cup {x}
    BY <1>0, <1>1, AppendFacts DEF Elems
  <2>2. Only(t) /\ pc'[t] = "idle"
    BY <1>1, OnlyFacts
  <2>3. QED
    BY <2>1, <2>2 DEF Mine, Own, Carrying
<1>2. CASE /\ queued # <<>> /\ queued' = Append(Tail(queued), x)
           /\ Claim(t, Head(queued), "front")
  <2>1. Elems(queued') = Elems(Tail(queued)) \cup {x}
    BY <1>0, <1>2, ShiftFacts
  <2>2. Elems(queued) = Elems(Tail(queued)) \cup {Head(queued)}
    BY <1>0, <1>2, TailFacts
  <2>3. Only(t) /\ pc'[t] = "claim" /\ th'[t].text = Head(queued)
    BY <1>2, OnlyFacts
  <2>4. Own(t)' = {Head(queued)}
    BY <2>3 DEF Own, Carrying
  <2>5. Mine(t)' = Elems(queued') \cup Own(t)'
    BY DEF Mine, Elems
  <2>6. QED
    BY <2>1, <2>2, <2>3, <2>4, <2>5
<1>3. CASE queued = <<>> /\ Claim(t, x, "again") /\ UNCHANGED queued
  <2>1. Only(t) /\ pc'[t] = "claim" /\ th'[t].text = x
    BY <1>3, OnlyFacts
  <2>2. QED
    BY <1>3, <2>1 DEF Mine, Own, Carrying, Elems
<1>4. QED
  BY <1>1, <1>2, <1>3 DEF EnqueueOrStart

LEMMA FateClient ==
  ASSUME TurnAssumption, SlotInv, DataInv, HeldInv, AloneInv, AloneInv', Client
  PROVE  [Fate!Next]_(Fate!vars)
<1> USE DEF sess, hist
<1>1. ASSUME NEW t \in Threads, NEW x \in Texts, Prompt(t, x) \/ SubmitOrQueue(t, x)
      PROVE  Fate!Send(x)
  <2>1. /\ pc[t] = "idle" /\ x \in unsent /\ unsent' = unsent \ {x}
        /\ UNCHANGED <<queued, log, gone, taken>>
    BY <1>1 DEF Prompt, SubmitOrQueue, Send, At
  <2>2. Only(t) /\ pc'[t] \in Carrying /\ th'[t].text = x
    <3>1. PICK p, f : Move(t, p) /\ p \in Carrying
             /\ th' = [th EXCEPT ![t] = [Blank EXCEPT !.text = x, !.from = f]]
      BY <1>1 DEF Prompt, SubmitOrQueue, Claim, Carrying
    <3>2. Only(t) /\ pc'[t] = p /\ th'[t] = [Blank EXCEPT !.text = x, !.from = f]
      BY <3>1, OnlyMove
    <3>3. [Blank EXCEPT !.text = x, !.from = f].text = x
      BY DEF Blank
    <3>4. QED
      BY <3>1, <3>2, <3>3
  <2>3. Mine(t)' = Mine(t) \cup {x}
    BY <2>1, <2>2 DEF Mine, Own, Carrying
  <2>4. QED
    BY <2>1, <2>2, <2>3, FateSend
<1>2. ASSUME NEW t \in Threads, NEW x \in Texts, Queue(t, x) PROVE Fate!Send(x)
  <2>1. /\ pc[t] = "idle" /\ x \in unsent /\ unsent' = unsent \ {x}
        /\ UNCHANGED <<log, gone, taken>> /\ EnqueueOrStart(t, x) /\ queued \in Seq(Texts)
    BY <1>2 DEF Queue, Send, At, DataInv, DataType
  <2>2. Only(t) /\ Mine(t)' = Mine(t) \cup {x}
    BY <2>1, FateEnqueue DEF Mine, Own, Carrying
  <2>3. QED
    BY <2>1, <2>2, FateSend
<1>3. ASSUME NEW t \in Threads, Compact(t) PROVE UNCHANGED Fate!vars
  <2>1. pc[t] = "idle" /\ Goto(t, "compacting") /\ UNCHANGED <<queued, taken>> /\ UNCHANGED hist
    BY <1>3 DEF Compact, At
  <2>2. Only(t) /\ pc'[t] = "compacting"
    BY <2>1, OnlyFacts
  <2>3. Mine(t)' = Mine(t)
    BY <2>1, <2>2 DEF Mine, Own, Carrying
  <2>4. QED
    BY <2>1, <2>2, <2>3, FateStutter
<1>4. ASSUME NEW cause, Cancel(cause) PROVE UNCHANGED Fate!vars
  <2>1. UNCHANGED <<pc, queued, taken>> /\ UNCHANGED hist
    BY <1>4 DEF Cancel
  <2>2. \A t \in Threads : th'[t].again = th[t].again /\ th'[t].text = th[t].text
    BY <1>4 DEF Cancel, DataInv, DataType, Thread
  <2>3. QED
    BY <2>1, <2>2 DEF Fate!vars, Pending
<1>5. ~MirrorQueue /\ ~SetQueue
  BY DEF MirrorQueue, SetQueue, HeldInv
<1>6. QED
  BY <1>1, <1>2, <1>3, <1>4, <1>5 DEF Client, Fate!Next

(* Steps that touch neither the queue nor a text. *)
LEMMA FateAside ==
  ASSUME SlotInv, DataInv, AloneInv, AloneInv', NEW t \in Threads,
         UNCHANGED <<queued, taken>>, UNCHANGED hist,
         NEW p, NEW w, Move(t, p), th' = [th EXCEPT ![t] = w],
         pc[t] \in Carrying <=> p \in Carrying, w.text = th[t].text \/ pc[t] \notin Carrying
  PROVE  UNCHANGED Fate!vars
<1>1. Only(t) /\ pc'[t] = p /\ th'[t] = w
  BY OnlyMove
<1>2. Mine(t)' = Mine(t)
  BY <1>1 DEF Mine, Own, Elems
<1>3. QED
  BY <1>1, <1>2, FateStutter

LEMMA FateGoto ==
  ASSUME SlotInv, DataInv, AloneInv, AloneInv', NEW t \in Threads,
         UNCHANGED <<queued, taken>>, UNCHANGED hist, NEW p, Goto(t, p),
         pc[t] \in Carrying <=> p \in Carrying
  PROVE  UNCHANGED Fate!vars
<1>1. Only(t) /\ pc'[t] = p /\ th'[t] = th[t]
  BY OnlyFacts
<1>2. Mine(t)' = Mine(t)
  BY <1>1 DEF Mine, Own, Elems
<1>3. QED
  BY <1>1, <1>2, FateStutter

LEMMA FateStop ==
  ASSUME SlotInv, DataInv, AloneInv, AloneInv', NEW t \in Threads,
         UNCHANGED <<queued, taken>>, UNCHANGED hist, Stop(t), pc[t] \notin Carrying
  PROVE  UNCHANGED Fate!vars
<1>1. Only(t) /\ pc'[t] = "idle"
  BY OnlyFacts
<1>2. Mine(t)' = Mine(t)
  BY <1>1 DEF Mine, Own, Elems, Carrying
<1>3. QED
  BY <1>1, <1>2, FateStutter

(* The oldest waiting text becomes a goroutine's. *)
LEMMA FateTake ==
  ASSUME SlotInv, DataInv, AloneInv, AloneInv', NEW t \in Threads, pc[t] \notin Carrying,
         queued # <<>>, queued' = Tail(queued), Claim(t, Head(queued), "front"),
         UNCHANGED taken, UNCHANGED hist
  PROVE  UNCHANGED Fate!vars
<1>1. Only(t) /\ pc'[t] = "claim" /\ th'[t].text = Head(queued)
  BY OnlyFacts
<1>2. Elems(queued) = Elems(Tail(queued)) \cup {Head(queued)}
  BY TailFacts DEF DataInv, DataType
<1>3. Own(t)' = {Head(queued)} /\ Own(t) = {}
  BY <1>1 DEF Own, Carrying
<1>4. Mine(t)' = Elems(queued') \cup Own(t)'
  BY DEF Mine, Elems
<1>5. QED
  BY <1>1, <1>2, <1>3, <1>4, FateStutter DEF Mine

(* The text a goroutine carries leaves the session. *)
LEMMA FateLeave ==
  ASSUME SlotInv, DataInv, HeldInv, AloneInv, AloneInv', NEW t \in Threads,
         pc[t] \in Carrying, Only(t), pc'[t] \notin Carrying, UNCHANGED <<queued, taken>>,
         UNCHANGED <<unsent, log>>, NEW e \in {"refused", "lost", "rejected"},
         Leave({th[t].text}, e)
  PROVE  Fate!Settle({th[t].text})
<1>1. th[t].text \in Mine(t) /\ th[t].text \notin Elems(queued)
  BY DEF Mine, Own, HeldInv, Waiting, Holds
<1>2. Mine(t)' = Mine(t) \ {th[t].text}
  BY <1>1 DEF Mine, Own, Elems
<1>3. e \in Fates \ {"no", "withdrawn"} /\ e # "dropped"
  BY DEF Fates
<1>4. QED
  BY <1>1, <1>2, <1>3, FateSettle

LEMMA FateClaiming ==
  ASSUME TurnAssumption, SlotInv, DataInv, HeldInv, AloneInv, AloneInv',
         NEW t \in Threads, BeginTurn(t) \/ Refused(t) \/ Requeue(t) \/ ChatQueue(t)
  PROVE  [Fate!Next]_(Fate!vars)
<1> USE DEF sess
<1>1. CASE BeginTurn(t)
  <2>1. Goto(t, "preturn") /\ pc[t] = "claim" /\ UNCHANGED <<queued, taken>> /\ UNCHANGED hist
    BY <1>1 DEF BeginTurn, At
  <2>2. QED
    BY <2>1, FateGoto DEF Carrying
<1>2. CASE Refused(t)
  <2>1. pc[t] = "claim" /\ UNCHANGED <<queued, taken>> /\ UNCHANGED <<unsent, log>>
    BY <1>2 DEF Refused, At
  <2>2. CASE Leave({th[t].text}, "refused") /\ Stop(t)
    <3>1. Only(t) /\ pc'[t] = "idle"
      BY <2>2, OnlyFacts
    <3>2. Fate!Settle({th[t].text})
      BY <2>1, <2>2, <3>1, FateLeave DEF Carrying
    <3>3. th[t].text \in Texts
      BY <2>1 DEF DataInv, Holds, Carrying
    <3>4. QED
      BY <3>2, <3>3 DEF Fate!Next
  <2>3. CASE th[t].from \in Carrying /\ Goto(t, th[t].from) /\ UNCHANGED gone
    <3>1. UNCHANGED hist
      BY <2>1, <2>3 DEF hist
    <3>2. QED
      BY <2>1, <2>3, <3>1, FateGoto DEF Carrying
  <2>4. QED
    BY <1>2, <2>2, <2>3 DEF Refused, Carrying
<1>3. CASE Requeue(t)
  <2>1. pc[t] \in Carrying /\ Stop(t) /\ th[t].text \in Texts /\ queued \in Seq(Texts)
        /\ UNCHANGED hist /\ UNCHANGED taken
    BY <1>3 DEF Requeue, At, Carrying, DataInv, DataType, Holds
  <2>2. Elems(queued') = Elems(queued) \cup {th[t].text}
    <3>1. CASE queued' = <<th[t].text>> \o queued
      BY <2>1, <3>1, ConsFacts
    <3>2. CASE queued' = Append(queued, th[t].text)
      BY <2>1, <3>2, AppendFacts
    <3>3. QED
      BY <1>3, <3>1, <3>2 DEF Requeue
  <2>3. Only(t) /\ pc'[t] = "idle"
    BY <2>1, OnlyFacts
  <2>4. Mine(t)' = Mine(t)
    <3>1. Mine(t)' = Elems(queued') \cup Own(t)'
      BY DEF Mine, Elems
    <3>2. Own(t)' = {} /\ Own(t) = {th[t].text}
      BY <2>1, <2>3 DEF Own, Carrying
    <3>3. QED
      BY <2>2, <3>1, <3>2 DEF Mine
  <2>5. QED
    BY <2>1, <2>3, <2>4, FateStutter
<1>4. CASE ChatQueue(t)
  <2>1. pc[t] \in Carrying /\ EnqueueOrStart(t, th[t].text) /\ th[t].text \in Texts
        /\ UNCHANGED hist /\ UNCHANGED taken
    BY <1>4 DEF ChatQueue, At, Carrying, DataInv, Holds
  <2>2. Only(t) /\ Mine(t)' = Elems(queued) \cup {th[t].text}
    BY <2>1, FateEnqueue
  <2>3. Mine(t)' = Mine(t)
    BY <2>1, <2>2 DEF Mine, Own
  <2>4. QED
    BY <2>1, <2>2, <2>3, FateStutter
<1>5. QED
  BY <1>1, <1>2, <1>3, <1>4

LEMMA FateRunning ==
  ASSUME NoRetries, TurnAssumption, SlotInv, TakenInv, DataInv, HeldInv, AloneInv, AloneInv',
         NEW t \in Threads,
         \/ PreTurn(t) \/ RecordPrompt(t) \/ Boundary(t) \/ Inject(t) \/ Step(t)
         \/ Close(t) \/ Release(t) \/ EndCheck(t)
  PROVE  [Fate!Next]_(Fate!vars)
<1> USE DEF sess
<1>0. Unrecorded(t) = {th[t].text} /\ th[t] \in Thread
  BY DEF Unrecorded, AloneInv, DataInv, DataType
<1>a. ASSUME pc[t] \in {"preturn", "record"}, UNCHANGED <<queued, taken>>, UNCHANGED <<unsent, log>>,
             NEW w, Move(t, "endcheck"), th' = [th EXCEPT ![t] = w],
             NEW e \in {"lost", "rejected"}, Leave(Unrecorded(t), e)
      PROVE  [Fate!Next]_(Fate!vars)
  <2>1. Only(t) /\ pc'[t] = "endcheck"
    BY <1>a, OnlyMove
  <2>2. Fate!Settle({th[t].text})
    BY <1>0, <1>a, <2>1, FateLeave DEF Carrying
  <2>3. th[t].text \in Texts
    BY <1>a DEF DataInv, Holds, Carrying
  <2>4. QED
    BY <2>2, <2>3 DEF Fate!Next
<1>1. CASE PreTurn(t)
  <2>1. pc[t] = "preturn" /\ UNCHANGED <<queued, taken>> /\ UNCHANGED <<unsent, log>>
    BY <1>1 DEF PreTurn, At
  <2>2. CASE Goto(t, "record") /\ UNCHANGED gone
    <3>1. UNCHANGED hist
      BY <2>1, <2>2 DEF hist
    <3>2. QED
      BY <2>1, <2>2, <3>1, FateGoto DEF Carrying
  <2>3. CASE /\ Move(t, "endcheck") /\ th' = [th EXCEPT ![t].err = "cancelled"]
             /\ Leave(Unrecorded(t), "lost")
    BY <1>a, <2>1, <2>3
  <2>4. QED
    BY <1>1, <2>2, <2>3 DEF PreTurn
<1>2. CASE RecordPrompt(t)
  <2>1. /\ pc[t] = "record" /\ UNCHANGED <<queued, taken>> /\ UNCHANGED unsent
        /\ th[t].text \in Texts /\ log \in Seq(Texts)
    BY <1>2 DEF RecordPrompt, At, DataInv, DataType, Holds, Carrying
  <2>2. CASE /\ Move(t, "endcheck") /\ th' = [th EXCEPT ![t].err = "storage"]
             /\ Leave(Unrecorded(t), "lost") /\ UNCHANGED log
    BY <1>a, <2>1, <2>2
  <2>3. CASE Goto(t, "endcheck") /\ Leave(Unrecorded(t), "rejected") /\ UNCHANGED log
    <3>1. th' = [th EXCEPT ![t] = th[t]] /\ Move(t, "endcheck")
      BY <2>3 DEF Goto, DataInv, DataType
    <3>2. QED
      BY <1>a, <2>1, <2>3, <3>1
  <2>4. CASE /\ log' = Append(log, th[t].text) /\ Move(t, "boundary") /\ UNCHANGED gone
             /\ th' = [th EXCEPT ![t].alone = TRUE, ![t].steps = 0]
    <3>1. Only(t) /\ pc'[t] = "boundary"
      <4>1. th' = [th EXCEPT ![t] = [th[t] EXCEPT !.alone = TRUE, !.steps = 0]]
        BY <2>4 DEF DataInv, DataType
      <4>2. QED
        BY <2>4, <4>1, OnlyMove
    <3>2. Own(t) = {th[t].text} /\ Own(t)' = {} /\ th[t].text \notin Elems(queued)
      BY <2>1, <3>1 DEF Own, Carrying, HeldInv, Waiting, Holds
    <3>3. Elems(queued)' = Elems(queued)
      BY <2>1 DEF Elems
    <3>4. th[t].text \in Mine(t) /\ Mine(t)' = Mine(t) \ {th[t].text}
      BY <3>2, <3>3 DEF Mine
    <3>5. th[t].text \in Pending /\ Pending' = Pending \ {th[t].text}
      BY <2>1, <3>1, <3>4, PendingStep, OthersApart
    <3>6. Fate!Record(th[t].text)
      BY <2>1, <2>4, <3>5 DEF Fate!Record
    <3>7. QED
      BY <2>1, <3>6 DEF Fate!Next
  <2>5. QED
    BY <1>2, <2>2, <2>3, <2>4 DEF RecordPrompt
<1>3. CASE Boundary(t)
  <2>1. pc[t] = "boundary" /\ UNCHANGED hist
    BY <1>3 DEF Boundary, At
  <2>2. ASSUME NEW e, Return(t, e), UNCHANGED <<queued, taken>> PROVE UNCHANGED Fate!vars
    <3>1. Move(t, "release") /\ th' = [th EXCEPT ![t] = [th[t] EXCEPT !.err = e]]
      BY <2>2 DEF Return
    <3>2. QED
      BY <2>1, <2>2, <3>1, FateAside DEF Carrying
  <2>3. CASE /\ taken' = queued /\ queued' = <<>>
             /\ Move(t, IF queued = <<>> THEN "step" ELSE "inject")
             /\ th' = [th EXCEPT ![t].steps = @ + 1]
    <3>1. Only(t) /\ pc'[t] \in {"step", "inject"}
      BY <2>3 DEF Only, Move, SlotInv, SlotType, DataInv, DataType
    <3>2. taken = <<>>
      BY <2>1 DEF TakenInv, SlotInv, InTurn
    <3>3. Mine(t) = Elems(queued) /\ Mine(t)' = {} /\ Elems(taken') = Elems(queued)
      BY <2>1, <2>3, <3>1 DEF Mine, Own, Carrying, Elems
    <3>4. Others(t) = Carried(t)
      BY <3>2 DEF Others, Elems
    <3>5. Pending' = Pending
      BY <3>1, <3>3, <3>4, PendingStep
    <3>6. QED
      BY <2>1, <3>5 DEF Fate!vars, hist
  <2>4. QED
    BY <1>3, <2>2, <2>3 DEF Boundary
<1>i. CASE Inject(t)
  <2>1. /\ pc[t] = "inject" /\ UNCHANGED <<queued, unsent>> /\ taken' = Tail(taken)
        /\ log \in Seq(Texts) /\ taken \in Seq(Texts) /\ taken # <<>>
    BY <1>i DEF Inject, At, DataInv, DataType, TakenInv
  <2> DEFINE x == Head(taken)
  <2>2. /\ x \in Texts /\ Elems(taken) = Elems(taken') \cup {x} /\ x \notin Elems(taken')
    BY <2>1, TailFacts DEF HeldInv
  <2>3. Only(t) /\ pc'[t] \in {"step", "inject"}
    BY <1>i DEF Inject, Only, Move, SlotInv, SlotType, DataInv, DataType
  <2>4. Mine(t)' = Mine(t) /\ x \notin Mine(t)
    <3>1. Own(t) = {} /\ Own(t)' = {}
      BY <2>1, <2>3 DEF Own, Carrying
    <3>2. Mine(t)' = Elems(queued') \cup Own(t)'
      BY DEF Mine, Elems
    <3>3. x \notin Elems(queued)
      BY <2>2 DEF HeldInv
    <3>4. QED
      BY <2>1, <3>1, <3>2, <3>3 DEF Mine
  <2>5. x \notin Carried(t)
    BY <2>2 DEF Carried, HeldInv, Waiting, Holds
  <2> HIDE DEF x
  <2>6. x \in Pending /\ Pending' = Pending \ {x}
    BY <2>2, <2>3, <2>4, <2>5, PendingStep DEF Others
  <2>7. CASE Leave({x}, "rejected") /\ UNCHANGED log
    <3>1. "rejected" \in Fates \ {"no", "withdrawn"}
      BY DEF Fates
    <3>2. Fate!Settle({x})
      BY <2>1, <2>6, <2>7, <3>1 DEF Fate!Settle, Leave
    <3>3. QED
      BY <2>2, <3>2 DEF Fate!Next
  <2>8. CASE log' = Append(log, x) /\ UNCHANGED gone
    BY <2>1, <2>2, <2>6, <2>8 DEF Fate!Record, Fate!Next
  <2>9. QED
    BY <1>i, <2>7, <2>8 DEF Inject, x
<1>4. CASE Step(t)
  <2>1. pc[t] = "step" /\ UNCHANGED <<queued, taken>> /\ UNCHANGED hist
    BY <1>4 DEF Step, At
  <2>2. PICK p, w : Move(t, p) /\ th' = [th EXCEPT ![t] = w] /\ p \notin Carrying
    <3>1. \/ \E e : Return(t, e)
          \/ \E q, w : Move(t, q) /\ q \notin Carrying /\ th' = [th EXCEPT ![t] = w]
      BY <1>4 DEF Step, NoRetries, Carrying
    <3>2. ASSUME NEW e, Return(t, e)
          PROVE  \E q, w : Move(t, q) /\ th' = [th EXCEPT ![t] = w] /\ q \notin Carrying
      <4>1. WITNESS "release", [th[t] EXCEPT !.err = e]
      <4>2. QED
        BY <3>2 DEF Return, Carrying
    <3>3. QED
      BY <3>1, <3>2
  <2>3. QED
    BY <2>1, <2>2, FateAside DEF Carrying
<1>5. CASE Close(t)
  <2>1. pc[t] = "close" /\ UNCHANGED <<queued, taken>> /\ UNCHANGED hist
    BY <1>5 DEF Close, At
  <2>2. ASSUME NEW e, Return(t, e) PROVE UNCHANGED Fate!vars
    <3>1. Move(t, "release") /\ th' = [th EXCEPT ![t] = [th[t] EXCEPT !.err = e]]
      BY <2>2 DEF Return
    <3>2. QED
      BY <2>1, <3>1, FateAside DEF Carrying
  <2>3. ASSUME Goto(t, "boundary") PROVE UNCHANGED Fate!vars
    BY <2>1, <2>3, FateGoto DEF Carrying
  <2>4. QED
    BY <1>5, <2>2, <2>3 DEF Close
<1>6. CASE Release(t)
  <2>1. /\ pc[t] = "release" /\ Goto(t, "endcheck") /\ UNCHANGED <<queued, taken>>
        /\ UNCHANGED unsent
    BY <1>6 DEF Release, At
  <2>2. CASE UNCHANGED <<log, gone>>
    <3>1. UNCHANGED hist
      BY <2>1, <2>2 DEF hist
    <3>2. QED
      BY <2>1, <3>1, FateGoto DEF Carrying
  <2>3. CASE /\ th[t].alone /\ log' = SubSeq(log, 1, Len(log) - 1)
             /\ Leave({th[t].text}, "withdrawn")
    <3>1. log # <<>> /\ log[Len(log)] = th[t].text
      BY <2>1, <2>3 DEF AloneInv, InAgent
    <3>2. gone' = [gone EXCEPT ![log[Len(log)]] = "withdrawn"]
      <4>1. gone \in [Texts -> Fates]
        BY DEF DataInv, DataType
      <4>2. QED
        BY <2>3, <3>1, <4>1 DEF Leave
    <3>3. Only(t) /\ pc'[t] = "endcheck"
      BY <2>1, OnlyFacts
    <3>4. Mine(t)' = Mine(t)
      BY <2>1, <3>3 DEF Mine, Own, Elems, Carrying
    <3>5. Pending' = Pending
      BY <2>1, <3>3, <3>4, PendingStep
    <3>6. Fate!Withdraw
      BY <2>1, <2>3, <3>1, <3>2, <3>5 DEF Fate!Withdraw
    <3>7. QED
      BY <3>6 DEF Fate!Next
  <2>4. QED
    BY <1>6, <2>2, <2>3 DEF Release
<1>7. CASE EndCheck(t)
  <2>1. pc[t] = "endcheck" /\ Move(t, "endturn") /\ UNCHANGED <<queued, taken>> /\ UNCHANGED hist
    BY <1>7 DEF EndCheck, At
  <2>2. \E w : th' = [th EXCEPT ![t] = w]
    BY <1>7 DEF EndCheck
  <2>3. QED
    BY <2>1, <2>2, FateAside DEF Carrying
<1>8. QED
  BY <1>1, <1>2, <1>3, <1>i, <1>4, <1>5, <1>6, <1>7

LEMMA FateEnding ==
  ASSUME TurnAssumption, SlotInv, DataInv, HeldInv, AloneInv, AloneInv', FateInv,
         NEW t \in Threads,
         EndTurn(t) \/ CompactAfterTurn(t) \/ Summarize(t) \/ EndCompacting(t)
  PROVE  [Fate!Next]_(Fate!vars)
<1> USE DEF sess
<1>1. CASE EndTurn(t)
  <2>1. /\ pc[t] = "endturn" /\ pc[t] \notin Carrying /\ UNCHANGED <<unsent, log, taken>>
        /\ queued \in Seq(Texts)
    BY <1>1 DEF EndTurn, At, Carrying, DataInv, DataType
  <2>r. ASSUME Rest(t) PROVE Only(t) /\ pc'[t] \notin Carrying
    <3>1. CASE Stop(t)
      BY <3>1, OnlyFacts DEF Carrying
    <3>2. CASE Move(t, "compact") /\ th' = [th EXCEPT ![t] = Blank]
      <4>1. Only(t) /\ pc'[t] = "compact"
        BY <3>2, OnlyMove
      <4>2. QED
        BY <4>1 DEF Carrying
    <3>3. QED
      BY <2>r, <3>1, <3>2 DEF Rest
  <2>2. CASE Rest(t) /\ UNCHANGED <<queued, gone>>
    <3>1. UNCHANGED hist
      BY <2>1, <2>2 DEF hist
    <3>2. Mine(t)' = Mine(t)
      BY <2>1, <2>2, <2>r DEF Mine, Own, Elems
    <3>3. QED
      BY <2>1, <2>2, <2>r, <3>1, <3>2, FateStutter
  <2>3. CASE /\ queued' = Kept /\ Rest(t)
             /\ Leave(Elems(queued) \ Elems(Kept), "dropped")
    <3> DEFINE S == Elems(queued) \ Elems(Kept)
    <3>1. Elems(Kept) = Elems(queued) \cap (Deliveries \ Elems(log))
      BY <2>1, KeptFacts
    <3>2. Only(t) /\ pc'[t] \notin Carrying
      BY <2>3, <2>r
    <3>3. Mine(t) = Elems(queued) /\ Mine(t)' = Elems(Kept)
      BY <2>1, <2>3, <3>2 DEF Mine, Own, Carrying, Elems
    <3>4. Mine(t)' = Mine(t) \ S
      BY <3>1, <3>3
    <3>5. S \cap Deliveries = {}
      BY <3>1 DEF FateInv, Pending
    <3>6. CASE S = {}
      <4>1. gone' = gone
        BY <2>3, <3>6 DEF Leave, DataInv, DataType
      <4>2. UNCHANGED hist /\ Mine(t)' = Mine(t)
        BY <2>1, <3>4, <3>6, <4>1 DEF hist
      <4>3. QED
        BY <2>1, <3>2, <4>2, FateStutter
    <3>7. CASE S # {}
      <4>1. Fate!Settle(S)
        BY <2>1, <2>3, <3>2, <3>3, <3>4, <3>5, <3>7, FateSettle DEF Fates
      <4>2. S \subseteq Texts
        BY <2>1 DEF Elems
      <4>3. QED
        BY <4>1, <4>2 DEF Fate!Next
    <3>8. QED
      BY <3>6, <3>7
  <2>4. CASE /\ queued # <<>> /\ queued' = Tail(queued)
             /\ Claim(t, Head(queued), "front") /\ UNCHANGED gone
    <3>1. UNCHANGED hist
      BY <2>1, <2>4 DEF hist
    <3>2. QED
      BY <2>1, <2>4, <3>1, FateTake
  <2>5. QED
    BY <1>1, <2>2, <2>3, <2>4 DEF EndTurn
<1>2. CASE CompactAfterTurn(t) \/ Summarize(t)
  <2>1. /\ pc[t] \notin Carrying /\ UNCHANGED <<queued, taken>> /\ UNCHANGED hist
        /\ Stop(t) \/ \E p : p \notin Carrying /\ Goto(t, p)
    BY <1>2 DEF CompactAfterTurn, Summarize, At, Carrying
  <2>2. QED
    BY <2>1, FateStop, FateGoto
<1>3. CASE EndCompacting(t)
  <2>1. pc[t] \notin Carrying /\ UNCHANGED taken /\ UNCHANGED hist
    BY <1>3 DEF EndCompacting, At, Carrying
  <2>2. QED
    BY <1>3, <2>1, FateStop, FateTake DEF EndCompacting
<1>4. QED
  BY <1>1, <1>2, <1>3

LEMMA FateStep ==
  ASSUME NoEdits, NoRetries, TurnAssumption, SlotInv, TakenInv, DataInv, HeldInv, AloneInv,
         FateInv, [Next]_vars
  PROVE  [Fate!Next]_(Fate!vars)
<1>1. CASE UNCHANGED vars
  BY <1>1 DEF vars, sess, hist, Fate!vars, Pending, Elems
<1>2. AloneInv'
  BY AloneInvNext
<1>3. ASSUME NEW t \in Threads, Work(t) PROVE [Fate!Next]_(Fate!vars)
  BY <1>2, <1>3, FateClaiming, FateRunning, FateEnding DEF Work
<1>4. QED
  BY <1>1, <1>2, <1>3, FateClient DEF Next

LEMMA FateInit ==
  ASSUME TurnAssumption, Init
  PROVE  Fate!Init /\ FateInv /\ AloneInv
<1>1. /\ \A t \in Threads : pc[t] = "idle" /\ ~th[t].again
      /\ queued = <<>> /\ taken = <<>> /\ log = <<>> /\ unsent = Texts /\ gone = [x \in Texts |-> "no"]
  BY DEF Init, Blank
<1>2. Pending = {} /\ Elems(log) = {} /\ Distinct(log)
  BY <1>1 DEF Pending, Elems, Carrying, Distinct
<1>3. QED
  BY <1>1, <1>2 DEF Fate!Init, FateInv, AloneInv, InAgent

(* A session that is not edited and retries nothing keeps PromptFate's     *)
(* promise: a text it took is recorded once, handed back or dropped on     *)
(* purpose; none disappears, none comes back.                              *)
THEOREM FateRefined == ASSUME NoEdits, NoRetries PROVE Spec => FateSpec
<1>1. Init => HeldInv /\ FateInv /\ AloneInv /\ Fate!Init
  BY TurnAssumption, NoEdits, HeldInvInit, FateInit
<1>2. SlotInv /\ TakenInv /\ DataInv /\ HeldInv /\ [Next]_vars => HeldInv'
  BY TurnAssumption, NoEdits, HeldInvNext
<1>3. SlotInv /\ TakenInv /\ DataInv /\ DataInv' /\ HeldInv /\ AloneInv /\ FateInv /\ [Next]_vars
        => [Fate!Next]_(Fate!vars) /\ (FateInv /\ AloneInv)'
  <2> SUFFICES ASSUME SlotInv, TakenInv, DataInv, DataInv', HeldInv, AloneInv, FateInv, [Next]_vars
               PROVE  [Fate!Next]_(Fate!vars) /\ (FateInv /\ AloneInv)'
    OBVIOUS
  <2>1. AloneInv'
    BY NoRetries, TurnAssumption, AloneInvNext
  <2>2. [Fate!Next]_(Fate!vars)
    BY NoEdits, NoRetries, TurnAssumption, FateStep
  <2>3. log' \in Seq(Texts)
    BY DEF DataInv, DataType
  <2>4. FateInv'
    BY <2>2, <2>3, FateInvKept
  <2>5. QED
    BY <2>1, <2>2, <2>4
<1>4. QED
  BY <1>1, <1>2, <1>3, TurnInvAlways, PTL DEF Spec, Fate!Spec, FateSpec
=============================================================================
