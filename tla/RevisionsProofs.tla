--------------------------- MODULE RevisionsProofs ---------------------------
(***************************************************************************)
(* For sessions of any length, any number of takes and any window: where   *)
(* the verbs that disturb each other are not both in use (Apart), what a   *)
(* client sees is what a load of the file would show it, swipes agree with *)
(* the file, an edit keeps what it replaced, and a failed write loses      *)
(* nothing that was shown.                                                 *)
(***************************************************************************)
EXTENDS Revisions, SequenceTheorems, WellFoundedInduction, TLAPS

(***************************************************************************)
(* Lists: the parts of a list, and a list with an element taken out.       *)
(***************************************************************************)
LEMMA FromFacts ==
  ASSUME NEW S, NEW s \in Seq(S), NEW p \in 1..(Len(s) + 1)
  PROVE  /\ From(s, p) \in Seq(S) /\ Len(From(s, p)) = Len(s) - p + 1
         /\ \A i \in 1..(Len(s) - p + 1) : From(s, p)[i] = s[p + i - 1]
<1>1. Len(s) \in Nat /\ p \in Int /\ Len(s) \in Int
  BY LenProperties
<1>2. \A i \in p..Len(s) : s[i] \in S
  BY <1>1, ElementOfSeq
<1>3. /\ SubSeq(s, p, Len(s)) \in Seq(S)
      /\ Len(SubSeq(s, p, Len(s))) = IF p <= Len(s) THEN Len(s) - p + 1 ELSE 0
      /\ \A i \in 1..(Len(s) - p + 1) : SubSeq(s, p, Len(s))[i] = s[p + i - 1]
  BY <1>1, <1>2, SubSeqProperties
<1>4. QED
  BY <1>1, <1>3 DEF From

LEMMA BeforeFacts ==
  ASSUME NEW S, NEW s \in Seq(S), NEW p \in 1..(Len(s) + 1)
  PROVE  /\ Before(s, p) \in Seq(S) /\ Len(Before(s, p)) = p - 1
         /\ \A i \in 1..(p - 1) : Before(s, p)[i] = s[i]
<1>1. Len(s) \in Nat /\ p - 1 \in Int /\ 1 \in Int
  BY LenProperties
<1>2. \A i \in 1..(p - 1) : s[i] \in S
  BY <1>1, ElementOfSeq
<1>3. /\ SubSeq(s, 1, p - 1) \in Seq(S)
      /\ Len(SubSeq(s, 1, p - 1)) = IF 1 <= p - 1 THEN (p - 1) - 1 + 1 ELSE 0
      /\ \A i \in 1..((p - 1) - 1 + 1) : SubSeq(s, 1, p - 1)[i] = s[1 + i - 1]
  BY <1>1, <1>2, SubSeqProperties
<1>4. QED
  BY <1>1, <1>3 DEF Before

LEMMA RemoveFacts ==
  ASSUME NEW S, NEW s \in Seq(S), NEW p \in 1..Len(s)
  PROVE  /\ RemoveAt(s, p) \in Seq(S) /\ Len(RemoveAt(s, p)) = Len(s) - 1
         /\ \A i \in 1..(Len(s) - 1) : RemoveAt(s, p)[i] = IF i < p THEN s[i] ELSE s[i + 1]
<1>1. Len(s) \in Nat /\ p \in 1..(Len(s) + 1) /\ p + 1 \in 1..(Len(s) + 1) /\ p \in Nat
  BY LenProperties
<1> DEFINE a == Before(s, p)
<1> DEFINE b == From(s, p + 1)
<1>2. /\ a \in Seq(S) /\ Len(a) = p - 1
      /\ \A i \in 1..(p - 1) : a[i] = s[i]
  BY <1>1, BeforeFacts
<1>3. /\ b \in Seq(S) /\ Len(b) = Len(s) - p
      /\ \A i \in 1..(Len(s) - p) : b[i] = s[p + i]
  <2>1. /\ b \in Seq(S) /\ Len(b) = Len(s) - (p + 1) + 1
        /\ \A i \in 1..(Len(s) - (p + 1) + 1) : b[i] = s[(p + 1) + i - 1]
    BY <1>1, FromFacts
  <2>2. QED
    BY <1>1, <2>1
<1>4. RemoveAt(s, p) = a \o b
  BY DEF RemoveAt, Before, From
<1> HIDE DEF a, b
<1>5. /\ a \o b \in Seq(S) /\ Len(a \o b) = Len(a) + Len(b)
      /\ \A i \in 1..(Len(a) + Len(b)) : (a \o b)[i] = IF i <= Len(a) THEN a[i] ELSE b[i - Len(a)]
  BY <1>2, <1>3, ConcatProperties
<1>6. Len(a) + Len(b) = Len(s) - 1
  BY <1>1, <1>2, <1>3
<1>7. ASSUME NEW i \in 1..(Len(s) - 1)
      PROVE  (a \o b)[i] = IF i < p THEN s[i] ELSE s[i + 1]
  <2>1. CASE i < p
    BY <1>1, <1>2, <1>5, <1>6, <2>1
  <2>2. CASE ~(i < p)
    <3>1. i - (p - 1) \in 1..(Len(s) - p) /\ p + (i - (p - 1)) = i + 1 /\ ~(i <= p - 1)
      BY <1>1, <2>2
    <3>2. (a \o b)[i] = b[i - (p - 1)]
      BY <1>2, <1>5, <1>6, <3>1
    <3>3. QED
      BY <1>3, <2>2, <3>1, <3>2
  <2>3. QED
    BY <2>1, <2>2
<1>8. QED
  BY <1>4, <1>5, <1>6, <1>7

(* The largest of some positions of a list. *)
LEMMA Greatest ==
  ASSUME NEW n \in Nat, NEW T \in SUBSET (0..n), T # {}
  PROVE  Max(T) \in T /\ \A y \in T : Max(T) >= y
<1> DEFINE R == OpToRel(<, Nat)
<1>1. IsWellFoundedOn(R, Nat)
  BY NatLessThanWellFounded
<1>2. \A x, y \in Nat : <<y, x>> \in R <=> y < x
  BY DEF OpToRel
<1> HIDE DEF R
<1> DEFINE U == {k \in 0..n : n - k \in T}
<1>3. U \in SUBSET Nat /\ U # {}
  <2>1. PICK x \in T : TRUE
    OBVIOUS
  <2>2. n - x \in 0..n /\ n - (n - x) = x
    OBVIOUS
  <2>3. n - x \in U
    BY <2>2
  <2>4. U \subseteq 0..n
    OBVIOUS
  <2> HIDE DEF U
  <2>5. QED
    BY <2>3, <2>4
<1> HIDE DEF U
<1>4. PICK k \in U : \A j \in U : ~(<<j, k>> \in R)
  BY <1>1, <1>3, WFMin
<1>5. \A j \in U : k <= j
  <2> TAKE j \in U
  <2>1. j \in Nat /\ k \in Nat
    BY <1>3
  <2>2. ~(j < k)
    BY <1>2, <1>4, <2>1
  <2>3. QED
    BY <2>1, <2>2
<1>6. k \in 0..n /\ n - k \in T
  BY <1>4 DEF U
<1>7. ASSUME NEW y \in T PROVE n - k >= y
  <2>1. n - y \in 0..n /\ n - (n - y) = y
    OBVIOUS
  <2>2. n - y \in U
    BY <2>1 DEF U
  <2>3. QED
    BY <1>5, <1>6, <2>1, <2>2
<1>8. \E x \in T : \A y \in T : x >= y
  BY <1>6, <1>7
<1>9. QED
  BY <1>8 DEF Max

(***************************************************************************)
(* What a session shows of a list of messages: the part behind its base.   *)
(***************************************************************************)
Messages == [id : Nat, who : {"user", "model", "line", "summary"}]
Shows(l, b, ms) == Len(ms) = b + Len(l) /\ \A p \in 1..Len(l) : l[p] = ms[p + b]
PlainFrom(l, s) == \A i \in 1..Len(l) : i >= s => ~isAuthoredLine(l[i])

LEMMA LastResponse ==
  ASSUME NEW ms \in Seq(Messages)
  PROVE  /\ lastResponseStart(ms) \in 1..(Len(ms) + 1) /\ PlainFrom(ms, lastResponseStart(ms))
         /\ lastResponseStart(ms) > 1 => isAuthoredLine(ms[lastResponseStart(ms) - 1])
<1> DEFINE T == {0} \cup {i \in DOMAIN ms : isAuthoredLine(ms[i])}
<1> DEFINE k == Max(T)
<1>1. Len(ms) \in Nat /\ DOMAIN ms = 1..Len(ms)
  BY LenProperties
<1>2. T \in SUBSET (0..Len(ms)) /\ 0 \in T
  BY <1>1
<1>3. \A i \in T : i # 0 => isAuthoredLine(ms[i])
  OBVIOUS
<1>4. \A i \in 1..Len(ms) : isAuthoredLine(ms[i]) => i \in T
  BY <1>1
<1>5. lastResponseStart(ms) = 1 + k
  BY DEF lastResponseStart
<1> HIDE DEF T
<1>6. k \in T /\ \A y \in T : k >= y
  BY <1>1, <1>2, Greatest
<1> HIDE DEF k
<1>7. k \in 0..Len(ms)
  BY <1>2, <1>6
<1>8. PlainFrom(ms, 1 + k)
  <2>1. ASSUME NEW i \in 1..Len(ms), i >= 1 + k PROVE ~isAuthoredLine(ms[i])
    BY <1>4, <1>6, <1>7, <2>1
  <2>2. QED
    BY <2>1 DEF PlainFrom
<1>9. 1 + k > 1 => isAuthoredLine(ms[1 + k - 1])
  BY <1>3, <1>6, <1>7
<1>10. QED
  BY <1>5, <1>7, <1>8, <1>9

LEMMA ShowsWhole ==
  ASSUME NEW ms \in Seq(Messages)
  PROVE  Shows(ms, 0, ms)
<1>1. Len(ms) \in Nat
  BY LenProperties
<1>2. QED
  BY <1>1 DEF Shows

(* The same end of both. *)
LEMMA ShowsFrom ==
  ASSUME NEW l \in Seq(Messages), NEW ms \in Seq(Messages), NEW b \in Nat, Shows(l, b, ms),
         NEW p \in 1..(Len(l) + 1)
  PROVE  /\ From(l, p) = From(ms, p + b) /\ p + b \in 1..(Len(ms) + 1)
         /\ Shows(Before(l, p), b, Before(ms, p + b))
<1>1. Len(l) \in Nat /\ Len(ms) \in Nat /\ Len(ms) = b + Len(l)
  BY LenProperties DEF Shows
<1>2. p + b \in 1..(Len(ms) + 1)
  BY <1>1
<1>3. /\ From(l, p) \in Seq(Messages) /\ Len(From(l, p)) = Len(l) - p + 1
      /\ \A i \in 1..(Len(l) - p + 1) : From(l, p)[i] = l[p + i - 1]
  BY FromFacts
<1>4. /\ From(ms, p + b) \in Seq(Messages) /\ Len(From(ms, p + b)) = Len(ms) - (p + b) + 1
      /\ \A i \in 1..(Len(ms) - (p + b) + 1) : From(ms, p + b)[i] = ms[(p + b) + i - 1]
  BY <1>2, FromFacts
<1>5. Len(ms) - (p + b) + 1 = Len(l) - p + 1
  BY <1>1
<1>6. ASSUME NEW i \in 1..(Len(l) - p + 1) PROVE From(l, p)[i] = From(ms, p + b)[i]
  <2>1. p + i - 1 \in 1..Len(l) /\ (p + i - 1) + b = (p + b) + i - 1
    BY <1>1
  <2>2. l[p + i - 1] = ms[(p + b) + i - 1]
    BY <2>1 DEF Shows
  <2>3. QED
    BY <1>3, <1>4, <1>5, <2>2
<1>7. From(l, p) = From(ms, p + b)
  <2> DEFINE f == From(l, p)
  <2> DEFINE g == From(ms, p + b)
  <2>1. f \in Seq(Messages) /\ g \in Seq(Messages) /\ Len(f) = Len(l) - p + 1
        /\ Len(g) = Len(f) /\ \A i \in 1..(Len(l) - p + 1) : f[i] = g[i]
    BY <1>3, <1>4, <1>5, <1>6
  <2> HIDE DEF f, g
  <2>2. \A i \in 1..Len(f) : f[i] = g[i]
    BY <2>1
  <2>3. f = g
    BY <2>1, <2>2, SeqEqual
  <2>4. QED
    BY <2>3 DEF f, g
<1>8. /\ Len(Before(l, p)) = p - 1
      /\ \A i \in 1..(p - 1) : Before(l, p)[i] = l[i]
  BY BeforeFacts
<1>9. /\ Len(Before(ms, p + b)) = p + b - 1
      /\ \A i \in 1..(p + b - 1) : Before(ms, p + b)[i] = ms[i]
  <2> DEFINE q == p + b
  <2>1. q \in 1..(Len(ms) + 1)
    BY <1>2
  <2> HIDE DEF q
  <2>2. /\ Len(Before(ms, q)) = q - 1
        /\ \A i \in 1..(q - 1) : Before(ms, q)[i] = ms[i]
    BY <2>1, BeforeFacts
  <2>3. QED
    BY <2>2 DEF q
<1>10. Shows(Before(l, p), b, Before(ms, p + b))
  <2>1. ASSUME NEW i \in 1..(p - 1) PROVE Before(l, p)[i] = Before(ms, p + b)[i + b]
    <3>1. i \in 1..Len(l) /\ i + b \in 1..(p + b - 1)
      BY <1>1
    <3>2. l[i] = ms[i + b]
      BY <3>1 DEF Shows
    <3>3. QED
      BY <1>8, <1>9, <3>1, <3>2
  <2>2. p + b - 1 = b + (p - 1)
    BY <1>1
  <2>3. QED
    BY <1>8, <1>9, <2>1, <2>2 DEF Shows
<1>11. QED
  BY <1>2, <1>7, <1>10

LEMMA ShowsConcat ==
  ASSUME NEW l \in Seq(Messages), NEW ms \in Seq(Messages), NEW b \in Nat, Shows(l, b, ms),
         NEW u \in Seq(Messages)
  PROVE  Shows(l \o u, b, ms \o u)
<1>1. /\ Len(l) \in Nat /\ Len(ms) \in Nat /\ Len(u) \in Nat /\ Len(ms) = b + Len(l)
  BY LenProperties DEF Shows
<1>2. /\ Len(l \o u) = Len(l) + Len(u)
      /\ \A i \in 1..(Len(l) + Len(u)) : (l \o u)[i] = IF i <= Len(l) THEN l[i] ELSE u[i - Len(l)]
  BY ConcatProperties
<1>3. /\ Len(ms \o u) = Len(ms) + Len(u)
      /\ \A i \in 1..(Len(ms) + Len(u)) :
           (ms \o u)[i] = IF i <= Len(ms) THEN ms[i] ELSE u[i - Len(ms)]
  BY ConcatProperties
<1>4. ASSUME NEW i \in 1..(Len(l) + Len(u)) PROVE (l \o u)[i] = (ms \o u)[i + b]
  <2>1. i + b \in 1..(Len(ms) + Len(u)) /\ (i <= Len(l) <=> i + b <= Len(ms))
        /\ (i + b) - Len(ms) = i - Len(l)
    BY <1>1
  <2>2. CASE i <= Len(l)
    <3>1. l[i] = ms[i + b]
      BY <1>1, <2>2 DEF Shows
    <3>2. QED
      BY <1>2, <1>3, <2>1, <2>2, <3>1
  <2>3. CASE ~(i <= Len(l))
    BY <1>2, <1>3, <2>1, <2>3
  <2>4. QED
    BY <2>2, <2>3
<1>5. Len(ms) + Len(u) = b + (Len(l) + Len(u))
  BY <1>1
<1>6. QED
  BY <1>2, <1>3, <1>4, <1>5 DEF Shows

LEMMA ShowsAppend ==
  ASSUME NEW l \in Seq(Messages), NEW ms \in Seq(Messages), NEW b \in Nat, Shows(l, b, ms),
         NEW m \in Messages
  PROVE  Shows(Append(l, m), b, Append(ms, m))
<1>1. << m >> \in Seq(Messages)
  OBVIOUS
<1>2. Append(l, m) = l \o << m >> /\ Append(ms, m) = ms \o << m >>
  BY AppendIsConcat
<1>3. QED
  BY <1>1, <1>2, ShowsConcat

LEMMA ShowsExcept ==
  ASSUME NEW l \in Seq(Messages), NEW ms \in Seq(Messages), NEW b \in Nat, Shows(l, b, ms),
         NEW p \in 1..Len(l), NEW m \in Messages
  PROVE  Shows([l EXCEPT ![p] = m], b, [ms EXCEPT ![p + b] = m]) /\ p + b \in 1..Len(ms)
<1>1. Len(l) \in Nat /\ Len(ms) \in Nat /\ Len(ms) = b + Len(l) /\ p + b \in 1..Len(ms)
  BY LenProperties DEF Shows
<1>2. /\ Len([l EXCEPT ![p] = m]) = Len(l)
      /\ \A j \in 1..Len(l) : [l EXCEPT ![p] = m][j] = IF j = p THEN m ELSE l[j]
  BY ExceptSeq
<1>3. /\ Len([ms EXCEPT ![p + b] = m]) = Len(ms)
      /\ \A j \in 1..Len(ms) : [ms EXCEPT ![p + b] = m][j] = IF j = p + b THEN m ELSE ms[j]
  BY <1>1, ExceptSeq
<1>4. \A j \in 1..Len(l) : j + b \in 1..Len(ms) /\ (j = p <=> j + b = p + b) /\ l[j] = ms[j + b]
  BY <1>1 DEF Shows
<1>5. QED
  BY <1>1, <1>2, <1>3, <1>4 DEF Shows

LEMMA ShowsRemove ==
  ASSUME NEW l \in Seq(Messages), NEW ms \in Seq(Messages), NEW b \in Nat, Shows(l, b, ms),
         NEW p \in 1..Len(l)
  PROVE  Shows(RemoveAt(l, p), b, RemoveAt(ms, p + b))
<1>1. Len(l) \in Nat /\ Len(ms) \in Nat /\ Len(ms) = b + Len(l) /\ p + b \in 1..Len(ms)
  BY LenProperties DEF Shows
<1>2. /\ Len(RemoveAt(l, p)) = Len(l) - 1
      /\ \A i \in 1..(Len(l) - 1) : RemoveAt(l, p)[i] = IF i < p THEN l[i] ELSE l[i + 1]
  BY RemoveFacts
<1>3. /\ Len(RemoveAt(ms, p + b)) = Len(ms) - 1
      /\ \A i \in 1..(Len(ms) - 1) :
           RemoveAt(ms, p + b)[i] = IF i < p + b THEN ms[i] ELSE ms[i + 1]
  BY <1>1, RemoveFacts
<1>4. ASSUME NEW i \in 1..(Len(l) - 1) PROVE RemoveAt(l, p)[i] = RemoveAt(ms, p + b)[i + b]
  <2>1. /\ i + b \in 1..(Len(ms) - 1) /\ (i < p <=> i + b < p + b)
        /\ i \in 1..Len(l) /\ i + 1 \in 1..Len(l) /\ (i + 1) + b = (i + b) + 1
    BY <1>1
  <2>2. l[i] = ms[i + b] /\ l[i + 1] = ms[(i + b) + 1]
    BY <2>1 DEF Shows
  <2>3. QED
    BY <1>2, <1>3, <2>1, <2>2
<1>5. Len(ms) - 1 = b + (Len(l) - 1)
  BY <1>1
<1>6. QED
  BY <1>2, <1>3, <1>4, <1>5 DEF Shows


(***************************************************************************)
(* Files.  V is what may be done to the session (verbs).                   *)
(***************************************************************************)
Mark == [takes : Seq(Messages), active : Nat]
MarkSets == UNION {[D -> Mark] : D \in SUBSET (Nat \ {0})}
Files == [msgs : Seq(Messages), start : Nat, takes : Seq(Seq(Messages)), active : Nat,
          vars : MarkSets]

(* The verbs that disturb each other's alternatives are not both in use.     *)
Apart(V) ==
  /\ "card" \notin V
  /\ "long" \in V => "compact" \notin V /\ "clear" \notin V /\ "condense" \notin V
  /\ "unline" \in V => "retry" \notin V /\ "edit" \notin V
  /\ "condense" \in V => "edit" \notin V
  /\ "post" \in V /\ "reload" \in V => "retry" \notin V /\ "edit" \notin V

PlainTakes(ts) == \A k \in 1..Len(ts) : PlainFrom(ts[k], 1)
GoodTail(w, V) ==
  /\ w.start # 0 => w.active \in 1..Len(w.takes) /\ w.start >= 2
  /\ PlainTakes(w.takes)
  /\ "post" \notin V /\ w.start # 0 => PlainFrom(w.msgs, w.start)
  /\ "retry" \notin V /\ "edit" \notin V => w.start = 0

(* A take t of a message m; the takes f of the message at position q of ms.  *)
GoodTake(t, m, V) ==
  /\ isAuthoredLine(t) <=> isAuthoredLine(m)
  /\ t.who # "line"
  /\ "long" \in V => t.who # "summary"
GoodMark(ms, q, f, V) ==
  /\ q \in 1..Len(ms) /\ \E i \in q..Len(ms) : isAuthoredLine(ms[i])
  /\ Len(f.takes) >= 2 /\ f.active \in 1..Len(f.takes) /\ f.takes[f.active] = ms[q]
  /\ \A k \in 1..Len(f.takes) : GoodTake(f.takes[k], ms[q], V)
GoodMarks(ms, g, V) ==
  /\ \A q \in DOMAIN g : GoodMark(ms, q, g[q], V)
  /\ "edit" \notin V => DOMAIN g = {}

GoodMsgs(ms, V) ==
  /\ "unline" \notin V /\ ms # <<>> => isAuthoredLine(ms[1])
  /\ "long" \in V => \A i \in 1..Len(ms) : ms[i].who # "summary"
GoodFile(w, V) ==
  w \in Files /\ GoodMsgs(w.msgs, V) /\ GoodTail(w, V) /\ GoodMarks(w.msgs, w.vars, V)
Goods(V) == {w \in Files : GoodFile(w, V)}

(* A set of marks, at any positions, is a mark set. *)
LEMMA MarkSetFacts ==
  /\ \A g \in MarkSets : /\ DOMAIN g \subseteq Nat \ {0} /\ g = [q \in DOMAIN g |-> g[q]]
                         /\ \A q \in DOMAIN g : g[q] \in Mark
  /\ \A D \in SUBSET (Nat \ {0}) : [D -> Mark] \subseteq MarkSets
  /\ <<>> \in MarkSets /\ DOMAIN <<>> = {}
<1>1. \A D \in SUBSET (Nat \ {0}) : [D -> Mark] \subseteq MarkSets
  BY DEF MarkSets
<1>2. ASSUME NEW g \in MarkSets
      PROVE  /\ DOMAIN g \subseteq Nat \ {0} /\ g = [q \in DOMAIN g |-> g[q]]
             /\ \A q \in DOMAIN g : g[q] \in Mark
  <2>1. PICK D \in SUBSET (Nat \ {0}) : g \in [D -> Mark]
    BY DEF MarkSets
  <2>2. QED
    BY <2>1
<1>3. <<>> \in MarkSets /\ DOMAIN <<>> = {}
  <2>1. DOMAIN <<>> = {} /\ <<>> \in [{} -> Mark]
    OBVIOUS
  <2>2. {} \in SUBSET (Nat \ {0})
    OBVIOUS
  <2>3. QED
    BY <1>1, <2>1, <2>2
<1>4. QED
  BY <1>1, <1>2, <1>3

(* A list that keeps another's beginning, with all its authored messages. *)
LEMMA Regrown ==
  ASSUME NEW V, NEW ms \in Seq(Messages), NEW g, GoodMsgs(ms, V), GoodMarks(ms, g, V),
         NEW k \in 0..Len(ms), PlainFrom(ms, k + 1),
         NEW ns \in Seq(Messages), k <= Len(ns), \A i \in 1..k : ns[i] = ms[i],
         \A i \in 1..Len(ns) : i > k => ns[i].who # "summary",
         k = 0 /\ ns # <<>> => isAuthoredLine(ns[1])
  PROVE  GoodMsgs(ns, V) /\ GoodMarks(ns, g, V) /\ \A q \in DOMAIN g : q \in 1..k
<1>1. Len(ms) \in Nat /\ Len(ns) \in Nat /\ k \in Nat
  BY LenProperties
<1>2. GoodMsgs(ns, V)
  <2>1. ASSUME "unline" \notin V, ns # <<>> PROVE isAuthoredLine(ns[1])
    <3>1. CASE k = 0
      BY <2>1, <3>1
    <3>2. CASE k # 0
      <4>1. 1 \in 1..k /\ Len(ms) # 0
        BY <1>1, <3>2
      <4>2. ms # <<>>
        BY <4>1
      <4>3. QED
        BY <2>1, <4>1, <4>2 DEF GoodMsgs
    <3>3. QED
      BY <3>1, <3>2
  <2>2. ASSUME "long" \in V, NEW i \in 1..Len(ns) PROVE ns[i].who # "summary"
    <3>1. CASE i > k
      BY <3>1
    <3>2. CASE ~(i > k)
      <4>1. i \in 1..k /\ i \in 1..Len(ms)
        BY <1>1, <3>2
      <4>2. QED
        BY <2>2, <4>1 DEF GoodMsgs
    <3>3. QED
      BY <3>1, <3>2
  <2>3. QED
    BY <2>1, <2>2 DEF GoodMsgs
<1>3. ASSUME NEW q \in DOMAIN g PROVE GoodMark(ns, q, g[q], V) /\ q \in 1..k
  <2>1. GoodMark(ms, q, g[q], V)
    BY DEF GoodMarks
  <2>2. q \in 1..Len(ms)
    BY <2>1 DEF GoodMark
  <2>3. PICK i \in q..Len(ms) : isAuthoredLine(ms[i])
    BY <2>1 DEF GoodMark
  <2>4. i \in 1..Len(ms) /\ (i \in 1..k \/ i >= k + 1)
    BY <1>1, <2>2
  <2>5. i \in 1..k
    BY <2>3, <2>4 DEF PlainFrom
  <2>6. q \in 1..k /\ q \in 1..Len(ns) /\ i \in q..Len(ns)
    BY <1>1, <2>2, <2>5
  <2>7. ns[q] = ms[q] /\ ns[i] = ms[i]
    BY <2>5, <2>6
  <2>8. QED
    BY <2>1, <2>3, <2>6, <2>7 DEF GoodMark
<1>4. QED
  BY <1>2, <1>3 DEF GoodMarks


(***************************************************************************)
(* Rows that end, extend or replace the transcript's last response.        *)
(***************************************************************************)
LEMMA GoodsFacts ==
  ASSUME NEW V, NEW w \in Goods(V)
  PROVE  /\ w \in Files /\ GoodMsgs(w.msgs, V) /\ GoodTail(w, V) /\ GoodMarks(w.msgs, w.vars, V)
         /\ w.msgs \in Seq(Messages) /\ Len(w.msgs) \in Nat /\ w.start \in Nat /\ w.active \in Nat
         /\ w.takes \in Seq(Seq(Messages)) /\ Len(w.takes) \in Nat /\ w.vars \in MarkSets
<1>1. w \in Files /\ GoodFile(w, V)
  BY DEF Goods
<1>2. /\ w.msgs \in Seq(Messages) /\ w.start \in Nat /\ w.active \in Nat
      /\ w.takes \in Seq(Seq(Messages)) /\ w.vars \in MarkSets
  BY <1>1 DEF Files
<1>3. QED
  BY <1>1, <1>2, LenProperties DEF GoodFile

LEMMA NoTailGood ==
  ASSUME NEW V, NEW w \in Files, GoodMsgs(w.msgs, V), GoodMarks(w.msgs, w.vars, V)
  PROVE  /\ NoTail(w) \in Goods(V) /\ NoTail(w).msgs = w.msgs /\ NoTail(w).vars = w.vars
         /\ NoTail(w).start = 0
<1> DEFINE n == NoTail(w)
<1>1. /\ n \in Files /\ n.msgs = w.msgs /\ n.vars = w.vars /\ n.start = 0 /\ n.takes = <<>>
  <2>1. <<>> \in Seq(Seq(Messages)) /\ 0 \in Nat
    OBVIOUS
  <2>2. n = [w EXCEPT !.start = 0, !.takes = <<>>, !.active = 0]
    BY DEF NoTail
  <2> HIDE DEF n
  <2>3. QED
    BY <2>1, <2>2 DEF Files
<1>2. GoodTail(n, V)
  <2>1. Len(n.takes) = 0
    BY <1>1
  <2>2. QED
    BY <1>1, <2>1 DEF GoodTail, PlainTakes
<1> HIDE DEF n
<1>3. n \in Goods(V)
  BY <1>1, <1>2 DEF Goods, GoodFile
<1>4. QED
  BY <1>1, <1>3 DEF n

LEMMA AppendFacts ==
  ASSUME NEW S, NEW s \in Seq(S), NEW x \in S
  PROVE  /\ Append(s, x) \in Seq(S) /\ Len(Append(s, x)) = Len(s) + 1
         /\ \A i \in 1..Len(s) : Append(s, x)[i] = s[i]
         /\ Append(s, x)[Len(s) + 1] = x
  BY AppendProperties

LEMMA MessageRowGood ==
  ASSUME NEW V, NEW w \in Goods(V), NEW m \in Messages, m.who # "summary",
         m.who = "line" => "post" \in V, m.who = "model" => w.msgs # <<>>
  PROVE  /\ MessageRow(w, m) \in Goods(V) /\ MessageRow(w, m).msgs = Append(w.msgs, m)
         /\ MessageRow(w, m).vars = w.vars
         /\ m.who = "user" => MessageRow(w, m).start = 0
         /\ m.who # "user" => /\ MessageRow(w, m).start = w.start
                              /\ MessageRow(w, m).takes = w.takes
                              /\ MessageRow(w, m).active = w.active
<1> DEFINE n == [w EXCEPT !.msgs = Append(w.msgs, m)]
<1>1. /\ w \in Files /\ GoodMsgs(w.msgs, V) /\ GoodTail(w, V) /\ GoodMarks(w.msgs, w.vars, V)
      /\ w.msgs \in Seq(Messages) /\ Len(w.msgs) \in Nat
  BY GoodsFacts
<1>2. /\ Append(w.msgs, m) \in Seq(Messages) /\ Len(Append(w.msgs, m)) = Len(w.msgs) + 1
      /\ \A i \in 1..Len(w.msgs) : Append(w.msgs, m)[i] = w.msgs[i]
      /\ Append(w.msgs, m)[Len(w.msgs) + 1] = m
  BY <1>1, AppendFacts
<1>3. /\ n \in Files /\ n.msgs = Append(w.msgs, m) /\ n.vars = w.vars /\ n.start = w.start
      /\ n.takes = w.takes /\ n.active = w.active
  BY <1>1, <1>2 DEF Files
<1>4. MessageRow(w, m) = IF m.who = "user" THEN NoTail(n) ELSE n
  BY DEF MessageRow
<1> HIDE DEF n
<1>5. GoodMsgs(n.msgs, V) /\ GoodMarks(n.msgs, n.vars, V)
  <2> DEFINE ms == w.msgs
  <2> DEFINE ns == Append(ms, m)
  <2> DEFINE k == Len(ms)
  <2>1. PlainFrom(ms, k + 1) /\ k \in 0..Len(ms) /\ k <= Len(ns)
    BY <1>1, <1>2 DEF PlainFrom
  <2>2. \A i \in 1..Len(ns) : i > k => ns[i].who # "summary"
    <3> TAKE i \in 1..Len(ns)
    <3>1. i > k => i = k + 1
      BY <1>1, <1>2
    <3>2. QED
      BY <1>2, <3>1
  <2>3. k = 0 /\ ns # <<>> => isAuthoredLine(ns[1])
    <3>1. k = 0 => w.msgs = <<>>
      BY <1>1, EmptySeq
    <3>2. k = 0 => ns[1] = m
      BY <1>2
    <3>3. QED
      BY <3>1, <3>2 DEF isAuthoredLine
  <2>4. ms \in Seq(Messages) /\ ns \in Seq(Messages) /\ GoodMsgs(ms, V)
        /\ GoodMarks(ms, w.vars, V) /\ \A i \in 1..k : ns[i] = ms[i]
    BY <1>1, <1>2
  <2> HIDE DEF ns, k, ms
  <2>5. GoodMsgs(ns, V) /\ GoodMarks(ns, w.vars, V)
    BY <2>1, <2>2, <2>3, <2>4, Regrown
  <2>6. QED
    BY <1>3, <2>5 DEF ns, ms
<1>6. CASE m.who = "user"
  BY <1>3, <1>4, <1>5, <1>6, NoTailGood
<1>7. CASE m.who # "user"
  <2>1. "post" \notin V => m.who = "model"
    BY <1>7 DEF Messages
  <2>2. ASSUME "post" \notin V, w.start # 0 PROVE PlainFrom(n.msgs, n.start)
    <3>1. PlainFrom(w.msgs, w.start) /\ ~isAuthoredLine(m)
      BY <1>1, <2>1, <2>2 DEF GoodTail, isAuthoredLine
    <3>2. ASSUME NEW i \in 1..(Len(w.msgs) + 1), i >= w.start
          PROVE  ~isAuthoredLine(Append(w.msgs, m)[i])
      <4>1. i \in 1..Len(w.msgs) \/ i = Len(w.msgs) + 1
        BY <1>1
      <4>2. QED
        BY <1>2, <3>1, <3>2, <4>1 DEF PlainFrom
    <3>3. QED
      BY <1>2, <1>3, <3>2 DEF PlainFrom
  <2>3. GoodTail(n, V)
    BY <1>1, <1>3, <2>2 DEF GoodTail
  <2>4. n \in Goods(V)
    BY <1>3, <1>5, <2>3 DEF Goods, GoodFile
  <2>5. QED
    BY <1>3, <1>4, <1>7, <2>4
<1>8. QED
  BY <1>6, <1>7

(* A cut at p keeps what it cut as a take, and a choice at p reads it there.  *)
SealedAt(w, p) == sealActiveTake(beginTail(w, p))

LEMMA Sealed ==
  ASSUME NEW V, NEW w \in Files, GoodTail(w, V), NEW p \in 1..(Len(w.msgs) + 1), p >= 2,
         PlainFrom(w.msgs, p)
  PROVE  /\ SealedAt(w, p) \in Files /\ SealedAt(w, p).msgs = w.msgs
         /\ SealedAt(w, p).start = p /\ SealedAt(w, p).vars = w.vars
         /\ SealedAt(w, p).active \in 1..Len(SealedAt(w, p).takes)
         /\ SealedAt(w, p).takes[SealedAt(w, p).active] = From(w.msgs, p)
         /\ PlainTakes(SealedAt(w, p).takes)
         /\ w.start = p =>
              /\ SealedAt(w, p).takes = [w.takes EXCEPT ![w.active] = From(w.msgs, p)]
              /\ SealedAt(w, p).active = w.active
<1> DEFINE s == SealedAt(w, p)
<1> DEFINE t == From(w.msgs, p)
<1> DEFINE b == beginTail(w, p)
<1>1. /\ w.msgs \in Seq(Messages) /\ Len(w.msgs) \in Nat /\ w.takes \in Seq(Seq(Messages))
      /\ w.start \in Nat /\ w.active \in Nat /\ p \in Nat
  BY LenProperties DEF Files
<1>2. t \in Seq(Messages) /\ PlainFrom(t, 1)
  <2>1. /\ From(w.msgs, p) \in Seq(Messages) /\ Len(From(w.msgs, p)) = Len(w.msgs) - p + 1
        /\ \A i \in 1..(Len(w.msgs) - p + 1) : From(w.msgs, p)[i] = w.msgs[p + i - 1]
    BY <1>1, FromFacts
  <2>2. \A i \in 1..(Len(w.msgs) - p + 1) : p + i - 1 \in 1..Len(w.msgs) /\ p + i - 1 >= p
    BY <1>1
  <2>3. QED
    BY <2>1, <2>2 DEF PlainFrom
<1> HIDE DEF t
<1>3. /\ b \in Files /\ b.msgs = w.msgs /\ b.start = p /\ b.vars = w.vars
      /\ b.active \in 1..Len(b.takes) /\ \A k \in 1..Len(b.takes) : k # b.active => PlainFrom(b.takes[k], 1)
      /\ w.start = p => b = w
  <2>1. CASE w.start = p
    <3>1. b = w
      BY <2>1 DEF beginTail
    <3>2. w.active \in 1..Len(w.takes) /\ PlainTakes(w.takes)
      BY <1>1, <2>1 DEF GoodTail
    <3>3. QED
      BY <1>1, <2>1, <3>1, <3>2 DEF PlainTakes
  <2>2. CASE w.start # p
    <3>1. b = [w EXCEPT !.start = p, !.takes = << t >>, !.active = 1]
      BY <2>2 DEF beginTail, t
    <3>2. << t >> \in Seq(Seq(Messages)) /\ Len(<< t >>) = 1
      BY <1>2
    <3> HIDE DEF b
    <3>3. /\ b \in Files /\ b.msgs = w.msgs /\ b.start = p /\ b.vars = w.vars
          /\ b.active = 1 /\ b.takes = << t >>
      BY <1>1, <3>1, <3>2 DEF Files
    <3>4. QED
      BY <2>2, <3>2, <3>3
  <2>3. QED
    BY <2>1, <2>2
<1> HIDE DEF b
<1>4. b.takes \in Seq(Seq(Messages)) /\ DOMAIN b.takes = 1..Len(b.takes)
  BY <1>3, LenProperties DEF Files
<1>5. s = [b EXCEPT !.takes[b.active] = t]
  <2>1. sealActiveTake(b) = IF p \in 1..(Len(w.msgs) + 1) /\ b.active \in DOMAIN b.takes
                            THEN [b EXCEPT !.takes[b.active] = t] ELSE b
    BY <1>3 DEF sealActiveTake, t
  <2>2. s = sealActiveTake(b)
    BY DEF b, SealedAt
  <2>3. QED
    BY <1>3, <1>4, <2>1, <2>2
<1> DEFINE ts == [b.takes EXCEPT ![b.active] = t]
<1> HIDE DEF s
<1>6. ts \in Seq(Seq(Messages)) /\ Len(ts) = Len(b.takes)
      /\ \A k \in 1..Len(b.takes) : ts[k] = IF k = b.active THEN t ELSE b.takes[k]
  BY <1>2, <1>3, <1>4, ExceptSeq
<1>7. /\ s \in Files /\ s.msgs = b.msgs /\ s.start = b.start /\ s.vars = b.vars
      /\ s.active = b.active /\ s.takes = ts
  <2> HIDE DEF ts
  <2>1. s = [b EXCEPT !.takes = ts]
    BY <1>5 DEF ts
  <2>2. QED
    BY <1>3, <1>6, <2>1 DEF Files
<1>8. PlainTakes(ts)
  BY <1>2, <1>3, <1>6 DEF PlainTakes
<1>9. QED
  <2>1. s.takes[s.active] = t
    BY <1>3, <1>6, <1>7
  <2>2. w.start = p => s.takes = [w.takes EXCEPT ![w.active] = t] /\ s.active = w.active
    BY <1>3, <1>7
  <2>3. QED
    BY <1>3, <1>6, <1>7, <1>8, <2>1, <2>2 DEF t, s


(* A list whose end is exchanged. *)
LEMMA JoinFacts ==
  ASSUME NEW ms \in Seq(Messages), NEW p \in 1..(Len(ms) + 1), NEW u \in Seq(Messages)
  PROVE  /\ Before(ms, p) \o u \in Seq(Messages) /\ Len(Before(ms, p) \o u) = p - 1 + Len(u)
         /\ \A i \in 1..(p - 1) : (Before(ms, p) \o u)[i] = ms[i]
         /\ \A i \in 1..Len(u) : (Before(ms, p) \o u)[p - 1 + i] = u[i]
         /\ From(Before(ms, p) \o u, p) = u
<1> DEFINE x == Before(ms, p)
<1> DEFINE y == x \o u
<1>1. /\ x \in Seq(Messages) /\ Len(x) = p - 1
      /\ \A i \in 1..(p - 1) : x[i] = ms[i]
  BY BeforeFacts
<1>2. Len(ms) \in Nat /\ Len(u) \in Nat /\ p \in Nat /\ p >= 1
  BY LenProperties
<1> HIDE DEF x
<1>3. /\ y \in Seq(Messages) /\ Len(y) = Len(x) + Len(u)
      /\ \A i \in 1..(Len(x) + Len(u)) : y[i] = IF i <= Len(x) THEN x[i] ELSE u[i - Len(x)]
  BY <1>1, ConcatProperties
<1> HIDE DEF y
<1>4. ASSUME NEW i \in 1..(p - 1) PROVE y[i] = ms[i]
  <2>1. i \in 1..(Len(x) + Len(u)) /\ i <= Len(x)
    BY <1>1, <1>2
  <2>2. QED
    BY <1>1, <1>3, <2>1
<1>5. ASSUME NEW i \in 1..Len(u) PROVE y[p - 1 + i] = u[i]
  <2>1. /\ p - 1 + i \in 1..(Len(x) + Len(u)) /\ ~(p - 1 + i <= Len(x))
        /\ (p - 1 + i) - Len(x) = i
    BY <1>1, <1>2
  <2>2. QED
    BY <1>3, <2>1
<1>6. From(y, p) = u
  <2>1. p \in 1..(Len(y) + 1) /\ Len(y) - p + 1 = Len(u)
    BY <1>1, <1>2, <1>3
  <2>2. /\ From(y, p) \in Seq(Messages) /\ Len(From(y, p)) = Len(y) - p + 1
        /\ \A i \in 1..(Len(y) - p + 1) : From(y, p)[i] = y[p + i - 1]
    BY <1>3, <2>1, FromFacts
  <2>3. \A i \in 1..Len(u) : p + i - 1 = p - 1 + i
    BY <1>2
  <2>4. Len(From(y, p)) = Len(u) /\ \A i \in 1..Len(u) : From(y, p)[i] = u[i]
    BY <1>5, <2>1, <2>2, <2>3
  <2> DEFINE f == From(y, p)
  <2>5. f \in Seq(Messages) /\ Len(f) = Len(u) /\ \A i \in 1..Len(f) : f[i] = u[i]
    BY <2>2, <2>4
  <2> HIDE DEF f
  <2>6. f = u
    BY <2>5, SeqEqual
  <2>7. QED
    BY <2>6 DEF f
<1>7. QED
  BY <1>1, <1>3, <1>4, <1>5, <1>6 DEF y, x

LEMMA Rejoined ==
  ASSUME NEW V, "retry" \in V \/ "edit" \in V, NEW w \in Goods(V),
         NEW p \in 1..(Len(w.msgs) + 1), p >= 2, PlainFrom(w.msgs, p),
         NEW u \in Seq(Messages), PlainFrom(u, 1),
         NEW n \in Files, n.msgs = Before(w.msgs, p) \o u, n.start = p, n.vars = w.vars,
         n.active \in 1..Len(n.takes), PlainTakes(n.takes)
  PROVE  n \in Goods(V) /\ PlainFrom(n.msgs, p) /\ \A q \in DOMAIN w.vars : q \in 1..(p - 1)
<1> DEFINE ms == w.msgs
<1> DEFINE ns == n.msgs
<1>1. /\ w \in Files /\ GoodMsgs(ms, V) /\ GoodTail(w, V) /\ GoodMarks(ms, w.vars, V)
      /\ ms \in Seq(Messages) /\ Len(ms) \in Nat
  BY GoodsFacts
<1>2. /\ ns \in Seq(Messages) /\ Len(ns) = p - 1 + Len(u)
      /\ \A i \in 1..(p - 1) : ns[i] = ms[i]
      /\ \A i \in 1..Len(u) : ns[p - 1 + i] = u[i]
  <2>1. ns = Before(ms, p) \o u /\ p \in 1..(Len(ms) + 1) /\ ms \in Seq(Messages)
    BY <1>1
  <2> HIDE DEF ms, ns
  <2>2. /\ Before(ms, p) \o u \in Seq(Messages) /\ Len(Before(ms, p) \o u) = p - 1 + Len(u)
        /\ \A i \in 1..(p - 1) : (Before(ms, p) \o u)[i] = ms[i]
        /\ \A i \in 1..Len(u) : (Before(ms, p) \o u)[p - 1 + i] = u[i]
    <3>1. Before(ms, p) \o u \in Seq(Messages)
      BY <2>1, JoinFacts
    <3>2. Len(Before(ms, p) \o u) = p - 1 + Len(u)
      BY <2>1, JoinFacts
    <3>3. \A i \in 1..(p - 1) : (Before(ms, p) \o u)[i] = ms[i]
      BY <2>1, JoinFacts
    <3>4. \A i \in 1..Len(u) : (Before(ms, p) \o u)[p - 1 + i] = u[i]
      BY <2>1, JoinFacts
    <3>5. QED
      BY <3>1, <3>2, <3>3, <3>4
  <2>3. QED
    BY <2>1, <2>2
<1>3. Len(u) \in Nat /\ p \in Nat
  BY <1>1, LenProperties
<1> HIDE DEF ms, ns
<1>4. PlainFrom(ns, p)
  <2> SUFFICES ASSUME NEW i \in 1..Len(ns), i >= p PROVE ~isAuthoredLine(ns[i])
    BY DEF PlainFrom
  <2>1. i - (p - 1) \in 1..Len(u) /\ i - (p - 1) >= 1 /\ p - 1 + (i - (p - 1)) = i
    BY <1>2, <1>3
  <2>2. ns[i] = u[i - (p - 1)]
    BY <1>2, <2>1
  <2>3. QED
    BY <2>1, <2>2 DEF PlainFrom
<1> DEFINE k == p - 1
<1>5. GoodMsgs(ns, V) /\ GoodMarks(ns, w.vars, V) /\ \A q \in DOMAIN w.vars : q \in 1..k
  <2>1. k \in 0..Len(ms) /\ k <= Len(ns) /\ k # 0 /\ k + 1 = p
    BY <1>1, <1>2, <1>3 DEF ms
  <2>2. PlainFrom(ms, k + 1) /\ \A i \in 1..k : ns[i] = ms[i]
    BY <1>2, <2>1 DEF ms
  <2>3. \A i \in 1..Len(ns) : i > k => ns[i].who # "summary"
    <3> TAKE i \in 1..Len(ns)
    <3>1. i > k => i >= p
      BY <1>3
    <3>2. QED
      BY <1>4, <3>1 DEF PlainFrom, isAuthoredLine
  <2> HIDE DEF k
  <2>4. QED
    BY <1>1, <1>2, <2>1, <2>2, <2>3, Regrown
<1>6. GoodTail(n, V)
  BY <1>3, <1>4 DEF GoodTail, ns
<1>7. n \in Goods(V)
  BY <1>5, <1>6 DEF Goods, GoodFile, ns
<1>8. QED
  BY <1>4, <1>5, <1>7 DEF ns

LEMMA RetractRowGood ==
  ASSUME NEW V, "retry" \in V \/ "edit" \in V, NEW w \in Goods(V),
         NEW p \in 1..(Len(w.msgs) + 1), p >= 2, PlainFrom(w.msgs, p)
  PROVE  /\ RetractRow(w, p) \in Goods(V) /\ RetractRow(w, p).msgs = Before(w.msgs, p)
         /\ RetractRow(w, p).start = p /\ RetractRow(w, p).vars = w.vars
         /\ Len(RetractRow(w, p).takes) >= 2 /\ PlainTakes(RetractRow(w, p).takes)
         /\ RetractRow(w, p).active \in 1..Len(RetractRow(w, p).takes)
         /\ \E k \in 1..Len(RetractRow(w, p).takes) :
              k # RetractRow(w, p).active /\ RetractRow(w, p).takes[k] = From(w.msgs, p)
<1> DEFINE n == RetractRow(w, p)
<1> DEFINE s == SealedAt(w, p)
<1>1. /\ w \in Files /\ GoodTail(w, V) /\ w.msgs \in Seq(Messages) /\ Len(w.msgs) \in Nat
  BY GoodsFacts
<1>2. /\ s \in Files /\ s.msgs = w.msgs /\ s.start = p /\ s.vars = w.vars
      /\ s.active \in 1..Len(s.takes) /\ s.takes[s.active] = From(w.msgs, p)
      /\ PlainTakes(s.takes)
  <2>2. w \in Files /\ GoodTail(w, V)
    BY <1>1
  <2>3. QED
    BY <2>2, Sealed
<1>3. n = [s EXCEPT !.takes = Append(s.takes, <<>>), !.active = Len(s.takes) + 1,
                    !.msgs = Before(s.msgs, p)]
  BY DEF RetractRow, SealedAt
<1> HIDE DEF s, n
<1>4. s.takes \in Seq(Seq(Messages)) /\ Len(s.takes) \in Nat /\ <<>> \in Seq(Messages)
  BY <1>2, LenProperties DEF Files
<1> DEFINE ts == Append(s.takes, <<>>)
<1>5. /\ ts \in Seq(Seq(Messages)) /\ Len(ts) = Len(s.takes) + 1
      /\ \A k \in 1..Len(s.takes) : ts[k] = s.takes[k]
      /\ ts[Len(s.takes) + 1] = <<>>
  BY <1>4, AppendFacts
<1> DEFINE ms == Before(w.msgs, p)
<1>6. ms \in Seq(Messages) /\ ms = ms \o <<>>
  BY <1>1, BeforeFacts, ConcatEmptySeq
<1> HIDE DEF ts, ms
<1>7. n = [s EXCEPT !.takes = ts, !.active = Len(s.takes) + 1, !.msgs = ms]
  BY <1>2, <1>3 DEF ts, ms
<1>8. /\ n \in Files /\ n.takes = ts /\ n.active = Len(s.takes) + 1 /\ n.msgs = ms
      /\ n.start = p /\ n.vars = w.vars
  <2>1. Len(s.takes) + 1 \in Nat
    BY <1>4
  <2>2. QED
    BY <1>2, <1>5, <1>6, <1>7, <2>1 DEF Files
<1>9. PlainTakes(ts)
  <2> SUFFICES ASSUME NEW k \in 1..Len(ts) PROVE PlainFrom(ts[k], 1)
    BY DEF PlainTakes
  <2>1. k \in 1..Len(s.takes) \/ k = Len(s.takes) + 1
    BY <1>4, <1>5
  <2>2. PlainFrom(<<>>, 1)
    BY DEF PlainFrom
  <2>3. QED
    BY <1>2, <1>5, <2>1, <2>2 DEF PlainTakes
<1>10. /\ n.active \in 1..Len(n.takes) /\ Len(n.takes) >= 2
       /\ s.active \in 1..Len(n.takes) /\ s.active # n.active
  <2>1. Len(n.takes) = Len(s.takes) + 1 /\ n.active = Len(s.takes) + 1
    BY <1>5, <1>8
  <2>2. s.active \in 1..Len(s.takes) /\ Len(s.takes) \in Nat
    BY <1>2, <1>4
  <2>3. QED
    BY <2>1, <2>2
<1>11. \E k \in 1..Len(n.takes) : k # n.active /\ n.takes[k] = From(w.msgs, p)
  <2>1. n.takes[s.active] = From(w.msgs, p)
    BY <1>2, <1>5, <1>8
  <2>2. QED
    BY <1>10, <2>1
<1>12. n \in Goods(V)
  <2>1. <<>> \in Seq(Messages) /\ PlainFrom(<<>>, 1)
    BY DEF PlainFrom
  <2>2. n.msgs = Before(w.msgs, p) \o <<>>
    BY <1>6, <1>8 DEF ms
  <2>3. QED
    BY <1>8, <1>9, <1>10, <2>1, <2>2, Rejoined
<1>13. QED
  BY <1>8, <1>9, <1>10, <1>11, <1>12 DEF ms, n

ChoiceTakes(w) == [w.takes EXCEPT ![w.active] = From(w.msgs, w.start)]

LEMMA SelectRowGood ==
  ASSUME NEW V, NEW w \in Goods(V), w.start # 0, w.start \in 1..(Len(w.msgs) + 1),
         PlainFrom(w.msgs, w.start),
         NEW v \in 1..Len(ChoiceTakes(w))
  PROVE  /\ SelectRow(w, w.start, v) \in Goods(V)
         /\ SelectRow(w, w.start, v).msgs = Before(w.msgs, w.start) \o ChoiceTakes(w)[v]
         /\ SelectRow(w, w.start, v).start = w.start
         /\ SelectRow(w, w.start, v).vars = w.vars
         /\ SelectRow(w, w.start, v).takes = ChoiceTakes(w)
         /\ SelectRow(w, w.start, v).active = v
         /\ PlainFrom(SelectRow(w, w.start, v).msgs, w.start)
         /\ ChoiceTakes(w)[v] \in Seq(Messages) /\ PlainFrom(ChoiceTakes(w)[v], 1)
         /\ ChoiceTakes(w) \in Seq(Seq(Messages)) /\ Len(ChoiceTakes(w)) = Len(w.takes)
<1> DEFINE n == SelectRow(w, w.start, v)
<1> DEFINE ts == ChoiceTakes(w)
<1> DEFINE p == w.start
<1> DEFINE s == SealedAt(w, p)
<1>1. /\ w \in Files /\ GoodTail(w, V) /\ w.msgs \in Seq(Messages) /\ Len(w.msgs) \in Nat
      /\ w.takes \in Seq(Seq(Messages)) /\ p \in Nat
  BY GoodsFacts
<1>2. p >= 2 /\ ("retry" \in V \/ "edit" \in V) /\ w.active \in 1..Len(w.takes)
  BY <1>1 DEF GoodTail
<1>3. /\ s \in Files /\ s.msgs = w.msgs /\ s.start = p /\ s.vars = w.vars
      /\ s.active \in 1..Len(s.takes) /\ s.takes[s.active] = From(w.msgs, p)
      /\ PlainTakes(s.takes)
      /\ s.takes = [w.takes EXCEPT ![w.active] = From(w.msgs, p)]
  <2>1. p \in 1..(Len(w.msgs) + 1)
        /\ PlainFrom(w.msgs, p) /\ w.start = p
    OBVIOUS
  <2>2. w \in Files /\ GoodTail(w, V) /\ p >= 2
    BY <1>1, <1>2
  <2> HIDE DEF p, ts
  <2>3. QED
    BY <2>1, <2>2, Sealed
<1>4. s.takes = ts /\ s.takes \in Seq(Seq(Messages)) /\ Len(s.takes) \in Nat
      /\ DOMAIN s.takes = 1..Len(s.takes)
  <2>1. ts = [w.takes EXCEPT ![w.active] = From(w.msgs, p)]
    BY DEF ChoiceTakes
  <2> HIDE DEF ts
  <2>2. QED
    BY <1>3, <2>1, LenProperties DEF Files
<1> HIDE DEF s, ts
<1>5. n = [s EXCEPT !.active = v, !.msgs = Before(w.msgs, p) \o ts[v]]
  <2>1. n = IF v \in DOMAIN s.takes
            THEN [s EXCEPT !.active = v, !.msgs = Before(s.msgs, p) \o s.takes[v]] ELSE s
    BY DEF SelectRow, s, SealedAt
  <2>2. v \in DOMAIN s.takes
    BY <1>4 DEF ts
  <2>3. QED
    BY <1>3, <1>4, <2>1, <2>2
<1> HIDE DEF n
<1>6. ts[v] \in Seq(Messages) /\ PlainFrom(ts[v], 1)
  <2>1. v \in 1..Len(s.takes)
    BY <1>4 DEF ts
  <2>2. s.takes[v] \in Seq(Messages)
    BY <1>4, <2>1, ElementOfSeq
  <2>3. QED
    BY <1>3, <1>4, <2>1, <2>2 DEF PlainTakes
<1> DEFINE ns == Before(w.msgs, p) \o ts[v]
<1>7. ns \in Seq(Messages)
  BY <1>1, <1>6, JoinFacts
<1> HIDE DEF ns
<1>8. /\ n \in Files /\ n.msgs = ns /\ n.start = p /\ n.vars = w.vars /\ n.takes = ts
      /\ n.active = v
  <2>1. v \in Nat /\ n = [s EXCEPT !.active = v, !.msgs = ns]
    BY <1>4, <1>5 DEF ns, ts
  <2>2. QED
    BY <1>3, <1>4, <1>7, <2>1 DEF Files
<1>9. n \in Goods(V) /\ PlainFrom(n.msgs, p)
  <2>1. n.active \in 1..Len(n.takes) /\ PlainTakes(n.takes)
    BY <1>3, <1>4, <1>8 DEF ts
  <2>2. n.msgs = Before(w.msgs, p) \o ts[v]
    BY <1>8 DEF ns
  <2>3. QED
    BY <1>2, <1>6, <1>8, <2>1, <2>2, Rejoined
<1>10. Len(ts) = Len(w.takes)
  <2>1. From(w.msgs, p) \in Seq(Messages)
    BY <1>1, FromFacts
  <2>2. QED
    BY <1>1, <1>2, <2>1, ExceptSeq DEF ts, ChoiceTakes
<1>11. QED
  BY <1>4, <1>6, <1>8, <1>9, <1>10 DEF ns, ts, n


(* A file cut at p, its transcript continued by u; the rows of the cut and of *)
(* the model's messages u leave it; t is a take other than the chosen one.    *)
CutTo(w, p, u) == [RetractRow(w, p) EXCEPT !.msgs = Before(w.msgs, p) \o u]
Aside(w, t) == \E k \in 1..Len(w.takes) : k # w.active /\ w.takes[k] = t
RowsCutTo(w, p, u) == MessageRows(RetractRow(w, p), u) = CutTo(w, p, u)

LEMMA MessageRowsGood ==
  ASSUME NEW V, "retry" \in V \/ "edit" \in V, NEW w \in Goods(V),
         NEW p \in 1..(Len(w.msgs) + 1), p >= 2, PlainFrom(w.msgs, p),
         NEW u \in Seq(Messages), PlainFrom(u, 1)
  PROVE  /\ MessageRows(RetractRow(w, p), u) \in Goods(V)
         /\ RowsCutTo(w, p, u)
         /\ PlainFrom(Before(w.msgs, p) \o u, p)
<1> DEFINE c == RetractRow(w, p)
<1> DEFINE ns == Before(w.msgs, p) \o u
<1> DEFINE n == [c EXCEPT !.msgs = ns]
<1>1. /\ c \in Goods(V) /\ c.msgs = Before(w.msgs, p) /\ c.start = p /\ c.vars = w.vars
      /\ PlainTakes(c.takes) /\ c.active \in 1..Len(c.takes)
  BY RetractRowGood
<1>2. c \in Files /\ w.msgs \in Seq(Messages)
  BY <1>1, GoodsFacts
<1>3. ns \in Seq(Messages)
  BY <1>2, JoinFacts
<1>4. MessageRows(c, u) = n
  <2>1. MessageRows(c, u) = LET x == [c EXCEPT !.msgs = c.msgs \o u]
                            IN IF \E i \in DOMAIN u : u[i].who = "user" THEN NoTail(x) ELSE x
    BY DEF MessageRows
  <2>2. ~ \E i \in DOMAIN u : u[i].who = "user"
    <3>1. DOMAIN u = 1..Len(u)
      BY LenProperties
    <3>2. QED
      BY <3>1 DEF PlainFrom, isAuthoredLine
  <2> HIDE DEF c
  <2>3. QED
    BY <1>1, <2>1, <2>2
<1> HIDE DEF c, ns
<1>5. /\ n \in Files /\ n.msgs = ns /\ n.start = p /\ n.vars = w.vars
      /\ n.takes = c.takes /\ n.active = c.active
  BY <1>1, <1>2, <1>3 DEF Files
<1> HIDE DEF n
<1>6. n \in Goods(V) /\ PlainFrom(n.msgs, p)
  <2>1. n.msgs = Before(w.msgs, p) \o u /\ n.active \in 1..Len(n.takes) /\ PlainTakes(n.takes)
    BY <1>1, <1>5 DEF ns
  <2>2. QED
    BY <1>5, <2>1, Rejoined
<1>7. RowsCutTo(w, p, u)
  BY <1>4 DEF RowsCutTo, CutTo, n, c, ns
<1>8. QED
  BY <1>4, <1>5, <1>6, <1>7 DEF n, c, ns

(* A checkpoint: the file keeps its cut position, and what lies behind it in  *)
(* the shorter transcript lay behind it before.                               *)
LEMMA CompactionRowGood ==
  ASSUME NEW V, "long" \notin V, NEW w \in Goods(V), NEW ns \in Seq(Messages),
         ns # <<>> => isAuthoredLine(ns[1]),
         NEW d \in Nat, Len(ns) + d <= Len(w.msgs),
         \A i \in 2..Len(ns) : ns[i] = w.msgs[i + d]
  PROVE  /\ CompactionRow(w, ns) \in Goods(V) /\ CompactionRow(w, ns).msgs = ns
         /\ CompactionRow(w, ns).vars = <<>>
<1> DEFINE n == CompactionRow(w, ns)
<1>1. /\ w \in Files /\ GoodTail(w, V) /\ Len(w.msgs) \in Nat /\ Len(ns) \in Nat /\ w.start \in Nat
  BY GoodsFacts, LenProperties
<1>2. <<>> \in MarkSets /\ DOMAIN <<>> = {}
  BY MarkSetFacts
<1>3. /\ n \in Files /\ n.msgs = ns /\ n.vars = <<>> /\ n.start = w.start /\ n.takes = w.takes
      /\ n.active = w.active
  <2>1. n = [w EXCEPT !.msgs = ns, !.vars = <<>>]
    BY DEF CompactionRow
  <2> HIDE DEF n
  <2>2. QED
    BY <1>1, <1>2, <2>1 DEF Files
<1> HIDE DEF n
<1>4. GoodMsgs(n.msgs, V) /\ GoodMarks(n.msgs, n.vars, V)
  BY <1>2, <1>3 DEF GoodMsgs, GoodMarks
<1>5. ASSUME "post" \notin V, w.start # 0 PROVE PlainFrom(ns, w.start)
  <2>1. PlainFrom(w.msgs, w.start) /\ w.start >= 2
    BY <1>1, <1>5 DEF GoodTail
  <2> SUFFICES ASSUME NEW i \in 1..Len(ns), i >= w.start PROVE ~isAuthoredLine(ns[i])
    BY DEF PlainFrom
  <2>2. i \in 2..Len(ns) /\ i + d \in 1..Len(w.msgs) /\ i + d >= w.start
    BY <1>1, <2>1
  <2>3. QED
    BY <2>1, <2>2 DEF PlainFrom
<1>6. GoodTail(n, V)
  BY <1>1, <1>3, <1>5 DEF GoodTail
<1>7. n \in Goods(V)
  BY <1>3, <1>4, <1>6 DEF Goods, GoodFile
<1>8. QED
  BY <1>3, <1>7 DEF n

(***************************************************************************)
(* Rows about one message: its text exchanged, and its takes.              *)
(***************************************************************************)

(* x is what position q of ms may become, g its file's marks then.           *)
Revised(ms, h, q, x, g, V) ==
  /\ q \in 1..Len(ms) /\ x \in Messages /\ g \in MarkSets
  /\ isAuthoredLine(x) <=> isAuthoredLine(ms[q])
  /\ "long" \in V => x.who # "summary"
  /\ \A r \in Nat \ {0} : r # q => (r \in DOMAIN g <=> r \in DOMAIN h)
  /\ \A r \in DOMAIN g : r # q => g[r] = h[r]
  /\ q \in DOMAIN g =>
       /\ "edit" \in V /\ \E i \in q..Len(ms) : isAuthoredLine(ms[i])
       /\ Len(g[q].takes) >= 2 /\ g[q].active \in 1..Len(g[q].takes) /\ g[q].takes[g[q].active] = x
       /\ \A k \in 1..Len(g[q].takes) : GoodTake(g[q].takes[k], ms[q], V)

LEMMA RevisedGood ==
  ASSUME NEW V, NEW w \in Goods(V), NEW q, NEW x, NEW g, Revised(w.msgs, w.vars, q, x, g, V)
  PROVE  [w EXCEPT !.msgs = [w.msgs EXCEPT ![q] = x], !.vars = g] \in Goods(V)
<1> DEFINE ms == w.msgs
<1> DEFINE ns == [ms EXCEPT ![q] = x]
<1> DEFINE n == [w EXCEPT !.msgs = ns, !.vars = g]
<1>1. /\ w \in Files /\ GoodMsgs(ms, V) /\ GoodTail(w, V) /\ GoodMarks(ms, w.vars, V)
      /\ ms \in Seq(Messages) /\ Len(ms) \in Nat
  BY GoodsFacts
<1>2. q \in 1..Len(ms) /\ x \in Messages /\ g \in MarkSets
      /\ (isAuthoredLine(x) <=> isAuthoredLine(ms[q]))
      /\ ("long" \in V => x.who # "summary")
  BY DEF Revised
<1> HIDE DEF ms
<1>3. /\ ns \in Seq(Messages) /\ Len(ns) = Len(ms)
      /\ \A i \in 1..Len(ms) : ns[i] = IF i = q THEN x ELSE ms[i]
  BY <1>1, <1>2, ExceptSeq
<1> HIDE DEF ns
<1>4. /\ n \in Files /\ n.msgs = ns /\ n.vars = g /\ n.start = w.start /\ n.takes = w.takes
      /\ n.active = w.active
  BY <1>1, <1>2, <1>3 DEF Files
<1> HIDE DEF n
<1>5. \A i \in 1..Len(ms) : isAuthoredLine(ns[i]) <=> isAuthoredLine(ms[i])
  BY <1>2, <1>3
<1>6. GoodMsgs(ns, V)
  <2>1. ns # <<>> => ms # <<>> /\ 1 \in 1..Len(ms)
    BY <1>1, <1>2, <1>3
  <2>2. "unline" \notin V /\ ns # <<>> => isAuthoredLine(ns[1])
    BY <1>1, <1>5, <2>1 DEF GoodMsgs
  <2>3. "long" \in V => \A i \in 1..Len(ns) : ns[i].who # "summary"
    BY <1>1, <1>2, <1>3 DEF GoodMsgs
  <2>4. QED
    BY <2>2, <2>3 DEF GoodMsgs
<1>7. GoodTail(n, V)
  <2>1. PlainFrom(ms, w.start) => PlainFrom(ns, w.start)
    BY <1>3, <1>5 DEF PlainFrom
  <2>2. QED
    BY <1>1, <1>4, <2>1 DEF GoodTail, ms
<1>8. GoodMarks(ns, g, V)
  <2>1. ASSUME NEW r \in DOMAIN g PROVE GoodMark(ns, r, g[r], V) /\ "edit" \in V
    <3>1. CASE r # q
      <4>1. r \in Nat \ {0}
        BY <1>2, MarkSetFacts
      <4>2. r \in DOMAIN w.vars /\ g[r] = w.vars[r]
        BY <3>1, <4>1 DEF Revised
      <4>3. GoodMark(ms, r, g[r], V) /\ "edit" \in V
        BY <1>1, <4>2 DEF GoodMarks
      <4>4. r \in 1..Len(ms)
        BY <4>3 DEF GoodMark
      <4>5. ns[r] = ms[r] /\ \A i \in r..Len(ms) : i \in 1..Len(ms)
        BY <1>1, <1>3, <3>1, <4>4
      <4>6. QED
        BY <1>3, <1>5, <4>3, <4>5 DEF GoodMark
    <3>2. CASE r = q
      <4>1. /\ "edit" \in V /\ \E i \in q..Len(ms) : isAuthoredLine(ms[i])
            /\ Len(g[q].takes) >= 2 /\ g[q].active \in 1..Len(g[q].takes)
            /\ g[q].takes[g[q].active] = x
            /\ \A k \in 1..Len(g[q].takes) : GoodTake(g[q].takes[k], ms[q], V)
        BY <3>2 DEF Revised, ms
      <4>2. \A i \in q..Len(ms) : i \in 1..Len(ms)
        BY <1>1, <1>2
      <4>3. ns[q] = x /\ \E i \in q..Len(ns) : isAuthoredLine(ns[i])
        BY <1>2, <1>3, <1>5, <4>1, <4>2
      <4>4. \A k \in 1..Len(g[q].takes) : GoodTake(g[q].takes[k], ns[q], V)
        BY <1>2, <4>1, <4>3 DEF GoodTake
      <4>5. QED
        BY <1>2, <1>3, <3>2, <4>1, <4>3, <4>4 DEF GoodMark
    <3>3. QED
      BY <3>1, <3>2
  <2>2. QED
    BY <2>1 DEF GoodMarks
<1>9. QED
  BY <1>4, <1>6, <1>7, <1>8 DEF Goods, GoodFile, n, ns, ms


LEMMA ReplaceRowGood ==
  ASSUME NEW V, NEW w \in Goods(V), NEW q \in 1..Len(w.msgs), q \notin DOMAIN w.vars,
         NEW x \in Messages, isAuthoredLine(x) <=> isAuthoredLine(w.msgs[q]), x.who # "summary"
  PROVE  /\ ReplaceRow(w, q, x) \in Goods(V)
         /\ ReplaceRow(w, q, x).msgs = [w.msgs EXCEPT ![q] = x]
         /\ ReplaceRow(w, q, x).vars = w.vars
<1> DEFINE ns == [w.msgs EXCEPT ![q] = x]
<1>1. w \in Files /\ w.msgs \in Seq(Messages) /\ w.vars \in MarkSets /\ DOMAIN w.msgs = 1..Len(w.msgs)
  BY GoodsFacts, LenProperties
<1>2. Revised(w.msgs, w.vars, q, x, w.vars, V)
  BY <1>1 DEF Revised
<1>3. [w EXCEPT !.msgs = ns, !.vars = w.vars] \in Goods(V)
  BY <1>2, RevisedGood
<1>4. ns \in Seq(Messages)
  BY <1>1, ExceptSeq
<1>5. ReplaceRow(w, q, x) = [w EXCEPT !.msgs = ns]
  BY <1>1 DEF ReplaceRow
<1> HIDE DEF ns
<1>6. /\ [w EXCEPT !.msgs = ns] = [w EXCEPT !.msgs = ns, !.vars = w.vars]
      /\ [w EXCEPT !.msgs = ns].msgs = ns /\ [w EXCEPT !.msgs = ns].vars = w.vars
  BY <1>1, <1>4 DEF Files
<1>7. QED
  BY <1>3, <1>5, <1>6 DEF ns

LEMMA ShiftFacts ==
  ASSUME NEW f, DOMAIN f \subseteq Nat \ {0}, NEW p \in Nat \ {0}
  PROVE  /\ DOMAIN ShiftVariantKeysOnDelete(f, p) \subseteq Nat \ {0}
         /\ \A r \in Nat \ {0} :
              /\ r \in DOMAIN ShiftVariantKeysOnDelete(f, p)
                   <=> IF r < p THEN r \in DOMAIN f ELSE r + 1 \in DOMAIN f
              /\ r \in DOMAIN ShiftVariantKeysOnDelete(f, p) =>
                   ShiftVariantKeysOnDelete(f, p)[r] = IF r < p THEN f[r] ELSE f[r + 1]
<1> DEFINE g == ShiftVariantKeysOnDelete(f, p)
<1> DEFINE D == {j \in DOMAIN f : j < p} \cup {j - 1 : j \in {k \in DOMAIN f : k > p}}
<1>1. g = [i \in D |-> IF i < p THEN f[i] ELSE f[i + 1]]
  BY DEF ShiftVariantKeysOnDelete
<1>2. D \subseteq Nat \ {0}
  <2> SUFFICES ASSUME NEW i \in D PROVE i \in Nat \ {0}
    OBVIOUS
  <2>1. CASE i \in {j \in DOMAIN f : j < p}
    BY <2>1
  <2>2. CASE i \in {j - 1 : j \in {k \in DOMAIN f : k > p}}
    <3>1. PICK j \in DOMAIN f : j > p /\ i = j - 1
      BY <2>2
    <3>2. QED
      BY <3>1
  <2>3. QED
    BY <2>1, <2>2
<1>3. ASSUME NEW r \in Nat \ {0}
      PROVE  r \in D <=> IF r < p THEN r \in DOMAIN f ELSE r + 1 \in DOMAIN f
  <2>1. CASE r < p
    <3>1. ASSUME r \in {j - 1 : j \in {k \in DOMAIN f : k > p}} PROVE FALSE
      <4>1. PICK j \in DOMAIN f : j > p /\ r = j - 1
        BY <3>1
      <4>2. QED
        BY <2>1, <4>1
    <3>2. QED
      BY <2>1, <3>1
  <2>2. CASE ~(r < p)
    <3>1. ASSUME r + 1 \in DOMAIN f PROVE r \in D
      <4>1. r + 1 > p /\ r = (r + 1) - 1
        BY <2>2
      <4>2. r + 1 \in {k \in DOMAIN f : k > p}
        BY <3>1, <4>1
      <4>3. QED
        BY <4>1, <4>2
    <3>2. ASSUME r \in D PROVE r + 1 \in DOMAIN f
      <4>1. r \in {j - 1 : j \in {k \in DOMAIN f : k > p}}
        BY <2>2, <3>2
      <4>2. PICK j \in DOMAIN f : j > p /\ r = j - 1
        BY <4>1
      <4>3. j = r + 1
        BY <4>2
      <4>4. QED
        BY <4>2, <4>3
    <3>3. QED
      BY <2>2, <3>1, <3>2
  <2>3. QED
    BY <2>1, <2>2
<1> HIDE DEF D
<1>4. DOMAIN g = D /\ \A r \in D : g[r] = IF r < p THEN f[r] ELSE f[r + 1]
  BY <1>1
<1> HIDE DEF g
<1>5. DOMAIN g \subseteq Nat \ {0}
  BY <1>2, <1>4
<1>6. ASSUME NEW r \in Nat \ {0}
      PROVE  /\ r \in DOMAIN g <=> IF r < p THEN r \in DOMAIN f ELSE r + 1 \in DOMAIN f
             /\ r \in DOMAIN g => g[r] = IF r < p THEN f[r] ELSE f[r + 1]
  BY <1>3, <1>4
<1>7. QED
  BY <1>5, <1>6 DEF g

LEMMA ShiftIsMarkSet ==
  ASSUME NEW f \in MarkSets, NEW p \in Nat \ {0}
  PROVE  ShiftVariantKeysOnDelete(f, p) \in MarkSets
<1> DEFINE g == ShiftVariantKeysOnDelete(f, p)
<1>1. DOMAIN f \subseteq Nat \ {0} /\ \A q \in DOMAIN f : f[q] \in Mark
  BY MarkSetFacts
<1>2. /\ DOMAIN g \subseteq Nat \ {0}
      /\ \A r \in Nat \ {0} :
           /\ r \in DOMAIN g <=> IF r < p THEN r \in DOMAIN f ELSE r + 1 \in DOMAIN f
           /\ r \in DOMAIN g => g[r] = IF r < p THEN f[r] ELSE f[r + 1]
  BY <1>1, ShiftFacts
<1>3. g = [r \in DOMAIN g |-> g[r]]
  BY DEF ShiftVariantKeysOnDelete
<1> HIDE DEF g
<1>4. \A r \in DOMAIN g : g[r] \in Mark
  BY <1>1, <1>2
<1>5. g \in [DOMAIN g -> Mark]
  BY <1>3, <1>4
<1>6. g \in MarkSets
  BY <1>2, <1>5, MarkSetFacts
<1>7. QED
  BY <1>6 DEF g

LEMMA DeleteRowGood ==
  ASSUME NEW V, Apart(V), NEW w \in Goods(V), NEW p \in 1..Len(w.msgs),
         "unline" \notin V => ~isAuthoredLine(w.msgs[p])
  PROVE  /\ DeleteRow(w, p) \in Goods(V) /\ DeleteRow(w, p).msgs = RemoveAt(w.msgs, p)
         /\ DeleteRow(w, p).vars = ShiftVariantKeysOnDelete(w.vars, p)
<1> DEFINE ms == w.msgs
<1> DEFINE ns == RemoveAt(ms, p)
<1> DEFINE g == ShiftVariantKeysOnDelete(w.vars, p)
<1> DEFINE n == [w EXCEPT !.msgs = ns, !.vars = g]
<1>1. /\ w \in Files /\ GoodMsgs(ms, V) /\ GoodTail(w, V) /\ GoodMarks(ms, w.vars, V)
      /\ ms \in Seq(Messages) /\ Len(ms) \in Nat /\ w.vars \in MarkSets /\ w.start \in Nat
      /\ DOMAIN ms = 1..Len(ms)
  BY GoodsFacts, LenProperties
<1>2. DOMAIN w.vars \subseteq Nat \ {0} /\ p \in Nat \ {0} /\ p \in 1..Len(ms)
  BY <1>1, MarkSetFacts
<1>3. g \in MarkSets /\ DOMAIN g \subseteq Nat \ {0}
      /\ \A r \in Nat \ {0} :
           /\ r \in DOMAIN g <=> IF r < p THEN r \in DOMAIN w.vars ELSE r + 1 \in DOMAIN w.vars
           /\ r \in DOMAIN g => g[r] = IF r < p THEN w.vars[r] ELSE w.vars[r + 1]
  BY <1>1, <1>2, ShiftFacts, ShiftIsMarkSet
<1>4. /\ DeleteRow(w, p) = IF w.start = 0 THEN n
                           ELSE IF p >= w.start THEN NoTail(n) ELSE [n EXCEPT !.start = w.start - 1]
  BY <1>1, <1>2 DEF DeleteRow
<1> HIDE DEF g
<1>5. "unline" \notin V => ~isAuthoredLine(ms[p])
  OBVIOUS
<1> HIDE DEF ms
<1>6. /\ ns \in Seq(Messages) /\ Len(ns) = Len(ms) - 1
      /\ \A i \in 1..(Len(ms) - 1) : ns[i] = IF i < p THEN ms[i] ELSE ms[i + 1]
  BY <1>1, <1>2, RemoveFacts
<1> HIDE DEF ns
<1>7. /\ n \in Files /\ n.msgs = ns /\ n.vars = g /\ n.start = w.start /\ n.takes = w.takes
      /\ n.active = w.active
  BY <1>1, <1>3, <1>6 DEF Files
<1> HIDE DEF n
<1>8. "unline" \notin V => p >= 2
  <2>1. ms # <<>>
    BY <1>2
  <2>2. "unline" \notin V => isAuthoredLine(ms[1])
    BY <1>1, <2>1 DEF GoodMsgs
  <2>3. QED
    BY <1>2, <1>5, <2>2
<1>9. GoodMsgs(ns, V)
  <2>1. ns # <<>> => 1 \in 1..(Len(ms) - 1)
    BY <1>1, <1>6, EmptySeq
  <2>2. ms # <<>>
    BY <1>2
  <2>3. "unline" \notin V /\ ns # <<>> => isAuthoredLine(ns[1])
    BY <1>1, <1>2, <1>6, <1>8, <2>1, <2>2 DEF GoodMsgs
  <2>4. ASSUME "long" \in V, NEW i \in 1..Len(ns) PROVE ns[i].who # "summary"
    <3>1. i \in 1..(Len(ms) - 1) /\ i \in 1..Len(ms) /\ i + 1 \in 1..Len(ms)
      BY <1>1, <1>6
    <3>2. QED
      BY <1>1, <1>6, <2>4, <3>1 DEF GoodMsgs
  <2>5. QED
    BY <2>3, <2>4 DEF GoodMsgs
<1>10. GoodMarks(ns, g, V)
  <2>1. ASSUME NEW r \in DOMAIN g PROVE GoodMark(ns, r, g[r], V) /\ "edit" \in V
    <3> DEFINE q == IF r < p THEN r ELSE r + 1
    <3>1. r \in Nat \ {0} /\ q \in DOMAIN w.vars /\ g[r] = w.vars[q]
      BY <1>3
    <3>2. GoodMark(ms, q, g[r], V) /\ "edit" \in V
      BY <1>1, <3>1 DEF GoodMarks
    <3>3. ~isAuthoredLine(ms[p])
      BY <1>5, <3>2 DEF Apart
    <3>4. PICK i \in q..Len(ms) : isAuthoredLine(ms[i])
      BY <3>2 DEF GoodMark
    <3>5. q \in 1..Len(ms) /\ q # p
      BY <1>2, <3>1, <3>2 DEF GoodMark
    <3> HIDE DEF q
    <3>6. i \in 1..Len(ms) /\ i >= q /\ i # p
      BY <1>1, <3>3, <3>4, <3>5
    <3> DEFINE j == IF i < p THEN i ELSE i - 1
    <3>7. j \in 1..(Len(ms) - 1) /\ r \in 1..(Len(ms) - 1) /\ j \in r..(Len(ms) - 1)
      BY <1>1, <1>2, <3>1, <3>5, <3>6 DEF q
    <3>8. ns[j] = ms[i]
      BY <1>2, <1>6, <3>6, <3>7
    <3>9. ns[r] = ms[q]
      BY <1>6, <3>7 DEF q
    <3> HIDE DEF j
    <3>10. QED
      BY <1>6, <3>2, <3>4, <3>7, <3>8, <3>9 DEF GoodMark
  <2>2. QED
    BY <2>1 DEF GoodMarks
<1>11. CASE w.start = 0
  <2>1. GoodTail(n, V)
    BY <1>1, <1>7, <1>11 DEF GoodTail
  <2>2. QED
    BY <1>4, <1>7, <1>9, <1>10, <1>11, <2>1 DEF Goods, GoodFile, ns, g, ms
<1>12. CASE w.start # 0 /\ p >= w.start
  <2>1. NoTail(n) \in Goods(V) /\ NoTail(n).msgs = n.msgs /\ NoTail(n).vars = n.vars
    BY <1>7, <1>9, <1>10, NoTailGood
  <2>2. QED
    BY <1>4, <1>7, <1>12, <2>1 DEF ns, g, ms
<1>13. CASE w.start # 0 /\ ~(p >= w.start)
  <2> DEFINE d == [n EXCEPT !.start = w.start - 1]
  <2>1. "unline" \notin V /\ w.start - 1 \in Nat /\ w.start - 1 >= 2
    <3>1. "retry" \in V \/ "edit" \in V
      BY <1>1, <1>13 DEF GoodTail
    <3>2. "unline" \notin V
      BY <3>1 DEF Apart
    <3>3. QED
      BY <1>1, <1>2, <1>8, <1>13, <3>2
  <2>2. /\ d \in Files /\ d.msgs = ns /\ d.vars = g /\ d.start = w.start - 1 /\ d.takes = w.takes
        /\ d.active = w.active
    BY <1>7, <2>1 DEF Files
  <2> HIDE DEF d
  <2>3. ASSUME PlainFrom(ms, w.start) PROVE PlainFrom(ns, w.start - 1)
    <3> SUFFICES ASSUME NEW i \in 1..Len(ns), i >= w.start - 1 PROVE ~isAuthoredLine(ns[i])
      BY DEF PlainFrom
    <3>1. i \in 1..(Len(ms) - 1) /\ ~(i < p) /\ i + 1 \in 1..Len(ms) /\ i + 1 >= w.start
      BY <1>1, <1>2, <1>6, <1>13
    <3>2. QED
      BY <1>6, <2>3, <3>1 DEF PlainFrom
  <2>4. GoodTail(d, V)
    BY <1>1, <1>13, <2>1, <2>2, <2>3 DEF GoodTail, ms
  <2>5. d \in Goods(V)
    BY <1>9, <1>10, <2>2, <2>4 DEF Goods, GoodFile
  <2>6. QED
    BY <1>4, <1>13, <2>2, <2>5 DEF ns, g, ms, d
<1>14. QED
  BY <1>11, <1>12, <1>13


(***************************************************************************)
(* What a session remembers agrees with its file w: its transcript l is    *)
(* the part behind its base b, the takes t of its end and the marks m are  *)
(* the file's.                                                             *)
(***************************************************************************)
TailAt(w, l, s) ==
  [start |-> s, takes |-> [w.takes EXCEPT ![w.active] = From(l, s)], active |-> w.active]
TailSync(t, w, l, b) ==
  t # NoSwipe =>
    \E s \in 1..(Len(l) + 1) : w.start = s + b /\ t = TailAt(w, l, s) /\ PlainFrom(l, s)

Drawn(f) == {[takes |-> ts, count |-> Len(f.takes), active |-> f.active] : ts \in {<<>>, f.takes}}
MarksSync(m, w, b) ==
  /\ DOMAIN m \subseteq Nat \ {0}
  /\ \A p \in Nat \ {0} : p \in DOMAIN m <=> p + b \in DOMAIN w.vars
  /\ \A p \in DOMAIN m : m[p] \in Drawn(w.vars[p + b])

Synced(l, t, m, b, w) ==
  l \in Seq(Messages) /\ Shows(l, b, w.msgs) /\ TailSync(t, w, l, b) /\ MarksSync(m, w, b)

(* A marked message is shown, as its chosen take, before the response that   *)
(* ends the transcript.                                                       *)
LEMMA MarkShown ==
  ASSUME NEW V, NEW w \in Goods(V), NEW b \in Nat, NEW l, NEW t, NEW m, Synced(l, t, m, b, w),
         NEW p \in DOMAIN m
  PROVE  /\ p \in 1..Len(l) /\ p + b \in DOMAIN w.vars /\ p + b \in 1..Len(w.msgs)
         /\ l[p] = w.msgs[p + b] /\ GoodMark(w.msgs, p + b, w.vars[p + b], V) /\ "edit" \in V
         /\ m[p] \in Drawn(w.vars[p + b]) /\ \E i \in p..Len(l) : isAuthoredLine(l[i])
<1>1. w.msgs \in Seq(Messages) /\ Len(w.msgs) \in Nat /\ GoodMarks(w.msgs, w.vars, V)
  BY GoodsFacts
<1>2. /\ l \in Seq(Messages) /\ Len(l) \in Nat /\ Shows(l, b, w.msgs) /\ MarksSync(m, w, b)
  BY LenProperties DEF Synced
<1>3. p \in Nat \ {0} /\ p + b \in DOMAIN w.vars /\ m[p] \in Drawn(w.vars[p + b])
  BY <1>2 DEF MarksSync
<1>4. GoodMark(w.msgs, p + b, w.vars[p + b], V) /\ "edit" \in V
  BY <1>1, <1>3 DEF GoodMarks
<1>5. p + b \in 1..Len(w.msgs)
  BY <1>4 DEF GoodMark
<1>6. Len(w.msgs) = b + Len(l) /\ \A i \in 1..Len(l) : l[i] = w.msgs[i + b]
  BY <1>2 DEF Shows
<1>7. p \in 1..Len(l)
  BY <1>2, <1>3, <1>5, <1>6
<1>8. \E i \in p..Len(l) : isAuthoredLine(l[i])
  <2>1. PICK j \in (p + b)..Len(w.msgs) : isAuthoredLine(w.msgs[j])
    BY <1>4 DEF GoodMark
  <2>2. j - b \in p..Len(l) /\ j - b \in 1..Len(l) /\ (j - b) + b = j
    BY <1>2, <1>3, <1>6
  <2>3. l[j - b] = w.msgs[j]
    BY <1>6, <2>2
  <2>4. QED
    BY <2>1, <2>2, <2>3
<1>9. QED
  BY <1>3, <1>4, <1>5, <1>6, <1>7, <1>8

LEMMA FromExcept ==
  ASSUME NEW l \in Seq(Messages), NEW p \in 1..Len(l), NEW x \in Messages,
         NEW s \in 1..(Len(l) + 1), p < s
  PROVE  From([l EXCEPT ![p] = x], s) = From(l, s)
<1> DEFINE k == [l EXCEPT ![p] = x]
<1>1. /\ k \in Seq(Messages) /\ Len(k) = Len(l)
      /\ \A i \in 1..Len(l) : k[i] = IF i = p THEN x ELSE l[i]
  BY ExceptSeq
<1>2. Len(l) \in Nat
  BY LenProperties
<1> HIDE DEF k
<1> DEFINE f == From(k, s)
<1> DEFINE g == From(l, s)
<1>3. /\ f \in Seq(Messages) /\ Len(f) = Len(l) - s + 1
      /\ \A i \in 1..(Len(l) - s + 1) : f[i] = k[s + i - 1]
  <2>1. s \in 1..(Len(k) + 1)
    BY <1>1
  <2>2. /\ From(k, s) \in Seq(Messages) /\ Len(From(k, s)) = Len(k) - s + 1
        /\ \A i \in 1..(Len(k) - s + 1) : From(k, s)[i] = k[s + i - 1]
    BY <1>1, <2>1, FromFacts
  <2>3. QED
    BY <1>1, <2>2
<1>4. /\ g \in Seq(Messages) /\ Len(g) = Len(l) - s + 1
      /\ \A i \in 1..(Len(l) - s + 1) : g[i] = l[s + i - 1]
  BY FromFacts
<1> HIDE DEF f, g
<1>5. ASSUME NEW i \in 1..Len(f) PROVE f[i] = g[i]
  <2>1. i \in 1..(Len(l) - s + 1) /\ s + i - 1 \in 1..Len(l) /\ s + i - 1 # p
    BY <1>2, <1>3
  <2>2. QED
    BY <1>1, <1>3, <1>4, <2>1
<1>6. f = g
  BY <1>3, <1>4, <1>5, SeqEqual
<1>7. QED
  BY <1>6 DEF f, g, k

(* A row that changes a message before the last response, or its takes. *)
LEMMA RevisedSync ==
  ASSUME NEW V, NEW w \in Goods(V), NEW b \in Nat, NEW l, NEW t, NEW m, Synced(l, t, m, b, w),
         NEW p \in 1..Len(l), \E i \in p..Len(l) : isAuthoredLine(l[i]),
         NEW x, NEW g, Revised(w.msgs, w.vars, p + b, x, g, V),
         NEW n, DOMAIN n \subseteq Nat \ {0}, \A r \in Nat \ {0} : r # p => (r \in DOMAIN n <=> r \in DOMAIN m),
         \A r \in DOMAIN n : r # p => n[r] = m[r],
         p \in DOMAIN n <=> p + b \in DOMAIN g,
         p \in DOMAIN n => n[p] \in Drawn(g[p + b])
  PROVE  Synced([l EXCEPT ![p] = x], t, n, b,
                [w EXCEPT !.msgs = [w.msgs EXCEPT ![p + b] = x], !.vars = g])
<1> DEFINE k == [l EXCEPT ![p] = x]
<1> DEFINE ns == [w.msgs EXCEPT ![p + b] = x]
<1> DEFINE y == [w EXCEPT !.msgs = ns, !.vars = g]
<1>1. w \in Files /\ w.msgs \in Seq(Messages) /\ Len(w.msgs) \in Nat
  BY GoodsFacts
<1>2. /\ l \in Seq(Messages) /\ Len(l) \in Nat /\ Shows(l, b, w.msgs) /\ TailSync(t, w, l, b)
      /\ MarksSync(m, w, b)
  BY LenProperties DEF Synced
<1>3. /\ x \in Messages /\ g \in MarkSets /\ (isAuthoredLine(x) <=> isAuthoredLine(w.msgs[p + b]))
      /\ \A r \in Nat \ {0} : r # p + b => (r \in DOMAIN g <=> r \in DOMAIN w.vars)
      /\ \A r \in DOMAIN g : r # p + b => g[r] = w.vars[r]
  BY DEF Revised
<1>4. /\ k \in Seq(Messages) /\ Len(k) = Len(l)
      /\ \A i \in 1..Len(l) : k[i] = IF i = p THEN x ELSE l[i]
  BY <1>2, <1>3, ExceptSeq
<1>5. Shows(k, b, ns)
  BY <1>1, <1>2, <1>3, ShowsExcept
<1>6. l[p] = w.msgs[p + b]
  BY <1>2 DEF Shows
<1>7. \A s \in 1..(Len(l) + 1) : PlainFrom(l, s) => From(k, s) = From(l, s) /\ PlainFrom(k, s)
  <2> SUFFICES ASSUME NEW s \in 1..(Len(l) + 1), PlainFrom(l, s)
               PROVE  From(k, s) = From(l, s) /\ PlainFrom(k, s)
    OBVIOUS
  <2>1. PICK i \in p..Len(l) : isAuthoredLine(l[i])
    OBVIOUS
  <2>2. i \in 1..Len(l) /\ ~(i >= s)
    BY <1>2, <2>1 DEF PlainFrom
  <2>3. p < s
    BY <1>2, <2>2
  <2>4. From(k, s) = From(l, s)
    BY <1>2, <1>3, <2>3, FromExcept
  <2> HIDE DEF k
  <2>5. PlainFrom(k, s)
    BY <1>2, <1>4, <2>3 DEF PlainFrom
  <2>6. QED
    BY <2>4, <2>5
<1> HIDE DEF k
<1>8. ns \in Seq(Messages)
  <2>1. p + b \in 1..Len(w.msgs)
    BY DEF Revised
  <2>2. QED
    BY <1>1, <1>3, <2>1, ExceptSeq
<1> HIDE DEF ns
<1>9. /\ y.msgs = ns /\ y.vars = g /\ y.start = w.start /\ y.takes = w.takes /\ y.active = w.active
  BY <1>1, <1>3, <1>8 DEF Files
<1> HIDE DEF y
<1>10. TailSync(t, y, k, b)
  <2> SUFFICES ASSUME t # NoSwipe
               PROVE  \E s \in 1..(Len(k) + 1) :
                        y.start = s + b /\ t = TailAt(y, k, s) /\ PlainFrom(k, s)
    BY DEF TailSync
  <2>1. PICK s \in 1..(Len(l) + 1) : w.start = s + b /\ t = TailAt(w, l, s) /\ PlainFrom(l, s)
    BY <1>2 DEF TailSync
  <2>2. From(k, s) = From(l, s) /\ PlainFrom(k, s)
    BY <1>7, <2>1
  <2>3. TailAt(y, k, s) = TailAt(w, l, s)
    BY <1>9, <2>2 DEF TailAt
  <2>4. QED
    BY <1>4, <1>9, <2>1, <2>2, <2>3
<1>11. MarksSync(n, y, b)
  <2>1. ASSUME NEW r \in Nat \ {0} PROVE r \in DOMAIN n <=> r + b \in DOMAIN g
    <3>1. CASE r = p
      BY <3>1
    <3>2. CASE r # p
      <4>1. r + b # p + b /\ r + b \in Nat \ {0}
        BY <1>2, <3>2
      <4>2. QED
        BY <1>2, <1>3, <3>2, <4>1 DEF MarksSync
    <3>3. QED
      BY <3>1, <3>2
  <2>2. ASSUME NEW r \in DOMAIN n PROVE n[r] \in Drawn(g[r + b])
    <3>1. CASE r = p
      BY <3>1
    <3>2. CASE r # p
      <4>1. r \in Nat \ {0} /\ r \in DOMAIN m /\ n[r] = m[r]
        BY <3>2
      <4>2. r + b # p + b
        BY <1>2, <3>2, <4>1
      <4>3. g[r + b] = w.vars[r + b]
        BY <1>3, <2>1, <4>1, <4>2
      <4>4. QED
        BY <1>2, <4>1, <4>3 DEF MarksSync
    <3>3. QED
      BY <3>1, <3>2
  <2>3. QED
    BY <1>9, <2>1, <2>2 DEF MarksSync
<1>12. QED
  BY <1>4, <1>5, <1>9, <1>10, <1>11 DEF Synced, y, k, ns


(* A row that leaves the marks where they are; the session forgets its end.  *)
LEMMA PlainSync ==
  ASSUME NEW w, NEW n, NEW b, NEW m, NEW k \in Seq(Messages), MarksSync(m, w, b),
         n.vars = w.vars, Shows(k, b, n.msgs)
  PROVE  Synced(k, NoSwipe, m, b, n)
<1>1. MarksSync(m, n, b)
  BY DEF MarksSync
<1>2. QED
  BY <1>1 DEF Synced, TailSync

LEMMA ShiftSync ==
  ASSUME NEW w \in Files, NEW b \in Nat, NEW m, MarksSync(m, w, b), NEW p \in Nat \ {0},
         NEW n, n.vars = ShiftVariantKeysOnDelete(w.vars, p + b)
  PROVE  MarksSync(ShiftVariantKeysOnDelete(m, p), n, b)
<1> DEFINE k == ShiftVariantKeysOnDelete(m, p)
<1> DEFINE g == ShiftVariantKeysOnDelete(w.vars, p + b)
<1>1. w.vars \in MarkSets
  BY DEF Files
<1>2. DOMAIN w.vars \subseteq Nat \ {0} /\ p + b \in Nat \ {0}
  BY <1>1, MarkSetFacts
<1>3. /\ DOMAIN m \subseteq Nat \ {0}
      /\ \A r \in Nat \ {0} : r \in DOMAIN m <=> r + b \in DOMAIN w.vars
      /\ \A r \in DOMAIN m : m[r] \in Drawn(w.vars[r + b])
  BY DEF MarksSync
<1>4. /\ DOMAIN k \subseteq Nat \ {0}
      /\ \A r \in Nat \ {0} :
           /\ r \in DOMAIN k <=> IF r < p THEN r \in DOMAIN m ELSE r + 1 \in DOMAIN m
           /\ r \in DOMAIN k => k[r] = IF r < p THEN m[r] ELSE m[r + 1]
  BY <1>3, ShiftFacts
<1>5. \A r \in Nat \ {0} :
        /\ r \in DOMAIN g <=> IF r < p + b THEN r \in DOMAIN w.vars ELSE r + 1 \in DOMAIN w.vars
        /\ r \in DOMAIN g => g[r] = IF r < p + b THEN w.vars[r] ELSE w.vars[r + 1]
  <2> DEFINE q == p + b
  <2>1. q \in Nat \ {0}
    BY <1>2
  <2> HIDE DEF q
  <2> DEFINE h == ShiftVariantKeysOnDelete(w.vars, q)
  <2>2. \A r \in Nat \ {0} :
          /\ r \in DOMAIN h <=> IF r < q THEN r \in DOMAIN w.vars ELSE r + 1 \in DOMAIN w.vars
          /\ r \in DOMAIN h => h[r] = IF r < q THEN w.vars[r] ELSE w.vars[r + 1]
    BY <1>2, <2>1, ShiftFacts
  <2>3. QED
    BY <2>2 DEF q
<1> HIDE DEF k, g
<1>6. ASSUME NEW r \in Nat \ {0} PROVE r \in DOMAIN k <=> r + b \in DOMAIN g
  <2>1. r + b \in Nat \ {0} /\ (r < p <=> r + b < p + b) /\ (r + b) + 1 = (r + 1) + b
        /\ r + 1 \in Nat \ {0}
    OBVIOUS
  <2>2. r \in DOMAIN g => r \in Nat \ {0}
    OBVIOUS
  <2>3. CASE r < p
    BY <1>3, <1>4, <1>5, <2>1, <2>3
  <2>4. CASE ~(r < p)
    <3>1. r \in DOMAIN k <=> r + 1 \in DOMAIN m
      BY <1>4, <2>4
    <3>2. r + b \in DOMAIN g <=> (r + 1) + b \in DOMAIN w.vars
      BY <1>5, <2>1, <2>4
    <3>3. QED
      BY <1>3, <2>1, <3>1, <3>2
  <2>5. QED
    BY <2>3, <2>4
<1>7. ASSUME NEW r \in DOMAIN k PROVE k[r] \in Drawn(g[r + b])
  <2>1. r \in Nat \ {0}
    BY <1>4
  <2>2. r + b \in DOMAIN g
    BY <1>6, <2>1
  <2>3. r + b \in Nat \ {0} /\ (r < p <=> r + b < p + b) /\ (r + b) + 1 = (r + 1) + b
    BY <2>1
  <2>4. CASE r < p
    <3>1. k[r] = m[r] /\ r \in DOMAIN m
      BY <1>4, <2>1, <2>4
    <3>2. g[r + b] = w.vars[r + b]
      BY <1>5, <2>2, <2>3, <2>4
    <3>3. QED
      BY <1>3, <3>1, <3>2
  <2>5. CASE ~(r < p)
    <3>1. k[r] = m[r + 1] /\ r + 1 \in DOMAIN m
      BY <1>4, <2>1, <2>5
    <3>2. g[r + b] = w.vars[(r + 1) + b]
      BY <1>5, <2>2, <2>3, <2>5
    <3>3. QED
      BY <1>3, <3>1, <3>2
  <2>6. QED
    BY <2>4, <2>5
<1>8. n.vars = g
  BY DEF g
<1>9. MarksSync(k, n, b)
  BY <1>4, <1>6, <1>7, <1>8 DEF MarksSync
<1>10. QED
  BY <1>9 DEF k

LEMMA DeleteSync ==
  ASSUME NEW V, Apart(V), NEW w \in Goods(V), NEW b \in Nat, NEW l, NEW t, NEW m,
         Synced(l, t, m, b, w), NEW p \in 1..Len(l), "unline" \notin V => ~isAuthoredLine(l[p])
  PROVE  /\ DeleteRow(w, p + b) \in Goods(V)
         /\ Synced(RemoveAt(l, p), NoSwipe, ShiftVariantKeysOnDelete(m, p), b, DeleteRow(w, p + b))
<1> DEFINE n == DeleteRow(w, p + b)
<1>1. w \in Files /\ w.msgs \in Seq(Messages)
  BY GoodsFacts
<1>2. l \in Seq(Messages) /\ Len(l) \in Nat /\ Shows(l, b, w.msgs) /\ MarksSync(m, w, b)
  BY LenProperties DEF Synced
<1>3. p + b \in 1..Len(w.msgs) /\ l[p] = w.msgs[p + b]
  BY <1>2 DEF Shows
<1>4. /\ n \in Goods(V) /\ n.msgs = RemoveAt(w.msgs, p + b)
      /\ n.vars = ShiftVariantKeysOnDelete(w.vars, p + b)
  <2> DEFINE q == p + b
  <2>1. q \in 1..Len(w.msgs) /\ ("unline" \notin V => ~isAuthoredLine(w.msgs[q]))
    BY <1>3
  <2> HIDE DEF q
  <2>2. /\ DeleteRow(w, q) \in Goods(V) /\ DeleteRow(w, q).msgs = RemoveAt(w.msgs, q)
        /\ DeleteRow(w, q).vars = ShiftVariantKeysOnDelete(w.vars, q)
    BY <2>1, DeleteRowGood
  <2>3. QED
    BY <2>2 DEF q
<1> HIDE DEF n
<1>5. Shows(RemoveAt(l, p), b, n.msgs) /\ RemoveAt(l, p) \in Seq(Messages)
  <2>1. Shows(RemoveAt(l, p), b, RemoveAt(w.msgs, p + b))
    BY <1>1, <1>2, ShowsRemove
  <2>2. RemoveAt(l, p) \in Seq(Messages)
    BY <1>2, RemoveFacts
  <2>3. QED
    BY <1>4, <2>1, <2>2
<1>6. MarksSync(ShiftVariantKeysOnDelete(m, p), n, b)
  <2>1. p \in Nat \ {0}
    BY <1>2
  <2>2. QED
    BY <1>1, <1>2, <1>4, <2>1, ShiftSync
<1>7. QED
  BY <1>4, <1>5, <1>6 DEF Synced, TailSync, n

(* A text that is withdrawn: its row and the one that deletes it.             *)
LEMMA WithdrawnSync ==
  ASSUME NEW V, NEW w \in Goods(V), NEW b \in Nat, NEW l \in Seq(Messages), NEW m,
         Shows(l, b, w.msgs), MarksSync(m, w, b), NEW u \in Messages, u.who = "user"
  PROVE  /\ DeleteRow(MessageRow(w, u), Len(l) + 1 + b) \in Goods(V)
         /\ Synced(l, NoSwipe, ShiftVariantKeysOnDelete(m, Len(l) + 1), b,
                   DeleteRow(MessageRow(w, u), Len(l) + 1 + b))
<1> DEFINE a == MessageRow(w, u)
<1> DEFINE q == Len(l) + 1 + b
<1> DEFINE n == DeleteRow(a, q)
<1> DEFINE g == ShiftVariantKeysOnDelete(w.vars, q)
<1>1. /\ w \in Files /\ GoodMsgs(w.msgs, V) /\ GoodMarks(w.msgs, w.vars, V)
      /\ w.msgs \in Seq(Messages) /\ Len(w.msgs) \in Nat /\ w.vars \in MarkSets
  BY GoodsFacts
<1>2. Len(l) \in Nat /\ Len(w.msgs) = b + Len(l)
  BY LenProperties DEF Shows
<1>3. q = Len(w.msgs) + 1 /\ q \in Nat \ {0}
  BY <1>2
<1>4. a \in Goods(V) /\ a.msgs = Append(w.msgs, u) /\ a.vars = w.vars /\ a.start = 0
  BY MessageRowGood
<1>5. a \in Files /\ a.msgs \in Seq(Messages)
  BY <1>4, GoodsFacts
<1> HIDE DEF a
<1>6. /\ Append(w.msgs, u) \in Seq(Messages) /\ Len(Append(w.msgs, u)) = Len(w.msgs) + 1
      /\ \A i \in 1..Len(w.msgs) : Append(w.msgs, u)[i] = w.msgs[i]
  BY <1>1, AppendFacts
<1>7. q \in DOMAIN a.msgs /\ q \in 1..Len(a.msgs)
  BY <1>1, <1>3, <1>4, <1>6, LenProperties
<1>8. RemoveAt(a.msgs, q) = w.msgs
  <2> DEFINE r == RemoveAt(a.msgs, q)
  <2>1. /\ r \in Seq(Messages) /\ Len(r) = Len(a.msgs) - 1
        /\ \A i \in 1..(Len(a.msgs) - 1) : r[i] = IF i < q THEN a.msgs[i] ELSE a.msgs[i + 1]
    <3> HIDE DEF q
    <3>1. QED
      BY <1>5, <1>7, RemoveFacts
  <2>2. Len(a.msgs) - 1 = Len(w.msgs)
    BY <1>1, <1>4, <1>6
  <2> HIDE DEF r
  <2>3. ASSUME NEW i \in 1..Len(w.msgs) PROVE r[i] = w.msgs[i]
    <3>1. i < q
      BY <1>1, <1>3
    <3> HIDE DEF q
    <3>2. QED
      BY <1>4, <1>6, <2>1, <2>2, <3>1
  <2>4. r = w.msgs
    BY <1>1, <2>1, <2>2, <2>3, SeqEqual
  <2>5. QED
    BY <2>4 DEF r
<1>9. g \in MarkSets /\ g = w.vars
  <2>1. DOMAIN w.vars \subseteq Nat \ {0} /\ w.vars = [r \in DOMAIN w.vars |-> w.vars[r]]
    BY <1>1, MarkSetFacts
  <2>2. \A r \in DOMAIN w.vars : r < q
    <3> TAKE r \in DOMAIN w.vars
    <3>1. r \in 1..Len(w.msgs)
      BY <1>1 DEF GoodMarks, GoodMark
    <3>2. QED
      BY <1>1, <1>3, <3>1
  <2> HIDE DEF q
  <2>3. /\ DOMAIN g \subseteq Nat \ {0}
        /\ \A r \in Nat \ {0} :
             /\ r \in DOMAIN g <=> IF r < q THEN r \in DOMAIN w.vars ELSE r + 1 \in DOMAIN w.vars
             /\ r \in DOMAIN g => g[r] = IF r < q THEN w.vars[r] ELSE w.vars[r + 1]
    <3>1. DOMAIN w.vars \subseteq Nat \ {0} /\ q \in Nat \ {0}
      BY <1>3, <2>1
    <3>2. QED
      BY <3>1, ShiftFacts
  <2>4. g = [r \in DOMAIN g |-> g[r]]
    BY DEF ShiftVariantKeysOnDelete
  <2> HIDE DEF g
  <2>5. DOMAIN g = DOMAIN w.vars
    <3>1. ASSUME NEW r \in Nat \ {0} PROVE r \in DOMAIN g <=> r \in DOMAIN w.vars
      <4>1. CASE r < q
        BY <2>3, <4>1
      <4>2. CASE ~(r < q)
        <5>1. ~(r + 1 < q)
          BY <1>3, <4>2
        <5>2. r \notin DOMAIN w.vars /\ r + 1 \notin DOMAIN w.vars
          BY <2>2, <4>2, <5>1
        <5>3. QED
          BY <2>3, <4>2, <5>2
      <4>3. QED
        BY <4>1, <4>2
    <3>2. QED
      BY <2>1, <2>3, <3>1
  <2>6. \A r \in DOMAIN w.vars : g[r] = w.vars[r]
    BY <2>1, <2>2, <2>3, <2>5
  <2>7. g = w.vars
    BY <2>1, <2>4, <2>5, <2>6
  <2>8. QED
    BY <1>1, <2>7
<1>10. n = [a EXCEPT !.msgs = w.msgs, !.vars = w.vars]
  <2>1. n = LET x == [a EXCEPT !.msgs = RemoveAt(a.msgs, q), !.vars = ShiftVariantKeysOnDelete(a.vars, q)]
            IN IF a.start = 0 THEN x
               ELSE IF q >= a.start THEN NoTail(x) ELSE [x EXCEPT !.start = a.start - 1]
    BY <1>7 DEF DeleteRow
  <2>2. QED
    BY <1>4, <1>8, <1>9, <2>1
<1> HIDE DEF n
<1>11. /\ n \in Files /\ n.msgs = w.msgs /\ n.vars = w.vars /\ n.start = 0 /\ n.takes = a.takes
  BY <1>1, <1>4, <1>5, <1>10 DEF Files
<1>12. GoodTail(n, V)
  BY <1>4, <1>11, GoodsFacts DEF GoodTail
<1>13. n \in Goods(V)
  BY <1>1, <1>11, <1>12 DEF Goods, GoodFile
<1>14. MarksSync(ShiftVariantKeysOnDelete(m, Len(l) + 1), n, b)
  <2> DEFINE p == Len(l) + 1
  <2>1. p \in Nat \ {0} /\ n.vars = ShiftVariantKeysOnDelete(w.vars, p + b)
    BY <1>2, <1>9, <1>11
  <2> HIDE DEF p
  <2>2. MarksSync(ShiftVariantKeysOnDelete(m, p), n, b)
    BY <1>1, <2>1, ShiftSync
  <2>3. QED
    BY <2>2 DEF p
<1>15. QED
  BY <1>11, <1>13, <1>14 DEF Synced, TailSync, n, a, q


(* Reading the takes of the end back from the file (seedTail).               *)
LEMMA SealNow ==
  ASSUME NEW V, NEW w \in Goods(V), w.start # 0, w.start \in 1..(Len(w.msgs) + 1),
         PlainFrom(w.msgs, w.start)
  PROVE  /\ sealActiveTake(w).start = w.start /\ sealActiveTake(w).active = w.active
         /\ sealActiveTake(w).takes = ChoiceTakes(w) /\ w.active \in 1..Len(w.takes)
         /\ ChoiceTakes(w) \in Seq(Seq(Messages)) /\ Len(ChoiceTakes(w)) = Len(w.takes)
         /\ ChoiceTakes(w)[w.active] = From(w.msgs, w.start)
<1>1. w \in Files /\ GoodTail(w, V) /\ w.start \in Nat /\ w.takes \in Seq(Seq(Messages))
      /\ w.msgs \in Seq(Messages)
  BY GoodsFacts
<1>2. w.start >= 2 /\ w.active \in 1..Len(w.takes)
  BY <1>1 DEF GoodTail
<1> DEFINE p == w.start
<1>3. /\ SealedAt(w, p).start = p
      /\ SealedAt(w, p).takes = [w.takes EXCEPT ![w.active] = From(w.msgs, p)]
      /\ SealedAt(w, p).active = w.active
  <2>1. p \in 1..(Len(w.msgs) + 1) /\ p >= 2 /\ PlainFrom(w.msgs, p) /\ w.start = p
    BY <1>2
  <2>2. w \in Files /\ GoodTail(w, V)
    BY <1>1
  <2> HIDE DEF p
  <2>3. QED
    BY <2>1, <2>2, Sealed
<1>4. SealedAt(w, p) = sealActiveTake(w)
  BY DEF SealedAt, beginTail
<1>5. ChoiceTakes(w) \in Seq(Seq(Messages)) /\ Len(ChoiceTakes(w)) = Len(w.takes)
      /\ ChoiceTakes(w)[w.active] = From(w.msgs, p)
  <2>1. From(w.msgs, p) \in Seq(Messages)
    BY <1>1, FromFacts
  <2>2. QED
    BY <1>1, <1>2, <2>1, ExceptSeq DEF ChoiceTakes
<1>6. QED
  BY <1>2, <1>3, <1>4, <1>5 DEF ChoiceTakes

Shown(l, b, w) == l \in Seq(Messages) /\ Shows(l, b, w.msgs)

LEMMA SeedNow ==
  ASSUME NEW V, NEW w \in Goods(V), NEW b \in Nat, NEW l, Shown(l, b, w),
         NEW s \in 1..(Len(l) + 1), w.start = s + b, PlainFrom(l, s), Len(w.takes) >= 2, NEW old
  PROVE  seedTail(old, w, l, b) = TailAt(w, l, s) /\ TailSync(TailAt(w, l, s), w, l, b)
<1> DEFINE z == sealActiveTake(w)
<1>0. l \in Seq(Messages) /\ Shows(l, b, w.msgs)
  BY DEF Shown
<1>1. /\ w \in Files /\ w.msgs \in Seq(Messages) /\ Len(w.msgs) \in Nat /\ Len(l) \in Nat
      /\ w.takes \in Seq(Seq(Messages)) /\ s \in Nat /\ s >= 1 /\ s <= Len(l) + 1
  BY <1>0, GoodsFacts, LenProperties
<1>2. Len(w.msgs) = b + Len(l) /\ \A i \in 1..Len(l) : l[i] = w.msgs[i + b]
  BY <1>0 DEF Shows
<1>3. w.start # 0 /\ w.start \in 1..(Len(w.msgs) + 1) /\ w.start - b = s
  BY <1>1, <1>2
<1>4. PlainFrom(w.msgs, w.start)
  <2> SUFFICES ASSUME NEW i \in 1..Len(w.msgs), i >= s + b PROVE ~isAuthoredLine(w.msgs[i])
    BY DEF PlainFrom
  <2>1. i - b \in 1..Len(l) /\ i - b >= s /\ (i - b) + b = i
    BY <1>1, <1>2
  <2>2. l[i - b] = w.msgs[i]
    BY <1>2, <2>1
  <2>3. QED
    BY <2>1, <2>2 DEF PlainFrom
<1>5. From(w.msgs, w.start) = From(l, s) /\ Len(From(l, s)) = Len(l) - s + 1
  BY <1>0, <1>1, ShowsFrom, FromFacts
<1>6. /\ z.start = w.start /\ z.active = w.active
      /\ z.takes = ChoiceTakes(w) /\ w.active \in 1..Len(w.takes)
      /\ ChoiceTakes(w) \in Seq(Seq(Messages)) /\ Len(ChoiceTakes(w)) = Len(w.takes)
      /\ ChoiceTakes(w)[w.active] = From(w.msgs, w.start)
  BY <1>3, <1>4, SealNow
<1>7. DOMAIN ChoiceTakes(w) = 1..Len(w.takes)
  BY <1>6, LenProperties
<1>8. /\ z.start > 0 /\ Len(z.takes) >= 2 /\ z.active \in DOMAIN z.takes
      /\ Len(z.takes[z.active]) = Len(l) - s + 1
  BY <1>3, <1>5, <1>6, <1>7
<1>9. seedTail(old, w, l, b) = [start |-> s, takes |-> z.takes, active |-> z.active]
  <2>1. z.start - b = s
    BY <1>3, <1>6
  <2> HIDE DEF z
  <2>2. z = sealActiveTake(w)
    BY DEF z
  <2>3. QED
    BY <1>1, <1>8, <2>1, <2>2 DEF seedTail
<1>10. TailAt(w, l, s) = [start |-> s, takes |-> z.takes, active |-> z.active]
  BY <1>5, <1>6 DEF TailAt, ChoiceTakes
<1>11. QED
  BY <1>9, <1>10 DEF TailSync

LEMMA SeedFacts ==
  ASSUME NEW V, NEW w \in Goods(V), NEW b \in Nat, NEW l \in Seq(Messages), Shows(l, b, w.msgs),
         w.start # 0 => PlainFrom(w.msgs, w.start)
  PROVE  TailSync(seedTail(NoSwipe, w, l, b), w, l, b)
<1> DEFINE z == sealActiveTake(w)
<1>1. /\ w \in Files /\ w.msgs \in Seq(Messages) /\ Len(w.msgs) \in Nat /\ Len(l) \in Nat
      /\ w.takes \in Seq(Seq(Messages)) /\ w.start \in Nat
  BY GoodsFacts, LenProperties
<1>2. Len(w.msgs) = b + Len(l) /\ \A i \in 1..Len(l) : l[i] = w.msgs[i + b]
  BY DEF Shows
<1>3. CASE /\ z.start > 0 /\ Len(z.takes) >= 2 /\ z.active \in DOMAIN z.takes
           /\ z.start - b >= 1 /\ z.start - b <= Len(l) + 1
           /\ Len(z.takes[z.active]) = Len(l) - (z.start - b) + 1
  <2> DEFINE s == w.start - b
  <2>1. z.start = w.start
    BY <1>1 DEF sealActiveTake, Files
  <2>2. s \in 1..(Len(l) + 1) /\ w.start = s + b /\ w.start # 0 /\ w.start \in 1..(Len(w.msgs) + 1)
    <3>1. w.start - b >= 1 /\ w.start - b <= Len(l) + 1
      BY <1>3, <2>1
    <3> HIDE DEF z
    <3>2. w.start \in Nat /\ Len(l) \in Nat /\ Len(w.msgs) = b + Len(l)
      BY <1>1, <1>2
    <3>3. QED
      BY <3>1, <3>2
  <2>3. PlainFrom(w.msgs, w.start)
    BY <2>2
  <2>4. PlainFrom(l, s)
    <3> SUFFICES ASSUME NEW i \in 1..Len(l), i >= s PROVE ~isAuthoredLine(l[i])
      BY DEF PlainFrom
    <3>1. i + b \in 1..Len(w.msgs) /\ i + b >= w.start
      BY <1>1, <1>2, <2>2
    <3>2. QED
      BY <1>2, <2>3, <3>1 DEF PlainFrom
  <2>5. Len(w.takes) >= 2
    <3>1. z.takes = ChoiceTakes(w) /\ Len(ChoiceTakes(w)) = Len(w.takes)
      BY <2>2, <2>3, SealNow
    <3>2. QED
      BY <1>3, <3>1
  <2> HIDE DEF s, z
  <2>6. QED
    BY <2>2, <2>4, <2>5, SeedNow DEF Shown
<1>4. CASE ~(/\ z.start > 0 /\ Len(z.takes) >= 2 /\ z.active \in DOMAIN z.takes
             /\ z.start - b >= 1 /\ z.start - b <= Len(l) + 1
             /\ Len(z.takes[z.active]) = Len(l) - (z.start - b) + 1)
  <2> HIDE DEF z
  <2>1. z = sealActiveTake(w)
    BY DEF z
  <2>2. seedTail(NoSwipe, w, l, b) = NoSwipe
    BY <1>4, <2>1 DEF seedTail
  <2>3. QED
    BY <2>2 DEF TailSync
<1>5. QED
  BY <1>3, <1>4

(* Reading the marks back from the file (seedMsgVars).                        *)
LEMMA SeedMarks ==
  ASSUME NEW V, NEW w \in Goods(V), NEW b \in Nat
  PROVE  MarksSync(seedMsgVars(w, b), w, b)
<1> DEFINE m == seedMsgVars(w, b)
<1> DEFINE D == {q - b : q \in {r \in DOMAIN w.vars : r > b /\ Len(w.vars[r].takes) >= 2}}
<1>1. DOMAIN w.vars \subseteq Nat \ {0} /\ GoodMarks(w.msgs, w.vars, V)
  BY GoodsFacts, MarkSetFacts
<1>2. \A q \in DOMAIN w.vars : Len(w.vars[q].takes) >= 2
  BY <1>1 DEF GoodMarks, GoodMark
<1>3. m = [p \in D |-> [takes |-> <<>>, count |-> Len(w.vars[p + b].takes), active |-> w.vars[p + b].active]]
  BY DEF seedMsgVars
<1>4. D \subseteq Nat \ {0}
  <2> SUFFICES ASSUME NEW p \in D PROVE p \in Nat \ {0}
    OBVIOUS
  <2>1. PICK q \in DOMAIN w.vars : q > b /\ p = q - b
    OBVIOUS
  <2>2. q \in Nat
    BY <1>1
  <2>3. QED
    BY <2>1, <2>2
<1>5. ASSUME NEW p \in Nat \ {0} PROVE p \in D <=> p + b \in DOMAIN w.vars
  <2>1. ASSUME p \in D PROVE p + b \in DOMAIN w.vars
    <3>1. PICK q \in DOMAIN w.vars : q > b /\ p = q - b
      BY <2>1
    <3>2. q \in Nat
      BY <1>1
    <3>3. q = p + b
      BY <3>1, <3>2
    <3>4. QED
      BY <3>3
  <2>2. ASSUME p + b \in DOMAIN w.vars PROVE p \in D
    <3>1. p + b > b /\ (p + b) - b = p
      OBVIOUS
    <3>2. p + b \in {r \in DOMAIN w.vars : r > b /\ Len(w.vars[r].takes) >= 2}
      BY <1>2, <2>2, <3>1
    <3>3. QED
      BY <3>1, <3>2
  <2>3. QED
    BY <2>1, <2>2
<1> HIDE DEF D
<1>6. DOMAIN m = D /\ \A p \in D : m[p] \in Drawn(w.vars[p + b])
  BY <1>3 DEF Drawn
<1> HIDE DEF m
<1>7. MarksSync(m, w, b)
  BY <1>4, <1>5, <1>6 DEF MarksSync
<1>8. QED
  BY <1>7 DEF m


(***************************************************************************)
(* What the verbs about the end of the transcript do to both halves.       *)
(***************************************************************************)

(* A cut before the last response, and what takes its place.                  *)
Reseeded(old, n, y, b, s) == seedTail(old, n, y, b) = TailAt(n, y, s)

LEMMA CutSync ==
  ASSUME NEW V, NEW w \in Goods(V), NEW b \in Nat, NEW l, Shown(l, b, w),
         NEW s \in 1..(Len(l) + 1), NEW u \in Seq(Messages), PlainFrom(u, 1),
         NEW n \in Goods(V), n.msgs = Before(w.msgs, s + b) \o u, n.start = s + b,
         n.vars = w.vars, Len(n.takes) >= 2, NEW k, MarksSync(k, w, b), NEW old
  PROVE  /\ Synced(Before(l, s) \o u, seedTail(old, n, Before(l, s) \o u, b), k, b, n)
         /\ Reseeded(old, n, Before(l, s) \o u, b, s)
<1> DEFINE y == Before(l, s) \o u
<1>0. l \in Seq(Messages) /\ Shows(l, b, w.msgs)
  BY DEF Shown
<1>1. w.msgs \in Seq(Messages) /\ Len(l) \in Nat /\ Len(u) \in Nat /\ s \in Nat /\ s >= 1
  BY <1>0, GoodsFacts, LenProperties
<1>2. Shows(Before(l, s), b, Before(w.msgs, s + b)) /\ s + b \in 1..(Len(w.msgs) + 1)
  BY <1>0, <1>1, ShowsFrom
<1>3. Before(l, s) \in Seq(Messages) /\ Before(w.msgs, s + b) \in Seq(Messages)
  <2> DEFINE q == s + b
  <2>1. q \in 1..(Len(w.msgs) + 1)
    BY <1>2
  <2> HIDE DEF q
  <2>2. Before(l, s) \in Seq(Messages) /\ Before(w.msgs, q) \in Seq(Messages)
    BY <1>0, <1>1, <2>1, BeforeFacts
  <2>3. QED
    BY <2>2 DEF q
<1>4. Shows(y, b, n.msgs)
  BY <1>2, <1>3, ShowsConcat
<1>5. /\ y \in Seq(Messages) /\ Len(y) = s - 1 + Len(u)
      /\ \A i \in 1..Len(u) : y[s - 1 + i] = u[i]
  BY <1>0, JoinFacts
<1> HIDE DEF y
<1>6. PlainFrom(y, s) /\ s \in 1..(Len(y) + 1)
  <2>1. ASSUME NEW i \in 1..Len(y), i >= s PROVE ~isAuthoredLine(y[i])
    <3>1. i - (s - 1) \in 1..Len(u) /\ i - (s - 1) >= 1 /\ s - 1 + (i - (s - 1)) = i
      BY <1>1, <1>5, <2>1
    <3>2. y[i] = u[i - (s - 1)]
      BY <1>5, <3>1
    <3>3. QED
      BY <3>1, <3>2 DEF PlainFrom
  <2>2. s \in 1..(Len(y) + 1)
    BY <1>1, <1>5
  <2>3. QED
    BY <2>1, <2>2 DEF PlainFrom
<1>7. seedTail(old, n, y, b) = TailAt(n, y, s) /\ TailSync(TailAt(n, y, s), n, y, b)
  <2>1. /\ Shown(y, b, n) /\ s \in 1..(Len(y) + 1) /\ n.start = s + b
        /\ PlainFrom(y, s) /\ Len(n.takes) >= 2
    BY <1>4, <1>5, <1>6 DEF Shown
  <2>2. seedTail(old, n, y, b) = TailAt(n, y, s)
    BY <2>1, SeedNow
  <2>3. TailSync(TailAt(n, y, s), n, y, b)
    BY <2>1, SeedNow
  <2>4. QED
    BY <2>2, <2>3
<1>8. MarksSync(k, n, b)
  BY DEF MarksSync
<1>9. Reseeded(old, n, y, b, s)
  BY <1>7 DEF Reseeded
<1>10. QED
  BY <1>4, <1>5, <1>7, <1>8, <1>9 DEF Synced, y

(* All marks lie before a cut.                                                *)
LEMMA DropSync ==
  ASSUME NEW V, NEW w \in Goods(V), NEW b \in Nat, NEW l, NEW t, NEW m, Synced(l, t, m, b, w),
         NEW s \in 1..(Len(l) + 1), PlainFrom(l, s)
  PROVE  MarksSync(DropVariantKeysFrom(m, s), w, b) /\ \A p \in DOMAIN m : p < s
<1> DEFINE k == DropVariantKeysFrom(m, s)
<1>1. Len(l) \in Nat /\ MarksSync(m, w, b) /\ s \in Nat
  BY LenProperties DEF Synced
<1>2. ASSUME NEW p \in DOMAIN m PROVE p < s
  <2>1. p \in 1..Len(l) /\ \E i \in p..Len(l) : isAuthoredLine(l[i])
    BY MarkShown
  <2>2. PICK i \in p..Len(l) : isAuthoredLine(l[i])
    BY <2>1
  <2>3. i \in 1..Len(l) /\ ~(i >= s)
    BY <1>1, <2>1, <2>2 DEF PlainFrom
  <2>4. QED
    BY <1>1, <2>1, <2>3
<1>3. DOMAIN k = DOMAIN m /\ \A p \in DOMAIN m : k[p] = m[p]
  BY <1>2 DEF DropVariantKeysFrom
<1> HIDE DEF k
<1>4. MarksSync(k, w, b)
  BY <1>1, <1>3 DEF MarksSync
<1>5. QED
  BY <1>2, <1>4 DEF k

(* Another take of the end is chosen.                                         *)
LEMMA SwipeSync ==
  ASSUME NEW V, NEW w \in Goods(V), NEW b \in Nat, NEW l, NEW t, NEW m, Synced(l, t, m, b, w),
         t # NoSwipe, NEW v \in DOMAIN t.takes
  PROVE  /\ SelectRow(w, t.start + b, v) \in Goods(V)
         /\ Synced(Before(l, t.start) \o t.takes[v], [t EXCEPT !.active = v], m, b,
                   SelectRow(w, t.start + b, v))
         /\ t.start \in 1..(Len(l) + 1) /\ PlainFrom(l, t.start)
<1>1. /\ l \in Seq(Messages) /\ Shows(l, b, w.msgs) /\ TailSync(t, w, l, b) /\ MarksSync(m, w, b)
      /\ Len(l) \in Nat
  BY LenProperties DEF Synced
<1>2. PICK s \in 1..(Len(l) + 1) : w.start = s + b /\ t = TailAt(w, l, s) /\ PlainFrom(l, s)
  BY <1>1 DEF TailSync
<1>3. w.msgs \in Seq(Messages) /\ Len(w.msgs) \in Nat /\ Len(w.msgs) = b + Len(l)
  BY <1>1, GoodsFacts DEF Shows
<1>4. w.start # 0 /\ w.start \in 1..(Len(w.msgs) + 1)
  BY <1>1, <1>2, <1>3
<1>5. PlainFrom(w.msgs, w.start)
  <2> SUFFICES ASSUME NEW i \in 1..Len(w.msgs), i >= w.start PROVE ~isAuthoredLine(w.msgs[i])
    BY DEF PlainFrom
  <2>1. i - b \in 1..Len(l) /\ i - b >= s /\ (i - b) + b = i
    BY <1>1, <1>2, <1>3
  <2>2. l[i - b] = w.msgs[i]
    BY <1>1, <2>1 DEF Shows
  <2>3. QED
    BY <1>2, <2>1, <2>2 DEF PlainFrom
<1>6. From(w.msgs, w.start) = From(l, s) /\ Shows(Before(l, s), b, Before(w.msgs, w.start))
  BY <1>1, <1>2, <1>3, ShowsFrom
<1> DEFINE ts == ChoiceTakes(w)
<1>7. t.start = s /\ t.takes = ts /\ t.active = w.active
      /\ t = [start |-> s, takes |-> ts, active |-> w.active]
  BY <1>2, <1>6 DEF TailAt, ChoiceTakes
<1>8. ts \in Seq(Seq(Messages)) /\ DOMAIN ts = 1..Len(ts)
  BY <1>4, <1>5, SealNow, LenProperties
<1>9. v \in 1..Len(ChoiceTakes(w))
  BY <1>7, <1>8
<1> DEFINE n == SelectRow(w, w.start, v)
<1>10. /\ n \in Goods(V) /\ n.msgs = Before(w.msgs, w.start) \o ts[v]
       /\ n.start = w.start /\ n.vars = w.vars /\ n.takes = ts /\ n.active = v
       /\ ts[v] \in Seq(Messages) /\ PlainFrom(ts[v], 1)
  BY <1>4, <1>5, <1>9, SelectRowGood
<1>11. n = SelectRow(w, t.start + b, v)
  BY <1>2, <1>7
<1> HIDE DEF n, ts
<1> DEFINE y == Before(l, s) \o ts[v]
<1>12. /\ y \in Seq(Messages) /\ Len(y) = s - 1 + Len(ts[v])
       /\ \A i \in 1..Len(ts[v]) : y[s - 1 + i] = ts[v][i]
       /\ From(y, s) = ts[v]
  <2>1. l \in Seq(Messages) /\ ts[v] \in Seq(Messages)
    BY <1>1, <1>10
  <2>2. y \in Seq(Messages)
    BY <2>1, JoinFacts
  <2>3. Len(y) = s - 1 + Len(ts[v])
    BY <2>1, JoinFacts
  <2>4. \A i \in 1..Len(ts[v]) : y[s - 1 + i] = ts[v][i]
    BY <2>1, JoinFacts
  <2>5. From(y, s) = ts[v]
    BY <2>1, JoinFacts
  <2>6. QED
    BY <2>2, <2>3, <2>4, <2>5
<1>13. Shows(y, b, n.msgs)
  <2>1. Before(l, s) \in Seq(Messages) /\ Before(w.msgs, w.start) \in Seq(Messages)
    BY <1>1, <1>3, <1>4, BeforeFacts
  <2>2. QED
    BY <1>6, <1>10, <2>1, ShowsConcat
<1> HIDE DEF y
<1>14. Len(ts[v]) \in Nat
  BY <1>10, LenProperties
<1>15. PlainFrom(y, s) /\ s \in 1..(Len(y) + 1)
  <2>1. ASSUME NEW i \in 1..Len(y), i >= s PROVE ~isAuthoredLine(y[i])
    <3>1. i - (s - 1) \in 1..Len(ts[v]) /\ i - (s - 1) >= 1 /\ s - 1 + (i - (s - 1)) = i
      BY <1>12, <1>14, <2>1
    <3>2. y[i] = ts[v][i - (s - 1)]
      BY <1>12, <3>1
    <3>3. QED
      BY <1>10, <3>1, <3>2 DEF PlainFrom
  <2>2. s \in 1..(Len(y) + 1)
    BY <1>12, <1>14
  <2>3. QED
    BY <2>1, <2>2 DEF PlainFrom
<1>16. [t EXCEPT !.active = v] = TailAt(n, y, s)
  <2>1. [ts EXCEPT ![v] = ts[v]] = ts
    BY <1>8
  <2>2. TailAt(n, y, s) = [start |-> s, takes |-> ts, active |-> v]
    BY <1>10, <1>12, <2>1 DEF TailAt
  <2>3. QED
    BY <1>7, <2>2
<1>17. TailSync([t EXCEPT !.active = v], n, y, b)
  BY <1>2, <1>10, <1>15, <1>16 DEF TailSync
<1>18. MarksSync(m, n, b)
  BY <1>1, <1>10 DEF MarksSync
<1>19. Synced(y, [t EXCEPT !.active = v], m, b, n)
  BY <1>12, <1>13, <1>17, <1>18 DEF Synced
<1>20. QED
  BY <1>2, <1>7, <1>10, <1>11, <1>19 DEF y


(***************************************************************************)
(* The invariant.  disk is a file that its own rows can have left, and a   *)
(* session whose writes have all landed remembers what is in it.           *)
(***************************************************************************)
IInv ==
  /\ Apart(verbs) /\ pending = 0 /\ head = FALSE /\ base \in Nat /\ born \in Nat
  /\ "long" \notin verbs => base = 0
  /\ disk \in Goods(verbs)
  /\ ~latched => Synced(live, tail, marks, base, disk)

(* A write that fails leaves what was shown before its verb on file. *)
Saved ==
  latched' /\ ~latched =>
    "write" \in verbs /\ ("condense" \notin verbs => ToSet(live) \subseteq OnRecord(disk'))

LEMMA Ready ==
  ASSUME IInv, ~latched
  PROVE  /\ Synced(live, tail, marks, base, disk) /\ disk \in Goods(verbs) /\ Flushed = disk
         /\ Apart(verbs) /\ base \in Nat /\ born \in Nat /\ flushPendingGreeting = <<>>
         /\ \A p : diskIndex(p) = p + base /\ mapped(p)
         /\ live \in Seq(Messages) /\ Len(live) \in Nat /\ Shows(live, base, disk.msgs)
         /\ MarksSync(marks, disk, base) /\ TailSync(tail, disk, live, base)
         /\ disk.msgs \in Seq(Messages) /\ Len(disk.msgs) \in Nat
         /\ Len(disk.msgs) = base + Len(live) /\ disk \in Files
<1>1. Synced(live, tail, marks, base, disk) /\ disk \in Goods(verbs) /\ pending = 0 /\ head = FALSE
      /\ Apart(verbs) /\ base \in Nat /\ born \in Nat /\ live \in Seq(Messages)
  BY DEF IInv, Synced
<1>2. Flushed = disk /\ flushPendingGreeting = <<>>
  BY <1>1 DEF Flushed, flushPendingGreeting
<1>3. \A p : diskIndex(p) = p + base /\ mapped(p)
  BY <1>1 DEF diskIndex, mapped
<1>4. /\ Shows(live, base, disk.msgs) /\ MarksSync(marks, disk, base)
      /\ TailSync(tail, disk, live, base)
  BY <1>1 DEF Synced
<1>5. disk.msgs \in Seq(Messages) /\ Len(disk.msgs) \in Nat /\ disk \in Files
  BY <1>1, GoodsFacts
<1>6. Len(disk.msgs) = base + Len(live) /\ Len(live) \in Nat
  BY <1>1, <1>4, LenProperties DEF Shows
<1>7. QED
  BY <1>1, <1>2, <1>3, <1>4, <1>5, <1>6

(* What is shown is in the transcript of the file.                            *)
LEMMA ShownKept ==
  ASSUME NEW l \in Seq(Messages), NEW b \in Nat, NEW ms \in Seq(Messages), Shows(l, b, ms)
  PROVE  ToSet(l) \subseteq ToSet(ms)
<1>1. Len(l) \in Nat /\ Len(ms) \in Nat /\ DOMAIN l = 1..Len(l) /\ DOMAIN ms = 1..Len(ms)
      /\ Len(ms) = b + Len(l)
  BY LenProperties DEF Shows
<1>2. ASSUME NEW i \in DOMAIN l PROVE \E j \in DOMAIN ms : ms[j] = l[i]
  <2>1. i + b \in DOMAIN ms
    BY <1>1
  <2>2. l[i] = ms[i + b]
    BY <1>1 DEF Shows
  <2>3. QED
    BY <2>1, <2>2
<1>3. ToSet(l) = {l[i] : i \in DOMAIN l} /\ ToSet(ms) = {ms[i] : i \in DOMAIN ms}
  BY DEF ToSet
<1>4. QED
  BY <1>2, <1>3

LEMMA Lands ==
  ASSUME IInv, ~latched, verbs' = verbs, born' \in Nat,
         NEW states \in Seq(Goods(verbs)), Len(states) >= 1, Write(states),
         base' = base, head' = head,
         "condense" \notin verbs =>
           \A k \in 1..(Len(states) - 1) : ToSet(disk.msgs) \subseteq OnRecord(states[k]),
         ~latched' => Synced(live', tail', marks', base, states[Len(states)])
  PROVE  IInv' /\ Saved /\ (~latched' => disk' = states[Len(states)])
<1>1. /\ Synced(live, tail, marks, base, disk) /\ disk \in Goods(verbs) /\ Apart(verbs)
      /\ base \in Nat /\ flushPendingGreeting = <<>> /\ live \in Seq(Messages)
      /\ Shows(live, base, disk.msgs) /\ disk.msgs \in Seq(Messages)
  BY Ready
<1>2. pending = 0 /\ head = FALSE /\ ("long" \notin verbs => base = 0)
  BY DEF IInv
<1>3. flushPendingGreeting \o states = states
  BY <1>1, ConcatEmptySeq
<1>4. Len(states) \in Nat
  BY LenProperties
<1>5. Last(states) = states[Len(states)]
  BY DEF Last
<1>6. /\ pending' = 0
      /\ \/ disk' = states[Len(states)] /\ latched' = latched
         \/ /\ disk' \in {disk} \cup {states[k] : k \in 1..(Len(states) - 1)} /\ latched' = TRUE
            /\ "write" \in verbs
  BY <1>3, <1>5 DEF Write
<1>7. disk' \in Goods(verbs')
  <2>1. \A k \in 1..Len(states) : states[k] \in Goods(verbs)
    BY ElementOfSeq
  <2>2. Len(states) \in 1..Len(states) /\ 1..(Len(states) - 1) \subseteq 1..Len(states)
    BY <1>4
  <2>3. QED
    BY <1>1, <1>6, <2>1, <2>2
<1>8. CASE ~latched'
  <2>1. disk' = states[Len(states)]
    BY <1>6, <1>8
  <2>2. Synced(live', tail', marks', base', disk')
    BY <1>8, <2>1
  <2>3. IInv'
    BY <1>1, <1>2, <1>6, <1>7, <2>2 DEF IInv
  <2>4. QED
    BY <1>8, <2>1, <2>3 DEF Saved
<1>9. CASE latched'
  <2>1. IInv'
    BY <1>1, <1>2, <1>6, <1>7, <1>9 DEF IInv
  <2>2. "condense" \notin verbs => ToSet(live) \subseteq OnRecord(disk')
    <3>1. ToSet(live) \subseteq ToSet(disk.msgs)
      BY <1>1, ShownKept
    <3>2. ToSet(disk.msgs) \subseteq OnRecord(disk)
      BY DEF OnRecord
    <3>3. disk' \in {disk} \cup {states[k] : k \in 1..(Len(states) - 1)}
      BY <1>6, <1>9
    <3>4. ASSUME "condense" \notin verbs PROVE ToSet(disk.msgs) \subseteq OnRecord(disk')
      <4>1. CASE disk' = disk
        BY <3>2, <4>1
      <4>2. CASE disk' \in {states[k] : k \in 1..(Len(states) - 1)}
        BY <3>4, <4>2
      <4>3. QED
        BY <3>3, <4>1, <4>2
    <3>5. QED
      BY <3>1, <3>4
  <2>3. "write" \in verbs
    BY <1>6, <1>9
  <2>4. QED
    BY <1>9, <2>1, <2>2, <2>3 DEF Saved
<1>10. QED
  BY <1>8, <1>9

LEMMA LandsOne ==
  ASSUME IInv, ~latched, verbs' = verbs, born' \in Nat, NEW n \in Goods(verbs), Write(<< n >>),
         base' = base, head' = head,
         ~latched' => Synced(live', tail', marks', base, n)
  PROVE  IInv' /\ Saved /\ (~latched' => disk' = n)
<1>1. << n >> \in Seq(Goods(verbs)) /\ Len(<< n >>) = 1 /\ << n >>[1] = n
  OBVIOUS
<1> DEFINE states == << n >>
<1>2. /\ states \in Seq(Goods(verbs)) /\ Len(states) >= 1 /\ Write(states)
      /\ \A k \in 1..(Len(states) - 1) : ToSet(disk.msgs) \subseteq OnRecord(states[k])
      /\ states[Len(states)] = n
  BY <1>1
<1> HIDE DEF states
<1>3. QED
  BY <1>2, Lands


(***************************************************************************)
(* Each step keeps the invariant.                                          *)
(***************************************************************************)
LEMMA MadeFacts ==
  ASSUME NEW n \in Nat, NEW k \in Nat
  PROVE  /\ Message(n + k, "user") \in Messages /\ Message(n + k, "model") \in Messages
         /\ Message(n + k, "line") \in Messages /\ Message(n + k, "summary") \in Messages
         /\ n + k \in Nat
BY DEF Message, Messages

(* A row behind the transcript, from a model or a person. *)
LEMMA AppendStep ==
  ASSUME IInv, ~latched, verbs' = verbs, born' \in Nat, NEW a \in Messages, a.who # "summary",
         a.who = "line" => "post" \in verbs, a.who = "model" => live # <<>>,
         Write(<< MessageRow(disk, a) >>), base' = base /\ head' = head,
         ~latched' => /\ live' = Append(live, a) /\ tail' = NoSwipe
                      /\ UNCHANGED <<marks, base, head>>
  PROVE  IInv' /\ Saved
<1> DEFINE n == MessageRow(disk, a)
<1> DEFINE y == Append(live, a)
<1>1. /\ disk \in Goods(verbs) /\ base \in Nat /\ live \in Seq(Messages) /\ Len(live) \in Nat
      /\ Shows(live, base, disk.msgs) /\ MarksSync(marks, disk, base)
      /\ disk.msgs \in Seq(Messages) /\ Len(disk.msgs) = base + Len(live)
  BY Ready
<1>2. live # <<>> => disk.msgs # <<>>
  <2>1. live # <<>> => Len(live) # 0
    BY <1>1, EmptySeq
  <2>2. disk.msgs = <<>> => Len(disk.msgs) = 0
    OBVIOUS
  <2>3. QED
    BY <1>1, <2>1, <2>2
<1>3. n \in Goods(verbs) /\ n.msgs = Append(disk.msgs, a) /\ n.vars = disk.vars
  BY <1>1, <1>2, MessageRowGood
<1>4. Shows(y, base, n.msgs) /\ y \in Seq(Messages)
  BY <1>1, <1>3, ShowsAppend, AppendFacts
<1> HIDE DEF n, y
<1>5. Synced(y, NoSwipe, marks, base, n)
  BY <1>1, <1>3, <1>4, PlainSync
<1>6. ~latched' => Synced(live', tail', marks', base, n) /\ base' = base /\ head' = head
  BY <1>5 DEF y
<1>7. Write(<< n >>)
  BY DEF n
<1>8. QED
  BY <1>3, <1>6, <1>7, LandsOne

LEMMA AdvanceStep == IInv /\ advance => IInv' /\ Saved
<1> SUFFICES ASSUME IInv, advance PROVE IInv' /\ Saved
  OBVIOUS
<1> DEFINE a == Message(born + 1, "model")
<1>1. ~latched /\ verbs' = verbs /\ born' = born + 1
  BY DEF advance, May
<1>2. Flushed = disk /\ born \in Nat
  BY <1>1, Ready
<1>3. /\ Write(<< MessageRow(disk, a) >>) /\ live # <<>>
      /\ base' = base /\ head' = head
      /\ ~latched' => /\ live' = Append(live, a) /\ tail' = NoSwipe
                      /\ UNCHANGED <<marks, base, head>>
  BY <1>2 DEF advance
<1>4. a \in Messages /\ a.who = "model" /\ born' \in Nat
  BY <1>1, <1>2, MadeFacts DEF Message
<1> HIDE DEF a
<1>5. QED
  BY <1>1, <1>3, <1>4, AppendStep

LEMMA PostStep == IInv /\ postDirected => IInv' /\ Saved
<1> SUFFICES ASSUME IInv, postDirected PROVE IInv' /\ Saved
  OBVIOUS
<1> DEFINE a == Message(born + 1, "line")
<1>1. ~latched /\ verbs' = verbs /\ born' = born + 1 /\ "post" \in verbs
  BY DEF postDirected, May
<1>2. Flushed = disk /\ born \in Nat
  BY <1>1, Ready
<1>3. /\ Write(<< MessageRow(disk, a) >>)
      /\ base' = base /\ head' = head
      /\ ~latched' => /\ live' = Append(live, a) /\ tail' = NoSwipe
                      /\ UNCHANGED <<marks, base, head>>
  BY <1>2 DEF postDirected, Then, memory
<1>4. a \in Messages /\ a.who = "line" /\ born' \in Nat
  BY <1>1, <1>2, MadeFacts DEF Message
<1> HIDE DEF a
<1>5. QED
  BY <1>1, <1>3, <1>4, AppendStep

LEMMA ContinueStep == IInv /\ continueTurn => IInv' /\ Saved
<1> SUFFICES ASSUME IInv, continueTurn PROVE IInv' /\ Saved
  OBVIOUS
<1> DEFINE p == Len(live)
<1> DEFINE x == Message(born + 1, live[p].who)
<1> DEFINE q == p + base
<1> DEFINE n == ReplaceRow(disk, q, x)
<1> DEFINE y == [live EXCEPT ![p] = x]
<1>1. ~latched /\ verbs' = verbs /\ born' = born + 1
  BY DEF continueTurn, May
<1>2. /\ disk \in Goods(verbs) /\ base \in Nat /\ live \in Seq(Messages) /\ Len(live) \in Nat
      /\ Shows(live, base, disk.msgs) /\ MarksSync(marks, disk, base)
      /\ disk.msgs \in Seq(Messages) /\ Len(disk.msgs) = base + Len(live)
      /\ Flushed = disk /\ born \in Nat /\ diskIndex(p) = q
  BY <1>1, Ready
<1>3. /\ Write(<< n >>) /\ p > 0 /\ live[p].who \in {"model", "line"}
      /\ base' = base /\ head' = head
      /\ ~latched' => /\ live' = y /\ tail' = NoSwipe /\ UNCHANGED <<marks, base, head>>
  BY <1>2 DEF continueTurn
<1>4. x \in Messages /\ x.who = live[p].who /\ born' \in Nat
  BY <1>1, <1>2, <1>3, MadeFacts DEF Message
<1>5. p \in 1..Len(live) /\ q \in 1..Len(disk.msgs) /\ q = Len(disk.msgs)
  BY <1>2, <1>3
<1>6. live[p] = disk.msgs[q]
  BY <1>2, <1>5 DEF Shows
<1> HIDE DEF x
<1>7. q \notin DOMAIN disk.vars
  <2> SUFFICES ASSUME q \in DOMAIN disk.vars PROVE FALSE
    OBVIOUS
  <2> DEFINE f == disk.vars[q]
  <2>1. GoodMark(disk.msgs, q, f, verbs)
    BY <1>2, GoodsFacts DEF GoodMarks
  <2> HIDE DEF f, q
  <2>2. /\ f.takes[f.active] = disk.msgs[q] /\ f.takes[f.active].who # "line"
        /\ \E i \in q..Len(disk.msgs) : isAuthoredLine(disk.msgs[i])
    BY <2>1 DEF GoodMark, GoodTake
  <2>3. \A i \in q..Len(disk.msgs) : i = q
    BY <1>5
  <2>4. disk.msgs[q].who # "model"
    BY <2>2, <2>3 DEF isAuthoredLine
  <2>5. QED
    BY <1>3, <1>6, <2>2, <2>4
<1>8. /\ n \in Goods(verbs) /\ n.msgs = [disk.msgs EXCEPT ![q] = x] /\ n.vars = disk.vars
  <2>1. (isAuthoredLine(x) <=> isAuthoredLine(disk.msgs[q])) /\ x.who # "summary"
    BY <1>3, <1>4, <1>6 DEF isAuthoredLine
  <2>2. q \in 1..Len(disk.msgs)
    BY <1>5
  <2> HIDE DEF q
  <2>3. QED
    BY <1>2, <1>4, <1>7, <2>1, <2>2, ReplaceRowGood
<1> HIDE DEF n
<1>9. Shows(y, base, n.msgs) /\ y \in Seq(Messages)
  <2>1. Shows(y, base, [disk.msgs EXCEPT ![p + base] = x])
    <3>1. p \in 1..Len(live)
      BY <1>5
    <3> HIDE DEF p
    <3>2. QED
      BY <1>2, <1>4, <3>1, ShowsExcept
  <2>2. y \in Seq(Messages)
    BY <1>2, <1>4, <1>5, ExceptSeq
  <2>3. QED
    BY <1>8, <2>1, <2>2
<1> HIDE DEF y
<1>10. Synced(y, NoSwipe, marks, base, n)
  BY <1>2, <1>8, <1>9, PlainSync
<1>11. ~latched' => Synced(live', tail', marks', base, n) /\ base' = base /\ head' = head
  BY <1>3, <1>10
<1>12. QED
  BY <1>1, <1>3, <1>4, <1>8, <1>11, LandsOne

LEMMA DeleteStep == ASSUME NEW p \in DOMAIN live PROVE IInv /\ deleteMessage(p) => IInv' /\ Saved
<1> SUFFICES ASSUME IInv, deleteMessage(p) PROVE IInv' /\ Saved
  OBVIOUS
<1> DEFINE n == DeleteRow(disk, p + base)
<1> DEFINE y == RemoveAt(live, p)
<1> DEFINE k == ShiftVariantKeysOnDelete(marks, p)
<1>1. ~latched /\ verbs' = verbs /\ born' = born + 0
  BY DEF deleteMessage, May
<1>2. /\ disk \in Goods(verbs) /\ base \in Nat /\ live \in Seq(Messages)
      /\ Synced(live, tail, marks, base, disk) /\ Apart(verbs)
      /\ Flushed = disk /\ born \in Nat /\ diskIndex(p) = p + base
  BY <1>1, Ready
<1>3. /\ Write(<< n >>)
      /\ isAuthoredLine(live[p]) => "unline" \in verbs
      /\ base' = base /\ head' = head
      /\ ~latched' => /\ live' = y /\ tail' = NoSwipe /\ marks' = k /\ UNCHANGED <<base, head>>
  BY <1>2 DEF deleteMessage, Then, memory
<1>4. p \in 1..Len(live) /\ born' \in Nat
  BY <1>1, <1>2, LenProperties
<1>5. n \in Goods(verbs) /\ Synced(y, NoSwipe, k, base, n)
  BY <1>2, <1>3, <1>4, DeleteSync
<1> HIDE DEF n, y, k
<1>6. ~latched' => Synced(live', tail', marks', base, n) /\ base' = base /\ head' = head
  BY <1>3, <1>5
<1>7. QED
  BY <1>1, <1>3, <1>4, <1>5, <1>6, LandsOne


(* A checkpoint: a summary and the end of the transcript, or nothing. *)
LEMMA CondensedFacts ==
  ASSUME NEW ms \in Seq(Messages), NEW n \in Nat, Len(ms) > KeepTail
  PROVE  /\ Condensed(ms, n) \in Seq(Messages) /\ Len(Condensed(ms, n)) = KeepTail + 1
         /\ isAuthoredLine(Condensed(ms, n)[1])
         /\ Len(ms) - KeepTail - 1 \in Nat
         /\ \A i \in 2..(KeepTail + 1) : Condensed(ms, n)[i] = ms[i + (Len(ms) - KeepTail - 1)]
<1> DEFINE s == << Message(n, "summary") >>
<1> DEFINE p == Len(ms) - KeepTail + 1
<1> DEFINE f == From(ms, p)
<1> DEFINE c == s \o f
<1>1. KeepTail \in Nat /\ Len(ms) \in Nat
  BY RevisionAssumption, LenProperties
<1>2. p \in 1..(Len(ms) + 1) /\ Len(ms) - p + 1 = KeepTail
  BY <1>1
<1>3. s \in Seq(Messages) /\ Len(s) = 1 /\ s[1].who = "summary"
  BY DEF Message, Messages
<1>4. /\ f \in Seq(Messages) /\ Len(f) = KeepTail
      /\ \A i \in 1..KeepTail : f[i] = ms[p + i - 1]
  <2> HIDE DEF p
  <2>1. /\ From(ms, p) \in Seq(Messages) /\ Len(From(ms, p)) = Len(ms) - p + 1
        /\ \A i \in 1..(Len(ms) - p + 1) : From(ms, p)[i] = ms[p + i - 1]
    BY <1>2, FromFacts
  <2>2. QED
    BY <1>2, <2>1
<1>5. c = Condensed(ms, n)
  BY DEF Condensed
<1> HIDE DEF s, f
<1>6. /\ c \in Seq(Messages) /\ Len(c) = Len(s) + Len(f)
      /\ \A i \in 1..(Len(s) + Len(f)) : c[i] = IF i <= Len(s) THEN s[i] ELSE f[i - Len(s)]
  BY <1>3, <1>4, ConcatProperties
<1> HIDE DEF c
<1>7. Len(c) = KeepTail + 1 /\ c[1] = s[1]
  BY <1>1, <1>3, <1>4, <1>6
<1>8. ASSUME NEW i \in 2..(KeepTail + 1) PROVE c[i] = ms[i + (Len(ms) - KeepTail - 1)]
  <2>1. /\ i \in 1..(Len(s) + Len(f)) /\ ~(i <= Len(s)) /\ i - Len(s) \in 1..KeepTail
        /\ p + (i - Len(s)) - 1 = i + (Len(ms) - KeepTail - 1)
    BY <1>1, <1>3, <1>4
  <2> HIDE DEF p
  <2>2. QED
    BY <1>4, <1>6, <2>1
<1>9. Len(ms) - KeepTail - 1 \in Nat
  BY <1>1
<1>10. QED
  BY <1>3, <1>5, <1>6, <1>7, <1>8, <1>9 DEF isAuthoredLine

LEMMA CheckpointSync ==
  ASSUME IInv, ~latched, "long" \notin verbs, NEW ns \in Seq(Messages),
         NEW d \in Nat, Len(ns) + d <= Len(live), ns # <<>> => isAuthoredLine(ns[1]),
         \A i \in 2..Len(ns) : ns[i] = live[i + d]
  PROVE  /\ CompactionRow(disk, ns) \in Goods(verbs)
         /\ Synced(ns, NoSwipe, <<>>, base, CompactionRow(disk, ns)) /\ base = 0
         /\ CompactionRow(disk, ns).vars = <<>>
<1> DEFINE n == CompactionRow(disk, ns)
<1>1. /\ disk \in Goods(verbs) /\ live \in Seq(Messages) /\ Len(live) \in Nat
      /\ Shows(live, base, disk.msgs) /\ Len(disk.msgs) = base + Len(live) /\ base \in Nat
  BY Ready
<1>2. base = 0
  BY DEF IInv
<1>3. Len(ns) \in Nat
  BY LenProperties
<1>4. ASSUME NEW i \in 2..Len(ns) PROVE ns[i] = disk.msgs[i + d]
  <2>1. i + d \in 1..Len(live) /\ (i + d) + base = i + d
    BY <1>1, <1>2, <1>3
  <2>2. live[i + d] = disk.msgs[(i + d) + base]
    BY <1>1, <2>1 DEF Shows
  <2>3. QED
    BY <2>1, <2>2
<1>5. Len(ns) + d <= Len(disk.msgs)
  BY <1>1, <1>2
<1>6. n \in Goods(verbs) /\ n.msgs = ns /\ n.vars = <<>>
  BY <1>1, <1>4, <1>5, CompactionRowGood
<1> HIDE DEF n
<1>7. Shows(ns, base, n.msgs)
  BY <1>2, <1>6, ShowsWhole
<1>8. MarksSync(<<>>, n, base)
  BY <1>6, MarkSetFacts DEF MarksSync
<1>9. QED
  BY <1>2, <1>6, <1>7, <1>8 DEF Synced, TailSync, n

LEMMA CompactStep == IInv /\ compact => IInv' /\ Saved
<1> SUFFICES ASSUME IInv, compact PROVE IInv' /\ Saved
  OBVIOUS
<1> DEFINE ns == Condensed(live, born + 1)
<1> DEFINE n == CompactionRow(disk, ns)
<1>1. ~latched /\ verbs' = verbs /\ born' = born + 1 /\ "compact" \in verbs
  BY DEF compact, May
<1>2. Flushed = disk /\ born \in Nat /\ Apart(verbs) /\ live \in Seq(Messages)
  BY <1>1, Ready
<1>3. /\ Write(<< n >>) /\ Len(live) > KeepTail
      /\ base' = base /\ head' = head
      /\ ~latched' => /\ live' = ns /\ tail' = NoSwipe /\ marks' = <<>> /\ UNCHANGED <<base, head>>
  BY <1>2 DEF compact, CanCompact
<1>4. "long" \notin verbs /\ born' \in Nat /\ born + 1 \in Nat
  BY <1>1, <1>2 DEF Apart
<1>5. /\ ns \in Seq(Messages) /\ Len(ns) = KeepTail + 1 /\ isAuthoredLine(ns[1])
      /\ Len(live) - KeepTail - 1 \in Nat
      /\ \A i \in 2..(KeepTail + 1) : ns[i] = live[i + (Len(live) - KeepTail - 1)]
  BY <1>2, <1>3, <1>4, CondensedFacts
<1>6. Len(ns) + (Len(live) - KeepTail - 1) <= Len(live)
  BY <1>2, <1>5, RevisionAssumption, LenProperties
<1> HIDE DEF ns
<1>7. n \in Goods(verbs) /\ Synced(ns, NoSwipe, <<>>, base, n)
  BY <1>1, <1>4, <1>5, <1>6, CheckpointSync
<1> HIDE DEF n
<1>8. ~latched' => Synced(live', tail', marks', base, n) /\ base' = base /\ head' = head
  BY <1>3, <1>7
<1>9. QED
  BY <1>1, <1>3, <1>4, <1>7, <1>8, LandsOne

LEMMA ClearStep == IInv /\ clear => IInv' /\ Saved
<1> SUFFICES ASSUME IInv, clear PROVE IInv' /\ Saved
  OBVIOUS
<1> DEFINE n == CompactionRow(disk, <<>>)
<1>1. ~latched /\ verbs' = verbs /\ born' = born + 0 /\ "clear" \in verbs
  BY DEF clear, May
<1>2. Flushed = disk /\ born \in Nat /\ Apart(verbs) /\ Len(live) \in Nat
  BY <1>1, Ready
<1>3. /\ Write(<< n >>)
      /\ base' = base /\ head' = head
      /\ ~latched' => /\ live' = <<>> /\ tail' = NoSwipe /\ marks' = <<>> /\ UNCHANGED <<base, head>>
  BY <1>2 DEF clear, Then, memory
<1>4. "long" \notin verbs /\ born' \in Nat
  BY <1>1, <1>2 DEF Apart
<1>5. <<>> \in Seq(Messages) /\ Len(<<>>) = 0 /\ 0 \in Nat /\ Len(<<>>) + 0 <= Len(live)
      /\ \A i \in 2..Len(<<>>) : <<>>[i] = live[i + 0]
  BY <1>2
<1>6. n \in Goods(verbs) /\ Synced(<<>>, NoSwipe, <<>>, base, n)
  BY <1>1, <1>4, <1>5, CheckpointSync
<1> HIDE DEF n
<1>7. ~latched' => Synced(live', tail', marks', base, n) /\ base' = base /\ head' = head
  BY <1>3, <1>6
<1>8. QED
  BY <1>1, <1>3, <1>4, <1>6, <1>7, LandsOne

LEMMA PrefixFacts ==
  ASSUME NEW S, NEW x \in S, NEW s \in Seq(S)
  PROVE  /\ << x >> \o s \in Seq(S) /\ Len(<< x >> \o s) = Len(s) + 1
         /\ (<< x >> \o s)[1] = x
         /\ \A i \in 1..Len(s) : (<< x >> \o s)[i + 1] = s[i]
<1>1. << x >> \in Seq(S) /\ Len(<< x >>) = 1 /\ Len(s) \in Nat /\ << x >>[1] = x
  BY LenProperties
<1> DEFINE y == << x >>
<1>2. /\ y \o s \in Seq(S) /\ Len(y \o s) = Len(y) + Len(s)
      /\ \A i \in 1..(Len(y) + Len(s)) : (y \o s)[i] = IF i <= Len(y) THEN y[i] ELSE s[i - Len(y)]
  <2>1. y \in Seq(S)
    BY <1>1
  <2> HIDE DEF y
  <2>2. QED
    BY <2>1, ConcatProperties
<1>3. Len(y) = 1 /\ y[1] = x
  BY <1>1
<1> HIDE DEF y
<1>4. Len(y \o s) = Len(s) + 1 /\ (y \o s)[1] = x
  BY <1>1, <1>2, <1>3
<1>5. ASSUME NEW i \in 1..Len(s) PROVE (y \o s)[i + 1] = s[i]
  <2>1. i + 1 \in 1..(Len(y) + Len(s)) /\ ~(i + 1 <= Len(y)) /\ (i + 1) - Len(y) = i
    BY <1>1, <1>3
  <2>2. QED
    BY <1>2, <2>1
<1>6. QED
  BY <1>2, <1>4, <1>5 DEF y

LEMMA PrefixRows ==
  ASSUME NEW S, NEW x \in S, NEW s \in Seq(S), Len(s) >= 1
  PROVE  /\ << x >> \o s \in Seq(S) /\ Len(<< x >> \o s) >= 1
         /\ (<< x >> \o s)[Len(<< x >> \o s)] = s[Len(s)]
<1>1. Len(s) \in Nat /\ Len(s) \in 1..Len(s)
  BY LenProperties
<1>2. /\ << x >> \o s \in Seq(S) /\ Len(<< x >> \o s) = Len(s) + 1
      /\ \A i \in 1..Len(s) : (<< x >> \o s)[i + 1] = s[i]
  BY PrefixFacts
<1>3. QED
  BY <1>1, <1>2

(* Two rows of one, put together. *)
LEMMA TwoRows == ASSUME NEW x, NEW y PROVE << x >> \o << y >> = << x, y >>
<1> DEFINE S == {x, y}
<1>1. << x >> \in Seq(S) /\ << y >> \in Seq(S) /\ Len(<< x >>) = 1 /\ Len(<< y >>) = 1
  OBVIOUS
<1>2. /\ << x >> \o << y >> \in Seq(S) /\ Len(<< x >> \o << y >>) = 2
      /\ (<< x >> \o << y >>)[1] = x /\ (<< x >> \o << y >>)[2] = y
  BY <1>1, ConcatProperties
<1>3. << x, y >> \in Seq(S) /\ Len(<< x, y >>) = 2 /\ << x, y >>[1] = x /\ << x, y >>[2] = y
  OBVIOUS
<1> DEFINE r == << x >> \o << y >>
<1> DEFINE t == << x, y >>
<1>4. r \in Seq(S) /\ t \in Seq(S) /\ Len(r) = 2 /\ Len(t) = 2 /\ r[1] = t[1] /\ r[2] = t[2]
  BY <1>2, <1>3
<1> HIDE DEF r, t
<1>5. \A i \in 1..Len(r) : r[i] = t[i]
  BY <1>4
<1>6. r = t
  BY <1>4, <1>5, SeqEqual
<1>7. QED
  BY <1>6 DEF r, t

(* A text, and the reply to it. *)
LEMMA AskedSync ==
  ASSUME NEW V, NEW w \in Goods(V), NEW b \in Nat, NEW l \in Seq(Messages), NEW m,
         Shows(l, b, w.msgs), MarksSync(m, w, b),
         NEW u \in Messages, u.who = "user", NEW a \in Messages, a.who = "model"
  PROVE  /\ MessageRow(w, u) \in Goods(V)
         /\ Synced(Append(l, u), NoSwipe, m, b, MessageRow(w, u))
         /\ ToSet(w.msgs) \subseteq OnRecord(MessageRow(w, u))
         /\ MessageRow(MessageRow(w, u), a) \in Goods(V)
         /\ Synced(l \o << u, a >>, NoSwipe, m, b, MessageRow(MessageRow(w, u), a))
<1> DEFINE n == MessageRow(w, u)
<1> DEFINE o == MessageRow(n, a)
<1> DEFINE k == Append(l, u)
<1>1. w.msgs \in Seq(Messages) /\ Len(w.msgs) \in Nat
  BY GoodsFacts
<1>2. n \in Goods(V) /\ n.msgs = Append(w.msgs, u) /\ n.vars = w.vars
  BY MessageRowGood
<1> HIDE DEF n
<1>3. Shows(k, b, n.msgs) /\ k \in Seq(Messages)
  BY <1>1, <1>2, ShowsAppend, AppendFacts
<1>4. /\ n.msgs \in Seq(Messages) /\ Len(n.msgs) = Len(w.msgs) + 1
      /\ \A i \in 1..Len(w.msgs) : n.msgs[i] = w.msgs[i]
  BY <1>1, <1>2, AppendFacts
<1>5. n.msgs # <<>>
  <2>1. Len(n.msgs) # 0
    BY <1>1, <1>4
  <2>2. QED
    BY <2>1
<1>6. o \in Goods(V) /\ o.msgs = Append(n.msgs, a) /\ o.vars = n.vars
  <2>1. n \in Goods(V)
    BY <1>2
  <2>2. o \in Goods(V) /\ o.msgs = Append(n.msgs, a)
    BY <1>5, <2>1, MessageRowGood
  <2>3. o.vars = n.vars
    BY <1>5, <2>1, MessageRowGood
  <2>4. QED
    BY <2>2, <2>3
<1> HIDE DEF o
<1>7. Append(k, a) = l \o << u, a >> /\ Append(k, a) \in Seq(Messages)
  <2>1. << u >> \in Seq(Messages) /\ << a >> \in Seq(Messages) /\ << u >> \o << a >> = << u, a >>
    <3>1. << u >> \in Seq(Messages) /\ << a >> \in Seq(Messages)
      OBVIOUS
    <3>2. Append(<< u >>, a) = << u >> \o << a >>
      BY <3>1, AppendIsConcat
    <3>3. QED
      BY <3>1, TwoRows
  <2>2. k = l \o << u >> /\ Append(k, a) = k \o << a >>
    BY <1>3, AppendIsConcat
  <2>3. (l \o << u >>) \o << a >> = l \o (<< u >> \o << a >>)
    BY <2>1, ConcatAssociative
  <2>4. Append(k, a) \in Seq(Messages)
    BY <1>3, AppendFacts
  <2> HIDE DEF k
  <2>5. QED
    BY <2>1, <2>2, <2>3, <2>4
<1> HIDE DEF k
<1>8. Shows(Append(k, a), b, o.msgs)
  BY <1>3, <1>4, <1>6, ShowsAppend
<1>9. Synced(k, NoSwipe, m, b, n)
  BY <1>2, <1>3, PlainSync
<1>10. Synced(Append(k, a), NoSwipe, m, b, o)
  <2>1. o.vars = w.vars
    BY <1>2, <1>6
  <2>2. QED
    BY <1>7, <1>8, <2>1, PlainSync
<1>11. ToSet(w.msgs) \subseteq OnRecord(n)
  <2>1. DOMAIN w.msgs = 1..Len(w.msgs) /\ DOMAIN n.msgs = 1..Len(n.msgs)
    BY <1>1, <1>4, LenProperties
  <2>2. \A i \in DOMAIN w.msgs : i \in DOMAIN n.msgs /\ n.msgs[i] = w.msgs[i]
    BY <1>1, <1>4, <2>1
  <2>3. ToSet(w.msgs) \subseteq ToSet(n.msgs)
    BY <2>2 DEF ToSet
  <2>4. QED
    BY <2>3 DEF OnRecord
<1>12. QED
  BY <1>2, <1>6, <1>7, <1>9, <1>10, <1>11 DEF n, o, k

LEMMA PromptStep ==
  ASSUME NEW condense \in BOOLEAN, NEW fate \in {"answered", "failed", "withdrawn"}
  PROVE  IInv /\ Prompt(condense, fate) => IInv' /\ Saved
<1> SUFFICES ASSUME IInv, Prompt(condense, fate) PROVE IInv' /\ Saved
  OBVIOUS
<1> DEFINE old == IF condense THEN Condensed(live, born + 3) ELSE live
<1> DEFINE file == IF condense THEN CompactionRow(disk, old) ELSE disk
<1> DEFINE u == Message(born + 1, "user")
<1> DEFINE a == Message(born + 2, "model")
<1> DEFINE asked == MessageRow(file, u)
<1> DEFINE p == Len(old) + 1
<1> DEFINE rows == CASE fate = "answered"  -> << asked, MessageRow(asked, a) >>
                     [] fate = "failed"    -> << asked >>
                     [] fate = "withdrawn" -> << asked, DeleteRow(asked, p + base) >>
<1> DEFINE now == CASE fate = "answered"  -> old \o << u, a >>
                    [] fate = "failed"    -> Append(old, u)
                    [] fate = "withdrawn" -> old
<1> DEFINE k == IF fate = "withdrawn" THEN ShiftVariantKeysOnDelete(marks, p) ELSE marks
<1> DEFINE states == (IF condense THEN << file >> ELSE <<>>) \o rows
<1>1. ~latched /\ verbs' = verbs /\ born' = born + (IF condense THEN 3 ELSE 2)
  BY DEF Prompt, May
<1>2. /\ disk \in Goods(verbs) /\ base \in Nat /\ live \in Seq(Messages) /\ Len(live) \in Nat
      /\ Shows(live, base, disk.msgs) /\ MarksSync(marks, disk, base)
      /\ Flushed = disk /\ born \in Nat /\ Apart(verbs) /\ diskIndex(p) = p + base
  BY <1>1, Ready
<1>3. /\ Write(states) /\ (condense => "condense" \in verbs /\ Len(live) > KeepTail)
      /\ base' = base /\ head' = head
      /\ ~latched' => live' = now /\ tail' = NoSwipe /\ marks' = k /\ UNCHANGED <<base, head>>
  BY <1>2 DEF Prompt, CanCompact
<1>4. /\ u \in Messages /\ u.who = "user" /\ a \in Messages /\ a.who = "model" /\ born' \in Nat
      /\ born + 3 \in Nat
  BY <1>1, <1>2, MadeFacts DEF Message
<1> HIDE DEF u, a
<1>5. /\ file \in Goods(verbs) /\ old \in Seq(Messages) /\ Shows(old, base, file.msgs)
      /\ MarksSync(marks, file, base)
  <2>1. CASE ~condense
    BY <1>2, <2>1
  <2>2. CASE condense
    <3> DEFINE ns == Condensed(live, born + 3)
    <3>1. "long" \notin verbs /\ "edit" \notin verbs /\ Len(live) > KeepTail
      BY <1>2, <1>3, <2>2 DEF Apart
    <3>2. /\ ns \in Seq(Messages) /\ Len(ns) = KeepTail + 1 /\ isAuthoredLine(ns[1])
          /\ Len(live) - KeepTail - 1 \in Nat
          /\ \A i \in 2..(KeepTail + 1) : ns[i] = live[i + (Len(live) - KeepTail - 1)]
      BY <1>2, <1>4, <3>1, CondensedFacts
    <3>3. Len(ns) + (Len(live) - KeepTail - 1) <= Len(live)
      BY <1>2, <3>2, RevisionAssumption
    <3> DEFINE n == CompactionRow(disk, ns)
    <3>4. old = ns /\ file = n
      BY <2>2
    <3> HIDE DEF ns
    <3>5. n \in Goods(verbs) /\ Synced(ns, NoSwipe, <<>>, base, n) /\ n.vars = <<>>
      BY <1>1, <3>1, <3>2, <3>3, CheckpointSync
    <3>6. DOMAIN disk.vars = {}
      BY <1>2, <3>1, GoodsFacts DEF GoodMarks
    <3>7. MarksSync(marks, n, base)
      BY <1>2, <3>5, <3>6, MarkSetFacts DEF MarksSync
    <3> HIDE DEF n
    <3>8. QED
      BY <3>2, <3>4, <3>5, <3>7 DEF Synced
  <2>3. QED
    BY <2>1, <2>2
<1>6. ~condense => file = disk
  OBVIOUS
<1> HIDE DEF old, file
<1>7. /\ asked \in Goods(verbs) /\ Synced(Append(old, u), NoSwipe, marks, base, asked)
      /\ ToSet(file.msgs) \subseteq OnRecord(asked)
      /\ MessageRow(asked, a) \in Goods(verbs)
      /\ Synced(old \o << u, a >>, NoSwipe, marks, base, MessageRow(asked, a))
  BY <1>2, <1>4, <1>5, AskedSync
<1>8. /\ DeleteRow(asked, p + base) \in Goods(verbs)
      /\ Synced(old, NoSwipe, ShiftVariantKeysOnDelete(marks, p), base, DeleteRow(asked, p + base))
  BY <1>2, <1>4, <1>5, WithdrawnSync
<1> HIDE DEF asked, p
<1>9. /\ rows \in Seq(Goods(verbs)) /\ Len(rows) >= 1
      /\ \A i \in 1..(Len(rows) - 1) : rows[i] = asked
      /\ Synced(now, NoSwipe, k, base, rows[Len(rows)])
  <2>1. CASE fate = "answered"
    <3> DEFINE x == MessageRow(asked, a)
    <3>1. rows = << asked, x >> /\ now = old \o << u, a >> /\ k = marks
      BY <2>1
    <3>2. x \in Goods(verbs) /\ Synced(now, NoSwipe, k, base, x)
      BY <1>7, <3>1
    <3> HIDE DEF x, rows, now, k
    <3>3. << asked, x >> \in Seq(Goods(verbs)) /\ Len(<< asked, x >>) = 2
      BY <1>7, <3>2
    <3>4. QED
      BY <3>1, <3>2, <3>3
  <2>2. CASE fate = "failed"
    <3>1. rows = << asked >> /\ now = Append(old, u) /\ k = marks
      BY <2>2
    <3> HIDE DEF rows, now, k
    <3>2. << asked >> \in Seq(Goods(verbs)) /\ Len(<< asked >>) = 1
      BY <1>7
    <3>3. QED
      BY <1>7, <3>1, <3>2
  <2>3. CASE fate = "withdrawn"
    <3> DEFINE x == DeleteRow(asked, p + base)
    <3>1. rows = << asked, x >> /\ now = old /\ k = ShiftVariantKeysOnDelete(marks, p)
      BY <2>3
    <3>2. x \in Goods(verbs) /\ Synced(now, NoSwipe, k, base, x)
      BY <1>8, <3>1
    <3> HIDE DEF x, rows, now, k
    <3>3. << asked, x >> \in Seq(Goods(verbs)) /\ Len(<< asked, x >>) = 2
      BY <1>7, <3>2
    <3>4. QED
      BY <3>1, <3>2, <3>3
  <2>4. QED
    BY <2>1, <2>2, <2>3
<1> HIDE DEF rows, now, k
<1>10. /\ states \in Seq(Goods(verbs)) /\ Len(states) >= 1
       /\ states[Len(states)] = rows[Len(rows)]
       /\ ~condense => states = rows
  <2>1. CASE condense
    <3>1. states = << file >> \o rows
      BY <2>1
    <3> HIDE DEF states
    <3>2. QED
      BY <1>5, <1>9, <2>1, <3>1, PrefixRows
  <2>2. CASE ~condense
    <3>1. states = <<>> \o rows
      BY <2>2
    <3>2. <<>> \o rows = rows
      BY <1>9, ConcatEmptySeq
    <3> HIDE DEF states
    <3>3. QED
      BY <1>9, <2>2, <3>1, <3>2
  <2>3. QED
    BY <2>1, <2>2
<1> HIDE DEF states
<1>11. "condense" \notin verbs =>
         \A i \in 1..(Len(states) - 1) : ToSet(disk.msgs) \subseteq OnRecord(states[i])
  BY <1>3, <1>6, <1>7, <1>9, <1>10
<1>12. ~latched' => /\ Synced(live', tail', marks', base, states[Len(states)])
                    /\ base' = base /\ head' = head
  BY <1>3, <1>9, <1>10
<1>13. QED
  BY <1>1, <1>3, <1>4, <1>10, <1>11, <1>12, Lands


LEMMA FunctionRows ==
  ASSUME NEW S, NEW N \in Nat, NEW f \in [1..N -> S]
  PROVE  f \in Seq(S) /\ Len(f) = N
<1>1. f \in Seq(S)
  BY SeqDef
<1>2. DOMAIN f = 1..N /\ DOMAIN f = 1..Len(f) /\ Len(f) \in Nat
  BY <1>1, LenProperties
<1>3. QED
  BY <1>1, <1>2

(* Once the rows have landed, the file is what the last one leaves.           *)
LEMMA LastRow ==
  ASSUME IInv, ~latched, NEW S, NEW states \in Seq(S), Write(states), ~latched'
  PROVE  disk' = states[Len(states)]
<1>1. flushPendingGreeting \o states = states
  BY Ready, ConcatEmptySeq
<1>2. QED
  BY <1>1 DEF Write, Last

LEMMA PlainShown ==
  ASSUME NEW l \in Seq(Messages), NEW b \in Nat, NEW ms \in Seq(Messages), Shows(l, b, ms),
         NEW s \in 1..(Len(l) + 1), PlainFrom(l, s)
  PROVE  PlainFrom(ms, s + b) /\ s + b \in 1..(Len(ms) + 1)
<1>1. Len(l) \in Nat /\ Len(ms) \in Nat /\ Len(ms) = b + Len(l)
  BY LenProperties DEF Shows
<1>2. ASSUME NEW i \in 1..Len(ms), i >= s + b PROVE ~isAuthoredLine(ms[i])
  <2>1. i - b \in 1..Len(l) /\ i - b >= s /\ (i - b) + b = i
    BY <1>1, <1>2
  <2>2. l[i - b] = ms[i]
    BY <2>1 DEF Shows
  <2>3. QED
    BY <2>1, <2>2 DEF PlainFrom
<1>3. s + b \in 1..(Len(ms) + 1)
  BY <1>1
<1>4. QED
  BY <1>2, <1>3 DEF PlainFrom

(* What a cut took out of the transcript is a take.                           *)
LEMMA CutKept ==
  ASSUME NEW ms \in Seq(Messages), NEW p \in 1..(Len(ms) + 1), NEW u \in Seq(Messages),
         NEW n \in Files, n.msgs = Before(ms, p) \o u,
         \E k \in 1..Len(n.takes) : n.takes[k] = From(ms, p)
  PROVE  ToSet(ms) \subseteq OnRecord(n)
<1>1. /\ n.msgs \in Seq(Messages) /\ Len(n.msgs) = p - 1 + Len(u)
      /\ \A i \in 1..(p - 1) : n.msgs[i] = ms[i]
  <2>1. /\ Before(ms, p) \o u \in Seq(Messages) /\ Len(Before(ms, p) \o u) = p - 1 + Len(u)
        /\ \A i \in 1..(p - 1) : (Before(ms, p) \o u)[i] = ms[i]
    BY JoinFacts
  <2>2. QED
    BY <2>1
<1>2. PICK k \in 1..Len(n.takes) : n.takes[k] = From(ms, p)
  OBVIOUS
<1>3. /\ n.takes[k] \in Seq(Messages) /\ Len(n.takes[k]) = Len(ms) - p + 1
      /\ \A i \in 1..(Len(ms) - p + 1) : n.takes[k][i] = ms[p + i - 1]
  <2>1. /\ From(ms, p) \in Seq(Messages) /\ Len(From(ms, p)) = Len(ms) - p + 1
        /\ \A i \in 1..(Len(ms) - p + 1) : From(ms, p)[i] = ms[p + i - 1]
    BY FromFacts
  <2>2. QED
    BY <1>2, <2>1
<1>4. Len(ms) \in Nat /\ Len(u) \in Nat /\ p \in Nat /\ DOMAIN ms = 1..Len(ms)
      /\ DOMAIN n.msgs = 1..Len(n.msgs) /\ DOMAIN n.takes[k] = 1..Len(n.takes[k])
      /\ DOMAIN n.takes = 1..Len(n.takes)
  <2>1. n.takes \in Seq(Seq(Messages))
    BY DEF Files
  <2>2. DOMAIN n.takes = 1..Len(n.takes)
    BY <2>1, LenProperties
  <2>3. DOMAIN n.msgs = 1..Len(n.msgs) /\ DOMAIN n.takes[k] = 1..Len(n.takes[k])
    BY <1>1, <1>3, LenProperties
  <2>4. Len(ms) \in Nat /\ Len(u) \in Nat /\ DOMAIN ms = 1..Len(ms)
    BY LenProperties
  <2>5. p \in Nat
    BY <2>4
  <2>6. QED
    BY <2>2, <2>3, <2>4, <2>5
<1>5. ToSet(n.takes[k]) \in {ToSet(t) : t \in ToSet(n.takes)}
  <2>1. n.takes[k] \in ToSet(n.takes)
    BY <1>2, <1>4 DEF ToSet
  <2>2. QED
    BY <2>1
<1>6. ASSUME NEW i \in 1..Len(ms) PROVE ms[i] \in OnRecord(n)
  <2>1. CASE i < p
    <3>1. i \in 1..(p - 1) /\ i \in DOMAIN n.msgs
      BY <1>1, <1>4, <2>1
    <3>2. ms[i] \in ToSet(n.msgs)
      BY <1>1, <3>1 DEF ToSet
    <3>3. QED
      BY <3>2 DEF OnRecord
  <2>2. CASE ~(i < p)
    <3>1. i - p + 1 \in 1..(Len(ms) - p + 1) /\ p + (i - p + 1) - 1 = i
      BY <1>4, <2>2
    <3>2. ms[i] = n.takes[k][i - p + 1] /\ i - p + 1 \in DOMAIN n.takes[k]
      BY <1>3, <1>4, <3>1
    <3>3. ms[i] \in ToSet(n.takes[k])
      BY <3>2 DEF ToSet
    <3>4. QED
      BY <1>5, <3>3 DEF OnRecord
  <2>3. QED
    BY <2>1, <2>2
<1>7. QED
  BY <1>4, <1>6 DEF ToSet

(* The rows of a cut and of what follows it, u, the last of which is n.       *)
LEMMA CutStep ==
  ASSUME IInv, ~latched, verbs' = verbs, born' \in Nat, "retry" \in verbs \/ "edit" \in verbs,
         NEW s \in 1..(Len(live) + 1), PlainFrom(live, s), s + base >= 2,
         NEW u \in Seq(Messages), PlainFrom(u, 1),
         NEW n \in Goods(verbs), n.msgs = Before(disk.msgs, s + base) \o u,
         n.start = s + base, n.vars = disk.vars, Len(n.takes) >= 2,
         NEW states \in Seq(Goods(verbs)), Len(states) >= 1, states[Len(states)] = n,
         \A i \in 1..(Len(states) - 1) : ToSet(disk.msgs) \subseteq OnRecord(states[i]),
         NEW k, MarksSync(k, disk, base), NEW old,
         Write(states), base' = base /\ head' = head,
         ~latched' => /\ live' = Before(live, s) \o u
                      /\ tail' = seedTail(old, disk', Before(live, s) \o u, base)
                      /\ marks' = k /\ UNCHANGED <<base, head>>
  PROVE  /\ IInv' /\ Saved /\ (~latched' => disk' = n)
         /\ ~latched' => tail' = TailAt(n, Before(live, s) \o u, s)
<1>1. /\ disk \in Goods(verbs) /\ base \in Nat /\ live \in Seq(Messages)
      /\ Shows(live, base, disk.msgs)
  BY Ready
<1> DEFINE y == Before(live, s) \o u
<1>2. /\ Synced(y, seedTail(old, n, y, base), k, base, n)
      /\ seedTail(old, n, y, base) = TailAt(n, y, s)
  <2>1. Shown(live, base, disk)
    BY <1>1 DEF Shown
  <2>2. base \in Nat /\ disk \in Goods(verbs)
    BY <1>1
  <2>3. Synced(y, seedTail(old, n, y, base), k, base, n)
    BY <2>1, <2>2, CutSync
  <2>4. Reseeded(old, n, y, base, s)
    BY <2>1, <2>2, CutSync
  <2>5. QED
    BY <2>3, <2>4 DEF Reseeded
<1>3. ~latched' => disk' = n
  BY LastRow
<1>4. ~latched' => live' = y /\ tail' = seedTail(old, n, y, base) /\ marks' = k
  BY <1>3
<1> HIDE DEF y
<1>5. ~latched' => /\ Synced(live', tail', marks', base, states[Len(states)])
                   /\ base' = base /\ head' = head
  BY <1>2, <1>4
<1>6. IInv' /\ Saved
  BY <1>5, Lands
<1>7. QED
  BY <1>2, <1>3, <1>4, <1>6 DEF y

LEMMA CutToGood ==
  ASSUME NEW V, "retry" \in V \/ "edit" \in V, NEW w \in Goods(V),
         NEW p \in 1..(Len(w.msgs) + 1), p >= 2, PlainFrom(w.msgs, p),
         NEW u \in Seq(Messages), PlainFrom(u, 1)
  PROVE  /\ CutTo(w, p, u) \in Goods(V) /\ CutTo(w, p, u).msgs = Before(w.msgs, p) \o u
         /\ CutTo(w, p, u).start = p /\ CutTo(w, p, u).vars = w.vars
         /\ Len(CutTo(w, p, u).takes) >= 2
         /\ CutTo(w, p, u).active \in 1..Len(CutTo(w, p, u).takes)
         /\ Aside(CutTo(w, p, u), From(w.msgs, p))
         /\ ToSet(w.msgs) \subseteq OnRecord(CutTo(w, p, u))
         /\ RowsCutTo(w, p, u)
<1> DEFINE c == RetractRow(w, p)
<1> DEFINE n == CutTo(w, p, u)
<1>1. /\ c \in Files /\ c.start = p /\ c.vars = w.vars /\ Len(c.takes) >= 2
      /\ c.active \in 1..Len(c.takes)
      /\ \E k \in 1..Len(c.takes) : k # c.active /\ c.takes[k] = From(w.msgs, p)
  <2>1. c \in Goods(V) /\ c.start = p /\ c.vars = w.vars /\ Len(c.takes) >= 2
    BY RetractRowGood
  <2>2. c.active \in 1..Len(c.takes)
    BY RetractRowGood
  <2>3. \E k \in 1..Len(c.takes) : k # c.active /\ c.takes[k] = From(w.msgs, p)
    BY RetractRowGood
  <2>4. c \in Files
    BY <2>1 DEF Goods
  <2>5. QED
    BY <2>1, <2>2, <2>3, <2>4
<1>2. MessageRows(c, u) \in Goods(V) /\ MessageRows(c, u) = CutTo(w, p, u) /\ RowsCutTo(w, p, u)
  <2>1. MessageRows(c, u) \in Goods(V)
    BY MessageRowsGood
  <2>2. RowsCutTo(w, p, u)
    BY MessageRowsGood
  <2>3. QED
    BY <2>1, <2>2 DEF RowsCutTo
<1>3. n = [c EXCEPT !.msgs = Before(w.msgs, p) \o u]
  BY DEF CutTo
<1>4. n \in Goods(V) /\ n \in Files
  BY <1>2, GoodsFacts
<1> HIDE DEF c, n
<1>5. /\ n.msgs = Before(w.msgs, p) \o u /\ n.start = c.start /\ n.vars = c.vars
      /\ n.takes = c.takes /\ n.active = c.active
  BY <1>1, <1>3 DEF Files
<1>6. \E k \in 1..Len(n.takes) : k # n.active /\ n.takes[k] = From(w.msgs, p)
  BY <1>1, <1>5
<1>7. ToSet(w.msgs) \subseteq OnRecord(n)
  <2>1. w.msgs \in Seq(Messages)
    BY GoodsFacts
  <2>2. QED
    BY <1>4, <1>5, <1>6, <2>1, CutKept
<1>8. Aside(n, From(w.msgs, p))
  BY <1>6 DEF Aside
<1>9. QED
  BY <1>1, <1>2, <1>4, <1>5, <1>7, <1>8 DEF n, c

(* The rows of a regenerate: the cut, and the reply if there was one.         *)
LEMMA ReplyRow ==
  ASSUME NEW V, "retry" \in V \/ "edit" \in V, NEW w \in Goods(V),
         NEW p \in 1..(Len(w.msgs) + 1), p >= 2, PlainFrom(w.msgs, p),
         NEW a \in Messages, a.who = "model"
  PROVE  /\ << a >> \in Seq(Messages) /\ PlainFrom(<< a >>, 1)
         /\ MessageRow(RetractRow(w, p), a) = CutTo(w, p, << a >>)
         /\ <<>> \in Seq(Messages) /\ PlainFrom(<<>>, 1) /\ RetractRow(w, p) = CutTo(w, p, <<>>)
<1> DEFINE c == RetractRow(w, p)
<1>1. c \in Files /\ c.msgs = Before(w.msgs, p) /\ Before(w.msgs, p) \in Seq(Messages)
  <2>1. c \in Goods(V) /\ c.msgs = Before(w.msgs, p)
    BY RetractRowGood
  <2>2. w.msgs \in Seq(Messages)
    BY GoodsFacts
  <2>3. c \in Files
    BY <2>1 DEF Goods
  <2>4. Before(w.msgs, p) \in Seq(Messages)
    BY <2>2, BeforeFacts
  <2>5. QED
    BY <2>1, <2>3, <2>4
<1>2. << a >> \in Seq(Messages) /\ PlainFrom(<< a >>, 1)
  BY DEF PlainFrom, isAuthoredLine
<1>3. <<>> \in Seq(Messages) /\ PlainFrom(<<>>, 1)
  BY DEF PlainFrom
<1>4. MessageRow(c, a) = CutTo(w, p, << a >>)
  <2> DEFINE b == Before(w.msgs, p)
  <2>1. Append(b, a) = b \o << a >>
    BY <1>1, AppendIsConcat
  <2>2. MessageRow(c, a) = [c EXCEPT !.msgs = Append(c.msgs, a)]
    BY DEF MessageRow
  <2>3. CutTo(w, p, << a >>) = [c EXCEPT !.msgs = b \o << a >>]
    BY DEF CutTo
  <2> HIDE DEF b, c
  <2>4. [c EXCEPT !.msgs = Append(b, a)] = [c EXCEPT !.msgs = b \o << a >>]
    BY <2>1
  <2>5. c.msgs = b
    BY <1>1 DEF b
  <2>6. QED
    BY <2>2, <2>3, <2>4, <2>5
<1>5. c = CutTo(w, p, <<>>)
  <2> DEFINE b == Before(w.msgs, p)
  <2>1. b \o <<>> = b
    BY <1>1, ConcatEmptySeq
  <2>2. CutTo(w, p, <<>>) = [c EXCEPT !.msgs = b \o <<>>]
    BY DEF CutTo
  <2>3. c \in Files /\ c.msgs = b
    BY <1>1
  <2> HIDE DEF b, c
  <2>4. [c EXCEPT !.msgs = b] = c
    BY <2>3 DEF Files
  <2>5. QED
    BY <2>1, <2>2, <2>4
<1>6. QED
  BY <1>2, <1>3, <1>4, <1>5

LEMMA RetryStep == ASSUME NEW answered \in BOOLEAN PROVE IInv /\ retry(answered) => IInv' /\ Saved
<1> SUFFICES ASSUME IInv, retry(answered) PROVE IInv' /\ Saved
  OBVIOUS
<1> DEFINE s == lastResponseStart(live)
<1> DEFINE q == s + base
<1> DEFINE a == Message(born + 1, "model")
<1> DEFINE u == IF answered THEN << a >> ELSE <<>>
<1> DEFINE cut == CutTo(disk, q, <<>>)
<1> DEFINE n == CutTo(disk, q, u)
<1> DEFINE rows == IF answered THEN << cut, n >> ELSE << cut >>
<1> DEFINE k == DropVariantKeysFrom(marks, s)
<1>1. ~latched /\ verbs' = verbs /\ born' = born + 1 /\ "retry" \in verbs
  BY DEF retry, May
<1>2. /\ disk \in Goods(verbs) /\ base \in Nat /\ live \in Seq(Messages) /\ Len(live) \in Nat
      /\ Shows(live, base, disk.msgs) /\ Synced(live, tail, marks, base, disk)
      /\ disk.msgs \in Seq(Messages) /\ Flushed = disk /\ born \in Nat /\ diskIndex(s) = q
  BY <1>1, Ready
<1>3. a \in Messages /\ a.who = "model" /\ born' \in Nat
  BY <1>1, <1>2, MadeFacts DEF Message
<1>4. 1 < s /\ s \in 1..(Len(live) + 1) /\ PlainFrom(live, s)
  BY <1>2, LastResponse DEF retry
<1>5. PlainFrom(disk.msgs, q) /\ q \in 1..(Len(disk.msgs) + 1) /\ q >= 2
  <2> HIDE DEF s
  <2>1. PlainFrom(disk.msgs, q) /\ q \in 1..(Len(disk.msgs) + 1)
    BY <1>2, <1>4, PlainShown
  <2>2. QED
    BY <1>2, <1>4, <2>1
<1>6. /\ << a >> \in Seq(Messages) /\ PlainFrom(<< a >>, 1)
      /\ MessageRow(RetractRow(disk, q), a) = CutTo(disk, q, << a >>)
      /\ <<>> \in Seq(Messages) /\ PlainFrom(<<>>, 1) /\ RetractRow(disk, q) = cut
  <2> HIDE DEF q, a
  <2>1. QED
    BY <1>1, <1>2, <1>3, <1>5, ReplyRow
<1>7. /\ Write(<< RetractRow(disk, q) >> \o
                 (IF answered THEN << MessageRow(RetractRow(disk, q), a) >> ELSE <<>>))
      /\ base' = base /\ head' = head
      /\ ~latched' => /\ live' = Before(live, s) \o u
                      /\ tail' = seedTail(NoSwipe, disk', Before(live, s) \o u, base)
                      /\ marks' = k /\ UNCHANGED <<base, head>>
  BY <1>2 DEF retry, memory
<1>8. Write(rows)
  <2>1. << RetractRow(disk, q) >> \o (IF answered THEN << MessageRow(RetractRow(disk, q), a) >> ELSE <<>>)
          = rows
    <3> HIDE DEF q, a, cut
    <3>1. CASE answered
      <4>1. n = MessageRow(RetractRow(disk, q), a)
        BY <1>6, <3>1
      <4>2. RetractRow(disk, q) = cut
        BY <1>6
      <4> HIDE DEF n
      <4>3. << cut >> \o << n >> = << cut, n >>
        BY TwoRows
      <4>4. QED
        BY <3>1, <4>1, <4>2, <4>3
    <3>2. CASE ~answered
      BY <1>6, <3>2
    <3>3. QED
      BY <3>1, <3>2
  <2>2. QED
    BY <1>7, <2>1
<1>9. u \in Seq(Messages) /\ PlainFrom(u, 1)
  BY <1>6
<1>10. /\ n \in Goods(verbs) /\ n.msgs = Before(disk.msgs, q) \o u /\ n.start = q
       /\ n.vars = disk.vars /\ Len(n.takes) >= 2
  <2> HIDE DEF q, u
  <2>1. n \in Goods(verbs) /\ n.start = q /\ n.vars = disk.vars /\ Len(n.takes) >= 2
    BY <1>1, <1>2, <1>5, <1>9, CutToGood
  <2>2. RetractRow(disk, q) \in Files
    <3>1. RetractRow(disk, q) \in Goods(verbs)
      BY <1>1, <1>2, <1>5, RetractRowGood
    <3>2. QED
      BY <3>1 DEF Goods
  <2>3. n.msgs = Before(disk.msgs, q) \o u
    BY <2>2 DEF CutTo, Files
  <2>4. QED
    BY <2>1, <2>3
<1>11. cut \in Goods(verbs) /\ ToSet(disk.msgs) \subseteq OnRecord(cut)
  <2> HIDE DEF q
  <2>1. QED
    BY <1>1, <1>2, <1>5, <1>6, CutToGood
<1>12. MarksSync(k, disk, base)
  <2> HIDE DEF s
  <2>1. QED
    BY <1>2, <1>4, DropSync
<1> HIDE DEF cut, n
<1>13. /\ rows \in Seq(Goods(verbs)) /\ Len(rows) >= 1 /\ rows[Len(rows)] = n
       /\ \A i \in 1..(Len(rows) - 1) : ToSet(disk.msgs) \subseteq OnRecord(rows[i])
  <2>1. CASE answered
    BY <1>10, <1>11, <2>1
  <2>2. CASE ~answered
    <3>1. n = cut
      BY <2>2 DEF n, cut
    <3>2. QED
      BY <1>10, <2>2, <3>1
  <2>3. QED
    BY <2>1, <2>2
<1> HIDE DEF s, u, k, rows
<1>14. IInv' /\ Saved
  <2>1. s + base >= 2 /\ n.msgs = Before(disk.msgs, s + base) \o u /\ n.start = s + base
    BY <1>5, <1>10
  <2>2. QED
    BY <1>1, <1>3, <1>4, <1>7, <1>8, <1>9, <1>10, <1>12, <1>13, <2>1, CutStep
<1>15. QED
  BY <1>14

(* The take a cut sets aside is one of the session's.                         *)
LEMMA TakeKept ==
  ASSUME NEW n \in Files, NEW l, NEW s, NEW t,
         Aside(n, t)
  PROVE  TailAt(n, l, s).start = s /\ t \in ToSet(TailAt(n, l, s).takes)
<1> DEFINE ts == [n.takes EXCEPT ![n.active] = From(l, s)]
<1>1. PICK k \in 1..Len(n.takes) : k # n.active /\ n.takes[k] = t
  BY DEF Aside
<1>2. k \in DOMAIN n.takes
  <2>1. n.takes \in Seq(Seq(Messages))
    BY DEF Files
  <2>2. QED
    BY <2>1, LenProperties
<1>3. k \in DOMAIN ts /\ ts[k] = t
  BY <1>1, <1>2
<1>4. t \in ToSet(ts)
  <2> HIDE DEF ts
  <2>1. QED
    BY <1>3 DEF ToSet
<1>5. TailAt(n, l, s).start = s /\ TailAt(n, l, s).takes = ts
  BY DEF TailAt
<1>6. QED
  BY <1>4, <1>5

(* What an edit writes for a message of the last response.                    *)
LEMMA EditedSpan ==
  ASSUME NEW l \in Seq(Messages), NEW s \in 1..(Len(l) + 1), PlainFrom(l, s),
         NEW p \in 1..Len(l), p >= s, NEW i \in Nat
  PROVE  /\ reviseMessageText(l[p], i) \in Messages /\ reviseMessageText(l[p], i).who = "model"
         /\ From([l EXCEPT ![p] = reviseMessageText(l[p], i)], s) \in Seq(Messages)
         /\ PlainFrom(From([l EXCEPT ![p] = reviseMessageText(l[p], i)], s), 1)
         /\ Len(From([l EXCEPT ![p] = reviseMessageText(l[p], i)], s)) = Len(l) - s + 1
<1> DEFINE m == reviseMessageText(l[p], i)
<1> DEFINE y == [l EXCEPT ![p] = m]
<1> DEFINE f == From(y, s)
<1>1. l[p].who = "model"
  BY DEF PlainFrom, isAuthoredLine
<1>2. m \in Messages /\ m.who = "model"
  BY <1>1 DEF reviseMessageText, Message, Messages
<1> HIDE DEF m
<1>3. y \in Seq(Messages) /\ Len(y) = Len(l) /\ \A j \in 1..Len(l) : y[j] = IF j = p THEN m ELSE l[j]
  <2>1. y \in Seq(Messages) /\ Len(y) = Len(l)
    BY <1>2, ExceptSeq
  <2>2. DOMAIN l = 1..Len(l)
    BY LenProperties
  <2>3. QED
    BY <2>1, <2>2
<1> HIDE DEF y
<1>4. /\ f \in Seq(Messages) /\ Len(f) = Len(l) - s + 1
      /\ \A j \in 1..(Len(l) - s + 1) : f[j] = y[s + j - 1]
  BY <1>3, FromFacts
<1>5. ASSUME NEW j \in 1..Len(f) PROVE ~isAuthoredLine(f[j])
  <2>1. j \in 1..(Len(l) - s + 1) /\ s + j - 1 \in 1..Len(l) /\ s + j - 1 >= s
    BY <1>4, LenProperties
  <2> DEFINE r == s + j - 1
  <2>2. f[j] = y[r] /\ r \in 1..Len(l) /\ r >= s
    BY <1>4, <2>1
  <2> HIDE DEF r
  <2>3. ~isAuthoredLine(l[r])
    BY <2>2 DEF PlainFrom
  <2>4. ~isAuthoredLine(m)
    BY <1>2 DEF isAuthoredLine
  <2>5. QED
    BY <1>3, <2>2, <2>3, <2>4
<1>6. PlainFrom(f, 1)
  <2> HIDE DEF f
  <2>1. QED
    BY <1>5 DEF PlainFrom
<1>7. QED
  BY <1>2, <1>4, <1>6 DEF f, y, m

(* The rows of a cut and of a span, one message after the other.              *)
SpanRows(w, p, u) == [k \in 1..Len(u) |-> MessageRows(RetractRow(w, p), SubSeq(u, 1, k))]

LEMMA SpanRowsGood ==
  ASSUME NEW V, "retry" \in V \/ "edit" \in V, NEW w \in Goods(V),
         NEW p \in 1..(Len(w.msgs) + 1), p >= 2, PlainFrom(w.msgs, p),
         NEW u \in Seq(Messages), PlainFrom(u, 1), Len(u) >= 1
  PROVE  /\ << RetractRow(w, p) >> \o SpanRows(w, p, u) \in Seq(Goods(V))
         /\ Len(<< RetractRow(w, p) >> \o SpanRows(w, p, u)) >= 1
         /\ (<< RetractRow(w, p) >> \o SpanRows(w, p, u))
              [Len(<< RetractRow(w, p) >> \o SpanRows(w, p, u))] = CutTo(w, p, u)
         /\ \A i \in 1..(Len(<< RetractRow(w, p) >> \o SpanRows(w, p, u)) - 1) :
              ToSet(w.msgs) \subseteq OnRecord((<< RetractRow(w, p) >> \o SpanRows(w, p, u))[i])
<1> DEFINE Safe == {n \in Goods(V) : ToSet(w.msgs) \subseteq OnRecord(n)}
<1> DEFINE c == RetractRow(w, p)
<1> DEFINE f == SpanRows(w, p, u)
<1>1. Len(u) \in Nat
  BY LenProperties
<1>2. ASSUME NEW k \in 1..Len(u)
      PROVE  MessageRows(c, SubSeq(u, 1, k)) \in Safe
             /\ (k = Len(u) => MessageRows(c, SubSeq(u, 1, k)) = CutTo(w, p, u))
  <2> DEFINE x == SubSeq(u, 1, k)
  <2>1. /\ x \in Seq(Messages) /\ Len(x) = k /\ \A j \in 1..k : x[j] = u[j]
    BY <1>1, SubSeqProperties
  <2>2. k = Len(u) => x = u
    <3> HIDE DEF x
    <3>1. k = Len(u) => \A j \in 1..Len(x) : x[j] = u[j]
      BY <2>1
    <3>2. QED
      BY <2>1, <3>1, SeqEqual
  <2> HIDE DEF x
  <2>3. PlainFrom(x, 1)
    BY <1>1, <2>1 DEF PlainFrom
  <2>4. CutTo(w, p, x) \in Goods(V) /\ ToSet(w.msgs) \subseteq OnRecord(CutTo(w, p, x))
        /\ RowsCutTo(w, p, x)
    BY <2>1, <2>3, CutToGood
  <2>5. MessageRows(c, x) = CutTo(w, p, x)
    BY <2>4 DEF RowsCutTo
  <2> HIDE DEF c
  <2>6. QED
    BY <2>2, <2>4, <2>5 DEF x
<1>3. c \in Safe
  <2>1. <<>> \in Seq(Messages) /\ PlainFrom(<<>>, 1)
    BY DEF PlainFrom
  <2>2. /\ CutTo(w, p, <<>>) \in Goods(V) /\ ToSet(w.msgs) \subseteq OnRecord(CutTo(w, p, <<>>))
    BY <2>1, CutToGood
  <2>3. c = CutTo(w, p, <<>>)
    <3> DEFINE a == Message(0, "model")
    <3>1. a \in Messages /\ a.who = "model"
      BY DEF Message, Messages
    <3> HIDE DEF a
    <3>2. QED
      BY <3>1, ReplyRow
  <2> HIDE DEF c
  <2>4. QED
    BY <2>2, <2>3
<1>4. f \in [1..Len(u) -> Safe] /\ f[Len(u)] = CutTo(w, p, u)
  BY <1>1, <1>2 DEF SpanRows
<1> HIDE DEF f, c, Safe
<1>5. f \in Seq(Safe) /\ Len(f) = Len(u)
  BY <1>1, <1>4, FunctionRows
<1> DEFINE r == << c >> \o f
<1>6. r \in Seq(Safe) /\ Len(r) >= 1 /\ r[Len(r)] = f[Len(f)]
  BY <1>3, <1>5, PrefixRows
<1>7. r[Len(r)] = CutTo(w, p, u)
  BY <1>4, <1>5, <1>6
<1> HIDE DEF r
<1>8. \A i \in 1..Len(r) : r[i] \in Safe
  BY <1>6
<1>9. r \in Seq(Goods(V))
  <2>1. Len(r) \in Nat /\ r \in [1..Len(r) -> Safe]
    BY <1>6, LenProperties
  <2>2. r \in [1..Len(r) -> Goods(V)]
    BY <2>1 DEF Safe
  <2>3. QED
    BY <2>1, <2>2, FunctionRows
<1>10. \A i \in 1..(Len(r) - 1) : ToSet(w.msgs) \subseteq OnRecord(r[i])
  <2>1. \A i \in 1..(Len(r) - 1) : i \in 1..Len(r)
    BY <1>6, LenProperties
  <2>2. QED
    BY <1>8, <2>1 DEF Safe
<1>11. QED
  BY <1>6, <1>7, <1>9, <1>10 DEF r, f, c

(* An edit of the last response: what it said until now becomes a take.       *)
LEMMA EditTailStep ==
  ASSUME IInv, NEW p \in DOMAIN live, May("edit", 1), p >= lastResponseStart(live),
         editTailAsVariant(lastResponseStart(live), p)
  PROVE  /\ IInv' /\ Saved
         /\ ~latched' => /\ tail'.start = lastResponseStart(live)
                         /\ From(live, lastResponseStart(live)) \in ToSet(tail'.takes)
<1> DEFINE s == lastResponseStart(live)
<1> DEFINE q == s + base
<1> DEFINE m == reviseMessageText(live[p], born + 1)
<1> DEFINE u == From([live EXCEPT ![p] = m], s)
<1> DEFINE n == CutTo(disk, q, u)
<1> DEFINE rows == << RetractRow(disk, q) >> \o SpanRows(disk, q, u)
<1> DEFINE y == Before(live, s) \o u
<1>1. ~latched /\ verbs' = verbs /\ born' = born + 1 /\ "edit" \in verbs
  BY DEF May
<1>2. /\ disk \in Goods(verbs) /\ base \in Nat /\ live \in Seq(Messages) /\ Len(live) \in Nat
      /\ Shows(live, base, disk.msgs) /\ MarksSync(marks, disk, base) /\ Apart(verbs)
      /\ disk.msgs \in Seq(Messages) /\ Flushed = disk /\ born \in Nat /\ diskIndex(s) = q
      /\ Len(disk.msgs) = base + Len(live)
  BY <1>1, Ready
<1>3. p \in 1..Len(live) /\ born' \in Nat /\ born + 1 \in Nat /\ p >= s
  BY <1>1, <1>2, LenProperties
<1>4. s \in 1..(Len(live) + 1) /\ PlainFrom(live, s)
  BY <1>2, LastResponse
<1>5. /\ Write(<< RetractRow(disk, q) >>
                 \o [k \in 1..Len(u) |-> MessageRows(RetractRow(disk, q), SubSeq(u, 1, k))])
      /\ base' = base /\ head' = head
      /\ ~latched' => /\ live' = y /\ tail' = seedTail(tail, disk', y, base)
                      /\ UNCHANGED <<marks, base, head>>
  BY <1>2 DEF editTailAsVariant, Then, memory
<1>6. Write(rows)
  BY <1>5 DEF SpanRows
<1>7. u \in Seq(Messages) /\ PlainFrom(u, 1) /\ Len(u) >= 1
  <2> HIDE DEF s
  <2>1. u \in Seq(Messages) /\ PlainFrom(u, 1) /\ Len(u) = Len(live) - s + 1
    BY <1>2, <1>3, <1>4, EditedSpan
  <2> HIDE DEF u
  <2>2. QED
    BY <1>2, <1>3, <1>4, <2>1
<1> HIDE DEF s, u
<1>8. PlainFrom(disk.msgs, q) /\ q \in 1..(Len(disk.msgs) + 1)
  BY <1>2, <1>4, PlainShown
<1>9. q >= 2
  <2>1. disk.msgs # <<>>
    <3>1. Len(disk.msgs) >= 1
      BY <1>2, <1>3
    <3>2. Len(<<>>) = 0
      OBVIOUS
    <3>3. QED
      BY <3>1, <3>2
  <2>2. isAuthoredLine(disk.msgs[1])
    <3>1. "unline" \notin verbs /\ GoodMsgs(disk.msgs, verbs)
      BY <1>1, <1>2, GoodsFacts DEF Apart
    <3>2. QED
      BY <2>1, <3>1 DEF GoodMsgs
  <2>3. ~(q <= 1)
    <3> SUFFICES ASSUME q <= 1 PROVE FALSE
      OBVIOUS
    <3>1. 1 >= q /\ 1 \in 1..Len(disk.msgs)
      BY <1>2, <1>3
    <3> HIDE DEF q
    <3>2. ~isAuthoredLine(disk.msgs[1])
      BY <1>8, <3>1 DEF PlainFrom
    <3>3. QED
      BY <2>2, <3>2
  <2>4. QED
    BY <1>8, <2>3
<1> HIDE DEF q
<1>10. /\ n \in Goods(verbs) /\ n.start = q /\ n.vars = disk.vars /\ Len(n.takes) >= 2
       /\ Aside(n, From(disk.msgs, q))
  <2>1. n \in Goods(verbs) /\ n.start = q /\ n.vars = disk.vars /\ Len(n.takes) >= 2
    BY <1>1, <1>2, <1>7, <1>8, <1>9, CutToGood
  <2>2. Aside(n, From(disk.msgs, q))
    BY <1>1, <1>2, <1>7, <1>8, <1>9, CutToGood
  <2>3. QED
    BY <2>1, <2>2
<1>11. n.msgs = Before(disk.msgs, q) \o u
  <2>1. RetractRow(disk, q) \in Goods(verbs)
    BY <1>1, <1>2, <1>8, <1>9, RetractRowGood
  <2>2. RetractRow(disk, q) \in Files
    BY <2>1 DEF Goods
  <2>3. QED
    BY <2>2 DEF CutTo, Files
<1>12. /\ rows \in Seq(Goods(verbs)) /\ Len(rows) >= 1 /\ rows[Len(rows)] = n
       /\ \A i \in 1..(Len(rows) - 1) : ToSet(disk.msgs) \subseteq OnRecord(rows[i])
  <2>1. rows \in Seq(Goods(verbs)) /\ Len(rows) >= 1
    BY <1>1, <1>2, <1>7, <1>8, <1>9, SpanRowsGood
  <2>2. rows[Len(rows)] = n
    BY <1>1, <1>2, <1>7, <1>8, <1>9, SpanRowsGood
  <2>3. \A i \in 1..(Len(rows) - 1) : ToSet(disk.msgs) \subseteq OnRecord(rows[i])
    BY <1>1, <1>2, <1>7, <1>8, <1>9, SpanRowsGood
  <2>4. QED
    BY <2>1, <2>2, <2>3
<1> HIDE DEF n, rows
<1>13. IInv' /\ Saved /\ (~latched' => tail' = TailAt(n, y, s))
  <2>1. s + base >= 2 /\ n.msgs = Before(disk.msgs, s + base) \o u /\ n.start = s + base
    BY <1>9, <1>10, <1>11 DEF q
  <2>2. QED
    BY <1>1, <1>2, <1>3, <1>4, <1>5, <1>6, <1>7, <1>10, <1>12, <2>1, CutStep
<1> HIDE DEF y
<1>14. From(live, s) = From(disk.msgs, q)
  BY <1>2, <1>4, ShowsFrom DEF q
<1>15. TailAt(n, y, s).start = s /\ From(live, s) \in ToSet(TailAt(n, y, s).takes)
  <2>1. n \in Files /\ Aside(n, From(live, s))
    BY <1>10, <1>14, GoodsFacts
  <2>2. QED
    BY <2>1, TakeKept
<1>16. QED
  BY <1>13, <1>15 DEF s

(***************************************************************************)
(* Edits and swipes of one message behind the last response.               *)
(***************************************************************************)
LEMMA WithFacts ==
  ASSUME NEW f, DOMAIN f \subseteq Nat \ {0}, NEW p \in Nat \ {0}, NEW v
  PROVE  /\ DOMAIN With(f, p, v) \subseteq Nat \ {0} /\ With(f, p, v)[p] = v
         /\ p \in DOMAIN With(f, p, v)
         /\ \A r \in Nat \ {0} : r # p => (r \in DOMAIN With(f, p, v) <=> r \in DOMAIN f)
         /\ \A r \in DOMAIN With(f, p, v) : r # p => With(f, p, v)[r] = f[r]
         /\ f \in MarkSets /\ v \in Mark => With(f, p, v) \in MarkSets
<1>1. DOMAIN With(f, p, v) = DOMAIN f \cup {p}
  BY DEF With
<1>2. \A r \in DOMAIN f \cup {p} : With(f, p, v)[r] = IF r = p THEN v ELSE f[r]
  BY DEF With
<1>3. ASSUME f \in MarkSets, v \in Mark PROVE With(f, p, v) \in MarkSets
  <2>1. \A r \in DOMAIN f : f[r] \in Mark
    BY <1>3, MarkSetFacts
  <2>2. With(f, p, v) \in [DOMAIN f \cup {p} -> Mark]
    BY <1>3, <2>1 DEF With
  <2>3. DOMAIN f \cup {p} \in SUBSET (Nat \ {0})
    OBVIOUS
  <2>4. QED
    BY <2>2, <2>3 DEF MarkSets
<1>4. QED
  BY <1>1, <1>2, <1>3

LEMMA WithoutFacts ==
  ASSUME NEW f, DOMAIN f \subseteq Nat \ {0}, NEW p \in Nat \ {0}
  PROVE  /\ DOMAIN Without(f, p) \subseteq Nat \ {0} /\ p \notin DOMAIN Without(f, p)
         /\ \A r \in Nat \ {0} : r # p => (r \in DOMAIN Without(f, p) <=> r \in DOMAIN f)
         /\ \A r \in DOMAIN Without(f, p) : r # p => Without(f, p)[r] = f[r]
         /\ f \in MarkSets => Without(f, p) \in MarkSets
<1>1. DOMAIN Without(f, p) = DOMAIN f \ {p}
  BY DEF Without
<1>2. \A r \in DOMAIN f \ {p} : Without(f, p)[r] = f[r]
  BY DEF Without
<1>3. ASSUME f \in MarkSets PROVE Without(f, p) \in MarkSets
  <2>1. \A r \in DOMAIN f : f[r] \in Mark
    BY <1>3, MarkSetFacts
  <2>2. Without(f, p) \in [DOMAIN f \ {p} -> Mark]
    BY <2>1 DEF Without
  <2>3. DOMAIN f \ {p} \in SUBSET (Nat \ {0})
    OBVIOUS
  <2>4. QED
    BY <2>2, <2>3 DEF MarkSets
<1>4. QED
  BY <1>1, <1>2, <1>3

RevisedTo(w, q, x, g) == [w EXCEPT !.msgs = [w.msgs EXCEPT ![q] = x], !.vars = g]

(* The session's marks n, once a message's are those of g.                    *)
Redrawn(n, m, p, b, g) ==
  /\ DOMAIN n \subseteq Nat \ {0}
  /\ \A r \in Nat \ {0} : r # p => (r \in DOMAIN n <=> r \in DOMAIN m)
  /\ \A r \in DOMAIN n : r # p => n[r] = m[r]
  /\ p \in DOMAIN n <=> p + b \in DOMAIN g
  /\ p \in DOMAIN n => n[p] \in Drawn(g[p + b])

LEMMA ReviseStep ==
  ASSUME IInv, ~latched, verbs' = verbs, born' \in Nat,
         NEW p \in 1..Len(live), \E i \in p..Len(live) : isAuthoredLine(live[i]),
         NEW x, NEW g, Revised(disk.msgs, disk.vars, p + base, x, g, verbs),
         NEW n, Redrawn(n, marks, p, base, g),
         Write(<< RevisedTo(disk, p + base, x, g) >>), base' = base /\ head' = head,
         ~latched' => /\ live' = [live EXCEPT ![p] = x] /\ marks' = n
                      /\ UNCHANGED <<tail, base, head>>
  PROVE  IInv' /\ Saved /\ (~latched' => disk' = RevisedTo(disk, p + base, x, g))
<1> DEFINE d == RevisedTo(disk, p + base, x, g)
<1> DEFINE y == [live EXCEPT ![p] = x]
<1>1. disk \in Goods(verbs) /\ base \in Nat /\ Synced(live, tail, marks, base, disk)
  BY Ready
<1>2. d \in Goods(verbs)
  BY <1>1, RevisedGood DEF RevisedTo
<1>3. Synced(y, tail, n, base, d)
  <2>1. /\ DOMAIN n \subseteq Nat \ {0}
        /\ \A r \in Nat \ {0} : r # p => (r \in DOMAIN n <=> r \in DOMAIN marks)
        /\ \A r \in DOMAIN n : r # p => n[r] = marks[r]
        /\ p \in DOMAIN n <=> p + base \in DOMAIN g
        /\ p \in DOMAIN n => n[p] \in Drawn(g[p + base])
    BY DEF Redrawn
  <2>2. QED
    BY <1>1, <2>1, RevisedSync DEF RevisedTo
<1> HIDE DEF d
<1>4. ~latched' => Synced(live', tail', marks', base, d) /\ base' = base /\ head' = head
  BY <1>3
<1>5. Write(<< d >>)
  BY DEF d
<1>6. IInv' /\ Saved /\ (~latched' => disk' = d)
  BY <1>2, <1>4, <1>5, LandsOne
<1>7. QED
  BY <1>6 DEF d

(* A marked message, on screen and on file.                                   *)
LEMMA MarkTakes ==
  ASSUME IInv, ~latched, NEW p \in DOMAIN marks
  PROVE  /\ p \in 1..Len(live) /\ p \in DOMAIN live /\ p + base \in DOMAIN disk.vars
         /\ p + base \in 1..Len(disk.msgs) /\ p + base \in DOMAIN disk.msgs
         /\ live[p] = disk.msgs[p + base]
         /\ GoodMark(disk.msgs, p + base, disk.vars[p + base], verbs) /\ "edit" \in verbs
         /\ \E i \in p..Len(live) : isAuthoredLine(live[i])
         /\ disk.vars[p + base] \in Mark /\ disk.vars \in MarkSets
         /\ marks[p].count = Len(disk.vars[p + base].takes)
         /\ marks[p].active = disk.vars[p + base].active
         /\ takesOf(p) = disk.vars[p + base].takes
         /\ marks[p] \in Drawn(disk.vars[p + base])
         /\ DOMAIN marks \subseteq Nat \ {0} /\ DOMAIN disk.vars \subseteq Nat \ {0}
<1> DEFINE f == disk.vars[p + base]
<1>1. /\ disk \in Goods(verbs) /\ base \in Nat /\ live \in Seq(Messages)
      /\ Synced(live, tail, marks, base, disk) /\ disk.msgs \in Seq(Messages)
      /\ MarksSync(marks, disk, base) /\ diskIndex(p) = p + base
  BY Ready
<1>2. /\ p \in 1..Len(live) /\ p + base \in DOMAIN disk.vars /\ p + base \in 1..Len(disk.msgs)
      /\ live[p] = disk.msgs[p + base] /\ GoodMark(disk.msgs, p + base, f, verbs)
      /\ "edit" \in verbs /\ marks[p] \in Drawn(f)
      /\ \E i \in p..Len(live) : isAuthoredLine(live[i])
  BY <1>1, MarkShown
<1>3. disk.vars \in MarkSets
  BY <1>1, GoodsFacts
<1>4. f \in Mark /\ DOMAIN disk.vars \subseteq Nat \ {0}
  BY <1>2, <1>3, MarkSetFacts
<1>5. DOMAIN marks \subseteq Nat \ {0}
  BY <1>1 DEF MarksSync
<1>6. p \in DOMAIN live /\ p + base \in DOMAIN disk.msgs
  BY <1>1, <1>2, LenProperties
<1>7. takesOf(p) = IF marks[p].takes # <<>> THEN marks[p].takes ELSE f.takes
  BY <1>1 DEF takesOf
<1> HIDE DEF f
<1>8. marks[p].count = Len(f.takes) /\ marks[p].active = f.active /\ marks[p].takes \in {<<>>, f.takes}
  BY <1>2 DEF Drawn
<1>9. takesOf(p) = f.takes
  BY <1>7, <1>8
<1>10. QED
  BY <1>2, <1>3, <1>4, <1>5, <1>6, <1>8, <1>9 DEF f

(* Marks other than the one at p stay; that one is gone, or is v.             *)
LEMMA SealedMark ==
  ASSUME NEW V, NEW ms, NEW h \in MarkSets, NEW q \in DOMAIN h, GoodMark(ms, q, h[q], V),
         NEW x \in Messages, isAuthoredLine(x) <=> isAuthoredLine(ms[q]),
         "long" \in V => x.who # "summary", NEW m, NEW b \in Nat, NEW p \in Nat \ {0}, q = p + b,
         DOMAIN m \subseteq Nat \ {0}
  PROVE  Revised(ms, h, q, x, Without(h, q), V) /\ Redrawn(Without(m, p), m, p, b, Without(h, q))
<1> DEFINE g == Without(h, q)
<1> DEFINE n == Without(m, p)
<1>1. DOMAIN h \subseteq Nat \ {0} /\ q \in Nat \ {0}
  BY MarkSetFacts
<1>2. /\ q \notin DOMAIN g /\ g \in MarkSets
      /\ \A r \in Nat \ {0} : r # q => (r \in DOMAIN g <=> r \in DOMAIN h)
      /\ \A r \in DOMAIN g : r # q => g[r] = h[r]
  BY <1>1, WithoutFacts
<1>3. /\ p \notin DOMAIN n /\ DOMAIN n \subseteq Nat \ {0}
      /\ \A r \in Nat \ {0} : r # p => (r \in DOMAIN n <=> r \in DOMAIN m)
      /\ \A r \in DOMAIN n : r # p => n[r] = m[r]
  BY WithoutFacts
<1> HIDE DEF g, n
<1>4. Revised(ms, h, q, x, g, V)
  BY <1>2 DEF Revised, GoodMark
<1>5. Redrawn(n, m, p, b, g)
  BY <1>2, <1>3 DEF Redrawn
<1>6. QED
  BY <1>4, <1>5 DEF g, n

LEMMA ChosenMark ==
  ASSUME NEW V, "edit" \in V, NEW ms, NEW h \in MarkSets, NEW q \in Nat \ {0}, q \in 1..Len(ms),
         \E i \in q..Len(ms) : isAuthoredLine(ms[i]),
         NEW v \in Mark, Len(v.takes) >= 2, v.active \in 1..Len(v.takes),
         \A k \in 1..Len(v.takes) : GoodTake(v.takes[k], ms[q], V),
         NEW m, NEW b \in Nat, NEW p \in Nat \ {0}, q = p + b, DOMAIN m \subseteq Nat \ {0},
         NEW d \in Drawn(v)
  PROVE  /\ Revised(ms, h, q, v.takes[v.active], With(h, q, v), V)
         /\ Redrawn(With(m, p, d), m, p, b, With(h, q, v))
<1> DEFINE g == With(h, q, v)
<1> DEFINE n == With(m, p, d)
<1> DEFINE x == v.takes[v.active]
<1>1. DOMAIN h \subseteq Nat \ {0}
  BY MarkSetFacts
<1>2. /\ q \in DOMAIN g /\ g \in MarkSets /\ g[q] = v
      /\ \A r \in Nat \ {0} : r # q => (r \in DOMAIN g <=> r \in DOMAIN h)
      /\ \A r \in DOMAIN g : r # q => g[r] = h[r]
  BY <1>1, WithFacts
<1>3. /\ p \in DOMAIN n /\ DOMAIN n \subseteq Nat \ {0} /\ n[p] = d
      /\ \A r \in Nat \ {0} : r # p => (r \in DOMAIN n <=> r \in DOMAIN m)
      /\ \A r \in DOMAIN n : r # p => n[r] = m[r]
  BY WithFacts
<1>4. x \in Messages /\ GoodTake(x, ms[q], V)
  <2>1. v.takes \in Seq(Messages)
    BY DEF Mark
  <2>2. x \in Messages
    BY <2>1, ElementOfSeq
  <2>3. QED
    BY <2>2
<1> HIDE DEF g, n, x
<1>5. Revised(ms, h, q, x, g, V)
  BY <1>2, <1>4 DEF Revised, GoodTake, x
<1>6. Redrawn(n, m, p, b, g)
  BY <1>2, <1>3 DEF Redrawn
<1>7. QED
  BY <1>5, <1>6 DEF g, n, x

LEMMA PruneStep == ASSUME NEW p \in DOMAIN marks PROVE IInv /\ pruneVariants(p) => IInv' /\ Saved
<1> SUFFICES ASSUME IInv, pruneVariants(p) PROVE IInv' /\ Saved
  OBVIOUS
<1> DEFINE q == p + base
<1> DEFINE f == disk.vars[q]
<1> DEFINE x == live[p]
<1> DEFINE g == Without(disk.vars, q)
<1> DEFINE n == Without(marks, p)
<1>1. ~latched /\ verbs' = verbs /\ born' = born + 0
  BY DEF pruneVariants, May
<1>2. Flushed = disk /\ born \in Nat /\ diskIndex(p) = q /\ base \in Nat /\ disk \in Goods(verbs)
      /\ live \in Seq(Messages)
  BY <1>1, Ready
<1>3. /\ p \in 1..Len(live) /\ p \in DOMAIN live /\ q \in DOMAIN disk.vars
      /\ q \in 1..Len(disk.msgs) /\ q \in DOMAIN disk.msgs /\ x = disk.msgs[q]
      /\ GoodMark(disk.msgs, q, f, verbs) /\ \E i \in p..Len(live) : isAuthoredLine(live[i])
      /\ disk.vars \in MarkSets /\ marks[p].active = f.active
      /\ DOMAIN marks \subseteq Nat \ {0} /\ f \in Mark
  BY <1>1, MarkTakes
<1>4. /\ Write(<< SealRow(disk, q, f.active) >>)
      /\ base' = base /\ head' = head
      /\ ~latched' => marks' = n /\ UNCHANGED <<live, tail, base, head>>
  BY <1>2, <1>3 DEF pruneVariants, Then, memory
<1>5. f.active \in DOMAIN f.takes /\ f.takes[f.active] = x
  <2>1. f.takes \in Seq(Messages)
    BY <1>3 DEF Mark
  <2>2. QED
    BY <1>3, <2>1, LenProperties DEF GoodMark
<1>6. SealRow(disk, q, f.active) = RevisedTo(disk, q, x, g)
  BY <1>3, <1>5 DEF SealRow, HasTake, RevisedTo
<1>7. x \in Messages /\ ("long" \in verbs => x.who # "summary")
  <2>1. x \in Messages
    BY <1>2, <1>3, ElementOfSeq
  <2>2. GoodMsgs(disk.msgs, verbs)
    BY <1>2, GoodsFacts
  <2>3. QED
    BY <1>3, <2>1, <2>2 DEF GoodMsgs
<1>8. Revised(disk.msgs, disk.vars, q, x, g, verbs) /\ Redrawn(n, marks, p, base, g)
  <2>1. p \in Nat \ {0} /\ q = p + base /\ (isAuthoredLine(x) <=> isAuthoredLine(disk.msgs[q]))
    BY <1>3
  <2>2. /\ q \in DOMAIN disk.vars /\ GoodMark(disk.msgs, q, disk.vars[q], verbs)
        /\ DOMAIN marks \subseteq Nat \ {0} /\ base \in Nat /\ disk.vars \in MarkSets
    BY <1>2, <1>3
  <2> HIDE DEF q, x
  <2>3. Revised(disk.msgs, disk.vars, q, x, g, verbs)
    BY <1>7, <2>1, <2>2, SealedMark
  <2>4. Redrawn(n, marks, p, base, g)
    BY <1>7, <2>1, <2>2, SealedMark
  <2>5. QED
    BY <2>3, <2>4
<1>9. [live EXCEPT ![p] = x] = live
  BY <1>2, <1>3
<1> HIDE DEF x, g, n, f
<1>10. /\ Write(<< RevisedTo(disk, p + base, x, g) >>) /\ born' \in Nat
       /\ Revised(disk.msgs, disk.vars, p + base, x, g, verbs)
       /\ ~latched' => /\ live' = [live EXCEPT ![p] = x] /\ marks' = n
                       /\ UNCHANGED <<tail, base, head>>
  BY <1>1, <1>2, <1>4, <1>6, <1>8, <1>9
<1>11. IInv' /\ Saved
  BY <1>1, <1>3, <1>4, <1>8, <1>10, ReviseStep
<1>12. QED
  BY <1>11

LEMMA Rechosen ==
  ASSUME NEW a, NEW b, NEW c, NEW d, NEW e
  PROVE  [[[takes |-> a, count |-> b, active |-> c] EXCEPT !.takes = d] EXCEPT !.active = e]
           = [takes |-> d, count |-> b, active |-> e]
<1> DEFINE r == [takes |-> a, count |-> b, active |-> c]
<1> DEFINE s == [takes |-> d, count |-> b, active |-> c]
<1>1. [r EXCEPT !.takes = d] = s
  OBVIOUS
<1>2. [s EXCEPT !.active = e] = [takes |-> d, count |-> b, active |-> e]
  OBVIOUS
<1> HIDE DEF r, s
<1>3. [[r EXCEPT !.takes = d] EXCEPT !.active = e] = [takes |-> d, count |-> b, active |-> e]
  BY <1>1, <1>2
<1>4. QED
  BY <1>3 DEF r

LEMMA SwipeMessageStep ==
  ASSUME NEW p \in DOMAIN marks, NEW v \in 1..marks[p].count
  PROVE  IInv /\ swipeMessage(p, v) => IInv' /\ Saved
<1> SUFFICES ASSUME IInv, swipeMessage(p, v) PROVE IInv' /\ Saved
  OBVIOUS
<1> DEFINE q == p + base
<1> DEFINE f == disk.vars[q]
<1> DEFINE e == [takes |-> f.takes, active |-> v]
<1> DEFINE x == f.takes[v]
<1> DEFINE g == With(disk.vars, q, e)
<1> DEFINE n == [marks EXCEPT ![p].takes = f.takes, ![p].active = v]
<1>1. ~latched /\ verbs' = verbs /\ born' = born + 0
  BY DEF swipeMessage, May
<1>2. Flushed = disk /\ born \in Nat /\ diskIndex(p) = q /\ base \in Nat
  BY <1>1, Ready
<1>3. /\ p \in 1..Len(live) /\ p \in DOMAIN live /\ q \in DOMAIN disk.vars
      /\ q \in 1..Len(disk.msgs) /\ q \in DOMAIN disk.msgs
      /\ GoodMark(disk.msgs, q, f, verbs) /\ \E i \in p..Len(live) : isAuthoredLine(live[i])
      /\ disk.vars \in MarkSets /\ f \in Mark /\ "edit" \in verbs
      /\ marks[p].count = Len(f.takes) /\ takesOf(p) = f.takes /\ marks[p] \in Drawn(f)
      /\ DOMAIN marks \subseteq Nat \ {0}
  BY <1>1, MarkTakes
<1>4. /\ Write(<< MsgSelectRow(disk, q, v) >>)
      /\ base' = base /\ head' = head
      /\ ~latched' => live' = [live EXCEPT ![p] = x] /\ marks' = n /\ UNCHANGED <<tail, base, head>>
  BY <1>2, <1>3 DEF swipeMessage, Then, memory
<1>5. /\ v \in 1..Len(f.takes) /\ v \in DOMAIN f.takes /\ v \in Nat /\ Len(f.takes) >= 2
      /\ \A k \in 1..Len(f.takes) : GoodTake(f.takes[k], disk.msgs[q], verbs)
  <2>1. f.takes \in Seq(Messages)
    BY <1>3 DEF Mark
  <2>2. v \in 1..Len(f.takes) /\ v \in DOMAIN f.takes
    BY <1>3, <2>1, LenProperties
  <2>3. GoodMark(disk.msgs, q, f, verbs) /\ Len(f.takes) \in Nat
    BY <1>3, <2>1, LenProperties
  <2> HIDE DEF f, q
  <2>4. /\ Len(f.takes) >= 2
        /\ \A k \in 1..Len(f.takes) : GoodTake(f.takes[k], disk.msgs[q], verbs)
    BY <2>3 DEF GoodMark
  <2>5. QED
    BY <2>2, <2>3, <2>4
<1>6. e \in Mark /\ e.takes = f.takes /\ e.active = v
  BY <1>3, <1>5 DEF Mark
<1>7. MsgSelectRow(disk, q, v) = RevisedTo(disk, q, x, g)
  <2>1. disk.vars = [r \in DOMAIN disk.vars |-> disk.vars[r]]
    BY <1>3, MarkSetFacts
  <2>2. [f EXCEPT !.active = v] = e
    BY <1>3 DEF Mark
  <2>3. [disk.vars EXCEPT ![q].active = v] = g
    <3>1. [disk.vars EXCEPT ![q].active = v] = [disk.vars EXCEPT ![q] = e]
      BY <2>2
    <3> HIDE DEF e
    <3>2. [disk.vars EXCEPT ![q] = e] = g
      BY <1>3, <2>1 DEF With
    <3>3. QED
      BY <3>1, <3>2
  <2>4. MsgSelectRow(disk, q, v) = [disk EXCEPT !.msgs[q] = x, !.vars[q].active = v]
    BY <1>3, <1>5 DEF MsgSelectRow, HasTake
  <2>5. [disk EXCEPT !.msgs[q] = x, !.vars[q].active = v]
          = [disk EXCEPT !.msgs = [disk.msgs EXCEPT ![q] = x], !.vars = [disk.vars EXCEPT ![q].active = v]]
    OBVIOUS
  <2> HIDE DEF x, g, f
  <2>6. QED
    BY <2>3, <2>4, <2>5 DEF RevisedTo
<1>8. Revised(disk.msgs, disk.vars, q, x, g, verbs)
  <2>1. /\ q \in Nat \ {0} /\ \E i \in q..Len(disk.msgs) : isAuthoredLine(disk.msgs[i])
        /\ Len(e.takes) >= 2 /\ e.active \in 1..Len(e.takes)
        /\ \A k \in 1..Len(e.takes) : GoodTake(e.takes[k], disk.msgs[q], verbs)
    <3>1. \E i \in q..Len(disk.msgs) : isAuthoredLine(disk.msgs[i])
      BY <1>3 DEF GoodMark
    <3>2. q \in Nat \ {0}
      BY <1>2, <1>3
    <3> HIDE DEF e, q
    <3>3. QED
      BY <1>5, <1>6, <3>1, <3>2
  <2>2. p \in Nat \ {0} /\ q = p + base
    BY <1>3
  <2>3. e.takes[e.active] = x
    BY <1>6
  <2>4. <<>> \in {<<>>, e.takes} /\ [takes |-> <<>>, count |-> Len(e.takes), active |-> e.active] \in Drawn(e)
    BY DEF Drawn
  <2>5. PICK d : d \in Drawn(e)
    BY <2>4
  <2> HIDE DEF e, q
  <2>6. Revised(disk.msgs, disk.vars, q, e.takes[e.active], g, verbs)
    BY <1>2, <1>3, <1>6, <2>1, <2>2, <2>5, ChosenMark
  <2>7. QED
    BY <2>3, <2>6
<1>9. Redrawn(n, marks, p, base, g)
  <2>1. /\ q \in DOMAIN g /\ g[q] = e
    BY <1>3 DEF With
  <2>2. DOMAIN n = DOMAIN marks /\ \A r \in DOMAIN n : r # p => n[r] = marks[r]
    OBVIOUS
  <2>3. n[p] = [takes |-> f.takes, count |-> Len(f.takes), active |-> v]
    <3>1. PICK ts \in {<<>>, f.takes} :
            marks[p] = [takes |-> ts, count |-> Len(f.takes), active |-> f.active]
      BY <1>3 DEF Drawn
    <3>2. n[p] = [[marks[p] EXCEPT !.takes = f.takes] EXCEPT !.active = v]
      OBVIOUS
    <3>3. n[p] = [[[takes |-> ts, count |-> Len(f.takes), active |-> f.active]
                     EXCEPT !.takes = f.takes] EXCEPT !.active = v]
      BY <3>1, <3>2, Zenon
    <3>4. QED
      BY <3>3, Rechosen
  <2>4. n[p] \in Drawn(e)
    BY <1>6, <2>3 DEF Drawn
  <2> HIDE DEF n, g, e
  <2>5. QED
    BY <1>3, <2>1, <2>2, <2>4 DEF Redrawn
<1> HIDE DEF x, g, n, f
<1>10. /\ Write(<< RevisedTo(disk, p + base, x, g) >>) /\ born' \in Nat
       /\ Revised(disk.msgs, disk.vars, p + base, x, g, verbs)
  BY <1>1, <1>2, <1>4, <1>7, <1>8
<1>11. IInv' /\ Saved
  BY <1>1, <1>3, <1>4, <1>9, <1>10, ReviseStep
<1>12. QED
  BY <1>11

(* Taking one of several takes out leaves a choice.                           *)
LEMMA DroppedTake ==
  ASSUME NEW V, NEW ms, NEW q, NEW f \in Mark, GoodMark(ms, q, f, V), NEW v \in 1..Len(f.takes)
  PROVE  /\ RemoveAt(f.takes, v) \in Seq(Messages)
         /\ Len(RemoveAt(f.takes, v)) = Len(f.takes) - 1
         /\ \A k \in 1..Len(RemoveAt(f.takes, v)) : GoodTake(RemoveAt(f.takes, v)[k], ms[q], V)
         /\ ActiveAfterDrop(f.active, v, Len(RemoveAt(f.takes, v))) \in 1..Len(RemoveAt(f.takes, v))
<1> DEFINE left == RemoveAt(f.takes, v)
<1>1. /\ f.takes \in Seq(Messages) /\ Len(f.takes) \in Nat /\ Len(f.takes) >= 2
      /\ f.active \in 1..Len(f.takes)
      /\ \A k \in 1..Len(f.takes) : GoodTake(f.takes[k], ms[q], V)
  <2>1. f.takes \in Seq(Messages)
    BY DEF Mark
  <2>2. QED
    BY <2>1, LenProperties DEF GoodMark
<1>2. /\ left \in Seq(Messages) /\ Len(left) = Len(f.takes) - 1
      /\ \A i \in 1..(Len(f.takes) - 1) : left[i] = IF i < v THEN f.takes[i] ELSE f.takes[i + 1]
  BY <1>1, RemoveFacts
<1> HIDE DEF left
<1>3. ASSUME NEW k \in 1..Len(left) PROVE GoodTake(left[k], ms[q], V)
  <2>1. k \in 1..(Len(f.takes) - 1) /\ k \in 1..Len(f.takes) /\ k + 1 \in 1..Len(f.takes)
    BY <1>1, <1>2
  <2>2. left[k] = f.takes[k] \/ left[k] = f.takes[k + 1]
    BY <1>2, <2>1
  <2>3. QED
    BY <1>1, <2>1, <2>2
<1>4. ActiveAfterDrop(f.active, v, Len(left)) \in 1..Len(left)
  BY <1>1, <1>2 DEF ActiveAfterDrop
<1>5. QED
  BY <1>2, <1>3, <1>4 DEF left

LEMMA DropStep ==
  ASSUME NEW p \in DOMAIN marks, NEW v \in 1..marks[p].count
  PROVE  IInv /\ dropVariant(p, v) => IInv' /\ Saved
<1> SUFFICES ASSUME IInv, dropVariant(p, v) PROVE IInv' /\ Saved
  OBVIOUS
<1> DEFINE q == p + base
<1> DEFINE f == disk.vars[q]
<1> DEFINE left == RemoveAt(f.takes, v)
<1> DEFINE c == ActiveAfterDrop(f.active, v, Len(left))
<1> DEFINE e == [takes |-> left, active |-> c]
<1> DEFINE d == [takes |-> left, count |-> Len(left), active |-> c]
<1> DEFINE x == left[c]
<1> DEFINE g == IF Len(left) = 1 THEN Without(disk.vars, q) ELSE With(disk.vars, q, e)
<1> DEFINE n == IF Len(left) = 1 THEN Without(marks, p) ELSE With(marks, p, d)
<1>1. ~latched /\ verbs' = verbs /\ born' = born + 0
  BY DEF dropVariant, May
<1>2. Flushed = disk /\ born \in Nat /\ diskIndex(p) = q /\ base \in Nat
  BY <1>1, Ready
<1>3. /\ p \in 1..Len(live) /\ p \in DOMAIN live /\ q \in DOMAIN disk.vars
      /\ q \in 1..Len(disk.msgs) /\ q \in DOMAIN disk.msgs
      /\ GoodMark(disk.msgs, q, f, verbs) /\ \E i \in p..Len(live) : isAuthoredLine(live[i])
      /\ disk.vars \in MarkSets /\ f \in Mark /\ "edit" \in verbs
      /\ marks[p].count = Len(f.takes) /\ takesOf(p) = f.takes /\ marks[p].active = f.active
      /\ DOMAIN marks \subseteq Nat \ {0}
  BY <1>1, MarkTakes
<1>4. /\ Write(<< DropTakeRow(disk, q, v) >>)
      /\ base' = base /\ head' = head
      /\ ~latched' => live' = [live EXCEPT ![p] = x] /\ marks' = n /\ UNCHANGED <<tail, base, head>>
  BY <1>2, <1>3 DEF dropVariant, Then, memory
<1>5. v \in 1..Len(f.takes)
  BY <1>3
<1>6. /\ v \in DOMAIN f.takes /\ Len(f.takes) \in Nat /\ Len(f.takes) >= 2
      /\ \E i \in q..Len(disk.msgs) : isAuthoredLine(disk.msgs[i])
  <2>1. f.takes \in Seq(Messages)
    BY <1>3 DEF Mark
  <2>2. QED
    BY <1>3, <1>5, <2>1, LenProperties DEF GoodMark
<1>7. /\ left \in Seq(Messages) /\ Len(left) = Len(f.takes) - 1
      /\ \A k \in 1..Len(left) : GoodTake(left[k], disk.msgs[q], verbs)
      /\ c \in 1..Len(left)
  <2>1. f \in Mark /\ GoodMark(disk.msgs, q, f, verbs) /\ v \in 1..Len(f.takes)
    BY <1>3, <1>5
  <2> HIDE DEF f, q
  <2>2. left \in Seq(Messages) /\ Len(left) = Len(f.takes) - 1
    BY <2>1, DroppedTake
  <2>3. \A k \in 1..Len(left) : GoodTake(left[k], disk.msgs[q], verbs)
    BY <2>1, DroppedTake
  <2>4. c \in 1..Len(left)
    BY <2>1, DroppedTake
  <2>5. QED
    BY <2>2, <2>3, <2>4
<1>8. DropTakeRow(disk, q, v) = RevisedTo(disk, q, x, g)
  <2>1. HasTake(disk, q, v) /\ ~(Len(f.takes) < 2)
    BY <1>3, <1>6 DEF HasTake
  <2>2. DropTakeRow(disk, q, v) = [disk EXCEPT !.msgs[q] = x, !.vars = g]
    BY <2>1 DEF DropTakeRow
  <2> HIDE DEF x, g
  <2>3. QED
    BY <2>2 DEF RevisedTo
<1>9. p \in Nat \ {0} /\ q \in Nat \ {0} /\ q = p + base
  BY <1>2, <1>3
<1>10. x \in Messages /\ GoodTake(x, disk.msgs[q], verbs)
  <2> HIDE DEF left, c
  <2>1. x \in Messages
    BY <1>7, ElementOfSeq
  <2>2. QED
    BY <1>7, <2>1
<1> HIDE DEF left, c
<1>11. Revised(disk.msgs, disk.vars, q, x, g, verbs) /\ Redrawn(n, marks, p, base, g)
  <2>1. CASE Len(left) = 1
    <3>1. /\ isAuthoredLine(x) <=> isAuthoredLine(disk.msgs[q])
          /\ "long" \in verbs => x.who # "summary"
      BY <1>10 DEF GoodTake
    <3> HIDE DEF x, q
    <3>2. Revised(disk.msgs, disk.vars, q, x, Without(disk.vars, q), verbs)
      BY <1>2, <1>3, <1>9, <1>10, <3>1, SealedMark
    <3>3. Redrawn(Without(marks, p), marks, p, base, Without(disk.vars, q))
      BY <1>2, <1>3, <1>9, <1>10, <3>1, SealedMark
    <3>4. g = Without(disk.vars, q) /\ n = Without(marks, p)
      BY <2>1
    <3> HIDE DEF g, n
    <3>5. QED
      BY <3>2, <3>3, <3>4
  <2>2. CASE Len(left) # 1
    <3>1. e \in Mark /\ e.takes = left /\ e.active = c
      <4>1. c \in Nat
        BY <1>6, <1>7
      <4>2. QED
        BY <1>7, <4>1 DEF Mark
    <3>2. d \in Drawn(e)
      BY DEF Drawn
    <3>3. e.takes[e.active] = x
      BY <3>1
    <3>4. Len(left) >= 2
      <4>1. Len(left) = Len(f.takes) - 1 /\ Len(f.takes) \in Nat /\ Len(f.takes) >= 2
        BY <1>6, <1>7
      <4>2. Len(left) \in Nat /\ Len(left) # 1
        BY <1>7, <2>2, LenProperties
      <4> DEFINE N == Len(left)
      <4> DEFINE M == Len(f.takes)
      <4>3. N = M - 1 /\ M \in Nat /\ M >= 2 /\ N \in Nat /\ N # 1
        BY <4>1, <4>2
      <4> HIDE DEF N, M
      <4>4. N >= 2
        BY <4>3
      <4>5. QED
        BY <4>4 DEF N
    <3>5. g = With(disk.vars, q, e) /\ n = With(marks, p, d)
      BY <2>2
    <3> HIDE DEF e, d, x, q
    <3>6. /\ Len(e.takes) >= 2 /\ e.active \in 1..Len(e.takes)
          /\ \A k \in 1..Len(e.takes) : GoodTake(e.takes[k], disk.msgs[q], verbs)
      BY <1>7, <3>1, <3>4
    <3>7. Revised(disk.msgs, disk.vars, q, e.takes[e.active], With(disk.vars, q, e), verbs)
      BY <1>2, <1>3, <1>6, <1>9, <3>1, <3>2, <3>6, ChosenMark
    <3>8. Redrawn(With(marks, p, d), marks, p, base, With(disk.vars, q, e))
      BY <1>2, <1>3, <1>6, <1>9, <3>1, <3>2, <3>6, ChosenMark
    <3> HIDE DEF g, n
    <3>9. QED
      BY <3>3, <3>5, <3>7, <3>8
  <2>3. QED
    BY <2>1, <2>2
<1> HIDE DEF x, g, n, f
<1>12. /\ Write(<< RevisedTo(disk, p + base, x, g) >>) /\ born' \in Nat
       /\ Revised(disk.msgs, disk.vars, p + base, x, g, verbs)
  BY <1>1, <1>2, <1>4, <1>8, <1>11
<1>13. IInv' /\ Saved
  BY <1>1, <1>3, <1>4, <1>11, <1>12, ReviseStep
<1>14. QED
  BY <1>13

(* The takes of a message that is edited, the last of which is the new text.  *)
OldTakes(w, q) == IF q \in DOMAIN w.vars THEN w.vars[q].takes ELSE << w.msgs[q] >>
Edited(w, q, m) == [takes |-> Append(OldTakes(w, q), m), active |-> Len(OldTakes(w, q)) + 1]

Renewed(r, m, e, V) ==
  /\ m \in Messages /\ e \in Mark /\ Len(e.takes) >= 2 /\ e.active \in 1..Len(e.takes)
  /\ e.takes[e.active] = m
  /\ \A k \in 1..Len(e.takes) : GoodTake(e.takes[k], r, V)
  /\ r \in ToSet(e.takes)

LEMMA EditedFacts ==
  ASSUME NEW V, "edit" \in V, "unline" \notin V, NEW w \in Goods(V), NEW q \in 1..Len(w.msgs),
         w.msgs[q].who # "line", NEW i \in Nat
  PROVE  Renewed(w.msgs[q], reviseMessageText(w.msgs[q], i),
                 Edited(w, q, reviseMessageText(w.msgs[q], i)), V)
<1> DEFINE r == w.msgs[q]
<1> DEFINE m == reviseMessageText(r, i)
<1> DEFINE old == OldTakes(w, q)
<1> DEFINE ts == Append(old, m)
<1> DEFINE e == Edited(w, q, m)
<1>1. w.msgs \in Seq(Messages) /\ w.vars \in MarkSets /\ GoodMsgs(w.msgs, V) /\ GoodMarks(w.msgs, w.vars, V)
  BY GoodsFacts
<1>2. r \in Messages /\ r.who # "line" /\ ("long" \in V => r.who # "summary")
  <2>1. r \in Messages
    BY <1>1, ElementOfSeq
  <2>2. QED
    BY <1>1, <2>1 DEF GoodMsgs
<1>3. GoodTake(r, r, V)
  BY <1>2 DEF GoodTake
<1>4. m \in Messages /\ GoodTake(m, r, V)
  <2> HIDE DEF r
  <2>1. CASE r.who = "model"
    BY <1>2, <2>1 DEF reviseMessageText, Message, Messages, GoodTake, isAuthoredLine
  <2>2. CASE r.who \in {"user", "summary"}
    BY <1>2, <2>2 DEF reviseMessageText, Message, Messages, GoodTake, isAuthoredLine
  <2>3. QED
    BY <1>2, <2>1, <2>2 DEF Messages
<1>5. /\ old \in Seq(Messages) /\ Len(old) \in Nat /\ Len(old) >= 1
      /\ \A k \in 1..Len(old) : GoodTake(old[k], r, V)
      /\ \E k \in 1..Len(old) : old[k] = r
  <2>1. CASE q \in DOMAIN w.vars
    <3> DEFINE f == w.vars[q]
    <3>1. f \in Mark /\ GoodMark(w.msgs, q, f, V) /\ old = f.takes
      BY <1>1, <2>1, MarkSetFacts DEF GoodMarks, OldTakes
    <3> HIDE DEF f
    <3>2. /\ f.takes \in Seq(Messages) /\ Len(f.takes) \in Nat
      BY <3>1, LenProperties DEF Mark
    <3>3. /\ Len(f.takes) >= 1 /\ f.active \in 1..Len(f.takes) /\ f.takes[f.active] = r
          /\ \A k \in 1..Len(f.takes) : GoodTake(f.takes[k], r, V)
      BY <3>1, <3>2 DEF GoodMark
    <3> HIDE DEF old, r
    <3>4. QED
      BY <3>1, <3>2, <3>3
  <2>2. CASE q \notin DOMAIN w.vars
    <3>1. old = << r >>
      BY <2>2 DEF OldTakes
    <3> HIDE DEF old, r
    <3>2. << r >> \in Seq(Messages) /\ Len(<< r >>) = 1 /\ << r >>[1] = r
      BY <1>2
    <3>3. QED
      BY <1>3, <3>1, <3>2
  <2>3. QED
    BY <2>1, <2>2
<1> HIDE DEF old, m, r
<1>6. /\ ts \in Seq(Messages) /\ Len(ts) = Len(old) + 1
      /\ \A k \in 1..Len(old) : ts[k] = old[k]
      /\ ts[Len(old) + 1] = m
  BY <1>4, <1>5, AppendFacts
<1>7. e.takes = ts /\ e.active = Len(old) + 1 /\ e = [takes |-> ts, active |-> Len(old) + 1]
  BY DEF Edited, old
<1> HIDE DEF ts, e
<1>8. e \in Mark /\ Len(ts) >= 2 /\ Len(old) + 1 \in 1..Len(ts)
  <2>1. Len(old) + 1 \in Nat
    BY <1>5
  <2>2. e \in Mark
    BY <1>6, <1>7, <2>1 DEF Mark
  <2>3. Len(ts) >= 2 /\ Len(old) + 1 \in 1..Len(ts)
    BY <1>5, <1>6
  <2>4. QED
    BY <2>2, <2>3
<1>9. ASSUME NEW k \in 1..Len(ts) PROVE GoodTake(ts[k], r, V)
  <2>1. CASE k \in 1..Len(old)
    BY <1>5, <1>6, <2>1
  <2>2. CASE k \notin 1..Len(old)
    <3>1. k = Len(old) + 1
      BY <1>5, <1>6, <2>2
    <3>2. ts[k] = m
      BY <1>6, <3>1
    <3>3. QED
      BY <1>4, <3>2
  <2>3. QED
    BY <2>1, <2>2
<1>10. r \in ToSet(ts)
  <2>1. PICK k \in 1..Len(old) : old[k] = r
    BY <1>5
  <2>2. ts[k] = r /\ k \in 1..Len(ts)
    BY <1>5, <1>6, <2>1
  <2>3. DOMAIN ts = 1..Len(ts)
    BY <1>6, LenProperties
  <2>4. QED
    BY <2>2, <2>3 DEF ToSet
<1>11. Renewed(r, m, e, V)
  BY <1>4, <1>6, <1>7, <1>8, <1>9, <1>10 DEF Renewed
<1>12. QED
  BY <1>11 DEF e, m, r

(* An edit of an earlier message: what it said until now is one of its takes. *)
LEMMA EditMessageStep ==
  ASSUME IInv, NEW p \in DOMAIN live, May("edit", 1), p < lastResponseStart(live),
         live[p].who = "line" => "unline" \in verbs, editMessageAsVariant(p)
  PROVE  /\ IInv' /\ Saved
         /\ ~latched' => /\ p \in DOMAIN marks' /\ p + base \in DOMAIN disk'.vars
                         /\ live[p] \in ToSet(disk'.vars[p + base].takes)
<1> DEFINE q == p + base
<1> DEFINE m == reviseMessageText(live[p], born + 1)
<1> DEFINE mark == IF p \notin DOMAIN marks
                   THEN [takes |-> << live[p], m >>, count |-> 2, active |-> 2]
                   ELSE [takes |-> IF marks[p].takes = <<>> THEN <<>> ELSE Append(marks[p].takes, m),
                         count |-> marks[p].count + 1, active |-> marks[p].count + 1]
<1> DEFINE e == Edited(disk, q, m)
<1> DEFINE g == With(disk.vars, q, e)
<1> DEFINE n == With(marks, p, mark)
<1>1. ~latched /\ verbs' = verbs /\ born' = born + 1 /\ "edit" \in verbs
  BY DEF May
<1>2. /\ disk \in Goods(verbs) /\ base \in Nat /\ live \in Seq(Messages) /\ Len(live) \in Nat
      /\ Shows(live, base, disk.msgs) /\ MarksSync(marks, disk, base) /\ Apart(verbs)
      /\ disk.msgs \in Seq(Messages) /\ Flushed = disk /\ born \in Nat /\ diskIndex(p) = q
      /\ Len(disk.msgs) = base + Len(live)
  BY <1>1, Ready
<1>3. /\ p \in 1..Len(live) /\ p \in Nat \ {0} /\ born' \in Nat /\ born + 1 \in Nat
      /\ "unline" \notin verbs
  BY <1>1, <1>2, LenProperties DEF Apart
<1>4. /\ q \in 1..Len(disk.msgs) /\ q \in DOMAIN disk.msgs /\ q \in Nat \ {0}
      /\ disk.msgs[q] = live[p] /\ disk.msgs[q].who # "line"
  <2>1. q \in 1..Len(disk.msgs) /\ q \in Nat \ {0}
    BY <1>2, <1>3
  <2>2. disk.msgs[q] = live[p]
    BY <1>2, <1>3 DEF Shows
  <2>3. QED
    BY <1>2, <1>3, <2>1, <2>2, LenProperties
<1>5. \E i \in p..Len(live) : isAuthoredLine(live[i])
  <2> DEFINE s == lastResponseStart(live)
  <2>1. s \in 1..(Len(live) + 1) /\ (s > 1 => isAuthoredLine(live[s - 1])) /\ p < s
    BY <1>2, LastResponse
  <2> HIDE DEF s
  <2>2. s > 1 /\ s - 1 \in p..Len(live)
    BY <1>2, <1>3, <2>1
  <2>3. QED
    BY <2>1, <2>2
<1>6. \E i \in q..Len(disk.msgs) : isAuthoredLine(disk.msgs[i])
  <2>1. PICK i \in p..Len(live) : isAuthoredLine(live[i])
    BY <1>5
  <2>2. i \in 1..Len(live) /\ i + base \in q..Len(disk.msgs)
    BY <1>2, <1>3
  <2>3. live[i] = disk.msgs[i + base]
    BY <1>2, <2>2 DEF Shows
  <2>4. QED
    BY <2>1, <2>2, <2>3
<1>7. /\ Write(<< ReplaceVariantRow(disk, q, m) >>)
      /\ base' = base /\ head' = head
      /\ ~latched' => /\ live' = [live EXCEPT ![p] = m] /\ marks' = n
                      /\ UNCHANGED <<tail, base, head>>
  BY <1>2 DEF editMessageAsVariant, Then, memory
<1>8. /\ m \in Messages /\ e \in Mark /\ Len(e.takes) >= 2 /\ e.active \in 1..Len(e.takes)
      /\ e.takes[e.active] = m
      /\ \A k \in 1..Len(e.takes) : GoodTake(e.takes[k], disk.msgs[q], verbs)
      /\ live[p] \in ToSet(e.takes)
  <2>1. m = reviseMessageText(disk.msgs[q], born + 1)
    BY <1>4
  <2> HIDE DEF q
  <2>2. Renewed(disk.msgs[q], reviseMessageText(disk.msgs[q], born + 1),
                Edited(disk, q, reviseMessageText(disk.msgs[q], born + 1)), verbs)
    BY <1>1, <1>2, <1>3, <1>4, EditedFacts
  <2> HIDE DEF m
  <2>3. Renewed(disk.msgs[q], m, e, verbs)
    BY <2>1, <2>2
  <2>4. disk.msgs[q] = live[p]
    BY <1>4
  <2> HIDE DEF e
  <2>5. QED
    BY <2>3, <2>4 DEF Renewed
<1>9. ReplaceVariantRow(disk, q, m) = RevisedTo(disk, q, m, g)
  <2>1. q \in DOMAIN disk.msgs
    BY <1>4
  <2> HIDE DEF q, m
  <2>2. ReplaceVariantRow(disk, q, m) = [disk EXCEPT !.msgs[q] = m, !.vars = g]
    BY <2>1 DEF ReplaceVariantRow, Edited, OldTakes
  <2>3. QED
    BY <2>2 DEF RevisedTo
<1>10. mark \in Drawn(e)
  <2>1. e.takes = Append(OldTakes(disk, q), m) /\ e.active = Len(OldTakes(disk, q)) + 1
    BY DEF Edited
  <2>2. CASE p \notin DOMAIN marks
    <3>1. OldTakes(disk, q) = << live[p] >>
      <4>1. q \notin DOMAIN disk.vars
        BY <1>2, <1>3, <2>2 DEF MarksSync
      <4>2. QED
        BY <1>4, <4>1 DEF OldTakes
    <3> HIDE DEF m, e
    <3>2. e.takes = << live[p], m >> /\ e.active = 2 /\ Len(e.takes) = 2
      <4> DEFINE r == live[p]
      <4>1. r \in Messages /\ m \in Messages
        BY <1>2, <1>3, <1>8, ElementOfSeq
      <4>2. e.takes = Append(<< r >>, m) /\ e.active = Len(<< r >>) + 1
        BY <2>1, <3>1
      <4> HIDE DEF r
      <4>3. Append(<< r >>, m) = << r >> \o << m >>
        BY <4>1, AppendIsConcat
      <4>4. Append(<< r >>, m) = << r, m >>
        BY <4>3, TwoRows
      <4>5. Len(<< r >>) + 1 = 2 /\ Len(<< r, m >>) = 2
        OBVIOUS
      <4>6. QED
        BY <4>2, <4>4, <4>5 DEF r
    <3>3. mark = [takes |-> << live[p], m >>, count |-> 2, active |-> 2]
      BY <2>2
    <3> HIDE DEF mark
    <3>4. QED
      BY <3>2, <3>3 DEF Drawn
  <2>3. CASE p \in DOMAIN marks
    <3> DEFINE f == disk.vars[q]
    <3>1. q \in DOMAIN disk.vars /\ marks[p] \in Drawn(f)
      BY <1>2, <1>3, <2>3 DEF MarksSync
    <3>2. OldTakes(disk, q) = f.takes
      BY <3>1 DEF OldTakes
    <3>3. f.takes \in Seq(Messages)
      <4>1. f \in Mark
        BY <1>2, <3>1, GoodsFacts, MarkSetFacts
      <4>2. QED
        BY <4>1 DEF Mark
    <3> HIDE DEF m, e, f, q
    <3>4. marks[p].count = Len(f.takes) /\ marks[p].takes \in {<<>>, f.takes}
      BY <3>1 DEF Drawn
    <3>5. Len(e.takes) = Len(f.takes) + 1 /\ e.active = Len(f.takes) + 1 /\ e.takes = Append(f.takes, m)
      BY <1>8, <2>1, <3>2, <3>3, AppendFacts
    <3>6. /\ mark = [takes |-> mark.takes, count |-> Len(f.takes) + 1, active |-> Len(f.takes) + 1]
          /\ mark.takes \in {<<>>, e.takes}
      BY <2>3, <3>4, <3>5
    <3> HIDE DEF mark
    <3>7. QED
      BY <3>5, <3>6 DEF Drawn
  <2>4. QED
    BY <2>2, <2>3
<1>11. DOMAIN marks \subseteq Nat \ {0} /\ disk.vars \in MarkSets
  BY <1>2, GoodsFacts DEF MarksSync
<1>12. Revised(disk.msgs, disk.vars, q, m, g, verbs) /\ Redrawn(n, marks, p, base, g)
  <2>1. q = p + base
    OBVIOUS
  <2> HIDE DEF m, e, mark, q
  <2>2. Revised(disk.msgs, disk.vars, q, e.takes[e.active], g, verbs)
    BY <1>1, <1>2, <1>3, <1>4, <1>6, <1>8, <1>10, <1>11, <2>1, ChosenMark
  <2>3. Redrawn(n, marks, p, base, g)
    BY <1>1, <1>2, <1>3, <1>4, <1>6, <1>8, <1>10, <1>11, <2>1, ChosenMark
  <2>4. QED
    BY <1>8, <2>2, <2>3
<1>13. p \in DOMAIN n /\ q \in DOMAIN g /\ g[q] = e
  BY DEF With
<1> HIDE DEF m, e, g, n, mark
<1>14. /\ Write(<< RevisedTo(disk, p + base, m, g) >>)
       /\ Revised(disk.msgs, disk.vars, p + base, m, g, verbs)
  BY <1>7, <1>9, <1>12
<1>15. IInv' /\ Saved /\ (~latched' => disk' = RevisedTo(disk, p + base, m, g))
  BY <1>1, <1>3, <1>5, <1>7, <1>12, <1>14, ReviseStep
<1>16. RevisedTo(disk, p + base, m, g).vars = g
  BY <1>2, GoodsFacts DEF RevisedTo, Files
<1>17. QED
  BY <1>7, <1>8, <1>13, <1>15, <1>16

LEMMA EditStep == ASSUME NEW p \in DOMAIN live PROVE IInv /\ editMessage(p) => IInv' /\ Saved
<1> SUFFICES ASSUME IInv, editMessage(p) PROVE IInv' /\ Saved
  OBVIOUS
<1> DEFINE s == lastResponseStart(live)
<1>1. /\ May("edit", 1) /\ (live[p].who = "line" => "unline" \in verbs)
      /\ p >= s => editTailAsVariant(s, p)
      /\ ~(p >= s) => editMessageAsVariant(p)
  BY DEF editMessage
<1>2. p \in Nat /\ s \in Nat
  <2>1. ~latched
    BY <1>1 DEF May
  <2>2. live \in Seq(Messages) /\ Len(live) \in Nat
    BY <2>1, Ready
  <2>3. s \in 1..(Len(live) + 1) /\ p \in 1..Len(live)
    BY <2>2, LastResponse, LenProperties
  <2> HIDE DEF s
  <2>4. QED
    BY <2>2, <2>3
<1>3. CASE p >= s
  BY <1>1, <1>3, EditTailStep
<1>4. CASE ~(p >= s)
  <2>1. p < s
    <3> HIDE DEF s
    <3>1. QED
      BY <1>2, <1>4
  <2>2. QED
    BY <1>1, <1>4, <2>1, EditMessageStep
<1>5. QED
  BY <1>3, <1>4

LEMMA SwipeStep == ASSUME NEW v \in DOMAIN tail.takes PROVE IInv /\ swipe(v) => IInv' /\ Saved
<1> SUFFICES ASSUME IInv, swipe(v) PROVE IInv' /\ Saved
  OBVIOUS
<1> DEFINE n == SelectRow(disk, tail.start + base, v)
<1> DEFINE y == Before(live, tail.start) \o tail.takes[v]
<1> DEFINE t == [tail EXCEPT !.active = v]
<1>1. ~latched /\ verbs' = verbs /\ born' = born + 0
  BY DEF swipe, May
<1>2. /\ disk \in Goods(verbs) /\ base \in Nat /\ born \in Nat
      /\ Synced(live, tail, marks, base, disk)
      /\ mapped(tail.start) /\ diskIndex(tail.start) = tail.start + base
  BY <1>1, Ready
<1>3. pending = 0
  BY DEF IInv
<1>4. /\ Write(<< n >>) /\ Len(tail.takes) >= 2
      /\ base' = base /\ head' = head
      /\ ~latched' => live' = y /\ tail' = t /\ UNCHANGED <<marks, base, head>>
  BY <1>2, <1>3 DEF swipe, Then, memory
<1>5. tail # NoSwipe
  <2>1. Len(NoSwipe.takes) = 0
    BY DEF NoSwipe
  <2>2. QED
    BY <1>4, <2>1
<1>6. n \in Goods(verbs) /\ Synced(y, t, marks, base, n)
  BY <1>2, <1>5, SwipeSync
<1> HIDE DEF n, y, t
<1>7. ~latched' => Synced(live', tail', marks', base, n) /\ base' = base /\ head' = head
  BY <1>4, <1>6
<1>8. born' \in Nat
  BY <1>1, <1>2
<1>9. QED
  BY <1>1, <1>4, <1>6, <1>7, <1>8, LandsOne

(* What a load keeps of a long transcript is its end.                         *)
LEMMA TrimFacts ==
  ASSUME NEW w \in Goods(verbs)
  PROVE  LET t == TrimMessagesForResume(w.msgs)
         IN /\ t.ms \in Seq(Messages) /\ t.base \in Nat /\ t.head = FALSE
            /\ Shows(t.ms, t.base, w.msgs) /\ ("long" \notin verbs => t.base = 0)
<1> DEFINE ms == w.msgs
<1> DEFINE t == TrimMessagesForResume(ms)
<1>1. ms \in Seq(Messages) /\ Len(ms) \in Nat /\ GoodMsgs(ms, verbs)
  BY GoodsFacts
<1> HIDE DEF ms
<1>2. Window \in Nat \ {0}
  BY RevisionAssumption
<1>3. CASE "long" \notin verbs \/ Len(ms) <= Window
  <2>1. t = [ms |-> ms, base |-> 0, head |-> FALSE]
    BY <1>3 DEF TrimMessagesForResume
  <2>2. Shows(ms, 0, ms)
    BY <1>1, ShowsWhole
  <2>3. QED
    BY <1>1, <2>1, <2>2 DEF ms
<1>4. CASE ~("long" \notin verbs \/ Len(ms) <= Window)
  <2> DEFINE b == Len(ms) - Window
  <2> DEFINE y == From(ms, b + 1)
  <2>1. b \in Nat /\ b + 1 \in 1..(Len(ms) + 1) /\ Len(ms) - (b + 1) + 1 = Len(ms) - b
        /\ 1 \in 1..Len(ms)
    BY <1>1, <1>2, <1>4
  <2>2. ms[1].who # "summary"
    BY <1>1, <1>4, <2>1 DEF GoodMsgs
  <2>3. t = [ms |-> <<>> \o y, base |-> b, head |-> FALSE]
    BY <1>4, <2>2 DEF TrimMessagesForResume
  <2> HIDE DEF b
  <2>4. /\ y \in Seq(Messages) /\ Len(y) = Len(ms) - (b + 1) + 1
        /\ \A i \in 1..(Len(ms) - (b + 1) + 1) : y[i] = ms[(b + 1) + i - 1]
    BY <1>1, <2>1, FromFacts
  <2> HIDE DEF y
  <2>5. <<>> \o y = y
    BY <2>4, ConcatEmptySeq
  <2>6. Len(ms) = b + Len(y)
    BY <1>1, <2>1, <2>4
  <2>7. ASSUME NEW i \in 1..Len(y) PROVE y[i] = ms[i + b]
    <3>1. i \in 1..(Len(ms) - (b + 1) + 1) /\ (b + 1) + i - 1 = i + b
      BY <1>1, <2>1, <2>4
    <3>2. QED
      BY <2>4, <3>1
  <2>8. Shows(y, b, ms)
    BY <2>6, <2>7 DEF Shows
  <2>9. t.ms = y /\ t.base = b /\ t.head = FALSE
    BY <2>3, <2>5
  <2> HIDE DEF t
  <2>10. QED
    BY <1>4, <2>1, <2>4, <2>8, <2>9 DEF ms, t
<1>5. QED
  BY <1>3, <1>4

LEMMA ReloadStep == IInv /\ Reload => IInv' /\ Saved
<1> SUFFICES ASSUME IInv, Reload PROVE IInv' /\ Saved
  OBVIOUS
<1> DEFINE t == TrimMessagesForResume(disk.msgs)
<1>1. Apart(verbs) /\ disk \in Goods(verbs) /\ born \in Nat
  BY DEF IInv
<1>2. "reload" \in verbs /\ Open(disk) /\ latched' = FALSE /\ UNCHANGED <<disk, born, verbs>>
  BY DEF Reload
<1>3. Greetings = 0
  BY <1>1 DEF Apart, Greetings
<1>4. /\ live' = t.ms /\ pending' = 0 /\ base' = t.base /\ head' = t.head
      /\ tail' = seedTail(NoSwipe, disk, t.ms, t.base) /\ marks' = seedMsgVars(disk, t.base)
  BY <1>2, <1>3 DEF Open
<1> HIDE DEF t
<1>5. /\ t.ms \in Seq(Messages) /\ t.base \in Nat /\ t.head = FALSE
      /\ Shows(t.ms, t.base, disk.msgs) /\ ("long" \notin verbs => t.base = 0)
  BY <1>1, TrimFacts DEF t
<1>6. disk.start # 0 => PlainFrom(disk.msgs, disk.start)
  <2>1. GoodTail(disk, verbs)
    BY <1>1, GoodsFacts
  <2>2. QED
    BY <1>1, <1>2, <2>1 DEF GoodTail, Apart
<1> DEFINE l == t.ms
<1> DEFINE b == t.base
<1>7. l \in Seq(Messages) /\ b \in Nat /\ Shows(l, b, disk.msgs)
  BY <1>5
<1>8. live' = l /\ base' = b /\ tail' = seedTail(NoSwipe, disk, l, b) /\ marks' = seedMsgVars(disk, b)
  BY <1>4
<1> HIDE DEF l, b
<1>9. TailSync(seedTail(NoSwipe, disk, l, b), disk, l, b)
  BY <1>1, <1>6, <1>7, SeedFacts
<1>10. MarksSync(seedMsgVars(disk, b), disk, b)
  BY <1>1, <1>7, SeedMarks
<1>11. Synced(live', tail', marks', base', disk')
  <2>1. Synced(l, seedTail(NoSwipe, disk, l, b), seedMsgVars(disk, b), b, disk)
    BY <1>7, <1>9, <1>10 DEF Synced
  <2>2. disk' = disk
    BY <1>2
  <2>3. QED
    BY <1>8, <2>1, <2>2
<1>12. /\ Apart(verbs)' /\ pending' = 0 /\ head' = FALSE /\ base' \in Nat /\ born' \in Nat
       /\ ("long" \notin verbs' => base' = 0) /\ disk' \in Goods(verbs')
       /\ ~latched'
  <2>1. verbs' = verbs /\ disk' = disk /\ born' = born
    BY <1>2
  <2>2. Apart(verbs)'
    BY <1>1, <2>1 DEF Apart
  <2>3. QED
    BY <1>1, <1>2, <1>4, <1>5, <2>1, <2>2
<1>13. QED
  BY <1>11, <1>12 DEF IInv, Saved

LEMMA QuietStep == IInv /\ UNCHANGED vars => IInv' /\ Saved
<1> SUFFICES ASSUME IInv, UNCHANGED vars PROVE IInv' /\ Saved
  OBVIOUS
<1>1. /\ live' = live /\ tail' = tail /\ marks' = marks /\ base' = base /\ head' = head
      /\ pending' = pending /\ disk' = disk /\ latched' = latched /\ born' = born /\ verbs' = verbs
  BY DEF vars
<1>2. QED
  BY <1>1 DEF IInv, Apart, Saved

LEMMA InitGood == Init /\ Apart(verbs) => IInv
<1> SUFFICES ASSUME Init, Apart(verbs) PROVE IInv
  OBVIOUS
<1>1. Greetings = 0
  BY DEF Apart, Greetings
<1>2. /\ disk = EmptyFile /\ live = <<>> /\ pending = 0 /\ tail = NoSwipe /\ marks = <<>>
      /\ base = 0 /\ head = FALSE /\ latched = FALSE /\ born = 0
  BY <1>1 DEF Init, seedDeferredGreeting
<1>3. /\ disk.msgs = <<>> /\ disk.start = 0 /\ disk.takes = <<>> /\ disk.active = 0 /\ disk.vars = <<>>
  BY <1>2 DEF EmptyFile
<1>4. <<>> \in Seq(Messages) /\ <<>> \in Seq(Seq(Messages)) /\ Len(<<>>) = 0
  OBVIOUS
<1>5. disk \in Files
  <2>1. <<>> \in MarkSets
    BY MarkSetFacts
  <2>2. QED
    BY <1>2, <1>4, <2>1 DEF EmptyFile, Files
<1>6. GoodMsgs(disk.msgs, verbs) /\ GoodTail(disk, verbs) /\ GoodMarks(disk.msgs, disk.vars, verbs)
  <2>1. GoodMsgs(disk.msgs, verbs)
    BY <1>3, <1>4 DEF GoodMsgs
  <2>2. GoodTail(disk, verbs)
    BY <1>3, <1>4 DEF GoodTail, PlainTakes
  <2>3. GoodMarks(disk.msgs, disk.vars, verbs)
    BY <1>3, MarkSetFacts DEF GoodMarks
  <2>4. QED
    BY <2>1, <2>2, <2>3
<1>7. disk \in Goods(verbs)
  BY <1>5, <1>6 DEF Goods, GoodFile
<1>8. Synced(live, tail, marks, base, disk)
  <2>1. Shows(live, base, disk.msgs)
    BY <1>2, <1>3, <1>4 DEF Shows
  <2>2. MarksSync(marks, disk, base)
    BY <1>2, <1>3, MarkSetFacts DEF MarksSync
  <2>3. TailSync(tail, disk, live, base)
    BY <1>2 DEF TailSync
  <2>4. QED
    BY <1>2, <1>4, <2>1, <2>2, <2>3 DEF Synced
<1>9. QED
  BY <1>2, <1>4, <1>7, <1>8 DEF IInv

LEMMA NextStep == IInv /\ [Next]_vars => IInv' /\ Saved
<1> SUFFICES ASSUME IInv, [Next]_vars PROVE IInv' /\ Saved
  OBVIOUS
<1>1. ASSUME NEW condense \in BOOLEAN, NEW fate \in {"answered", "failed", "withdrawn"},
             Prompt(condense, fate)
      PROVE  IInv' /\ Saved
  BY <1>1, PromptStep
<1>2. ASSUME NEW answered \in BOOLEAN, retry(answered) PROVE IInv' /\ Saved
  BY <1>2, RetryStep
<1>3. CASE advance
  BY <1>3, AdvanceStep
<1>4. CASE continueTurn
  BY <1>4, ContinueStep
<1>5. CASE postDirected
  BY <1>5, PostStep
<1>6. ASSUME NEW p \in DOMAIN live, editMessage(p) \/ deleteMessage(p) PROVE IInv' /\ Saved
  BY <1>6, EditStep, DeleteStep
<1>7. ASSUME NEW v \in DOMAIN tail.takes, swipe(v) PROVE IInv' /\ Saved
  BY <1>7, SwipeStep
<1>8. ASSUME NEW p \in DOMAIN marks,
             \/ pruneVariants(p)
             \/ \E v \in 1..marks[p].count : swipeMessage(p, v) \/ dropVariant(p, v)
      PROVE  IInv' /\ Saved
  BY <1>8, PruneStep, SwipeMessageStep, DropStep
<1>9. CASE compact
  BY <1>9, CompactStep
<1>10. CASE clear
  BY <1>10, ClearStep
<1>11. CASE Reload
  BY <1>11, ReloadStep
<1>12. CASE UNCHANGED vars
  BY <1>12, QuietStep
<1>13. QED
  BY <1>1, <1>2, <1>3, <1>4, <1>5, <1>6, <1>7, <1>8, <1>9, <1>10, <1>11, <1>12 DEF Next

(* Where no two verbs that disturb each other are in use, the file is one that *)
(* its own rows can leave, and unless a write has failed the session agrees    *)
(* with it in transcript, takes and marks, after every verb and reload.        *)
THEOREM FileAgrees == Spec /\ Apart(verbs) => []IInv
<1>1. Init /\ Apart(verbs) => IInv
  BY InitGood
<1>2. IInv /\ [Next]_vars => IInv'
  BY NextStep
<1>3. QED
  BY <1>1, <1>2, PTL DEF Spec

(***************************************************************************)
(* What the runs check, for sessions of every size.                        *)
(***************************************************************************)
LEMMA ShownEnd ==
  ASSUME NEW l \in Seq(Messages), NEW ms \in Seq(Messages), NEW b \in Nat, Shows(l, b, ms)
  PROVE  l = From(ms, b + 1)
<1> DEFINE p == b + 1
<1> DEFINE f == From(ms, p)
<1>1. Len(l) \in Nat /\ Len(ms) = b + Len(l)
  BY LenProperties DEF Shows
<1>2. p \in 1..(Len(ms) + 1) /\ Len(ms) - p + 1 = Len(l)
  BY <1>1
<1> HIDE DEF p
<1>3. /\ f \in Seq(Messages) /\ Len(f) = Len(ms) - p + 1
      /\ \A i \in 1..(Len(ms) - p + 1) : f[i] = ms[p + i - 1]
  BY <1>2, FromFacts
<1> HIDE DEF f
<1>4. ASSUME NEW i \in 1..Len(l) PROVE l[i] = f[i]
  <2>1. i \in 1..(Len(ms) - p + 1) /\ p + i - 1 = i + b
    BY <1>1, <1>2 DEF p
  <2>2. f[i] = ms[i + b]
    BY <1>3, <2>1
  <2>3. QED
    BY <2>2 DEF Shows
<1>5. Len(f) = Len(l)
  BY <1>2, <1>3
<1>6. l = f
  BY <1>3, <1>4, <1>5, SeqEqual
<1>7. QED
  BY <1>6 DEF f, p

LEMMA ReplayedNow == IInv => LiveIsReplayed
<1> SUFFICES ASSUME IInv, ~latched PROVE LiveIsReplayed
  BY DEF LiveIsReplayed
<1>1. /\ live \in Seq(Messages) /\ disk.msgs \in Seq(Messages) /\ base \in Nat
      /\ Shows(live, base, disk.msgs) /\ Flushed = disk
  BY Ready
<1>2. live = From(disk.msgs, base + 1)
  BY <1>1, ShownEnd
<1>3. From(disk.msgs, base + 1) \in Seq(Messages)
  BY <1>1, <1>2
<1>4. <<>> \o From(disk.msgs, base + 1) = From(disk.msgs, base + 1)
  BY <1>3, ConcatEmptySeq
<1>5. head = FALSE
  BY DEF IInv
<1>6. QED
  BY <1>1, <1>2, <1>4, <1>5 DEF LiveIsReplayed

(* What a client sees is what a load of the file would show it (LiveIsReplayed). *)
THEOREM LiveReplayed == Spec /\ Apart(verbs) => []LiveIsReplayed
<1>1. IInv => LiveIsReplayed
  BY ReplayedNow
<1>2. QED
  BY <1>1, FileAgrees, PTL

LEMMA SwipesNow == IInv => SwipesAgree
<1> SUFFICES ASSUME IInv, ~latched PROVE SwipesAgree
  BY DEF SwipesAgree, MarksAgree, TailAgrees
<1>1. /\ disk \in Goods(verbs) /\ base \in Nat /\ live \in Seq(Messages)
      /\ Shows(live, base, disk.msgs) /\ disk.msgs \in Seq(Messages) /\ Flushed = disk
      /\ TailSync(tail, disk, live, base) /\ \A p : diskIndex(p) = p + base
  BY Ready
<1>2. ASSUME NEW p \in DOMAIN marks
      PROVE  /\ p \in DOMAIN live /\ OnFile(diskIndex(p))
             /\ LET f == disk.vars[diskIndex(p)]
                IN /\ marks[p].count = Len(f.takes) /\ marks[p].active = f.active
                   /\ marks[p].takes \in {<<>>, f.takes}
                   /\ f.takes[f.active] = live[p]
  <2> DEFINE f == disk.vars[p + base]
  <2>1. /\ p \in DOMAIN live /\ p + base \in DOMAIN disk.vars
        /\ GoodMark(disk.msgs, p + base, f, verbs) /\ live[p] = disk.msgs[p + base]
        /\ marks[p].count = Len(f.takes) /\ marks[p].active = f.active /\ marks[p] \in Drawn(f)
    BY MarkTakes
  <2> HIDE DEF f
  <2>2. f.takes[f.active] = live[p]
    BY <2>1 DEF GoodMark
  <2>3. marks[p].takes \in {<<>>, f.takes}
    BY <2>1 DEF Drawn
  <2>4. OnFile(diskIndex(p)) /\ f = disk.vars[diskIndex(p)]
    BY <1>1, <2>1 DEF OnFile, f
  <2>5. QED
    BY <2>1, <2>2, <2>3, <2>4
<1>3. ASSUME tail.start # 0
      PROVE  LET s == sealActiveTake(Flushed)
             IN /\ s.start = diskIndex(tail.start) /\ s.takes = tail.takes
                /\ (pending = 0 => s.active = tail.active)
                /\ From(live, tail.start) = tail.takes[tail.active]
  <2>1. tail # NoSwipe
    BY <1>3 DEF NoSwipe
  <2>2. PICK s \in 1..(Len(live) + 1) :
          disk.start = s + base /\ tail = TailAt(disk, live, s) /\ PlainFrom(live, s)
    BY <1>1, <2>1 DEF TailSync
  <2>3. PlainFrom(disk.msgs, s + base) /\ s + base \in 1..(Len(disk.msgs) + 1)
    BY <1>1, <2>2, PlainShown
  <2>4. /\ disk.start # 0 /\ disk.start \in 1..(Len(disk.msgs) + 1) /\ PlainFrom(disk.msgs, disk.start)
    BY <2>2, <2>3
  <2>5. /\ sealActiveTake(disk).start = disk.start /\ sealActiveTake(disk).active = disk.active
        /\ sealActiveTake(disk).takes = ChoiceTakes(disk) /\ disk.active \in 1..Len(disk.takes)
        /\ ChoiceTakes(disk)[disk.active] = From(disk.msgs, disk.start)
    BY <1>1, <2>4, SealNow
  <2>6. From(live, s) = From(disk.msgs, disk.start)
    BY <1>1, <2>2, ShowsFrom
  <2>7. tail.start = s /\ tail.takes = ChoiceTakes(disk) /\ tail.active = disk.active
    BY <2>2, <2>6 DEF TailAt, ChoiceTakes
  <2>8. QED
    BY <1>1, <2>2, <2>5, <2>6, <2>7
<1>4. QED
  BY <1>2, <1>3 DEF SwipesAgree, MarksAgree, TailAgrees

(* The takes a swipe chooses from are the file's, at the same message, and the *)
(* chosen one is on screen (SwipesAgree).                                      *)
THEOREM SwipesOnFile == Spec /\ Apart(verbs) => []SwipesAgree
<1>1. IInv => SwipesAgree
  BY SwipesNow
<1>2. QED
  BY <1>1, FileAgrees, PTL

LEMMA ShownNow ==
  IInv /\ ("write" \in verbs => "condense" \notin verbs) /\ [Next]_vars =>
    (~latched /\ latched' => {m \in ToSet(live) : m.id > Greetings} \subseteq OnRecord(disk'))
<1> SUFFICES ASSUME IInv, "write" \in verbs => "condense" \notin verbs, [Next]_vars,
                    ~latched, latched'
             PROVE  {m \in ToSet(live) : m.id > Greetings} \subseteq OnRecord(disk')
  OBVIOUS
<1>1. ToSet(live) \subseteq OnRecord(disk')
  BY NextStep DEF Saved
<1>2. QED
  BY <1>1

LEMMA ApartStays ==
  IInv /\ ("write" \in verbs => "condense" \notin verbs) /\ [Next]_vars
    => ("write" \in verbs => "condense" \notin verbs)'
<1> SUFFICES ASSUME [Next]_vars PROVE verbs' = verbs
  OBVIOUS
<1>1. ASSUME NEW condense \in BOOLEAN, NEW fate \in {"answered", "failed", "withdrawn"},
             Prompt(condense, fate)
      PROVE  verbs' = verbs
  BY <1>1 DEF Prompt, May
<1>2. ASSUME NEW answered \in BOOLEAN, retry(answered) PROVE verbs' = verbs
  BY <1>2 DEF retry, May
<1>3. CASE advance \/ continueTurn \/ postDirected
  BY <1>3 DEF advance, continueTurn, postDirected, May
<1>4. ASSUME NEW p \in DOMAIN live, editMessage(p) \/ deleteMessage(p) PROVE verbs' = verbs
  BY <1>4 DEF editMessage, deleteMessage, May
<1>5. ASSUME NEW v \in DOMAIN tail.takes, swipe(v) PROVE verbs' = verbs
  BY <1>5 DEF swipe, May
<1>6. ASSUME NEW p \in DOMAIN marks,
             \/ pruneVariants(p)
             \/ \E v \in 1..marks[p].count : swipeMessage(p, v) \/ dropVariant(p, v)
      PROVE  verbs' = verbs
  BY <1>6 DEF pruneVariants, swipeMessage, dropVariant, May
<1>7. CASE compact \/ clear
  BY <1>7 DEF compact, clear, May
<1>8. CASE Reload
  BY <1>8 DEF Reload
<1>9. CASE UNCHANGED vars
  BY <1>9 DEF vars
<1>10. QED
  BY <1>1, <1>2, <1>3, <1>4, <1>5, <1>6, <1>7, <1>8, <1>9 DEF Next

(* After a failed write or a kill between two rows, each message that was shown *)
(* when the verb began is on file or in a take (ShownIsOnFile), where no prompt *)
(* condenses first.                                                             *)
THEOREM ShownSurvives ==
  Spec /\ Apart(verbs) /\ ("write" \in verbs => "condense" \notin verbs) => ShownIsOnFile
<1> DEFINE Mixed == "write" \in verbs => "condense" \notin verbs
<1>1. IInv /\ Mixed /\ [Next]_vars =>
        (~latched /\ latched' => {m \in ToSet(live) : m.id > Greetings} \subseteq OnRecord(disk'))
  BY ShownNow
<1>2. IInv /\ Mixed /\ [Next]_vars => Mixed'
  BY ApartStays
<1> HIDE DEF Mixed
<1>3. Spec /\ Apart(verbs) /\ Mixed => ShownIsOnFile
  BY <1>1, <1>2, FileAgrees, PTL DEF Spec, ShownIsOnFile
<1>4. QED
  BY <1>3 DEF Mixed

LEMMA EditNow == IInv /\ [Next]_vars =>
  \A p \in DOMAIN live :
    editMessage(p) /\ ~latched' =>
      LET start == lastResponseStart(live)
      IN IF p >= start
         THEN tail'.start = start /\ From(live, start) \in ToSet(tail'.takes)
         ELSE /\ p \in DOMAIN marks' /\ diskIndex(p) \in DOMAIN disk'.vars
              /\ live[p] \in ToSet(disk'.vars[diskIndex(p)].takes)
<1> SUFFICES ASSUME IInv, NEW p \in DOMAIN live, editMessage(p), ~latched'
             PROVE  LET start == lastResponseStart(live)
                    IN IF p >= start
                       THEN tail'.start = start /\ From(live, start) \in ToSet(tail'.takes)
                       ELSE /\ p \in DOMAIN marks' /\ diskIndex(p) \in DOMAIN disk'.vars
                            /\ live[p] \in ToSet(disk'.vars[diskIndex(p)].takes)
  OBVIOUS
<1> DEFINE s == lastResponseStart(live)
<1>1. /\ May("edit", 1) /\ (live[p].who = "line" => "unline" \in verbs)
      /\ p >= s => editTailAsVariant(s, p)
      /\ ~(p >= s) => editMessageAsVariant(p)
  BY DEF editMessage
<1>2. CASE p >= s
  <2>1. tail'.start = s /\ From(live, s) \in ToSet(tail'.takes)
    BY <1>1, <1>2, EditTailStep
  <2>2. QED
    BY <1>2, <2>1
<1>3. CASE ~(p >= s)
  <2>1. ~latched
    BY <1>1 DEF May
  <2>2. live \in Seq(Messages) /\ Len(live) \in Nat /\ diskIndex(p) = p + base
    BY <2>1, Ready
  <2>3. p < s
    <3>1. s \in 1..(Len(live) + 1) /\ p \in 1..Len(live)
      BY <2>2, LastResponse, LenProperties
    <3> HIDE DEF s
    <3>2. QED
      BY <1>3, <2>2, <3>1
  <2>4. /\ p \in DOMAIN marks' /\ p + base \in DOMAIN disk'.vars
        /\ live[p] \in ToSet(disk'.vars[p + base].takes)
    BY <1>1, <1>3, <2>3, EditMessageStep
  <2>5. QED
    BY <1>3, <2>2, <2>4
<1>4. QED
  BY <1>2, <1>3

(* An edit leaves the version it replaced one swipe away (EditKeepsOriginal). *)
THEOREM EditsKept == Spec /\ Apart(verbs) => EditKeepsOriginal
<1>1. IInv /\ [Next]_vars =>
        \A p \in DOMAIN live :
          editMessage(p) /\ ~latched' =>
            LET start == lastResponseStart(live)
            IN IF p >= start
               THEN tail'.start = start /\ From(live, start) \in ToSet(tail'.takes)
               ELSE /\ p \in DOMAIN marks' /\ diskIndex(p) \in DOMAIN disk'.vars
                    /\ live[p] \in ToSet(disk'.vars[diskIndex(p)].takes)
  BY EditNow
<1>2. QED
  BY <1>1, FileAgrees, PTL DEF Spec, EditKeepsOriginal

LEMMA AuthoredJoin ==
  ASSUME NEW l \in Seq(Messages), NEW s \in 1..(Len(l) + 1), PlainFrom(l, s),
         NEW u \in Seq(Messages), NEW i \in DOMAIN l, isAuthoredLine(l[i])
  PROVE  l[i] \in ToSet(Before(l, s) \o u)
<1> DEFINE y == Before(l, s) \o u
<1>1. Len(l) \in Nat /\ i \in 1..Len(l) /\ Len(u) \in Nat
  BY LenProperties
<1>2. i \in 1..(s - 1)
  <2>1. ~(i >= s)
    BY <1>1 DEF PlainFrom
  <2>2. QED
    BY <1>1, <2>1
<1>3. y \in Seq(Messages) /\ Len(y) = s - 1 + Len(u) /\ \A j \in 1..(s - 1) : y[j] = l[j]
  BY JoinFacts
<1> HIDE DEF y
<1>4. y[i] = l[i] /\ i \in 1..Len(y)
  BY <1>1, <1>2, <1>3
<1>5. DOMAIN y = 1..Len(y)
  BY <1>3, LenProperties
<1>6. QED
  BY <1>4, <1>5 DEF ToSet, y

LEMMA AuthoredNow ==
  ASSUME IInv, NEW i \in DOMAIN live, isAuthoredLine(live[i]),
         (\E v \in DOMAIN tail.takes : swipe(v)) \/ (\E answered \in BOOLEAN : retry(answered))
  PROVE  live[i] \in ToSet(live')
<1>1. ~latched
  BY DEF swipe, retry, May
<1>2. /\ live \in Seq(Messages) /\ disk \in Goods(verbs) /\ base \in Nat
      /\ TailSync(tail, disk, live, base) /\ Synced(live, tail, marks, base, disk) /\ born \in Nat
  BY <1>1, Ready
<1>3. live[i] \in ToSet(live)
  BY DEF ToSet
<1>4. ASSUME NEW v \in DOMAIN tail.takes, swipe(v) PROVE live[i] \in ToSet(live')
  <2> DEFINE u == tail.takes[v]
  <2>1. /\ Len(tail.takes) >= 2
        /\ live' = live \/ live' = Before(live, tail.start) \o u
    BY <1>4 DEF swipe, Then, memory
  <2>2. tail # NoSwipe
    <3>1. Len(NoSwipe.takes) = 0
      BY DEF NoSwipe
    <3>2. QED
      BY <2>1, <3>1
  <2>3. PICK s \in 1..(Len(live) + 1) :
          disk.start = s + base /\ tail = TailAt(disk, live, s) /\ PlainFrom(live, s)
    BY <1>2, <2>2 DEF TailSync
  <2>4. u \in Seq(Messages)
    <3> DEFINE ts == disk.takes
    <3> DEFINE f == From(live, s)
    <3>1. ts \in Seq(Seq(Messages)) /\ f \in Seq(Messages) /\ tail.takes = [ts EXCEPT ![disk.active] = f]
      BY <1>2, <2>3, GoodsFacts, FromFacts DEF TailAt
    <3> DEFINE es == [ts EXCEPT ![disk.active] = f]
    <3> HIDE DEF ts, f
    <3>2. DOMAIN es = DOMAIN ts /\ \A k \in DOMAIN ts : es[k] = ts[k] \/ es[k] = f
      OBVIOUS
    <3>3. \A k \in DOMAIN ts : ts[k] \in Seq(Messages)
      BY <3>1, ElementOfSeq, LenProperties
    <3> HIDE DEF es
    <3>4. tail.takes = es
      BY <3>1 DEF es
    <3>5. QED
      BY <3>1, <3>2, <3>3, <3>4
  <2>5. tail.start = s
    BY <2>3 DEF TailAt
  <2> HIDE DEF u
  <2>6. live[i] \in ToSet(Before(live, s) \o u)
    BY <1>2, <2>3, <2>4, AuthoredJoin
  <2>7. QED
    BY <1>3, <2>1, <2>5, <2>6
<1>5. ASSUME NEW answered \in BOOLEAN, retry(answered) PROVE live[i] \in ToSet(live')
  <2> DEFINE s == lastResponseStart(live)
  <2> DEFINE a == Message(born + 1, "model")
  <2> DEFINE u == IF answered THEN << a >> ELSE <<>>
  <2>1. live' = live \/ live' = Before(live, s) \o u
    BY <1>5 DEF retry, memory
  <2>2. s \in 1..(Len(live) + 1) /\ PlainFrom(live, s)
    BY <1>2, LastResponse
  <2>3. u \in Seq(Messages)
    <3>1. a \in Messages
      BY <1>2, MadeFacts
    <3> HIDE DEF a
    <3>2. QED
      BY <3>1
  <2> HIDE DEF s, u
  <2>4. live[i] \in ToSet(Before(live, s) \o u)
    BY <1>2, <2>2, <2>3, AuthoredJoin
  <2>5. QED
    BY <1>3, <2>1, <2>4
<1>6. QED
  BY <1>4, <1>5

(* A swipe or a regenerate throws away model output only: what the author put *)
(* into the scene stays (AuthoredKept).                                       *)
THEOREM AuthoredStays == Spec /\ Apart(verbs) => AuthoredKept
<1>1. IInv /\ [Next]_vars =>
        ((\E v \in DOMAIN tail.takes : swipe(v)) \/ (\E answered \in BOOLEAN : retry(answered)) =>
           \A i \in DOMAIN live : isAuthoredLine(live[i]) => live[i] \in ToSet(live'))
  BY AuthoredNow
<1>2. IInv /\ [Next]_vars =>
        ((\E i \in DOMAIN live : isAuthoredLine(live[i]) /\ live[i] \notin ToSet(live')) =>
           /\ \A v \in DOMAIN tail.takes : ~swipe(v)
           /\ \A answered \in BOOLEAN : ~retry(answered))
  BY <1>1, Zenon
<1>3. QED
  BY <1>2, FileAgrees, PTL DEF Spec, AuthoredKept
=============================================================================
