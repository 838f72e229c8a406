----------------------------- MODULE DataLemmas -----------------------------
(***************************************************************************)
(* Facts about natural numbers and sequences that the proofs of the server *)
(* and of the text functions rest on: induction, stated for sets of        *)
(* numbers, what RemoveFirst leaves of a sequence, and concatenation.      *)
(***************************************************************************)
EXTENDS Itoa, SequencesExt, WellFoundedInduction, TLAPS

\* A set of natural numbers has a least element.
LEMMA NatMin ==
    ASSUME NEW S, S \subseteq Nat, S # {}
    PROVE  \E m \in S : \A y \in S : m <= y
<1>1. IsWellFoundedOn({p \in Nat \X Nat : p[1] < p[2]}, Nat)
  BY NatLessThanWellFounded, Zenon DEF OpToRel
<1>2. PICK m \in S : \A y \in S : ~(<<y, m>> \in {p \in Nat \X Nat : p[1] < p[2]})
  BY <1>1, WFMin, Zenon
<1>3. \A y \in S : ~(y < m)
  BY <1>2
<1>. QED
  BY <1>3

\* Induction, for the set of the numbers that have a property.
LEMMA NatSetInduction ==
    ASSUME NEW S, 0 \in S, \A n \in Nat : n \in S => n + 1 \in S
    PROVE  Nat \subseteq S
<1>1. SUFFICES ASSUME Nat \ S # {} PROVE FALSE
  OBVIOUS
<1>2. PICK m \in Nat \ S : \A y \in Nat \ S : m <= y
  BY <1>1, NatMin
<1>3. m # 0 /\ m - 1 \in Nat /\ m - 1 \in S
  BY <1>2
<1>. QED
  BY <1>2, <1>3

LEMMA MinFacts ==
    ASSUME NEW S, S \subseteq Nat, S # {}
    PROVE  Min(S) \in S /\ \A y \in S : Min(S) <= y
<1>1. \E m \in S : \A y \in S : m <= y
  BY NatMin
<1>. QED
  BY <1>1 DEF Min

LEMMA MaxFacts ==
    ASSUME NEW k \in Nat, NEW S, S \subseteq 0 .. k, S # {}
    PROVE  Max(S) \in S /\ \A y \in S : Max(S) >= y
<1> DEFINE T == {k - x : x \in S}
<1>1. T \subseteq Nat /\ T # {}
  OBVIOUS
<1>2. PICK m \in T : \A y \in T : m <= y
  BY <1>1, NatMin
<1>3. PICK x \in S : m = k - x
  BY <1>2
<1>4. \A y \in S : k - x <= k - y
  BY <1>2, <1>3
<1>5. \A y \in S : x >= y
  BY <1>4
<1>6. \E x1 \in S : \A y \in S : x1 >= y
  BY <1>5
<1>. QED
  BY <1>6 DEF Max

-----------------------------------------------------------------------------
(* RemoveFirst, the removeOne of broker.go.                                *)

\* If e is there, one entry e goes and those behind it move up.
LEMMA RemoveFirstIsShift ==
    ASSUME NEW T, NEW l \in Seq(T), NEW e, \E i \in 1 .. Len(l) : l[i] = e
    PROVE  \E k \in 1 .. Len(l) :
             /\ l[k] = e
             /\ RemoveFirst(l, e) \in Seq(T)
             /\ Len(RemoveFirst(l, e)) = Len(l) - 1
             /\ \A i \in 1 .. Len(l) - 1 :
                  RemoveFirst(l, e)[i] = IF i < k THEN l[i] ELSE l[i + 1]
<1> DEFINE I == {i \in 1 .. Len(l) : l[i] = e}
           k == Min(I)
<1>1. k \in I
  <2>1. I \subseteq Nat /\ I # {}
    OBVIOUS
  <2>. QED
    BY <2>1, MinFacts
<1> HIDE DEF k
<1>2. RemoveFirst(l, e) = SubSeq(l, 1, k - 1) \o SubSeq(l, k + 1, Len(l))
  BY <1>1, Zenon DEF RemoveFirst, RemoveAt, SelectInSeq, k
<1>3. k \in 1 .. Len(l) /\ l[k] = e /\ Len(l) \in Nat
  BY <1>1
<1>4. SubSeq(l, 1, k - 1) \in Seq(T) /\ Len(SubSeq(l, 1, k - 1)) = k - 1
      /\ \A i \in 1 .. k - 1 : SubSeq(l, 1, k - 1)[i] = l[i]
  BY <1>3
<1>5. SubSeq(l, k + 1, Len(l)) \in Seq(T) /\ Len(SubSeq(l, k + 1, Len(l))) = Len(l) - k
      /\ \A i \in 1 .. Len(l) - k : SubSeq(l, k + 1, Len(l))[i] = l[k + i]
  BY <1>3
<1> DEFINE a == SubSeq(l, 1, k - 1)
           b == SubSeq(l, k + 1, Len(l))
<1> HIDE DEF a, b
<1>6. /\ a \in Seq(T) /\ Len(a) = k - 1 /\ \A i \in 1 .. k - 1 : a[i] = l[i]
      /\ b \in Seq(T) /\ Len(b) = Len(l) - k /\ \A i \in 1 .. Len(l) - k : b[i] = l[k + i]
      /\ RemoveFirst(l, e) = a \o b
  BY <1>2, <1>4, <1>5 DEF a, b
<1>7. a \o b \in Seq(T) /\ Len(a \o b) = Len(l) - 1
  BY <1>3, <1>6
<1>8. ASSUME NEW i \in 1 .. Len(l) - 1
      PROVE  (a \o b)[i] = IF i < k THEN l[i] ELSE l[i + 1]
  <2>1. (a \o b)[i] = IF i <= Len(a) THEN a[i] ELSE b[i - Len(a)]
    BY <1>6, <1>3
  <2>2. CASE i < k
    BY <2>1, <2>2, <1>6, <1>3
  <2>3. CASE ~(i < k)
    <3>1. i - (k - 1) \in 1 .. Len(l) - k /\ k + (i - (k - 1)) = i + 1
      BY <2>3, <1>3
    <3>2. b[i - (k - 1)] = l[i + 1]
      BY <3>1, <1>6
    <3>. QED
      BY <2>1, <2>3, <3>2, <1>6, <1>3
  <2>. QED
    BY <2>2, <2>3
<1>. QED
  BY <1>3, <1>6, <1>7, <1>8

\* e occurs at most once in l.
AtMostOnce(l, e) == \A i, j \in 1 .. Len(l) : l[i] = e /\ l[j] = e => i = j
Occurs(l, e) == \E i \in 1 .. Len(l) : l[i] = e

LEMMA RangeOccurs ==
    ASSUME NEW T, NEW l \in Seq(T), NEW e
    PROVE  e \in Range(l) <=> Occurs(l, e)
BY DEF Range, Occurs

LEMMA RangeTyped ==
    ASSUME NEW T, NEW l \in Seq(T)
    PROVE  Range(l) \subseteq T
BY DEF Range

\* What RemoveFirst leaves.
LEMMA RemoveFirstFacts ==
    ASSUME NEW T, NEW l \in Seq(T), NEW e
    PROVE  /\ RemoveFirst(l, e) \in Seq(T)
           /\ Len(RemoveFirst(l, e)) <= Len(l)
           /\ AtMostOnce(l, e) => ~Occurs(RemoveFirst(l, e), e)
           /\ \A f : AtMostOnce(l, f) => AtMostOnce(RemoveFirst(l, e), f)
           /\ \A f : Occurs(RemoveFirst(l, e), f) => Occurs(l, f)
           /\ \A f : f # e /\ Occurs(l, f) => Occurs(RemoveFirst(l, e), f)
<1> DEFINE r == RemoveFirst(l, e)
<1>1. CASE ~Occurs(l, e)
  <2>1. r = l
    BY <1>1, Zenon DEF RemoveFirst, Occurs
  <2>. QED
    BY <1>1, <2>1
<1>2. CASE Occurs(l, e)
  <2>1. PICK k \in 1 .. Len(l) : /\ l[k] = e
                                 /\ r \in Seq(T)
                                 /\ Len(r) = Len(l) - 1
                                 /\ \A i \in 1 .. Len(l) - 1 :
                                      r[i] = IF i < k THEN l[i] ELSE l[i + 1]
    BY <1>2, RemoveFirstIsShift, Zenon DEF Occurs
  <2> HIDE DEF r
  <2> DEFINE from(i) == IF i < k THEN i ELSE i + 1
  <2>2. Len(l) \in Nat /\ k \in Nat
    OBVIOUS
  <2>3. \A i \in 1 .. Len(r) : from(i) \in 1 .. Len(l) /\ from(i) # k /\ r[i] = l[from(i)]
    BY <2>1, <2>2
  <2>4. \A i, j \in 1 .. Len(r) : from(i) = from(j) => i = j
    BY <2>1, <2>2
  <2>5. \A j \in 1 .. Len(l) : j # k => \E i \in 1 .. Len(r) : from(i) = j
    <3>1. SUFFICES ASSUME NEW j \in 1 .. Len(l), j # k
                   PROVE  \E i \in 1 .. Len(r) : from(i) = j
      OBVIOUS
    <3>2. CASE j < k
      BY <3>2, <2>1, <2>2
    <3>3. CASE j > k
      <4>1. j - 1 \in 1 .. Len(r) /\ from(j - 1) = j
        BY <3>3, <2>1, <2>2
      <4>. QED
        BY <4>1
    <3>. QED
      BY <3>1, <3>2, <3>3, <2>2
  <2> HIDE DEF from
  <2>6. AtMostOnce(l, e) => ~Occurs(r, e)
    BY <2>1, <2>3 DEF AtMostOnce, Occurs
  <2>7. ASSUME NEW f, AtMostOnce(l, f) PROVE AtMostOnce(r, f)
    BY <2>3, <2>4, <2>7 DEF AtMostOnce
  <2>8. ASSUME NEW f, Occurs(r, f) PROVE Occurs(l, f)
    BY <2>3, <2>8 DEF Occurs
  <2>9. ASSUME NEW f, f # e, Occurs(l, f) PROVE Occurs(r, f)
    BY <2>1, <2>3, <2>5, <2>9 DEF Occurs
  <2>10. Len(r) <= Len(l)
    BY <2>1, <2>2
  <2>. QED
    BY <2>1, <2>6, <2>7, <2>8, <2>9, <2>10 DEF r
<1>. QED
  BY <1>1, <1>2

-----------------------------------------------------------------------------
(* Loops that take a sequence apart from its head.                         *)

LEMMA HeadAndTail ==
    ASSUME NEW T, NEW l \in Seq(T), l # <<>>
    PROVE  /\ Head(l) \in T /\ Tail(l) \in Seq(T) /\ Head(l) \in Range(l)
           /\ Len(Tail(l)) = Len(l) - 1 /\ Len(l) > 0
           /\ Range(l) = {Head(l)} \cup Range(Tail(l))
           /\ IsInjective(l) => IsInjective(Tail(l)) /\ Head(l) \notin Range(Tail(l))
           /\ Len(l) <= 1 => Range(Tail(l)) = {}
<1>1. /\ Len(l) \in Nat /\ Len(l) > 0 /\ DOMAIN l = 1 .. Len(l)
      /\ Head(l) = l[1] /\ Head(l) \in T /\ Tail(l) \in Seq(T) /\ Len(Tail(l)) = Len(l) - 1
      /\ DOMAIN Tail(l) = 1 .. (Len(l) - 1)
      /\ \A i \in 1 .. (Len(l) - 1) : Tail(l)[i] = l[i + 1]
  OBVIOUS
<1> DEFINE t == Tail(l)
<1> HIDE DEF t
<1>2. \A i \in DOMAIN t : i + 1 \in DOMAIN l /\ i + 1 # 1 /\ i \in Int /\ t[i] = l[i + 1]
  BY <1>1 DEF t
<1>3. 1 \in DOMAIN l /\ \A j \in DOMAIN l : j # 1 => j - 1 \in DOMAIN t /\ t[j - 1] = l[j]
  <2>1. 1 \in DOMAIN l
    BY <1>1
  <2>2. ASSUME NEW j \in DOMAIN l, j # 1 PROVE j - 1 \in DOMAIN t /\ t[j - 1] = l[j]
    <3>1. j - 1 \in 1 .. (Len(l) - 1) /\ (j - 1) + 1 = j
      BY <1>1, <2>2
    <3>. QED
      BY <1>1, <3>1 DEF t
  <2>. QED
    BY <2>1, <2>2
<1>4. Range(l) = {Head(l)} \cup Range(t)
  BY <1>1, <1>2, <1>3 DEF Range
<1>5. IsInjective(l) => IsInjective(t) /\ Head(l) \notin Range(t)
  <2>1. ASSUME IsInjective(l), NEW a \in DOMAIN t, NEW b \in DOMAIN t, t[a] = t[b]
        PROVE  a = b
    <3>1. a + 1 = b + 1 /\ a \in Int /\ b \in Int
      BY <1>2, <2>1 DEF IsInjective
    <3>. QED
      BY <3>1
  <2>2. ASSUME IsInjective(l), NEW a \in DOMAIN t, t[a] = l[1]
        PROVE  FALSE
    BY <1>2, <1>3, <2>2 DEF IsInjective
  <2>. QED
    BY <1>1, <2>1, <2>2 DEF IsInjective, Range
<1>6. Len(l) <= 1 => Range(t) = {}
  BY <1>1 DEF Range, t
<1>. QED
  BY <1>1, <1>4, <1>5, <1>6 DEF t

-----------------------------------------------------------------------------
(* Sequences put together.                                                 *)

LEMMA SeqEqual ==
    ASSUME NEW T, NEW s \in Seq(T), NEW t \in Seq(T), Len(s) = Len(t),
           \A k \in 1 .. Len(s) : s[k] = t[k]
    PROVE  s = t
<1>1. s \in [1 .. Len(s) -> T] /\ t \in [1 .. Len(s) -> T]
  OBVIOUS
<1>. QED
  BY <1>1, Zenon

LEMMA ConcatFacts ==
    ASSUME NEW T, NEW s \in Seq(T), NEW t \in Seq(T)
    PROVE  /\ s \o t \in Seq(T) /\ Len(s \o t) = Len(s) + Len(t)
           /\ \A k \in 1 .. Len(s) : (s \o t)[k] = s[k]
           /\ \A k \in 1 .. Len(t) : (s \o t)[Len(s) + k] = t[k]
<1>1. Len(s) \in Nat /\ Len(t) \in Nat
  OBVIOUS
<1>2. s \o t \in Seq(T) /\ Len(s \o t) = Len(s) + Len(t)
  OBVIOUS
<1>3. \A k \in 1 .. Len(s) : (s \o t)[k] = s[k]
  OBVIOUS
<1>4. ASSUME NEW k \in 1 .. Len(t) PROVE (s \o t)[Len(s) + k] = t[k]
  <2>1. Len(s) + k \in 1 .. Len(s) + Len(t) /\ ~(Len(s) + k <= Len(s)) /\ (Len(s) + k) - Len(s) = k
    BY <1>1
  <2>. QED
    BY <1>1, <2>1
<1>. QED
  BY <1>2, <1>3, <1>4

LEMMA AppendConcat ==
    ASSUME NEW T, NEW s \in Seq(T), NEW t \in Seq(T), NEW x \in T
    PROVE  Append(s, x) \o t = s \o (<<x>> \o t)
<1>. DEFINE l == Append(s, x) \o t
            m == <<x>> \o t
            r == s \o m
<1>1. m \in Seq(T) /\ Len(m) = Len(t) + 1 /\ m[1] = x /\ \A k \in 1 .. Len(t) : m[k + 1] = t[k]
  OBVIOUS
<1>2. /\ l \in Seq(T) /\ Len(l) = Len(s) + 1 + Len(t) /\ l[Len(s) + 1] = x
      /\ \A k \in 1 .. Len(s) : l[k] = s[k]
      /\ \A k \in 1 .. Len(t) : l[Len(s) + 1 + k] = t[k]
  OBVIOUS
<1>. HIDE DEF l, m
<1>3. /\ r \in Seq(T) /\ Len(r) = Len(s) + 1 + Len(t) /\ r[Len(s) + 1] = x
      /\ \A k \in 1 .. Len(s) : r[k] = s[k]
      /\ \A k \in 1 .. Len(t) : r[Len(s) + 1 + k] = t[k]
  <2>1. m \in Seq(T)
    BY <1>1
  <2>2. r \in Seq(T) /\ Len(r) = Len(s) + Len(m)
    BY <2>1, ConcatFacts
  <2>3. \A k \in 1 .. Len(s) : r[k] = s[k]
    BY <2>1, ConcatFacts
  <2>4. \A k \in 1 .. Len(m) : r[Len(s) + k] = m[k]
    BY <2>1, ConcatFacts
  <2>. HIDE DEF r
  <2>5. Len(s) \in Nat /\ Len(t) \in Nat /\ 1 \in 1 .. Len(m)
    BY <1>1
  <2>6. ASSUME NEW k \in 1 .. Len(t) PROVE r[Len(s) + 1 + k] = t[k]
    <3>1. k + 1 \in 1 .. Len(m) /\ Len(s) + (k + 1) = Len(s) + 1 + k
      BY <1>1, <2>5
    <3>. QED
      BY <1>1, <2>4, <3>1
  <2>7. r[Len(s) + 1] = x /\ Len(r) = Len(s) + 1 + Len(t)
    BY <1>1, <2>2, <2>4, <2>5
  <2>. QED
    BY <2>2, <2>3, <2>6, <2>7
<1>. HIDE DEF r
<1>4. ASSUME NEW k \in 1 .. Len(l) PROVE l[k] = r[k]
  <2>1. k \in 1 .. Len(s) \/ k = Len(s) + 1 \/ k - Len(s) - 1 \in 1 .. Len(t)
    BY <1>2
  <2>2. Len(s) + 1 + (k - Len(s) - 1) = k
    BY <1>2
  <2>. QED
    BY <1>2, <1>3, <2>1, <2>2
<1>5. l = r
  BY <1>2, <1>3, <1>4, SeqEqual
<1>. QED
  BY <1>5 DEF l, r, m

LEMMA ConcatTwo ==
    ASSUME NEW T, NEW s \in Seq(T), NEW x \in T
    PROVE  (s \o <<x>>) \o <<x>> = s \o <<x, x>> /\ s \o <<x, x>> \in Seq(T)
<1>. DEFINE l == (s \o <<x>>) \o <<x>>
            r == s \o <<x, x>>
<1>1. /\ l \in Seq(T) /\ Len(l) = Len(s) + 2 /\ l[Len(s) + 1] = x /\ l[Len(s) + 2] = x
      /\ \A k \in 1 .. Len(s) : l[k] = s[k]
  OBVIOUS
<1>2. /\ r \in Seq(T) /\ Len(r) = Len(s) + 2 /\ r[Len(s) + 1] = x /\ r[Len(s) + 2] = x
      /\ \A k \in 1 .. Len(s) : r[k] = s[k]
  OBVIOUS
<1>. HIDE DEF l, r
<1>3. \A k \in 1 .. Len(l) : k \in 1 .. Len(s) \/ k = Len(s) + 1 \/ k = Len(s) + 2
  BY <1>1
<1>4. l = r
  BY <1>1, <1>2, <1>3, SeqEqual
<1>. QED
  BY <1>2, <1>4 DEF l, r

-----------------------------------------------------------------------------
(* itoa: the recursive function digits exists, for every number.           *)

DigitStep(f, k) == IF k = 0 THEN <<>> ELSE Append(f[k \div 10], Numerals[(k % 10) + 1])
DigitsTo(f, m)  == f = [k \in 0 .. m |-> DigitStep(f, k)]

LEMMA DivSmaller ==
    ASSUME NEW k \in Nat, k # 0
    PROVE  k \div 10 \in Nat /\ k \div 10 < k
OBVIOUS

LEMMA DigitsExtend ==
    ASSUME NEW m \in Nat, NEW f, DigitsTo(f, m)
    PROVE  \E g : DigitsTo(g, m + 1)
<1>. DEFINE d == DigitStep(f, m + 1)
            g == [k \in 0 .. m + 1 |-> IF k <= m THEN f[k] ELSE d]
<1>. HIDE DEF d
<1>1. \A k \in 0 .. m : g[k] = f[k] /\ f[k] = DigitStep(f, k)
  BY DEF DigitsTo
<1>2. g[m + 1] = d
  OBVIOUS
<1>. HIDE DEF g
<1>3. ASSUME NEW k \in 0 .. m + 1 PROVE DigitStep(g, k) = DigitStep(f, k)
  <2>1. CASE k = 0
    BY <2>1 DEF DigitStep
  <2>2. CASE k # 0
    <3>1. k \div 10 \in 0 .. m
      BY <2>2, DivSmaller
    <3>2. g[k \div 10] = f[k \div 10]
      BY <1>1, <3>1
    <3>. QED
      BY <2>2, <3>2, Zenon DEF DigitStep
  <2>. QED
    BY <2>1, <2>2
<1>4. ASSUME NEW k \in 0 .. m + 1 PROVE g[k] = DigitStep(g, k)
  <2>1. CASE k \in 0 .. m
    BY <1>1, <1>3, <2>1
  <2>2. CASE k = m + 1
    BY <1>2, <1>3, <2>2 DEF d
  <2>. QED
    BY <2>1, <2>2
<1>5. g = [k \in 0 .. m + 1 |-> g[k]]
  BY DEF g
<1>6. DigitsTo(g, m + 1)
  BY <1>4, <1>5 DEF DigitsTo
<1>. QED
  BY <1>6

LEMMA DigitsToExists == \A m \in Nat : \E f : DigitsTo(f, m)
<1>. DEFINE S == {m \in Nat : \E f : DigitsTo(f, m)}
<1>1. 0 \in S
  <2>. DEFINE f == [k \in 0 .. 0 |-> <<>>]
  <2>1. \A k \in 0 .. 0 : DigitStep(f, k) = <<>>
    BY DEF DigitStep
  <2>2. DigitsTo(f, 0)
    <3>. HIDE DEF f
    <3>1. f = [k \in 0 .. 0 |-> <<>>]
      BY DEF f
    <3>. QED
      BY <2>1, <3>1 DEF DigitsTo
  <2>. QED
    BY <2>2
<1>2. \A m \in Nat : m \in S => m + 1 \in S
  BY DigitsExtend
<1>3. Nat \subseteq S
  <2>. HIDE DEF S
  <2>. QED
    BY <1>1, <1>2, NatSetInduction
<1>. QED
  BY <1>3

LEMMA DigitsToAgree ==
    ASSUME NEW m \in Nat, NEW f, DigitsTo(f, m), NEW m2 \in Nat, NEW g, DigitsTo(g, m2),
           NEW j \in Nat, j <= m, j <= m2
    PROVE  f[j] = g[j]
<1>. DEFINE S == {k \in Nat : k <= m /\ k <= m2 /\ f[k] # g[k]}
<1>1. SUFFICES S = {}
  OBVIOUS
<1>2. SUFFICES ASSUME S # {} PROVE FALSE
  OBVIOUS
<1>3. PICK k \in S : \A y \in S : k <= y
  BY <1>2, NatMin
<1>4. k \in 0 .. m /\ k \in 0 .. m2 /\ k \in Nat /\ f[k] # g[k]
  BY <1>3
<1>5. f[k] = DigitStep(f, k) /\ g[k] = DigitStep(g, k)
  BY <1>4, Zenon DEF DigitsTo
<1>6. CASE k = 0
  BY <1>4, <1>5, <1>6 DEF DigitStep
<1>7. CASE k # 0
  <2>1. k \div 10 \in Nat /\ k \div 10 < k
    BY <1>4, <1>7, DivSmaller
  <2>2. k \div 10 <= m /\ k \div 10 <= m2 /\ k \div 10 \notin S
    BY <1>3, <1>4, <2>1
  <2>3. f[k \div 10] = g[k \div 10]
    BY <2>1, <2>2
  <2>. QED
    BY <1>4, <1>5, <1>7, <2>3, Zenon DEF DigitStep
<1>. QED
  BY <1>6, <1>7

LEMMA DigitsDef == \A k \in Nat : digits[k] = DigitStep(digits, k)
<1>. DEFINE G(k) == CHOOSE f : DigitsTo(f, k)
            F == [k \in Nat |-> G(k)[k]]
<1>1. ASSUME NEW k \in Nat PROVE DigitsTo(G(k), k)
  BY DigitsToExists, Zenon
<1>2. \A k \in Nat : F[k] = G(k)[k]
  OBVIOUS
<1>. HIDE DEF G, F
<1>3. ASSUME NEW k \in Nat PROVE F[k] = DigitStep(F, k)
  <2>1. G(k)[k] = DigitStep(G(k), k)
    <3>1. k \in 0 .. k
      OBVIOUS
    <3>. QED
      BY <1>1, <3>1, Zenon DEF DigitsTo
  <2>2. CASE k = 0
    BY <1>2, <2>1, <2>2 DEF DigitStep
  <2>3. CASE k # 0
    <3>. DEFINE h == k \div 10
    <3>1. h \in Nat /\ h < k
      BY <2>3, DivSmaller
    <3>2. h <= h /\ h <= k
      BY <3>1
    <3>. HIDE DEF h
    <3>3. G(k)[h] = G(h)[h]
      BY <1>1, <3>1, <3>2, DigitsToAgree
    <3>4. F[h] = G(k)[h]
      BY <1>2, <3>1, <3>3
    <3>. QED
      BY <1>2, <2>1, <2>3, <3>4, Zenon DEF DigitStep, h
  <2>. QED
    BY <2>2, <2>3
<1>4. F = [k \in Nat |-> DigitStep(F, k)]
  <2>1. F = [k \in Nat |-> F[k]]
    BY DEF F
  <2>. QED
    BY <1>3, <2>1
<1>5. digits = [k \in Nat |-> DigitStep(digits, k)]
  BY <1>4, Zenon DEF digits, DigitStep
<1>. QED
  BY <1>5, Zenon

-----------------------------------------------------------------------------
(* FlattenSeq: its recursive function exists, too.                         *)

FlatStep(f, s, k) == IF k = 1 THEN s[k] ELSE f[k - 1] \o s[k]
FlatTo(f, s, m)   == f = [k \in 1 .. m |-> FlatStep(f, s, k)]

LEMMA FlatExtend ==
    ASSUME NEW s, NEW m \in Nat, NEW f, FlatTo(f, s, m)
    PROVE  \E g : FlatTo(g, s, m + 1)
<1>. DEFINE d == FlatStep(f, s, m + 1)
            g == [k \in 1 .. m + 1 |-> IF k <= m THEN f[k] ELSE d]
<1>. HIDE DEF d
<1>1. \A k \in 1 .. m : g[k] = f[k] /\ f[k] = FlatStep(f, s, k)
  BY DEF FlatTo
<1>2. g[m + 1] = d
  OBVIOUS
<1>. HIDE DEF g
<1>3. ASSUME NEW k \in 1 .. m + 1 PROVE FlatStep(g, s, k) = FlatStep(f, s, k)
  <2>1. CASE k = 1
    BY <2>1 DEF FlatStep
  <2>2. CASE k # 1
    <3>1. k - 1 \in 1 .. m
      BY <2>2
    <3>2. g[k - 1] = f[k - 1]
      BY <1>1, <3>1
    <3>. QED
      BY <2>2, <3>2, Zenon DEF FlatStep
  <2>. QED
    BY <2>1, <2>2
<1>4. ASSUME NEW k \in 1 .. m + 1 PROVE g[k] = FlatStep(g, s, k)
  <2>1. CASE k \in 1 .. m
    BY <1>1, <1>3, <2>1
  <2>2. CASE k = m + 1
    BY <1>2, <1>3, <2>2 DEF d
  <2>. QED
    BY <2>1, <2>2
<1>5. g = [k \in 1 .. m + 1 |-> g[k]]
  BY DEF g
<1>6. FlatTo(g, s, m + 1)
  BY <1>4, <1>5 DEF FlatTo
<1>. QED
  BY <1>6

LEMMA FlatExists == ASSUME NEW s, NEW m \in Nat PROVE \E f : FlatTo(f, s, m)
<1>. DEFINE S == {k \in Nat : \E f : FlatTo(f, s, k)}
<1>1. 0 \in S
  <2>. DEFINE f == [k \in 1 .. 0 |-> <<>>]
  <2>1. 1 .. 0 = {}
    OBVIOUS
  <2>2. FlatTo(f, s, 0)
    BY <2>1 DEF FlatTo
  <2>. QED
    BY <2>2
<1>2. \A k \in Nat : k \in S => k + 1 \in S
  BY FlatExtend
<1>3. Nat \subseteq S
  <2>. HIDE DEF S
  <2>. QED
    BY <1>1, <1>2, NatSetInduction
<1>. QED
  BY <1>3

\* The elements of a concatenation decide about it.
LEMMA ConcatIs ==
    ASSUME NEW T, NEW s \in Seq(T), NEW t \in Seq(T), NEW u \in Seq(T), Len(u) = Len(s) + Len(t),
           \A k \in 1 .. Len(s) : u[k] = s[k],
           \A k \in 1 .. Len(t) : u[Len(s) + k] = t[k]
    PROVE  s \o t = u
<1>. DEFINE v == s \o t
<1>1. v \in Seq(T) /\ Len(v) = Len(s) + Len(t)
  BY ConcatFacts
<1>2. \A k \in 1 .. Len(s) : v[k] = s[k]
  BY ConcatFacts
<1>3. \A k \in 1 .. Len(t) : v[Len(s) + k] = t[k]
  BY ConcatFacts
<1>. HIDE DEF v
<1>4. Len(s) \in Nat /\ Len(t) \in Nat
  OBVIOUS
<1>5. ASSUME NEW k \in 1 .. Len(v) PROVE v[k] = u[k]
  <2>1. CASE k <= Len(s)
    BY <1>1, <1>2, <1>4, <2>1
  <2>2. CASE ~(k <= Len(s))
    <3>1. k - Len(s) \in 1 .. Len(t) /\ Len(s) + (k - Len(s)) = k
      BY <1>1, <1>4, <2>2
    <3>. QED
      BY <1>3, <3>1
  <2>. QED
    BY <2>1, <2>2
<1>6. v = u
  BY <1>1, <1>5, SeqEqual
<1>. QED
  BY <1>6 DEF v

LEMMA ConcatAssoc ==
    ASSUME NEW T, NEW r \in Seq(T), NEW s \in Seq(T), NEW t \in Seq(T)
    PROVE  (r \o s) \o t = r \o (s \o t)
<1>. DEFINE x == r \o s
            y == s \o t
            z == r \o y
<1>0. Len(r) \in Nat /\ Len(s) \in Nat /\ Len(t) \in Nat
  OBVIOUS
<1>1. /\ x \in Seq(T) /\ Len(x) = Len(r) + Len(s)
      /\ \A k \in 1 .. Len(r) : x[k] = r[k]
      /\ \A k \in 1 .. Len(s) : x[Len(r) + k] = s[k]
  BY ConcatFacts
<1>2. /\ y \in Seq(T) /\ Len(y) = Len(s) + Len(t)
      /\ \A k \in 1 .. Len(s) : y[k] = s[k]
      /\ \A k \in 1 .. Len(t) : y[Len(s) + k] = t[k]
  BY ConcatFacts
<1>. HIDE DEF x, y
<1>3. /\ z \in Seq(T) /\ Len(z) = Len(r) + Len(y)
      /\ \A k \in 1 .. Len(r) : z[k] = r[k]
      /\ \A k \in 1 .. Len(y) : z[Len(r) + k] = y[k]
  <2>1. y \in Seq(T)
    BY <1>2
  <2>2. z \in Seq(T) /\ Len(z) = Len(r) + Len(y)
    BY <2>1, ConcatFacts
  <2>3. \A k \in 1 .. Len(r) : z[k] = r[k]
    BY <2>1, ConcatFacts
  <2>4. \A k \in 1 .. Len(y) : z[Len(r) + k] = y[k]
    BY <2>1, ConcatFacts
  <2>. QED
    BY <2>2, <2>3, <2>4
<1>. HIDE DEF z
<1>4. Len(z) = Len(x) + Len(t)
  BY <1>0, <1>1, <1>2, <1>3
<1>5. ASSUME NEW k \in 1 .. Len(x) PROVE z[k] = x[k]
  <2>1. CASE k <= Len(r)
    <3>1. k \in 1 .. Len(r)
      BY <1>0, <2>1
    <3>. QED
      BY <1>1, <1>3, <3>1
  <2>2. CASE ~(k <= Len(r))
    <3>. DEFINE j == k - Len(r)
    <3>1. j \in 1 .. Len(s) /\ j \in 1 .. Len(y) /\ Len(r) + j = k
      BY <1>0, <1>1, <1>2, <2>2
    <3>. HIDE DEF j
    <3>. QED
      BY <1>1, <1>2, <1>3, <3>1
  <2>. QED
    BY <2>1, <2>2
<1>6. ASSUME NEW k \in 1 .. Len(t) PROVE z[Len(x) + k] = t[k]
  <2>1. Len(s) + k \in 1 .. Len(y) /\ Len(r) + (Len(s) + k) = Len(x) + k
    BY <1>0, <1>1, <1>2
  <2>. QED
    BY <1>2, <1>3, <2>1
<1>7. x \o t = z
  BY <1>1, <1>3, <1>4, <1>5, <1>6, ConcatIs
<1>. QED
  BY <1>7 DEF x, y, z

LEMMA ConcatEmpty ==
    ASSUME NEW T, NEW s \in Seq(T)
    PROVE  /\ s \o <<>> = s /\ <<>> \o s = s
           /\ \A t \in Seq(T) : s \o t = <<>> => s = <<>> /\ t = <<>>
<1>1. <<>> \in Seq(T) /\ Len(<<>>) = 0 /\ Len(s) \in Nat
  OBVIOUS
<1>2. s \o <<>> = s
  BY <1>1, ConcatIs
<1>3. <<>> \o s = s
  BY <1>1, ConcatIs
<1>4. ASSUME NEW t \in Seq(T), s \o t = <<>> PROVE s = <<>> /\ t = <<>>
  <2>1. Len(s \o t) = Len(s) + Len(t) /\ Len(t) \in Nat
    BY ConcatFacts
  <2>2. Len(s) = 0 /\ Len(t) = 0
    BY <1>1, <1>4, <2>1
  <2>. QED
    BY <2>2
<1>. QED
  BY <1>2, <1>3, <1>4

\* What is left of b when h, with which b and what follows it begin, is taken off.
SameFlow(b, y, h, r)    == b \o y = h \o r
TakenOff(b, y, h, r, T) == /\ SubSeq(b, Len(h) + 1, Len(b)) \in Seq(T)
                           /\ SubSeq(b, Len(h) + 1, Len(b)) \o y = r
                           /\ SubSeq(b, 1, Len(h)) = h
                           /\ \A k \in 1 .. Len(h) : b[k] = h[k]

LEMMA TakeOff ==
    ASSUME NEW T, NEW b \in Seq(T), NEW y \in Seq(T), NEW h \in Seq(T), NEW r \in Seq(T),
           SameFlow(b, y, h, r), Len(h) <= Len(b)
    PROVE  TakenOff(b, y, h, r, T)
<1>. DEFINE z == h \o r
            c == SubSeq(b, Len(h) + 1, Len(b))
            p == SubSeq(b, 1, Len(h))
<1>0. Len(b) \in Nat /\ Len(h) \in Nat /\ Len(r) \in Nat /\ Len(y) \in Nat
  OBVIOUS
<1>1. /\ z \in Seq(T) /\ Len(z) = Len(h) + Len(r)
      /\ \A k \in 1 .. Len(h) : z[k] = h[k]
      /\ \A k \in 1 .. Len(r) : z[Len(h) + k] = r[k]
  BY ConcatFacts
<1>3. /\ Len(z) = Len(b) + Len(y)
      /\ \A k \in 1 .. Len(b) : z[k] = b[k]
      /\ \A k \in 1 .. Len(y) : z[Len(b) + k] = y[k]
  <2>. DEFINE w == b \o y
  <2>1. Len(w) = Len(b) + Len(y)
    BY ConcatFacts
  <2>2. \A k \in 1 .. Len(b) : w[k] = b[k]
    BY ConcatFacts
  <2>3. \A k \in 1 .. Len(y) : w[Len(b) + k] = y[k]
    BY ConcatFacts
  <2>4. w = z
    BY Zenon DEF SameFlow
  <2>. HIDE DEF w, z
  <2>. QED
    BY <2>1, <2>2, <2>3, <2>4
<1>4. /\ c \in Seq(T) /\ Len(c) = Len(b) - Len(h)
      /\ \A k \in 1 .. Len(b) - Len(h) : c[k] = b[Len(h) + k]
  BY <1>0
<1>5. /\ p \in Seq(T) /\ Len(p) = Len(h)
      /\ \A k \in 1 .. Len(h) : p[k] = b[k]
  BY <1>0
<1>. HIDE DEF z, c, p
<1>6. \A k \in 1 .. Len(h) : b[k] = h[k]
  BY <1>0, <1>1, <1>3
<1>7. p = h
  BY <1>5, <1>6, SeqEqual
<1>8. Len(r) = Len(c) + Len(y)
  <2>1. Len(h) + Len(r) = Len(b) + Len(y) /\ Len(c) = Len(b) - Len(h)
    BY <1>1, <1>3, <1>4, Zenon
  <2>. QED
    BY <1>0, <2>1
<1>9. ASSUME NEW k \in 1 .. Len(c) PROVE r[k] = c[k]
  <2>1. k \in 1 .. Len(r) /\ k \in 1 .. Len(b) - Len(h) /\ Len(h) + k \in 1 .. Len(b)
    BY <1>0, <1>4, <1>8
  <2>. QED
    BY <1>1, <1>3, <1>4, <2>1
<1>10. ASSUME NEW k \in 1 .. Len(y) PROVE r[Len(c) + k] = y[k]
  <2>1. Len(c) + k \in 1 .. Len(r) /\ Len(h) + (Len(c) + k) = Len(b) + k
    BY <1>0, <1>4, <1>8
  <2>. QED
    BY <1>1, <1>3, <2>1
<1>11. c \o y = r
  BY <1>4, <1>8, <1>9, <1>10, ConcatIs
<1>. QED
  BY <1>4, <1>6, <1>7, <1>11, Zenon DEF TakenOff, c, p

\* The function whose last value is FlattenSeq(s).
Flattens(f, s, T) == /\ FlattenSeq(s) = f[Len(s)] /\ f[1] = s[1]
                     /\ \A k \in 2 .. Len(s) : f[k] = f[k - 1] \o s[k]
                     /\ \A k \in 1 .. Len(s) : f[k] \in Seq(T)

LEMMA FlatPick ==
    ASSUME NEW T, NEW s \in Seq(Seq(T)), s # <<>>
    PROVE  \E f : Flattens(f, s, T)
<1>0. Len(s) \in Nat /\ Len(s) # 0 /\ \A k \in 1 .. Len(s) : s[k] \in Seq(T)
  OBVIOUS
<1>. DEFINE f == CHOOSE g : FlatTo(g, s, Len(s))
<1>1. FlatTo(f, s, Len(s))
  BY <1>0, FlatExists, Zenon
<1>2. FlattenSeq(s) = f[Len(s)]
  BY <1>0, Zenon DEF FlattenSeq, FlatTo, FlatStep
<1>. HIDE DEF f
<1>3. \A k \in 1 .. Len(s) : f[k] = FlatStep(f, s, k)
  BY <1>1, Zenon DEF FlatTo
<1>4. f[1] = s[1]
  <2>1. 1 \in 1 .. Len(s)
    BY <1>0
  <2>. QED
    BY <1>3, <2>1, Zenon DEF FlatStep
<1>5. ASSUME NEW k \in 2 .. Len(s) PROVE f[k] = f[k - 1] \o s[k]
  <2>1. k \in 1 .. Len(s) /\ k # 1
    BY <1>0
  <2>. QED
    BY <1>3, <2>1, Zenon DEF FlatStep
<1>. DEFINE S == {k \in Nat : k + 1 <= Len(s) => f[k + 1] \in Seq(T)}
<1>6. 0 \in S
  BY <1>0, <1>4
<1>7. ASSUME NEW k \in Nat, k \in S PROVE k + 1 \in S
  <2>. SUFFICES ASSUME (k + 1) + 1 <= Len(s) PROVE f[(k + 1) + 1] \in Seq(T)
    OBVIOUS
  <2>1. (k + 1) + 1 \in 2 .. Len(s) /\ ((k + 1) + 1) - 1 = k + 1 /\ k + 1 <= Len(s)
    BY <1>0
  <2>2. f[k + 1] \in Seq(T) /\ s[(k + 1) + 1] \in Seq(T)
    BY <1>0, <1>7, <2>1
  <2>3. f[(k + 1) + 1] = f[k + 1] \o s[(k + 1) + 1]
    BY <1>5, <2>1
  <2>. QED
    BY <2>2, <2>3, ConcatFacts
<1>8. Nat \subseteq S
  <2>. HIDE DEF S
  <2>. QED
    BY <1>6, <1>7, NatSetInduction
<1>9. ASSUME NEW k \in 1 .. Len(s) PROVE f[k] \in Seq(T)
  <2>1. k - 1 \in Nat /\ (k - 1) + 1 = k /\ k <= Len(s)
    BY <1>0
  <2>2. k - 1 \in S
    <3>. HIDE DEF S
    <3>. QED
      BY <1>8, <2>1
  <2>. QED
    BY <2>1, <2>2
<1>10. Flattens(f, s, T)
  BY <1>2, <1>4, <1>5, <1>9, Zenon DEF Flattens
<1>. QED
  BY <1>10

LEMMA FlattenType ==
    ASSUME NEW T, NEW s \in Seq(Seq(T))
    PROVE  FlattenSeq(s) \in Seq(T) /\ (s = <<>> => FlattenSeq(s) = <<>>)
<1>1. CASE s = <<>>
  BY <1>1 DEF FlattenSeq
<1>2. CASE s # <<>>
  <2>1. PICK f : Flattens(f, s, T)
    BY <1>2, FlatPick
  <2>2. Len(s) \in 1 .. Len(s)
    BY <1>2
  <2>. QED
    BY <1>2, <2>1, <2>2, Zenon DEF Flattens
<1>. QED
  BY <1>1, <1>2

\* Flattening s is s[1] and then flattening the rest.
Shifted(f, g, s, k) == f[k + 2] = s[1] \o g[k + 1]

LEMMA FlattenHead ==
    ASSUME NEW T, NEW s \in Seq(Seq(T)), s # <<>>
    PROVE  FlattenSeq(s) = Head(s) \o FlattenSeq(Tail(s))
<1>. DEFINE t == Tail(s)
<1>0. /\ Len(s) \in Nat /\ Len(s) >= 1 /\ Head(s) = s[1] /\ s[1] \in Seq(T)
      /\ t \in Seq(Seq(T)) /\ Len(t) = Len(s) - 1
      /\ \A k \in 1 .. Len(s) - 1 : t[k] = s[k + 1]
  OBVIOUS
<1>. HIDE DEF t
<1>1. PICK f : Flattens(f, s, T)
  BY FlatPick
<1>f. FlattenSeq(s) = f[Len(s)] /\ f[1] = s[1]
  BY <1>1 DEF Flattens
<1>2. CASE t = <<>>
  <2>1. Len(t) = 0
    BY <1>2
  <2>2. Len(s) = 1
    BY <1>0, <2>1
  <2>3. FlattenSeq(t) = <<>>
    BY <1>0, <1>2, FlattenType
  <2>4. s[1] \o <<>> = s[1]
    BY <1>0, ConcatEmpty
  <2>. QED
    BY <1>0, <1>f, <2>2, <2>3, <2>4 DEF t
<1>3. CASE t # <<>>
  <2>1. PICK g : Flattens(g, t, T)
    BY <1>0, <1>3, FlatPick
  <2>g. FlattenSeq(t) = g[Len(t)] /\ g[1] = t[1]
    BY <2>1 DEF Flattens
  <2>0. Len(t) \in Nat /\ Len(t) >= 1
    BY <1>0, <1>3
  <2>. DEFINE S == {k \in Nat : k + 1 <= Len(t) => Shifted(f, g, s, k)}
  <2>2. 0 \in S
    <3>1. 2 \in 2 .. Len(s) /\ 2 - 1 = 1 /\ 1 \in 1 .. Len(s) - 1
      BY <1>0, <2>0
    <3>2. f[2] = f[2 - 1] \o s[2]
      BY <1>1, <3>1, Zenon DEF Flattens
    <3>3. t[1] = s[1 + 1] /\ 1 + 1 = 2 /\ 0 + 2 = 2 /\ 0 + 1 = 1
      BY <1>0, <3>1
    <3>4. f[2] = s[1] \o g[1]
      BY <1>f, <2>g, <3>1, <3>2, <3>3, Zenon
    <3>5. Shifted(f, g, s, 0)
      BY <3>3, <3>4, Zenon DEF Shifted
    <3>. QED
      BY <3>5
  <2>3. ASSUME NEW k \in Nat, k \in S PROVE k + 1 \in S
    <3>. SUFFICES ASSUME (k + 1) + 1 <= Len(t) PROVE Shifted(f, g, s, k + 1)
      OBVIOUS
    <3>1. /\ k + 3 \in 2 .. Len(s) /\ (k + 3) - 1 = k + 2 /\ (k + 1) + 2 = k + 3
          /\ (k + 1) + 1 = k + 2 /\ k + 2 \in 2 .. Len(t) /\ (k + 2) - 1 = k + 1
          /\ k + 1 \in 1 .. Len(t) /\ k + 2 \in 1 .. Len(s) - 1 /\ (k + 2) + 1 = k + 3
          /\ k + 2 \in 1 .. Len(t) /\ k + 1 <= Len(t)
      BY <1>0, <2>0
    <3>2. f[k + 3] = f[k + 2] \o s[k + 3]
      BY <1>1, <3>1, Zenon DEF Flattens
    <3>s. Shifted(f, g, s, k)
      BY <2>3, <3>1
    <3>3. f[k + 2] = s[1] \o g[k + 1]
      BY <3>s, Zenon DEF Shifted
    <3>t. t[k + 2] = s[k + 3]
      BY <1>0, <3>1
    <3>4. g[k + 1] \in Seq(T) /\ t[k + 2] \in Seq(T)
      <4>1. g[k + 1] \in Seq(T)
        BY <2>1, <3>1, Zenon DEF Flattens
      <4>2. t[k + 2] \in Seq(T)
        BY <1>0, <3>1
      <4>. QED
        BY <4>1, <4>2
    <3>5. g[k + 2] = g[k + 1] \o t[k + 2]
      BY <2>1, <3>1, Zenon DEF Flattens
    <3>. DEFINE a == s[1]
                b == g[k + 1]
                c == t[k + 2]
    <3>6. a \in Seq(T) /\ b \in Seq(T) /\ c \in Seq(T)
      BY <1>0, <3>4
    <3>7. f[k + 3] = (a \o b) \o c /\ g[k + 2] = b \o c
      BY <3>2, <3>3, <3>5, <3>t, Zenon
    <3>. HIDE DEF a, b, c
    <3>8. (a \o b) \o c = a \o (b \o c)
      <4>1. ASSUME NEW p \in Seq(T), NEW q \in Seq(T), NEW r \in Seq(T)
            PROVE  (p \o q) \o r = p \o (q \o r)
        BY ConcatAssoc
      <4>. QED
        BY <3>6, <4>1, Zenon
    <3>9. f[k + 3] = a \o g[k + 2]
      BY <3>7, <3>8, Zenon
    <3>. QED
      BY <3>1, <3>9, Zenon DEF a, Shifted
  <2>4. Nat \subseteq S
    <3>. HIDE DEF S
    <3>. QED
      BY <2>2, <2>3, NatSetInduction
  <2>5. Len(t) - 1 \in S
    <3>1. Len(t) - 1 \in Nat
      BY <2>0
    <3>. HIDE DEF S
    <3>. QED
      BY <2>4, <3>1
  <2>6. f[Len(s)] = s[1] \o g[Len(t)]
    <3>1. (Len(t) - 1) + 1 = Len(t) /\ (Len(t) - 1) + 2 = Len(s) /\ Len(t) <= Len(t)
      BY <1>0, <2>0
    <3>2. Shifted(f, g, s, Len(t) - 1)
      BY <2>5, <3>1
    <3>. QED
      BY <3>1, <3>2, Zenon DEF Shifted
  <2>. QED
    BY <1>0, <1>f, <2>g, <2>6, Zenon DEF t
<1>. QED
  BY <1>2, <1>3

LEMMA FlattenAppend ==
    ASSUME NEW T, NEW s \in Seq(Seq(T)), NEW x \in Seq(T)
    PROVE  FlattenSeq(Append(s, x)) = FlattenSeq(s) \o x
<1>. DEFINE t == Append(s, x)
<1>0. /\ Len(s) \in Nat /\ t \in Seq(Seq(T)) /\ Len(t) = Len(s) + 1 /\ t # <<>>
      /\ t[Len(s) + 1] = x /\ \A k \in 1 .. Len(s) : t[k] = s[k]
  <2>. DEFINE U == Seq(T)
  <2>1. s \in Seq(U) /\ x \in U
    OBVIOUS
  <2>. HIDE DEF U
  <2>2. /\ Len(s) \in Nat /\ t \in Seq(U) /\ Len(t) = Len(s) + 1 /\ t # <<>>
        /\ t[Len(s) + 1] = x /\ \A k \in 1 .. Len(s) : t[k] = s[k]
    BY <2>1
  <2>. QED
    BY <2>2 DEF U
<1>. HIDE DEF t
<1>1. PICK f : Flattens(f, t, T)
  BY <1>0, FlatPick
<1>f. FlattenSeq(t) = f[Len(t)] /\ f[1] = t[1]
  BY <1>1 DEF Flattens
<1>2. CASE s = <<>>
  <2>1. Len(s) = 0
    BY <1>2
  <2>2. FlattenSeq(s) = <<>>
    BY <1>2, FlattenType
  <2>3. <<>> \o x = x
    BY ConcatEmpty
  <2>4. Len(t) = 1 /\ t[1] = x
    BY <1>0, <2>1
  <2>. QED
    BY <1>f, <2>2, <2>3, <2>4 DEF t
<1>3. CASE s # <<>>
  <2>0. Len(s) >= 1
    BY <1>0, <1>3
  <2>1. PICK g : Flattens(g, s, T)
    BY <1>3, FlatPick
  <2>g. FlattenSeq(s) = g[Len(s)] /\ g[1] = s[1]
    BY <2>1 DEF Flattens
  <2>. DEFINE S == {k \in Nat : k + 1 <= Len(s) => f[k + 1] = g[k + 1]}
  <2>2. 0 \in S
    BY <1>0, <1>f, <2>0, <2>g
  <2>3. ASSUME NEW k \in Nat, k \in S PROVE k + 1 \in S
    <3>. SUFFICES ASSUME (k + 1) + 1 <= Len(s) PROVE f[(k + 1) + 1] = g[(k + 1) + 1]
      OBVIOUS
    <3>1. /\ (k + 1) + 1 = k + 2 /\ k + 2 \in 2 .. Len(s) /\ (k + 2) - 1 = k + 1
          /\ k + 2 \in 2 .. Len(t) /\ k + 2 \in 1 .. Len(s) /\ k + 1 <= Len(s)
      BY <1>0
    <3>2. f[k + 2] = f[k + 1] \o t[k + 2]
      BY <1>1, <3>1, Zenon DEF Flattens
    <3>3. g[k + 2] = g[k + 1] \o s[k + 2]
      BY <2>1, <3>1, Zenon DEF Flattens
    <3>4. t[k + 2] = s[k + 2] /\ f[k + 1] = g[k + 1]
      BY <1>0, <2>3, <3>1
    <3>. QED
      BY <3>1, <3>2, <3>3, <3>4, Zenon
  <2>4. Nat \subseteq S
    <3>. HIDE DEF S
    <3>. QED
      BY <2>2, <2>3, NatSetInduction
  <2>5. Len(s) - 1 \in Nat /\ (Len(s) - 1) + 1 = Len(s) /\ Len(s) <= Len(s)
    BY <1>0, <2>0
  <2>s. Len(s) - 1 \in S
    <3>. HIDE DEF S
    <3>. QED
      BY <2>4, <2>5
  <2>6. f[Len(s)] = g[Len(s)]
    BY <2>5, <2>s
  <2>7. Len(t) \in 2 .. Len(t) /\ Len(t) - 1 = Len(s)
    BY <1>0, <2>0
  <2>8. f[Len(t)] = f[Len(t) - 1] \o t[Len(t)]
    BY <1>1, <2>7, Zenon DEF Flattens
  <2>9. t[Len(t)] = x
    BY <1>0
  <2>. QED
    BY <1>f, <2>g, <2>6, <2>7, <2>8, <2>9, Zenon DEF t
<1>. QED
  BY <1>2, <1>3

\* u is s and then t.
Joined(u, s, t) == /\ Len(u) = Len(s) + Len(t)
                   /\ \A k \in 1 .. Len(s) : u[k] = s[k]
                   /\ \A k \in 1 .. Len(t) : u[Len(s) + k] = t[k]

LEMMA ConcatJoined ==
    ASSUME NEW T, NEW s \in Seq(T), NEW t \in Seq(T), NEW u, u = s \o t
    PROVE  u \in Seq(T) /\ Joined(u, s, t)
<1>. DEFINE v == s \o t
<1>1. v \in Seq(T) /\ Len(v) = Len(s) + Len(t)
  BY ConcatFacts
<1>2. \A k \in 1 .. Len(s) : v[k] = s[k]
  BY ConcatFacts
<1>3. \A k \in 1 .. Len(t) : v[Len(s) + k] = t[k]
  BY ConcatFacts
<1>4. u = v
  OBVIOUS
<1>. HIDE DEF v
<1>5. Joined(v, s, t)
  BY <1>1, <1>2, <1>3, Zenon DEF Joined
<1>. QED
  BY <1>1, <1>4, <1>5, Zenon
=============================================================================
