----------------------------- MODULE TextProofs -----------------------------
(***************************************************************************)
(* The functions on text, for every input: globMatch decides the language  *)
(* of the pattern, rewritePlaceholders numbers the placeholders.           *)
(***************************************************************************)
EXTENDS GlobMatch, Placeholders, DataLemmas, FiniteSetTheorems

-----------------------------------------------------------------------------
(* What is left to match: the positions of p after the first u, and the    *)
(* characters of s after the first w.                                      *)

Fitting(p, s, u, cut) ==
    \A k \in u + 1 .. Len(p) : cut[k] <= cut[k + 1] /\ Fits(p, k, s, cut[k], cut[k + 1])
MatchesFrom(p, s, u, w) ==
    \E cut \in [u + 1 .. Len(p) + 1 -> 0 .. Len(s)] :
      cut[u + 1] = w /\ cut[Len(p) + 1] = Len(s) /\ Fitting(p, s, u, cut)

LEMMA MatchesAll ==
    ASSUME NEW p, NEW s
    PROVE  Matches(p, s) <=> MatchesFrom(p, s, 0, 0)
BY DEF Matches, MatchesFrom, Fitting

LEMMA MatchesNothing ==
    ASSUME NEW p \in Seq(STRING), NEW s \in Seq(STRING), NEW w \in 0 .. Len(s)
    PROVE  MatchesFrom(p, s, Len(p), w) <=> w = Len(s)
<1>1. ASSUME w = Len(s) PROVE MatchesFrom(p, s, Len(p), w)
  <2>. DEFINE cut == [k \in Len(p) + 1 .. Len(p) + 1 |-> Len(s)]
  <2>1. cut \in [Len(p) + 1 .. Len(p) + 1 -> 0 .. Len(s)] /\ cut[Len(p) + 1] = Len(s)
    OBVIOUS
  <2>2. Fitting(p, s, Len(p), cut)
    <3>1. Len(p) + 1 .. Len(p) = {}
      OBVIOUS
    <3>. QED
      BY <3>1 DEF Fitting
  <2>. HIDE DEF cut
  <2>. QED
    BY <1>1, <2>1, <2>2 DEF MatchesFrom
<1>. QED
  BY <1>1 DEF MatchesFrom

\* The next position takes the characters up to y.
LEMMA MatchesNext ==
    ASSUME NEW p \in Seq(STRING), NEW s \in Seq(STRING), NEW u \in 0 .. Len(p) - 1,
           NEW w \in 0 .. Len(s)
    PROVE  MatchesFrom(p, s, u, w) <=>
             \E y \in w .. Len(s) : Fits(p, u + 1, s, w, y) /\ MatchesFrom(p, s, u + 1, y)
<1>0. Len(p) \in Nat /\ Len(s) \in Nat /\ u + 1 \in 1 .. Len(p)
  OBVIOUS
<1>1. ASSUME MatchesFrom(p, s, u, w)
      PROVE  \E y \in w .. Len(s) : Fits(p, u + 1, s, w, y) /\ MatchesFrom(p, s, u + 1, y)
  <2>1. PICK cut \in [u + 1 .. Len(p) + 1 -> 0 .. Len(s)] :
             cut[u + 1] = w /\ cut[Len(p) + 1] = Len(s) /\ Fitting(p, s, u, cut)
    BY <1>1 DEF MatchesFrom
  <2>. DEFINE rest == [k \in u + 2 .. Len(p) + 1 |-> cut[k]]
              y == cut[u + 2]
  <2>2. y \in w .. Len(s) /\ Fits(p, u + 1, s, w, y)
    <3>1. cut[u + 1] <= cut[(u + 1) + 1] /\ Fits(p, u + 1, s, cut[u + 1], cut[(u + 1) + 1])
      BY <1>0, <2>1 DEF Fitting
    <3>2. (u + 1) + 1 = u + 2 /\ y \in 0 .. Len(s)
      BY <1>0, <2>1
    <3>. QED
      BY <2>1, <3>1, <3>2
  <2>3. rest \in [(u + 1) + 1 .. Len(p) + 1 -> 0 .. Len(s)]
    BY <1>0, <2>1
  <2>4. rest[(u + 1) + 1] = y /\ rest[Len(p) + 1] = Len(s)
    BY <1>0, <2>1
  <2>5. Fitting(p, s, u + 1, rest)
    <3>1. ASSUME NEW k \in (u + 1) + 1 .. Len(p)
          PROVE  rest[k] <= rest[k + 1] /\ Fits(p, k, s, rest[k], rest[k + 1])
      <4>1. k \in u + 1 .. Len(p) /\ rest[k] = cut[k] /\ rest[k + 1] = cut[k + 1]
        BY <1>0, <3>1
      <4>. QED
        BY <2>1, <4>1 DEF Fitting
    <3>. QED
      BY <3>1 DEF Fitting
  <2>. HIDE DEF rest, y
  <2>6. MatchesFrom(p, s, u + 1, y)
    BY <2>3, <2>4, <2>5 DEF MatchesFrom
  <2>. QED
    BY <2>2, <2>6
<1>2. ASSUME NEW y \in w .. Len(s), Fits(p, u + 1, s, w, y), MatchesFrom(p, s, u + 1, y)
      PROVE  MatchesFrom(p, s, u, w)
  <2>1. PICK rest \in [(u + 1) + 1 .. Len(p) + 1 -> 0 .. Len(s)] :
             rest[(u + 1) + 1] = y /\ rest[Len(p) + 1] = Len(s) /\ Fitting(p, s, u + 1, rest)
    BY <1>2 DEF MatchesFrom
  <2>. DEFINE cut == [k \in u + 1 .. Len(p) + 1 |-> IF k = u + 1 THEN w ELSE rest[k]]
  <2>2. cut \in [u + 1 .. Len(p) + 1 -> 0 .. Len(s)]
    BY <1>0, <2>1
  <2>3. cut[u + 1] = w /\ cut[Len(p) + 1] = Len(s)
    BY <1>0, <2>1
  <2>4. ASSUME NEW k \in u + 1 .. Len(p)
        PROVE  cut[k] <= cut[k + 1] /\ Fits(p, k, s, cut[k], cut[k + 1])
    <3>1. CASE k = u + 1
      <4>1. cut[k] = w /\ cut[k + 1] = y
        BY <1>0, <2>1, <3>1
      <4>. QED
        BY <1>2, <3>1, <4>1
    <3>2. CASE k # u + 1
      <4>1. k \in (u + 1) + 1 .. Len(p) /\ cut[k] = rest[k] /\ cut[k + 1] = rest[k + 1]
        BY <1>0, <3>2, <2>4
      <4>. QED
        BY <2>1, <4>1 DEF Fitting
    <3>. QED
      BY <3>1, <3>2
  <2>. HIDE DEF cut
  <2>5. Fitting(p, s, u, cut)
    BY <2>4 DEF Fitting
  <2>. QED
    BY <2>2, <2>3, <2>5 DEF MatchesFrom
<1>. QED
  BY <1>1, <1>2

\* Positions inside a class take no characters.
LEMMA MatchesClass ==
    ASSUME NEW p \in Seq(STRING), NEW s \in Seq(STRING), NEW u \in 0 .. Len(p),
           NEW e \in u .. Len(p), NEW w \in 0 .. Len(s),
           \A k \in u + 1 .. e : InClass(p, k)
    PROVE  MatchesFrom(p, s, u, w) <=> MatchesFrom(p, s, e, w)
<1>0. Len(p) \in Nat /\ Len(s) \in Nat
  OBVIOUS
<1>. DEFINE Same == {j \in Nat : u + j <= e => (MatchesFrom(p, s, u, w) <=> MatchesFrom(p, s, u + j, w))}
<1>1. 0 \in Same
  OBVIOUS
<1>2. ASSUME NEW j \in Nat, j \in Same PROVE j + 1 \in Same
  <2>. SUFFICES ASSUME u + (j + 1) <= e
                PROVE  MatchesFrom(p, s, u, w) <=> MatchesFrom(p, s, u + (j + 1), w)
    OBVIOUS
  <2>. DEFINE v == u + j
  <2>1. v \in 0 .. Len(p) - 1 /\ InClass(p, v + 1) /\ v + 1 = u + (j + 1)
    OBVIOUS
  <2>2. MatchesFrom(p, s, u, w) <=> MatchesFrom(p, s, v, w)
    BY <1>2
  <2>. HIDE DEF v
  <2>3. MatchesFrom(p, s, v, w) <=>
          \E y \in w .. Len(s) : Fits(p, v + 1, s, w, y) /\ MatchesFrom(p, s, v + 1, y)
    BY <2>1, MatchesNext
  <2>4. \A y : Fits(p, v + 1, s, w, y) <=> w = y
    BY <2>1 DEF Fits
  <2>5. MatchesFrom(p, s, v, w) <=> MatchesFrom(p, s, v + 1, w)
    BY <1>0, <2>3, <2>4
  <2>. QED
    BY <2>1, <2>2, <2>5
<1>3. Nat \subseteq Same
  <2>. HIDE DEF Same
  <2>. QED
    BY <1>1, <1>2, NatSetInduction
<1>4. e - u \in Nat /\ u + (e - u) = e
  BY <1>0
<1>5. e - u \in Same
  BY <1>3, <1>4
<1>. QED
  BY <1>4, <1>5

-----------------------------------------------------------------------------
(* The items of a pattern.                                                 *)

LEMMA Part ==
    ASSUME NEW s \in Seq(STRING), NEW x \in 0 .. Len(s), NEW y \in x .. Len(s)
    PROVE  /\ Len(SubSeq(s, x + 1, y)) = 1 <=> y = x + 1
           /\ y = x + 1 => SubSeq(s, x + 1, y) = <<s[x + 1]>>
<1>1. Len(SubSeq(s, x + 1, y)) = y - x /\ SubSeq(s, x + 1, y) \in Seq(STRING)
  OBVIOUS
<1>2. y = x + 1 => SubSeq(s, x + 1, y)[1] = s[x + 1]
  OBVIOUS
<1>3. x \in Int /\ y \in Int
  OBVIOUS
<1>4. Len(SubSeq(s, x + 1, y)) = 1 <=> y = x + 1
  BY <1>1, <1>3
<1>. DEFINE q == SubSeq(s, x + 1, y)
<1>5. ASSUME y = x + 1 PROVE q = <<s[x + 1]>>
  <2>1. q \in Seq(STRING) /\ Len(q) = 1 /\ q[1] = s[x + 1]
    BY <1>1, <1>2, <1>3, <1>5
  <2>. HIDE DEF q
  <2>. QED
    BY <2>1
<1>. QED
  BY <1>4, <1>5

LEMMA StarItem ==
    ASSUME NEW p \in Seq(STRING), NEW s \in Seq(STRING), NEW u \in 0 .. Len(p) - 1,
           NEW w \in 0 .. Len(s), ~InClass(p, u + 1), p[u + 1] = "*"
    PROVE  MatchesFrom(p, s, u, w) <=> \E y \in w .. Len(s) : MatchesFrom(p, s, u + 1, y)
<1>1. \A y : Fits(p, u + 1, s, w, y)
  BY DEF Fits, Stands
<1>. QED
  BY <1>1, MatchesNext

\* An item that stands for one character of C.
LEMMA OneItem ==
    ASSUME NEW p \in Seq(STRING), NEW s \in Seq(STRING), NEW u \in 0 .. Len(p) - 1,
           NEW w \in 0 .. Len(s), NEW C,
           \A y \in w .. Len(s) : Fits(p, u + 1, s, w, y) <=> y = w + 1 /\ s[w + 1] \in C
    PROVE  MatchesFrom(p, s, u, w) <=>
             w < Len(s) /\ s[w + 1] \in C /\ MatchesFrom(p, s, u + 1, w + 1)
<1>1. w \in Nat /\ Len(s) \in Nat /\ \A y \in w .. Len(s) : y = w + 1 => w < Len(s)
  OBVIOUS
<1>2. w < Len(s) => w + 1 \in w .. Len(s)
  BY <1>1
<1>3. MatchesFrom(p, s, u, w) <=>
        \E y \in w .. Len(s) : Fits(p, u + 1, s, w, y) /\ MatchesFrom(p, s, u + 1, y)
  BY MatchesNext
<1>. QED
  BY <1>1, <1>2, <1>3

LEMMA AnyItem ==
    ASSUME NEW p \in Seq(STRING), NEW s \in Seq(STRING), NEW u \in 0 .. Len(p) - 1,
           NEW w \in 0 .. Len(s), ~InClass(p, u + 1), p[u + 1] = "?"
    PROVE  MatchesFrom(p, s, u, w) <=> w < Len(s) /\ MatchesFrom(p, s, u + 1, w + 1)
<1>. DEFINE C == {s[w + 1]}
<1>1. \A y \in w .. Len(s) : Fits(p, u + 1, s, w, y) <=> y = w + 1 /\ s[w + 1] \in C
  BY Part DEF Fits, Stands
<1>2. s[w + 1] \in C
  OBVIOUS
<1>. HIDE DEF C
<1>3. MatchesFrom(p, s, u, w) <=>
        w < Len(s) /\ s[w + 1] \in C /\ MatchesFrom(p, s, u + 1, w + 1)
  BY <1>1, OneItem
<1>. QED
  BY <1>2, <1>3

LEMMA LiteralItem ==
    ASSUME NEW p \in Seq(STRING), NEW s \in Seq(STRING), NEW u \in 0 .. Len(p) - 1,
           NEW w \in 0 .. Len(s), ~InClass(p, u + 1), p[u + 1] \notin {"*", "?", "["}
    PROVE  MatchesFrom(p, s, u, w) <=>
             w < Len(s) /\ s[w + 1] = p[u + 1] /\ MatchesFrom(p, s, u + 1, w + 1)
<1>. DEFINE C == {p[u + 1]}
<1>1. ASSUME NEW y \in w .. Len(s)
      PROVE  Fits(p, u + 1, s, w, y) <=> y = w + 1 /\ s[w + 1] \in C
  <2>. DEFINE part == SubSeq(s, w + 1, y)
  <2>1. Fits(p, u + 1, s, w, y) <=> part = <<p[u + 1]>>
    BY DEF Fits, Stands
  <2>2. Len(part) = 1 <=> y = w + 1
    BY Part
  <2>3. y = w + 1 => part = <<s[w + 1]>>
    BY Part
  <2>. HIDE DEF part
  <2>. QED
    BY <2>1, <2>2, <2>3
<1>2. s[w + 1] \in C <=> s[w + 1] = p[u + 1]
  OBVIOUS
<1>. HIDE DEF C
<1>3. MatchesFrom(p, s, u, w) <=>
        w < Len(s) /\ s[w + 1] \in C /\ MatchesFrom(p, s, u + 1, w + 1)
  BY <1>1, OneItem
<1>. QED
  BY <1>2, <1>3

\* The ']' at e ends the class that begins at u + 1.
Closes(p, u, e) == p[u + 1] = "[" /\ p[e] = "]" /\ \A k \in u + 2 .. e - 1 : p[k] # "]"

LEMMA ClassItem ==
    ASSUME NEW p \in Seq(STRING), NEW s \in Seq(STRING), NEW u \in 0 .. Len(p) - 1,
           NEW w \in 0 .. Len(s), ~InClass(p, u + 1), NEW e \in u + 2 .. Len(p), Closes(p, u, e)
    PROVE  MatchesFrom(p, s, u, w) <=>
             /\ w < Len(s) /\ s[w + 1] \in {p[k] : k \in u + 2 .. e - 1}
             /\ MatchesFrom(p, s, e, w + 1)
<1>. DEFINE C == {p[k] : k \in u + 2 .. e - 1}
<1>0. Len(p) \in Nat /\ Len(s) \in Nat /\ (u + 1) + 1 = u + 2
  OBVIOUS
<1>1. \A c : c \in C <=> \E j \in u + 2 .. Len(p) : p[j] = c /\ \A k \in u + 2 .. j : p[k] # "]"
  <2>1. ASSUME NEW j \in u + 2 .. Len(p), \A k \in u + 2 .. j : p[k] # "]"
        PROVE  j \in u + 2 .. e - 1
    BY <1>0, <2>1 DEF Closes
  <2>2. ASSUME NEW j \in u + 2 .. e - 1
        PROVE  j \in u + 2 .. Len(p) /\ \A k \in u + 2 .. j : p[k] # "]"
    BY <1>0, <2>2 DEF Closes
  <2>. QED
    BY <2>1, <2>2
<1>2. ASSUME NEW y \in w .. Len(s)
      PROVE  Fits(p, u + 1, s, w, y) <=> y = w + 1 /\ s[w + 1] \in C
  <2>. DEFINE part == SubSeq(s, w + 1, y)
  <2>1. Fits(p, u + 1, s, w, y) <=>
          Len(part) = 1 /\ \E j \in u + 2 .. Len(p) :
                             p[j] = part[1] /\ \A k \in u + 2 .. j : p[k] # "]"
    BY <1>0 DEF Fits, Stands, Closes
  <2>2. Len(part) = 1 <=> y = w + 1
    BY Part
  <2>3. y = w + 1 => part[1] = s[w + 1]
    BY Part
  <2>. HIDE DEF part, C
  <2>. QED
    BY <1>1, <2>1, <2>2, <2>3
<1>3. MatchesFrom(p, s, u, w) <=>
        w < Len(s) /\ s[w + 1] \in C /\ MatchesFrom(p, s, u + 1, w + 1)
  <2>. HIDE DEF C
  <2>. QED
    BY <1>2, OneItem
<1>4. \A k \in (u + 1) + 1 .. e : InClass(p, k)
  BY <1>0 DEF InClass, Closes
<1>5. u + 1 \in 0 .. Len(p) /\ e \in u + 1 .. Len(p) /\ (w < Len(s) => w + 1 \in 0 .. Len(s))
  BY <1>0
<1>6. w < Len(s) => (MatchesFrom(p, s, u + 1, w + 1) <=> MatchesFrom(p, s, e, w + 1))
  BY <1>4, <1>5, MatchesClass
<1>. QED
  BY <1>3, <1>6

\* Where an item begins, the next one begins behind it.
LEMMA NextItem ==
    ASSUME NEW p \in Seq(STRING), NEW u \in 0 .. Len(p) - 1, ~InClass(p, u + 1),
           p[u + 1] # "["
    PROVE  ~InClass(p, (u + 1) + 1)
BY DEF InClass

LEMMA NextAfterClass ==
    ASSUME NEW p \in Seq(STRING), NEW e \in 1 .. Len(p), p[e] = "]"
    PROVE  ~InClass(p, e + 1)
BY DEF InClass

-----------------------------------------------------------------------------
(* The search.  What is left of an argument is a suffix of it.             *)

SuffixOf(t, s) == /\ t \in Seq(STRING) /\ Len(t) <= Len(s)
                  /\ \A k \in 1 .. Len(t) : t[k] = s[Len(s) - Len(t) + k]
Pos(t, s)      == Len(s) - Len(t)

LEMMA SuffixPos ==
    ASSUME NEW s \in Seq(STRING), NEW t, SuffixOf(t, s)
    PROVE  /\ Pos(t, s) \in 0 .. Len(s) /\ Len(t) \in Nat /\ Len(s) \in Nat
           /\ t = <<>> <=> Pos(t, s) = Len(s)
BY DEF SuffixOf, Pos

LEMMA SuffixDrop ==
    ASSUME NEW s \in Seq(STRING), NEW t, SuffixOf(t, s), NEW k \in 0 .. Len(t)
    PROVE  SuffixOf(Drop(t, k), s) /\ Pos(Drop(t, k), s) = Pos(t, s) + k
<1>1. t \in Seq(STRING) /\ Len(t) \in Nat /\ Len(s) \in Nat /\ Len(t) <= Len(s) /\ k \in Nat
  BY DEF SuffixOf
<1>2. /\ Drop(t, k) \in Seq(STRING) /\ Len(Drop(t, k)) = Len(t) - k
      /\ \A j \in 1 .. Len(t) - k : Drop(t, k)[j] = t[k + j]
  BY <1>1 DEF Drop
<1>. DEFINE r == Drop(t, k)
<1>. HIDE DEF r
<1>3. r \in Seq(STRING) /\ Len(r) = Len(t) - k /\ \A j \in 1 .. Len(t) - k : r[j] = t[k + j]
  BY <1>2 DEF r
<1>4. ASSUME NEW j \in 1 .. Len(r) PROVE r[j] = s[Len(s) - Len(r) + j]
  <2>1. k + j \in 1 .. Len(t) /\ Len(s) - Len(t) + (k + j) = Len(s) - Len(r) + j
    BY <1>1, <1>3
  <2>. QED
    BY <1>3, <2>1 DEF SuffixOf
<1>5. Len(r) <= Len(s) /\ Len(s) - Len(r) = Len(s) - Len(t) + k
  BY <1>1, <1>3
<1>6. SuffixOf(r, s) /\ Pos(r, s) = Pos(t, s) + k
  BY <1>3, <1>4, <1>5 DEF SuffixOf, Pos
<1>. QED
  BY <1>6 DEF r

LEMMA SuffixTail ==
    ASSUME NEW s \in Seq(STRING), NEW t, SuffixOf(t, s), t # <<>>
    PROVE  /\ SuffixOf(Tail(t), s) /\ Pos(Tail(t), s) = Pos(t, s) + 1
           /\ Pos(t, s) \in 0 .. Len(s) - 1 /\ Head(t) = s[Pos(t, s) + 1]
           /\ Drop(t, 1) = Tail(t) /\ Len(t) >= 1
<1>1. t \in Seq(STRING) /\ Len(t) \in Nat /\ Len(s) \in Nat /\ Len(t) <= Len(s) /\ Len(t) >= 1
  BY DEF SuffixOf
<1>2. Drop(t, 1) = Tail(t)
  BY <1>1 DEF Drop
<1>3. SuffixOf(Tail(t), s) /\ Pos(Tail(t), s) = Pos(t, s) + 1
  <2>1. 1 \in 0 .. Len(t)
    BY <1>1
  <2>2. SuffixOf(Drop(t, 1), s) /\ Pos(Drop(t, 1), s) = Pos(t, s) + 1
    BY <2>1, SuffixDrop
  <2>. QED
    BY <1>2, <2>2
<1>4. Head(t) = t[1] /\ t[1] = s[Len(s) - Len(t) + 1]
  BY <1>1 DEF SuffixOf
<1>. QED
  BY <1>1, <1>2, <1>3, <1>4 DEF Pos

\* The rest of the pattern matches the rest of the string, or a later suffix of
\* it than the one a '*' tries.
Left(p, s)  == MatchesFrom(pattern, key, Pos(p, pattern), Pos(s, key))
Later(star) == \E w \in Pos(star.str, key) + 1 .. Len(key) :
                 MatchesFrom(pattern, key, Pos(star.pat, pattern), w)
Item(p)     == ~InClass(pattern, Pos(p, pattern) + 1)

Frame == [pat : Seq(STRING), str : Seq(STRING)]
Shape == /\ pattern \in Seq(STRING) /\ key \in Seq(STRING)
         /\ SuffixOf(pat, pattern) /\ SuffixOf(str, key)
         /\ stars \in Seq(Frame)
         /\ \A k \in 1 .. Len(stars) : /\ SuffixOf(stars[k].pat, pattern)
                                       /\ SuffixOf(stars[k].str, key)

\* The inductive invariant: the pattern matches exactly if the search, from where
\* it is, can find a match.
Search == /\ Item(pat) /\ \A k \in 1 .. Len(stars) : Item(stars[k].pat)
          /\ ans = NONE => (Matches(pattern, key) <=>
                              Left(pat, str) \/ \E k \in 1 .. Len(stars) : Later(stars[k]))
          /\ ans = YES => Matches(pattern, key)
          /\ ans = NO => ~Matches(pattern, key)
          /\ ans \in {NONE, YES, NO}
GlobInv == Shape /\ (WellFormed(pattern) => Search)

\* The outcomes of a turn of the loop.
LEMMA MatchedInv ==
    ASSUME GlobInv, Running, Matched, WellFormed(pattern) => Left(pat, str)
    PROVE  GlobInv'
<1>1. UNCHANGED <<pattern, key, pat, str, stars>> /\ ans' = YES
  BY DEF Matched
<1>2. Shape'
  BY <1>1 DEF GlobInv, Shape
<1>3. YES # NONE /\ YES # NO
  BY DEF YES, NONE, NO
<1>4. WellFormed(pattern) => Search'
  BY <1>1, <1>3 DEF GlobInv, Search, Running, Item
<1>. QED
  BY <1>1, <1>2, <1>4 DEF GlobInv

LEMMA AdvanceInv ==
    ASSUME GlobInv, Running, NEW k \in 1 .. Len(pat), str # <<>>, Advance(k),
           WellFormed(pattern) =>
             /\ Left(pat, str) <=> Left(Drop(pat, k), Tail(str))
             /\ Item(Drop(pat, k))
    PROVE  GlobInv'
<1>1. UNCHANGED <<pattern, key, stars, ans>> /\ pat' = Drop(pat, k) /\ str' = Tail(str)
  BY DEF Advance
<1>2. SuffixOf(Drop(pat, k), pattern) /\ SuffixOf(Tail(str), key)
  <2>1. k \in 0 .. Len(pat)
    OBVIOUS
  <2>. QED
    BY <2>1, SuffixDrop, SuffixTail DEF GlobInv, Shape
<1>3. Shape'
  BY <1>1, <1>2 DEF GlobInv, Shape
<1>4. WellFormed(pattern) => Search'
  BY <1>1 DEF GlobInv, Search, Running, Item, Left, Later
<1>. QED
  BY <1>1, <1>3, <1>4 DEF GlobInv

\* An entry that has no suffix left finds nothing more; one that has goes on with
\* the next.
LEMMA LaterFacts ==
    ASSUME Shape, NEW k \in 1 .. Len(stars)
    PROVE  /\ stars[k].str = <<>> => ~Later(stars[k])
           /\ stars[k].str # <<>> =>
                LET next == [stars[k] EXCEPT !.str = Tail(@)]
                IN  /\ next \in Frame /\ next.pat = stars[k].pat
                    /\ next.str = Tail(stars[k].str) /\ SuffixOf(next.str, key)
                    /\ Later(stars[k]) <=> Left(next.pat, next.str) \/ Later(next)
<1>. DEFINE e == stars[k]
            next == [e EXCEPT !.str = Tail(@)]
<1>1. e \in Frame /\ SuffixOf(e.pat, pattern) /\ SuffixOf(e.str, key) /\ key \in Seq(STRING)
  BY DEF Shape
<1>2. Pos(e.str, key) \in 0 .. Len(key) /\ (e.str = <<>> <=> Pos(e.str, key) = Len(key))
  BY <1>1, SuffixPos
<1>3. e.str = <<>> => ~Later(e)
  BY <1>2 DEF Later
<1>4. ASSUME e.str # <<>>
      PROVE  /\ next \in Frame /\ next.pat = e.pat
             /\ next.str = Tail(e.str) /\ SuffixOf(next.str, key)
             /\ Later(e) <=> Left(next.pat, next.str) \/ Later(next)
  <2>1. SuffixOf(Tail(e.str), key) /\ Pos(Tail(e.str), key) = Pos(e.str, key) + 1
    BY <1>1, <1>4, SuffixTail
  <2>2. Tail(e.str) \in Seq(STRING)
    BY <2>1 DEF SuffixOf
  <2>3. next \in Frame /\ next.pat = e.pat /\ next.str = Tail(e.str)
    BY <1>1, <2>2 DEF Frame
  <2>. DEFINE x == Pos(e.str, key)
              M(w) == MatchesFrom(pattern, key, Pos(e.pat, pattern), w)
  <2>4. x \in Nat /\ x + 1 <= Len(key) /\ Len(key) \in Nat
    BY <1>1, <1>2, <1>4, SuffixPos
  <2>5. Left(next.pat, next.str) <=> M(x + 1)
    BY <2>1, <2>3 DEF Left
  <2>6. Later(next) <=> \E w \in (x + 1) + 1 .. Len(key) : M(w)
    BY <2>1, <2>3 DEF Later
  <2>7. Later(e) <=> \E w \in x + 1 .. Len(key) : M(w)
    BY DEF Later
  <2>. HIDE DEF x, M, next
  <2>8. \A w : w \in x + 1 .. Len(key) <=> w = x + 1 \/ w \in (x + 1) + 1 .. Len(key)
    BY <2>4
  <2>. QED
    BY <2>1, <2>3, <2>5, <2>6, <2>7, <2>8
<1>. QED
  BY <1>3, <1>4

LEMMA MismatchInv ==
    ASSUME GlobInv, Running, Mismatch, WellFormed(pattern) => ~Left(pat, str)
    PROVE  GlobInv'
<1>. DEFINE open == {k \in DOMAIN stars : stars[k].str # <<>>}
            m    == Max(open)
            next == [stars[m] EXCEPT !.str = Tail(@)]
<1>0. Shape /\ DOMAIN stars = 1 .. Len(stars) /\ Len(stars) \in Nat /\ stars \in Seq(Frame)
  BY DEF GlobInv, Shape
<1>1. CASE open = {}
  <2>1. ans' = NO /\ UNCHANGED <<pattern, key, pat, str, stars>>
    BY <1>1, Zenon DEF Mismatch
  <2>2. Shape'
    BY <2>1, <1>0 DEF Shape
  <2>3. ASSUME NEW k \in 1 .. Len(stars) PROVE ~Later(stars[k])
    <3>1. stars[k].str = <<>>
      BY <1>0, <1>1
    <3>. QED
      BY <1>0, <3>1, LaterFacts
  <2>4. NO # NONE /\ NO # YES
    BY DEF YES, NONE, NO
  <2>5. WellFormed(pattern) => ~Matches(pattern, key)
    BY <2>3 DEF GlobInv, Search, Running
  <2>6. WellFormed(pattern) => Search'
    BY <2>1, <2>4, <2>5 DEF GlobInv, Search, Item
  <2>. QED
    BY <2>1, <2>2, <2>6 DEF GlobInv
<1>2. CASE open # {}
  <2>1. /\ str' = Tail(stars[m].str) /\ pat' = stars[m].pat
        /\ stars' = Append(SubSeq(stars, 1, m - 1), next)
        /\ UNCHANGED <<pattern, key, ans>>
    BY <1>2, Zenon DEF Mismatch
  <2>2. m \in open /\ \A k \in open : m >= k
    <3>1. open \subseteq 0 .. Len(stars)
      BY <1>0
    <3>. HIDE DEF open
    <3>. QED
      BY <1>0, <1>2, <3>1, MaxFacts
  <2>3. m \in 1 .. Len(stars) /\ stars[m].str # <<>>
    BY <1>0, <2>2
  <2>. HIDE DEF m
  <2>4. /\ next \in Frame /\ next.pat = stars[m].pat
        /\ next.str = Tail(stars[m].str) /\ SuffixOf(next.str, key)
        /\ Later(stars[m]) <=> Left(next.pat, next.str) \/ Later(next)
    BY <1>0, <2>3, LaterFacts
  <2>5. ASSUME NEW k \in 1 .. Len(stars), k > m PROVE ~Later(stars[k])
    <3>1. stars[k].str = <<>>
      BY <1>0, <2>2, <2>3, <2>5
    <3>. QED
      BY <1>0, <3>1, LaterFacts
  <2>. HIDE DEF open, next
  <2>6. /\ stars' \in Seq(Frame) /\ Len(stars') = m /\ stars'[m] = next
        /\ \A k \in 1 .. m - 1 : stars'[k] = stars[k]
    <3>1. /\ SubSeq(stars, 1, m - 1) \in Seq(Frame) /\ Len(SubSeq(stars, 1, m - 1)) = m - 1
          /\ \A k \in 1 .. m - 1 : SubSeq(stars, 1, m - 1)[k] = stars[k]
      BY <1>0, <2>3
    <3>. DEFINE first == SubSeq(stars, 1, m - 1)
    <3>2. m \in Nat /\ stars' = Append(first, next)
      BY <1>0, <2>1, <2>3
    <3>. HIDE DEF first
    <3>3. first \in Seq(Frame) /\ Len(first) = m - 1 /\ \A k \in 1 .. m - 1 : first[k] = stars[k]
      BY <3>1 DEF first
    <3>. QED
      BY <2>4, <3>2, <3>3
  <2>7. Shape'
    <3>1. SuffixOf(stars[m].pat, pattern) /\ pattern \in Seq(STRING) /\ key \in Seq(STRING)
      BY <1>0, <2>3 DEF Shape
    <3>2. ASSUME NEW k \in 1 .. m
          PROVE  SuffixOf(stars'[k].pat, pattern) /\ SuffixOf(stars'[k].str, key)
      <4>1. CASE k = m
        BY <2>4, <2>6, <3>1, <4>1
      <4>2. CASE k # m
        <5>1. k \in 1 .. m - 1 /\ k \in 1 .. Len(stars)
          BY <1>0, <2>3, <4>2
        <5>. QED
          BY <1>0, <2>6, <5>1 DEF Shape
      <4>. QED
        BY <4>1, <4>2
    <3>. QED
      BY <2>1, <2>4, <2>6, <3>1, <3>2 DEF Shape
  <2>8. ASSUME WellFormed(pattern) PROVE Search'
    <3>1. Search /\ ~Left(pat, str)
      BY <2>8 DEF GlobInv
    <3>2. Item(pat') /\ \A k \in 1 .. m : Item(stars'[k].pat)
      <4>1. ASSUME NEW k \in 1 .. m PROVE Item(stars'[k].pat)
        <5>1. k \in 1 .. Len(stars) /\ stars'[k].pat = stars[k].pat
          BY <1>0, <2>3, <2>4, <2>6
        <5>. QED
          BY <3>1, <5>1 DEF Search
      <4>. QED
        BY <2>1, <2>3, <3>1, <4>1 DEF Search
    <3>3. Matches(pattern, key) <=> \E k \in 1 .. Len(stars) : Later(stars[k])
      BY <3>1 DEF Search, Running
    <3>4. (\E k \in 1 .. Len(stars) : Later(stars[k])) <=>
            Later(stars[m]) \/ \E k \in 1 .. m - 1 : Later(stars[k])
      BY <1>0, <2>3, <2>5
    <3>5. (\E k \in 1 .. m : Later(stars'[k])) <=>
            Later(next) \/ \E k \in 1 .. m - 1 : Later(stars[k])
      BY <1>0, <2>3, <2>6
    <3>6. Left(pat', str') <=> Left(next.pat, next.str)
      BY <2>1, <2>4
    <3>7. Matches(pattern, key) <=>
            Left(pat', str') \/ \E k \in 1 .. m : Later(stars'[k])
      BY <2>4, <3>3, <3>4, <3>5, <3>6
    <3>8. ans' = NONE /\ NONE # YES /\ NONE # NO
      BY <2>1 DEF Running, NONE, YES, NO
    <3>. QED
      BY <2>1, <2>6, <3>2, <3>7, <3>8 DEF Search, Item, Left, Later
  <2>. QED
    BY <2>1, <2>7, <2>8 DEF GlobInv
<1>. QED
  BY <1>1, <1>2

-----------------------------------------------------------------------------
(* One lemma per branch of the loop.                                       *)

LEMMA FinishInv == ASSUME GlobInv, Finish PROVE GlobInv'
<1>1. Shape /\ Running /\ Pos(pat, pattern) = Len(pattern)
  BY SuffixPos DEF Finish, GlobInv, Shape
<1>2. Pos(str, key) \in 0 .. Len(key) /\ (str = <<>> <=> Pos(str, key) = Len(key))
  BY <1>1, SuffixPos DEF Shape
<1>3. Left(pat, str) <=> str = <<>>
  BY <1>1, <1>2, MatchesNothing DEF Left, Shape
<1>4. CASE str = <<>>
  BY <1>1, <1>3, <1>4, MatchedInv DEF Finish
<1>5. CASE str # <<>>
  BY <1>1, <1>3, <1>5, MismatchInv DEF Finish
<1>. QED
  BY <1>4, <1>5

\* What is left begins with an item of the pattern and a character of the key.
LEMMA AtItem ==
    ASSUME Shape, pat # <<>>
    PROVE  /\ Pos(pat, pattern) \in 0 .. Len(pattern) - 1
           /\ Head(pat) = pattern[Pos(pat, pattern) + 1]
           /\ Pos(str, key) \in 0 .. Len(key) /\ (str = <<>> <=> ~(Pos(str, key) < Len(key)))
           /\ str # <<>> => Head(str) = key[Pos(str, key) + 1]
<1>1. pattern \in Seq(STRING) /\ key \in Seq(STRING) /\ SuffixOf(pat, pattern) /\ SuffixOf(str, key)
  BY DEF Shape
<1>2. Pos(str, key) \in 0 .. Len(key) /\ (str = <<>> <=> Pos(str, key) = Len(key)) /\ Len(key) \in Nat
  BY <1>1, SuffixPos
<1>3. str = <<>> <=> ~(Pos(str, key) < Len(key))
  BY <1>2
<1>4. Pos(pat, pattern) \in 0 .. Len(pattern) - 1 /\ Head(pat) = pattern[Pos(pat, pattern) + 1]
  BY <1>1, SuffixTail
<1>5. str # <<>> => Head(str) = key[Pos(str, key) + 1]
  BY <1>1, SuffixTail
<1>. QED
  BY <1>2, <1>3, <1>4, <1>5

\* What is left after one character of each.
LEMMA AfterOne ==
    ASSUME Shape, pat # <<>>, str # <<>>
    PROVE  /\ Left(Drop(pat, 1), Tail(str)) <=>
                MatchesFrom(pattern, key, Pos(pat, pattern) + 1, Pos(str, key) + 1)
           /\ Item(Drop(pat, 1)) <=> ~InClass(pattern, (Pos(pat, pattern) + 1) + 1)
           /\ 1 \in 1 .. Len(pat)
<1>1. pattern \in Seq(STRING) /\ key \in Seq(STRING) /\ SuffixOf(pat, pattern) /\ SuffixOf(str, key)
  BY DEF Shape
<1>2. Drop(pat, 1) = Tail(pat) /\ Pos(Tail(pat), pattern) = Pos(pat, pattern) + 1 /\ Len(pat) >= 1
  BY <1>1, SuffixTail
<1>3. Pos(Tail(str), key) = Pos(str, key) + 1
  BY <1>1, SuffixTail
<1>4. 1 \in 1 .. Len(pat)
  BY <1>1, <1>2 DEF SuffixOf
<1>. QED
  BY <1>2, <1>3, <1>4 DEF Left, Item

LEMMA QuestionInv == ASSUME GlobInv, Question PROVE GlobInv'
<1>1. Shape /\ Running /\ pat # <<>> /\ Head(pat) = "?" /\ pattern \in Seq(STRING) /\ key \in Seq(STRING)
  BY DEF Question, GlobInv, Shape
<1>2. CASE str = <<>>
  <2>1. Mismatch
    BY <1>2 DEF Question
  <2>2. WellFormed(pattern) => ~Left(pat, str)
    BY <1>1, <1>2, AtItem, AnyItem DEF GlobInv, Search, Item, Left
  <2>. QED
    BY <1>1, <2>1, <2>2, MismatchInv
<1>3. CASE str # <<>>
  <2>1. Advance(1)
    BY <1>3 DEF Question
  <2>2. ASSUME WellFormed(pattern)
        PROVE  (Left(pat, str) <=> Left(Drop(pat, 1), Tail(str))) /\ Item(Drop(pat, 1))
    <3>1. Item(pat)
      BY <2>2 DEF GlobInv, Search
    <3>2. Left(pat, str) <=>
            MatchesFrom(pattern, key, Pos(pat, pattern) + 1, Pos(str, key) + 1)
      BY <1>1, <1>3, <3>1, AtItem, AnyItem DEF Left, Item
    <3>3. ~InClass(pattern, (Pos(pat, pattern) + 1) + 1)
      <4>1. "?" # "["
        OBVIOUS
      <4>. QED
        BY <1>1, <3>1, <4>1, AtItem, NextItem DEF Item
    <3>. QED
      BY <1>1, <1>3, <3>2, <3>3, AfterOne
  <2>3. 1 \in 1 .. Len(pat)
    BY <1>1, <1>3, AfterOne
  <2>. QED
    BY <1>1, <1>3, <2>1, <2>2, <2>3, AdvanceInv
<1>. QED
  BY <1>2, <1>3

LEMMA LiteralInv == ASSUME GlobInv, Literal PROVE GlobInv'
<1>1. /\ Shape /\ Running /\ pat # <<>> /\ Head(pat) \notin {"*", "?", "["}
      /\ pattern \in Seq(STRING) /\ key \in Seq(STRING)
  BY DEF Literal, GlobInv, Shape
<1>. DEFINE u == Pos(pat, pattern)
            w == Pos(str, key)
<1>2. ASSUME WellFormed(pattern)
      PROVE  Left(pat, str) <=> /\ w < Len(key) /\ key[w + 1] = pattern[u + 1]
                                /\ MatchesFrom(pattern, key, u + 1, w + 1)
  <2>1. ~InClass(pattern, u + 1)
    BY <1>2 DEF GlobInv, Search, Item
  <2>2. u \in 0 .. Len(pattern) - 1 /\ w \in 0 .. Len(key) /\ pattern[u + 1] \notin {"*", "?", "["}
    BY <1>1, AtItem
  <2>3. Left(pat, str) <=> MatchesFrom(pattern, key, u, w)
    BY DEF Left
  <2>. HIDE DEF u, w
  <2>. QED
    BY <1>1, <2>1, <2>2, <2>3, LiteralItem
<1>3. CASE str = <<>> \/ Head(pat) # Head(str)
  <2>1. Mismatch
    BY <1>3 DEF Literal
  <2>2. WellFormed(pattern) => ~Left(pat, str)
    BY <1>1, <1>2, <1>3, AtItem
  <2>. QED
    BY <1>1, <2>1, <2>2, MismatchInv
<1>4. CASE ~(str = <<>> \/ Head(pat) # Head(str))
  <2>1. Advance(1)
    BY <1>4 DEF Literal
  <2>2. ASSUME WellFormed(pattern)
        PROVE  (Left(pat, str) <=> Left(Drop(pat, 1), Tail(str))) /\ Item(Drop(pat, 1))
    <3>1. Item(pat)
      BY <2>2 DEF GlobInv, Search
    <3>2. Left(pat, str) <=> MatchesFrom(pattern, key, u + 1, w + 1)
      BY <1>1, <1>2, <1>4, <2>2, AtItem
    <3>3. ~InClass(pattern, (u + 1) + 1)
      BY <1>1, <3>1, AtItem, NextItem DEF Item
    <3>. QED
      BY <1>1, <1>4, <3>2, <3>3, AfterOne
  <2>3. 1 \in 1 .. Len(pat)
    BY <1>1, <1>4, AfterOne
  <2>. QED
    BY <1>1, <1>4, <2>1, <2>2, <2>3, AdvanceInv
<1>. QED
  BY <1>3, <1>4

\* A '*' is the choice of a suffix: the one at hand, or one a later turn tries.
LEMMA StarInv == ASSUME GlobInv, Star PROVE GlobInv'
<1>. DEFINE u == Pos(pat, pattern)
            w == Pos(str, key)
            e == [pat |-> Tail(pat), str |-> str]
<1>1. /\ Shape /\ Running /\ pat # <<>> /\ Head(pat) = "*"
      /\ pattern \in Seq(STRING) /\ key \in Seq(STRING)
      /\ SuffixOf(pat, pattern) /\ SuffixOf(str, key)
  BY DEF Star, GlobInv, Shape
<1>2. /\ u \in 0 .. Len(pattern) - 1 /\ w \in 0 .. Len(key) /\ pattern[u + 1] = "*"
      /\ Len(key) \in Nat /\ Len(pattern) \in Nat
  BY <1>1, AtItem
<1>3. /\ SuffixOf(Tail(pat), pattern) /\ Pos(Tail(pat), pattern) = u + 1
      /\ Tail(pat) \in Seq(STRING) /\ str \in Seq(STRING)
  BY <1>1, SuffixTail DEF SuffixOf
<1>4. ASSUME WellFormed(pattern)
      PROVE  /\ Left(pat, str) <=> \E y \in w .. Len(key) : MatchesFrom(pattern, key, u + 1, y)
             /\ ~InClass(pattern, (u + 1) + 1)
  <2>1. ~InClass(pattern, u + 1) /\ "*" # "["
    BY <1>4 DEF GlobInv, Search, Item
  <2>2. Left(pat, str) <=> MatchesFrom(pattern, key, u, w)
    BY DEF Left
  <2>. HIDE DEF u, w
  <2>. QED
    BY <1>1, <1>2, <2>1, <2>2, StarItem, NextItem
<1>5. CASE Len(pat) = 1
  <2>1. Matched
    BY <1>5 DEF Star
  <2>2. u + 1 = Len(pattern) /\ Len(key) \in w .. Len(key) /\ Len(key) \in 0 .. Len(key)
    BY <1>2, <1>5 DEF Pos
  <2>3. MatchesFrom(pattern, key, u + 1, Len(key))
    BY <1>1, <2>2, MatchesNothing
  <2>. QED
    BY <1>1, <1>4, <2>1, <2>2, <2>3, MatchedInv
<1>6. CASE Len(pat) # 1
  <2>1. /\ stars' = Append(stars, e) /\ pat' = Tail(pat)
        /\ UNCHANGED <<pattern, key, str, ans>>
    BY <1>6, Zenon DEF Star
  <2>2. e \in Frame /\ e.pat = Tail(pat) /\ e.str = str
    BY <1>3 DEF Frame
  <2>. HIDE DEF e
  <2>3. /\ stars' \in Seq(Frame) /\ Len(stars') = Len(stars) + 1 /\ Len(stars) \in Nat
        /\ stars'[Len(stars) + 1] = e /\ \A k \in 1 .. Len(stars) : stars'[k] = stars[k]
    BY <1>1, <2>1, <2>2 DEF Shape
  <2>4. \A k \in 1 .. Len(stars) + 1 : k \in 1 .. Len(stars) \/ k = Len(stars) + 1
    BY <2>3
  <2>5. Shape'
    <3>1. \A k \in 1 .. Len(stars) :
            SuffixOf(stars'[k].pat, pattern) /\ SuffixOf(stars'[k].str, key)
      BY <1>1, <2>3 DEF Shape
    <3>2. LET l == stars'[Len(stars) + 1]
          IN  SuffixOf(l.pat, pattern) /\ SuffixOf(l.str, key)
      BY <1>1, <1>3, <2>2, <2>3
    <3>3. \A k \in 1 .. Len(stars) + 1 :
            SuffixOf(stars'[k].pat, pattern) /\ SuffixOf(stars'[k].str, key)
      BY <2>4, <3>1, <3>2
    <3>. QED
      BY <1>1, <1>3, <2>1, <2>3, <3>3 DEF Shape
  <2>6. ASSUME WellFormed(pattern) PROVE Search'
    <3>1. Search
      BY <2>6 DEF GlobInv
    <3>2. Item(Tail(pat))
      BY <1>3, <1>4, <2>6 DEF Item
    <3>3. \A y : y \in w .. Len(key) <=> y = w \/ y \in w + 1 .. Len(key)
      BY <1>2
    <3>4. Left(pat, str) <=> Left(Tail(pat), str) \/ Later(e)
      BY <1>3, <1>4, <2>2, <2>6, <3>3 DEF Left, Later
    <3>5. (\E k \in 1 .. Len(stars) + 1 : Later(stars'[k])) <=>
            Later(e) \/ \E k \in 1 .. Len(stars) : Later(stars[k])
      BY <2>3
    <3>6. Matches(pattern, key) <=>
            Left(Tail(pat), str) \/ \E k \in 1 .. Len(stars) + 1 : Later(stars'[k])
      BY <3>1, <3>4, <3>5, <1>1 DEF Search, Running
    <3>7. \A k \in 1 .. Len(stars) + 1 : Item(stars'[k].pat)
      <4>1. \A k \in 1 .. Len(stars) : Item(stars'[k].pat)
        BY <2>3, <3>1 DEF Search
      <4>2. Item(stars'[Len(stars) + 1].pat)
        BY <2>2, <2>3, <3>2
      <4>. QED
        BY <2>4, <4>1, <4>2
    <3>8. ans' = NONE /\ NONE # YES /\ NONE # NO
      BY <1>1, <2>1 DEF Running, NONE, YES, NO
    <3>. QED
      BY <2>1, <2>3, <3>2, <3>6, <3>7, <3>8 DEF Search, Item, Left, Later
  <2>. QED
    BY <2>1, <2>5, <2>6 DEF GlobInv
<1>. QED
  BY <1>5, <1>6

LEMMA ClassEndFacts ==
    ASSUME NEW p \in Seq(STRING), p # <<>>
    PROVE  LET e == ClassEnd(p)
           IN  /\ e \in 1 .. Len(p)
               /\ (\E k \in 2 .. Len(p) : p[k] = "]") =>
                    e + 1 \in 2 .. Len(p) /\ p[e + 1] = "]" /\ \A k \in 2 .. e : p[k] # "]"
<1>. DEFINE close == {k \in 2 .. Len(p) : p[k] = "]"}
            m     == Min(close)
<1>0. Len(p) \in Nat /\ Len(p) >= 1
  OBVIOUS
<1>1. CASE close = {}
  <2>1. ClassEnd(p) = Len(p)
    BY <1>1, Zenon DEF ClassEnd
  <2>. QED
    BY <1>0, <1>1, <2>1
<1>2. CASE close # {}
  <2>1. ClassEnd(p) = m - 1
    BY <1>2, Zenon DEF ClassEnd
  <2>2. close \subseteq Nat
    OBVIOUS
  <2>3. m \in close /\ \A k \in close : m <= k
    <3>. HIDE DEF close
    <3>. QED
      BY <1>2, <2>2, MinFacts
  <2>. HIDE DEF m
  <2>4. m \in 2 .. Len(p) /\ p[m] = "]" /\ \A k \in 2 .. m - 1 : p[k] # "]"
    BY <1>0, <2>3
  <2>5. (m - 1) + 1 = m /\ m - 1 \in 1 .. Len(p)
    BY <1>0, <2>4
  <2>. QED
    BY <2>1, <2>4, <2>5
<1>. QED
  BY <1>1, <1>2

\* The class at hand, as positions of the whole pattern.
LEMMA AtClass ==
    ASSUME GlobInv, WellFormed(pattern), pat # <<>>, Head(pat) = "["
    PROVE  LET u == Pos(pat, pattern)
               e == ClassEnd(pat)
           IN  /\ e + 1 \in 2 .. Len(pat) /\ u + (e + 1) \in u + 2 .. Len(pattern)
               /\ Closes(pattern, u, u + (e + 1))
               /\ {pat[k] : k \in 2 .. e} = {pattern[k] : k \in u + 2 .. u + (e + 1) - 1}
<1>. DEFINE u == Pos(pat, pattern)
            e == ClassEnd(pat)
<1>1. /\ Shape /\ pattern \in Seq(STRING) /\ SuffixOf(pat, pattern) /\ pat \in Seq(STRING)
      /\ ~InClass(pattern, u + 1)
  BY DEF GlobInv, Shape, Search, Item, SuffixOf
<1>2. /\ u \in 0 .. Len(pattern) - 1 /\ pattern[u + 1] = "["
      /\ Len(pattern) \in Nat /\ Len(pat) \in Nat
  BY <1>1, AtItem
<1>3. Len(pattern) = u + Len(pat) /\ \A k \in 1 .. Len(pat) : pat[k] = pattern[u + k]
  BY <1>1, <1>2 DEF SuffixOf, Pos
<1>4. e \in 1 .. Len(pat) /\ ((\E k \in 2 .. Len(pat) : pat[k] = "]") =>
        e + 1 \in 2 .. Len(pat) /\ pat[e + 1] = "]" /\ \A k \in 2 .. e : pat[k] # "]")
  BY <1>1, ClassEndFacts
<1>. HIDE DEF u, e
<1>5. PICK j \in (u + 1) + 1 .. Len(pattern) : pattern[j] = "]"
  <2>1. u + 1 \in DOMAIN pattern
    BY <1>1, <1>2
  <2>. QED
    BY <1>1, <1>2, <2>1 DEF WellFormed
<1>6. j - u \in 2 .. Len(pat) /\ u + (j - u) = j /\ j - u \in 1 .. Len(pat)
  BY <1>2, <1>3, <1>5
<1>7. pat[j - u] = "]"
  BY <1>3, <1>5, <1>6
<1>8. e + 1 \in 2 .. Len(pat) /\ pat[e + 1] = "]" /\ \A k \in 2 .. e : pat[k] # "]"
  BY <1>4, <1>6, <1>7
<1>9. u + (e + 1) \in u + 2 .. Len(pattern) /\ e \in Nat
  BY <1>2, <1>3, <1>4, <1>8
<1>10. \A k \in u + 2 .. u + (e + 1) - 1 :
         k - u \in 2 .. e /\ u + (k - u) = k /\ k - u \in 1 .. Len(pat)
  BY <1>2, <1>3, <1>4, <1>9
<1>11. \A k \in u + 2 .. u + (e + 1) - 1 : pattern[k] = pat[k - u]
  BY <1>3, <1>10
<1>12. \A k \in 2 .. e : u + k \in u + 2 .. u + (e + 1) - 1 /\ pattern[u + k] = pat[k]
  BY <1>2, <1>3, <1>4, <1>9
<1>13. Closes(pattern, u, u + (e + 1))
  <2>. DEFINE z == u + (e + 1)
  <2>1. z = u + (e + 1) /\ e + 1 \in 1 .. Len(pat)
    BY <1>8
  <2>. HIDE DEF z
  <2>2. pattern[z] = "]"
    BY <1>3, <1>8, <2>1
  <2>3. ASSUME NEW k \in u + 2 .. z - 1 PROVE pattern[k] # "]"
    <3>1. k \in u + 2 .. u + (e + 1) - 1
      BY <1>2, <1>9, <2>1, <2>3
    <3>2. k - u \in 2 .. e /\ pattern[k] = pat[k - u]
      BY <1>10, <1>11, <3>1
    <3>. QED
      BY <1>8, <3>2
  <2>4. Closes(pattern, u, z)
    BY <1>2, <2>2, <2>3 DEF Closes
  <2>. QED
    BY <2>1, <2>4
<1>14. {pat[k] : k \in 2 .. e} = {pattern[k] : k \in u + 2 .. u + (e + 1) - 1}
  <2>1. \A k \in 2 .. e : pat[k] \in {pattern[j1] : j1 \in u + 2 .. u + (e + 1) - 1}
    BY <1>12
  <2>2. \A k \in u + 2 .. u + (e + 1) - 1 : pattern[k] \in {pat[j1] : j1 \in 2 .. e}
    BY <1>10, <1>11
  <2>. QED
    BY <2>1, <2>2
<1>. QED
  BY <1>8, <1>9, <1>13, <1>14 DEF u, e

LEMMA ClassInv == ASSUME GlobInv, Class PROVE GlobInv'
<1>. DEFINE u == Pos(pat, pattern)
            w == Pos(str, key)
            e == ClassEnd(pat)
            C == {pat[k] : k \in 2 .. e}
<1>1. /\ Shape /\ Running /\ pat # <<>> /\ Head(pat) = "["
      /\ pattern \in Seq(STRING) /\ key \in Seq(STRING) /\ pat \in Seq(STRING)
      /\ SuffixOf(pat, pattern) /\ SuffixOf(str, key)
  BY DEF Class, GlobInv, Shape, SuffixOf
<1>2. e \in 1 .. Len(pat) /\ Len(pat) \in Nat
  BY <1>1, ClassEndFacts
<1>3. /\ u \in 0 .. Len(pattern) - 1 /\ w \in 0 .. Len(key)
      /\ str = <<>> <=> ~(w < Len(key))
      /\ str # <<>> => Head(str) = key[w + 1]
  BY <1>1, AtItem
<1>4. ASSUME WellFormed(pattern)
      PROVE  /\ Left(pat, str) <=> w < Len(key) /\ key[w + 1] \in C
                                   /\ MatchesFrom(pattern, key, u + (e + 1), w + 1)
             /\ e # Len(pat) /\ ~InClass(pattern, (u + (e + 1)) + 1)
  <2>1. /\ e + 1 \in 2 .. Len(pat) /\ u + (e + 1) \in u + 2 .. Len(pattern)
        /\ Closes(pattern, u, u + (e + 1)) /\ C = {pattern[k] : k \in u + 2 .. u + (e + 1) - 1}
    BY <1>1, <1>4, AtClass
  <2>2. ~InClass(pattern, u + 1)
    BY <1>4 DEF GlobInv, Search, Item
  <2>3. Left(pat, str) <=> MatchesFrom(pattern, key, u, w)
    BY DEF Left
  <2>. HIDE DEF u, w, e, C
  <2>4. Left(pat, str) <=> w < Len(key) /\ key[w + 1] \in C
                           /\ MatchesFrom(pattern, key, u + (e + 1), w + 1)
    BY <1>1, <1>3, <2>1, <2>2, <2>3, ClassItem
  <2>5. u + (e + 1) \in 1 .. Len(pattern) /\ pattern[u + (e + 1)] = "]"
    BY <1>3, <2>1 DEF Closes
  <2>6. ~InClass(pattern, (u + (e + 1)) + 1)
    BY <1>1, <2>5, NextAfterClass
  <2>. QED
    BY <1>2, <2>1, <2>4, <2>6
<1>5. CASE str = <<>> \/ Head(str) \notin C
  <2>1. Mismatch
    BY <1>5, Zenon DEF Class
  <2>2. WellFormed(pattern) => ~Left(pat, str)
    BY <1>3, <1>4, <1>5
  <2>. QED
    BY <1>1, <2>1, <2>2, MismatchInv
<1>6. CASE ~(str = <<>> \/ Head(str) \notin C) /\ e = Len(pat)
  <2>1. UNCHANGED <<pattern, key, pat, str, stars>>
    BY <1>6, Zenon DEF Class
  <2>. QED
    BY <1>1, <1>4, <1>6, <2>1 DEF GlobInv, Shape
<1>7. CASE ~(str = <<>> \/ Head(str) \notin C) /\ e # Len(pat)
  <2>1. Advance(e + 1)
    BY <1>7, Zenon DEF Class
  <2>2. e + 1 \in 1 .. Len(pat) /\ e + 1 \in 0 .. Len(pat)
    BY <1>2, <1>7
  <2>3. Pos(Drop(pat, e + 1), pattern) = u + (e + 1) /\ Pos(Tail(str), key) = w + 1
    BY <1>1, <1>7, <2>2, SuffixDrop, SuffixTail
  <2>4. ASSUME WellFormed(pattern)
        PROVE  /\ Left(pat, str) <=> Left(Drop(pat, e + 1), Tail(str))
               /\ Item(Drop(pat, e + 1))
    BY <1>3, <1>4, <1>7, <2>3, <2>4 DEF Left, Item
  <2>. HIDE DEF e, C
  <2>. QED
    BY <1>1, <1>7, <2>1, <2>2, <2>4, AdvanceInv
<1>. QED
  BY <1>5, <1>6, <1>7

LEMMA GlobInvInit == GlobInit => GlobInv
<1>. SUFFICES ASSUME GlobInit PROVE GlobInv
  OBVIOUS
<1>1. /\ pattern \in Seq(STRING) /\ key \in Seq(STRING)
      /\ pat = pattern /\ str = key /\ stars = <<>> /\ ans = NONE
  BY GlobAssumption DEF GlobInit
<1>2. Pos(pat, pattern) = 0 /\ Pos(str, key) = 0 /\ SuffixOf(pat, pattern) /\ SuffixOf(str, key)
  BY <1>1 DEF Pos, SuffixOf
<1>3. stars \in Seq(Frame) /\ Len(stars) = 0 /\ 1 .. Len(stars) = {}
  BY <1>1
<1>4. Item(pat)
  BY <1>2 DEF Item, InClass
<1>5. Matches(pattern, key) <=> Left(pat, str)
  BY <1>2, MatchesAll DEF Left
<1>6. NONE # YES /\ NONE # NO
  BY DEF NONE, YES, NO
<1>. QED
  BY <1>1, <1>2, <1>3, <1>4, <1>5, <1>6 DEF GlobInv, Shape, Search

(***************************************************************************)
(* store.go globMatch decides the language of the pattern, whatever the     *)
(* pattern and the key: when the loop and the calls it makes for the stars  *)
(* return, the answer is yes exactly if the key can be cut into parts that  *)
(* the items of the pattern stand for, and the slice pat[end+1:] is out of  *)
(* range only for a pattern with a class that does not end.                 *)
(***************************************************************************)
THEOREM GlobMatchIsRight == GlobSpec => []AnswerIsRight
<1>1. GlobInit => GlobInv
  BY GlobInvInit
<1>2. GlobInv /\ [GlobNext]_globVars => GlobInv'
  <2>. SUFFICES ASSUME GlobInv, [GlobNext]_globVars PROVE GlobInv'
    OBVIOUS
  <2>1. CASE Star
    BY <2>1, StarInv
  <2>2. CASE Question
    BY <2>2, QuestionInv
  <2>3. CASE Class
    BY <2>3, ClassInv
  <2>4. CASE Literal
    BY <2>4, LiteralInv
  <2>5. CASE Finish
    BY <2>5, FinishInv
  <2>6. CASE UNCHANGED globVars
    BY <2>6 DEF globVars, GlobInv, Shape, Search, Item, Left, Later
  <2>. QED
    BY <2>1, <2>2, <2>3, <2>4, <2>5, <2>6 DEF GlobNext
<1>3. GlobInv => AnswerIsRight
  BY DEF GlobInv, Search, AnswerIsRight, YES, NO, PANIC, NONE
<1>. QED
  BY <1>1, <1>2, <1>3, PTL DEF GlobSpec

-----------------------------------------------------------------------------
(* itoa makes the decimal numeral of every number: the powers of ten first. *)

PowerStep(f, k) == IF k = 0 THEN 1 ELSE 10 * f[k - 1]
PowerTo(f, m)   == \A k \in 0 .. m : f[k] = PowerStep(f, k) /\ f[k] \in Nat /\ f[k] > k

LEMMA PowerToExists == \A m \in Nat : \E f : PowerTo(f, m)
<1>. DEFINE S == {m \in Nat : \E f : PowerTo(f, m)}
<1>1. 0 \in S
  <2>. DEFINE f == [k \in 0 .. 0 |-> 1]
  <2>1. PowerTo(f, 0)
    BY DEF PowerTo, PowerStep
  <2>. QED
    BY <2>1
<1>2. ASSUME NEW m \in Nat, m \in S PROVE m + 1 \in S
  <2>1. PICK f : PowerTo(f, m)
    BY <1>2
  <2>. DEFINE g == [k \in 0 .. m + 1 |-> IF k = m + 1 THEN 10 * f[m] ELSE f[k]]
  <2>2. g[m + 1] = 10 * f[m] /\ \A k \in 0 .. m : g[k] = f[k]
    OBVIOUS
  <2>. HIDE DEF g
  <2>3. ASSUME NEW k \in 0 .. m + 1 PROVE g[k] = PowerStep(g, k) /\ g[k] \in Nat /\ g[k] > k
    <3>1. CASE k = 0
      BY <2>1, <2>2, <3>1 DEF PowerTo, PowerStep
    <3>2. CASE k # 0
      <4>1. k - 1 \in 0 .. m /\ k \in Nat
        BY <3>2
      <4>2. g[k - 1] = f[k - 1] /\ f[k - 1] \in Nat /\ f[k - 1] > k - 1
        BY <2>1, <2>2, <4>1 DEF PowerTo
      <4>3. g[k] = 10 * f[k - 1]
        BY <2>1, <2>2, <3>2 DEF PowerTo, PowerStep
      <4>. QED
        BY <3>2, <4>1, <4>2, <4>3 DEF PowerStep
    <3>. QED
      BY <3>1, <3>2
  <2>4. PowerTo(g, m + 1)
    BY <2>3, Zenon DEF PowerTo
  <2>. QED
    BY <2>4
<1>3. Nat \subseteq S
  <2>. HIDE DEF S
  <2>. QED
    BY <1>1, <1>2, NatSetInduction
<1>. QED
  BY <1>3

LEMMA PowerToAgree ==
    ASSUME NEW m \in Nat, NEW f, PowerTo(f, m), NEW m2 \in Nat, NEW g, PowerTo(g, m2),
           NEW j \in Nat, j <= m, j <= m2
    PROVE  f[j] = g[j]
<1>. DEFINE S == {k \in Nat : k <= m /\ k <= m2 /\ f[k] # g[k]}
<1>1. SUFFICES ASSUME S # {} PROVE FALSE
  OBVIOUS
<1>2. PICK k \in S : \A y \in S : k <= y
  BY <1>1, NatMin
<1>3. k \in 0 .. m /\ k \in 0 .. m2 /\ k \in Nat /\ f[k] # g[k]
  BY <1>2
<1>4. f[k] = PowerStep(f, k) /\ g[k] = PowerStep(g, k)
  BY <1>3, Zenon DEF PowerTo
<1>5. k # 0
  BY <1>3, <1>4 DEF PowerStep
<1>6. k - 1 \in Nat /\ k - 1 <= m /\ k - 1 <= m2 /\ k - 1 \notin S
  BY <1>2, <1>3, <1>5
<1>7. f[k - 1] = g[k - 1]
  BY <1>6
<1>. QED
  BY <1>3, <1>4, <1>5, <1>7, Zenon DEF PowerStep

LEMMA PowerDef == \A k \in Nat : Power[k] = PowerStep(Power, k) /\ Power[k] \in Nat /\ Power[k] > k
<1>. DEFINE G(k) == CHOOSE f : PowerTo(f, k)
            F == [k \in Nat |-> G(k)[k]]
<1>1. ASSUME NEW k \in Nat PROVE PowerTo(G(k), k)
  BY PowerToExists, Zenon
<1>2. \A k \in Nat : F[k] = G(k)[k]
  OBVIOUS
<1>. HIDE DEF G, F
<1>3. ASSUME NEW k \in Nat PROVE F[k] = PowerStep(F, k) /\ F[k] \in Nat /\ F[k] > k
  <2>1. k \in 0 .. k
    OBVIOUS
  <2>2. G(k)[k] = PowerStep(G(k), k) /\ G(k)[k] \in Nat /\ G(k)[k] > k
    BY <1>1, <2>1, Zenon DEF PowerTo
  <2>3. CASE k = 0
    BY <1>2, <2>2, <2>3 DEF PowerStep
  <2>4. CASE k # 0
    <3>1. k - 1 \in Nat /\ k - 1 <= k - 1 /\ k - 1 <= k
      BY <2>4
    <3>2. G(k)[k - 1] = G(k - 1)[k - 1]
      BY <1>1, <3>1, PowerToAgree
    <3>3. F[k - 1] = G(k)[k - 1]
      BY <1>2, <3>1, <3>2
    <3>. QED
      BY <1>2, <2>2, <2>4, <3>3, Zenon DEF PowerStep
  <2>. QED
    BY <2>3, <2>4
<1>4. F = [k \in Nat |-> PowerStep(F, k)]
  <2>1. F = [k \in Nat |-> F[k]]
    BY DEF F
  <2>. QED
    BY <1>3, <2>1
<1>5. Power = [k \in Nat |-> PowerStep(Power, k)]
  BY <1>4, Zenon DEF Power, PowerStep
<1>6. \A k \in Nat : Power[k] = PowerStep(Power, k)
  BY <1>5, Zenon
<1>. DEFINE S == {k \in Nat : Power[k] \in Nat /\ Power[k] > k}
<1>7. 0 \in S
  BY <1>6 DEF PowerStep
<1>8. ASSUME NEW m \in Nat, m \in S PROVE m + 1 \in S
  <2>1. m + 1 \in Nat /\ m + 1 # 0 /\ (m + 1) - 1 = m
    OBVIOUS
  <2>2. Power[m + 1] = 10 * Power[m]
    BY <1>6, <2>1, Zenon DEF PowerStep
  <2>. QED
    BY <1>8, <2>1, <2>2
<1>9. Nat \subseteq S
  <2>. HIDE DEF S
  <2>. QED
    BY <1>7, <1>8, NatSetInduction
<1>. QED
  BY <1>6, <1>9

LEMMA PowerNext == /\ Power[0] = 1
                   /\ \A d \in Nat : /\ Power[d] \in Nat /\ Power[d] > d
                                     /\ Power[d + 1] = 10 * Power[d]
<1>1. Power[0] = 1
  BY PowerDef DEF PowerStep
<1>2. ASSUME NEW d \in Nat PROVE Power[d] \in Nat /\ Power[d] > d
  BY PowerDef
<1>3. ASSUME NEW d \in Nat PROVE Power[d + 1] = 10 * Power[d]
  <2>1. d + 1 \in Nat /\ d + 1 # 0 /\ (d + 1) - 1 = d
    OBVIOUS
  <2>. QED
    BY <2>1, PowerDef, Zenon DEF PowerStep
<1>. QED
  BY <1>1, <1>2, <1>3

LEMMA PowerGrows == ASSUME NEW a \in Nat, NEW c \in Nat, a <= c PROVE Power[a] <= Power[c]
<1>. DEFINE S == {m \in Nat : Power[a] <= Power[a + m]}
<1>1. 0 \in S
  BY PowerNext
<1>2. ASSUME NEW m \in Nat, m \in S PROVE m + 1 \in S
  <2>1. a + m \in Nat /\ (a + m) + 1 = a + (m + 1)
    OBVIOUS
  <2>2. Power[a + m] \in Nat /\ Power[(a + m) + 1] = 10 * Power[a + m] /\ Power[a] \in Nat
    BY <2>1, PowerNext
  <2>. QED
    BY <1>2, <2>1, <2>2
<1>3. Nat \subseteq S
  <2>. HIDE DEF S
  <2>. QED
    BY <1>1, <1>2, NatSetInduction
<1>4. c - a \in Nat /\ a + (c - a) = c
  OBVIOUS
<1>. QED
  BY <1>3, <1>4

Digit == {Numerals[x] : x \in 1 .. 10}
\* s is k in decimal, without leading zeros.
Positional(s, k) ==
    /\ s \in Seq(Digit) /\ Len(s) >= 1
    /\ Power[Len(s) - 1] <= k /\ k < Power[Len(s)]
    /\ \A p \in 1 .. Len(s) : s[p] = Numerals[((k \div Power[Len(s) - p]) % 10) + 1]

LEMMA DivTwice ==
    ASSUME NEW k \in Nat, NEW P \in Nat, P >= 1
    PROVE  (k \div 10) \div P = k \div (10 * P)
OBVIOUS

LEMMA PositionalNext ==
    ASSUME NEW k \in Nat, NEW s, Positional(s, k \div 10)
    PROVE  Positional(Append(s, Numerals[(k % 10) + 1]), k)
<1>. DEFINE h == k \div 10
            x == Numerals[(k % 10) + 1]
            t == Append(s, x)
            l == Len(s)
<1>1. h \in Nat /\ 10 * h <= k /\ k < 10 * h + 10 /\ k % 10 \in 0 .. 9
  OBVIOUS
<1>2. s \in Seq(Digit) /\ l \in Nat /\ l >= 1 /\ Power[l - 1] <= h /\ h < Power[l]
  BY DEF Positional
<1>3. x \in Digit
  BY <1>1 DEF Digit
<1>. HIDE DEF x
<1>4. /\ t \in Seq(Digit) /\ Len(t) = l + 1 /\ t[l + 1] = x
      /\ \A p \in 1 .. l : t[p] = s[p]
  BY <1>2, <1>3
<1>. HIDE DEF t, h
<1>5. Power[l] = 10 * Power[l - 1] /\ Power[l + 1] = 10 * Power[l] /\ Power[l] \in Nat /\ Power[l - 1] \in Nat
  <2>1. l - 1 \in Nat /\ (l - 1) + 1 = l
    BY <1>2
  <2>. QED
    BY <1>2, <2>1, PowerNext
<1>. HIDE DEF l
<1>6. Power[Len(t) - 1] <= k /\ k < Power[Len(t)]
  <2>1. Len(t) - 1 = l
    BY <1>2, <1>4
  <2>2. Power[l] <= k
    BY <1>1, <1>2, <1>5
  <2>3. k < Power[l + 1]
    BY <1>1, <1>2, <1>5
  <2>. QED
    BY <1>4, <2>1, <2>2, <2>3
<1>7. ASSUME NEW p \in 1 .. Len(t) PROVE t[p] = Numerals[((k \div Power[Len(t) - p]) % 10) + 1]
  <2>1. CASE p = l + 1
    <3>1. Len(t) - p = 0 /\ Power[0] = 1
      BY <1>2, <1>4, <2>1, PowerNext
    <3>2. k \div 1 = k
      OBVIOUS
    <3>3. k \div Power[Len(t) - p] = k
      BY <3>1, <3>2
    <3>. QED
      BY <1>4, <2>1, <3>3, Zenon DEF x
  <2>2. CASE p # l + 1
    <3>1. p \in 1 .. l /\ l - p \in Nat /\ Len(t) - p = (l - p) + 1
      BY <1>2, <1>4, <2>2
    <3>2. Power[l - p] \in Nat /\ Power[l - p] >= 1 /\ Power[(l - p) + 1] = 10 * Power[l - p]
      <4>1. /\ Power[l - p] \in Nat /\ Power[l - p] > l - p
            /\ Power[(l - p) + 1] = 10 * Power[l - p]
        BY <3>1, PowerNext, Zenon
      <4>. QED
        BY <3>1, <4>1
    <3>3. h \div Power[l - p] = k \div (10 * Power[l - p])
      BY <3>2, DivTwice DEF h
    <3>4. s[p] = Numerals[((h \div Power[l - p]) % 10) + 1]
      BY <3>1, Zenon DEF Positional, l, h
    <3>. QED
      BY <1>4, <3>1, <3>2, <3>3, <3>4, Zenon
  <2>. QED
    BY <2>1, <2>2
<1>8. Len(t) >= 1
  BY <1>2, <1>4
<1>9. Positional(t, k)
  BY <1>4, <1>6, <1>7, <1>8, Zenon DEF Positional
<1>. QED
  BY <1>9 DEF t, x

LEMMA PositionalDigit ==
    ASSUME NEW k \in 1 .. 9
    PROVE  Positional(<<Numerals[k + 1]>>, k)
<1>. DEFINE x == Numerals[k + 1]
<1>1. x \in Digit
  BY DEF Digit
<1>2. Power[0] = 1 /\ Power[0 + 1] = 10 * Power[0]
  BY PowerNext
<1>3. k \div 1 = k /\ k % 10 = k
  OBVIOUS
<1>4. x = Numerals[((k \div Power[0]) % 10) + 1]
  BY <1>2, <1>3
<1>. HIDE DEF x
<1>5. <<x>> \in Seq(Digit) /\ Len(<<x>>) = 1 /\ <<x>>[1] = x
  BY <1>1
<1>6. \A p \in 1 .. 1 : <<x>>[p] = Numerals[((k \div Power[1 - p]) % 10) + 1]
  BY <1>4, <1>5
<1>7. Power[1 - 1] <= k /\ k < Power[1]
  BY <1>2
<1>8. Positional(<<x>>, k)
  BY <1>5, <1>6, <1>7 DEF Positional
<1>. QED
  BY <1>8 DEF x

LEMMA DigitsPositional == \A k \in Nat : k # 0 => Positional(digits[k], k)
<1>. DEFINE Wrong == {k \in Nat : k # 0 /\ ~Positional(digits[k], k)}
<1>1. SUFFICES ASSUME Wrong # {} PROVE FALSE
  OBVIOUS
<1>2. PICK k \in Wrong : \A y \in Wrong : k <= y
  BY <1>1, NatMin
<1>3. k \in Nat /\ k # 0 /\ ~Positional(digits[k], k)
  BY <1>2
<1>. DEFINE h == k \div 10
            x == Numerals[(k % 10) + 1]
<1>4. digits[k] = Append(digits[h], x)
  BY <1>3, DigitsDef, Zenon DEF DigitStep
<1>5. h \in Nat /\ h < k /\ (h = 0 => k \in 1 .. 9 /\ k % 10 = k)
  BY <1>3
<1>6. CASE h = 0
  <2>1. digits[0] = <<>>
    BY DigitsDef DEF DigitStep
  <2>2. x = Numerals[k + 1]
    BY <1>5, <1>6
  <2>3. Positional(<<Numerals[k + 1]>>, k)
    BY <1>5, <1>6, PositionalDigit
  <2>. HIDE DEF x, h
  <2>4. Append(<<>>, x) = <<x>>
    OBVIOUS
  <2>. QED
    BY <1>3, <1>4, <1>6, <2>1, <2>2, <2>3, <2>4, Zenon
<1>7. CASE h # 0
  <2>1. h \notin Wrong
    BY <1>2, <1>3, <1>5
  <2>2. Positional(digits[h], h)
    BY <1>5, <1>7, <2>1
  <2>. QED
    BY <1>3, <1>4, <2>2, PositionalNext
<1>. QED
  BY <1>6, <1>7

LEMMA ItoaPositional == ASSUME NEW k \in Nat, k # 0 PROVE Positional(itoa(k), k)
<1>1. CASE k < 10
  <2>1. itoa(k) = <<Numerals[k + 1]>>
    BY <1>1, Zenon DEF itoa
  <2>2. k \in 1 .. 9
    BY <1>1
  <2>. QED
    BY <2>1, <2>2, PositionalDigit
<1>2. CASE ~(k < 10)
  <2>1. itoa(k) = digits[k]
    BY <1>2, Zenon DEF itoa
  <2>. QED
    BY <2>1, DigitsPositional
<1>. QED
  BY <1>1, <1>2

LEMMA ItoaInDecimal == ASSUME NEW k \in Nat, k # 0 PROVE itoa(k) = InDecimal(k)
<1>. DEFINE s == itoa(k)
            l == Len(s)
            d == CHOOSE d \in 1 .. k : Power[d - 1] <= k /\ k < Power[d]
            f == [p \in 1 .. d |-> Numerals[((k \div Power[d - p]) % 10) + 1]]
<1>1. Positional(s, k)
  BY ItoaPositional
<1>. HIDE DEF s
<1>2. /\ s \in Seq(Digit) /\ l \in Nat /\ l >= 1
      /\ Power[l - 1] <= k /\ k < Power[l]
      /\ \A p \in 1 .. l : s[p] = Numerals[((k \div Power[l - p]) % 10) + 1]
  BY <1>1 DEF Positional
<1>. HIDE DEF l
<1>3. l - 1 \in Nat /\ Power[l - 1] \in Nat /\ Power[l - 1] > l - 1 /\ l \in 1 .. k
  <2>1. l - 1 \in Nat
    BY <1>2
  <2>2. Power[l - 1] \in Nat /\ Power[l - 1] > l - 1
    BY <2>1, PowerNext
  <2>. QED
    BY <1>2, <2>1, <2>2
<1>4. d \in 1 .. k /\ Power[d - 1] <= k /\ k < Power[d]
  BY <1>2, <1>3, Zenon
<1>. HIDE DEF d
<1>5. d = l
  <2>0. d \in Nat /\ d - 1 \in Nat
    BY <1>4
  <2>1. /\ d \in Nat /\ d - 1 \in Nat /\ Power[d] \in Nat /\ Power[d - 1] \in Nat
        /\ Power[l] \in Nat
    BY <1>2, <2>0, PowerNext, Zenon
  <2>2. ~(d <= l - 1)
    <3>. SUFFICES ASSUME d <= l - 1 PROVE FALSE
      OBVIOUS
    <3>1. Power[d] <= Power[l - 1]
      BY <1>3, <2>1, PowerGrows
    <3>. QED
      BY <1>2, <1>3, <1>4, <2>1, <3>1
  <2>3. ~(l <= d - 1)
    <3>. SUFFICES ASSUME l <= d - 1 PROVE FALSE
      OBVIOUS
    <3>1. Power[l] <= Power[d - 1]
      BY <1>2, <2>1, PowerGrows
    <3>. QED
      BY <1>2, <1>4, <2>1, <3>1
  <2>. QED
    BY <1>2, <2>1, <2>2, <2>3
<1>6. f = s
  <2>1. s = [p \in 1 .. l |-> s[p]]
    BY <1>2 DEF l
  <2>2. f = [p \in 1 .. l |-> Numerals[((k \div Power[l - p]) % 10) + 1]]
    BY <1>5, Zenon
  <2>. QED
    BY <1>2, <2>1, <2>2, Zenon
<1>7. InDecimal(k) = f
  BY Zenon DEF InDecimal, d
<1>. QED
  BY <1>6, <1>7 DEF s

-----------------------------------------------------------------------------
(* What the first characters of a query are rewritten to.                  *)

Char == STRING \cup {"$"} \cup Digit

Piece(q, j)   == IF j \in Marks(q) THEN <<"$">> \o Numeral(q, j) ELSE <<q[j]>>
Pieces(q)     == [j \in DOMAIN q |-> Piece(q, j)]
Flat(q)       == CHOOSE f : FlatTo(f, Pieces(q), Len(q))
Built(q, m)   == IF m = 0 THEN <<>> ELSE Flat(q)[m]
QuotesTo(q, m) == {k \in 1 .. m : q[k] = "'"}
MarksTo(q, m)  == {k \in Marks(q) : k <= m}

LEMMA Counted ==
    ASSUME NEW q \in Seq(STRING), NEW m \in 0 .. Len(q)
    PROVE  /\ IsFiniteSet(QuotesTo(q, m)) /\ Cardinality(QuotesTo(q, m)) \in Nat
           /\ IsFiniteSet(MarksTo(q, m)) /\ Cardinality(MarksTo(q, m)) \in Nat
           /\ IsFiniteSet(Marks(q)) /\ Cardinality(MarksTo(q, m)) <= Cardinality(Marks(q))
           /\ Cardinality(Marks(q)) \in Nat
<1>1. IsFiniteSet(1 .. Len(q))
  BY FS_Interval
<1>2. /\ QuotesTo(q, m) \in SUBSET (1 .. Len(q)) /\ Marks(q) \in SUBSET (1 .. Len(q))
      /\ MarksTo(q, m) \in SUBSET Marks(q)
  BY DEF QuotesTo, Marks, MarksTo
<1>3. IsFiniteSet(QuotesTo(q, m)) /\ IsFiniteSet(Marks(q))
  BY <1>1, <1>2, FS_Subset
<1>4. IsFiniteSet(MarksTo(q, m)) /\ Cardinality(MarksTo(q, m)) <= Cardinality(Marks(q))
  BY <1>2, <1>3, FS_Subset
<1>. QED
  BY <1>3, <1>4, FS_CardinalityType

LEMMA CountNext ==
    ASSUME NEW q \in Seq(STRING), NEW j \in 1 .. Len(q)
    PROVE  /\ Cardinality(QuotesTo(q, j)) =
                IF q[j] = "'" THEN Cardinality(QuotesTo(q, j - 1)) + 1
                ELSE Cardinality(QuotesTo(q, j - 1))
           /\ Cardinality(MarksTo(q, j)) =
                IF j \in Marks(q) THEN Cardinality(MarksTo(q, j - 1)) + 1
                ELSE Cardinality(MarksTo(q, j - 1))
<1>1. j - 1 \in 0 .. Len(q) /\ Marks(q) \subseteq 1 .. Len(q)
  BY DEF Marks
<1>2. IsFiniteSet(QuotesTo(q, j - 1)) /\ IsFiniteSet(MarksTo(q, j - 1))
  BY <1>1, Counted
<1>3. j \notin QuotesTo(q, j - 1) /\ j \notin MarksTo(q, j - 1)
  BY DEF QuotesTo, MarksTo
<1>4. QuotesTo(q, j) = IF q[j] = "'" THEN QuotesTo(q, j - 1) \cup {j} ELSE QuotesTo(q, j - 1)
  BY DEF QuotesTo
<1>5. MarksTo(q, j) = IF j \in Marks(q) THEN MarksTo(q, j - 1) \cup {j} ELSE MarksTo(q, j - 1)
  BY <1>1 DEF MarksTo
<1>6. /\ Cardinality(QuotesTo(q, j - 1) \cup {j}) = Cardinality(QuotesTo(q, j - 1)) + 1
      /\ Cardinality(MarksTo(q, j - 1) \cup {j}) = Cardinality(MarksTo(q, j - 1)) + 1
  BY <1>2, <1>3, FS_AddElement
<1>. QED
  BY <1>4, <1>5, <1>6, Zenon

\* A question mark is a placeholder if the quotes before it are even in number.
LEMMA MarkOf ==
    ASSUME NEW q \in Seq(STRING), NEW j \in 1 .. Len(q)
    PROVE  j \in Marks(q) <=> q[j] = "?" /\ Cardinality(QuotesTo(q, j - 1)) % 2 = 0
BY DEF Marks, QuotesTo

LEMMA NumeralIsItoa ==
    ASSUME NEW q \in Seq(STRING), NEW j \in Marks(q)
    PROVE  /\ Numeral(q, j) = itoa(Cardinality(MarksTo(q, j)))
           /\ Numeral(q, j) \in Seq(Char)
<1>. DEFINE k == Cardinality(MarksTo(q, j))
<1>1. k \in Nat /\ k # 0
  <2>1. j \in 0 .. Len(q) /\ j \in MarksTo(q, j)
    BY DEF Marks, MarksTo
  <2>2. k \in Nat /\ IsFiniteSet(MarksTo(q, j))
    BY <2>1, Counted
  <2>. QED
    BY <2>1, <2>2, FS_EmptySet
<1>2. Numeral(q, j) = InDecimal(k)
  BY Zenon DEF Numeral, MarksTo
<1>. HIDE DEF k
<1>3. Numeral(q, j) = itoa(k)
  BY <1>1, <1>2, ItoaInDecimal
<1>4. itoa(k) \in Seq(Digit)
  BY <1>1, ItoaPositional, Zenon DEF Positional
<1>5. Digit \subseteq Char
  BY DEF Char
<1>6. itoa(k) \in Seq(Char)
  BY <1>4, <1>5
<1>. QED
  BY <1>3, <1>6 DEF k

LEMMA PieceType ==
    ASSUME NEW q \in Seq(STRING), NEW j \in 1 .. Len(q)
    PROVE  Piece(q, j) \in Seq(Char)
<1>1. CASE j \in Marks(q)
  <2>1. Numeral(q, j) \in Seq(Char) /\ "$" \in Char
    BY <1>1, NumeralIsItoa DEF Char
  <2>2. Piece(q, j) = <<"$">> \o Numeral(q, j)
    BY <1>1, Zenon DEF Piece
  <2>3. <<"$">> \in Seq(Char)
    BY <2>1
  <2>. QED
    BY <2>1, <2>2, <2>3
<1>2. CASE j \notin Marks(q)
  <2>1. Piece(q, j) = <<q[j]>> /\ q[j] \in Char
    BY <1>2 DEF Piece, Char
  <2>. QED
    BY <2>1
<1>. QED
  BY <1>1, <1>2

LEMMA BuiltNext ==
    ASSUME NEW q \in Seq(STRING), NEW j \in 1 .. Len(q)
    PROVE  Built(q, j) = Built(q, j - 1) \o Piece(q, j)
<1>0. q \in Seq(STRING) /\ Len(q) \in Nat /\ DOMAIN q = 1 .. Len(q)
  OBVIOUS
<1>1. FlatTo(Flat(q), Pieces(q), Len(q))
  BY <1>0, FlatExists, Zenon DEF Flat
<1>2. Flat(q)[j] = FlatStep(Flat(q), Pieces(q), j)
  BY <1>1, Zenon DEF FlatTo
<1>3. Pieces(q)[j] = Piece(q, j)
  BY <1>0 DEF Pieces
<1>4. j # 0 /\ (j # 1 => j - 1 # 0) /\ (j = 1 => j - 1 = 0)
  BY <1>0
<1>5. CASE j = 1
  <2>1. Built(q, j) = Piece(q, j)
    BY <1>2, <1>3, <1>4, <1>5, Zenon DEF Built, FlatStep
  <2>2. Built(q, j - 1) = <<>>
    BY <1>4, <1>5, Zenon DEF Built
  <2>3. Piece(q, j) \in Seq(Char)
    BY PieceType
  <2>. QED
    BY <2>1, <2>2, <2>3
<1>6. CASE j # 1
  BY <1>2, <1>3, <1>4, <1>6, Zenon DEF Built, FlatStep
<1>. QED
  BY <1>5, <1>6

LEMMA BuiltAll ==
    ASSUME NEW q \in Seq(STRING)
    PROVE  Built(q, Len(q)) = FlattenSeq(Pieces(q))
<1>0. /\ q \in Seq(STRING) /\ Len(q) \in Nat /\ DOMAIN q = 1 .. Len(q)
      /\ Len(Pieces(q)) = Len(q)
  <2>1. q \in Seq(STRING)
    OBVIOUS
  <2>2. DOMAIN Pieces(q) = 1 .. Len(q) /\ Pieces(q) \in Seq(Seq(Char))
    BY <2>1, PieceType DEF Pieces
  <2>. QED
    BY <2>1, <2>2
<1>1. CASE Len(q) = 0
  <2>1. Pieces(q) = <<>>
    BY <1>0, <1>1 DEF Pieces
  <2>2. FlattenSeq(Pieces(q)) = Pieces(q)
    BY <1>0, <1>1, Zenon DEF FlattenSeq
  <2>. QED
    BY <1>1, <2>1, <2>2 DEF Built
<1>2. CASE Len(q) # 0
  <2>1. FlattenSeq(Pieces(q)) = Flat(q)[Len(q)]
    BY <1>0, <1>2, Zenon DEF FlattenSeq, Flat, FlatTo, FlatStep
  <2>. QED
    BY <1>2, <2>1, Zenon DEF Built
<1>. QED
  BY <1>1, <1>2

\* The inductive invariant: what is written is the rewriting of what is read, the
\* counter is the next placeholder's number, and inString the parity of the quotes.
RewriteInv ==
    /\ query \in Seq(STRING) /\ i \in 1 .. Len(query) + 1
    /\ n = Cardinality(MarksTo(query, i - 1)) + 1
    /\ inString \in BOOLEAN
    /\ inString <=> Cardinality(QuotesTo(query, i - 1)) % 2 = 1
    /\ b \in Seq(Char) /\ b = Built(query, i - 1)

\* What a character adds to the count of quotes, the count of placeholders and
\* the text.
LEMMA Read ==
    ASSUME RewriteInv, i <= Len(query)
    PROVE  /\ query \in Seq(STRING) /\ i \in 1 .. Len(query) /\ query[i] \in Char
           /\ (i + 1) - 1 = i /\ i + 1 \in 1 .. Len(query) + 1
           /\ Cardinality(QuotesTo(query, i - 1)) \in Nat
           /\ Cardinality(MarksTo(query, i - 1)) \in Nat
           /\ Built(query, i) = b \o Piece(query, i)
           /\ i \in Marks(query) <=> query[i] = "?" /\ ~inString
<1>1. /\ query \in Seq(STRING) /\ i \in 1 .. Len(query)
      /\ (i + 1) - 1 = i /\ i + 1 \in 1 .. Len(query) + 1 /\ i - 1 \in 0 .. Len(query)
  BY DEF RewriteInv
<1>2. query[i] \in Char
  BY <1>1 DEF Char
<1>3. Cardinality(QuotesTo(query, i - 1)) \in Nat /\ Cardinality(MarksTo(query, i - 1)) \in Nat
  BY <1>1, Counted
<1>4. Built(query, i) = b \o Piece(query, i)
  BY <1>1, BuiltNext DEF RewriteInv
<1>5. i \in Marks(query) <=> query[i] = "?" /\ ~inString
  <2>. DEFINE c == Cardinality(QuotesTo(query, i - 1))
  <2>1. i \in Marks(query) <=> query[i] = "?" /\ c % 2 = 0
    BY <1>1, MarkOf
  <2>2. (inString <=> c % 2 = 1) /\ c \in Nat
    BY <1>3 DEF RewriteInv
  <2>. HIDE DEF c
  <2>3. c % 2 = 0 <=> ~(c % 2 = 1)
    BY <2>2
  <2>. QED
    BY <2>1, <2>2, <2>3
<1>. QED
  BY <1>1, <1>2, <1>3, <1>4, <1>5

LEMMA Parity ==
    ASSUME NEW c \in Nat
    PROVE  (c + 1) % 2 = 1 <=> ~(c % 2 = 1)
OBVIOUS

\* A character that is no placeholder is copied.
LEMMA CopyInv ==
    ASSUME RewriteInv, i <= Len(query), i \notin Marks(query),
           UNCHANGED <<query, n>>, i' = i + 1, b' = Append(b, query[i]), inString' \in BOOLEAN,
           inString' <=> IF query[i] = "'" THEN ~inString ELSE inString
    PROVE  RewriteInv'
<1>1. /\ query \in Seq(STRING) /\ i \in 1 .. Len(query) /\ query[i] \in Char
      /\ (i + 1) - 1 = i /\ i + 1 \in 1 .. Len(query) + 1
      /\ Cardinality(QuotesTo(query, i - 1)) \in Nat
      /\ Built(query, i) = b \o Piece(query, i)
  BY Read
<1>2. Piece(query, i) = <<query[i]>>
  BY Zenon DEF Piece
<1>3. b \in Seq(Char)
  BY DEF RewriteInv
<1>4. b' \in Seq(Char) /\ b' = Built(query, i)
  BY <1>1, <1>2, <1>3
<1>5. Cardinality(MarksTo(query, i)) = Cardinality(MarksTo(query, i - 1))
  BY <1>1, CountNext, Zenon
<1>. DEFINE c == Cardinality(QuotesTo(query, i - 1))
            d == Cardinality(QuotesTo(query, i))
<1>6. d = IF query[i] = "'" THEN c + 1 ELSE c
  BY <1>1, CountNext, Zenon
<1>7. inString <=> c % 2 = 1
  BY DEF RewriteInv
<1>8. (c + 1) % 2 = 1 <=> ~(c % 2 = 1)
  BY <1>1, Parity
<1>. HIDE DEF c, d
<1>9. inString' <=> d % 2 = 1
  BY <1>6, <1>7, <1>8, Zenon
<1>10. query' = query /\ i' - 1 = i /\ i' \in 1 .. Len(query) + 1
  BY <1>1
<1>11. n' = Cardinality(MarksTo(query, i' - 1)) + 1 /\ query \in Seq(STRING)
  BY <1>5, <1>10, Zenon DEF RewriteInv
<1>12. inString' <=> Cardinality(QuotesTo(query, i' - 1)) % 2 = 1
  BY <1>9, <1>10, Zenon DEF d
<1>13. b' = Built(query, i' - 1)
  BY <1>4, <1>10, Zenon
<1>. QED
  BY <1>4, <1>10, <1>11, <1>12, <1>13, Zenon DEF RewriteInv

LEMMA PlaceholderInv == ASSUME RewriteInv, Placeholder PROVE RewriteInv'
<1>0. /\ i <= Len(query) /\ query[i] = "?" /\ ~inString /\ UNCHANGED <<query, inString>>
      /\ b' = Append(b, "$") \o itoa(n) /\ n' = n + 1 /\ i' = i + 1
  BY DEF Placeholder, AtChar
<1>1. /\ query \in Seq(STRING) /\ i \in 1 .. Len(query) /\ i \in Marks(query)
      /\ (i + 1) - 1 = i /\ i + 1 \in 1 .. Len(query) + 1
      /\ Cardinality(MarksTo(query, i - 1)) \in Nat
      /\ Built(query, i) = b \o Piece(query, i)
  BY <1>0, Read
<1>2. /\ Cardinality(MarksTo(query, i)) = Cardinality(MarksTo(query, i - 1)) + 1
      /\ query[i] # "'" => Cardinality(QuotesTo(query, i)) = Cardinality(QuotesTo(query, i - 1))
  BY <1>1, CountNext, Zenon
<1>3. n = Cardinality(MarksTo(query, i)) /\ b \in Seq(Char) /\ query \in Seq(STRING)
  BY <1>2 DEF RewriteInv
<1>4. Numeral(query, i) = itoa(n) /\ Numeral(query, i) \in Seq(Char)
  BY <1>1, <1>3, NumeralIsItoa
<1>5. Piece(query, i) = <<"$">> \o itoa(n)
  BY <1>1, <1>4, Zenon DEF Piece
<1>6. itoa(n) \in Seq(Char) /\ "$" \in Char
  BY <1>4 DEF Char
<1>7. b' \in Seq(Char) /\ b' = Built(query, i)
  <2>1. Append(b, "$") \o itoa(n) = b \o (<<"$">> \o itoa(n))
    BY <1>3, <1>6, AppendConcat
  <2>2. Append(b, "$") \in Seq(Char)
    BY <1>3, <1>6
  <2>3. Append(b, "$") \o itoa(n) \in Seq(Char)
    BY <1>6, <2>2
  <2>. QED
    BY <1>0, <1>1, <1>5, <2>1, <2>3
<1>8. query' = query /\ i' - 1 = i /\ i' \in 1 .. Len(query) + 1
  BY <1>0, <1>1
<1>9. inString' \in BOOLEAN /\ (inString' <=> Cardinality(QuotesTo(query, i)) % 2 = 1)
  <2>1. query[i] # "'"
    BY <1>0
  <2>. QED
    BY <1>0, <1>2, <2>1, Zenon DEF RewriteInv
<1>10. n' = Cardinality(MarksTo(query, i)) + 1
  BY <1>0, <1>3
<1>. QED
  BY <1>3, <1>7, <1>8, <1>9, <1>10, Zenon DEF RewriteInv

\* A doubled quote in a literal: two characters are copied.
LEMMA DoubledInv ==
    ASSUME RewriteInv, i < Len(query), query[i] = "'", query[i + 1] = "'",
           UNCHANGED <<query, n, inString>>, i' = i + 2, b' = b \o <<"'", "'">>
    PROVE  RewriteInv'
<1>. DEFINE j == i + 1
<1>1. /\ query \in Seq(STRING) /\ i \in 1 .. Len(query) /\ "'" \in Char /\ j - 1 = i
      /\ Cardinality(QuotesTo(query, i - 1)) \in Nat
      /\ Built(query, i) = b \o Piece(query, i) /\ i \notin Marks(query)
  <2>1. i <= Len(query)
    BY DEF RewriteInv
  <2>. QED
    BY <2>1, Read
<1>2. /\ j \in 1 .. Len(query) /\ i + 2 \in 1 .. Len(query) + 1 /\ (i + 2) - 1 = j
      /\ query[j] = "'" /\ j \notin Marks(query)
  BY <1>1, MarkOf
<1>. HIDE DEF j
<1>3. b \in Seq(Char) /\ query \in Seq(STRING)
  BY DEF RewriteInv
<1>4. Built(query, j) = Built(query, i) \o Piece(query, j)
  BY <1>1, <1>2, <1>3, BuiltNext
<1>5. Piece(query, i) = <<"'">> /\ Piece(query, j) = <<"'">>
  BY <1>1, <1>2, Zenon DEF Piece
<1>6. b' = Built(query, j) /\ b' \in Seq(Char)
  <2>1. (b \o <<"'">>) \o <<"'">> = b \o <<"'", "'">> /\ b \o <<"'", "'">> \in Seq(Char)
    BY <1>1, <1>3, ConcatTwo
  <2>. QED
    BY <1>1, <1>4, <1>5, <2>1
<1>. DEFINE c == Cardinality(QuotesTo(query, i - 1))
            d == Cardinality(QuotesTo(query, j))
<1>7. Cardinality(QuotesTo(query, i)) = c + 1
  BY <1>1, CountNext, Zenon
<1>8. d = (c + 1) + 1
  <2>1. d = Cardinality(QuotesTo(query, j - 1)) + 1
    BY <1>1, <1>2, CountNext, Zenon
  <2>. QED
    BY <1>1, <1>7, <2>1
<1>9. Cardinality(MarksTo(query, j)) = Cardinality(MarksTo(query, i - 1))
  <2>1. Cardinality(MarksTo(query, i)) = Cardinality(MarksTo(query, i - 1))
    BY <1>1, CountNext, Zenon
  <2>2. Cardinality(MarksTo(query, j)) = Cardinality(MarksTo(query, j - 1))
    BY <1>1, <1>2, CountNext, Zenon
  <2>. QED
    BY <1>1, <2>1, <2>2
<1>10. d % 2 = 1 <=> c % 2 = 1
  <2>1. c \in Nat /\ c + 1 \in Nat
    BY <1>1
  <2>. HIDE DEF c, d
  <2>. QED
    BY <1>8, <2>1, Parity
<1>11. query' = query /\ i' - 1 = j /\ i' \in 1 .. Len(query) + 1
  BY <1>2
<1>12. inString' \in BOOLEAN /\ (inString' <=> d % 2 = 1)
  BY <1>10, Zenon DEF RewriteInv
<1>13. n' = Cardinality(MarksTo(query, j)) + 1
  BY <1>9, Zenon DEF RewriteInv
<1>. QED
  BY <1>3, <1>6, <1>11, <1>12, <1>13, Zenon DEF RewriteInv

LEMMA RewriteInvInit ==
    ASSUME RewriteInit
    PROVE  RewriteInv
<1>1. /\ query \in Seq(STRING) /\ i - 1 = 0 /\ i \in 1 .. Len(query) + 1
      /\ n = 1 /\ inString = FALSE /\ b = <<>>
  BY QueriesAssumption DEF RewriteInit
<1>2. MarksTo(query, 0) = {} /\ QuotesTo(query, 0) = {}
  BY <1>1 DEF MarksTo, QuotesTo, Marks
<1>3. Cardinality(MarksTo(query, 0)) = 0 /\ Cardinality(QuotesTo(query, 0)) = 0
  BY <1>2, FS_EmptySet
<1>4. n = Cardinality(MarksTo(query, i - 1)) + 1
  BY <1>1, <1>3
<1>5. ~(Cardinality(QuotesTo(query, i - 1)) % 2 = 1)
  BY <1>1, <1>3
<1>6. b \in Seq(Char) /\ b = Built(query, i - 1)
  BY <1>1 DEF Built
<1>. QED
  BY <1>1, <1>4, <1>5, <1>6, Zenon DEF RewriteInv

(***************************************************************************)
(* postgres.go rewritePlaceholders, for every query and any number of       *)
(* placeholders: quotes, doubled quotes and unterminated literals wherever  *)
(* they are, the k-th placeholder becomes $k and every other character      *)
(* stays.                                                                   *)
(***************************************************************************)
THEOREM PlaceholdersAreNumbered == RewriteSpec => []RewriteIsRight
<1>1. RewriteInit => RewriteInv
  BY RewriteInvInit
<1>2. RewriteInv /\ [RewriteNext]_rewriteVars => RewriteInv'
  <2>. SUFFICES ASSUME RewriteInv, [RewriteNext]_rewriteVars PROVE RewriteInv'
    OBVIOUS
  <2>1. CASE OpenQuote
    <3>1. i <= Len(query) /\ query[i] = "'" /\ i \notin Marks(query)
      BY <2>1, Read DEF OpenQuote, AtChar
    <3>. QED
      BY <2>1, <3>1, CopyInv DEF OpenQuote
  <2>2. CASE InnerQuote
    <3>1. i <= Len(query) /\ query[i] = "'" /\ i \notin Marks(query)
      BY <2>2, Read DEF InnerQuote, AtChar
    <3>2. CASE i < Len(query) /\ query[i + 1] = "'"
      <4>1. UNCHANGED <<query, n, inString>> /\ i' = i + 2 /\ b' = b \o <<"'", "'">>
        BY <2>2, <3>2, Zenon DEF InnerQuote
      <4>. QED
        BY <3>1, <3>2, <4>1, DoubledInv
    <3>3. CASE ~(i < Len(query) /\ query[i + 1] = "'")
      <4>1. UNCHANGED <<query, n>> /\ i' = i + 1 /\ b' = Append(b, "'") /\ inString' = FALSE /\ inString
        BY <2>2, <3>3, Zenon DEF InnerQuote
      <4>. QED
        BY <3>1, <4>1, CopyInv
    <3>. QED
      BY <3>2, <3>3
  <2>3. CASE Placeholder
    BY <2>3, PlaceholderInv
  <2>4. CASE Other
    <3>1. /\ i <= Len(query) /\ query[i] # "'" /\ i \notin Marks(query)
          /\ UNCHANGED <<query, n, inString>> /\ i' = i + 1 /\ b' = Append(b, query[i])
      BY <2>4, Read DEF Other
    <3>2. inString' \in BOOLEAN
      BY <3>1 DEF RewriteInv
    <3>. QED
      BY <3>1, <3>2, CopyInv
  <2>5. CASE UNCHANGED rewriteVars
    BY <2>5 DEF rewriteVars, RewriteInv
  <2>. QED
    BY <2>1, <2>2, <2>3, <2>4, <2>5 DEF RewriteNext
<1>3. RewriteInv => RewriteIsRight
  <2>. SUFFICES ASSUME RewriteInv, i > Len(query) PROVE b = FlattenSeq(Pieces(query))
    BY Zenon DEF RewriteIsRight, Pieces, Piece
  <2>1. i - 1 = Len(query)
    BY DEF RewriteInv
  <2>. QED
    BY <2>1, BuiltAll DEF RewriteInv
<1>. QED
  BY <1>1, <1>2, <1>3, PTL DEF RewriteSpec
=============================================================================
