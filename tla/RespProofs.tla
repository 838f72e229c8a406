----------------------------- MODULE RespProofs -----------------------------
(***************************************************************************)
(* The RESP Reader, for every set of items built by writeValue, typed by   *)
(* hand or malformed, every script of them and every way the bytes are cut *)
(* into pieces: what it returns is what was sent.                          *)
(***************************************************************************)
EXTENDS RespStream, DataLemmas

-----------------------------------------------------------------------------
(* Numbers: the function of Number exists, and Atoi undoes Decimal.        *)

NumberStep(f, s, k) == IF k = 0 THEN 0 ELSE 10 * f[k - 1] + DigitValue(s[k])
NumberTo(f, s, m)   == f = [k \in 0 .. m |-> NumberStep(f, s, k)]

LEMMA NumberExtend ==
    ASSUME NEW s, NEW m \in Nat, NEW f, NumberTo(f, s, m)
    PROVE  \E g : NumberTo(g, s, m + 1)
<1>. DEFINE d == NumberStep(f, s, m + 1)
            g == [k \in 0 .. m + 1 |-> IF k <= m THEN f[k] ELSE d]
<1>. HIDE DEF d
<1>1. \A k \in 0 .. m : g[k] = f[k] /\ f[k] = NumberStep(f, s, k)
  BY DEF NumberTo
<1>2. g[m + 1] = d
  OBVIOUS
<1>. HIDE DEF g
<1>3. ASSUME NEW k \in 0 .. m + 1 PROVE NumberStep(g, s, k) = NumberStep(f, s, k)
  <2>1. CASE k = 0
    BY <2>1, Zenon DEF NumberStep
  <2>2. CASE k # 0
    <3>1. k - 1 \in 0 .. m
      BY <2>2
    <3>2. g[k - 1] = f[k - 1]
      BY <1>1, <3>1
    <3>. QED
      BY <2>2, <3>2, Zenon DEF NumberStep
  <2>. QED
    BY <2>1, <2>2
<1>4. ASSUME NEW k \in 0 .. m + 1 PROVE g[k] = NumberStep(g, s, k)
  <2>1. CASE k \in 0 .. m
    BY <1>1, <1>3, <2>1
  <2>2. CASE k = m + 1
    BY <1>2, <1>3, <2>2 DEF d
  <2>. QED
    BY <2>1, <2>2
<1>5. g = [k \in 0 .. m + 1 |-> g[k]]
  BY DEF g
<1>6. NumberTo(g, s, m + 1)
  BY <1>4, <1>5 DEF NumberTo
<1>. QED
  BY <1>6

LEMMA NumberExists == ASSUME NEW s, NEW m \in Nat PROVE \E f : NumberTo(f, s, m)
<1>. DEFINE S == {k \in Nat : \E f : NumberTo(f, s, k)}
<1>1. 0 \in S
  <2>. DEFINE f == [k \in 0 .. 0 |-> 0]
  <2>1. \A k \in 0 .. 0 : NumberStep(f, s, k) = 0
    BY DEF NumberStep
  <2>2. NumberTo(f, s, 0)
    <3>. HIDE DEF f
    <3>1. f = [k \in 0 .. 0 |-> 0]
      BY DEF f
    <3>. QED
      BY <2>1, <3>1 DEF NumberTo
  <2>. QED
    BY <2>2
<1>2. \A k \in Nat : k \in S => k + 1 \in S
  BY NumberExtend
<1>3. Nat \subseteq S
  <2>. HIDE DEF S
  <2>. QED
    BY <1>1, <1>2, NatSetInduction
<1>. QED
  BY <1>3

\* f counts up the digits of s.
Counts(f, s) == f[0] = 0 /\ \A k \in 1 .. Len(s) : f[k] = 10 * f[k - 1] + DigitValue(s[k])

LEMMA NumberPick ==
    ASSUME NEW s, Len(s) \in Nat
    PROVE  \E f : Number(s) = f[Len(s)] /\ Counts(f, s)
<1>. DEFINE f == CHOOSE g : NumberTo(g, s, Len(s))
<1>1. NumberTo(f, s, Len(s))
  BY NumberExists, Zenon
<1>2. Number(s) = f[Len(s)]
  BY Zenon DEF Number, NumberTo, NumberStep
<1>. HIDE DEF f
<1>3. \A k \in 0 .. Len(s) : f[k] = NumberStep(f, s, k)
  BY <1>1, Zenon DEF NumberTo
<1>4. f[0] = 0
  <2>1. 0 \in 0 .. Len(s)
    OBVIOUS
  <2>. QED
    BY <1>3, <2>1, Zenon DEF NumberStep
<1>5. ASSUME NEW k \in 1 .. Len(s) PROVE f[k] = 10 * f[k - 1] + DigitValue(s[k])
  <2>1. k \in 0 .. Len(s) /\ k # 0
    OBVIOUS
  <2>. QED
    BY <1>3, <2>1, Zenon DEF NumberStep
<1>. QED
  BY <1>2, <1>4, <1>5, Zenon DEF Counts

LEMMA DigitOf ==
    ASSUME NEW k \in 0 .. 9
    PROVE  /\ DigitValue(Numerals[k + 1]) = k /\ Numerals[k + 1] \in Range(Numerals)
           /\ Numerals[k + 1] \notin {"+", "-", LF}
<1>1. \A j \in 0 .. 9 : Numerals[j + 1] = Numerals[k + 1] => j = k
  BY DEF Numerals
<1>2. DigitValue(Numerals[k + 1]) = k
  <2>1. \E j \in 0 .. 9 : Numerals[j + 1] = Numerals[k + 1]
    OBVIOUS
  <2>. QED
    BY <1>1, <2>1 DEF DigitValue
<1>3. k + 1 \in 1 .. 10 /\ DOMAIN Numerals = 1 .. 10
  BY DEF Numerals
<1>4. Numerals[k + 1] \in Range(Numerals)
  BY <1>3, Zenon DEF Range
<1>5. Numerals[k + 1] \notin {"+", "-", LF}
  BY DEF Numerals, LF
<1>. QED
  BY <1>2, <1>4, <1>5

Numeric == Range(Numerals)
\* s are the digits of n.
Spells(s, n) == s \in Seq(Numeric) /\ \A f : Counts(f, s) => f[Len(s)] = n

LEMMA SpellsNext ==
    ASSUME NEW m \in Nat, NEW s, Spells(s, m), NEW d \in 0 .. 9
    PROVE  Spells(Append(s, Numerals[d + 1]), 10 * m + d) /\ Append(s, Numerals[d + 1]) # <<>>
<1>. DEFINE x == Numerals[d + 1]
            t == Append(s, x)
<1>1. x \in Numeric /\ DigitValue(x) = d
  BY DigitOf DEF Numeric
<1>. HIDE DEF x
<1>2. /\ s \in Seq(Numeric) /\ Len(s) \in Nat /\ t \in Seq(Numeric) /\ Len(t) = Len(s) + 1
      /\ t[Len(s) + 1] = x /\ \A k \in 1 .. Len(s) : t[k] = s[k] /\ t # <<>>
  BY <1>1 DEF Spells
<1>. HIDE DEF t
<1>3. ASSUME NEW f, Counts(f, t) PROVE f[Len(t)] = 10 * m + d
  <2>1. ASSUME NEW k \in 1 .. Len(s) PROVE f[k] = 10 * f[k - 1] + DigitValue(s[k])
    <3>1. k \in 1 .. Len(t) /\ t[k] = s[k]
      BY <1>2
    <3>. QED
      BY <1>3, <3>1, Zenon DEF Counts
  <2>2. f[0] = 0
    BY <1>3, Zenon DEF Counts
  <2>3. Counts(f, s)
    BY <2>1, <2>2, Zenon DEF Counts
  <2>4. f[Len(s)] = m
    BY <2>3, Zenon DEF Spells
  <2>5. Len(t) \in 1 .. Len(t) /\ Len(t) - 1 = Len(s) /\ t[Len(t)] = x
    BY <1>2
  <2>6. f[Len(t)] = 10 * f[Len(t) - 1] + DigitValue(t[Len(t)])
    BY <1>3, <2>5, Zenon DEF Counts
  <2>. QED
    BY <1>1, <2>4, <2>5, <2>6, Zenon
<1>4. Spells(t, 10 * m + d)
  BY <1>2, <1>3, Zenon DEF Spells
<1>5. t # <<>>
  <2>1. Len(t) # 0
    BY <1>2
  <2>. QED
    BY <2>1
<1>. QED
  BY <1>4, <1>5 DEF t, x

LEMMA SpellsNone == Spells(<<>>, 0)
<1>1. Len(<<>>) = 0 /\ <<>> \in Seq(Numeric)
  OBVIOUS
<1>. QED
  BY <1>1, Zenon DEF Spells, Counts

LEMMA DigitsSpell == \A n \in Nat : Spells(digits[n], n) /\ (n # 0 => digits[n] # <<>>)
<1>. DEFINE Wrong == {n \in Nat : ~(Spells(digits[n], n) /\ (n # 0 => digits[n] # <<>>))}
<1>1. SUFFICES ASSUME Wrong # {} PROVE FALSE
  OBVIOUS
<1>2. PICK n \in Wrong : \A y \in Wrong : n <= y
  BY <1>1, NatMin
<1>3. n \in Nat /\ ~(Spells(digits[n], n) /\ (n # 0 => digits[n] # <<>>))
  BY <1>2
<1>4. digits[n] = DigitStep(digits, n)
  BY <1>3, DigitsDef
<1>5. CASE n = 0
  <2>1. digits[n] = <<>>
    BY <1>4, <1>5, Zenon DEF DigitStep
  <2>. QED
    BY <1>3, <1>5, <2>1, SpellsNone
<1>6. CASE n # 0
  <2>. DEFINE h == n \div 10
              d == n % 10
  <2>1. h \in Nat /\ h < n /\ d \in 0 .. 9 /\ n = 10 * h + d
    BY <1>3, <1>6
  <2>2. digits[n] = Append(digits[h], Numerals[d + 1])
    BY <1>4, <1>6, Zenon DEF DigitStep
  <2>. HIDE DEF h, d
  <2>3. h \notin Wrong
    BY <1>2, <1>3, <2>1
  <2>4. Spells(digits[h], h)
    BY <2>1, <2>3
  <2>5. Spells(Append(digits[h], Numerals[d + 1]), 10 * h + d)
    BY <2>1, <2>4, SpellsNext
  <2>6. Append(digits[h], Numerals[d + 1]) # <<>>
    BY <2>1, <2>4, SpellsNext
  <2>. QED
    BY <1>3, <2>1, <2>2, <2>5, <2>6, Zenon
<1>. QED
  BY <1>5, <1>6

LEMMA ItoaSpells == ASSUME NEW n \in Nat PROVE Spells(itoa(n), n) /\ itoa(n) # <<>>
<1>1. CASE n < 10
  <2>. DEFINE x == Numerals[n + 1]
  <2>0. n \in 0 .. 9 /\ 10 * 0 + n = n
    BY <1>1
  <2>1. Spells(Append(<<>>, x), 10 * 0 + n) /\ Append(<<>>, x) # <<>>
    BY <2>0, SpellsNext, SpellsNone
  <2>2. itoa(n) = <<x>>
    BY <1>1, Zenon DEF itoa
  <2>. HIDE DEF x
  <2>3. Append(<<>>, x) = <<x>>
    OBVIOUS
  <2>. QED
    BY <2>0, <2>1, <2>2, <2>3, Zenon
<1>2. CASE ~(n < 10)
  <2>1. itoa(n) = digits[n] /\ n # 0
    <3>1. itoa(n) = digits[n]
      BY <1>2, Zenon DEF itoa
    <3>. QED
      BY <1>2, <3>1
  <2>. QED
    BY <2>1, DigitsSpell, Zenon
<1>. QED
  BY <1>1, <1>2

LEMMA NumericBytes == /\ Numeric \subseteq Byte \ {LF} /\ "+" \notin Numeric /\ "-" \notin Numeric
                      /\ "-" \in Byte \ {LF} /\ CR \in Byte /\ LF \in Byte /\ TypeByte \subseteq Byte \ {LF}
<1>1. LF \notin Numeric /\ "+" \notin Numeric /\ "-" \notin Numeric
  BY DEF Numeric, Range, Numerals, LF
<1>2. Numeric \subseteq Byte /\ TypeByte \subseteq Byte /\ LF \in Byte /\ CR \in Byte
  BY ByteAssumption DEF Numeric
<1>3. "-" \in TypeByte /\ LF \notin TypeByte
  BY DEF TypeByte, LF
<1>. QED
  BY <1>1, <1>2, <1>3

LEMMA SpelledNumber ==
    ASSUME NEW s, NEW n, Spells(s, n), s # <<>>
    PROVE  /\ Number(s) = n /\ s[1] \in Numeric /\ s \in Seq(Byte \ {LF})
           /\ Range(s) \subseteq Numeric
<1>1. s \in Seq(Numeric) /\ Len(s) \in Nat
  BY DEF Spells
<1>2. PICK f : Number(s) = f[Len(s)] /\ Counts(f, s)
  BY <1>1, NumberPick
<1>3. Number(s) = n
  BY <1>2, Zenon DEF Spells
<1>4. s[1] \in Numeric /\ Range(s) \subseteq Numeric
  BY <1>1, RangeTyped
<1>5. s \in Seq(Byte \ {LF})
  <2>. DEFINE B == Byte \ {LF}
  <2>1. Numeric \subseteq B
    BY NumericBytes
  <2>. HIDE DEF B
  <2>2. s \in Seq(B)
    BY <1>1, <2>1
  <2>. QED
    BY <2>2 DEF B
<1>. QED
  BY <1>3, <1>4, <1>5

\* What fmt writes strconv reads.
LEMMA DecimalFacts ==
    ASSUME NEW n \in Int
    PROVE  /\ Decimal(n) \in Seq(Byte \ {LF})
           /\ IsNumeral(Decimal(n)) /\ Atoi(Decimal(n)) = n
<1>. DEFINE D == Decimal(n)
<1>1. CASE n < 0
  <2>. DEFINE s == itoa(-n)
              B == Byte \ {LF}
  <2>1. Spells(s, -n) /\ s # <<>>
    <3>1. -n \in Nat
      BY <1>1
    <3>. QED
      BY <3>1, ItoaSpells
  <2>2. D = <<"-">> \o s
    BY <1>1, Zenon DEF Decimal
  <2>3. Number(s) = -n /\ s \in Seq(B) /\ Range(s) \subseteq Numeric
    BY <2>1, SpelledNumber
  <2>. HIDE DEF s
  <2>4. "-" \in B
    BY NumericBytes
  <2>. HIDE DEF B, D
  <2>5. D \in Seq(B) /\ D[1] = "-" /\ D # <<>> /\ Tail(D) = s
    <3>1. <<"-">> \in Seq(B)
      BY <2>4
    <3>. DEFINE m == <<"-">>
    <3>2. Len(m) = 1 /\ m[1] = "-" /\ m \in Seq(B)
      BY <3>1
    <3>3. D = m \o s
      BY <2>2
    <3>. HIDE DEF m
    <3>4. D \in Seq(B) /\ Len(D) = Len(m) + Len(s)
      BY <2>3, <3>2, <3>3, ConcatFacts
    <3>5. \A k \in 1 .. Len(m) : D[k] = m[k]
      BY <2>3, <3>2, <3>3, ConcatFacts
    <3>6. \A k \in 1 .. Len(s) : D[Len(m) + k] = s[k]
      <4>1. \A k \in 1 .. Len(s) : (m \o s)[Len(m) + k] = s[k]
        BY <2>3, <3>2, ConcatFacts
      <4>. QED
        BY <3>3, <4>1, Zenon
    <3>7. D # <<>> /\ D[1] = "-"
      BY <2>3, <3>2, <3>4, <3>5
    <3>. DEFINE t == Tail(D)
    <3>8. t \in Seq(B) /\ Len(t) = Len(s) /\ \A k \in 1 .. Len(s) : t[k] = D[1 + k]
      BY <2>3, <3>2, <3>4, <3>7
    <3>. HIDE DEF t
    <3>9. \A k \in 1 .. Len(t) : t[k] = s[k]
      BY <3>2, <3>6, <3>8
    <3>10. t = s
      BY <2>3, <3>8, <3>9, SeqEqual
    <3>. QED
      BY <3>4, <3>7, <3>10 DEF t
  <2>6. Unsigned(D) = s
    BY <2>5, Zenon DEF Unsigned
  <2>7. IsNumeral(D)
    BY <2>1, <2>3, <2>6, Zenon DEF IsNumeral, Numeric
  <2>8. Atoi(D) = -Number(s)
    BY <2>5, <2>6, Zenon DEF Atoi
  <2>9. Atoi(D) = n
    BY <2>3, <2>8
  <2>. QED
    BY <2>5, <2>7, <2>9 DEF B, D
<1>2. CASE ~(n < 0)
  <2>1. n \in Nat
    BY <1>2
  <2>2. D = itoa(n)
    BY <1>2, Zenon DEF Decimal
  <2>3. Spells(D, n) /\ D # <<>>
    BY <2>1, <2>2, ItoaSpells
  <2>. HIDE DEF D
  <2>4. Number(D) = n /\ D[1] \in Numeric /\ D \in Seq(Byte \ {LF}) /\ Range(D) \subseteq Numeric
    BY <2>3, SpelledNumber
  <2>5. D[1] \notin {"+", "-"}
    BY <2>4, NumericBytes
  <2>6. Unsigned(D) = D /\ D[1] # "-"
    BY <2>5, Zenon DEF Unsigned
  <2>7. IsNumeral(D)
    BY <2>3, <2>4, <2>6, Zenon DEF IsNumeral, Numeric
  <2>8. Atoi(D) = n
    BY <2>4, <2>6, Zenon DEF Atoi
  <2>. QED
    BY <2>4, <2>7, <2>8 DEF D
<1>. QED
  BY <1>1, <1>2

-----------------------------------------------------------------------------
(* Lines.                                                                  *)

IsLine(h) == /\ h \in Seq(Byte) /\ Len(h) >= 1 /\ h[Len(h)] = LF
             /\ \A j \in 1 .. Len(h) - 1 : h[j] # LF

\* Where the first line of b ends.
LEMMA LineOfFacts ==
    ASSUME NEW b \in Seq(Byte), HasLine(b)
    PROVE  \E e \in 1 .. Len(b) : /\ LineOf(b) = SubSeq(b, 1, e) /\ b[e] = LF
                                  /\ \A j \in 1 .. e - 1 : b[j] # LF
<1>. DEFINE E == {i \in DOMAIN b : b[i] = LF}
            e == Min(E)
<1>0. DOMAIN b = 1 .. Len(b) /\ Len(b) \in Nat
  OBVIOUS
<1>1. E # {} /\ E \subseteq Nat
  <2>1. \E i \in DOMAIN b : b[i] = LF
    BY DEF HasLine, Range
  <2>. QED
    BY <1>0, <2>1
<1>2. e \in E /\ \A y \in E : e <= y
  <2>. HIDE DEF E
  <2>. QED
    BY <1>1, MinFacts
<1>3. LineOf(b) = SubSeq(b, 1, e)
  BY Zenon DEF LineOf
<1>. HIDE DEF e
<1>4. e \in 1 .. Len(b) /\ b[e] = LF
  BY <1>0, <1>2
<1>5. ASSUME NEW j \in 1 .. e - 1 PROVE b[j] # LF
  <2>1. j \in 1 .. Len(b) /\ ~(e <= j)
    BY <1>0, <1>4
  <2>2. j \notin E
    BY <1>2, <2>1
  <2>. QED
    BY <1>0, <2>1, <2>2
<1>. QED
  BY <1>3, <1>4, <1>5

\* The bytes in the buffer, followed by y, begin with line h: it is the one read.
LineRead(b, y, h, r) == /\ LineOf(b) = h /\ b # <<>> /\ Head(b) = h[1] /\ Len(h) <= Len(b)
                        /\ SubSeq(b, Len(h) + 1, Len(b)) \in Seq(Byte)
                        /\ SubSeq(b, Len(h) + 1, Len(b)) \o y = r

LEMMA LineTaken ==
    ASSUME NEW b \in Seq(Byte), NEW y \in Seq(Byte), NEW h, IsLine(h), NEW r \in Seq(Byte),
           SameFlow(b, y, h, r), HasLine(b)
    PROVE  LineRead(b, y, h, r)
<1>0. h \in Seq(Byte) /\ Len(h) \in Nat /\ Len(b) \in Nat /\ Len(h) >= 1 /\ h[Len(h)] = LF
  BY DEF IsLine
<1>1. PICK e \in 1 .. Len(b) : /\ LineOf(b) = SubSeq(b, 1, e) /\ b[e] = LF
                               /\ \A j \in 1 .. e - 1 : b[j] # LF
  BY LineOfFacts
<1>. DEFINE z == h \o r
<1>2. \A k \in 1 .. Len(h) : z[k] = h[k]
  BY <1>0, ConcatFacts
<1>3. \A k \in 1 .. Len(b) : z[k] = b[k]
  <2>1. \A k \in 1 .. Len(b) : (b \o y)[k] = b[k]
    BY ConcatFacts
  <2>. QED
    BY <2>1, Zenon DEF SameFlow
<1>. HIDE DEF z
<1>4. e >= Len(h)
  <2>. SUFFICES ASSUME e < Len(h) PROVE FALSE
    BY <1>0
  <2>1. e \in 1 .. Len(h) /\ e \in 1 .. Len(h) - 1
    BY <1>0
  <2>. QED
    BY <1>1, <1>2, <1>3, <2>1 DEF IsLine
<1>5. e = Len(h)
  <2>. SUFFICES ASSUME Len(h) < e PROVE FALSE
    BY <1>0, <1>4
  <2>1. Len(h) \in 1 .. e - 1 /\ Len(h) \in 1 .. Len(b) /\ Len(h) \in 1 .. Len(h)
    BY <1>0
  <2>. QED
    BY <1>0, <1>1, <1>2, <1>3, <2>1
<1>6. Len(h) <= Len(b)
  BY <1>0, <1>5
<1>. DEFINE c == SubSeq(b, Len(h) + 1, Len(b))
            p == SubSeq(b, 1, Len(h))
<1>7. c \in Seq(Byte) /\ p = h /\ c \o y = r
  <2>1. TakenOff(b, y, h, r, Byte)
    BY <1>0, <1>6, TakeOff
  <2>. QED
    BY <2>1, Zenon DEF TakenOff
<1>8. b # <<>> /\ Head(b) = b[1] /\ 1 \in 1 .. Len(h)
  BY <1>0, <1>6
<1>9. b[1] = h[1]
  BY <1>0, <1>2, <1>3, <1>6, <1>8
<1>10. LineOf(b) = h
  BY <1>1, <1>5, <1>7, Zenon
<1>. QED
  BY <1>6, <1>7, <1>8, <1>9, <1>10, Zenon DEF LineRead

LEMMA LineThere ==
    ASSUME NEW h, IsLine(h), NEW r \in Seq(Byte), NEW b, b = h \o r
    PROVE  HasLine(b)
<1>0. h \in Seq(Byte) /\ Len(h) \in Nat /\ Len(h) >= 1 /\ h[Len(h)] = LF
  BY DEF IsLine
<1>1. b \in Seq(Byte) /\ Len(b) = Len(h) + Len(r)
  BY <1>0, ConcatFacts
<1>2. \A k \in 1 .. Len(h) : (h \o r)[k] = h[k]
  BY <1>0, ConcatFacts
<1>3. Len(h) \in 1 .. Len(h) /\ Len(h) \in 1 .. Len(b) /\ DOMAIN b = 1 .. Len(b)
  BY <1>0, <1>1
<1>4. b[Len(h)] = LF
  BY <1>0, <1>2, <1>3, Zenon
<1>. QED
  BY <1>3, <1>4, Zenon DEF HasLine, Range

\* The first line of the bytes of an item, and what follows it.
LEMMA LineFirst ==
    ASSUME NEW b \in Seq(Byte), HasLine(b)
    PROVE  /\ IsLine(LineOf(b)) /\ Len(LineOf(b)) <= Len(b)
           /\ SubSeq(b, Len(LineOf(b)) + 1, Len(b)) \in Seq(Byte)
           /\ b = LineOf(b) \o SubSeq(b, Len(LineOf(b)) + 1, Len(b))
<1>1. PICK e \in 1 .. Len(b) : /\ LineOf(b) = SubSeq(b, 1, e) /\ b[e] = LF
                               /\ \A j \in 1 .. e - 1 : b[j] # LF
  BY LineOfFacts
<1>. DEFINE h == SubSeq(b, 1, e)
            r == SubSeq(b, e + 1, Len(b))
<1>0. Len(b) \in Nat /\ e \in Nat
  OBVIOUS
<1>2. h \in Seq(Byte) /\ Len(h) = e /\ \A k \in 1 .. e : h[k] = b[k]
  BY <1>0
<1>3. r \in Seq(Byte) /\ Len(r) = Len(b) - e /\ \A k \in 1 .. Len(b) - e : r[k] = b[e + k]
  BY <1>0
<1>. HIDE DEF h, r
<1>4. IsLine(h)
  BY <1>0, <1>1, <1>2 DEF IsLine
<1>5. h \o r = b
  <2>1. Len(b) = Len(h) + Len(r)
    BY <1>0, <1>2, <1>3
  <2>2. \A k \in 1 .. Len(h) : b[k] = h[k]
    BY <1>2
  <2>3. \A k \in 1 .. Len(r) : b[Len(h) + k] = r[k]
    BY <1>2, <1>3
  <2>. QED
    BY <1>2, <1>3, <2>1, <2>2, <2>3, ConcatIs
<1>6. LineOf(b) = h /\ Len(h) <= Len(b) /\ r = SubSeq(b, Len(h) + 1, Len(b))
  <2>1. LineOf(b) = h /\ r = SubSeq(b, Len(h) + 1, Len(b))
    BY <1>1, <1>2, Zenon DEF h, r
  <2>2. Len(h) <= Len(b)
    BY <1>0, <1>2
  <2>. QED
    BY <2>1, <2>2, Zenon
<1>. QED
  BY <1>3, <1>4, <1>5, <1>6, Zenon

\* A line that ends with CRLF.
LEMMA CRLFLine ==
    ASSUME NEW l \in Seq(Byte \ {LF})
    PROVE  /\ IsLine(l \o CRLF) /\ EndsCRLF(l \o CRLF) /\ Content(l \o CRLF) = l
           /\ l \o CRLF \in Seq(Byte) /\ Len(l \o CRLF) = Len(l) + 2
           /\ (l \o CRLF)[1] = IF l = <<>> THEN CR ELSE l[1]
<1>. DEFINE h == l \o CRLF
            c == Content(h)
<1>1. CRLF \in Seq(Byte) /\ Len(CRLF) = 2 /\ CRLF[1] = CR /\ CRLF[2] = LF
  BY NumericBytes DEF CRLF
<1>2. l \in Seq(Byte) /\ Len(l) \in Nat /\ \A k \in 1 .. Len(l) : l[k] # LF
  OBVIOUS
<1>3. h \in Seq(Byte) /\ Len(h) = Len(l) + 2
  BY <1>1, <1>2, ConcatFacts
<1>4. \A k \in 1 .. Len(l) : h[k] = l[k]
  BY <1>1, <1>2, ConcatFacts
<1>5. \A k \in 1 .. 2 : h[Len(l) + k] = CRLF[k]
  <2>1. Joined(h, l, CRLF)
    BY <1>1, <1>2, ConcatJoined, Zenon
  <2>. QED
    BY <1>1, <2>1, Zenon DEF Joined
<1>. HIDE DEF h
<1>6. h[Len(l) + 1] = CR /\ h[Len(l) + 2] = LF
  BY <1>1, <1>5
<1>7. IsLine(h)
  <2>1. ASSUME NEW j \in 1 .. Len(h) - 1 PROVE h[j] # LF
    <3>1. CASE j \in 1 .. Len(l)
      BY <1>2, <1>4, <3>1
    <3>2. CASE j \notin 1 .. Len(l)
      <4>1. j = Len(l) + 1
        BY <1>2, <1>3, <3>2
      <4>. QED
        BY <1>6, <4>1 DEF CR, LF
    <3>. QED
      BY <3>1, <3>2
  <2>2. Len(h) >= 1 /\ h[Len(h)] = LF
    BY <1>2, <1>3, <1>6
  <2>. QED
    BY <1>3, <2>1, <2>2 DEF IsLine
<1>8. EndsCRLF(h)
  <2>1. Len(h) - 1 = Len(l) + 1 /\ Len(h) >= 2
    BY <1>2, <1>3
  <2>. QED
    BY <1>6, <2>1 DEF EndsCRLF
<1>9. c = l
  <2>1. Len(h) - 2 = Len(l)
    BY <1>2, <1>3
  <2>2. c = SubSeq(h, 1, Len(l))
    BY <2>1, Zenon DEF Content
  <2>. DEFINE d == SubSeq(h, 1, Len(l))
  <2>3. d \in Seq(Byte) /\ Len(d) = Len(l) /\ \A k \in 1 .. Len(l) : d[k] = h[k]
    BY <1>2, <1>3
  <2>. HIDE DEF d
  <2>4. \A k \in 1 .. Len(d) : d[k] = l[k]
    BY <1>4, <2>3
  <2>5. d = l
    BY <1>2, <2>3, <2>4, SeqEqual
  <2>. QED
    BY <2>2, <2>5 DEF d
<1>10. h[1] = IF l = <<>> THEN CR ELSE l[1]
  <2>1. CASE l = <<>>
    BY <1>6, <2>1
  <2>2. CASE l # <<>>
    <3>1. 1 \in 1 .. Len(l)
      BY <2>2
    <3>. QED
      BY <1>4, <2>2, <3>1
  <2>. QED
    BY <2>1, <2>2
<1>. QED
  BY <1>3, <1>7, <1>8, <1>9, <1>10 DEF h

\* A type byte and its line.
LEMMA TypedLine ==
    ASSUME NEW t \in TypeByte, NEW l \in Seq(Byte \ {LF}), NEW h, h = <<t>> \o l \o CRLF
    PROVE  /\ IsLine(h) /\ h[1] = t /\ EndsCRLF(Tail(h)) /\ Content(Tail(h)) = l
<1>. DEFINE q == l \o CRLF
            o == <<t>>
            u == Tail(h)
<1>0. CRLF \in Seq(Byte) /\ l \in Seq(Byte)
  BY NumericBytes DEF CRLF
<1>1. /\ IsLine(q) /\ EndsCRLF(q) /\ Content(q) = l
      /\ q \in Seq(Byte)
  BY CRLFLine
<1>2. o \in Seq(Byte) /\ Len(o) = 1 /\ o[1] = t
  BY NumericBytes
<1>3. h = o \o q
  <2>. HIDE DEF o
  <2>1. (o \o l) \o CRLF = o \o (l \o CRLF)
    <3>1. ASSUME NEW p \in Seq(Byte), NEW r \in Seq(Byte), NEW s \in Seq(Byte)
          PROVE  (p \o r) \o s = p \o (r \o s)
      BY ConcatAssoc
    <3>. QED
      BY <1>0, <1>2, <3>1, Zenon
  <2>. QED
    BY <2>1, Zenon DEF o
<1>. HIDE DEF q, o
<1>j. h \in Seq(Byte) /\ Joined(h, o, q)
  BY <1>1, <1>2, <1>3, ConcatJoined, Zenon
<1>4. h \in Seq(Byte) /\ Len(h) = Len(o) + Len(q)
  BY <1>j, Zenon DEF Joined
<1>5. h[1] = t
  <2>1. 1 \in 1 .. Len(o)
    BY <1>2
  <2>. QED
    BY <1>2, <1>j, <2>1, Zenon DEF Joined
<1>6. \A k \in 1 .. Len(q) : h[1 + k] = q[k]
  BY <1>2, <1>j, Zenon DEF Joined
<1>7. Len(q) \in Nat /\ Len(q) >= 1 /\ Len(h) = Len(q) + 1 /\ h # <<>>
  BY <1>1, <1>2, <1>4 DEF IsLine
<1>8. u \in Seq(Byte) /\ Len(u) = Len(q) /\ \A k \in 1 .. Len(q) : u[k] = h[1 + k]
  BY <1>4, <1>7
<1>. HIDE DEF u
<1>9. u = q
  <2>1. \A k \in 1 .. Len(u) : u[k] = q[k]
    BY <1>6, <1>8
  <2>. QED
    BY <1>1, <1>8, <2>1, SeqEqual
<1>10. IsLine(h)
  <2>1. h[Len(h)] = LF
    <3>1. Len(q) \in 1 .. Len(q) /\ 1 + Len(q) = Len(h)
      BY <1>7
    <3>. QED
      BY <1>1, <1>6, <3>1 DEF IsLine
  <2>2. ASSUME NEW j \in 1 .. Len(h) - 1 PROVE h[j] # LF
    <3>1. CASE j = 1
      BY <1>5, <3>1 DEF TypeByte, LF
    <3>2. CASE j # 1
      <4>1. j - 1 \in 1 .. Len(q) - 1 /\ j - 1 \in 1 .. Len(q) /\ 1 + (j - 1) = j
        BY <1>7, <3>2
      <4>2. h[j] = q[j - 1]
        BY <1>6, <4>1
      <4>. QED
        BY <1>1, <4>1, <4>2 DEF IsLine
    <3>. QED
      BY <3>1, <3>2
  <2>. QED
    BY <1>4, <1>7, <2>1, <2>2 DEF IsLine
<1>. QED
  BY <1>1, <1>5, <1>9, <1>10 DEF u

-----------------------------------------------------------------------------
(* The bytes of an item begin with a line, which tells what they stand for.*)

LEMMA ValueFields ==
    ASSUME NEW s, NEW n
    PROVE  /\ SimpleString(s).typ = "+" /\ SimpleString(s).str = s
           /\ Error(s).typ = "-" /\ Error(s).str = s
           /\ Integer(n).typ = ":" /\ Integer(n).integer = n
           /\ BulkString(s).typ = "$" /\ BulkString(s).str = s /\ BulkString(s).isNull = FALSE
           /\ Array(s).typ = "*" /\ Array(s).elems = s /\ Array(s).isNull = FALSE
           /\ NullBulkString.typ = "$" /\ NullBulkString.isNull = TRUE
           /\ NullArray.typ = "*" /\ NullArray.isNull = TRUE
BY DEF SimpleString, Error, Integer, BulkString, Array, NullBulkString, NullArray, Zero

LEMMA WriteInteger ==
    ASSUME NEW v, NEW ws, v.typ = ":"
    PROVE  writeValue(v, ws) = <<":">> \o Decimal(v.integer) \o CRLF
<1>1. v.typ \notin {"+", "-"} /\ v.typ \notin {"$", "*"}
  OBVIOUS
<1>. QED
  BY <1>1, Zenon DEF writeValue

LEMMA WriteBulk ==
    ASSUME NEW v, NEW ws, v.typ = "$", v.isNull = FALSE
    PROVE  writeValue(v, ws) = <<"$">> \o Decimal(Len(v.str)) \o CRLF \o (v.str \o CRLF)
<1>1. v.typ \notin {"+", "-"} /\ v.typ # ":" /\ v.typ # "*"
  OBVIOUS
<1>. QED
  BY <1>1, Zenon DEF writeValue

LEMMA WriteArray ==
    ASSUME NEW v, NEW ws, v.typ = "*", v.isNull = FALSE
    PROVE  writeValue(v, ws) = <<"*">> \o Decimal(Len(v.elems)) \o CRLF \o FlattenSeq(ws)
<1>1. v.typ \notin {"+", "-"} /\ v.typ # ":" /\ v.typ # "$"
  OBVIOUS
<1>. QED
  BY <1>1, Zenon DEF writeValue

\* What line h, which begins the bytes of item x, and the bytes r behind it are.
LineText(h) == Content(Tail(h))
Numbered(h) == EndsCRLF(Tail(h)) /\ IsNumeral(LineText(h))

StringKind(x, h, r)  == /\ h[1] \in {"+", "-"} /\ EndsCRLF(Tail(h)) /\ r = <<>> /\ ~x.bad
                        /\ x.val = IF h[1] = "+" THEN SimpleString(LineText(h)) ELSE Error(LineText(h))
IntegerKind(x, h, r) == /\ h[1] = ":" /\ Numbered(h) /\ r = <<>> /\ ~x.bad
                        /\ x.val = Integer(Atoi(LineText(h)))
NullKind(x, h, r)    == /\ h[1] \in {"$", "*"} /\ Numbered(h) /\ r = <<>> /\ ~x.bad
                        /\ Atoi(LineText(h)) = -1
                        /\ x.val = IF h[1] = "$" THEN NullBulkString ELSE NullArray
BulkKind(x, h, r)    == /\ h[1] = "$" /\ Numbered(h) /\ ~x.bad
                        /\ x.val.str \in Seq(Byte) /\ x.val = BulkString(x.val.str)
                        /\ Atoi(LineText(h)) = Len(x.val.str) /\ r = x.val.str \o CRLF
ArrayKind(x, h, r)   == /\ h[1] = "*" /\ Numbered(h) /\ WrittenArray(x)
                        /\ Atoi(LineText(h)) = Len(x.parts) /\ r = Bytes(x.parts)
Words(l)             == [i \in DOMAIN splitInline(l) |-> BulkString(splitInline(l)[i])]
InlineKind(x, h, r)  == /\ h[1] \notin TypeByte /\ EndsCRLF(h) /\ r = <<>> /\ ~x.bad
                        /\ x.val = Array(Words(Content(h)))
BadLineKind(x, h, r) == /\ x.bad /\ r = <<>>
                        /\ IF h[1] \in TypeByte
                           THEN ~EndsCRLF(Tail(h)) \/ (h[1] \in {":", "$", "*"} /\ ~IsNumeral(LineText(h)))
                           ELSE ~EndsCRLF(h)
BadBodyKind(x, h, r) == /\ x.bad /\ h[1] = "$" /\ Numbered(h) /\ Atoi(LineText(h)) \in Nat
                        /\ Len(r) = Atoi(LineText(h)) + 2
                        /\ SubSeq(r, Atoi(LineText(h)) + 1, Atoi(LineText(h)) + 2) # CRLF

Kind(x, h, r) == \/ StringKind(x, h, r) \/ IntegerKind(x, h, r) \/ NullKind(x, h, r)
                 \/ BulkKind(x, h, r) \/ ArrayKind(x, h, r) \/ InlineKind(x, h, r)
                 \/ BadLineKind(x, h, r) \/ BadBodyKind(x, h, r)
Begins(x, h, r) == IsLine(h) /\ r \in Seq(Byte) /\ x.bytes = h \o r

LEMMA BytesType ==
    ASSUME NEW xs \in Seq(Items)
    PROVE  Bytes(xs) \in Seq(Byte) /\ (xs = <<>> => Bytes(xs) = <<>>)
<1>. DEFINE B == Seq(Byte)
            bs == [i \in DOMAIN xs |-> xs[i].bytes]
<1>1. \A x \in Items : x.bytes \in B
  BY ItemsAssumption, Zenon
<1>. HIDE DEF B
<1>2. bs \in Seq(B) /\ (xs = <<>> => bs = <<>>)
  BY <1>1
<1>. HIDE DEF bs
<1>3. FlattenSeq(bs) \in Seq(Byte) /\ (bs = <<>> => FlattenSeq(bs) = <<>>)
  BY <1>2, FlattenType DEF B
<1>. QED
  BY <1>2, <1>3, Zenon DEF Bytes, bs

LEMMA LoneLine ==
    ASSUME NEW x, NEW h, IsLine(h), x.bytes = h
    PROVE  Begins(x, h, <<>>)
<1>1. h \in Seq(Byte) /\ <<>> \in Seq(Byte)
  BY DEF IsLine
<1>2. h \o <<>> = h
  BY <1>1, ConcatEmpty
<1>. QED
  BY <1>1, <1>2, Zenon DEF Begins

\* A number in a line behind its type byte.
LEMMA NumberLine ==
    ASSUME NEW t \in TypeByte, NEW n \in Int, NEW h, h = <<t>> \o Decimal(n) \o CRLF
    PROVE  IsLine(h) /\ h[1] = t /\ Numbered(h) /\ Atoi(LineText(h)) = n
<1>1. Decimal(n) \in Seq(Byte \ {LF}) /\ IsNumeral(Decimal(n)) /\ Atoi(Decimal(n)) = n
  BY DecimalFacts
<1>2. IsLine(h) /\ h[1] = t /\ EndsCRLF(Tail(h)) /\ Content(Tail(h)) = Decimal(n)
  BY <1>1, TypedLine, Zenon
<1>. QED
  BY <1>1, <1>2, Zenon DEF Numbered, LineText

LEMMA MinusOne == Decimal(-1) = <<"-", "1">>
<1>1. 1 < 10
  OBVIOUS
<1>2. Decimal(-1) = <<"-">> \o itoa(1)
  <2>1. ASSUME NEW k \in Int, k + 1 = 0 PROVE k < 0 /\ -k = 1
    BY <2>1
  <2>2. ASSUME NEW k \in Int, k + 1 = 0 PROVE Decimal(k) = <<"-">> \o itoa(1)
    BY <2>1, <2>2, Zenon DEF Decimal
  <2>3. -1 \in Int /\ -1 + 1 = 0
    OBVIOUS
  <2>. QED
    BY <2>2, <2>3, Zenon
<1>3. itoa(1) = <<Numerals[1 + 1]>>
  BY <1>1, Zenon DEF itoa
<1>4. Numerals[1 + 1] = "1"
  BY DEF Numerals
<1>. DEFINE a == <<"-">>
            z == <<"1">>
            u == <<"-", "1">>
            T == {"-", "1"}
<1>5. a \in Seq(T) /\ z \in Seq(T) /\ u \in Seq(T) /\ Len(a) = 1 /\ Len(z) = 1 /\ Len(u) = 2
  OBVIOUS
<1>6. a[1] = "-" /\ z[1] = "1" /\ u[1] = "-" /\ u[2] = "1"
  OBVIOUS
<1>. HIDE DEF a, z, u, T
<1>7. a \o z = u
  <2>1. \A k \in 1 .. Len(a) : u[k] = a[k]
    BY <1>5, <1>6
  <2>2. \A k \in 1 .. Len(z) : u[Len(a) + k] = z[k]
    BY <1>5, <1>6
  <2>3. Len(u) = Len(a) + Len(z)
    BY <1>5
  <2>. QED
    BY <1>5, <2>1, <2>2, <2>3, ConcatIs
<1>. QED
  BY <1>2, <1>3, <1>4, <1>7, Zenon DEF a, z, u

LEMMA LeafKind ==
    ASSUME NEW x, WrittenLeaf(x)
    PROVE  \E h, r : Begins(x, h, r) /\ Kind(x, h, r)
<1>. DEFINE v == x.val
            s == x.val.str
<1>0. ~x.bad /\ x.bytes = writeValue(v, <<>>)
  BY Zenon DEF WrittenLeaf
<1>v. x.val = v /\ x.val.str = s /\ v.str = s
  OBVIOUS
<1>k. \/ s \in Seq(Byte \ {LF}) /\ v \in {SimpleString(s), Error(s)}
      \/ v.integer \in Int /\ v = Integer(v.integer)
      \/ s \in Seq(Byte) /\ v = BulkString(s)
      \/ v \in {NullBulkString, NullArray}
  BY Zenon DEF WrittenLeaf
<1>. HIDE DEF v, s
<1>1. CASE s \in Seq(Byte \ {LF}) /\ v \in {SimpleString(s), Error(s)}
  <2>. DEFINE h == <<v.typ>> \o s \o CRLF
  <2>1. v.typ \in {"+", "-"} /\ (v.typ = "+" => v = SimpleString(s)) /\ (v.typ = "-" => v = Error(s))
    <3>1. SimpleString(s).typ = "+" /\ Error(s).typ = "-"
      BY ValueFields, Zenon
    <3>. QED
      BY <1>1, <3>1
  <2>2. x.bytes = h
    <3>1. v.typ \in {"+", "-"}
      BY <2>1
    <3>2. writeValue(v, <<>>) = <<v.typ>> \o v.str \o CRLF
      BY <3>1, Zenon DEF writeValue
    <3>. QED
      BY <1>0, <1>v, <3>2, Zenon
  <2>3. v.typ \in TypeByte
    BY <2>1 DEF TypeByte
  <2>4. IsLine(h) /\ h[1] = v.typ /\ EndsCRLF(Tail(h)) /\ Content(Tail(h)) = s
    BY <1>1, <2>3, TypedLine, Zenon
  <2>. HIDE DEF h
  <2>5. StringKind(x, h, <<>>)
    <3>1. v = IF h[1] = "+" THEN SimpleString(LineText(h)) ELSE Error(LineText(h))
      BY <2>1, <2>4 DEF LineText
    <3>. QED
      BY <1>0, <1>v, <2>1, <2>4, <3>1, Zenon DEF StringKind
  <2>6. Begins(x, h, <<>>)
    BY <2>2, <2>4, LoneLine
  <2>. QED
    BY <2>5, <2>6 DEF Kind
<1>2. CASE v.integer \in Int /\ v = Integer(v.integer)
  <2>. DEFINE n == v.integer
              h == <<":">> \o Decimal(n) \o CRLF
  <2>1. v.typ = ":"
    <3>1. Integer(n).typ = ":"
      BY ValueFields, Zenon
    <3>2. v = Integer(n)
      BY <1>2
    <3>. HIDE DEF n
    <3>. QED
      BY <3>1, <3>2
  <2>2. x.bytes = h
    BY <1>0, <2>1, WriteInteger, Zenon
  <2>3. ":" \in TypeByte /\ n \in Int /\ x.val = Integer(n)
    BY <1>2, <1>v, Zenon DEF TypeByte
  <2>. HIDE DEF n
  <2>4. IsLine(h) /\ h[1] = ":" /\ Numbered(h) /\ Atoi(LineText(h)) = n
    BY <2>3, NumberLine, Zenon
  <2>. HIDE DEF h
  <2>5. IntegerKind(x, h, <<>>)
    BY <1>0, <2>3, <2>4, Zenon DEF IntegerKind
  <2>6. Begins(x, h, <<>>)
    BY <2>2, <2>4, LoneLine
  <2>. QED
    BY <2>5, <2>6 DEF Kind
<1>3. CASE s \in Seq(Byte) /\ v = BulkString(s)
  <2>. DEFINE h == <<"$">> \o Decimal(Len(s)) \o CRLF
              r == s \o CRLF
  <2>1. v.typ = "$" /\ v.isNull = FALSE
    BY <1>3, ValueFields, Zenon
  <2>2. x.bytes = h \o r
    BY <1>0, <1>v, <2>1, WriteBulk, Zenon
  <2>3. "$" \in TypeByte /\ Len(s) \in Int
    BY <1>3 DEF TypeByte
  <2>4. IsLine(h) /\ h[1] = "$" /\ Numbered(h) /\ Atoi(LineText(h)) = Len(s)
    BY <2>3, NumberLine, Zenon
  <2>5. r \in Seq(Byte)
    <3>1. CRLF \in Seq(Byte)
      BY NumericBytes DEF CRLF
    <3>. QED
      BY <1>3, <3>1, ConcatFacts
  <2>6. BulkKind(x, h, r)
    BY <1>0, <1>3, <1>v, <2>4, Zenon DEF BulkKind
  <2>7. Begins(x, h, r)
    BY <2>2, <2>4, <2>5, Zenon DEF Begins
  <2>. QED
    BY <2>6, <2>7 DEF Kind
<1>4. CASE v \in {NullBulkString, NullArray}
  <2>. DEFINE h == <<v.typ>> \o <<"-", "1">> \o CRLF
  <2>1. v.typ \in {"$", "*"} /\ v.isNull = TRUE /\ v = IF v.typ = "$" THEN NullBulkString ELSE NullArray
    <3>1. /\ NullBulkString.typ = "$" /\ NullBulkString.isNull = TRUE
          /\ NullArray.typ = "*" /\ NullArray.isNull = TRUE
      BY ValueFields, Zenon
    <3>. QED
      BY <1>4, <3>1
  <2>2. x.bytes = h
    <3>0. v.typ \notin {"+", "-"} /\ v.typ # ":" /\ v.typ \in {"$", "*"} /\ v.isNull = TRUE
      BY <2>1
    <3>1. writeValue(v, <<>>) = <<v.typ>> \o <<"-", "1">> \o CRLF
      BY <3>0, Zenon DEF writeValue
    <3>. QED
      BY <1>0, <3>1, Zenon
  <2>3. v.typ \in TypeByte
    BY <2>1 DEF TypeByte
  <2>4. Decimal(-1) = <<"-", "1">>
    BY MinusOne
  <2>5. IsLine(h) /\ h[1] = v.typ /\ Numbered(h) /\ Atoi(LineText(h)) = -1
    <3>1. h = <<v.typ>> \o Decimal(-1) \o CRLF
      BY <2>4, Zenon
    <3>2. -1 \in Int
      OBVIOUS
    <3>. HIDE DEF h
    <3>. QED
      BY <2>3, <3>1, <3>2, NumberLine
  <2>. HIDE DEF h
  <2>6. NullKind(x, h, <<>>)
    BY <1>0, <1>v, <2>1, <2>5, Zenon DEF NullKind
  <2>7. Begins(x, h, <<>>)
    BY <2>2, <2>5, LoneLine
  <2>. QED
    BY <2>6, <2>7 DEF Kind
<1>. QED
  BY <1>1, <1>2, <1>3, <1>4, <1>k, Zenon

LEMMA PartsKind ==
    ASSUME NEW x, WrittenArray(x)
    PROVE  \E h, r : Begins(x, h, r) /\ Kind(x, h, r)
<1>. DEFINE v == Array(Values(x.parts))
            h == <<"*">> \o Decimal(Len(x.parts)) \o CRLF
            r == Bytes(x.parts)
            ws == [i \in DOMAIN x.parts |-> x.parts[i].bytes]
<1>1. x.parts \in Seq(Items) /\ x.val = v /\ x.bytes = writeValue(v, ws)
  BY Zenon DEF WrittenArray
<1>2. v.typ = "*" /\ v.isNull = FALSE /\ v.elems = Values(x.parts)
  BY ValueFields
<1>3. Len(Values(x.parts)) = Len(x.parts) /\ Len(x.parts) \in Int
  BY <1>1 DEF Values
<1>. HIDE DEF v
<1>4. x.bytes = h \o r
  BY <1>1, <1>2, <1>3, WriteArray, Zenon DEF Bytes
<1>5. IsLine(h) /\ h[1] = "*" /\ Numbered(h) /\ Atoi(LineText(h)) = Len(x.parts)
  <2>1. "*" \in TypeByte
    BY DEF TypeByte
  <2>. QED
    BY <1>3, <2>1, NumberLine, Zenon
<1>6. r \in Seq(Byte)
  BY <1>1, BytesType
<1>7. ArrayKind(x, h, r)
  BY <1>5, Zenon DEF ArrayKind
<1>8. Begins(x, h, r)
  BY <1>4, <1>5, <1>6, Zenon DEF Begins
<1>. QED
  BY <1>7, <1>8 DEF Kind

LEMMA TypedInlineKind ==
    ASSUME NEW x, Inline(x)
    PROVE  \E h, r : Begins(x, h, r) /\ Kind(x, h, r)
<1>. DEFINE l == Content(x.bytes)
            h == l \o CRLF
<1>1. /\ x.bad = FALSE /\ x.bytes = h /\ l \in Seq(Byte \ {LF})
      /\ l # <<>> => l[1] \notin TypeByte
  BY Zenon DEF Inline
<1>2. x.val = Array(Words(l))
  BY Zenon DEF Inline, Words
<1>. HIDE DEF l
<1>3. /\ IsLine(h) /\ EndsCRLF(h) /\ Content(h) = l
      /\ h[1] = IF l = <<>> THEN CR ELSE l[1]
  BY <1>1, CRLFLine, Zenon
<1>. HIDE DEF h
<1>4. h[1] \notin TypeByte
  BY <1>1, <1>3 DEF TypeByte, CR
<1>5. InlineKind(x, h, <<>>)
  BY <1>1, <1>2, <1>3, <1>4, Zenon DEF InlineKind
<1>6. Begins(x, h, <<>>)
  BY <1>1, <1>3, LoneLine
<1>. QED
  BY <1>5, <1>6 DEF Kind

LEMMA MalformedKind ==
    ASSUME NEW x, x.bytes \in Seq(Byte), Malformed(x)
    PROVE  \E h, r : Begins(x, h, r) /\ Kind(x, h, r)
<1>. DEFINE b == x.bytes
            h == LineOf(b)
            l == IF h[1] \in TypeByte THEN Tail(h) ELSE h
            n == Atoi(Content(l))
            r == SubSeq(b, Len(h) + 1, Len(b))
<1>1. x.bad /\ HasLine(b)
  BY Zenon DEF Malformed
<1>2. IsLine(h) /\ Len(h) <= Len(b) /\ r \in Seq(Byte) /\ b = h \o r
  BY <1>1, LineFirst, Zenon
<1>3. \/ b = h /\ ~EndsCRLF(l)
      \/ /\ b = h /\ EndsCRLF(l)
         /\ h[1] \in {":", "$", "*"} /\ ~IsNumeral(Content(l))
      \/ /\ h[1] = "$" /\ EndsCRLF(l) /\ IsNumeral(Content(l)) /\ n \in Nat
         /\ Len(b) = Len(h) + n + 2
         /\ SubSeq(b, Len(h) + n + 1, Len(h) + n + 2) # CRLF
  BY Zenon DEF Malformed
<1>0. b \in Seq(Byte) /\ h \in Seq(Byte) /\ Len(b) \in Nat /\ Len(h) \in Nat
  BY <1>2 DEF IsLine
<1>4. CASE b = h /\ ~EndsCRLF(l)
  <2>1. BadLineKind(x, h, <<>>)
    BY <1>1, <1>4, Zenon DEF BadLineKind
  <2>2. Begins(x, h, <<>>)
    BY <1>2, <1>4, LoneLine, Zenon
  <2>. QED
    BY <2>1, <2>2, Zenon DEF Kind
<1>5. CASE /\ b = h /\ EndsCRLF(l)
           /\ h[1] \in {":", "$", "*"} /\ ~IsNumeral(Content(l))
  <2>0. h[1] \in TypeByte
    BY <1>5 DEF TypeByte
  <2>1. BadLineKind(x, h, <<>>)
    BY <1>1, <1>5, <2>0, Zenon DEF BadLineKind, LineText
  <2>2. Begins(x, h, <<>>)
    BY <1>2, <1>5, LoneLine, Zenon
  <2>. QED
    BY <2>1, <2>2, Zenon DEF Kind
<1>6. CASE /\ h[1] = "$" /\ EndsCRLF(l) /\ IsNumeral(Content(l)) /\ n \in Nat
           /\ Len(b) = Len(h) + n + 2
           /\ SubSeq(b, Len(h) + n + 1, Len(h) + n + 2) # CRLF
  <2>0. h[1] \in TypeByte
    BY <1>6 DEF TypeByte
  <2>1. l = Tail(h) /\ Content(l) = LineText(h) /\ n = Atoi(LineText(h))
    BY <2>0, Zenon DEF LineText
  <2>. HIDE DEF b, h, l, n
  <2>2. n \in Nat
    BY <1>0, <1>6
  <2>3. Len(r) = n + 2 /\ \A k \in 1 .. n + 2 : r[k] = b[Len(h) + k]
    BY <1>0, <1>6, <2>2
  <2>4. SubSeq(r, n + 1, n + 2) # CRLF
    <3>. DEFINE p == SubSeq(r, n + 1, n + 2)
                q == SubSeq(b, Len(h) + n + 1, Len(h) + n + 2)
    <3>1. p \in Seq(Byte) /\ Len(p) = 2 /\ p[1] = r[n + 1] /\ p[2] = r[n + 2]
      <4>. HIDE DEF r
      <4>. QED
        BY <1>2, <2>2, <2>3
    <3>2. q \in Seq(Byte) /\ Len(q) = 2 /\ q[1] = b[Len(h) + (n + 1)] /\ q[2] = b[Len(h) + (n + 2)]
      BY <1>0, <1>6, <2>2
    <3>3. n + 1 \in 1 .. n + 2 /\ n + 2 \in 1 .. n + 2
      BY <2>2
    <3>. HIDE DEF p, q, r
    <3>4. \A k \in 1 .. Len(p) : p[k] = q[k]
      <4>1. p[1] = q[1] /\ p[2] = q[2]
        BY <2>3, <3>1, <3>2, <3>3, Zenon
      <4>. QED
        BY <3>1, <4>1
    <3>5. p = q
      BY <3>1, <3>2, <3>4, SeqEqual
    <3>. QED
      BY <1>6, <3>5 DEF p, q
  <2>. HIDE DEF r
  <2>5. BadBodyKind(x, h, r)
    BY <1>1, <1>6, <2>1, <2>2, <2>3, <2>4, Zenon DEF BadBodyKind, Numbered
  <2>6. Begins(x, h, r)
    BY <1>2, Zenon DEF Begins, b
  <2>. QED
    BY <2>5, <2>6, Zenon DEF Kind
<1>. QED
  BY <1>3, <1>4, <1>5, <1>6

LEMMA ItemKind ==
    ASSUME NEW x \in Items
    PROVE  x.bytes \in Seq(Byte) /\ \E h, r : Begins(x, h, r) /\ Kind(x, h, r)
<1>1. /\ x.bytes \in Seq(Byte)
      /\ WrittenLeaf(x) \/ WrittenArray(x) \/ Inline(x) \/ Malformed(x)
  BY ItemsAssumption, Zenon
<1>. QED
  BY <1>1, LeafKind, PartsKind, TypedInlineKind, MalformedKind

-----------------------------------------------------------------------------
(* Where the Reader is: on each of the d levels of nesting j the values    *)
(* read, W[j], the items they come from, L[j], and the bytes behind the    *)
(* last of these items, R[j].                                              *)

Val == {x.val : x \in Items}

\* The values vs are those of the first items of list, and these are sound.
Faithful(vs, list) == /\ vs \in Seq(Val) /\ list \in Seq(Items) /\ Len(vs) <= Len(list)
                      /\ \A i \in 1 .. Len(vs) : vs[i] = list[i].val /\ ~list[i].bad

\* The item to be read next, the bytes from there on, and the bytes behind it.
At(vs, list)        == list[Len(vs) + 1]
Ahead(vs, list, r)  == Bytes(SubSeq(list, Len(vs) + 1, Len(list))) \o r
Behind(vs, list, r) == Bytes(SubSeq(list, Len(vs) + 2, Len(list))) \o r

\* That item is an array, the elements of which are being read.
Opened(vs, list, r, parts, rest) ==
    /\ Len(vs) < Len(list) /\ WrittenArray(At(vs, list))
    /\ parts = At(vs, list).parts /\ rest = Behind(vs, list, r)

Path(S, d, W, L, R) ==
    /\ d \in Nat /\ d >= 1 /\ L[1] = S /\ R[1] = <<>>
    /\ \A j \in 1 .. d : Faithful(W[j], L[j]) /\ R[j] \in Seq(Byte)
    /\ \A j \in 1 .. d - 1 : Opened(W[j], L[j], R[j], L[j + 1], R[j + 1])

\* The stack K and the values returned G are those of the levels.
Frame == [n : Nat, elems : Seq(Val)]
Linked(K, G, d, W, L) ==
    /\ K \in Seq(Frame) /\ Len(K) + 1 = d /\ W[1] = G
    /\ \A j \in 1 .. d - 1 : K[j].elems = W[j + 1] /\ K[j].n = Len(L[j + 1])

\* Deliver, of values.
Delivered(K, G, v, K2, G2) ==
    IF K = <<>> THEN K2 = <<>> /\ G2 = Append(G, v)
    ELSE K2 = [K EXCEPT ![Len(K)].elems = Append(@, v)] /\ G2 = G

LEMMA FaithfulNext ==
    ASSUME NEW vs, NEW list, Faithful(vs, list), Len(vs) < Len(list), ~At(vs, list).bad
    PROVE  At(vs, list) \in Items /\ Faithful(Append(vs, At(vs, list).val), list)
<1>. DEFINE x == At(vs, list)
            us == Append(vs, x.val)
<1>1. /\ vs \in Seq(Val) /\ list \in Seq(Items) /\ Len(vs) \in Nat /\ Len(list) \in Nat
      /\ \A k \in 1 .. Len(vs) : vs[k] = list[k].val /\ ~list[k].bad
  BY DEF Faithful
<1>2. x = list[Len(vs) + 1] /\ x \in Items
  BY <1>1 DEF At
<1>3. x.val \in Val
  BY <1>2, Zenon DEF Val
<1>. HIDE DEF x
<1>4. us \in Seq(Val) /\ Len(us) = Len(vs) + 1 /\ us[Len(vs) + 1] = x.val
  BY <1>1, <1>3
<1>5. \A k \in 1 .. Len(vs) : us[k] = vs[k]
  BY <1>1, <1>3
<1>. HIDE DEF us
<1>6. ASSUME NEW k \in 1 .. Len(us) PROVE us[k] = list[k].val /\ ~list[k].bad
  <2>1. CASE k \in 1 .. Len(vs)
    BY <1>1, <1>5, <2>1
  <2>2. CASE k = Len(vs) + 1
    <3>1. list[k] = x /\ us[k] = x.val
      BY <1>2, <1>4, <2>2
    <3>2. ~x.bad
      BY DEF x
    <3>. QED
      BY <3>1, <3>2, Zenon
  <2>. QED
    BY <1>1, <1>4, <2>1, <2>2
<1>7. Len(us) <= Len(list)
  BY <1>1, <1>4
<1>8. Faithful(us, list)
  BY <1>1, <1>4, <1>6, <1>7, Zenon DEF Faithful
<1>. QED
  BY <1>2, <1>8 DEF us, x

Longer(d, W, v) == [j \in 1 .. d |-> IF j = d THEN Append(W[d], v) ELSE W[j]]

LEMMA PathDeliver ==
    ASSUME NEW S, NEW d, NEW W, NEW L, NEW R, Path(S, d, W, L, R),
           Len(W[d]) < Len(L[d]), ~At(W[d], L[d]).bad
    PROVE  Path(S, d, Longer(d, W, At(W[d], L[d]).val), L, R)
<1>. DEFINE v == At(W[d], L[d]).val
            W2 == Longer(d, W, v)
<1>0. d \in Nat /\ d >= 1 /\ d \in 1 .. d
  BY DEF Path
<1>1. W2[d] = Append(W[d], v) /\ \A j \in 1 .. d : j # d => W2[j] = W[j]
  BY <1>0 DEF Longer
<1>2. Faithful(W[d], L[d])
  BY <1>0, Zenon DEF Path
<1>3. Faithful(Append(W[d], v), L[d])
  BY <1>2, FaithfulNext
<1>. HIDE DEF v, W2
<1>4. ASSUME NEW j \in 1 .. d PROVE Faithful(W2[j], L[j]) /\ R[j] \in Seq(Byte)
  <2>1. Faithful(W[j], L[j]) /\ R[j] \in Seq(Byte)
    BY Zenon DEF Path
  <2>. QED
    BY <1>1, <1>3, <2>1, Zenon
<1>5. ASSUME NEW j \in 1 .. d - 1 PROVE Opened(W2[j], L[j], R[j], L[j + 1], R[j + 1])
  <2>1. Opened(W[j], L[j], R[j], L[j + 1], R[j + 1])
    BY Zenon DEF Path
  <2>2. j \in 1 .. d /\ j # d
    BY <1>0
  <2>3. W2[j] = W[j]
    BY <1>1, <2>2
  <2>. QED
    BY <2>1, <2>3, Zenon
<1>6. L[1] = S /\ R[1] = <<>>
  BY Zenon DEF Path
<1>7. Path(S, d, W2, L, R)
  BY <1>0, <1>4, <1>5, <1>6, Zenon DEF Path
<1>. QED
  BY <1>7 DEF W2, v

LEMMA FrameLonger ==
    ASSUME NEW k \in Frame, NEW v \in Val
    PROVE  LET f == [k EXCEPT !.elems = Append(k.elems, v)]
           IN  f \in Frame /\ f.elems = Append(k.elems, v) /\ f.n = k.n
<1>1. k = [n |-> k.n, elems |-> k.elems] /\ k.n \in Nat /\ k.elems \in Seq(Val)
  BY DEF Frame
<1>. DEFINE e == Append(k.elems, v)
            f == [k EXCEPT !.elems = e]
<1>2. e \in Seq(Val)
  BY <1>1
<1>. HIDE DEF e
<1>3. f = [n |-> k.n, elems |-> e]
  BY <1>1
<1>4. f \in Frame /\ f.elems = e /\ f.n = k.n
  BY <1>1, <1>2, <1>3 DEF Frame
<1>. QED
  BY <1>4 DEF e

LEMMA LinkDeliver ==
    ASSUME NEW K, NEW G, NEW d, NEW W, NEW L, Linked(K, G, d, W, L), NEW v \in Val,
           NEW K2, NEW G2, Delivered(K, G, v, K2, G2)
    PROVE  Linked(K2, G2, d, Longer(d, W, v), L)
<1>. DEFINE W2 == Longer(d, W, v)
<1>0. /\ K \in Seq(Frame) /\ Len(K) \in Nat /\ Len(K) + 1 = d /\ W[1] = G
      /\ \A j \in 1 .. d - 1 : K[j].elems = W[j + 1] /\ K[j].n = Len(L[j + 1])
  BY DEF Linked
<1>1. W2[d] = Append(W[d], v) /\ \A j \in 1 .. d : j # d => W2[j] = W[j]
  BY <1>0 DEF Longer
<1>. HIDE DEF W2
<1>2. CASE K = <<>>
  <2>1. K2 = <<>> /\ G2 = Append(G, v)
    BY <1>2, Zenon DEF Delivered
  <2>2. d = 1 /\ Len(K2) = 0 /\ K2 \in Seq(Frame)
    BY <1>0, <1>2, <2>1
  <2>3. W2[1] = G2
    BY <1>0, <1>1, <2>1, <2>2
  <2>4. Linked(K2, G2, d, W2, L)
    BY <2>2, <2>3 DEF Linked
  <2>. QED
    BY <2>4 DEF W2
<1>3. CASE K # <<>>
  <2>1. K2 = [K EXCEPT ![Len(K)].elems = Append(@, v)] /\ G2 = G
    BY <1>3, Zenon DEF Delivered
  <2>2. Len(K) >= 1 /\ Len(K) \in 1 .. d - 1 /\ d # 1 /\ 1 \in 1 .. d
    BY <1>0, <1>3
  <2>. DEFINE e == K[Len(K)].elems
              f == [K[Len(K)] EXCEPT !.elems = Append(e, v)]
  <2>3. K[Len(K)] \in Frame
    BY <1>0, <2>2
  <2>4. f \in Frame /\ f.elems = Append(e, v) /\ f.n = K[Len(K)].n
    BY <2>3, FrameLonger
  <2>5. K2 = [K EXCEPT ![Len(K)] = f]
    BY <2>1, Zenon
  <2>. HIDE DEF e, f
  <2>6. /\ K2 \in Seq(Frame) /\ Len(K2) = Len(K) /\ K2[Len(K)] = f
        /\ \A j \in 1 .. Len(K) : j # Len(K) => K2[j] = K[j]
    BY <1>0, <2>2, <2>4, <2>5
  <2>7. ASSUME NEW j \in 1 .. d - 1 PROVE K2[j].elems = W2[j + 1] /\ K2[j].n = Len(L[j + 1])
    <3>1. CASE j = Len(K)
      <4>1. K2[j] = f /\ e = W[d] /\ j + 1 = d /\ f.n = Len(L[j + 1])
        BY <1>0, <2>2, <2>4, <2>6, <3>1 DEF e
      <4>. QED
        BY <1>1, <2>4, <4>1, Zenon
    <3>2. CASE j # Len(K)
      <4>1. j + 1 \in 1 .. d /\ j + 1 # d /\ j \in 1 .. Len(K)
        BY <1>0, <3>2
      <4>. QED
        BY <1>0, <1>1, <2>6, <3>2, <4>1
    <3>. QED
      BY <3>1, <3>2
  <2>8. W2[1] = G2
    BY <1>0, <1>1, <2>1, <2>2
  <2>9. Linked(K2, G2, d, W2, L)
    BY <1>0, <2>6, <2>7, <2>8 DEF Linked
  <2>. QED
    BY <2>9 DEF W2
<1>. QED
  BY <1>2, <1>3

\* An array is begun, and one is left.
Deeper(d, F, e) == [j \in 1 .. d + 1 |-> IF j = d + 1 THEN e ELSE F[j]]

LEMMA DeeperFacts ==
    ASSUME NEW d \in Nat, NEW F, NEW e
    PROVE  Deeper(d, F, e)[d + 1] = e /\ \A j \in 1 .. d : Deeper(d, F, e)[j] = F[j]
BY DEF Deeper

LEMMA PathPush ==
    ASSUME NEW S, NEW d, NEW W, NEW L, NEW R, Path(S, d, W, L, R),
           Len(W[d]) < Len(L[d]), WrittenArray(At(W[d], L[d])),
           Behind(W[d], L[d], R[d]) \in Seq(Byte)
    PROVE  Path(S, d + 1, Deeper(d, W, <<>>), Deeper(d, L, At(W[d], L[d]).parts),
                Deeper(d, R, Behind(W[d], L[d], R[d])))
<1>. DEFINE q == At(W[d], L[d]).parts
            y == Behind(W[d], L[d], R[d])
            W2 == Deeper(d, W, <<>>)
            L2 == Deeper(d, L, q)
            R2 == Deeper(d, R, y)
<1>0. d \in Nat /\ d >= 1 /\ d \in 1 .. d /\ (d + 1) - 1 = d /\ 1 \in 1 .. d
  BY DEF Path
<1>2. q \in Seq(Items)
  BY Zenon DEF WrittenArray
<1>3. Opened(W[d], L[d], R[d], q, y)
  BY Zenon DEF Opened
<1>4. Faithful(<<>>, q)
  BY <1>2 DEF Faithful
<1>5. y \in Seq(Byte)
  OBVIOUS
<1>. HIDE DEF q, y
<1>1. /\ W2[d + 1] = <<>> /\ L2[d + 1] = q /\ R2[d + 1] = y
      /\ \A j \in 1 .. d : W2[j] = W[j] /\ L2[j] = L[j] /\ R2[j] = R[j]
  <2>1. \A F, e : Deeper(d, F, e)[d + 1] = e /\ \A j \in 1 .. d : Deeper(d, F, e)[j] = F[j]
    BY <1>0, DeeperFacts
  <2>. QED
    BY <2>1, Zenon
<1>. HIDE DEF W2, L2, R2
<1>6. ASSUME NEW j \in 1 .. d + 1 PROVE Faithful(W2[j], L2[j]) /\ R2[j] \in Seq(Byte)
  <2>1. CASE j = d + 1
    BY <1>1, <1>4, <1>5, <2>1
  <2>2. CASE j \in 1 .. d
    <3>1. Faithful(W[j], L[j]) /\ R[j] \in Seq(Byte)
      BY <2>2, Zenon DEF Path
    <3>. QED
      BY <1>1, <2>2, <3>1, Zenon
  <2>. QED
    BY <1>0, <2>1, <2>2
<1>7. ASSUME NEW j \in 1 .. (d + 1) - 1 PROVE Opened(W2[j], L2[j], R2[j], L2[j + 1], R2[j + 1])
  <2>1. CASE j = d
    BY <1>0, <1>1, <1>3, <2>1, Zenon
  <2>2. CASE j # d
    <3>1. j \in 1 .. d - 1 /\ j \in 1 .. d /\ j + 1 \in 1 .. d
      BY <1>0, <2>2
    <3>2. Opened(W[j], L[j], R[j], L[j + 1], R[j + 1])
      BY <3>1, Zenon DEF Path
    <3>. QED
      BY <1>1, <3>1, <3>2, Zenon
  <2>. QED
    BY <2>1, <2>2
<1>8. L2[1] = S /\ R2[1] = <<>>
  BY <1>0, <1>1, Zenon DEF Path
<1>9. d + 1 \in Nat /\ d + 1 >= 1
  BY <1>0
<1>10. Path(S, d + 1, W2, L2, R2)
  BY <1>6, <1>7, <1>8, <1>9, Zenon DEF Path
<1>. QED
  BY <1>10, Zenon DEF q, y, W2, L2, R2

LEMMA LinkPush ==
    ASSUME NEW K, NEW G, NEW d, NEW W, NEW L, Linked(K, G, d, W, L), NEW q, Len(q) \in Nat
    PROVE  Linked(Append(K, [n |-> Len(q), elems |-> <<>>]), G, d + 1,
                  Deeper(d, W, <<>>), Deeper(d, L, q))
<1>. DEFINE f == [n |-> Len(q), elems |-> <<>>]
            K2 == Append(K, f)
            W2 == Deeper(d, W, <<>>)
            L2 == Deeper(d, L, q)
<1>0. /\ K \in Seq(Frame) /\ Len(K) \in Nat /\ Len(K) + 1 = d /\ W[1] = G /\ 1 \in 1 .. d
      /\ d \in Nat /\ \A j \in 1 .. d - 1 : K[j].elems = W[j + 1] /\ K[j].n = Len(L[j + 1])
  BY DEF Linked
<1>1. /\ W2[d + 1] = <<>> /\ L2[d + 1] = q
      /\ \A j \in 1 .. d : W2[j] = W[j] /\ L2[j] = L[j]
  BY <1>0, DeeperFacts
<1>2. f \in Frame /\ f.n = Len(q) /\ f.elems = <<>>
  BY DEF Frame
<1>. HIDE DEF f, W2, L2
<1>3. /\ K2 \in Seq(Frame) /\ Len(K2) = d /\ K2[d] = f
      /\ \A j \in 1 .. d - 1 : K2[j] = K[j]
  BY <1>0, <1>2
<1>. HIDE DEF K2
<1>4. ASSUME NEW j \in 1 .. (d + 1) - 1 PROVE K2[j].elems = W2[j + 1] /\ K2[j].n = Len(L2[j + 1])
  <2>1. CASE j = d
    BY <1>1, <1>2, <1>3, <2>1, Zenon
  <2>2. CASE j # d
    <3>1. j \in 1 .. d - 1 /\ j + 1 \in 1 .. d
      BY <1>0, <2>2
    <3>. QED
      BY <1>0, <1>1, <1>3, <3>1, Zenon
  <2>. QED
    BY <2>1, <2>2
<1>5. W2[1] = G
  BY <1>0, <1>1, Zenon
<1>6. Linked(K2, G, d + 1, W2, L2)
  BY <1>3, <1>4, <1>5, Zenon DEF Linked
<1>. QED
  BY <1>6, Zenon DEF K2, f, W2, L2

LEMMA PathPop ==
    ASSUME NEW S, NEW d, NEW W, NEW L, NEW R, Path(S, d, W, L, R), d # 1
    PROVE  Path(S, d - 1, W, L, R)
<1>0. d \in Nat /\ d - 1 \in Nat /\ d - 1 >= 1
  BY DEF Path
<1>1. \A j \in 1 .. d - 1 : j \in 1 .. d
  BY <1>0
<1>2. \A j \in 1 .. d - 1 - 1 : j \in 1 .. d - 1
  BY <1>0
<1>. QED
  BY <1>0, <1>1, <1>2, Zenon DEF Path

LEMMA LinkPop ==
    ASSUME NEW K, NEW G, NEW d, NEW W, NEW L, Linked(K, G, d, W, L), K # <<>>
    PROVE  Linked(Front(K), G, d - 1, W, L)
<1>. DEFINE K2 == Front(K)
<1>0. /\ K \in Seq(Frame) /\ Len(K) \in Nat /\ Len(K) >= 1 /\ Len(K) + 1 = d /\ W[1] = G
      /\ \A j \in 1 .. d - 1 : K[j].elems = W[j + 1] /\ K[j].n = Len(L[j + 1])
  BY DEF Linked
<1>1. /\ K2 \in Seq(Frame) /\ Len(K2) + 1 = d - 1 /\ \A j \in 1 .. d - 1 - 1 : K2[j] = K[j]
  BY <1>0 DEF Front
<1>. HIDE DEF K2
<1>2. ASSUME NEW j \in 1 .. d - 1 - 1 PROVE K2[j].elems = W[j + 1] /\ K2[j].n = Len(L[j + 1])
  <2>1. j \in 1 .. d - 1
    BY <1>0
  <2>. QED
    BY <1>0, <1>1, <2>1, Zenon
<1>3. Linked(K2, G, d - 1, W, L)
  BY <1>0, <1>1, <1>2, Zenon DEF Linked
<1>. QED
  BY <1>3 DEF K2

-----------------------------------------------------------------------------
(* The bytes from the next item on.                                        *)

LEMMA BytesHead ==
    ASSUME NEW xs \in Seq(Items), xs # <<>>
    PROVE  Bytes(xs) = Head(xs).bytes \o Bytes(Tail(xs))
<1>. DEFINE B == Seq(Byte)
            bs == [i \in DOMAIN xs |-> xs[i].bytes]
            ts == Tail(xs)
            cs == [i \in DOMAIN ts |-> ts[i].bytes]
<1>1. \A x \in Items : x.bytes \in B
  BY ItemsAssumption, Zenon
<1>. HIDE DEF B
<1>0. /\ Len(xs) \in Nat /\ Len(xs) >= 1 /\ DOMAIN xs = 1 .. Len(xs) /\ Head(xs) = xs[1]
      /\ ts \in Seq(Items) /\ Len(ts) = Len(xs) - 1 /\ DOMAIN ts = 1 .. Len(ts)
      /\ \A k \in 1 .. Len(ts) : ts[k] = xs[k + 1]
  OBVIOUS
<1>. HIDE DEF ts
<1>2. /\ bs \in Seq(B) /\ bs # <<>> /\ Len(bs) = Len(xs) /\ Head(bs) = Head(xs).bytes
      /\ \A k \in 1 .. Len(xs) : bs[k] = xs[k].bytes
  <2>1. bs \in Seq(B) /\ Len(bs) = Len(xs) /\ \A k \in 1 .. Len(xs) : bs[k] = xs[k].bytes
    BY <1>0, <1>1
  <2>. HIDE DEF bs
  <2>2. bs # <<>> /\ Head(bs) = bs[1] /\ 1 \in 1 .. Len(xs)
    BY <1>0, <2>1
  <2>3. Head(bs) = Head(xs).bytes
    BY <1>0, <2>1, <2>2, Zenon
  <2>. QED
    BY <2>1, <2>2, <2>3
<1>3. cs \in Seq(B) /\ Len(cs) = Len(ts) /\ \A k \in 1 .. Len(ts) : cs[k] = ts[k].bytes
  BY <1>0, <1>1
<1>4. Bytes(xs) = FlattenSeq(bs) /\ Bytes(ts) = FlattenSeq(cs)
  BY Zenon DEF Bytes
<1>. HIDE DEF bs, cs
<1>5. cs = Tail(bs)
  <2>. DEFINE us == Tail(bs)
  <2>1. /\ us \in Seq(B) /\ Len(us) = Len(xs) - 1
        /\ \A k \in 1 .. Len(xs) - 1 : us[k] = bs[k + 1]
    BY <1>2
  <2>. HIDE DEF us
  <2>2. ASSUME NEW k \in 1 .. Len(cs) PROVE cs[k] = us[k]
    <3>1. k \in 1 .. Len(ts) /\ k \in 1 .. Len(xs) - 1 /\ k + 1 \in 1 .. Len(xs)
      BY <1>0, <1>3
    <3>. QED
      BY <1>0, <1>2, <1>3, <2>1, <3>1, Zenon
  <2>3. cs = us
    BY <1>0, <1>3, <2>1, <2>2, SeqEqual
  <2>. QED
    BY <2>3 DEF us
<1>6. FlattenSeq(bs) = Head(bs) \o FlattenSeq(Tail(bs))
  BY <1>2, FlattenHead DEF B
<1>. QED
  BY <1>2, <1>4, <1>5, <1>6, Zenon DEF ts

\* What Ahead and Behind are made of.
Upcoming(vs, list, r) == /\ At(vs, list) \in Items
                         /\ Behind(vs, list, r) \in Seq(Byte)
                         /\ Ahead(vs, list, r) = At(vs, list).bytes \o Behind(vs, list, r)

LEMMA AheadType ==
    ASSUME NEW vs, NEW list, Faithful(vs, list), NEW r \in Seq(Byte)
    PROVE  Ahead(vs, list, r) \in Seq(Byte) /\ Behind(vs, list, r) \in Seq(Byte)
<1>0. list \in Seq(Items) /\ Len(vs) \in Nat /\ Len(list) \in Nat
  BY DEF Faithful
<1>. DEFINE p == SubSeq(list, Len(vs) + 1, Len(list))
            q == SubSeq(list, Len(vs) + 2, Len(list))
<1>1. p \in Seq(Items) /\ q \in Seq(Items)
  BY <1>0
<1>. HIDE DEF p, q
<1>2. Bytes(p) \in Seq(Byte) /\ Bytes(q) \in Seq(Byte)
  BY <1>1, BytesType
<1>3. Bytes(p) \o r \in Seq(Byte) /\ Bytes(q) \o r \in Seq(Byte)
  BY <1>2, ConcatFacts
<1>. QED
  BY <1>3, Zenon DEF Ahead, Behind, p, q

LEMMA DropOne ==
    ASSUME NEW T, NEW s \in Seq(T), NEW k \in Nat, k < Len(s)
    PROVE  /\ SubSeq(s, k + 1, Len(s)) \in Seq(T) /\ SubSeq(s, k + 2, Len(s)) \in Seq(T)
           /\ SubSeq(s, k + 1, Len(s)) # <<>> /\ Head(SubSeq(s, k + 1, Len(s))) = s[k + 1]
           /\ Tail(SubSeq(s, k + 1, Len(s))) = SubSeq(s, k + 2, Len(s))
<1>0. Len(s) \in Nat
  OBVIOUS
<1>. DEFINE p == SubSeq(s, k + 1, Len(s))
            q == SubSeq(s, k + 2, Len(s))
<1>1. /\ p \in Seq(T) /\ Len(p) = Len(s) - k /\ p # <<>>
      /\ \A j \in 1 .. Len(p) : p[j] = s[k + j]
  <2>1. p \in Seq(T) /\ Len(p) = Len(s) - k
    BY <1>0
  <2>2. \A j \in 1 .. Len(s) - k : p[j] = s[k + j]
    BY <1>0
  <2>. HIDE DEF p
  <2>3. p # <<>>
    BY <1>0, <2>1
  <2>. QED
    BY <2>1, <2>2, <2>3
<1>2. /\ q \in Seq(T) /\ Len(q) = Len(s) - k - 1
      /\ \A j \in 1 .. Len(q) : q[j] = s[k + 1 + j]
  BY <1>0
<1>. HIDE DEF p, q
<1>. DEFINE t == Tail(p)
<1>3. Head(p) = p[1] /\ t \in Seq(T) /\ Len(t) = Len(p) - 1 /\ \A j \in 1 .. Len(t) : t[j] = p[j + 1]
  BY <1>1
<1>4. Head(p) = s[k + 1]
  <2>1. 1 \in 1 .. Len(p)
    BY <1>0, <1>1
  <2>. QED
    BY <1>1, <1>3, <2>1, Zenon
<1>. HIDE DEF t
<1>5. t = q
  <2>1. ASSUME NEW j \in 1 .. Len(t) PROVE t[j] = q[j]
    <3>1. j + 1 \in 1 .. Len(p) /\ j \in 1 .. Len(q) /\ k + (j + 1) = k + 1 + j
      BY <1>0, <1>1, <1>2, <1>3
    <3>. QED
      BY <1>1, <1>2, <1>3, <3>1, Zenon
  <2>2. Len(t) = Len(q)
    BY <1>0, <1>1, <1>2, <1>3
  <2>. QED
    BY <1>2, <1>3, <2>1, <2>2, SeqEqual
<1>. QED
  BY <1>1, <1>2, <1>4, <1>5 DEF t, p, q

LEMMA AheadNext ==
    ASSUME NEW vs, NEW list, Faithful(vs, list), NEW r \in Seq(Byte), Len(vs) < Len(list)
    PROVE  Upcoming(vs, list, r)
<1>0. list \in Seq(Items) /\ Len(vs) \in Nat /\ Len(list) \in Nat
  BY DEF Faithful
<1>. DEFINE p == SubSeq(list, Len(vs) + 1, Len(list))
            q == SubSeq(list, Len(vs) + 2, Len(list))
<1>1. /\ p \in Seq(Items) /\ q \in Seq(Items) /\ p # <<>>
      /\ Head(p) = At(vs, list) /\ Tail(p) = q
  BY <1>0, DropOne DEF At
<1>. HIDE DEF p, q
<1>6. At(vs, list) \in Items
  BY <1>0 DEF At
<1>. DEFINE b == At(vs, list).bytes
            c == Bytes(q)
<1>7. b \in Seq(Byte)
  BY <1>6, ItemKind
<1>8. Bytes(p) = b \o c
  BY <1>1, BytesHead, Zenon
<1>9. c \in Seq(Byte)
  BY <1>1, BytesType
<1>. HIDE DEF b, c
<1>10. (b \o c) \o r = b \o (c \o r)
  BY <1>7, <1>9, ConcatAssoc
<1>11. Ahead(vs, list, r) = (b \o c) \o r /\ Behind(vs, list, r) = c \o r
  BY <1>8, Zenon DEF Ahead, Behind, c, p, q
<1>12. Behind(vs, list, r) \in Seq(Byte)
  BY AheadType
<1>. QED
  BY <1>6, <1>10, <1>11, <1>12, Zenon DEF Upcoming, b

LEMMA AheadNone ==
    ASSUME NEW vs, NEW list, Faithful(vs, list), NEW r \in Seq(Byte), Len(vs) = Len(list)
    PROVE  Ahead(vs, list, r) = r
<1>0. list \in Seq(Items) /\ Len(vs) \in Nat /\ Len(list) \in Nat
  BY DEF Faithful
<1>. DEFINE p == SubSeq(list, Len(vs) + 1, Len(list))
<1>1. p \in Seq(Items) /\ p = <<>>
  BY <1>0
<1>. HIDE DEF p
<1>2. Bytes(p) = <<>>
  BY <1>1, BytesType
<1>3. <<>> \o r = r
  BY ConcatEmpty
<1>. QED
  BY <1>2, <1>3, Zenon DEF Ahead, p

\* Reading on: behind the item that was next, and at the start of an array.
LEMMA AheadLonger ==
    ASSUME NEW vs, NEW list, Faithful(vs, list), NEW r, NEW v \in Val
    PROVE  Ahead(Append(vs, v), list, r) = Behind(vs, list, r)
<1>0. vs \in Seq(Val) /\ Len(vs) \in Nat
  BY DEF Faithful
<1>1. Len(Append(vs, v)) = Len(vs) + 1 /\ (Len(vs) + 1) + 1 = Len(vs) + 2
  BY <1>0
<1>. QED
  BY <1>1, Zenon DEF Ahead, Behind

LEMMA AheadStart ==
    ASSUME NEW list \in Seq(Items), NEW r
    PROVE  Ahead(<<>>, list, r) = Bytes(list) \o r
<1>1. SubSeq(list, 0 + 1, Len(list)) = list /\ Len(<<>>) = 0
  OBVIOUS
<1>. QED
  BY <1>1, Zenon DEF Ahead

-----------------------------------------------------------------------------
(* The inductive invariant: the Reader stands between two items, or behind *)
(* the line that begins a bulk string, at some level of the script; what   *)
(* is in the buffer and under way is what follows.                         *)

\* The body of bulk string x: n bytes, and two that should be CRLF.
Body(x, n, c) == /\ n \in Nat /\ c \in Seq(Byte) /\ Len(c) = n + 2
                 /\ IF SubSeq(c, n + 1, n + 2) = CRLF
                    THEN ~x.bad /\ x.val = BulkString(SubSeq(c, 1, n)) ELSE x.bad

Joins(b, y, f) == b \o y = f
InBody(b, y, n, vs, list, r) ==
    /\ Len(vs) < Len(list)
    /\ \E c : Body(At(vs, list), n, c) /\ SameFlow(b, y, c, Behind(vs, list, r))
Flow(b, y, n, vs, list, r) ==
    IF n = -1 THEN Joins(b, y, Ahead(vs, list, r)) ELSE InBody(b, y, n, vs, list, r)

\* z are the bytes a peer that is gone has not sent.
Place(S, K, G, g, d, W, L, R, z) ==
    /\ Path(S, d, W, L, R) /\ Linked(K, G, d, W, L)
    /\ z \in Seq(Byte) /\ (g = FALSE => z = <<>>)

Reading(S, K, G, g, b, w, n) ==
    \E d, W, L, R, z : /\ Place(S, K, G, g, d, W, L, R, z)
                       /\ Flow(b, w \o z, n, W[d], L[d], R[d])

RespInv ==
    /\ buf \in Seq(Byte) /\ wire \in Seq(Byte) /\ (need = -1 \/ need \in Nat)
    /\ st \in {"open", "eof", "error"} /\ gone \in BOOLEAN
    /\ CleanEnd
    /\ Reading(script, stack, got, gone, buf, wire, need)

-----------------------------------------------------------------------------
(* The next item is a script's last one only outside of arrays.            *)

LEMMA PlaceFacts ==
    ASSUME NEW S, NEW K, NEW G, NEW g, NEW d, NEW W, NEW L, NEW R, NEW z,
           Place(S, K, G, g, d, W, L, R, z)
    PROVE  /\ d \in Nat /\ d >= 1 /\ Len(K) + 1 = d /\ K \in Seq(Frame) /\ Len(K) \in Nat
           /\ Faithful(W[d], L[d]) /\ R[d] \in Seq(Byte) /\ Len(W[d]) \in Nat /\ Len(L[d]) \in Nat
           /\ Len(W[d]) <= Len(L[d]) /\ z \in Seq(Byte)
<1>1. /\ Path(S, d, W, L, R) /\ Linked(K, G, d, W, L)
      /\ z \in Seq(Byte) /\ (g = FALSE => z = <<>>)
  BY Zenon DEF Place
<1>2. d \in Nat /\ d >= 1 /\ d \in 1 .. d
  BY <1>1 DEF Path
<1>3. Faithful(W[d], L[d]) /\ R[d] \in Seq(Byte)
  BY <1>1, <1>2, Zenon DEF Path
<1>4. Len(W[d]) \in Nat /\ Len(L[d]) \in Nat /\ Len(W[d]) <= Len(L[d])
  BY <1>3 DEF Faithful
<1>5. Len(K) + 1 = d /\ K \in Seq(Frame) /\ Len(K) \in Nat
  BY <1>1 DEF Linked
<1>. QED
  BY <1>1, <1>2, <1>3, <1>4, <1>5, Zenon

LEMMA InnermostFrame ==
    ASSUME NEW K, NEW G, NEW d, NEW W, NEW L, Linked(K, G, d, W, L), K # <<>>
    PROVE  /\ Last(K).elems = W[d] /\ Last(K).n = Len(L[d]) /\ d - 1 \in 1 .. d - 1 /\ d # 1
           /\ (d - 1) + 1 = d
<1>1. /\ K \in Seq(Frame) /\ Len(K) \in Nat /\ Len(K) >= 1 /\ Len(K) + 1 = d
      /\ \A j \in 1 .. d - 1 : K[j].elems = W[j + 1] /\ K[j].n = Len(L[j + 1])
  BY DEF Linked
<1>2. Len(K) \in 1 .. d - 1 /\ d - 1 = Len(K) /\ d # 1
  BY <1>1
<1>3. K[Len(K)].elems = W[d] /\ K[Len(K)].n = Len(L[d])
  BY <1>1, <1>2, Zenon
<1>4. (d - 1) + 1 = d
  BY <1>1
<1>. QED
  BY <1>2, <1>3, <1>4, Zenon DEF Last

LEMMA FullWhenRead ==
    ASSUME NEW S, NEW g, NEW d, NEW W, NEW L, NEW R, NEW z,
           Place(S, stack, got, g, d, W, L, R, z), Len(W[d]) = Len(L[d]), ~Full
    PROVE  d = 1 /\ stack = <<>> /\ L[d] = S /\ W[d] = got /\ R[d] = <<>>
<1>0. Path(S, d, W, L, R) /\ Linked(stack, got, d, W, L)
  BY Zenon DEF Place
<1>1. Len(stack) + 1 = d /\ Len(stack) \in Nat /\ stack \in Seq(Frame)
  BY <1>0 DEF Linked
<1>2. CASE stack = <<>>
  <2>1. d = 1
    BY <1>1, <1>2
  <2>2. L[1] = S /\ R[1] = <<>> /\ W[1] = got
    BY <1>0, Zenon DEF Path, Linked
  <2>. QED
    BY <1>2, <2>1, <2>2, Zenon
<1>3. CASE stack # <<>>
  <2>1. Last(stack).elems = W[d] /\ Last(stack).n = Len(L[d])
    BY <1>0, <1>3, InnermostFrame
  <2>2. Full
    BY <1>3, <2>1, Zenon DEF Full
  <2>. QED
    BY <2>2
<1>. QED
  BY <1>2, <1>3

\* The item the Reader faces: line h, and r behind it.
Facing(d, W, L, R, z, h, r) ==
    /\ Place(script, stack, got, gone, d, W, L, R, z)
    /\ Len(W[d]) < Len(L[d]) /\ Kind(At(W[d], L[d]), h, r)
    /\ LineOf(buf) = h /\ Head(buf) = h[1] /\ Rest \in Seq(Byte) /\ r \in Seq(Byte)
    /\ Joins(Rest, wire \o z, r \o Behind(W[d], L[d], R[d]))
    /\ wire \o z \in Seq(Byte) /\ Behind(W[d], L[d], R[d]) \in Seq(Byte)

\* If there is an item left, the bytes ahead begin with its line.
LEMMA LineAhead ==
    ASSUME NEW vs, NEW list, NEW r, Faithful(vs, list), r \in Seq(Byte), Len(vs) < Len(list)
    PROVE  \E h, t : /\ IsLine(h) /\ t \in Seq(Byte) /\ Kind(At(vs, list), h, t)
                     /\ Behind(vs, list, r) \in Seq(Byte)
                     /\ Ahead(vs, list, r) = h \o (t \o Behind(vs, list, r))
<1>. DEFINE x == At(vs, list)
            e == Behind(vs, list, r)
<1>1. Upcoming(vs, list, r)
  BY AheadNext
<1>2. x \in Items /\ e \in Seq(Byte) /\ Ahead(vs, list, r) = x.bytes \o e
  BY <1>1, Zenon DEF Upcoming
<1>3. PICK h, t : Begins(x, h, t) /\ Kind(x, h, t)
  BY <1>2, ItemKind, Zenon
<1>4. IsLine(h) /\ h \in Seq(Byte) /\ t \in Seq(Byte) /\ x.bytes = h \o t
  BY <1>3, Zenon DEF Begins, IsLine
<1>. HIDE DEF x, e
<1>5. (h \o t) \o e = h \o (t \o e)
  BY <1>2, <1>4, ConcatAssoc
<1>6. Ahead(vs, list, r) = h \o (t \o e)
  BY <1>2, <1>4, <1>5, Zenon
<1>. QED
  BY <1>2, <1>3, <1>4, <1>6, Zenon DEF x, e

LEMMA AtItem ==
    ASSUME RespInv, AtLine
    PROVE  \E d, W, L, R, z, h, r : Facing(d, W, L, R, z, h, r)
<1>0. /\ buf \in Seq(Byte) /\ wire \in Seq(Byte) /\ need = -1 /\ ~Full /\ HasLine(buf)
      /\ Reading(script, stack, got, gone, buf, wire, need)
  BY Zenon DEF RespInv, AtLine
<1>1. PICK d, W, L, R, z : /\ Place(script, stack, got, gone, d, W, L, R, z)
                           /\ Flow(buf, wire \o z, need, W[d], L[d], R[d])
  BY <1>0, Zenon DEF Reading
<1>2. /\ Faithful(W[d], L[d]) /\ R[d] \in Seq(Byte) /\ z \in Seq(Byte)
      /\ Len(W[d]) \in Nat /\ Len(L[d]) \in Nat /\ Len(W[d]) <= Len(L[d])
  BY <1>1, PlaceFacts
<1>. DEFINE y == wire \o z
            a == Ahead(W[d], L[d], R[d])
<1>3. y \in Seq(Byte)
  BY <1>0, <1>2, ConcatFacts
<1>4. buf \o y = a
  BY <1>0, <1>1, Zenon DEF Flow, Joins
<1>. HIDE DEF y
<1>5. Len(W[d]) # Len(L[d])
  <2>. SUFFICES ASSUME Len(W[d]) = Len(L[d]) PROVE FALSE
    OBVIOUS
  <2>1. R[d] = <<>>
    BY <1>0, <1>1, FullWhenRead
  <2>2. a = <<>>
    BY <1>2, <2>1, AheadNone
  <2>3. buf = <<>>
    <3>1. \A s \in Seq(Byte), t \in Seq(Byte) : s \o t = <<>> => s = <<>>
      BY ConcatEmpty
    <3>. QED
      BY <1>0, <1>3, <1>4, <2>2, <3>1, Zenon
  <2>. QED
    BY <1>0, <2>3 DEF HasLine, Range
<1>6. Len(W[d]) < Len(L[d])
  BY <1>2, <1>5
<1>7. PICK h, t : /\ IsLine(h) /\ t \in Seq(Byte) /\ Kind(At(W[d], L[d]), h, t)
                  /\ Behind(W[d], L[d], R[d]) \in Seq(Byte)
                  /\ a = h \o (t \o Behind(W[d], L[d], R[d]))
  BY <1>2, <1>6, LineAhead
<1>. DEFINE e == Behind(W[d], L[d], R[d])
            q == t \o e
<1>8. q \in Seq(Byte)
  BY <1>7, ConcatFacts
<1>9. SameFlow(buf, y, h, q)
  BY <1>4, <1>7, Zenon DEF SameFlow
<1>. HIDE DEF q
<1>10. LineRead(buf, y, h, q)
  BY <1>0, <1>3, <1>7, <1>8, <1>9, LineTaken
<1>11. /\ LineOf(buf) = h /\ Head(buf) = h[1] /\ Rest \in Seq(Byte) /\ Joins(Rest, y, q)
  BY <1>10, Zenon DEF LineRead, Rest, Joins
<1>12. Facing(d, W, L, R, z, h, t)
  BY <1>1, <1>3, <1>6, <1>7, <1>11, Zenon DEF Facing, y, q
<1>. QED
  BY <1>12

-----------------------------------------------------------------------------
(* A value is complete.                                                    *)

LEMMA DeliverIs ==
    ASSUME NEW K, NEW v, Deliver(K, v)
    PROVE  Delivered(K, got, v, stack', got')
BY Zenon DEF Deliver, Delivered

\* An open Reader that goes on.
LEMMA StaysOpen ==
    ASSUME st' = "open" PROVE CleanEnd'
BY DEF CleanEnd

LEMMA Goes ==
    ASSUME RespInv, st = "open", UNCHANGED <<script, st, gone>>,
           buf' \in Seq(Byte), wire' \in Seq(Byte), need' = -1 \/ need' \in Nat,
           Reading(script, stack', got', gone, buf', wire', need')
    PROVE  RespInv'
<1>1. st' = "open" /\ gone' = gone /\ gone \in BOOLEAN /\ script' = script
  BY Zenon DEF RespInv
<1>2. CleanEnd'
  BY <1>1, StaysOpen, Zenon
<1>3. st' \in {"open", "eof", "error"} /\ gone' \in BOOLEAN
  BY <1>1, Zenon
<1>4. Reading(script', stack', got', gone', buf', wire', need')
  BY <1>1, Zenon
<1>. QED
  BY <1>2, <1>3, <1>4, Zenon DEF RespInv

\* The value of the next item is delivered at a level: K is the stack of its arrays.
LEMMA Delivering ==
    ASSUME NEW K, NEW d, NEW W, NEW L, NEW R, NEW z,
           Place(script, K, got, gone, d, W, L, R, z), Len(W[d]) < Len(L[d]),
           ~At(W[d], L[d]).bad, Deliver(K, At(W[d], L[d]).val),
           NEW b, NEW w, Joins(b, w \o z, Behind(W[d], L[d], R[d]))
    PROVE  Reading(script, stack', got', gone, b, w, -1)
<1>. DEFINE v == At(W[d], L[d]).val
            W2 == Longer(d, W, v)
<1>0. /\ Path(script, d, W, L, R) /\ Linked(K, got, d, W, L)
      /\ z \in Seq(Byte) /\ (gone = FALSE => z = <<>>)
  BY Zenon DEF Place
<1>1. Faithful(W[d], L[d]) /\ d \in Nat /\ d >= 1
  BY PlaceFacts
<1>2. v \in Val
  <2>1. At(W[d], L[d]) \in Items
    BY <1>1, FaithfulNext
  <2>. QED
    BY <2>1, Zenon DEF Val
<1>3. Path(script, d, W2, L, R)
  BY <1>0, PathDeliver
<1>4. Delivered(K, got, v, stack', got')
  BY DeliverIs, Zenon
<1>. HIDE DEF v
<1>5. Linked(stack', got', d, W2, L)
  BY <1>0, <1>2, <1>4, LinkDeliver
<1>6. W2[d] = Append(W[d], v)
  BY <1>1 DEF Longer
<1>. HIDE DEF W2
<1>7. Ahead(W2[d], L[d], R[d]) = Behind(W[d], L[d], R[d])
  BY <1>1, <1>2, <1>6, AheadLonger
<1>8. Flow(b, w \o z, -1, W2[d], L[d], R[d])
  BY <1>7, Zenon DEF Flow
<1>9. Place(script, stack', got', gone, d, W2, L, R, z)
  BY <1>0, <1>3, <1>5, Zenon DEF Place
<1>. QED
  BY <1>8, <1>9, Zenon DEF Reading

LEMMA Completing ==
    ASSUME RespInv, st = "open", NEW d, NEW W, NEW L, NEW R, NEW z,
           Place(script, stack, got, gone, d, W, L, R, z), Len(W[d]) < Len(L[d]),
           ~At(W[d], L[d]).bad, NEW b \in Seq(Byte), Completes(At(W[d], L[d]).val, b),
           Joins(b, wire \o z, Behind(W[d], L[d], R[d]))
    PROVE  RespInv'
<1>1. /\ Deliver(stack, At(W[d], L[d]).val) /\ buf' = b /\ need' = -1
      /\ UNCHANGED <<script, wire, st, gone>>
  BY Zenon DEF Completes
<1>2. Reading(script, stack', got', gone, b, wire, -1)
  BY <1>1, Delivering
<1>3. wire \in Seq(Byte)
  BY Zenon DEF RespInv
<1>4. wire' = wire /\ UNCHANGED <<script, st, gone>>
  BY <1>1
<1>5. Reading(script, stack', got', gone, buf', wire', need')
  BY <1>1, <1>2, <1>4, Zenon
<1>6. buf' \in Seq(Byte) /\ wire' \in Seq(Byte) /\ (need' = -1 \/ need' \in Nat)
  BY <1>1, <1>3, <1>4, Zenon
<1>. QED
  BY <1>4, <1>5, <1>6, Goes

\* The item was a line.
LEMMA CompletingLine ==
    ASSUME RespInv, st = "open", NEW d, NEW W, NEW L, NEW R, NEW z, NEW h, NEW r,
           Facing(d, W, L, R, z, h, r), ~At(W[d], L[d]).bad, r = <<>>,
           Completes(At(W[d], L[d]).val, Rest)
    PROVE  RespInv'
<1>. DEFINE e == Behind(W[d], L[d], R[d])
<1>1. /\ Place(script, stack, got, gone, d, W, L, R, z) /\ Len(W[d]) < Len(L[d])
      /\ Rest \in Seq(Byte) /\ e \in Seq(Byte) /\ Joins(Rest, wire \o z, r \o e)
  BY Zenon DEF Facing
<1>2. r \o e = e
  <2>1. <<>> \o e = e
    <3>. HIDE DEF e
    <3>. QED
      BY <1>1, ConcatEmpty
  <2>. QED
    BY <2>1, Zenon
<1>3. Joins(Rest, wire \o z, e)
  BY <1>1, <1>2, Zenon
<1>. QED
  BY <1>1, <1>3, Completing

-----------------------------------------------------------------------------
(* The first byte and the line tell the kinds apart.                       *)

LEMMA KindHeads ==
    ASSUME NEW x, NEW h, NEW r
    PROVE  /\ StringKind(x, h, r) => h[1] \in {"+", "-"} /\ EndsCRLF(Tail(h)) /\ ~x.bad
           /\ IntegerKind(x, h, r) => h[1] = ":" /\ Numbered(h)
           /\ NullKind(x, h, r) => h[1] \in {"$", "*"} /\ Numbered(h)
           /\ BulkKind(x, h, r) => h[1] = "$" /\ Numbered(h)
           /\ ArrayKind(x, h, r) => h[1] = "*" /\ Numbered(h)
           /\ InlineKind(x, h, r) => h[1] \notin TypeByte /\ EndsCRLF(h)
           /\ BadBodyKind(x, h, r) => h[1] = "$" /\ Numbered(h)
           /\ BadLineKind(x, h, r) =>
                /\ x.bad
                /\ h[1] \in TypeByte => (EndsCRLF(Tail(h)) => h[1] \in {":", "$", "*"} /\ ~IsNumeral(LineText(h)))
                /\ h[1] \notin TypeByte => ~EndsCRLF(h)
BY Zenon DEF StringKind, IntegerKind, NullKind, BulkKind, ArrayKind, InlineKind, BadBodyKind, BadLineKind

LEMMA KindByHead ==
    ASSUME NEW x, NEW h, NEW r, Kind(x, h, r)
    PROVE  /\ h[1] \in {"+", "-"} /\ EndsCRLF(Tail(h)) => StringKind(x, h, r)
           /\ h[1] = ":" /\ Numbered(h) => IntegerKind(x, h, r)
           /\ h[1] = "$" /\ Numbered(h) =>
                NullKind(x, h, r) \/ BulkKind(x, h, r) \/ BadBodyKind(x, h, r)
           /\ h[1] = "*" /\ Numbered(h) => NullKind(x, h, r) \/ ArrayKind(x, h, r)
           /\ h[1] \notin TypeByte /\ EndsCRLF(h) => InlineKind(x, h, r)
           /\ h[1] \notin TypeByte /\ ~EndsCRLF(h) => x.bad
           /\ h[1] \in TypeByte /\ ~EndsCRLF(Tail(h)) => x.bad
           /\ h[1] \in {":", "$", "*"} /\ ~IsNumeral(LineText(h)) => x.bad
<1>1. /\ h[1] \in {"+", "-"} => h[1] \in TypeByte /\ h[1] \notin {":", "$", "*"}
      /\ h[1] \in {":", "$", "*"} => h[1] \in TypeByte
  BY DEF TypeByte
<1>2. Numbered(h) => EndsCRLF(Tail(h)) /\ IsNumeral(LineText(h))
  BY Zenon DEF Numbered
<1>. QED
  BY <1>1, <1>2, KindHeads DEF Kind

LEMMA StringStep == ASSUME RespInv, ReadString PROVE RespInv'
<1>1. AtLine /\ st = "open" /\ Head(buf) \in {"+", "-"} /\ Sound
  BY Zenon DEF ReadString, Typed, AtLine
<1>2. PICK d, W, L, R, z, h, r : Facing(d, W, L, R, z, h, r)
  BY <1>1, AtItem
<1>. DEFINE x == At(W[d], L[d])
<1>3. Kind(x, h, r) /\ LineOf(buf) = h /\ Head(buf) = h[1]
  BY <1>2, Zenon DEF Facing
<1>4. h[1] \in {"+", "-"} /\ EndsCRLF(Tail(h)) /\ Text = LineText(h)
  BY <1>1, <1>3, Zenon DEF Sound, Text, LineText
<1>5. StringKind(x, h, r)
  BY <1>3, <1>4, KindByHead
<1>6. /\ r = <<>> /\ ~x.bad
      /\ x.val = IF h[1] = "+" THEN SimpleString(LineText(h)) ELSE Error(LineText(h))
  BY <1>5, Zenon DEF StringKind
<1>7. Completes(x.val, Rest)
  BY <1>3, <1>4, <1>6, Zenon DEF ReadString
<1>. QED
  BY <1>1, <1>2, <1>6, <1>7, CompletingLine

LEMMA IntegerStep == ASSUME RespInv, ReadInteger PROVE RespInv'
<1>1. AtLine /\ st = "open" /\ Head(buf) = ":" /\ Sound /\ IsNumeral(Text)
  BY Zenon DEF ReadInteger, Typed, AtLine
<1>2. PICK d, W, L, R, z, h, r : Facing(d, W, L, R, z, h, r)
  BY <1>1, AtItem
<1>. DEFINE x == At(W[d], L[d])
<1>3. Kind(x, h, r) /\ LineOf(buf) = h /\ Head(buf) = h[1]
  BY <1>2, Zenon DEF Facing
<1>4. h[1] = ":" /\ Numbered(h) /\ Text = LineText(h)
  BY <1>1, <1>3, Zenon DEF Sound, Text, LineText, Numbered
<1>5. IntegerKind(x, h, r)
  BY <1>3, <1>4, KindByHead
<1>6. r = <<>> /\ ~x.bad /\ x.val = Integer(Atoi(LineText(h)))
  BY <1>5, Zenon DEF IntegerKind
<1>7. Completes(x.val, Rest)
  BY <1>4, <1>6, Zenon DEF ReadInteger
<1>. QED
  BY <1>1, <1>2, <1>6, <1>7, CompletingLine

\* What the length behind "$" or "*" says of a null.
LEMMA NullIsNegative ==
    ASSUME NEW x, NEW h, NEW r, NullKind(x, h, r)
    PROVE  Atoi(LineText(h)) < 0
<1>1. Atoi(LineText(h)) = -1
  BY Zenon DEF NullKind
<1>2. -1 < 0
  OBVIOUS
<1>. QED
  BY <1>1, <1>2, Zenon

LEMMA BulkBody ==
    ASSUME NEW s \in Seq(Byte), NEW c, c = s \o CRLF
    PROVE  /\ Len(s) \in Nat /\ c \in Seq(Byte) /\ Len(c) = Len(s) + 2
           /\ SubSeq(c, Len(s) + 1, Len(s) + 2) = CRLF /\ SubSeq(c, 1, Len(s)) = s
<1>0. Len(s) \in Nat
  OBVIOUS
<1>1. CRLF \in Seq(Byte) /\ Len(CRLF) = 2 /\ CRLF[1] = CR /\ CRLF[2] = LF
  BY NumericBytes DEF CRLF
<1>2. c \in Seq(Byte) /\ Joined(c, s, CRLF)
  BY <1>1, ConcatJoined, Zenon
<1>3. /\ Len(c) = Len(s) + 2 /\ \A k \in 1 .. Len(s) : c[k] = s[k]
      /\ \A k \in 1 .. 2 : c[Len(s) + k] = CRLF[k]
  BY <1>1, <1>2, Zenon DEF Joined
<1>. DEFINE p == SubSeq(c, Len(s) + 1, Len(s) + 2)
            q == SubSeq(c, 1, Len(s))
<1>4. p \in Seq(Byte) /\ Len(p) = 2 /\ p[1] = c[Len(s) + 1] /\ p[2] = c[Len(s) + 2]
  BY <1>0, <1>2, <1>3
<1>5. q \in Seq(Byte) /\ Len(q) = Len(s) /\ \A k \in 1 .. Len(s) : q[k] = c[k]
  BY <1>0, <1>2, <1>3
<1>. HIDE DEF p, q
<1>6. p = CRLF
  <2>1. 1 \in 1 .. 2 /\ 2 \in 1 .. 2
    OBVIOUS
  <2>2. p[1] = CRLF[1] /\ p[2] = CRLF[2]
    BY <1>3, <1>4, <2>1, Zenon
  <2>3. \A k \in 1 .. Len(p) : p[k] = CRLF[k]
    BY <1>4, <2>2
  <2>4. Len(p) = Len(CRLF)
    BY <1>1, <1>4, Zenon
  <2>. QED
    BY <1>1, <1>4, <2>3, <2>4, SeqEqual
<1>7. q = s
  <2>1. \A k \in 1 .. Len(q) : q[k] = s[k]
    BY <1>3, <1>5, Zenon
  <2>. QED
    BY <1>5, <2>1, SeqEqual
<1>. QED
  BY <1>0, <1>2, <1>3, <1>6, <1>7 DEF p, q

\* Behind the line of a bulk string there is its body.
LEMMA BodyAfterLine ==
    ASSUME NEW x, NEW h, NEW r \in Seq(Byte), BulkKind(x, h, r) \/ BadBodyKind(x, h, r)
    PROVE  Atoi(LineText(h)) \in Nat /\ Body(x, Atoi(LineText(h)), r)
<1>. DEFINE n == Atoi(LineText(h))
<1>1. CASE BulkKind(x, h, r)
  <2>. DEFINE s == x.val.str
  <2>1. s \in Seq(Byte) /\ x.val = BulkString(s) /\ n = Len(s) /\ r = s \o CRLF /\ ~x.bad
    BY <1>1, Zenon DEF BulkKind
  <2>. HIDE DEF n, s
  <2>2. /\ Len(s) \in Nat /\ Len(r) = Len(s) + 2
        /\ SubSeq(r, Len(s) + 1, Len(s) + 2) = CRLF /\ SubSeq(r, 1, Len(s)) = s
    BY <2>1, BulkBody
  <2>3. n \in Nat /\ Body(x, n, r)
    BY <2>1, <2>2, Zenon DEF Body
  <2>. QED
    BY <2>3 DEF n
<1>2. CASE BadBodyKind(x, h, r)
  <2>1. x.bad /\ Len(r) = n + 2 /\ SubSeq(r, n + 1, n + 2) # CRLF
    BY <1>2, Zenon DEF BadBodyKind
  <2>2. n \in Nat
    BY <1>2, Zenon DEF BadBodyKind
  <2>. HIDE DEF n
  <2>3. Body(x, n, r)
    BY <2>1, <2>2, Zenon DEF Body
  <2>. QED
    BY <2>2, <2>3 DEF n
<1>. QED
  BY <1>1, <1>2

LEMMA BulkStep == ASSUME RespInv, readBulkString PROVE RespInv'
<1>1. AtLine /\ st = "open" /\ Head(buf) = "$" /\ Sound /\ IsNumeral(Text)
  BY Zenon DEF readBulkString, Typed, AtLine
<1>2. PICK d, W, L, R, z, h, r : Facing(d, W, L, R, z, h, r)
  BY <1>1, AtItem
<1>. DEFINE x == At(W[d], L[d])
            e == Behind(W[d], L[d], R[d])
            n == Atoi(LineText(h))
<1>3. /\ Kind(x, h, r) /\ LineOf(buf) = h /\ Head(buf) = h[1] /\ r \in Seq(Byte)
      /\ Place(script, stack, got, gone, d, W, L, R, z) /\ Len(W[d]) < Len(L[d])
      /\ Rest \in Seq(Byte) /\ Joins(Rest, wire \o z, r \o e)
  BY <1>2, Zenon DEF Facing
<1>4. h[1] = "$" /\ Numbered(h) /\ Text = LineText(h)
  BY <1>1, <1>3, Zenon DEF Sound, Text, LineText, Numbered
<1>5. NullKind(x, h, r) \/ BulkKind(x, h, r) \/ BadBodyKind(x, h, r)
  BY <1>3, <1>4, KindByHead
<1>6. CASE NullKind(x, h, r)
  <2>1. r = <<>> /\ ~x.bad /\ x.val = NullBulkString
    BY <1>4, <1>6, Zenon DEF NullKind
  <2>2. n < 0
    BY <1>6, NullIsNegative
  <2>3. Completes(x.val, Rest)
    BY <1>4, <2>1, <2>2, Zenon DEF readBulkString
  <2>. QED
    BY <1>1, <1>2, <2>1, <2>3, CompletingLine
<1>7. CASE BulkKind(x, h, r) \/ BadBodyKind(x, h, r)
  <2>1. n \in Nat /\ Body(x, n, r)
    BY <1>3, <1>7, BodyAfterLine
  <2>2. ~(n < 0) /\ n # -1
    <3>. HIDE DEF n
    <3>. QED
      BY <2>1
  <2>3. /\ need' = n /\ buf' = Rest
        /\ UNCHANGED <<script, wire, stack, got, st, gone>>
    BY <1>4, <2>2, Zenon DEF readBulkString
  <2>. HIDE DEF n
  <2>4. SameFlow(Rest, wire \o z, r, e)
    BY <1>3, Zenon DEF Joins, SameFlow
  <2>5. Flow(Rest, wire \o z, n, W[d], L[d], R[d])
    BY <1>3, <2>1, <2>2, <2>4, Zenon DEF Flow, InBody
  <2>6. Reading(script, stack, got, gone, Rest, wire, n)
    BY <1>3, <2>5, Zenon DEF Reading
  <2>7. wire' = wire /\ stack' = stack /\ got' = got /\ UNCHANGED <<script, st, gone>>
    BY <2>3
  <2>8. Reading(script, stack', got', gone, buf', wire', need')
    BY <2>3, <2>6, <2>7, Zenon
  <2>9. buf' \in Seq(Byte) /\ wire' \in Seq(Byte) /\ (need' = -1 \/ need' \in Nat)
    BY <1>3, <2>1, <2>3, <2>7, Zenon DEF RespInv
  <2>. QED
    BY <1>1, <2>7, <2>8, <2>9, Goes
<1>. QED
  BY <1>5, <1>6, <1>7

LEMMA ArrayStep == ASSUME RespInv, readArray PROVE RespInv'
<1>1. AtLine /\ st = "open" /\ need = -1 /\ Head(buf) = "*" /\ Sound /\ IsNumeral(Text)
  BY Zenon DEF readArray, Typed, AtLine
<1>2. PICK d, W, L, R, z, h, r : Facing(d, W, L, R, z, h, r)
  BY <1>1, AtItem
<1>. DEFINE x == At(W[d], L[d])
            e == Behind(W[d], L[d], R[d])
            n == Atoi(LineText(h))
<1>3. /\ Kind(x, h, r) /\ LineOf(buf) = h /\ Head(buf) = h[1] /\ r \in Seq(Byte)
      /\ Place(script, stack, got, gone, d, W, L, R, z) /\ Len(W[d]) < Len(L[d])
      /\ Rest \in Seq(Byte) /\ Joins(Rest, wire \o z, r \o e) /\ e \in Seq(Byte)
  BY <1>2, Zenon DEF Facing
<1>4. h[1] = "*" /\ Numbered(h) /\ Text = LineText(h)
  BY <1>1, <1>3, Zenon DEF Sound, Text, LineText, Numbered
<1>5. NullKind(x, h, r) \/ ArrayKind(x, h, r)
  BY <1>3, <1>4, KindByHead
<1>6. CASE NullKind(x, h, r)
  <2>1. r = <<>> /\ ~x.bad /\ x.val = NullArray
    <3>1. h[1] # "$"
      BY <1>4
    <3>. QED
      BY <1>6, <3>1, Zenon DEF NullKind
  <2>2. n < 0
    BY <1>6, NullIsNegative
  <2>3. Completes(x.val, Rest)
    BY <1>4, <2>1, <2>2, Zenon DEF readArray
  <2>. QED
    BY <1>1, <1>2, <2>1, <2>3, CompletingLine
<1>7. CASE ArrayKind(x, h, r)
  <2>. DEFINE q == x.parts
              K2 == Append(stack, [n |-> Len(q), elems |-> <<>>])
              W2 == Deeper(d, W, <<>>)
              L2 == Deeper(d, L, q)
              R2 == Deeper(d, R, e)
  <2>1. WrittenArray(x) /\ n = Len(q) /\ r = Bytes(q) /\ q \in Seq(Items)
    BY <1>7, Zenon DEF ArrayKind, WrittenArray
  <2>p. /\ Path(script, d, W, L, R) /\ Linked(stack, got, d, W, L)
        /\ z \in Seq(Byte) /\ (gone = FALSE => z = <<>>)
    BY <1>3, Zenon DEF Place
  <2>2. Path(script, d + 1, W2, L2, R2)
    BY <1>3, <2>1, <2>p, PathPush
  <2>. HIDE DEF n, q, e
  <2>3. ~(n < 0) /\ Len(q) \in Nat
    BY <2>1
  <2>4. Linked(K2, got, d + 1, W2, L2)
    BY <2>3, <2>p, LinkPush
  <2>5. Place(script, K2, got, gone, d + 1, W2, L2, R2, z)
    BY <2>2, <2>4, <2>p, Zenon DEF Place
  <2>6. W2[d + 1] = <<>> /\ L2[d + 1] = q /\ R2[d + 1] = e
    <3>1. d \in Nat
      BY <1>3, PlaceFacts
    <3>2. \A F, u : Deeper(d, F, u)[d + 1] = u
      BY <3>1, DeeperFacts
    <3>. QED
      BY <3>2, Zenon
  <2>7. Ahead(<<>>, q, e) = Bytes(q) \o e
    BY <2>1, AheadStart
  <2>8. Flow(Rest, wire \o z, -1, W2[d + 1], L2[d + 1], R2[d + 1])
    BY <1>3, <2>1, <2>6, <2>7, Zenon DEF Flow, e
  <2>9. /\ stack' = Append(stack, [n |-> n, elems |-> <<>>]) /\ buf' = Rest
        /\ UNCHANGED <<script, wire, need, got, st, gone>>
    BY <1>4, <2>3, Zenon DEF readArray, n
  <2>10. stack' = K2
    BY <2>1, <2>9, Zenon
  <2>. HIDE DEF K2, W2, L2, R2
  <2>11. Reading(script, K2, got, gone, Rest, wire, -1)
    BY <2>5, <2>8, Zenon DEF Reading
  <2>12. wire' = wire /\ got' = got /\ need' = -1 /\ UNCHANGED <<script, st, gone>>
    BY <1>1, <2>9
  <2>13. Reading(script, stack', got', gone, buf', wire', need')
    BY <2>9, <2>10, <2>11, <2>12, Zenon
  <2>14. buf' \in Seq(Byte) /\ wire' \in Seq(Byte) /\ (need' = -1 \/ need' \in Nat)
    BY <1>3, <2>9, <2>12, Zenon DEF RespInv
  <2>. QED
    BY <1>1, <2>12, <2>13, <2>14, Goes
<1>. QED
  BY <1>5, <1>6, <1>7

\* The elements read are the value of the array they were written for.
LEMMA ArrayRead ==
    ASSUME NEW x, WrittenArray(x), NEW vs, Faithful(vs, x.parts), Len(vs) = Len(x.parts)
    PROVE  Array(vs) = x.val /\ ~x.bad
<1>. DEFINE q == x.parts
            us == Values(q)
<1>1. /\ x.val = Array(us) /\ x.bad = (\E i \in DOMAIN q : q[i].bad)
  BY Zenon DEF WrittenArray
<1>2. /\ vs \in Seq(Val) /\ q \in Seq(Items) /\ Len(q) \in Nat /\ DOMAIN q = 1 .. Len(q)
      /\ \A k \in 1 .. Len(q) : vs[k] = q[k].val /\ ~q[k].bad
  BY DEF Faithful
<1>. HIDE DEF q
<1>3. us = vs
  <2>0. us = [i \in 1 .. Len(q) |-> q[i].val]
    BY <1>2, Zenon DEF Values
  <2>1. \A k \in 1 .. Len(q) : q[k].val \in Val
    <3>1. \A k \in 1 .. Len(q) : q[k] \in Items
      BY <1>2
    <3>. QED
      BY <3>1, Zenon DEF Val
  <2>2. us \in Seq(Val) /\ Len(us) = Len(q) /\ \A k \in 1 .. Len(q) : us[k] = q[k].val
    BY <1>2, <2>0, <2>1
  <2>. HIDE DEF us
  <2>3. \A k \in 1 .. Len(us) : us[k] = vs[k]
    BY <1>2, <2>2
  <2>4. Len(us) = Len(vs)
    BY <2>2 DEF q
  <2>. QED
    BY <1>2, <2>2, <2>3, <2>4, SeqEqual
<1>4. ~(\E i \in DOMAIN q : q[i].bad)
  BY <1>2, Zenon
<1>5. ~x.bad
  BY <1>1, <1>4, Zenon
<1>. QED
  BY <1>1, <1>3, <1>5, Zenon

LEMMA ReturnStep == ASSUME RespInv, ReturnArray PROVE RespInv'
<1>1. /\ st = "open" /\ stack # <<>> /\ Len(Last(stack).elems) = Last(stack).n /\ Full
      /\ Deliver(Front(stack), Array(Last(stack).elems))
      /\ UNCHANGED <<script, wire, buf, need, st, gone>>
  BY Zenon DEF ReturnArray, Full
<1>2. /\ Reading(script, stack, got, gone, buf, wire, need) /\ buf \in Seq(Byte)
      /\ wire \in Seq(Byte) /\ (need = -1 \/ need \in Nat)
  BY Zenon DEF RespInv
<1>3. PICK d, W, L, R, z : /\ Place(script, stack, got, gone, d, W, L, R, z)
                           /\ Flow(buf, wire \o z, need, W[d], L[d], R[d])
  BY <1>2, Zenon DEF Reading
<1>4. /\ Path(script, d, W, L, R) /\ Linked(stack, got, d, W, L)
      /\ z \in Seq(Byte) /\ (gone = FALSE => z = <<>>)
  BY <1>3, Zenon DEF Place
<1>5. /\ Faithful(W[d], L[d]) /\ R[d] \in Seq(Byte) /\ Len(W[d]) \in Nat
  BY <1>3, PlaceFacts
<1>6. /\ Last(stack).elems = W[d] /\ Last(stack).n = Len(L[d])
      /\ d # 1 /\ d - 1 \in 1 .. d - 1 /\ (d - 1) + 1 = d
  BY <1>1, <1>4, InnermostFrame
<1>7. Len(W[d]) = Len(L[d]) /\ ~(Len(W[d]) < Len(L[d]))
  BY <1>1, <1>5, <1>6
<1>8. need = -1 /\ Joins(buf, wire \o z, Ahead(W[d], L[d], R[d]))
  BY <1>3, <1>7, Zenon DEF Flow, InBody
<1>9. Ahead(W[d], L[d], R[d]) = R[d]
  BY <1>5, <1>7, AheadNone
<1>. DEFINE c == d - 1
<1>10. Path(script, c, W, L, R) /\ Linked(Front(stack), got, c, W, L)
  BY <1>1, <1>4, <1>6, PathPop, LinkPop
<1>11. Place(script, Front(stack), got, gone, c, W, L, R, z)
  BY <1>4, <1>10, Zenon DEF Place
<1>12. Opened(W[c], L[c], R[c], L[d], R[d])
  BY <1>4, <1>6, Zenon DEF Path
<1>. DEFINE x == At(W[c], L[c])
<1>13. /\ Len(W[c]) < Len(L[c]) /\ WrittenArray(x) /\ L[d] = x.parts
       /\ R[d] = Behind(W[c], L[c], R[c])
  BY <1>12, Zenon DEF Opened
<1>14. Array(W[d]) = x.val /\ ~x.bad
  <2>1. Faithful(W[d], x.parts) /\ Len(W[d]) = Len(x.parts)
    BY <1>5, <1>7, <1>13, Zenon
  <2>. QED
    BY <1>13, <2>1, ArrayRead
<1>15. Joins(buf, wire \o z, Behind(W[c], L[c], R[c]))
  BY <1>8, <1>9, <1>13, Zenon
<1>16. Deliver(Front(stack), x.val)
  BY <1>1, <1>6, <1>14, Zenon
<1>. HIDE DEF c
<1>17. Reading(script, stack', got', gone, buf, wire, -1)
  BY <1>11, <1>13, <1>14, <1>15, <1>16, Delivering
<1>18. wire' = wire /\ buf' = buf /\ need' = -1 /\ UNCHANGED <<script, st, gone>>
  BY <1>1, <1>8
<1>19. Reading(script, stack', got', gone, buf', wire', need')
  BY <1>17, <1>18, Zenon
<1>20. buf' \in Seq(Byte) /\ wire' \in Seq(Byte) /\ (need' = -1 \/ need' \in Nat)
  BY <1>2, <1>18, Zenon
<1>. QED
  BY <1>1, <1>18, <1>19, <1>20, Goes

-----------------------------------------------------------------------------
(* A malformed item anywhere makes one of the script malformed.            *)

HasBad(list) == \E i \in DOMAIN list : list[i].bad

LEMMA BadRises ==
    ASSUME NEW S, NEW d, NEW W, NEW L, NEW R, Path(S, d, W, L, R), HasBad(L[d])
    PROVE  HasBad(S)
<1>0. d \in Nat /\ d >= 1
  BY DEF Path
<1>. DEFINE T == {k \in Nat : k <= d - 1 => HasBad(L[d - k])}
<1>1. 0 \in T
  <2>1. d - 0 = d
    BY <1>0
  <2>. QED
    BY <2>1, Zenon
<1>2. ASSUME NEW k \in Nat, k \in T PROVE k + 1 \in T
  <2>. SUFFICES ASSUME k + 1 <= d - 1 PROVE HasBad(L[d - (k + 1)])
    OBVIOUS
  <2>. DEFINE j == d - (k + 1)
              x == At(W[j], L[j])
  <2>1. j \in 1 .. d - 1 /\ j \in 1 .. d /\ j + 1 = d - k /\ k <= d - 1
    BY <1>0
  <2>2. HasBad(L[j + 1])
    BY <1>2, <2>1
  <2>3. Opened(W[j], L[j], R[j], L[j + 1], R[j + 1]) /\ Faithful(W[j], L[j])
    BY <2>1, Zenon DEF Path
  <2>. HIDE DEF j
  <2>4. Len(W[j]) < Len(L[j]) /\ WrittenArray(x) /\ L[j + 1] = x.parts
    BY <2>3, Zenon DEF Opened
  <2>5. x.bad
    BY <2>2, <2>4, Zenon DEF HasBad, WrittenArray
  <2>6. Len(W[j]) + 1 \in DOMAIN L[j]
    <3>1. Len(W[j]) \in Nat /\ L[j] \in Seq(Items)
      BY <2>3 DEF Faithful
    <3>. QED
      BY <2>4, <3>1
  <2>7. HasBad(L[j])
    BY <2>5, <2>6, Zenon DEF HasBad, At
  <2>. QED
    BY <2>7 DEF j
<1>3. Nat \subseteq T
  <2>. HIDE DEF T
  <2>. QED
    BY <1>1, <1>2, NatSetInduction
<1>4. d - 1 \in T /\ d - 1 <= d - 1 /\ d - (d - 1) = 1
  <2>1. d - 1 \in Nat /\ d - 1 <= d - 1 /\ d - (d - 1) = 1
    BY <1>0
  <2>. QED
    BY <1>3, <2>1
<1>5. HasBad(L[1])
  BY <1>4
<1>. QED
  BY <1>5, Zenon DEF Path

LEMMA BadHere ==
    ASSUME NEW S, NEW K, NEW G, NEW g, NEW d, NEW W, NEW L, NEW R, NEW z,
           Place(S, K, G, g, d, W, L, R, z), Len(W[d]) < Len(L[d]), At(W[d], L[d]).bad
    PROVE  HasBad(S)
<1>1. Path(S, d, W, L, R) /\ Faithful(W[d], L[d]) /\ Len(W[d]) \in Nat
  BY PlaceFacts DEF Place
<1>2. L[d] \in Seq(Items)
  BY <1>1, Zenon DEF Faithful
<1>3. Len(W[d]) + 1 \in DOMAIN L[d]
  BY <1>1, <1>2
<1>4. HasBad(L[d])
  BY <1>3, Zenon DEF HasBad, At
<1>. QED
  BY <1>1, <1>4, BadRises

-----------------------------------------------------------------------------
(* Sent: the values of the first m items of the script.                    *)

Cut(S, V, m) == /\ V \in Seq(Val) /\ Len(V) = m /\ \A k \in 1 .. m : V[k] = S[k].val /\ ~S[k].bad
                /\ m < Len(S) => S[m + 1].bad

LEMMA ValuesTo ==
    ASSUME NEW S \in Seq(Items), NEW m \in 0 .. Len(S)
    PROVE  /\ Values(SubSeq(S, 1, m)) \in Seq(Val) /\ Len(Values(SubSeq(S, 1, m))) = m
           /\ \A k \in 1 .. m : Values(SubSeq(S, 1, m))[k] = S[k].val
<1>. DEFINE q == SubSeq(S, 1, m)
            us == Values(q)
<1>1. /\ q \in Seq(Items) /\ Len(q) = m /\ m \in Nat /\ DOMAIN q = 1 .. m
      /\ \A k \in 1 .. m : q[k] = S[k] /\ S[k] \in Items
  OBVIOUS
<1>. HIDE DEF q
<1>2. \A k \in 1 .. m : q[k].val \in Val
  BY <1>1, Zenon DEF Val
<1>3. us = [i \in 1 .. m |-> q[i].val]
  BY <1>1, Zenon DEF Values
<1>4. us \in Seq(Val) /\ Len(us) = m /\ \A k \in 1 .. m : us[k] = q[k].val
  BY <1>1, <1>2, <1>3
<1>. HIDE DEF us
<1>5. \A k \in 1 .. m : us[k] = S[k].val
  BY <1>1, <1>4, Zenon
<1>. QED
  BY <1>4, <1>5 DEF us, q

LEMMA SentIs ==
    ASSUME script \in Seq(Items)
    PROVE  \E m \in 0 .. Len(script) : Cut(script, Sent, m)
<1>. DEFINE bad == {i \in DOMAIN script : script[i].bad}
            m == IF bad = {} THEN Len(script) ELSE Min(bad) - 1
<1>0. Len(script) \in Nat /\ DOMAIN script = 1 .. Len(script)
  OBVIOUS
<1>1. Sent = Values(SubSeq(script, 1, m))
  BY Zenon DEF Sent
<1>2. \A k \in 1 .. Len(script) : k \in bad <=> script[k].bad
  BY <1>0, Zenon
<1>b. bad \subseteq 1 .. Len(script)
  BY <1>0, Zenon
<1>. HIDE DEF bad
<1>3. /\ m \in 0 .. Len(script) /\ \A k \in 1 .. m : ~script[k].bad
      /\ m < Len(script) => script[m + 1].bad
  <2>1. CASE bad = {}
    <3>1. m = Len(script)
      BY <2>1, Zenon
    <3>. HIDE DEF m
    <3>2. \A k \in 1 .. m : ~script[k].bad
      BY <1>2, <2>1, <3>1, Zenon
    <3>. QED
      BY <1>0, <3>1, <3>2
  <2>2. CASE bad # {}
    <3>1. m = Min(bad) - 1
      BY <2>2, Zenon
    <3>2. Min(bad) \in bad /\ \A y \in bad : Min(bad) <= y
      <4>1. bad \subseteq Nat
        BY <1>0, <1>b
      <4>. QED
        BY <2>2, <4>1, MinFacts
    <3>. HIDE DEF m
    <3>. DEFINE n == Min(bad)
    <3>3. n \in 1 .. Len(script) /\ script[n].bad
      BY <1>2, <1>b, <3>2
    <3>. HIDE DEF n
    <3>4. m \in 0 .. Len(script) /\ m + 1 = n
      BY <1>0, <3>1, <3>3 DEF n
    <3>5. ASSUME NEW k \in 1 .. m PROVE ~script[k].bad
      <4>1. k \in 1 .. Len(script) /\ ~(n <= k)
        BY <1>0, <3>3, <3>4
      <4>2. k \notin bad
        BY <3>2, <4>1, Zenon DEF n
      <4>. QED
        BY <1>2, <4>1, <4>2, Zenon
    <3>. QED
      BY <3>3, <3>4, <3>5, Zenon
  <2>. QED
    BY <2>1, <2>2
<1>. HIDE DEF m
<1>4. /\ Sent \in Seq(Val) /\ Len(Sent) = m /\ \A k \in 1 .. m : Sent[k] = script[k].val
  <2>1. /\ Values(SubSeq(script, 1, m)) \in Seq(Val) /\ Len(Values(SubSeq(script, 1, m))) = m
        /\ \A k \in 1 .. m : Values(SubSeq(script, 1, m))[k] = script[k].val
    BY <1>3, ValuesTo
  <2>. QED
    BY <1>1, <2>1, Zenon
<1>5. Cut(script, Sent, m)
  BY <1>3, <1>4, Zenon DEF Cut
<1>. QED
  BY <1>3, <1>5, Zenon

LEMMA BadCuts ==
    ASSUME script \in Seq(Items), HasBad(script)
    PROVE  Len(Sent) < Len(script)
<1>1. PICK m \in 0 .. Len(script) : Cut(script, Sent, m)
  BY SentIs
<1>2. Len(Sent) = m /\ \A k \in 1 .. m : ~script[k].bad
  BY <1>1, Zenon DEF Cut
<1>3. PICK k \in 1 .. Len(script) : script[k].bad
  BY DEF HasBad
<1>4. k \notin 1 .. m
  BY <1>2, <1>3, Zenon
<1>5. Len(script) \in Nat
  OBVIOUS
<1>. QED
  BY <1>2, <1>4, <1>5

\* Values faithful to the script are the first ones of Sent.
LEMMA FaithfulCut ==
    ASSUME NEW G, NEW S, NEW V, Faithful(G, S), NEW m \in 0 .. Len(S), Cut(S, V, m)
    PROVE  /\ G \in Seq(Val) /\ V \in Seq(Val) /\ Len(G) <= Len(V)
           /\ \A k \in 1 .. Len(G) : G[k] = V[k]
           /\ Len(G) = Len(S) => G = V
<1>1. /\ G \in Seq(Val) /\ S \in Seq(Items) /\ Len(G) <= Len(S)
      /\ \A k \in 1 .. Len(G) : G[k] = S[k].val /\ ~S[k].bad
  BY Zenon DEF Faithful
<1>0. Len(G) \in Nat /\ Len(S) \in Nat
  BY <1>1
<1>3. /\ V \in Seq(Val) /\ Len(V) = m /\ \A k \in 1 .. m : V[k] = S[k].val /\ ~S[k].bad
      /\ m < Len(S) => S[m + 1].bad
  BY Zenon DEF Cut
<1>4. Len(G) <= m
  <2>. SUFFICES ASSUME m < Len(G) PROVE FALSE
    BY <1>0
  <2>1. m + 1 \in 1 .. Len(G) /\ m < Len(S)
    BY <1>0, <1>1
  <2>. QED
    BY <1>1, <1>3, <2>1, Zenon
<1>5. \A k \in 1 .. Len(G) : k \in 1 .. m
  BY <1>0, <1>4
<1>6. \A k \in 1 .. Len(G) : G[k] = V[k]
  BY <1>1, <1>3, <1>5, Zenon
<1>7. ASSUME Len(G) = Len(S) PROVE G = V
  <2>1. Len(G) = Len(V)
    BY <1>0, <1>3, <1>4, <1>7
  <2>. QED
    BY <1>1, <1>3, <1>6, <2>1, SeqEqual
<1>9. Len(G) <= Len(V)
  BY <1>3, <1>4, Zenon
<1>. QED
  BY <1>1, <1>3, <1>6, <1>7, <1>9, Zenon

LEMMA FaithfulToSent ==
    ASSUME NEW G, Faithful(G, script)
    PROVE  /\ G \in Seq(Val) /\ Sent \in Seq(Val) /\ Len(G) <= Len(Sent)
           /\ \A k \in 1 .. Len(G) : G[k] = Sent[k]
           /\ Len(G) = Len(script) => G = Sent
<1>1. script \in Seq(Items)
  BY Zenon DEF Faithful
<1>2. PICK m \in 0 .. Len(script) : Cut(script, Sent, m)
  BY <1>1, SentIs
<1>. QED
  BY <1>2, FaithfulCut

\* What ReadValue has returned is faithful to the script.
LEMMA TopLevel ==
    ASSUME NEW S, NEW K, NEW G, NEW g, NEW b, NEW w, NEW n, Reading(S, K, G, g, b, w, n)
    PROVE  Faithful(G, S) /\ S \in Seq(Items)
<1>1. PICK d, W, L, R, z : Place(S, K, G, g, d, W, L, R, z)
  BY Zenon DEF Reading
<1>2. Path(S, d, W, L, R) /\ Linked(K, G, d, W, L)
  BY <1>1, Zenon DEF Place
<1>3. 1 \in 1 .. d
  BY <1>2 DEF Path
<1>4. Faithful(W[1], L[1]) /\ L[1] = S /\ W[1] = G
  BY <1>2, <1>3, Zenon DEF Path, Linked
<1>. QED
  BY <1>4, Zenon DEF Faithful

-----------------------------------------------------------------------------
(* The errors, the end of the stream, and the bytes that come and go.      *)

LEMMA SentKept == ASSUME script' = script PROVE Sent' = Sent
BY Zenon DEF Sent

LEMMA Failing ==
    ASSUME RespInv, NEW e \in {"eof", "error"}, Fails(e),
           e = "eof" => gone \/ got = Sent,
           e = "error" => gone \/ Len(Sent) < Len(script)
    PROVE  RespInv'
<1>1. /\ st' = e /\ script' = script /\ wire' = wire /\ buf' = buf /\ stack' = stack
      /\ need' = need /\ got' = got /\ gone' = gone
  BY DEF Fails
<1>2. Sent' = Sent
  BY <1>1, SentKept
<1>3. CleanEnd'
  <2>1. CASE e = "eof"
    <3>1. st' # "error"
      BY <1>1, <2>1
    <3>. QED
      BY <1>1, <1>2, <2>1, <3>1, Zenon DEF CleanEnd
  <2>2. CASE e = "error"
    <3>1. st' # "eof"
      BY <1>1, <2>2
    <3>. QED
      BY <1>1, <1>2, <2>2, <3>1, Zenon DEF CleanEnd
  <2>. QED
    BY <2>1, <2>2
<1>4. /\ buf \in Seq(Byte) /\ wire \in Seq(Byte) /\ (need = -1 \/ need \in Nat) /\ gone \in BOOLEAN
      /\ Reading(script, stack, got, gone, buf, wire, need)
  BY Zenon DEF RespInv
<1>5. Reading(script', stack', got', gone', buf', wire', need')
  BY <1>1, <1>4, Zenon
<1>6. /\ buf' \in Seq(Byte) /\ wire' \in Seq(Byte) /\ (need' = -1 \/ need' \in Nat)
      /\ gone' \in BOOLEAN /\ st' \in {"open", "eof", "error"}
  BY <1>1, <1>4, Zenon
<1>. QED
  BY <1>3, <1>5, <1>6, Zenon DEF RespInv

LEMMA BadItemFails ==
    ASSUME RespInv, NEW d, NEW W, NEW L, NEW R, NEW z,
           Place(script, stack, got, gone, d, W, L, R, z), Len(W[d]) < Len(L[d]),
           At(W[d], L[d]).bad, Fails("error")
    PROVE  RespInv'
<1>1. HasBad(script)
  BY BadHere
<1>2. script \in Seq(Items)
  <2>1. Reading(script, stack, got, gone, buf, wire, need)
    BY Zenon DEF RespInv
  <2>. QED
    BY <2>1, TopLevel
<1>3. Len(Sent) < Len(script)
  BY <1>1, <1>2, BadCuts
<1>4. "error" # "eof"
  OBVIOUS
<1>. QED
  BY <1>3, <1>4, Failing

LEMMA BadLineStep == ASSUME RespInv, BadLine PROVE RespInv'
<1>1. /\ AtLine /\ Head(buf) \in TypeByte /\ Fails("error")
      /\ ~Sound \/ (Head(buf) \in {":", "$", "*"} /\ ~IsNumeral(Text))
  BY Zenon DEF BadLine, Typed
<1>2. PICK d, W, L, R, z, h, r : Facing(d, W, L, R, z, h, r)
  BY <1>1, AtItem
<1>. DEFINE x == At(W[d], L[d])
<1>3. /\ Kind(x, h, r) /\ LineOf(buf) = h /\ Head(buf) = h[1]
      /\ Place(script, stack, got, gone, d, W, L, R, z) /\ Len(W[d]) < Len(L[d])
  BY <1>2, Zenon DEF Facing
<1>4. /\ h[1] \in TypeByte
      /\ ~EndsCRLF(Tail(h)) \/ (h[1] \in {":", "$", "*"} /\ ~IsNumeral(LineText(h)))
  BY <1>1, <1>3, Zenon DEF Sound, Text, LineText
<1>5. x.bad
  BY <1>3, <1>4, KindByHead, Zenon
<1>. QED
  BY <1>1, <1>3, <1>5, BadItemFails

LEMMA InlineStep == ASSUME RespInv, readInline PROVE RespInv'
<1>1. AtLine /\ st = "open" /\ Head(buf) \notin TypeByte
  BY Zenon DEF readInline, Typed, AtLine
<1>2. PICK d, W, L, R, z, h, r : Facing(d, W, L, R, z, h, r)
  BY <1>1, AtItem
<1>. DEFINE x == At(W[d], L[d])
<1>3. /\ Kind(x, h, r) /\ LineOf(buf) = h /\ Head(buf) = h[1]
      /\ Place(script, stack, got, gone, d, W, L, R, z) /\ Len(W[d]) < Len(L[d])
  BY <1>2, Zenon DEF Facing
<1>4. h[1] \notin TypeByte
  BY <1>1, <1>3, Zenon
<1>5. CASE EndsCRLF(h)
  <2>1. InlineKind(x, h, r)
    BY <1>3, <1>4, <1>5, KindByHead
  <2>2. r = <<>> /\ ~x.bad /\ x.val = Array(Words(Content(h)))
    BY <2>1, Zenon DEF InlineKind
  <2>3. Completes(x.val, Rest)
    BY <1>3, <1>5, <2>2, Zenon DEF readInline, Words
  <2>. QED
    BY <1>1, <1>2, <2>2, <2>3, CompletingLine
<1>6. CASE ~EndsCRLF(h)
  <2>1. x.bad
    BY <1>3, <1>4, <1>6, KindByHead
  <2>2. Fails("error")
    BY <1>3, <1>6, Zenon DEF readInline
  <2>. QED
    BY <1>3, <2>1, <2>2, BadItemFails
<1>. QED
  BY <1>5, <1>6

\* Where the Reader is when a body is to come.
LEMMA AtBody ==
    ASSUME RespInv, need >= 0
    PROVE  \E d, W, L, R, z, c :
             /\ Place(script, stack, got, gone, d, W, L, R, z) /\ Len(W[d]) < Len(L[d])
             /\ Body(At(W[d], L[d]), need, c)
             /\ SameFlow(buf, wire \o z, c, Behind(W[d], L[d], R[d]))
<1>1. need # -1
  OBVIOUS
<1>2. Reading(script, stack, got, gone, buf, wire, need)
  BY Zenon DEF RespInv
<1>3. PICK d, W, L, R, z : /\ Place(script, stack, got, gone, d, W, L, R, z)
                           /\ Flow(buf, wire \o z, need, W[d], L[d], R[d])
  BY <1>2, Zenon DEF Reading
<1>4. InBody(buf, wire \o z, need, W[d], L[d], R[d])
  BY <1>1, <1>3, Zenon DEF Flow
<1>. QED
  BY <1>3, <1>4, Zenon DEF InBody

LEMMA TwoBytes ==
    ASSUME NEW b \in Seq(Byte), NEW n \in Nat, Len(b) >= n + 2
    PROVE  /\ SubSeq(b, n + 1, n + 2) \in Seq(Byte) /\ Len(SubSeq(b, n + 1, n + 2)) = 2
           /\ SubSeq(b, n + 1, n + 2)[1] = b[n + 1] /\ SubSeq(b, n + 1, n + 2)[2] = b[n + 2]
OBVIOUS

LEMMA BodyStep == ASSUME RespInv, ReadBody PROVE RespInv'
<1>1. st = "open" /\ need >= 0 /\ Len(buf) >= need + 2
  BY Zenon DEF ReadBody
<1>2. PICK d, W, L, R, z, c :
        /\ Place(script, stack, got, gone, d, W, L, R, z) /\ Len(W[d]) < Len(L[d])
        /\ Body(At(W[d], L[d]), need, c)
        /\ SameFlow(buf, wire \o z, c, Behind(W[d], L[d], R[d]))
  BY <1>1, AtBody
<1>. DEFINE x == At(W[d], L[d])
            e == Behind(W[d], L[d], R[d])
            y == wire \o z
            rest == SubSeq(buf, need + 3, Len(buf))
<1>3. /\ need \in Nat /\ c \in Seq(Byte) /\ Len(c) = need + 2
      /\ IF SubSeq(c, need + 1, need + 2) = CRLF
         THEN ~x.bad /\ x.val = BulkString(SubSeq(c, 1, need)) ELSE x.bad
  BY <1>2, Zenon DEF Body
<1>4. buf \in Seq(Byte) /\ y \in Seq(Byte) /\ e \in Seq(Byte)
  <2>1. buf \in Seq(Byte) /\ wire \in Seq(Byte)
    BY Zenon DEF RespInv
  <2>2. z \in Seq(Byte) /\ Faithful(W[d], L[d]) /\ R[d] \in Seq(Byte)
    BY <1>2, PlaceFacts
  <2>3. y \in Seq(Byte)
    BY <2>1, <2>2, ConcatFacts
  <2>4. e \in Seq(Byte)
    BY <2>2, AheadType
  <2>. QED
    BY <2>1, <2>3, <2>4
<1>. HIDE DEF x, e, y
<1>5. Len(c) <= Len(buf)
  BY <1>1, <1>3, <1>4
<1>6. TakenOff(buf, y, c, e, Byte)
  <2>1. SameFlow(buf, y, c, e)
    BY <1>2, Zenon DEF y, e
  <2>. QED
    BY <1>3, <1>4, <1>5, <2>1, TakeOff
<1>7. (need + 2) + 1 = need + 3
  BY <1>3
<1>8. rest \in Seq(Byte) /\ Joins(rest, y, e) /\ \A k \in 1 .. need + 2 : buf[k] = c[k]
  BY <1>3, <1>6, <1>7, Zenon DEF TakenOff, Joins
<1>. HIDE DEF rest
<1>9. SubSeq(buf, need + 1, need + 2) = SubSeq(c, need + 1, need + 2)
  <2>. DEFINE p == SubSeq(buf, need + 1, need + 2)
              q == SubSeq(c, need + 1, need + 2)
  <2>0. Len(c) >= need + 2
    BY <1>3
  <2>1. p \in Seq(Byte) /\ Len(p) = 2 /\ p[1] = buf[need + 1] /\ p[2] = buf[need + 2]
    BY <1>1, <1>3, <1>4, TwoBytes
  <2>2. q \in Seq(Byte) /\ Len(q) = 2 /\ q[1] = c[need + 1] /\ q[2] = c[need + 2]
    BY <1>3, <2>0, TwoBytes
  <2>3. need + 1 \in 1 .. need + 2 /\ need + 2 \in 1 .. need + 2
    BY <1>3
  <2>. HIDE DEF p, q
  <2>4. p[1] = q[1] /\ p[2] = q[2]
    BY <1>8, <2>1, <2>2, <2>3, Zenon
  <2>5. \A k \in 1 .. Len(p) : p[k] = q[k]
    BY <2>1, <2>4
  <2>6. p = q
    BY <2>1, <2>2, <2>5, SeqEqual
  <2>. QED
    BY <2>6 DEF p, q
<1>10. SubSeq(buf, 1, need) = SubSeq(c, 1, need)
  <2>. DEFINE p == SubSeq(buf, 1, need)
              q == SubSeq(c, 1, need)
  <2>1. p \in Seq(Byte) /\ Len(p) = need /\ \A k \in 1 .. need : p[k] = buf[k]
    BY <1>1, <1>3, <1>4
  <2>2. q \in Seq(Byte) /\ Len(q) = need /\ \A k \in 1 .. need : q[k] = c[k]
    BY <1>3
  <2>3. \A k \in 1 .. need : k \in 1 .. need + 2
    BY <1>3
  <2>. HIDE DEF p, q
  <2>4. \A k \in 1 .. Len(p) : p[k] = q[k]
    BY <1>8, <2>1, <2>2, <2>3, Zenon
  <2>5. p = q
    BY <2>1, <2>2, <2>4, SeqEqual
  <2>. QED
    BY <2>5 DEF p, q
<1>11. CASE SubSeq(buf, need + 1, need + 2) = CRLF
  <2>1. ~x.bad /\ x.val = BulkString(SubSeq(buf, 1, need))
    BY <1>3, <1>9, <1>10, <1>11, Zenon
  <2>2. Completes(x.val, rest)
    BY <1>11, <2>1, Zenon DEF ReadBody, rest
  <2>. QED
    BY <1>1, <1>2, <1>8, <2>1, <2>2, Completing DEF x, e, y
<1>12. CASE SubSeq(buf, need + 1, need + 2) # CRLF
  <2>1. x.bad
    BY <1>3, <1>9, <1>12, Zenon
  <2>2. Fails("error")
    BY <1>12, Zenon DEF ReadBody
  <2>. QED
    BY <1>2, <2>1, <2>2, BadItemFails DEF x
<1>. QED
  BY <1>11, <1>12

\* Nothing is under way from a peer that has not gone.
LEMMA NothingComes ==
    ASSUME NEW z, wire = <<>>, z = <<>>, NEW b \in Seq(Byte)
    PROVE  b \o (wire \o z) = b
<1>1. <<>> \in Seq(Byte)
  OBVIOUS
<1>2. <<>> \o <<>> = <<>>
  BY <1>1, ConcatEmpty
<1>3. b \o <<>> = b
  BY ConcatEmpty
<1>. QED
  BY <1>2, <1>3, Zenon

LEMMA EndStep == ASSUME RespInv, EndOfStream PROVE RespInv'
<1>1. st = "open" /\ wire = <<>> /\ ~Full
  BY Zenon DEF EndOfStream
<1>2. /\ buf \in Seq(Byte) /\ gone \in BOOLEAN /\ (need = -1 \/ need \in Nat)
      /\ Reading(script, stack, got, gone, buf, wire, need)
  BY Zenon DEF RespInv
<1>3. CASE need >= 0
  <2>1. Len(buf) < need + 2 /\ Fails(IF buf = <<>> THEN "eof" ELSE "error")
    BY <1>3, Zenon DEF EndOfStream
  <2>2. PICK d, W, L, R, z, c :
          /\ Place(script, stack, got, gone, d, W, L, R, z) /\ Len(W[d]) < Len(L[d])
          /\ Body(At(W[d], L[d]), need, c)
          /\ SameFlow(buf, wire \o z, c, Behind(W[d], L[d], R[d]))
    BY <1>3, AtBody
  <2>. DEFINE e == Behind(W[d], L[d], R[d])
  <2>3. c \in Seq(Byte) /\ Len(c) = need + 2 /\ need \in Nat
    BY <2>2, Zenon DEF Body
  <2>4. e \in Seq(Byte)
    <3>1. Faithful(W[d], L[d]) /\ R[d] \in Seq(Byte)
      BY <2>2, PlaceFacts
    <3>. QED
      BY <3>1, AheadType
  <2>5. gone
    <3>. SUFFICES ASSUME gone = FALSE PROVE FALSE
      BY <1>2
    <3>1. z = <<>>
      BY <2>2, Zenon DEF Place
    <3>2. buf = c \o e
      <4>1. buf \o (wire \o z) = buf
        BY <1>1, <1>2, <3>1, NothingComes
      <4>. QED
        BY <2>2, <4>1, Zenon DEF SameFlow
    <3>. HIDE DEF e
    <3>3. Len(buf) = Len(c) + Len(e) /\ Len(e) \in Nat
      <4>1. Len(c \o e) = Len(c) + Len(e) /\ Len(e) \in Nat
        BY <2>3, <2>4, ConcatFacts
      <4>. QED
        BY <3>2, <4>1, Zenon
    <3>. QED
      BY <2>1, <2>3, <3>3
  <2>. DEFINE f == IF buf = <<>> THEN "eof" ELSE "error"
  <2>6. f \in {"eof", "error"} /\ Fails(f)
    <3>1. Fails(f)
      BY <2>1
    <3>2. f \in {"eof", "error"}
      BY Zenon
    <3>. QED
      BY <3>1, <3>2
  <2>. HIDE DEF f
  <2>. QED
    BY <2>5, <2>6, Failing
<1>4. CASE ~(need >= 0)
  <2>1. ~HasLine(buf) /\ Fails("eof")
    BY <1>4, Zenon DEF EndOfStream
  <2>2. need = -1
    BY <1>2, <1>4
  <2>3. PICK d, W, L, R, z : /\ Place(script, stack, got, gone, d, W, L, R, z)
                             /\ Flow(buf, wire \o z, need, W[d], L[d], R[d])
    BY <1>2, Zenon DEF Reading
  <2>4. /\ Faithful(W[d], L[d]) /\ R[d] \in Seq(Byte)
        /\ Len(W[d]) \in Nat /\ Len(L[d]) \in Nat /\ Len(W[d]) <= Len(L[d])
    BY <2>3, PlaceFacts
  <2>5. ASSUME gone = FALSE PROVE got = Sent
    <3>1. z = <<>>
      BY <2>3, <2>5, Zenon DEF Place
    <3>2. buf = Ahead(W[d], L[d], R[d])
      <4>1. buf \o (wire \o z) = buf
        BY <1>1, <1>2, <3>1, NothingComes
      <4>. QED
        BY <2>2, <2>3, <4>1, Zenon DEF Flow, Joins
    <3>3. ~(Len(W[d]) < Len(L[d]))
      <4>. SUFFICES ASSUME Len(W[d]) < Len(L[d]) PROVE FALSE
        OBVIOUS
      <4>1. PICK h, t : /\ IsLine(h) /\ t \in Seq(Byte) /\ Behind(W[d], L[d], R[d]) \in Seq(Byte)
                        /\ Ahead(W[d], L[d], R[d]) = h \o (t \o Behind(W[d], L[d], R[d]))
        BY <2>4, LineAhead
      <4>. DEFINE e == Behind(W[d], L[d], R[d])
                  q == t \o e
      <4>2. q \in Seq(Byte)
        BY <4>1, ConcatFacts
      <4>3. buf = h \o q
        BY <3>2, <4>1, Zenon
      <4>. HIDE DEF q
      <4>4. HasLine(buf)
        BY <4>1, <4>2, <4>3, LineThere
      <4>. QED
        BY <2>1, <4>4
    <3>4. Len(W[d]) = Len(L[d])
      BY <2>4, <3>3
    <3>5. L[d] = script /\ W[d] = got
      BY <1>1, <2>3, <3>4, FullWhenRead
    <3>6. Faithful(got, script) /\ Len(got) = Len(script)
      BY <2>4, <3>4, <3>5, Zenon
    <3>. QED
      BY <3>6, FaithfulToSent
  <2>6. gone \/ got = Sent
    BY <1>2, <2>5, Zenon
  <2>7. "eof" # "error"
    OBVIOUS
  <2>. QED
    BY <2>1, <2>6, <2>7, Failing
<1>. QED
  BY <1>3, <1>4

LEMMA FlowMoves ==
    ASSUME NEW b, NEW y, NEW b2, NEW y2, NEW n, NEW vs, NEW list, NEW r,
           SameFlow(b, y, b2, y2), Flow(b, y, n, vs, list, r)
    PROVE  Flow(b2, y2, n, vs, list, r)
<1>1. b2 \o y2 = b \o y
  BY Zenon DEF SameFlow
<1>2. CASE n = -1
  BY <1>1, <1>2, Zenon DEF Flow, Joins
<1>3. CASE n # -1
  <2>1. InBody(b, y, n, vs, list, r)
    BY <1>3, Zenon DEF Flow
  <2>2. \A c, e : SameFlow(b, y, c, e) => SameFlow(b2, y2, c, e)
    BY <1>1, Zenon DEF SameFlow
  <2>3. InBody(b2, y2, n, vs, list, r)
    BY <2>1, <2>2, Zenon DEF InBody
  <2>. QED
    BY <1>3, <2>3, Zenon DEF Flow
<1>. QED
  BY <1>2, <1>3

LEMMA SplitAt ==
    ASSUME NEW w \in Seq(Byte), NEW k \in 1 .. Len(w)
    PROVE  /\ SubSeq(w, 1, k) \in Seq(Byte) /\ SubSeq(w, k + 1, Len(w)) \in Seq(Byte)
           /\ SubSeq(w, 1, k) \o SubSeq(w, k + 1, Len(w)) = w
<1>. DEFINE p == SubSeq(w, 1, k)
            q == SubSeq(w, k + 1, Len(w))
<1>0. Len(w) \in Nat
  OBVIOUS
<1>1. p \in Seq(Byte) /\ Len(p) = k /\ \A j \in 1 .. k : p[j] = w[j]
  BY <1>0
<1>2. q \in Seq(Byte) /\ Len(q) = Len(w) - k /\ \A j \in 1 .. Len(w) - k : q[j] = w[k + j]
  BY <1>0
<1>. HIDE DEF p, q
<1>3. p \o q = w
  <2>1. Len(w) = Len(p) + Len(q)
    BY <1>0, <1>1, <1>2
  <2>2. \A j \in 1 .. Len(p) : w[j] = p[j]
    BY <1>1
  <2>3. \A j \in 1 .. Len(q) : w[Len(p) + j] = q[j]
    BY <1>1, <1>2
  <2>. QED
    BY <1>1, <1>2, <2>1, <2>2, <2>3, ConcatIs
<1>. QED
  BY <1>1, <1>2, <1>3 DEF p, q

LEMMA ArriveStep == ASSUME RespInv, Arrive PROVE RespInv'
<1>1. PICK k \in 1 .. Len(wire) : /\ buf' = buf \o SubSeq(wire, 1, k)
                                  /\ wire' = SubSeq(wire, k + 1, Len(wire))
  BY Zenon DEF Arrive
<1>2. st = "open" /\ stack' = stack /\ need' = need /\ got' = got /\ UNCHANGED <<script, st, gone>>
  BY DEF Arrive
<1>3. /\ buf \in Seq(Byte) /\ wire \in Seq(Byte) /\ (need = -1 \/ need \in Nat)
      /\ Reading(script, stack, got, gone, buf, wire, need)
  BY Zenon DEF RespInv
<1>4. PICK d, W, L, R, z : /\ Place(script, stack, got, gone, d, W, L, R, z)
                           /\ Flow(buf, wire \o z, need, W[d], L[d], R[d])
  BY <1>3, Zenon DEF Reading
<1>5. z \in Seq(Byte)
  BY <1>4, Zenon DEF Place
<1>. DEFINE p == SubSeq(wire, 1, k)
            q == SubSeq(wire, k + 1, Len(wire))
<1>6. p \in Seq(Byte) /\ q \in Seq(Byte) /\ p \o q = wire
  BY <1>3, SplitAt
<1>. HIDE DEF p, q
<1>7. buf \o p \in Seq(Byte)
  BY <1>3, <1>6, ConcatFacts
<1>8. SameFlow(buf, wire \o z, buf \o p, q \o z)
  <2>1. \A a \in Seq(Byte), b \in Seq(Byte), c \in Seq(Byte) : (a \o b) \o c = a \o (b \o c)
    BY ConcatAssoc
  <2>2. q \o z \in Seq(Byte)
    BY <1>5, <1>6, ConcatFacts
  <2>3. (buf \o p) \o (q \o z) = buf \o (p \o (q \o z))
    BY <1>3, <1>6, <2>1, <2>2, Zenon
  <2>4. (p \o q) \o z = p \o (q \o z)
    BY <1>5, <1>6, <2>1, Zenon
  <2>. QED
    BY <1>6, <2>3, <2>4, Zenon DEF SameFlow
<1>9. Flow(buf \o p, q \o z, need, W[d], L[d], R[d])
  BY <1>4, <1>8, FlowMoves
<1>10. Reading(script, stack, got, gone, buf \o p, q, need)
  BY <1>4, <1>9, Zenon DEF Reading
<1>11. buf' = buf \o p /\ wire' = q
  BY <1>1, Zenon DEF p, q
<1>12. Reading(script, stack', got', gone, buf', wire', need')
  BY <1>2, <1>10, <1>11, Zenon
<1>13. buf' \in Seq(Byte) /\ wire' \in Seq(Byte) /\ (need' = -1 \/ need' \in Nat)
  BY <1>2, <1>3, <1>6, <1>7, <1>11, Zenon
<1>. QED
  BY <1>2, <1>12, <1>13, Goes

LEMMA GoneStep == ASSUME RespInv, PeerGone PROVE RespInv'
<1>1. /\ wire' = <<>> /\ gone' = TRUE /\ st' = "open" /\ script' = script /\ buf' = buf
      /\ stack' = stack /\ need' = need /\ got' = got
  BY DEF PeerGone
<1>3. /\ buf \in Seq(Byte) /\ wire \in Seq(Byte) /\ (need = -1 \/ need \in Nat)
      /\ Reading(script, stack, got, gone, buf, wire, need)
  BY Zenon DEF RespInv
<1>4. PICK d, W, L, R, z : /\ Place(script, stack, got, gone, d, W, L, R, z)
                           /\ Flow(buf, wire \o z, need, W[d], L[d], R[d])
  BY <1>3, Zenon DEF Reading
<1>5. Path(script, d, W, L, R) /\ Linked(stack, got, d, W, L) /\ z \in Seq(Byte)
  BY <1>4, Zenon DEF Place
<1>. DEFINE y == wire \o z
<1>6. y \in Seq(Byte)
  BY <1>3, <1>5, ConcatFacts
<1>. HIDE DEF y
<1>7. <<>> \o y = y
  BY <1>6, ConcatEmpty
<1>8. Flow(buf, <<>> \o y, need, W[d], L[d], R[d])
  BY <1>4, <1>7, Zenon DEF y
<1>9. TRUE # FALSE
  OBVIOUS
<1>10. Place(script, stack, got, TRUE, d, W, L, R, y)
  BY <1>5, <1>6, <1>9, Zenon DEF Place
<1>11. Reading(script, stack, got, TRUE, buf, <<>>, need)
  BY <1>8, <1>10, Zenon DEF Reading
<1>12. Reading(script', stack', got', gone', buf', wire', need')
  BY <1>1, <1>11, Zenon
<1>13. CleanEnd'
  BY <1>1, StaysOpen
<1>14. /\ buf' \in Seq(Byte) /\ wire' \in Seq(Byte) /\ (need' = -1 \/ need' \in Nat)
       /\ gone' \in BOOLEAN /\ st' \in {"open", "eof", "error"}
  BY <1>1, <1>3
<1>. QED
  BY <1>12, <1>13, <1>14, Zenon DEF RespInv

-----------------------------------------------------------------------------
(* The theorems.                                                           *)

LEMMA InitInv == StreamInit => RespInv
<1>. SUFFICES ASSUME StreamInit PROVE RespInv
  OBVIOUS
<1>1. /\ script \in Scripts /\ wire = Bytes(script) /\ buf = <<>> /\ stack = <<>> /\ need = -1
      /\ got = <<>> /\ st = "open" /\ gone = FALSE
  BY Zenon DEF StreamInit
<1>2. script \in Seq(Items)
  BY <1>1, ScriptsAssumption, Zenon
<1>3. Bytes(script) \in Seq(Byte) /\ <<>> \in Seq(Byte)
  BY <1>2, BytesType
<1>. DEFINE W == [j \in 1 .. 1 |-> <<>>]
            L == [j \in 1 .. 1 |-> script]
            R == [j \in 1 .. 1 |-> <<>>]
<1>4. W[1] = <<>> /\ L[1] = script /\ R[1] = <<>>
  OBVIOUS
<1>. HIDE DEF W, L, R
<1>5. Faithful(<<>>, script)
  BY <1>2 DEF Faithful
<1>6. Path(script, 1, W, L, R)
  <2>1. \A j \in 1 .. 1 : Faithful(W[j], L[j]) /\ R[j] \in Seq(Byte)
    <3>1. \A j \in 1 .. 1 : j = 1
      OBVIOUS
    <3>. QED
      BY <1>3, <1>4, <1>5, <3>1, Zenon
  <2>2. 1 .. 1 - 1 = {}
    OBVIOUS
  <2>3. 1 \in Nat /\ 1 >= 1
    OBVIOUS
  <2>. QED
    BY <1>4, <2>1, <2>2, <2>3, Zenon DEF Path
<1>7. Linked(<<>>, <<>>, 1, W, L)
  BY <1>4 DEF Linked
<1>8. Place(script, <<>>, <<>>, FALSE, 1, W, L, R, <<>>)
  BY <1>3, <1>6, <1>7, Zenon DEF Place
<1>. DEFINE y == Bytes(script) \o <<>>
<1>9. y \in Seq(Byte)
  BY <1>3, ConcatFacts
<1>10. Ahead(<<>>, script, <<>>) = y
  BY <1>2, AheadStart
<1>11. <<>> \o y = y
  <2>. HIDE DEF y
  <2>. QED
    BY <1>9, ConcatEmpty
<1>12. Flow(<<>>, Bytes(script) \o <<>>, -1, W[1], L[1], R[1])
  BY <1>4, <1>10, <1>11, Zenon DEF Flow, Joins
<1>13. Reading(script, <<>>, <<>>, FALSE, <<>>, Bytes(script), -1)
  BY <1>8, <1>12, Zenon DEF Reading
<1>14. Reading(script, stack, got, gone, buf, wire, need)
  BY <1>1, <1>13, Zenon
<1>15. CleanEnd
  BY <1>1 DEF CleanEnd
<1>16. /\ buf \in Seq(Byte) /\ wire \in Seq(Byte) /\ (need = -1 \/ need \in Nat)
       /\ gone \in BOOLEAN /\ st \in {"open", "eof", "error"}
  BY <1>1, <1>3
<1>. QED
  BY <1>14, <1>15, <1>16, Zenon DEF RespInv

LEMMA NextInv == RespInv /\ [StreamNext]_streamVars => RespInv'
<1>. SUFFICES ASSUME RespInv, [StreamNext]_streamVars PROVE RespInv'
  OBVIOUS
<1>1. CASE UNCHANGED streamVars
  <2>1. /\ script' = script /\ wire' = wire /\ buf' = buf /\ stack' = stack
        /\ need' = need /\ got' = got /\ st' = st /\ gone' = gone
    BY <1>1 DEF streamVars
  <2>2. Sent' = Sent
    BY <2>1, SentKept
  <2>3. CleanEnd' <=> CleanEnd
    BY <2>1, <2>2, Zenon DEF CleanEnd
  <2>. QED
    BY <2>1, <2>3, Zenon DEF RespInv
<1>2. CASE StreamNext
  BY <1>2, StringStep, IntegerStep, BulkStep, ArrayStep, ReturnStep, BadLineStep, InlineStep,
     BodyStep, EndStep, ArriveStep, GoneStep, Zenon DEF StreamNext, ReadValue
<1>. QED
  BY <1>1, <1>2, Zenon

LEMMA InvTypeOK == RespInv => StreamTypeOK
<1>. SUFFICES ASSUME RespInv PROVE StreamTypeOK
  OBVIOUS
<1>1. /\ (need = -1 \/ need \in Nat) /\ st \in {"open", "eof", "error"} /\ gone \in BOOLEAN
      /\ Reading(script, stack, got, gone, buf, wire, need)
  BY Zenon DEF RespInv
<1>2. PICK d, W, L, R, z : /\ Place(script, stack, got, gone, d, W, L, R, z)
                           /\ Flow(buf, wire \o z, need, W[d], L[d], R[d])
  BY <1>1, Zenon DEF Reading
<1>3. Path(script, d, W, L, R) /\ Linked(stack, got, d, W, L)
  BY <1>2, Zenon DEF Place
<1>4. /\ d \in Nat /\ Len(stack) + 1 = d /\ Len(stack) \in Nat /\ stack \in Seq(Frame)
      /\ Len(W[d]) \in Nat /\ Len(L[d]) \in Nat
  BY <1>2, PlaceFacts
<1>5. need \in Int /\ need >= -1
  BY <1>1
<1>6. ASSUME need >= 0 PROVE ~Full
  <2>1. need # -1
    BY <1>6
  <2>2. Len(W[d]) < Len(L[d])
    BY <1>2, <2>1, Zenon DEF Flow, InBody
  <2>. SUFFICES ASSUME Full PROVE FALSE
    OBVIOUS
  <2>3. stack # <<>> /\ Len(Last(stack).elems) = Last(stack).n
    BY Zenon DEF Full
  <2>4. Last(stack).elems = W[d] /\ Last(stack).n = Len(L[d])
    BY <1>3, <2>3, InnermostFrame
  <2>. QED
    BY <1>4, <2>2, <2>3, <2>4
<1>7. ASSUME NEW j \in DOMAIN stack
      PROVE  /\ Len(stack[j].elems) <= stack[j].n
             /\ j < Len(stack) => Len(stack[j].elems) < stack[j].n
  <2>1. j \in 1 .. d - 1 /\ j + 1 \in 1 .. d
    BY <1>4
  <2>2. stack[j].elems = W[j + 1] /\ stack[j].n = Len(L[j + 1])
    BY <1>3, <2>1, Zenon DEF Linked
  <2>3. Faithful(W[j + 1], L[j + 1])
    BY <1>3, <2>1, Zenon DEF Path
  <2>4. Len(stack[j].elems) <= stack[j].n
    BY <2>2, <2>3, Zenon DEF Faithful
  <2>5. ASSUME j < Len(stack) PROVE Len(stack[j].elems) < stack[j].n
    <3>1. j + 1 \in 1 .. d - 1
      BY <1>4, <2>1, <2>5
    <3>2. Len(W[j + 1]) < Len(L[j + 1])
      BY <1>3, <3>1, Zenon DEF Path, Opened
    <3>. QED
      BY <2>2, <3>2, Zenon
  <2>. QED
    BY <2>4, <2>5, Zenon
<1>. QED
  BY <1>1, <1>5, <1>6, <1>7, Zenon DEF StreamTypeOK

LEMMA InvDecoded == RespInv => DecodedIsSent
<1>. SUFFICES ASSUME RespInv PROVE DecodedIsSent
  OBVIOUS
<1>1. Reading(script, stack, got, gone, buf, wire, need)
  BY Zenon DEF RespInv
<1>2. Faithful(got, script)
  BY <1>1, TopLevel
<1>3. /\ got \in Seq(Val) /\ Sent \in Seq(Val) /\ Len(got) <= Len(Sent)
      /\ \A k \in 1 .. Len(got) : got[k] = Sent[k]
  BY <1>2, FaithfulToSent
<1>. DEFINE n == Len(got)
            V == Sent
            p == SubSeq(got, 1, n)
            q == SubSeq(V, 1, n)
<1>. HIDE DEF V
<1>4. V \in Seq(Val) /\ n \in Nat /\ Len(V) \in Nat /\ n <= Len(V)
  BY <1>3 DEF V
<1>5. p \in Seq(Val) /\ Len(p) = n /\ \A k \in 1 .. n : p[k] = got[k]
  BY <1>3, <1>4
<1>6. q \in Seq(Val) /\ Len(q) = n /\ \A k \in 1 .. n : q[k] = V[k]
  BY <1>4
<1>. HIDE DEF p, q
<1>7. \A k \in 1 .. Len(p) : p[k] = q[k]
  BY <1>3, <1>5, <1>6, Zenon DEF V
<1>8. p = q
  BY <1>5, <1>6, <1>7, SeqEqual
<1>. QED
  BY <1>3, <1>8, Zenon DEF DecodedIsSent, IsPrefix, p, q, V

\* RespInv is invariant.
LEMMA ReaderInvariant == StreamSpec => []RespInv
BY InitInv, NextInv, PTL DEF StreamSpec

(***************************************************************************)
(* For every script and every way its bytes arrive: no array of the stack  *)
(* ever has more elements than its line announced, an outer one is never   *)
(* left while it is full, and a body is only read for an array that still  *)
(* lacks it (resp.go readArray, readBulkString).                           *)
(***************************************************************************)
THEOREM ReaderTypeCorrect == StreamSpec => []StreamTypeOK
BY ReaderInvariant, InvTypeOK, PTL

(***************************************************************************)
(* The Reader inverts writeValue: whatever the peer writes, types by hand  *)
(* or gets wrong, however the bytes are cut and wherever they break off,   *)
(* ReadValue returns the values sent before the first malformed one, and   *)
(* nothing else (resp.go readValue, writeValue).                           *)
(***************************************************************************)
THEOREM ReaderInvertsWriter == StreamSpec => []DecodedIsSent
BY ReaderInvariant, InvDecoded, PTL

(***************************************************************************)
(* io.EOF is reported to handleConn only when everything was read or the   *)
(* peer broke off, and an error only when the peer broke off or sent what  *)
(* no writeValue writes (resp.go ReadValue, readLine, readBulkString).     *)
(***************************************************************************)
THEOREM ReaderEndsCleanly == StreamSpec => []CleanEnd
<1>1. RespInv => CleanEnd
  BY Zenon DEF RespInv
<1>. QED
  BY <1>1, ReaderInvariant, PTL

-----------------------------------------------------------------------------
(* The Reader implements the pipe of commands.                             *)

\* The words of one command.
Args == {toArgs(v) : v \in Val}

LEMMA CommandType == ASSUME NEW v \in Val PROVE Command(v) \in Seq(Args)
<1>. DEFINE a == toArgs(v)
<1>1. a \in Args
  BY Zenon DEF Args
<1>2. Command(v) = IF a = <<>> THEN <<>> ELSE <<a>>
  BY Zenon DEF Command
<1>. HIDE DEF a
<1>. QED
  BY <1>1, <1>2

LEMMA CommandsMap ==
    ASSUME NEW vs \in Seq(Val)
    PROVE  \E cs : /\ cs \in Seq(Seq(Args)) /\ Len(cs) = Len(vs) /\ Commands(vs) = FlattenSeq(cs)
                   /\ \A k \in 1 .. Len(vs) : cs[k] = Command(vs[k])
<1>. DEFINE cs == [i \in DOMAIN vs |-> Command(vs[i])]
            B == Seq(Args)
<1>0. DOMAIN vs = 1 .. Len(vs) /\ Len(vs) \in Nat /\ \A k \in 1 .. Len(vs) : vs[k] \in Val
  OBVIOUS
<1>1. \A k \in 1 .. Len(vs) : Command(vs[k]) \in B
  BY <1>0, CommandType
<1>2. Commands(vs) = FlattenSeq(cs)
  BY Zenon DEF Commands
<1>. HIDE DEF B
<1>3. cs \in Seq(B) /\ Len(cs) = Len(vs) /\ \A k \in 1 .. Len(vs) : cs[k] = Command(vs[k])
  BY <1>0, <1>1
<1>. HIDE DEF cs
<1>. QED
  BY <1>2, <1>3, Zenon DEF B

LEMMA CommandsType ==
    ASSUME NEW vs \in Seq(Val)
    PROVE  Commands(vs) \in Seq(Args) /\ (vs = <<>> => Commands(vs) = <<>>)
<1>1. PICK cs : /\ cs \in Seq(Seq(Args)) /\ Len(cs) = Len(vs) /\ Commands(vs) = FlattenSeq(cs)
  BY CommandsMap
<1>2. FlattenSeq(cs) \in Seq(Args) /\ (cs = <<>> => FlattenSeq(cs) = <<>>)
  BY <1>1, FlattenType
<1>3. vs = <<>> => cs = <<>>
  <2>. SUFFICES ASSUME vs = <<>> PROVE cs = <<>>
    OBVIOUS
  <2>1. Len(cs) = 0
    BY <1>1
  <2>. DEFINE B == Seq(Args)
  <2>2. cs \in Seq(B)
    BY <1>1
  <2>. HIDE DEF B
  <2>. QED
    BY <2>1, <2>2
<1>. QED
  BY <1>1, <1>2, <1>3, Zenon

LEMMA CommandsAppend ==
    ASSUME NEW vs \in Seq(Val), NEW v \in Val
    PROVE  Commands(Append(vs, v)) = Commands(vs) \o Command(v)
<1>. DEFINE us == Append(vs, v)
            B == Seq(Args)
<1>0. /\ us \in Seq(Val) /\ Len(us) = Len(vs) + 1 /\ Len(vs) \in Nat /\ us[Len(vs) + 1] = v
      /\ \A k \in 1 .. Len(vs) : us[k] = vs[k]
  OBVIOUS
<1>. HIDE DEF us
<1>1. PICK cs : /\ cs \in Seq(B) /\ Len(cs) = Len(vs) /\ Commands(vs) = FlattenSeq(cs)
                /\ \A k \in 1 .. Len(vs) : cs[k] = Command(vs[k])
  BY CommandsMap
<1>2. PICK ds : /\ ds \in Seq(B) /\ Len(ds) = Len(us) /\ Commands(us) = FlattenSeq(ds)
                /\ \A k \in 1 .. Len(us) : ds[k] = Command(us[k])
  BY <1>0, CommandsMap
<1>3. Command(v) \in B
  BY CommandType
<1>. DEFINE c == Command(v)
            es == Append(cs, c)
<1>4. FlattenSeq(es) = FlattenSeq(cs) \o c
  BY <1>1, <1>3, FlattenAppend
<1>. HIDE DEF B, c
<1>5. /\ es \in Seq(B) /\ Len(es) = Len(vs) + 1 /\ es[Len(vs) + 1] = c
      /\ \A k \in 1 .. Len(vs) : es[k] = cs[k]
  BY <1>0, <1>1, <1>3 DEF c
<1>. HIDE DEF es
<1>6. ASSUME NEW k \in 1 .. Len(ds) PROVE ds[k] = es[k]
  <2>1. CASE k = Len(vs) + 1
    <3>1. k \in 1 .. Len(us) /\ us[k] = v
      BY <1>0, <1>2, <2>1
    <3>. QED
      BY <1>2, <1>5, <2>1, <3>1, Zenon DEF c
  <2>2. CASE k # Len(vs) + 1
    <3>1. k \in 1 .. Len(vs) /\ k \in 1 .. Len(us)
      BY <1>0, <1>2, <2>2
    <3>. QED
      BY <1>0, <1>1, <1>2, <1>5, <3>1, Zenon
  <2>. QED
    BY <2>1, <2>2
<1>7. ds = es
  <2>1. Len(ds) = Len(es)
    BY <1>0, <1>2, <1>5
  <2>. QED
    BY <1>2, <1>5, <1>6, <2>1, SeqEqual
<1>. QED
  BY <1>1, <1>2, <1>4, <1>7, Zenon DEF us, c

LEMMA CommandsHead ==
    ASSUME NEW vs \in Seq(Val), vs # <<>>
    PROVE  Commands(vs) = Command(Head(vs)) \o Commands(Tail(vs))
<1>. DEFINE us == Tail(vs)
            B == Seq(Args)
<1>0. /\ us \in Seq(Val) /\ Len(us) = Len(vs) - 1 /\ Len(vs) \in Nat /\ Len(vs) >= 1
      /\ Head(vs) = vs[1] /\ 1 \in 1 .. Len(vs) /\ \A k \in 1 .. Len(us) : us[k] = vs[k + 1]
  OBVIOUS
<1>. HIDE DEF us
<1>1. PICK cs : /\ cs \in Seq(B) /\ Len(cs) = Len(vs) /\ Commands(vs) = FlattenSeq(cs)
                /\ \A k \in 1 .. Len(vs) : cs[k] = Command(vs[k])
  BY CommandsMap
<1>2. PICK ds : /\ ds \in Seq(B) /\ Len(ds) = Len(us) /\ Commands(us) = FlattenSeq(ds)
                /\ \A k \in 1 .. Len(us) : ds[k] = Command(us[k])
  BY <1>0, CommandsMap
<1>3. cs # <<>>
  BY <1>0, <1>1
<1>4. FlattenSeq(cs) = Head(cs) \o FlattenSeq(Tail(cs))
  BY <1>1, <1>3, FlattenHead
<1>. HIDE DEF B
<1>. DEFINE es == Tail(cs)
<1>5. /\ es \in Seq(B) /\ Len(es) = Len(cs) - 1 /\ Head(cs) = cs[1]
      /\ \A k \in 1 .. Len(cs) - 1 : es[k] = cs[k + 1]
  BY <1>1, <1>3
<1>. HIDE DEF es
<1>6. ASSUME NEW k \in 1 .. Len(ds) PROVE ds[k] = es[k]
  <2>1. k \in 1 .. Len(us) /\ k + 1 \in 1 .. Len(vs) /\ k \in 1 .. Len(cs) - 1
    BY <1>0, <1>1, <1>2
  <2>. QED
    BY <1>0, <1>1, <1>2, <1>5, <2>1, Zenon
<1>7. ds = es
  <2>1. Len(ds) = Len(es)
    BY <1>0, <1>1, <1>2, <1>5
  <2>. QED
    BY <1>2, <1>5, <1>6, <2>1, SeqEqual
<1>8. Head(cs) = Command(Head(vs))
  BY <1>0, <1>1, <1>5, Zenon
<1>. QED
  BY <1>1, <1>2, <1>4, <1>7, <1>8, Zenon DEF us, es

\* A step returns at most one value.
Returned(v) == got' = Append(got, v)

LEMMA DeliverReturns ==
    ASSUME NEW K, NEW v, Deliver(K, v)
    PROVE  got' = got \/ Returned(v)
BY Zenon DEF Deliver, Returned

LEMMA CompletesReturns ==
    ASSUME NEW v, NEW rest, Completes(v, rest)
    PROVE  script' = script /\ (got' = got \/ \E u : Returned(u))
<1>1. Deliver(stack, v) /\ UNCHANGED <<script, wire, st, gone>>
  BY Zenon DEF Completes
<1>2. got' = got \/ Returned(v)
  BY <1>1, DeliverReturns
<1>3. script' = script
  BY <1>1
<1>. QED
  BY <1>2, <1>3, Zenon

LEMMA StepReturns ==
    ASSUME [StreamNext]_streamVars
    PROVE  script' = script /\ (got' = got \/ \E v : Returned(v))
<1>. DEFINE Goal == script' = script /\ (got' = got \/ \E v : Returned(v))
<1>c. \A v, rest : Completes(v, rest) => Goal
  BY CompletesReturns, Zenon
<1>f. \A e : Fails(e) => Goal
  <2>1. ASSUME NEW e, Fails(e) PROVE script' = script /\ got' = got
    BY <2>1 DEF Fails
  <2>. QED
    BY <2>1, Zenon
<1>u. UNCHANGED <<script, got>> => Goal
  <2>1. UNCHANGED <<script, got>> => script' = script /\ got' = got
    OBVIOUS
  <2>. QED
    BY <2>1, Zenon
<1>1. UNCHANGED streamVars => UNCHANGED <<script, got>>
  BY DEF streamVars
<1>2. readBulkString => Goal
  <2>1. readBulkString => \/ \E v, rest : Completes(v, rest)
                          \/ UNCHANGED <<script, wire, stack, got, st, gone>>
    BY Zenon DEF readBulkString
  <2>2. UNCHANGED <<script, wire, stack, got, st, gone>> => UNCHANGED <<script, got>>
    OBVIOUS
  <2>. QED
    BY <1>c, <1>u, <2>1, <2>2, Zenon
<1>3. readArray => Goal
  <2>1. readArray => \/ \E v, rest : Completes(v, rest)
                     \/ UNCHANGED <<script, wire, need, got, st, gone>>
    BY Zenon DEF readArray
  <2>2. UNCHANGED <<script, wire, need, got, st, gone>> => UNCHANGED <<script, got>>
    OBVIOUS
  <2>. QED
    BY <1>c, <1>u, <2>1, <2>2, Zenon
<1>4. ReturnArray => Goal
  <2>. SUFFICES ASSUME ReturnArray PROVE Goal
    OBVIOUS
  <2>1. /\ Deliver(Front(stack), Array(Last(stack).elems))
        /\ UNCHANGED <<script, wire, buf, need, st, gone>>
    BY Zenon DEF ReturnArray
  <2>2. script' = script
    BY <2>1
  <2>3. got' = got \/ Returned(Array(Last(stack).elems))
    BY <2>1, DeliverReturns
  <2>. QED
    BY <2>2, <2>3, Zenon
<1>5. ReadString \/ ReadInteger \/ BadLine \/ readInline \/ ReadBody \/ EndOfStream => Goal
  <2>1. ReadString \/ ReadInteger \/ readInline \/ ReadBody \/ BadLine \/ EndOfStream
           => (\E v, rest : Completes(v, rest)) \/ (\E e : Fails(e))
    BY Zenon DEF ReadString, ReadInteger, BadLine, readInline, ReadBody, EndOfStream
  <2>. QED
    BY <1>c, <1>f, <2>1, Zenon
<1>6. Arrive \/ PeerGone => UNCHANGED <<script, got>>
  BY DEF Arrive, PeerGone
<1>. QED
  BY <1>u, <1>1, <1>2, <1>3, <1>4, <1>5, <1>6, Zenon DEF StreamNext, ReadValue

LEMMA OneMore ==
    ASSUME NEW T, NEW a \in T, NEW s \in Seq(T)
    PROVE  <<a>> \o s # <<>> /\ Head(<<a>> \o s) = a /\ Tail(<<a>> \o s) = s
<1>. DEFINE o == <<a>>
            u == o \o s
            t == Tail(u)
<1>1. o \in Seq(T) /\ Len(o) = 1 /\ o[1] = a /\ Len(s) \in Nat
  OBVIOUS
<1>. HIDE DEF o
<1>2. u \in Seq(T) /\ Joined(u, o, s)
  BY <1>1, ConcatJoined, Zenon
<1>. HIDE DEF u
<1>3. Len(u) = 1 + Len(s) /\ \A k \in 1 .. 1 : u[k] = o[k]
  BY <1>1, <1>2, Zenon DEF Joined
<1>4. \A k \in 1 .. Len(s) : u[1 + k] = s[k]
  BY <1>1, <1>2, Zenon DEF Joined
<1>5. u # <<>> /\ Head(u) = a
  BY <1>1, <1>2, <1>3
<1>6. t \in Seq(T) /\ Len(t) = Len(s) /\ \A k \in 1 .. Len(t) : t[k] = u[1 + k]
  BY <1>1, <1>2, <1>3, <1>5
<1>. HIDE DEF t
<1>7. \A k \in 1 .. Len(t) : t[k] = s[k]
  BY <1>4, <1>6
<1>8. t = s
  BY <1>6, <1>7, SeqEqual
<1>. QED
  BY <1>5, <1>8 DEF o, u, t

LEMMA PipeStep ==
    ASSUME RespInv, RespInv', [StreamNext]_streamVars
    PROVE  [Pipe!Receive]_<<Commands(SubSeq(Sent, Len(got) + 1, Len(Sent))), Commands(got)>>
<1>. DEFINE pending == Commands(SubSeq(Sent, Len(got) + 1, Len(Sent)))
            received == Commands(got)
<1>1. script' = script /\ (got' = got \/ \E v : Returned(v))
  BY StepReturns
<1>2. Sent' = Sent
  BY <1>1, SentKept
<1>3. CASE got' = got
  <2>1. pending' = pending /\ received' = received
    BY <1>2, <1>3, Zenon
  <2>. QED
    BY <2>1, Zenon
<1>4. CASE got' # got
  <2>1. PICK v : got' = Append(got, v)
    BY <1>1, <1>4, Zenon DEF Returned
  <2>2. Faithful(got, script)
    BY TopLevel DEF RespInv
  <2>3. Faithful(got', script)
    <3>1. Reading(script', stack', got', gone', buf', wire', need')
      BY Zenon DEF RespInv
    <3>2. Faithful(got', script')
      BY <3>1, TopLevel
    <3>. QED
      BY <1>1, <3>2, Zenon
  <2>4. /\ got' \in Seq(Val) /\ Sent \in Seq(Val) /\ Len(got') <= Len(Sent)
        /\ \A k \in 1 .. Len(got') : got'[k] = Sent[k]
    BY <2>3, FaithfulToSent
  <2>5. got \in Seq(Val) /\ Len(got) \in Nat
    BY <2>2 DEF Faithful
  <2>. DEFINE n == Len(got)
              V == Sent
              p == SubSeq(V, n + 1, Len(V))
              q == SubSeq(V, n + 2, Len(V))
  <2>6. Len(got') = n + 1 /\ got'[n + 1] = v
    BY <2>1, <2>5
  <2>. HIDE DEF V, n
  <2>7. n \in Nat /\ n < Len(V) /\ n + 1 \in 1 .. Len(got') /\ V \in Seq(Val) /\ (n + 1) + 1 = n + 2
    BY <2>4, <2>5, <2>6 DEF V, n
  <2>8. v = V[n + 1] /\ v \in Val
    <3>1. v = V[n + 1]
      BY <2>4, <2>6, <2>7, Zenon DEF V
    <3>2. V[n + 1] \in Val
      BY <2>7
    <3>. QED
      BY <3>1, <3>2
  <2>9. p \in Seq(Val) /\ q \in Seq(Val) /\ p # <<>> /\ Head(p) = v /\ Tail(p) = q
    BY <2>7, <2>8, DropOne
  <2>. HIDE DEF p, q
  <2>10. Commands(p) = Command(v) \o Commands(q)
    BY <2>9, CommandsHead
  <2>11. Commands(Append(got, v)) = Commands(got) \o Command(v)
    BY <2>5, <2>8, CommandsAppend
  <2>12. pending = Commands(p) /\ pending' = Commands(q)
    <3>1. pending = Commands(p)
      BY Zenon DEF p, V, n
    <3>2. Len(got') + 1 = n + 2
      BY <2>6, <2>7
    <3>3. pending' = Commands(SubSeq(Sent, Len(got') + 1, Len(Sent)))
      BY <1>2, Zenon
    <3>. QED
      BY <3>1, <3>2, <3>3, Zenon DEF q, V
  <2>13. received' = received \o Command(v)
    BY <2>1, <2>11, Zenon
  <2>14. Commands(q) \in Seq(Args) /\ Commands(got) \in Seq(Args)
    BY <2>5, <2>9, CommandsType
  <2>15. CASE toArgs(v) = <<>>
    <3>1. Command(v) = <<>>
      BY <2>15, Zenon DEF Command
    <3>2. <<>> \o Commands(q) = Commands(q) /\ Commands(got) \o <<>> = Commands(got)
      BY <2>14, ConcatEmpty
    <3>3. pending' = pending /\ received' = received
      BY <2>10, <2>12, <2>13, <3>1, <3>2, Zenon
    <3>. QED
      BY <3>3, Zenon
  <2>16. CASE toArgs(v) # <<>>
    <3>. DEFINE a == toArgs(v)
                Q == Commands(q)
                H == Commands(got)
    <3>1. Command(v) = <<a>>
      BY <2>16, Zenon DEF Command
    <3>2. a \in Args
      BY <2>8, Zenon DEF Args
    <3>. HIDE DEF a, Q, H
    <3>3. Q \in Seq(Args) /\ H \in Seq(Args)
      BY <2>14 DEF Q, H
    <3>4. <<a>> \o Q # <<>> /\ Head(<<a>> \o Q) = a /\ Tail(<<a>> \o Q) = Q
      BY <3>2, <3>3, OneMore
    <3>5. H \o <<a>> = Append(H, a)
      BY <3>2, <3>3
    <3>6. pending = <<a>> \o Q /\ pending' = Q /\ received' = Append(received, a)
      BY <2>10, <2>12, <2>13, <3>1, <3>5, Zenon DEF Q, H
    <3>7. Pipe!Receive
      BY <3>4, <3>6, Zenon DEF Pipe!Receive
    <3>. QED
      BY <3>7, Zenon
  <2>. QED
    BY <2>15, <2>16
<1>. QED
  BY <1>3, <1>4

(***************************************************************************)
(* The commands of a client reach handleConn like through a FIFO queue,    *)
(* each once, whole and in order, for every script and every way its bytes *)
(* are cut (PRD.md: "RESP2 pipelining ... must be handled correctly").     *)
(***************************************************************************)
THEOREM ReaderIsPipe == StreamSpec => CommandsArriveInOrder
<1>1. StreamInit => Pipe!Init
  <2>. SUFFICES ASSUME StreamInit PROVE Commands(got) = <<>>
    BY Zenon DEF Pipe!Init
  <2>1. got = <<>>
    BY Zenon DEF StreamInit
  <2>2. <<>> \in Seq(Val) /\ \A vs \in Seq(Val) : vs = <<>> => Commands(vs) = <<>>
    BY CommandsType
  <2>. QED
    BY <2>1, <2>2, Zenon
<1>2. RespInv /\ RespInv' /\ [StreamNext]_streamVars
        => [Pipe!Receive]_<<Commands(SubSeq(Sent, Len(got) + 1, Len(Sent))), Commands(got)>>
  BY PipeStep
<1>. QED
  BY <1>1, <1>2, ReaderInvariant, PTL DEF StreamSpec, CommandsArriveInOrder, Pipe!Spec
=============================================================================
