------------------------------ MODULE RespCodec ------------------------------
(***************************************************************************)
(* internal/resp/resp.go, the conversions: RESP2 values, the bytes         *)
(* writeValue makes of them, and what the Reader makes of a line.          *)
(***************************************************************************)
EXTENDS Itoa, FiniteSets, SequencesExt

CONSTANT Byte   \* the values of a byte; those with a name here are among them

CR   == "CR"
LF   == "LF"
CRLF == <<CR, LF>>
TypeByte == {"+", "-", ":", "$", "*"}

ASSUME ByteAssumption == {CR, LF} \cup TypeByte \cup Range(Numerals) \subseteq Byte

\* The Go struct Value; a field the type does not use has its zero value.
Zero            == [typ |-> "", str |-> <<>>, integer |-> 0, elems |-> <<>>, isNull |-> FALSE]
SimpleString(s) == [Zero EXCEPT !.typ = "+", !.str = s]
Error(s)        == [Zero EXCEPT !.typ = "-", !.str = s]
Integer(n)      == [Zero EXCEPT !.typ = ":", !.integer = n]
BulkString(s)   == [Zero EXCEPT !.typ = "$", !.str = s]
NullBulkString  == [Zero EXCEPT !.typ = "$", !.isNull = TRUE]
Array(es)       == [Zero EXCEPT !.typ = "*", !.elems = es]
NullArray       == [Zero EXCEPT !.typ = "*", !.isNull = TRUE]

-----------------------------------------------------------------------------
\* %d of fmt.
Decimal(n) == IF n < 0 THEN <<"-">> \o itoa(-n) ELSE itoa(n)

\* strconv.Atoi and ParseInt: an optional sign and at least one digit.
Unsigned(l)  == IF l # <<>> /\ l[1] \in {"+", "-"} THEN Tail(l) ELSE l
IsNumeral(l) == Unsigned(l) # <<>> /\ Range(Unsigned(l)) \subseteq Range(Numerals)
DigitValue(d) == CHOOSE k \in 0 .. 9 : Numerals[k + 1] = d
Number(s) == LET acc[k \in 0 .. Len(s)] ==
                   IF k = 0 THEN 0 ELSE 10 * acc[k - 1] + DigitValue(s[k])
             IN  acc[Len(s)]
Atoi(l)   == IF l[1] = "-" THEN -Number(Unsigned(l)) ELSE Number(Unsigned(l))

\* One call of writeValue; ws are the bytes its calls for the elements write.
writeValue(v, ws) ==
    CASE v.typ \in {"+", "-"}        -> <<v.typ>> \o v.str \o CRLF
      [] v.typ = ":"                 -> <<":">> \o Decimal(v.integer) \o CRLF
      [] v.typ \in {"$", "*"} /\ v.isNull -> <<v.typ>> \o <<"-", "1">> \o CRLF
      [] v.typ = "$" /\ ~v.isNull    -> <<"$">> \o Decimal(Len(v.str)) \o CRLF \o (v.str \o CRLF)
      [] v.typ = "*" /\ ~v.isNull    -> <<"*">> \o Decimal(Len(v.elems)) \o CRLF \o FlattenSeq(ws)

-----------------------------------------------------------------------------
\* The first line of bytes b, with its LF, if b has one; readLine wants it to end
\* with CRLF.
HasLine(b)  == LF \in Range(b)
LineOf(b)   == SubSeq(b, 1, Min({i \in DOMAIN b : b[i] = LF}))
EndsCRLF(l) == Len(l) >= 2 /\ l[Len(l) - 1] = CR
Content(l)  == SubSeq(l, 1, Len(l) - 2)

\* splitInline: the maximal runs of bytes that are no blanks.
Blank == {" ", "TAB"}
splitInline(l) ==
    LET start == {i \in DOMAIN l : l[i] \notin Blank /\ (i = 1 \/ l[i - 1] \in Blank)}
        part(i) == SubSeq(l, i, CHOOSE j \in i .. Len(l) :
                                  /\ \A k \in i .. j : l[k] \notin Blank
                                  /\ j = Len(l) \/ l[j + 1] \in Blank)
    IN  [k \in 1 .. Cardinality(start) |->
           part(CHOOSE i \in start : Cardinality({j \in start : j <= i}) = k)]

\* server.go toArgs: the words of a command.
toArgs(v) == IF v.typ = "*" THEN v.elems ELSE <<v>>
=============================================================================
