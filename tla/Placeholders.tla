---------------------------- MODULE Placeholders ----------------------------
(***************************************************************************)
(* internal/db/postgres.go rewritePlaceholders, through which every        *)
(* statement of the store reaches PostgreSQL: one step per turn of its     *)
(* loop over the bytes of the query.                                       *)
(***************************************************************************)
EXTENDS Itoa, FiniteSets, SequencesExt

CONSTANT Queries

ASSUME QueriesAssumption == Queries \subseteq Seq(STRING)   \* sequences of characters

VARIABLES query, i, n, inString, b

rewriteVars == <<query, i, n, inString, b>>

-----------------------------------------------------------------------------
AtChar(c) == i <= Len(query) /\ query[i] = c

OpenQuote == /\ AtChar("'") /\ ~inString
             /\ inString' = TRUE /\ b' = Append(b, "'") /\ i' = i + 1
             /\ UNCHANGED <<query, n>>

\* Mutant of InnerQuote: the second quote of '' is written and then read again.
InnerQuoteTwice ==
    /\ AtChar("'") /\ inString
    /\ IF i < Len(query) /\ query[i + 1] = "'"
       THEN b' = b \o <<"'", "'">> /\ i' = i + 1 /\ UNCHANGED inString
       ELSE b' = Append(b, "'") /\ i' = i + 1 /\ inString' = FALSE
    /\ UNCHANGED <<query, n>>

\* A doubled quote stays in the literal, a single one ends it.
InnerQuote ==
    /\ AtChar("'") /\ inString
    /\ IF i < Len(query) /\ query[i + 1] = "'"
       THEN b' = b \o <<"'", "'">> /\ i' = i + 2 /\ UNCHANGED inString
       ELSE b' = Append(b, "'") /\ i' = i + 1 /\ inString' = FALSE
    /\ UNCHANGED <<query, n>>

Placeholder == /\ AtChar("?") /\ ~inString
               /\ b' = Append(b, "$") \o itoa(n) /\ n' = n + 1 /\ i' = i + 1
               /\ UNCHANGED <<query, inString>>

Other == /\ i <= Len(query) /\ query[i] # "'" /\ (query[i] = "?" => inString)
         /\ b' = Append(b, query[i]) /\ i' = i + 1
         /\ UNCHANGED <<query, n, inString>>

RewriteInit == query \in Queries /\ i = 1 /\ n = 1 /\ inString = FALSE /\ b = <<>>
RewriteNext == OpenQuote \/ InnerQuote \/ Placeholder \/ Other
RewriteSpec == RewriteInit /\ [][RewriteNext]_rewriteVars

-----------------------------------------------------------------------------
\* The placeholders of a query: the question marks with an even number of quotes
\* before them.
Marks(q) == {j \in DOMAIN q :
               q[j] = "?" /\ Cardinality({k \in 1 .. j - 1 : q[k] = "'"}) % 2 = 0}

\* k > 0 in decimal: as few digits as hold it, each worth its power of ten.
Power[d \in Nat] == IF d = 0 THEN 1 ELSE 10 * Power[d - 1]
InDecimal(k) ==
    LET d == CHOOSE d \in 1 .. k : Power[d - 1] <= k /\ k < Power[d]
    IN  [p \in 1 .. d |-> Numerals[((k \div Power[d - p]) % 10) + 1]]

\* The number of placeholder j.
Numeral(q, j) == InDecimal(Cardinality({m \in Marks(q) : m <= j}))

(***************************************************************************)
(* What is sent to PostgreSQL is the query with its k-th placeholder        *)
(* replaced by $k, text in literals, doubled quotes and unterminated        *)
(* literals included, and nothing else changed; arguments are bound by      *)
(* position, so one number off would write a value to another column        *)
(* (postgres.go rewritePlaceholders, itoa).                                 *)
(***************************************************************************)
RewriteIsRight ==
    i > Len(query) =>
        b = FlattenSeq([j \in DOMAIN query |->
                          IF j \in Marks(query) THEN <<"$">> \o Numeral(query, j) ELSE <<query[j]>>])
=============================================================================
