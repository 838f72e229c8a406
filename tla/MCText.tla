------------------------------- MODULE MCText -------------------------------
(***************************************************************************)
(* Small instances of the three machines that work on text: the RESP       *)
(* reader, globMatch and rewritePlaceholders.  They share nothing; each    *)
(* initial state has work for one of them.                                 *)
(***************************************************************************)
EXTENDS RespStream, GlobMatch, Placeholders

CONSTANTS MaxPattern, MaxKey, MaxQuery, ManyMarks   \* bounds on the inputs

-----------------------------------------------------------------------------
(* Pipelined commands, replies and malformed input.                        *)

Item(v)         == [bytes |-> writeValue(v, <<>>), val |-> v, parts |-> <<>>, bad |-> FALSE]
ArrayItem(xs)   == LET v == Array(Values(xs))
                   IN  [bytes |-> writeValue(v, [j \in DOMAIN xs |-> xs[j].bytes]), val |-> v,
                        parts |-> xs, bad |-> \E j \in DOMAIN xs : xs[j].bad]
Bulk(s)         == Item(BulkString(s))
BulkArray(ss)   == Array([x \in DOMAIN ss |-> BulkString(ss[x])])
InlineItem(l, ss) == [bytes |-> l \o CRLF, val |-> BulkArray(ss), parts |-> <<>>, bad |-> FALSE]
BadItem(bs)     == [bytes |-> bs, val |-> Zero, parts |-> <<>>, bad |-> TRUE]

\* Bulk strings that hold line ends, type bytes and nothing.
Set    == ArrayItem(<<Bulk(<<"S">>), Bulk(<<CR, LF, "$">>)>>)
Echo   == ArrayItem(<<Bulk(<<"E">>), Bulk(<<>>)>>)
Ping   == InlineItem(<<" ", "P", " ", "TAB", "Q">>, << <<"P">>, <<"Q">> >>)
Blanks == InlineItem(<<>>, <<>>)
Simple == Item(SimpleString(<<"P">>))

\* Replies: EXEC's results, nulls and errors.
Results == ArrayItem(<<Item(Integer(-12)), Item(NullBulkString), ArrayItem(<<Bulk(<<LF>>)>>),
                       Item(Error(<<"e">>)), Item(NullArray), ArrayItem(<<>>)>>)

Bad == {BadItem(<<"+", "a", LF>>), BadItem(<<"$", "x", CR, LF>>),
        BadItem(<<":", CR, LF>>), BadItem(<<"a", LF>>),
        BadItem(<<"$", "1", CR, LF, "a", "b", "c">>),
        ArrayItem(<<BadItem(<<"*", "1", LF>>), Simple>>)}

AllScripts ==
    {<<>>, <<Set, Ping, Echo>>, <<Ping, Blanks, Set>>, <<Simple, Item(NullArray), Ping>>}
    \cup {<<Results, Results>>, <<Item(Integer(10)), Results, Item(Error(<<>>))>>}
    \cup {<<Ping, x, Set>> : x \in Bad}

\* The items of the scripts and of their arrays, which are nested twice at most.
Parts(S) == S \cup UNION {Range(x.parts) : x \in S}
AllItems == Parts(Parts(UNION {Range(s) : s \in AllScripts}))
AllBytes == UNION {Range(x.bytes) : x \in AllItems} \cup {CR, LF} \cup TypeByte \cup Range(Numerals)

-----------------------------------------------------------------------------
Words(S, max) == UNION {[1 .. k -> S] : k \in 0 .. max}

Keys        == Words({"a", "b"}, MaxKey)
AllPatterns == Words({"*", "?", "[", "]", "a", "b"}, MaxPattern)

\* All short queries, and long ones with up to two quotes among the marks.
LongQueries == {[j \in 1 .. ManyMarks |-> IF j \in {p, r} THEN "'" ELSE "?"] :
                  p \in 1 .. ManyMarks, r \in 1 .. ManyMarks}
SomeQueries == Words({"'", "?", "x"}, MaxQuery) \cup LongQueries

-----------------------------------------------------------------------------
NoScript == script = <<>>
NoMatch  == pattern = <<>> /\ key = <<>>
NoQuery  == query = <<>>

Init == /\ \/ NoMatch /\ NoQuery
           \/ NoScript /\ NoQuery
           \/ NoScript /\ NoMatch
        /\ StreamInit /\ GlobInit /\ RewriteInit
Next == \/ StreamNext /\ UNCHANGED <<globVars, rewriteVars>>
        \/ GlobNext /\ UNCHANGED <<streamVars, rewriteVars>>
        \/ RewriteNext /\ UNCHANGED <<streamVars, globVars>>
Spec == /\ Init /\ [][Next]_<<streamVars, globVars, rewriteVars>>
        /\ WF_streamVars(Arrive \/ ReadValue) /\ WF_globVars(GlobNext)
=============================================================================
