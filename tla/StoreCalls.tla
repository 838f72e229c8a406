----------------------------- MODULE StoreCalls -----------------------------
(***************************************************************************)
(* The calls internal/store offers to the command handlers, their          *)
(* arguments and results, and the values they compute.                     *)
(***************************************************************************)
EXTENDS SqlTables

CONSTANT MsPerSec   \* milliseconds in a second, scaled to the model's clock

ASSUME MsPerSecAssumption == MsPerSec \in Nat \ {0}

StringReads == {"Get", "StrLen"}
StringTxs   == {"Set", "IncrBy", "Append"}
StringOps   == StringReads \cup StringTxs
ListReads   == {"LLen", "LRange", "LIndex"}
ListPushes  == {"LPush", "RPush"}
ListEdits   == {"LPop", "RPop", "LSet", "LInsert", "LRem"}
ListOps     == ListReads \cup ListPushes \cup ListEdits
HashReads   == {"HGet", "HExists", "HGetAll", "HKeys", "HVals", "HLen"}
HashOps     == HashReads \cup {"HSet", "HDel"}
SetReads    == {"SMembers", "SIsMember", "SCard", "SUnion"}
SetOps      == SetReads \cup {"SAdd", "SRem"}
ZSetReads   == {"ZScore", "ZCard", "ZRangeByScore", "ZCount", "ZRank", "ZRange"}
ZSetOps     == ZSetReads \cup {"ZAdd", "ZRem", "ZIncrBy"}
LazyKeyOps  == {"Exists", "ExpireAt", "TTL", "Persist", "Type", "Rename",
                "SInter", "SDiff"}
PlainOps    == {"Del", "DBSize", "Keys", "RandomKey", "FlushDB", "FlushAll", "SBase"}

\* The calls that insert the keys row before they write their data rows.
EnsureOps == ListPushes \cup {"HSet", "SAdd", "ZAdd", "ZIncrBy"}
TypedOps  == StringOps \cup ListOps \cup HashOps \cup SetOps \cup ZSetOps
LazyOps  == TypedOps \cup LazyKeyOps
Op       == LazyOps \cup PlainOps

Call == [op : Op, pk : Pk, dst : Pk, val : Value, vals : Seq(Value),
         n : Int64, m : Int64, ttl : Time, exp : Time,
         opt : SUBSET {"NX", "XX", "BEFORE", "MS", "MINEX", "MAXEX", "MININF", "MAXINF"},
         names : SUBSET Key, mems : Seq(Member), pairs : Fields, scores : Scores]

\* A call with no argument but its key; the handlers fill in the others.
NewCall(op, p) == [op |-> op, pk |-> p, dst |-> p, val |-> <<>>, vals |-> <<>>,
                   n |-> 0, m |-> 0, ttl |-> NULL, exp |-> NULL, opt |-> {},
                   names |-> {}, mems |-> <<>>, pairs |-> NoFields,
                   scores |-> NoFields]

Command == Seq(Call) \ {<<>>}
Request == Seq(Command) \ {<<>>}

Result == [st : {"none", "ok", "nil", "wrongtype", "err"}, n : Int,
           val : {NULL} \cup Value, vals : Seq(Value),
           type : {NULL} \cup Type, names : SUBSET Key,
           mems : SUBSET Member, order : Seq(Member), pairs : Fields]
NoResult  == [st |-> "none", n |-> 0, val |-> NULL, vals |-> <<>>,
              type |-> NULL, names |-> {}, mems |-> {}, order |-> <<>>,
              pairs |-> NoFields]
Done      == [NoResult EXCEPT !.st = "ok"]
Nil       == [NoResult EXCEPT !.st = "nil"]
Failed    == [NoResult EXCEPT !.st = "err"]
WrongType == [NoResult EXCEPT !.st = "wrongtype"]
Number(n) == [Done EXCEPT !.n = n]
Bool(b)   == Number(IF b THEN 1 ELSE 0)
Bulk(v)   == [Done EXCEPT !.val = v]
Items(l)  == [Done EXCEPT !.vals = l]
TypeIs(t) == [Done EXCEPT !.type = t]
Names(ks) == [Done EXCEPT !.n = Cardinality(ks), !.names = ks]
Mems(ms)  == [Done EXCEPT !.mems = ms]
Order(l)  == [Done EXCEPT !.order = l]
Pairs(h)  == [Done EXCEPT !.pairs = h]

-----------------------------------------------------------------------------
\* Mutant of Incremented: the sum is not cut to 64 bits.
IncrementedUnbounded(v, delta) == (IF v = NULL THEN 0 ELSE ParseInt(v)) + delta

\* The value IncrBy stores over v: int64 addition, which wraps.
Incremented(v, delta) == Wrap((IF v = NULL THEN 0 ELSE ParseInt(v)) + delta)

\* The value Append stores over v.
Appended(v, suffix) == (IF v = NULL THEN <<>> ELSE v) \o suffix

\* The fields of a hash or the members of a sorted set (or of such an argument),
\* and what a hash becomes when the pairs of HSET are written over it.
Present(h)        == {m \in Member : h[m] # NULL}
Overlay(h, pairs) == [m \in Member |-> IF pairs[m] = NULL THEN h[m] ELSE pairs[m]]

\* The score ZINCRBY stores over score x.
NewScore(x, delta) == (IF x = NULL THEN 0 ELSE x) + delta

\* ttl: what is left of the key's life, in seconds or in milliseconds.
Remaining(row, t, millis) ==
    IF row = NULL THEN -2
    ELSE IF row.exp = NULL THEN -1
    ELSE IF row.exp - t < 0 THEN -2
    ELSE IF millis THEN row.exp - t
    ELSE (row.exp - t) \div MsPerSec
=============================================================================
