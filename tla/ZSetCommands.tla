---------------------------- MODULE ZSetCommands ----------------------------
(***************************************************************************)
(* internal/store/zsets.go.  Nothing here runs in a transaction: ZAdd      *)
(* counts and writes member by member, ZIncrBy reads the score and writes  *)
(* the sum, ZRank and ZRange ask two questions.  Scores are integers.      *)
(***************************************************************************)
EXTENDS StoreSession

ZSet(s) == db.zsets[Target(s)]

ZEnsure(s) == Ensure(s, {"ZAdd", "ZIncrBy"}, "zset")

\* INSERT INTO zsets fails (see FailStatement) if the member is there or the keys
\* row is not; UPDATE zsets has no effect if the member is not there.
CanInsert(s, m)    == ZSet(s)[m] = NULL /\ HasRow(db, Target(s))
WithScore(d, p, m, x) == [d EXCEPT !.zsets[p] = [@ EXCEPT ![m] = x]]
UpdateScore(d, p, m, x) == IF d.zsets[p][m] = NULL THEN d ELSE WithScore(d, p, m, x)

-----------------------------------------------------------------------------
\* ZAdd, the SELECT COUNT of a member m not met yet, in the order Go ranges over
\* the map, any order; exists is what it leaves in the local.  NX and XX skip m.
ZAddAsks(s, m, exists) ==
    /\ Running(s, {"ZAdd"}, "stmt")
    /\ m \in Present(Current(s).scores) \ seen[s].asked
    /\ LET opt  == Current(s).opt
           skip == ("NX" \in opt /\ exists) \/ ("XX" \in opt /\ ~exists)
       IN  Goto(s, IF skip THEN "stmt" ELSE "write",
                [seen[s] EXCEPT !.asked = @ \cup {m}, !.mem = m, !.exists = exists])

ZAddCount(s) == NoStatement /\ \E m \in Member : ZAddAsks(s, m, ZSet(s)[m] # NULL)

\* The error of the SELECT COUNT is dropped, and the member counts as new.
ZAddCountLost(s) ==
    ReadFaults /\ NoStatement /\ \E m \in Member : ZAddAsks(s, m, FALSE)

\* Mutant of ZAddWrite: the INSERT is an upsert.
ZAddUpsert(s) ==
    /\ Running(s, {"ZAdd"}, "write")
    /\ HasRow(db, Target(s))
    /\ Commit(s, WithScore(db, Target(s), seen[s].mem, Current(s).scores[seen[s].mem]))
    /\ Goto(s, "stmt", [seen[s] EXCEPT !.n = IF seen[s].exists THEN @ ELSE @ + 1])

\* The INSERT or UPDATE of that member, back to the loop.
ZAddWrite(s) ==
    /\ Running(s, {"ZAdd"}, "write")
    /\ LET m == seen[s].mem
           x == Current(s).scores[m]
       IN  \/ /\ ~seen[s].exists
              /\ CanInsert(s, m)
              /\ Commit(s, WithScore(db, Target(s), m, x))
              /\ Goto(s, "stmt", [seen[s] EXCEPT !.n = @ + 1])
           \/ /\ seen[s].exists
              /\ Commit(s, UpdateScore(db, Target(s), m, x))
              /\ Goto(s, "stmt", seen[s])

\* The loop is over.  ZADD key NX without pairs comes straight here.
ZAddReturn(s) ==
    /\ Running(s, {"ZAdd"}, "stmt")
    /\ Present(Current(s).scores) \subseteq seen[s].asked
    /\ NoStatement
    /\ Return(s, Number(seen[s].n))

\* ZIncrBy: SELECT score, then INSERT or UPDATE.  Scores that would outgrow Int64
\* are left to fail.
ZIncrByRead(s) ==
    \E m \in Member :
      /\ AtMember(s, {"ZIncrBy"}, m)
      /\ NewScore(ZSet(s)[m], Current(s).n) \in Int64
      /\ NoStatement
      /\ Goto(s, "write", [NoRead EXCEPT !.mem = m, !.score = ZSet(s)[m]])

ZIncrByWrite(s) ==
    /\ Running(s, {"ZIncrBy"}, "write")
    /\ LET m == seen[s].mem
           x == NewScore(seen[s].score, Current(s).n)
       IN  /\ \/ /\ seen[s].score = NULL
                 /\ CanInsert(s, m)
                 /\ Commit(s, WithScore(db, Target(s), m, x))
              \/ /\ seen[s].score # NULL
                 /\ Commit(s, UpdateScore(db, Target(s), m, x))
           /\ Return(s, Bulk(FormatInt(x)))

\* ZRem, one member of its loop.  An empty sorted set keeps its keys row.
ZRem(s) ==
    \E m \in Member :
      /\ AtMember(s, {"ZRem"}, m)
      /\ Round(s, WithScore(db, Target(s), m, NULL), ZSet(s)[m] # NULL)

-----------------------------------------------------------------------------
ZScore(s) ==
    \E m \in Member :
      /\ AtMember(s, {"ZScore"}, m)
      /\ NoStatement
      /\ Return(s, IF ZSet(s)[m] = NULL THEN Nil ELSE Bulk(FormatInt(ZSet(s)[m])))

ZCard(s) ==
    /\ Running(s, {"ZCard"}, "stmt")
    /\ NoStatement
    /\ Return(s, Number(Cardinality(Present(ZSet(s)))))

\* COUNT of the members with a smaller score; 0 if m is not there, as then the
\* scores are compared with NULL.
Rank(z, m) == Cardinality({o \in Present(z) : z[m] # NULL /\ z[o] < z[m]})

\* ZRank counts first, and asks whether the member exists afterwards.
ZRankCount(s) ==
    \E m \in Member :
      /\ AtMember(s, {"ZRank"}, m)
      /\ NoStatement
      /\ Goto(s, "write", [NoRead EXCEPT !.mem = m, !.n = Rank(ZSet(s), m)])

ZRankExists(s) ==
    /\ Running(s, {"ZRank"}, "write")
    /\ NoStatement
    /\ Return(s, IF seen[s].mem \in Present(ZSet(s)) THEN Number(seen[s].n) ELSE Nil)

\* Either error makes the member one that is not found.
ZRankLost(s) ==
    /\ ReadFaults /\ NoStatement
    /\ Running(s, {"ZRank"}, "stmt") \/ Running(s, {"ZRank"}, "write")
    /\ Return(s, Nil)

\* The members M of z by score, equal scores by member: a set with that one
\* sequence.
Ordered(z, M) ==
    {e \in [1 .. Cardinality(M) -> M] :
        \A i, j \in DOMAIN e : i < j =>
          \/ z[e[i]] < z[e[j]]
          \/ z[e[i]] = z[e[j]] /\ e[i] < e[j]}

\* ZRange: the COUNT the indexes are clamped with, then the rows between them.
Clamped(c, count) ==
    LET start == IF c.n < 0 THEN count + c.n ELSE c.n
        stop  == IF c.m < 0 THEN count + c.m ELSE c.m
    IN  [from |-> IF start < 0 THEN 0 ELSE start,
         to   |-> IF stop >= count THEN count - 1 ELSE stop]

ZRangeCount(s) ==
    /\ Running(s, {"ZRange"}, "stmt")
    /\ NoStatement
    /\ LET count == Cardinality(Present(ZSet(s)))
           b     == Clamped(Current(s), count)
       IN  IF b.from > b.to THEN Return(s, Order(<<>>))
           ELSE Goto(s, "write", [NoRead EXCEPT !.n = count])

\* LIMIT to - from + 1 OFFSET from.
ZRangeRows(s) ==
    /\ Running(s, {"ZRange"}, "write")
    /\ NoStatement
    /\ LET b == Clamped(Current(s), seen[s].n)
           M == Present(ZSet(s))
           n == Cardinality(M)
       IN  \E e \in Ordered(ZSet(s), M) :
             Return(s, Order(IF b.from >= n THEN <<>>
                             ELSE SubSeq(e, b.from + 1, IF b.to < n THEN b.to + 1 ELSE n)))

\* A COUNT that is lost leaves 0, and any range of 0 members is empty.
ZRangeLost(s) ==
    /\ ReadFaults /\ NoStatement
    /\ Running(s, {"ZRange"}, "stmt")
    /\ Return(s, Order(<<>>))

\* parseScore and the comparisons built from it: whether x is within the bounds.
\* A bound that does not parse is one more way to fail.
Within(c, x) ==
    /\ "MININF" \in c.opt \/ x > c.n \/ (x = c.n /\ "MINEX" \notin c.opt)
    /\ "MAXINF" \in c.opt \/ x < c.m \/ (x = c.m /\ "MAXEX" \notin c.opt)
InBounds(c, z) == {m \in Present(z) : Within(c, z[m])}

ZRangeByScore(s) ==
    /\ Running(s, {"ZRangeByScore"}, "stmt")
    /\ NoStatement
    /\ \E e \in Ordered(ZSet(s), InBounds(Current(s), ZSet(s))) : Return(s, Order(e))

ZCount(s) ==
    /\ Running(s, {"ZCount"}, "stmt")
    /\ NoStatement
    /\ Return(s, Number(Cardinality(InBounds(Current(s), ZSet(s)))))

ZSetStep(s) == \/ ZEnsure(s) \/ ZAddCount(s) \/ ZAddCountLost(s) \/ ZAddWrite(s)
               \/ ZAddReturn(s) \/ ZIncrByRead(s) \/ ZIncrByWrite(s) \/ ZRem(s)
               \/ ZScore(s) \/ ZCard(s) \/ ZRankCount(s) \/ ZRankExists(s) \/ ZRankLost(s)
               \/ ZRangeCount(s) \/ ZRangeRows(s) \/ ZRangeLost(s)
               \/ ZRangeByScore(s) \/ ZCount(s)
=============================================================================
