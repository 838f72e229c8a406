------------------------------ MODULE Handlers ------------------------------
(***************************************************************************)
(* The command handlers of internal/commands: which store calls a command  *)
(* makes, in which order, with which arguments.  A handler stops at the    *)
(* first call that fails; MGET goes on, so each of its keys is a command   *)
(* of its own.                                                             *)
(***************************************************************************)
EXTENDS StoreSession, SequencesExt

One(c)         == << <<c>> >>
Each(op, ks, d) == [i \in DOMAIN ks |-> NewCall(op, <<ks[i], d>>)]

cmdGet(k, d)    == One(NewCall("Get", <<k, d>>))
cmdStrLen(k, d) == One(NewCall("StrLen", <<k, d>>))

\* SET key value [EX s | PX ms] [NX] [XX]; a lifetime that is not positive is
\* refused before the store is called.
SetCall(k, d, v, ttl, opt) ==
    [NewCall("Set", <<k, d>>) EXCEPT !.val = v, !.ttl = ttl, !.opt = opt]
cmdSet(k, d, v, opt)       == One(SetCall(k, d, v, NULL, opt))
cmdSetPX(k, d, v, ms, opt) == One(SetCall(k, d, v, ms, opt))
cmdSetEX(k, d, v, s, opt)  == One(SetCall(k, d, v, s * MsPerSec, opt))
cmdSetNX(k, d, v)          == cmdSet(k, d, v, {"NX"})

\* GETSET is a Get and a Set, MSET one Set per pair, MGET one Get per key.
cmdGetSet(k, d, v) == << <<NewCall("Get", <<k, d>>), SetCall(k, d, v, NULL, {})>> >>
cmdMSet(ks, vs, d) == << [i \in DOMAIN ks |-> SetCall(ks[i], d, vs[i], NULL, {})] >>
cmdMGet(ks, d)     == [i \in DOMAIN ks |-> <<NewCall("Get", <<ks[i], d>>)>>]

cmdIncrBy(k, d, delta) == One([NewCall("IncrBy", <<k, d>>) EXCEPT !.n = delta])
cmdDecrBy(k, d, delta) == cmdIncrBy(k, d, Wrap(-delta))
cmdIncr(k, d)          == cmdIncrBy(k, d, 1)
cmdDecr(k, d)          == cmdIncrBy(k, d, -1)
cmdAppend(k, d, v)     == One([NewCall("Append", <<k, d>>) EXCEPT !.val = v])

cmdDel(ks, d)       == <<Each("Del", ks, d)>>
cmdExists(ks, d)    == <<Each("Exists", ks, d)>>
cmdPExpire(k, d, t) == One([NewCall("ExpireAt", <<k, d>>) EXCEPT !.ttl = t])
cmdExpire(k, d, s)  == cmdPExpire(k, d, s * MsPerSec)
cmdPTTL(k, d)       == One([NewCall("TTL", <<k, d>>) EXCEPT !.opt = {"MS"}])
cmdTTL(k, d)        == One(NewCall("TTL", <<k, d>>))
cmdPersist(k, d)    == One(NewCall("Persist", <<k, d>>))
cmdType(k, d)       == One(NewCall("Type", <<k, d>>))
cmdRename(k, q, d)  == One([NewCall("Rename", <<k, d>>) EXCEPT !.dst = <<q, d>>])

\* Commands on a whole database: the key of the call is not used.
Whole(op, d)   == NewCall(op, <<CHOOSE k \in Key : TRUE, d>>)
cmdKeys(ks, d) == One([Whole("Keys", d) EXCEPT !.names = ks])
cmdDBSize(d)    == One(Whole("DBSize", d))
cmdRandomKey(d) == One(Whole("RandomKey", d))
cmdFlushDB(d)   == One(Whole("FlushDB", d))
cmdFlushAll     == One(Whole("FlushAll", CHOOSE d \in DbIdx : TRUE))

cmdLPush(k, d, vs)      == One([NewCall("LPush", <<k, d>>) EXCEPT !.vals = vs])
cmdRPush(k, d, vs)      == One([NewCall("RPush", <<k, d>>) EXCEPT !.vals = vs])
cmdLPop(k, d)           == One(NewCall("LPop", <<k, d>>))
cmdRPop(k, d)           == One(NewCall("RPop", <<k, d>>))
cmdLLen(k, d)           == One(NewCall("LLen", <<k, d>>))
cmdLRange(k, d, i, j)   == One([NewCall("LRange", <<k, d>>) EXCEPT !.n = i, !.m = j])
cmdLIndex(k, d, i)      == One([NewCall("LIndex", <<k, d>>) EXCEPT !.n = i])
cmdLSet(k, d, i, v)     == One([NewCall("LSet", <<k, d>>) EXCEPT !.n = i, !.val = v])
cmdLInsert(k, d, o, p, v) ==
    One([NewCall("LInsert", <<k, d>>) EXCEPT !.opt = o, !.val = p, !.vals = <<v>>])
cmdLRem(k, d, i, v)     == One([NewCall("LRem", <<k, d>>) EXCEPT !.n = i, !.val = v])

\* HSET and HMSET differ in the answer only; HMGET is one HGet per field.
Fielded(op, k, d, ms) == [NewCall(op, <<k, d>>) EXCEPT !.mems = ms]
cmdHSet(k, d, pairs)  == One([NewCall("HSet", <<k, d>>) EXCEPT !.pairs = pairs])
cmdHGet(k, d, f)      == One(Fielded("HGet", k, d, <<f>>))
cmdHDel(k, d, fs)     == One(Fielded("HDel", k, d, fs))
cmdHExists(k, d, f)   == One(Fielded("HExists", k, d, <<f>>))
cmdHGetAll(k, d)      == One(NewCall("HGetAll", <<k, d>>))
cmdHKeys(k, d)        == One(NewCall("HKeys", <<k, d>>))
cmdHVals(k, d)        == One(NewCall("HVals", <<k, d>>))
cmdHLen(k, d)         == One(NewCall("HLen", <<k, d>>))
cmdHMGet(k, d, fs)    == << [i \in DOMAIN fs |-> Fielded("HGet", k, d, <<fs[i]>>)] >>
cmdHMSet(k, d, pairs) == cmdHSet(k, d, pairs)

cmdSAdd(k, d, ms)      == One(Fielded("SAdd", k, d, ms))
cmdSRem(k, d, ms)      == One(Fielded("SRem", k, d, ms))
cmdSIsMember(k, d, m)  == One(Fielded("SIsMember", k, d, <<m>>))
cmdSMembers(k, d)      == One(NewCall("SMembers", <<k, d>>))
cmdSCard(k, d)         == One(NewCall("SCard", <<k, d>>))

\* The set algebra: the first key with op first, the others with op.
Algebra(first, op, ks, d) ==
    <<Each(first, <<Head(ks)>>, d) \o Each(op, Tail(ks), d)>>
cmdSUnion(ks, d) == Algebra("SMembers", "SUnion", ks, d)
cmdSInter(ks, d) == Algebra("SBase", "SInter", ks, d)
cmdSDiff(ks, d)  == Algebra("SBase", "SDiff", ks, d)

cmdZAdd(k, d, scores, o) ==
    One([NewCall("ZAdd", <<k, d>>) EXCEPT !.scores = scores, !.opt = o])
cmdZRem(k, d, ms)       == One(Fielded("ZRem", k, d, ms))
cmdZScore(k, d, m)      == One(Fielded("ZScore", k, d, <<m>>))
cmdZRank(k, d, m)       == One(Fielded("ZRank", k, d, <<m>>))
cmdZIncrBy(k, d, n, m)  == One([Fielded("ZIncrBy", k, d, <<m>>) EXCEPT !.n = n])
cmdZCard(k, d)          == One(NewCall("ZCard", <<k, d>>))
Ranged(op, k, d, i, j, o) == One([NewCall(op, <<k, d>>) EXCEPT !.n = i, !.m = j, !.opt = o])
cmdZRange(k, d, i, j)           == Ranged("ZRange", k, d, i, j, {})
cmdZRangeByScore(k, d, i, j, o) == Ranged("ZRangeByScore", k, d, i, j, o)
cmdZCount(k, d, i, j, o)        == Ranged("ZCount", k, d, i, j, o)

\* INFO asks for the size of every database and leaves out those that fail, so
\* each is a command of its own.
cmdInfo(dbs) == [i \in DOMAIN dbs |-> <<Whole("DBSize", dbs[i])>>]

\* EXEC dispatches the queued commands one after the other.
cmdExec(queued) == FlattenSeq(queued)
=============================================================================
