------------------------------- MODULE MCStore -------------------------------
(***************************************************************************)
(* Small instances of Store: which requests the clients send in each run.  *)
(***************************************************************************)
EXTENDS StoreRefinement, Handlers

CONSTANTS s1, s2, k1, k2, ta

Sessions2 == {s1, s2}
Symmetry  == Permutations(Sessions2)

a   == <<ta>>
Num(n) == FormatInt(n)
Put(d, k, i, v, e) == PutString(UpsertKey(d, <<k, i>>, "string", e), <<k, i>>, v)
PutList(d, k, i, l, e) ==
    [UpsertKey(d, <<k, i>>, "list", e) EXCEPT !.lists[<<k, i>>] = l]

\* Arguments and contents of hashes, sets and sorted sets.
FieldValues(v1, v2) == [m \in Member |-> IF m = 1 THEN v1 ELSE v2]
PutHash(d, k, i, h, e) ==
    [UpsertKey(d, <<k, i>>, "hash", e) EXCEPT !.hashes[<<k, i>>] = h]
PutSet(d, k, i, ms, e) ==
    [UpsertKey(d, <<k, i>>, "set", e) EXCEPT !.sets[<<k, i>>] = ms]
PutZSet(d, k, i, z, e) ==
    [UpsertKey(d, <<k, i>>, "zset", e) EXCEPT !.zsets[<<k, i>>] = z]

EmptyDb   == {EmptyDatabase}
CounterDb == {EmptyDatabase, Put(EmptyDatabase, k1, 0, Num(MaxInt), NULL)}
ExpiryDb  == {Put(EmptyDatabase, k1, 0, a, 1),
              PutList(EmptyDatabase, k1, 0, <<a>>, 1)}
TwoDbs    == {PutList(Put(EmptyDatabase, k1, 0, a, 1), k1, 1, <<a>>, NULL)}
ListDb    == {PutList(EmptyDatabase, k1, 0, <<a, Num(0), a>>, 1)}
HashDb    == {EmptyDatabase, PutHash(EmptyDatabase, k1, 0, FieldValues(a, NULL), 1)}
SetDb     == {PutSet(EmptyDatabase, k1, 0, {1}, 1)}
ZSetDb    == {PutZSet(EmptyDatabase, k1, 0, FieldValues(0, 0), 1)}
TypeDbs   == ListDb \cup HashDb \cup SetDb \cup ZSetDb

-----------------------------------------------------------------------------
AtomicRequests == {cmdIncr(k1, 0), cmdDecrBy(k1, 0, MinInt), cmdAppend(k1, 0, a),
                   cmdSetPX(k1, 0, Num(1), 1, {"NX"}), cmdSet(k1, 0, Num(0), {"XX"}),
                   cmdExpire(k1, 0, -1), cmdMGet(<<k1, k1>>, 0), cmdStrLen(k1, 0),
                   cmdPTTL(k1, 0), cmdType(k1, 0), cmdDel(<<k1>>, 0), cmdFlushDB(0),
                   cmdExists(<<k1>>, 0)}

KeyRequests == {cmdIncrBy(k1, 0, MinInt), cmdPersist(k1, 0), cmdPExpire(k1, 0, 1),
                cmdFlushDB(0), cmdExec(<<cmdFlushAll, cmdDel(<<k1, k2>>, 0)>>), cmdInfo(<<0, 1>>),
                cmdKeys({k1}, 0), cmdRandomKey(0), cmdRename(k1, k2, 0), cmdMSet(<<k1, k2>>, <<a, a>>, 1)}

SweepRequests == {cmdSetPX(k1, 0, a, 1, {}), cmdHSet(k1, 0, FieldValues(a, a)),
                  cmdZAdd(k1, 0, FieldValues(0, 1), {}), cmdIncr(k1, 0)}

-----------------------------------------------------------------------------
(* Clients that use a key for one type of data at a time.                  *)

ListRequests == {cmdLPush(k1, 0, <<a, Num(0)>>), cmdRPush(k1, 0, <<a>>),
                 cmdLPop(k1, 0), cmdRPop(k1, 0), cmdLLen(k1, 0),
                 cmdLRange(k1, 0, 1, -1), cmdLIndex(k1, 0, -1), cmdLSet(k1, 0, 1, a),
                 cmdLInsert(k1, 0, {"BEFORE"}, a, Num(0)), cmdLRem(k1, 0, -1, a)}

HashRequests == {cmdHSet(k1, 0, FieldValues(Num(1), a)), cmdHMSet(k1, 0, FieldValues(NULL, Num(1))),
                 cmdHDel(k1, 0, <<1, 2>>), cmdHMGet(k1, 0, <<2, 1>>), cmdHExists(k1, 0, 1),
                 cmdHGet(k1, 0, 1), cmdHGetAll(k1, 0), cmdHKeys(k1, 0), cmdHVals(k1, 0),
                 cmdHLen(k1, 0)}

SetRequests == {cmdSAdd(k1, 0, <<2, 1>>), cmdSRem(k1, 0, <<1, 2>>), cmdSMembers(k1, 0),
                cmdSIsMember(k1, 0, 2), cmdSCard(k1, 0), cmdSUnion(<<k1, k1>>, 0),
                cmdSInter(<<k1, k1>>, 0), cmdSDiff(<<k1, k1>>, 0)}

ZSetRequests == {cmdZAdd(k1, 0, FieldValues(1, 0), {"NX"}), cmdZAdd(k1, 0, FieldValues(-1, 1), {"XX"}),
                 cmdZAdd(k1, 0, FieldValues(NULL, 1), {}), cmdZAdd(k1, 0, NoFields, {"NX", "XX"}),
                 cmdZIncrBy(k1, 0, 1, 1), cmdZRem(k1, 0, <<1, 2>>), cmdZScore(k1, 0, 1),
                 cmdZCard(k1, 0), cmdZRank(k1, 0, 2), cmdZRange(k1, 0, -2, -1),
                 cmdZRangeByScore(k1, 0, 0, 1, {"MINEX"}), cmdZCount(k1, 0, 0, 0, {"MININF", "MAXEX"})}

RequestsOn == ("list" :> ListRequests) @@ ("hash" :> HashRequests)
              @@ ("set" :> SetRequests) @@ ("zset" :> ZSetRequests)
DelRequest   == cmdDel(<<k1>>, 0)
TypeRequests == UNION {RequestsOn[t] : t \in DOMAIN RequestsOn} \cup {DelRequest}

CallsOn(t) == CASE t = "list" -> ListOps
                [] t = "hash" -> HashOps
                [] t = "set"  -> SetOps \cup {"SBase", "SInter", "SDiff"}
                [] t = "zset" -> ZSetOps

\* The key is free or of type t, and so are the calls under way.
InUseFor(t) ==
    /\ \A p \in Pk : HasRow(db, p) => db.keys[p].type = t
    /\ \A s \in Session : ~At(s, "idle") => Current(s).op \in CallsOn(t) \cup {"Del"}

BeginTyped(s) == \/ Begin(s, DelRequest)
                 \/ \E t \in DOMAIN RequestsOn :
                      InUseFor(t) /\ \E r \in RequestsOn[t] : Begin(s, r)

TypedNext == (\E s \in Session : Step(s) \/ BeginTyped(s)) \/ Environment
TypedSpec == StoreInit /\ [][TypedNext]_vars

-----------------------------------------------------------------------------
CounterRequests == {cmdIncr(k1, 0), cmdDecr(k1, 0)}
SwapRequests    == {cmdExec(<<cmdGet(k1, 0), cmdSet(k1, 0, Num(0), {})>>),
                    cmdGetSet(k1, 0, Num(1))}
PopRequests     == {cmdLPop(k1, 0), cmdRPush(k1, 0, <<a>>)}
MixRequests     == {cmdHSet(k1, 0, FieldValues(a, NULL)), cmdSAdd(k1, 0, <<1>>)}
=============================================================================
