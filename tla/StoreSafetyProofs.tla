-------------------------- MODULE StoreSafetyProofs --------------------------
(***************************************************************************)
(* Safety of Store for every set of sessions, keys and requests: the       *)
(* foreign keys, lazy expiry and, on SQLite, atomic updates; HSET's        *)
(* transaction and the conditions of SET and ZADD.  Then what becomes of   *)
(* the rows of keys: nothing takes a live key but a command that means to, *)
(* a step stays in one database, and a string key has its value.           *)
(***************************************************************************)
EXTENDS StoreProofs

-----------------------------------------------------------------------------
(* No data row without its keys row: every statement keeps the foreign     *)
(* keys.                                                                   *)

Sound(d) == \A p \in Pk : HasData(d, p) => HasRow(d, p)

LEMMA DeleteKeysSound ==
    ASSUME NEW d, Sound(d), NEW P
    PROVE  Sound(DeleteKeys(d, P))
BY DEF Sound, DeleteKeys, HasData, HasRow

LEMMA UpsertKeySound ==
    ASSUME NEW d \in Database, Sound(d), NEW p \in Pk, NEW t \in Type, NEW e \in Time
    PROVE  /\ Sound(UpsertKey(d, p, t, e))
           /\ HasRow(UpsertKey(d, p, t, e), p)
BY RowAssumption DEF Sound, UpsertKey, HasData, HasRow, Database, KeyRow

LEMMA UpsertKeyTypeSound ==
    ASSUME NEW d \in Database, Sound(d), NEW p \in Pk, NEW t \in Type
    PROVE  /\ Sound(UpsertKeyType(d, p, t))
           /\ HasRow(UpsertKeyType(d, p, t), p)
<1>. DEFINE e == IF HasRow(d, p) THEN d.keys[p].exp ELSE NULL
<1>1. d.keys[p] # NULL => d.keys[p].exp \in Time
  BY DEF Database, KeyRow
<1>2. e \in Time
  BY <1>1 DEF HasRow, Time
<1>3. UpsertKeyType(d, p, t) = UpsertKey(d, p, t, e)
  BY DEF UpsertKeyType, UpsertKey
<1>. QED
  BY <1>2, <1>3, UpsertKeySound

LEMMA EnsureKeySound ==
    ASSUME NEW d \in Database, Sound(d), NEW p \in Pk, NEW t \in Type
    PROVE  Sound(EnsureKey(d, p, t))
<1>1. NULL \in Time
  BY DEF Time
<1>2. UpsertKey(d, p, t, NULL) = [d EXCEPT !.keys[p] = [type |-> t, exp |-> NULL]]
  BY DEF UpsertKey
<1>. QED
  BY <1>1, <1>2, UpsertKeySound DEF EnsureKey

LEMMA UpdateExpirySound ==
    ASSUME NEW d \in Database, Sound(d), NEW p \in Pk, NEW e \in Time
    PROVE  Sound(UpdateExpiry(d, p, e))
<1>1. CASE HasRow(d, p)
  <2>1. d.keys[p] \in KeyRow
    BY <1>1 DEF HasRow, Database
  <2>2. [d.keys[p] EXCEPT !.exp = e] \in KeyRow
    BY <2>1 DEF KeyRow
  <2>3. [d.keys[p] EXCEPT !.exp = e] # NULL
    BY <2>2, RowAssumption
  <2>4. UpdateExpiry(d, p, e) = [d EXCEPT !.keys[p] = [d.keys[p] EXCEPT !.exp = e]]
    BY <1>1 DEF UpdateExpiry, Database
  <2>. QED
    BY <2>3, <2>4 DEF Sound, HasData, HasRow, Database
<1>2. CASE ~HasRow(d, p)
  BY <1>2 DEF UpdateExpiry
<1>. QED
  BY <1>1, <1>2

LEMMA PutStringSound ==
    ASSUME NEW d \in Database, Sound(d), NEW p \in Pk, HasRow(d, p), NEW v
    PROVE  Sound(PutString(d, p, v))
BY DEF Sound, PutString, HasData, HasRow, Database

LEMMA CopyDataSound ==
    ASSUME NEW d \in Database, Sound(d), NEW t \in Type, NEW p \in Pk, NEW q \in Pk,
           HasRow(d, q)
    PROVE  Sound(CopyData(d, t, p, q))
<1>1. CASE t = "string"
  BY <1>1 DEF Sound, HasData, HasRow, Database, CopyData
<1>2. CASE t = "list"
  BY <1>2 DEF Sound, HasData, HasRow, Database, CopyData
<1>3. CASE t = "hash"
  BY <1>3 DEF Sound, HasData, HasRow, Database, CopyData
<1>4. CASE t = "set"
  BY <1>4 DEF Sound, HasData, HasRow, Database, CopyData
<1>5. CASE t = "zset"
  BY <1>5 DEF Sound, HasData, HasRow, Database, CopyData
<1>. QED
  BY <1>1, <1>2, <1>3, <1>4, <1>5 DEF Type

LEMMA RenamedSound ==
    ASSUME NEW d \in Database, Sound(d), NEW row \in KeyRow, NEW p \in Pk, NEW q \in Pk
    PROVE  Sound(Renamed(d, row, p, q))
<1>. DEFINE d1 == DeleteKeys(d, {q})
            d2 == UpsertKey(d1, q, row.type, row.exp)
<1>1. row.type \in Type /\ row.exp \in Time
  BY DEF KeyRow
<1>2. d1 \in Database /\ Sound(d1)
  BY DeleteKeysDatabase, DeleteKeysSound
<1>3. d2 \in Database /\ Sound(d2) /\ HasRow(d2, q)
  BY <1>1, <1>2, UpsertKeyDatabase, UpsertKeySound
<1>4. Sound(CopyData(d2, row.type, p, q))
  BY <1>1, <1>3, CopyDataSound
<1>. QED
  BY <1>4, DeleteKeysSound DEF Renamed

LEMMA RewrittenSound ==
    ASSUME NEW d \in Database, Sound(d), NEW p \in Pk, NEW l, l # <<>> => HasRow(d, p)
    PROVE  Sound(Rewritten(d, p, l))
<1>1. CASE l = <<>>
  BY <1>1, DeleteKeysSound DEF Rewritten
<1>2. CASE l # <<>>
  BY <1>2 DEF Rewritten, Sound, HasData, HasRow, Database
<1>. QED
  BY <1>1, <1>2

LEMMA ReplacedSound ==
    ASSUME NEW d \in Database, Sound(d), NEW p \in Pk, NEW old, NEW new
    PROVE  Sound(Replaced(d, p, old, new))
<1>1. CASE old # NULL
  <2>1. d.strings[p] # NULL => HasRow(d, p)
    BY DEF Sound, HasData
  <2>. QED
    BY <1>1, <2>1, PutStringSound DEF Replaced, UpdateString
<1>2. CASE old = NULL
  <2>1. "string" \in Type
    BY DEF Type
  <2>2. /\ UpsertKeyType(d, p, "string") \in Database
        /\ Sound(UpsertKeyType(d, p, "string"))
        /\ HasRow(UpsertKeyType(d, p, "string"), p)
    BY <2>1, UpsertKeyTypeDatabase, UpsertKeyTypeSound
  <2>. QED
    BY <1>2, <2>2, PutStringSound DEF Replaced
<1>. QED
  BY <1>1, <1>2

\* Rows of the parts of a key: written where the keys row is, or taken away.
LEMMA PutRowsSound ==
    ASSUME NEW d \in Database, Sound(d), NEW p \in Pk, NEW x
    PROVE  /\ HasRow(d, p) \/ x = NoFields => Sound([d EXCEPT !.hashes[p] = x])
           /\ HasRow(d, p) \/ x = {} => Sound([d EXCEPT !.sets[p] = x])
           /\ HasRow(d, p) \/ x = NoFields => Sound([d EXCEPT !.zsets[p] = x])
<1>1. HasRow(d, p) \/ x = NoFields => Sound([d EXCEPT !.hashes[p] = x])
  BY DEF Sound, HasData, HasRow, Database
<1>2. HasRow(d, p) \/ x = {} => Sound([d EXCEPT !.sets[p] = x])
  BY DEF Sound, HasData, HasRow, Database
<1>3. HasRow(d, p) \/ x = NoFields => Sound([d EXCEPT !.zsets[p] = x])
  BY DEF Sound, HasData, HasRow, Database
<1>. QED
  BY <1>1, <1>2, <1>3

LEMMA RemoveRowSound ==
    ASSUME NEW d \in Database, Sound(d), NEW p \in Pk, NEW m
    PROVE  /\ Sound([d EXCEPT !.hashes[p] = [@ EXCEPT ![m] = NULL]])
           /\ Sound([d EXCEPT !.sets[p] = @ \ {m}])
           /\ Sound(WithScore(d, p, m, NULL))
<1>1. [NoFields EXCEPT ![m] = NULL] = NoFields /\ {} \ {m} = {}
  BY DEF NoFields
<1>2. ~HasRow(d, p) => d.hashes[p] = NoFields /\ d.sets[p] = {} /\ d.zsets[p] = NoFields
  BY DEF Sound, HasData
<1>3. Sound([d EXCEPT !.hashes[p] = [d.hashes[p] EXCEPT ![m] = NULL]])
  BY <1>1, <1>2, PutRowsSound
<1>4. Sound([d EXCEPT !.sets[p] = d.sets[p] \ {m}])
  BY <1>1, <1>2, PutRowsSound
<1>5. Sound([d EXCEPT !.zsets[p] = [d.zsets[p] EXCEPT ![m] = NULL]])
  BY <1>1, <1>2, PutRowsSound
<1>. QED
  BY <1>3, <1>4, <1>5 DEF WithScore

LEMMA WithScoreSound ==
    ASSUME NEW d \in Database, Sound(d), NEW p \in Pk, NEW m \in Member, NEW x
    PROVE  /\ HasRow(d, p) => Sound(WithScore(d, p, m, x))
           /\ Sound(UpdateScore(d, p, m, x))
<1>1. HasRow(d, p) => Sound(WithScore(d, p, m, x))
  BY PutRowsSound DEF WithScore
<1>2. d.zsets[p][m] # NULL => HasRow(d, p)
  BY DEF Sound, HasData, NoFields
<1>. QED
  BY <1>1, <1>2 DEF UpdateScore

LEMMA HashStepSound ==
    ASSUME TypeInv, Sound(db), NEW s \in Session, HashStep(s)
    PROVE  Sound(db')
<1>1. ~At(s, "idle")
  BY DEF HashStep, HEnsure, Ensure, HSetCount, HSetCountLost, HSetAsks, HSetWrite, HDel,
         HGet, HExists, HGetAll, HKeys, HVals, HLen, AtMember, Running, At
<1>2. Target(s) \in Pk /\ db \in Database
  BY <1>1, Running1 DEF TypeInv, TypeOK
<1>3. CASE HEnsure(s)
  BY <1>2, <1>3, EnsureKeySound DEF HEnsure, Ensure, Commit, Type
<1>4. CASE HSetWrite(s)
  BY <1>2, <1>4, PutRowsSound DEF HSetWrite, Commit
<1>5. CASE HDel(s)
  <2>1. PICK f \in Member : db' = [db EXCEPT !.hashes[Target(s)] = [@ EXCEPT ![f] = NULL]]
    BY <1>5 DEF HDel, Round, Commit
  <2>. QED
    BY <1>2, <2>1, RemoveRowSound
<1>6. CASE db' = db
  BY <1>6
<1>. QED
  BY <1>3, <1>4, <1>5, <1>6 DEF HashStep, HSetCount, HSetCountLost, HGet, HExists, HGetAll,
     HKeys, HVals, HLen, NoStatement, Snapshot

LEMMA SetStepSound ==
    ASSUME TypeInv, Sound(db), NEW s \in Session, SetStep(s)
    PROVE  Sound(db')
<1>1. ~At(s, "idle")
  BY DEF SetStep, SEnsure, Ensure, SAdd, SRem, SIsMember, SCard, SMembers, SUnion, SInter,
         SDiff, AtMember, Running, At
<1>2. Target(s) \in Pk /\ db \in Database
  BY <1>1, Running1 DEF TypeInv, TypeOK
<1>3. CASE SEnsure(s)
  BY <1>2, <1>3, EnsureKeySound DEF SEnsure, Ensure, Commit, Type
<1>4. CASE SAdd(s)
  <2>1. PICK m \in Member : /\ db' = [db EXCEPT !.sets[Target(s)] = @ \cup {m}]
                            /\ HasRow(db, Target(s))
    BY <1>4 DEF SAdd, Round, Commit
  <2>2. PICK x : x = db.sets[Target(s)] \cup {m}
    OBVIOUS
  <2>3. Sound([db EXCEPT !.sets[Target(s)] = x])
    BY <1>2, <2>1, PutRowsSound
  <2>. QED
    BY <2>1, <2>2, <2>3
<1>5. CASE SRem(s)
  <2>1. PICK m \in Member : db' = [db EXCEPT !.sets[Target(s)] = @ \ {m}]
    BY <1>5 DEF SRem, Round, Commit
  <2>. QED
    BY <1>2, <2>1, RemoveRowSound
<1>6. CASE db' = db
  BY <1>6
<1>. QED
  BY <1>3, <1>4, <1>5, <1>6 DEF SetStep, SIsMember, SCard, SMembers, SUnion, SInter, SDiff,
     NoStatement

LEMMA ZSetStepSound ==
    ASSUME TypeInv, Sound(db), NEW s \in Session, ZSetStep(s)
    PROVE  Sound(db')
<1>. DEFINE p == Target(s)
            m == seen[s].mem
<1>1. ~At(s, "idle")
  BY DEF ZSetStep, ZEnsure, Ensure, ZAddCount, ZAddCountLost, ZAddAsks, ZAddWrite, ZAddReturn,
         ZIncrByRead, ZIncrByWrite, ZRem, ZScore, ZCard, ZRankCount, ZRankExists, ZRankLost,
         ZRangeCount, ZRangeRows, ZRangeLost, ZRangeByScore, ZCount, AtMember, Running, At
<1>2. p \in Pk /\ db \in Database
  BY <1>1, Running1 DEF TypeInv, TypeOK
<1>3. CASE ZEnsure(s)
  BY <1>2, <1>3, EnsureKeySound DEF ZEnsure, Ensure, Commit, Type
<1>4. CASE ZAddWrite(s)
  <2>1. m \in Member
    BY <1>4 DEF ZAddWrite, Running, TypeInv, Ready, WriteReady, ZAddReady
  <2>. QED
    BY <1>2, <1>4, <2>1, WithScoreSound DEF ZAddWrite, CanInsert, Commit
<1>5. CASE ZIncrByWrite(s)
  <2>1. m \in Member
    BY <1>5 DEF ZIncrByWrite, Running, TypeInv, Ready, WriteReady
  <2>. QED
    BY <1>2, <1>5, <2>1, WithScoreSound DEF ZIncrByWrite, CanInsert, Commit
<1>6. CASE ZRem(s)
  BY <1>2, <1>6, RemoveRowSound DEF ZRem, Round, Commit
<1>7. CASE db' = db
  BY <1>7
<1>. QED
  BY <1>3, <1>4, <1>5, <1>6, <1>7 DEF ZSetStep, ZAddCount, ZAddCountLost, ZAddReturn,
     ZIncrByRead, ZScore, ZCard, ZRankCount, ZRankExists, ZRankLost, ZRangeCount, ZRangeRows,
     ZRangeLost, ZRangeByScore, ZCount, NoStatement

\* A step of a session leaves the tables sound.
LEMMA StepSound ==
    ASSUME TypeInv, Sound(db), NEW s \in Session, Step(s)
    PROVE  Sound(db')
<1>. SUFFICES ASSUME CommonStep(s) \/ KeyStep(s) \/ StringStep(s) \/ ListStep(s)
              PROVE  Sound(db')
  BY HashStepSound, SetStepSound, ZSetStepSound DEF Step
<1>. DEFINE p == Target(s)
            c == Current(s)
<1>1. ~At(s, "idle")
  BY DEF CommonStep, StampExpiry, DeleteExpired, AssertType, FailStatement, LoseRead,
         KeyStep, Del, Exists, ExpireAt, TTL, PersistRead, PersistWrite, TypeOf,
         RenameRead, RenameWrite, DBSize, Keys, RandomKey, FlushDB, FlushAll,
         StringStep, Get, StrLen, SetRead, SetWrite, IncrByRead, IncrByWrite,
         AppendRead, AppendWrite, ListStep, LEnsure, Ensure, LRead, LRewrite, Running, At
<1>2. /\ c \in Call /\ p \in Pk /\ p = c.pk /\ seen[s] \in Read /\ db \in Database
  BY <1>1, Running1 DEF TypeInv, TypeOK
<1>3. c.exp \in Time /\ c.val \in Value /\ c.dst \in Pk /\ NULL \in Time
  BY <1>2 DEF Call, Time
<1>4. "string" \in Type /\ "list" \in Type
  BY DEF Type
<1>5. CASE db' = db
  BY <1>5
<1>6. CASE \E P : db' = DeleteKeys(db, P)
  BY <1>6, DeleteKeysSound
<1>7. CASE CommonStep(s)
  BY <1>5, <1>6, <1>7 DEF CommonStep, StampExpiry, DeleteExpired, AssertType,
     FailStatement, LoseRead, NoStatement, Commit
<1>8. CASE KeyStep(s)
  <2>1. CASE Del(s) \/ FlushDB(s) \/ FlushAll(s)
    BY <1>6, <2>1 DEF Del, FlushDB, FlushAll, Commit
  <2>2. CASE ExpireAt(s) \/ PersistWrite(s)
    BY <1>2, <1>3, <2>2, UpdateExpirySound DEF ExpireAt, PersistWrite, Commit
  <2>3. CASE RenameWrite(s)
    <3>1. seen[s].row \in KeyRow
      BY <1>2, <2>3 DEF RenameWrite, Running, TypeInv, Ready, WriteReady, Read
    <3>. QED
      BY <1>2, <1>3, <2>3, <3>1, RenamedSound DEF RenameWrite, Commit
  <2>. QED
    BY <1>5, <1>8, <2>1, <2>2, <2>3 DEF KeyStep, Exists, TTL, PersistRead, TypeOf,
       RenameRead, DBSize, Keys, RandomKey, NoStatement
<1>9. CASE StringStep(s)
  <2>1. CASE SetWrite(s)
    <3>1. /\ UpsertKey(db, p, "string", c.exp) \in Database
          /\ Sound(UpsertKey(db, p, "string", c.exp))
          /\ HasRow(UpsertKey(db, p, "string", c.exp), p)
      BY <1>2, <1>3, <1>4, UpsertKeyDatabase, UpsertKeySound
    <3>. QED
      BY <1>2, <2>1, <3>1, PutStringSound DEF SetWrite, Stored, Commit
  <2>2. CASE IncrByWrite(s) \/ AppendWrite(s)
    BY <1>2, <2>2, ReplacedSound DEF IncrByWrite, AppendWrite, Commit
  <2>. QED
    BY <1>5, <1>9, <2>1, <2>2 DEF StringStep, Get, StrLen, SetRead, IncrByRead,
       AppendRead, NoStatement, Snapshot
<1>10. CASE ListStep(s)
  <2>1. CASE LEnsure(s)
    BY <1>2, <1>4, <2>1, EnsureKeySound DEF LEnsure, Ensure, Commit
  <2>2. CASE LRewrite(s)
    BY <1>2, <2>2, RewrittenSound DEF LRewrite, Commit
  <2>. QED
    BY <1>5, <1>10, <2>1, <2>2 DEF ListStep, LRead, NoStatement
<1>. QED
  BY <1>7, <1>8, <1>9, <1>10

(***************************************************************************)
(* The foreign keys hold whatever the connections, the sweep and crashes   *)
(* do, on either backend: in particular lRewrite, IncrBy and Append, which *)
(* write from what they have read earlier, never leave data without a key. *)
(***************************************************************************)
THEOREM ForeignKeysHold == Spec => []NoOrphanData
<1>. DEFINE Inv == TypeInv /\ Sound(db)
<1>1. StoreInit => Inv
  BY TypeInvInit, InitDbsAssumption DEF StoreInit, Sound
<1>2. Inv /\ [Next]_vars => Inv'
  <2>. SUFFICES ASSUME Inv, [Next]_vars PROVE Sound(db')
    BY TypeInvStep DEF Sound, HasData, HasRow
  <2>1. CASE \E s \in Session : Step(s)
    BY <2>1, StepSound
  <2>2. CASE SweepExpired
    BY <2>2, DeleteKeysSound DEF SweepExpired
  <2>3. CASE db' = db
    BY <2>3
  <2>. QED
    BY <2>1, <2>2, <2>3 DEF Next, Begin, NoStatement, Environment, Tick, Crash, vars
<1>3. Inv => NoOrphanData
  BY DEF Sound, NoOrphanData
<1>. QED
  BY <1>1, <1>2, <1>3, PTL DEF Spec

-----------------------------------------------------------------------------
(* How a step of one session looks to the others, and where it leads.      *)

\* The locals of session t.
Locals(t) == <<pc[t], calls[t], seen[t], res[t]>>

\* What a step of s does to the snapshots of others: none, or it ends them.
Quiet(s) == (db' = db /\ fresh' \subseteq fresh \cup {s}) \/ fresh' = {}

LEMMA StatementQuiet ==
    ASSUME NEW s
    PROVE  /\ NoStatement => Quiet(s)
           /\ Snapshot(s) => Quiet(s)
           /\ \A d : Commit(s, d) => Quiet(s)
           /\ UNCHANGED db /\ fresh' = fresh \ {s} => Quiet(s)
BY DEF NoStatement, Snapshot, Commit, Quiet

\* Where Goto and Proceed lead.
LEMMA GotoMoves ==
    ASSUME TypeInv, NEW s \in Session, NEW l, NEW r, Goto(s, l, r)
    PROVE  /\ pc'[s] = l /\ seen'[s] = r /\ calls'[s] = calls[s] /\ now' = now
           /\ \A t \in Session \ {s} : UNCHANGED Locals(t)
           /\ Mark(s, FALSE)
BY DEF Goto, TypeInv, TypeOK, Locals

LEMMA ProceedMoves ==
    ASSUME TypeInv, NEW s \in Session, NEW cs, NEW ms, NEW r, Proceed(s, cs, ms, r)
    PROVE  /\ res'[s] = r /\ calls'[s] = cs /\ now' = now
           /\ pc'[s] = IF cs = <<>> THEN "idle" ELSE Entry(Head(cs))
           /\ \A t \in Session \ {s} : UNCHANGED Locals(t)
           /\ Mark(s, TRUE)
BY DEF Proceed, TypeInv, TypeOK, Locals

\* A store call of s is over, with result r.
Over(s, r) == \E cs, ms : Proceed(s, cs, ms, r)

LEMMA ReturnOver ==
    ASSUME NEW s, NEW r
    PROVE  (Return(s, r) => Over(s, r)) /\ (EndCommand(s, r) => Over(s, r))
BY DEF Return, EndCommand, Over

\* A step that goes on to "write" has just read, in one of these ways.
ReadsValue(s) ==
    /\ Current(s).op \in {"IncrBy", "Append"}
    /\ db' = db /\ Goto(s, "write", [NoRead EXCEPT !.val = db.strings[Target(s)]])
ReadsSet(s) ==
    /\ Current(s).op = "Set"
    /\ "NX" \in Current(s).opt => ~Alive(db.keys[Target(s)], now)
    /\ "XX" \in Current(s).opt => Alive(db.keys[Target(s)], now)
    /\ db' = db
    /\ \E b : Goto(s, "write", [NoRead EXCEPT !.exists = b])
ReadsLost(s)  == ReadFaults /\ Goto(s, "write", LostRead)
ReadsOther(s) == Current(s).op \notin StringTxs /\ \E r : Goto(s, "write", r)
ReadsNext(s)  == /\ At(s, "stmt")
                 /\ ReadsValue(s) \/ ReadsSet(s) \/ ReadsLost(s) \/ ReadsOther(s)

\* The other steps inside a call.
Moves(s) == /\ pc[s] \in {"assert", "ensure", "stmt", "write"}
            /\ \E l \in {"ensure", "stmt"} : \E r :
                 Goto(s, l, r) /\ (pc[s] \in {"assert", "ensure"} => r = NoRead)

\* A step from "write" of IncrBy, Append or Set is its write, or an error.
WritesOver(s) ==
    Running(s, StringTxs, "write") =>
      IncrByWrite(s) \/ AppendWrite(s) \/ SetWrite(s) \/ Over(s, Failed)

Shape(s) == /\ ~At(s, "idle") /\ Quiet(s) /\ WritesOver(s)
            /\ \/ StampExpiry(s) \/ DeleteExpired(s) \/ Moves(s) \/ ReadsNext(s)
               \/ \E r : Over(s, r)

LEMMA CommonStepShape ==
    ASSUME NEW s \in Session, CommonStep(s)
    PROVE  Shape(s)
<1>1. CASE StampExpiry(s)
  BY <1>1, StatementQuiet DEF Shape, WritesOver, StampExpiry, Running, At
<1>2. CASE DeleteExpired(s)
  BY <1>2, StatementQuiet DEF Shape, WritesOver, DeleteExpired, Running, At
<1>3. CASE AssertType(s)
  <2>1. AfterAssert(Current(s)) \in {"ensure", "stmt"}
    BY EntryPC
  <2>2. Moves(s) \/ Over(s, WrongType)
    BY <1>3, <2>1, ReturnOver DEF AssertType, Moves, At
  <2>. QED
    BY <1>3, <2>2, StatementQuiet DEF Shape, WritesOver, AssertType, Running, At
<1>4. CASE FailStatement(s)
  <2>1. Over(s, Failed) /\ Quiet(s)
    BY <1>4, ReturnOver, StatementQuiet DEF FailStatement
  <2>. QED
    BY <1>4, <2>1 DEF Shape, WritesOver, FailStatement, At
<1>5. CASE LoseRead(s)
  <2>1. At(s, "stmt") /\ Quiet(s) /\ ReadFaults
    BY <1>5, StatementQuiet DEF LoseRead, Running
  <2>2. ReadsLost(s) \/ \E r : Over(s, r)
    BY <1>5, ReturnOver DEF LoseRead, ReadsLost
  <2>. QED
    BY <2>1, <2>2 DEF Shape, WritesOver, ReadsNext, Running, At
<1>. QED
  BY <1>1, <1>2, <1>3, <1>4, <1>5 DEF CommonStep

LEMMA KeyStepShape ==
    ASSUME NEW s \in Session, KeyStep(s)
    PROVE  Shape(s)
<1>1. ~At(s, "idle") /\ Quiet(s)
  BY StatementQuiet
  DEF KeyStep, Del, Exists, ExpireAt, TTL, PersistRead, PersistWrite, TypeOf,
      RenameRead, RenameWrite, DBSize, Keys, RandomKey, FlushDB, FlushAll, Running, At
<1>2. WritesOver(s)
  BY DEF KeyStep, Del, Exists, ExpireAt, TTL, PersistRead, PersistWrite, TypeOf,
         RenameRead, RenameWrite, DBSize, Keys, RandomKey, FlushDB, FlushAll,
         Running, At, WritesOver, StringTxs
<1>3. CASE PersistRead(s) \/ RenameRead(s)
  <2>1. ReadsNext(s) \/ \E r : Over(s, r)
    BY <1>3, ReturnOver
    DEF PersistRead, RenameRead, ReadsNext, ReadsOther, Running, StringTxs
  <2>. QED
    BY <1>1, <1>2, <2>1 DEF Shape
<1>4. CASE ~PersistRead(s) /\ ~RenameRead(s)
  <2>1. \E r : Return(s, r)
    BY <1>4 DEF KeyStep, Del, Exists, ExpireAt, TTL, PersistWrite, TypeOf,
       RenameWrite, DBSize, Keys, RandomKey, FlushDB, FlushAll
  <2>. QED
    BY <1>1, <1>2, <2>1, ReturnOver DEF Shape
<1>. QED
  BY <1>3, <1>4

LEMMA StringStepShape ==
    ASSUME NEW s \in Session, StringStep(s)
    PROVE  Shape(s)
<1>1. ~At(s, "idle") /\ Quiet(s)
  BY StatementQuiet
  DEF StringStep, Get, StrLen, SetRead, SetWrite, IncrByRead, IncrByWrite,
      AppendRead, AppendWrite, Running, At
<1>2. WritesOver(s)
  BY DEF StringStep, Get, StrLen, SetRead, IncrByRead, AppendRead, Running, At, WritesOver
<1>3. CASE Get(s) \/ StrLen(s) \/ SetWrite(s) \/ IncrByWrite(s) \/ AppendWrite(s)
  <2>1. \E r : Return(s, r)
    BY <1>3 DEF Get, StrLen, SetWrite, IncrByWrite, AppendWrite
  <2>. QED
    BY <1>1, <1>2, <2>1, ReturnOver DEF Shape
<1>4. CASE SetRead(s)
  <2>1. ReadsNext(s) \/ \E r : Over(s, r)
    BY <1>4, ReturnOver
    DEF SetRead, ReadsNext, ReadsSet, Running, Snapshot, Target
  <2>. QED
    BY <1>1, <1>2, <2>1 DEF Shape
<1>5. CASE IncrByRead(s) \/ AppendRead(s)
  <2>1. ReadsNext(s) \/ \E r : Over(s, r)
    BY <1>5, ReturnOver
    DEF IncrByRead, AppendRead, ReadsNext, ReadsValue, Running, Snapshot
  <2>. QED
    BY <1>1, <1>2, <2>1 DEF Shape
<1>. QED
  BY <1>3, <1>4, <1>5 DEF StringStep

LEMMA EnsureMoves ==
    ASSUME NEW s, NEW ops, NEW t, Ensure(s, ops, t)
    PROVE  Moves(s)
BY DEF Ensure, Moves, Running, At

\* A round of a loop ends the call or goes on with the next member.
LEMMA RoundMoves ==
    ASSUME NEW s, At(s, "stmt"), NEW d, NEW hit, Round(s, d, hit)
    PROVE  Quiet(s) /\ (Moves(s) \/ \E r : Over(s, r))
<1>1. Quiet(s)
  BY StatementQuiet DEF Round
<1>2. (\E r : Return(s, r)) \/ (\E r : Goto(s, "stmt", r))
  BY DEF Round
<1>. QED
  BY <1>1, <1>2, ReturnOver DEF Moves, At

LEMMA ListStepShape ==
    ASSUME NEW s \in Session, ListStep(s)
    PROVE  Shape(s)
<1>1. ListOps \cap StringTxs = {}
  BY DEF ListOps, ListReads, ListPushes, ListEdits, StringTxs
<1>2. ~At(s, "idle") /\ Quiet(s) /\ WritesOver(s)
  BY <1>1, StatementQuiet DEF ListStep, LEnsure, Ensure, LRead, LRewrite, Running, At, WritesOver
<1>3. CASE LEnsure(s)
  <2>1. Moves(s)
    BY <1>3, EnsureMoves DEF LEnsure
  <2>. QED
    BY <1>2, <2>1 DEF Shape
<1>4. CASE LRead(s)
  <2>1. ReadsNext(s) \/ \E r : Over(s, r)
    BY <1>1, <1>4, ReturnOver DEF LRead, ReadsNext, ReadsOther, Running
  <2>. QED
    BY <1>2, <2>1 DEF Shape
<1>5. CASE LRewrite(s)
  BY <1>2, <1>5, ReturnOver DEF LRewrite, Shape
<1>. QED
  BY <1>3, <1>4, <1>5 DEF ListStep

\* The commands on hashes, sets and sorted sets: quiet, at a statement of their own,
\* and going on in one of the ways of Shape.
Calm(s) == /\ ~At(s, "idle") /\ Quiet(s) /\ Current(s).op \notin StringTxs
           /\ Moves(s) \/ ReadsNext(s) \/ \E r : Over(s, r)

LEMMA CalmShape ==
    ASSUME NEW s, Calm(s)
    PROVE  Shape(s)
BY DEF Calm, Shape, WritesOver, Running

LEMMA HashStepShape ==
    ASSUME NEW s \in Session, HashStep(s)
    PROVE  Shape(s)
<1>1. ~At(s, "idle") /\ Current(s).op \notin StringTxs
  BY DEF HashStep, HEnsure, Ensure, HSetCount, HSetCountLost, HSetAsks, HSetWrite, HDel,
         HGet, HExists, HGetAll, HKeys, HVals, HLen, AtMember, Running, At, StringTxs
<1>2. CASE HEnsure(s)
  BY <1>1, <1>2, EnsureMoves, StatementQuiet, CalmShape DEF HEnsure, Ensure, Calm
<1>3. CASE HSetCount(s) \/ HSetCountLost(s)
  <2>1. Quiet(s) /\ At(s, "stmt")
    BY <1>3, StatementQuiet DEF HSetCount, HSetCountLost, HSetAsks, Running
  <2>2. \E r : Goto(s, "write", r) \/ Goto(s, "stmt", r)
    BY <1>3 DEF HSetCount, HSetCountLost, HSetCounted
  <2>3. Moves(s) \/ ReadsNext(s)
    BY <1>1, <2>1, <2>2 DEF Moves, ReadsNext, ReadsOther, At
  <2>. QED
    BY <1>1, <2>1, <2>3, CalmShape DEF Calm
<1>4. CASE HDel(s)
  BY <1>1, <1>4, RoundMoves, CalmShape DEF HDel, AtMember, Running, Calm
<1>5. CASE HSetWrite(s) \/ HGet(s) \/ HExists(s) \/ HGetAll(s) \/ HKeys(s) \/ HVals(s) \/ HLen(s)
  <2>1. Quiet(s) /\ \E r : Return(s, r)
    BY <1>5, StatementQuiet DEF HSetWrite, HGet, HExists, HGetAll, HKeys, HVals, HLen
  <2>. QED
    BY <1>1, <2>1, ReturnOver, CalmShape DEF Calm
<1>. QED
  BY <1>2, <1>3, <1>4, <1>5 DEF HashStep

LEMMA SetStepShape ==
    ASSUME NEW s \in Session, SetStep(s)
    PROVE  Shape(s)
<1>1. ~At(s, "idle") /\ Current(s).op \notin StringTxs
  BY DEF SetStep, SEnsure, Ensure, SAdd, SRem, SIsMember, SCard, SMembers, SUnion, SInter,
         SDiff, AtMember, Running, At, StringTxs
<1>2. CASE SEnsure(s)
  BY <1>1, <1>2, EnsureMoves, StatementQuiet, CalmShape DEF SEnsure, Ensure, Calm
<1>3. CASE SAdd(s) \/ SRem(s)
  BY <1>1, <1>3, RoundMoves, CalmShape DEF SAdd, SRem, AtMember, Running, Calm
<1>4. CASE SIsMember(s) \/ SCard(s) \/ SMembers(s) \/ SUnion(s) \/ SInter(s) \/ SDiff(s)
  <2>1. Quiet(s) /\ \E r : Return(s, r)
    BY <1>4, StatementQuiet DEF SIsMember, SCard, SMembers, SUnion, SInter, SDiff
  <2>. QED
    BY <1>1, <2>1, ReturnOver, CalmShape DEF Calm
<1>. QED
  BY <1>2, <1>3, <1>4 DEF SetStep

LEMMA ZSetStepShape ==
    ASSUME NEW s \in Session, ZSetStep(s)
    PROVE  Shape(s)
<1>1. ~At(s, "idle") /\ Current(s).op \notin StringTxs
  BY DEF ZSetStep, ZEnsure, Ensure, ZAddCount, ZAddCountLost, ZAddAsks, ZAddWrite, ZAddReturn,
         ZIncrByRead, ZIncrByWrite, ZRem, ZScore, ZCard, ZRankCount, ZRankExists, ZRankLost,
         ZRangeCount, ZRangeRows, ZRangeLost, ZRangeByScore, ZCount, AtMember, Running, At,
         StringTxs
<1>2. CASE ZEnsure(s)
  BY <1>1, <1>2, EnsureMoves, StatementQuiet, CalmShape DEF ZEnsure, Ensure, Calm
<1>3. CASE ZAddCount(s) \/ ZAddCountLost(s) \/ ZIncrByRead(s) \/ ZRankCount(s)
  <2>1. Quiet(s) /\ At(s, "stmt")
    BY <1>3, StatementQuiet
    DEF ZAddCount, ZAddCountLost, ZAddAsks, ZIncrByRead, ZRankCount, AtMember, Running
  <2>2. \E r : Goto(s, "write", r) \/ Goto(s, "stmt", r)
    BY <1>3 DEF ZAddCount, ZAddCountLost, ZAddAsks, ZIncrByRead, ZRankCount
  <2>3. Moves(s) \/ ReadsNext(s)
    BY <1>1, <2>1, <2>2 DEF Moves, ReadsNext, ReadsOther, At
  <2>. QED
    BY <1>1, <2>1, <2>3, CalmShape DEF Calm
<1>4. CASE ZAddWrite(s)
  <2>1. Quiet(s) /\ At(s, "write") /\ \E r : Goto(s, "stmt", r)
    BY <1>4, StatementQuiet DEF ZAddWrite, Running
  <2>. QED
    BY <1>1, <2>1, CalmShape DEF Calm, Moves, At
<1>5. CASE ZRem(s)
  BY <1>1, <1>5, RoundMoves, CalmShape DEF ZRem, AtMember, Running, Calm
<1>6. CASE ZRangeCount(s)
  <2>1. Quiet(s) /\ At(s, "stmt")
    BY <1>6, StatementQuiet DEF ZRangeCount, Running
  <2>2. (\E r : Return(s, r)) \/ (\E r : Goto(s, "write", r))
    BY <1>6 DEF ZRangeCount
  <2>3. ReadsNext(s) \/ \E r : Over(s, r)
    BY <1>1, <2>1, <2>2, ReturnOver DEF ReadsNext, ReadsOther
  <2>. QED
    BY <1>1, <2>1, <2>3, CalmShape DEF Calm
<1>7. CASE ZAddReturn(s) \/ ZIncrByWrite(s) \/ ZScore(s) \/ ZCard(s) \/ ZRankExists(s)
            \/ ZRankLost(s) \/ ZRangeRows(s) \/ ZRangeLost(s) \/ ZRangeByScore(s) \/ ZCount(s)
  <2>1. Quiet(s)
    BY <1>7, StatementQuiet DEF ZAddReturn, ZIncrByWrite, ZScore, ZCard, ZRankExists,
       ZRankLost, ZRangeRows, ZRangeLost, ZRangeByScore, ZCount
  <2>2. \E r : Return(s, r)
    BY <1>7 DEF ZAddReturn, ZIncrByWrite, ZScore, ZCard, ZRankExists,
       ZRankLost, ZRangeRows, ZRangeLost, ZRangeByScore, ZCount
  <2>. QED
    BY <1>1, <2>1, <2>2, ReturnOver, CalmShape DEF Calm
<1>. QED
  BY <1>2, <1>3, <1>4, <1>5, <1>6, <1>7 DEF ZSetStep

LEMMA StepShape ==
    ASSUME NEW s \in Session, Step(s)
    PROVE  Shape(s)
BY CommonStepShape, KeyStepShape, StringStepShape, ListStepShape, HashStepShape,
   SetStepShape, ZSetStepShape DEF Step

-----------------------------------------------------------------------------
(* Lazy expiry.  The invariant says why: a call marked dead still has its  *)
(* expired row, so deleteExpired meets it.                                 *)

LazyInv(s) ==
    /\ dead[s] => calls[s] # <<>> /\ Expired(db.keys[Target(s)], now)
    /\ pc[s] \in {"assert", "ensure", "stmt", "write"} /\ Current(s).op \in LazyOps
       => ~dead[s]

\* What Mark leaves of the mark of a call that goes on.
LEMMA MarkKeeps ==
    ASSUME NEW s \in Session, NEW t \in Session, NEW f, Mark(s, f), t # s \/ ~f, dead'[t]
    PROVE  dead[t] /\ calls[t] # <<>> /\ db'.keys[Target(t)] = db.keys[Target(t)]
BY DEF Mark, Untouched

LEMMA LazyKept ==
    ASSUME NEW t \in Session, LazyInv(t), calls'[t] = calls[t], now' = now,
           dead'[t] => dead[t] /\ db'.keys[Target(t)] = db.keys[Target(t)],
           pc'[t] \in {"assert", "ensure", "stmt", "write"} =>
             pc[t] \in {"assert", "ensure", "stmt", "write"} \/ ~dead'[t]
    PROVE  LazyInv(t)'
BY DEF LazyInv, Target, Current

\* A call ends and the next one begins, or a request begins.
LEMMA LazyOver ==
    ASSUME TypeInv, \A t \in Session : LazyInv(t), NEW s \in Session, NEW r, Over(s, r)
    PROVE  \A t \in Session : LazyInv(t)'
<1>1. PICK cs, ms : Proceed(s, cs, ms, r)
  BY DEF Over
<1>2. ASSUME NEW t \in Session PROVE LazyInv(t)'
  <2>1. CASE t = s
    <3>1. /\ calls'[s] = cs /\ now' = now /\ Mark(s, TRUE)
          /\ pc'[s] = IF cs = <<>> THEN "idle" ELSE Entry(Head(cs))
      BY <1>1, ProceedMoves
    <3>2. dead'[s] => cs # <<>> /\ Expired(db'.keys[Head(cs).pk], now)
      BY <3>1 DEF Mark
    <3>3. Head(cs).op \in LazyOps => pc'[s] \in {"idle", "stamp", "expire"}
      BY <3>1 DEF Entry, AfterStamp
    <3>. QED
      BY <2>1, <3>1, <3>2, <3>3 DEF LazyInv, Target, Current
  <2>2. CASE t # s
    <3>1. calls'[t] = calls[t] /\ now' = now /\ pc'[t] = pc[t] /\ Mark(s, TRUE)
      BY <1>1, <2>2, ProceedMoves DEF Locals
    <3>2. dead'[t] => dead[t] /\ db'.keys[Target(t)] = db.keys[Target(t)]
      BY <2>2, <3>1, MarkKeeps
    <3>. QED
      BY <3>1, <3>2, LazyKept
  <2>. QED
    BY <2>1, <2>2
<1>. QED
  BY <1>2

LEMMA LazyStep ==
    ASSUME TypeInv, \A t \in Session : LazyInv(t), NEW s \in Session, Shape(s)
    PROVE  \A t \in Session : LazyInv(t)'
<1>1. CASE \E l, r : /\ Goto(s, l, r)
                     /\ pc[s] \in {"assert", "ensure", "stmt", "write"}
  <2>1. PICK l, r : Goto(s, l, r) /\ pc[s] \in {"assert", "ensure", "stmt", "write"}
    BY <1>1
  <2>2. ASSUME NEW t \in Session PROVE LazyInv(t)'
    <3>1. dead'[t] => dead[t] /\ db'.keys[Target(t)] = db.keys[Target(t)]
      BY <2>1, GotoMoves, MarkKeeps
    <3>2. CASE t = s
      <4>1. calls'[t] = calls[t] /\ now' = now
        BY <2>1, <3>2, GotoMoves
      <4>. QED
        BY <2>1, <3>1, <3>2, <4>1, LazyKept
    <3>3. CASE t # s
      <4>1. calls'[t] = calls[t] /\ now' = now /\ pc'[t] = pc[t]
        BY <2>1, <3>3, GotoMoves DEF Locals
      <4>. QED
        BY <3>1, <4>1, LazyKept
    <3>. QED
      BY <3>2, <3>3
  <2>. QED
    BY <2>2
<1>2. CASE DeleteExpired(s)
  <2>1. Goto(s, AfterExpire(Current(s)), NoRead)
    BY <1>2 DEF DeleteExpired
  <2>2. ASSUME NEW t \in Session PROVE LazyInv(t)'
    <3>1. dead'[t] => dead[t] /\ db'.keys[Target(t)] = db.keys[Target(t)]
      BY <2>1, GotoMoves, MarkKeeps
    <3>2. CASE t = s
      <4>1. calls'[s] = calls[s] /\ now' = now
        BY <2>1, GotoMoves
      <4>2. Target(s) \in Pk
        BY Running1 DEF Shape
      <4>3. dead[s] => Target(s) \in ExpiredKeys(db, {Target(s)}, now)
        BY DEF LazyInv, ExpiredKeys
      <4>4. dead[s] => db'.keys[Target(s)] = NULL /\ db.keys[Target(s)] # NULL
        BY <1>2, <4>2, <4>3 DEF DeleteExpired, Commit, DeleteKeys, LazyInv, Expired
      <4>5. ~dead'[s]
        BY <3>1, <3>2, <4>4
      <4>. QED
        BY <3>1, <3>2, <4>1, <4>5, LazyKept
    <3>3. CASE t # s
      <4>1. calls'[t] = calls[t] /\ now' = now /\ pc'[t] = pc[t]
        BY <2>1, <3>3, GotoMoves DEF Locals
      <4>. QED
        BY <3>1, <4>1, LazyKept
    <3>. QED
      BY <3>2, <3>3
  <2>. QED
    BY <2>2
<1>3. CASE StampExpiry(s)
  <2>. DEFINE c == Current(s)
              d == [c EXCEPT !.exp = Wrap(now + c.ttl)]
  <2>1. c \in Call /\ calls[s] # <<>>
    BY Running1 DEF Shape
  <2>2. calls' = [calls EXCEPT ![s] = <<d>> \o Tail(calls[s])] /\ now' = now
    BY <1>3 DEF StampExpiry
  <2>3. pc' = [pc EXCEPT ![s] = AfterStamp(c)] /\ Mark(s, FALSE)
    BY <1>3 DEF StampExpiry
  <2>4. Tail(calls[s]) \in Seq(Call)
    BY <2>1, HeadTailProperties DEF TypeInv, TypeOK
  <2>5. Head(<<d>> \o Tail(calls[s])) = d /\ <<d>> \o Tail(calls[s]) # <<>>
    BY <2>4
  <2>6. d.op = c.op /\ d.pk = c.pk
    BY <2>1 DEF Call
  <2>7. calls'[s] # <<>> /\ Head(calls'[s]) = d /\ pc'[s] = AfterStamp(c)
    BY <2>2, <2>3, <2>5 DEF TypeInv, TypeOK
  <2>8. ASSUME NEW t \in Session PROVE LazyInv(t)'
    <3>1. dead'[t] => dead[t] /\ db'.keys[Target(t)] = db.keys[Target(t)]
      BY <2>3, MarkKeeps
    <3>2. CASE t = s
      <4>1. Target(s)' = Target(s) /\ Current(s)'.op = c.op
        BY <2>6, <2>7 DEF Target, Current
      <4>2. c.op \in LazyOps => pc'[s] = "expire"
        BY <2>7 DEF AfterStamp
      <4>3. dead'[s] => Expired(db'.keys[Target(s)], now)
        BY <3>1, <3>2 DEF LazyInv
      <4>. QED
        BY <2>2, <2>7, <3>2, <4>1, <4>2, <4>3 DEF LazyInv
    <3>3. CASE t # s
      <4>1. calls'[t] = calls[t] /\ pc'[t] = pc[t]
        BY <2>2, <2>3, <3>3 DEF TypeInv, TypeOK
      <4>. QED
        BY <2>2, <3>1, <4>1, LazyKept
    <3>. QED
      BY <3>2, <3>3
  <2>. QED
    BY <2>8
<1>4. CASE \E r : Over(s, r)
  BY <1>4, LazyOver
<1>5. CASE Moves(s) \/ ReadsNext(s)
  BY <1>1, <1>5 DEF Moves, ReadsNext, ReadsValue, ReadsSet, ReadsLost, ReadsOther, At
<1>. QED
  BY <1>2, <1>3, <1>4, <1>5 DEF Shape

LEMMA LazyEnvironment ==
    ASSUME TypeInv, \A t \in Session : LazyInv(t), Environment, NEW t \in Session
    PROVE  LazyInv(t)'
<1>1. CASE Tick
  <2>1. dead' = dead /\ calls' = calls /\ pc' = pc /\ db' = db /\ now' = now + 1
    BY <1>1 DEF Tick
  <2>2. ASSUME dead[t] PROVE Expired(db.keys[Target(t)], now + 1)
    <3>1. Expired(db.keys[Target(t)], now) /\ calls[t] # <<>>
      BY <2>2 DEF LazyInv
    <3>2. ~At(t, "idle")
      BY <3>1 DEF TypeInv, TypeOK, At
    <3>3. db.keys[Target(t)] \in {NULL} \cup KeyRow
      BY <3>2, Running1
    <3>4. db.keys[Target(t)].exp \in Int /\ now \in Int
      BY <3>1, <3>3 DEF Expired, KeyRow, Time, Int64, TypeInv, TypeOK
    <3>. QED
      BY <3>1, <3>4 DEF Expired
  <2>. QED
    BY <2>1, <2>2 DEF LazyInv, Target, Current
<1>2. CASE SweepExpired
  <2>1. calls' = calls /\ pc' = pc /\ now' = now
    BY <1>2 DEF SweepExpired
  <2>2. dead'[t] => dead[t] /\ db'.keys[Target(t)] = db.keys[Target(t)]
    BY <1>2 DEF SweepExpired, Untouched
  <2>. QED
    BY <2>1, <2>2, LazyKept
<1>3. CASE Crash
  BY <1>3 DEF Crash, OfAll, LazyInv
<1>. QED
  BY <1>1, <1>2, <1>3 DEF Environment

(***************************************************************************)
(* No command acts on a key that had expired before the command started,   *)
(* on either backend, with dropped read errors, failures and crashes.      *)
(***************************************************************************)
THEOREM LazyExpiryHolds == Spec => []LazyExpiry
<1>. DEFINE Inv == TypeInv /\ \A s \in Session : LazyInv(s)
<1>1. StoreInit => Inv
  BY TypeInvInit DEF StoreInit, OfAll, LazyInv
<1>2. Inv /\ [Next]_vars => Inv'
  <2>. SUFFICES ASSUME Inv, [Next]_vars PROVE \A t \in Session : LazyInv(t)'
    BY TypeInvStep
  <2>1. CASE \E s \in Session : Step(s)
    BY <2>1, StepShape, LazyStep
  <2>2. CASE \E s \in Session, r \in Requests : Begin(s, r)
    BY <2>2, LazyOver DEF Begin, Over
  <2>3. CASE Environment
    BY <2>3, LazyEnvironment
  <2>4. CASE UNCHANGED vars
    BY <2>4 DEF vars, LazyInv, Target, Current
  <2>. QED
    BY <2>1, <2>2, <2>3, <2>4 DEF Next
<1>3. Inv => LazyExpiry
  BY DEF LazyInv, LazyExpiry
<1>. QED
  BY <1>1, <1>2, <1>3, PTL DEF Spec

-----------------------------------------------------------------------------
(* Atomic updates.  The invariant: as long as the read snapshot of a       *)
(* transaction is current, what it has read is what is committed.          *)

StillTrue(c, v) ==
    IF c.op = "Set"
    THEN /\ "NX" \in c.opt => ~Alive(db.keys[c.pk], now)
         /\ "XX" \in c.opt => HasRow(db, c.pk)
    ELSE v = db.strings[c.pk]
ReadInv(s) ==
    Running(s, StringTxs, "write") =>
      /\ seen[s].lost => ReadFaults /\ seen[s].val = NULL
      /\ ~seen[s].lost /\ s \in fresh => StillTrue(Current(s), seen[s].val)

\* A step of s leaves the locals of the others alone.
LEMMA ShapeOthers ==
    ASSUME TypeInv, NEW s \in Session, Shape(s) \/ \E r : Over(s, r),
           NEW t \in Session \ {s}
    PROVE  UNCHANGED Locals(t) /\ now' = now
<1>1. CASE \E l, r : Goto(s, l, r)
  BY <1>1, GotoMoves
<1>2. CASE \E r : Over(s, r)
  BY <1>2, ProceedMoves DEF Over
<1>3. CASE StampExpiry(s)
  BY <1>3 DEF StampExpiry, Locals, TypeInv, TypeOK
<1>. QED
  BY <1>1, <1>2, <1>3 DEF Shape, DeleteExpired, Moves, ReadsNext, ReadsValue, ReadsSet,
     ReadsLost, ReadsOther

LEMMA ReadKept ==
    ASSUME NEW s \in Session, NEW t \in Session \ {s}, ReadInv(t), UNCHANGED Locals(t),
           now' = now, Quiet(s)
    PROVE  ReadInv(t)'
BY DEF ReadInv, Locals, Quiet, StillTrue, Running, At, Current, Alive, HasRow

\* A call that ends leaves its session away from "write".
LEMMA OverReadInv ==
    ASSUME TypeInv, NEW s \in Session, NEW r, Over(s, r)
    PROVE  pc'[s] # "write"
<1>1. PICK cs, ms : Proceed(s, cs, ms, r)
  BY DEF Over
<1>. QED
  BY <1>1, ProceedMoves, EntryPC

\* What the successful reads leave in the locals.
LEMMA FreshRead ==
    ASSUME NEW x
    PROVE  /\ [NoRead EXCEPT !.val = x].lost = FALSE /\ [NoRead EXCEPT !.val = x].val = x
           /\ [NoRead EXCEPT !.exists = x].lost = FALSE
BY DEF NoRead

LEMMA ReadStep ==
    ASSUME TypeInv, NEW s \in Session, Shape(s)
    PROVE  ReadInv(s)'
<1>. DEFINE c == Current(s)
<1>1. CASE pc'[s] # "write"
  BY <1>1 DEF ReadInv, Running, At
<1>2. CASE StampExpiry(s)
  BY <1>1, <1>2, EntryPC DEF StampExpiry, TypeInv, TypeOK
<1>3. CASE DeleteExpired(s)
  BY <1>1, <1>3, EntryPC, GotoMoves DEF DeleteExpired
<1>4. CASE Moves(s)
  BY <1>1, <1>4, GotoMoves DEF Moves
<1>5. CASE \E r : Over(s, r)
  BY <1>1, <1>5, OverReadInv
<1>6. CASE ReadsNext(s)
  <2>1. CASE ReadsValue(s)
    <3>1. /\ seen'[s] = [NoRead EXCEPT !.val = db.strings[c.pk]]
          /\ calls'[s] = calls[s] /\ db' = db
      <4>1. PICK r : /\ r = [NoRead EXCEPT !.val = db.strings[c.pk]]
                     /\ db' = db /\ Goto(s, "write", r)
        BY <2>1, Zenon DEF ReadsValue, Target
      <4>. QED
        BY <4>1, GotoMoves
    <3>2. Current(s)' = c /\ c.op # "Set"
      BY <2>1, <3>1 DEF Current, ReadsValue
    <3>3. seen'[s].lost = FALSE /\ seen'[s].val = db.strings[c.pk]
      BY <3>1, FreshRead
    <3>. QED
      BY <3>1, <3>2, <3>3 DEF ReadInv, StillTrue
  <2>2. CASE ReadsSet(s)
    <3>0. PICK b : Goto(s, "write", [NoRead EXCEPT !.exists = b])
      BY <2>2 DEF ReadsSet
    <3>1. /\ seen'[s] = [NoRead EXCEPT !.exists = b]
          /\ calls'[s] = calls[s] /\ db' = db /\ now' = now
      BY <2>2, <3>0, GotoMoves DEF ReadsSet
    <3>2. Current(s)' = c /\ c.op = "Set"
      BY <2>2, <3>1 DEF Current, ReadsSet
    <3>3. StillTrue(c, seen[s].val)'
      BY <2>2, <3>1, <3>2 DEF ReadsSet, StillTrue, Target, Alive, HasRow
    <3>4. seen'[s].lost = FALSE
      BY <3>1, FreshRead
    <3>. QED
      BY <3>2, <3>3, <3>4 DEF ReadInv
  <2>3. CASE ReadsLost(s)
    <3>1. seen'[s] = LostRead /\ ReadFaults
      BY <2>3, GotoMoves DEF ReadsLost
    <3>. QED
      BY <3>1 DEF ReadInv, LostRead, NoRead
  <2>4. CASE ReadsOther(s)
    BY <2>4, GotoMoves DEF ReadsOther, ReadInv, Running, Current
  <2>. QED
    BY <1>6, <2>1, <2>2, <2>3, <2>4 DEF ReadsNext
<1>. QED
  BY <1>2, <1>3, <1>4, <1>5, <1>6 DEF Shape

LEMMA ReadEnvironment ==
    ASSUME TypeInv, NEW s \in Session, ReadInv(s), Environment
    PROVE  ReadInv(s)'
<1>1. CASE Tick
  <2>1. UNCHANGED <<db, calls, pc, seen, fresh>> /\ now' = now + 1
    BY <1>1 DEF Tick
  <2>2. ASSUME Running(s, StringTxs, "write"), ~Alive(db.keys[Target(s)], now)
        PROVE  ~Alive(db.keys[Target(s)], now + 1)
    <3>1. db.keys[Target(s)] \in {NULL} \cup KeyRow
      BY <2>2, Running1 DEF Running, At
    <3>2. db.keys[Target(s)] # NULL => db.keys[Target(s)].exp \in {NULL} \cup Int
      BY <3>1 DEF KeyRow, Time, Int64
    <3>3. now \in Int
      BY DEF TypeInv, TypeOK
    <3>. QED
      BY <2>2, <3>2, <3>3 DEF Alive
  <2>. QED
    BY <2>1, <2>2 DEF ReadInv, StillTrue, Running, At, Current, Target, HasRow
<1>2. CASE SweepExpired
  BY <1>2 DEF SweepExpired, ReadInv, Running, At, Current
<1>3. CASE Crash
  BY <1>3 DEF Crash, OfAll, ReadInv, Running, At
<1>. QED
  BY <1>1, <1>2, <1>3 DEF Environment

SnapshotInv == TypeInv /\ \A s \in Session : ReadInv(s)

LEMMA SnapshotInvInit == StoreInit => SnapshotInv
BY TypeInvInit DEF StoreInit, OfAll, SnapshotInv, ReadInv, Running, At

LEMMA SnapshotInvStep ==
    ASSUME SnapshotInv, [Next]_vars
    PROVE  SnapshotInv'
<1>. SUFFICES ASSUME NEW t \in Session PROVE ReadInv(t)'
  BY TypeInvStep DEF SnapshotInv
<1>. USE DEF SnapshotInv
<1>1. ASSUME NEW s \in Session, Step(s) PROVE ReadInv(t)'
  <2>1. Shape(s)
    BY <1>1, StepShape
  <2>2. CASE t = s
    BY <2>1, <2>2, ReadStep
  <2>3. CASE t # s
    BY <2>1, <2>3, ShapeOthers, ReadKept DEF Shape
  <2>. QED
    BY <2>2, <2>3
<1>2. ASSUME NEW s \in Session, NEW r \in Requests, Begin(s, r) PROVE ReadInv(t)'
  <2>1. Over(s, NoResult) /\ Quiet(s)
    BY <1>2, StatementQuiet DEF Begin, Over
  <2>2. CASE t = s
    BY <2>1, <2>2, OverReadInv DEF ReadInv, Running, At
  <2>3. CASE t # s
    BY <2>1, <2>3, ShapeOthers, ReadKept
  <2>. QED
    BY <2>2, <2>3
<1>3. CASE Environment
  BY <1>3, ReadEnvironment
<1>4. CASE UNCHANGED vars
  BY <1>4 DEF vars, ReadInv, StillTrue, Running, At, Current, HasRow
<1>. QED
  BY <1>1, <1>2, <1>3, <1>4 DEF Next

\* Whoever leaves "write" of a string transaction with success has written.
LEMMA Writer ==
    ASSUME TypeInv, [Next]_vars, NEW s \in Session, Running(s, StringTxs, "write"),
           pc'[s] # "write", res'[s].st = "ok"
    PROVE  IncrByWrite(s) \/ AppendWrite(s) \/ SetWrite(s)
<1>1. pc[s] = "write"
  BY DEF Running, At
<1>2. ASSUME NEW t \in Session, Step(t) \/ \E r \in Requests : Begin(t, r), t # s
      PROVE  FALSE
  <2>1. Shape(t) \/ \E r : Over(t, r)
    BY <1>2, StepShape DEF Begin, Over
  <2>2. pc'[s] = pc[s]
    BY <1>2, <2>1, ShapeOthers DEF Locals
  <2>. QED
    BY <1>1, <2>2
<1>3. ASSUME Step(s) PROVE IncrByWrite(s) \/ AppendWrite(s) \/ SetWrite(s)
  <2>1. ~Over(s, Failed)
    <3>1. Failed.st # "ok"
      BY DEF Failed, NoResult
    <3>. QED
      BY <3>1, ProceedMoves DEF Over
  <2>. QED
    BY <1>3, <2>1, StepShape DEF Shape, WritesOver
<1>4. ~\E r \in Requests : Begin(s, r)
  BY <1>1 DEF Begin, At
<1>5. ~Environment
  <2>1. NoResult.st # "ok"
    BY DEF NoResult
  <2>2. ~Crash
    BY <2>1 DEF Crash, OfAll
  <2>. QED
    BY <1>1, <2>2 DEF Environment, Tick, SweepExpired
<1>6. ~UNCHANGED vars
  BY <1>1 DEF vars
<1>. QED
  BY <1>2, <1>3, <1>4, <1>5, <1>6 DEF Next

\* The value IncrBy and Append store over the value they have read.
LEMMA ReplacedValue ==
    ASSUME NEW d \in Database, NEW p \in Pk, NEW new
    PROVE  Replaced(d, p, d.strings[p], new).strings[p] = new
<1>1. ASSUME NEW e \in Database PROVE PutString(e, p, new).strings[p] = new
  BY <1>1 DEF PutString, Database
<1>2. UpsertKeyType(d, p, "string") \in Database
  BY UpsertKeyTypeDatabase DEF Type
<1>. QED
  BY <1>1, <1>2 DEF Replaced, UpdateString

\* On SQLite a transaction that can write has read what is committed.
LEMMA ReadIsCurrent ==
    ASSUME SnapshotInv, Backend = "sqlite", NEW s \in Session,
           Running(s, {"IncrBy", "Append"}, "write"), CanReplace(s)
    PROVE  seen[s].val = db.strings[Target(s)]
<1>1. Running(s, StringTxs, "write") /\ Current(s).op # "Set"
  BY DEF Running, StringTxs
<1>2. ReadInv(s)
  BY DEF SnapshotInv
<1>. QED
  BY <1>1, <1>2 DEF ReadInv, StillTrue, CanReplace, CanWrite, Target

(***************************************************************************)
(* On SQLite INCRBY, DECRBY and APPEND are atomic for any number of        *)
(* connections and requests: a transaction whose snapshot has been         *)
(* overtaken cannot write, and a read whose error was dropped is followed  *)
(* by an INSERT that fails on an existing row.                             *)
(***************************************************************************)
THEOREM SqliteLosesNoUpdate ==
    ASSUME Backend = "sqlite"
    PROVE  Spec => NoLostUpdate
<1>. DEFINE Kept(s) ==
         LET p == Target(s) IN
         /\ Writes(s, "IncrBy") =>
              LET v    == db.strings[p]
                  next == Incremented(v, Current(s).n)
              IN  /\ v = NULL \/ IsInt(v)
                  /\ db'.strings[p] = FormatInt(next) /\ res'[s].n = next
         /\ Writes(s, "Append") =>
              LET new == Appended(db.strings[p], Current(s).val)
              IN  db'.strings[p] = new /\ res'[s].n = Len(new)
<1>1. ASSUME SnapshotInv, [Next]_vars PROVE [\A s \in Session : Kept(s)]_vars
  <2>. SUFFICES ASSUME NEW s \in Session PROVE Kept(s)
    OBVIOUS
  <2>. DEFINE p == Target(s)
              c == Current(s)
  <2>0. TypeInv
    BY <1>1 DEF SnapshotInv
  <2>1. ASSUME NEW r, Return(s, r) PROVE res'[s] = r
    BY <2>0, <2>1, ReturnOver, ProceedMoves DEF Over
  <2>2. \A n : Number(n).n = n
    BY DEF Number, Done, NoResult
  <2>3. ASSUME Running(s, {"IncrBy", "Append"}, "write")
        PROVE  db \in Database /\ p \in Pk
    BY <2>0, <2>3, Running1 DEF Running, At, TypeInv, TypeOK
  <2>4. ASSUME Writes(s, "IncrBy")
        PROVE  /\ db.strings[p] = NULL \/ IsInt(db.strings[p])
               /\ db'.strings[p] = FormatInt(Incremented(db.strings[p], c.n))
               /\ res'[s].n = Incremented(db.strings[p], c.n)
    <3>1. IncrByWrite(s)
      BY <1>1, <2>0, <2>4, Writer
      DEF Writes, Running, At, StringTxs, AppendWrite, SetWrite
    <3>2. seen[s].val = db.strings[p]
      BY <1>1, <3>1, ReadIsCurrent DEF IncrByWrite, Running
    <3>3. db.strings[p] = NULL \/ IsInt(db.strings[p])
      BY <2>0, <3>1, <3>2 DEF IncrByWrite, Running, TypeInv, Ready, WriteReady
    <3>4. db' = Replaced(db, p, db.strings[p], FormatInt(Incremented(db.strings[p], c.n)))
      BY <3>1, <3>2 DEF IncrByWrite, Commit
    <3>5. db \in Database /\ p \in Pk
      BY <2>3, <3>1 DEF IncrByWrite, Running
    <3>6. db'.strings[p] = FormatInt(Incremented(db.strings[p], c.n))
      BY <3>4, <3>5, ReplacedValue
    <3>7. res'[s] = Number(Incremented(db.strings[p], c.n))
      BY <2>1, <3>1, <3>2 DEF IncrByWrite
    <3>. QED
      BY <2>2, <3>3, <3>6, <3>7
  <2>5. ASSUME Writes(s, "Append")
        PROVE  /\ db'.strings[p] = Appended(db.strings[p], c.val)
               /\ res'[s].n = Len(Appended(db.strings[p], c.val))
    <3>1. AppendWrite(s)
      BY <1>1, <2>0, <2>5, Writer
      DEF Writes, Running, At, StringTxs, IncrByWrite, SetWrite
    <3>2. seen[s].val = db.strings[p]
      BY <1>1, <3>1, ReadIsCurrent DEF AppendWrite, Running
    <3>3. db' = Replaced(db, p, db.strings[p], Appended(db.strings[p], c.val))
      BY <3>1, <3>2 DEF AppendWrite, Commit
    <3>4. db \in Database /\ p \in Pk
      BY <2>3, <3>1 DEF AppendWrite, Running
    <3>5. db'.strings[p] = Appended(db.strings[p], c.val)
      BY <3>3, <3>4, ReplacedValue
    <3>6. res'[s] = Number(Len(Appended(db.strings[p], c.val)))
      BY <2>1, <3>1, <3>2 DEF AppendWrite
    <3>. QED
      BY <2>2, <3>5, <3>6
  <2>. QED
    BY <2>4, <2>5
<1>. QED
  BY <1>1, SnapshotInvInit, SnapshotInvStep, PTL DEF Spec, NoLostUpdate

(***************************************************************************)
(* On SQLite, as long as no read error is dropped, SET NX and SET XX store *)
(* only if their condition holds at the commit: of any number of           *)
(* connections racing for a lock key one gets it.                          *)
(***************************************************************************)
THEOREM SqliteSetIsConditional ==
    ASSUME Backend = "sqlite", ~ReadFaults
    PROVE  Spec => ConditionHolds
<1>1. ASSUME SnapshotInv, [Next]_vars, NEW s \in Session, Writes(s, "Set")
      PROVE  /\ "NX" \in Current(s).opt => ~Alive(db.keys[Target(s)], now)
             /\ "XX" \in Current(s).opt => HasRow(db, Target(s))
  <2>1. Running(s, StringTxs, "write") /\ Current(s).op = "Set"
    BY <1>1 DEF Writes, Running, StringTxs
  <2>2. SetWrite(s)
    BY <1>1, <2>1, Writer DEF SnapshotInv, Writes, Running, At, IncrByWrite, AppendWrite
  <2>3. ReadInv(s)
    BY <1>1 DEF SnapshotInv
  <2>4. ~seen[s].lost /\ s \in fresh
    BY <2>1, <2>2, <2>3 DEF ReadInv, SetWrite, CanWrite
  <2>. QED
    BY <2>1, <2>3, <2>4 DEF ReadInv, StillTrue, Target
<1>2. SnapshotInv /\ [Next]_vars =>
        [\A s \in Session : Writes(s, "Set") =>
           /\ "NX" \in Current(s).opt => ~Alive(db.keys[Target(s)], now)
           /\ "XX" \in Current(s).opt => HasRow(db, Target(s))]_vars
  BY <1>1
<1>. QED
  BY <1>2, SnapshotInvInit, SnapshotInvStep, PTL DEF Spec, ConditionHolds

-----------------------------------------------------------------------------
(* HSET.  The invariant: as long as the read snapshot is current, the      *)
(* fields counted as new are the ones asked for that are not committed.    *)

HSetInv(s) ==
    Running(s, {"HSet"}, "stmt") \/ Running(s, {"HSet"}, "write") =>
      LET P == Present(Current(s).pairs) IN
      /\ ~seen[s].lost
      /\ seen[s].asked \subseteq P
      /\ seen[s].asked = {} => seen[s].new = {}
      /\ At(s, "write") => seen[s].asked = P
      /\ s \in fresh => seen[s].new = seen[s].asked \ Present(db.hashes[Target(s)])

\* The steps of HSet's own statements.
LEMMA HSetSteps ==
    ASSUME NEW s \in Session, Step(s),
           Running(s, {"HSet"}, "stmt") \/ Running(s, {"HSet"}, "write")
    PROVE  \/ At(s, "stmt") /\ (HSetCount(s) \/ (HSetCountLost(s) /\ ReadFaults))
           \/ At(s, "write") /\ HSetWrite(s)
           \/ Over(s, Failed)
<1>1. Current(s).op = "HSet" /\ pc[s] \in {"stmt", "write"}
  BY DEF Running, At
<1>2. CASE CommonStep(s)
  BY <1>1, <1>2, ReturnOver DEF CommonStep, StampExpiry, DeleteExpired, AssertType,
     FailStatement, LoseRead, Running, At
<1>3. ~KeyStep(s)
  BY <1>1 DEF KeyStep, Del, Exists, ExpireAt, TTL, PersistRead, PersistWrite, TypeOf,
     RenameRead, RenameWrite, DBSize, Keys, RandomKey, FlushDB, FlushAll, Running, At
<1>4. ~StringStep(s)
  BY <1>1 DEF StringStep, Get, StrLen, SetRead, SetWrite, IncrByRead, IncrByWrite,
     AppendRead, AppendWrite, Running, At
<1>5. ~ListStep(s)
  BY <1>1 DEF ListStep, LEnsure, Ensure, LRead, LRewrite, Running, At, ListOps, ListReads,
     ListPushes, ListEdits
<1>6. ~SetStep(s)
  BY <1>1 DEF SetStep, SEnsure, Ensure, SAdd, SRem, SIsMember, SCard, SMembers, SUnion,
     SInter, SDiff, AtMember, Running, At
<1>7. ~ZSetStep(s)
  BY <1>1 DEF ZSetStep, ZEnsure, Ensure, ZAddCount, ZAddCountLost, ZAddAsks, ZAddWrite,
     ZAddReturn, ZIncrByRead, ZIncrByWrite, ZRem, ZScore, ZCard, ZRankCount, ZRankExists,
     ZRankLost, ZRangeCount, ZRangeRows, ZRangeLost, ZRangeByScore, ZCount, AtMember,
     Running, At
<1>8. CASE HashStep(s)
  BY <1>1, <1>8 DEF HashStep, HEnsure, Ensure, HSetCount, HSetCountLost, HSetAsks,
     HSetWrite, HDel, HGet, HExists, HGetAll, HKeys, HVals, HLen, AtMember, Running, At
<1>. QED
  BY <1>2, <1>3, <1>4, <1>5, <1>6, <1>7, <1>8 DEF Step

\* A call that begins is not at a statement of HSet.
LEMMA OverHSet ==
    ASSUME TypeInv, NEW s \in Session, NEW r, Over(s, r)
    PROVE  HSetInv(s)'
<1>1. PICK cs, ms : Proceed(s, cs, ms, r)
  BY DEF Over
<1>2. calls'[s] = cs /\ pc'[s] = IF cs = <<>> THEN "idle" ELSE Entry(Head(cs))
  BY <1>1, ProceedMoves
<1>3. "HSet" \in LazyOps
  BY DEF LazyOps, TypedOps, HashOps, HashReads
<1>4. Current(s)'.op = "HSet" => pc'[s] \in {"idle", "stamp", "expire"}
  BY <1>2, <1>3 DEF Entry, AfterStamp, Current
<1>. QED
  BY <1>4 DEF HSetInv, Running, At

\* Before its first SELECT COUNT, HSet has asked nothing.
LEMMA FreshHSet ==
    ASSUME TypeInv, NEW s \in Session, seen'[s] = NoRead, pc'[s] # "write"
    PROVE  HSetInv(s)'
<1>1. NoRead.asked = {} /\ NoRead.new = {} /\ NoRead.lost = FALSE
  BY DEF NoRead
<1>. QED
  BY <1>1 DEF HSetInv, At

\* A SELECT COUNT that works: the snapshot is current, and the fields asked for
\* are told apart by what is committed.
LEMMA CountHSet ==
    ASSUME TypeInv, NEW s \in Session, HSetInv(s), Backend = "sqlite",
           Running(s, {"HSet"}, "stmt"), HSetCount(s)
    PROVE  HSetInv(s)'
<1>. DEFINE c == Current(s)
            P == Present(c.pairs)
            h == Hash(s)
<1>1. PICK f \in Member : /\ HSetAsks(s, f) /\ Snapshot(s)
                          /\ HSetCounted(s, f, h[f] # NULL, FALSE)
  BY DEF HSetCount
<1>. DEFINE r == [seen[s] EXCEPT !.asked = @ \cup {f}, !.lost = FALSE,
                                 !.new = IF h[f] # NULL THEN @ ELSE @ \cup {f}]
            l == IF r.asked = P THEN "write" ELSE "stmt"
<1>2. seen[s] \in Read
  BY Running1 DEF Running, At
<1>3. /\ r.asked = seen[s].asked \cup {f} /\ r.lost = FALSE
      /\ r.new = IF h[f] # NULL THEN seen[s].new ELSE seen[s].new \cup {f}
  BY <1>2 DEF Read
<1>4. Goto(s, l, r)
  BY <1>1 DEF HSetCounted
<1>5. /\ pc'[s] = l /\ seen'[s] = r /\ calls'[s] = calls[s] /\ db' = db
  <2>1. db' = db
    BY <1>1 DEF Snapshot
  <2>. HIDE DEF r, l
  <2>. QED
    BY <1>4, <2>1, GotoMoves
<1>6. /\ ~seen[s].lost /\ seen[s].asked \subseteq P
      /\ seen[s].asked = {} => seen[s].new = {}
      /\ s \in fresh => seen[s].new = seen[s].asked \ Present(h)
  BY DEF HSetInv, Hash
<1>7. f \in P /\ (seen[s].asked # {} => s \in fresh)
  BY <1>1, <1>6 DEF HSetAsks, CanWrite
<1>8. seen[s].new = seen[s].asked \ Present(h)
  BY <1>6, <1>7
<1>9. f \in Present(h) <=> h[f] # NULL
  BY DEF Present
<1>10. r.new = r.asked \ Present(h) /\ r.asked \subseteq P /\ r.asked # {}
  BY <1>3, <1>6, <1>7, <1>8, <1>9
<1>11. l = "write" => r.asked = P
  OBVIOUS
<1>12. Current(s)' = c /\ Target(s)' = Target(s) /\ db'.hashes[Target(s)] = h
  BY <1>5 DEF Current, Target, Hash
<1>. HIDE DEF r, l
<1>. QED
  BY <1>3, <1>5, <1>10, <1>11, <1>12 DEF HSetInv, At

LEMMA HSetStep ==
    ASSUME TypeInv, NEW s \in Session, HSetInv(s), Backend = "sqlite", ~ReadFaults, Step(s)
    PROVE  HSetInv(s)'
<1>1. CASE Running(s, {"HSet"}, "stmt") \/ Running(s, {"HSet"}, "write")
  <2>1. CASE At(s, "stmt") /\ HSetCount(s)
    BY <1>1, <2>1, CountHSet DEF Running, At
  <2>2. CASE HSetWrite(s)
    BY <2>2, ReturnOver, OverHSet DEF HSetWrite
  <2>3. CASE Over(s, Failed)
    BY <2>3, OverHSet
  <2>. QED
    BY <1>1, <2>1, <2>2, <2>3, HSetSteps
<1>2. CASE ~(Running(s, {"HSet"}, "stmt") \/ Running(s, {"HSet"}, "write"))
  <2>1. Shape(s)
    BY StepShape
  <2>2. ASSUME NEW l, NEW r, Goto(s, l, r), Current(s).op # "HSet"
        PROVE  HSetInv(s)'
    BY <2>2, GotoMoves DEF HSetInv, Running, Current
  <2>3. "HSet" \in LazyOps /\ "HSet" \in TypedOps
    BY DEF LazyOps, TypedOps, HashOps, HashReads
  <2>4. CASE StampExpiry(s)
    <3>1. pc'[s] = AfterStamp(Current(s))
      BY <2>4 DEF StampExpiry, TypeInv, TypeOK
    <3>2. Current(s)'.op = Current(s).op
      <4>. DEFINE c == Current(s)
                  d == [c EXCEPT !.exp = Wrap(now + c.ttl)]
      <4>1. c \in Call /\ calls[s] # <<>> /\ Tail(calls[s]) \in Seq(Call)
        BY <2>1, Running1, HeadTailProperties DEF Shape, TypeInv, TypeOK
      <4>2. calls'[s] = <<d>> \o Tail(calls[s])
        BY <2>4 DEF StampExpiry, TypeInv, TypeOK
      <4>3. Head(calls'[s]) = d
        BY <4>1, <4>2
      <4>. QED
        BY <4>1, <4>3 DEF Current, Call
    <3>. QED
      BY <2>3, <3>1, <3>2 DEF AfterStamp, HSetInv, Running, At
  <2>5. CASE DeleteExpired(s)
    <3>1. Goto(s, AfterExpire(Current(s)), NoRead)
      BY <2>5 DEF DeleteExpired
    <3>2. pc'[s] = AfterExpire(Current(s)) /\ seen'[s] = NoRead
      BY <3>1, GotoMoves
    <3>. QED
      BY <3>2, FreshHSet, EntryPC
  <2>6. CASE Moves(s)
    <3>1. PICK l, r : /\ l \in {"ensure", "stmt"}
                      /\ Goto(s, l, r) /\ (pc[s] \in {"assert", "ensure"} => r = NoRead)
      BY <2>6 DEF Moves
    <3>2. CASE pc[s] \in {"assert", "ensure"}
      BY <3>1, <3>2, GotoMoves, FreshHSet
    <3>3. CASE pc[s] \in {"stmt", "write"}
      BY <1>2, <2>2, <3>1, <3>3 DEF Running, At
    <3>. QED
      BY <2>6, <3>2, <3>3 DEF Moves
  <2>7. CASE ReadsNext(s)
    <3>1. Current(s).op # "HSet"
      BY <1>2, <2>7 DEF ReadsNext, Running
    <3>2. \E l, r : Goto(s, l, r)
      BY <2>7 DEF ReadsNext, ReadsValue, ReadsSet, ReadsLost, ReadsOther
    <3>. QED
      BY <2>2, <3>1, <3>2
  <2>8. CASE \E r : Over(s, r)
    BY <2>8, OverHSet
  <2>. QED
    BY <2>1, <2>4, <2>5, <2>6, <2>7, <2>8 DEF Shape
<1>. QED
  BY <1>1, <1>2

\* What the others do: they leave the locals alone, and a change of the tables
\* ends the snapshot.
LEMMA HSetKept ==
    ASSUME NEW s \in Session, NEW t \in Session \ {s}, HSetInv(t), UNCHANGED Locals(t),
           Quiet(s)
    PROVE  HSetInv(t)'
BY DEF HSetInv, Locals, Quiet, Running, At, Current, Target

AllHSetInv == TypeInv /\ \A s \in Session : HSetInv(s)

LEMMA AllHSetInvStep ==
    ASSUME AllHSetInv, [Next]_vars, Backend = "sqlite", ~ReadFaults
    PROVE  AllHSetInv'
<1>. SUFFICES ASSUME NEW t \in Session PROVE HSetInv(t)'
  BY TypeInvStep DEF AllHSetInv
<1>. USE DEF AllHSetInv
<1>1. ASSUME NEW s \in Session, Step(s) PROVE HSetInv(t)'
  <2>1. CASE t = s
    BY <1>1, <2>1, HSetStep
  <2>2. CASE t # s
    BY <1>1, <2>2, StepShape, ShapeOthers, HSetKept DEF Shape
  <2>. QED
    BY <2>1, <2>2
<1>2. ASSUME NEW s \in Session, NEW r \in Requests, Begin(s, r) PROVE HSetInv(t)'
  <2>1. Over(s, NoResult) /\ Quiet(s)
    BY <1>2, StatementQuiet DEF Begin, Over
  <2>2. CASE t = s
    BY <2>1, <2>2, OverHSet
  <2>3. CASE t # s
    BY <2>1, <2>3, ShapeOthers, HSetKept
  <2>. QED
    BY <2>2, <2>3
<1>3. CASE Environment
  <2>1. CASE Tick
    BY <2>1 DEF Tick, HSetInv, Running, At, Current, Target
  <2>2. CASE SweepExpired
    BY <2>2 DEF SweepExpired, HSetInv, Running, At, Current, Target
  <2>3. CASE Crash
    BY <2>3 DEF Crash, OfAll, HSetInv, Running, At
  <2>. QED
    BY <1>3, <2>1, <2>2, <2>3 DEF Environment
<1>4. CASE UNCHANGED vars
  BY <1>4 DEF vars, HSetInv, Running, At, Current, Target
<1>. QED
  BY <1>1, <1>2, <1>3, <1>4 DEF Next

(***************************************************************************)
(* On SQLite, as long as no read error is dropped, HSET is atomic for any  *)
(* number of connections, pairs and requests: it stores all its pairs at   *)
(* once and answers the number of fields that were not there.              *)
(***************************************************************************)
THEOREM SqliteHSetIsExact ==
    ASSUME Backend = "sqlite", ~ReadFaults
    PROVE  Spec => HSetIsExact
<1>. DEFINE Exact(s) ==
         Writes(s, "HSet") =>
           LET h == db.hashes[Target(s)]
               pairs == Current(s).pairs
           IN  /\ db'.hashes[Target(s)] = Overlay(h, pairs)
               /\ res'[s].n = Cardinality(Present(pairs) \ Present(h))
<1>1. StoreInit => AllHSetInv
  BY TypeInvInit DEF StoreInit, OfAll, AllHSetInv, HSetInv, Running, At
<1>2. ASSUME AllHSetInv, [Next]_vars, NEW s \in Session, Writes(s, "HSet")
      PROVE  /\ db'.hashes[Target(s)] = Overlay(db.hashes[Target(s)], Current(s).pairs)
             /\ res'[s].n = Cardinality(Present(Current(s).pairs)
                                        \ Present(db.hashes[Target(s)]))
  <2>0. TypeInv /\ HSetInv(s)
    BY <1>2 DEF AllHSetInv
  <2>1. Running(s, {"HSet"}, "write") /\ pc[s] = "write" /\ pc'[s] # "write"
        /\ res'[s].st = "ok"
    BY <1>2 DEF Writes, Running, At
  <2>2. HSetWrite(s)
    <3>1. ASSUME NEW t \in Session, Step(t) \/ \E r \in Requests : Begin(t, r), t # s
          PROVE  FALSE
      BY <2>0, <2>1, <3>1, StepShape, ShapeOthers DEF Begin, Over, Locals
    <3>2. ASSUME Step(s) PROVE HSetWrite(s)
      <4>1. Failed.st # "ok"
        BY DEF Failed, NoResult
      <4>2. ~Over(s, Failed)
        BY <2>0, <2>1, <4>1, ProceedMoves DEF Over
      <4>. QED
        BY <2>1, <3>2, <4>2, HSetSteps DEF At
    <3>3. ~\E r \in Requests : Begin(s, r)
      BY <2>1 DEF Begin, At
    <3>4. ~Environment
      BY <2>1 DEF Environment, Tick, SweepExpired, Crash, OfAll, NoResult
    <3>5. ~UNCHANGED vars
      BY <2>1 DEF vars
    <3>. QED
      BY <1>2, <3>1, <3>2, <3>3, <3>4, <3>5 DEF Next
  <2>3. seen[s].new = Present(Current(s).pairs) \ Present(db.hashes[Target(s)])
    BY <2>0, <2>1, <2>2 DEF HSetInv, At, HSetWrite, CanWrite
  <2>4. res'[s] = Number(Cardinality(seen[s].new))
    <3>1. PICK r : r = Number(Cardinality(seen[s].new)) /\ Return(s, r)
      BY <2>2 DEF HSetWrite
    <3>2. PICK cs, ms : Proceed(s, cs, ms, r)
      BY <3>1, ReturnOver DEF Over
    <3>3. res'[s] = r
      BY <2>0, <3>2, ProceedMoves
    <3>. QED
      BY <3>1, <3>3
  <2>5. db' = [db EXCEPT !.hashes[Target(s)] =
                 Overlay(db.hashes[Target(s)], Current(s).pairs)]
    BY <2>2 DEF HSetWrite, Commit, Hash
  <2>6. db \in Database /\ Target(s) \in Pk
    BY <2>0, <2>1, Running1 DEF TypeInv, TypeOK, At
  <2>7. \A n : Number(n).n = n
    BY DEF Number, Done, NoResult
  <2>8. db'.hashes[Target(s)] = Overlay(db.hashes[Target(s)], Current(s).pairs)
    BY <2>5, <2>6 DEF Database
  <2>. QED
    BY <2>3, <2>4, <2>7, <2>8
<1>3. AllHSetInv /\ [Next]_vars => [\A s \in Session : Exact(s)]_vars
  BY <1>2
<1>4. AllHSetInv /\ [Next]_vars => AllHSetInv'
  BY AllHSetInvStep
<1>. QED
  BY <1>1, <1>3, <1>4, PTL DEF Spec, HSetIsExact

-----------------------------------------------------------------------------
(* ZADD has no transaction; what protects its conditions are the statement *)
(* kinds: INSERT fails on a member that is there, UPDATE adds none.        *)

\* A step of s out of the write of ZAdd is that write, or changes nothing.
LEMMA ZAddSteps ==
    ASSUME NEW s \in Session, Step(s), Running(s, {"ZAdd"}, "write")
    PROVE  ZAddWrite(s) \/ db' = db
<1>1. Current(s).op = "ZAdd" /\ pc[s] = "write"
  BY DEF Running, At
<1>2. CASE CommonStep(s)
  BY <1>1, <1>2 DEF CommonStep, StampExpiry, DeleteExpired, AssertType, FailStatement,
     LoseRead, Running, At
<1>3. ~KeyStep(s)
  BY <1>1 DEF KeyStep, Del, Exists, ExpireAt, TTL, PersistRead, PersistWrite, TypeOf,
     RenameRead, RenameWrite, DBSize, Keys, RandomKey, FlushDB, FlushAll, Running, At
<1>4. ~StringStep(s)
  BY <1>1 DEF StringStep, Get, StrLen, SetRead, SetWrite, IncrByRead, IncrByWrite,
     AppendRead, AppendWrite, Running, At
<1>5. ~ListStep(s)
  BY <1>1 DEF ListStep, LEnsure, Ensure, LRead, LRewrite, Running, At, ListOps, ListReads,
     ListPushes, ListEdits
<1>6. ~SetStep(s)
  BY <1>1 DEF SetStep, SEnsure, Ensure, SAdd, SRem, SIsMember, SCard, SMembers, SUnion,
     SInter, SDiff, AtMember, Running, At
<1>7. ~HashStep(s)
  BY <1>1 DEF HashStep, HEnsure, Ensure, HSetCount, HSetCountLost, HSetAsks,
     HSetWrite, HDel, HGet, HExists, HGetAll, HKeys, HVals, HLen, AtMember, Running, At
<1>8. CASE ZSetStep(s)
  BY <1>1, <1>8 DEF ZSetStep, ZEnsure, Ensure, ZAddCount, ZAddCountLost, ZAddAsks, ZAddReturn,
     ZIncrByRead, ZIncrByWrite, ZRem, ZScore, ZCard, ZRankCount, ZRankExists,
     ZRankLost, ZRangeCount, ZRangeRows, ZRangeLost, ZRangeByScore, ZCount, AtMember,
     Running, At
<1>. QED
  BY <1>2, <1>3, <1>4, <1>5, <1>6, <1>7, <1>8 DEF Step

(***************************************************************************)
(* ZADD NX changes no score and ZADD XX adds no member, on either backend, *)
(* whatever comes between the COUNT and the write of a member, and also    *)
(* when the COUNT fails.                                                   *)
(***************************************************************************)
THEOREM ZAddKeepsItsCondition == Spec => ZAddIsConditional
<1>. DEFINE Keeps(s) ==
         Running(s, {"ZAdd"}, "write") /\ pc'[s] # pc[s] =>
           LET z == db.zsets[Target(s)]
           IN  \A m \in Member :
                 ("NX" \in Current(s).opt /\ z[m] # NULL)
                 \/ ("XX" \in Current(s).opt /\ z[m] = NULL)
                 => db'.zsets[Target(s)][m] = z[m]
<1>1. ASSUME TypeInv, [Next]_vars, NEW s \in Session PROVE Keeps(s)
  <2>. SUFFICES ASSUME Running(s, {"ZAdd"}, "write"), pc'[s] # pc[s], NEW m \in Member,
                       \/ "NX" \in Current(s).opt /\ db.zsets[Target(s)][m] # NULL
                       \/ "XX" \in Current(s).opt /\ db.zsets[Target(s)][m] = NULL
                PROVE  db'.zsets[Target(s)][m] = db.zsets[Target(s)][m]
    OBVIOUS
  <2>. DEFINE p == Target(s)
              n == seen[s].mem
              x == Current(s).scores[n]
  <2>1. CASE db' = db
    BY <2>1
  <2>2. CASE ZAddWrite(s)
    <3>1. ZAddReady(Current(s), seen[s])
      BY <1>1 DEF TypeInv, Ready, WriteReady, Running
    <3>2. p \in Pk /\ db \in Database /\ db.zsets[p] \in Scores
      BY <1>1, Running1 DEF Running, At, TypeInv, TypeOK
    <3>3. WithScore(db, p, n, x).zsets[p] = [db.zsets[p] EXCEPT ![n] = x]
      BY <3>2 DEF WithScore, Database
    <3>4. m # n => WithScore(db, p, n, x).zsets[p][m] = db.zsets[p][m]
      BY <3>2, <3>3 DEF Scores
    <3>5. CASE ~seen[s].exists /\ CanInsert(s, n) /\ db' = WithScore(db, p, n, x)
      <4>1. db.zsets[p][n] = NULL /\ "XX" \notin Current(s).opt
        BY <3>1, <3>5 DEF CanInsert, ZSet, ZAddReady
      <4>. QED
        BY <3>4, <3>5, <4>1
    <3>6. CASE seen[s].exists /\ db' = UpdateScore(db, p, n, x)
      <4>1. "NX" \notin Current(s).opt
        BY <3>1, <3>6 DEF ZAddReady
      <4>. QED
        BY <3>4, <3>6, <4>1 DEF UpdateScore
    <3>. QED
      BY <2>2, <3>5, <3>6 DEF ZAddWrite, Commit
  <2>3. ASSUME NEW t \in Session, Step(t) \/ \E r \in Requests : Begin(t, r), t # s
        PROVE  FALSE
    BY <1>1, <2>3, StepShape, ShapeOthers DEF Begin, Over, Locals
  <2>4. ~\E r \in Requests : Begin(s, r)
    BY DEF Begin, Running, At
  <2>5. Environment => db' = db
    BY DEF Environment, Tick, SweepExpired, Crash
  <2>6. Step(s) => ZAddWrite(s) \/ db' = db
    BY ZAddSteps
  <2>. QED
    BY <1>1, <2>1, <2>2, <2>3, <2>4, <2>5, <2>6 DEF Next, vars
<1>2. TypeInv /\ [Next]_vars => [\A s \in Session : Keeps(s)]_vars
  BY <1>1
<1>3. TypeInv /\ [Next]_vars => TypeInv'
  BY TypeInvStep
<1>. QED
  BY <1>2, <1>3, TypeInvInit, PTL DEF Spec, ZAddIsConditional

-----------------------------------------------------------------------------
(* The calls under way are calls of the requests.                          *)

\* Every call of session s, running or to come, is in G.
CallsIn(s, G) == calls[s] \in Seq(G) /\ cmds[s] \in Seq(Seq(G))

\* The time StampExpiry puts into a call takes it out of no such set.
Stampable(G) == \A c \in G : \A e \in Int64 : [c EXCEPT !.exp = e] \in G

\* Where a step of s leads.
Kind(s) == \/ StampExpiry(s)
           \/ \E l, r : Goto(s, l, r)
           \/ \E r : Return(s, r) \/ EndCommand(s, r)

LEMMA StepKind ==
    ASSUME NEW s \in Session, Step(s)
    PROVE  Kind(s)
<1>1. CASE CommonStep(s)
  BY <1>1 DEF Kind, CommonStep, DeleteExpired, AssertType, FailStatement, LoseRead
<1>2. CASE KeyStep(s)
  BY <1>2 DEF Kind, KeyStep, Del, Exists, ExpireAt, TTL, PersistRead, PersistWrite, TypeOf,
     RenameRead, RenameWrite, DBSize, Keys, RandomKey, FlushDB, FlushAll
<1>3. CASE StringStep(s)
  BY <1>3 DEF Kind, StringStep, Get, StrLen, SetRead, SetWrite, IncrByRead, IncrByWrite,
     AppendRead, AppendWrite
<1>4. CASE ListStep(s)
  BY <1>4 DEF Kind, ListStep, LEnsure, Ensure, LRead, LRewrite
<1>5. CASE HashStep(s)
  BY <1>5 DEF Kind, HashStep, HEnsure, Ensure, HSetCount, HSetCountLost, HSetCounted,
     HSetWrite, HDel, Round, HGet, HExists, HGetAll, HKeys, HVals, HLen
<1>6. CASE SetStep(s)
  BY <1>6 DEF Kind, SetStep, SEnsure, Ensure, SAdd, SRem, Round, SIsMember, SCard,
     SMembers, SUnion, SInter, SDiff
<1>7. CASE ZSetStep(s)
  BY <1>7 DEF Kind, ZSetStep, ZEnsure, Ensure, ZAddCount, ZAddCountLost, ZAddAsks,
     ZAddWrite, ZAddReturn, ZIncrByRead, ZIncrByWrite, ZRem, Round, ZScore, ZCard,
     ZRankCount, ZRankExists, ZRankLost, ZRangeCount, ZRangeRows, ZRangeLost,
     ZRangeByScore, ZCount
<1>. QED
  BY <1>1, <1>2, <1>3, <1>4, <1>5, <1>6, <1>7 DEF Step

LEMMA ProceedCalls ==
    ASSUME TypeInv, NEW G, \A t \in Session : CallsIn(t, G), NEW s \in Session,
           NEW cs \in Seq(G), NEW ms \in Seq(Seq(G)), NEW r, Proceed(s, cs, ms, r)
    PROVE  \A t \in Session : CallsIn(t, G)'
BY DEF Proceed, CallsIn, TypeInv, TypeOK

LEMMA EndCommandCalls ==
    ASSUME TypeInv, NEW G, \A t \in Session : CallsIn(t, G), NEW s \in Session, NEW r,
           EndCommand(s, r)
    PROVE  \A t \in Session : CallsIn(t, G)'
<1>1. CASE cmds[s] = <<>>
  <2>1. Proceed(s, <<>>, <<>>, r) /\ <<>> \in Seq(G) /\ <<>> \in Seq(Seq(G))
    BY <1>1 DEF EndCommand
  <2>. QED
    BY <2>1, ProceedCalls
<1>2. CASE cmds[s] # <<>>
  <2>1. Proceed(s, Head(cmds[s]), Tail(cmds[s]), r)
    BY <1>2 DEF EndCommand
  <2>2. Head(cmds[s]) \in Seq(G) /\ Tail(cmds[s]) \in Seq(Seq(G))
    BY <1>2, HeadTailProperties DEF CallsIn
  <2>. QED
    BY <2>1, <2>2, ProceedCalls
<1>. QED
  BY <1>1, <1>2

LEMMA StepCalls ==
    ASSUME TypeInv, NEW G, Stampable(G), \A t \in Session : CallsIn(t, G),
           NEW s \in Session, Step(s)
    PROVE  \A t \in Session : CallsIn(t, G)'
<1>1. CASE StampExpiry(s)
  <2>. DEFINE c == Current(s)
              d == [c EXCEPT !.exp = Wrap(now + c.ttl)]
              cs == <<d>> \o Tail(calls[s])
  <2>1. calls[s] \in Seq(G) /\ calls[s] # <<>>
    BY <1>1 DEF StampExpiry, At, CallsIn, TypeInv, TypeOK
  <2>2. c \in G /\ Tail(calls[s]) \in Seq(G)
    BY <2>1, HeadTailProperties DEF Current
  <2>3. d \in G
    <3>1. ~At(s, "idle") /\ At(s, "stamp")
      BY <1>1 DEF StampExpiry, At
    <3>2. c \in Call /\ c.ttl # NULL
      BY <3>1, Running1 DEF TypeInv, Ready
    <3>3. c.ttl \in Int64 /\ now \in Int64
      BY <3>2, SessionAssumption, MaxIntAssumption
      DEF Call, Time, TypeInv, TypeOK, Int64, MinInt
    <3>4. Wrap(now + c.ttl) \in Int64
      BY <3>3, WrapInInt64
    <3>. QED
      BY <2>2, <3>4 DEF Stampable
  <2>4. calls' = [calls EXCEPT ![s] = cs] /\ cmds' = cmds
    BY <1>1 DEF StampExpiry
  <2>. HIDE DEF d
  <2>5. cs \in Seq(G)
    BY <2>2, <2>3
  <2>. HIDE DEF cs
  <2>. QED
    BY <2>4, <2>5 DEF CallsIn, TypeInv, TypeOK
<1>2. CASE \E l, r : Goto(s, l, r)
  BY <1>2 DEF Goto, CallsIn
<1>3. CASE \E r : EndCommand(s, r)
  BY <1>3, EndCommandCalls
<1>4. CASE \E r : Return(s, r)
  <2>1. PICK r : Return(s, r)
    BY <1>4
  <2>2. CASE Len(calls[s]) > 1
    <3>1. Proceed(s, Tail(calls[s]), cmds[s], r)
      BY <2>1, <2>2 DEF Return
    <3>2. Tail(calls[s]) \in Seq(G) /\ cmds[s] \in Seq(Seq(G))
      BY <2>2 DEF CallsIn
    <3>. QED
      BY <3>1, <3>2, ProceedCalls
  <2>3. CASE ~(Len(calls[s]) > 1)
    BY <2>1, <2>3, EndCommandCalls DEF Return
  <2>. QED
    BY <2>2, <2>3
<1>. QED
  BY <1>1, <1>2, <1>3, <1>4, StepKind DEF Kind

LEMMA ElementsIn ==
    ASSUME NEW T, NEW q \in Seq(T), NEW G, \A i \in DOMAIN q : q[i] \in G
    PROVE  q \in Seq(G)
OBVIOUS

\* What is true of the calls of every request is true of every call under way.
RequestsIn(G) == \A r \in Requests : \A i \in DOMAIN r : \A j \in DOMAIN r[i] : r[i][j] \in G

LEMMA BeginCalls ==
    ASSUME TypeInv, NEW G, RequestsIn(G), \A t \in Session : CallsIn(t, G),
           NEW s \in Session, NEW r \in Requests, Begin(s, r)
    PROVE  \A t \in Session : CallsIn(t, G)'
<1>1. r \in Seq(Command) /\ r # <<>>
  BY RequestsAssumption DEF Request
<1>2. ASSUME NEW i \in DOMAIN r PROVE r[i] \in Seq(G)
  <2>1. r[i] \in Seq(Call)
    BY <1>1 DEF Command
  <2>. QED
    BY <2>1, ElementsIn DEF RequestsIn
<1>3. r \in Seq(Seq(G))
  BY <1>1, <1>2, ElementsIn
<1>4. Head(r) \in Seq(G) /\ Tail(r) \in Seq(Seq(G))
  BY <1>1, <1>3, HeadTailProperties
<1>. QED
  BY <1>4, ProceedCalls DEF Begin

LEMMA CallsInNext ==
    ASSUME TypeInv, NEW G, Stampable(G), RequestsIn(G), \A t \in Session : CallsIn(t, G),
           [Next]_vars
    PROVE  \A t \in Session : CallsIn(t, G)'
<1>1. CASE \E s \in Session : Step(s)
  BY <1>1, StepCalls
<1>2. CASE \E s \in Session : \E r \in Requests : Begin(s, r)
  BY <1>2, BeginCalls
<1>3. CASE Crash
  BY <1>3 DEF Crash, OfAll, CallsIn
<1>4. CASE UNCHANGED <<calls, cmds>>
  BY <1>4 DEF CallsIn
<1>. QED
  BY <1>1, <1>2, <1>3, <1>4 DEF Next, Environment, Tick, SweepExpired, vars

-----------------------------------------------------------------------------
(* The rows of keys a statement takes or changes.                          *)

\* From d to e no row goes, or only those of P; only rows of P change.
Takes(d, e, P)   == \A p \in Pk : HasRow(d, p) /\ ~HasRow(e, p) => p \in P
Changes(d, e, P) == \A p \in Pk : e.keys[p] # d.keys[p] => p \in P

LEMMA DeleteKeysRows ==
    ASSUME NEW d, NEW P
    PROVE  Takes(d, DeleteKeys(d, P), P) /\ Changes(d, DeleteKeys(d, P), P)
BY DEF Takes, Changes, DeleteKeys, HasRow

LEMMA UpsertKeyRows ==
    ASSUME NEW d \in Database, NEW p \in Pk, NEW t \in Type, NEW e \in Time
    PROVE  /\ Takes(d, UpsertKey(d, p, t, e), {})
           /\ Changes(d, UpsertKey(d, p, t, e), {p})
           /\ HasRow(UpsertKey(d, p, t, e), p)
<1>1. [type |-> t, exp |-> e] # NULL
  BY RowAssumption DEF KeyRow
<1>. QED
  BY <1>1 DEF Takes, Changes, UpsertKey, HasRow, Database

\* A statement on the data rows only.
LEMMA SameKeys ==
    ASSUME NEW d, NEW e, NEW P, e.keys = d.keys
    PROVE  Takes(d, e, P) /\ Changes(d, e, P)
BY DEF Takes, Changes, HasRow

LEMMA EnsureKeyRows ==
    ASSUME NEW d \in Database, NEW p \in Pk, NEW t \in Type
    PROVE  Takes(d, EnsureKey(d, p, t), {}) /\ Changes(d, EnsureKey(d, p, t), {p})
<1>1. NULL \in Time
  BY DEF Time
<1>2. EnsureKey(d, p, t) = d \/ EnsureKey(d, p, t) = UpsertKey(d, p, t, NULL)
  BY DEF EnsureKey, UpsertKey
<1>. QED
  BY <1>1, <1>2, UpsertKeyRows, SameKeys

LEMMA UpsertKeyTypeRows ==
    ASSUME NEW d \in Database, NEW p \in Pk, NEW t \in Type
    PROVE  /\ Takes(d, UpsertKeyType(d, p, t), {})
           /\ Changes(d, UpsertKeyType(d, p, t), {p})
<1>. DEFINE e == IF HasRow(d, p) THEN d.keys[p].exp ELSE NULL
<1>1. d.keys[p] # NULL => d.keys[p].exp \in Time
  BY DEF Database, KeyRow
<1>2. e \in Time
  BY <1>1 DEF HasRow, Time
<1>3. UpsertKeyType(d, p, t) = UpsertKey(d, p, t, e)
  BY DEF UpsertKeyType, UpsertKey
<1>. QED
  BY <1>2, <1>3, UpsertKeyRows

LEMMA UpdateExpiryRows ==
    ASSUME NEW d \in Database, NEW p \in Pk, NEW e \in Time
    PROVE  Takes(d, UpdateExpiry(d, p, e), {}) /\ Changes(d, UpdateExpiry(d, p, e), {p})
<1>1. CASE HasRow(d, p)
  <2>1. d.keys[p] \in KeyRow
    BY <1>1 DEF HasRow, Database
  <2>2. [d.keys[p] EXCEPT !.exp = e] \in KeyRow
    BY <2>1 DEF KeyRow
  <2>3. [d.keys[p] EXCEPT !.exp = e] # NULL
    BY <2>2, RowAssumption
  <2>4. UpdateExpiry(d, p, e) = [d EXCEPT !.keys[p] = [d.keys[p] EXCEPT !.exp = e]]
    BY <1>1 DEF UpdateExpiry, Database
  <2>. QED
    BY <2>3, <2>4 DEF Takes, Changes, HasRow, Database
<1>2. CASE ~HasRow(d, p)
  BY <1>2, SameKeys DEF UpdateExpiry
<1>. QED
  BY <1>1, <1>2

LEMMA ReplacedRows ==
    ASSUME NEW d \in Database, NEW p \in Pk, NEW old, NEW new
    PROVE  Takes(d, Replaced(d, p, old, new), {}) /\ Changes(d, Replaced(d, p, old, new), {p})
<1>1. \A e : PutString(e, p, new).keys = e.keys
  BY DEF PutString
<1>2. CASE old # NULL
  BY <1>1, <1>2, SameKeys DEF Replaced, UpdateString
<1>3. CASE old = NULL
  <2>1. "string" \in Type
    BY DEF Type
  <2>2. /\ Takes(d, UpsertKeyType(d, p, "string"), {})
        /\ Changes(d, UpsertKeyType(d, p, "string"), {p})
    BY <2>1, UpsertKeyTypeRows
  <2>. QED
    BY <1>1, <1>3, <2>2 DEF Replaced, Takes, Changes, HasRow
<1>. QED
  BY <1>2, <1>3

\* The destination keeps a row, the source does not.
LEMMA RenamedRows ==
    ASSUME NEW d \in Database, NEW row \in KeyRow, NEW p \in Pk, NEW q \in Pk
    PROVE  Takes(d, Renamed(d, row, p, q), {p}) /\ Changes(d, Renamed(d, row, p, q), {p, q})
<1>. DEFINE d1 == DeleteKeys(d, {q})
            d2 == UpsertKey(d1, q, row.type, row.exp)
            d3 == CopyData(d2, row.type, p, q)
<1>1. row.type \in Type /\ row.exp \in Time
  BY DEF KeyRow
<1>2. d1 \in Database
  BY DeleteKeysDatabase
<1>3. Takes(d1, d2, {}) /\ Changes(d1, d2, {q}) /\ HasRow(d2, q)
  BY <1>1, <1>2, UpsertKeyRows
<1>4. d3.keys = d2.keys
  BY <1>1 DEF CopyData, Type
<1>5. Takes(d, d1, {q}) /\ Changes(d, d1, {q})
  BY DeleteKeysRows
<1>. HIDE DEF d1, d2, d3
<1>6. Takes(d3, DeleteKeys(d3, {p}), {p}) /\ Changes(d3, DeleteKeys(d3, {p}), {p})
  BY DeleteKeysRows
<1>7. Renamed(d, row, p, q) = DeleteKeys(d3, {p})
  BY DEF Renamed, d1, d2, d3
<1>. QED
  BY <1>3, <1>4, <1>5, <1>6, <1>7 DEF Takes, Changes, HasRow

\* Only an empty list takes the row.
LEMMA RewrittenRows ==
    ASSUME NEW d \in Database, NEW p \in Pk, NEW l
    PROVE  /\ Takes(d, Rewritten(d, p, l), {p}) /\ Changes(d, Rewritten(d, p, l), {p})
           /\ l # <<>> => Takes(d, Rewritten(d, p, l), {})
<1>1. CASE l = <<>>
  BY <1>1, DeleteKeysRows DEF Rewritten
<1>2. CASE l # <<>>
  <2>1. Rewritten(d, p, l).keys = d.keys
    BY <1>2 DEF Rewritten
  <2>. QED
    BY <1>2, <2>1, SameKeys
<1>. QED
  BY <1>1, <1>2

-----------------------------------------------------------------------------
(* The rows of keys a step takes or changes.                               *)

\* The calls the handlers make.
HandlerCall == {c \in Call : /\ c.op \in ListPushes => c.vals # <<>>
                             /\ c.op = "Rename" => c.dst[2] = c.pk[2]}

LEMMA HandlerCallFacts == Stampable(HandlerCall) /\ RequestsIn(HandlerCall)
<1>1. ASSUME NEW c \in HandlerCall, NEW e \in Int64
      PROVE  [c EXCEPT !.exp = e] \in HandlerCall
  <2>1. c \in Call /\ e \in Time
    BY DEF HandlerCall, Time
  <2>2. /\ [c EXCEPT !.exp = e] \in Call
        /\ [c EXCEPT !.exp = e].op = c.op /\ [c EXCEPT !.exp = e].vals = c.vals
        /\ [c EXCEPT !.exp = e].dst = c.dst /\ [c EXCEPT !.exp = e].pk = c.pk
    BY <2>1 DEF Call
  <2>. QED
    BY <2>2 DEF HandlerCall
<1>2. RequestsIn(HandlerCall)
  <2>. SUFFICES ASSUME NEW r \in Requests, NEW i \in DOMAIN r, NEW j \in DOMAIN r[i]
                PROVE  r[i][j] \in HandlerCall
    BY DEF RequestsIn
  <2>1. r \in Seq(Seq(Call))
    BY RequestsAssumption DEF Request, Command
  <2>2. r[i] \in Seq(Call)
    BY <2>1
  <2>3. r[i][j] \in Call
    BY <2>2
  <2>. QED
    BY <2>3, RequestsAssumption DEF HandlerCall
<1>. QED
  BY <1>1, <1>2 DEF Stampable

\* A row goes that had expired, or s takes it.
Spares(s) == \A p \in Pk : HasRow(db, p) /\ ~HasRow(db', p) =>
                Expired(db.keys[p], now) \/ (Steps(s) /\ Removes(s, p))
\* The rows that change are of one database, or s takes all.
Stays(s) == \/ Running(s, {"FlushAll"}, "stmt") /\ Steps(s)
            \/ \A p \in Pk : db'.keys[p] # db.keys[p] => p[2] = Target(s)[2]

LEMMA ShorterTail ==
    ASSUME NEW S, NEW q \in Seq(S), q # <<>>
    PROVE  Tail(q) # q
<1>1. Len(Tail(q)) = Len(q) - 1 /\ Len(q) \in Nat
  OBVIOUS
<1>2. \A n \in Nat : n - 1 # n
  OBVIOUS
<1>3. Len(Tail(q)) # Len(q)
  BY <1>1, <1>2, Zenon
<1>. QED
  BY <1>3, Zenon

LEMMA ReturnSteps ==
    ASSUME TypeInv, NEW s \in Session, ~At(s, "idle"), NEW r, Return(s, r)
    PROVE  Steps(s)
<1>1. calls[s] \in Seq(Call) /\ calls[s] # <<>> /\ cmds[s] \in Seq(Command)
  BY DEF TypeInv, TypeOK, At
<1>2. \A cs, ms : Proceed(s, cs, ms, r) => calls'[s] = cs /\ cmds'[s] = ms
  BY DEF Proceed, TypeInv, TypeOK
<1>3. CASE Len(calls[s]) > 1
  <2>1. calls'[s] = Tail(calls[s])
    BY <1>2, <1>3 DEF Return
  <2>2. Tail(calls[s]) # calls[s]
    BY <1>1, ShorterTail
  <2>. QED
    BY <2>1, <2>2 DEF Steps
<1>4. CASE ~(Len(calls[s]) > 1) /\ cmds[s] = <<>>
  <2>1. calls'[s] = <<>>
    BY <1>2, <1>4 DEF Return, EndCommand
  <2>. QED
    BY <1>1, <2>1 DEF Steps
<1>5. CASE ~(Len(calls[s]) > 1) /\ cmds[s] # <<>>
  <2>1. cmds'[s] = Tail(cmds[s])
    BY <1>2, <1>5 DEF Return, EndCommand
  <2>2. Tail(cmds[s]) # cmds[s]
    BY <1>1, <1>5, ShorterTail
  <2>. QED
    BY <2>1, <2>2 DEF Steps
<1>. QED
  BY <1>3, <1>4, <1>5

\* A statement that takes no row and changes none but the one of the call's key.
Gentle(s) == Takes(db, db', {}) /\ Changes(db, db', {Target(s)})

LEMMA GentleStep ==
    ASSUME NEW s, Gentle(s)
    PROVE  Spares(s) /\ Stays(s)
BY DEF Gentle, Takes, Changes, Spares, Stays

LEMMA HashStepGentle ==
    ASSUME TypeInv, NEW s \in Session, HashStep(s)
    PROVE  Gentle(s)
<1>1. ~At(s, "idle")
  BY DEF HashStep, HEnsure, Ensure, HSetCount, HSetCountLost, HSetAsks, HSetWrite, HDel,
         HGet, HExists, HGetAll, HKeys, HVals, HLen, AtMember, Running, At
<1>2. Target(s) \in Pk /\ db \in Database
  BY <1>1, Running1 DEF TypeInv, TypeOK
<1>3. CASE HEnsure(s)
  BY <1>2, <1>3, EnsureKeyRows DEF HEnsure, Ensure, Commit, Type, Gentle
<1>4. CASE HSetWrite(s) \/ HDel(s)
  <2>1. \E x : db' = [db EXCEPT !.hashes = x]
    BY <1>4 DEF HSetWrite, HDel, Round, Commit
  <2>2. db'.keys = db.keys
    BY <1>2, <2>1 DEF Database
  <2>. QED
    BY <2>2, SameKeys DEF Gentle
<1>5. CASE db' = db
  BY <1>5, SameKeys DEF Gentle
<1>. QED
  BY <1>3, <1>4, <1>5 DEF HashStep, HSetCount, HSetCountLost, HGet, HExists, HGetAll,
     HKeys, HVals, HLen, NoStatement, Snapshot

LEMMA SetStepGentle ==
    ASSUME TypeInv, NEW s \in Session, SetStep(s)
    PROVE  Gentle(s)
<1>1. ~At(s, "idle")
  BY DEF SetStep, SEnsure, Ensure, SAdd, SRem, SIsMember, SCard, SMembers, SUnion, SInter,
         SDiff, AtMember, Running, At
<1>2. Target(s) \in Pk /\ db \in Database
  BY <1>1, Running1 DEF TypeInv, TypeOK
<1>3. CASE SEnsure(s)
  BY <1>2, <1>3, EnsureKeyRows DEF SEnsure, Ensure, Commit, Type, Gentle
<1>4. CASE SAdd(s) \/ SRem(s)
  <2>1. \E x : db' = [db EXCEPT !.sets = x]
    BY <1>4 DEF SAdd, SRem, Round, Commit
  <2>2. db'.keys = db.keys
    BY <1>2, <2>1 DEF Database
  <2>. QED
    BY <2>2, SameKeys DEF Gentle
<1>5. CASE db' = db
  BY <1>5, SameKeys DEF Gentle
<1>. QED
  BY <1>3, <1>4, <1>5 DEF SetStep, SIsMember, SCard, SMembers, SUnion, SInter, SDiff,
     NoStatement

LEMMA ZSetStepGentle ==
    ASSUME TypeInv, NEW s \in Session, ZSetStep(s)
    PROVE  Gentle(s)
<1>1. ~At(s, "idle")
  BY DEF ZSetStep, ZEnsure, Ensure, ZAddCount, ZAddCountLost, ZAddAsks, ZAddWrite, ZAddReturn,
         ZIncrByRead, ZIncrByWrite, ZRem, ZScore, ZCard, ZRankCount, ZRankExists, ZRankLost,
         ZRangeCount, ZRangeRows, ZRangeLost, ZRangeByScore, ZCount, AtMember, Running, At
<1>2. Target(s) \in Pk /\ db \in Database
  BY <1>1, Running1 DEF TypeInv, TypeOK
<1>3. CASE ZEnsure(s)
  BY <1>2, <1>3, EnsureKeyRows DEF ZEnsure, Ensure, Commit, Type, Gentle
<1>4. CASE ZAddWrite(s) \/ ZIncrByWrite(s) \/ ZRem(s)
  <2>1. db' = db \/ \E x : db' = [db EXCEPT !.zsets = x]
    BY <1>4 DEF ZAddWrite, ZIncrByWrite, ZRem, Round, Commit, WithScore, UpdateScore
  <2>2. db'.keys = db.keys
    BY <1>2, <2>1 DEF Database
  <2>. QED
    BY <2>2, SameKeys DEF Gentle
<1>5. CASE db' = db
  BY <1>5, SameKeys DEF Gentle
<1>. QED
  BY <1>3, <1>4, <1>5 DEF ZSetStep, ZAddCount, ZAddCountLost, ZAddReturn,
     ZIncrByRead, ZScore, ZCard, ZRankCount, ZRankExists, ZRankLost, ZRangeCount, ZRangeRows,
     ZRangeLost, ZRangeByScore, ZCount, NoStatement

\* What the pushes write is not empty.
LEMMA PushedList ==
    ASSUME NEW c \in HandlerCall, c.op \in ListPushes, NEW items \in Seq(Value),
           NEW l \in NewLists(c, items)
    PROVE  l # <<>>
<1>1. c.vals \in Seq(Value) /\ c.vals # <<>>
  BY DEF HandlerCall, Call
<1>2. CASE c.op = "LPush"
  <2>1. l = Reverse(c.vals) \o items
    BY <1>2 DEF NewLists
  <2>2. Reverse(c.vals) \in Seq(Value) /\ Len(Reverse(c.vals)) = Len(c.vals)
    BY <1>1 DEF Reverse
  <2>3. \A v \in Seq(Value) : Len(v \o items) = Len(v) + Len(items)
    OBVIOUS
  <2>4. Len(l) = Len(c.vals) + Len(items)
    BY <2>1, <2>2, <2>3, Zenon
  <2>5. Len(c.vals) > 0 /\ Len(c.vals) \in Nat /\ Len(items) \in Nat
    BY <1>1
  <2>. QED
    BY <2>4, <2>5
<1>3. CASE c.op = "RPush"
  <2>1. l = items \o c.vals
    BY <1>3 DEF NewLists
  <2>2. Len(l) = Len(items) + Len(c.vals) /\ Len(c.vals) > 0 /\ Len(items) >= 0
    BY <1>1, <2>1
  <2>. QED
    BY <2>2
<1>. QED
  BY <1>2, <1>3 DEF ListPushes

LEMMA ListStepRows ==
    ASSUME TypeInv, \A t \in Session : CallsIn(t, HandlerCall), NEW s \in Session, ListStep(s)
    PROVE  Spares(s) /\ Stays(s)
<1>. DEFINE c == Current(s)
<1>1. ~At(s, "idle")
  BY DEF ListStep, LEnsure, Ensure, LRead, LRewrite, Running, At
<1>2. Target(s) \in Pk /\ Target(s) = c.pk /\ db \in Database
  BY <1>1, Running1 DEF TypeInv, TypeOK
<1>3. CASE LEnsure(s)
  BY <1>2, <1>3, EnsureKeyRows, GentleStep DEF LEnsure, Ensure, Commit, Type, Gentle
<1>4. CASE LRead(s)
  BY <1>4, SameKeys, GentleStep DEF LRead, NoStatement, Gentle
<1>5. CASE LRewrite(s)
  <2>1. PICK l \in NewLists(c, seen[s].items) : db' = Rewritten(db, Target(s), l)
    BY <1>5 DEF LRewrite, Commit
  <2>2. CASE l # <<>>
    BY <1>2, <2>1, <2>2, RewrittenRows, GentleStep DEF Gentle
  <2>3. CASE l = <<>>
    <3>1. Takes(db, db', {Target(s)}) /\ Changes(db, db', {Target(s)})
      BY <1>2, <2>1, RewrittenRows
    <3>2. c \in HandlerCall
      <4>1. calls[s] \in Seq(HandlerCall) /\ calls[s] # <<>>
        BY <1>1, Running1 DEF CallsIn
      <4>. QED
        BY <4>1, HeadTailProperties DEF Current
    <3>3. seen[s].items \in Seq(Value)
      BY <1>1, Running1 DEF Read
    <3>4. c.op \notin ListPushes
      BY <2>1, <2>3, <3>2, <3>3, PushedList
    <3>5. c.op \in ListOps /\ At(s, "write") /\ Rewrites(c, seen[s].items)
      BY <1>5 DEF LRewrite, Running, TypeInv, Ready, WriteReady
    <3>6. c.op \in ListEdits
      BY <3>4, <3>5 DEF Rewrites, ListOps, ListReads, ListPushes, ListEdits
    <3>7. Steps(s)
      BY <1>1, <1>5, ReturnSteps DEF LRewrite
    <3>8. Removes(s, Target(s))
      BY <1>2, <3>5, <3>6 DEF Removes, Running
    <3>. QED
      BY <3>1, <3>7, <3>8 DEF Takes, Changes, Spares, Stays
  <2>. QED
    BY <2>2, <2>3
<1>. QED
  BY <1>3, <1>4, <1>5 DEF ListStep

LEMMA StringStepGentle ==
    ASSUME TypeInv, NEW s \in Session, StringStep(s)
    PROVE  Gentle(s)
<1>. DEFINE c == Current(s)
<1>1. ~At(s, "idle")
  BY DEF StringStep, Get, StrLen, SetRead, SetWrite, IncrByRead, IncrByWrite,
         AppendRead, AppendWrite, Running, At
<1>2. Target(s) \in Pk /\ Target(s) = c.pk /\ db \in Database /\ c.exp \in Time
  BY <1>1, Running1 DEF TypeInv, TypeOK, Call
<1>3. CASE SetWrite(s)
  <2>. DEFINE d == UpsertKey(db, Target(s), "string", c.exp)
  <2>1. Takes(db, d, {}) /\ Changes(db, d, {Target(s)}) /\ d \in Database
    BY <1>2, UpsertKeyRows, UpsertKeyDatabase DEF Type
  <2>. HIDE DEF d
  <2>2. db' = PutString(d, Target(s), c.val)
    BY <1>2, <1>3 DEF SetWrite, Stored, Commit, d
  <2>3. db'.keys = d.keys
    BY <2>1, <2>2 DEF PutString, Database
  <2>. QED
    BY <2>1, <2>3 DEF Gentle, Takes, Changes, HasRow
<1>4. CASE IncrByWrite(s) \/ AppendWrite(s)
  BY <1>2, <1>4, ReplacedRows DEF IncrByWrite, AppendWrite, Commit, Gentle
<1>5. CASE db' = db
  BY <1>5, SameKeys DEF Gentle
<1>. QED
  BY <1>3, <1>4, <1>5 DEF StringStep, Get, StrLen, SetRead, IncrByRead, AppendRead,
     NoStatement, Snapshot

LEMMA KeyStepRows ==
    ASSUME TypeInv, \A t \in Session : CallsIn(t, HandlerCall), NEW s \in Session, KeyStep(s)
    PROVE  Spares(s) /\ Stays(s)
<1>. DEFINE c == Current(s)
<1>1. ~At(s, "idle")
  BY DEF KeyStep, Del, Exists, ExpireAt, TTL, PersistRead, PersistWrite, TypeOf,
         RenameRead, RenameWrite, DBSize, Keys, RandomKey, FlushDB, FlushAll, Running, At
<1>2. /\ c \in Call /\ Target(s) \in Pk /\ Target(s) = c.pk /\ db \in Database
      /\ c.exp \in Time /\ NULL \in Time /\ c.dst \in Pk
  BY <1>1, Running1 DEF TypeInv, TypeOK, Call, Time
<1>3. CASE db' = db
  BY <1>3, SameKeys, GentleStep DEF Gentle
<1>4. CASE Del(s)
  <2>1. Steps(s)
    BY <1>1, <1>4, ReturnSteps DEF Del
  <2>2. Removes(s, Target(s))
    BY <1>2, <1>4 DEF Del, Removes
  <2>3. Takes(db, db', {Target(s)}) /\ Changes(db, db', {Target(s)})
    BY <1>4, DeleteKeysRows DEF Del, Commit
  <2>. QED
    BY <2>1, <2>2, <2>3 DEF Takes, Changes, Spares, Stays
<1>5. CASE ExpireAt(s) \/ PersistWrite(s)
  BY <1>2, <1>5, UpdateExpiryRows, GentleStep DEF ExpireAt, PersistWrite, Commit, Gentle
<1>6. CASE RenameWrite(s)
  <2>1. Steps(s)
    BY <1>1, <1>6, ReturnSteps DEF RenameWrite
  <2>2. Removes(s, Target(s)) /\ c.op = "Rename" /\ At(s, "write")
    BY <1>2, <1>6 DEF RenameWrite, Running, Removes
  <2>3. seen[s].row \in KeyRow
    BY <1>1, <2>2, Running1 DEF TypeInv, Ready, WriteReady, Read
  <2>4. Takes(db, db', {Target(s)}) /\ Changes(db, db', {Target(s), c.dst})
    BY <1>2, <1>6, <2>3, RenamedRows DEF RenameWrite, Commit
  <2>5. c.dst[2] = c.pk[2]
    <3>1. calls[s] \in Seq(HandlerCall) /\ calls[s] # <<>>
      BY <1>1, Running1 DEF CallsIn
    <3>2. c \in HandlerCall
      BY <3>1, HeadTailProperties DEF Current
    <3>. QED
      BY <2>2, <3>2 DEF HandlerCall
  <2>. QED
    BY <1>2, <2>1, <2>2, <2>4, <2>5 DEF Takes, Changes, Spares, Stays
<1>7. CASE FlushDB(s)
  <2>1. Steps(s)
    BY <1>1, <1>7, ReturnSteps DEF FlushDB
  <2>2. \A p \in Pk : p[2] = Target(s)[2] => Removes(s, p)
    BY <1>2, <1>7 DEF FlushDB, Removes
  <2>. DEFINE P == {p \in Pk : p[2] = Target(s)[2]}
  <2>3. Takes(db, db', P) /\ Changes(db, db', P)
    BY <1>7, DeleteKeysRows DEF FlushDB, Commit
  <2>. QED
    BY <2>1, <2>2, <2>3 DEF Takes, Changes, Spares, Stays
<1>8. CASE FlushAll(s)
  <2>1. Steps(s)
    BY <1>1, <1>8, ReturnSteps DEF FlushAll
  <2>2. \A p \in Pk : Removes(s, p)
    BY <1>8 DEF FlushAll, Removes
  <2>. QED
    BY <1>8, <2>1, <2>2 DEF FlushAll, Spares, Stays
<1>. QED
  BY <1>3, <1>4, <1>5, <1>6, <1>7, <1>8 DEF KeyStep, Exists, TTL, PersistRead, TypeOf,
     RenameRead, DBSize, Keys, RandomKey, NoStatement

LEMMA CommonStepRows ==
    ASSUME TypeInv, NEW s \in Session, CommonStep(s)
    PROVE  Spares(s) /\ Stays(s)
<1>1. CASE db' = db
  BY <1>1, SameKeys, GentleStep DEF Gentle
<1>2. CASE DeleteExpired(s)
  <2>. DEFINE P == ExpiredKeys(db, {Target(s)}, now)
  <2>1. Takes(db, db', P) /\ Changes(db, db', P)
    BY <1>2, DeleteKeysRows DEF DeleteExpired, Commit
  <2>2. \A p \in P : Expired(db.keys[p], now) /\ p = Target(s)
    BY DEF ExpiredKeys
  <2>. HIDE DEF P
  <2>. QED
    BY <2>1, <2>2 DEF Takes, Changes, Spares, Stays
<1>. QED
  BY <1>1, <1>2 DEF CommonStep, StampExpiry, AssertType, FailStatement, LoseRead, NoStatement

LEMMA StepRows ==
    ASSUME TypeInv, \A t \in Session : CallsIn(t, HandlerCall), NEW s \in Session, Step(s)
    PROVE  Spares(s) /\ Stays(s)
BY CommonStepRows, KeyStepRows, StringStepGentle, ListStepRows, HashStepGentle,
   SetStepGentle, ZSetStepGentle, GentleStep DEF Step

\* The inductive invariant of both properties.
RowInv == TypeInv /\ \A t \in Session : CallsIn(t, HandlerCall)

LEMMA RowInvInit == StoreInit => RowInv
<1>1. StoreInit => \A t \in Session : CallsIn(t, HandlerCall)
  BY DEF StoreInit, OfAll, CallsIn
<1>. QED
  BY <1>1, TypeInvInit DEF RowInv

LEMMA RowInvStep == RowInv /\ [Next]_vars => RowInv'
BY TypeInvStep, CallsInNext, HandlerCallFacts DEF RowInv

\* A step is one of a session, or the sweep's, or leaves the tables alone.
LEMMA WhoseStep ==
    ASSUME [Next]_vars
    PROVE  (\E s \in Session : Step(s)) \/ SweepExpired \/ db' = db
BY DEF Next, Begin, NoStatement, Environment, Tick, Crash, vars

LEMMA SweptRows ==
    ASSUME SweepExpired
    PROVE  \A p \in Pk : db'.keys[p] # db.keys[p] => Expired(db.keys[p], now)
<1>1. Changes(db, db', ExpiredKeys(db, Pk, now))
  BY DeleteKeysRows DEF SweepExpired
<1>. QED
  BY <1>1 DEF Changes, ExpiredKeys

(***************************************************************************)
(* Nothing takes a live key but a command that deletes, flushes, renames or *)
(* empties it, in a step of its own, on either backend (store.go            *)
(* deleteExpired and SweepExpired, whose WHERE clauses and the clock are    *)
(* all that stands between a live key and its deletion).                    *)
(***************************************************************************)
THEOREM LiveKeysStay == Spec => LiveKeyStays
<1>. DEFINE Kept == \A p \in Pk : Alive(db.keys[p], now) /\ db'.keys[p] = NULL =>
                      \E s \in Session : Steps(s) /\ Removes(s, p)
<1>1. ASSUME RowInv, [Next]_vars PROVE Kept
  <2>. SUFFICES ASSUME NEW p \in Pk, Alive(db.keys[p], now), db'.keys[p] = NULL
                PROVE  \E s \in Session : Steps(s) /\ Removes(s, p)
    OBVIOUS
  <2>1. db.keys[p] # NULL /\ ~Expired(db.keys[p], now)
    <3>1. db.keys[p] \in KeyRow /\ now \in Int
      BY <1>1 DEF RowInv, TypeInv, TypeOK, Database, Alive
    <3>2. db.keys[p].exp \in Time
      BY <3>1 DEF KeyRow
    <3>. QED
      BY <3>1, <3>2 DEF Alive, Expired, Time, Int64
  <2>2. ~SweepExpired /\ db' # db
    BY <2>1, SweptRows
  <2>3. PICK s \in Session : Step(s)
    BY <1>1, <2>2, WhoseStep
  <2>4. Spares(s)
    BY <1>1, <2>3, StepRows DEF RowInv
  <2>. QED
    BY <2>1, <2>4 DEF Spares, HasRow
<1>2. RowInv /\ [Next]_vars => [Kept]_vars
  BY <1>1
<1>. QED
  BY <1>2, RowInvInit, RowInvStep, PTL DEF Spec, LiveKeyStays

(***************************************************************************)
(* A step changes keys of one database only, except FLUSHALL and expiry    *)
(* (store.go passes dbIdx to every statement).                             *)
(***************************************************************************)
THEOREM DatabasesStayApart == Spec => DatabasesIsolated
<1>. DEFINE Changed(p) == db'.keys[p] # db.keys[p] /\ ~Expired(db.keys[p], now)
            Apart ==
              (\A s \in Session : ~(Running(s, {"FlushAll"}, "stmt") /\ Steps(s))) =>
                \A p, q \in Pk :
                  /\ db'.keys[p] # db.keys[p] /\ ~Expired(db.keys[p], now)
                  /\ db'.keys[q] # db.keys[q] /\ ~Expired(db.keys[q], now)
                  => p[2] = q[2]
<1>1. ASSUME RowInv, [Next]_vars PROVE Apart
  <2>. SUFFICES ASSUME \A s \in Session : ~(Running(s, {"FlushAll"}, "stmt") /\ Steps(s)),
                       NEW p \in Pk, NEW q \in Pk, Changed(p), Changed(q)
                PROVE  p[2] = q[2]
    OBVIOUS
  <2>1. ~SweepExpired /\ db' # db
    BY SweptRows
  <2>2. PICK s \in Session : Step(s)
    BY <1>1, <2>1, WhoseStep
  <2>3. Stays(s)
    BY <1>1, <2>2, StepRows DEF RowInv
  <2>. QED
    BY <2>3 DEF Stays
<1>2. RowInv /\ [Next]_vars => [Apart]_vars
  BY <1>1
<1>. QED
  BY <1>2, RowInvInit, RowInvStep, PTL DEF Spec, DatabasesIsolated

-----------------------------------------------------------------------------
(* A string key and its value.                                             *)

PairedAt(d, p) == HasRow(d, p) /\ d.keys[p].type = "string" <=> d.strings[p] # NULL
Paired(d)      == \A p \in Pk : PairedAt(d, p)

\* A statement that touches p at most and leaves it paired.
LEMMA PairedIf ==
    ASSUME NEW d \in Database, Paired(d), NEW e, NEW p \in Pk, PairedAt(e, p),
           \A q \in Pk \ {p} : e.keys[q] = d.keys[q] /\ e.strings[q] = d.strings[q]
    PROVE  Paired(e)
<1>. SUFFICES ASSUME NEW q \in Pk, q # p PROVE PairedAt(e, q)
  BY DEF Paired
<1>1. PairedAt(d, q)
  BY DEF Paired
<1>. QED
  BY <1>1 DEF PairedAt, HasRow

LEMMA DeleteKeysPaired ==
    ASSUME NEW d, Paired(d), NEW P
    PROVE  Paired(DeleteKeys(d, P))
BY DEF Paired, PairedAt, DeleteKeys, HasRow

\* Only data of other types changes.
LEMMA OtherPaired ==
    ASSUME NEW d, Paired(d), NEW e, e.keys = d.keys, e.strings = d.strings
    PROVE  Paired(e)
BY DEF Paired, PairedAt, HasRow

LEMMA EnsureKeyPaired ==
    ASSUME NEW d \in Database, Paired(d), NEW p \in Pk, NEW t \in Type \ {"string"}
    PROVE  Paired(EnsureKey(d, p, t))
<1>1. CASE HasRow(d, p)
  BY <1>1 DEF EnsureKey
<1>2. CASE ~HasRow(d, p)
  <2>. DEFINE e == [d EXCEPT !.keys[p] = [type |-> t, exp |-> NULL]]
  <2>1. EnsureKey(d, p, t) = e
    BY <1>2 DEF EnsureKey
  <2>2. d.strings[p] = NULL
    BY <1>2 DEF Paired, PairedAt
  <2>3. e.strings = d.strings /\ e.keys = [d.keys EXCEPT ![p] = [type |-> t, exp |-> NULL]]
    BY DEF Database
  <2>4. e.keys[p].type = t /\ \A q \in Pk \ {p} : e.keys[q] = d.keys[q]
    BY <2>3 DEF Database
  <2>. HIDE DEF e
  <2>5. PairedAt(e, p)
    BY <2>2, <2>3, <2>4 DEF PairedAt
  <2>. QED
    BY <2>1, <2>3, <2>4, <2>5, PairedIf
<1>. QED
  BY <1>1, <1>2

LEMMA UpdateExpiryPaired ==
    ASSUME NEW d \in Database, Paired(d), NEW p \in Pk, NEW x \in Time
    PROVE  Paired(UpdateExpiry(d, p, x))
<1>1. CASE HasRow(d, p)
  <2>. DEFINE row == [d.keys[p] EXCEPT !.exp = x]
              e == [d EXCEPT !.keys[p] = row]
  <2>1. d.keys[p] \in KeyRow
    BY <1>1 DEF HasRow, Database
  <2>2. row \in KeyRow /\ row.type = d.keys[p].type
    BY <2>1 DEF KeyRow
  <2>3. row # NULL
    BY <2>2, RowAssumption
  <2>4. UpdateExpiry(d, p, x) = e
    BY <1>1 DEF UpdateExpiry, Database
  <2>. HIDE DEF row
  <2>5. e.strings = d.strings /\ e.keys[p] = row /\ \A q \in Pk \ {p} : e.keys[q] = d.keys[q]
    BY DEF Database
  <2>. HIDE DEF e
  <2>6. PairedAt(e, p)
    BY <1>1, <2>2, <2>3, <2>5 DEF Paired, PairedAt, HasRow
  <2>. QED
    BY <2>4, <2>5, <2>6, PairedIf
<1>2. CASE ~HasRow(d, p)
  BY <1>2 DEF UpdateExpiry
<1>. QED
  BY <1>1, <1>2

\* The keys row of type string and the strings row are written together.
LEMMA StringWritten ==
    ASSUME NEW d \in Database, Paired(d), NEW p \in Pk, NEW x \in Time, NEW v \in Value
    PROVE  Paired(PutString(UpsertKey(d, p, "string", x), p, v))
<1>. DEFINE row == [type |-> "string", exp |-> x]
            e == PutString(UpsertKey(d, p, "string", x), p, v)
<1>1. row # NULL /\ row.type = "string" /\ v # NULL
  BY RowAssumption, ValueAssumption DEF KeyRow, Type
<1>. HIDE DEF row
<1>2. /\ e.keys[p] = row /\ e.strings[p] = v
      /\ \A q \in Pk \ {p} : e.keys[q] = d.keys[q] /\ e.strings[q] = d.strings[q]
  BY DEF PutString, UpsertKey, Database, row
<1>. HIDE DEF e
<1>3. PairedAt(e, p)
  BY <1>1, <1>2 DEF PairedAt, HasRow
<1>4. Paired(e)
  BY <1>2, <1>3, PairedIf
<1>. QED
  BY <1>4 DEF e

LEMMA ReplacedPaired ==
    ASSUME NEW d \in Database, Paired(d), NEW p \in Pk, NEW old, NEW v \in Value
    PROVE  Paired(Replaced(d, p, old, v))
<1>1. CASE old # NULL
  <2>1. CASE d.strings[p] = NULL
    BY <1>1, <2>1 DEF Replaced, UpdateString
  <2>2. CASE d.strings[p] # NULL
    <3>. DEFINE e == [d EXCEPT !.strings[p] = v]
    <3>1. Replaced(d, p, old, v) = e
      BY <1>1, <2>2 DEF Replaced, UpdateString, PutString
    <3>2. /\ e.keys = d.keys /\ e.strings[p] = v
          /\ \A q \in Pk \ {p} : e.strings[q] = d.strings[q]
      BY DEF Database
    <3>. HIDE DEF e
    <3>3. PairedAt(e, p)
      BY <2>2, <3>2, ValueAssumption DEF Paired, PairedAt, HasRow
    <3>. QED
      BY <3>1, <3>2, <3>3, PairedIf
  <2>. QED
    BY <2>1, <2>2
<1>2. CASE old = NULL
  <2>. DEFINE x == IF HasRow(d, p) THEN d.keys[p].exp ELSE NULL
  <2>1. d.keys[p] # NULL => d.keys[p].exp \in Time
    BY DEF Database, KeyRow
  <2>2. x \in Time
    BY <2>1 DEF HasRow, Time
  <2>3. UpsertKeyType(d, p, "string") = UpsertKey(d, p, "string", x)
    BY DEF UpsertKeyType, UpsertKey
  <2>. QED
    BY <1>2, <2>2, <2>3, StringWritten DEF Replaced
<1>. QED
  BY <1>1, <1>2

LEMMA RewrittenPaired ==
    ASSUME NEW d \in Database, Paired(d), NEW p \in Pk, NEW l
    PROVE  Paired(Rewritten(d, p, l))
<1>1. CASE l = <<>>
  BY <1>1, DeleteKeysPaired DEF Rewritten
<1>2. CASE l # <<>>
  <2>1. Rewritten(d, p, l) = [d EXCEPT !.lists[p] = l]
    BY <1>2 DEF Rewritten
  <2>2. [d EXCEPT !.lists[p] = l].keys = d.keys /\ [d EXCEPT !.lists[p] = l].strings = d.strings
    BY DEF Database
  <2>. QED
    BY <2>1, <2>2, OtherPaired
<1>. QED
  BY <1>1, <1>2

LEMMA CommonStepPaired ==
    ASSUME Paired(db), NEW s, CommonStep(s)
    PROVE  Paired(db')
<1>1. CASE DeleteExpired(s)
  BY <1>1, DeleteKeysPaired DEF DeleteExpired, Commit
<1>2. CASE db' = db
  BY <1>2
<1>. QED
  BY <1>1, <1>2 DEF CommonStep, StampExpiry, AssertType, FailStatement, LoseRead, NoStatement

LEMMA KeyStepPaired ==
    ASSUME TypeInv, Paired(db), NEW s \in Session, KeyStep(s), Current(s).op # "Rename"
    PROVE  Paired(db')
<1>. DEFINE c == Current(s)
<1>1. ~At(s, "idle")
  BY DEF KeyStep, Del, Exists, ExpireAt, TTL, PersistRead, PersistWrite, TypeOf,
         RenameRead, RenameWrite, DBSize, Keys, RandomKey, FlushDB, FlushAll, Running, At
<1>2. Target(s) \in Pk /\ db \in Database /\ c.exp \in Time /\ NULL \in Time
  BY <1>1, Running1 DEF TypeInv, TypeOK, Call, Time
<1>3. CASE Del(s) \/ FlushDB(s) \/ FlushAll(s)
  BY <1>3, DeleteKeysPaired DEF Del, FlushDB, FlushAll, Commit
<1>4. CASE ExpireAt(s) \/ PersistWrite(s)
  BY <1>2, <1>4, UpdateExpiryPaired DEF ExpireAt, PersistWrite, Commit
<1>5. CASE db' = db
  BY <1>5
<1>. QED
  BY <1>3, <1>4, <1>5 DEF KeyStep, Exists, TTL, PersistRead, TypeOf, RenameRead,
     RenameWrite, Running, DBSize, Keys, RandomKey, NoStatement

LEMMA StringStepPaired ==
    ASSUME TypeInv, Paired(db), NEW s \in Session, StringStep(s)
    PROVE  Paired(db')
<1>. DEFINE c == Current(s)
            p == Target(s)
<1>1. ~At(s, "idle")
  BY DEF StringStep, Get, StrLen, SetRead, SetWrite, IncrByRead, IncrByWrite,
         AppendRead, AppendWrite, Running, At
<1>2. /\ c \in Call /\ p \in Pk /\ p = c.pk /\ seen[s] \in Read /\ db \in Database
      /\ c.exp \in Time /\ c.val \in Value /\ c.n \in Int64
      /\ seen[s].val \in {NULL} \cup Value
  BY <1>1, Running1 DEF TypeInv, TypeOK, Call, Read
<1>3. CASE SetWrite(s)
  BY <1>2, <1>3, StringWritten DEF SetWrite, Stored, Commit
<1>4. CASE IncrByWrite(s)
  <2>. DEFINE next == Incremented(seen[s].val, c.n)
  <2>1. seen[s].val = NULL \/ IsInt(seen[s].val)
    BY <1>4 DEF IncrByWrite, Running, TypeInv, Ready, WriteReady
  <2>2. next \in Int64
    BY <1>2, <2>1, IncrementedInt64
  <2>3. FormatInt(next) \in Value
    BY <2>2 DEF FormatInt, Value
  <2>4. db' = Replaced(db, p, seen[s].val, FormatInt(next))
    BY <1>4 DEF IncrByWrite, Commit
  <2>. QED
    BY <1>2, <2>3, <2>4, ReplacedPaired
<1>5. CASE AppendWrite(s)
  <2>1. Appended(seen[s].val, c.val) \in Value
    BY <1>2 DEF Appended, Value
  <2>2. db' = Replaced(db, p, seen[s].val, Appended(seen[s].val, c.val))
    BY <1>5 DEF AppendWrite, Commit
  <2>. QED
    BY <1>2, <2>1, <2>2, ReplacedPaired
<1>6. CASE db' = db
  BY <1>6
<1>. QED
  BY <1>3, <1>4, <1>5, <1>6 DEF StringStep, Get, StrLen, SetRead, IncrByRead, AppendRead,
     NoStatement, Snapshot

LEMMA ListStepPaired ==
    ASSUME TypeInv, Paired(db), NEW s \in Session, ListStep(s)
    PROVE  Paired(db')
<1>1. ~At(s, "idle")
  BY DEF ListStep, LEnsure, Ensure, LRead, LRewrite, Running, At
<1>2. Target(s) \in Pk /\ db \in Database
  BY <1>1, Running1 DEF TypeInv, TypeOK
<1>3. CASE LEnsure(s)
  BY <1>2, <1>3, EnsureKeyPaired DEF LEnsure, Ensure, Commit, Type
<1>4. CASE LRewrite(s)
  BY <1>2, <1>4, RewrittenPaired DEF LRewrite, Commit
<1>5. CASE LRead(s)
  BY <1>5 DEF LRead, NoStatement
<1>. QED
  BY <1>3, <1>4, <1>5 DEF ListStep

LEMMA HashStepPaired ==
    ASSUME TypeInv, Paired(db), NEW s \in Session, HashStep(s)
    PROVE  Paired(db')
<1>1. ~At(s, "idle")
  BY DEF HashStep, HEnsure, Ensure, HSetCount, HSetCountLost, HSetAsks, HSetWrite, HDel,
         HGet, HExists, HGetAll, HKeys, HVals, HLen, AtMember, Running, At
<1>2. Target(s) \in Pk /\ db \in Database
  BY <1>1, Running1 DEF TypeInv, TypeOK
<1>3. CASE HEnsure(s)
  BY <1>2, <1>3, EnsureKeyPaired DEF HEnsure, Ensure, Commit, Type
<1>4. CASE HSetWrite(s) \/ HDel(s)
  <2>1. \E x : db' = [db EXCEPT !.hashes = x]
    BY <1>4 DEF HSetWrite, HDel, Round, Commit
  <2>2. db'.keys = db.keys /\ db'.strings = db.strings
    BY <1>2, <2>1 DEF Database
  <2>. QED
    BY <2>2, OtherPaired
<1>5. CASE db' = db
  BY <1>5
<1>. QED
  BY <1>3, <1>4, <1>5 DEF HashStep, HSetCount, HSetCountLost, HGet, HExists, HGetAll,
     HKeys, HVals, HLen, NoStatement, Snapshot

LEMMA SetStepPaired ==
    ASSUME TypeInv, Paired(db), NEW s \in Session, SetStep(s)
    PROVE  Paired(db')
<1>1. ~At(s, "idle")
  BY DEF SetStep, SEnsure, Ensure, SAdd, SRem, SIsMember, SCard, SMembers, SUnion, SInter,
         SDiff, AtMember, Running, At
<1>2. Target(s) \in Pk /\ db \in Database
  BY <1>1, Running1 DEF TypeInv, TypeOK
<1>3. CASE SEnsure(s)
  BY <1>2, <1>3, EnsureKeyPaired DEF SEnsure, Ensure, Commit, Type
<1>4. CASE SAdd(s) \/ SRem(s)
  <2>1. \E x : db' = [db EXCEPT !.sets = x]
    BY <1>4 DEF SAdd, SRem, Round, Commit
  <2>2. db'.keys = db.keys /\ db'.strings = db.strings
    BY <1>2, <2>1 DEF Database
  <2>. QED
    BY <2>2, OtherPaired
<1>5. CASE db' = db
  BY <1>5
<1>. QED
  BY <1>3, <1>4, <1>5 DEF SetStep, SIsMember, SCard, SMembers, SUnion, SInter, SDiff,
     NoStatement

LEMMA ZSetStepPaired ==
    ASSUME TypeInv, Paired(db), NEW s \in Session, ZSetStep(s)
    PROVE  Paired(db')
<1>1. ~At(s, "idle")
  BY DEF ZSetStep, ZEnsure, Ensure, ZAddCount, ZAddCountLost, ZAddAsks, ZAddWrite, ZAddReturn,
         ZIncrByRead, ZIncrByWrite, ZRem, ZScore, ZCard, ZRankCount, ZRankExists, ZRankLost,
         ZRangeCount, ZRangeRows, ZRangeLost, ZRangeByScore, ZCount, AtMember, Running, At
<1>2. Target(s) \in Pk /\ db \in Database
  BY <1>1, Running1 DEF TypeInv, TypeOK
<1>3. CASE ZEnsure(s)
  BY <1>2, <1>3, EnsureKeyPaired DEF ZEnsure, Ensure, Commit, Type
<1>4. CASE ZAddWrite(s) \/ ZIncrByWrite(s) \/ ZRem(s)
  <2>1. db' = db \/ \E x : db' = [db EXCEPT !.zsets = x]
    BY <1>4 DEF ZAddWrite, ZIncrByWrite, ZRem, Round, Commit, WithScore, UpdateScore
  <2>2. db'.keys = db.keys /\ db'.strings = db.strings
    BY <1>2, <2>1 DEF Database
  <2>. QED
    BY <2>2, OtherPaired
<1>5. CASE db' = db
  BY <1>5
<1>. QED
  BY <1>3, <1>4, <1>5 DEF ZSetStep, ZAddCount, ZAddCountLost, ZAddReturn,
     ZIncrByRead, ZScore, ZCard, ZRankCount, ZRankExists, ZRankLost, ZRangeCount, ZRangeRows,
     ZRangeLost, ZRangeByScore, ZCount, NoStatement

\* The calls of the commands other than RENAME.
NoRename == {c \in Call : c.op # "Rename"}

LEMMA NoRenameStampable == Stampable(NoRename)
<1>1. ASSUME NEW c \in NoRename, NEW e \in Int64
      PROVE  [c EXCEPT !.exp = e] \in NoRename
  <2>1. c \in Call /\ e \in Time
    BY DEF NoRename, Time
  <2>2. [c EXCEPT !.exp = e] \in Call /\ [c EXCEPT !.exp = e].op = c.op
    BY <2>1 DEF Call
  <2>. QED
    BY <2>2 DEF NoRename
<1>. QED
  BY <1>1 DEF Stampable

\* The inductive invariant.
PairInv == TypeInv /\ (\A t \in Session : CallsIn(t, NoRename)) /\ Paired(db)

LEMMA PairInvStep ==
    ASSUME RequestsIn(NoRename), PairInv, [Next]_vars
    PROVE  PairInv'
<1>1. TypeInv'
  BY TypeInvStep DEF PairInv
<1>2. \A t \in Session : CallsIn(t, NoRename)'
  BY CallsInNext, NoRenameStampable DEF PairInv
<1>3. Paired(db')
  <2>1. CASE SweepExpired
    BY <2>1, DeleteKeysPaired DEF SweepExpired, PairInv
  <2>2. CASE db' = db
    BY <2>2 DEF PairInv
  <2>3. ASSUME NEW s \in Session, Step(s) PROVE Paired(db')
    <3>1. TypeInv /\ Paired(db)
      BY DEF PairInv
    <3>2. KeyStep(s) => Current(s).op # "Rename"
      <4>. SUFFICES ASSUME KeyStep(s) PROVE Current(s).op # "Rename"
        OBVIOUS
      <4>1. ~At(s, "idle")
        BY DEF KeyStep, Del, Exists, ExpireAt, TTL, PersistRead, PersistWrite, TypeOf,
               RenameRead, RenameWrite, DBSize, Keys, RandomKey, FlushDB, FlushAll, Running, At
      <4>2. calls[s] \in Seq(NoRename) /\ calls[s] # <<>>
        BY <3>1, <4>1, Running1 DEF PairInv, CallsIn
      <4>3. Current(s) \in NoRename
        BY <4>2, HeadTailProperties DEF Current
      <4>. QED
        BY <4>3 DEF NoRename
    <3>. QED
      BY <2>3, <3>1, <3>2, CommonStepPaired, KeyStepPaired, StringStepPaired, ListStepPaired,
         HashStepPaired, SetStepPaired, ZSetStepPaired DEF Step
  <2>. QED
    BY <2>1, <2>2, <2>3, WhoseStep
<1>. QED
  BY <1>1, <1>2, <1>3 DEF PairInv

(***************************************************************************)
(* A string key has its value, and a value its key: no interleaving of     *)
(* commands of any type, the sweep, failures and crashes parts the two     *)
(* rows.  RENAME is left out because it does part them: it inserts the row *)
(* it has read before its transaction (store.go Rename), which may be of a *)
(* string that is gone by then.                                            *)
(***************************************************************************)
THEOREM StringsHaveValues ==
    ASSUME RequestsIn(NoRename), \A d \in InitDbs : Paired(d)
    PROVE  Spec => []StringHasValue
<1>1. StoreInit => PairInv
  <2>1. StoreInit => \A t \in Session : CallsIn(t, NoRename)
    BY DEF StoreInit, OfAll, CallsIn
  <2>2. StoreInit => Paired(db)
    BY DEF StoreInit
  <2>. QED
    BY <2>1, <2>2, TypeInvInit DEF PairInv
<1>2. PairInv /\ [Next]_vars => PairInv'
  BY PairInvStep
<1>3. PairInv => StringHasValue
  BY DEF PairInv, Paired, PairedAt, StringHasValue
<1>. QED
  BY <1>1, <1>2, <1>3, PTL DEF Spec
=============================================================================
