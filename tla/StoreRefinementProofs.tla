------------------------ MODULE StoreRefinementProofs ------------------------
(***************************************************************************)
(* The refinement of AtomicStore, for every set of sessions, keys and      *)
(* requests of string and key commands: on SQLite every statement of the   *)
(* store is a step of the atomic one, or one it does not see.              *)
(***************************************************************************)
EXTENDS StoreRefinement, StoreSafetyProofs

-----------------------------------------------------------------------------
(* The operators of AtomicStore are those of Store.                        *)

LEMMA SameResults ==
    /\ Atomic!Nil = Nil /\ Atomic!Done = Done /\ Atomic!Failed = Failed
    /\ Atomic!WrongType = WrongType /\ Atomic!NoResult = NoResult
    /\ \A x : /\ Atomic!Number(x) = Number(x) /\ Atomic!Bool(x) = Bool(x)
              /\ Atomic!Bulk(x) = Bulk(x) /\ Atomic!TypeIs(x) = TypeIs(x)
BY DEF Nil, Done, Failed, WrongType, NoResult, Number, Bool, Bulk, TypeIs, NoFields,
       Atomic!Nil, Atomic!Done, Atomic!Failed, Atomic!WrongType, Atomic!NoResult,
       Atomic!Number, Atomic!Bool, Atomic!Bulk, Atomic!TypeIs, Atomic!NoFields

LEMMA SameValues ==
    /\ Atomic!Pk = Pk /\ Atomic!StringOps = StringOps
    /\ \A v, n : Atomic!Incremented(v, n) = Incremented(v, n)
    /\ \A v, w : Atomic!Appended(v, w) = Appended(v, w)
    /\ \A v : Atomic!FormatInt(v) = FormatInt(v) /\ (Atomic!IsInt(v) <=> IsInt(v))
    /\ \A r, t : (Atomic!Alive(r, t) <=> Alive(r, t)) /\ (Atomic!Expired(r, t) <=> Expired(r, t))
    /\ \A r, t, b : Atomic!Remaining(r, t, b) = Remaining(r, t, b)
BY DEF Pk, StringOps, StringReads, StringTxs, Incremented, ParseInt, Wrap, MinInt, Appended,
       FormatInt, IsInt, Int64, Alive, Expired, Remaining,
       Atomic!Pk, Atomic!StringOps, Atomic!StringReads, Atomic!StringTxs, Atomic!Incremented,
       Atomic!ParseInt, Atomic!Wrap, Atomic!MinInt, Atomic!Appended, Atomic!FormatInt,
       Atomic!IsInt, Atomic!Int64, Atomic!Alive, Atomic!Expired, Atomic!Remaining

-----------------------------------------------------------------------------
(* The rows of AtomicStore.                                                *)

RowOf(d, p) == IF d.keys[p] = NULL THEN NULL
               ELSE [type |-> d.keys[p].type, exp |-> d.keys[p].exp, val |-> d.strings[p]]

LEMMA RowsAre == Rows = [p \in Pk |-> RowOf(db, p)]
BY DEF Rows, RowOf

LEMMA RowType ==
    ASSUME NEW d \in Database, NEW p \in Pk
    PROVE  /\ RowOf(d, p) \in {NULL} \cup Atomic!Row
           /\ RowOf(d, p) = NULL <=> ~HasRow(d, p)
           /\ HasRow(d, p) => /\ RowOf(d, p).type = d.keys[p].type
                              /\ RowOf(d, p).exp = d.keys[p].exp
                              /\ RowOf(d, p).val = d.strings[p]
<1>. DEFINE r == [type |-> d.keys[p].type, exp |-> d.keys[p].exp, val |-> d.strings[p]]
<1>1. CASE HasRow(d, p)
  <2>1. d.keys[p] \in KeyRow /\ d.strings[p] \in {NULL} \cup Value
    BY <1>1 DEF HasRow, Database
  <2>2. d.keys[p].type \in Type /\ d.keys[p].exp \in Time
    BY <2>1 DEF KeyRow
  <2>3. r \in Atomic!Row
    BY <2>1, <2>2 DEF Atomic!Row, Atomic!Type, Atomic!Time, Atomic!Value, Atomic!Int64,
       Atomic!MinInt, Type, Time, Value, Int64, MinInt
  <2>4. RowOf(d, p) = r /\ r # NULL
    BY <1>1, <2>3, AbsenceAssumption DEF RowOf, HasRow
  <2>. QED
    BY <1>1, <2>3, <2>4
<1>2. CASE ~HasRow(d, p)
  BY <1>2 DEF HasRow, RowOf
<1>. QED
  BY <1>1, <1>2

\* What the clock makes of a row.
LEMMA RowTimes ==
    ASSUME NEW d \in Database, NEW p \in Pk, NEW t, NEW b
    PROVE  /\ Alive(RowOf(d, p), t) <=> Alive(d.keys[p], t)
           /\ Expired(RowOf(d, p), t) <=> Expired(d.keys[p], t)
           /\ Remaining(RowOf(d, p), t, b) = Remaining(d.keys[p], t, b)
BY RowType DEF HasRow, Alive, Expired, Remaining

LEMMA RowValue ==
    ASSUME NEW d \in Database, Paired(d), NEW p \in Pk
    PROVE  Atomic!ValueOf(RowOf(d, p)) = d.strings[p]
BY RowType DEF HasRow, Paired, PairedAt, Atomic!ValueOf

\* A statement that changes p only.
LEMMA RowsExcept ==
    ASSUME NEW p \in Pk,
           \A q \in Pk \ {p} : db'.keys[q] = db.keys[q] /\ db'.strings[q] = db.strings[q]
    PROVE  Rows' = [Rows EXCEPT ![p] = RowOf(db', p)]
BY DEF Rows, RowOf

LEMMA RowsDeleted ==
    ASSUME NEW P, db' = DeleteKeys(db, P)
    PROVE  Rows' = [p \in Pk |-> IF p \in P THEN NULL ELSE Rows[p]]
BY DEF Rows, DeleteKeys

-----------------------------------------------------------------------------
(* The invariant the steps are mapped under: the calls are those of         *)
(* AtomicStore, keys and values are paired, what a transaction has read is   *)
(* current as long as it can write, and only typed calls assert a type.      *)

AtomicOps   == {"Get", "StrLen", "Set", "IncrBy", "Append", "Del", "Exists", "TTL", "Type",
                "ExpireAt", "FlushDB", "FlushAll"}
AtomicCalls == {c \in Call : c.op \in AtomicOps}
AssertInv(s) == At(s, "assert") => Current(s).op \in TypedOps
AtomicInv == /\ SnapshotInv
             /\ Paired(db)
             /\ \A s \in Session : CallsIn(s, AtomicCalls) /\ AssertInv(s)

\* A call is answered r.
LEMMA OverAnswers ==
    ASSUME NEW s \in Session, NEW r, Over(s, r)
    PROVE  res' = [res EXCEPT ![s] = r] /\ now' = now
BY DEF Over, Proceed

LEMMA PendingCall ==
    ASSUME AtomicInv, NEW s \in Session, ~At(s, "idle")
    PROVE  /\ Pending[s] = Current(s) /\ Pending[s] # NULL
           /\ Current(s) \in Call /\ Current(s).op \in AtomicOps
           /\ Current(s).pk \in Pk /\ Target(s) = Current(s).pk
           /\ Rows[Current(s).pk] = RowOf(db, Current(s).pk)
           /\ db \in Database /\ Paired(db) /\ TypeInv
<1>1. TypeInv /\ db \in Database /\ Paired(db)
  BY DEF AtomicInv, SnapshotInv, TypeInv, TypeOK
<1>2. /\ calls[s] # <<>> /\ Current(s) \in Call /\ Current(s).pk \in Pk
      /\ Target(s) = Current(s).pk
  BY <1>1, Running1 DEF Target
<1>3. Current(s) \in AtomicCalls
  BY <1>2, HeadTailProperties DEF AtomicInv, CallsIn, Current
<1>4. Current(s).op \in AtomicOps
  BY <1>3 DEF AtomicCalls
<1>5. Pending[s] = Current(s) /\ Pending[s] # NULL
  BY <1>2, AbsenceAssumption DEF Pending
<1>6. Rows[Current(s).pk] = RowOf(db, Current(s).pk)
  BY <1>2, RowsAre
<1>. QED
  BY <1>1, <1>2, <1>4, <1>5, <1>6

\* The statements of s make a step of its call in AtomicStore.
LEMMA DoIf ==
    ASSUME AtomicInv, NEW s \in Session, ~At(s, "idle"), now' = now,
           LET c   == Current(s)
               row == RowOf(db, c.pk)
           IN  \/ Atomic!DoGet(s, c, row) \/ Atomic!DoSet(s, c, row)
               \/ Atomic!DoUpdate(s, c, row) \/ Atomic!DoKey(s, c, row)
               \/ Atomic!DoFlush(s, c) \/ Atomic!Refuse(s, c, row)
    PROVE  Atomic!Do(s)
BY PendingCall DEF Atomic!Do

LEMMA AnswerIf ==
    ASSUME NEW s \in Session, NEW r, Over(s, r), db' = db
    PROVE  Atomic!Answer(s, r)
BY OverAnswers DEF Atomic!Answer, Rows

LEMMA EffectIf ==
    ASSUME AtomicInv, NEW s \in Session, ~At(s, "idle"), NEW r, Over(s, r), NEW row,
           Rows' = [Rows EXCEPT ![Target(s)] = row]
    PROVE  Atomic!Effect(s, row, r)
BY OverAnswers, PendingCall DEF Atomic!Effect

-----------------------------------------------------------------------------
(* A step of AtomicStore, or none it sees.                                 *)

Unseen   == UNCHANGED <<Rows, now, res>>
Maps(s)  == Atomic!Do(s) \/ Atomic!Reap \/ Unseen

LEMMA UnseenIf ==
    ASSUME NEW s, NEW l, NEW r, Goto(s, l, r), db' = db
    PROVE  Unseen
BY DEF Goto, Unseen, Rows

\* Expired rows go.
LEMMA ReapIf ==
    ASSUME db \in Database, NEW P, P \subseteq Pk, \A p \in P : Expired(db.keys[p], now),
           db' = DeleteKeys(db, P), now' = now, res' = res
    PROVE  Atomic!Reap
<1>1. P \in SUBSET {p \in Pk : Expired(Rows[p], now)}
  BY RowsAre, RowTimes
<1>2. Rows' = [p \in Pk |-> IF p \in P THEN NULL ELSE Rows[p]]
  BY RowsDeleted
<1>. QED
  BY <1>1, <1>2, SameValues DEF Atomic!Reap

LEMMA CommonStepMaps ==
    ASSUME AtomicInv, ~ReadFaults, NEW s \in Session, CommonStep(s)
    PROVE  Maps(s)
<1>. DEFINE c == Current(s)
            row == RowOf(db, c.pk)
<1>1. ~At(s, "idle")
  BY DEF CommonStep, StampExpiry, DeleteExpired, AssertType, FailStatement, LoseRead, At
<1>2. /\ c \in Call /\ c.op \in AtomicOps /\ c.pk \in Pk /\ Target(s) = c.pk
      /\ db \in Database /\ TypeInv
  BY <1>1, PendingCall
<1>3. CASE StampExpiry(s)
  BY <1>3 DEF StampExpiry, NoStatement, Maps, Unseen, Rows
<1>4. CASE DeleteExpired(s)
  <2>. DEFINE P == ExpiredKeys(db, {c.pk}, now)
  <2>1. P \subseteq Pk /\ \A p \in P : Expired(db.keys[p], now)
    BY <1>2 DEF ExpiredKeys
  <2>2. db' = DeleteKeys(db, P) /\ now' = now /\ res' = res
    BY <1>2, <1>4 DEF DeleteExpired, Commit, Goto
  <2>. QED
    BY <1>2, <2>1, <2>2, ReapIf DEF Maps
<1>5. CASE AssertType(s)
  <2>. DEFINE t == KeyType(db, c.pk, now)
  <2>1. db' = db
    BY <1>5 DEF AssertType, NoStatement
  <2>2. CASE t # NULL /\ t # WantedType(c.op)
    <3>1. EndCommand(s, WrongType)
      BY <1>5, <2>2 DEF AssertType
    <3>2. Over(s, WrongType)
      BY <3>1, ReturnOver
    <3>3. c.op \in StringOps
      <4>1. c.op \in TypedOps
        BY <1>5 DEF AssertType, AtomicInv, AssertInv
      <4>. QED
        BY <1>2, <4>1 DEF AtomicOps, TypedOps, StringOps, StringReads, StringTxs, ListOps,
           ListReads, ListPushes, ListEdits, HashOps, HashReads, SetOps, SetReads, ZSetOps,
           ZSetReads
    <3>4. WantedType(c.op) = "string"
      BY <3>3 DEF WantedType, StringOps, StringReads, StringTxs, ListOps,
           ListReads, ListPushes, ListEdits, HashOps, HashReads, SetOps, SetReads, ZSetOps,
           ZSetReads
    <3>5. Alive(db.keys[c.pk], now) /\ db.keys[c.pk].type # "string"
      BY <2>2, <3>4 DEF KeyType
    <3>6. Alive(row, now) /\ row.type # "string"
      <4>1. HasRow(db, c.pk)
        BY <3>5 DEF Alive, HasRow
      <4>. QED
        BY <1>2, <3>5, <4>1, RowTimes, RowType
    <3>7. Atomic!Answer(s, WrongType) /\ now' = now
      BY <2>1, <3>2, AnswerIf, OverAnswers
    <3>8. Atomic!Refuse(s, c, row)
      BY <3>3, <3>6, <3>7, SameValues, SameResults DEF Atomic!Refuse
    <3>. QED
      BY <1>1, <3>7, <3>8, DoIf DEF Maps
  <2>3. CASE ~(t # NULL /\ t # WantedType(c.op))
    <3>1. Goto(s, AfterAssert(c), NoRead)
      BY <1>5, <2>3 DEF AssertType
    <3>. QED
      BY <2>1, <3>1, UnseenIf DEF Maps
  <2>. QED
    BY <2>2, <2>3
<1>6. CASE FailStatement(s)
  <2>1. db' = db /\ Over(s, Failed)
    BY <1>6, ReturnOver DEF FailStatement
  <2>2. Atomic!Answer(s, Failed) /\ now' = now
    BY <2>1, AnswerIf, OverAnswers
  <2>3. Atomic!Refuse(s, c, row)
    BY <2>2, SameResults DEF Atomic!Refuse
  <2>. QED
    BY <1>1, <2>2, <2>3, DoIf DEF Maps
<1>7. ~LoseRead(s)
  BY DEF LoseRead
<1>. QED
  BY <1>3, <1>4, <1>5, <1>6, <1>7 DEF CommonStep

LEMMA KeyStepMaps ==
    ASSUME AtomicInv, NEW s \in Session, KeyStep(s)
    PROVE  Maps(s)
<1>. DEFINE c == Current(s)
            p == Target(s)
            row == RowOf(db, c.pk)
<1>1. ~At(s, "idle")
  BY DEF KeyStep, Del, Exists, ExpireAt, TTL, PersistRead, PersistWrite, TypeOf,
         RenameRead, RenameWrite, DBSize, Keys, RandomKey, FlushDB, FlushAll, Running, At
<1>2. /\ c \in Call /\ c.op \in AtomicOps /\ p \in Pk /\ p = c.pk
      /\ db \in Database /\ TypeInv
  BY <1>1, PendingCall
<1>3. row = NULL <=> ~HasRow(db, p)
  BY <1>2, RowType
<1>4. \A r : Return(s, r) => Over(s, r) /\ now' = now
  BY ReturnOver, OverAnswers
<1>5. \A r : Return(s, r) /\ db' = db => Atomic!Answer(s, r)
  BY <1>4, AnswerIf
<1>6. ASSUME Atomic!DoKey(s, c, row) \/ Atomic!DoFlush(s, c), now' = now
      PROVE  Maps(s)
  BY <1>1, <1>6, DoIf DEF Maps
<1>7. CASE Del(s)
  <2>1. db' = DeleteKeys(db, {p}) /\ Return(s, Bool(HasRow(db, p))) /\ c.op = "Del"
    BY <1>7 DEF Del, Commit, Running
  <2>2. Rows' = [Rows EXCEPT ![p] = NULL]
    <3>1. Rows' = [q \in Pk |-> IF q \in {p} THEN NULL ELSE Rows[q]]
      BY <2>1, RowsDeleted
    <3>. QED
      BY <3>1 DEF Rows
  <2>3. Bool(HasRow(db, p)) = Bool(row # NULL)
    BY <1>3 DEF Bool
  <2>4. Atomic!Effect(s, NULL, Bool(row # NULL))
    BY <1>1, <1>4, <2>1, <2>2, <2>3, EffectIf
  <2>5. Atomic!DoKey(s, c, row)
    BY <2>1, <2>4, SameResults DEF Atomic!DoKey
  <2>. QED
    BY <1>4, <1>6, <2>1, <2>5
<1>8. CASE Exists(s)
  <2>1. db' = db /\ Return(s, Bool(HasRow(db, p))) /\ c.op = "Exists"
    BY <1>8 DEF Exists, NoStatement, Running
  <2>2. Bool(HasRow(db, p)) = Bool(row # NULL)
    BY <1>3 DEF Bool
  <2>3. Atomic!DoKey(s, c, row)
    BY <1>5, <2>1, <2>2, SameResults DEF Atomic!DoKey
  <2>. QED
    BY <1>4, <1>6, <2>1, <2>3
<1>9. CASE TTL(s)
  <2>1. /\ db' = db /\ c.op = "TTL"
        /\ Return(s, Number(Remaining(db.keys[p], now, "MS" \in c.opt)))
    BY <1>9 DEF TTL, NoStatement, Running
  <2>2. Remaining(row, now, "MS" \in c.opt) = Remaining(db.keys[p], now, "MS" \in c.opt)
    BY <1>2, RowTimes
  <2>3. Atomic!DoKey(s, c, row)
    BY <1>5, <2>1, <2>2, SameResults, SameValues DEF Atomic!DoKey
  <2>. QED
    BY <1>4, <1>6, <2>1, <2>3
<1>10. CASE TypeOf(s)
  <2>1. db' = db /\ Return(s, TypeIs(KeyType(db, p, now))) /\ c.op = "Type"
    BY <1>10 DEF TypeOf, NoStatement, Running
  <2>2. KeyType(db, p, now) = IF Alive(row, now) THEN row.type ELSE NULL
    <3>1. Alive(row, now) <=> Alive(db.keys[p], now)
      BY <1>2, RowTimes
    <3>2. Alive(row, now) => row.type = db.keys[p].type
      BY <1>2, <1>3, RowType DEF Alive
    <3>. QED
      BY <3>1, <3>2 DEF KeyType
  <2>3. Atomic!Answer(s, Atomic!TypeIs(IF Atomic!Alive(row, now) THEN row.type ELSE NULL))
    BY <1>5, <2>1, <2>2, SameResults, SameValues
  <2>4. Atomic!DoKey(s, c, row)
    BY <2>1, <2>3 DEF Atomic!DoKey
  <2>. QED
    BY <1>4, <1>6, <2>1, <2>4
<1>11. CASE ExpireAt(s)
  <2>1. /\ db' = UpdateExpiry(db, p, c.exp) /\ c.op = "ExpireAt"
        /\ Return(s, Bool(HasRow(db, p)))
    BY <1>11 DEF ExpireAt, Commit, Running
  <2>2. CASE HasRow(db, p)
    <3>. DEFINE new == [row EXCEPT !.exp = c.exp]
    <3>1. /\ db'.strings = db.strings
          /\ \A q \in Pk \ {p} : db'.keys[q] = db.keys[q]
          /\ db'.keys[p] = [db.keys[p] EXCEPT !.exp = c.exp]
      BY <1>2, <2>1, <2>2 DEF UpdateExpiry, Database
    <3>2. db.keys[p] \in KeyRow /\ c.exp \in Time
      BY <1>2, <2>2 DEF HasRow, Database, Call
    <3>3. db'.keys[p] \in KeyRow /\ db'.keys[p].type = db.keys[p].type /\ db'.keys[p].exp = c.exp
      BY <3>1, <3>2 DEF KeyRow
    <3>4. db'.keys[p] # NULL
      BY <3>3, RowAssumption
    <3>5. row = [type |-> db.keys[p].type, exp |-> db.keys[p].exp, val |-> db.strings[p]]
      BY <1>2, <2>2 DEF RowOf, HasRow
    <3>6. RowOf(db', p) = new
      BY <3>1, <3>3, <3>4, <3>5 DEF RowOf
    <3>. HIDE DEF new
    <3>7. Rows' = [Rows EXCEPT ![p] = new]
      BY <1>2, <3>1, <3>6, RowsExcept
    <3>8. Bool(HasRow(db, p)) = Bool(TRUE) /\ row # NULL
      BY <1>3, <2>2 DEF Bool
    <3>9. Atomic!Effect(s, new, Bool(TRUE))
      BY <1>1, <1>4, <2>1, <3>7, <3>8, EffectIf
    <3>10. Atomic!DoKey(s, c, row)
      BY <2>1, <3>8, <3>9, SameResults DEF Atomic!DoKey, new
    <3>. QED
      BY <1>4, <1>6, <2>1, <3>10
  <2>3. CASE ~HasRow(db, p)
    <3>1. db' = db /\ Bool(HasRow(db, p)) = Bool(FALSE) /\ row = NULL
      BY <1>3, <2>1, <2>3 DEF UpdateExpiry, Bool
    <3>2. Atomic!DoKey(s, c, row)
      BY <1>5, <2>1, <3>1, SameResults DEF Atomic!DoKey
    <3>. QED
      BY <1>4, <1>6, <2>1, <3>2
  <2>. QED
    BY <2>2, <2>3
<1>12. CASE FlushDB(s) \/ FlushAll(s)
  <2>. DEFINE P == {q \in Pk : c.op = "FlushAll" \/ q[2] = c.pk[2]}
  <2>1. c.op \in {"FlushDB", "FlushAll"} /\ Return(s, Done)
    BY <1>12 DEF FlushDB, FlushAll, Running
  <2>2. db' = DeleteKeys(db, P)
    <3>1. CASE FlushDB(s)
      <4>1. c.op = "FlushDB" /\ db' = DeleteKeys(db, {q \in Pk : q[2] = Target(s)[2]})
        BY <3>1 DEF FlushDB, Commit, Running
      <4>2. P = {q \in Pk : q[2] = Target(s)[2]}
        BY <1>2, <4>1
      <4>. QED
        BY <4>1, <4>2, Zenon
    <3>2. CASE FlushAll(s)
      <4>1. c.op = "FlushAll" /\ db' = DeleteKeys(db, Pk)
        BY <3>2 DEF FlushAll, Commit, Running
      <4>2. P = Pk
        BY <4>1
      <4>. QED
        BY <4>1, <4>2, Zenon
    <3>. QED
      BY <1>12, <3>1, <3>2
  <2>3. Rows' = [q \in Pk |-> IF q \in P THEN NULL ELSE Rows[q]]
    BY <2>2, RowsDeleted
  <2>4. Rows' = [q \in Pk |-> IF c.op = "FlushAll" \/ q[2] = c.pk[2] THEN NULL ELSE Rows[q]]
    BY <2>3
  <2>5. res' = [res EXCEPT ![s] = Done]
    BY <1>4, <2>1, OverAnswers
  <2>6. Atomic!DoFlush(s, c)
    BY <2>1, <2>4, <2>5, SameResults, SameValues DEF Atomic!DoFlush
  <2>. QED
    BY <1>4, <1>6, <2>1, <2>6
<1>13. ~(PersistRead(s) \/ PersistWrite(s) \/ RenameRead(s) \/ RenameWrite(s)
         \/ DBSize(s) \/ Keys(s) \/ RandomKey(s))
  BY <1>2 DEF PersistRead, PersistWrite, RenameRead, RenameWrite, DBSize, Keys, RandomKey,
     Running, AtomicOps
<1>. QED
  BY <1>7, <1>8, <1>9, <1>10, <1>11, <1>12, <1>13 DEF KeyStep

\* The row IncrBy and Append leave, when they replace the value that is there.
LEMMA ReplacedRow ==
    ASSUME NEW d \in Database, Paired(d), NEW p \in Pk, NEW v
    PROVE  LET e   == Replaced(d, p, d.strings[p], v)
               row == RowOf(d, p)
           IN  /\ RowOf(e, p) = Atomic!StringRow(IF row = NULL THEN NULL ELSE row.exp, v)
               /\ \A q \in Pk \ {p} : e.keys[q] = d.keys[q] /\ e.strings[q] = d.strings[q]
<1>. DEFINE e == Replaced(d, p, d.strings[p], v)
            x == IF HasRow(d, p) THEN d.keys[p].exp ELSE NULL
            k == [type |-> "string", exp |-> x]
<1>1. /\ (IF RowOf(d, p) = NULL THEN NULL ELSE RowOf(d, p).exp) = x
      /\ HasRow(d, p) => d.keys[p] \in KeyRow
  BY RowType DEF HasRow, Database
<1>2. k # NULL /\ k.type = "string" /\ k.exp = x
  <2>1. x \in Time
    BY <1>1 DEF KeyRow, Time
  <2>2. k \in KeyRow
    BY <2>1 DEF KeyRow, Type
  <2>. QED
    BY <2>2, RowAssumption
<1>3. CASE d.strings[p] # NULL
  <2>1. HasRow(d, p) /\ d.keys[p].type = "string" /\ d.keys[p].exp = x /\ d.keys[p] # NULL
    BY <1>3 DEF Paired, PairedAt, HasRow
  <2>2. e = [d EXCEPT !.strings[p] = v]
    BY <1>3 DEF Replaced, UpdateString, PutString
  <2>3. /\ e.keys = d.keys /\ e.strings[p] = v
        /\ \A q \in Pk \ {p} : e.strings[q] = d.strings[q]
    BY <2>2 DEF Database
  <2>. HIDE DEF x, e
  <2>4. RowOf(e, p) = Atomic!StringRow(x, v)
    BY <2>1, <2>3 DEF RowOf, Atomic!StringRow
  <2>. QED
    BY <1>1, <2>3, <2>4 DEF e
<1>4. CASE d.strings[p] = NULL
  <2>. HIDE DEF k
  <2>1. e = PutString([d EXCEPT !.keys[p] = k], p, v)
    BY <1>4 DEF Replaced, UpsertKeyType, k
  <2>2. /\ e.keys[p] = k /\ e.strings[p] = v
        /\ \A q \in Pk \ {p} : e.keys[q] = d.keys[q] /\ e.strings[q] = d.strings[q]
    BY <2>1 DEF PutString, Database
  <2>. HIDE DEF x, e
  <2>3. RowOf(e, p) = Atomic!StringRow(x, v)
    BY <1>2, <2>2 DEF RowOf, Atomic!StringRow
  <2>. QED
    BY <1>1, <2>2, <2>3 DEF e
<1>. QED
  BY <1>3, <1>4

\* The row Set leaves.
LEMMA StoredRow ==
    ASSUME NEW d \in Database, NEW c \in Call, c.pk \in Pk
    PROVE  LET e == Stored(d, c)
           IN  /\ RowOf(e, c.pk) = Atomic!StringRow(c.exp, c.val)
               /\ \A q \in Pk \ {c.pk} : e.keys[q] = d.keys[q] /\ e.strings[q] = d.strings[q]
<1>. DEFINE e == Stored(d, c)
            k == [type |-> "string", exp |-> c.exp]
<1>1. k # NULL /\ k.type = "string" /\ k.exp = c.exp
  <2>1. k \in KeyRow
    BY DEF KeyRow, Type, Call
  <2>. QED
    BY <2>1, RowAssumption
<1>. HIDE DEF k
<1>2. e = PutString([d EXCEPT !.keys[c.pk] = k], c.pk, c.val)
  BY DEF Stored, UpsertKey, k
<1>3. /\ e.keys[c.pk] = k /\ e.strings[c.pk] = c.val
      /\ \A q \in Pk \ {c.pk} : e.keys[q] = d.keys[q] /\ e.strings[q] = d.strings[q]
  BY <1>2 DEF PutString, Database
<1>. HIDE DEF e
<1>4. RowOf(e, c.pk) = Atomic!StringRow(c.exp, c.val)
  BY <1>1, <1>3 DEF RowOf, Atomic!StringRow
<1>. QED
  BY <1>3, <1>4 DEF e

LEMMA StringStepMaps ==
    ASSUME AtomicInv, ~ReadFaults, Backend = "sqlite", NEW s \in Session, StringStep(s)
    PROVE  Maps(s)
<1>. DEFINE c == Current(s)
            p == Target(s)
            row == RowOf(db, c.pk)
            v == db.strings[p]
<1>1. ~At(s, "idle")
  BY DEF StringStep, Get, StrLen, SetRead, SetWrite, IncrByRead, IncrByWrite,
         AppendRead, AppendWrite, Running, At
<1>2. /\ c \in Call /\ c.op \in AtomicOps /\ p \in Pk /\ p = c.pk
      /\ db \in Database /\ TypeInv /\ Paired(db) /\ SnapshotInv
      /\ Pending[s] = c /\ Rows[p] = row
  BY <1>1, PendingCall DEF AtomicInv
<1>3. /\ row = NULL <=> ~HasRow(db, p)
      /\ Atomic!ValueOf(row) = v
      /\ v # NULL => row.val = v
      /\ Alive(row, now) <=> Alive(db.keys[p], now)
  <2>1. Atomic!ValueOf(row) = v
    BY <1>2, RowValue
  <2>. QED
    BY <1>2, <2>1, RowType, RowTimes DEF Atomic!ValueOf
<1>4. \A r : Return(s, r) => Over(s, r) /\ now' = now
  BY ReturnOver, OverAnswers
<1>5. \A r : Return(s, r) /\ db' = db => Atomic!Answer(s, r)
  BY <1>4, AnswerIf
<1>6. ASSUME \/ Atomic!DoGet(s, c, row) \/ Atomic!DoSet(s, c, row)
             \/ Atomic!DoUpdate(s, c, row) \/ Atomic!Refuse(s, c, row),
             now' = now
      PROVE  Maps(s)
  BY <1>1, <1>6, DoIf DEF Maps
<1>7. CASE Get(s)
  <2>1. db' = db /\ Return(s, IF v = NULL THEN Nil ELSE Bulk(v)) /\ c.op = "Get"
    BY <1>7 DEF Get, NoStatement, Running
  <2>2. Atomic!Answer(s, IF v = NULL THEN Nil ELSE Bulk(v))
    BY <1>5, <2>1
  <2>3. (IF Atomic!ValueOf(row) = NULL THEN Atomic!Nil ELSE Atomic!Bulk(row.val))
        = (IF v = NULL THEN Nil ELSE Bulk(v))
    BY <1>3, SameResults
  <2>4. Atomic!DoGet(s, c, row)
    BY <2>1, <2>2, <2>3 DEF Atomic!DoGet
  <2>. QED
    BY <1>4, <1>6, <2>1, <2>4
<1>8. CASE StrLen(s)
  <2>1. /\ db' = db /\ c.op = "StrLen"
        /\ Return(s, Number(IF v = NULL THEN 0 ELSE Len(v)))
    BY <1>8 DEF StrLen, NoStatement, Running
  <2>2. Atomic!Answer(s, Number(IF v = NULL THEN 0 ELSE Len(v)))
    BY <1>5, <2>1
  <2>3. Atomic!Number(IF Atomic!ValueOf(row) = NULL THEN 0 ELSE Len(row.val))
        = Number(IF v = NULL THEN 0 ELSE Len(v))
    BY <1>3, SameResults
  <2>4. Atomic!DoGet(s, c, row)
    BY <2>1, <2>2, <2>3 DEF Atomic!DoGet
  <2>. QED
    BY <1>4, <1>6, <2>1, <2>4
<1>9. CASE SetRead(s)
  <2>1. c.op = "Set" /\ db' = db
    BY <1>9 DEF SetRead, Running, NoStatement, Snapshot
  <2>. DEFINE exists == Alive(db.keys[c.pk], now)
              refused == ("NX" \in c.opt /\ exists) \/ ("XX" \in c.opt /\ ~exists)
  <2>2. CASE refused
    <3>1. Return(s, Nil)
      BY <1>9, <2>2 DEF SetRead
    <3>2. \/ "NX" \in c.opt /\ Atomic!Alive(row, now)
          \/ "XX" \in c.opt /\ ~Atomic!Alive(row, now)
      BY <1>2, <1>3, <2>2, SameValues
    <3>3. Atomic!DoSet(s, c, row)
      BY <1>5, <2>1, <3>1, <3>2, SameResults DEF Atomic!DoSet
    <3>. QED
      BY <1>4, <1>6, <3>1, <3>3
  <2>3. CASE ~refused
    <3>1. Goto(s, "write", [NoRead EXCEPT !.exists = exists])
      BY <1>9, <2>3 DEF SetRead
    <3>. QED
      BY <2>1, <3>1, UnseenIf DEF Maps
  <2>. QED
    BY <2>2, <2>3
<1>10. CASE SetWrite(s)
  <2>1. /\ c.op = "Set" /\ At(s, "write") /\ CanWrite(s)
        /\ db' = Stored(db, c) /\ Return(s, Done)
    BY <1>10 DEF SetWrite, Running, Commit
  <2>2. StillTrue(c, seen[s].val)
    <3>1. Running(s, StringTxs, "write") /\ ReadInv(s)
      BY <1>2, <2>1 DEF Running, StringTxs, SnapshotInv
    <3>. QED
      BY <2>1, <3>1 DEF ReadInv, CanWrite
  <2>3. /\ "NX" \in c.opt => ~Atomic!Alive(row, now)
        /\ "XX" \in c.opt => row # NULL
    BY <1>2, <1>3, <2>1, <2>2, SameValues DEF StillTrue
  <2>. DEFINE new == Atomic!StringRow(c.exp, c.val)
  <2>4. Rows' = [Rows EXCEPT ![p] = new]
    <3>1. /\ RowOf(db', p) = new
          /\ \A q \in Pk \ {p} : db'.keys[q] = db.keys[q] /\ db'.strings[q] = db.strings[q]
      BY <1>2, <2>1, StoredRow
    <3>. HIDE DEF new
    <3>. QED
      BY <1>2, <3>1, RowsExcept
  <2>. HIDE DEF new
  <2>5. Atomic!Effect(s, new, Done)
    BY <1>1, <1>4, <2>1, <2>4, EffectIf
  <2>6. Atomic!DoSet(s, c, row)
    BY <2>1, <2>3, <2>5, SameResults DEF Atomic!DoSet, new
  <2>. QED
    BY <1>4, <1>6, <2>1, <2>6
<1>11. CASE IncrByRead(s)
  <2>1. db' = db
    BY <1>11 DEF IncrByRead, NoStatement, Snapshot
  <2>2. CASE v # NULL /\ ~IsInt(v)
    <3>1. EndCommand(s, Failed)
      BY <1>11, <2>2 DEF IncrByRead
    <3>2. Over(s, Failed)
      BY <3>1, ReturnOver
    <3>3. Atomic!Answer(s, Failed) /\ now' = now
      BY <2>1, <3>2, AnswerIf, OverAnswers
    <3>. QED
      BY <1>6, <3>3, SameResults DEF Atomic!Refuse
  <2>3. CASE ~(v # NULL /\ ~IsInt(v))
    <3>1. Goto(s, "write", [NoRead EXCEPT !.val = v])
      BY <1>11, <2>3 DEF IncrByRead
    <3>. QED
      BY <2>1, <3>1, UnseenIf DEF Maps
  <2>. QED
    BY <2>2, <2>3
<1>12. CASE AppendRead(s)
  BY <1>12, UnseenIf DEF AppendRead, Snapshot, Maps
<1>13. ASSUME NEW new, NEW r, db' = Replaced(db, p, v, new), Return(s, r)
       PROVE  Atomic!Update(s, new, r)
  <2>. DEFINE stored == Atomic!StringRow(IF row = NULL THEN NULL ELSE row.exp, new)
  <2>1. /\ RowOf(db', p) = stored
        /\ \A q \in Pk \ {p} : db'.keys[q] = db.keys[q] /\ db'.strings[q] = db.strings[q]
    BY <1>2, <1>13, ReplacedRow
  <2>. HIDE DEF stored
  <2>2. Rows' = [Rows EXCEPT ![p] = stored]
    BY <1>2, <2>1, RowsExcept
  <2>3. Atomic!Effect(s, stored, r)
    BY <1>1, <1>4, <1>13, <2>2, EffectIf
  <2>. QED
    BY <1>2, <2>3 DEF Atomic!Update, stored
<1>14. CASE IncrByWrite(s)
  <2>. DEFINE n == Incremented(v, c.n)
  <2>1. c.op = "IncrBy" /\ seen[s].val = v
    BY <1>2, <1>14, ReadIsCurrent DEF IncrByWrite, Running
  <2>2. v # NULL => IsInt(v)
    BY <1>2, <1>14, <2>1 DEF IncrByWrite, Running, TypeInv, Ready, WriteReady
  <2>3. db' = Replaced(db, p, v, FormatInt(n)) /\ Return(s, Number(n))
    BY <1>14, <2>1 DEF IncrByWrite, Commit
  <2>4. Atomic!Update(s, FormatInt(n), Number(n))
    BY <1>13, <2>3
  <2>5. Atomic!Incremented(Atomic!ValueOf(row), c.n) = n
    BY <1>3, SameValues
  <2>. HIDE DEF n
  <2>6. Atomic!ValueOf(row) # NULL => Atomic!IsInt(row.val)
    BY <1>3, <2>2, SameValues
  <2>7. Atomic!DoUpdate(s, c, row)
    BY <2>1, <2>4, <2>5, <2>6, SameResults, SameValues DEF Atomic!DoUpdate
  <2>. QED
    BY <1>4, <1>6, <2>3, <2>7
<1>15. CASE AppendWrite(s)
  <2>. DEFINE w == Appended(v, c.val)
  <2>1. c.op = "Append" /\ seen[s].val = v
    BY <1>2, <1>15, ReadIsCurrent DEF AppendWrite, Running
  <2>2. db' = Replaced(db, p, v, w) /\ Return(s, Number(Len(w)))
    BY <1>15, <2>1 DEF AppendWrite, Commit
  <2>3. Atomic!Appended(Atomic!ValueOf(row), c.val) = w
    BY <1>3, SameValues
  <2>. HIDE DEF w
  <2>4. Atomic!Update(s, w, Number(Len(w)))
    BY <1>13, <2>2
  <2>5. Atomic!DoUpdate(s, c, row)
    BY <2>1, <2>3, <2>4, SameResults DEF Atomic!DoUpdate
  <2>. QED
    BY <1>4, <1>6, <2>2, <2>5
<1>. QED
  BY <1>7, <1>8, <1>9, <1>10, <1>11, <1>12, <1>14, <1>15 DEF StringStep

\* The commands of the other types have no statement to run.
LEMMA StepMaps ==
    ASSUME AtomicInv, ~ReadFaults, Backend = "sqlite", NEW s \in Session, Step(s)
    PROVE  Maps(s)
<1>1. CASE CommonStep(s) \/ KeyStep(s) \/ StringStep(s)
  BY <1>1, CommonStepMaps, KeyStepMaps, StringStepMaps
<1>2. At(s, "idle") \/ Current(s).op \in AtomicOps
  BY PendingCall
<1>3. ~ListStep(s)
  BY <1>2 DEF ListStep, LEnsure, Ensure, LRead, LRewrite, Running, At, AtomicOps, ListOps,
     ListReads, ListPushes, ListEdits
<1>4. ~HashStep(s)
  BY <1>2 DEF HashStep, HEnsure, Ensure, HSetCount, HSetCountLost, HSetAsks, HSetWrite, HDel,
     HGet, HExists, HGetAll, HKeys, HVals, HLen, AtMember, Running, At, AtomicOps
<1>5. ~SetStep(s)
  BY <1>2 DEF SetStep, SEnsure, Ensure, SAdd, SRem, SIsMember, SCard, SMembers, SUnion,
     SInter, SDiff, AtMember, Running, At, AtomicOps
<1>6. ~ZSetStep(s)
  BY <1>2 DEF ZSetStep, ZEnsure, Ensure, ZAddCount, ZAddCountLost, ZAddAsks, ZAddWrite,
     ZAddReturn, ZIncrByRead, ZIncrByWrite, ZRem, ZScore, ZCard, ZRankCount, ZRankExists,
     ZRankLost, ZRangeCount, ZRangeRows, ZRangeLost, ZRangeByScore, ZCount, AtMember,
     Running, At, AtomicOps
<1>. QED
  BY <1>1, <1>3, <1>4, <1>5, <1>6 DEF Step

LEMMA NextMaps ==
    ASSUME AtomicInv, ~ReadFaults, Backend = "sqlite", [Next]_vars
    PROVE  [Atomic!Next]_<<Rows, now, res>>
<1>. USE DEF Atomic!Next
<1>0. db \in Database /\ now \in Int
  BY DEF AtomicInv, SnapshotInv, TypeInv, TypeOK
<1>1. CASE \E s \in Session : Step(s)
  BY <1>1, StepMaps DEF Maps, Unseen
<1>2. ASSUME NEW s \in Session, NEW r \in Requests, Begin(s, r)
      PROVE  Atomic!Forget
  <2>1. db' = db /\ Over(s, NoResult)
    BY <1>2 DEF Begin, NoStatement, Over
  <2>2. res' = [res EXCEPT ![s] = NoResult] /\ now' = now
    BY <2>1, OverAnswers
  <2>3. res' = [t \in Session |-> IF t \in {s} THEN NoResult ELSE res[t]]
    BY <2>2 DEF AtomicInv, SnapshotInv, TypeInv, TypeOK
  <2>4. {s} \in SUBSET Session /\ Rows' = Rows
    BY <2>1 DEF Rows
  <2>. QED
    BY <2>2, <2>3, <2>4, SameResults DEF Atomic!Forget
<1>3. CASE Tick
  BY <1>0, <1>3 DEF Tick, Atomic!Pass, Rows
<1>4. CASE SweepExpired
  <2>. DEFINE P == ExpiredKeys(db, Pk, now)
  <2>1. P \subseteq Pk /\ \A p \in P : Expired(db.keys[p], now)
    BY DEF ExpiredKeys
  <2>2. db' = DeleteKeys(db, P) /\ now' = now /\ res' = res
    BY <1>4 DEF SweepExpired
  <2>. QED
    BY <1>0, <2>1, <2>2, ReapIf
<1>5. CASE Crash
  <2>1. db' = db /\ now' = now /\ res' = [s \in Session |-> NoResult]
    BY <1>5 DEF Crash, OfAll
  <2>2. res' = [t \in Session |-> IF t \in Session THEN NoResult ELSE res[t]]
    BY <2>1
  <2>3. Session \in SUBSET Session /\ Rows' = Rows
    BY <2>1 DEF Rows
  <2>4. Atomic!Forget
    BY <2>1, <2>2, <2>3, SameResults DEF Atomic!Forget
  <2>. QED
    BY <2>4
<1>6. CASE UNCHANGED vars
  BY <1>6 DEF vars, Rows
<1>. QED
  BY <1>1, <1>2, <1>3, <1>4, <1>5, <1>6 DEF Next, Environment

-----------------------------------------------------------------------------
(* The invariant holds.                                                    *)

LEMMA AtomicCallsFacts ==
    /\ Stampable(AtomicCalls) /\ AtomicCalls \subseteq NoRename
    /\ RequestsIn(AtomicCalls) => RequestsIn(NoRename)
<1>1. ASSUME NEW c \in AtomicCalls, NEW e \in Int64
      PROVE  [c EXCEPT !.exp = e] \in AtomicCalls
  <2>1. c \in Call /\ e \in Time
    BY DEF AtomicCalls, Time
  <2>2. [c EXCEPT !.exp = e] \in Call /\ [c EXCEPT !.exp = e].op = c.op
    BY <2>1 DEF Call
  <2>. QED
    BY <2>2 DEF AtomicCalls
<1>2. AtomicCalls \subseteq NoRename
  BY DEF AtomicCalls, AtomicOps, NoRename
<1>. QED
  BY <1>1, <1>2 DEF Stampable, RequestsIn

\* assertType is reached from deleteExpired only.
LEMMA AssertStep ==
    ASSUME TypeInv, NEW s \in Session, Shape(s) \/ \E r : Over(s, r)
    PROVE  AssertInv(s)'
<1>1. CASE pc'[s] # "assert"
  BY <1>1 DEF AssertInv, At
<1>2. CASE StampExpiry(s)
  BY <1>1, <1>2, EntryPC DEF StampExpiry, TypeInv, TypeOK
<1>3. CASE DeleteExpired(s)
  <2>1. pc'[s] = AfterExpire(Current(s)) /\ Current(s)' = Current(s)
    BY <1>3, GotoMoves DEF DeleteExpired, Current
  <2>. QED
    BY <2>1 DEF AfterExpire, AssertInv, At
<1>4. CASE \E l \in {"ensure", "stmt", "write"} : \E r : Goto(s, l, r)
  BY <1>1, <1>4, GotoMoves
<1>5. CASE \E r : Over(s, r)
  <2>1. PICK cs, ms, r : Proceed(s, cs, ms, r)
    BY <1>5 DEF Over
  <2>2. pc'[s] = "idle" \/ pc'[s] = Entry(Head(cs))
    BY <2>1, ProceedMoves
  <2>. QED
    BY <1>1, <2>2 DEF Entry, AfterStamp
<1>. QED
  BY <1>2, <1>3, <1>4, <1>5 DEF Shape, Moves, ReadsNext, ReadsValue, ReadsSet, ReadsLost,
     ReadsOther

LEMMA AssertNext ==
    ASSUME TypeInv, \A t \in Session : AssertInv(t), [Next]_vars, NEW t \in Session
    PROVE  AssertInv(t)'
<1>1. ASSUME NEW s \in Session, Step(s) \/ \E r \in Requests : Begin(s, r)
      PROVE  AssertInv(t)'
  <2>1. Shape(s) \/ \E r : Over(s, r)
    BY <1>1, StepShape DEF Begin, Over
  <2>2. CASE t = s
    BY <2>1, <2>2, AssertStep
  <2>3. CASE t # s
    <3>1. UNCHANGED Locals(t)
      BY <2>1, <2>3, ShapeOthers
    <3>. QED
      BY <3>1 DEF Locals, AssertInv, At, Current
  <2>. QED
    BY <2>2, <2>3
<1>2. CASE Crash
  BY <1>2 DEF Crash, OfAll, AssertInv, At
<1>3. CASE UNCHANGED <<pc, calls>>
  BY <1>3 DEF AssertInv, At, Current
<1>. QED
  BY <1>1, <1>2, <1>3 DEF Next, Environment, Tick, SweepExpired, vars

LEMMA AtomicInvStep ==
    ASSUME RequestsIn(AtomicCalls), AtomicInv, [Next]_vars
    PROVE  AtomicInv'
<1>1. TypeInv /\ SnapshotInv /\ Paired(db)
  BY DEF AtomicInv, SnapshotInv
<1>2. SnapshotInv'
  BY <1>1, SnapshotInvStep
<1>3. \A t \in Session : CallsIn(t, AtomicCalls)'
  BY <1>1, CallsInNext, AtomicCallsFacts DEF AtomicInv
<1>4. \A t \in Session : AssertInv(t)'
  BY <1>1, AssertNext DEF AtomicInv
<1>5. Paired(db')
  <2>1. \A t \in Session : CallsIn(t, NoRename)
    BY AtomicCallsFacts DEF AtomicInv, CallsIn
  <2>2. PairInv
    BY <1>1, <2>1 DEF PairInv
  <2>. QED
    BY <2>2, PairInvStep, AtomicCallsFacts DEF PairInv
<1>. QED
  BY <1>2, <1>3, <1>4, <1>5 DEF AtomicInv

LEMMA AtomicInvInit ==
    ASSUME \A d \in InitDbs : Paired(d)
    PROVE  StoreInit => AtomicInv /\ Atomic!Init
<1>. SUFFICES ASSUME StoreInit PROVE AtomicInv /\ Atomic!Init
  OBVIOUS
<1>1. SnapshotInv
  BY SnapshotInvInit
<1>2. \A t \in Session : CallsIn(t, AtomicCalls) /\ AssertInv(t)
  BY DEF StoreInit, OfAll, CallsIn, AssertInv, At
<1>3. Paired(db)
  BY DEF StoreInit
<1>4. Rows \in [Pk -> {NULL} \cup Atomic!Row]
  <2>1. db \in Database
    BY <1>1 DEF SnapshotInv, TypeInv, TypeOK
  <2>. QED
    BY <2>1, RowsAre, RowType
<1>5. Atomic!Init
  BY <1>4, SameResults, SameValues DEF Atomic!Init, StoreInit, OfAll
<1>. QED
  BY <1>1, <1>2, <1>3, <1>5 DEF AtomicInv

(***************************************************************************)
(* The store implements AtomicStore: on SQLite, as long as no read error   *)
(* is dropped, GET, STRLEN, SET, INCRBY, APPEND, DEL, EXISTS, EXPIRE, TTL, *)
(* TYPE and the flushes, made of several statements each, take effect at   *)
(* one of them and answer from the rows of that moment, for any number of  *)
(* connections, whatever fails, expires, is swept or crashes in between    *)
(* (internal/store/store.go, strings.go).                                  *)
(***************************************************************************)
THEOREM StoreIsAtomic ==
    ASSUME Backend = "sqlite", ~ReadFaults, RequestsIn(AtomicCalls),
           \A d \in InitDbs : Paired(d)
    PROVE  Spec => CallsAreAtomic
<1>1. AtomicInv /\ [Next]_vars => AtomicInv'
  BY AtomicInvStep
<1>2. AtomicInv /\ [Next]_vars => [Atomic!Next]_<<Rows, now, res>>
  BY NextMaps
<1>. QED
  BY <1>1, <1>2, AtomicInvInit, PTL DEF Spec, CallsAreAtomic, Atomic!Spec
=============================================================================
