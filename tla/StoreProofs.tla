----------------------------- MODULE StoreProofs -----------------------------
(***************************************************************************)
(* Type correctness of Store and the invariants that hold on both backends. *)
(***************************************************************************)
EXTENDS Store, FiniteSetTheorems, SequenceTheorems, TLAPS

-----------------------------------------------------------------------------
(* The operators the model is built from.                                  *)

\* An int64 sum or difference, wrapped once, is an int64 again.
LEMMA WrapInInt64 ==
    ASSUME NEW x \in Int64, NEW y \in Int64
    PROVE  Wrap(x + y) \in Int64
BY MaxIntAssumption DEF Wrap, Int64, MinInt

\* Every statement takes a database to a database.
LEMMA DeleteKeysDatabase ==
    ASSUME NEW d \in Database, NEW P
    PROVE  DeleteKeys(d, P) \in Database
<1>1. /\ d.keys \in [Pk -> {NULL} \cup KeyRow]
      /\ d.strings \in [Pk -> {NULL} \cup Value]
      /\ d.lists \in [Pk -> Seq(Value)]
      /\ d.hashes \in [Pk -> Fields]
      /\ d.sets \in [Pk -> SUBSET Member]
      /\ d.zsets \in [Pk -> Scores]
  BY DEF Database
<1>2. /\ NoFields \in Fields /\ NoFields \in Scores
      /\ <<>> \in Seq(Value)
  BY DEF NoFields, Fields, Scores
<1>. QED
  BY <1>1, <1>2 DEF Database, DeleteKeys

LEMMA UpsertKeyDatabase ==
    ASSUME NEW d \in Database, NEW p \in Pk, NEW t \in Type, NEW e \in Time
    PROVE  UpsertKey(d, p, t, e) \in Database
BY DEF Database, UpsertKey, KeyRow

LEMMA PutStringDatabase ==
    ASSUME NEW d \in Database, NEW p \in Pk, NEW v \in Value
    PROVE  PutString(d, p, v) \in Database
BY DEF Database, PutString

LEMMA UpsertKeyTypeDatabase ==
    ASSUME NEW d \in Database, NEW p \in Pk, NEW t \in Type
    PROVE  UpsertKeyType(d, p, t) \in Database
<1>1. d.keys[p] # NULL => d.keys[p].exp \in Time
  BY DEF Database, KeyRow
<1>. QED
  BY <1>1 DEF Database, UpsertKeyType, HasRow, KeyRow, Time

LEMMA EnsureKeyDatabase ==
    ASSUME NEW d \in Database, NEW p \in Pk, NEW t \in Type
    PROVE  EnsureKey(d, p, t) \in Database
BY DEF Database, EnsureKey, HasRow, KeyRow, Time

LEMMA UpdateExpiryDatabase ==
    ASSUME NEW d \in Database, NEW p \in Pk, NEW e \in Time
    PROVE  UpdateExpiry(d, p, e) \in Database
<1>1. CASE HasRow(d, p)
  <2>1. d.keys[p] \in KeyRow
    BY <1>1 DEF HasRow, Database
  <2>2. [d.keys[p] EXCEPT !.exp = e] \in KeyRow
    BY <2>1 DEF KeyRow
  <2>. QED
    BY <1>1, <2>2 DEF UpdateExpiry, Database
<1>2. CASE ~HasRow(d, p)
  BY <1>2 DEF UpdateExpiry
<1>. QED
  BY <1>1, <1>2

LEMMA CopyDataDatabase ==
    ASSUME NEW d \in Database, NEW t \in Type, NEW p \in Pk, NEW q \in Pk
    PROVE  CopyData(d, t, p, q) \in Database
<1>1. CASE t = "string"
  BY <1>1 DEF Database, CopyData
<1>2. CASE t = "list"
  BY <1>2 DEF Database, CopyData
<1>3. CASE t = "hash"
  BY <1>3 DEF Database, CopyData
<1>4. CASE t = "set"
  BY <1>4 DEF Database, CopyData
<1>5. CASE t = "zset"
  BY <1>5 DEF Database, CopyData
<1>. QED
  BY <1>1, <1>2, <1>3, <1>4, <1>5 DEF Type

LEMMA RewrittenDatabase ==
    ASSUME NEW d \in Database, NEW p \in Pk, NEW l \in Seq(Value)
    PROVE  Rewritten(d, p, l) \in Database
<1>1. CASE l = <<>>
  BY <1>1, DeleteKeysDatabase DEF Rewritten
<1>2. CASE l # <<>>
  BY <1>2 DEF Rewritten, Database
<1>. QED
  BY <1>1, <1>2

\* The statements that write the rows of one key in one of the data tables.
LEMMA PutRowsDatabase ==
    ASSUME NEW d \in Database, NEW p \in Pk
    PROVE  /\ \A h \in Fields : [d EXCEPT !.hashes[p] = h] \in Database
           /\ \A S \in SUBSET Member : [d EXCEPT !.sets[p] = S] \in Database
           /\ \A z \in Scores : [d EXCEPT !.zsets[p] = z] \in Database
BY DEF Database

\* What the commands answer is a result.
LEMMA Results ==
    /\ {NoResult, Done, Nil, Failed, WrongType} \subseteq Result
    /\ \A n \in Int : Number(n) \in Result
    /\ \A b \in BOOLEAN : Bool(b) \in Result
    /\ \A v \in Value : Bulk(v) \in Result
    /\ \A l \in Seq(Value) : Items(l) \in Result
    /\ \A t \in {NULL} \cup Type : TypeIs(t) \in Result
    /\ \A ks \in SUBSET Key : Cardinality(ks) \in Int => Names(ks) \in Result
    /\ \A ms \in SUBSET Member : Mems(ms) \in Result
    /\ \A l \in Seq(Member) : Order(l) \in Result
    /\ \A h \in Fields : Pairs(h) \in Result
<1>1. <<>> \in Seq(Value) /\ <<>> \in Seq(Member) /\ NoFields \in Fields
  BY DEF NoFields, Fields
<1>2. NoResult \in Result
  BY <1>1 DEF NoResult, Result
<1>3. Done \in Result /\ Nil \in Result /\ Failed \in Result /\ WrongType \in Result
  BY <1>2 DEF Done, Nil, Failed, WrongType, Result
<1>4. \A n \in Int : Number(n) \in Result
  BY <1>3 DEF Number, Result
<1>5. \A b \in BOOLEAN : Bool(b) \in Result
  BY <1>4 DEF Bool
<1>6. \A v \in Value : Bulk(v) \in Result
  BY <1>3 DEF Bulk, Result
<1>7. \A l \in Seq(Value) : Items(l) \in Result
  BY <1>3 DEF Items, Result
<1>8. \A t \in {NULL} \cup Type : TypeIs(t) \in Result
  BY <1>3 DEF TypeIs, Result
<1>9. \A ks \in SUBSET Key : Cardinality(ks) \in Int => Names(ks) \in Result
  BY <1>3 DEF Names, Result
<1>10. \A ms \in SUBSET Member : Mems(ms) \in Result
  BY <1>3 DEF Mems, Result
<1>11. \A l \in Seq(Member) : Order(l) \in Result
  BY <1>3 DEF Order, Result
<1>12. \A h \in Fields : Pairs(h) \in Result
  BY <1>3 DEF Pairs, Result
<1>. QED
  BY <1>2, <1>3, <1>4, <1>5, <1>6, <1>7, <1>8, <1>9, <1>10, <1>11, <1>12

-----------------------------------------------------------------------------
(* How sessions move on.                                                   *)

LEMMA NoReadRead == NoRead \in Read /\ LostRead \in Read
<1>1. <<>> \in Seq(Value) /\ 0 \in Nat
  OBVIOUS
<1>2. NoRead \in Read
  BY <1>1 DEF NoRead, Read
<1>. QED
  BY <1>2 DEF LostRead, Read

LEMMA GotoType ==
    ASSUME TypeOK, NEW s \in Session, NEW l \in PC \ {"idle"}, NEW r \in Read,
           ~At(s, "idle"), db' \in Database, fresh' \in SUBSET Session, Goto(s, l, r)
    PROVE  TypeOK'
<1>1. /\ now' \in 0 .. MaxTime
      /\ calls' \in [Session -> Seq(Call)]
      /\ cmds' \in [Session -> Seq(Command)]
      /\ pc' \in [Session -> PC]
      /\ seen' \in [Session -> Read]
      /\ res' \in [Session -> Result]
  BY DEF TypeOK, Goto
<1>2. dead' \in [Session -> BOOLEAN]
  BY DEF TypeOK, Goto, Mark
<1>3. \A t \in Session : pc'[t] = "idle" <=> calls'[t] = <<>>
  BY DEF TypeOK, Goto, At
<1>. QED
  BY <1>1, <1>2, <1>3 DEF TypeOK

LEMMA EntryPC ==
    ASSUME NEW c
    PROVE  /\ Entry(c) \in PC \ {"idle", "write"}
           /\ AfterStamp(c) \in {"expire", "stmt"}
           /\ AfterExpire(c) \in {"assert", "stmt"}
           /\ AfterAssert(c) \in {"ensure", "stmt"}
BY DEF Entry, AfterStamp, AfterExpire, AfterAssert, PC

LEMMA ProceedType ==
    ASSUME TypeOK, NEW s \in Session, NEW cs \in Seq(Call), NEW ms \in Seq(Command),
           NEW r \in Result, db' \in Database, fresh' \in SUBSET Session,
           Proceed(s, cs, ms, r)
    PROVE  TypeOK'
<1>1. /\ now' \in 0 .. MaxTime
      /\ calls' \in [Session -> Seq(Call)]
      /\ cmds' \in [Session -> Seq(Command)]
      /\ res' \in [Session -> Result]
  BY DEF TypeOK, Proceed
<1>2. seen' \in [Session -> Read]
  BY NoReadRead DEF TypeOK, Proceed
<1>3. pc' \in [Session -> PC]
  BY EntryPC DEF TypeOK, Proceed, PC
<1>4. dead' \in [Session -> BOOLEAN]
  BY DEF TypeOK, Proceed, Mark
<1>5. \A t \in Session : pc'[t] = "idle" <=> calls'[t] = <<>>
  BY EntryPC DEF TypeOK, Proceed
<1>. QED
  BY <1>1, <1>2, <1>3, <1>4, <1>5 DEF TypeOK

LEMMA EndCommandType ==
    ASSUME TypeOK, NEW s \in Session, NEW r \in Result,
           db' \in Database, fresh' \in SUBSET Session, EndCommand(s, r)
    PROVE  TypeOK'
<1>1. CASE cmds[s] = <<>>
  <2>1. Proceed(s, <<>>, <<>>, r)
    BY <1>1 DEF EndCommand
  <2>2. <<>> \in Seq(Call) /\ <<>> \in Seq(Command)
    OBVIOUS
  <2>. QED
    BY <2>1, <2>2, ProceedType
<1>2. CASE cmds[s] # <<>>
  <2>1. Proceed(s, Head(cmds[s]), Tail(cmds[s]), r)
    BY <1>2 DEF EndCommand
  <2>2. Head(cmds[s]) \in Seq(Call) /\ Tail(cmds[s]) \in Seq(Command)
    <3>1. cmds[s] \in Seq(Command)
      BY DEF TypeOK
    <3>2. Head(cmds[s]) \in Command /\ Tail(cmds[s]) \in Seq(Command)
      BY <3>1, <1>2, HeadTailProperties
    <3>. QED
      BY <3>2 DEF Command
  <2>. QED
    BY <2>1, <2>2, ProceedType
<1>. QED
  BY <1>1, <1>2

LEMMA ReturnType ==
    ASSUME TypeOK, NEW s \in Session, NEW r \in Result,
           db' \in Database, fresh' \in SUBSET Session, Return(s, r)
    PROVE  TypeOK'
<1>1. CASE Len(calls[s]) > 1
  <2>1. Proceed(s, Tail(calls[s]), cmds[s], r)
    BY <1>1 DEF Return
  <2>2. Tail(calls[s]) \in Seq(Call) /\ cmds[s] \in Seq(Command)
    BY <1>1 DEF TypeOK
  <2>. QED
    BY <2>1, <2>2, ProceedType
<1>2. CASE ~(Len(calls[s]) > 1)
  <2>1. EndCommand(s, r)
    BY <1>2 DEF Return
  <2>. QED
    BY <2>1, EndCommandType
<1>. QED
  BY <1>1, <1>2

\* A session that is not idle runs a call.
LEMMA CurrentCall ==
    ASSUME TypeOK, NEW s \in Session, ~At(s, "idle")
    PROVE  calls[s] # <<>> /\ Current(s) \in Call /\ Target(s) \in Pk
<1>1. calls[s] \in Seq(Call) /\ calls[s] # <<>>
  BY DEF TypeOK, At
<1>2. Head(calls[s]) \in Call
  BY <1>1, HeadTailProperties
<1>3. Head(calls[s]).pk \in Pk
  BY <1>2 DEF Call
<1>. QED
  BY <1>1, <1>2, <1>3 DEF Current, Target

(***************************************************************************)
(* TypeOK is not inductive: what a statement computes from a value read by *)
(* an earlier one is well typed only because that one has checked it.      *)
(***************************************************************************)
ZAddReady(c, r) == /\ r.mem \in Member /\ c.scores[r.mem] # NULL
                   /\ "NX" \in c.opt => ~r.exists
                   /\ "XX" \in c.opt => r.exists
WriteReady(c, r) == /\ c.op = "IncrBy" /\ r.val # NULL => IsInt(r.val)
                    /\ c.op = "Rename" => r.row # NULL
                    /\ c.op \in ListOps => Rewrites(c, r.items)
                    /\ c.op = "ZIncrBy" => r.mem \in Member /\ NewScore(r.score, c.n) \in Int64
                    /\ c.op = "ZAdd" => ZAddReady(c, r)
Ready(s) == /\ At(s, "stamp") => Current(s).ttl # NULL
            /\ At(s, "write") => WriteReady(Current(s), seen[s])
TypeInv  == TypeOK /\ \A s \in Session : Ready(s)

LEMMA GotoInv ==
    ASSUME TypeInv, NEW s \in Session, NEW l \in PC \ {"idle", "stamp"}, NEW r \in Read,
           ~At(s, "idle"), db' \in Database, fresh' \in SUBSET Session, Goto(s, l, r),
           l = "write" => WriteReady(Current(s), r)
    PROVE  TypeInv'
<1>1. TypeOK'
  BY GotoType DEF TypeInv
<1>2. ASSUME NEW t \in Session PROVE Ready(t)'
  <2>1. calls' = calls
    BY DEF Goto
  <2>2. CASE t = s
    <3>1. pc'[s] = l /\ seen'[s] = r
      BY DEF Goto, TypeInv, TypeOK
    <3>. QED
      BY <2>1, <2>2, <3>1 DEF Ready, At, Current
  <2>3. CASE t # s
    <3>1. pc'[t] = pc[t] /\ seen'[t] = seen[t]
      BY <2>3 DEF Goto, TypeInv, TypeOK
    <3>2. Ready(t)
      BY DEF TypeInv
    <3>. QED
      BY <2>1, <3>1, <3>2 DEF Ready, At, Current
  <2>. QED
    BY <2>2, <2>3
<1>. QED
  BY <1>1, <1>2 DEF TypeInv

LEMMA ProceedReady ==
    ASSUME TypeInv, NEW s \in Session, NEW cs, NEW ms, NEW r,
           Proceed(s, cs, ms, r), NEW t \in Session
    PROVE  Ready(t)'
<1>1. CASE t = s
  <2>1. pc'[s] # "write"
    BY EntryPC DEF Proceed, TypeInv, TypeOK
  <2>2. pc'[s] = "stamp" => Head(cs).ttl # NULL
    BY DEF Proceed, TypeInv, TypeOK, Entry, AfterStamp
  <2>3. calls'[s] = cs
    BY DEF Proceed, TypeInv, TypeOK
  <2>. QED
    BY <1>1, <2>1, <2>2, <2>3 DEF Ready, At, Current
<1>2. CASE t # s
  <2>1. pc'[t] = pc[t] /\ seen'[t] = seen[t] /\ calls'[t] = calls[t]
    BY <1>2 DEF Proceed, TypeInv, TypeOK
  <2>2. Ready(t)
    BY DEF TypeInv
  <2>. QED
    BY <2>1, <2>2 DEF Ready, At, Current
<1>. QED
  BY <1>1, <1>2

LEMMA EndCommandInv ==
    ASSUME TypeInv, NEW s \in Session, NEW r \in Result,
           db' \in Database, fresh' \in SUBSET Session, EndCommand(s, r)
    PROVE  TypeInv'
<1>1. TypeOK'
  BY EndCommandType DEF TypeInv
<1>2. ASSUME NEW t \in Session PROVE Ready(t)'
  BY ProceedReady DEF EndCommand
<1>. QED
  BY <1>1, <1>2 DEF TypeInv

LEMMA ReturnInv ==
    ASSUME TypeInv, NEW s \in Session, NEW r \in Result,
           db' \in Database, fresh' \in SUBSET Session, Return(s, r)
    PROVE  TypeInv'
<1>1. TypeOK'
  BY ReturnType DEF TypeInv
<1>2. ASSUME NEW t \in Session PROVE Ready(t)'
  BY ProceedReady DEF Return, EndCommand
<1>. QED
  BY <1>1, <1>2 DEF TypeInv

\* The frame of the statements.
LEMMA Frames ==
    ASSUME TypeInv, NEW s \in Session
    PROVE  /\ NoStatement => db' \in Database /\ fresh' \in SUBSET Session
           /\ Snapshot(s) => db' \in Database /\ fresh' \in SUBSET Session
           /\ \A d \in Database :
                Commit(s, d) => db' \in Database /\ fresh' \in SUBSET Session
BY DEF TypeInv, TypeOK, NoStatement, Snapshot, Commit

\* The running call of a session that is not idle, with the types of its parts.
LEMMA Running1 ==
    ASSUME TypeInv, NEW s \in Session, ~At(s, "idle")
    PROVE  /\ Current(s) \in Call /\ Target(s) \in Pk /\ Target(s) = Current(s).pk
           /\ calls[s] # <<>>
           /\ db.strings[Target(s)] \in {NULL} \cup Value
           /\ db.keys[Target(s)] \in {NULL} \cup KeyRow
           /\ db.lists[Target(s)] \in Seq(Value)
           /\ db.hashes[Target(s)] \in Fields
           /\ db.sets[Target(s)] \in SUBSET Member
           /\ db.zsets[Target(s)] \in Scores
           /\ seen[s] \in Read
<1>1. Current(s) \in Call /\ Target(s) \in Pk /\ calls[s] # <<>>
  BY CurrentCall DEF TypeInv
<1>2. /\ db.strings \in [Pk -> {NULL} \cup Value]
      /\ db.keys \in [Pk -> {NULL} \cup KeyRow]
      /\ db.lists \in [Pk -> Seq(Value)]
      /\ db.hashes \in [Pk -> Fields]
      /\ db.sets \in [Pk -> SUBSET Member]
      /\ db.zsets \in [Pk -> Scores]
  BY DEF TypeInv, TypeOK, Database
<1>3. seen[s] \in Read
  BY DEF TypeInv, TypeOK
<1>. QED
  BY <1>1, <1>2, <1>3 DEF Target

-----------------------------------------------------------------------------
(* One lemma per module of actions.                                        *)

LEMMA CommonStepInv ==
    ASSUME TypeInv, NEW s \in Session, CommonStep(s)
    PROVE  TypeInv'
<1>1. CASE StampExpiry(s)
  <2>. DEFINE c == Current(s)
              d == [c EXCEPT !.exp = Wrap(now + c.ttl)]
              cs == <<d>> \o Tail(calls[s])
  <2>1. ~At(s, "idle")
    BY <1>1 DEF StampExpiry, At
  <2>2. c \in Call /\ calls[s] # <<>>
    BY <2>1, Running1
  <2>3. c.ttl \in Int64
    BY <1>1, <2>2 DEF StampExpiry, TypeInv, Ready, Call, Time
  <2>4. now \in Int64
    BY SessionAssumption, MaxIntAssumption DEF TypeInv, TypeOK, Int64, MinInt
  <2>5. d \in Call
    BY <2>2, <2>3, <2>4, WrapInInt64 DEF Call, Time
  <2>6. Tail(calls[s]) \in Seq(Call)
    BY <2>2, HeadTailProperties DEF TypeInv, TypeOK
  <2>7. cs \in Seq(Call) /\ cs # <<>>
    BY <2>5, <2>6
  <2>8. calls' = [calls EXCEPT ![s] = cs] /\ pc' = [pc EXCEPT ![s] = AfterStamp(c)]
    BY <1>1 DEF StampExpiry
  <2>9. UNCHANGED <<db, fresh, now, cmds, seen, res>>
    BY <1>1 DEF StampExpiry, NoStatement
  <2>10. dead' \in [Session -> BOOLEAN]
    BY <1>1 DEF StampExpiry, Mark, TypeInv, TypeOK
  <2>11. AfterStamp(c) \in PC \ {"idle", "stamp", "write"}
    BY EntryPC DEF PC
  <2>12. TypeOK'
    <3>1. calls' \in [Session -> Seq(Call)] /\ pc' \in [Session -> PC]
      BY <2>7, <2>8, <2>11 DEF TypeInv, TypeOK
    <3>2. \A t \in Session : pc'[t] = "idle" <=> calls'[t] = <<>>
      BY <2>7, <2>8, <2>11 DEF TypeInv, TypeOK
    <3>. QED
      BY <3>1, <3>2, <2>9, <2>10 DEF TypeInv, TypeOK
  <2>13. ASSUME NEW t \in Session PROVE Ready(t)'
    <3>1. CASE t = s
      BY <3>1, <2>8, <2>11 DEF Ready, At, TypeInv, TypeOK
    <3>2. CASE t # s
      <4>1. pc'[t] = pc[t] /\ calls'[t] = calls[t] /\ seen'[t] = seen[t] /\ Ready(t)
        BY <3>2, <2>8, <2>9 DEF TypeInv, TypeOK
      <4>. QED
        BY <4>1 DEF Ready, At, Current
    <3>. QED
      BY <3>1, <3>2
  <2>. QED
    BY <2>12, <2>13 DEF TypeInv
<1>2. CASE DeleteExpired(s)
  <2>1. ~At(s, "idle")
    BY <1>2 DEF DeleteExpired, At
  <2>2. db' \in Database /\ fresh' \in SUBSET Session
    BY <1>2, Frames, DeleteKeysDatabase DEF DeleteExpired, TypeInv, TypeOK
  <2>3. AfterExpire(Current(s)) \in PC \ {"idle", "stamp", "write"}
    BY EntryPC DEF PC
  <2>. QED
    BY <1>2, <2>1, <2>2, <2>3, GotoInv, NoReadRead DEF DeleteExpired
<1>3. CASE AssertType(s)
  <2>1. ~At(s, "idle")
    BY <1>3 DEF AssertType, At
  <2>2. db' \in Database /\ fresh' \in SUBSET Session
    BY <1>3, Frames DEF AssertType
  <2>3. AfterAssert(Current(s)) \in PC \ {"idle", "stamp", "write"}
    BY EntryPC DEF PC
  <2>4. EndCommand(s, WrongType) \/ Goto(s, AfterAssert(Current(s)), NoRead)
    BY <1>3 DEF AssertType
  <2>. QED
    BY <2>1, <2>2, <2>3, <2>4, GotoInv, EndCommandInv, NoReadRead, Results
<1>4. CASE FailStatement(s)
  <2>1. db' \in Database /\ fresh' \in SUBSET Session
    BY <1>4 DEF FailStatement, TypeInv, TypeOK
  <2>. QED
    BY <1>4, <2>1, EndCommandInv, Results DEF FailStatement
<1>5. CASE LoseRead(s)
  <2>1. ~At(s, "idle")
    BY <1>5 DEF LoseRead, Running, At
  <2>2. db' \in Database /\ fresh' \in SUBSET Session
    BY <1>5, Frames DEF LoseRead
  <2>3. CASE Return(s, Number(0)) \/ Return(s, Nil)
    BY <2>2, <2>3, ReturnInv, Results
  <2>4. CASE Goto(s, "write", LostRead) /\ Current(s).op \in {"IncrBy", "Set"}
    <3>1. WriteReady(Current(s), LostRead)
      BY <2>4 DEF WriteReady, LostRead, NoRead, ListOps, ListReads, ListPushes, ListEdits
    <3>2. "write" \in PC \ {"idle", "stamp"}
      BY DEF PC
    <3>. QED
      BY <2>1, <2>2, <2>4, <3>1, <3>2, GotoInv, NoReadRead
  <2>. QED
    BY <1>5, <2>3, <2>4 DEF LoseRead, Running
<1>. QED
  BY <1>1, <1>2, <1>3, <1>4, <1>5 DEF CommonStep

\* An action that commits d and returns r, or reads and returns r.
LEMMA CommitReturn ==
    ASSUME TypeInv, NEW s \in Session, NEW d \in Database, NEW r \in Result,
           Commit(s, d) \/ NoStatement, Return(s, r)
    PROVE  TypeInv'
BY Frames, ReturnInv

\* An action that reads r and goes on to write.
LEMMA ReadGoto ==
    ASSUME TypeInv, NEW s \in Session, NEW r \in Read, ~At(s, "idle"),
           NoStatement \/ Snapshot(s), Goto(s, "write", r),
           WriteReady(Current(s), r)
    PROVE  TypeInv'
<1>1. db' \in Database /\ fresh' \in SUBSET Session
  BY Frames
<1>. QED
  BY <1>1, GotoInv DEF PC

LEMMA EnsureInv ==
    ASSUME TypeInv, NEW s \in Session, NEW ops, NEW t \in Type, Ensure(s, ops, t)
    PROVE  TypeInv'
<1>1. ~At(s, "idle")
  BY DEF Ensure, Running, At
<1>2. EnsureKey(db, Target(s), t) \in Database
  BY <1>1, Running1, EnsureKeyDatabase DEF TypeInv, TypeOK
<1>3. db' \in Database /\ fresh' \in SUBSET Session
  BY <1>2, Frames DEF Ensure
<1>. QED
  BY <1>1, <1>3, GotoInv, NoReadRead DEF Ensure, PC

\* One round of a loop that commits d.
LEMMA RoundInv ==
    ASSUME TypeInv, NEW s \in Session, ~At(s, "idle"), NEW d \in Database, NEW hit,
           Round(s, d, hit)
    PROVE  TypeInv'
<1>. DEFINE k == IF hit THEN 1 ELSE 0
            r == [seen[s] EXCEPT !.i = @ + 1, !.n = @ + k]
<1>1. seen[s] \in Read /\ k \in Int
  BY Running1
<1>3. db' \in Database /\ fresh' \in SUBSET Session
  BY Frames DEF Round
<1>4. Return(s, Number(r.n)) \/ Goto(s, "stmt", r)
  BY DEF Round
<1>. HIDE DEF k
<1>5. seen[s].i + 1 \in Nat /\ seen[s].n + k \in Int
  BY <1>1 DEF Read
<1>2. r \in Read /\ r.n \in Int
  BY <1>1, <1>5 DEF Read
<1>. QED
  BY <1>2, <1>3, <1>4, ReturnInv, GotoInv, Results DEF PC

LEMMA KeyStepInv ==
    ASSUME TypeInv, NEW s \in Session, KeyStep(s)
    PROVE  TypeInv'
<1>. DEFINE p == Target(s)
<1>1. ~At(s, "idle")
  BY DEF KeyStep, Del, Exists, ExpireAt, TTL, PersistRead, PersistWrite, TypeOf,
         RenameRead, RenameWrite, DBSize, Keys, RandomKey, FlushDB, FlushAll, Running, At
<1>2. /\ Current(s) \in Call /\ p \in Pk /\ seen[s] \in Read
      /\ db.keys[p] \in {NULL} \cup KeyRow /\ db \in Database /\ now \in Int
  BY <1>1, Running1 DEF TypeInv, TypeOK
<1>3. \A P : DeleteKeys(db, P) \in Database
  BY <1>2, DeleteKeysDatabase
<1>4. \A ks \in SUBSET Key : Cardinality(ks) \in Int /\ Names(ks) \in Result
  <2>1. ASSUME NEW ks \in SUBSET Key PROVE Cardinality(ks) \in Nat
    BY KeyAssumption, FS_Subset, FS_CardinalityType
  <2>. QED
    BY <2>1, Results
<1>5. \A b : Bool(b) \in Result
  BY Results DEF Bool
<1>6. Time = {NULL} \cup Int64
  BY DEF Time
<1>10. CASE Del(s)
  BY <1>10, <1>3, <1>5, CommitReturn DEF Del
<1>11. CASE Exists(s)
  BY <1>11, <1>2, <1>5, CommitReturn DEF Exists
<1>12. CASE ExpireAt(s)
  <2>1. Current(s).exp \in Time
    BY <1>2 DEF Call
  <2>2. UpdateExpiry(db, p, Current(s).exp) \in Database
    BY <1>2, <2>1, UpdateExpiryDatabase
  <2>. QED
    BY <1>12, <2>2, <1>5, CommitReturn DEF ExpireAt
<1>13. CASE TTL(s)
  <2>1. db.keys[p] # NULL /\ db.keys[p].exp # NULL => db.keys[p].exp \in Int
    BY <1>2 DEF KeyRow, Time, Int64
  <2>2. Remaining(db.keys[p], now, "MS" \in Current(s).opt) \in Int
    BY <1>2, <2>1, MsPerSecAssumption DEF Remaining
  <2>. QED
    BY <1>13, <1>2, <2>2, CommitReturn, Results DEF TTL
<1>14. CASE PersistRead(s)
  <2>1. CASE Return(s, Number(0))
    BY <1>14, <1>2, <2>1, CommitReturn, Results DEF PersistRead
  <2>2. CASE Goto(s, "write", [NoRead EXCEPT !.row = db.keys[p]])
    <3>1. [NoRead EXCEPT !.row = db.keys[p]] \in Read
      BY <1>2, NoReadRead DEF Read
    <3>2. Current(s).op = "Persist"
      BY <1>14 DEF PersistRead, Running
    <3>3. WriteReady(Current(s), [NoRead EXCEPT !.row = db.keys[p]])
      BY <3>2 DEF WriteReady, ListOps, ListReads, ListPushes, ListEdits
    <3>. QED
      BY <1>14, <1>1, <2>2, <3>1, <3>3, ReadGoto DEF PersistRead
  <2>. QED
    BY <1>14, <2>1, <2>2 DEF PersistRead
<1>15. CASE PersistWrite(s)
  <2>1. UpdateExpiry(db, p, NULL) \in Database
    BY <1>2, <1>6, UpdateExpiryDatabase
  <2>. QED
    BY <1>15, <2>1, CommitReturn, Results DEF PersistWrite
<1>16. CASE TypeOf(s)
  <2>1. KeyType(db, p, now) \in {NULL} \cup Type
    BY <1>2 DEF KeyType, Alive, KeyRow
  <2>2. TypeIs(KeyType(db, p, now)) \in Result
    BY <2>1, Results
  <2>. QED
    BY <1>16, <1>2, <2>2, CommitReturn DEF TypeOf
<1>17. CASE RenameRead(s)
  <2>1. CASE EndCommand(s, Failed)
    BY <1>17, <2>1, Frames, EndCommandInv, Results DEF RenameRead
  <2>2. CASE HasRow(db, p) /\ Goto(s, "write", [NoRead EXCEPT !.row = db.keys[p]])
    <3>1. [NoRead EXCEPT !.row = db.keys[p]] \in Read
      BY <1>2, NoReadRead DEF Read
    <3>2. Current(s).op = "Rename"
      BY <1>17 DEF RenameRead, Running
    <3>3. WriteReady(Current(s), [NoRead EXCEPT !.row = db.keys[p]])
      BY <2>2, <3>2, NoReadRead
      DEF WriteReady, HasRow, Read, ListOps, ListReads, ListPushes, ListEdits
    <3>. QED
      BY <1>17, <1>1, <2>2, <3>1, <3>3, ReadGoto DEF RenameRead
  <2>. QED
    BY <1>17, <2>1, <2>2 DEF RenameRead
<1>18. CASE RenameWrite(s)
  <2>. DEFINE q == Current(s).dst
              row == seen[s].row
              d1 == UpsertKey(DeleteKeys(db, {q}), q, row.type, row.exp)
  <2>1. q \in Pk
    BY <1>2 DEF Call
  <2>2. row \in KeyRow
    BY <1>18, <1>2 DEF RenameWrite, Running, TypeInv, Ready, WriteReady, Read
  <2>3. row.type \in Type /\ row.exp \in Time
    BY <2>2 DEF KeyRow
  <2>4. d1 \in Database
    BY <1>3, <2>1, <2>3, UpsertKeyDatabase
  <2>5. CopyData(d1, row.type, p, q) \in Database
    BY <1>2, <2>1, <2>3, <2>4, CopyDataDatabase
  <2>6. Renamed(db, row, p, q) \in Database
    BY <2>5, DeleteKeysDatabase DEF Renamed
  <2>. QED
    BY <1>18, <2>6, CommitReturn, Results DEF RenameWrite
<1>19. CASE DBSize(s)
  <2>1. AliveKeys(db, Target(s)[2], now) \in SUBSET Key
    BY DEF AliveKeys
  <2>. QED
    BY <1>19, <1>2, <1>4, <2>1, CommitReturn, Results DEF DBSize
<1>20. CASE Keys(s)
  <2>1. AliveKeys(db, Target(s)[2], now) \cap Current(s).names \in SUBSET Key
    BY DEF AliveKeys
  <2>. QED
    BY <1>20, <1>2, <1>4, <2>1, CommitReturn DEF Keys
<1>21. CASE RandomKey(s)
  <2>1. \E r \in Result : Return(s, r)
    BY <1>21, <1>4, Results DEF RandomKey, AliveKeys
  <2>. QED
    BY <1>21, <1>2, <2>1, CommitReturn DEF RandomKey
<1>22. CASE FlushDB(s)
  BY <1>22, <1>3, CommitReturn, Results DEF FlushDB
<1>23. CASE FlushAll(s)
  BY <1>23, <1>3, CommitReturn, Results DEF FlushAll
<1>. QED
  BY <1>10, <1>11, <1>12, <1>13, <1>14, <1>15, <1>16, <1>17, <1>18, <1>19, <1>20,
     <1>21, <1>22, <1>23 DEF KeyStep

\* Replacing a string value keeps a database a database.
LEMMA ReplacedDatabase ==
    ASSUME NEW d \in Database, NEW p \in Pk, NEW old, NEW new \in Value
    PROVE  Replaced(d, p, old, new) \in Database
<1>1. UpsertKeyType(d, p, "string") \in Database
  BY UpsertKeyTypeDatabase DEF Type
<1>. QED
  BY <1>1, PutStringDatabase DEF Replaced, UpdateString

LEMMA IncrementedInt64 ==
    ASSUME NEW v \in {NULL} \cup Value, v # NULL => IsInt(v), NEW n \in Int64
    PROVE  Incremented(v, n) \in Int64 /\ FormatInt(Incremented(v, n)) \in Value
<1>1. Incremented(v, n) \in Int64
  <2>1. 0 \in Int64
    BY MaxIntAssumption DEF Int64, MinInt
  <2>. QED
    BY <2>1, WrapInInt64 DEF Incremented, IsInt, ParseInt
<1>. QED
  BY <1>1 DEF FormatInt, Value

LEMMA StringStepInv ==
    ASSUME TypeInv, NEW s \in Session, StringStep(s)
    PROVE  TypeInv'
<1>. DEFINE p == Target(s)
            c == Current(s)
<1>1. ~At(s, "idle")
  BY DEF StringStep, Get, StrLen, SetRead, SetWrite, IncrByRead, IncrByWrite,
         AppendRead, AppendWrite, Running, At
<1>2. /\ c \in Call /\ p \in Pk /\ p = c.pk /\ seen[s] \in Read
      /\ db.strings[p] \in {NULL} \cup Value /\ db \in Database
  BY <1>1, Running1 DEF TypeInv, TypeOK
<1>3. \A v \in Value : Len(v) \in Int /\ Bulk(v) \in Result
  BY Results DEF Value
<1>10. CASE Get(s)
  BY <1>10, <1>2, <1>3, CommitReturn, Results DEF Get
<1>11. CASE StrLen(s)
  BY <1>11, <1>2, <1>3, CommitReturn, Results DEF StrLen
<1>12. CASE SetRead(s)
  <2>. DEFINE r == [NoRead EXCEPT !.exists = Alive(db.keys[c.pk], now)]
  <2>1. CASE NoStatement /\ Return(s, Nil)
    BY <1>2, <2>1, CommitReturn, Results
  <2>2. CASE Snapshot(s) /\ Goto(s, "write", r)
    <3>1. r \in Read
      BY NoReadRead DEF Read, Alive
    <3>2. WriteReady(c, r)
      BY <1>12 DEF SetRead, Running, WriteReady, ListOps, ListReads, ListPushes, ListEdits
    <3>. QED
      BY <1>1, <2>2, <3>1, <3>2, ReadGoto
  <2>. QED
    BY <1>12, <2>1, <2>2 DEF SetRead
<1>13. CASE SetWrite(s)
  <2>1. c.exp \in Time /\ c.val \in Value /\ "string" \in Type
    BY <1>2 DEF Call, Type
  <2>2. Stored(db, c) \in Database
    BY <1>2, <2>1, UpsertKeyDatabase, PutStringDatabase DEF Stored
  <2>. QED
    BY <1>13, <2>2, CommitReturn, Results DEF SetWrite
<1>14. CASE IncrByRead(s)
  <2>. DEFINE r == [NoRead EXCEPT !.val = db.strings[p]]
  <2>1. CASE NoStatement /\ EndCommand(s, Failed)
    BY <2>1, Frames, EndCommandInv, Results
  <2>2. CASE /\ db.strings[p] # NULL => IsInt(db.strings[p])
             /\ Snapshot(s) /\ Goto(s, "write", r)
    <3>1. r \in Read /\ r.val = db.strings[p]
      BY <1>2, NoReadRead DEF Read
    <3>2. WriteReady(c, r)
      BY <1>14, <2>2, <3>1
      DEF IncrByRead, Running, WriteReady, ListOps, ListReads, ListPushes, ListEdits
    <3>. QED
      BY <1>1, <2>2, <3>1, <3>2, ReadGoto
  <2>. QED
    BY <1>14, <2>1, <2>2 DEF IncrByRead
<1>15. CASE IncrByWrite(s)
  <2>. DEFINE v == seen[s].val
              n == Incremented(v, c.n)
  <2>1. v \in {NULL} \cup Value /\ c.n \in Int64
    BY <1>2 DEF Read, Call
  <2>2. v # NULL => IsInt(v)
    BY <1>15 DEF IncrByWrite, Running, TypeInv, Ready, WriteReady
  <2>3. n \in Int64 /\ FormatInt(n) \in Value
    BY <2>1, <2>2, IncrementedInt64
  <2>4. Replaced(db, p, v, FormatInt(n)) \in Database
    BY <1>2, <2>3, ReplacedDatabase
  <2>5. Number(n) \in Result
    BY <2>3, Results DEF Int64
  <2>. QED
    BY <1>15, <2>4, <2>5, CommitReturn DEF IncrByWrite
<1>16. CASE AppendRead(s)
  <2>. DEFINE r == [NoRead EXCEPT !.val = db.strings[p]]
  <2>1. r \in Read
    BY <1>2, NoReadRead DEF Read
  <2>2. WriteReady(c, r)
    BY <1>16 DEF AppendRead, Running, WriteReady, ListOps, ListReads, ListPushes, ListEdits
  <2>. QED
    BY <1>1, <1>16, <2>1, <2>2, ReadGoto DEF AppendRead
<1>17. CASE AppendWrite(s)
  <2>. DEFINE new == Appended(seen[s].val, c.val)
  <2>1. seen[s].val \in {NULL} \cup Value /\ c.val \in Value
    BY <1>2 DEF Read, Call
  <2>2. new \in Value
    BY <2>1 DEF Appended, Value
  <2>3. Replaced(db, p, seen[s].val, new) \in Database
    BY <1>2, <2>2, ReplacedDatabase
  <2>4. Number(Len(new)) \in Result
    BY <2>2, <1>3, Results
  <2>. QED
    BY <1>17, <2>3, <2>4, CommitReturn DEF AppendWrite
<1>. QED
  BY <1>10, <1>11, <1>12, <1>13, <1>14, <1>15, <1>16, <1>17 DEF StringStep

-----------------------------------------------------------------------------
(* The lists the list commands compute.                                    *)

LEMMA FunctionIsSeq ==
    ASSUME NEW k \in Nat, NEW S, NEW g \in [1 .. k -> S]
    PROVE  g \in Seq(S)
OBVIOUS

LEMMA ListFacts ==
    ASSUME NEW l \in Seq(Value)
    PROVE  /\ Len(l) \in Nat /\ DOMAIN l = 1 .. Len(l)
           /\ \A i \in 1 .. Len(l) : l[i] \in Value
           /\ \A I \in SUBSET DOMAIN l : Cardinality(I) \in Nat
           /\ \A i, j \in Int : 1 <= i /\ j <= Len(l) => SubSeq(l, i, j) \in Seq(Value)
<1>1. Len(l) \in Nat /\ DOMAIN l = 1 .. Len(l) /\ \A i \in 1 .. Len(l) : l[i] \in Value
  OBVIOUS
<1>2. IsFiniteSet(1 .. Len(l))
  BY <1>1, FS_Interval
<1>3. \A I \in SUBSET DOMAIN l : Cardinality(I) \in Nat
  BY <1>1, <1>2, FS_Subset, FS_CardinalityType
<1>4. ASSUME NEW i \in Int, NEW j \in Int, 1 <= i, j <= Len(l)
      PROVE  SubSeq(l, i, j) \in Seq(Value)
  BY <1>1, <1>4
<1>. QED
  BY <1>1, <1>3, <1>4

LEMMA NewListsType ==
    ASSUME NEW c \in Call, NEW l \in Seq(Value), c.op \in ListOps, Rewrites(c, l)
    PROVE  /\ NewLists(c, l) \subseteq Seq(Value)
           /\ RewriteResult(c, l) \in Result
<1>1. c.val \in Value /\ c.vals \in Seq(Value) /\ c.n \in Int
  BY DEF Call, Int64
<1>2. c.op \in ListPushes \cup ListEdits
  BY DEF Rewrites, ListOps, ListReads, ListPushes, ListEdits
<1>3. CASE c.op = "LPush"
  <2>1. Reverse(c.vals) \in Seq(Value)
    BY <1>1 DEF Reverse
  <2>2. Reverse(c.vals) \o l \in Seq(Value) /\ Len(l) + Len(c.vals) \in Int
    BY <1>1, <2>1
  <2>. QED
    BY <1>3, <2>2, Results DEF NewLists, RewriteResult, ListPushes
<1>4. CASE c.op = "RPush"
  <2>1. l \o c.vals \in Seq(Value) /\ Len(l) + Len(c.vals) \in Int
    BY <1>1
  <2>. QED
    BY <1>4, <2>1, Results DEF NewLists, RewriteResult, ListPushes
<1>5. CASE c.op = "LPop"
  <2>1. l # <<>>
    BY <1>5 DEF Rewrites, ListPushes
  <2>2. Tail(l) \in Seq(Value) /\ Head(l) \in Value
    BY <2>1, HeadTailProperties
  <2>. QED
    BY <1>5, <2>2, Results DEF NewLists, RewriteResult, ListPushes
<1>6. CASE c.op = "RPop"
  <2>1. l # <<>>
    BY <1>6 DEF Rewrites, ListPushes
  <2>2. Front(l) \in Seq(Value) /\ Last(l) \in Value
    <3>1. Len(l) \in Nat /\ Len(l) # 0 /\ \A i \in 1 .. Len(l) : l[i] \in Value
      BY <2>1, ListFacts
    <3>2. SubSeq(l, 1, Len(l) - 1) \in Seq(Value)
      BY <3>1, ListFacts
    <3>. QED
      BY <3>1, <3>2 DEF Front, Last
  <2>. QED
    BY <1>6, <2>2, Results DEF NewLists, RewriteResult, ListPushes
<1>7. CASE c.op = "LSet"
  <2>1. InRange(l, c.n)
    BY <1>7 DEF Rewrites, ListPushes
  <2>2. Position(l, c.n) + 1 \in 1 .. Len(l)
    BY <1>1, <2>1, ListFacts DEF InRange, Position
  <2>3. [l EXCEPT ![Position(l, c.n) + 1] = c.val] \in Seq(Value)
    BY <1>1, <2>2, ExceptSeq
  <2>. QED
    BY <1>7, <2>3, Results DEF NewLists, RewriteResult, ListPushes
<1>8. CASE c.op = "LInsert"
  <2>1. ASSUME NEW i \in DOMAIN l, NEW k \in {i - 1, i}
        PROVE  SubSeq(l, 1, k) \o c.vals \o SubSeq(l, k + 1, Len(l)) \in Seq(Value)
    <3>1. i \in Nat /\ 1 <= i /\ i <= Len(l) /\ Len(l) \in Nat
      BY ListFacts
    <3>2. SubSeq(l, 1, k) \in Seq(Value)
      BY <3>1, ListFacts
    <3>3. SubSeq(l, k + 1, Len(l)) \in Seq(Value)
      BY <3>1, ListFacts
    <3>. QED
      BY <1>1, <3>2, <3>3
  <2>2. Inserted(l, c.val, c.vals, "BEFORE" \in c.opt) \subseteq Seq(Value)
    BY <2>1 DEF Inserted, Occurrences
  <2>3. Number(Len(l) + 1) \in Result
    BY Results
  <2>. QED
    BY <1>8, <2>2, <2>3 DEF NewLists, RewriteResult, ListPushes
<1>9. CASE c.op = "LRem"
  <2>. DEFINE I == Dropped(l, c.n, c.val)
  <2>1. I \in SUBSET DOMAIN l
    BY DEF Dropped, Occurrences
  <2>2. Number(Cardinality(I)) \in Result
    BY <2>1, ListFacts, Results
  <2>3. Without(l, I) \subseteq Seq(Value)
    <3>. DEFINE kept == DOMAIN l \ I
                n == Cardinality(kept)
    <3>1. n \in Nat
      BY ListFacts
    <3>2. ASSUME NEW e \in [1 .. n -> kept]
          PROVE  [i \in 1 .. n |-> l[e[i]]] \in Seq(Value)
      <4>1. \A j \in DOMAIN l : l[j] \in Value
        BY ListFacts
      <4>2. \A i \in 1 .. n : e[i] \in DOMAIN l
        OBVIOUS
      <4>3. \A i \in 1 .. n : l[e[i]] \in Value
        BY <4>1, <4>2
      <4>4. [i \in 1 .. n |-> l[e[i]]] \in [1 .. n -> Value]
        BY <4>3
      <4>. HIDE DEF n
      <4>. QED
        BY <3>1, <4>4, FunctionIsSeq
    <3>. QED
      BY <3>2 DEF Without
  <2>. QED
    BY <1>9, <2>2, <2>3 DEF NewLists, RewriteResult, ListPushes
<1>. QED
  BY <1>2, <1>3, <1>4, <1>5, <1>6, <1>7, <1>8, <1>9 DEF ListPushes, ListEdits

LEMMA ReadResultType ==
    ASSUME NEW c \in Call, NEW l \in Seq(Value), c.op \in ListOps, ~Rewrites(c, l),
           c.op # "LSet"
    PROVE  ReadResult(c, l) \in Result
<1>1. c.n \in Int /\ c.m \in Int
  BY DEF Call, Int64
<1>2. c.op \in ListReads \cup {"LPop", "RPop", "LInsert"}
  BY DEF Rewrites, ListOps, ListReads, ListPushes, ListEdits
<1>3. CASE c.op \in {"LPop", "RPop"}
  BY <1>3, Results DEF ReadResult
<1>4. CASE c.op = "LLen"
  BY <1>4, ListFacts, Results DEF ReadResult
<1>5. CASE c.op = "LRange"
  <2>1. Position(l, c.n) \in Int /\ Position(l, c.m) \in Int /\ Len(l) \in Nat
    BY <1>1, ListFacts DEF Position
  <2>2. Slice(l, c.n, c.m) \in Seq(Value)
    <3>1. <<>> \in Seq(Value)
      OBVIOUS
    <3>. QED
      BY <2>1, <3>1, ListFacts DEF Slice
  <2>. QED
    BY <1>5, <2>2, Results DEF ReadResult
<1>6. CASE c.op = "LIndex"
  <2>1. InRange(l, c.n) => Element(l, c.n) \in Value
    <3>1. InRange(l, c.n) => Position(l, c.n) + 1 \in 1 .. Len(l)
      BY <1>1, ListFacts DEF InRange, Position
    <3>. QED
      BY <3>1, ListFacts DEF Element
  <2>. QED
    BY <1>6, <2>1, Results DEF ReadResult
<1>7. CASE c.op = "LInsert"
  BY <1>7, Results DEF ReadResult
<1>. QED
  BY <1>2, <1>3, <1>4, <1>5, <1>6, <1>7 DEF ListReads

LEMMA ListStepInv ==
    ASSUME TypeInv, NEW s \in Session, ListStep(s)
    PROVE  TypeInv'
<1>. DEFINE p == Target(s)
            c == Current(s)
<1>1. ~At(s, "idle")
  BY DEF ListStep, LEnsure, Ensure, LRead, LRewrite, Running, At
<1>2. /\ c \in Call /\ p \in Pk /\ p = c.pk /\ seen[s] \in Read
      /\ db.lists[p] \in Seq(Value) /\ db \in Database
  BY <1>1, Running1 DEF TypeInv, TypeOK
<1>3. CASE LEnsure(s)
  BY <1>3, EnsureInv DEF LEnsure, Type
<1>4. CASE LRead(s)
  <2>. DEFINE l == db.lists[c.pk]
              r == [NoRead EXCEPT !.items = l]
  <2>1. c.op \in ListOps /\ NoStatement
    BY <1>4 DEF LRead, Running
  <2>2. CASE Rewrites(c, l) /\ Goto(s, "write", r)
    <3>1. r \in Read /\ r.items = l
      BY <1>2, NoReadRead DEF Read
    <3>2. WriteReady(c, r)
      BY <2>1, <2>2, <3>1 DEF WriteReady, ListOps, ListReads, ListPushes, ListEdits
    <3>. QED
      BY <1>1, <2>1, <2>2, <3>1, <3>2, ReadGoto
  <2>3. CASE EndCommand(s, Failed)
    BY <2>1, <2>3, Frames, EndCommandInv, Results
  <2>4. CASE ~Rewrites(c, l) /\ c.op # "LSet" /\ Return(s, ReadResult(c, l))
    <3>1. ReadResult(c, l) \in Result
      BY <1>2, <2>1, <2>4, ReadResultType
    <3>. QED
      BY <1>2, <2>1, <2>4, <3>1, CommitReturn
  <2>. QED
    BY <1>4, <2>2, <2>3, <2>4 DEF LRead
<1>5. CASE LRewrite(s)
  <2>. DEFINE l == seen[s].items
  <2>1. l \in Seq(Value)
    BY <1>2 DEF Read
  <2>2. c.op \in ListOps /\ Rewrites(c, l)
    BY <1>5 DEF LRewrite, Running, TypeInv, Ready, WriteReady
  <2>3. NewLists(c, l) \subseteq Seq(Value) /\ RewriteResult(c, l) \in Result
    BY <1>2, <2>1, <2>2, NewListsType
  <2>4. PICK new \in NewLists(c, l) : Commit(s, Rewritten(db, p, new))
    BY <1>5 DEF LRewrite
  <2>5. Rewritten(db, p, new) \in Database
    BY <1>2, <2>3, <2>4, RewrittenDatabase
  <2>6. Return(s, RewriteResult(c, l))
    BY <1>5 DEF LRewrite
  <2>. QED
    BY <2>3, <2>4, <2>5, <2>6, CommitReturn
<1>. QED
  BY <1>3, <1>4, <1>5 DEF ListStep

-----------------------------------------------------------------------------
(* Hashes, sets and sorted sets.                                           *)

\* Counting members, and listing some of them.
LEMMA MemberFacts ==
    ASSUME NEW M \in SUBSET Member
    PROVE  /\ Cardinality(M) \in Nat /\ Number(Cardinality(M)) \in Result
           /\ \A e \in [1 .. Cardinality(M) -> M] : e \in Seq(Member)
<1>1. Cardinality(M) \in Nat
  BY MemberAssumption, FS_Subset, FS_CardinalityType
<1>2. ASSUME NEW e \in [1 .. Cardinality(M) -> M] PROVE e \in Seq(Member)
  <2>. DEFINE n == Cardinality(M)
  <2>1. e \in [1 .. n -> Member]
    OBVIOUS
  <2>. HIDE DEF n
  <2>. QED
    BY <1>1, <2>1, FunctionIsSeq DEF n
<1>. QED
  BY <1>1, <1>2, Results

LEMMA HashStepInv ==
    ASSUME TypeInv, NEW s \in Session, HashStep(s)
    PROVE  TypeInv'
<1>. DEFINE p == Target(s)
            c == Current(s)
<1>1. ~At(s, "idle")
  BY DEF HashStep, HEnsure, Ensure, HSetCount, HSetCountLost, HSetAsks, HSetWrite, HDel,
         HGet, HExists, HGetAll, HKeys, HVals, HLen, AtMember, Running, At
<1>2. /\ c \in Call /\ p \in Pk /\ seen[s] \in Read /\ db \in Database
      /\ Hash(s) \in Fields /\ Hash(s) = db.hashes[p]
  BY <1>1, Running1 DEF TypeInv, TypeOK, Hash
<1>3. \A f \in Member : Hash(s)[f] \in {NULL} \cup Value
  BY <1>2 DEF Fields
<1>4. \A b : Bool(b) \in Result
  BY Results DEF Bool
<1>5. \A h : Present(h) \in SUBSET Member
  BY DEF Present
<1>10. CASE HEnsure(s)
  BY <1>10, EnsureInv DEF HEnsure, Type
<1>11. ASSUME NEW f \in Member, NEW exists, NEW lost \in BOOLEAN,
              HSetAsks(s, f), NoStatement \/ Snapshot(s), HSetCounted(s, f, exists, lost)
       PROVE  TypeInv'
  <2>. DEFINE r == [seen[s] EXCEPT !.asked = @ \cup {f}, !.lost = lost,
                                   !.new = IF exists THEN @ ELSE @ \cup {f}]
              l == IF r.asked = Present(c.pairs) THEN "write" ELSE "stmt"
  <2>1. r \in Read
    BY <1>2 DEF Read
  <2>2. WriteReady(c, r)
    BY <1>11 DEF HSetAsks, Running, WriteReady, ListOps, ListReads, ListPushes, ListEdits
  <2>3. Goto(s, l, r)
    BY <1>11 DEF HSetCounted
  <2>4. db' \in Database /\ fresh' \in SUBSET Session
    BY <1>11, Frames
  <2>. QED
    BY <1>1, <2>1, <2>2, <2>3, <2>4, GotoInv DEF PC
<1>12. CASE HSetCount(s)
  BY <1>11, <1>12 DEF HSetCount
<1>13. CASE HSetCountLost(s)
  <2>1. (seen[s].asked = {} \/ seen[s].lost \/ Backend = "postgres") \in BOOLEAN
    BY <1>2 DEF Read
  <2>. QED
    BY <1>11, <1>13, <2>1 DEF HSetCountLost
<1>14. CASE HSetWrite(s)
  <2>1. c.pairs \in Fields
    BY <1>2 DEF Call
  <2>2. Overlay(Hash(s), c.pairs) \in Fields
    BY <1>2, <2>1 DEF Overlay, Fields
  <2>3. [db EXCEPT !.hashes[p] = Overlay(Hash(s), c.pairs)] \in Database
    BY <1>2, <2>2, PutRowsDatabase
  <2>4. seen[s].new \in SUBSET Member
    BY <1>2 DEF Read
  <2>. QED
    BY <1>14, <2>3, <2>4, MemberFacts, CommitReturn DEF HSetWrite
<1>15. CASE HDel(s)
  <2>1. PICK f \in Member :
          Round(s, [db EXCEPT !.hashes[p] = [@ EXCEPT ![f] = NULL]], Hash(s)[f] # NULL)
    BY <1>15 DEF HDel
  <2>2. [Hash(s) EXCEPT ![f] = NULL] \in Fields
    BY <1>2 DEF Fields
  <2>3. [db EXCEPT !.hashes[p] = [@ EXCEPT ![f] = NULL]] \in Database
    BY <1>2, <2>2, PutRowsDatabase
  <2>. QED
    BY <1>1, <2>1, <2>3, RoundInv
<1>16. CASE HGet(s) \/ HExists(s)
  <2>1. \E r \in Result : Return(s, r)
    BY <1>16, <1>3, <1>4, Results DEF HGet, HExists
  <2>. QED
    BY <1>16, <1>2, <2>1, CommitReturn DEF HGet, HExists
<1>17. CASE HGetAll(s) \/ HKeys(s) \/ HLen(s)
  <2>1. \E r \in Result : Return(s, r)
    BY <1>17, <1>2, <1>5, MemberFacts, Results DEF HGetAll, HKeys, HLen
  <2>. QED
    BY <1>17, <1>2, <2>1, CommitReturn DEF HGetAll, HKeys, HLen
<1>18. CASE HVals(s)
  <2>. DEFINE F == Present(Hash(s))
              n == Cardinality(F)
  <2>1. PICK e \in [1 .. n -> F] : Return(s, Items([i \in 1 .. n |-> Hash(s)[e[i]]]))
    BY <1>18 DEF HVals
  <2>2. n \in Nat
    BY <1>5, MemberFacts
  <2>3. \A i \in 1 .. n : Hash(s)[e[i]] \in Value
    BY <1>3 DEF Present
  <2>4. [i \in 1 .. n |-> Hash(s)[e[i]]] \in [1 .. n -> Value]
    BY <2>3
  <2>5. [i \in 1 .. n |-> Hash(s)[e[i]]] \in Seq(Value)
    <3>. HIDE DEF n
    <3>. QED
      BY <2>2, <2>4, FunctionIsSeq
  <2>. QED
    BY <1>18, <1>2, <2>1, <2>5, CommitReturn, Results DEF HVals
<1>. QED
  BY <1>10, <1>12, <1>13, <1>14, <1>15, <1>16, <1>17, <1>18 DEF HashStep

LEMMA SetStepInv ==
    ASSUME TypeInv, NEW s \in Session, SetStep(s)
    PROVE  TypeInv'
<1>. DEFINE p == Target(s)
<1>1. ~At(s, "idle")
  BY DEF SetStep, SEnsure, Ensure, SAdd, SRem, SIsMember, SCard, SMembers, SUnion, SInter,
         SDiff, AtMember, Running, At
<1>2. /\ p \in Pk /\ db \in Database /\ Set(s) \in SUBSET Member /\ Set(s) = db.sets[p]
      /\ res[s].mems \in SUBSET Member
  <2>1. res[s] \in Result
    BY DEF TypeInv, TypeOK
  <2>. QED
    BY <1>1, <2>1, Running1 DEF TypeInv, TypeOK, Set, Result
<1>3. \A b : Bool(b) \in Result
  BY Results DEF Bool
<1>10. CASE SEnsure(s)
  BY <1>10, EnsureInv DEF SEnsure, Type
<1>11. CASE SAdd(s)
  <2>1. PICK m \in Member : Round(s, [db EXCEPT !.sets[p] = @ \cup {m}], m \notin Set(s))
    BY <1>11 DEF SAdd
  <2>2. [db EXCEPT !.sets[p] = @ \cup {m}] \in Database
    BY <1>2, PutRowsDatabase
  <2>. QED
    BY <1>1, <2>1, <2>2, RoundInv
<1>12. CASE SRem(s)
  <2>1. PICK m \in Member : Round(s, [db EXCEPT !.sets[p] = @ \ {m}], m \in Set(s))
    BY <1>12 DEF SRem
  <2>2. [db EXCEPT !.sets[p] = @ \ {m}] \in Database
    BY <1>2, PutRowsDatabase
  <2>. QED
    BY <1>1, <2>1, <2>2, RoundInv
<1>13. CASE SIsMember(s) \/ SCard(s) \/ SMembers(s)
  <2>1. \E r \in Result : Return(s, r)
    BY <1>13, <1>2, <1>3, MemberFacts, Results DEF SIsMember, SCard, SMembers
  <2>. QED
    BY <1>13, <1>2, <2>1, CommitReturn DEF SIsMember, SCard, SMembers
<1>14. CASE SUnion(s) \/ SInter(s) \/ SDiff(s)
  <2>1. \E r \in Result : Return(s, r)
    BY <1>14, <1>2, Results DEF SUnion, SInter, SDiff
  <2>. QED
    BY <1>14, <1>2, <2>1, CommitReturn DEF SUnion, SInter, SDiff
<1>. QED
  BY <1>10, <1>11, <1>12, <1>13, <1>14 DEF SetStep

LEMMA WithScoreDatabase ==
    ASSUME NEW d \in Database, NEW p \in Pk, NEW m, NEW x \in {NULL} \cup Int64
    PROVE  WithScore(d, p, m, x) \in Database /\ UpdateScore(d, p, m, x) \in Database
<1>1. d.zsets[p] \in Scores
  BY DEF Database
<1>2. [d.zsets[p] EXCEPT ![m] = x] \in Scores
  BY <1>1 DEF Scores
<1>3. WithScore(d, p, m, x) \in Database
  BY <1>2, PutRowsDatabase DEF WithScore
<1>. QED
  BY <1>3 DEF UpdateScore

LEMMA ZSetStepInv ==
    ASSUME TypeInv, NEW s \in Session, ZSetStep(s)
    PROVE  TypeInv'
<1>. DEFINE p == Target(s)
            c == Current(s)
            z == ZSet(s)
<1>1. ~At(s, "idle")
  BY DEF ZSetStep, ZEnsure, Ensure, ZAddCount, ZAddCountLost, ZAddAsks, ZAddWrite, ZAddReturn,
         ZIncrByRead, ZIncrByWrite, ZRem, ZScore, ZCard, ZRankCount, ZRankExists, ZRankLost,
         ZRangeCount, ZRangeRows, ZRangeLost, ZRangeByScore, ZCount, AtMember, Running, At
<1>2. /\ c \in Call /\ p \in Pk /\ seen[s] \in Read /\ db \in Database
      /\ z \in Scores /\ z = db.zsets[p]
  BY <1>1, Running1 DEF TypeInv, TypeOK, ZSet
<1>3. \A m \in Member : z[m] \in {NULL} \cup Int64
  BY <1>2 DEF Scores
<1>4. \A y : Present(y) \in SUBSET Member
  BY DEF Present
<1>5. c.n \in Int /\ c.m \in Int /\ c.scores \in Scores
  BY <1>2 DEF Call, Int64
<1>6. seen[s].n \in Int /\ <<>> \in Seq(Member)
  BY <1>2 DEF Read
<1>7. \A x \in Int64 : Bulk(FormatInt(x)) \in Result
  <2>1. \A x \in Int64 : FormatInt(x) \in Value
    BY DEF FormatInt, Value
  <2>. QED
    BY <2>1, Results
<1>10. CASE ZEnsure(s)
  BY <1>10, EnsureInv DEF ZEnsure, Type
<1>11. ASSUME NEW m \in Member, NEW exists \in BOOLEAN, ZAddAsks(s, m, exists), NoStatement
       PROVE  TypeInv'
  <2>. DEFINE r == [seen[s] EXCEPT !.asked = @ \cup {m}, !.mem = m, !.exists = exists]
              skip == ("NX" \in c.opt /\ exists) \/ ("XX" \in c.opt /\ ~exists)
              l == IF skip THEN "stmt" ELSE "write"
  <2>1. r \in Read /\ r.mem = m /\ r.exists = exists
    BY <1>2 DEF Read
  <2>2. c.scores[m] # NULL /\ c.op = "ZAdd"
    BY <1>11 DEF ZAddAsks, Present, Running
  <2>3. l = "write" => WriteReady(c, r)
    BY <2>1, <2>2 DEF WriteReady, ZAddReady, ListOps, ListReads, ListPushes, ListEdits
  <2>4. Goto(s, l, r)
    BY <1>11 DEF ZAddAsks
  <2>5. db' \in Database /\ fresh' \in SUBSET Session
    BY <1>11, Frames
  <2>. QED
    BY <1>1, <2>1, <2>3, <2>4, <2>5, GotoInv DEF PC
<1>12. CASE ZAddCount(s) \/ ZAddCountLost(s)
  BY <1>11, <1>12 DEF ZAddCount, ZAddCountLost
<1>13. CASE ZAddWrite(s)
  <2>. DEFINE m == seen[s].mem
              x == c.scores[m]
  <2>1. m \in Member /\ x \in Int64
    BY <1>13, <1>5 DEF ZAddWrite, Running, TypeInv, Ready, WriteReady, ZAddReady, Scores
  <2>2. WithScore(db, p, m, x) \in Database /\ UpdateScore(db, p, m, x) \in Database
    BY <1>2, <2>1, WithScoreDatabase
  <2>3. db' \in Database /\ fresh' \in SUBSET Session
    BY <1>13, <2>2, Frames DEF ZAddWrite
  <2>4. [seen[s] EXCEPT !.n = @ + 1] \in Read
    BY <1>2 DEF Read
  <2>5. Goto(s, "stmt", seen[s]) \/ Goto(s, "stmt", [seen[s] EXCEPT !.n = @ + 1])
    BY <1>13 DEF ZAddWrite
  <2>. QED
    BY <1>1, <1>2, <2>3, <2>4, <2>5, GotoInv DEF PC
<1>14. CASE ZAddReturn(s)
  BY <1>14, <1>2, <1>6, CommitReturn, Results DEF ZAddReturn
<1>15. CASE ZIncrByRead(s)
  <2>1. PICK m \in Member : /\ AtMember(s, {"ZIncrBy"}, m)
                            /\ NewScore(z[m], c.n) \in Int64
                            /\ Goto(s, "write", [NoRead EXCEPT !.mem = m, !.score = z[m]])
    BY <1>15 DEF ZIncrByRead
  <2>. DEFINE r == [NoRead EXCEPT !.mem = m, !.score = z[m]]
  <2>2. r \in Read /\ r.score = z[m] /\ r.mem = m
    BY <1>3, NoReadRead DEF Read
  <2>3. WriteReady(c, r)
    BY <2>1, <2>2 DEF AtMember, Running, WriteReady, ListOps, ListReads, ListPushes, ListEdits
  <2>. QED
    BY <1>1, <1>15, <2>1, <2>2, <2>3, ReadGoto DEF ZIncrByRead
<1>16. CASE ZIncrByWrite(s)
  <2>. DEFINE x == NewScore(seen[s].score, c.n)
              m == seen[s].mem
  <2>1. x \in Int64
    BY <1>16 DEF ZIncrByWrite, Running, TypeInv, Ready, WriteReady
  <2>2. WithScore(db, p, m, x) \in Database /\ UpdateScore(db, p, m, x) \in Database
    BY <1>2, <2>1, WithScoreDatabase
  <2>. QED
    BY <1>16, <1>7, <2>1, <2>2, CommitReturn DEF ZIncrByWrite
<1>17. CASE ZRem(s)
  <2>1. PICK m \in Member : Round(s, WithScore(db, p, m, NULL), z[m] # NULL)
    BY <1>17 DEF ZRem
  <2>2. WithScore(db, p, m, NULL) \in Database
    BY <1>2, WithScoreDatabase
  <2>. QED
    BY <1>1, <2>1, <2>2, RoundInv
<1>18. CASE ZScore(s) \/ ZCard(s)
  <2>1. \E r \in Result : Return(s, r)
    BY <1>18, <1>3, <1>4, <1>7, MemberFacts, Results DEF ZScore, ZCard
  <2>. QED
    BY <1>18, <1>2, <2>1, CommitReturn DEF ZScore, ZCard
<1>19. CASE ZRankCount(s)
  <2>1. PICK m \in Member : /\ AtMember(s, {"ZRank"}, m)
                            /\ Goto(s, "write", [NoRead EXCEPT !.mem = m, !.n = Rank(z, m)])
    BY <1>19 DEF ZRankCount
  <2>2. Rank(z, m) \in Int
    BY MemberFacts DEF Rank, Present
  <2>3. [NoRead EXCEPT !.mem = m, !.n = Rank(z, m)] \in Read
    BY <2>2, NoReadRead DEF Read
  <2>4. WriteReady(c, [NoRead EXCEPT !.mem = m, !.n = Rank(z, m)])
    BY <2>1 DEF AtMember, Running, WriteReady, ListOps, ListReads, ListPushes, ListEdits
  <2>. QED
    BY <1>1, <1>19, <2>1, <2>3, <2>4, ReadGoto DEF ZRankCount
<1>20. CASE ZRankExists(s) \/ ZRankLost(s) \/ ZRangeLost(s)
  <2>1. \E r \in Result : Return(s, r)
    BY <1>20, <1>6, Results DEF ZRankExists, ZRankLost, ZRangeLost
  <2>. QED
    BY <1>20, <1>2, <2>1, CommitReturn DEF ZRankExists, ZRankLost, ZRangeLost
<1>21. CASE ZRangeCount(s)
  <2>. DEFINE n == Cardinality(Present(z))
              r == [NoRead EXCEPT !.n = n]
  <2>1. n \in Int
    BY <1>4, MemberFacts
  <2>2. CASE Return(s, Order(<<>>))
    BY <1>21, <1>2, <1>6, <2>2, CommitReturn, Results DEF ZRangeCount
  <2>3. CASE Goto(s, "write", r)
    <3>1. r \in Read
      BY <2>1, NoReadRead DEF Read
    <3>2. WriteReady(c, r)
      BY <1>21 DEF ZRangeCount, Running, WriteReady, ListOps, ListReads, ListPushes, ListEdits
    <3>. QED
      BY <1>1, <1>21, <2>3, <3>1, <3>2, ReadGoto DEF ZRangeCount
  <2>. QED
    BY <1>21, <2>2, <2>3 DEF ZRangeCount
<1>22. CASE ZRangeRows(s)
  <2>. DEFINE b == Clamped(c, seen[s].n)
              M == Present(z)
              n == Cardinality(M)
              k == IF b.to < n THEN b.to + 1 ELSE n
  <2>1. PICK e \in Ordered(z, M) :
          Return(s, Order(IF b.from >= n THEN <<>> ELSE SubSeq(e, b.from + 1, k)))
    BY <1>22 DEF ZRangeRows
  <2>2. n \in Nat /\ e \in Seq(Member) /\ Len(e) = n
    <3>1. e \in [1 .. n -> M] /\ n \in Nat
      BY <1>4, <2>1, MemberFacts DEF Ordered
    <3>2. e \in Seq(Member)
      BY <1>4, <3>1, MemberFacts
    <3>. QED
      BY <3>1, <3>2
  <2>3. b.from \in Nat /\ b.to \in Int
    BY <1>5, <1>6 DEF Clamped
  <2>4. SubSeq(e, b.from + 1, k) \in Seq(Member)
    <3>1. k \in Int /\ k <= Len(e) /\ b.from + 1 \in Int /\ b.from + 1 >= 1
      BY <2>2, <2>3
    <3>. HIDE DEF k, b, n
    <3>. QED
      BY <2>2, <3>1
  <2>. QED
    BY <1>22, <1>2, <1>6, <2>1, <2>4, CommitReturn, Results DEF ZRangeRows
<1>23. CASE ZRangeByScore(s) \/ ZCount(s)
  <2>1. InBounds(c, z) \in SUBSET Member
    BY DEF InBounds, Present
  <2>2. \A e \in Ordered(z, InBounds(c, z)) : e \in Seq(Member)
    BY <2>1, MemberFacts DEF Ordered
  <2>3. \E r \in Result : Return(s, r)
    BY <1>23, <2>1, <2>2, MemberFacts, Results DEF ZRangeByScore, ZCount
  <2>. QED
    BY <1>23, <1>2, <2>3, CommitReturn DEF ZRangeByScore, ZCount
<1>. QED
  BY <1>10, <1>12, <1>13, <1>14, <1>15, <1>16, <1>17, <1>18, <1>19, <1>20, <1>21, <1>22,
     <1>23 DEF ZSetStep

-----------------------------------------------------------------------------
LEMMA TypeInvInit == StoreInit => TypeInv
<1>. SUFFICES ASSUME StoreInit PROVE TypeInv
  OBVIOUS
<1>1. db \in Database /\ now \in 0 .. MaxTime
  BY InitDbsAssumption, SessionAssumption DEF StoreInit
<1>2. /\ <<>> \in Seq(Call) /\ <<>> \in Seq(Command) /\ "idle" \in PC
      /\ NoRead \in Read /\ NoResult \in Result
  BY NoReadRead, Results DEF PC
<1>3. TypeOK
  BY <1>1, <1>2 DEF StoreInit, OfAll, TypeOK
<1>4. \A s \in Session : Ready(s)
  BY DEF StoreInit, OfAll, Ready, At
<1>. QED
  BY <1>3, <1>4 DEF TypeInv

LEMMA BeginInv ==
    ASSUME TypeInv, NEW s \in Session, NEW r \in Requests, Begin(s, r)
    PROVE  TypeInv'
<1>1. r \in Seq(Command) /\ r # <<>>
  BY RequestsAssumption DEF Request
<1>2. Head(r) \in Command /\ Tail(r) \in Seq(Command)
  BY <1>1, HeadTailProperties
<1>3. Head(r) \in Seq(Call)
  BY <1>2 DEF Command
<1>4. db' \in Database /\ fresh' \in SUBSET Session
  BY Frames DEF Begin
<1>5. TypeOK'
  BY <1>2, <1>3, <1>4, ProceedType, Results DEF Begin, TypeInv
<1>6. ASSUME NEW t \in Session PROVE Ready(t)'
  BY ProceedReady DEF Begin
<1>. QED
  BY <1>5, <1>6 DEF TypeInv

LEMMA EnvironmentInv ==
    ASSUME TypeInv, Environment
    PROVE  TypeInv'
<1>1. CASE Tick
  <2>1. TypeOK'
    BY <1>1, SessionAssumption DEF Tick, TypeInv, TypeOK
  <2>2. \A s \in Session : Ready(s)'
    BY <1>1 DEF Tick, TypeInv, Ready, At, Current
  <2>. QED
    BY <2>1, <2>2 DEF TypeInv
<1>2. CASE SweepExpired
  <2>1. db' \in Database
    BY <1>2, DeleteKeysDatabase DEF SweepExpired, TypeInv, TypeOK
  <2>2. dead' \in [Session -> BOOLEAN]
    BY <1>2 DEF SweepExpired, TypeInv, TypeOK
  <2>3. TypeOK'
    BY <1>2, <2>1, <2>2 DEF SweepExpired, TypeInv, TypeOK
  <2>4. \A s \in Session : Ready(s)'
    BY <1>2 DEF SweepExpired, TypeInv, Ready, At, Current
  <2>. QED
    BY <2>3, <2>4 DEF TypeInv
<1>3. CASE Crash
  <2>1. /\ <<>> \in Seq(Call) /\ <<>> \in Seq(Command) /\ "idle" \in PC
        /\ NoRead \in Read /\ NoResult \in Result
    BY NoReadRead, Results DEF PC
  <2>2. TypeOK'
    BY <1>3, <2>1 DEF Crash, OfAll, TypeInv, TypeOK
  <2>3. \A s \in Session : Ready(s)'
    BY <1>3 DEF Crash, OfAll, Ready, At
  <2>. QED
    BY <2>2, <2>3 DEF TypeInv
<1>. QED
  BY <1>1, <1>2, <1>3 DEF Environment

LEMMA TypeInvStep ==
    ASSUME TypeInv, [Next]_vars
    PROVE  TypeInv'
<1>1. CASE UNCHANGED vars
  BY <1>1 DEF vars, TypeInv, TypeOK, Ready, At, Current
<1>2. ASSUME NEW s \in Session, Step(s) PROVE TypeInv'
  BY <1>2, CommonStepInv, KeyStepInv, StringStepInv, ListStepInv, HashStepInv,
     SetStepInv, ZSetStepInv DEF Step
<1>. QED
  BY <1>1, <1>2, BeginInv, EnvironmentInv DEF Next

(***************************************************************************)
(* Every reachable state is well typed, whatever the sessions, keys,       *)
(* requests and initial contents: in particular no statement of the store  *)
(* computes from a value an earlier statement has not checked, and INCRBY  *)
(* stays within int64.                                                     *)
(***************************************************************************)
THEOREM TypeCorrect == Spec => []TypeOK
<1>1. StoreInit => TypeInv
  BY TypeInvInit
<1>2. TypeInv /\ [Next]_vars => TypeInv'
  BY TypeInvStep
<1>3. TypeInv => TypeOK
  BY DEF TypeInv
<1>. QED
  BY <1>1, <1>2, <1>3, PTL DEF Spec
=============================================================================
