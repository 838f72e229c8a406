---------------------------- MODULE StoreSession ----------------------------
(***************************************************************************)
(* Connection goroutines running store calls against the shared database.  *)
(*                                                                         *)
(* A request is what one line of a client makes the server do: a sequence  *)
(* of commands (one, or the queue of a MULTI block), each of which calls   *)
(* the store one or more times.  A store call is a sequence of SQL         *)
(* statements, and every statement is a step of its own: between two of    *)
(* them the other connections, the sweep goroutine and the clock move.     *)
(*                                                                         *)
(* The statements common to all commands are here; the modules that extend *)
(* this one add the statements of each command.                            *)
(***************************************************************************)
EXTENDS StoreCalls

CONSTANTS
    Session,     \* connections
    Backend,     \* "sqlite" (file, WAL) or "postgres" (READ COMMITTED)
    Requests,    \* the requests clients may send
    InitDbs,     \* the database contents the server may start on
    ReadFaults,  \* whether a SELECT whose error the code drops may fail
    MaxTime,     \* bound on the clock
    MaxLen       \* bound on the length of values and lists

VARIABLES
    db,      \* committed contents of the database
    now,     \* wall clock, in milliseconds
    calls,   \* store calls left in the running command, the head is running
    cmds,    \* commands of the request not started yet
    pc,      \* next statement of the running call
    seen,    \* what the running call has read so far (Go locals)
    fresh,   \* sessions whose open read snapshot is still the committed state
    res,     \* result of the last store call of the session
    dead     \* history: the running call's key had expired before the call
             \* began, and nobody has touched its row since

vars == <<db, now, calls, cmds, pc, seen, fresh, res, dead>>

-----------------------------------------------------------------------------
(* The statements a call goes through.                                     *)

WantedType(op) == CASE op \in StringOps -> "string"
                    [] op \in ListOps   -> "list"
                    [] op \in HashOps   -> "hash"
                    [] op \in SetOps    -> "set"
                    [] op \in ZSetOps   -> "zset"

\* The first statement of a call, and the one after each common statement.
\* Mutant of AfterStamp: LPUSH and RPUSH skip deleteExpired.
AfterStampPush(c) == IF c.op \in ListPushes THEN "assert"
                     ELSE IF c.op \in LazyOps THEN "expire" ELSE "stmt"

AfterStamp(c)  == IF c.op \in LazyOps THEN "expire" ELSE "stmt"
Entry(c)       == IF c.ttl # NULL THEN "stamp" ELSE AfterStamp(c)
AfterExpire(c) == IF c.op \in TypedOps THEN "assert" ELSE "stmt"
AfterAssert(c) == IF c.op \in EnsureOps THEN "ensure" ELSE "stmt"

\* "stmt" is the call's own first statement, "write" its second one.
PC     == {"idle", "stamp", "expire", "assert", "ensure", "stmt", "write"}
Read   == [lost : BOOLEAN, exists : BOOLEAN, row : {NULL} \cup KeyRow,
           val : {NULL} \cup Value, items : Seq(Value),
           i : Nat, n : Int, mem : {NULL} \cup Member, score : {NULL} \cup Int64,
           asked : SUBSET Member, new : SUBSET Member]
\* The zero values of the locals, and what a read whose error is dropped leaves.
NoRead == [lost |-> FALSE, exists |-> FALSE, row |-> NULL, val |-> NULL,
           items |-> <<>>, i |-> 0, n |-> 0, mem |-> NULL, score |-> NULL,
           asked |-> {}, new |-> {}]
LostRead == [NoRead EXCEPT !.lost = TRUE]

ASSUME SessionAssumption ==
    /\ Backend \in {"sqlite", "postgres"}
    /\ ReadFaults \in BOOLEAN
    /\ MaxTime \in Nat /\ MaxTime <= MaxInt /\ MaxLen \in Nat

\* The handlers refuse a push without values, and a RENAME stays in the database
\* of its client.
ASSUME RequestsAssumption ==
    /\ Requests \subseteq Request
    /\ \A r \in Requests : \A i \in DOMAIN r : \A j \in DOMAIN r[i] :
         LET c == r[i][j]
         IN  /\ c.op \in ListPushes => c.vals # <<>>
             /\ c.op = "Rename" => c.dst[2] = c.pk[2]

ASSUME InitDbsAssumption ==
    \A d \in InitDbs : /\ d \in Database
                       /\ \A p \in Pk : HasData(d, p) => HasRow(d, p)

-----------------------------------------------------------------------------
Current(s) == Head(calls[s])
Target(s)  == Current(s).pk
At(s, l)   == pc[s] = l
Running(s, ops, l) == At(s, l) /\ Current(s).op \in ops

\* Mutant of CanWrite: a snapshot that is not current may be written from.
CanWriteStale(s) == TRUE

\* A SQLite read snapshot stays usable for writing only while nobody commits a
\* change; PostgreSQL under READ COMMITTED does not look.  After a failed read
\* SQLite takes its snapshot with the write; PostgreSQL has aborted.
CanWrite(s) == IF seen[s].lost THEN Backend = "sqlite"
               ELSE Backend = "postgres" \/ s \in fresh

\* Statements of session s leave the database as d, and end s's transaction.
Commit(s, d) == /\ db' = d
                /\ fresh' = IF d = db THEN fresh \ {s} ELSE {}

\* A transaction of s reads: its snapshot is the committed state.
Snapshot(s) == fresh' = fresh \cup {s} /\ UNCHANGED db

NoStatement == UNCHANGED <<db, fresh>>

\* How the history variable follows a step of s; fst tells whether a call of s
\* has just begun.
Untouched(t) == db'.keys[Target(t)] = db.keys[Target(t)]
Mark(s, fst) ==
    dead' = [t \in Session |->
               IF t = s /\ fst
               THEN calls'[t] # <<>> /\ Expired(db'.keys[Head(calls'[t]).pk], now)
               ELSE calls[t] # <<>> /\ dead[t] /\ Untouched(t)]

\* Go on to statement l of the same call, with r read so far.
Goto(s, l, r) == /\ pc' = [pc EXCEPT ![s] = l]
                 /\ seen' = [seen EXCEPT ![s] = r]
                 /\ UNCHANGED <<now, calls, cmds, res>>
                 /\ Mark(s, FALSE)

\* The calls and commands of s are now cs and ms, the last result is r.
Proceed(s, cs, ms, r) ==
    /\ calls' = [calls EXCEPT ![s] = cs]
    /\ cmds' = [cmds EXCEPT ![s] = ms]
    /\ pc' = [pc EXCEPT ![s] = IF cs = <<>> THEN "idle" ELSE Entry(Head(cs))]
    /\ res' = [res EXCEPT ![s] = r]
    /\ seen' = [seen EXCEPT ![s] = NoRead]
    /\ UNCHANGED now
    /\ Mark(s, TRUE)

\* The command of s is over: cmdExec's loop dispatches the next one, if any.
EndCommand(s, r) ==
    IF cmds[s] = <<>> THEN Proceed(s, <<>>, <<>>, r)
    ELSE Proceed(s, Head(cmds[s]), Tail(cmds[s]), r)

\* The store call of s returns r: the handler makes its next call, if any.
Return(s, r) ==
    IF Len(calls[s]) > 1 THEN Proceed(s, Tail(calls[s]), cmds[s], r)
    ELSE EndCommand(s, r)

-----------------------------------------------------------------------------
\* handleConn reads a request of the client and dispatches it.
Begin(s, r) ==
    /\ At(s, "idle")
    /\ NoStatement
    /\ Proceed(s, Head(r), Tail(r), NoResult)

\* cmdSet and Expire/PExpire compute the absolute expiry time, in int64.
StampExpiry(s) ==
    /\ At(s, "stamp")
    /\ LET c == Current(s)
       IN  /\ calls' = [calls EXCEPT ![s] =
                 <<[c EXCEPT !.exp = Wrap(now + c.ttl)]>> \o Tail(calls[s])]
           /\ pc' = [pc EXCEPT ![s] = AfterStamp(c)]
    /\ NoStatement
    /\ UNCHANGED <<now, cmds, seen, res>>
    /\ Mark(s, FALSE)

\* deleteExpired: autocommitted DELETE of the key if it has expired.
DeleteExpired(s) ==
    /\ At(s, "expire")
    /\ Commit(s, DeleteKeys(db, ExpiredKeys(db, {Target(s)}, now)))
    /\ Goto(s, AfterExpire(Current(s)), NoRead)

\* assertType: a live key of another type ends the call.
AssertType(s) ==
    /\ At(s, "assert")
    /\ NoStatement
    /\ LET c == Current(s)
           t == KeyType(db, c.pk, now)
       IN  IF t # NULL /\ t # WantedType(c.op)
           THEN EndCommand(s, WrongType)
           ELSE Goto(s, AfterAssert(c), NoRead)

\* Statements whose error is dropped: SELECTs of store.go Exists and Persist and
\* of zsets.go ZAdd, ZRange and ZRank.  Set, IncrBy and HSet drop the errors of
\* SELECTs too, but their transactions may still fail to begin.
DropsError(s) == \/ Running(s, {"Exists", "Persist", "ZAdd", "ZRange", "ZRank"}, "stmt")
                 \/ Running(s, {"ZRank"}, "write")

\* Mutant of FailStatement: a transaction that cannot write gets no error.
FailReadsOnly(s) ==
    /\ pc[s] \in {"expire", "assert", "ensure", "stmt"}
    /\ ~DropsError(s)
    /\ UNCHANGED db
    /\ fresh' = fresh \ {s}
    /\ EndCommand(s, Failed)

\* Mutant of FailStatement: the error of deleteExpired is dropped.
FailDropsExpiry(s) ==
    /\ pc[s] \in {"expire", "assert", "ensure", "stmt", "write"}
    /\ ~DropsError(s)
    /\ UNCHANGED db
    /\ fresh' = fresh \ {s}
    /\ IF At(s, "expire") THEN Goto(s, AfterExpire(Current(s)), NoRead)
       ELSE EndCommand(s, Failed)

\* Any other statement may fail (SQLITE_BUSY, SQLITE_BUSY_SNAPSHOT, a lost
\* connection ...): nothing is committed and the command answers the error.
FailStatement(s) ==
    /\ pc[s] \in {"expire", "assert", "ensure", "stmt", "write"}
    /\ ~DropsError(s)
    /\ UNCHANGED db
    /\ fresh' = fresh \ {s}
    /\ EndCommand(s, Failed)

\* The SELECT of Set, IncrBy, Exists or Persist fails and the code goes on with
\* the zero value of its local; no snapshot is taken.
LoseRead(s) ==
    /\ ReadFaults
    /\ NoStatement
    /\ \/ Running(s, {"Exists", "Persist"}, "stmt") /\ Return(s, Number(0))
       \/ Running(s, {"IncrBy"}, "stmt") /\ Goto(s, "write", LostRead)
       \/ Running(s, {"Set"}, "stmt")
          /\ IF "XX" \in Current(s).opt THEN Return(s, Nil) ELSE Goto(s, "write", LostRead)

-----------------------------------------------------------------------------
(* What the commands on the parts of a key share.                          *)

\* INSERT INTO keys ... ON CONFLICT DO NOTHING, for the calls ops.
Ensure(s, ops, type) ==
    /\ Running(s, ops, "ensure")
    /\ Commit(s, EnsureKey(db, Target(s), type))
    /\ Goto(s, "stmt", NoRead)

\* m is the member the call of ops has come to.
AtMember(s, ops, m) ==
    /\ Running(s, ops, "stmt")
    /\ seen[s].i < Len(Current(s).mems)
    /\ m = Current(s).mems[seen[s].i + 1]

\* One round of a loop with an autocommitted statement per member: it leaves the
\* database as d and affects rows if hit.
Round(s, d, hit) ==
    /\ Commit(s, d)
    /\ LET r == [seen[s] EXCEPT !.i = @ + 1, !.n = @ + (IF hit THEN 1 ELSE 0)]
       IN  IF r.i = Len(Current(s).mems) THEN Return(s, Number(r.n))
           ELSE Goto(s, "stmt", r)

-----------------------------------------------------------------------------
\* Mutant of SweepExpired: it leaves keys that are no strings.
SweepStrings ==
    LET P == {p \in ExpiredKeys(db, Pk, now) : db.keys[p].type = "string"} IN
    /\ P # {}
    /\ db' = DeleteKeys(db, P)
    /\ fresh' = {}
    /\ dead' = [t \in Session |-> calls[t] # <<>> /\ dead[t] /\ Untouched(t)]
    /\ UNCHANGED <<now, calls, cmds, pc, seen, res>>

\* SweepExpired, run by main's ticker goroutine.
SweepExpired ==
    /\ ExpiredKeys(db, Pk, now) # {}
    /\ db' = DeleteKeys(db, ExpiredKeys(db, Pk, now))
    /\ fresh' = {}
    /\ dead' = [t \in Session |-> calls[t] # <<>> /\ dead[t] /\ Untouched(t)]
    /\ UNCHANGED <<now, calls, cmds, pc, seen, res>>

\* The wall clock moves on.
Tick == /\ now < MaxTime
        /\ now' = now + 1
        /\ UNCHANGED <<db, calls, cmds, pc, seen, fresh, res, dead>>

\* The process dies and is started again on the same database file or server:
\* every connection is gone, every open transaction rolled back.
OfAll(x) == [s \in Session |-> x]

Crash == /\ \E s \in Session : ~At(s, "idle")
         /\ calls' = OfAll(<<>>)  /\ cmds' = OfAll(<<>>)  /\ pc' = OfAll("idle")
         /\ seen' = OfAll(NoRead) /\ res' = OfAll(NoResult)
         /\ fresh' = {}           /\ dead' = OfAll(FALSE)
         /\ UNCHANGED <<db, now>>

StoreInit == /\ db \in InitDbs /\ now = 0
             /\ calls = OfAll(<<>>)  /\ cmds = OfAll(<<>>)  /\ pc = OfAll("idle")
             /\ seen = OfAll(NoRead) /\ res = OfAll(NoResult)
             /\ fresh = {}           /\ dead = OfAll(FALSE)

\* Steps every session may take whatever the command.
CommonStep(s) == \/ StampExpiry(s)
                 \/ DeleteExpired(s)
                 \/ AssertType(s)
                 \/ FailStatement(s)
                 \/ LoseRead(s)
Environment == Tick \/ SweepExpired \/ Crash
=============================================================================
