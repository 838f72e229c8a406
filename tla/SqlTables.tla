----------------------------- MODULE SqlTables -----------------------------
(***************************************************************************)
(* The SQL schema of internal/db/db.go and the statements internal/store   *)
(* runs against it, as functions from database contents to contents.  A    *)
(* statement is atomic; what happens between two statements is the         *)
(* business of StoreSession.                                               *)
(***************************************************************************)
EXTENDS Integers, Sequences, FiniteSets

CONSTANTS
    Key,      \* key names
    DbIdx,    \* database indexes, the values SELECT can give ClientConn.DB
    Text,     \* pieces of text that do not parse as an integer
    Member,   \* hash fields, set and sorted set members, numbered in text order
    MaxInt,   \* stands for 2^63 - 1
    NULL      \* SQL NULL, and "no row"

MinInt == -MaxInt - 1

ASSUME KeyAssumption    == IsFiniteSet(Key)
ASSUME MemberAssumption == IsFiniteSet(Member) /\ Member \subseteq Int
ASSUME MaxIntAssumption == MaxInt \in Nat \ {0}
ASSUME NullAssumption   == NULL \notin Int /\ NULL \notin Text

\* int64 arithmetic: the sum or difference of two int64 values, wrapped.
Int64   == MinInt .. MaxInt
Wrap(n) == IF n > MaxInt THEN n - 2 * (MaxInt + 1)
           ELSE IF n < MinInt THEN n + 2 * (MaxInt + 1) ELSE n

(***************************************************************************)
(* A string is a sequence of pieces: decimal renderings of integers and    *)
(* texts.  Only one integer piece alone parses as an integer, which is the *)
(* case as long as nothing that starts with a digit is appended to one.    *)
(***************************************************************************)
Value        == Seq(Int64 \cup Text)
FormatInt(n) == <<n>>
IsInt(v)     == Len(v) = 1 /\ v[1] \in Int64
ParseInt(v)  == v[1]

(***************************************************************************)
(* The tables.  keys has at most one row for a primary key (key, db); the  *)
(* other tables hold the data rows of one (key, db), lists in idx order.   *)
(***************************************************************************)
Pk       == Key \X DbIdx
Type     == {"string", "list", "hash", "set", "zset"}
Time     == {NULL} \cup Int64
KeyRow   == [type : Type, exp : Time]
Fields   == [Member -> {NULL} \cup Value]
Scores   == [Member -> {NULL} \cup Int64]
NoFields == [m \in Member |-> NULL]

\* "No row" is not a row, and not a value.
ASSUME RowAssumption   == NULL \notin KeyRow
ASSUME ValueAssumption == NULL \notin Value

Database == [keys    : [Pk -> {NULL} \cup KeyRow],
             strings : [Pk -> {NULL} \cup Value],
             lists   : [Pk -> Seq(Value)],
             hashes  : [Pk -> Fields],
             sets    : [Pk -> SUBSET Member],
             zsets   : [Pk -> Scores]]

EmptyDatabase == [keys    |-> [p \in Pk |-> NULL],
                  strings |-> [p \in Pk |-> NULL],
                  lists   |-> [p \in Pk |-> <<>>],
                  hashes  |-> [p \in Pk |-> NoFields],
                  sets    |-> [p \in Pk |-> {}],
                  zsets   |-> [p \in Pk |-> NoFields]]

(***************************************************************************)
(* aliveWhere and its complement in deleteExpired and SweepExpired, for a  *)
(* row of keys and the time the statement runs with.                       *)
(***************************************************************************)
Alive(row, t)   == row # NULL /\ (row.exp = NULL \/ row.exp > t)
Expired(row, t) == row # NULL /\ row.exp # NULL /\ row.exp <= t

HasRow(d, p)  == d.keys[p] # NULL
HasData(d, p) == \/ d.strings[p] # NULL
                 \/ d.lists[p] # <<>>
                 \/ d.hashes[p] # NoFields
                 \/ d.sets[p] # {}
                 \/ d.zsets[p] # NoFields

\* DELETE FROM keys WHERE ...: the rows in P go, and ON DELETE CASCADE takes
\* their data rows in every table along.
DeleteKeys(d, P) ==
    [keys    |-> [p \in Pk |-> IF p \in P THEN NULL     ELSE d.keys[p]],
     strings |-> [p \in Pk |-> IF p \in P THEN NULL     ELSE d.strings[p]],
     lists   |-> [p \in Pk |-> IF p \in P THEN <<>>     ELSE d.lists[p]],
     hashes  |-> [p \in Pk |-> IF p \in P THEN NoFields ELSE d.hashes[p]],
     sets    |-> [p \in Pk |-> IF p \in P THEN {}       ELSE d.sets[p]],
     zsets   |-> [p \in Pk |-> IF p \in P THEN NoFields ELSE d.zsets[p]]]

\* keyType: the type of a live key, NULL for a missing or expired one.
KeyType(d, p, t) == IF Alive(d.keys[p], t) THEN d.keys[p].type ELSE NULL

\* Mutant of ExpiredKeys: expires_at <= now + 1.
ExpiredKeysEarly(d, P, t) == {p \in P : Expired(d.keys[p], t + 1)}

\* The rows deleteExpired(p) and SweepExpired delete.
ExpiredKeys(d, P, t) == {p \in P : Expired(d.keys[p], t)}

\* upsertKey: insert the row or overwrite both its columns.
UpsertKey(d, p, type, exp) ==
    [d EXCEPT !.keys[p] = [type |-> type, exp |-> exp]]

\* INSERT INTO keys(key,db,type) ... ON CONFLICT DO UPDATE SET type: an
\* existing row keeps its expires_at.
UpsertKeyType(d, p, type) ==
    [d EXCEPT !.keys[p] = [type |-> type,
                           exp  |-> IF HasRow(d, p) THEN d.keys[p].exp ELSE NULL]]

\* INSERT INTO keys(key,db,type) ... ON CONFLICT DO NOTHING: an existing row
\* keeps its type as well.
EnsureKey(d, p, type) ==
    IF HasRow(d, p) THEN d
    ELSE [d EXCEPT !.keys[p] = [type |-> type, exp |-> NULL]]

\* UPDATE keys SET expires_at: no effect when there is no row.
UpdateExpiry(d, p, exp) ==
    IF HasRow(d, p) THEN [d EXCEPT !.keys[p].exp = exp] ELSE d

\* INSERT or UPDATE of the strings row of p (the caller has seen to the FK).
PutString(d, p, v) == [d EXCEPT !.strings[p] = v]

\* UPDATE strings SET value: no effect when there is no row.
UpdateString(d, p, v) == IF d.strings[p] = NULL THEN d ELSE PutString(d, p, v)

\* INSERT INTO <table of type> SELECT ... FROM <table of type>: p's rows of that
\* one table, copied to q.
CopyData(d, type, p, q) ==
    CASE type = "string" -> [d EXCEPT !.strings[q] = d.strings[p]]
      [] type = "list"   -> [d EXCEPT !.lists[q] = d.lists[p]]
      [] type = "hash"   -> [d EXCEPT !.hashes[q] = d.hashes[p]]
      [] type = "set"    -> [d EXCEPT !.sets[q] = d.sets[p]]
      [] type = "zset"   -> [d EXCEPT !.zsets[q] = d.zsets[p]]
=============================================================================
