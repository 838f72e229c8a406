# A TLA+ model of sql-resp

sql-resp is a server that speaks the Redis protocol and keeps its data in SQLite or
PostgreSQL. Every connection is a goroutine, every command is one or more SQL
statements, and the only coordination between connections is what the database's
transactions and two mutexes of the pub/sub code give. This directory holds a model
of that system, model-checked with TLC on small instances, with its main safety
properties proved with TLAPS for all instances.

## The system: inventory

| Component | State | Operations | Talks to |
|---|---|---|---|
| SQL schema (`internal/db/db.go`) | tables `keys`, `strings`, `lists`, `hashes`, `sets`, `zsets`; foreign keys with `ON DELETE CASCADE` | the statements of the store | - |
| drivers (`internal/db/sqlite.go`, `postgres.go`) | connection pool, open transactions | `Exec`, `Query`, `BeginTx`, `Commit`, `Rollback` | the database |
| store, keys (`internal/store/store.go`) | none of its own (locals of a call) | `Del`, `Exists`, `Expire`, `TTL`, `Persist`, `Type`, `Rename`, `Keys`, `DBSize`, `RandomKey`, `FlushDB`, `FlushAll`, `deleteExpired`, `SweepExpired`; `globMatch` | drivers |
| store, strings (`store.go`, `strings.go`) | locals | `Get`, `Set` (NX, XX, expiry), `IncrBy`, `Append`, `StrLen` | drivers |
| store, lists (`lists.go`) | locals | push, pop, `LLen`, `LRange`, `LIndex`, `LSet`, `LInsert`, `LRem` | drivers |
| store, hashes / sets / sorted sets | locals | one statement per field or member | drivers |
| command handlers (`internal/commands/*.go`) | none | parse arguments, call the store, format the answer | store |
| registry and MULTI (`registry.go`, `multi.go`, `clientconn.go`) | `ClientConn`: DB index, MULTI flag and queue, authenticated | `Dispatch`, `QueueOrDispatch`, MULTI, EXEC, DISCARD, SELECT | handlers |
| connection loop (`internal/server/server.go`) | one goroutine and one locked writer per connection | AUTH, SUBSCRIBE, UNSUBSCRIBE, PUBLISH, QUIT, disconnect | broker, registry |
| broker (`internal/pubsub/broker.go`) | map channel -> subscriber entries, under an RWMutex | `Subscribe`, `Unsubscribe`, `Publish` | writers of other connections |
| start-up, sweep, shutdown (`cmd/sql-resp/main.go`) | three goroutines, signal channel, listener | load, open, migrate, listen; `SweepExpired`; signals | configuration, store, server |
| configuration (`internal/config/config.go`) | `Config` | defaults, file, environment, flags | - |
| RESP codec (`internal/resp/resp.go`) | bytes read ahead, the arrays begun | `ReadValue`, `WriteTo` | socket |
| PING, ECHO, COMMAND, INFO | none | format text; INFO counts keys | store |

What is hard about it:

* **Statements of two connections interleave.** A store call reads, computes in Go and
  writes. Whether the write is based on what is still there depends on whether read and
  write share a transaction, and on the isolation level of the backend. `Set`,
  `IncrBy` and `Append` use one transaction; the list commands, `Rename` and `Persist`
  read outside it; hashes, sets and sorted sets go member by member, mostly without a
  transaction; GETSET, MSET, DEL of several keys and EXEC are several calls.
* **Expiry is lazy and concurrent.** A call deletes its key if it has expired, then runs
  further statements, each with a clock reading of its own, while a ticker sweeps.
* **Failures.** Any statement may fail (on SQLite two open transactions cannot both
  write, and there is no busy timeout); some errors are dropped; the process may die
  between two statements.
* **Pub/sub shares the socket.** `Publish` copies the subscriber list, releases the lock
  and writes to sockets of other connections, which may be full, closed or gone.
* **Protocol sequences.** AUTH, MULTI, refused commands, SELECT and pub/sub commands in any
  order on one connection.
* **Input comes in pieces.** A value may be split anywhere over the reads of a socket, many may
  come in one, and the peer may leave in the middle.
* **Start and end.** Signals race the start; a migration may be cut short and the next process finds
  any part of the schema.

What makes each part correct, with the property that says so:

| Part | Properties |
|---|---|
| schema and statements | `NoOrphanData`, `DatabasesIsolated` |
| strings | `NoLostUpdate`, `ConditionHolds`, `CallsAreAtomic`, `StringHasValue` |
| expiry | `LazyExpiry`, `LiveKeyStays`, `ExpiredIsSwept` |
| lists | `NoOrphanData`, `LazyExpiry`; `ListRewriteIsExact` does not hold |
| hashes | `HSetIsExact` (SQLite), `NoOrphanData`, `LazyExpiry` |
| sets | `NoOrphanData`, `LazyExpiry` (not for the first key of SINTER and SDIFF) |
| sorted sets | `ZAddIsConditional`, `NoOrphanData`, `LazyExpiry` |
| several types on one key | `DataMatchesType` does not hold |
| handlers, EXEC | `ExecRunsAcknowledged`; `SwapIsExact` does not hold |
| all store calls | `Answered` |
| connection loop | `AuthGate`, `PublishReturns` (if clients read) |
| RESP codec | `DecodedIsSent`, `CleanEnd`, `CommandsArriveInOrder`, `AllDecoded` |
| globMatch | `AnswerIsRight` (no panic either, for patterns whose classes are closed), `Terminates` |
| configuration, start-up | `SettingsAddUp`, `ServingStops`, `MigrationResumes` |
| drivers | `RewriteIsRight` |
| broker | `ClosedIsUnsubscribed`, `ConfirmedGetsMessage`, `PublisherOrder` |

`PROJECT.json` lists the hazards line by line with the properties that cover them, and
maps every definition that models code to its source lines.

## Modules

```
SqlTables       schema, statements as functions on database contents, int64
  StoreCalls      calls of the store: arguments, results, computed values
    AtomicStore     abstract: every call is one step
    StoreSession    sessions, pc per statement, snapshots, expiry, failures, crash
      KeyCommands StringCommands ListCommands
      HashCommands SetCommands ZSetCommands      statements of each command
        Store         Next, Spec, properties
          StoreRefinement   Store implements AtomicStore
          StoreProofs       type invariant (TLAPS)
            StoreSafetyProofs   foreign keys, expiry, lost updates, NX/XX, HSET, ZADD, live keys, databases
              StoreRefinementProofs   Store implements AtomicStore (with StoreRefinement)
      Handlers      commands as store calls (MSET, GETSET, EXEC ...)
        MCStore       instances (with StoreRefinement)
Broker          Broker.subs and its methods
  Server          connection loop, AUTH, MULTI, pub/sub
    ServerProofs    (TLAPS, with DataLemmas)
    MCServer        instances
Itoa            decimal numerals
  RespCodec       values, bytes, lines
    RespStream      the Reader on a stream in pieces; implements CommandPipe (a FIFO queue)
      RespProofs      for every script and every cut, and the refinement (TLAPS, with DataLemmas)
  Placeholders    rewritePlaceholders
GlobMatch       globMatch, one step per turn of its loop
  TextProofs      globMatch and rewritePlaceholders for every input (TLAPS, with DataLemmas)
  MCText          the three side by side (with RespStream and Placeholders)
DataLemmas      induction, and lemmas on sequences, for the proofs of the server, start-up and text
Migration       the schema, statement by statement
  Startup         configuration, main, its goroutines, signals, restarts
    StartupProofs   (TLAPS, with DataLemmas)
    MCStartup       instances
```

### How the store is modelled

`db` is the committed contents: a function from (key, database) for each table. A
statement is an operator of `SqlTables` from contents to contents; deleting a `keys` row
cascades. An action of a session is one SQL statement of the running call, or, for a
transaction, its read (`stmt`) and then its writes with the COMMIT (`write`): uncommitted
writes are visible to nobody on either backend, and the writes of a transaction are
based only on its read. `pc` says which statement is next: `stamp` (the handler computes
an absolute expiry), `expire` (`deleteExpired`), `assert` (`assertType`), `ensure`
(`lEnsure`, `hEnsure`, `sEnsure`, `zEnsure`), `stmt`, `write`. Loops over fields or members stay at `stmt` (and `write`), one
statement per turn; where Go ranges over a map, the next member is any that is left. HSET's transaction counts field by field
and writes all of them with its COMMIT; its counts see its own upserts, which concern other fields only. `seen` holds the Go locals a call has read, `calls` and `cmds` the
rest of the command and of the MULTI block.

*Isolation.* `fresh` is the set of sessions whose open read snapshot still is the
committed state. On SQLite (WAL, deferred transactions, no busy timeout) a transaction
that has read can write only while its snapshot is current, otherwise the driver reports
`SQLITE_BUSY_SNAPSHOT`; on PostgreSQL (READ COMMITTED, plain SELECT) the write goes
through. This is `CanWrite`; the drivers are external code, modelled by what the store
relies on.

*Failures.* `FailStatement` lets any statement fail and the command answer the error.
`Set`, `IncrBy`, `Exists`, `Persist`, `HSet`, `ZAdd`, `ZRank` and `ZRange` drop the error of a SELECT: with `ReadFaults`
`LoseRead` goes on with the zero value of the local, as the code does. `Crash` ends all
sessions at any moment and keeps `db`.

*Data.* A string is a sequence of pieces, each an integer rendering or a text that is not
an integer; only a single integer piece parses. int64 is `-MaxInt-1 .. MaxInt` with wrap-around.
The clock counts milliseconds; `MsPerSec` scales seconds. A pattern of KEYS is given by the
names it matches. Fields and members are small integers (`Member`), ordered for ZRANGE's ties; scores are
integers within the bounds of int64's stand-in. A collection that becomes empty keeps its `keys` row, as in
the code for hashes, sets and sorted sets.

### How the server is modelled

`Server` has one `pc` per connection goroutine. `Handle` is what the loop does with a
command, in the order of the code: AUTH check, AUTH, pub/sub, QUIT, then
`QueueOrDispatch`. Channels of a SUBSCRIBE are handled one by one, each with its
confirmation; `Publish` takes its copy in one step and delivers in one step per subscriber. `EmptyName` is the channel name "": `Unsubscribe`
takes it for all channels, also when a client gives it.
A write to a socket (`WriteTo`) waits while the buffer is full and is dropped if the
connection is closed or the client gone. Data commands only record the database index
they ran against; their effect on the data is the subject of `Store`, where an EXEC is a
request of several commands. `conf`, `aim`, `last`, `ran` and `acked` are history
variables: no guard of the server reads them (`Sends` reads `conf` for clients that
keep track of their channels).

### The other modules

`RespStream` holds the bytes that are under way, those in the `bufio.Reader`, and the recursion of `readValue`
through `readArray` as a stack of arrays begun. A read whose bytes are there takes one step; otherwise it
waits, or fails once the stream has ended. A complete value goes to the innermost array begun or is returned (`Deliver`), and an
array with all its elements returns to the one around it in a step of its own (`ReturnArray`). A peer sends a script of items: an
item (`ItemsAssumption`) is the bytes of one call of `writeValue` around the bytes of its elements, an inline command, or a
malformed line or body. `Arrive` delivers any number of bytes, and `PeerGone` cuts the rest. So `writeValue` needs no recursion:
nesting is in the items.

`GlobMatch` has one step per turn of `globMatch`'s loop; the recursive calls of `*` are the stack `stars` of
patterns and suffixes. The reference `Matches` says what a pattern means without an
algorithm: the key can be cut into one part for each position of the pattern, empty for the positions inside a class, and
`Fits` says which part a position accepts.

`Placeholders` is the loop of `rewritePlaceholders`, one character (or doubled quote) a step; its reference counts the
marks outside literals and writes the count in decimal by powers of ten, not by `itoa`'s division. `MCText` runs it, `GlobMatch` and `RespStream` one at a time, since they share nothing: each initial
state is an input of one of the three.

`Startup` follows main: the directives of the file one by one, environment, flags, open, migrate statement by statement
(`Migration`), the two goroutines, listen and accept; beside it the signal goroutine and the sweep's, and signals at any moment.
A file that is not `readable` cannot be opened, or the Scanner gives up at one of its lines (an overlong one).
Before `signal.Notify` a signal ends the process; afterwards it goes to the channel. All goroutines end when main does, and
`Restart` starts the next process with the same inputs on the database that is left.

## What is checked

Passing runs (two sessions or two connections):

| Run | Shows |
|---|---|
| `store_atomic` | On SQLite, INCR, DECRBY of the smallest integer, APPEND, SET NX PX, SET XX, EXPIRE, DEL, FLUSHDB and reads race on one key, with failures, crashes and the sweep. No update is lost, NX and XX hold at the commit, a string key has its value, and each call is one atomic step of `AtomicStore`. |
| `store_keys` | PERSIST, PEXPIRE, RENAME, INCRBY, MSET, KEYS, RANDOMKEY, INFO, FLUSHDB and an EXEC of FLUSHALL and a DEL of two keys on two databases around an expiry, with dropped read errors. Nothing acts on a key that had expired, no live key is taken by expiry, databases stay apart, a lost read never makes INCRBY overwrite a value. |
| `store_types` | All list, hash, set and sorted set commands, and DEL, on PostgreSQL, the weaker backend, around an expiry, with dropped read errors and crashes: no data without its key, no command on an expired key, ZADD NX and XX keep their condition. |
| `store_sweep` | On SQLite under fairness an expired key goes even if untouched, and every request is answered, with loops over fields and members among them; HSET writes all pairs at once and its answer is exact. |
| `server` | Two sites. Two connections subscribe, leave (by name, by the empty name, without a name), publish, quit and vanish, with sockets of one frame: confirmed subscribers get each message once and in the publisher's order; a closed connection has no entry; PUBLISH returns as long as clients read. And one connection of a server with a password sends 18 kinds of command in every order: nothing has an effect before AUTH, a MULTI block is all or nothing. |
| `text` | Scripts of RESP values (pipelined, nested, inline, malformed) cut in every way: what is read is what was written, in order and complete; `RespStream` implements `CommandPipe`. Patterns and keys: the answer is what the pattern means, and the search ends. Queries: each placeholder gets its number, literals stay. |
| `startup` | Files of up to two directives, with every environment and flag, signals and restarts: later layers and lines win, refused directives stop the start; the next migration completes one that was cut short; a signal while the server accepts ends the process, which an error of `Accept` may end as well. |

`store_types` uses `TypedSpec` (`MCStore`), the same steps for clients that use a key for one type at a time: a command of
another type is sent only once the key is gone and no call of the first type is under way. `type_race` is what happens otherwise.

Runs whose property the code does not satisfy; each quotes a statement of the repository:

| Run | Counterexample |
|---|---|
| `incr_postgres` | Two INCRs on PostgreSQL read the same value and both commit ("atomically increments"). |
| `swap_exec` | A SET of another connection between the Get and the Set of GETSET, or of an EXEC, is overwritten unseen ("execute inside a single SQL transaction"). |
| `list_lost_update` | A pop or push rewrites a list read before another command committed, on SQLite as well ("to prevent lost updates"). |
| `type_race` | HSET and SADD both find no key; one of them writes under a key of the other's type ("returned when a command targets a key of the wrong type"). |
| `slow_subscriber` | A subscriber that does not read holds up its publisher ("must not block indefinitely"). |

### Divergences without a run

The model shows these too. Where a property above is concerned, the change to a configuration under which TLC finds it is given.

| Code | What it does | Seen with |
|---|---|---|
| `store.go:138` | On PostgreSQL two SETNX count no key and both store (PRD.md: "to prevent lost updates"). | `ConditionHolds`, `Backend = "postgres"` in `store_atomic.cfg` |
| `store.go:134` | The COUNT of SET NX fails, its error is dropped, and a live key is overwritten. | `ConditionHolds`, `ReadFaults = TRUE` in `store_atomic.cfg` |
| `hashes.go:40` | Two HSETs on PostgreSQL both count a new field ("the number of new fields added"). | `HSetIsExact`, `Backend = "postgres"` in `store_sweep.cfg` |
| `store.go:318` | RENAME reads the type before its transaction; with a DEL in between the destination is a string key without value ("atomically renames"). | `StringHasValue`, with RENAME k1 k2 among `AtomicRequests` and k2 in `Key` |
| `broker.go:30` | SUBSCRIBE to one channel twice, then QUIT: one entry stays for ever ("removes sub from all channels"). | `ClosedIsUnsubscribed`, `Resubscribe = TRUE` in `server.cfg` |
| `server.go:180`, `broker.go:39` | UNSUBSCRIBE with an empty name leaves every channel and answers 0, although its reply names "" only. "Asked to leave" in `ConfirmedGetsMessage` is as `broker.go:35` has it: the empty name asks to leave all channels. | `Broker!Unsubscribe`, `Server!LeftBy` |
| `store.go:55`, `store.go:286` | A key has expired at `expires_at <= now`, and is alive at `expires_at > now`; PRD.md:87 says `expires_at < NOW()`, one millisecond later. `LazyExpiry` and the model's `Expired` follow the code; `LiveKeyStays` calls alive only what both call so. | `SqlTables!Expired` |
| `store.go:335` | RENAME k k deletes k: the destination that is dropped first is the source. | `KeyCommands!Renamed` |
| `store.go:164`, `commands/strings.go:313` | Between two keys of a DEL or an MSET another connection, or a crash, finds some done and some not (PRD.md: DEL "atomically"). | `Handlers!Each`, `cmdMSet` |
| `sets.go:162` | SINTER and SDIFF read their first key although it has expired (PRD.md: "every read operation checks"). | the call `SBase`, not in `LazyOps` |
| `zsets.go:259` | Two ZINCRBYs read the same score and one is lost. | `ZIncrByRead`, `ZIncrByWrite` |
| `zsets.go:122` | A member added between ZRANK's two SELECTs is ranked 0 with another below it. | `ZRankCount`, `ZRankExists` |
| `server.go:190` | PUBLISH, SUBSCRIBE and AUTH take effect inside MULTI (PRD.md: "commands are queued rather than executed"). | `Server!Handle` |
| `store.go:465` | A pattern with an unclosed class, such as `[b` with a key `b`: the slice is out of range. | `GlobMatch!Class`, answer `PANIC` |
| `server.go:61` | A signal after `Notify` and before the listener is stored is lost, and so are later ones ("Graceful shutdown"). | `Startup!Close`; `asked` leaves it out |
| `main.go:58` | `backend postgres` with `save ""` opens Postgres with `:memory:`, which fails (PRD.md: "uses SQLite"). | `Startup!Open` |
| `main.go:86` | Certificate and key are configured, the listener is plain TCP. | `Startup!Serve` |
| `sqlite.go:20` | Every connection of the pool has a `:memory:` database of its own, and only one has tables. | not modelled |

Every property of a passing run has a mutant of the model, a plausible slip in the code
(a dropped guard, a missing clean-up, an off-by-one of the expiry test), under which TLC
finds it violated. Mutants stand before the definition they replace and are used nowhere else.

### Bounds

* `MaxTime` 1 or 2 ms: with expiries at 1 there is a state before and one after each
  expiry, and every statement may be on either side. Nothing compares times further apart.
* `MaxInt` 2, 3 or 5 stands for 2^63-1: sums and the negation of the smallest integer wrap.
* `MaxLen` bounds values and lists. A command that would exceed it is left to fail, which it may do
  anyway, so it removes no other behaviour.
* `BufCap` 1 or 2 frames: enough for full sockets. `MaxPub`: at most two messages per
  publisher, the least for an order between them. `MaxQueue` 2 and `MaxRan` 3: a block
  with a SELECT and a data command, and commands before it.
* Two sessions: the hazards of the store are races of one reader-writer with one other
  writer; the sweep, the clock and the crash come on top. The theorems have no such bound.
* Two fields or members per key: the loops then have a state between two turns, which is where DEL, the sweep and crashes bite.
* `text`: scripts of two or three values, since what one value leaves in the buffer only matters to the next; patterns of up to
  four characters, the least for two items around a class or a `*` after a `*` (`AnswerIsRight` claims nothing about patterns
  with unclosed classes); queries of up to six characters, which hold two literals, and one of thirteen marks, which reaches
  numbers of two digits.
* `startup`: two lines, so that a directive can be overwritten; two signals (`MaxSignals`); two restarts (`MaxRestarts`), so
  that a migration cut short can be cut short again.
* `SYMMETRY` permutes sessions, only in runs without liveness.

### Fairness

* `Store!FairSpec`: weak fairness of each session's `Step` (a goroutine with a statement
  to run gets a result or an error from the driver) and of `SweepExpired` (the
  ticker). A tick whose statement fails is a stutter, so the assumption is that not every
  tick fails. Nothing is assumed of clients: new requests, the clock and crashes are not fair.
* `RespStream!StreamSpec`: weak fairness of `Arrive \/ ReadValue`: bytes under way arrive and the connection's goroutine runs. The peer may
  leave; `AllDecoded` then claims nothing.
* `Startup!FairSpec`: weak fairness of main's steps, the signal goroutine's and `NewTicker`: Go runs every goroutine that can
  run. Signals, restarts and errors of `Accept` on an open listener are not fair. `GlobMatch!GlobSpec`: the function runs. `MCText` states the same
  two fairness conditions for the machines it runs side by side.
* `Server!FairSpec`: strong fairness of `Continue`. A handler waiting to write contends for
  the writer's `sync.Mutex` with publishers; Go's mutex hands over to waiters that have starved, so a
  handler for which there is room again and again gets it.
* `Server!ReadingSpec` adds that clients read what is in their sockets. The code guarantees no such
  thing, which is the point of `slow_subscriber`: the same property fails without it.
* Server configurations turn deadlock checking off, since all clients may have left and
  a bounded client may have nothing left to send. Store configurations keep it on.
  `text` and `startup` turn it off as well: a function returns, a process exits.

## What is proved

For any sets of keys, databases, sessions, connections, channels, requests, configuration files, patterns and queries, any
bounds, and both backends unless stated.

### Assumptions

The named `ASSUME`s of the modules; TLC evaluates them in the runs.

* Store: `MaxInt` and `MsPerSec` are positive; NULL is no integer, text, value, row or call (`NullAssumption`,
  `RowAssumption`, `ValueAssumption`, `AbsenceAssumption`); members are integers; the server starts on a database whose foreign
  keys hold (`InitDbsAssumption`); requests are well typed, a push has values and RENAME stays in its database
  (`RequestsAssumption`; the handlers refuse a push without values and pass one index for both names).
* Server: commands are well typed, a PUBLISH that passes the arity check names a channel, buffers hold a frame
  (`ServerAssumption`).
* Start-up: files, environments and flags are text (`StartupAssumption`); every object of the schema is created by a statement and
  a statement refers only to objects of earlier ones (`SchemaAssumption`, a fact about the schema text of `db.go`).
* `GlobAssumption`, `QueriesAssumption`: patterns, keys and queries are sequences of characters.
* RESP: the bytes with a name in the model are bytes (`ByteAssumption`); a peer sends sequences of items, each of them written by
  `writeValue` (a simple string or an error has no LF within), typed by hand, or malformed in one of the three ways the Reader has
  to notice (`ItemsAssumption`, `ScriptsAssumption`). Arrays may be nested to any depth, and have malformed elements.

### The store

| Theorem | Statement | Argument |
|---|---|---|
| `TypeCorrect` | `Spec => []TypeOK` | `TypeOK` alone is not inductive: a write computes from what was read several steps ago. `TypeInv` adds `Ready`: a call at `stamp` has a lifetime, and at `write` its read has the shape the write needs (an integer for INCRBY, a list the command rewrites, a row for RENAME). One lemma per command family. |
| `ForeignKeysHold` | `Spec => []NoOrphanData` | Each statement preserves `Sound`; for the inserts of IncrBy, Append, Rename and lRewrite because the statements before them in the transaction, or the foreign key itself, see to the keys row. |
| `LazyExpiryHolds` | `Spec => []LazyExpiry` | `LazyInv`: while a call is marked dead, the expired row is still there; so `deleteExpired` removes it, which clears the mark, and after that statement no call is dead. |
| `LiveKeysStay` | `Spec => LiveKeyStays` | Every statement either leaves the rows of live keys, or is one of a call that may remove that key (`RowInv`: the calls of a session are calls the handlers make). For `deleteExpired` and the sweep it is their WHERE clause. |
| `DatabasesStayApart` | `Spec => DatabasesIsolated` | The same case analysis: each statement of a call changes keys of the call's database only; RENAME's two keys are in one. |
| `StringsHaveValues` | requests without RENAME, on a database paired from the start: `Spec => []StringHasValue` | `PairInv`: `keys` row of type string and `strings` row come and go together (`Paired`), which is stronger than the property: a value without its key, or under a key of another type, would let a later DEL or SET part them. |
| `SqliteLosesNoUpdate` | SQLite: `Spec => NoLostUpdate` | `SnapshotInv`: while a session is in `fresh`, what it has read is what is committed. It needs the shape of every step (`Shape`): a step that changes `db` empties `fresh`. With a lost read the plain INSERT succeeds only if there is no value. |
| `SqliteSetIsConditional` | SQLite, no dropped read errors: `Spec => ConditionHolds` | The same invariant, for the count SET NX and XX decide on; time passes, but an absent or expired key does not become live by it. |
| `SqliteHSetIsExact` | SQLite, no dropped read errors: `Spec => HSetIsExact` | `HSetInv`: while HSET's snapshot is current, `new` is exactly the fields asked that are not in the hash, and at `write` all were asked. A step of another session that changes `db` ends the snapshot, and HSET can then no longer write. |
| `ZAddKeepsItsCondition` | both backends, lost reads included: `Spec => ZAddIsConditional` | The COUNT may be stale, but NX only goes on to write when it was 0, and the plain INSERT refuses a member that is there; XX only when it was not, and UPDATE touches no member that is not there. |
| `StoreIsAtomic` | SQLite, no dropped read errors, the calls of `AtomicStore`, on a database paired from the start: `Spec => CallsAreAtomic` | The refinement, step by step. `AtomicInv` is `SnapshotInv`, `Paired`, that the calls are those of `AtomicStore` and that only calls with a type assert one. The statement that answers is the call's step `Do`; `deleteExpired` and the sweep are `Reap`, new requests and crashes `Forget`, the clock `Pass`; every other statement changes nothing the abstract store shows. `SnapshotInv` makes the write of a transaction compute from the state it commits to; `Paired` makes `keys` and `strings` one abstract row. |

The hypotheses cannot go. `incr_postgres` refutes `SqliteLosesNoUpdate` and `StoreIsAtomic` on PostgreSQL, and the changes listed under
"Divergences without a run" refute those about SET and HSET and, with RENAME, `StringHasValue`. The calls left out of
`StoreIsAtomic` are those of which it is not true (lists, RENAME) or of which `AtomicStore` says nothing.

### The server

| Theorem | Statement | Argument |
|---|---|---|
| `ServerTypeCorrect` | `Spec => []ServerTypeOK` | `TypeInv` adds that a confirmation under way has its channel, that the entries are finite in number (they are counted for a reply), and that a delivery has its reply. EXEC's fold over the queue keeps the types (`FoldEffectType`). |
| `AuthGateHolds` | `Spec => []AuthGate` | `AuthInv`: a connection without AUTH is in none of the loops either, so nothing it may still do subscribes, publishes or runs. |
| `ExecIsAllOrNothing` | `Spec => ExecRunsAcknowledged` | `MultiInv`: in a MULTI block the queue is what was acknowledged, and index and record are those of MULTI. Steps of other connections touch none of it. |
| `ConfirmedAreServed` | `Spec => []ConfirmedGetsMessage` | `ConfirmedInv`: what a client was told it has, and has not asked to leave (an empty name asks to leave all, `LeftBy`), is in the lists, also while an UNSUBSCRIBE runs; a message under way is still to be delivered to those it was aimed at, or was written, or they are gone. |
| `ClosedConnectionsGone` | clients do not resubscribe: `Spec => []ClosedIsUnsubscribed` | `OneEntryInv`: each list has at most one entry of a connection, confirmed or under way. `removeOne` removes one entry, so without it the clean-up would leave some. |
| `MessagesInOrder` | clients do not resubscribe: `Spec => PublisherOrder` | `OrderInv`, with `OneEntryInv`: the copy of a publisher names nobody twice, and those still in it have older messages only. |

`~Resubscribe` is a hypothesis about clients, and it is needed: a second SUBSCRIBE to a channel adds a second entry
(`broker.go:30`), which stays behind and gets every message twice. `ConfirmedAreServed` holds without it.

### Start-up and text

| Theorem | Statement | Argument |
|---|---|---|
| `LayersAddUp` | `Spec => []SettingsAddUp` | `ConfigInv`: after any number of lines each field is what the last line with its key says, or the default (`FromLines`), and later layers are laid on it. |
| `MigrationsResume` | `Spec => []MigrationResumes` | `MigrationInv`: the statements left are a suffix of the schema and all before it are done, by this process or an earlier one. |
| `GlobMatchIsRight` | `GlobSpec => []AnswerIsRight` | `GlobInv`: as long as the search runs, the key matches the pattern exactly if what is left of the one matches what is left of the other, or a suffix that an open `*` has still to try does. `MatchesNext` takes one position off a cut; one lemma for each kind of item. |
| `PlaceholdersAreNumbered` | `RewriteSpec => []RewriteIsRight` | `RewriteInv`: what is written is the rewriting of what is read, `n` counts the placeholders before `i`, and `inString` is the parity of the quotes before `i`. `ItoaInDecimal`: the digits that `itoa` prepends are those of the number by powers of ten, for numbers of any size. |

### The RESP reader

| Theorem | Statement | Argument |
|---|---|---|
| `ReaderTypeCorrect` | `StreamSpec => []StreamTypeOK` | From `RespInv`: the arrays begun are arrays of the script, so none gets more elements than its line said. |
| `ReaderInvertsWriter` | `StreamSpec => []DecodedIsSent` | From `RespInv`: what was returned is the values of the first items of the script, none of them malformed. |
| `ReaderEndsCleanly` | `StreamSpec => []CleanEnd` | At the end of the stream the bytes ahead are those never sent; if there are none, the Reader stands behind the last item. |
| `ReaderIsPipe` | `StreamSpec => CommandsArriveInOrder` | The refinement: a step that returns a command (a value with a word in it) is the pipe's `Receive`, every other step a stutter. |

`DecodedIsSent` speaks of returned values only; between two of them the Reader may be deep in nested arrays with a part of the next
item in its buffer. `RespInv` says where it stands: there is a path of lists of items (`Path`), the script first and each next list
the elements of the array reached in the one before; the stack and the values returned are the values read so far on each level
(`Linked`); and buffer, wire and the bytes never sent, put together, are what the items ahead on all levels are written as (`Flow`),
or, behind the line of a bulk string, its body and what follows (`Body`). Each action has a lemma. A read is right because the first
line of the bytes ahead is that of the next item, whatever has arrived after it (`LineOf` of a prefix), and `Atoi` undoes `%d` (`DecimalFacts`).
TLC checked `RespInv` on the scripts of `text` before
it was proved.

Induction is stated for sets of natural numbers (`NatSetInduction`), from the well-foundedness of `<`; recursive functions
(`digits`, `Power`, `FlattenSeq`, `Number`, the fold of EXEC) are first shown to exist (`DigitsDef`, `PowerDef`, `FlatExists`,
`NumberExists`, `FoldExists`).

Two statements were corrected by their proofs. `LiveKeyStays` and `DatabasesIsolated` used to recognise a session's step by a change of
its `pc`, which a DEL of several keys does not make: the second key starts at the same label. `Steps` now says that the session
itself moves, and `store_keys` has an EXEC of FLUSHALL and such a DEL.

Only model-checked is liveness (`ExpiredIsSwept`, `Answered`, `PublishReturns`, `AllDecoded`, `Terminates`, `ServingStops`): fairness
is beyond the proof system here. Every invariant, action property and refinement of a passing run is proved.

## What is not modelled

* Argument parsing and the wording of answers. PING, ECHO and COMMAND touch no state.
* Scores as reals: rounding, NaN and the text of a score. Bounds of ZRANGEBYSCORE are modelled after
  `parseScore` (exclusive, infinite), not the parsing itself.
* The cutting of a configuration line into key and value, and the setting `databases`, which the code reads and nobody
  uses (SELECT accepts 0 to 15 whatever it says).
* The pool of `database/sql`: with `:memory:` each of its connections has a database of its own.
* The data race on `Server.listener` beyond the order of its two accesses, and concurrent migrations of two processes.
* EXPIRE's multiplication of seconds into a nanosecond `time.Duration`, which overflows for very
  large values; PEXPIRE's addition to the clock is modelled with its wrap-around.
* The range of the numbers in RESP: a length or an integer beyond 64 bits, which `strconv` refuses and no `writeValue` writes.
  Memory neither: a huge bulk or array length within 64 bits goes to `make` as it is (`resp.go:207`, `resp.go:230`), which panics
  and ends the process; the model's Reader waits for the bytes.
* An error reply or simple string that holds an LF. `registry.go:39` echoes the client's command name in an error, so such a reply can be
  written; `ItemsAssumption` leaves it out, and a reader would take the rest of it for another line.
* The clock is read in the step of the statement that uses it, not a moment earlier.
* `lRewrite` drops the error of its last DELETE (the `keys` row of an emptied list); the model lets the
  whole transaction fail instead.
* `Append` drops the error of its INSERT INTO keys (`strings.go:92`), and the model lets the transaction fail: the INSERT INTO strings
  behind it then fails too, on PostgreSQL because the transaction is aborted, on SQLite by its foreign key if there is no `keys` row.
* RENAME's transaction is one step on both backends. On PostgreSQL its statements could each see what others commit meanwhile. The dropped
  error of its first DELETE (`store.go:335`) is no case of its own: the INSERT behind it fails if the destination is there
  or the transaction is aborted, and otherwise there was nothing to delete.
* Appending a text that begins with a digit to an integer, which would give another integer.

Behaviour that the model shows and no run claims anything about:

* SUBSCRIBE without arguments answers nothing; the repository states no rule about it.
* `hz 0` makes the sweep's ticker panic after the start (`Startup!NewTicker`).
* A hash, set or sorted set whose last member is removed keeps its `keys` row, so EXISTS and TYPE still find it.

## Plan

Done: every command of the store, its handlers, the server, the broker, the codec, pattern matching, start-up and the drivers;
the refinements of `AtomicStore` and `CommandPipe`; the theorems above. Left, in this order:

1. `AtomicStore` for hashes and sorted sets on SQLite, as far as their calls are atomic.
2. Composition of `Server` with `Store`: what EXEC and a closed connection do to running calls.
