------------------------------- MODULE Startup -------------------------------
(***************************************************************************)
(* cmd/sql-resp/main.go with internal/config/config.go: from the command   *)
(* line to a server that accepts, and down again on a signal, and the next *)
(* process on the database the last one left.  Three goroutines: main, the *)
(* sweep's and the one that waits for signals.                             *)
(* A configuration file is the sequence of its directives; key "" stands   *)
(* for a blank line or a comment, "other" for a directive set ignores.     *)
(***************************************************************************)
EXTENDS Migration

CONSTANTS
    Files,        \* the configuration files: sequences of [key, val]
    Envs,         \* the environments: [password, dsn], "" for unset
    PortFlags,    \* the values of --port, "" for none
    Atoi,         \* the texts strconv.Atoi accepts, with their numbers
    MaxSignals,   \* bound: signals sent
    MaxRestarts   \* bound: processes started after the first

VARIABLES
    file, env, flags, \* the inputs
    readable,   \* input: the file opens and the Scanner gets to its end
    line,       \* the directives read so far
    cfg,        \* the Config of Load
    main,       \* where the main goroutine is
    opened,     \* the driver and DSN main opened, or NOTHING
    sweeper,    \* the sweep goroutine: "none", "ticker", "ticking"
    watcher,    \* the signal goroutine: "none", "notify", "wait", "close", "done"
    pending,    \* sigCh, with room for one signal
    listener,   \* Server.listener: "nil", "open", "closed"
    signals,    \* signals sent
    restarts,   \* processes started after the first
    asked       \* history: a signal was sent while main served and the signal
                \* goroutine was there

ASSUME StartupAssumption ==
    /\ Files \subseteq Seq([key : STRING, val : STRING])
    /\ Envs \subseteq [password : STRING, dsn : STRING]
    /\ PortFlags \subseteq STRING
    /\ DOMAIN Atoi \subseteq STRING /\ Atoi \in [DOMAIN Atoi -> Int]

inputs == <<file, readable, env, flags>>
goroutines == <<sweeper, watcher, pending>>
outside == <<signals, restarts, asked>>
vars == <<inputs, line, cfg, main, opened, goroutines, listener, database, outside>>

NOTHING == [driver |-> "none", dsn |-> ""]
MEMORY  == ":memory:"

-----------------------------------------------------------------------------
(* Config                                                                  *)

Default == [port |-> 6379, password |-> "", cert |-> "", key |-> "", databases |-> 16,
            hz |-> 100, memory |-> FALSE, backend |-> "sqlite", dsn |-> "sql-resp.db"]

NumberKeys == {"port", "databases", "hz"}

\* set returns an error.
Refused(k, v) == \/ k \in NumberKeys /\ v \notin DOMAIN Atoi
                 \/ k = "backend" /\ v \notin {"sqlite", "postgres"}

\* The directives that set one field to what they say; others are ignored.
setField(c, k, v) ==
    CASE k = "port"          -> [c EXCEPT !.port = Atoi[v]]
      [] k = "requirepass"   -> [c EXCEPT !.password = v]
      [] k = "tls-cert-file" -> [c EXCEPT !.cert = v]
      [] k = "tls-key-file"  -> [c EXCEPT !.key = v]
      [] k = "databases"     -> [c EXCEPT !.databases = Atoi[v]]
      [] k = "hz"            -> [c EXCEPT !.hz = Atoi[v]]
      [] k = "no-persist"    -> [c EXCEPT !.memory = TRUE]
      [] k = "backend"       -> [c EXCEPT !.backend = v]
      [] k = "dsn"           -> [c EXCEPT !.dsn = v]
      [] OTHER               -> c

\* save with no value, or with a pair of quotes, asks for the in-memory mode.
NoSave(v) == v \in {"", "''"}

\* Mutant of set: "save" turns the in-memory mode on, never off.
setSaveOnce(c, k, v) ==
    IF k = "save" THEN [c EXCEPT !.memory = @ \/ NoSave(v)] ELSE setField(c, k, v)

set(c, k, v) ==
    IF k = "save" THEN [c EXCEPT !.memory = NoSave(v)] ELSE setField(c, k, v)

-----------------------------------------------------------------------------
(* The main goroutine                                                      *)

Exit == main' = "exited" /\ UNCHANGED <<opened, goroutines, listener>>
Goes(l) == main' = l /\ UNCHANGED <<opened, goroutines, listener>>

\* loadFile: the file cannot be opened, the Scanner stops with an error at
\* some line (readable is FALSE in both cases), or the next line is refused.
LoadFails ==
    /\ main = "file" /\ Exit /\ UNCHANGED <<inputs, line, cfg, database, outside>>
    /\ \/ ~readable
       \/ line < Len(file) /\ Refused(file[line + 1].key, file[line + 1].val)

LoadLine ==
    /\ main = "file" /\ line < Len(file)
    /\ LET d == file[line + 1] IN ~Refused(d.key, d.val) /\ cfg' = set(cfg, d.key, d.val)
    /\ line' = line + 1
    /\ UNCHANGED <<inputs, main, opened, goroutines, listener, database, outside>>

LoadEnv ==
    /\ main = "file" /\ readable /\ line = Len(file) /\ Goes("flags")
    /\ cfg' = [cfg EXCEPT !.password = IF env.password # "" THEN env.password ELSE @,
                          !.dsn = IF env.dsn # "" THEN env.dsn ELSE @]
    /\ UNCHANGED <<inputs, line, database, outside>>

\* The flags main passes to Load, --port and --no-persist, set different fields:
\* the order in which Go ranges over the map makes no difference.
LoadFlags ==
    /\ main = "flags" /\ UNCHANGED <<inputs, line, database, outside>>
    /\ LET c == IF flags.noPersist THEN set(cfg, "no-persist", "") ELSE cfg
       IN  IF flags.port = "" THEN cfg' = c /\ Goes("open")
           ELSE IF Refused("port", flags.port) THEN UNCHANGED cfg /\ Exit
           ELSE cfg' = set(c, "port", flags.port) /\ Goes("open")

\* OpenSQLite or OpenPostgres, each with its Ping.  pgx cannot parse ":memory:".
Open ==
    /\ main = "open" /\ UNCHANGED <<inputs, line, cfg, goroutines, listener, outside>>
    /\ opened' = [driver |-> cfg.backend, dsn |-> IF cfg.memory THEN MEMORY ELSE cfg.dsn]
    /\ \/ main' = "exited" /\ UNCHANGED database
       \/ /\ main' = "migrate" /\ ~(opened'.driver = "postgres" /\ opened'.dsn = MEMORY)
          /\ StartSchema

\* Migrate: a statement goes through or fails; after the last one main goes on.
Migrate == /\ main = "migrate" /\ UNCHANGED <<inputs, line, cfg, outside>>
           /\ \/ RunStatement /\ Goes("migrate")
              \/ stmts # <<>> /\ Exit /\ UNCHANGED database
              \/ stmts = <<>> /\ Goes("sweep") /\ UNCHANGED database

StartSweep ==
    /\ main = "sweep" /\ main' = "signal" /\ sweeper' = "ticker"
    /\ UNCHANGED <<inputs, line, cfg, opened, watcher, pending, listener, database, outside>>

\* server.New, and the goroutine for the signals.
StartWatcher ==
    /\ main = "signal" /\ main' = "listen" /\ watcher' = "notify"
    /\ UNCHANGED <<inputs, line, cfg, opened, sweeper, pending, listener, database, outside>>

\* Mutant of Serve: the listener stays a local of ListenAndServe.
ServeLocal ==
    /\ main = "listen" /\ main' \in {"exited", "serve"}
    /\ UNCHANGED <<inputs, line, cfg, opened, goroutines, listener, database, outside>>

\* ListenAndServe: net.Listen fails, or the listener is stored and serve accepts.
\* main fills no TLSConfig in server.Config, so the listener is never wrapped.
Serve ==
    /\ main = "listen"
    /\ \/ main' = "exited" /\ UNCHANGED listener
       \/ main' = "serve" /\ listener' = "open"
    /\ UNCHANGED <<inputs, line, cfg, opened, goroutines, database, outside>>

\* Accept fails on the closed listener, ListenAndServe returns and so does main.
AcceptFails == main = "serve" /\ listener = "closed" /\ Exit
               /\ UNCHANGED <<inputs, line, cfg, database, outside>>

\* Accept may fail on an open listener, too (no file descriptor left): serve
\* takes any error for the end.
AcceptError == main = "serve" /\ listener = "open" /\ Exit
               /\ UNCHANGED <<inputs, line, cfg, database, outside>>

-----------------------------------------------------------------------------
(* The other goroutines, which end with main, and the outside              *)

Alive == main # "exited"

\* time.NewTicker panics, and the process with it, if the interval is not positive.
NewTicker ==
    /\ Alive /\ sweeper = "ticker"
    /\ IF cfg.hz > 0 THEN sweeper' = "ticking" /\ UNCHANGED main
       ELSE main' = "exited" /\ UNCHANGED sweeper
    /\ UNCHANGED <<inputs, line, cfg, opened, watcher, pending, listener, database, outside>>

Notify == /\ Alive /\ watcher = "notify" /\ watcher' = "wait"
          /\ UNCHANGED <<inputs, line, cfg, main, opened, sweeper, pending, listener, database, outside>>

Receive == /\ Alive /\ watcher = "wait" /\ pending
           /\ watcher' = "close" /\ pending' = FALSE
           /\ UNCHANGED <<inputs, line, cfg, main, opened, sweeper, listener, database, outside>>

\* Server.Close does nothing while there is no listener yet.
Close == /\ Alive /\ watcher = "close" /\ watcher' = "done"
         /\ listener' = IF listener = "nil" THEN "nil" ELSE "closed"
         /\ UNCHANGED <<inputs, line, cfg, main, opened, sweeper, pending, database, outside>>

\* SIGINT or SIGTERM: without Notify it ends the process; after it, it goes to
\* sigCh, or nowhere when the channel is full.
Signal ==
    /\ Alive /\ signals < MaxSignals /\ signals' = signals + 1
    /\ asked' = (asked \/ (main = "serve" /\ watcher # "done")) /\ UNCHANGED restarts
    /\ IF watcher \in {"none", "notify"} THEN main' = "exited" /\ UNCHANGED pending
       ELSE pending' = TRUE /\ UNCHANGED main
    /\ UNCHANGED <<inputs, line, cfg, opened, sweeper, watcher, listener, database>>

\* The next process is started the same way; a database in memory is gone.
Restart ==
    /\ ~Alive /\ restarts < MaxRestarts /\ restarts' = restarts + 1
    /\ objects' = IF opened.dsn = MEMORY THEN {} ELSE objects
    /\ line' = 0 /\ cfg' = Default /\ main' = "file" /\ opened' = NOTHING
    /\ sweeper' = "none" /\ watcher' = "none" /\ pending' = FALSE
    /\ listener' = "nil" /\ stmts' = <<>> /\ asked' = FALSE
    /\ UNCHANGED <<inputs, signals>>

Init ==
    /\ file \in Files /\ readable \in BOOLEAN /\ env \in Envs
    /\ flags \in [port : PortFlags, noPersist : BOOLEAN]
    /\ line = 0 /\ cfg = Default /\ main = "file" /\ opened = NOTHING
    /\ sweeper = "none" /\ watcher = "none" /\ pending = FALSE
    /\ listener = "nil" /\ objects = {} /\ stmts = <<>>
    /\ signals = 0 /\ restarts = 0 /\ asked = FALSE

MainStep == \/ LoadFails \/ LoadLine \/ LoadEnv \/ LoadFlags \/ Open \/ Migrate
            \/ StartSweep \/ StartWatcher \/ Serve \/ AcceptFails
WatcherStep == Notify \/ Receive \/ Close
Next == MainStep \/ WatcherStep \/ NewTicker \/ AcceptError \/ Signal \/ Restart
Spec == Init /\ [][Next]_vars

\* Go runs every goroutine that can run; nothing makes Accept fail by itself.
FairSpec == Spec /\ WF_vars(MainStep) /\ WF_vars(WatcherStep) /\ WF_vars(NewTicker)

-----------------------------------------------------------------------------
\* The last directive for one of the keys ks in the file, or none (0), and the
\* value the file gives to a key.
LastLine(ks) == LET at == {i \in DOMAIN file : file[i].key \in ks}
                IN  IF at = {} THEN 0 ELSE CHOOSE i \in at : \A j \in at : j <= i
ValueAt(k, i) == IF k \in NumberKeys THEN Atoi[file[i].val] ELSE file[i].val
FromFile(k, default) ==
    LET i == LastLine({k}) IN IF i = 0 THEN default ELSE ValueAt(k, i)

(***************************************************************************)
(* Whatever main opens, it opens with the settings the layers add up to:    *)
(* every directive of the file was acceptable; a flag wins over the         *)
(* environment, the environment over the file, a later line over an earlier *)
(* one, all over the defaults; and the in-memory mode is what the flag or   *)
(* the last save or no-persist says (config.go Load, loadFile, set).        *)
(***************************************************************************)
SettingsAddUp ==
    opened # NOTHING =>
        /\ \A i \in DOMAIN file : ~Refused(file[i].key, file[i].val)
        /\ cfg.port = IF flags.port # "" THEN Atoi[flags.port]
                      ELSE FromFile("port", Default.port)
        /\ cfg.password = IF env.password # "" THEN env.password
                          ELSE FromFile("requirepass", Default.password)
        /\ cfg.dsn = IF env.dsn # "" THEN env.dsn ELSE FromFile("dsn", Default.dsn)
        /\ opened.driver = FromFile("backend", Default.backend)
        /\ LET i == LastLine({"save", "no-persist"})
           IN  opened.dsn = MEMORY <=> \/ flags.noPersist \/ cfg.dsn = MEMORY
                                       \/ i # 0 /\ file[i].key = "no-persist"
                                       \/ i # 0 /\ NoSave(file[i].val)

(***************************************************************************)
(* A signal that comes while the server accepts ends the process, also if   *)
(* the signal goroutine has not called Notify yet (main.go).  A process     *)
(* whose signal goroutine took an earlier signal before there was a         *)
(* listener to close is left out: nothing stops it any more.                *)
(***************************************************************************)
ServingStops == asked ~> ~Alive

(***************************************************************************)
(* A migration goes through on any database earlier processes left behind,  *)
(* half done or complete, however they ended, and a server serves with all  *)
(* its tables: db.go, "Migrate creates or updates the schema. Idempotent."  *)
(***************************************************************************)
MigrationResumes ==
    /\ main = "migrate" /\ stmts # <<>> => Executes(Head(stmts))
    /\ main \in {"sweep", "signal", "listen", "serve"} => objects = AllObjects
=============================================================================
