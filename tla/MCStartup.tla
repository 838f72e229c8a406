------------------------------ MODULE MCStartup ------------------------------
(***************************************************************************)
(* Small instances of Startup.                                             *)
(***************************************************************************)
EXTENDS Startup, TLC

CONSTANT MaxLines   \* bound on the directives of a file

D(k, v) == [key |-> k, val |-> v]

Numbers == ("0" :> 0) @@ ("50" :> 50) @@ ("7000" :> 7000)
Directives == {D("port", "7000"), D("port", "x"), D("requirepass", "p"), D("dsn", "f.db"),
               D("dsn", MEMORY), D("save", "''"), D("save", "900 1"), D("no-persist", ""),
               D("backend", "postgres"), D("backend", "mysql"), D("hz", "0"), D("", ""),
               D("other", "x")}

SomeFiles == UNION {[1 .. n -> Directives] : n \in 0 .. MaxLines}
SomeEnvs  == {[password |-> "", dsn |-> ""], [password |-> "e", dsn |-> "env.db"]}

\* The schema of internal/db/db.go, the same objects for both databases; a line
\* break follows the last semicolon.
Tables == <<"keys", "strings", "lists", "hashes", "sets", "zsets", "zsets_score", BLANK>>
=============================================================================
