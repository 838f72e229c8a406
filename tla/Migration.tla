------------------------------ MODULE Migration ------------------------------
(***************************************************************************)
(* Migrate of internal/db/sqlite.go and postgres.go on a database that     *)
(* outlives the process: each statement of the schema is executed and      *)
(* committed by itself.  The schema is a sequence of statements and blanks *)
(* between semicolons.                                                     *)
(***************************************************************************)
EXTENDS Integers, Sequences, SequencesExt

CONSTANT Schema   \* the parts between the semicolons: names of objects, or BLANK

VARIABLES
    objects,     \* the tables and indexes of the database
    stmts        \* the statements the process still has to run

database == <<objects, stmts>>

BLANK == ""

\* What a statement of the schema refers to: FOREIGN KEY ... REFERENCES keys,
\* CREATE INDEX ... ON zsets.
References(o) == CASE o = "keys" -> {} [] o = "zsets_score" -> {"zsets"} [] OTHER -> {"keys"}

\* The objects the statements of the store use.
AllObjects == {"keys", "strings", "lists", "hashes", "sets", "zsets", "zsets_score"}

splitStatements(parts) == SelectSeq(parts, LAMBDA p : p # BLANK)

\* The schema text of db.go: a statement for each of the objects, after those for
\* what it refers to.
ASSUME SchemaAssumption ==
    LET s == splitStatements(Schema)
    IN  /\ s \in Seq(AllObjects)
        /\ \A o \in AllObjects : \E i \in 1 .. Len(s) : s[i] = o
        /\ \A i \in 1 .. Len(s) : \A o \in References(s[i]) : \E j \in 1 .. i - 1 : s[j] = o

\* Mutant of Executes: CREATE TABLE without IF NOT EXISTS.
ExecutesOnce(o) == o # BLANK /\ References(o) \subseteq objects /\ o \notin objects

\* The statement succeeds: IF NOT EXISTS accepts what is there; an empty
\* statement and a missing referenced table do not pass.
Executes(o) == o # BLANK /\ References(o) \subseteq objects

StartSchema  == stmts' = splitStatements(Schema) /\ UNCHANGED objects
RunStatement == /\ stmts # <<>> /\ Executes(Head(stmts))
                /\ objects' = objects \cup {Head(stmts)}
                /\ stmts' = Tail(stmts)

=============================================================================
