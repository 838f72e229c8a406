--------------------------- MODULE StoreRefinement ---------------------------
(***************************************************************************)
(* The statement-by-statement store implements AtomicStore on SQLite, for  *)
(* the string and key commands: a call takes effect at its last statement. *)
(***************************************************************************)
EXTENDS Store

Rows == [p \in Pk |-> IF db.keys[p] = NULL THEN NULL
                      ELSE [type |-> db.keys[p].type,
                            exp  |-> db.keys[p].exp,
                            val  |-> db.strings[p]]]
Pending == [s \in Session |-> IF calls[s] = <<>> THEN NULL ELSE Current(s)]

Atomic == INSTANCE AtomicStore WITH kv <- Rows, pend <- Pending

\* "No row" is not a row, "no call" is not a call.
ASSUME AbsenceAssumption == NULL \notin Atomic!Row /\ NULL \notin Call

(***************************************************************************)
(* Every store call is atomic: GET, SET with its options, INCRBY, APPEND,   *)
(* DEL, EXISTS, EXPIRE, TTL, TYPE and the flushes take effect in one step   *)
(* and answer from the state of that step (PRD.md "Concurrency and          *)
(* Atomicity").                                                             *)
(***************************************************************************)
CallsAreAtomic == Atomic!Spec
=============================================================================
