-------------------------------- MODULE Store --------------------------------
(***************************************************************************)
(* The store under concurrent connections: every command of the modules    *)
(* below, the sweep goroutine, the clock and the crash of the process.     *)
(***************************************************************************)
EXTENDS KeyCommands, StringCommands, ListCommands, HashCommands, SetCommands,
        ZSetCommands

Step(s) == \/ CommonStep(s) \/ KeyStep(s) \/ StringStep(s) \/ ListStep(s)
           \/ HashStep(s) \/ SetStep(s) \/ ZSetStep(s)

Next == \/ \E s \in Session : Step(s) \/ (\E r \in Requests : Begin(s, r))
        \/ Environment

Spec == StoreInit /\ [][Next]_vars

\* A goroutine that has a statement to run runs it or gets an error from it; the
\* ticker of main.go keeps calling SweepExpired.
Fairness == WF_vars(SweepExpired) /\ \A s \in Session : WF_vars(Step(s))
FairSpec == Spec /\ Fairness

-----------------------------------------------------------------------------
TypeOK == /\ db \in Database
          /\ now \in 0 .. MaxTime
          /\ calls \in [Session -> Seq(Call)]
          /\ cmds \in [Session -> Seq(Command)]
          /\ pc \in [Session -> PC]
          /\ seen \in [Session -> Read]
          /\ fresh \in SUBSET Session
          /\ res \in [Session -> Result]
          /\ dead \in [Session -> BOOLEAN]
          /\ \A s \in Session : pc[s] = "idle" <=> calls[s] = <<>>

(***************************************************************************)
(* The foreign keys of the schema: no data row without its keys row.  Every *)
(* statement that inserts data rows has seen to the keys row, and every     *)
(* deletion of a keys row cascades (store.go, lists.go lRewrite).           *)
(***************************************************************************)
NoOrphanData == \A p \in Pk : HasData(db, p) => HasRow(db, p)

(***************************************************************************)
(* Lazy expiry: once deleteExpired has run, no command acts on a key that   *)
(* had expired before the command started and that nobody has written       *)
(* since (store.go deleteExpired, "called lazily before reads").  Expired is *)
(* what the code calls so, "alive if expires_at IS NULL or expires_at >     *)
(* now"; at expires_at = now PRD.md still takes the key for alive.          *)
(***************************************************************************)
LazyExpiry == \A s \in Session : pc[s] \in {"assert", "ensure", "stmt", "write"}
                                 /\ Current(s).op \in LazyOps => ~dead[s]

(***************************************************************************)
(* A string key has its value: a keys row of type string and a strings row  *)
(* exist together.  Holds for every command but Rename, whose row read      *)
(* outside the transaction may be of a key that is gone.                    *)
(***************************************************************************)
StringHasValue ==
    \A p \in Pk : HasRow(db, p) /\ db.keys[p].type = "string" <=> db.strings[p] # NULL

(***************************************************************************)
(* A key holds data of its own type only, so that assertType protects all  *)
(* of it (store.go ErrWrongType).                                          *)
(***************************************************************************)
DataMatchesType ==
    \A p \in Pk : HasRow(db, p) =>
      LET t == db.keys[p].type IN
      /\ db.strings[p] # NULL => t = "string"
      /\ db.lists[p] # <<>> => t = "list"
      /\ db.hashes[p] # NoFields => t = "hash"
      /\ db.sets[p] # {} => t = "set"
      /\ db.zsets[p] # NoFields => t = "zset"

-----------------------------------------------------------------------------
(* Action properties.                                                      *)

Writes(s, op) == Running(s, {op}, "write") /\ ~At(s, "write")' /\ res'[s].st = "ok"

(***************************************************************************)
(* INCRBY and APPEND lose no update (strings.go IncrBy, "atomically         *)
(* increments"): the value stored and the answer given derive from the      *)
(* value that was committed when the transaction commits.                   *)
(***************************************************************************)
NoLostUpdate ==
    [][\A s \in Session :
         LET p == Target(s) IN
         /\ Writes(s, "IncrBy") =>
              LET v    == db.strings[p]
                  next == Incremented(v, Current(s).n)
              IN  /\ v = NULL \/ IsInt(v)
                  /\ db'.strings[p] = FormatInt(next) /\ res'[s].n = next
         /\ Writes(s, "Append") =>
              LET new == Appended(db.strings[p], Current(s).val)
              IN  db'.strings[p] = new /\ res'[s].n = Len(new)]_vars

(***************************************************************************)
(* SET NX and SETNX store only over a key that is not live at that moment,  *)
(* SET XX only over a key that has a row (store.go SetOptions): of two      *)
(* connections that race for a lock key, one gets it.                       *)
(***************************************************************************)
ConditionHolds ==
    [][\A s \in Session : Writes(s, "Set") =>
         /\ "NX" \in Current(s).opt => ~Alive(db.keys[Target(s)], now)
         /\ "XX" \in Current(s).opt => HasRow(db, Target(s))]_vars

(***************************************************************************)
(* GETSET, and a MULTI block of a GET and a SET, answer the value they      *)
(* replace: nothing is stored between their Get and their Set               *)
(* (commands/strings.go cmdGetSet, commands/multi.go cmdExec).  Stated for  *)
(* clients that send nothing else.                                          *)
(***************************************************************************)
SwapIsExact ==
    [][\A s \in Session : Writes(s, "Set") /\ res[s].st \in {"ok", "nil"} =>
         res[s].val = db.strings[Target(s)]]_vars

(***************************************************************************)
(* A list command rewrites the list that is committed, not the one it read  *)
(* some time ago: no push is lost and no element is popped twice (lists.go  *)
(* lAll and lRewrite).                                                      *)
(***************************************************************************)
ListRewriteIsExact ==
    [][\A s \in Session :
         Running(s, ListOps, "write") /\ ~At(s, "write")' /\ res'[s].st = "ok" =>
           /\ Rewrites(Current(s), db.lists[Target(s)])
           /\ db'.lists[Target(s)] \in NewLists(Current(s), db.lists[Target(s)])
           /\ res'[s] = RewriteResult(Current(s), db.lists[Target(s)])]_vars

(***************************************************************************)
(* HSET writes all its pairs at once and answers how many of the fields    *)
(* were not there when it did (hashes.go HSet, "Returns the number of new  *)
(* fields added").                                                         *)
(***************************************************************************)
HSetIsExact ==
    [][\A s \in Session : Writes(s, "HSet") =>
         LET h == db.hashes[Target(s)]
             pairs == Current(s).pairs
         IN  /\ db'.hashes[Target(s)] = Overlay(h, pairs)
             /\ res'[s].n = Cardinality(Present(pairs) \ Present(h))]_vars

(***************************************************************************)
(* ZADD NX changes the score of no member that is there, ZADD XX adds no   *)
(* member (zsets.go ZAddOptions), whoever comes between the COUNT and the  *)
(* write and whether or not the COUNT fails.                               *)
(***************************************************************************)
ZAddIsConditional ==
    [][\A s \in Session : Running(s, {"ZAdd"}, "write") /\ pc'[s] # pc[s] =>
         LET z == db.zsets[Target(s)]
         IN  \A m \in Member :
               ("NX" \in Current(s).opt /\ z[m] # NULL) \/ ("XX" \in Current(s).opt /\ z[m] = NULL)
               => db'.zsets[Target(s)][m] = z[m]]_vars

\* The step is one of session s.
Steps(s) == <<pc[s], calls[s], cmds[s]>>' # <<pc[s], calls[s], cmds[s]>>

(***************************************************************************)
(* Expiry, lazy or by the sweep, takes no live key: a live key disappears   *)
(* only by a command that deletes, flushes, renames or empties it.          *)
(***************************************************************************)
Removes(s, p) == LET c == Current(s) IN
    \/ Running(s, {"Del"}, "stmt") /\ p = c.pk
    \/ Running(s, {"FlushDB"}, "stmt") /\ p[2] = c.pk[2]
    \/ Running(s, {"FlushAll"}, "stmt")
    \/ Running(s, {"Rename"} \cup ListEdits, "write") /\ p = c.pk
LiveKeyStays ==
    [][\A p \in Pk : Alive(db.keys[p], now) /\ db'.keys[p] = NULL =>
         \E s \in Session : Steps(s) /\ Removes(s, p)]_vars

(***************************************************************************)
(* Databases are isolated: a step changes rows of one database only, except *)
(* FLUSHALL and the sweep (store.go passes dbIdx to every statement).       *)
(***************************************************************************)
DatabasesIsolated ==
    [][(\A s \in Session : ~(Running(s, {"FlushAll"}, "stmt") /\ Steps(s))) =>
         \A p, q \in Pk :
           /\ db'.keys[p] # db.keys[p] /\ ~Expired(db.keys[p], now)
           /\ db'.keys[q] # db.keys[q] /\ ~Expired(db.keys[q], now)
           => p[2] = q[2]]_vars

-----------------------------------------------------------------------------
(* Liveness, under FairSpec.                                               *)

(***************************************************************************)
(* Background cleanup: an expired key does not stay, even if no command     *)
(* touches it (main.go sweep goroutine, store.go SweepExpired).             *)
(***************************************************************************)
ExpiredIsSwept ==
    \A p \in Pk : Expired(db.keys[p], now) ~> ~Expired(db.keys[p], now)

(***************************************************************************)
(* Every request is answered: no store call waits forever, whatever the     *)
(* other connections do (a SQLite transaction that cannot write gets an     *)
(* error instead).                                                          *)
(***************************************************************************)
Answered == \A s \in Session : ~At(s, "idle") ~> At(s, "idle")
=============================================================================
