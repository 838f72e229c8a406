---------------------------- MODULE KeyCommands ----------------------------
(***************************************************************************)
(* The type-independent commands of internal/store/store.go: what each     *)
(* does after deleteExpired.                                               *)
(***************************************************************************)
EXTENDS StoreSession

\* Del, one key of its loop: an autocommitted DELETE with no look at expiry.
Del(s) ==
    /\ Running(s, {"Del"}, "stmt")
    /\ Commit(s, DeleteKeys(db, {Target(s)}))
    /\ Return(s, Bool(HasRow(db, Target(s))))

\* Exists, one key of its loop.
Exists(s) ==
    /\ Running(s, {"Exists"}, "stmt")
    /\ NoStatement
    /\ Return(s, Bool(HasRow(db, Target(s))))

\* ExpireAt: the UPDATE hits the row whatever became of it since deleteExpired.
ExpireAt(s) ==
    /\ Running(s, {"ExpireAt"}, "stmt")
    /\ Commit(s, UpdateExpiry(db, Target(s), Current(s).exp))
    /\ Return(s, Bool(HasRow(db, Target(s))))

TTL(s) ==
    /\ Running(s, {"TTL"}, "stmt")
    /\ NoStatement
    /\ Return(s, Number(Remaining(db.keys[Target(s)], now, "MS" \in Current(s).opt)))

\* Persist reads expires_at, and clears it in a second autocommitted statement.
PersistRead(s) ==
    /\ Running(s, {"Persist"}, "stmt")
    /\ NoStatement
    /\ LET row == db.keys[Target(s)]
       IN  IF row = NULL \/ row.exp = NULL
           THEN Return(s, Number(0))
           ELSE Goto(s, "write", [NoRead EXCEPT !.row = row])

PersistWrite(s) ==
    /\ Running(s, {"Persist"}, "write")
    /\ Commit(s, UpdateExpiry(db, Target(s), NULL))
    /\ Return(s, Number(1))

TypeOf(s) ==
    /\ Running(s, {"Type"}, "stmt")
    /\ NoStatement
    /\ Return(s, TypeIs(KeyType(db, Target(s), now)))

\* Rename reads type and expires_at of the source outside its transaction ...
RenameRead(s) ==
    /\ Running(s, {"Rename"}, "stmt")
    /\ NoStatement
    /\ IF HasRow(db, Target(s))
       THEN Goto(s, "write", [NoRead EXCEPT !.row = db.keys[Target(s)]])
       ELSE EndCommand(s, Failed)

\* ... and then replaces the destination: drop it, insert it with the row read
\* before, copy the data rows of that type, drop the source.
Renamed(d, row, src, dst) ==
    DeleteKeys(CopyData(UpsertKey(DeleteKeys(d, {dst}), dst, row.type, row.exp),
                        row.type, src, dst),
               {src})

RenameWrite(s) ==
    /\ Running(s, {"Rename"}, "write")
    /\ Commit(s, Renamed(db, seen[s].row, Target(s), Current(s).dst))
    /\ Return(s, Done)

\* The live keys of database i.
AliveKeys(d, i, t) == {k \in Key : Alive(d.keys[<<k, i>>], t)}

DBSize(s) ==
    /\ Running(s, {"DBSize"}, "stmt")
    /\ NoStatement
    /\ Return(s, Number(Cardinality(AliveKeys(db, Target(s)[2], now))))

\* Keys: the live keys whose names the pattern matches (matchGlob is external
\* to this module: the call names the keys its pattern matches).
Keys(s) ==
    /\ Running(s, {"Keys"}, "stmt")
    /\ NoStatement
    /\ Return(s, Names(AliveKeys(db, Target(s)[2], now) \cap Current(s).names))

RandomKey(s) ==
    /\ Running(s, {"RandomKey"}, "stmt")
    /\ NoStatement
    /\ LET ks == AliveKeys(db, Target(s)[2], now)
       IN  \/ ks = {} /\ Return(s, Nil)
           \/ \E k \in ks : Return(s, Names({k}))

\* Mutant of FlushDB: the statement has no WHERE db.
FlushDBAll(s) ==
    /\ Running(s, {"FlushDB"}, "stmt")
    /\ Commit(s, DeleteKeys(db, Pk))
    /\ Return(s, Done)

FlushDB(s) ==
    /\ Running(s, {"FlushDB"}, "stmt")
    /\ Commit(s, DeleteKeys(db, {p \in Pk : p[2] = Target(s)[2]}))
    /\ Return(s, Done)

FlushAll(s) ==
    /\ Running(s, {"FlushAll"}, "stmt")
    /\ Commit(s, DeleteKeys(db, Pk))
    /\ Return(s, Done)

KeyStep(s) == \/ Del(s) \/ Exists(s) \/ ExpireAt(s) \/ TTL(s)
              \/ PersistRead(s) \/ PersistWrite(s) \/ TypeOf(s)
              \/ RenameRead(s) \/ RenameWrite(s)
              \/ DBSize(s) \/ Keys(s) \/ RandomKey(s)
              \/ FlushDB(s) \/ FlushAll(s)
=============================================================================
