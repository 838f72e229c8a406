---------------------------- MODULE HashCommands ----------------------------
(***************************************************************************)
(* internal/store/hashes.go.  HSet counts the new fields and upserts the   *)
(* pairs in one transaction; HDel is one autocommitted DELETE per field;   *)
(* the others are one SELECT.                                              *)
(***************************************************************************)
EXTENDS StoreSession

Hash(s) == db.hashes[Target(s)]

HEnsure(s) == Ensure(s, {"HSet"}, "hash")

\* HSet goes through the pairs in the order Go ranges over the map, any order.
\* A SELECT COUNT that comes after the upsert of another pair finds the
\* transaction able to write and the keys row in place.
HSetAsks(s, f) ==
    /\ Running(s, {"HSet"}, "stmt")
    /\ f \in Present(Current(s).pairs) \ seen[s].asked
    /\ seen[s].asked # {} => CanWrite(s) /\ HasRow(db, Target(s))

\* The locals after the SELECT COUNT of f: exists tells what it has left in
\* exists, lost whether the transaction has no snapshot (SQLite) or is aborted.
HSetCounted(s, f, exists, lost) ==
    LET r == [seen[s] EXCEPT !.asked = @ \cup {f}, !.lost = lost,
                             !.new = IF exists THEN @ ELSE @ \cup {f}]
    IN  Goto(s, IF r.asked = Present(Current(s).pairs) THEN "write" ELSE "stmt", r)

HSetCount(s) ==
    \E f \in Member : /\ HSetAsks(s, f)
                      /\ Snapshot(s)
                      /\ HSetCounted(s, f, Hash(s)[f] # NULL, FALSE)

\* The error of the SELECT COUNT is dropped, and the field counts as new.
HSetCountLost(s) ==
    /\ ReadFaults
    /\ NoStatement
    /\ \E f \in Member :
         /\ HSetAsks(s, f)
         /\ HSetCounted(s, f, FALSE,
                        seen[s].asked = {} \/ seen[s].lost \/ Backend = "postgres")

\* The upserts and COMMIT.
HSetWrite(s) ==
    /\ Running(s, {"HSet"}, "write")
    /\ CanWrite(s) /\ HasRow(db, Target(s))
    /\ Commit(s, [db EXCEPT !.hashes[Target(s)] = Overlay(Hash(s), Current(s).pairs)])
    /\ Return(s, Number(Cardinality(seen[s].new)))

\* HDel, one field of its loop.  An empty hash keeps its keys row.
HDel(s) ==
    \E f \in Member :
      /\ AtMember(s, {"HDel"}, f)
      /\ Round(s, [db EXCEPT !.hashes[Target(s)] = [@ EXCEPT ![f] = NULL]],
               Hash(s)[f] # NULL)

HGet(s) ==
    \E f \in Member :
      /\ AtMember(s, {"HGet"}, f)
      /\ NoStatement
      /\ Return(s, IF Hash(s)[f] = NULL THEN Nil ELSE Bulk(Hash(s)[f]))

HExists(s) ==
    \E f \in Member :
      /\ AtMember(s, {"HExists"}, f)
      /\ NoStatement
      /\ Return(s, Bool(Hash(s)[f] # NULL))

HGetAll(s) ==
    /\ Running(s, {"HGetAll"}, "stmt")
    /\ NoStatement
    /\ Return(s, Pairs(Hash(s)))

HKeys(s) ==
    /\ Running(s, {"HKeys"}, "stmt")
    /\ NoStatement
    /\ Return(s, Mems(Present(Hash(s))))

\* HVals: the values, in the order the rows happen to come.
HVals(s) ==
    /\ Running(s, {"HVals"}, "stmt")
    /\ NoStatement
    /\ LET F == Present(Hash(s))
       IN  \E e \in [1 .. Cardinality(F) -> F] :
             /\ \A f \in F : \E i \in DOMAIN e : e[i] = f
             /\ Return(s, Items([i \in 1 .. Cardinality(F) |-> Hash(s)[e[i]]]))

HLen(s) ==
    /\ Running(s, {"HLen"}, "stmt")
    /\ NoStatement
    /\ Return(s, Number(Cardinality(Present(Hash(s)))))

HashStep(s) == \/ HEnsure(s) \/ HSetCount(s) \/ HSetCountLost(s) \/ HSetWrite(s)
               \/ HDel(s) \/ HGet(s) \/ HExists(s) \/ HGetAll(s) \/ HKeys(s)
               \/ HVals(s) \/ HLen(s)
=============================================================================
