----------------------------- MODULE SetCommands -----------------------------
(***************************************************************************)
(* internal/store/sets.go.  SAdd and SRem are one autocommitted statement  *)
(* per member; the set algebra reads one key after the other and combines  *)
(* in Go: SInter and SDiff start with the bare SELECT of sMembers (SBase), *)
(* without deleteExpired and assertType.                                   *)
(***************************************************************************)
EXTENDS StoreSession

Set(s) == db.sets[Target(s)]

SEnsure(s) == Ensure(s, {"SAdd"}, "set")

\* Mutant of SAdd: the foreign key does not stop the INSERT.
SAddNoFK(s) ==
    \E m \in Member :
      /\ AtMember(s, {"SAdd"}, m)
      /\ Round(s, [db EXCEPT !.sets[Target(s)] = @ \cup {m}], m \notin Set(s))

\* SAdd, one member of its loop: INSERT ... ON CONFLICT DO NOTHING.  It fails
\* (see FailStatement) when the keys row is gone.
SAdd(s) ==
    \E m \in Member :
      /\ AtMember(s, {"SAdd"}, m)
      /\ HasRow(db, Target(s))
      /\ Round(s, [db EXCEPT !.sets[Target(s)] = @ \cup {m}], m \notin Set(s))

\* SRem, one member of its loop.  An empty set keeps its keys row.
SRem(s) ==
    \E m \in Member :
      /\ AtMember(s, {"SRem"}, m)
      /\ Round(s, [db EXCEPT !.sets[Target(s)] = @ \ {m}], m \in Set(s))

SIsMember(s) ==
    \E m \in Member :
      /\ AtMember(s, {"SIsMember"}, m)
      /\ NoStatement
      /\ Return(s, Bool(m \in Set(s)))

SCard(s) ==
    /\ Running(s, {"SCard"}, "stmt")
    /\ NoStatement
    /\ Return(s, Number(Cardinality(Set(s))))

\* sMembers: the first key of SUnion (with its deleteExpired and assertType, the
\* same statements as SMembers), and the first key of SInter and SDiff.
SMembers(s) ==
    /\ Running(s, {"SMembers", "SBase"}, "stmt")
    /\ NoStatement
    /\ Return(s, Mems(Set(s)))

\* The following keys, combined with what the ones before have left.
SUnion(s) ==
    /\ Running(s, {"SUnion"}, "stmt")
    /\ NoStatement
    /\ Return(s, Mems(res[s].mems \cup Set(s)))

SInter(s) ==
    /\ Running(s, {"SInter"}, "stmt")
    /\ NoStatement
    /\ Return(s, Mems(res[s].mems \cap Set(s)))

SDiff(s) ==
    /\ Running(s, {"SDiff"}, "stmt")
    /\ NoStatement
    /\ Return(s, Mems(res[s].mems \ Set(s)))

SetStep(s) == \/ SEnsure(s) \/ SAdd(s) \/ SRem(s) \/ SIsMember(s) \/ SCard(s)
              \/ SMembers(s) \/ SUnion(s) \/ SInter(s) \/ SDiff(s)
=============================================================================
