---------------------------- MODULE ListCommands ----------------------------
(***************************************************************************)
(* internal/store/lists.go.  Every list command reads the whole list with  *)
(* one statement (lAll), computes the new list in Go, and rewrites it in a *)
(* transaction of its own (lRewrite): nothing connects the read with the   *)
(* write.                                                                  *)
(***************************************************************************)
EXTENDS StoreSession, SequencesExt

\* lEnsure's INSERT ... ON CONFLICT DO NOTHING.
LEnsure(s) == Ensure(s, ListPushes, "list")

-----------------------------------------------------------------------------
(* What the commands compute.  Positions are 0-based in the code.          *)

Position(l, i)     == IF i < 0 THEN Len(l) + i ELSE i
InRange(l, i)      == Position(l, i) \in 0 .. Len(l) - 1
Element(l, i)      == l[Position(l, i) + 1]
Occurrences(l, v)  == {i \in DOMAIN l : l[i] = v}

\* LRange: all[start : stop+1] after clamping.
Slice(l, start, stop) ==
    LET from == IF Position(l, start) < 0 THEN 0 ELSE Position(l, start)
        to   == IF Position(l, stop) >= Len(l) THEN Len(l) - 1 ELSE Position(l, stop)
    IN  IF from > to \/ from >= Len(l) THEN <<>> ELSE SubSeq(l, from + 1, to + 1)

\* LInsert: vs before or after the first occurrence of pivot, as a singleton set.
Inserted(l, pivot, vs, before) ==
    LET first == {i \in Occurrences(l, pivot) :
                     \A j \in Occurrences(l, pivot) : i <= j}
        Cut(i) == IF before THEN i - 1 ELSE i
    IN  {SubSeq(l, 1, Cut(i)) \o vs \o SubSeq(l, Cut(i) + 1, Len(l)) : i \in first}

\* LRem: the occurrences that go, counted from the head or from the tail.
Dropped(l, count, v) ==
    {i \in Occurrences(l, v) :
        \/ count = 0
        \/ count > 0 /\ Cardinality({j \in Occurrences(l, v) : j < i}) < count
        \/ count < 0 /\ Cardinality({j \in Occurrences(l, v) : j > i}) < Wrap(-count)}

\* l without the elements at positions I, as a singleton set: the sequence of
\* the others, in their order.
Without(l, I) ==
    LET kept  == DOMAIN l \ I
        n     == Cardinality(kept)
        order == {e \in [1 .. n -> kept] : \A i, j \in 1 .. n : i < j => e[i] < e[j]}
    IN  {[i \in 1 .. n |-> l[e[i]]] : e \in order}

\* Whether a command that has read l goes on to lRewrite.
Rewrites(c, l) == CASE c.op \in ListPushes -> TRUE
                    [] c.op \in {"LPop", "RPop"} -> l # <<>>
                    [] c.op = "LSet"    -> InRange(l, c.n)
                    [] c.op = "LInsert" -> Occurrences(l, c.val) # {}
                    [] c.op = "LRem"    -> TRUE
                    [] OTHER            -> FALSE

\* The list it writes then (a set with that one member), and its answer.
NewLists(c, l) ==
    CASE c.op = "LPush"   -> {Reverse(c.vals) \o l}
      [] c.op = "RPush"   -> {l \o c.vals}
      [] c.op = "LPop"    -> {Tail(l)}
      [] c.op = "RPop"    -> {Front(l)}
      [] c.op = "LSet"    -> {[l EXCEPT ![Position(l, c.n) + 1] = c.val]}
      [] c.op = "LInsert" -> Inserted(l, c.val, c.vals, "BEFORE" \in c.opt)
      [] c.op = "LRem"    -> Without(l, Dropped(l, c.n, c.val))

RewriteResult(c, l) ==
    CASE c.op \in ListPushes -> Number(Len(l) + Len(c.vals))
      [] c.op = "LPop"    -> Bulk(Head(l))
      [] c.op = "RPop"    -> Bulk(Last(l))
      [] c.op = "LSet"    -> Done
      [] c.op = "LInsert" -> Number(Len(l) + 1)
      [] c.op = "LRem"    -> Number(Cardinality(Dropped(l, c.n, c.val)))

\* The answer of a command that returns after lAll.
ReadResult(c, l) ==
    CASE c.op \in {"LPop", "RPop"} -> Nil
      [] c.op = "LLen"    -> Number(Len(l))
      [] c.op = "LRange"  -> Items(Slice(l, c.n, c.m))
      [] c.op = "LIndex"  -> IF InRange(l, c.n) THEN Bulk(Element(l, c.n)) ELSE Nil
      [] c.op = "LInsert" -> Number(-1)

-----------------------------------------------------------------------------
\* lAll (for LLen: SELECT COUNT), and the early returns after it.  Lists that
\* would outgrow MaxLen are left to fail.
LRead(s) ==
    /\ Running(s, ListOps, "stmt")
    /\ NoStatement
    /\ LET c == Current(s)
           l == db.lists[c.pk]
       IN  IF Rewrites(c, l)
           THEN /\ \A new \in NewLists(c, l) : Len(new) <= MaxLen
                /\ Goto(s, "write", [NoRead EXCEPT !.items = l])
           ELSE IF c.op = "LSet" THEN EndCommand(s, Failed)
           ELSE Return(s, ReadResult(c, l))

\* lRewrite: delete the rows of the list and insert the new ones.  The foreign
\* key makes an insert fail when the keys row is gone (see FailStatement); an
\* empty list takes its keys row, of whatever type, along.
Rewritten(d, p, l) == IF l = <<>> THEN DeleteKeys(d, {p})
                      ELSE [d EXCEPT !.lists[p] = l]

LRewrite(s) ==
    /\ Running(s, ListOps, "write")
    /\ \E l \in NewLists(Current(s), seen[s].items) :
         /\ l # <<>> => HasRow(db, Target(s))
         /\ Commit(s, Rewritten(db, Target(s), l))
    /\ Return(s, RewriteResult(Current(s), seen[s].items))

ListStep(s) == LEnsure(s) \/ LRead(s) \/ LRewrite(s)
=============================================================================
