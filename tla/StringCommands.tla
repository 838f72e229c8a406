--------------------------- MODULE StringCommands ---------------------------
(***************************************************************************)
(* Get and Set of internal/store/store.go and IncrBy, Append and StrLen of *)
(* internal/store/strings.go.  Set, IncrBy and Append run a transaction:   *)
(* a SELECT, then the writes and COMMIT.                                   *)
(***************************************************************************)
EXTENDS StoreSession

Get(s) ==
    /\ Running(s, {"Get"}, "stmt")
    /\ NoStatement
    /\ LET v == db.strings[Target(s)]
       IN  Return(s, IF v = NULL THEN Nil ELSE Bulk(v))

StrLen(s) ==
    /\ Running(s, {"StrLen"}, "stmt")
    /\ NoStatement
    /\ LET v == db.strings[Target(s)]
       IN  Return(s, Number(IF v = NULL THEN 0 ELSE Len(v)))

\* Mutant of SetRead: NX is not looked at.
SetReadNoNX(s) ==
    /\ Running(s, {"Set"}, "stmt")
    /\ LET c      == Current(s)
           exists == Alive(db.keys[c.pk], now)
       IN  IF "XX" \in c.opt /\ ~exists
           THEN NoStatement /\ Return(s, Nil)
           ELSE /\ Snapshot(s)
                /\ Goto(s, "write", [NoRead EXCEPT !.exists = exists])

\* Set: BEGIN and SELECT COUNT(*) of the live key; NX or XX may end it here.
SetRead(s) ==
    /\ Running(s, {"Set"}, "stmt")
    /\ LET c      == Current(s)
           exists == Alive(db.keys[c.pk], now)
       IN  IF ("NX" \in c.opt /\ exists) \/ ("XX" \in c.opt /\ ~exists)
           THEN NoStatement /\ Return(s, Nil)
           ELSE /\ Snapshot(s)
                /\ Goto(s, "write", [NoRead EXCEPT !.exists = exists])

\* Mutant of Stored: the strings row is forgotten.
StoredKeyOnly(d, c) == UpsertKey(d, c.pk, "string", c.exp)

\* upsertKey, upsert of the strings row, COMMIT.
Stored(d, c) == PutString(UpsertKey(d, c.pk, "string", c.exp), c.pk, c.val)

SetWrite(s) ==
    /\ Running(s, {"Set"}, "write")
    /\ CanWrite(s)
    /\ Commit(s, Stored(db, Current(s)))
    /\ Return(s, Done)

\* The part IncrBy and Append share: a value computed from the row the
\* transaction read replaces that row, or is inserted if there was none.  The
\* plain INSERT fails (see FailStatement) when there is a row by now.
Replaced(d, p, old, new) ==
    IF old # NULL THEN UpdateString(d, p, new)
    ELSE PutString(UpsertKeyType(d, p, "string"), p, new)

\* Mutant of CanReplace: the insert is an upsert, which does not fail.
CanReplaceAny(s) == CanWrite(s)

CanReplace(s) == /\ CanWrite(s)
                 /\ seen[s].val = NULL => db.strings[Target(s)] = NULL

\* IncrBy: BEGIN, SELECT value; a value that is no integer ends it.
IncrByRead(s) ==
    /\ Running(s, {"IncrBy"}, "stmt")
    /\ LET v == db.strings[Target(s)]
       IN  IF v # NULL /\ ~IsInt(v)
           THEN NoStatement /\ EndCommand(s, Failed)
           ELSE Snapshot(s) /\ Goto(s, "write", [NoRead EXCEPT !.val = v])

IncrByWrite(s) ==
    /\ Running(s, {"IncrBy"}, "write")
    /\ CanReplace(s)
    /\ LET next == Incremented(seen[s].val, Current(s).n)
       IN  /\ Commit(s, Replaced(db, Target(s), seen[s].val, FormatInt(next)))
           /\ Return(s, Number(next))

\* Append: BEGIN, SELECT value.  Values that would outgrow MaxLen are left to
\* fail.
AppendRead(s) ==
    /\ Running(s, {"Append"}, "stmt")
    /\ Len(Appended(db.strings[Target(s)], Current(s).val)) <= MaxLen
    /\ Snapshot(s)
    /\ Goto(s, "write", [NoRead EXCEPT !.val = db.strings[Target(s)]])

AppendWrite(s) ==
    /\ Running(s, {"Append"}, "write")
    /\ CanReplace(s)
    /\ LET newVal == Appended(seen[s].val, Current(s).val)
       IN  /\ Commit(s, Replaced(db, Target(s), seen[s].val, newVal))
           /\ Return(s, Number(Len(newVal)))

StringStep(s) == \/ Get(s) \/ StrLen(s)
                 \/ SetRead(s) \/ SetWrite(s)
                 \/ IncrByRead(s) \/ IncrByWrite(s)
                 \/ AppendRead(s) \/ AppendWrite(s)
=============================================================================
