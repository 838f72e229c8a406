---------------------------- MODULE AtomicStore ----------------------------
(***************************************************************************)
(* What the store promises about string keys: every call takes effect and  *)
(* gets its answer in one step, on the rows that are there in that step.   *)
(* An expired row may go at any time; until it does, commands that do not  *)
(* look at the clock still see it.                                         *)
(***************************************************************************)
EXTENDS StoreCalls

CONSTANT Session

VARIABLES kv,    \* one row per key: type, expiry and string value
          now,   \* wall clock
          pend,  \* the call each session waits for (its client's doing)
          res    \* the answer to the session's last call

Row == [type : Type, exp : Time, val : {NULL} \cup Value]

\* The call of s is answered r and leaves row at its key.
Effect(s, row, r) == /\ kv' = [kv EXCEPT ![pend[s].pk] = row]
                     /\ res' = [res EXCEPT ![s] = r]
Answer(s, r) == UNCHANGED kv /\ res' = [res EXCEPT ![s] = r]

ValueOf(row)   == IF row = NULL THEN NULL ELSE row.val
StringRow(e, v) == [type |-> "string", exp |-> e, val |-> v]

\* Storing a computed value keeps the expiry of the row that is there.
Update(s, v, r) ==
    LET row == kv[pend[s].pk]
    IN  Effect(s, StringRow(IF row = NULL THEN NULL ELSE row.exp, v), r)

DoGet(s, c, row) ==
    \/ c.op = "Get" /\ Answer(s, IF ValueOf(row) = NULL THEN Nil ELSE Bulk(row.val))
    \/ /\ c.op = "StrLen"
       /\ Answer(s, Number(IF ValueOf(row) = NULL THEN 0 ELSE Len(row.val)))

DoSet(s, c, row) ==
    /\ c.op = "Set"
    /\ \/ /\ "NX" \in c.opt => ~Alive(row, now)
          /\ "XX" \in c.opt => row # NULL
          /\ Effect(s, StringRow(c.exp, c.val), Done)
       \/ /\ \/ "NX" \in c.opt /\ Alive(row, now)
             \/ "XX" \in c.opt /\ ~Alive(row, now)
          /\ Answer(s, Nil)

DoUpdate(s, c, row) ==
    \/ /\ c.op = "IncrBy"
       /\ ValueOf(row) # NULL => IsInt(row.val)
       /\ LET n == Incremented(ValueOf(row), c.n) IN Update(s, FormatInt(n), Number(n))
    \/ /\ c.op = "Append"
       /\ LET v == Appended(ValueOf(row), c.val) IN Update(s, v, Number(Len(v)))

DoKey(s, c, row) ==
    \/ c.op = "Del" /\ Effect(s, NULL, Bool(row # NULL))
    \/ c.op = "Exists" /\ Answer(s, Bool(row # NULL))
    \/ c.op = "TTL" /\ Answer(s, Number(Remaining(row, now, "MS" \in c.opt)))
    \/ c.op = "Type" /\ Answer(s, TypeIs(IF Alive(row, now) THEN row.type ELSE NULL))
    \/ /\ c.op = "ExpireAt"
       /\ IF row = NULL THEN Answer(s, Bool(FALSE))
          ELSE Effect(s, [row EXCEPT !.exp = c.exp], Bool(TRUE))

DoFlush(s, c) ==
    /\ c.op \in {"FlushDB", "FlushAll"}
    /\ kv' = [p \in Pk |-> IF c.op = "FlushAll" \/ p[2] = c.pk[2] THEN NULL ELSE kv[p]]
    /\ res' = [res EXCEPT ![s] = Done]

\* A call may fail, without effect; WRONGTYPE only if the key holds another type.
Refuse(s, c, row) ==
    \/ Answer(s, Failed)
    \/ /\ c.op \in StringOps
       /\ Alive(row, now) /\ row.type # "string"
       /\ Answer(s, WrongType)

Do(s) == /\ pend[s] # NULL
         /\ LET c   == pend[s]
                row == kv[c.pk]
            IN  \/ DoGet(s, c, row) \/ DoSet(s, c, row) \/ DoUpdate(s, c, row)
                \/ DoKey(s, c, row) \/ DoFlush(s, c) \/ Refuse(s, c, row)
         /\ UNCHANGED now

\* Expired rows go.
Reap == /\ \E P \in SUBSET {p \in Pk : Expired(kv[p], now)} :
               kv' = [p \in Pk |-> IF p \in P THEN NULL ELSE kv[p]]
        /\ UNCHANGED <<now, res>>

\* Sessions start new requests, or lose their connection.
Forget == /\ \E S \in SUBSET Session :
               res' = [s \in Session |-> IF s \in S THEN NoResult ELSE res[s]]
          /\ UNCHANGED <<kv, now>>

Pass == now' > now /\ UNCHANGED <<kv, res>>

Init == /\ kv \in [Pk -> {NULL} \cup Row]
        /\ now = 0
        /\ res = [s \in Session |-> NoResult]
Next == (\E s \in Session : Do(s)) \/ Reap \/ Forget \/ Pass
Spec == Init /\ [][Next]_<<kv, now, res>>
=============================================================================
