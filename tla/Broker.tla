------------------------------- MODULE Broker -------------------------------
(***************************************************************************)
(* internal/pubsub/broker.go: the map from channels to subscribers, and    *)
(* what each method makes of it.  A method holds the broker's mutex for as *)
(* long as it looks at the map, so each is one step of its caller.         *)
(***************************************************************************)
EXTENDS Integers, Sequences, FiniteSets, SequencesExt

CONSTANTS Conn,     \* connections; each has one connSub, its subscriber
          Channel,  \* channel names
          EmptyName \* the name "", which a client may give like any other

\* Broker.subs.  A channel without subscribers has no entry in the Go map.
Subscriptions == [Channel -> Seq(Conn)]
NoSubs        == [ch \in Channel |-> <<>>]

\* Mutants of removeOne: the head goes instead of the target; nothing goes.
removeHead(l, c) == IF l = <<>> THEN l ELSE Tail(l)
removeNone(l, c) == l

\* removeOne drops the first entry only.
removeOne(l, c) == RemoveFirst(l, c)

Subscribe(b, ch, c) == [b EXCEPT ![ch] = Append(@, c)]

\* Unsubscribe: the empty name stands for all channels, whoever gives it.
UnsubscribeAll(b, c)  == [ch \in Channel |-> removeOne(b[ch], c)]
Unsubscribe(b, ch, c) == IF ch = EmptyName THEN UnsubscribeAll(b, c)
                         ELSE [b EXCEPT ![ch] = removeOne(@, c)]

\* countForSub counts entries, over all channels.
Entries(b, c)     == UNION {{<<ch, i>> : i \in {j \in DOMAIN b[ch] : b[ch][j] = c}} :
                              ch \in Channel}
countForSub(b, c) == Cardinality(Entries(b, c))

\* What Unsubscribe returns, b being the map it leaves.
unsubscribeCount(b, ch, c) == IF ch = EmptyName THEN 0 ELSE countForSub(b, c)

IsSubscribed(b, ch, c) == c \in Range(b[ch])
=============================================================================
