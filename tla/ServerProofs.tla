---------------------------- MODULE ServerProofs ----------------------------
(***************************************************************************)
(* The connection loop and the broker, for any number of connections,      *)
(* channels and commands.                                                  *)
(***************************************************************************)
EXTENDS Server, DataLemmas, FiniteSetTheorems

-----------------------------------------------------------------------------
(* What a MULTI block makes of ClientConn.DB and of what ran.              *)

Effects == [DB : Nat, ran : Seq(Nat)]

LEMMA EffectType ==
    ASSUME NEW e \in Effects, NEW m \in Command
    PROVE  Effect(e, m) \in Effects
<1>1. e.DB \in Nat /\ e.ran \in Seq(Nat) /\ m.db \in Nat
  BY DEF Effects, Command
<1>2. [e EXCEPT !.DB = m.db] \in Effects
  BY <1>1 DEF Effects
<1>3. Append(e.ran, e.DB) \in Seq(Nat)
  BY <1>1
<1>4. [e EXCEPT !.ran = Append(@, e.DB)] \in Effects
  BY <1>3 DEF Effects
<1>. QED
  BY <1>2, <1>4, Zenon DEF Effect

\* The defining equation of the fold of Effect over ms, up to its k-th command.
Folds(g, b, ms, k) ==
    g = [t \in SUBSET (1 .. k) |-> IF t = {} THEN b
                                   ELSE Effect(g[t \ {Max(t)}], ms[Max(t)])]

LEMMA MaxIsLast ==
    ASSUME NEW k \in Nat, NEW t \in SUBSET (1 .. k + 1), k + 1 \in t
    PROVE  Max(t) = k + 1
<1>1. \A y \in t : y \in Int /\ k + 1 >= y
  OBVIOUS
<1>2. Max(t) \in t /\ \A y \in t : Max(t) >= y
  BY <1>1, Zenon DEF Max
<1>3. Max(t) \in Int /\ k + 1 >= Max(t) /\ Max(t) >= k + 1
  BY <1>1, <1>2
<1>. QED
  BY <1>3

LEMMA FoldExists ==
    ASSUME NEW b, NEW ms
    PROVE  \A k \in Nat : \E g : Folds(g, b, ms, k)
<1> DEFINE S == {k \in Nat : \E g : Folds(g, b, ms, k)}
<1>1. 0 \in S
  <2>1. Folds([t \in SUBSET (1 .. 0) |-> b], b, ms, 0)
    BY DEF Folds
  <2>. QED
    BY <2>1
<1>2. ASSUME NEW k \in Nat, k \in S PROVE k + 1 \in S
  <2>1. PICK g : Folds(g, b, ms, k)
    BY <1>2
  <2> DEFINE h == [t \in SUBSET (1 .. k + 1) |->
                     IF k + 1 \in t THEN Effect(g[t \ {k + 1}], ms[k + 1]) ELSE g[t]]
  <2>2. ASSUME NEW t \in SUBSET (1 .. k + 1)
        PROVE  h[t] = IF t = {} THEN b ELSE Effect(h[t \ {Max(t)}], ms[Max(t)])
    <3>1. CASE k + 1 \in t
      <4>1. Max(t) = k + 1
        BY <3>1, MaxIsLast
      <4>2. t \ {k + 1} \in SUBSET (1 .. k + 1) /\ h[t \ {k + 1}] = g[t \ {k + 1}]
        OBVIOUS
      <4>. QED
        BY <3>1, <4>1, <4>2
    <3>2. CASE k + 1 \notin t
      <4>1. t \in SUBSET (1 .. k)
        BY <3>2
      <4>2. g[t] = IF t = {} THEN b ELSE Effect(g[t \ {Max(t)}], ms[Max(t)])
        BY <2>1, <4>1 DEF Folds
      <4>3. t \ {Max(t)} \in SUBSET (1 .. k + 1) /\ k + 1 \notin t \ {Max(t)}
        BY <3>2
      <4>4. h[t \ {Max(t)}] = g[t \ {Max(t)}]
        BY <4>3
      <4>. QED
        BY <3>2, <4>2, <4>4
    <3>. QED
      BY <3>1, <3>2
  <2>3. Folds(h, b, ms, k + 1)
    BY <2>2, Zenon DEF Folds
  <2> HIDE DEF h
  <2>4. \E f : Folds(f, b, ms, k + 1)
    BY <2>3, Zenon
  <2>. QED
    BY <2>4
<1>3. Nat \subseteq S
  BY <1>1, <1>2, NatSetInduction
<1>. QED
  BY <1>3

LEMMA FoldType ==
    ASSUME NEW b \in Effects, NEW ms \in Seq(Command), NEW g, Folds(g, b, ms, Len(ms))
    PROVE  g[1 .. Len(ms)] \in Effects
<1> DEFINE S == {k \in Nat : k <= Len(ms) => \A t \in SUBSET (1 .. k) : g[t] \in Effects}
<1>0. \A t \in SUBSET (1 .. Len(ms)) :
        g[t] = IF t = {} THEN b ELSE Effect(g[t \ {Max(t)}], ms[Max(t)])
  BY DEF Folds
<1>1. 0 \in S
  <2>1. SUFFICES ASSUME NEW t \in SUBSET (1 .. 0) PROVE g[t] \in Effects
    OBVIOUS
  <2>2. t = {} /\ t \in SUBSET (1 .. Len(ms))
    OBVIOUS
  <2>. QED
    BY <1>0, <2>2
<1>2. ASSUME NEW k \in Nat, k \in S PROVE k + 1 \in S
  <2>1. SUFFICES ASSUME k + 1 <= Len(ms), NEW t \in SUBSET (1 .. k + 1)
                 PROVE  g[t] \in Effects
    OBVIOUS
  <2>2. CASE k + 1 \notin t
    <3>1. t \in SUBSET (1 .. k) /\ k <= Len(ms)
      BY <2>1, <2>2
    <3>. QED
      BY <3>1, <1>2
  <2>3. CASE k + 1 \in t
    <3>1. Max(t) = k + 1
      BY <2>3, MaxIsLast
    <3>2. t \ {k + 1} \in SUBSET (1 .. k) /\ k <= Len(ms)
      BY <2>1
    <3>3. g[t \ {k + 1}] \in Effects /\ ms[k + 1] \in Command
      BY <1>2, <2>1, <3>2
    <3>4. t \in SUBSET (1 .. Len(ms)) /\ t # {}
      BY <2>1, <2>3
    <3>. QED
      BY <1>0, <3>1, <3>3, <3>4, EffectType
  <2>. QED
    BY <2>2, <2>3
<1>3. Nat \subseteq S
  BY <1>1, <1>2, NatSetInduction
<1>. QED
  BY <1>3

\* Whatever was queued, EXEC leaves a database index and a record of what ran.
LEMMA FoldEffectType ==
    ASSUME NEW b \in Effects, NEW ms \in Seq(Command)
    PROVE  FoldLeft(Effect, b, ms) \in Effects
<1>1. DOMAIN ms = 1 .. Len(ms) /\ Len(ms) \in Nat
  OBVIOUS
<1> DEFINE g == CHOOSE g : Folds(g, b, ms, Len(ms))
<1>2. Folds(g, b, ms, Len(ms))
  BY <1>1, FoldExists
<1>3. FoldLeft(Effect, b, ms)
        = (CHOOSE i : i = [t \in SUBSET DOMAIN ms |->
             IF t = {} THEN b ELSE Effect(i[t \ {Max(t)}], ms[Max(t)])])[DOMAIN ms]
  BY Zenon DEF FoldLeft, MapThenFoldSet
<1>4. FoldLeft(Effect, b, ms) = g[1 .. Len(ms)]
  BY <1>1, <1>3, Zenon DEF Folds
<1> HIDE DEF g
<1>. QED
  BY <1>2, <1>4, FoldType

-----------------------------------------------------------------------------
(* Types, and how the handlers' loops use their channels.                  *)

AllEntries(b) == UNION {{<<ch, i>> : i \in DOMAIN b[ch]} : ch \in Channel}

\* The reply about to be written confirms a SUBSCRIBE, or an UNSUBSCRIBE.
Confirming(c) == pc[c] = "write" /\ frame[c].t = "subscribe"
Dropping(c)   == pc[c] = "write" /\ frame[c].t = "unsubscribe"

TypeInv ==
    /\ ServerTypeOK
    /\ site \in Sites
    /\ IsFiniteSet(AllEntries(subs))
    /\ \A c \in Conn : Confirming(c) => chans[c] # <<>>
    /\ \A c \in Conn : pc[c] = "deliver" => frame[c].t = "int"

\* A connection without AUTH is in none of the loops, either.
WithoutAuth(c) ==
    /\ pub[c] = 0 /\ ran[c] = <<>> /\ cc[c] = NewClientConn(FALSE)
    /\ \A ch \in Channel : ~IsSubscribed(subs, ch, c)
    /\ pc[c] \notin {"subscribe", "unsubscribe", "deliver"}
    /\ frame[c].t \notin {"subscribe", "unsubscribe"}
AuthInv == \A c \in Conn : ~cc[c].Authenticated => WithoutAuth(c)

\* The queue is what was acknowledged, and nothing has run since MULTI.
QueueIsAcked(c) == cc[c].InMulti => /\ cc[c].QueuedCmds = acked[c].cmds
                                    /\ cc[c].DB = acked[c].DB
                                    /\ ran[c] = acked[c].ran
MultiInv == \A c \in Conn : QueueIsAcked(c)

\* A SUBSCRIBE or UNSUBSCRIBE under way accounts for the entry of c on ch.
Pending(c, ch) ==
    \/ Confirming(c) /\ ch = Head(chans[c])
    \/ pc[c] = "unsubscribe" /\ ch \in LeftBy(chans[c])
    \/ Dropping(c) /\ chans[c] # <<>> /\ ch \in LeftBy(Tail(chans[c]))

\* Clients that do not resubscribe have one entry for each channel.
OneEntry(c) ==
    /\ \A ch \in Channel : AtMostOnce(subs[ch], c)
    /\ \A ch \in Channel : IsSubscribed(subs, ch, c) => ch \in conf[c] \/ Pending(c, ch)
    /\ pc[c] = "subscribe" \/ Confirming(c) =>
         IsInjective(chans[c]) /\ Range(chans[c]) \cap conf[c] = {}
    /\ pc[c] = "closed" => conf[c] = {}
OneEntryInv == \A c \in Conn : OneEntry(c)

\* What a client was told it has, it has, and a message under way is still to
\* be delivered to those it was meant for, or was delivered.
Confirmed(c) ==
    /\ \A ch \in conf[c] : IsSubscribed(subs, ch, c)
    /\ Confirming(c) => IsSubscribed(subs, Head(chans[c]), c)
    /\ pc[c] = "unsubscribe" \/ Dropping(c) => LeftBy(chans[c]) \cap conf[c] = {}
    /\ pc[c] = "new" => conf[c] = {}
    /\ pc[c] = "closed" => ~peer[c]
Served(p, c) == last[c][p] = pub[p] \/ ~peer[c]
Aimed(p) ==
    /\ \A c \in aim[p] : pc[c] # "new"
    /\ pc[p] = "deliver" => \A c \in aim[p] : c \in Range(targets[p]) \/ Served(p, c)
    /\ pc[p] = "write" /\ frame[p].t = "int" => \A c \in aim[p] : Served(p, c)
ConfirmedInv == \A c \in Conn : Confirmed(c) /\ Aimed(c)

\* Nobody has been written a message newer than the publisher's last one, and
\* those still to be delivered to have older ones.
OrderInv ==
    /\ \A d, p \in Conn : last[d][p] <= pub[p]
    /\ \A p \in Conn : pc[p] = "deliver" =>
         /\ IsInjective(targets[p])
         /\ \A d \in Range(targets[p]) : last[d][p] < pub[p]

-----------------------------------------------------------------------------
(* The methods of the broker.                                              *)

LEMMA BrokerTypes ==
    ASSUME NEW b \in Subscriptions, NEW ch \in Channel, NEW c \in Conn
    PROVE  /\ Subscribe(b, ch, c) \in Subscriptions
           /\ Unsubscribe(b, ch, c) \in Subscriptions
           /\ UnsubscribeAll(b, c) \in Subscriptions
<1>1. \A x \in Channel : b[x] \in Seq(Conn)
  BY DEF Subscriptions
<1>2. \A x \in Channel : removeOne(b[x], c) \in Seq(Conn) /\ Append(b[x], c) \in Seq(Conn)
  BY <1>1, RemoveFirstFacts DEF removeOne
<1>3. UnsubscribeAll(b, c) \in Subscriptions
  BY <1>2 DEF Subscriptions, UnsubscribeAll
<1>4. ch # EmptyName => Unsubscribe(b, ch, c) \in Subscriptions
  BY <1>2 DEF Subscriptions, Unsubscribe
<1>5. ch = EmptyName => Unsubscribe(b, ch, c) = UnsubscribeAll(b, c)
  BY DEF Unsubscribe
<1>6. Subscribe(b, ch, c) \in Subscriptions
  BY <1>2 DEF Subscriptions, Subscribe
<1>. QED
  BY <1>3, <1>4, <1>5, <1>6

\* The lists after Unsubscribe; the empty name takes c off all of them.
LEMMA UnsubscribeIs ==
    ASSUME NEW b \in Subscriptions, NEW ch \in Channel, NEW c, NEW x \in Channel
    PROVE  /\ x = ch \/ ch = EmptyName => Unsubscribe(b, ch, c)[x] = RemoveFirst(b[x], c)
           /\ x # ch /\ ch # EmptyName => Unsubscribe(b, ch, c)[x] = b[x]
<1>1. CASE ch = EmptyName
  BY <1>1 DEF Unsubscribe, UnsubscribeAll, removeOne
<1>2. CASE ch # EmptyName
  BY <1>2 DEF Unsubscribe, removeOne, Subscriptions
<1>. QED
  BY <1>1, <1>2

\* What an UNSUBSCRIBE leaves, its first name taken for itself and the others.
LEMMA LeftByFacts ==
    ASSUME NEW s \in Seq(Channel), s # <<>>
    PROVE  /\ LeftBy(s) \subseteq Channel /\ LeftBy(Tail(s)) \subseteq LeftBy(s)
           /\ Head(s) \in LeftBy(s)
           /\ Head(s) = EmptyName => LeftBy(s) = Channel
           /\ Head(s) # EmptyName => LeftBy(s) \subseteq {Head(s)} \cup LeftBy(Tail(s))
<1>1. Range(s) = {Head(s)} \cup Range(Tail(s))
  BY HeadAndTail
<1>2. Range(s) \subseteq Channel
  BY RangeTyped
<1>. QED
  BY <1>1, <1>2 DEF LeftBy

LEMMA EntriesCounted ==
    ASSUME NEW b, IsFiniteSet(AllEntries(b)), NEW c
    PROVE  countForSub(b, c) \in Nat
<1>1. Entries(b, c) \subseteq AllEntries(b)
  BY DEF Entries, AllEntries
<1>. QED
  BY <1>1, FS_Subset, FS_CardinalityType DEF countForSub

LEMMA ShorterIsFinite ==
    ASSUME NEW b \in Subscriptions, IsFiniteSet(AllEntries(b)), NEW d \in Subscriptions,
           \A ch \in Channel : Len(d[ch]) <= Len(b[ch])
    PROVE  IsFiniteSet(AllEntries(d))
<1>1. \A ch \in Channel : DOMAIN d[ch] \subseteq DOMAIN b[ch]
  <2>1. SUFFICES ASSUME NEW ch \in Channel PROVE DOMAIN d[ch] \subseteq DOMAIN b[ch]
    OBVIOUS
  <2>2. d[ch] \in Seq(Conn) /\ b[ch] \in Seq(Conn)
    BY DEF Subscriptions
  <2>. QED
    BY <2>2
<1>2. AllEntries(d) \subseteq AllEntries(b)
  BY <1>1 DEF AllEntries
<1>. QED
  BY <1>2, FS_Subset

LEMMA BrokerFinite ==
    ASSUME NEW b \in Subscriptions, IsFiniteSet(AllEntries(b)),
           NEW ch \in Channel, NEW c \in Conn
    PROVE  /\ IsFiniteSet(AllEntries(Subscribe(b, ch, c)))
           /\ IsFiniteSet(AllEntries(Unsubscribe(b, ch, c)))
           /\ IsFiniteSet(AllEntries(UnsubscribeAll(b, c)))
<1>1. \A x \in Channel : b[x] \in Seq(Conn)
  BY DEF Subscriptions
<1>2. \A x \in Channel : Len(removeOne(b[x], c)) <= Len(b[x])
  BY <1>1, RemoveFirstFacts DEF removeOne
<1>3. \A x \in Channel : Len(b[x]) <= Len(b[x])
  BY <1>1
<1>4. \A x \in Channel : Len(Unsubscribe(b, ch, c)[x]) <= Len(b[x])
                         /\ Len(UnsubscribeAll(b, c)[x]) <= Len(b[x])
  <2>1. SUFFICES ASSUME NEW x \in Channel
                 PROVE  Len(Unsubscribe(b, ch, c)[x]) <= Len(b[x])
                        /\ Len(UnsubscribeAll(b, c)[x]) <= Len(b[x])
    OBVIOUS
  <2>2. UnsubscribeAll(b, c)[x] = removeOne(b[x], c)
    BY DEF UnsubscribeAll
  <2>3. Unsubscribe(b, ch, c)[x] = removeOne(b[x], c) \/ Unsubscribe(b, ch, c)[x] = b[x]
    BY UnsubscribeIs DEF removeOne
  <2>. QED
    BY <1>2, <1>3, <2>2, <2>3
<1>5. AllEntries(Subscribe(b, ch, c)) = AllEntries(b) \cup {<<ch, Len(b[ch]) + 1>>}
  <2>1. DOMAIN Append(b[ch], c) = DOMAIN b[ch] \cup {Len(b[ch]) + 1}
    BY <1>1
  <2>2. \A x \in Channel : DOMAIN Subscribe(b, ch, c)[x]
                             = DOMAIN b[x] \cup (IF x = ch THEN {Len(b[ch]) + 1} ELSE {})
    BY <2>1 DEF Subscribe, Subscriptions
  <2>. QED
    BY <2>2 DEF AllEntries
<1>. QED
  BY <1>4, <1>5, BrokerTypes, ShorterIsFinite, FS_AddElement

-----------------------------------------------------------------------------
(* The type invariant.                                                     *)

LEMMA CommandsAreTyped ==
    ASSUME TypeInv, NEW c \in Conn, NEW m \in site.commands[c]
    PROVE  /\ m \in Command /\ m.chs \in Seq(Channel)
           /\ m.name = "PUBLISH" /\ m.arity # "short" => m.chs # <<>>
<1>1. site.commands \in [Conn -> SUBSET Command]
  BY ServerAssumption DEF TypeInv
<1>2. m \in Command
  BY <1>1
<1>3. m.name = "PUBLISH" /\ m.arity # "short" => m.chs # <<>>
  BY ServerAssumption DEF TypeInv
<1>. QED
  BY <1>2, <1>3 DEF Command

LEMMA InitType == Init => TypeInv
<1>1. SUFFICES ASSUME Init PROVE TypeInv
  OBVIOUS
<1>2. AllEntries(subs) = {}
  BY <1>1 DEF Init, AllEntries, NoSubs
<1>3. IsFiniteSet(AllEntries(subs))
  BY <1>2, FS_EmptySet
<1>4. site \in Sites /\ site.password \in BOOLEAN
  BY <1>1, ServerAssumption DEF Init
<1>5. ServerTypeOK
  BY <1>1, <1>4, ServerAssumption
  DEF Init, ServerTypeOK, OfAll, NewClientConn, Began, NoFrame, Fr, Frame, Subscriptions, NoSubs
<1>6. \A c \in Conn : ~Confirming(c) /\ pc[c] # "deliver"
  BY <1>1 DEF Init, OfAll, Confirming
<1>. QED
  BY <1>3, <1>4, <1>5, <1>6 DEF TypeInv

LEMMA WriteToType ==
    ASSUME out \in [Conn -> 0 .. BufCap], NEW d \in Conn, WriteTo(d)
    PROVE  out' \in [Conn -> 0 .. BufCap]
BY ServerAssumption DEF WriteTo

LEMMA AllLeft ==
    ASSUME NEW b \in Subscriptions, IsFiniteSet(AllEntries(b)), NEW c \in Conn
    PROVE  UnsubscribeAll(b, c) \in Subscriptions /\ IsFiniteSet(AllEntries(UnsubscribeAll(b, c)))
<1>1. CASE Channel = {}
  <2>1. AllEntries(UnsubscribeAll(b, c)) = {}
    BY <1>1 DEF AllEntries
  <2>. QED
    BY <1>1, <2>1, FS_EmptySet DEF Subscriptions, UnsubscribeAll
<1>2. CASE Channel # {}
  BY <1>2, BrokerTypes, BrokerFinite
<1>. QED
  BY <1>1, <1>2

ClientConns  == [DB : Nat, InMulti : BOOLEAN, QueuedCmds : Seq(Command),
                 Authenticated : BOOLEAN]
Acknowledged == [DB : Nat, ran : Seq(Nat), cmds : Seq(Command)]

\* What the handlers that answer at once have in common.
Answers(c) ==
    /\ pc[c] = "read"
    /\ \E f \in Frame : /\ f.t \in {"ok", "err", "queued", "results", "bye"}
                        /\ Reply(c, f)
    /\ UNCHANGED <<site, subs, chans, targets, out, peer, pub, conf, aim, last>>

LEMMA MultiFields ==
    ASSUME NEW k \in ClientConns, NEW b \in BOOLEAN
    PROVE  [k EXCEPT !.InMulti = b, !.QueuedCmds = <<>>] \in ClientConns
<1> DEFINE j == [k EXCEPT !.InMulti = b]
<1>1. j \in ClientConns
  BY DEF ClientConns
<1> HIDE DEF j
<1>2. <<>> \in Seq(Command)
  OBVIOUS
<1>3. [j EXCEPT !.QueuedCmds = <<>>] \in ClientConns
  BY <1>1, <1>2 DEF ClientConns
<1>. QED
  BY <1>3 DEF j

AnswersAtOnce(c, m) ==
    \/ NoAuth(c, m) \/ HandleAuth(c, m) \/ QueueOrDispatch(c, m) \/ Dispatch(c, m)
    \/ cmdMulti(c, m) \/ cmdDiscard(c, m) \/ cmdExec(c, m) \/ Quit(c, m)
    \/ (Publish(c, m) /\ m.arity = "short")

\* Commands run one after the other leave a connection and a record of what ran.
LEMMA RunsType ==
    ASSUME TypeInv, NEW c \in Conn, NEW ms \in Seq(Command), NEW k \in ClientConns,
           Runs(c, ms, k)
    PROVE  cc' \in [Conn -> ClientConns] /\ ran' \in [Conn -> Seq(Nat)]
<1> DEFINE e == FoldLeft(Effect, [DB |-> cc[c].DB, ran |-> ran[c]], ms)
<1>1. [DB |-> cc[c].DB, ran |-> ran[c]] \in Effects
  BY DEF TypeInv, ServerTypeOK, Effects
<1>2. e \in Effects
  BY <1>1, FoldEffectType
<1>3. ran' = [ran EXCEPT ![c] = e.ran] /\ cc' = [cc EXCEPT ![c] = [k EXCEPT !.DB = e.DB]]
  BY DEF Runs
<1> HIDE DEF e
<1>4. e.DB \in Nat /\ e.ran \in Seq(Nat)
  BY <1>2 DEF Effects
<1>5. [k EXCEPT !.DB = e.DB] \in ClientConns
  BY <1>4 DEF ClientConns
<1>. QED
  BY <1>3, <1>4, <1>5 DEF TypeInv, ServerTypeOK, ClientConns

LEMMA AtOnceAnswers ==
    ASSUME TypeInv, NEW c \in Conn, NEW m \in site.commands[c], AnswersAtOnce(c, m)
    PROVE  /\ Answers(c)
           /\ cc' \in [Conn -> ClientConns]
           /\ ran' \in [Conn -> Seq(Nat)]
           /\ acked' \in [Conn -> Acknowledged]
<1> DEFINE P == /\ Answers(c)
                /\ cc' \in [Conn -> ClientConns]
                /\ ran' \in [Conn -> Seq(Nat)]
                /\ acked' \in [Conn -> Acknowledged]
<1>1. /\ m \in Command
      /\ cc \in [Conn -> ClientConns] /\ ran \in [Conn -> Seq(Nat)]
      /\ acked \in [Conn -> Acknowledged]
  BY CommandsAreTyped DEF TypeInv, ServerTypeOK, ClientConns, Acknowledged
<1>2. \A t \in {"ok", "err", "queued", "results", "bye"}, n \in Nat :
        Fr(t, n) \in Frame /\ Fr(t, n).t = t
  BY DEF Fr, Frame
<1>3. CASE NoAuth(c, m)
  BY <1>1, <1>2, <1>3 DEF NoAuth, Receives, Answers, history
<1>4. CASE HandleAuth(c, m)
  <2>1. [cc EXCEPT ![c].Authenticated = TRUE] \in [Conn -> ClientConns]
    BY <1>1 DEF ClientConns
  <2>2. cc' \in [Conn -> ClientConns]
    BY <1>1, <1>4, <2>1 DEF HandleAuth
  <2>. QED
    BY <1>1, <1>2, <1>4, <2>2 DEF HandleAuth, Receives, Answers, history
<1>5. CASE QueueOrDispatch(c, m)
  <2>1. CASE m.name = "UNKNOWN" \/ m.arity = "short"
    BY <1>1, <1>2, <1>5, <2>1 DEF QueueOrDispatch, Admitted, Receives, Answers
  <2>2. CASE ~(m.name = "UNKNOWN" \/ m.arity = "short")
    <3>1. Append(cc[c].QueuedCmds, m) \in Seq(Command) /\ Append(acked[c].cmds, m) \in Seq(Command)
      BY <1>1 DEF ClientConns, Acknowledged
    <3>2. /\ cc' = [cc EXCEPT ![c].QueuedCmds = Append(@, m)]
          /\ acked' = [acked EXCEPT ![c].cmds = Append(@, m)]
      BY <1>5, <2>2 DEF QueueOrDispatch
    <3>3. cc' \in [Conn -> ClientConns]
      BY <1>1, <3>1, <3>2 DEF ClientConns
    <3>4. acked' \in [Conn -> Acknowledged]
      BY <1>1, <3>1, <3>2 DEF Acknowledged
    <3>. QED
      BY <1>1, <1>2, <1>5, <2>2, <3>3, <3>4 DEF QueueOrDispatch, Admitted, Receives, Answers
  <2>. QED
    BY <2>1, <2>2
<1>6. CASE Dispatch(c, m)
  <2>1. <<m>> \in Seq(Command) /\ cc[c] \in ClientConns
    BY <1>1
  <2>2. cc' \in [Conn -> ClientConns] /\ ran' \in [Conn -> Seq(Nat)]
    BY <1>6, <2>1, RunsType DEF Dispatch
  <2>. QED
    BY <1>1, <1>2, <1>6, <2>2 DEF Dispatch, Admitted, Receives, Answers
<1>7. CASE cmdMulti(c, m)
  <2>1. CASE cc[c].InMulti \/ m.arity # "fits"
    BY <1>1, <1>2, <1>7, <2>1 DEF cmdMulti, Admitted, Receives, Answers
  <2>2. CASE ~(cc[c].InMulti \/ m.arity # "fits")
    <3>1. Began(cc[c].DB, ran[c]) \in Acknowledged
      BY <1>1 DEF ClientConns, Acknowledged, Began
    <3>2. /\ cc' = [cc EXCEPT ![c] = [@ EXCEPT !.InMulti = TRUE, !.QueuedCmds = <<>>]]
          /\ acked' = [acked EXCEPT ![c] = Began(cc[c].DB, ran[c])]
      BY <1>7, <2>2 DEF cmdMulti
    <3>3. cc' \in [Conn -> ClientConns]
      BY <1>1, <3>2, MultiFields
    <3>4. acked' \in [Conn -> Acknowledged]
      BY <1>1, <3>1, <3>2
    <3>. QED
      BY <1>1, <1>2, <1>7, <2>2, <3>3, <3>4 DEF cmdMulti, Admitted, Receives, Answers
  <2>. QED
    BY <2>1, <2>2
<1>8. CASE cmdDiscard(c, m)
  <2>1. CASE ~cc[c].InMulti \/ m.arity # "fits"
    BY <1>1, <1>2, <1>8, <2>1 DEF cmdDiscard, Admitted, Receives, Answers, history
  <2>2. CASE ~(~cc[c].InMulti \/ m.arity # "fits")
    <3>1. cc' = [cc EXCEPT ![c] = [@ EXCEPT !.InMulti = FALSE, !.QueuedCmds = <<>>]]
      BY <1>8, <2>2 DEF cmdDiscard
    <3>2. cc' \in [Conn -> ClientConns]
      BY <1>1, <3>1, MultiFields
    <3>. QED
      BY <1>1, <1>2, <1>8, <2>2, <3>2 DEF cmdDiscard, Admitted, Receives, Answers, history
  <2>. QED
    BY <2>1, <2>2
<1>9. CASE cmdExec(c, m)
  <2>1. CASE ~cc[c].InMulti \/ m.arity # "fits"
    BY <1>1, <1>2, <1>9, <2>1 DEF cmdExec, Admitted, Receives, Answers
  <2>2. CASE ~(~cc[c].InMulti \/ m.arity # "fits")
    <3>1. cc[c].QueuedCmds \in Seq(Command)
      BY <1>1 DEF ClientConns
    <3>2. [cc[c] EXCEPT !.InMulti = FALSE, !.QueuedCmds = <<>>] \in ClientConns
      BY <1>1, MultiFields
    <3>3. cc' \in [Conn -> ClientConns] /\ ran' \in [Conn -> Seq(Nat)]
      BY <1>9, <2>2, <3>1, <3>2, RunsType DEF cmdExec
    <3>4. Len(cc[c].QueuedCmds) \in Nat
      BY <3>1
    <3>. QED
      BY <1>1, <1>2, <1>9, <2>2, <3>3, <3>4 DEF cmdExec, Admitted, Receives, Answers
  <2>. QED
    BY <2>1, <2>2
<1>10. CASE Quit(c, m)
  BY <1>1, <1>2, <1>10 DEF Quit, Receives, Answers, history
<1>11. CASE Publish(c, m) /\ m.arity = "short"
  BY <1>1, <1>2, <1>11 DEF Publish, Admitted, Receives, Answers
<1>. QED
  BY <1>3, <1>4, <1>5, <1>6, <1>7, <1>8, <1>9, <1>10, <1>11 DEF AnswersAtOnce

\* PUBLISH with its arguments.
Publishes(c, m) ==
    /\ pc[c] = "read" /\ cc[c].Authenticated
    /\ At(c, "deliver")
    /\ targets' = [targets EXCEPT ![c] = subs[Head(m.chs)]]
    /\ frame' = [frame EXCEPT ![c] = Fr("int", Len(subs[Head(m.chs)]))]
    /\ pub' = [pub EXCEPT ![c] = @ + 1]
    /\ aim' = [aim EXCEPT ![c] = {d \in Conn : Head(m.chs) \in conf[d]}]
    /\ UNCHANGED <<site, subs, cc, chans, out, peer, ran, acked, conf, last>>

LEMMA PublishSends ==
    ASSUME NEW c, NEW m, Publish(c, m), m.arity # "short"
    PROVE  Publishes(c, m)
BY Zenon DEF Publish, Publishes, Admitted, Receives

LEMMA NextType == TypeInv /\ [Next]_vars => TypeInv'
<1>1. SUFFICES ASSUME TypeInv, [Next]_vars PROVE TypeInv'
  OBVIOUS
<1>2. CASE UNCHANGED vars
  BY <1>1, <1>2 DEF TypeInv, ServerTypeOK, Confirming, vars, history
<1>3. ASSUME NEW c \in Conn, Accept(c) PROVE TypeInv'
  BY <1>1, <1>3 DEF TypeInv, ServerTypeOK, Confirming, Accept, At, history
<1>4. ASSUME NEW c \in Conn, ClientReads(c) PROVE TypeInv'
  <2>1. out' \in [Conn -> 0 .. BufCap]
    BY <1>1, <1>4, ServerAssumption DEF TypeInv, ServerTypeOK, ClientReads
  <2>. QED
    BY <1>1, <1>4, <2>1 DEF TypeInv, ServerTypeOK, Confirming, ClientReads, history
<1>5. ASSUME NEW c \in Conn, ClientGone(c) PROVE TypeInv'
  <2>1. out' \in [Conn -> 0 .. BufCap] /\ peer' \in [Conn -> BOOLEAN]
    BY <1>1, <1>5, ServerAssumption DEF TypeInv, ServerTypeOK, ClientGone
  <2>. QED
    BY <1>1, <1>5, <2>1 DEF TypeInv, ServerTypeOK, Confirming, ClientGone, history
<1>6. ASSUME NEW c \in Conn, SubscribeNext(c) PROVE TypeInv'
  <2>1. Head(chans[c]) \in Channel
    BY <1>1, <1>6 DEF TypeInv, ServerTypeOK, SubscribeNext
  <2>2. subs' \in Subscriptions /\ IsFiniteSet(AllEntries(subs'))
    BY <1>1, <1>6, <2>1, BrokerTypes, BrokerFinite DEF TypeInv, ServerTypeOK, SubscribeNext
  <2>3. Fr("subscribe", countForSub(subs', c)) \in Frame
    BY <2>2, EntriesCounted DEF Fr, Frame
  <2>. QED
    BY <1>1, <1>6, <2>2, <2>3
    DEF TypeInv, ServerTypeOK, Confirming, SubscribeNext, Reply, At, history
<1>7. ASSUME NEW c \in Conn, UnsubscribeNext(c) PROVE TypeInv'
  <2>1. Head(chans[c]) \in Channel
    BY <1>1, <1>7 DEF TypeInv, ServerTypeOK, UnsubscribeNext
  <2>2. subs' \in Subscriptions /\ IsFiniteSet(AllEntries(subs'))
    BY <1>1, <1>7, <2>1, BrokerTypes, BrokerFinite DEF TypeInv, ServerTypeOK, UnsubscribeNext
  <2> DEFINE n == unsubscribeCount(subs', Head(chans[c]), c)
  <2>3. Fr("unsubscribe", n) \in Frame
    <3>1. n \in Nat
      BY <2>2, EntriesCounted DEF unsubscribeCount
    <3>. QED
      BY <3>1 DEF Fr, Frame
  <2>4. Fr("unsubscribe", n).t # "subscribe"
    BY DEF Fr
  <2>. QED
    BY <1>1, <1>7, <2>2, <2>3, <2>4
    DEF TypeInv, ServerTypeOK, Confirming, UnsubscribeNext, Reply, At, history
<1>8. ASSUME NEW c \in Conn, Deliver(c) PROVE TypeInv'
  <2>1. CASE targets[c] = <<>>
    BY <1>1, <1>8, <2>1 DEF TypeInv, ServerTypeOK, Confirming, Deliver, At
  <2>2. CASE targets[c] # <<>>
    <3>1. Head(targets[c]) \in Conn /\ Tail(targets[c]) \in Seq(Conn)
      BY <1>1, <2>2 DEF TypeInv, ServerTypeOK
    <3>2. out' \in [Conn -> 0 .. BufCap]
      BY <1>1, <1>8, <2>2, <3>1, WriteToType DEF TypeInv, ServerTypeOK, Deliver
    <3>3. targets' \in [Conn -> Seq(Conn)]
      BY <1>1, <1>8, <2>2, <3>1 DEF TypeInv, ServerTypeOK, Deliver
    <3>4. last' \in [Conn -> [Conn -> Nat]]
      <4> DEFINE d == Head(targets[c])
      <4>1. d \in Conn /\ pub[c] \in Nat
        BY <1>1, <3>1 DEF TypeInv, ServerTypeOK
      <4>2. last' \in {[last EXCEPT ![d][c] = pub[c]], last}
        BY <1>8, <2>2, Zenon DEF Deliver
      <4> HIDE DEF d
      <4>3. [last EXCEPT ![d][c] = pub[c]] \in [Conn -> [Conn -> Nat]]
        BY <1>1, <4>1 DEF TypeInv, ServerTypeOK
      <4>. QED
        BY <1>1, <4>2, <4>3 DEF TypeInv, ServerTypeOK
    <3>. QED
      BY <1>1, <1>8, <2>2, <3>2, <3>3, <3>4 DEF TypeInv, ServerTypeOK, Confirming, Deliver
  <2>. QED
    BY <2>1, <2>2
<1>9. ASSUME NEW c \in Conn, Write(c) PROVE TypeInv'
  <2>1. out' \in [Conn -> 0 .. BufCap]
    BY <1>1, <1>9, WriteToType DEF TypeInv, ServerTypeOK, Write
  <2>2. chans' \in [Conn -> Seq(Channel)]
    BY <1>1, <1>9 DEF TypeInv, ServerTypeOK, Write
  <2>3. conf' \in [Conn -> SUBSET Channel]
    <3>1. CASE Confirming(c)
      <4>1. Head(chans[c]) \in Channel
        BY <1>1, <3>1 DEF TypeInv, ServerTypeOK
      <4>. QED
        BY <1>1, <1>9, <4>1 DEF TypeInv, ServerTypeOK, Write
    <3>2. CASE ~Confirming(c)
      BY <1>1, <1>9, <3>2 DEF TypeInv, ServerTypeOK, Write, Confirming
    <3>. QED
      BY <3>1, <3>2
  <2>4. frame' \in [Conn -> Frame] /\ aim' \in [Conn -> SUBSET Conn]
    BY <1>1, <1>9 DEF TypeInv, ServerTypeOK, Write, NoFrame, Fr, Frame
  <2>5. /\ pc' \in [Conn -> {"new", "read", "subscribe", "unsubscribe", "deliver", "write",
                         "leave", "closed"}]
        /\ pc'[c] \in {"subscribe", "unsubscribe"} => Len(chans[c]) > 1
        /\ pc'[c] \notin {"write", "deliver"}
    BY <1>1, <1>9 DEF TypeInv, ServerTypeOK, Write, At, Looping
  <2>6. pc'[c] \in {"subscribe", "unsubscribe"} => chans'[c] # <<>>
    <3>1. CASE Len(chans[c]) > 1
      <4>1. chans[c] \in Seq(Channel) /\ chans[c] # <<>> /\ Len(Tail(chans[c])) > 0
        BY <1>1, <3>1 DEF TypeInv, ServerTypeOK
      <4>2. chans'[c] = Tail(chans[c])
        BY <1>1, <1>9, <4>1 DEF TypeInv, ServerTypeOK, Write
      <4>3. ASSUME NEW q, Len(q) > 0 PROVE q # <<>>
        BY <4>3
      <4>4. Tail(chans[c]) # <<>>
        BY <4>1, <4>3, Zenon
      <4>. QED
        BY <4>2, <4>4
    <3>. QED
      BY <2>5, <3>1
  <2>7. \A d \in Conn : d # c => pc'[d] = pc[d] /\ chans'[d] = chans[d] /\ frame'[d] = frame[d]
    BY <1>1, <1>9 DEF TypeInv, ServerTypeOK, Write, At
  <2>8. ServerTypeOK'
    BY <1>1, <1>9, <2>1, <2>2, <2>3, <2>4, <2>5, <2>6, <2>7 DEF TypeInv, ServerTypeOK, Write
  <2>9. site' = site /\ subs' = subs
    BY <1>9 DEF Write
  <2>. QED
    BY <1>1, <2>5, <2>7, <2>8, <2>9 DEF TypeInv, Confirming
<1>10. ASSUME NEW c \in Conn, Leave(c) PROVE TypeInv'
  <2>1. subs' \in Subscriptions /\ IsFiniteSet(AllEntries(subs'))
    BY <1>1, <1>10, AllLeft DEF TypeInv, ServerTypeOK, Leave
  <2>2. out' \in [Conn -> 0 .. BufCap]
    BY <1>1, <1>10, ServerAssumption DEF TypeInv, ServerTypeOK, Leave
  <2>3. last' \in [Conn -> [Conn -> Nat]]
    BY <1>1, <1>10 DEF TypeInv, ServerTypeOK, Leave, OfAll
  <2>. QED
    BY <1>1, <1>10, <2>1, <2>2, <2>3 DEF TypeInv, ServerTypeOK, Confirming, Leave, At
<1>11. ASSUME NEW c \in Conn, NEW m \in site.commands[c], StartSubscribe(c, m)
       PROVE  TypeInv'
  <2>1. m.chs \in Seq(Channel)
    BY <1>1, CommandsAreTyped
  <2>. QED
    BY <1>1, <1>11, <2>1 DEF TypeInv, ServerTypeOK, Confirming, StartSubscribe, At, history
<1>12. ASSUME NEW c \in Conn, NEW m \in site.commands[c], StartUnsubscribe(c, m)
       PROVE  TypeInv'
  <2>1. m.chs \in Seq(Channel)
    BY <1>1, CommandsAreTyped
  <2>2. CASE m.chs = <<>>
    <3>1. /\ subs' = UnsubscribeAll(subs, c) /\ Reply(c, Fr("unsubscribe", 0))
          /\ conf' = [conf EXCEPT ![c] = {}] /\ chans' = [chans EXCEPT ![c] = m.chs]
          /\ UNCHANGED <<site, cc, targets, out, peer, pub, ran, acked, aim, last>>
      BY <1>12, <2>2, Zenon DEF StartUnsubscribe
    <3>2. subs' \in Subscriptions /\ IsFiniteSet(AllEntries(subs'))
      BY <1>1, <3>1, AllLeft DEF TypeInv, ServerTypeOK
    <3>3. Fr("unsubscribe", 0) \in Frame /\ Fr("unsubscribe", 0).t = "unsubscribe"
      BY DEF Fr, Frame
    <3>. QED
      BY <1>1, <2>1, <3>1, <3>2, <3>3 DEF TypeInv, ServerTypeOK, Confirming, Reply, At
  <2>3. CASE m.chs # <<>>
    <3>1. /\ At(c, "unsubscribe")
          /\ conf' = [conf EXCEPT ![c] = @ \ LeftBy(m.chs)] /\ chans' = [chans EXCEPT ![c] = m.chs]
          /\ UNCHANGED <<site, subs, frame, cc, targets, out, peer, pub, ran, acked, aim, last>>
      BY <1>12, <2>3, Zenon DEF StartUnsubscribe
    <3>. QED
      BY <1>1, <2>1, <2>3, <3>1 DEF TypeInv, ServerTypeOK, Confirming, At
  <2>. QED
    BY <2>2, <2>3
<1>13. ASSUME NEW c \in Conn, NEW m \in site.commands[c], Publish(c, m), m.arity # "short"
       PROVE  TypeInv'
  <2>1. m.chs \in Seq(Channel) /\ m.chs # <<>>
    BY <1>1, <1>13, CommandsAreTyped DEF Publish
  <2>2. subs[Head(m.chs)] \in Seq(Conn)
    BY <1>1, <2>1 DEF TypeInv, ServerTypeOK, Subscriptions
  <2>3. Fr("int", Len(subs[Head(m.chs)])) \in Frame /\ Fr("int", Len(subs[Head(m.chs)])).t = "int"
    BY <2>2 DEF Fr, Frame
  <2>4. Publishes(c, m)
    BY <1>13, PublishSends
  <2>5. targets' \in [Conn -> Seq(Conn)] /\ pub' \in [Conn -> Nat] /\ aim' \in [Conn -> SUBSET Conn]
    BY <1>1, <2>2, <2>4 DEF TypeInv, ServerTypeOK, Publishes
  <2>6. frame' \in [Conn -> Frame] /\ frame'[c].t = "int" /\ \A d \in Conn : d # c => frame'[d] = frame[d]
    BY <1>1, <2>3, <2>4 DEF TypeInv, ServerTypeOK, Publishes
  <2>. QED
    BY <1>1, <2>4, <2>5, <2>6 DEF TypeInv, ServerTypeOK, Confirming, Publishes, At
<1>14. ASSUME NEW c \in Conn, Answers(c), cc' \in [Conn -> ClientConns],
              ran' \in [Conn -> Seq(Nat)], acked' \in [Conn -> Acknowledged]
       PROVE  TypeInv'
  <2>1. PICK f \in Frame : f.t \in {"ok", "err", "queued", "results", "bye"} /\ Reply(c, f)
    BY <1>14 DEF Answers
  <2>2. UNCHANGED <<site, subs, chans, targets, out, peer, pub, conf, aim, last>>
    BY <1>14 DEF Answers
  <2>. QED
    BY <1>1, <1>14, <2>1, <2>2
    DEF TypeInv, ServerTypeOK, Confirming, Reply, At, ClientConns, Acknowledged
<1>15. ASSUME NEW c \in Conn, NEW m \in site.commands[c], AnswersAtOnce(c, m)
       PROVE  TypeInv'
  BY <1>1, <1>14, <1>15, AtOnceAnswers
<1>. QED
  BY <1>1, <1>2, <1>3, <1>4, <1>5, <1>6, <1>7, <1>8, <1>9, <1>10, <1>11, <1>12, <1>13, <1>15
  DEF Next, Continue, Handle, AnswersAtOnce

LEMMA TypeInvariance == Spec => []TypeInv
BY InitType, NextType, PTL DEF Spec

\* Every value the server works on keeps its type, the numbers in its replies
\* and the index and record that EXEC leaves included; the loops of SUBSCRIBE
\* and UNSUBSCRIBE never run out of channels (server.go handleConn).
THEOREM ServerTypeCorrect == Spec => []ServerTypeOK
<1>1. TypeInv => ServerTypeOK
  BY DEF TypeInv
<1>. QED
  BY <1>1, TypeInvariance, PTL

-----------------------------------------------------------------------------
(* AUTH.                                                                   *)

\* Where nobody else is taken off a list, or put on it, the others stay as they are.
LEMMA OthersSubscribed ==
    ASSUME NEW b \in Subscriptions, NEW ch \in Channel, NEW c \in Conn,
           NEW d \in Conn, d # c, NEW x \in Channel
    PROVE  /\ IsSubscribed(Subscribe(b, ch, c), x, d) <=> IsSubscribed(b, x, d)
           /\ IsSubscribed(Unsubscribe(b, ch, c), x, d) <=> IsSubscribed(b, x, d)
           /\ IsSubscribed(UnsubscribeAll(b, c), x, d) <=> IsSubscribed(b, x, d)
<1>1. b[x] \in Seq(Conn) /\ b[ch] \in Seq(Conn)
  BY DEF Subscriptions
<1>2. RemoveFirst(b[x], c) \in Seq(Conn) /\ RemoveFirst(b[ch], c) \in Seq(Conn)
  BY <1>1, RemoveFirstFacts
<1>3. d \in Range(RemoveFirst(b[x], c)) <=> d \in Range(b[x])
  <2>1. Occurs(RemoveFirst(b[x], c), d) <=> Occurs(b[x], d)
    BY <1>1, RemoveFirstFacts
  <2>. QED
    BY <1>1, <1>2, <2>1, RangeOccurs
<1>4. d \in Range(Append(b[ch], c)) <=> d \in Range(b[ch])
  BY <1>1 DEF Range
<1>5. /\ Subscribe(b, ch, c)[x] = IF x = ch THEN Append(b[ch], c) ELSE b[x]
      /\ UnsubscribeAll(b, c)[x] = RemoveFirst(b[x], c)
  BY DEF Subscribe, UnsubscribeAll, removeOne, Subscriptions
<1>6. Unsubscribe(b, ch, c)[x] = RemoveFirst(b[x], c) \/ Unsubscribe(b, ch, c)[x] = b[x]
  BY UnsubscribeIs
<1>. QED
  BY <1>3, <1>4, <1>5, <1>6 DEF IsSubscribed

\* Taking c off lists it is not on, or is on, adds it to none.
LEMMA LeavingAddsNone ==
    ASSUME NEW b \in Subscriptions, NEW ch \in Channel, NEW c \in Conn, NEW x \in Channel
    PROVE  /\ IsSubscribed(Unsubscribe(b, ch, c), x, c) => IsSubscribed(b, x, c)
           /\ IsSubscribed(UnsubscribeAll(b, c), x, c) => IsSubscribed(b, x, c)
<1>1. b[x] \in Seq(Conn)
  BY DEF Subscriptions
<1>2. RemoveFirst(b[x], c) \in Seq(Conn)
  BY <1>1, RemoveFirstFacts
<1>3. c \in Range(RemoveFirst(b[x], c)) => c \in Range(b[x])
  <2>1. Occurs(RemoveFirst(b[x], c), c) => Occurs(b[x], c)
    BY <1>1, RemoveFirstFacts
  <2>. QED
    BY <1>1, <1>2, <2>1, RangeOccurs
<1>5. /\ Unsubscribe(b, ch, c)[x] = RemoveFirst(b[x], c) \/ Unsubscribe(b, ch, c)[x] = b[x]
      /\ UnsubscribeAll(b, c)[x] = RemoveFirst(b[x], c)
  BY UnsubscribeIs DEF UnsubscribeAll, removeOne
<1>. QED
  BY <1>3, <1>5 DEF IsSubscribed

\* A step of c, or of its client.
Step(c) == \/ Accept(c) \/ Continue(c) \/ ClientReads(c) \/ ClientGone(c)
           \/ \E m \in site.commands[c] : Handle(c, m)

\* What belongs to another connection d and a step of c leaves alone.
Kept(d) == /\ pc'[d] = pc[d]           /\ cc'[d] = cc[d]
           /\ chans'[d] = chans[d]     /\ targets'[d] = targets[d]
           /\ frame'[d] = frame[d]     /\ peer'[d] = peer[d]
           /\ pub'[d] = pub[d]         /\ ran'[d] = ran[d]
           /\ acked'[d] = acked[d]     /\ conf'[d] = conf[d]
           /\ aim'[d] = aim[d]

LEMMA OthersKept ==
    ASSUME TypeInv, NEW c \in Conn, Step(c), NEW d \in Conn, d # c
    PROVE  Kept(d)
<1>1. CASE Accept(c)
  BY <1>1 DEF TypeInv, ServerTypeOK, Kept, Accept, At, history
<1>2. CASE SubscribeNext(c)
  BY <1>2 DEF TypeInv, ServerTypeOK, Kept, SubscribeNext, Reply, At, history
<1>3. CASE UnsubscribeNext(c)
  BY <1>3 DEF TypeInv, ServerTypeOK, Kept, UnsubscribeNext, Reply, At, history
<1>4. CASE Deliver(c)
  <2>1. targets' \in {targets, [targets EXCEPT ![c] = Tail(targets[c])]} /\ pc'[d] = pc[d]
        /\ UNCHANGED <<cc, chans, frame, peer, pub, ran, acked, conf, aim>>
    BY <1>4 DEF TypeInv, ServerTypeOK, Deliver, At
  <2>. QED
    BY <2>1 DEF TypeInv, ServerTypeOK, Kept
<1>5. CASE Write(c)
  BY <1>5 DEF TypeInv, ServerTypeOK, Kept, Write, At
<1>6. CASE Leave(c)
  BY <1>6 DEF TypeInv, ServerTypeOK, Kept, Leave, At
<1>7. CASE ClientReads(c)
  BY <1>7 DEF TypeInv, ServerTypeOK, Kept, ClientReads, history
<1>8. CASE ClientGone(c)
  BY <1>8 DEF TypeInv, ServerTypeOK, Kept, ClientGone, history
<1>9. ASSUME NEW m \in site.commands[c], Handle(c, m) PROVE Kept(d)
  <2>1. CASE NoAuth(c, m)
    BY <2>1 DEF TypeInv, ServerTypeOK, Kept, NoAuth, Reply, At, history
  <2>2. CASE HandleAuth(c, m)
    <3>1. cc'[d] = cc[d]
      BY <2>2 DEF TypeInv, ServerTypeOK, HandleAuth
    <3>. QED
      BY <2>2, <3>1 DEF TypeInv, ServerTypeOK, Kept, HandleAuth, Reply, At, history
  <2>3. CASE StartSubscribe(c, m)
    BY <2>3 DEF TypeInv, ServerTypeOK, Kept, StartSubscribe, At, history
  <2>4. CASE StartUnsubscribe(c, m)
    BY <2>4 DEF TypeInv, ServerTypeOK, Kept, StartUnsubscribe, Reply, At
  <2>5. CASE Publish(c, m)
    <3>1. CASE m.arity = "short"
      <4>1. /\ Reply(c, Fr("err", 0))
            /\ UNCHANGED <<cc, chans, targets, peer, pub, ran, acked, conf, aim>>
        BY <2>5, <3>1, Zenon DEF Publish
      <4>. QED
        BY <4>1 DEF TypeInv, ServerTypeOK, Kept, Reply, At
    <3>2. CASE m.arity # "short"
      <4>1. Publishes(c, m)
        BY <2>5, <3>2, PublishSends
      <4>. QED
        BY <4>1 DEF TypeInv, ServerTypeOK, Kept, Publishes, At
    <3>. QED
      BY <3>1, <3>2
  <2>6. CASE QueueOrDispatch(c, m)
    BY <2>6 DEF TypeInv, ServerTypeOK, Kept, QueueOrDispatch, Reply, At
  <2>7. CASE Dispatch(c, m)
    <3>1. cc'[d] = cc[d] /\ ran'[d] = ran[d]
      BY <2>7 DEF TypeInv, ServerTypeOK, Dispatch, Runs
    <3>. QED
      BY <2>7, <3>1 DEF TypeInv, ServerTypeOK, Kept, Dispatch, Reply, At
  <2>8. CASE cmdMulti(c, m)
    BY <2>8 DEF TypeInv, ServerTypeOK, Kept, cmdMulti, Reply, At
  <2>9. CASE cmdDiscard(c, m)
    BY <2>9 DEF TypeInv, ServerTypeOK, Kept, cmdDiscard, Reply, At, history
  <2>10. CASE cmdExec(c, m)
    <3>1. cc'[d] = cc[d] /\ ran'[d] = ran[d]
      BY <2>10 DEF TypeInv, ServerTypeOK, cmdExec, Runs
    <3>. QED
      BY <2>10, <3>1 DEF TypeInv, ServerTypeOK, Kept, cmdExec, Reply, At
  <2>11. CASE Quit(c, m)
    BY <2>11 DEF TypeInv, ServerTypeOK, Kept, Quit, Reply, At, history
  <2>. QED
    BY <1>9, <2>1, <2>2, <2>3, <2>4, <2>5, <2>6, <2>7, <2>8, <2>9, <2>10, <2>11 DEF Handle
<1>. QED
  BY <1>1, <1>2, <1>3, <1>4, <1>5, <1>6, <1>7, <1>8, <1>9 DEF Step, Continue

\* A handler in one of the loops has a channel to go on with.
LEMMA ChannelsLeft ==
    ASSUME TypeInv, NEW c \in Conn,
           pc[c] \in {"subscribe", "unsubscribe"} \/ Confirming(c)
    PROVE  chans[c] \in Seq(Channel) /\ chans[c] # <<>> /\ Head(chans[c]) \in Channel
<1>1. chans[c] \in Seq(Channel) /\ chans[c] # <<>>
  BY DEF TypeInv, ServerTypeOK
<1>. QED
  BY <1>1

\* A step of c changes the subscriber lists by a method of the broker, for c.
ListStep(c) ==
    \/ subs' = subs
    \/ subs' = UnsubscribeAll(subs, c)
    \/ \E ch \in Channel : subs' = Subscribe(subs, ch, c) \/ subs' = Unsubscribe(subs, ch, c)

LEMMA ListSteps ==
    ASSUME TypeInv, NEW c \in Conn, Step(c)
    PROVE  ListStep(c)
<1>1. CASE SubscribeNext(c)
  <2>1. Head(chans[c]) \in Channel
    BY <1>1, ChannelsLeft DEF SubscribeNext
  <2>. QED
    BY <1>1, <2>1, Zenon DEF SubscribeNext, ListStep
<1>2. CASE UnsubscribeNext(c)
  <2>1. Head(chans[c]) \in Channel
    BY <1>2, ChannelsLeft DEF UnsubscribeNext
  <2>. QED
    BY <1>2, <2>1, Zenon DEF UnsubscribeNext, ListStep
<1>3. CASE Leave(c)
  BY <1>3, Zenon DEF Leave, ListStep
<1>4. CASE Accept(c) \/ Deliver(c) \/ Write(c) \/ ClientReads(c) \/ ClientGone(c)
  BY <1>4, Zenon DEF ListStep, Accept, Deliver, Write, ClientReads, ClientGone
<1>5. ASSUME NEW m \in site.commands[c], StartSubscribe(c, m) PROVE subs' = subs
  BY <1>5, Zenon DEF StartSubscribe
<1>6. ASSUME NEW m \in site.commands[c], StartUnsubscribe(c, m)
      PROVE subs' = subs \/ subs' = UnsubscribeAll(subs, c)
  BY <1>6, Zenon DEF StartUnsubscribe
<1>7. ASSUME NEW m \in site.commands[c], Publish(c, m) PROVE subs' = subs
  BY <1>7, Zenon DEF Publish
<1>8. ASSUME NEW m \in site.commands[c], AnswersAtOnce(c, m) PROVE subs' = subs
  BY <1>8, AtOnceAnswers, Zenon DEF Answers
<1>. QED
  BY <1>1, <1>2, <1>3, <1>4, <1>5, <1>6, <1>7, <1>8, Zenon
  DEF Step, Continue, Handle, AnswersAtOnce, ListStep

\* The subscriber lists of others: c comes and goes for itself only.
LEMMA OthersOnLists ==
    ASSUME TypeInv, NEW c \in Conn, Step(c), NEW d \in Conn, d # c, NEW x \in Channel
    PROVE  IsSubscribed(subs', x, d) <=> IsSubscribed(subs, x, d)
<1>1. subs \in Subscriptions
  BY DEF TypeInv, ServerTypeOK
<1>2. CASE subs' = UnsubscribeAll(subs, c)
  BY <1>1, <1>2, OthersSubscribed
<1>3. ASSUME NEW ch \in Channel, subs' = Subscribe(subs, ch, c) \/ subs' = Unsubscribe(subs, ch, c)
      PROVE  IsSubscribed(subs', x, d) <=> IsSubscribed(subs, x, d)
  <2>1. /\ IsSubscribed(Subscribe(subs, ch, c), x, d) <=> IsSubscribed(subs, x, d)
        /\ IsSubscribed(Unsubscribe(subs, ch, c), x, d) <=> IsSubscribed(subs, x, d)
    BY <1>1, OthersSubscribed
  <2>. QED
    BY <1>3, <2>1
<1>. QED
  BY <1>2, <1>3, ListSteps DEF ListStep

\* The first step of a connection that leaves it unauthenticated found it so,
\* and is one of the few the AUTH check lets through.
LEMMA AuthKept ==
    ASSUME TypeInv, NEW c \in Conn, cc[c].Authenticated, Step(c)
    PROVE  cc'[c].Authenticated
<1>0. cc \in [Conn -> ClientConns]
  BY DEF TypeInv, ServerTypeOK, ClientConns
<1>1. CASE cc' = cc
  BY <1>1
<1>2. ASSUME NEW m \in site.commands[c], HandleAuth(c, m) PROVE cc'[c].Authenticated
  BY <1>0, <1>2 DEF HandleAuth, ClientConns
<1>3. ASSUME NEW ms, NEW k \in ClientConns, k.Authenticated, Runs(c, ms, k)
      PROVE  cc'[c].Authenticated
  <2>1. \E x : cc' = [cc EXCEPT ![c] = [k EXCEPT !.DB = x]]
    BY <1>3, Zenon DEF Runs
  <2>2. ASSUME NEW x PROVE [k EXCEPT !.DB = x].Authenticated
    BY <1>3 DEF ClientConns
  <2>. QED
    BY <1>0, <2>1, <2>2
<1>4. ASSUME NEW m \in site.commands[c], Dispatch(c, m) PROVE cc'[c].Authenticated
  BY <1>0, <1>3, <1>4 DEF Dispatch
<1>5. ASSUME NEW m \in site.commands[c], cmdExec(c, m) PROVE cc'[c].Authenticated
  <2>1. CASE ~cc[c].InMulti \/ m.arity # "fits"
    BY <1>5, <2>1 DEF cmdExec
  <2>2. CASE ~(~cc[c].InMulti \/ m.arity # "fits")
    <3> DEFINE k == [cc[c] EXCEPT !.InMulti = FALSE, !.QueuedCmds = <<>>]
    <3>1. k \in ClientConns /\ k.Authenticated
      <4>1. cc[c] \in ClientConns
        BY <1>0
      <4>2. k.Authenticated = cc[c].Authenticated
        BY <4>1 DEF ClientConns
      <4>. QED
        BY <4>1, <4>2, MultiFields
    <3>2. Runs(c, cc[c].QueuedCmds, k)
      BY <1>5, <2>2 DEF cmdExec
    <3> HIDE DEF k
    <3>. QED
      BY <1>3, <3>1, <3>2
  <2>. QED
    BY <2>1, <2>2
<1>6. ASSUME NEW m \in site.commands[c], QueueOrDispatch(c, m) PROVE cc'[c].Authenticated
  BY <1>0, <1>6 DEF QueueOrDispatch, ClientConns
<1>7. ASSUME NEW m \in site.commands[c], cmdMulti(c, m) PROVE cc'[c].Authenticated
  <2>1. [cc[c] EXCEPT !.InMulti = TRUE, !.QueuedCmds = <<>>].Authenticated
    BY <1>0 DEF ClientConns
  <2>. QED
    BY <1>0, <1>7, <2>1 DEF cmdMulti
<1>8. ASSUME NEW m \in site.commands[c], cmdDiscard(c, m) PROVE cc'[c].Authenticated
  <2>1. [cc[c] EXCEPT !.InMulti = FALSE, !.QueuedCmds = <<>>].Authenticated
    BY <1>0 DEF ClientConns
  <2>. QED
    BY <1>0, <1>8, <2>1 DEF cmdDiscard
<1>9. ASSUME NEW m \in site.commands[c],
             NoAuth(c, m) \/ Quit(c, m) \/ StartSubscribe(c, m) \/ StartUnsubscribe(c, m)
             \/ Publish(c, m)
      PROVE  cc' = cc
  BY <1>9, Zenon DEF NoAuth, Quit, StartSubscribe, StartUnsubscribe, Publish
<1>10. CASE Accept(c) \/ Continue(c) \/ ClientReads(c) \/ ClientGone(c)
  BY <1>10, Zenon DEF Accept, Continue, SubscribeNext, UnsubscribeNext, Deliver, Write, Leave,
     ClientReads, ClientGone
<1>. QED
  BY <1>1, <1>2, <1>4, <1>5, <1>6, <1>7, <1>8, <1>9, <1>10, Zenon DEF Step, Handle

LEMMA AuthStep ==
    ASSUME TypeInv, AuthInv, NEW c \in Conn, Step(c), ~cc'[c].Authenticated
    PROVE  WithoutAuth(c)'
<1>1. ~cc[c].Authenticated /\ WithoutAuth(c)
  BY AuthKept DEF AuthInv
<1>2. CASE Accept(c)
  BY <1>1, <1>2 DEF TypeInv, ServerTypeOK, WithoutAuth, Accept, At, history
<1>3. CASE SubscribeNext(c) \/ UnsubscribeNext(c) \/ Deliver(c)
  BY <1>1, <1>3 DEF WithoutAuth, SubscribeNext, UnsubscribeNext, Deliver
<1>4. CASE Write(c)
  <2>1. frame'[c].t = "none" /\ pc'[c] \in {"leave", "read"}
    BY <1>1, <1>4 DEF TypeInv, ServerTypeOK, WithoutAuth, Write, At, Looping, NoFrame, Fr
  <2>. QED
    BY <1>1, <1>4, <2>1 DEF WithoutAuth, Write
<1>5. CASE Leave(c)
  <2>1. \A x \in Channel : ~IsSubscribed(subs', x, c)
    BY <1>1, <1>5, LeavingAddsNone DEF TypeInv, ServerTypeOK, WithoutAuth, Leave
  <2>. QED
    BY <1>1, <1>5, <2>1 DEF TypeInv, ServerTypeOK, WithoutAuth, Leave, At
<1>6. CASE ClientReads(c)
  BY <1>1, <1>6 DEF WithoutAuth, ClientReads, history
<1>7. CASE ClientGone(c)
  BY <1>1, <1>7 DEF WithoutAuth, ClientGone, history
<1>8. ASSUME NEW m \in site.commands[c], Handle(c, m) PROVE WithoutAuth(c)'
  <2>1. NoAuth(c, m) \/ HandleAuth(c, m) \/ Quit(c, m)
    BY <1>1, <1>8, Zenon
    DEF Handle, StartSubscribe, StartUnsubscribe, Publish, QueueOrDispatch, Dispatch,
        cmdMulti, cmdDiscard, cmdExec, Admitted
  <2>2. Answers(c)
    BY <2>1, AtOnceAnswers DEF AnswersAtOnce
  <2>3. pc'[c] = "write" /\ frame'[c].t \notin {"subscribe", "unsubscribe"}
    BY <2>2 DEF TypeInv, ServerTypeOK, Answers, Reply, At
  <2>4. ran' = ran /\ pub' = pub /\ subs' = subs
    BY <2>1, <2>2 DEF NoAuth, HandleAuth, Quit, Answers, history
  <2>5. cc'[c] = cc[c]
    BY <1>1, <2>1, ~cc'[c].Authenticated
    DEF TypeInv, ServerTypeOK, NoAuth, HandleAuth, Quit, ClientConns
  <2>. QED
    BY <1>1, <2>3, <2>4, <2>5 DEF WithoutAuth
<1>. QED
  BY <1>2, <1>3, <1>4, <1>5, <1>6, <1>7, <1>8 DEF Step, Continue

LEMMA NextIsStep ==
    ASSUME Next PROVE \E c \in Conn : Step(c)
BY Zenon DEF Next, Step

LEMMA AuthInvariance == Spec => []AuthInv
<1>1. Init => AuthInv
  <2>1. SUFFICES ASSUME Init, NEW c \in Conn, ~cc[c].Authenticated PROVE WithoutAuth(c)
    BY DEF AuthInv
  <2>2. cc[c] = NewClientConn(~site.password) /\ site.password \in BOOLEAN
    BY <2>1, ServerAssumption DEF Init, OfAll
  <2>3. (~TRUE) = FALSE /\ (~FALSE) = TRUE
    BY Zenon
  <2>4. cc[c] = NewClientConn(FALSE)
    <3>1. CASE site.password = TRUE
      BY <2>2, <2>3, <3>1, Zenon
    <3>2. CASE site.password = FALSE
      <4>1. cc[c] = NewClientConn(TRUE)
        BY <2>2, <2>3, <3>2, Zenon
      <4>2. NewClientConn(TRUE).Authenticated
        BY DEF NewClientConn
      <4>. QED
        BY <2>1, <4>1, <4>2, Zenon
    <3>. QED
      BY <2>2, <3>1, <3>2
  <2>5. \A ch \in Channel : ~IsSubscribed(subs, ch, c)
    BY <2>1 DEF Init, NoSubs, IsSubscribed, Range
  <2>. QED
    BY <2>1, <2>4, <2>5 DEF Init, WithoutAuth, OfAll, NoFrame, Fr
<1>2. TypeInv /\ AuthInv /\ [Next]_vars => AuthInv'
  <2>1. SUFFICES ASSUME TypeInv, AuthInv, [Next]_vars PROVE AuthInv'
    OBVIOUS
  <2>2. CASE UNCHANGED vars
    BY <2>1, <2>2 DEF AuthInv, WithoutAuth, vars
  <2>3. ASSUME NEW c \in Conn, Step(c), NEW d \in Conn, ~cc'[d].Authenticated
        PROVE  WithoutAuth(d)'
    <3>1. CASE d = c
      BY <2>1, <2>3, <3>1, AuthStep
    <3>2. CASE d # c
      <4>1. Kept(d) /\ \A x \in Channel : IsSubscribed(subs', x, d) <=> IsSubscribed(subs, x, d)
        BY <2>1, <2>3, <3>2, OthersKept, OthersOnLists
      <4>. QED
        BY <2>1, <2>3, <4>1 DEF Kept, AuthInv, WithoutAuth
    <3>. QED
      BY <3>1, <3>2
  <2>. QED
    BY <2>1, <2>2, <2>3, NextIsStep DEF AuthInv
<1>. QED
  BY <1>1, <1>2, TypeInvariance, PTL DEF Spec

\* Whatever a server with a password is sent, and in whatever order, a
\* connection without AUTH is on no list, has published and run nothing and has
\* no transaction (server.go handleConn).
THEOREM AuthGateHolds == Spec => []AuthGate
<1>1. AuthInv => AuthGate
  BY DEF AuthInv, WithoutAuth, AuthGate
<1>. QED
  BY <1>1, AuthInvariance, PTL

-----------------------------------------------------------------------------
(* MULTI.                                                                  *)

\* What ExecRunsAcknowledged says of the step that ends the block of c.
EndsAsAcked(c) ==
    cc[c].InMulti /\ ~cc'[c].InMulti =>
      LET before == [DB |-> acked[c].DB, ran |-> acked[c].ran]
          after  == [DB |-> cc'[c].DB, ran |-> ran'[c]]
      IN  IF frame'[c].t = "results"
          THEN /\ after = FoldLeft(Effect, before, acked[c].cmds)
               /\ frame'[c].n = Len(acked[c].cmds)
          ELSE after = before

LEMMA RunsFold ==
    ASSUME TypeInv, NEW c \in Conn, NEW ms \in Seq(Command), NEW k \in ClientConns,
           Runs(c, ms, k)
    PROVE  /\ [DB |-> cc'[c].DB, ran |-> ran'[c]]
                = FoldLeft(Effect, [DB |-> cc[c].DB, ran |-> ran[c]], ms)
           /\ cc'[c].InMulti = k.InMulti
<1> DEFINE e == FoldLeft(Effect, [DB |-> cc[c].DB, ran |-> ran[c]], ms)
<1>1. [DB |-> cc[c].DB, ran |-> ran[c]] \in Effects
  BY DEF TypeInv, ServerTypeOK, Effects
<1>2. e \in Effects
  BY <1>1, FoldEffectType
<1>3. ran' = [ran EXCEPT ![c] = e.ran] /\ cc' = [cc EXCEPT ![c] = [k EXCEPT !.DB = e.DB]]
  BY DEF Runs
<1> HIDE DEF e
<1>4. e = [DB |-> e.DB, ran |-> e.ran]
  BY <1>2 DEF Effects
<1>5. ran'[c] = e.ran /\ cc'[c] = [k EXCEPT !.DB = e.DB]
  BY <1>3 DEF TypeInv, ServerTypeOK
<1>6. cc'[c].DB = e.DB /\ cc'[c].InMulti = k.InMulti
  BY <1>5 DEF ClientConns
<1>. QED
  BY <1>4, <1>5, <1>6 DEF e

LEMMA MultiStep ==
    ASSUME TypeInv, NEW c \in Conn, QueueIsAcked(c), Step(c)
    PROVE  QueueIsAcked(c)' /\ EndsAsAcked(c)
<1>0. cc \in [Conn -> ClientConns] /\ acked \in [Conn -> Acknowledged]
  BY DEF TypeInv, ServerTypeOK, ClientConns, Acknowledged
<1>1. CASE UNCHANGED <<cc, ran, acked>>
  BY <1>1 DEF QueueIsAcked, EndsAsAcked
<1>2. ASSUME NEW m \in site.commands[c], HandleAuth(c, m)
      PROVE  QueueIsAcked(c)' /\ EndsAsAcked(c)
  <2>1. cc'[c].InMulti = cc[c].InMulti /\ cc'[c].QueuedCmds = cc[c].QueuedCmds
        /\ cc'[c].DB = cc[c].DB
    BY <1>0, <1>2 DEF HandleAuth, ClientConns
  <2>. QED
    BY <1>2, <2>1 DEF QueueIsAcked, EndsAsAcked, HandleAuth, history
<1>3. ASSUME NEW m \in site.commands[c], QueueOrDispatch(c, m)
      PROVE  QueueIsAcked(c)' /\ EndsAsAcked(c)
  <2>1. CASE m.name = "UNKNOWN" \/ m.arity = "short"
    BY <1>1, <1>3, <2>1 DEF QueueOrDispatch
  <2>2. CASE ~(m.name = "UNKNOWN" \/ m.arity = "short")
    <3>1. /\ cc' = [cc EXCEPT ![c].QueuedCmds = Append(@, m)]
          /\ acked' = [acked EXCEPT ![c].cmds = Append(@, m)]
          /\ ran' = ran
      BY <1>3, <2>2 DEF QueueOrDispatch
    <3>2. /\ cc'[c].InMulti = cc[c].InMulti /\ cc'[c].DB = cc[c].DB
          /\ cc'[c].QueuedCmds = Append(cc[c].QueuedCmds, m)
      BY <1>0, <3>1 DEF ClientConns
    <3>3. /\ acked'[c].DB = acked[c].DB /\ acked'[c].ran = acked[c].ran
          /\ acked'[c].cmds = Append(acked[c].cmds, m)
      BY <1>0, <3>1 DEF Acknowledged
    <3>. QED
      BY <3>1, <3>2, <3>3 DEF QueueIsAcked, EndsAsAcked
  <2>. QED
    BY <2>1, <2>2
<1>4. ASSUME NEW m \in site.commands[c], Dispatch(c, m)
      PROVE  QueueIsAcked(c)' /\ EndsAsAcked(c)
  <2>1. <<m>> \in Seq(Command) /\ cc[c] \in ClientConns /\ ~cc[c].InMulti
    BY <1>0, <1>4, CommandsAreTyped DEF Dispatch
  <2>2. cc'[c].InMulti = cc[c].InMulti
    BY <1>4, <2>1, RunsFold DEF Dispatch
  <2>. QED
    BY <2>1, <2>2 DEF QueueIsAcked, EndsAsAcked
<1>5. ASSUME NEW m \in site.commands[c], cmdMulti(c, m)
      PROVE  QueueIsAcked(c)' /\ EndsAsAcked(c)
  <2>1. CASE cc[c].InMulti \/ m.arity # "fits"
    BY <1>1, <1>5, <2>1 DEF cmdMulti
  <2>2. CASE ~(cc[c].InMulti \/ m.arity # "fits")
    <3>1. /\ cc' = [cc EXCEPT ![c] = [@ EXCEPT !.InMulti = TRUE, !.QueuedCmds = <<>>]]
          /\ acked' = [acked EXCEPT ![c] = Began(cc[c].DB, ran[c])]
          /\ ran' = ran
      BY <1>5, <2>2 DEF cmdMulti
    <3>2. cc'[c].QueuedCmds = <<>> /\ cc'[c].DB = cc[c].DB
      BY <1>0, <3>1 DEF ClientConns
    <3>3. acked'[c].cmds = <<>> /\ acked'[c].DB = cc[c].DB /\ acked'[c].ran = ran[c]
      BY <1>0, <3>1 DEF Began
    <3>. QED
      BY <2>2, <3>1, <3>2, <3>3 DEF QueueIsAcked, EndsAsAcked
  <2>. QED
    BY <2>1, <2>2
<1>6. ASSUME NEW m \in site.commands[c], cmdDiscard(c, m)
      PROVE  QueueIsAcked(c)' /\ EndsAsAcked(c)
  <2>1. CASE ~cc[c].InMulti \/ m.arity # "fits"
    BY <1>1, <1>6, <2>1 DEF cmdDiscard, history
  <2>2. CASE ~(~cc[c].InMulti \/ m.arity # "fits")
    <3>1. /\ cc' = [cc EXCEPT ![c] = [@ EXCEPT !.InMulti = FALSE, !.QueuedCmds = <<>>]]
          /\ Reply(c, Fr("ok", 0)) /\ ran' = ran
      BY <1>6, <2>2 DEF cmdDiscard, history
    <3>2. cc'[c].InMulti = FALSE /\ cc'[c].DB = cc[c].DB
      BY <1>0, <3>1 DEF ClientConns
    <3>3. frame'[c].t # "results"
      BY <3>1 DEF TypeInv, ServerTypeOK, Reply, Fr
    <3>4. cc[c].DB = acked[c].DB /\ ran[c] = acked[c].ran
      BY <2>2 DEF QueueIsAcked
    <3>. QED
      BY <3>1, <3>2, <3>3, <3>4 DEF QueueIsAcked, EndsAsAcked
  <2>. QED
    BY <2>1, <2>2
<1>7. ASSUME NEW m \in site.commands[c], cmdExec(c, m)
      PROVE  QueueIsAcked(c)' /\ EndsAsAcked(c)
  <2>1. CASE ~cc[c].InMulti \/ m.arity # "fits"
    BY <1>1, <1>7, <2>1 DEF cmdExec
  <2>2. CASE ~(~cc[c].InMulti \/ m.arity # "fits")
    <3> DEFINE k  == [cc[c] EXCEPT !.InMulti = FALSE, !.QueuedCmds = <<>>]
               ms == cc[c].QueuedCmds
    <3>1. k \in ClientConns /\ k.InMulti = FALSE /\ ms \in Seq(Command)
      <4>1. cc[c] \in ClientConns
        BY <1>0
      <4>2. k.InMulti = FALSE /\ ms \in Seq(Command)
        BY <4>1 DEF ClientConns
      <4>. QED
        BY <4>1, <4>2, MultiFields
    <3>2. Runs(c, ms, k) /\ Reply(c, Fr("results", Len(ms)))
      BY <1>7, <2>2 DEF cmdExec
    <3>3. ms = acked[c].cmds /\ cc[c].DB = acked[c].DB /\ ran[c] = acked[c].ran
      BY <2>2 DEF QueueIsAcked
    <3> HIDE DEF k, ms
    <3>4. /\ [DB |-> cc'[c].DB, ran |-> ran'[c]]
                = FoldLeft(Effect, [DB |-> cc[c].DB, ran |-> ran[c]], ms)
          /\ cc'[c].InMulti = k.InMulti
      BY <3>1, <3>2, RunsFold
    <3>5. frame'[c].t = "results" /\ frame'[c].n = Len(ms)
      BY <3>2 DEF TypeInv, ServerTypeOK, Reply, Fr
    <3>6. [DB |-> cc'[c].DB, ran |-> ran'[c]]
            = FoldLeft(Effect, [DB |-> acked[c].DB, ran |-> acked[c].ran], acked[c].cmds)
      BY <3>3, <3>4
    <3>7. EndsAsAcked(c)
      BY <3>3, <3>5, <3>6, Zenon DEF EndsAsAcked
    <3>8. QueueIsAcked(c)'
      BY <3>1, <3>4 DEF QueueIsAcked
    <3>. QED
      BY <3>7, <3>8
  <2>. QED
    BY <2>1, <2>2
<1>8. ASSUME NEW m \in site.commands[c],
             NoAuth(c, m) \/ Quit(c, m) \/ StartSubscribe(c, m) \/ StartUnsubscribe(c, m)
             \/ Publish(c, m)
      PROVE  UNCHANGED <<cc, ran, acked>>
  BY <1>8 DEF NoAuth, Quit, StartSubscribe, StartUnsubscribe, Publish, history
<1>9. CASE Accept(c) \/ Continue(c) \/ ClientReads(c) \/ ClientGone(c)
  <2>1. UNCHANGED <<cc, ran, acked>>
    BY <1>9 DEF Accept, Continue, SubscribeNext, UnsubscribeNext, Deliver, Write, Leave,
       ClientReads, ClientGone, history
  <2>. QED
    BY <1>1, <2>1
<1>. QED
  BY <1>1, <1>2, <1>3, <1>4, <1>5, <1>6, <1>7, <1>8, <1>9 DEF Step, Handle

LEMMA MultiNext ==
    ASSUME TypeInv, MultiInv, [Next]_vars
    PROVE  MultiInv' /\ \A c \in Conn : EndsAsAcked(c)
<1>1. CASE UNCHANGED vars
  BY <1>1 DEF MultiInv, QueueIsAcked, EndsAsAcked, vars
<1>2. ASSUME NEW c \in Conn, Step(c), NEW d \in Conn PROVE QueueIsAcked(d)' /\ EndsAsAcked(d)
  <2>1. CASE d = c
    BY <1>2, <2>1, MultiStep DEF MultiInv
  <2>2. CASE d # c
    <3>1. Kept(d)
      BY <1>2, <2>2, OthersKept
    <3>. QED
      BY <3>1 DEF Kept, MultiInv, QueueIsAcked, EndsAsAcked
  <2>. QED
    BY <2>1, <2>2
<1>. QED
  BY <1>1, <1>2, NextIsStep DEF MultiInv

\* EXEC runs exactly the commands that were answered QUEUED since MULTI, in
\* their order and on the database and the record there were then, and answers
\* as many results; DISCARD leaves both untouched, whatever the other
\* connections do (multi.go cmdExec, cmdDiscard, QueueOrDispatch).
THEOREM ExecIsAllOrNothing == Spec => ExecRunsAcknowledged
<1>1. Init => MultiInv
  BY DEF Init, MultiInv, QueueIsAcked, OfAll, NewClientConn
<1>2. TypeInv /\ MultiInv /\ [Next]_vars => MultiInv'
  BY MultiNext
<1>3. TypeInv /\ MultiInv /\ [Next]_vars => [\A c \in Conn : EndsAsAcked(c)]_vars
  BY MultiNext
<1>4. Spec => [][\A c \in Conn : EndsAsAcked(c)]_vars
  BY <1>1, <1>2, <1>3, TypeInvariance, PTL DEF Spec
<1>. QED
  BY <1>4 DEF ExecRunsAcknowledged, EndsAsAcked

-----------------------------------------------------------------------------
(* One entry for each channel.                                             *)

\* What the broker's methods leave of one entry of d.
LEMMA BrokerOneEntry ==
    ASSUME NEW b \in Subscriptions, NEW ch \in Channel, NEW c \in Conn,
           NEW d \in Conn, NEW x \in Channel, AtMostOnce(b[x], d)
    PROVE  /\ d # c \/ x # ch \/ ~IsSubscribed(b, x, d) => AtMostOnce(Subscribe(b, ch, c)[x], d)
           /\ AtMostOnce(Unsubscribe(b, ch, c)[x], d)
           /\ AtMostOnce(UnsubscribeAll(b, c)[x], d)
           /\ x = ch \/ ch = EmptyName => ~IsSubscribed(Unsubscribe(b, ch, d), x, d)
           /\ ~IsSubscribed(UnsubscribeAll(b, d), x, d)
<1>1. b[x] \in Seq(Conn) /\ b[ch] \in Seq(Conn)
  BY DEF Subscriptions
<1>2. /\ RemoveFirst(b[x], c) \in Seq(Conn) /\ AtMostOnce(RemoveFirst(b[x], c), d)
      /\ RemoveFirst(b[x], d) \in Seq(Conn) /\ ~Occurs(RemoveFirst(b[x], d), d)
  BY <1>1, RemoveFirstFacts
<1>3. d \notin Range(RemoveFirst(b[x], d))
  BY <1>2, RangeOccurs
<1>4. ASSUME d # c \/ ~IsSubscribed(b, x, d) PROVE AtMostOnce(Append(b[x], c), d)
  <2>1. Len(Append(b[x], c)) = Len(b[x]) + 1 /\ Len(b[x]) \in Nat
        /\ \A i \in 1 .. Len(b[x]) : Append(b[x], c)[i] = b[x][i]
        /\ Append(b[x], c)[Len(b[x]) + 1] = c
    BY <1>1
  <2>2. CASE d # c
    BY <2>1, <2>2 DEF AtMostOnce
  <2>3. CASE ~IsSubscribed(b, x, d)
    <3>1. ~Occurs(b[x], d)
      BY <1>1, <2>3, RangeOccurs DEF IsSubscribed
    <3>. QED
      BY <2>1, <3>1 DEF AtMostOnce, Occurs
  <2>. QED
    BY <1>4, <2>2, <2>3
<1>5. /\ Subscribe(b, ch, c)[x] = IF x = ch THEN Append(b[x], c) ELSE b[x]
      /\ UnsubscribeAll(b, c)[x] = RemoveFirst(b[x], c)
      /\ UnsubscribeAll(b, d)[x] = RemoveFirst(b[x], d)
  BY DEF Subscribe, UnsubscribeAll, removeOne, Subscriptions
<1>6. /\ Unsubscribe(b, ch, c)[x] = RemoveFirst(b[x], c) \/ Unsubscribe(b, ch, c)[x] = b[x]
      /\ x = ch \/ ch = EmptyName => Unsubscribe(b, ch, d)[x] = RemoveFirst(b[x], d)
  BY UnsubscribeIs
<1>. QED
  BY <1>2, <1>3, <1>4, <1>5, <1>6 DEF IsSubscribed

LEMMA OthersOneEntry ==
    ASSUME TypeInv, NEW c \in Conn, Step(c), NEW d \in Conn, d # c, OneEntry(d)
    PROVE  OneEntry(d)'
<1>1. subs \in Subscriptions
  BY DEF TypeInv, ServerTypeOK
<1>2. ASSUME NEW x \in Channel PROVE AtMostOnce(subs'[x], d)
  <2>0. AtMostOnce(subs[x], d)
    BY DEF OneEntry
  <2>1. CASE subs' = UnsubscribeAll(subs, c)
    BY <1>1, <2>0, <2>1, BrokerOneEntry
  <2>2. ASSUME NEW ch \in Channel,
               subs' = Subscribe(subs, ch, c) \/ subs' = Unsubscribe(subs, ch, c)
        PROVE  AtMostOnce(subs'[x], d)
    <3>1. AtMostOnce(Subscribe(subs, ch, c)[x], d) /\ AtMostOnce(Unsubscribe(subs, ch, c)[x], d)
      BY <1>1, <2>0, BrokerOneEntry
    <3>. QED
      BY <2>2, <3>1
  <2>. QED
    BY <2>0, <2>1, <2>2, ListSteps DEF ListStep
<1>3. Kept(d) /\ \A x \in Channel : IsSubscribed(subs', x, d) <=> IsSubscribed(subs, x, d)
  BY OthersKept, OthersOnLists
<1>. QED
  BY <1>2, <1>3 DEF Kept, OneEntry, Confirming, Dropping, Pending

\* The handler of c leaves its channels alone and is in no loop over them.
Elsewhere(c) == pc[c] \notin {"subscribe", "unsubscribe", "closed"} /\ ~Confirming(c) /\ ~Dropping(c)

\* Steps that leave the lists, the loops and what was confirmed as they are.
LEMMA QuietSteps ==
    ASSUME TypeInv, NEW c \in Conn,
           Accept(c) \/ Deliver(c) \/ ClientReads(c) \/ ClientGone(c)
           \/ \E m \in site.commands[c] : (Publish(c, m) /\ m.arity # "short") \/ AnswersAtOnce(c, m)
    PROVE  /\ subs' = subs /\ conf'[c] = conf[c] /\ chans'[c] = chans[c]
           /\ \/ pc'[c] = pc[c] /\ frame'[c] = frame[c]
              \/ Elsewhere(c) /\ Elsewhere(c)' /\ pc'[c] # "new"
<1>1. CASE Accept(c)
  BY <1>1 DEF TypeInv, ServerTypeOK, Accept, At, history, Elsewhere, Confirming, Dropping
<1>2. CASE Deliver(c)
  <2>1. pc'[c] \in {"deliver", "write"} /\ frame[c].t = "int"
        /\ UNCHANGED <<subs, conf, chans, frame>> /\ pc[c] = "deliver"
    BY <1>2 DEF TypeInv, ServerTypeOK, Deliver, At
  <2>. QED
    BY <2>1 DEF Elsewhere, Confirming, Dropping
<1>3. CASE ClientReads(c) \/ ClientGone(c)
  BY <1>3 DEF ClientReads, ClientGone, history
<1>4. ASSUME NEW m \in site.commands[c], Publish(c, m), m.arity # "short"
      PROVE  subs' = subs /\ conf' = conf /\ chans' = chans /\ Elsewhere(c) /\ Elsewhere(c)'
             /\ pc'[c] # "new"
  <2>1. Publishes(c, m)
    BY <1>4, PublishSends
  <2>. QED
    BY <2>1 DEF TypeInv, ServerTypeOK, Publishes, At, Elsewhere, Confirming, Dropping
<1>5. ASSUME NEW m \in site.commands[c], AnswersAtOnce(c, m)
      PROVE  subs' = subs /\ conf' = conf /\ chans' = chans /\ Elsewhere(c) /\ Elsewhere(c)'
             /\ pc'[c] # "new"
  <2>1. Answers(c)
    BY <1>5, AtOnceAnswers
  <2>2. PICK f \in Frame : f.t \in {"ok", "err", "queued", "results", "bye"} /\ Reply(c, f)
    BY <2>1 DEF Answers
  <2>3. pc[c] = "read" /\ pc'[c] = "write" /\ frame'[c] = f
    BY <2>1, <2>2 DEF TypeInv, ServerTypeOK, Answers, Reply, At
  <2>. QED
    BY <2>1, <2>2, <2>3 DEF Answers, Elsewhere, Confirming, Dropping
<1>. QED
  BY <1>1, <1>2, <1>3, <1>4, <1>5

\* What Write does for each kind of reply.
LEMMA WriteCases ==
    ASSUME TypeInv, NEW c \in Conn, Write(c)
    PROVE  /\ pc[c] = "write" /\ subs' = subs
           /\ ~Confirming(c)' /\ ~Dropping(c)' /\ pc'[c] # "closed"
           /\ Confirming(c) => /\ conf'[c] = conf[c] \cup {Head(chans[c])}
                               /\ chans'[c] = Tail(chans[c])
                               /\ pc'[c] = IF Len(chans[c]) > 1 THEN "subscribe" ELSE "read"
           /\ Dropping(c)   => /\ conf'[c] = conf[c]
                               /\ chans[c] # <<>> => chans'[c] = Tail(chans[c])
                               /\ pc'[c] = IF Len(chans[c]) > 1 THEN "unsubscribe" ELSE "read"
           /\ ~Confirming(c) /\ ~Dropping(c) =>
                /\ conf'[c] = conf[c]
                /\ pc'[c] \in {"leave", "read"}
<1>1. pc[c] = "write" /\ subs' = subs /\ Confirming(c) => chans[c] # <<>>
  BY DEF Write, TypeInv
<1>2. /\ pc'[c] = (IF frame[c].t = "bye" THEN "leave" ELSE IF Looping(c) THEN frame[c].t ELSE "read")
      /\ frame'[c] = NoFrame
      /\ chans'[c] = IF chans[c] = <<>> THEN chans[c] ELSE Tail(chans[c])
      /\ conf'[c] = IF frame[c].t = "subscribe" THEN conf[c] \cup {Head(chans[c])} ELSE conf[c]
  BY DEF TypeInv, ServerTypeOK, Write, At
<1>3. NoFrame.t = "none"
  BY DEF NoFrame, Fr
<1>. QED
  BY <1>1, <1>2, <1>3 DEF Confirming, Dropping, Looping, Write, TypeInv

LEMMA OneEntryStep ==
    ASSUME ~Resubscribe, TypeInv, NEW c \in Conn, OneEntry(c), Step(c)
    PROVE  OneEntry(c)'
<1>0. subs \in Subscriptions
  BY DEF TypeInv, ServerTypeOK
<1>1. CASE Accept(c) \/ Deliver(c) \/ ClientReads(c) \/ ClientGone(c)
           \/ \E m \in site.commands[c] : (Publish(c, m) /\ m.arity # "short") \/ AnswersAtOnce(c, m)
  <2>1. /\ subs' = subs /\ conf'[c] = conf[c] /\ chans'[c] = chans[c]
        /\ \/ pc'[c] = pc[c] /\ frame'[c] = frame[c]
           \/ Elsewhere(c) /\ Elsewhere(c)'
    BY <1>1, QuietSteps
  <2>2. CASE pc'[c] = pc[c] /\ frame'[c] = frame[c]
    BY <2>1, <2>2 DEF OneEntry, Confirming, Dropping, Pending
  <2>3. CASE Elsewhere(c) /\ Elsewhere(c)'
    BY <2>1, <2>3 DEF OneEntry, Elsewhere, Pending
  <2>. QED
    BY <2>1, <2>2, <2>3
<1>2. ASSUME NEW m \in site.commands[c], StartSubscribe(c, m) PROVE OneEntry(c)'
  <2>1. /\ pc[c] = "read" /\ pc'[c] \in {"read", "subscribe"} /\ chans'[c] = m.chs
        /\ conf' = conf /\ subs' = subs
        /\ IsInjective(m.chs) /\ Range(m.chs) \cap conf[c] = {}
    BY <1>2 DEF TypeInv, ServerTypeOK, StartSubscribe, At, Admitted, Receives, Sends, history
  <2>. QED
    BY <2>1 DEF OneEntry, Confirming, Dropping, Pending
<1>3. ASSUME NEW m \in site.commands[c], StartUnsubscribe(c, m) PROVE OneEntry(c)'
  <2>0. pc[c] = "read" /\ chans'[c] = m.chs
    BY <1>3 DEF TypeInv, ServerTypeOK, StartUnsubscribe, Admitted, Receives
  <2>1. CASE m.chs = <<>>
    <3>1. /\ subs' = UnsubscribeAll(subs, c) /\ Reply(c, Fr("unsubscribe", 0))
      BY <1>3, <2>1, Zenon DEF StartUnsubscribe
    <3>2. \A x \in Channel : AtMostOnce(subs'[x], c) /\ ~IsSubscribed(subs', x, c)
      BY <1>0, <3>1, BrokerOneEntry DEF OneEntry
    <3>3. pc'[c] = "write" /\ frame'[c].t = "unsubscribe"
      BY <3>1 DEF TypeInv, ServerTypeOK, Reply, At, Fr
    <3>. QED
      BY <3>2, <3>3 DEF OneEntry, Confirming
  <2>2. CASE m.chs # <<>>
    <3>1. /\ At(c, "unsubscribe") /\ subs' = subs
          /\ conf' = [conf EXCEPT ![c] = @ \ LeftBy(m.chs)]
      BY <1>3, <2>2, Zenon DEF StartUnsubscribe
    <3>2. pc'[c] = "unsubscribe" /\ conf'[c] = conf[c] \ LeftBy(m.chs)
      BY <3>1 DEF TypeInv, ServerTypeOK, At
    <3>. QED
      BY <2>0, <3>1, <3>2 DEF OneEntry, Confirming, Dropping, Pending
  <2>. QED
    BY <2>1, <2>2
<1>4. CASE SubscribeNext(c)
  <2> DEFINE h == Head(chans[c])
  <2>1. pc[c] = "subscribe" /\ chans[c] \in Seq(Channel) /\ h \in Channel /\ h \in Range(chans[c])
    BY <1>4, ChannelsLeft, HeadAndTail DEF SubscribeNext
  <2>2. /\ subs' = Subscribe(subs, h, c) /\ chans' = chans /\ conf' = conf
        /\ pc'[c] = "write" /\ frame'[c].t = "subscribe"
    BY <1>4 DEF TypeInv, ServerTypeOK, SubscribeNext, Reply, At, Fr, history
  <2> HIDE DEF h
  <2>3. ~IsSubscribed(subs, h, c)
    BY <2>1 DEF OneEntry, Pending, Confirming, Dropping
  <2>4. ASSUME NEW x \in Channel PROVE AtMostOnce(subs'[x], c)
    <3>1. AtMostOnce(subs[x], c) /\ (x # h \/ ~IsSubscribed(subs, x, c))
      BY <2>3 DEF OneEntry
    <3>. QED
      BY <1>0, <2>1, <2>2, <3>1, BrokerOneEntry
  <2>5. ASSUME NEW x \in Channel, x # h, IsSubscribed(subs', x, c) PROVE x \in conf'[c]
    <3>1. subs'[x] = subs[x]
      BY <1>0, <2>2, <2>5 DEF Subscribe, Subscriptions
    <3>. QED
      BY <2>1, <2>2, <2>5, <3>1 DEF OneEntry, IsSubscribed, Pending, Confirming, Dropping
  <2>6. Confirming(c)' /\ h = Head(chans'[c])
    BY <2>2 DEF Confirming, h
  <2>. QED
    BY <2>1, <2>2, <2>4, <2>5, <2>6 DEF OneEntry, Pending
<1>5. CASE UnsubscribeNext(c)
  <2> DEFINE h == Head(chans[c])
  <2>1. /\ pc[c] = "unsubscribe" /\ chans[c] # <<>> /\ h \in Channel
        /\ h # EmptyName => LeftBy(chans[c]) \subseteq {h} \cup LeftBy(Tail(chans[c]))
    BY <1>5, ChannelsLeft, LeftByFacts DEF UnsubscribeNext
  <2>2. /\ subs' = Unsubscribe(subs, h, c) /\ chans' = chans /\ conf' = conf
        /\ pc'[c] = "write" /\ frame'[c].t = "unsubscribe"
    BY <1>5 DEF TypeInv, ServerTypeOK, UnsubscribeNext, Reply, At, Fr, history
  <2> HIDE DEF h
  <2>3. ASSUME NEW x \in Channel PROVE AtMostOnce(subs'[x], c)
    BY <1>0, <2>1, <2>2, BrokerOneEntry DEF OneEntry
  <2>4. \A x \in Channel : x = h \/ h = EmptyName => ~IsSubscribed(subs', x, c)
    BY <1>0, <2>1, <2>2, BrokerOneEntry DEF OneEntry
  <2>5. ASSUME NEW x \in Channel, IsSubscribed(subs', x, c) PROVE x \in conf'[c] \/ Pending(c, x)'
    <3>1. IsSubscribed(subs, x, c) /\ x # h /\ h # EmptyName
      BY <1>0, <2>1, <2>2, <2>4, <2>5, LeavingAddsNone
    <3>2. x \in conf[c] \/ x \in LeftBy(chans[c])
      BY <2>1, <3>1 DEF OneEntry, Pending, Confirming, Dropping
    <3>3. x \in conf[c] \/ x \in LeftBy(Tail(chans[c]))
      BY <2>1, <3>1, <3>2
    <3>. QED
      BY <2>1, <2>2, <3>3 DEF Pending, Dropping
  <2>. QED
    BY <2>2, <2>3, <2>5 DEF OneEntry, Confirming
<1>6. CASE Write(c)
  <2>0. /\ pc[c] = "write" /\ subs' = subs
        /\ ~Confirming(c)' /\ ~Dropping(c)' /\ pc'[c] # "closed"
    BY <1>6, WriteCases
  <2>1. CASE Confirming(c)
    <3>1. /\ chans[c] \in Seq(Channel) /\ chans[c] # <<>>
          /\ conf'[c] = conf[c] \cup {Head(chans[c])} /\ chans'[c] = Tail(chans[c])
          /\ pc'[c] \in {"subscribe", "read"}
      BY <1>6, <2>1, WriteCases, ChannelsLeft
    <3>2. IsInjective(Tail(chans[c])) /\ Head(chans[c]) \notin Range(Tail(chans[c]))
          /\ Range(Tail(chans[c])) \subseteq Range(chans[c])
      BY <2>1, <3>1, HeadAndTail DEF OneEntry
    <3>3. IsInjective(chans'[c]) /\ Range(chans'[c]) \cap conf'[c] = {}
      BY <2>1, <3>1, <3>2 DEF OneEntry
    <3>4. ASSUME NEW x \in Channel, IsSubscribed(subs, x, c) PROVE x \in conf'[c]
      BY <2>0, <2>1, <3>1, <3>4 DEF OneEntry, Pending, Confirming, Dropping
    <3>. QED
      BY <2>0, <3>3, <3>4 DEF OneEntry
  <2>2. CASE Dropping(c)
    <3>1. /\ conf'[c] = conf[c] /\ chans[c] \in Seq(Channel)
          /\ chans[c] # <<>> => chans'[c] = Tail(chans[c])
          /\ pc'[c] = IF Len(chans[c]) > 1 THEN "unsubscribe" ELSE "read"
      BY <1>6, <2>2, WriteCases DEF TypeInv, ServerTypeOK
    <3>2. ASSUME NEW x \in Channel, IsSubscribed(subs, x, c)
          PROVE  x \in conf[c] \/ (chans[c] # <<>> /\ x \in LeftBy(Tail(chans[c])))
      BY <2>0, <2>2, <3>2 DEF OneEntry, Pending, Confirming, Dropping
    <3>3. chans[c] # <<>> /\ Len(chans[c]) <= 1 => LeftBy(Tail(chans[c])) = {}
      BY <3>1, HeadAndTail DEF LeftBy
    <3>4. Len(chans[c]) \in Nat
      BY <3>1
    <3>5. CASE Len(chans[c]) > 1
      BY <2>0, <3>1, <3>2, <3>5 DEF OneEntry, Pending
    <3>6. CASE Len(chans[c]) <= 1
      BY <2>0, <3>1, <3>2, <3>3, <3>4, <3>6 DEF OneEntry, Pending
    <3>. QED
      BY <3>4, <3>5, <3>6
  <2>3. CASE ~Confirming(c) /\ ~Dropping(c)
    <3>1. conf'[c] = conf[c] /\ pc'[c] \in {"leave", "read"}
      BY <1>6, <2>3, WriteCases
    <3>. QED
      BY <2>0, <2>3, <3>1 DEF OneEntry, Pending
  <2>. QED
    BY <2>1, <2>2, <2>3
<1>7. CASE Leave(c)
  <2>1. subs' = UnsubscribeAll(subs, c) /\ pc'[c] = "closed" /\ conf'[c] = {}
    BY <1>7 DEF TypeInv, ServerTypeOK, Leave, At
  <2>2. \A x \in Channel : AtMostOnce(subs'[x], c) /\ ~IsSubscribed(subs', x, c)
    BY <1>0, <2>1, BrokerOneEntry DEF OneEntry
  <2>. QED
    BY <2>1, <2>2 DEF OneEntry, Confirming
<1>. QED
  BY <1>1, <1>2, <1>3, <1>4, <1>5, <1>6, <1>7 DEF Step, Continue, Handle, AnswersAtOnce

LEMMA OneEntryInvariance ==
    ASSUME ~Resubscribe
    PROVE  Spec => []OneEntryInv
<1>1. Init => OneEntryInv
  <2>1. SUFFICES ASSUME Init, NEW c \in Conn PROVE OneEntry(c)
    BY DEF OneEntryInv
  <2>2. \A x \in Channel : AtMostOnce(subs[x], c) /\ ~IsSubscribed(subs, x, c)
    BY <2>1 DEF Init, NoSubs, AtMostOnce, IsSubscribed, Range
  <2>. QED
    BY <2>1, <2>2 DEF Init, OfAll, OneEntry, Confirming
<1>2. TypeInv /\ OneEntryInv /\ [Next]_vars => OneEntryInv'
  <2>1. SUFFICES ASSUME TypeInv, OneEntryInv, [Next]_vars PROVE OneEntryInv'
    OBVIOUS
  <2>2. CASE UNCHANGED vars
    BY <2>1, <2>2 DEF OneEntryInv, OneEntry, Confirming, Dropping, Pending, vars, history
  <2>3. ASSUME NEW c \in Conn, Step(c), NEW d \in Conn PROVE OneEntry(d)'
    BY <2>1, <2>3, OneEntryStep, OthersOneEntry DEF OneEntryInv
  <2>. QED
    BY <2>1, <2>2, <2>3, NextIsStep DEF OneEntryInv
<1>. QED
  BY <1>1, <1>2, TypeInvariance, PTL DEF Spec

\* If clients do not subscribe to a channel twice, the clean-up of a connection
\* leaves no entry of it behind, however its SUBSCRIBEs and UNSUBSCRIBEs were
\* cut short and whatever others did to the lists (broker.go Unsubscribe and
\* removeOne; server.go handleConn).
THEOREM ClosedConnectionsGone ==
    ASSUME ~Resubscribe
    PROVE  Spec => []ClosedIsUnsubscribed
<1>1. OneEntryInv => ClosedIsUnsubscribed
  BY DEF OneEntryInv, OneEntry, ClosedIsUnsubscribed, Pending, Confirming, Dropping
<1>. QED
  BY <1>1, OneEntryInvariance, PTL

-----------------------------------------------------------------------------
(* Delivery.                                                               *)

LEMMA ClientsDoNotReturn ==
    ASSUME TypeInv, NEW c \in Conn, Step(c), NEW d \in Conn, peer'[d]
    PROVE  peer[d]
<1>1. CASE d # c
  BY <1>1, OthersKept DEF Kept
<1>2. CASE d = c
  <2>1. CASE Leave(c)
    BY <1>2, <2>1 DEF TypeInv, ServerTypeOK, Leave
  <2>2. CASE ClientGone(c)
    BY <1>2, <2>2 DEF TypeInv, ServerTypeOK, ClientGone
  <2>3. CASE Accept(c) \/ SubscribeNext(c) \/ UnsubscribeNext(c) \/ Deliver(c) \/ Write(c)
             \/ ClientReads(c)
    BY <1>2, <2>3
    DEF Accept, SubscribeNext, UnsubscribeNext, Deliver, Write, ClientReads, history
  <2>4. ASSUME NEW m \in site.commands[c], Handle(c, m) PROVE peer' = peer
    <3>1. CASE AnswersAtOnce(c, m)
      BY <3>1, AtOnceAnswers DEF Answers
    <3>2. CASE StartSubscribe(c, m) \/ StartUnsubscribe(c, m) \/ Publish(c, m)
      BY <3>2 DEF StartSubscribe, StartUnsubscribe, Publish, history
    <3>. QED
      BY <2>4, <3>1, <3>2 DEF Handle, AnswersAtOnce
  <2>. QED
    BY <1>2, <2>1, <2>2, <2>3, <2>4 DEF Step, Continue
<1>. QED
  BY <1>1, <1>2

\* The entries c has after a method of the broker.
LEMMA BrokerEntries ==
    ASSUME NEW b \in Subscriptions, NEW ch \in Channel, NEW c \in Conn, NEW x \in Channel
    PROVE  /\ IsSubscribed(Subscribe(b, ch, c), ch, c)
           /\ IsSubscribed(b, x, c) => IsSubscribed(Subscribe(b, ch, c), x, c)
           /\ x # ch /\ ch # EmptyName =>
                (IsSubscribed(Unsubscribe(b, ch, c), x, c) <=> IsSubscribed(b, x, c))
<1>1. b[x] \in Seq(Conn) /\ b[ch] \in Seq(Conn)
  BY DEF Subscriptions
<1>2. \A d : d \in Range(Append(b[ch], c)) <=> d \in Range(b[ch]) \/ d = c
  <2>1. Len(Append(b[ch], c)) = Len(b[ch]) + 1 /\ Len(b[ch]) \in Nat
        /\ DOMAIN Append(b[ch], c) = 1 .. Len(b[ch]) + 1 /\ DOMAIN b[ch] = 1 .. Len(b[ch])
        /\ \A i \in 1 .. Len(b[ch]) : Append(b[ch], c)[i] = b[ch][i]
        /\ Append(b[ch], c)[Len(b[ch]) + 1] = c
    BY <1>1
  <2>. QED
    BY <2>1 DEF Range
<1>3. /\ Subscribe(b, ch, c)[x] = IF x = ch THEN Append(b[ch], c) ELSE b[x]
      /\ Subscribe(b, ch, c)[ch] = Append(b[ch], c)
      /\ x # ch /\ ch # EmptyName => Unsubscribe(b, ch, c)[x] = b[x]
  BY UnsubscribeIs DEF Subscribe, Subscriptions
<1>. QED
  BY <1>2, <1>3 DEF IsSubscribed

LEMMA ConfirmedStep ==
    ASSUME TypeInv, NEW c \in Conn, Confirmed(c), Step(c)
    PROVE  Confirmed(c)'
<1>0. subs \in Subscriptions /\ conf[c] \subseteq Channel
  BY DEF TypeInv, ServerTypeOK
<1>1. CASE Accept(c) \/ Deliver(c) \/ ClientReads(c) \/ ClientGone(c)
           \/ \E m \in site.commands[c] : (Publish(c, m) /\ m.arity # "short") \/ AnswersAtOnce(c, m)
  <2>1. /\ subs' = subs /\ conf'[c] = conf[c] /\ chans'[c] = chans[c]
        /\ \/ pc'[c] = pc[c] /\ frame'[c] = frame[c]
           \/ Elsewhere(c) /\ Elsewhere(c)' /\ pc'[c] # "new"
    BY <1>1, QuietSteps
  <2>2. CASE pc'[c] = pc[c] /\ frame'[c] = frame[c]
    BY <2>1, <2>2, ClientsDoNotReturn DEF Confirmed, Confirming, Dropping
  <2>3. CASE Elsewhere(c) /\ Elsewhere(c)' /\ pc'[c] # "new"
    BY <2>1, <2>3 DEF Confirmed, Elsewhere
  <2>. QED
    BY <2>1, <2>2, <2>3
<1>2. ASSUME NEW m \in site.commands[c], StartSubscribe(c, m) PROVE Confirmed(c)'
  <2>1. pc'[c] \in {"read", "subscribe"} /\ conf' = conf /\ subs' = subs
    BY <1>2 DEF TypeInv, ServerTypeOK, StartSubscribe, At, history
  <2>. QED
    BY <2>1 DEF Confirmed, Confirming, Dropping
<1>3. ASSUME NEW m \in site.commands[c], StartUnsubscribe(c, m) PROVE Confirmed(c)'
  <2>0. chans'[c] = m.chs
    BY <1>3 DEF TypeInv, ServerTypeOK, StartUnsubscribe
  <2>1. CASE m.chs = <<>>
    <3>1. Reply(c, Fr("unsubscribe", 0)) /\ conf' = [conf EXCEPT ![c] = {}]
      BY <1>3, <2>1, Zenon DEF StartUnsubscribe
    <3>2. pc'[c] = "write" /\ frame'[c].t = "unsubscribe" /\ conf'[c] = {}
      BY <3>1 DEF TypeInv, ServerTypeOK, Reply, At, Fr
    <3>. QED
      BY <3>2 DEF Confirmed, Confirming
  <2>2. CASE m.chs # <<>>
    <3>1. /\ At(c, "unsubscribe") /\ subs' = subs
          /\ conf' = [conf EXCEPT ![c] = @ \ LeftBy(m.chs)]
      BY <1>3, <2>2, Zenon DEF StartUnsubscribe
    <3>2. pc'[c] = "unsubscribe" /\ conf'[c] = conf[c] \ LeftBy(m.chs)
      BY <3>1 DEF TypeInv, ServerTypeOK, At
    <3>. QED
      BY <2>0, <3>1, <3>2 DEF Confirmed, Confirming
  <2>. QED
    BY <2>1, <2>2
<1>4. CASE SubscribeNext(c)
  <2> DEFINE h == Head(chans[c])
  <2>1. h \in Channel
    BY <1>4, ChannelsLeft DEF SubscribeNext
  <2>2. /\ subs' = Subscribe(subs, h, c) /\ chans' = chans /\ conf' = conf
        /\ pc'[c] = "write" /\ frame'[c].t = "subscribe"
    BY <1>4 DEF TypeInv, ServerTypeOK, SubscribeNext, Reply, At, Fr, history
  <2>3. h = Head(chans'[c])
    BY <2>2
  <2> HIDE DEF h
  <2>4. IsSubscribed(subs', h, c) /\ \A x \in conf[c] : IsSubscribed(subs', x, c)
    BY <1>0, <2>1, <2>2, BrokerEntries DEF Confirmed
  <2>. QED
    BY <2>2, <2>3, <2>4 DEF Confirmed, Dropping
<1>5. CASE UnsubscribeNext(c)
  <2> DEFINE h == Head(chans[c])
  <2>1. /\ pc[c] = "unsubscribe" /\ h \in Channel /\ h \in LeftBy(chans[c])
        /\ h = EmptyName => LeftBy(chans[c]) = Channel
    BY <1>5, ChannelsLeft, LeftByFacts DEF UnsubscribeNext
  <2>2. /\ subs' = Unsubscribe(subs, h, c) /\ chans' = chans /\ conf' = conf
        /\ pc'[c] = "write" /\ frame'[c].t = "unsubscribe"
    BY <1>5 DEF TypeInv, ServerTypeOK, UnsubscribeNext, Reply, At, Fr, history
  <2> HIDE DEF h
  <2>3. LeftBy(chans[c]) \cap conf[c] = {}
    BY <2>1 DEF Confirmed
  <2>4. \A x \in conf[c] : x # h /\ h # EmptyName /\ IsSubscribed(subs', x, c)
    BY <1>0, <2>1, <2>2, <2>3, BrokerEntries DEF Confirmed
  <2>. QED
    BY <2>2, <2>3, <2>4 DEF Confirmed, Confirming
<1>6. CASE Write(c)
  <2>0. /\ pc[c] = "write" /\ subs' = subs
        /\ ~Confirming(c)' /\ ~Dropping(c)' /\ pc'[c] # "closed"
    BY <1>6, WriteCases
  <2>1. CASE Confirming(c)
    <3>1. conf'[c] = conf[c] \cup {Head(chans[c])} /\ pc'[c] \in {"subscribe", "read"}
      BY <1>6, <2>1, WriteCases
    <3>. QED
      BY <2>0, <2>1, <3>1 DEF Confirmed
  <2>2. CASE Dropping(c)
    <3>1. /\ conf'[c] = conf[c] /\ chans[c] \in Seq(Channel)
          /\ chans[c] # <<>> => chans'[c] = Tail(chans[c])
          /\ pc'[c] = IF Len(chans[c]) > 1 THEN "unsubscribe" ELSE "read"
      BY <1>6, <2>2, WriteCases DEF TypeInv, ServerTypeOK
    <3>2. CASE Len(chans[c]) > 1
      <4>1. chans[c] # <<>>
        BY <3>2
      <4>2. LeftBy(Tail(chans[c])) \subseteq LeftBy(chans[c])
        BY <3>1, <4>1, LeftByFacts
      <4>. QED
        BY <2>0, <2>2, <3>1, <3>2, <4>1, <4>2 DEF Confirmed
    <3>3. CASE ~(Len(chans[c]) > 1)
      BY <2>0, <3>1, <3>3 DEF Confirmed
    <3>. QED
      BY <3>2, <3>3
  <2>3. CASE ~Confirming(c) /\ ~Dropping(c)
    <3>1. conf'[c] = conf[c] /\ pc'[c] \in {"leave", "read"}
      BY <1>6, <2>3, WriteCases
    <3>. QED
      BY <2>0, <3>1 DEF Confirmed
  <2>. QED
    BY <2>1, <2>2, <2>3
<1>7. CASE Leave(c)
  <2>1. pc'[c] = "closed" /\ conf'[c] = {} /\ peer'[c] = FALSE
    BY <1>7 DEF TypeInv, ServerTypeOK, Leave, At
  <2>. QED
    BY <2>1 DEF Confirmed, Confirming, Dropping
<1>. QED
  BY <1>1, <1>2, <1>3, <1>4, <1>5, <1>6, <1>7 DEF Step, Continue, Handle, AnswersAtOnce

LEMMA NotNewAgain ==
    ASSUME TypeInv, NEW c \in Conn, Step(c), NEW d \in Conn, pc[d] # "new"
    PROVE  pc'[d] # "new"
<1>1. CASE d # c
  BY <1>1, OthersKept DEF Kept
<1>2. CASE d = c
  <2>1. CASE Accept(c) \/ Deliver(c) \/ ClientReads(c) \/ ClientGone(c)
             \/ \E m \in site.commands[c] : (Publish(c, m) /\ m.arity # "short") \/ AnswersAtOnce(c, m)
    BY <1>2, <2>1, QuietSteps
  <2>2. CASE SubscribeNext(c) \/ UnsubscribeNext(c)
    BY <1>2, <2>2 DEF TypeInv, ServerTypeOK, SubscribeNext, UnsubscribeNext, Reply, At
  <2>3. CASE Leave(c)
    BY <1>2, <2>3 DEF TypeInv, ServerTypeOK, Leave, At
  <2>4. CASE Write(c)
    BY <1>2, <2>4 DEF TypeInv, ServerTypeOK, Write, At, Looping
  <2>5. ASSUME NEW m \in site.commands[c], StartSubscribe(c, m) PROVE pc'[c] # "new"
    BY <1>2, <2>5 DEF TypeInv, ServerTypeOK, StartSubscribe, At
  <2>6. ASSUME NEW m \in site.commands[c], StartUnsubscribe(c, m) PROVE pc'[c] # "new"
    BY <1>2, <2>6 DEF TypeInv, ServerTypeOK, StartUnsubscribe, Reply, At
  <2>. QED
    BY <1>2, <2>1, <2>2, <2>3, <2>4, <2>5, <2>6 DEF Step, Continue, Handle, AnswersAtOnce
<1>. QED
  BY <1>1, <1>2

\* Who writes to d, and when what was written is forgotten.
LEMMA LastChanges ==
    ASSUME TypeInv, NEW c \in Conn, Step(c), NEW d \in Conn, NEW p \in Conn
    PROVE  \/ last'[d][p] = last[d][p]
           \/ c = d /\ Leave(d) /\ last'[d][p] = 0 /\ peer'[d] = FALSE
           \/ c = p /\ Deliver(p)
<1>1. CASE Leave(c)
  BY <1>1 DEF TypeInv, ServerTypeOK, Leave, OfAll
<1>2. CASE Deliver(c) /\ c # p
  <2>1. last' = last \/ \E e \in Conn : last' = [last EXCEPT ![e][c] = pub[c]]
    <3>1. CASE targets[c] = <<>>
      BY <1>2, <3>1 DEF Deliver
    <3>2. CASE targets[c] # <<>>
      <4>0. targets[c] \in Seq(Conn)
        BY DEF TypeInv, ServerTypeOK
      <4>1. Head(targets[c]) \in Conn
        BY <3>2, <4>0
      <4>2. last' \in {[last EXCEPT ![Head(targets[c])][c] = pub[c]], last}
        BY <1>2, <3>2, Zenon DEF Deliver
      <4>. QED
        BY <4>1, <4>2
    <3>. QED
      BY <3>1, <3>2
  <2>2. ASSUME NEW e \in Conn, last' = [last EXCEPT ![e][c] = pub[c]]
        PROVE  last'[d][p] = last[d][p]
    BY <1>2, <2>2 DEF TypeInv, ServerTypeOK
  <2>. QED
    BY <2>1, <2>2
<1>3. CASE Accept(c) \/ SubscribeNext(c) \/ UnsubscribeNext(c) \/ Write(c)
           \/ ClientReads(c) \/ ClientGone(c)
  BY <1>3 DEF Accept, SubscribeNext, UnsubscribeNext, Write, ClientReads, ClientGone, history
<1>4. ASSUME NEW m \in site.commands[c], Handle(c, m) PROVE last' = last
  <2>1. CASE AnswersAtOnce(c, m)
    BY <2>1, AtOnceAnswers DEF Answers
  <2>2. CASE StartSubscribe(c, m) \/ StartUnsubscribe(c, m) \/ Publish(c, m)
    BY <2>2 DEF StartSubscribe, StartUnsubscribe, Publish, history
  <2>. QED
    BY <1>4, <2>1, <2>2 DEF Handle, AnswersAtOnce
<1>. QED
  BY <1>1, <1>2, <1>3, <1>4 DEF Step, Continue

\* Who has been served stays so, but for the publisher's own next step.
LEMMA ServedStays ==
    ASSUME TypeInv, NEW c \in Conn, Step(c), NEW p \in Conn, NEW d \in Conn,
           c # p \/ ~Deliver(p), pub'[p] = pub[p], Served(p, d)
    PROVE  Served(p, d)'
<1>1. peer'[d] => peer[d]
  BY ClientsDoNotReturn
<1>2. \/ last'[d][p] = last[d][p]
      \/ c = d /\ Leave(d) /\ last'[d][p] = 0 /\ peer'[d] = FALSE
  BY LastChanges
<1>. QED
  BY <1>1, <1>2 DEF Served

\* Publish aims at the entries it copies; Deliver serves the first of them.
LEMMA AimedByPublish ==
    ASSUME TypeInv, ConfirmedInv, NEW c \in Conn, NEW m \in site.commands[c],
           Publish(c, m), m.arity # "short"
    PROVE  Aimed(c)'
<1> DEFINE h == Head(m.chs)
<1>1. Publishes(c, m)
  BY PublishSends
<1>2. /\ pc' = [pc EXCEPT ![c] = "deliver"] /\ pc'[c] = "deliver"
      /\ targets'[c] = subs[h] /\ aim'[c] = {d \in Conn : h \in conf[d]}
  BY <1>1 DEF TypeInv, ServerTypeOK, Publishes, At
<1> HIDE DEF h
<1>3. ASSUME NEW d \in aim'[c] PROVE d \in Range(targets'[c]) /\ pc'[d] # "new"
  <2>1. d \in Conn /\ h \in conf[d]
    BY <1>2, <1>3
  <2>2. IsSubscribed(subs, h, d) /\ pc[d] # "new"
    BY <2>1 DEF ConfirmedInv, Confirmed
  <2>. QED
    BY <1>2, <2>1, <2>2 DEF IsSubscribed, TypeInv, ServerTypeOK
<1>. QED
  BY <1>2, <1>3 DEF Aimed

LEMMA AimedByDeliver ==
    ASSUME TypeInv, ConfirmedInv, NEW c \in Conn, Deliver(c)
    PROVE  Aimed(c)'
<1>0. pc[c] = "deliver" /\ UNCHANGED <<pub, aim, peer, frame>>
  BY DEF Deliver
<1>1. CASE targets[c] = <<>>
  <2>1. pc' = [pc EXCEPT ![c] = "write"] /\ last' = last /\ Range(targets[c]) = {}
    BY <1>1 DEF Deliver, At, Range
  <2>2. \A d \in aim[c] : d \in Conn /\ Served(c, d) /\ pc[d] # "new"
    BY <1>0, <2>1 DEF ConfirmedInv, Aimed, TypeInv, ServerTypeOK
  <2>3. \A d \in aim[c] : pc'[d] # "new"
    BY <2>1, <2>2 DEF TypeInv, ServerTypeOK
  <2>4. \A d \in aim[c] : Served(c, d)'
    BY <1>0, <2>1, <2>2 DEF Served
  <2>5. pc'[c] = "write"
    BY <2>1 DEF TypeInv, ServerTypeOK
  <2>. QED
    BY <1>0, <2>3, <2>4, <2>5 DEF Aimed
<1>2. CASE targets[c] # <<>>
  <2> DEFINE h == Head(targets[c])
  <2>1. /\ h \in Conn /\ targets[c] \in Seq(Conn)
        /\ Range(targets[c]) = {h} \cup Range(Tail(targets[c]))
    BY <1>2, HeadAndTail DEF TypeInv, ServerTypeOK
  <2>2. /\ last' = IF Writable(h) THEN [last EXCEPT ![h][c] = pub[c]] ELSE last
        /\ targets' = [targets EXCEPT ![c] = Tail(@)] /\ pc' = pc
    BY <1>2, Zenon DEF Deliver
  <2>3. targets'[c] = Tail(targets[c])
    BY <2>2 DEF TypeInv, ServerTypeOK
  <2> HIDE DEF h
  <2>4. ASSUME NEW d \in aim[c] PROVE d \in Range(targets'[c]) \/ Served(c, d)'
    <3>0. d \in Conn /\ pc[d] # "new" /\ (d \in Range(targets[c]) \/ Served(c, d))
      BY <1>0 DEF ConfirmedInv, Aimed, TypeInv, ServerTypeOK
    <3>1. CASE d = h /\ Writable(h)
      <4>1. last'[h][c] = pub[c]
        BY <2>1, <2>2, <3>1 DEF TypeInv, ServerTypeOK
      <4>. QED
        BY <1>0, <3>1, <4>1 DEF Served
    <3>2. CASE d = h /\ ~Writable(h)
      <4>1. ~peer[h]
        BY <3>0, <3>2 DEF Writable, Open, ConfirmedInv, Confirmed
      <4>. QED
        BY <1>0, <3>2, <4>1 DEF Served
    <3>3. CASE d # h
      <4>1. last'[d][c] = last[d][c]
        BY <2>1, <2>2, <3>0, <3>3 DEF TypeInv, ServerTypeOK
      <4>. QED
        BY <1>0, <2>1, <2>3, <3>0, <3>3, <4>1 DEF Served
    <3>. QED
      BY <3>1, <3>2, <3>3
  <2>. QED
    BY <1>0, <2>2, <2>4 DEF Aimed, ConfirmedInv
<1>. QED
  BY <1>1, <1>2

LEMMA AimedStep ==
    ASSUME TypeInv, ConfirmedInv, NEW c \in Conn, Step(c), NEW p \in Conn
    PROVE  Aimed(p)'
<1>0. aim[p] \subseteq Conn /\ aim \in [Conn -> SUBSET Conn] /\ Aimed(p)
  BY DEF TypeInv, ServerTypeOK, ConfirmedInv
<1>1. CASE \/ p = c /\ Deliver(c)
           \/ p = c /\ \E m \in site.commands[c] : Publish(c, m) /\ m.arity # "short"
  BY <1>1, AimedByPublish, AimedByDeliver
<1>2. CASE \/ p # c
           \/ p = c /\ (ClientReads(c) \/ ClientGone(c))
  <2>1. /\ pc'[p] = pc[p] /\ targets'[p] = targets[p] /\ frame'[p] = frame[p]
        /\ pub'[p] = pub[p] /\ aim'[p] = aim[p]
    <3>1. CASE p # c
      BY <3>1, OthersKept DEF Kept
    <3>2. CASE ClientReads(c) \/ ClientGone(c)
      BY <3>2 DEF ClientReads, ClientGone, history
    <3>. QED
      BY <1>2, <3>1, <3>2
  <2>2. c # p \/ ~Deliver(p) \/ ClientReads(c) \/ ClientGone(c)
    BY <1>2
  <2>3. \A d \in aim[p] : pc'[d] # "new"
    BY <1>0, NotNewAgain DEF Aimed
  <2>4. CASE c # p \/ ~Deliver(p)
    <3>1. \A d \in aim[p] : Served(p, d) => Served(p, d)'
      BY <1>0, <2>1, <2>4, ServedStays
    <3>. QED
      BY <1>0, <2>1, <2>3, <3>1 DEF Aimed
  <2>5. CASE c = p /\ Deliver(p)
    BY <2>5, AimedByDeliver
  <2>. QED
    BY <2>4, <2>5
<1>3. CASE \/ p = c /\ (Accept(c) \/ SubscribeNext(c) \/ UnsubscribeNext(c) \/ Write(c) \/ Leave(c))
           \/ p = c /\ \E m \in site.commands[c] : StartSubscribe(c, m) \/ StartUnsubscribe(c, m)
                                                   \/ AnswersAtOnce(c, m)
  <2>1. /\ pc'[p] # "deliver" /\ (pc'[p] = "write" => frame'[p].t # "int")
        /\ aim'[p] \subseteq aim[p]
    <3>1. CASE Accept(c)
      BY <1>3, <3>1, p = c DEF TypeInv, ServerTypeOK, Accept, At, history
    <3>2. CASE SubscribeNext(c) \/ UnsubscribeNext(c)
      BY <1>3, <3>2 DEF TypeInv, ServerTypeOK, SubscribeNext, UnsubscribeNext, Reply, At, Fr, history
    <3>3. CASE Write(c)
      BY <1>3, <3>3 DEF TypeInv, ServerTypeOK, Write, At, Looping, NoFrame, Fr
    <3>4. CASE Leave(c)
      BY <1>3, <3>4 DEF TypeInv, ServerTypeOK, Leave, At
    <3>5. ASSUME NEW m \in site.commands[c], StartSubscribe(c, m)
          PROVE  pc'[c] \in {"read", "subscribe"} /\ aim' = aim
      BY <3>5 DEF TypeInv, ServerTypeOK, StartSubscribe, At, history
    <3>6. ASSUME NEW m \in site.commands[c], StartUnsubscribe(c, m)
          PROVE  /\ pc'[c] = "unsubscribe" \/ (pc'[c] = "write" /\ frame'[c].t = "unsubscribe")
                 /\ aim' = aim
      <4>1. \/ At(c, "unsubscribe")
            \/ Reply(c, Fr("unsubscribe", 0))
        BY <3>6, Zenon DEF StartUnsubscribe
      <4>. QED
        BY <3>6, <4>1 DEF TypeInv, ServerTypeOK, StartUnsubscribe, Reply, At, Fr
    <3>7. ASSUME NEW m \in site.commands[c], AnswersAtOnce(c, m)
          PROVE  pc'[c] = "write" /\ frame'[c].t # "int" /\ aim' = aim
      <4>1. Answers(c)
        BY <3>7, AtOnceAnswers
      <4>2. PICK f \in Frame : f.t \in {"ok", "err", "queued", "results", "bye"} /\ Reply(c, f)
        BY <4>1 DEF Answers
      <4>. QED
        BY <4>1, <4>2 DEF TypeInv, ServerTypeOK, Answers, Reply, At
    <3>. QED
      BY <1>3, <3>1, <3>2, <3>3, <3>4, <3>5, <3>6, <3>7
  <2>2. \A d \in aim[p] : pc'[d] # "new"
    BY <1>0, NotNewAgain DEF Aimed
  <2>. QED
    BY <2>1, <2>2 DEF Aimed
<1>. QED
  BY <1>1, <1>2, <1>3 DEF Step, Continue, Handle, AnswersAtOnce

LEMMA ConfirmedInvariance == Spec => []ConfirmedInv
<1>1. Init => ConfirmedInv
  BY DEF Init, OfAll, ConfirmedInv, Confirmed, Aimed, Confirming, Dropping
<1>2. TypeInv /\ ConfirmedInv /\ [Next]_vars => ConfirmedInv'
  <2>1. SUFFICES ASSUME TypeInv, ConfirmedInv, [Next]_vars PROVE ConfirmedInv'
    OBVIOUS
  <2>2. CASE UNCHANGED vars
    BY <2>1, <2>2
    DEF ConfirmedInv, Confirmed, Aimed, Served, Confirming, Dropping, vars, history
  <2>3. ASSUME NEW c \in Conn, Step(c), NEW d \in Conn PROVE Confirmed(d)' /\ Aimed(d)'
    <3>1. CASE d = c
      BY <2>1, <2>3, <3>1, ConfirmedStep, AimedStep DEF ConfirmedInv
    <3>2. CASE d # c
      <4>1. Kept(d) /\ \A x \in Channel : IsSubscribed(subs', x, d) <=> IsSubscribed(subs, x, d)
        BY <2>1, <2>3, <3>2, OthersKept, OthersOnLists
      <4>2. conf[d] \subseteq Channel /\ (Confirming(d) => Head(chans[d]) \in Channel)
        BY <2>1, ChannelsLeft DEF TypeInv, ServerTypeOK
      <4>3. Confirmed(d)
        BY <2>1 DEF ConfirmedInv
      <4>4. Confirmed(d)'
        BY <4>1, <4>2, <4>3 DEF Kept, Confirmed, Confirming, Dropping
      <4>. QED
        BY <2>1, <2>3, <4>4, AimedStep
    <3>. QED
      BY <3>1, <3>2
  <2>. QED
    BY <2>1, <2>2, <2>3, NextIsStep DEF ConfirmedInv
<1>. QED
  BY <1>1, <1>2, TypeInvariance, PTL DEF Spec

\* A message reaches every client that, when it was published, had been told it
\* is subscribed and had not asked to leave (by name, without a name, or by the
\* empty name, which leaves all channels), before PUBLISH is answered, unless the
\* client is gone: however SUBSCRIBE, UNSUBSCRIBE, other publishers and
\* disconnects interleave with the delivery, and with clients that subscribe
\* twice as well (broker.go Unsubscribe, Publish, removeOne; server.go handleConn).
THEOREM ConfirmedAreServed == Spec => []ConfirmedGetsMessage
<1>1. ConfirmedInv => ConfirmedGetsMessage
  BY DEF ConfirmedInv, Aimed, Served, ConfirmedGetsMessage
<1>. QED
  BY <1>1, ConfirmedInvariance, PTL

-----------------------------------------------------------------------------
(* Order.                                                                  *)

LEMMA OrderStep ==
    ASSUME TypeInv, OneEntryInv, OrderInv, NEW c \in Conn, Step(c)
    PROVE  OrderInv'
<1>0. \A d, p \in Conn : last[d][p] \in Nat /\ pub[p] \in Nat /\ last[d][p] <= pub[p]
  BY DEF TypeInv, ServerTypeOK, OrderInv
<1>1. ASSUME NEW m \in site.commands[c], Publish(c, m), m.arity # "short" PROVE OrderInv'
  <2> DEFINE h == Head(m.chs)
  <2>0. h \in Channel
    BY <1>1, CommandsAreTyped DEF Publish
  <2>1. Publishes(c, m)
    BY <1>1, PublishSends
  <2>2. /\ last' = last /\ targets'[c] = subs[h] /\ pub'[c] = pub[c] + 1
        /\ \A p \in Conn : p # c => pub'[p] = pub[p] /\ targets'[p] = targets[p] /\ pc'[p] = pc[p]
    BY <2>1 DEF TypeInv, ServerTypeOK, Publishes, At
  <2> HIDE DEF h
  <2>3. subs[h] \in Seq(Conn) /\ \A d \in Conn : AtMostOnce(subs[h], d)
    BY <2>0 DEF TypeInv, ServerTypeOK, Subscriptions, OneEntryInv, OneEntry
  <2>4. IsInjective(subs[h]) /\ Range(subs[h]) \subseteq Conn
    <3>1. DOMAIN subs[h] = 1 .. Len(subs[h]) /\ \A i \in 1 .. Len(subs[h]) : subs[h][i] \in Conn
      BY <2>3
    <3>. QED
      BY <2>3, <3>1 DEF IsInjective, Range, AtMostOnce
  <2>5. ASSUME NEW p \in Conn
        PROVE  /\ \A d \in Conn : last'[d][p] <= pub'[p]
               /\ pc'[p] = "deliver" => IsInjective(targets'[p])
                                        /\ \A d \in Range(targets'[p]) : last'[d][p] < pub'[p]
    <3>1. CASE p = c
      BY <1>0, <2>2, <2>4, <3>1
    <3>2. CASE p # c
      BY <1>0, <2>2, <3>2 DEF OrderInv
    <3>. QED
      BY <3>1, <3>2
  <2>. QED
    BY <2>5 DEF OrderInv
<1>2. CASE Deliver(c)
  <2>0. pc[c] = "deliver" /\ pub' = pub
    BY <1>2 DEF Deliver
  <2>1. CASE targets[c] = <<>>
    <3>1. last' = last /\ targets' = targets /\ \A p \in Conn : pc'[p] = "deliver" => pc[p] = "deliver"
      BY <1>2, <2>1 DEF TypeInv, ServerTypeOK, Deliver, At
    <3>. QED
      BY <2>0, <3>1 DEF OrderInv
  <2>2. CASE targets[c] # <<>>
    <3> DEFINE h == Head(targets[c])
    <3>1. /\ h \in Conn /\ targets[c] \in Seq(Conn) /\ h \in Range(targets[c])
          /\ Range(targets[c]) = {h} \cup Range(Tail(targets[c]))
          /\ IsInjective(targets[c]) => IsInjective(Tail(targets[c])) /\ h \notin Range(Tail(targets[c]))
      BY <2>2, HeadAndTail DEF TypeInv, ServerTypeOK
    <3>2. /\ last' = [last EXCEPT ![h][c] = pub[c]] \/ last' = last
          /\ targets' = [targets EXCEPT ![c] = Tail(@)] /\ pc' = pc
      BY <1>2, <2>2, Zenon DEF Deliver
    <3> HIDE DEF h
    <3>3. /\ \A d, p \in Conn : last'[d][p] = last[d][p] \/ (d = h /\ p = c /\ last'[d][p] = pub[c])
          /\ targets'[c] = Tail(targets[c]) /\ \A p \in Conn : p # c => targets'[p] = targets[p]
      <4>1. last \in [Conn -> [Conn -> Nat]] /\ targets \in [Conn -> Seq(Conn)]
        BY DEF TypeInv, ServerTypeOK
      <4>2. ASSUME last' = [last EXCEPT ![h][c] = pub[c]], NEW d \in Conn, NEW p \in Conn
            PROVE  last'[d][p] = last[d][p] \/ (d = h /\ p = c /\ last'[d][p] = pub[c])
        BY <3>1, <4>1, <4>2
      <4>. QED
        BY <3>2, <4>1, <4>2
    <3>4. \A p \in Conn : Range(targets[p]) \subseteq Conn
      BY RangeTyped DEF TypeInv, ServerTypeOK
    <3>5. ASSUME NEW p \in Conn, pc'[p] = "deliver"
          PROVE  IsInjective(targets'[p]) /\ \A d \in Range(targets'[p]) : last'[d][p] < pub'[p]
      <4>1. CASE p = c
        BY <2>0, <3>1, <3>2, <3>3, <3>4, <3>5, <4>1 DEF OrderInv
      <4>2. CASE p # c
        BY <2>0, <3>2, <3>3, <3>4, <3>5, <4>2 DEF OrderInv
      <4>. QED
        BY <4>1, <4>2
    <3>6. \A d, p \in Conn : last'[d][p] <= pub'[p]
      BY <1>0, <2>0, <3>3
    <3>. QED
      BY <3>5, <3>6 DEF OrderInv
  <2>. QED
    BY <2>1, <2>2
<1>3. ASSUME pub' = pub, targets' = targets, ~Deliver(c),
             \A p \in Conn : pc'[p] = "deliver" => pc[p] = "deliver"
      PROVE  OrderInv'
  <2>1. ASSUME NEW d \in Conn, NEW p \in Conn
        PROVE  last'[d][p] = last[d][p] \/ last'[d][p] = 0
    <3>1. \/ last'[d][p] = last[d][p]
          \/ c = d /\ Leave(d) /\ last'[d][p] = 0 /\ peer'[d] = FALSE
          \/ c = p /\ Deliver(p)
      BY LastChanges
    <3>. QED
      BY <1>3, <3>1
  <2>2. \A p \in Conn : Range(targets[p]) \subseteq Conn
    BY RangeTyped DEF TypeInv, ServerTypeOK
  <2>. QED
    BY <1>0, <1>3, <2>1, <2>2 DEF OrderInv
<1>4. CASE \/ Accept(c) \/ SubscribeNext(c) \/ UnsubscribeNext(c) \/ Write(c) \/ Leave(c)
           \/ ClientReads(c) \/ ClientGone(c)
           \/ \E m \in site.commands[c] : StartSubscribe(c, m) \/ StartUnsubscribe(c, m)
                                          \/ AnswersAtOnce(c, m)
  <2>1. CASE \/ Accept(c) \/ SubscribeNext(c) \/ UnsubscribeNext(c) \/ Leave(c)
             \/ ClientReads(c) \/ ClientGone(c)
    <3>1. pub' = pub /\ targets' = targets
      BY <2>1 DEF Accept, SubscribeNext, UnsubscribeNext, Leave, ClientReads, ClientGone
    <3>2. pc' = pc \/ \E l \in {"read", "write", "closed"} : At(c, l)
      BY <2>1 DEF Accept, SubscribeNext, UnsubscribeNext, Leave, ClientReads, ClientGone, Reply
    <3>. QED
      BY <1>2, <1>3, <3>1, <3>2 DEF TypeInv, ServerTypeOK, At
  <2>2. CASE Write(c)
    <3>1. pub' = pub /\ targets' = targets /\ \A p \in Conn : pc'[p] = "deliver" => pc[p] = "deliver"
      BY <2>2 DEF TypeInv, ServerTypeOK, Write, At, Looping
    <3>. QED
      BY <1>2, <1>3, <3>1
  <2>3. ASSUME NEW m \in site.commands[c],
               StartSubscribe(c, m) \/ StartUnsubscribe(c, m) \/ AnswersAtOnce(c, m)
        PROVE  OrderInv'
    <3>1. pub' = pub /\ targets' = targets
      BY <2>3, AtOnceAnswers DEF StartSubscribe, StartUnsubscribe, Answers
    <3>2. \E l \in {"read", "write", "subscribe", "unsubscribe"} : At(c, l)
      BY <2>3, AtOnceAnswers DEF StartSubscribe, StartUnsubscribe, Answers, Reply
    <3>. QED
      BY <1>2, <1>3, <3>1, <3>2 DEF TypeInv, ServerTypeOK, At
  <2>. QED
    BY <1>4, <2>1, <2>2, <2>3
<1>. QED
  BY <1>1, <1>2, <1>4 DEF Step, Continue, Handle, AnswersAtOnce

\* If clients do not subscribe to a channel twice, a subscriber is never written
\* a message of a publisher that is not newer than the last one it was written
\* of that publisher (broker.go Publish).
THEOREM MessagesInOrder ==
    ASSUME ~Resubscribe
    PROVE  Spec => PublisherOrder
<1>1. Init => OrderInv
  BY DEF Init, OfAll, OrderInv
<1>2. TypeInv /\ OneEntryInv /\ OrderInv /\ [Next]_vars => OrderInv'
  <2>1. SUFFICES ASSUME TypeInv, OneEntryInv, OrderInv, [Next]_vars PROVE OrderInv'
    OBVIOUS
  <2>2. CASE UNCHANGED vars
    BY <2>1, <2>2 DEF OrderInv, vars, history
  <2>. QED
    BY <2>1, <2>2, OrderStep, NextIsStep
<1> DEFINE Newer(p) == pc[p] = "deliver" /\ Len(targets'[p]) < Len(targets[p])
                       /\ Writable(Head(targets[p])) => pub[p] > last[Head(targets[p])][p]
<1>3. TypeInv /\ TypeInv' /\ OrderInv => \A p \in Conn : Newer(p)
  <2>1. SUFFICES ASSUME TypeInv, TypeInv', OrderInv, NEW p \in Conn, pc[p] = "deliver",
                        Len(targets'[p]) < Len(targets[p])
                 PROVE  pub[p] > last[Head(targets[p])][p]
    OBVIOUS
  <2>2. targets[p] \in Seq(Conn) /\ targets'[p] \in Seq(Conn)
    BY <2>1 DEF TypeInv, ServerTypeOK
  <2>3. targets[p] # <<>>
    BY <2>1, <2>2
  <2>4. Head(targets[p]) \in Conn /\ Head(targets[p]) \in Range(targets[p])
    BY <2>2, <2>3, HeadAndTail
  <2>. QED
    BY <2>1, <2>4 DEF OrderInv, TypeInv, ServerTypeOK
<1>4. TypeInv /\ TypeInv' /\ OrderInv /\ [Next]_vars => [\A p \in Conn : Newer(p)]_vars
  BY <1>3
<1> HIDE DEF Newer
<1>5. Spec => [][\A p \in Conn : Newer(p)]_vars
  BY <1>1, <1>2, <1>4, TypeInvariance, OneEntryInvariance, PTL DEF Spec
<1>. QED
  BY <1>5 DEF PublisherOrder, Newer
=============================================================================
