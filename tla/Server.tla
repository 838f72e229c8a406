------------------------------- MODULE Server -------------------------------
(***************************************************************************)
(* internal/server/server.go: one goroutine per connection reads commands, *)
(* checks AUTH, serves the pub/sub commands itself and hands the others to *)
(* internal/commands, whose registry and MULTI state are modelled here as  *)
(* well.  What a data command does to the store is the business of Store;  *)
(* here it is recorded with the database index it runs against.            *)
(*                                                                         *)
(* Replies and published messages go to the same socket, under the mutex   *)
(* of connWriter; a write waits while the socket's buffer is full.         *)
(***************************************************************************)
EXTENDS Broker

CONSTANTS
    Sites,        \* whether requirepass is configured, and what each client does:
                  \* the commands it may send, and a bound on its PUBLISHes
    Resubscribe,  \* whether clients subscribe to channels they already have
    BufCap,       \* frames a socket holds before a write waits
    MaxQueue,     \* bound on the length of a MULTI queue
    MaxRan        \* bound on the data commands run for one connection

VARIABLES
    site,    \* one of Sites
    subs,    \* Broker.subs
    pc,      \* where handleConn of each connection is
    cc,      \* ClientConn
    chans,   \* channels a SUBSCRIBE or UNSUBSCRIBE has not come to yet
    targets, \* Publish's copy of the subscribers, those not delivered to yet
    frame,   \* the frame to write next
    out,     \* number of frames in each socket the client has not read yet
    peer,    \* whether the client is still there
    pub,     \* messages published so far
    ran,     \* history: the database index of each data command run
    acked,   \* history: the commands answered QUEUED since MULTI was answered
             \* OK, and the database and what had run at that time
    conf,    \* history: channels the client was told it is subscribed to and
             \* has not asked to leave; the name "" asks to leave all of them
    aim,     \* history: connections with the channel in conf at the PUBLISH
    last     \* history: number of the last message written, by publisher

vars == <<site, subs, pc, cc, chans, targets, frame, out, peer, pub, ran, acked, conf, aim, last>>
history == <<ran, acked, conf, aim, last>>

-----------------------------------------------------------------------------
Name    == {"AUTH", "SUBSCRIBE", "UNSUBSCRIBE", "PUBLISH", "QUIT", "MULTI", "EXEC",
            "DISCARD", "SELECT", "DATA", "UNKNOWN"}
\* A command: arity compares its arguments with MinArgs and MaxArgs of the
\* registry; ok tells a right password or a valid index from a wrong one.
Command == [name : Name, arity : {"short", "fits", "long"}, ok : BOOLEAN,
            db : Nat, chs : Seq(Channel)]

Frame == [t : {"ok", "err", "queued", "results", "int", "bye", "subscribe",
               "unsubscribe", "none"},
          n : Nat]
\* A reply, and the number it carries.
Fr(t, n) == [t |-> t, n |-> n]
NoFrame  == Fr("none", 0)

\* MULTI is answered OK.
Began(i, before) == [DB |-> i, ran |-> before, cmds |-> <<>>]

NewClientConn(auth) == [DB |-> 0, InMulti |-> FALSE, QueuedCmds |-> <<>>,
                        Authenticated |-> auth]

ASSUME ServerAssumption ==
    /\ Sites \subseteq [password : BOOLEAN, commands : [Conn -> SUBSET Command],
                        maxPub : [Conn -> Nat]]
    \* A PUBLISH that has its arguments names a channel.
    /\ \A s \in Sites, c \in Conn : \A m \in s.commands[c] :
         m.name = "PUBLISH" /\ m.arity # "short" => m.chs # <<>>
    /\ Resubscribe \in BOOLEAN
    /\ BufCap \in Nat \ {0} /\ MaxQueue \in Nat /\ MaxRan \in Nat

-----------------------------------------------------------------------------
OfAll(x) == [c \in Conn |-> x]

Open(c) == pc[c] \notin {"new", "closed"}

\* Whether a client would send m: those that do not resubscribe keep track of
\* their channels.  (Commands a lost client had sent before are commands of a
\* client that is lost a little later.)
Sends(c, m) ==
    /\ peer[c]
    /\ m.name = "SUBSCRIBE" /\ ~Resubscribe =>
         IsInjective(m.chs) /\ Range(m.chs) \cap conf[c] = {}

\* handleConn has read command m of c, and goes past the AUTH check.
Receives(c, m) == pc[c] = "read" /\ Sends(c, m)
\* Mutant of Admitted: the AUTH check is missing.
AdmittedAnyone(c, m) == Receives(c, m)

Admitted(c, m) == Receives(c, m) /\ cc[c].Authenticated

At(c, l)    == pc' = [pc EXCEPT ![c] = l]
Reply(c, f) == At(c, "write") /\ frame' = [frame EXCEPT ![c] = f]

\* Refused before the name is looked at: NOAUTH.
NoAuth(c, m) ==
    /\ Receives(c, m)
    /\ ~cc[c].Authenticated /\ m.name \notin {"AUTH", "QUIT"}
    /\ Reply(c, Fr("err", 0))
    /\ UNCHANGED <<site, subs, cc, chans, targets, out, peer, pub, history>>

\* handleAuth, also inside MULTI; with no password any AUTH succeeds.
HandleAuth(c, m) ==
    /\ Receives(c, m) /\ m.name = "AUTH"
    /\ LET granted == m.arity # "short" /\ (~site.password \/ m.ok)
       IN  /\ cc' = IF granted THEN [cc EXCEPT ![c].Authenticated = TRUE] ELSE cc
           /\ Reply(c, Fr(IF granted THEN "ok" ELSE "err", 0))
    /\ UNCHANGED <<site, subs, chans, targets, out, peer, pub, history>>

-----------------------------------------------------------------------------
(* SUBSCRIBE, UNSUBSCRIBE and PUBLISH.                                     *)

\* Mutant of StartSubscribe: the loop runs without arguments, too.
StartSubscribeEmpty(c, m) ==
    /\ Admitted(c, m) /\ m.name = "SUBSCRIBE"
    /\ At(c, "subscribe")
    /\ chans' = [chans EXCEPT ![c] = m.chs]
    /\ UNCHANGED <<site, subs, cc, targets, frame, out, peer, pub, history>>

\* The loop over the channels; without arguments SUBSCRIBE answers nothing.
StartSubscribe(c, m) ==
    /\ Admitted(c, m) /\ m.name = "SUBSCRIBE"
    /\ At(c, IF m.chs = <<>> THEN "read" ELSE "subscribe")
    /\ chans' = [chans EXCEPT ![c] = m.chs]
    /\ UNCHANGED <<site, subs, cc, targets, frame, out, peer, pub, history>>

SubscribeNext(c) ==
    /\ pc[c] = "subscribe"
    /\ subs' = Subscribe(subs, Head(chans[c]), c)
    /\ Reply(c, Fr("subscribe", countForSub(subs', c)))
    /\ UNCHANGED <<site, cc, chans, targets, out, peer, pub, history>>

\* The channels UNSUBSCRIBE asks to leave: all of them if one name is empty.
LeftBy(chs) == IF EmptyName \in Range(chs) THEN Channel ELSE Range(chs)

\* UNSUBSCRIBE without arguments leaves all channels and answers once.
StartUnsubscribe(c, m) ==
    /\ Admitted(c, m) /\ m.name = "UNSUBSCRIBE"
    /\ IF m.chs = <<>>
       THEN /\ subs' = UnsubscribeAll(subs, c)
            /\ Reply(c, Fr("unsubscribe", 0))
            /\ conf' = [conf EXCEPT ![c] = {}]
       ELSE /\ At(c, "unsubscribe")
            /\ conf' = [conf EXCEPT ![c] = @ \ LeftBy(m.chs)]
            /\ UNCHANGED <<subs, frame>>
    /\ chans' = [chans EXCEPT ![c] = m.chs]
    /\ UNCHANGED <<site, cc, targets, out, peer, pub, ran, acked, aim, last>>

UnsubscribeNext(c) ==
    /\ pc[c] = "unsubscribe"
    /\ subs' = Unsubscribe(subs, Head(chans[c]), c)
    /\ Reply(c, Fr("unsubscribe", unsubscribeCount(subs', Head(chans[c]), c)))
    /\ UNCHANGED <<site, cc, chans, targets, out, peer, pub, history>>

\* Publish copies the subscriber list under the read lock, then lets it go.
Publish(c, m) ==
    /\ Admitted(c, m) /\ m.name = "PUBLISH"
    /\ IF m.arity = "short"
       THEN /\ Reply(c, Fr("err", 0))
            /\ UNCHANGED <<targets, pub, aim>>
       ELSE /\ pub[c] < site.maxPub[c]
            /\ At(c, "deliver")
            /\ targets' = [targets EXCEPT ![c] = subs[Head(m.chs)]]
            /\ frame' = [frame EXCEPT ![c] = Fr("int", Len(subs[Head(m.chs)]))]
            /\ pub' = [pub EXCEPT ![c] = @ + 1]
            /\ aim' = [aim EXCEPT ![c] = {d \in Conn : Head(m.chs) \in conf[d]}]
    /\ UNCHANGED <<site, subs, cc, chans, out, peer, ran, acked, conf, last>>

\* connWriter.Write to the socket of d: waits while the buffer is full; an
\* error, because the connection is closed on either side, is dropped.
\* Mutant of Writable: writes to a client that is gone wait for room as well.
WritableAlways(d) == Open(d)

Writable(d) == Open(d) /\ peer[d]
WriteTo(d)  == /\ Writable(d) => out[d] < BufCap
               /\ out' = IF Writable(d) THEN [out EXCEPT ![d] = @ + 1] ELSE out

\* The delivery loop of Publish; then PUBLISH answers the number of entries.
Deliver(c) ==
    /\ pc[c] = "deliver"
    /\ IF targets[c] = <<>>
       THEN At(c, "write") /\ UNCHANGED <<targets, out, last>>
       ELSE LET d == Head(targets[c]) IN
            /\ WriteTo(d)
            /\ last' = IF Writable(d) THEN [last EXCEPT ![d][c] = pub[c]] ELSE last
            /\ targets' = [targets EXCEPT ![c] = Tail(@)]
            /\ UNCHANGED pc
    /\ UNCHANGED <<site, subs, cc, chans, frame, peer, pub, ran, acked, conf, aim>>

-----------------------------------------------------------------------------
(* internal/commands: QueueOrDispatch, Dispatch and the commands on cc.    *)

\* Commands Dispatch looks up, but for MULTI, EXEC, DISCARD and QUIT.
Plain(m) == m.name \in {"SELECT", "DATA", "UNKNOWN"}

\* Dispatch of one of them: unknown names and wrong arities are refused, SELECT
\* takes a valid index only.
Accepts(m) == m.arity = "fits" /\ m.name # "UNKNOWN" /\ (m.name = "SELECT" => m.ok)

\* Its effect; e holds ClientConn.DB and what ran.
Effect(e, m) == IF ~Accepts(m) THEN e
                ELSE IF m.name = "SELECT" THEN [e EXCEPT !.DB = m.db]
                ELSE [e EXCEPT !.ran = Append(@, e.DB)]

\* The handler of c dispatches ms one after the other and goes on with k, whose
\* DB field is what they leave.
Runs(c, ms, k) ==
    LET e == FoldLeft(Effect, [DB |-> cc[c].DB, ran |-> ran[c]], ms)
    IN  /\ Len(e.ran) <= MaxRan
        /\ ran' = [ran EXCEPT ![c] = e.ran]
        /\ cc' = [cc EXCEPT ![c] = [k EXCEPT !.DB = e.DB]]

Dispatch(c, m) ==
    /\ Admitted(c, m)
    /\ Plain(m) /\ ~cc[c].InMulti
    /\ Runs(c, <<m>>, cc[c])
    /\ Reply(c, Fr(IF Accepts(m) THEN "ok" ELSE "err", 0))
    /\ UNCHANGED <<site, subs, chans, targets, out, peer, pub, acked, conf, aim, last>>

\* Mutant of QueueOrDispatch: SELECT takes effect at once.
QueueNoSelect(c, m) ==
    /\ Admitted(c, m)
    /\ Plain(m) /\ cc[c].InMulti
    /\ cc' = IF m.name = "SELECT" THEN [cc EXCEPT ![c].DB = m.db] ELSE cc
    /\ Reply(c, Fr("queued", 0))
    /\ UNCHANGED <<site, subs, chans, targets, out, peer, pub, history>>

\* In MULTI a command is queued if it is registered and has enough arguments.
QueueOrDispatch(c, m) ==
    /\ Admitted(c, m)
    /\ Plain(m) /\ cc[c].InMulti
    /\ IF m.name = "UNKNOWN" \/ m.arity = "short"
       THEN /\ Reply(c, Fr("err", 0))
            /\ UNCHANGED <<cc, acked>>
       ELSE /\ Len(cc[c].QueuedCmds) < MaxQueue
            /\ cc' = [cc EXCEPT ![c].QueuedCmds = Append(@, m)]
            /\ acked' = [acked EXCEPT ![c].cmds = Append(@, m)]
            /\ Reply(c, Fr("queued", 0))
    /\ UNCHANGED <<site, subs, chans, targets, out, peer, pub, ran, conf, aim, last>>

cmdMulti(c, m) ==
    /\ Admitted(c, m) /\ m.name = "MULTI"
    /\ IF cc[c].InMulti \/ m.arity # "fits"
       THEN /\ Reply(c, Fr("err", 0))
            /\ UNCHANGED <<cc, acked>>
       ELSE /\ cc' = [cc EXCEPT ![c] = [@ EXCEPT !.InMulti = TRUE, !.QueuedCmds = <<>>]]
            /\ acked' = [acked EXCEPT ![c] = Began(cc[c].DB, ran[c])]
            /\ Reply(c, Fr("ok", 0))
    /\ UNCHANGED <<site, subs, chans, targets, out, peer, pub, ran, conf, aim, last>>

cmdDiscard(c, m) ==
    /\ Admitted(c, m) /\ m.name = "DISCARD"
    /\ IF ~cc[c].InMulti \/ m.arity # "fits"
       THEN /\ Reply(c, Fr("err", 0))
            /\ UNCHANGED cc
       ELSE /\ cc' = [cc EXCEPT ![c] = [@ EXCEPT !.InMulti = FALSE, !.QueuedCmds = <<>>]]
            /\ Reply(c, Fr("ok", 0))
    /\ UNCHANGED <<site, subs, chans, targets, out, peer, pub, history>>

cmdExec(c, m) ==
    /\ Admitted(c, m) /\ m.name = "EXEC"
    /\ IF ~cc[c].InMulti \/ m.arity # "fits"
       THEN /\ Reply(c, Fr("err", 0))
            /\ UNCHANGED <<cc, ran>>
       ELSE /\ Runs(c, cc[c].QueuedCmds,
                    [cc[c] EXCEPT !.InMulti = FALSE, !.QueuedCmds = <<>>])
            /\ Reply(c, Fr("results", Len(cc[c].QueuedCmds)))
    /\ UNCHANGED <<site, subs, chans, targets, out, peer, pub, acked, conf, aim, last>>

\* QUIT needs no AUTH; the handler answers and leaves whatever the arity.
Quit(c, m) ==
    /\ Receives(c, m) /\ m.name = "QUIT"
    /\ Reply(c, Fr("bye", 0))
    /\ UNCHANGED <<site, subs, cc, chans, targets, out, peer, pub, history>>

-----------------------------------------------------------------------------
\* The reply is written; the handler goes on with its loop over the channels,
\* reads the next command, or leaves.
Looping(c) == frame[c].t \in {"subscribe", "unsubscribe"} /\ Len(chans[c]) > 1

Write(c) ==
    /\ pc[c] = "write"
    /\ WriteTo(c)
    /\ frame' = [frame EXCEPT ![c] = NoFrame]
    /\ aim' = [aim EXCEPT ![c] = {}]
    /\ At(c, IF frame[c].t = "bye" THEN "leave"
             ELSE IF Looping(c) THEN frame[c].t ELSE "read")
    /\ chans' = [chans EXCEPT ![c] = IF @ = <<>> THEN @ ELSE Tail(@)]
    /\ conf' = IF frame[c].t = "subscribe" THEN [conf EXCEPT ![c] = @ \cup {Head(chans[c])}]
               ELSE conf
    /\ UNCHANGED <<site, subs, cc, targets, peer, pub, ran, acked, last>>

\* Mutant of Leave: QUIT returns without the clean-up.
LeaveSubscribed(c) ==
    /\ pc[c] = "leave" \/ (pc[c] = "read" /\ ~peer[c])
    /\ subs' = IF pc[c] = "leave" THEN subs ELSE UnsubscribeAll(subs, c)
    /\ At(c, "closed")
    /\ out' = [out EXCEPT ![c] = 0]        /\ peer' = [peer EXCEPT ![c] = FALSE]
    /\ conf' = [conf EXCEPT ![c] = {}]     /\ last' = [last EXCEPT ![c] = OfAll(0)]
    /\ UNCHANGED <<site, cc, chans, targets, frame, pub, ran, acked, aim>>

\* handleConn returns after QUIT, or when reading from a lost client fails: it
\* leaves all channels, and the deferred Close closes the connection.  Nobody
\* asks any more what its client still reads.
Leave(c) ==
    /\ pc[c] = "leave" \/ (pc[c] = "read" /\ ~peer[c])
    /\ subs' = UnsubscribeAll(subs, c)
    /\ At(c, "closed")
    /\ out' = [out EXCEPT ![c] = 0]        /\ peer' = [peer EXCEPT ![c] = FALSE]
    /\ conf' = [conf EXCEPT ![c] = {}]     /\ last' = [last EXCEPT ![c] = OfAll(0)]
    /\ UNCHANGED <<site, cc, chans, targets, frame, pub, ran, acked, aim>>

\* serve accepts the connection of a client that has something to send.
Accept(c) ==
    /\ pc[c] = "new" /\ site.commands[c] # {}
    /\ At(c, "read")
    /\ UNCHANGED <<site, subs, cc, chans, targets, frame, out, peer, pub, history>>

\* The client takes a frame from its socket.
ClientReads(c) ==
    /\ peer[c] /\ out[c] > 0
    /\ out' = [out EXCEPT ![c] = @ - 1]
    /\ UNCHANGED <<site, subs, pc, cc, chans, targets, frame, peer, pub, history>>

\* The client goes away, at any time.
ClientGone(c) ==
    /\ Open(c) /\ peer[c]
    /\ peer' = [peer EXCEPT ![c] = FALSE]
    /\ out' = [out EXCEPT ![c] = 0]
    /\ UNCHANGED <<site, subs, pc, cc, chans, targets, frame, pub, history>>

-----------------------------------------------------------------------------
Init == /\ site \in Sites
        /\ subs = NoSubs
        /\ pc = OfAll("new")      /\ cc = OfAll(NewClientConn(~site.password))
        /\ chans = OfAll(<<>>)    /\ targets = OfAll(<<>>)
        /\ frame = OfAll(NoFrame)
        /\ out = OfAll(0)         /\ peer = OfAll(TRUE)   /\ pub = OfAll(0)
        /\ ran = OfAll(<<>>)      /\ acked = OfAll(Began(0, <<>>))
        /\ conf = OfAll({})       /\ aim = OfAll({})      /\ last = OfAll(OfAll(0))

\* What the handler of c does with a command, and what it does by itself.
Handle(c, m) == \/ NoAuth(c, m) \/ HandleAuth(c, m)
                \/ StartSubscribe(c, m) \/ StartUnsubscribe(c, m) \/ Publish(c, m)
                \/ QueueOrDispatch(c, m) \/ Dispatch(c, m)
                \/ cmdMulti(c, m) \/ cmdDiscard(c, m) \/ cmdExec(c, m) \/ Quit(c, m)
Continue(c) == SubscribeNext(c) \/ UnsubscribeNext(c) \/ Deliver(c) \/ Write(c) \/ Leave(c)

Next == \E c \in Conn : \/ Accept(c) \/ Continue(c) \/ ClientReads(c) \/ ClientGone(c)
                        \/ \E m \in site.commands[c] : Handle(c, m)

Spec == Init /\ [][Next]_vars

\* Handlers go on.  A handler that waits for the lock of a connWriter gets it in
\* the end (sync.Mutex serves waiters in turn once they have waited), and so
\* gets a free place in the buffer if there is one again and again.
ServerFairness == \A c \in Conn : SF_vars(Continue(c))
\* Clients that keep reading from their sockets.
ClientFairness == \A c \in Conn : WF_vars(ClientReads(c))

FairSpec    == Spec /\ ServerFairness
ReadingSpec == FairSpec /\ ClientFairness

-----------------------------------------------------------------------------
ServerTypeOK ==
    /\ subs \in Subscriptions
    /\ pc \in [Conn -> {"new", "read", "subscribe", "unsubscribe", "deliver", "write",
                         "leave", "closed"}]
    /\ cc \in [Conn -> [DB : Nat, InMulti : BOOLEAN, QueuedCmds : Seq(Command),
                        Authenticated : BOOLEAN]]
    /\ chans \in [Conn -> Seq(Channel)] /\ targets \in [Conn -> Seq(Conn)]
    /\ frame \in [Conn -> Frame]        /\ out \in [Conn -> 0 .. BufCap]
    /\ peer \in [Conn -> BOOLEAN]       /\ pub \in [Conn -> Nat]
    /\ ran \in [Conn -> Seq(Nat)]
    /\ acked \in [Conn -> [DB : Nat, ran : Seq(Nat), cmds : Seq(Command)]]
    /\ conf \in [Conn -> SUBSET Channel] /\ aim \in [Conn -> SUBSET Conn]
    /\ last \in [Conn -> [Conn -> Nat]]
    /\ \A c \in Conn : pc[c] \in {"subscribe", "unsubscribe"} => chans[c] # <<>>

(***************************************************************************)
(* A connection whose handler has returned has no entry in the broker       *)
(* (broker.go Unsubscribe: 'If channel is "", removes sub from all          *)
(* channels'), so that publishers do not go on writing to it.               *)
(***************************************************************************)
ClosedIsUnsubscribed ==
    \A c \in Conn, ch \in Channel : pc[c] = "closed" => ~IsSubscribed(subs, ch, c)

(***************************************************************************)
(* A client that was told it is subscribed and had not asked to leave when  *)
(* a message was published has been sent it by the time PUBLISH is          *)
(* answered, unless it is gone, whatever other connections have done to the *)
(* subscriber lists (broker.go Publish, removeOne; server.go SUBSCRIBE).    *)
(* UNSUBSCRIBE of the empty name counts as asking to leave every channel,   *)
(* as broker.go Unsubscribe takes it, although its reply names "" only.     *)
(***************************************************************************)
ConfirmedGetsMessage ==
    \A p \in Conn : pc[p] = "write" /\ frame[p].t = "int" =>
        \A c \in aim[p] : last[c][p] = pub[p] \/ ~peer[c]

(***************************************************************************)
(* A subscriber gets the messages of one publisher in the order they were   *)
(* published, none of them twice (broker.go Publish delivers before it      *)
(* returns).                                                                *)
(***************************************************************************)
PublisherOrder ==
    [][\A p \in Conn :
         pc[p] = "deliver" /\ Len(targets'[p]) < Len(targets[p])
         /\ Writable(Head(targets[p])) => pub[p] > last[Head(targets[p])][p]]_vars

(***************************************************************************)
(* With a password configured a connection that has not given it has no     *)
(* effect: it is in no subscriber list, publishes nothing, runs nothing and *)
(* has no transaction (server.go handleConn, PRD.md "all connections must   *)
(* issue AUTH before any other command").                                   *)
(***************************************************************************)
AuthGate ==
    \A c \in Conn : ~cc[c].Authenticated =>
        /\ pub[c] = 0 /\ ran[c] = <<>> /\ cc[c] = NewClientConn(FALSE)
        /\ \A ch \in Channel : ~IsSubscribed(subs, ch, c)

(***************************************************************************)
(* A MULTI block is all or nothing on its connection: EXEC leaves what the  *)
(* commands answered QUEUED since MULTI make, all of them and in that       *)
(* order, of the database index and of what had run when MULTI was          *)
(* answered, with one result for each; DISCARD leaves what there was then,  *)
(* whatever was queued, refused or repeated in between (multi.go cmdExec,   *)
(* cmdDiscard, QueueOrDispatch).                                            *)
(***************************************************************************)
ExecRunsAcknowledged ==
    [][\A c \in Conn : cc[c].InMulti /\ ~cc'[c].InMulti =>
         LET before == [DB |-> acked[c].DB, ran |-> acked[c].ran]
             after  == [DB |-> cc'[c].DB, ran |-> ran'[c]]
         IN  IF frame'[c].t = "results"
             THEN /\ after = FoldLeft(Effect, before, acked[c].cmds)
                  /\ frame'[c].n = Len(acked[c].cmds)
             ELSE after = before]_vars

(***************************************************************************)
(* PUBLISH returns: no subscriber holds a publisher up for ever (broker.go  *)
(* Subscriber: Deliver "must not block indefinitely").                      *)
(***************************************************************************)
PublishReturns == \A c \in Conn : pc[c] = "deliver" ~> pc[c] # "deliver"
=============================================================================
