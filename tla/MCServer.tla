------------------------------ MODULE MCServer ------------------------------
(***************************************************************************)
(* Small instances of Server: the commands each client sends in each run.  *)
(***************************************************************************)
EXTENDS Server

CONSTANTS c1, c2, ch1, ch2, noname

Cmd(name)         == [name |-> name, arity |-> "fits", ok |-> TRUE, db |-> 0, chs |-> <<>>]
On(name, chs)     == [Cmd(name) EXCEPT !.chs = chs]
With(name, arity) == [Cmd(name) EXCEPT !.arity = arity]
Wrong(name)       == [Cmd(name) EXCEPT !.ok = FALSE]
Select(i)         == [Cmd("SELECT") EXCEPT !.db = i]

Nothing == [c \in Conn |-> {}]
Site(password, commands, pubs) ==
    [password |-> password, commands |-> commands @@ Nothing, maxPub |-> pubs]
Once      == [c \in Conn |-> 1]
TwiceByC2 == [c \in Conn |-> IF c = c2 THEN 2 ELSE 1]

\* Two clients on two channels; c1 also leaves by the empty name.
PubSub == Site(FALSE,
    (c1 :> {On("SUBSCRIBE", <<ch1, ch2>>), On("UNSUBSCRIBE", <<>>),
            On("UNSUBSCRIBE", <<noname, ch1>>), On("PUBLISH", <<ch1>>), Cmd("QUIT")})
 @@ (c2 :> {On("SUBSCRIBE", <<ch1>>), On("SUBSCRIBE", <<>>), On("UNSUBSCRIBE", <<ch1>>),
            On("PUBLISH", <<ch1>>)}), TwiceByC2)

\* One client of a server with a password sends everything.
Session == Site(TRUE,
    c1 :> {Cmd("AUTH"), Wrong("AUTH"), With("AUTH", "short"),
           Cmd("MULTI"), Cmd("EXEC"), With("EXEC", "long"), Cmd("DISCARD"),
           Select(1), Wrong("SELECT"), Cmd("DATA"), With("DATA", "short"),
           With("DATA", "long"), Cmd("UNKNOWN"), On("SUBSCRIBE", <<ch1>>),
           On("UNSUBSCRIBE", <<>>), On("PUBLISH", <<ch1>>), With("PUBLISH", "short"),
           Cmd("QUIT")}, Once)

\* A subscriber and a publisher.
Chat == Site(FALSE, (c1 :> {On("SUBSCRIBE", <<ch1>>), Cmd("QUIT")})
                 @@ (c2 :> {On("PUBLISH", <<ch1>>)}), Once)

ServerSites == {PubSub, Session}
ChatSite    == {Chat}
=============================================================================
