----------------------------- MODULE RespStream -----------------------------
(***************************************************************************)
(* internal/resp/resp.go, the Reader: it takes values from a stream that   *)
(* arrives in pieces of any size and may end anywhere.  The same Reader    *)
(* serves the commands of a client and, in clients, the replies.           *)
(*                                                                         *)
(* The recursion of readValue through readArray is the stack of arrays     *)
(* begun; a read waits in the bufio.Reader until the bytes it needs are    *)
(* there, and gets an error when they never will be.                       *)
(***************************************************************************)
EXTENDS RespCodec

CONSTANTS
    Items,    \* what a peer may send for a value
    Scripts   \* what a peer may send: sequences of items

\* An item is the bytes sent, the value they stand for, the items of its elements,
\* and whether the bytes are malformed, so that the Reader has to refuse them.
Values(xs) == [i \in DOMAIN xs |-> xs[i].val]
Bytes(xs)  == FlattenSeq([i \in DOMAIN xs |-> xs[i].bytes])

\* A value without elements as writeValue writes it; a line has no LF within.
WrittenLeaf(x) ==
    /\ x.parts = <<>> /\ x.bad = FALSE /\ x.bytes = writeValue(x.val, <<>>)
    /\ \/ x.val.str \in Seq(Byte \ {LF}) /\ x.val \in {SimpleString(x.val.str), Error(x.val.str)}
       \/ x.val.integer \in Int /\ x.val = Integer(x.val.integer)
       \/ x.val.str \in Seq(Byte) /\ x.val = BulkString(x.val.str)
       \/ x.val \in {NullBulkString, NullArray}

\* An array, some of whose elements may be malformed.
WrittenArray(x) ==
    /\ x.parts \in Seq(Items) /\ x.val = Array(Values(x.parts))
    /\ x.bytes = writeValue(x.val, [i \in DOMAIN x.parts |-> x.parts[i].bytes])
    /\ x.bad = (\E i \in DOMAIN x.parts : x.parts[i].bad)

\* A command typed by hand.
Inline(x) ==
    LET l == Content(x.bytes)
        p == splitInline(l)
    IN  /\ x.parts = <<>> /\ x.bad = FALSE
        /\ x.bytes = l \o CRLF /\ l \in Seq(Byte \ {LF})
        /\ l # <<>> => l[1] \notin TypeByte
        /\ x.val = Array([i \in DOMAIN p |-> BulkString(p[i])])

\* A line without its CR, one without a number where there has to be one, and a
\* bulk string that is not followed by CRLF.
Malformed(x) ==
    LET h == LineOf(x.bytes)
        l == IF h[1] \in TypeByte THEN Tail(h) ELSE h
        n == Atoi(Content(l))
    IN  /\ x.parts = <<>> /\ x.bad = TRUE
        /\ HasLine(x.bytes)
        /\ \/ x.bytes = h /\ ~EndsCRLF(l)
           \/ /\ x.bytes = h /\ EndsCRLF(l)
              /\ h[1] \in {":", "$", "*"} /\ ~IsNumeral(Content(l))
           \/ /\ h[1] = "$" /\ EndsCRLF(l) /\ IsNumeral(Content(l)) /\ n \in Nat
              /\ Len(x.bytes) = Len(h) + n + 2
              /\ SubSeq(x.bytes, Len(h) + n + 1, Len(h) + n + 2) # CRLF

ASSUME ItemsAssumption ==
    \A x \in Items :
      /\ x.bytes \in Seq(Byte)
      /\ WrittenLeaf(x) \/ WrittenArray(x) \/ Inline(x) \/ Malformed(x)
ASSUME ScriptsAssumption == Scripts \subseteq Seq(Items)

VARIABLES
    script,  \* what this peer sends
    wire,    \* bytes that have not arrived yet
    buf,     \* bytes in the bufio.Reader
    stack,   \* arrays begun: how many elements, and the ones read
    need,    \* bytes of the bulk string begun, or -1
    got,     \* values ReadValue has returned
    st,      \* "open", or the error of the last ReadValue: "eof" or "error"
    gone     \* whether the peer has left before all was sent

streamVars == <<script, wire, buf, stack, need, got, st, gone>>

-----------------------------------------------------------------------------
\* Value v is complete: an element of the innermost array of those begun, or what
\* ReadValue returns.
Deliver(begun, v) ==
    IF begun = <<>> THEN stack' = <<>> /\ got' = Append(got, v)
    ELSE /\ stack' = [begun EXCEPT ![Len(begun)].elems = Append(@, v)]
         /\ got' = got

\* Mutant of Completes: every ReadValue has a bufio.Reader of its own.
CompletesAlone(v, rest) ==
    /\ Deliver(stack, v)
    /\ buf' = IF stack = <<>> THEN <<>> ELSE rest
    /\ need' = -1
    /\ UNCHANGED <<script, wire, st, gone>>

\* v is complete, and rest is left in the buffer.
Completes(v, rest) ==
    /\ Deliver(stack, v) /\ buf' = rest /\ need' = -1
    /\ UNCHANGED <<script, wire, st, gone>>

Fails(e) == st' = e /\ UNCHANGED <<script, wire, buf, stack, need, got, gone>>

\* The innermost array has all its elements.
Full == stack # <<>> /\ Len(Last(stack).elems) = Last(stack).n

\* A read of readLine that will be answered: the type byte and its line, or the
\* line of an inline command.
AtLine == st = "open" /\ need = -1 /\ ~Full /\ HasLine(buf)
Typed  == AtLine /\ Head(buf) \in TypeByte
Rest   == SubSeq(buf, Len(LineOf(buf)) + 1, Len(buf))
Sound  == EndsCRLF(Tail(LineOf(buf)))
Text   == Content(Tail(LineOf(buf)))

ReadString ==
    /\ Typed /\ Head(buf) \in {"+", "-"} /\ Sound
    /\ Completes(IF Head(buf) = "+" THEN SimpleString(Text) ELSE Error(Text), Rest)

ReadInteger ==
    /\ Typed /\ Head(buf) = ":" /\ Sound /\ IsNumeral(Text)
    /\ Completes(Integer(Atoi(Text)), Rest)

readBulkString ==
    /\ Typed /\ Head(buf) = "$" /\ Sound /\ IsNumeral(Text)
    /\ IF Atoi(Text) < 0 THEN Completes(NullBulkString, Rest)
       ELSE /\ need' = Atoi(Text) /\ buf' = Rest
            /\ UNCHANGED <<script, wire, stack, got, st, gone>>

\* Mutant of readArray: a null array is begun like any other.
readArrayNull ==
    /\ Typed /\ Head(buf) = "*" /\ Sound /\ IsNumeral(Text)
    /\ stack' = Append(stack, [n |-> Atoi(Text), elems |-> <<>>]) /\ buf' = Rest
    /\ UNCHANGED <<script, wire, need, got, st, gone>>

readArray ==
    /\ Typed /\ Head(buf) = "*" /\ Sound /\ IsNumeral(Text)
    /\ IF Atoi(Text) < 0 THEN Completes(NullArray, Rest)
       ELSE /\ stack' = Append(stack, [n |-> Atoi(Text), elems |-> <<>>]) /\ buf' = Rest
            /\ UNCHANGED <<script, wire, need, got, st, gone>>

\* The loop of readArray ends, also one over no elements.
ReturnArray ==
    /\ st = "open" /\ Full
    /\ Deliver(Front(stack), Array(Last(stack).elems))
    /\ UNCHANGED <<script, wire, buf, need, st, gone>>

\* A line that is cut wrong, or holds no number where one is needed.
BadLine == /\ Typed
           /\ ~Sound \/ (Head(buf) \in {":", "$", "*"} /\ ~IsNumeral(Text))
           /\ Fails("error")

readInline ==
    /\ AtLine /\ ~Typed
    /\ LET l == LineOf(buf)
           p == splitInline(Content(l))
       IN  IF EndsCRLF(l) THEN Completes(Array([i \in DOMAIN p |-> BulkString(p[i])]), Rest)
           ELSE Fails("error")

\* Mutants of ReadBody: the body is taken as a line, a short read is taken for
\* all of it, one more byte is waited for.
ReadBodyLine == /\ st = "open" /\ need >= 0 /\ HasLine(buf)
                /\ Completes(BulkString(Content(LineOf(buf))), Rest)
ReadBodyShort == /\ st = "open" /\ need >= 0 /\ buf # <<>>
                 /\ LET n == IF Len(buf) < need + 2 THEN Len(buf) ELSE need + 2
                    IN  Completes(BulkString(SubSeq(buf, 1, IF n < need THEN n ELSE need)),
                                  SubSeq(buf, n + 1, Len(buf)))
ReadBodyAhead == /\ st = "open" /\ need >= 0 /\ Len(buf) > need + 2
                 /\ Completes(BulkString(SubSeq(buf, 1, need)),
                              SubSeq(buf, need + 3, Len(buf)))

\* The body of a bulk string: io.ReadFull of its bytes and CRLF.
ReadBody ==
    /\ st = "open" /\ need >= 0 /\ Len(buf) >= need + 2
    /\ IF SubSeq(buf, need + 1, need + 2) = CRLF
       THEN Completes(BulkString(SubSeq(buf, 1, need)), SubSeq(buf, need + 3, Len(buf)))
       ELSE Fails("error")

\* The stream has ended and the read that waits gets what the bufio.Reader has.
EndOfStream ==
    /\ st = "open" /\ wire = <<>> /\ ~Full
    /\ IF need >= 0
       THEN Len(buf) < need + 2 /\ Fails(IF buf = <<>> THEN "eof" ELSE "error")
       ELSE ~HasLine(buf) /\ Fails("eof")

-----------------------------------------------------------------------------
\* Some bytes arrive.
Arrive == /\ wire # <<>> /\ st = "open"
          /\ \E k \in 1 .. Len(wire) :
               /\ buf' = buf \o SubSeq(wire, 1, k)
               /\ wire' = SubSeq(wire, k + 1, Len(wire))
          /\ UNCHANGED <<script, stack, need, got, st, gone>>

\* The peer goes away: what has not arrived never will.
PeerGone == /\ wire # <<>> /\ st = "open"
            /\ wire' = <<>> /\ gone' = TRUE
            /\ UNCHANGED <<script, buf, stack, need, got, st>>

StreamInit == /\ script \in Scripts /\ wire = Bytes(script)
              /\ buf = <<>> /\ stack = <<>> /\ need = -1 /\ got = <<>>
              /\ st = "open" /\ gone = FALSE

ReadValue == \/ ReadString \/ ReadInteger \/ readBulkString \/ readArray \/ ReturnArray
             \/ BadLine \/ readInline \/ ReadBody \/ EndOfStream

\* After an error handleConn reads no more.
StreamNext == ReadValue \/ Arrive \/ PeerGone

\* TCP delivers what was sent and the goroutine of the connection runs: as long as
\* bytes are under way or a read can be answered, one of the two happens.
StreamSpec == StreamInit /\ [][StreamNext]_streamVars /\ WF_streamVars(Arrive \/ ReadValue)

-----------------------------------------------------------------------------
\* What is there for the Reader: the script up to its first malformed item.
Sent == LET bad == {i \in DOMAIN script : script[i].bad}
        IN  Values(SubSeq(script, 1, IF bad = {} THEN Len(script) ELSE Min(bad) - 1))

\* handleConn dispatches the values that have a word in them.
Command(v)   == IF toArgs(v) = <<>> THEN <<>> ELSE <<toArgs(v)>>
Commands(vs) == FlattenSeq([i \in DOMAIN vs |-> Command(vs[i])])

Pipe == INSTANCE CommandPipe WITH
            received <- Commands(got),
            pending  <- Commands(SubSeq(Sent, Len(got) + 1, Len(Sent)))

\* Only the innermost array may have all its elements, and none has more.
StreamTypeOK ==
    /\ need \in Int /\ need >= -1 /\ (need >= 0 => ~Full)
    /\ st \in {"open", "eof", "error"} /\ gone \in BOOLEAN
    /\ \A i \in DOMAIN stack : /\ Len(stack[i].elems) <= stack[i].n
                               /\ i < Len(stack) => Len(stack[i].elems) < stack[i].n

(***************************************************************************)
(* What ReadValue returns is what was written, value by value, however the  *)
(* bytes are cut into pieces, whatever bytes a bulk string holds and        *)
(* wherever the stream ends (resp.go readValue, writeValue).  In particular *)
(* no value is made of a part of one, or of what follows a malformed one.   *)
(***************************************************************************)
DecodedIsSent == IsPrefix(got, Sent)

(***************************************************************************)
(* A stream that ends after a whole value ends the connection as a clean    *)
(* close with nothing lost; an error is reported only for a malformed       *)
(* stream or one that breaks off (resp.go ReadValue, "Returns io.EOF when   *)
(* the connection is closed cleanly").                                      *)
(***************************************************************************)
CleanEnd ==
    /\ st = "eof" /\ ~gone => got = Sent
    /\ st = "error" => gone \/ Len(Sent) < Len(script)

(***************************************************************************)
(* The commands of a client reach handleConn like through a FIFO queue      *)
(* (PRD.md: "RESP2 pipelining ... must be handled correctly").              *)
(***************************************************************************)
CommandsArriveInOrder == Pipe!Spec

(***************************************************************************)
(* Everything a peer that stays has sent is read in the end, also when      *)
(* several values come in one piece (PRD.md: "a server that only reads one  *)
(* command per syscall will deadlock").                                     *)
(***************************************************************************)
AllDecoded == <>(gone \/ got = Sent)
=============================================================================
