----------------------------- MODULE CommandPipe -----------------------------
(***************************************************************************)
(* What the RESP codec promises: the commands of a client arrive one by    *)
(* one, whole, each once and in the order they were sent.                  *)
(***************************************************************************)
EXTENDS Sequences

VARIABLES pending, received

Init == received = <<>>

Receive == /\ pending # <<>>
           /\ received' = Append(received, Head(pending))
           /\ pending' = Tail(pending)

Spec == Init /\ [][Receive]_<<pending, received>>
=============================================================================
