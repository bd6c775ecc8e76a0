----------------------------- MODULE MCTransmit -----------------------------
(***************************************************************************)
(* Model checking of Transmit: an empty message, one shorter and one       *)
(* longer than a connection holds.                                         *)
(***************************************************************************)
EXTENDS Transmit

\* Two bytes of one bit each, the low one first.
MCIntValue == [b \in IntBuffers |-> b[1] + 2 * b[2]]

MCMessages == {<<>>, <<1>>, <<0, 1, 1>>}

=============================================================================
