---------------------------- MODULE MessagePipe ----------------------------
(***************************************************************************)
(* What send_len_data and recv_len_data promise to the programs that call  *)
(* them: messages arrive whole, in order and at most once, and while       *)
(* nobody on the way has exited each one arrives in the end.  The queues   *)
(* of SecureOffload are what has been sent and not been delivered.         *)
(***************************************************************************)
EXTENDS Naturals, Sequences

CONSTANT Messages

VARIABLES sent,        \* the messages given to send_len_data
          delivered,   \* the messages recv_len_data has returned at the far end
          broken       \* whether somebody on the way has exited

vars == <<sent, delivered, broken>>

Init == sent = <<>> /\ delivered = <<>> /\ broken = FALSE

Send ==
    /\ \E m \in Messages : sent' = Append(sent, m)
    /\ UNCHANGED <<delivered, broken>>

Deliver ==
    /\ Len(delivered) < Len(sent)
    /\ delivered' = Append(delivered, sent[Len(delivered) + 1])
    /\ UNCHANGED <<sent, broken>>

Break ==
    /\ broken' = TRUE
    /\ UNCHANGED <<sent, delivered>>

Next == Send \/ Deliver \/ Break

Spec == Init /\ [][Next]_vars /\ WF_vars(~ broken /\ Deliver)

=============================================================================
