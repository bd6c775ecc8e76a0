------------------------------ MODULE Transmit ------------------------------
(***************************************************************************)
(* transmit.c byte by byte.  A message crosses a chain of processes, as a  *)
(* request crosses device, gateway and enclave: process 0 sends, the ones  *)
(* between receive a message and send it on, the last one receives.  A     *)
(* message is its length, in IntBytes bytes, and its data; write and read  *)
(* move as many bytes as the socket will take or has, one at least, and    *)
(* the loops of send_len_data and recv_len_data go on from there.          *)
(***************************************************************************)
EXTENDS Integers, Sequences, SequencesExt, FiniteSetsExt

CONSTANTS N,           \* the last process of the chain
          Bytes,       \* the values of a byte
          IntBytes,    \* sizeof(int)
          IntValue,    \* the int that the bytes in a variable stand for on the machine
          SockBuf,     \* how many bytes a connection holds
          Messages,    \* the messages process 0 may send
          MaxMessages, \* bound: how many it sends
          Faulty       \* the processes that may be killed

Procs == 0..N
Pipes == 1..N          \* pipe q connects process q - 1 with process q

\* The bytes of an int, and what they stand for.  Both ends run on the same kind of
\* machine; in which order it keeps the bytes does not matter.
IntBuffers == [1..IntBytes -> Bytes]
LenBytes(n) == CHOOSE b \in IntBuffers : IntValue[b] = n
BytesLen(b) == IntValue[b]

ASSUME TransmitAssumption ==
    /\ N \in Nat \ {0} /\ IntBytes \in Nat \ {0}
    /\ SockBuf \in Nat \ {0} /\ MaxMessages \in Nat
    /\ IntValue \in [IntBuffers -> Int]
    /\ Messages \subseteq Seq(Bytes)
    /\ \A m \in Messages : \E b \in IntBuffers : IntValue[b] = Len(m)
    /\ Faulty \subseteq Procs

VARIABLES pc,     \* the loop each process is in
          total,  \* total_sent or total_recvd of that loop
          lenbuf, \* the bytes of len that have been received
          data,   \* the message a process sends, or what it has received of one
          pipe,   \* the bytes under way
          out,    \* history: the messages given to send_len_data
          in      \* history: the messages recv_len_data has returned

vars == <<pc, total, lenbuf, data, pipe, out, in>>

-----------------------------------------------------------------------------
Exited(p) == pc[p] = "exited"
At(p, l) == pc' = [pc EXCEPT ![p] = l]

\* Where a process goes when send_len_data or recv_len_data returns.
AfterSend(p) == IF p = 0 THEN "idle" ELSE "recv_len"
AfterRecv(p) == IF p = N THEN "recv_len" ELSE "send_len"

Init ==
    /\ pc = [p \in Procs |-> IF p = 0 THEN "idle" ELSE "recv_len"]
    /\ total = [p \in Procs |-> 0]
    /\ lenbuf = [p \in Procs |-> <<>>]
    /\ data = [p \in Procs |-> <<>>]
    /\ pipe = [q \in Pipes |-> <<>>]
    /\ out = [p \in Procs |-> <<>>] /\ in = [p \in Procs |-> <<>>]

\* The sender calls send_len_data.
Submit ==
    /\ pc[0] = "idle"
    /\ Len(out[0]) < MaxMessages
    /\ \E m \in Messages : /\ data' = [data EXCEPT ![0] = m]
                           /\ out' = [out EXCEPT ![0] = Append(@, m)]
    /\ total' = [total EXCEPT ![0] = 0]
    /\ At(0, "send_len")
    /\ UNCHANGED <<lenbuf, pipe, in>>

-----------------------------------------------------------------------------
(* send_len_data                                                           *)

\* write: the first n of the bytes b, as far as there is room; when the reader has
\* exited the bytes are lost
Write(p, b, n) ==
    IF Exited(p + 1) THEN UNCHANGED pipe
    ELSE /\ Len(pipe[p + 1]) + n <= SockBuf
         /\ pipe' = [pipe EXCEPT ![p + 1] = @ \o SubSeq(b, 1, n)]

\* Mutated form: one write is taken to send the whole length.
SendLenOnce(p) ==
    /\ pc[p] = "send_len"
    /\ LET rest == LenBytes(Len(data[p]))
       IN  \E n \in 1..Len(rest) : Write(p, rest, n)
    /\ At(p, IF data[p] = <<>> THEN AfterSend(p) ELSE "send_data")
    /\ UNCHANGED <<total, lenbuf, data, out, in>>

\* A turn of the first loop: the bytes of len; the second loop has no turn when size
\* is 0.
SendLen(p) ==
    /\ pc[p] = "send_len"
    /\ LET rest == SubSeq(LenBytes(Len(data[p])), total[p] + 1, IntBytes)
       IN  \E n \in 1..Len(rest) :
              /\ Write(p, rest, n)
              /\ IF n < Len(rest)
                 THEN total' = [total EXCEPT ![p] = @ + n] /\ UNCHANGED pc
                 ELSE /\ total' = [total EXCEPT ![p] = 0]
                      /\ At(p, IF data[p] = <<>> THEN AfterSend(p) ELSE "send_data")
    /\ UNCHANGED <<lenbuf, data, out, in>>

\* Mutated form: the second loop starts over from data after a partial write.
SendDataFromStart(p) ==
    /\ pc[p] = "send_data"
    /\ \E n \in 1..(Len(data[p]) - total[p]) :
          /\ Write(p, data[p], n)
          /\ IF total[p] + n < Len(data[p])
             THEN total' = [total EXCEPT ![p] = @ + n] /\ UNCHANGED pc
             ELSE total' = [total EXCEPT ![p] = 0] /\ At(p, AfterSend(p))
    /\ UNCHANGED <<lenbuf, data, out, in>>

\* A turn of the second loop: the bytes of data.
SendData(p) ==
    /\ pc[p] = "send_data"
    /\ LET rest == SubSeq(data[p], total[p] + 1, Len(data[p]))
       IN  \E n \in 1..Len(rest) :
              /\ Write(p, rest, n)
              /\ IF n < Len(rest)
                 THEN total' = [total EXCEPT ![p] = @ + n] /\ UNCHANGED pc
                 ELSE total' = [total EXCEPT ![p] = 0] /\ At(p, AfterSend(p))
    /\ UNCHANGED <<lenbuf, data, out, in>>

\* write fails in either loop: an error and exit(3), or SIGPIPE
WriteFails(p) ==
    /\ pc[p] \in {"send_len", "send_data"}
    /\ Exited(p + 1)
    /\ At(p, "exited")
    /\ UNCHANGED <<total, lenbuf, data, pipe, out, in>>

-----------------------------------------------------------------------------
(* recv_len_data                                                           *)

\* read takes n bytes off the connection.
Read(q, n) == pipe' = [pipe EXCEPT ![q] = SubSeq(@, n + 1, Len(@))]

\* recv_len_data returns m; a process between two others sends it on.
Return(q, m) ==
    /\ in' = [in EXCEPT ![q] = Append(@, m)]
    /\ out' = IF q = N THEN out ELSE [out EXCEPT ![q] = Append(@, m)]
    /\ At(q, AfterRecv(q))

\* A turn of the first loop: bytes of len.  Unless the length is above 0 the message is
\* complete, and the buffer is as it was.
RecvLen(q) ==
    /\ pc[q] = "recv_len"
    /\ \E n \in 1..Min({IntBytes - total[q], Len(pipe[q])}) :
          LET got == lenbuf[q] \o SubSeq(pipe[q], 1, n)
          IN  /\ Read(q, n)
              /\ IF Len(got) < IntBytes
                 THEN /\ lenbuf' = [lenbuf EXCEPT ![q] = got]
                      /\ total' = [total EXCEPT ![q] = @ + n]
                      /\ UNCHANGED <<pc, data, out, in>>
                 ELSE /\ total' = [total EXCEPT ![q] = 0]
                      /\ data' = [data EXCEPT ![q] = <<>>]
                      /\ IF BytesLen(got) <= 0
                         THEN Return(q, <<>>) /\ lenbuf' = [lenbuf EXCEPT ![q] = <<>>]
                         ELSE /\ lenbuf' = [lenbuf EXCEPT ![q] = got]
                              /\ At(q, "recv_data")
                              /\ UNCHANGED <<out, in>>

\* Mutated form: a read is asked for len bytes whatever has been read before.
RecvDataTooMuch(q) ==
    /\ pc[q] = "recv_data"
    /\ LET len == BytesLen(lenbuf[q])
       IN  \E n \in 1..Min({len, Len(pipe[q])}) :
              LET got == data[q] \o SubSeq(pipe[q], 1, n)
              IN  /\ Read(q, n)
                  /\ data' = [data EXCEPT ![q] = got]
                  /\ IF Len(got) < len
                     THEN total' = [total EXCEPT ![q] = @ + n] /\ UNCHANGED <<pc, lenbuf, out, in>>
                     ELSE /\ total' = [total EXCEPT ![q] = 0]
                          /\ lenbuf' = [lenbuf EXCEPT ![q] = <<>>]
                          /\ Return(q, got)

\* A turn of the second loop: bytes of data.
RecvData(q) ==
    /\ pc[q] = "recv_data"
    /\ LET len == BytesLen(lenbuf[q])
       IN  \E n \in 1..Min({len - total[q], Len(pipe[q])}) :
              LET got == data[q] \o SubSeq(pipe[q], 1, n)
              IN  /\ Read(q, n)
                  /\ data' = [data EXCEPT ![q] = got]
                  /\ IF Len(got) < len
                     THEN total' = [total EXCEPT ![q] = @ + n] /\ UNCHANGED <<pc, lenbuf, out, in>>
                     ELSE /\ total' = [total EXCEPT ![q] = 0]
                          /\ lenbuf' = [lenbuf EXCEPT ![q] = <<>>]
                          /\ Return(q, got)

\* Mutated form: the end of the data in the middle of a message is not noticed.
ReadFailsBetween(q) ==
    /\ pc[q] = "recv_len"
    /\ Exited(q - 1) /\ pipe[q] = <<>>
    /\ At(q, "exited")
    /\ UNCHANGED <<total, lenbuf, data, pipe, out, in>>

\* read returns 0 or fails in either loop: exit(3)
ReadFails(q) ==
    /\ pc[q] \in {"recv_len", "recv_data"}
    /\ Exited(q - 1) /\ pipe[q] = <<>>
    /\ At(q, "exited")
    /\ UNCHANGED <<total, lenbuf, data, pipe, out, in>>

-----------------------------------------------------------------------------
SendStep(p) == SendLen(p) \/ SendData(p) \/ WriteFails(p)
RecvStep(q) == RecvLen(q) \/ RecvData(q) \/ ReadFails(q)

ProcStep(p) == (p < N /\ SendStep(p)) \/ (p > 0 /\ RecvStep(p))

\* A process is killed in whatever loop it is.
Kill(p) ==
    /\ p \in Faulty /\ ~ Exited(p)
    /\ At(p, "exited")
    /\ UNCHANGED <<total, lenbuf, data, pipe, out, in>>

\* The connection of a process that has exited is reset: the last bytes are lost.
Reset(q) ==
    /\ Exited(q - 1) /\ pipe[q] # <<>>
    /\ pipe' = [pipe EXCEPT ![q] = Front(@)]
    /\ UNCHANGED <<pc, total, lenbuf, data, out, in>>

Next ==
    \/ Submit
    \/ \E p \in Procs : ProcStep(p) \/ Kill(p)
    \/ \E q \in Pipes : Reset(q)

\* Each process runs on its own; nobody is obliged to send.
Spec == Init /\ [][Next]_vars /\ \A p \in Procs : WF_vars(ProcStep(p))

-----------------------------------------------------------------------------
\* Every process is in one of the loops, with a count below the end of that loop:
\* neither loop ever writes or reads past the length or the data of its message.
TypeOK ==
    /\ pc \in [Procs -> {"idle", "send_len", "send_data", "recv_len", "recv_data", "exited"}]
    /\ pipe \in [Pipes -> Seq(Bytes)] /\ \A q \in Pipes : Len(pipe[q]) <= SockBuf
    /\ out \in [Procs -> Seq(Messages)] /\ in \in [Procs -> Seq(Messages)]
    /\ lenbuf \in [Procs -> Seq(Bytes)] /\ data \in [Procs -> Seq(Bytes)]
    /\ \A p \in Procs :
          /\ pc[p] \in {"send_len", "recv_len"} => total[p] \in 0..(IntBytes - 1)
          /\ pc[p] = "send_data" => total[p] \in 0..(Len(data[p]) - 1)
          /\ pc[p] = "recv_data" => total[p] = Len(data[p]) /\ total[p] < BytesLen(lenbuf[p])

\* The bytes of messages sent one after the other.
Stream(msgs) == FlattenSeq([i \in 1..Len(msgs) |-> LenBytes(Len(msgs[i])) \o msgs[i]])

\* What q has consumed of the bytes that were sent to it.
Consumed(q) ==
    Stream(in[q]) \o lenbuf[q] \o (IF Len(lenbuf[q]) = IntBytes THEN data[q] ELSE <<>>)

\* What p has still to write of the message in hand.
Unwritten(p) ==
    CASE pc[p] = "send_len" -> SubSeq(LenBytes(Len(data[p])), total[p] + 1, IntBytes) \o data[p]
      [] pc[p] = "send_data" -> SubSeq(data[p], total[p] + 1, Len(data[p]))
      [] OTHER -> <<>>

\* No byte is lost, repeated or moved on a connection whose ends have not exited:
\* what has been read, what is under way and what is still to be written are
\* together the messages sent, however the reads and writes were cut up.  After an
\* exit what has been read and is under way is still a beginning of them.
Framing ==
    \A q \in Pipes :
        LET arrived == Consumed(q) \o pipe[q]
        IN  IF Exited(q - 1) \/ Exited(q) THEN IsPrefix(arrived, Stream(out[q - 1]))
            ELSE arrived \o Unwritten(q - 1) = Stream(out[q - 1])

\* A process that dies, between two messages or within one, takes down everyone
\* who reads from it, directly or not: nobody waits for the rest of a message.
ReadersExit == \A p \in Procs, q \in Procs : p < q => (Exited(p) ~> Exited(q))

Pipe ==
    INSTANCE MessagePipe WITH
        sent <- out[0], delivered <- in[N],
        broken <- \E p \in Procs : Exited(p)

\* The loops of transmit.c implement MessagePipe: messages arrive whole, in order
\* and once, cut short by an exit at most, and in the end while nobody exits.
ImplementsMessagePipe == Pipe!Spec

=============================================================================
