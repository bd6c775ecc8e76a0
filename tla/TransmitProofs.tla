--------------------------- MODULE TransmitProofs ---------------------------
(***************************************************************************)
(* The loops of transmit.c for every number of relays, every size of an    *)
(* int and of the connections, and all messages.  The invariant TransInv   *)
(* ties the two ends of a connection together: the messages that the       *)
(* reader has returned are a beginning of those the writer was given, and  *)
(* the bytes between them are the rest.  From it follow the type           *)
(* invariant, Framing and the steps of MessagePipe.                        *)
(***************************************************************************)
EXTENDS Transmit, SequenceTheorems, WellFoundedInduction, TLAPS

-----------------------------------------------------------------------------
(* The invariant.  Its parts are stated about values, not variables, so    *)
(* that they can be applied to both states of a step.                      *)

\* A message on the connection: its length and its data.
Frame(m) == LenBytes(Len(m)) \o m

\* The types, without the bounds on total.
Shapes ==
    /\ pc \in [Procs -> {"idle", "send_len", "send_data", "recv_len", "recv_data", "exited"}]
    /\ total \in [Procs -> Nat]
    /\ pipe \in [Pipes -> Seq(Bytes)] /\ \A q \in Pipes : Len(pipe[q]) <= SockBuf
    /\ out \in [Procs -> Seq(Messages)] /\ in \in [Procs -> Seq(Messages)]
    /\ lenbuf \in [Procs -> Seq(Bytes)] /\ data \in [Procs -> Seq(Bytes)]

\* The ends of the chain: process 0 never receives and the last one never sends.
Ends ==
    \A p \in Procs :
        /\ pc[p] = "idle" => p = 0
        /\ pc[p] \in {"send_len", "send_data"} => p # N
        /\ pc[p] \in {"recv_len", "recv_data"} => p # 0

\* In the loops of send_len_data: t bytes of the length or of d are sent, and d is the
\* last of the messages o.
SendOK(l, t, d, o) ==
    /\ l \in {"send_len", "send_data"} => o # <<>> /\ d = o[Len(o)]
    /\ l = "send_len" => t < IntBytes
    /\ l = "send_data" => t < Len(d)

\* In the loops of recv_len_data: t bytes of the length, b, or of the data, d, are received.
RecvOK(l, t, b, d) ==
    /\ Len(b) <= IntBytes
    /\ l = "recv_len" => t = Len(b) /\ t < IntBytes
    /\ l = "recv_data" => Len(b) = IntBytes /\ t = Len(d) /\ t < BytesLen(b)
    /\ l \in {"send_len", "send_data"} => b = <<>>

\* Concatenation and SubSeq, for steps that need nothing but their arguments.
Cat(a, b) == a \o b
Cut(s, i, j) == SubSeq(s, i, j)

\* What has been taken from a connection when the messages i have been returned.
Taken(i, b, d) == Cat(Cat(Stream(i), b), IF Len(b) = IntBytes THEN d ELSE <<>>)

\* What is still to be written of d.
Left(l, t, d) ==
    CASE l = "send_len" -> Cat(Cut(LenBytes(Len(d)), t + 1, IntBytes), d)
      [] l = "send_data" -> Cut(d, t + 1, Len(d))
      [] OTHER -> <<>>

\* Framing of one connection with the bytes a on the reader's side, u on the writer's.
Link(ls, lr, a, u, o) ==
    IF ls = "exited" \/ lr = "exited" THEN IsPrefix(a, Stream(o)) ELSE Cat(a, u) = Stream(o)

Linked(q) ==
    Link(pc[q - 1], pc[q], Cat(Taken(in[q], lenbuf[q], data[q]), pipe[q]),
         Left(pc[q - 1], total[q - 1], data[q - 1]), out[q - 1])

TransInv ==
    /\ Shapes
    /\ Ends
    /\ \A p \in Procs : SendOK(pc[p], total[p], data[p], out[p])
    /\ \A q \in Pipes : RecvOK(pc[q], total[q], lenbuf[q], data[q])
    /\ \A p \in Procs \ {0, N} : out[p] = in[p]
    /\ \A q \in Pipes : IsPrefix(in[q], out[q - 1]) /\ IsPrefix(in[q], out[0])
    /\ \A q \in Pipes : Linked(q)

-----------------------------------------------------------------------------
(* The bytes of a length, and the bytes of messages one after the other.   *)

\* The length of a message is in the bytes that are sent for it, IntBytes of them.
LEMMA LengthBytes ==
    ASSUME NEW m \in Messages
    PROVE  /\ LenBytes(Len(m)) \in IntBuffers
           /\ BytesLen(LenBytes(Len(m))) = Len(m)
           /\ LenBytes(Len(m)) \in Seq(Bytes)
           /\ Len(LenBytes(Len(m))) = IntBytes
<1>1. \E b \in IntBuffers : IntValue[b] = Len(m)
  BY TransmitAssumption
<1>2. LenBytes(Len(m)) \in IntBuffers /\ IntValue[LenBytes(Len(m))] = Len(m)
  BY <1>1 DEF LenBytes
<1> HIDE DEF LenBytes
<1>3. IntBytes \in Nat
  BY TransmitAssumption
<1> QED
  BY <1>2, <1>3 DEF IntBuffers, BytesLen

\* A frame is a sequence of bytes.
LEMMA FrameBytes ==
    ASSUME NEW m \in Messages
    PROVE  Frame(m) \in Seq(Bytes) /\ Len(Frame(m)) = IntBytes + Len(m)
<1>1. m \in Seq(Bytes)
  BY TransmitAssumption
<1> DEFINE b == LenBytes(Len(m))
<1>2. b \in Seq(Bytes) /\ Len(b) = IntBytes
  BY LengthBytes
<1> HIDE DEF b
<1>3. b \o m \in Seq(Bytes) /\ Len(b \o m) = IntBytes + Len(m)
  BY <1>1, <1>2, ConcatProperties
<1> QED
  BY <1>3 DEF Frame, b

\* A set of naturals that is not empty has a least element.
LEMMA LeastExists ==
    ASSUME NEW T \in SUBSET Nat, T # {}
    PROVE  \E x \in T : \A y \in T : x <= y
<1>1. PICK x \in T : \A y \in T : ~ (<<y, x>> \in OpToRel(<, Nat))
  BY NatLessThanWellFounded, WFMin
<1>2. \A y \in T : ~ (y < x)
  BY <1>1 DEF OpToRel
<1> QED
  BY <1>2

\* The equation of the function by which FlattenSeq is defined.
IsFlat(f, s, n) == f = [i \in 1..n |-> IF i = 1 THEN s[i] ELSE Cat(f[i - 1], s[i])]

\* The equation at one place.
LEMMA FlatStep ==
    ASSUME NEW s, NEW n, NEW f, IsFlat(f, s, n), NEW i \in 1..n
    PROVE  f[i] = IF i = 1 THEN s[i] ELSE Cat(f[i - 1], s[i])
BY DEF IsFlat

\* There is such a function for every length.
LEMMA FlatExists ==
    ASSUME NEW s, NEW n \in Nat \ {0}
    PROVE  \E f : IsFlat(f, s, n)
<1> DEFINE T == {m \in Nat \ {0} : ~ \E f : IsFlat(f, s, m)}
<1>1. SUFFICES ASSUME T # {} PROVE FALSE
  OBVIOUS
<1>2. PICK m \in T : \A y \in T : m <= y
  <2>1. T \in SUBSET Nat
    OBVIOUS
  <2> QED
    BY <1>1, <2>1, LeastExists
<1>3. m # 1
  <2> DEFINE f == [i \in 1..1 |-> s[i]]
  <2>1. f = [i \in 1..1 |-> IF i = 1 THEN s[i] ELSE Cat(f[i - 1], s[i])]
    OBVIOUS
  <2>2. IsFlat(f, s, 1)
    BY <2>1 DEF IsFlat
  <2> QED
    BY <2>2
<1>4. m - 1 \in Nat \ {0} /\ m - 1 \notin T
  BY <1>2, <1>3
<1>5. PICK f : IsFlat(f, s, m - 1)
  BY <1>4
<1> DEFINE g == [i \in 1..m |-> IF i = m THEN Cat(f[m - 1], s[m]) ELSE f[i]]
<1>6. ASSUME NEW i \in 1..m
      PROVE  g[i] = IF i = 1 THEN s[i] ELSE Cat(g[i - 1], s[i])
  <2>1. CASE i = m
    BY <1>3, <1>4, <2>1
  <2>2. CASE i # m
    <3>1. i \in 1..(m - 1) /\ (i # 1 => i - 1 \in 1..m /\ i - 1 # m)
      BY <2>2
    <3>2. f[i] = IF i = 1 THEN s[i] ELSE Cat(f[i - 1], s[i])
      BY <1>5, <3>1 DEF IsFlat
    <3> QED
      BY <2>2, <3>1, <3>2
  <2> QED
    BY <2>1, <2>2
<1>7. IsFlat(g, s, m)
  BY <1>6 DEF IsFlat
<1> QED
  BY <1>2, <1>7

\* Two functions that satisfy the equation agree as far as their sequences do.
LEMMA FlatsAgree ==
    ASSUME NEW s1, NEW s2, NEW n1 \in Nat, NEW n2 \in Nat, NEW f1, NEW f2,
           IsFlat(f1, s1, n1), IsFlat(f2, s2, n2),
           NEW l \in 1..n1, l <= n2, \A i \in 1..l : s1[i] = s2[i]
    PROVE  f1[l] = f2[l]
<1> DEFINE T == {i \in 1..l : f1[i] # f2[i]}
<1>1. SUFFICES ASSUME T # {} PROVE FALSE
  OBVIOUS
<1>2. PICK i \in T : \A y \in T : i <= y
  <2>1. T \in SUBSET Nat
    OBVIOUS
  <2> QED
    BY <1>1, <2>1, LeastExists
<1>3. f1[i] = IF i = 1 THEN s1[i] ELSE Cat(f1[i - 1], s1[i])
  BY DEF IsFlat
<1>4. f2[i] = IF i = 1 THEN s2[i] ELSE Cat(f2[i - 1], s2[i])
  BY DEF IsFlat
<1>5. i # 1
  BY <1>2, <1>3, <1>4
<1>6. f1[i - 1] = f2[i - 1] /\ s1[i] = s2[i]
  BY <1>2, <1>5
<1> QED
  BY <1>2, <1>3, <1>4, <1>5, <1>6

\* FlattenSeq is the last value of that function.
LEMMA FlatOfFlatten ==
    ASSUME NEW s, Len(s) \in Nat \ {0}
    PROVE  \E f : IsFlat(f, s, Len(s)) /\ FlattenSeq(s) = f[Len(s)]
<1> DEFINE flat == CHOOSE f : IsFlat(f, s, Len(s))
<1>1. IsFlat(flat, s, Len(s))
  BY FlatExists
<1>2. FlattenSeq(s) = flat[Len(s)]
  BY DEF FlattenSeq, IsFlat, Cat
<1> QED
  BY <1>1, <1>2

\* The frames of messages.
Frames(msgs) == [i \in 1..Len(msgs) |-> Frame(msgs[i])]

\* There is a frame for every message, and the stream is the frames behind each other.
LEMMA FramesLen ==
    ASSUME NEW msgs \in Seq(Messages)
    PROVE  Len(Frames(msgs)) = Len(msgs) /\ Stream(msgs) = FlattenSeq(Frames(msgs))
BY DEF Frames, Frame, Stream

\* Nothing is sent for no messages.
LEMMA StreamEmpty == Stream(<<>>) = <<>>
<1>1. Frames(<<>>) = <<>>
  BY DEF Frames
<1>2. <<>> \in Seq(Messages) /\ Len(<<>>) = 0
  OBVIOUS
<1>3. FlattenSeq(<<>>) = <<>>
  BY <1>2 DEF FlattenSeq
<1> QED
  BY <1>1, <1>2, <1>3, FramesLen

\* Another message is another frame behind the stream.
LEMMA StreamAppend ==
    ASSUME NEW msgs \in Seq(Messages), NEW m \in Messages
    PROVE  Stream(Append(msgs, m)) = Stream(msgs) \o Frame(m)
<1> DEFINE more == Append(msgs, m)
           n == Len(msgs)
<1>1. more \in Seq(Messages) /\ Len(more) = n + 1 /\ n \in Nat /\ more[n + 1] = m
      /\ \A i \in 1..n : more[i] = msgs[i]
  OBVIOUS
<1> HIDE DEF more
<1>2. Len(Frames(more)) = n + 1 /\ Stream(more) = FlattenSeq(Frames(more))
  BY <1>1, FramesLen
<1>3. PICK f : IsFlat(f, Frames(more), n + 1) /\ Stream(more) = f[n + 1]
  BY <1>1, <1>2, FlatOfFlatten
<1>4. Frames(more)[n + 1] = Frame(m)
  BY <1>1 DEF Frames
<1> DEFINE k == n + 1
<1>5. f[k] = IF k = 1 THEN Frame(m) ELSE Cat(f[k - 1], Frame(m))
  <2>1. IsFlat(f, Frames(more), k) /\ k \in 1..k /\ Frames(more)[k] = Frame(m)
    BY <1>1, <1>3, <1>4
  <2> HIDE DEF k
  <2>2. f[k] = IF k = 1 THEN Frames(more)[k] ELSE Cat(f[k - 1], Frames(more)[k])
    BY <2>1, FlatStep
  <2> QED
    BY <2>1, <2>2
<1>6. CASE n = 0
  <2>1. msgs = <<>>
    BY <1>6
  <2>2. Frame(m) \in Seq(Bytes)
    BY FrameBytes
  <2>3. Cat(<<>>, Frame(m)) = Frame(m)
    BY <2>2 DEF Cat
  <2>4. Stream(more) = Frame(m)
    <3>1. k = 1 /\ Stream(more) = f[k]
      BY <1>3, <1>6
    <3> HIDE DEF k
    <3> QED
      BY <1>5, <3>1
  <2>5. Stream(more) = Cat(Stream(msgs), Frame(m))
    BY <2>1, <2>3, <2>4, StreamEmpty
  <2> QED
    BY <2>5 DEF more, Cat
<1>7. CASE n # 0
  <2>1. Len(Frames(msgs)) = n /\ Stream(msgs) = FlattenSeq(Frames(msgs))
    BY FramesLen
  <2>2. PICK g : IsFlat(g, Frames(msgs), n) /\ Stream(msgs) = g[n]
    BY <1>1, <1>7, <2>1, FlatOfFlatten
  <2>3. \A i \in 1..n : Frames(msgs)[i] = Frames(more)[i]
    BY <1>1 DEF Frames
  <2>4. g[n] = f[n]
    <3>1. n \in 1..n /\ n <= n + 1 /\ n + 1 \in Nat
      BY <1>1, <1>7
    <3> QED
      BY <1>1, <1>3, <2>2, <2>3, <3>1, FlatsAgree
  <2>5. Stream(more) = Cat(Stream(msgs), Frame(m))
    <3>1. k # 1 /\ k - 1 = n /\ Stream(more) = f[k]
      BY <1>1, <1>3, <1>7
    <3> HIDE DEF k
    <3> QED
      BY <1>5, <2>2, <2>4, <3>1
  <2> QED
    BY <2>5 DEF more, Cat
<1> QED
  BY <1>6, <1>7

\* A stream is a sequence of bytes.
LEMMA StreamBytes ==
    ASSUME NEW msgs \in Seq(Messages)
    PROVE  Stream(msgs) \in Seq(Bytes)
<1> DEFINE T == {n \in Nat : \E s \in Seq(Messages) : Len(s) = n /\ Stream(s) \notin Seq(Bytes)}
<1>1. SUFFICES ASSUME T # {} PROVE FALSE
  OBVIOUS
<1>2. PICK n \in T : \A y \in T : n <= y
  BY <1>1, LeastExists
<1>3. PICK s \in Seq(Messages) : Len(s) = n /\ Stream(s) \notin Seq(Bytes)
  BY <1>2
<1>4. s # <<>>
  BY <1>3, StreamEmpty
<1>5. PICK r \in Seq(Messages), m \in Messages : s = Append(r, m)
  BY <1>4, SequenceEmptyOrAppend
<1>6. Len(r) \in Nat /\ Len(r) < n
  BY <1>3, <1>5
<1>7. Stream(r) \in Seq(Bytes)
  BY <1>2, <1>6
<1>8. Frame(m) \in Seq(Bytes)
  BY FrameBytes
<1>9. Stream(s) = Stream(r) \o Frame(m)
  BY <1>5, StreamAppend
<1> QED
  BY <1>3, <1>7, <1>8, <1>9, ConcatProperties

-----------------------------------------------------------------------------
(* Beginnings of sequences.                                                *)

\* A beginning is as long at most and has the same elements.
LEMMA PrefixElements ==
    ASSUME NEW S, NEW s \in Seq(S), NEW t \in Seq(S)
    PROVE  IsPrefix(s, t) <=> Len(s) <= Len(t) /\ \A i \in 1..Len(s) : s[i] = t[i]
<1>1. SubSeq(s, 1, Len(s)) = s
  OBVIOUS
<1>2. ASSUME Len(s) <= Len(t)
      PROVE  SubSeq(t, 1, Len(s)) \in Seq(S) /\ Len(SubSeq(t, 1, Len(s))) = Len(s)
             /\ \A i \in 1..Len(s) : SubSeq(t, 1, Len(s))[i] = t[i]
  BY <1>2
<1> DEFINE u == SubSeq(t, 1, Len(s))
<1>3. ASSUME IsPrefix(s, t)
      PROVE  Len(s) <= Len(t) /\ \A i \in 1..Len(s) : s[i] = t[i]
  <2>1. Len(s) <= Len(t) /\ s = u
    BY <1>1, <1>3 DEF IsPrefix
  <2>2. \A i \in 1..Len(s) : u[i] = t[i]
    BY <1>2, <2>1
  <2> HIDE DEF u
  <2> QED
    BY <2>1, <2>2
<1>4. ASSUME Len(s) <= Len(t), \A i \in 1..Len(s) : s[i] = t[i]
      PROVE  IsPrefix(s, t)
  <2>1. u \in Seq(S) /\ Len(u) = Len(s) /\ \A i \in 1..Len(s) : u[i] = t[i]
    BY <1>2, <1>4
  <2>2. s = u
    <3> HIDE DEF u
    <3> QED
      BY <1>4, <2>1, SeqEqual
  <2> QED
    BY <1>1, <1>4, <2>2 DEF IsPrefix
<1> QED
  BY <1>3, <1>4

\* A beginning of a beginning is a beginning.
LEMMA PrefixTransitive ==
    ASSUME NEW S, NEW s \in Seq(S), NEW t \in Seq(S), NEW u \in Seq(S),
           IsPrefix(s, t), IsPrefix(t, u)
    PROVE  IsPrefix(s, u)
<1>1. Len(s) <= Len(t) /\ \A i \in 1..Len(s) : s[i] = t[i]
  BY PrefixElements
<1>2. Len(t) <= Len(u) /\ \A i \in 1..Len(t) : t[i] = u[i]
  BY PrefixElements
<1>3. Len(s) \in Nat /\ Len(t) \in Nat /\ Len(u) \in Nat
  OBVIOUS
<1>4. Len(s) <= Len(u) /\ \A i \in 1..Len(s) : s[i] = u[i]
  BY <1>1, <1>2, <1>3
<1> QED
  BY <1>4, PrefixElements

\* A sequence is a beginning of itself with more behind it.
LEMMA PrefixConcat ==
    ASSUME NEW S, NEW s \in Seq(S), NEW t \in Seq(S)
    PROVE  IsPrefix(s, s \o t)
<1> DEFINE u == s \o t
<1>1. u \in Seq(S) /\ Len(u) = Len(s) + Len(t) /\ \A i \in 1..Len(s) : u[i] = s[i]
  OBVIOUS
<1> HIDE DEF u
<1>2. Len(s) \in Nat /\ Len(t) \in Nat
  OBVIOUS
<1>3. IsPrefix(s, u)
  BY <1>1, <1>2, PrefixElements
<1> QED
  BY <1>3 DEF u

\* What a sequence begins with is a beginning of what the sequence is a beginning of.
LEMMA PrefixOfConcat ==
    ASSUME NEW S, NEW s \in Seq(S), NEW t \in Seq(S), NEW u \in Seq(S), IsPrefix(s \o t, u)
    PROVE  IsPrefix(s, u)
<1>1. s \o t \in Seq(S)
  OBVIOUS
<1>2. IsPrefix(s, s \o t)
  BY PrefixConcat
<1> DEFINE v == s \o t
<1>3. v \in Seq(S) /\ IsPrefix(s, v) /\ IsPrefix(v, u)
  BY <1>1, <1>2
<1> HIDE DEF v
<1> QED
  BY <1>3, PrefixTransitive

\* A beginning of the same length is the whole.
LEMMA PrefixWhole ==
    ASSUME NEW S, NEW s \in Seq(S), NEW t \in Seq(S), IsPrefix(s, t), Len(s) >= Len(t)
    PROVE  s = t
<1>1. Len(s) <= Len(t) /\ \A i \in 1..Len(s) : s[i] = t[i]
  BY PrefixElements
<1>2. Len(s) = Len(t)
  BY <1>1
<1> QED
  BY <1>1, <1>2, SeqEqual

\* A shorter beginning goes on with the next element.
LEMMA PrefixNext ==
    ASSUME NEW S, NEW s \in Seq(S), NEW t \in Seq(S), IsPrefix(s, t), Len(s) < Len(t)
    PROVE  /\ t[Len(s) + 1] \in S
           /\ Append(s, t[Len(s) + 1]) \in Seq(S)
           /\ IsPrefix(Append(s, t[Len(s) + 1]), t)
<1> DEFINE e == t[Len(s) + 1]
           u == Append(s, e)
<1>1. Len(s) <= Len(t) /\ \A i \in 1..Len(s) : s[i] = t[i]
  BY PrefixElements
<1>2. e \in S
  OBVIOUS
<1>3. u \in Seq(S) /\ Len(u) = Len(s) + 1 /\ \A i \in 1..(Len(s) + 1) : u[i] = t[i]
  BY <1>1, <1>2
<1>4. Len(s) + 1 <= Len(t)
  OBVIOUS
<1>5. IsPrefix(u, t)
  <2> HIDE DEF u
  <2> QED
    BY <1>3, <1>4, PrefixElements
<1> QED
  BY <1>2, <1>3, <1>5

\* The stream of a beginning is a beginning of the stream.
LEMMA StreamPrefix ==
    ASSUME NEW s \in Seq(Messages), NEW t \in Seq(Messages), IsPrefix(s, t)
    PROVE  IsPrefix(Stream(s), Stream(t))
<1> DEFINE Bad(u) == IsPrefix(s, u) /\ ~ IsPrefix(Stream(s), Stream(u))
           T == {n \in Nat : \E u \in Seq(Messages) : Len(u) = n /\ Bad(u)}
<1>1. SUFFICES ASSUME T # {} PROVE FALSE
  OBVIOUS
<1>2. PICK n \in T : \A y \in T : n <= y
  BY <1>1, LeastExists
<1>3. PICK u \in Seq(Messages) : Len(u) = n /\ Bad(u)
  BY <1>2
<1>4. Len(s) < Len(u)
  <2>1. SUFFICES ASSUME Len(s) >= Len(u) PROVE FALSE
    OBVIOUS
  <2>2. s = u
    BY <1>3, <2>1, PrefixWhole
  <2>3. Stream(s) \in Seq(Bytes)
    BY StreamBytes
  <2>4. IsPrefix(Stream(s), Stream(s))
    <3> DEFINE x == Stream(s)
    <3>1. x \in Seq(Bytes)
      BY <2>3
    <3> HIDE DEF x
    <3>2. IsPrefix(x, x)
      BY <3>1, PrefixElements
    <3> QED
      BY <3>2 DEF x
  <2> QED
    BY <1>3, <2>2, <2>4
<1>5. u # <<>>
  BY <1>4
<1>6. PICK r \in Seq(Messages), m \in Messages : u = Append(r, m)
  BY <1>5, SequenceEmptyOrAppend
<1>7. Len(r) \in Nat /\ Len(r) < n /\ Len(s) <= Len(r) /\ \A i \in 1..Len(r) : r[i] = u[i]
  BY <1>3, <1>4, <1>6
<1>8. IsPrefix(s, r)
  <2>1. \A i \in 1..Len(s) : s[i] = u[i]
    BY <1>3, PrefixElements
  <2>2. \A i \in 1..Len(s) : s[i] = r[i]
    BY <1>7, <2>1
  <2> QED
    BY <1>7, <2>2, PrefixElements
<1>9. IsPrefix(Stream(s), Stream(r))
  BY <1>2, <1>7, <1>8
<1>10. Stream(u) = Stream(r) \o Frame(m)
  BY <1>6, StreamAppend
<1>11. /\ Stream(s) \in Seq(Bytes) /\ Stream(r) \in Seq(Bytes) /\ Frame(m) \in Seq(Bytes)
       /\ Stream(u) \in Seq(Bytes)
  BY StreamBytes, FrameBytes
<1>12. IsPrefix(Stream(r), Stream(u))
  BY <1>10, <1>11, PrefixConcat
<1>13. IsPrefix(Stream(s), Stream(u))
  BY <1>9, <1>11, <1>12, PrefixTransitive
<1> QED
  BY <1>3, <1>13

\* What Cat does, so that its definition can stay out of the steps.
LEMMA CatParts ==
    ASSUME NEW S, NEW s \in Seq(S), NEW t \in Seq(S)
    PROVE  /\ Cat(s, t) \in Seq(S) /\ Len(Cat(s, t)) = Len(s) + Len(t)
           /\ \A j \in 1..Len(t) : Cat(s, t)[Len(s) + j] = t[j]
BY DEF Cat

\* The length of a concatenation.
LEMMA CatType ==
    ASSUME NEW S, NEW s \in Seq(S), NEW t \in Seq(S)
    PROVE  Cat(s, t) \in Seq(S) /\ Len(Cat(s, t)) = Len(s) + Len(t)
BY DEF Cat

\* Its second part.
LEMMA CatRight ==
    ASSUME NEW S, NEW s \in Seq(S), NEW t \in Seq(S), NEW j \in 1..Len(t)
    PROVE  Cat(s, t)[Len(s) + j] = t[j]
BY DEF Cat

\* The length of a part of a sequence.
LEMMA CutType ==
    ASSUME NEW S, NEW s \in Seq(S), NEW i \in Nat \ {0}, NEW j \in Nat, j <= Len(s), i <= j + 1
    PROVE  Cut(s, i, j) \in Seq(S) /\ Len(Cut(s, i, j)) = j + 1 - i
BY DEF Cut

\* The elements of a part of a sequence.
LEMMA CutElement ==
    ASSUME NEW S, NEW s \in Seq(S), NEW i \in Nat \ {0}, NEW j \in Nat, j <= Len(s),
           NEW k \in 1..(j + 1 - i)
    PROVE  Cut(s, i, j)[k] = s[i + k - 1]
BY DEF Cut

\* The part that is the whole sequence.
LEMMA CutAll ==
    ASSUME NEW S, NEW s \in Seq(S)
    PROVE  Cut(s, 1, Len(s)) = s
BY DEF Cut

\* The first part of a concatenation.
LEMMA CatLeft ==
    ASSUME NEW S, NEW s \in Seq(S), NEW t \in Seq(S), NEW j \in 1..Len(s)
    PROVE  Cat(s, t)[j] = s[j]
BY DEF Cat

\* Bytes behind each other can be grouped at will.
LEMMA CatAssociative ==
    ASSUME NEW S, NEW s \in Seq(S), NEW t \in Seq(S), NEW u \in Seq(S)
    PROVE  Cat(Cat(s, t), u) = Cat(s, Cat(t, u))
BY ConcatAssociative DEF Cat

\* Nothing in front or behind changes nothing.
LEMMA CatEmpty ==
    ASSUME NEW S, NEW s \in Seq(S)
    PROVE  Cat(s, <<>>) = s /\ Cat(<<>>, s) = s
BY DEF Cat

\* PrefixConcat for Cat.
LEMMA CatPrefix ==
    ASSUME NEW S, NEW s \in Seq(S), NEW t \in Seq(S)
    PROVE  IsPrefix(s, Cat(s, t))
BY PrefixConcat DEF Cat

\* PrefixOfConcat for Cat.
LEMMA PrefixOfCat ==
    ASSUME NEW S, NEW s \in Seq(S), NEW t \in Seq(S), NEW u \in Seq(S), IsPrefix(Cat(s, t), u)
    PROVE  IsPrefix(s, u)
BY PrefixOfConcat DEF Cat

\* Two continuations of the same beginning agree as far as both go.
LEMMA SameContinuation ==
    ASSUME NEW S, NEW x \in Seq(S), NEW c \in Seq(S), NEW d \in Seq(S), NEW y \in Seq(S),
           IsPrefix(Cat(x, c), y), IsPrefix(Cat(x, d), y)
    PROVE  \A j \in 1..Len(c) : j <= Len(d) => c[j] = d[j]
<1> DEFINE xc == Cat(x, c)
           xd == Cat(x, d)
<1>1. /\ xc \in Seq(S) /\ Len(xc) = Len(x) + Len(c)
      /\ \A j \in 1..Len(c) : xc[Len(x) + j] = c[j]
  BY CatParts
<1>2. /\ xd \in Seq(S) /\ Len(xd) = Len(x) + Len(d)
      /\ \A j \in 1..Len(d) : xd[Len(x) + j] = d[j]
  BY CatParts
<1>3. IsPrefix(xc, y) /\ IsPrefix(xd, y)
  OBVIOUS
<1> HIDE DEF xc, xd
<1>4. \A k \in 1..Len(xc) : xc[k] = y[k]
  BY <1>1, <1>3, PrefixElements
<1>5. \A k \in 1..Len(xd) : xd[k] = y[k]
  BY <1>2, <1>3, PrefixElements
<1>6. Len(x) \in Nat /\ Len(c) \in Nat /\ Len(d) \in Nat
  OBVIOUS
<1>7. ASSUME NEW j \in 1..Len(c), j <= Len(d)
      PROVE  c[j] = d[j]
  <2> DEFINE k == Len(x) + j
  <2>1. k \in 1..Len(xc) /\ k \in 1..Len(xd) /\ j \in 1..Len(d)
    BY <1>1, <1>2, <1>6, <1>7
  <2>2. xc[k] = c[j] /\ xd[k] = d[j]
    BY <1>1, <1>2, <2>1
  <2> HIDE DEF k
  <2> QED
    BY <1>4, <1>5, <2>1, <2>2
<1> QED
  BY <1>7

\* Behind the messages i that have been returned, the next IntBytes bytes are the length
\* of the next message, and as many bytes as that message has are the message.
LEMMA Decode ==
    ASSUME NEW i \in Seq(Messages), NEW o \in Seq(Messages), IsPrefix(i, o),
           NEW x \in Seq(Bytes), x = Stream(i), NEW y \in Seq(Bytes), y = Stream(o),
           NEW a \in Seq(Bytes), NEW b \in Seq(Bytes), Len(a) = IntBytes,
           IsPrefix(Cat(Cat(x, a), b), y)
    PROVE  /\ Len(i) < Len(o) /\ o[Len(i) + 1] \in Messages
           /\ a = LenBytes(Len(o[Len(i) + 1]))
           /\ Len(b) = Len(o[Len(i) + 1]) => b = o[Len(i) + 1]
<1> DEFINE m == o[Len(i) + 1]
           c == Cat(a, b)
<1>1. IntBytes \in Nat \ {0}
  BY TransmitAssumption
<1>2. c \in Seq(Bytes) /\ Len(c) = IntBytes + Len(b)
      /\ (\A j \in 1..IntBytes : c[j] = a[j]) /\ (\A j \in 1..Len(b) : c[IntBytes + j] = b[j])
  <2>1. c \in Seq(Bytes) /\ Len(c) = Len(a) + Len(b) /\ \A j \in 1..Len(b) : c[Len(a) + j] = b[j]
    BY CatParts
  <2>2. \A j \in 1..Len(a) : c[j] = a[j]
    BY CatLeft
  <2> HIDE DEF c
  <2> QED
    BY <1>1, <2>1, <2>2
<1>3. IsPrefix(Cat(x, c), y)
  <2>1. Cat(Cat(x, a), b) = Cat(x, c)
    BY CatAssociative
  <2> QED
    BY <2>1
<1> HIDE DEF c
<1>4. Len(i) < Len(o)
  <2>1. SUFFICES ASSUME Len(i) >= Len(o) PROVE FALSE
    OBVIOUS
  <2>2. x = y
    BY <2>1, PrefixWhole
  <2>3. Cat(x, c) \in Seq(Bytes) /\ Len(Cat(x, c)) = Len(x) + Len(c)
    BY <1>2, CatParts
  <2>4. Len(Cat(x, c)) <= Len(y)
    BY <1>1, <1>3, <2>3, PrefixElements
  <2>5. Len(c) > 0 /\ Len(x) \in Nat /\ Len(y) \in Nat
    BY <1>1, <1>2
  <2> QED
    BY <2>2, <2>3, <2>4, <2>5
<1>5. m \in Messages /\ Append(i, m) \in Seq(Messages) /\ IsPrefix(Append(i, m), o)
  BY <1>4, PrefixNext
<1> HIDE DEF m
<1> DEFINE f == Frame(m)
           l == LenBytes(Len(m))
<1>6. IsPrefix(Cat(x, f), y)
  <2>1. IsPrefix(Stream(Append(i, m)), y)
    BY <1>5, StreamPrefix
  <2>2. Stream(Append(i, m)) = Cat(x, f)
    BY <1>5, StreamAppend DEF Cat
  <2> QED
    BY <2>1, <2>2
<1>7. m \in Seq(Bytes) /\ l \in Seq(Bytes) /\ Len(l) = IntBytes
  BY <1>5, LengthBytes, TransmitAssumption
<1>8. f \in Seq(Bytes) /\ Len(f) = IntBytes + Len(m)
      /\ (\A j \in 1..IntBytes : f[j] = l[j]) /\ (\A j \in 1..Len(m) : f[IntBytes + j] = m[j])
  <2> HIDE DEF l
  <2>1. Cat(l, m) \in Seq(Bytes) /\ Len(Cat(l, m)) = IntBytes + Len(m)
        /\ (\A j \in 1..IntBytes : Cat(l, m)[j] = l[j])
        /\ (\A j \in 1..Len(m) : Cat(l, m)[IntBytes + j] = m[j])
    <3>1. Cat(l, m) \in Seq(Bytes) /\ Len(Cat(l, m)) = Len(l) + Len(m)
          /\ \A j \in 1..Len(m) : Cat(l, m)[Len(l) + j] = m[j]
      BY <1>7, CatParts, ZenonT(30)
    <3>2. \A j \in 1..Len(l) : Cat(l, m)[j] = l[j]
      BY <1>7, CatLeft
    <3> QED
      BY <1>1, <1>7, <3>1, <3>2
  <2>2. f = Cat(l, m)
    BY DEF Frame, l, Cat
  <2> QED
    BY <2>1, <2>2
<1> HIDE DEF f, l
<1>9. \A j \in 1..Len(c) : j <= Len(f) => c[j] = f[j]
  <2>1. c \in Seq(Bytes) /\ f \in Seq(Bytes)
    BY <1>2, <1>8
  <2> QED
    BY <1>3, <1>6, <2>1, SameContinuation
<1>10. Len(b) \in Nat /\ Len(m) \in Nat
  BY <1>7
<1>11. a = l
  <2>1. \A j \in 1..IntBytes : a[j] = l[j]
    BY <1>1, <1>2, <1>8, <1>9, <1>10
  <2> QED
    BY <1>7, <2>1, SeqEqual
<1>12. ASSUME Len(b) = Len(m) PROVE b = m
  <2>1. \A j \in 1..Len(b) : b[j] = m[j]
    <3>1. ASSUME NEW j \in 1..Len(b) PROVE b[j] = m[j]
      <4>1. IntBytes + j \in 1..Len(c) /\ IntBytes + j <= Len(f) /\ j \in 1..Len(m)
        BY <1>1, <1>2, <1>8, <1>10, <1>12
      <4>2. c[IntBytes + j] = f[IntBytes + j]
        BY <1>9, <4>1
      <4> QED
        BY <1>2, <1>8, <4>1, <4>2
    <3> QED
      BY <3>1
  <2> QED
    BY <1>7, <1>12, <2>1, SeqEqual
<1> QED
  BY <1>4, <1>5, <1>11, <1>12 DEF m, l

-----------------------------------------------------------------------------
(* Bytes that are moved.                                                   *)

\* What is behind the first t elements of a sequence.
LEMMA RestType ==
    ASSUME NEW S, NEW s \in Seq(S), NEW t \in Nat, t <= Len(s)
    PROVE  Cut(s, t + 1, Len(s)) \in Seq(S) /\ Len(Cut(s, t + 1, Len(s))) = Len(s) - t
BY DEF Cut

\* And its elements.
LEMMA RestElement ==
    ASSUME NEW S, NEW s \in Seq(S), NEW t \in Nat, t <= Len(s), NEW k \in 1..(Len(s) - t)
    PROVE  Cut(s, t + 1, Len(s))[k] = s[t + k]
BY DEF Cut

\* The rest of a sequence is what is cut off at its beginning and the rest of that.
LEMMA CutAndRest ==
    ASSUME NEW S, NEW s \in Seq(S), NEW t \in Nat, NEW n \in Nat, t + n <= Len(s)
    PROVE  Cat(Cut(Cut(s, t + 1, Len(s)), 1, n), Cut(s, t + n + 1, Len(s))) = Cut(s, t + 1, Len(s))
<1> DEFINE l == Len(s)
           v == t + n
           r == Cut(s, t + 1, Len(s))
           x == Cut(r, 1, n)
           y == Cut(s, v + 1, Len(s))
<1>1. l \in Nat /\ v \in Nat /\ t <= l /\ v <= l /\ t + n = v /\ t + n <= l
  OBVIOUS
<1>2. r \in Seq(S) /\ Len(r) = l - t
  BY <1>1, RestType
<1>3. y \in Seq(S) /\ Len(y) = l - t - n
  <2>1. y \in Seq(S) /\ Len(y) = l - v
    <3> HIDE DEF v
    <3> QED
      BY <1>1, RestType
  <2> HIDE DEF y, l
  <2> QED
    BY <1>1, <2>1
<1>4. \A k \in 1..(l - t) : r[k] = s[t + k]
  BY <1>1, RestElement
<1>5. \A k \in 1..(l - t - n) : y[k] = s[t + n + k]
  <2>1. \A k \in 1..(l - v) : y[k] = s[v + k]
    <3> HIDE DEF v
    <3> QED
      BY <1>1, RestElement
  <2> HIDE DEF y, l
  <2> QED
    BY <1>1, <2>1
<1> HIDE DEF r, y, v, l
<1>6. x \in Seq(S) /\ Len(x) = n
  <2>1. 1 \in Nat \ {0} /\ n <= Len(r) /\ 1 <= n + 1
    BY <1>1, <1>2
  <2>2. x \in Seq(S) /\ Len(x) = n + 1 - 1
    BY <1>2, <2>1, CutType
  <2> HIDE DEF x
  <2> QED
    BY <2>2
<1>7. \A k \in 1..n : x[k] = r[k]
  <2>1. ASSUME NEW k \in 1..n
        PROVE  x[k] = r[k]
    <3>1. k \in 1..(n + 1 - 1) /\ 1 + k - 1 = k /\ 1 \in Nat \ {0} /\ n <= Len(r)
      BY <1>1, <1>2
    <3>2. x[k] = r[1 + k - 1]
      BY <1>2, <3>1, CutElement
    <3> HIDE DEF x
    <3> QED
      BY <3>1, <3>2
  <2> QED
    BY <2>1
<1> HIDE DEF x
<1> DEFINE c == Cat(x, y)
<1>8. c \in Seq(S) /\ Len(c) = l - t
  <2>1. c \in Seq(S) /\ Len(c) = Len(x) + Len(y)
    BY <1>3, <1>6, CatType
  <2> HIDE DEF c
  <2> QED
    BY <1>1, <1>3, <1>6, <2>1
<1>9. ASSUME NEW j \in 1..(l - t)
      PROVE  c[j] = r[j]
  <2>1. CASE j <= n
    <3>1. j \in 1..Len(x) /\ j \in 1..n
      BY <1>6, <2>1
    <3>2. c[j] = x[j]
      BY <1>3, <1>6, <3>1, CatLeft
    <3> QED
      BY <1>7, <3>1, <3>2
  <2>2. CASE j > n
    <3> DEFINE k == j - n
    <3>1. k \in 1..Len(y) /\ k \in 1..(l - t - n) /\ Len(x) + k = j /\ t + n + k = t + j
      BY <1>1, <1>3, <1>6, <2>2
    <3> HIDE DEF k
    <3>2. c[Len(x) + k] = y[k]
      BY <1>3, <1>6, <3>1, CatRight
    <3>3. y[k] = s[t + n + k]
      BY <1>5, <3>1
    <3>4. r[j] = s[t + j]
      BY <1>4
    <3> HIDE DEF c
    <3> QED
      BY <3>1, <3>2, <3>3, <3>4
  <2> QED
    BY <1>1, <2>1, <2>2
<1>10. c = r
  <2> HIDE DEF c
  <2>1. Len(c) = Len(r) /\ \A j \in 1..Len(c) : c[j] = r[j]
    BY <1>2, <1>8, <1>9
  <2> QED
    BY <1>2, <1>8, <2>1, SeqEqual
<1> QED
  BY <1>10 DEF c, x, y, r, v, l

\* Bytes that go from what is unwritten into the connection.
LEMMA MoveIn ==
    ASSUME NEW a \in Seq(Bytes), NEW w \in Seq(Bytes), NEW x \in Seq(Bytes), NEW v \in Seq(Bytes),
           NEW u, Cat(x, v) = u
    PROVE  Cat(Cat(a, Cat(w, x)), v) = Cat(Cat(a, w), u)
<1>1. Cat(a, Cat(w, x)) = Cat(Cat(a, w), x)
  BY CatAssociative
<1>2. Cat(a, w) \in Seq(Bytes)
  BY CatType
<1>3. Cat(Cat(Cat(a, w), x), v) = Cat(Cat(a, w), Cat(x, v))
  BY <1>2, CatAssociative
<1> QED
  BY <1>1, <1>3

\* Bytes that go from the connection to what is taken.
LEMMA MoveOut ==
    ASSUME NEW a \in Seq(Bytes), NEW x \in Seq(Bytes), NEW y \in Seq(Bytes), NEW w, Cat(x, y) = w
    PROVE  Cat(Cat(a, x), y) = Cat(a, w)
BY CatAssociative

\* What is unwritten is a sequence of bytes.
LEMMA LeftBytes ==
    ASSUME NEW l, NEW t \in Nat, NEW d \in Seq(Bytes), NEW o \in Seq(Messages), SendOK(l, t, d, o)
    PROVE  Left(l, t, d) \in Seq(Bytes)
<1>0. IntBytes \in Nat
  BY TransmitAssumption
<1>1. CASE l = "send_len"
  <2>1. d \in Messages /\ t < IntBytes
    BY <1>1 DEF SendOK
  <2> DEFINE b == LenBytes(Len(d))
  <2>2. b \in Seq(Bytes) /\ Len(b) = IntBytes
    BY <2>1, LengthBytes
  <2> HIDE DEF b
  <2>3. Cut(b, t + 1, IntBytes) \in Seq(Bytes)
    <3>1. t <= Len(b)
      BY <1>0, <2>1, <2>2
    <3> QED
      BY <2>2, <3>1, RestType
  <2>4. Cat(Cut(b, t + 1, IntBytes), d) \in Seq(Bytes)
    BY <2>3, CatType
  <2> QED
    BY <1>1, <2>4 DEF Left, b
<1>2. CASE l = "send_data"
  <2>1. t < Len(d)
    BY <1>2 DEF SendOK
  <2>2. t <= Len(d)
    BY <2>1
  <2>3. Cut(d, t + 1, Len(d)) \in Seq(Bytes)
    BY <2>2, RestType
  <2> QED
    BY <1>2, <2>3 DEF Left
<1>3. CASE l \notin {"send_len", "send_data"}
  BY <1>3 DEF Left
<1> QED
  BY <1>1, <1>2, <1>3

\* What is taken is a sequence of bytes.
LEMMA TakenBytes ==
    ASSUME NEW i \in Seq(Messages), NEW b \in Seq(Bytes), NEW d \in Seq(Bytes)
    PROVE  Taken(i, b, d) \in Seq(Bytes)
<1>1. Stream(i) \in Seq(Bytes)
  BY StreamBytes
<1>2. Cat(Stream(i), b) \in Seq(Bytes)
  BY <1>1, CatType
<1> DEFINE e == IF Len(b) = IntBytes THEN d ELSE <<>>
<1>3. e \in Seq(Bytes)
  OBVIOUS
<1> HIDE DEF e
<1>4. Cat(Cat(Stream(i), b), e) \in Seq(Bytes)
  BY <1>2, <1>3, CatType
<1> QED
  BY <1>4 DEF Taken, e

\* Either way what is on the reader's side is a beginning of the stream.
LEMMA LinkPrefix ==
    ASSUME NEW ls, NEW lr, NEW a \in Seq(Bytes), NEW u \in Seq(Bytes), NEW o, Link(ls, lr, a, u, o)
    PROVE  IsPrefix(a, Stream(o))
<1>1. IsPrefix(a, Cat(a, u))
  BY CatPrefix
<1> QED
  BY <1>1 DEF Link

\* A turn of the first loop of send_len_data with all its bytes or some of them.
LEMMA LengthTurn ==
    ASSUME NEW m \in Messages, NEW t \in Nat, t < IntBytes,
           NEW r, r = Cut(LenBytes(Len(m)), t + 1, IntBytes), NEW n \in 1..Len(r)
    PROVE  /\ Cut(r, 1, n) \in Seq(Bytes) /\ Len(Cut(r, 1, n)) = n
           /\ n < Len(r) => /\ t + n < IntBytes
                            /\ Cat(Cut(r, 1, n), Left("send_len", t + n, m)) = Left("send_len", t, m)
           /\ n >= Len(r) => Cat(Cut(r, 1, n), m) = Left("send_len", t, m)
<1> DEFINE b == LenBytes(Len(m))
           x == Cut(r, 1, n)
           y == Cut(b, t + n + 1, Len(b))
<1>0. IntBytes \in Nat /\ m \in Seq(Bytes)
  BY TransmitAssumption
<1>1. b \in Seq(Bytes) /\ Len(b) = IntBytes
  BY LengthBytes
<1>2. Left("send_len", t, m) = Cat(r, m)
  BY DEF Left
<1>3. Left("send_len", t + n, m) = Cat(y, m)
  BY <1>1 DEF Left
<1>4. r = Cut(b, t + 1, Len(b))
  BY <1>1
<1> HIDE DEF b
<1>5. r \in Seq(Bytes) /\ Len(r) = IntBytes - t
  <2>1. t <= Len(b)
    BY <1>0, <1>1
  <2> QED
    BY <1>1, <1>4, <2>1, RestType
<1>6. x \in Seq(Bytes) /\ Len(x) = n
  <2>1. 1 \in Nat \ {0} /\ n \in Nat /\ n <= Len(r) /\ 1 <= n + 1 /\ n + 1 - 1 = n
    BY <1>0, <1>5
  <2> QED
    BY <1>5, <2>1, CutType
<1>7. t + n <= Len(b) /\ n \in Nat
  BY <1>0, <1>1, <1>5
<1>8. Cat(x, y) = r
  BY <1>1, <1>4, <1>7, CutAndRest
<1>9. ASSUME n < Len(r)
      PROVE  t + n < IntBytes /\ Cat(x, Left("send_len", t + n, m)) = Left("send_len", t, m)
  <2>1. t + n < IntBytes
    BY <1>0, <1>5, <1>9
  <2>2. y \in Seq(Bytes)
    <3> DEFINE v == t + n
    <3>1. v \in Nat /\ v <= Len(b)
      BY <1>0, <1>7
    <3> HIDE DEF v
    <3>2. Cut(b, v + 1, Len(b)) \in Seq(Bytes)
      BY <1>1, <3>1, RestType
    <3> QED
      BY <3>2 DEF v
  <2> HIDE DEF x, y
  <2>3. Cat(Cat(x, y), m) = Cat(x, Cat(y, m))
    BY <1>0, <1>6, <2>2, CatAssociative
  <2> QED
    BY <1>2, <1>3, <1>8, <2>1, <2>3
<1>10. ASSUME n >= Len(r)
      PROVE  Cat(x, m) = Left("send_len", t, m)
  <2>1. n = Len(r)
    BY <1>0, <1>5, <1>10
  <2>2. x = r
    BY <1>5, <2>1, CutAll
  <2> QED
    BY <1>2, <2>2
<1> QED
  BY <1>6, <1>9, <1>10

\* The second loop starts with all of the data.
LEMMA DataStart ==
    ASSUME NEW m \in Seq(Bytes)
    PROVE  Left("send_data", 0, m) = m
<1>1. Left("send_data", 0, m) = Cut(m, 0 + 1, Len(m))
  BY DEF Left
<1> QED
  BY <1>1, CutAll

\* The first one starts with all of the length.
LEMMA LengthStart ==
    ASSUME NEW m \in Messages
    PROVE  Left("send_len", 0, m) = Frame(m)
<1> DEFINE b == LenBytes(Len(m))
<1>1. b \in Seq(Bytes) /\ Len(b) = IntBytes
  BY LengthBytes
<1>2. Left("send_len", 0, m) = Cat(Cut(b, 1, IntBytes), m)
  BY DEF Left
<1>3. Frame(m) = Cat(b, m)
  BY DEF Frame, Cat
<1> HIDE DEF b
<1>4. Cut(b, 1, IntBytes) = b
  BY <1>1, CutAll
<1> QED
  BY <1>2, <1>3, <1>4

\* A turn of the second loop.
LEMMA DataTurn ==
    ASSUME NEW m \in Seq(Bytes), NEW t \in Nat, t < Len(m),
           NEW r, r = Cut(m, t + 1, Len(m)), NEW n \in 1..Len(r)
    PROVE  /\ Cut(r, 1, n) \in Seq(Bytes) /\ Len(Cut(r, 1, n)) = n
           /\ n < Len(r) => /\ t + n < Len(m)
                            /\ Cat(Cut(r, 1, n), Left("send_data", t + n, m)) = Left("send_data", t, m)
           /\ n >= Len(r) => Cat(Cut(r, 1, n), <<>>) = Left("send_data", t, m)
<1> DEFINE x == Cut(r, 1, n)
<1>1. Left("send_data", t, m) = r
  BY DEF Left
<1>2. Left("send_data", t + n, m) = Cut(m, t + n + 1, Len(m))
  BY DEF Left
<1>3. r \in Seq(Bytes) /\ Len(r) = Len(m) - t
  <2>1. t <= Len(m)
    OBVIOUS
  <2> QED
    BY <2>1, RestType
<1>4. x \in Seq(Bytes) /\ Len(x) = n
  <2>1. 1 \in Nat \ {0} /\ n \in Nat /\ n <= Len(r) /\ 1 <= n + 1 /\ n + 1 - 1 = n
    BY <1>3
  <2> QED
    BY <1>3, <2>1, CutType
<1>5. t + n <= Len(m) /\ n \in Nat
  BY <1>3
<1>6. Cat(x, Cut(m, t + n + 1, Len(m))) = r
  BY <1>5, CutAndRest
<1>7. n < Len(r) => t + n < Len(m)
  BY <1>3
<1>8. n >= Len(r) => x = r
  <2>1. n >= Len(r) => n = Len(r)
    BY <1>3
  <2> QED
    BY <1>3, <2>1, CutAll
<1>9. Cat(r, <<>>) = r
  BY <1>3, CatEmpty
<1> HIDE DEF x
<1> QED
  BY <1>1, <1>2, <1>4, <1>6, <1>7, <1>8, <1>9 DEF x

\* What read takes off a connection, and what it leaves.
LEMMA ReadTurn ==
    ASSUME NEW w \in Seq(Bytes), NEW n \in 1..Len(w)
    PROVE  /\ Cut(w, 1, n) \in Seq(Bytes) /\ Len(Cut(w, 1, n)) = n
           /\ Cut(w, n + 1, Len(w)) \in Seq(Bytes) /\ Len(Cut(w, n + 1, Len(w))) = Len(w) - n
           /\ Cat(Cut(w, 1, n), Cut(w, n + 1, Len(w))) = w
<1>1. /\ Len(w) \in Nat /\ n \in Nat /\ 1 \in Nat \ {0} /\ 0 \in Nat /\ 1 <= n + 1 /\ n + 1 - 1 = n
      /\ n + 1 \in Nat \ {0} /\ n <= Len(w) /\ Len(w) <= Len(w) /\ n + 1 <= Len(w) + 1
      /\ Len(w) + 1 - (n + 1) = Len(w) - n /\ 0 + n <= Len(w) /\ 0 + n + 1 = n + 1
  OBVIOUS
<1>2. Cut(w, 1, n) \in Seq(Bytes) /\ Len(Cut(w, 1, n)) = n
  BY <1>1, CutType
<1>3. Cut(w, n + 1, Len(w)) \in Seq(Bytes) /\ Len(Cut(w, n + 1, Len(w))) = Len(w) - n
  BY <1>1, RestType
<1>4. Cut(w, 0 + 1, Len(w)) = w
  BY CutAll
<1>5. Cat(Cut(Cut(w, 0 + 1, Len(w)), 1, n), Cut(w, 0 + n + 1, Len(w))) = Cut(w, 0 + 1, Len(w))
  BY <1>1, CutAndRest
<1>6. Cat(Cut(w, 1, n), Cut(w, n + 1, Len(w))) = w
  BY <1>1, <1>4, <1>5
<1> QED
  BY <1>2, <1>3, <1>6

-----------------------------------------------------------------------------
(* A step of one process.                                                  *)

\* Nothing changes but what p keeps and the two connections it has.
Elsewhere(p) ==
    /\ \A x \in Procs : x # p =>
          /\ pc'[x] = pc[x] /\ total'[x] = total[x] /\ lenbuf'[x] = lenbuf[x]
          /\ data'[x] = data[x] /\ out'[x] = out[x] /\ in'[x] = in[x]
    /\ \A q \in Pipes : q # p /\ q # p + 1 => pipe'[q] = pipe[q]

\* The place of p suits its position in the chain.
EndOK(p, l) ==
    /\ l = "idle" => p = 0
    /\ l \in {"send_len", "send_data"} => p # N
    /\ l \in {"recv_len", "recv_data"} => p # 0

\* The arithmetic of processes and connections.
LEMMA Neighbours ==
    /\ \A q \in Pipes : q \in Procs /\ q - 1 \in Procs /\ q # 0 /\ q - 1 # q /\ q - 1 # N
    /\ \A q \in Pipes : q - 1 + 1 = q
    /\ \A p \in Procs : p # 0 => p \in Pipes
    /\ \A p \in Procs : p # N => p + 1 \in Pipes /\ p + 1 \in Procs /\ p + 1 # p /\ p + 1 - 1 = p
    /\ 0 \in Procs /\ N \in Procs /\ N # 0
BY TransmitAssumption DEF Procs, Pipes

\* A step of p keeps the invariant when it keeps what the invariant says of p and of the
\* connections of p; what p was given to send can only grow.
LEMMA StepOf ==
    ASSUME TransInv, NEW p \in Procs, Elsewhere(p), Shapes', EndOK(p, pc'[p]),
           SendOK(pc'[p], total'[p], data'[p], out'[p]),
           p # 0 => RecvOK(pc'[p], total'[p], lenbuf'[p], data'[p]),
           p # 0 /\ p # N => out'[p] = in'[p],
           IsPrefix(out[p], out'[p]),
           p # 0 => IsPrefix(in'[p], out[p - 1]),
           p # 0 => Linked(p)',
           p # N => Linked(p + 1)'
    PROVE  TransInv'
<1>1. /\ out \in [Procs -> Seq(Messages)] /\ in \in [Procs -> Seq(Messages)]
      /\ out' \in [Procs -> Seq(Messages)] /\ in' \in [Procs -> Seq(Messages)]
  BY DEF TransInv, Shapes
<1>2. Ends'
  <2>1. ASSUME NEW x \in Procs
        PROVE  EndOK(x, pc'[x])
    <3>1. CASE x = p
      BY <3>1
    <3>2. CASE x # p
      <4>1. pc'[x] = pc[x]
        BY <3>2 DEF Elsewhere
      <4> QED
        BY <4>1 DEF TransInv, Ends, EndOK
    <3> QED
      BY <3>1, <3>2
  <2> QED
    BY <2>1 DEF Ends, EndOK
<1>3. \A x \in Procs : SendOK(pc'[x], total'[x], data'[x], out'[x])
  <2>1. ASSUME NEW x \in Procs, x # p
        PROVE  SendOK(pc'[x], total'[x], data'[x], out'[x])
    <3>1. SendOK(pc[x], total[x], data[x], out[x])
      BY DEF TransInv
    <3>2. pc'[x] = pc[x] /\ total'[x] = total[x] /\ data'[x] = data[x] /\ out'[x] = out[x]
      BY <2>1 DEF Elsewhere
    <3> QED
      BY <3>1, <3>2
  <2> QED
    BY <2>1
<1>4. \A q \in Pipes : RecvOK(pc'[q], total'[q], lenbuf'[q], data'[q])
  <2>1. ASSUME NEW q \in Pipes, q # p
        PROVE  RecvOK(pc'[q], total'[q], lenbuf'[q], data'[q])
    <3>1. RecvOK(pc[q], total[q], lenbuf[q], data[q])
      BY DEF TransInv
    <3>2. pc'[q] = pc[q] /\ total'[q] = total[q] /\ lenbuf'[q] = lenbuf[q] /\ data'[q] = data[q]
      BY <2>1, Neighbours DEF Elsewhere
    <3> QED
      BY <3>1, <3>2
  <2> QED
    BY <2>1, Neighbours
<1>5. \A x \in Procs \ {0, N} : out'[x] = in'[x]
  BY DEF TransInv, Elsewhere
<1>6. ASSUME NEW q \in Pipes
      PROVE  IsPrefix(in'[q], out'[q - 1])
  <2>0. q \in Procs /\ q - 1 \in Procs /\ q - 1 # q /\ q # 0
    BY Neighbours
  <2>1. CASE q = p
    <3>1. out'[q - 1] = out[q - 1]
      BY <2>0, <2>1 DEF Elsewhere
    <3> QED
      BY <2>0, <2>1, <3>1
  <2>2. CASE q # p
    <3>1. in'[q] = in[q] /\ IsPrefix(in[q], out[q - 1])
      BY <2>0, <2>2 DEF Elsewhere, TransInv
    <3>2. IsPrefix(out[q - 1], out'[q - 1]) \/ out'[q - 1] = out[q - 1]
      BY <2>0 DEF Elsewhere
    <3> DEFINE s == in[q]
               t == out[q - 1]
               u == out'[q - 1]
    <3>3. s \in Seq(Messages) /\ t \in Seq(Messages) /\ u \in Seq(Messages)
      BY <1>1, <2>0
    <3>4. IsPrefix(s, t) /\ (IsPrefix(t, u) \/ u = t) /\ in'[q] = s
      BY <3>1, <3>2
    <3> HIDE DEF s, t
    <3>5. IsPrefix(s, u)
      <4> HIDE DEF u
      <4> QED
        BY <3>3, <3>4, PrefixTransitive
    <3> QED
      BY <3>4, <3>5
  <2> QED
    BY <2>1, <2>2
<1>7. ASSUME NEW q \in Pipes
      PROVE  IsPrefix(in'[q], out'[0])
  <2>0. q \in Procs /\ q - 1 \in Procs /\ q - 1 # q /\ q # 0 /\ 0 \in Procs /\ q - 1 # N
    BY Neighbours
  <2>1. CASE p = 0
    <3> DEFINE s == in[q]
               t == out[0]
               u == out'[0]
    <3>1. s \in Seq(Messages) /\ t \in Seq(Messages) /\ u \in Seq(Messages)
      BY <1>1, <2>0
    <3>2. in'[q] = s /\ IsPrefix(s, t) /\ IsPrefix(t, u)
      BY <2>0, <2>1 DEF Elsewhere, TransInv
    <3> HIDE DEF s, t
    <3>3. IsPrefix(s, u)
      <4> HIDE DEF u
      <4> QED
        BY <3>1, <3>2, PrefixTransitive
    <3> QED
      BY <3>2, <3>3
  <2>2. CASE p # 0 /\ q # p
    BY <2>0, <2>2 DEF Elsewhere, TransInv
  <2>3. CASE p # 0 /\ q = p
    <3>1. out'[0] = out[0] /\ IsPrefix(in'[q], out[q - 1])
      BY <2>0, <2>3 DEF Elsewhere
    <3>2. CASE q - 1 = 0
      BY <3>1, <3>2
    <3>3. CASE q - 1 # 0
      <4>1. q - 1 \in Pipes /\ out[q - 1] = in[q - 1]
        BY <2>0, <3>3, Neighbours DEF TransInv
      <4>2. IsPrefix(out[q - 1], out[0])
        BY <4>1 DEF TransInv
      <4> DEFINE s == in'[q]
                 t == out[q - 1]
                 u == out[0]
      <4>3. s \in Seq(Messages) /\ t \in Seq(Messages) /\ u \in Seq(Messages)
        BY <1>1, <2>0
      <4>4. IsPrefix(s, t) /\ IsPrefix(t, u)
        BY <3>1, <4>2
      <4>5. IsPrefix(s, u)
        <5> HIDE DEF s, t, u
        <5> QED
          BY <4>3, <4>4, PrefixTransitive
      <4> QED
        BY <3>1, <4>5
    <3> QED
      BY <3>2, <3>3
  <2> QED
    BY <2>1, <2>2, <2>3
<1>8. ASSUME NEW q \in Pipes
      PROVE  Linked(q)'
  <2>0. q \in Procs /\ q - 1 \in Procs /\ q # 0 /\ (q - 1 = p => q = p + 1 /\ p # N)
    BY Neighbours
  <2>1. CASE q = p
    BY <2>0, <2>1
  <2>2. CASE q - 1 = p
    <3>1. q = p + 1 /\ p # N
      BY <2>0, <2>2
    <3> QED
      BY <3>1
  <2>3. CASE q # p /\ q - 1 # p
    <3>1. /\ pc'[q] = pc[q] /\ in'[q] = in[q] /\ lenbuf'[q] = lenbuf[q] /\ data'[q] = data[q]
          /\ pc'[q - 1] = pc[q - 1] /\ total'[q - 1] = total[q - 1] /\ data'[q - 1] = data[q - 1]
          /\ out'[q - 1] = out[q - 1]
      BY <2>0, <2>3 DEF Elsewhere
    <3>2. pipe'[q] = pipe[q]
      <4>1. q # p + 1
        BY <2>3 DEF Procs
      <4> QED
        BY <2>3, <4>1 DEF Elsewhere
    <3>3. Linked(q)
      BY DEF TransInv
    <3> QED
      BY <3>1, <3>2, <3>3 DEF Linked
  <2> QED
    BY <2>1, <2>2, <2>3
<1> QED
  BY <1>2, <1>3, <1>4, <1>5, <1>6, <1>7, <1>8 DEF TransInv

\* A sequence is a beginning of itself.
LEMMA PrefixSelf ==
    ASSUME NEW S, NEW s \in Seq(S)
    PROVE  IsPrefix(s, s)
BY PrefixElements

\* The bytes on the two sides of a connection.
Reader(q) == Cat(Taken(in[q], lenbuf[q], data[q]), pipe[q])
Writer(q) == Left(pc[q - 1], total[q - 1], data[q - 1])

\* They are bytes, and the reader's are a beginning of the stream.
LEMMA SidesOf ==
    ASSUME TransInv, NEW q \in Pipes
    PROVE  /\ Taken(in[q], lenbuf[q], data[q]) \in Seq(Bytes) /\ pipe[q] \in Seq(Bytes)
           /\ Reader(q) \in Seq(Bytes) /\ Writer(q) \in Seq(Bytes)
           /\ out[q - 1] \in Seq(Messages)
           /\ Link(pc[q - 1], pc[q], Reader(q), Writer(q), out[q - 1])
           /\ IsPrefix(Reader(q), Stream(out[q - 1]))
<1>1. q \in Procs /\ q - 1 \in Procs
  BY Neighbours
<1>2. /\ in[q] \in Seq(Messages) /\ lenbuf[q] \in Seq(Bytes) /\ data[q] \in Seq(Bytes)
      /\ pipe[q] \in Seq(Bytes) /\ out[q - 1] \in Seq(Messages)
      /\ total[q - 1] \in Nat /\ data[q - 1] \in Seq(Bytes)
  BY <1>1 DEF TransInv, Shapes
<1>3. SendOK(pc[q - 1], total[q - 1], data[q - 1], out[q - 1])
  BY <1>1 DEF TransInv
<1>4. Taken(in[q], lenbuf[q], data[q]) \in Seq(Bytes)
  BY <1>2, TakenBytes
<1>5. Reader(q) \in Seq(Bytes)
  BY <1>2, <1>4, CatType DEF Reader
<1>6. Writer(q) \in Seq(Bytes)
  BY <1>2, <1>3, LeftBytes DEF Writer
<1>7. Link(pc[q - 1], pc[q], Reader(q), Writer(q), out[q - 1])
  BY DEF TransInv, Linked, Reader, Writer
<1>8. IsPrefix(Reader(q), Stream(out[q - 1]))
  BY <1>5, <1>6, <1>7, LinkPrefix
<1> QED
  BY <1>2, <1>4, <1>5, <1>6, <1>7, <1>8

\* A connection whose writer is given another message to send.
LEMMA LinkGrow ==
    ASSUME NEW ls, NEW lr, NEW a \in Seq(Bytes), NEW o \in Seq(Messages), NEW m \in Messages,
           ls # "exited", Link(ls, lr, a, <<>>, o)
    PROVE  Link("send_len", lr, a, Left("send_len", 0, m), Append(o, m))
<1>1. Left("send_len", 0, m) = Frame(m)
  BY LengthStart
<1>2. Stream(Append(o, m)) = Cat(Stream(o), Frame(m))
  BY StreamAppend DEF Cat
<1>3. Stream(o) \in Seq(Bytes) /\ Frame(m) \in Seq(Bytes)
  BY StreamBytes, FrameBytes
<1>4. CASE lr = "exited"
  <2>1. IsPrefix(a, Stream(o))
    BY <1>4 DEF Link
  <2>2. IsPrefix(Stream(o), Cat(Stream(o), Frame(m))) /\ Cat(Stream(o), Frame(m)) \in Seq(Bytes)
    BY <1>3, CatPrefix, CatType
  <2>3. IsPrefix(a, Cat(Stream(o), Frame(m)))
    BY <1>3, <2>1, <2>2, PrefixTransitive
  <2> QED
    BY <1>2, <1>4, <2>3 DEF Link
<1>5. CASE lr # "exited"
  <2>1. Cat(a, <<>>) = Stream(o)
    BY <1>5 DEF Link
  <2>2. Cat(a, <<>>) = a
    BY CatEmpty
  <2> QED
    BY <1>1, <1>2, <1>5, <2>1, <2>2 DEF Link
<1> QED
  BY <1>4, <1>5

\* A process exits in whatever loop it is.
LEMMA ExitStep ==
    ASSUME TransInv, NEW p \in Procs, At(p, "exited"),
           UNCHANGED <<total, lenbuf, data, pipe, out, in>>
    PROVE  TransInv'
<1>1. pc' = [pc EXCEPT ![p] = "exited"] /\ Shapes
  BY DEF At, TransInv
<1>2. pc'[p] = "exited" /\ \A x \in Procs : x # p => pc'[x] = pc[x]
  BY <1>1 DEF Shapes
<1>3. Shapes'
  BY <1>1 DEF Shapes
<1>4. Elsewhere(p)
  BY <1>2 DEF Elsewhere
<1>5. EndOK(p, pc'[p]) /\ SendOK(pc'[p], total'[p], data'[p], out'[p])
  BY <1>2 DEF EndOK, SendOK
<1>6. p # 0 => RecvOK(pc'[p], total'[p], lenbuf'[p], data'[p])
  BY <1>2, Neighbours DEF RecvOK, TransInv
<1>7. p # 0 /\ p # N => out'[p] = in'[p]
  BY DEF TransInv
<1>8. IsPrefix(out[p], out'[p])
  BY <1>1, PrefixSelf DEF Shapes
<1>9. p # 0 => IsPrefix(in'[p], out[p - 1])
  BY Neighbours DEF TransInv
<1>10. ASSUME p # 0 PROVE Linked(p)'
  <2>1. p \in Pipes
    BY <1>10, Neighbours
  <2>2. IsPrefix(Reader(p), Stream(out[p - 1]))
    BY <2>1, SidesOf
  <2> QED
    BY <1>2, <2>2 DEF Linked, Link, Reader
<1>11. ASSUME p # N PROVE Linked(p + 1)'
  <2> DEFINE q == p + 1
  <2>1. q \in Pipes /\ q - 1 = p
    BY <1>11, TransmitAssumption DEF Procs, Pipes
  <2> HIDE DEF q
  <2>2. IsPrefix(Reader(q), Stream(out[q - 1]))
    BY <2>1, SidesOf
  <2>3. Linked(q)'
    BY <1>2, <2>1, <2>2 DEF Linked, Link, Reader
  <2> QED
    BY <2>3 DEF q
<1> QED
  BY <1>3, <1>4, <1>5, <1>6, <1>7, <1>8, <1>9, <1>10, <1>11, StepOf

\* The sender is given a message.
LEMMA SubmitStep ==
    ASSUME TransInv, Submit
    PROVE  TransInv'
<1>1. Shapes /\ 0 \in Procs /\ 0 # N /\ pc[0] = "idle" /\ 1 \in Pipes /\ IntBytes \in Nat \ {0}
  BY Neighbours, TransmitAssumption DEF Submit, TransInv, Pipes
<1>2. PICK m \in Messages : /\ data' = [data EXCEPT ![0] = m]
                            /\ out' = [out EXCEPT ![0] = Append(@, m)]
  BY DEF Submit
<1>3. m \in Seq(Bytes)
  BY TransmitAssumption
<1>4. /\ pc' = [pc EXCEPT ![0] = "send_len"] /\ total' = [total EXCEPT ![0] = 0]
      /\ lenbuf' = lenbuf /\ pipe' = pipe /\ in' = in
  BY DEF Submit, At
<1>5. /\ pc'[0] = "send_len" /\ total'[0] = 0 /\ data'[0] = m /\ out'[0] = Append(out[0], m)
      /\ \A x \in Procs : x # 0 => /\ pc'[x] = pc[x] /\ total'[x] = total[x]
                                   /\ data'[x] = data[x] /\ out'[x] = out[x]
  BY <1>1, <1>2, <1>4 DEF Shapes
<1>6. out[0] \in Seq(Messages) /\ Append(out[0], m) \in Seq(Messages)
  BY <1>1 DEF Shapes
<1>7. Shapes'
  <2>1. pc' \in [Procs -> {"idle", "send_len", "send_data", "recv_len", "recv_data", "exited"}]
    BY <1>1, <1>4 DEF Shapes
  <2>2. total' \in [Procs -> Nat]
    BY <1>1, <1>4 DEF Shapes
  <2>3. out' \in [Procs -> Seq(Messages)]
    BY <1>1, <1>2, <1>6 DEF Shapes
  <2>4. data' \in [Procs -> Seq(Bytes)]
    BY <1>1, <1>2, <1>3 DEF Shapes
  <2> QED
    BY <1>1, <1>4, <2>1, <2>2, <2>3, <2>4 DEF Shapes
<1>8. Elsewhere(0)
  BY <1>4, <1>5 DEF Elsewhere
<1>9. EndOK(0, pc'[0]) /\ SendOK(pc'[0], total'[0], data'[0], out'[0])
  <2>1. Append(out[0], m) # <<>> /\ Append(out[0], m)[Len(Append(out[0], m))] = m
    BY <1>6
  <2> QED
    BY <1>1, <1>5, <2>1 DEF EndOK, SendOK
<1>10. IsPrefix(out[0], out'[0])
  <2> DEFINE s == out[0]
             u == Append(s, m)
  <2>1. u \in Seq(Messages) /\ Len(s) <= Len(u) /\ \A i \in 1..Len(s) : s[i] = u[i]
    BY <1>6
  <2>2. s \in Seq(Messages)
    BY <1>6
  <2> HIDE DEF s, u
  <2>3. IsPrefix(s, u)
    BY <2>1, <2>2, PrefixElements
  <2> QED
    BY <1>5, <2>3 DEF s, u
<1>11. Linked(0 + 1)'
  <2>1. Link(pc[1 - 1], pc[1], Reader(1), Writer(1), out[1 - 1]) /\ Reader(1) \in Seq(Bytes)
    BY <1>1, SidesOf
  <2>2. 1 - 1 = 0 /\ 0 + 1 = 1
    OBVIOUS
  <2>3. Writer(1) = <<>>
    BY <1>1, <2>2 DEF Writer, Left
  <2>4. Link(pc[0], pc[1], Reader(1), <<>>, out[0])
    BY <2>1, <2>2, <2>3
  <2>5. Link("send_len", pc[1], Reader(1), Left("send_len", 0, m), Append(out[0], m))
    BY <1>1, <1>6, <2>1, <2>4, LinkGrow
  <2>6. pc'[1] = pc[1] /\ Reader(1)' = Reader(1)
    BY <1>1, <1>4, <1>5, Neighbours DEF Reader
  <2>7. Link(pc'[0], pc'[1], Reader(1)', Left(pc'[0], total'[0], data'[0]), out'[0])
    BY <1>5, <2>5, <2>6
  <2> QED
    BY <2>2, <2>7 DEF Linked, Reader
<1> QED
  BY <1>1, <1>7, <1>8, <1>9, <1>10, <1>11, StepOf

\* A process writes the bytes x, unless the reader has exited, and goes to l with t.
LEMMA WriteStep ==
    ASSUME TransInv, NEW p \in Procs, p # N, pc[p] \in {"send_len", "send_data"},
           NEW x \in Seq(Bytes),
           \/ Exited(p + 1) /\ pipe' = pipe
           \/ /\ ~ Exited(p + 1) /\ Len(pipe[p + 1]) + Len(x) <= SockBuf
              /\ pipe' = [pipe EXCEPT ![p + 1] = Cat(@, x)],
           NEW l \in {"idle", "send_len", "send_data", "recv_len", "recv_data"},
           pc' = [pc EXCEPT ![p] = l],
           NEW t \in Nat, total' = [total EXCEPT ![p] = t],
           UNCHANGED <<lenbuf, data, out, in>>,
           EndOK(p, l), SendOK(l, t, data[p], out[p]),
           p # 0 => RecvOK(l, t, lenbuf[p], data[p]),
           Cat(x, Left(l, t, data[p])) = Left(pc[p], total[p], data[p])
    PROVE  TransInv'
<1> DEFINE q == p + 1
<1>1. q \in Pipes /\ q - 1 = p /\ q \in Procs /\ q # p
  BY TransmitAssumption DEF Procs, Pipes
<1>2. Shapes
  BY DEF TransInv
<1>3. pc'[p] = l /\ total'[p] = t /\ \A z \in Procs : z # p => pc'[z] = pc[z] /\ total'[z] = total[z]
  BY <1>2 DEF Shapes
<1> DEFINE w == pipe[q]
           v == pipe'[q]
<1>4. \A z \in Pipes : z # q => pipe'[z] = pipe[z]
  BY <1>2 DEF Shapes
<1>5. w \in Seq(Bytes) /\ Len(w) <= SockBuf
  BY <1>1, <1>2 DEF Shapes
<1>6. \/ pc[q] = "exited" /\ v = w
      \/ pc[q] # "exited" /\ v = Cat(w, x) /\ Len(w) + Len(x) <= SockBuf
  BY <1>1, <1>2 DEF Shapes, Exited
<1>7. pipe' = [pipe EXCEPT ![q] = v]
  BY <1>1, <1>2 DEF Shapes
<1> HIDE DEF q, w
<1>8. v \in Seq(Bytes) /\ Len(v) <= SockBuf
  <2>1. Cat(w, x) \in Seq(Bytes) /\ Len(Cat(w, x)) = Len(w) + Len(x)
    BY <1>5, CatType
  <2> HIDE DEF v
  <2> QED
    BY <1>5, <1>6, <2>1
<1>9. Shapes'
  <2>1. pc' \in [Procs -> {"idle", "send_len", "send_data", "recv_len", "recv_data", "exited"}]
    BY <1>2 DEF Shapes
  <2>2. total' \in [Procs -> Nat]
    BY <1>2 DEF Shapes
  <2>3. pipe' \in [Pipes -> Seq(Bytes)]
    <3> HIDE DEF v
    <3> QED
      BY <1>1, <1>2, <1>7, <1>8 DEF Shapes
  <2>4. \A z \in Pipes : Len(pipe'[z]) <= SockBuf
    BY <1>2, <1>4, <1>8 DEF Shapes
  <2> QED
    BY <1>2, <2>1, <2>2, <2>3, <2>4 DEF Shapes
<1>10. Elsewhere(p)
  <2>1. q = p + 1
    BY DEF q
  <2> QED
    BY <1>3, <1>4, <2>1 DEF Elsewhere
<1>11. EndOK(p, pc'[p]) /\ SendOK(pc'[p], total'[p], data'[p], out'[p])
  BY <1>3
<1>12. p # 0 => RecvOK(pc'[p], total'[p], lenbuf'[p], data'[p])
  BY <1>3
<1>13. p # 0 /\ p # N => out'[p] = in'[p]
  BY DEF TransInv
<1>14. IsPrefix(out[p], out'[p])
  BY <1>2, PrefixSelf DEF Shapes
<1>15. p # 0 => IsPrefix(in'[p], out[p - 1])
  BY Neighbours DEF TransInv
<1>16. ASSUME p # 0 PROVE Linked(p)'
  <2>1. p \in Pipes /\ p - 1 \in Procs /\ p - 1 # p /\ p # q
    BY <1>1, <1>16, Neighbours
  <2>2. Linked(p)
    BY <2>1 DEF TransInv
  <2>3. pipe'[p] = pipe[p] /\ pc'[p - 1] = pc[p - 1] /\ total'[p - 1] = total[p - 1]
    BY <1>3, <1>4, <2>1
  <2>4. pc[p] # "exited" /\ pc'[p] # "exited"
    BY <1>3
  <2> QED
    BY <2>2, <2>3, <2>4 DEF Linked, Link
<1>17. Linked(q)'
  <2> DEFINE a == Taken(in[q], lenbuf[q], data[q])
             u == Left(pc[p], total[p], data[p])
             z == Left(l, t, data[p])
             o == out[p]
  <2>1. /\ a \in Seq(Bytes) /\ Link(pc[p], pc[q], Cat(a, w), u, o)
        /\ IsPrefix(Cat(a, w), Stream(o))
    BY <1>1, SidesOf DEF Reader, Writer, w
  <2>2. z \in Seq(Bytes)
    BY <1>2, LeftBytes DEF Shapes
  <2>3. Cat(x, z) = u
    OBVIOUS
  <2>4. pc[p] # "exited" /\ l # "exited"
    OBVIOUS
  <2> HIDE DEF a, u, z, o
  <2>5. Link(l, pc[q], Cat(a, v), z, o)
    <3>1. CASE pc[q] = "exited"
      BY <1>6, <2>1, <3>1 DEF Link
    <3>2. CASE pc[q] # "exited"
      <4>1. Cat(Cat(a, Cat(w, x)), z) = Cat(Cat(a, w), u)
        BY <1>5, <2>1, <2>2, <2>3, MoveIn
      <4>2. v = Cat(w, x)
        BY <1>6, <3>2
      <4>3. Cat(Cat(a, w), u) = Stream(o)
        BY <2>1, <2>4, <3>2 DEF Link
      <4> QED
        BY <2>4, <3>2, <4>1, <4>2, <4>3 DEF Link
    <3> QED
      BY <3>1, <3>2
  <2>6. pc'[q - 1] = l /\ total'[q - 1] = t /\ pc'[q] = pc[q] /\ data'[q - 1] = data[p]
    BY <1>1, <1>3
  <2> QED
    BY <1>1, <2>5, <2>6 DEF Linked, a, z, o
<1> QED
  BY <1>9, <1>10, <1>11, <1>12, <1>13, <1>14, <1>15, <1>16, <1>17, StepOf DEF q

\* A turn of the first loop of send_len_data.
LEMMA SendLenStep ==
    ASSUME TransInv, NEW p \in Procs, p # N, SendLen(p)
    PROVE  TransInv'
<1> DEFINE m == data[p]
           r == Cut(LenBytes(Len(m)), total[p] + 1, IntBytes)
<1>0. IntBytes \in Nat \ {0}
  BY TransmitAssumption
<1>1. Shapes /\ pc[p] = "send_len" /\ SendOK(pc[p], total[p], data[p], out[p])
  BY DEF TransInv, SendLen
<1>2. PICK n \in 1..Len(r) :
         /\ Write(p, r, n)
         /\ IF n < Len(r)
            THEN total' = [total EXCEPT ![p] = @ + n] /\ pc' = pc
            ELSE /\ total' = [total EXCEPT ![p] = 0]
                 /\ pc' = [pc EXCEPT ![p] = IF m = <<>> THEN AfterSend(p) ELSE "send_data"]
  BY DEF SendLen, Cut, At
<1>3. UNCHANGED <<lenbuf, data, out, in>>
  BY DEF SendLen
<1> DEFINE t == total[p]
<1>4. m \in Messages /\ t \in Nat /\ t < IntBytes /\ m \in Seq(Bytes) /\ m = out[p][Len(out[p])]
      /\ out[p] # <<>>
  BY <1>1 DEF SendOK, Shapes
<1> DEFINE x == Cut(r, 1, n)
<1>5. /\ x \in Seq(Bytes) /\ Len(x) = n
      /\ n < Len(r) => t + n < IntBytes /\ Cat(x, Left("send_len", t + n, m)) = Left("send_len", t, m)
      /\ n >= Len(r) => Cat(x, m) = Left("send_len", t, m)
  <2> HIDE DEF m, t
  <2>1. r = Cut(LenBytes(Len(m)), t + 1, IntBytes)
    BY DEF t
  <2> HIDE DEF r
  <2> QED
    BY <1>4, <2>1, LengthTurn
<1>6. \/ Exited(p + 1) /\ pipe' = pipe
      \/ /\ ~ Exited(p + 1) /\ Len(pipe[p + 1]) + Len(x) <= SockBuf
         /\ pipe' = [pipe EXCEPT ![p + 1] = Cat(@, x)]
  <2>1. \/ Exited(p + 1) /\ pipe' = pipe
        \/ /\ ~ Exited(p + 1) /\ Len(pipe[p + 1]) + n <= SockBuf
           /\ pipe' = [pipe EXCEPT ![p + 1] = Cat(@, x)]
    <3> HIDE DEF r
    <3> QED
      BY <1>2 DEF Write, Cut, Cat
  <2> HIDE DEF x
  <2> QED
    BY <1>5, <2>1
<1>7. p # 0 => lenbuf[p] = <<>>
  BY <1>1, Neighbours DEF TransInv, RecvOK
<1>8. n \in Nat /\ t + n \in Nat /\ Len(r) \in Nat
  <2>1. n \in Nat
    OBVIOUS
  <2>2. Len(r) \in Nat
    <3> HIDE DEF m, t
    <3>1. Len(LenBytes(Len(m))) = IntBytes /\ LenBytes(Len(m)) \in Seq(Bytes)
      BY <1>4, LengthBytes
    <3> DEFINE b == LenBytes(Len(m))
    <3>2. r = Cut(b, t + 1, Len(b)) /\ b \in Seq(Bytes) /\ t <= Len(b)
      BY <1>0, <1>4, <3>1 DEF t
    <3> HIDE DEF b, r
    <3>3. Cut(b, t + 1, Len(b)) \in Seq(Bytes)
      BY <1>4, <3>2, RestType
    <3> QED
      BY <3>2, <3>3
  <2> QED
    BY <1>4, <2>1, <2>2
<1> HIDE DEF r, x
<1>9. CASE n < Len(r)
  <2> DEFINE u == t + n
  <2>1. /\ pc' = [pc EXCEPT ![p] = "send_len"] /\ total' = [total EXCEPT ![p] = u]
        /\ u \in Nat /\ u < IntBytes
    BY <1>1, <1>2, <1>5, <1>8, <1>9 DEF Shapes
  <2>2. Cat(x, Left("send_len", u, data[p])) = Left(pc[p], total[p], data[p])
    BY <1>1, <1>5, <1>9
  <2> HIDE DEF u, t, m
  <2>3. EndOK(p, "send_len") /\ SendOK("send_len", u, data[p], out[p])
    BY <1>4, <2>1 DEF EndOK, SendOK, m
  <2>4. p # 0 => RecvOK("send_len", u, lenbuf[p], data[p])
    BY <1>0, <1>7 DEF RecvOK
  <2> QED
    BY <1>1, <1>3, <1>5, <1>6, <2>1, <2>2, <2>3, <2>4, WriteStep
<1>10. CASE ~ (n < Len(r)) /\ m # <<>>
  <2>1. /\ pc' = [pc EXCEPT ![p] = "send_data"] /\ total' = [total EXCEPT ![p] = 0]
    BY <1>2, <1>10
  <2>2. Cat(x, Left("send_data", 0, data[p])) = Left(pc[p], total[p], data[p])
    <3>1. Left("send_data", 0, m) = m
      BY <1>4, DataStart
    <3> QED
      BY <1>1, <1>5, <1>8, <1>10, <3>1
  <2>3. EndOK(p, "send_data") /\ SendOK("send_data", 0, data[p], out[p])
    <3>1. 0 < Len(m)
      BY <1>4, <1>10
    <3> QED
      BY <1>4, <3>1 DEF EndOK, SendOK
  <2>4. p # 0 => RecvOK("send_data", 0, lenbuf[p], data[p])
    BY <1>0, <1>7 DEF RecvOK
  <2> HIDE DEF t, m
  <2> QED
    BY <1>1, <1>3, <1>5, <1>6, <2>1, <2>2, <2>3, <2>4, WriteStep
<1>11. CASE ~ (n < Len(r)) /\ m = <<>>
  <2> DEFINE l == AfterSend(p)
  <2>1. /\ pc' = [pc EXCEPT ![p] = l] /\ total' = [total EXCEPT ![p] = 0]
    BY <1>2, <1>11
  <2>2. l = IF p = 0 THEN "idle" ELSE "recv_len"
    BY DEF AfterSend
  <2> HIDE DEF l
  <2>3. Left(l, 0, data[p]) = <<>>
    BY <2>2 DEF Left
  <2>4. Cat(x, Left(l, 0, data[p])) = Left(pc[p], total[p], data[p])
    BY <1>1, <1>5, <1>8, <1>11, <2>3
  <2>5. EndOK(p, l) /\ SendOK(l, 0, data[p], out[p])
    BY <2>2 DEF EndOK, SendOK
  <2>6. p # 0 => RecvOK(l, 0, lenbuf[p], data[p])
    BY <1>0, <1>7, <2>2 DEF RecvOK
  <2>7. l \in {"idle", "send_len", "send_data", "recv_len", "recv_data"}
    BY <2>2
  <2> HIDE DEF t, m
  <2> QED
    BY <1>1, <1>3, <1>5, <1>6, <2>1, <2>4, <2>5, <2>6, <2>7, WriteStep
<1> QED
  BY <1>9, <1>10, <1>11

\* A turn of its second loop.
LEMMA SendDataStep ==
    ASSUME TransInv, NEW p \in Procs, p # N, SendData(p)
    PROVE  TransInv'
<1> DEFINE m == data[p]
           t == total[p]
           r == Cut(m, t + 1, Len(m))
<1>0. IntBytes \in Nat \ {0}
  BY TransmitAssumption
<1>1. Shapes /\ pc[p] = "send_data" /\ SendOK(pc[p], total[p], data[p], out[p])
  BY DEF TransInv, SendData
<1>2. PICK n \in 1..Len(r) :
         /\ Write(p, r, n)
         /\ IF n < Len(r)
            THEN total' = [total EXCEPT ![p] = @ + n] /\ pc' = pc
            ELSE total' = [total EXCEPT ![p] = 0] /\ pc' = [pc EXCEPT ![p] = AfterSend(p)]
  BY DEF SendData, Cut, At
<1>3. UNCHANGED <<lenbuf, data, out, in>>
  BY DEF SendData
<1>4. t \in Nat /\ t < Len(m) /\ m \in Seq(Bytes) /\ m = out[p][Len(out[p])] /\ out[p] # <<>>
  BY <1>1 DEF SendOK, Shapes
<1> DEFINE x == Cut(r, 1, n)
<1>5. /\ x \in Seq(Bytes) /\ Len(x) = n
      /\ n < Len(r) => t + n < Len(m) /\ Cat(x, Left("send_data", t + n, m)) = Left("send_data", t, m)
      /\ n >= Len(r) => Cat(x, <<>>) = Left("send_data", t, m)
  <2> HIDE DEF m, t
  <2>1. r = Cut(m, t + 1, Len(m))
    BY DEF t
  <2> HIDE DEF r
  <2> QED
    BY <1>4, <2>1, DataTurn
<1>6. \/ Exited(p + 1) /\ pipe' = pipe
      \/ /\ ~ Exited(p + 1) /\ Len(pipe[p + 1]) + Len(x) <= SockBuf
         /\ pipe' = [pipe EXCEPT ![p + 1] = Cat(@, x)]
  <2>1. \/ Exited(p + 1) /\ pipe' = pipe
        \/ /\ ~ Exited(p + 1) /\ Len(pipe[p + 1]) + n <= SockBuf
           /\ pipe' = [pipe EXCEPT ![p + 1] = Cat(@, x)]
    <3> HIDE DEF r
    <3> QED
      BY <1>2 DEF Write, Cut, Cat
  <2> HIDE DEF x
  <2> QED
    BY <1>5, <2>1
<1>7. p # 0 => lenbuf[p] = <<>>
  BY <1>1, Neighbours DEF TransInv, RecvOK
<1>8. n \in Nat /\ t + n \in Nat /\ Len(r) \in Nat
  <2>1. n \in Nat
    OBVIOUS
  <2>2. Len(r) \in Nat
    <3> HIDE DEF m, t
    <3>1. r \in Seq(Bytes)
      BY <1>4, RestType
    <3> HIDE DEF r
    <3> QED
      BY <3>1
  <2> QED
    BY <1>4, <2>1, <2>2
<1> HIDE DEF r, x
<1>9. CASE n < Len(r)
  <2> DEFINE u == t + n
  <2>1. /\ pc' = [pc EXCEPT ![p] = "send_data"] /\ total' = [total EXCEPT ![p] = u]
        /\ u \in Nat /\ u < Len(m)
    BY <1>1, <1>2, <1>5, <1>8, <1>9 DEF Shapes
  <2>2. Cat(x, Left("send_data", u, data[p])) = Left(pc[p], total[p], data[p])
    BY <1>1, <1>5, <1>9
  <2> HIDE DEF u, t, m
  <2>3. EndOK(p, "send_data") /\ SendOK("send_data", u, data[p], out[p])
    BY <1>4, <2>1 DEF EndOK, SendOK, m
  <2>4. p # 0 => RecvOK("send_data", u, lenbuf[p], data[p])
    BY <1>0, <1>7 DEF RecvOK
  <2> QED
    BY <1>1, <1>3, <1>5, <1>6, <2>1, <2>2, <2>3, <2>4, WriteStep
<1>10. CASE ~ (n < Len(r))
  <2> DEFINE l == AfterSend(p)
  <2>1. /\ pc' = [pc EXCEPT ![p] = l] /\ total' = [total EXCEPT ![p] = 0]
    BY <1>2, <1>10
  <2>2. l = IF p = 0 THEN "idle" ELSE "recv_len"
    BY DEF AfterSend
  <2> HIDE DEF l
  <2>3. Left(l, 0, data[p]) = <<>>
    BY <2>2 DEF Left
  <2>4. Cat(x, Left(l, 0, data[p])) = Left(pc[p], total[p], data[p])
    BY <1>1, <1>5, <1>8, <1>10, <2>3
  <2>5. EndOK(p, l) /\ SendOK(l, 0, data[p], out[p])
    BY <2>2 DEF EndOK, SendOK
  <2>6. p # 0 => RecvOK(l, 0, lenbuf[p], data[p])
    BY <1>0, <1>7, <2>2 DEF RecvOK
  <2>7. l \in {"idle", "send_len", "send_data", "recv_len", "recv_data"}
    BY <2>2
  <2> HIDE DEF t, m
  <2> QED
    BY <1>1, <1>3, <1>5, <1>6, <2>1, <2>4, <2>5, <2>6, <2>7, WriteStep
<1> QED
  BY <1>9, <1>10

\* A read that does not complete a message: x goes from the connection to what is taken.
LEMMA ReadStep ==
    ASSUME TransInv, NEW q \in Pipes, pc[q] \in {"recv_len", "recv_data"},
           NEW x \in Seq(Bytes), NEW y \in Seq(Bytes), Cat(x, y) = pipe[q], Len(y) <= SockBuf,
           pipe' = [pipe EXCEPT ![q] = y],
           NEW l \in {"recv_len", "recv_data"}, pc' = [pc EXCEPT ![q] = l],
           NEW t \in Nat, total' = [total EXCEPT ![q] = t],
           NEW b \in Seq(Bytes), lenbuf' = [lenbuf EXCEPT ![q] = b],
           NEW d \in Seq(Bytes), data' = [data EXCEPT ![q] = d],
           UNCHANGED <<out, in>>, RecvOK(l, t, b, d),
           Taken(in[q], b, d) = Cat(Taken(in[q], lenbuf[q], data[q]), x)
    PROVE  TransInv'
<1>1. q \in Procs /\ q - 1 \in Procs /\ q # 0 /\ q - 1 # q
  BY Neighbours
<1>2. Shapes
  BY DEF TransInv
<1>3. pc'[q] = l /\ total'[q] = t /\ lenbuf'[q] = b /\ data'[q] = d /\ pipe'[q] = y
  BY <1>1, <1>2 DEF Shapes
<1>4. /\ \A z \in Procs : z # q => /\ pc'[z] = pc[z] /\ total'[z] = total[z]
                                   /\ lenbuf'[z] = lenbuf[z] /\ data'[z] = data[z]
      /\ \A z \in Pipes : z # q => pipe'[z] = pipe[z]
  BY <1>2 DEF Shapes
<1>5. Shapes'
  <2>1. pc' \in [Procs -> {"idle", "send_len", "send_data", "recv_len", "recv_data", "exited"}]
    BY <1>2 DEF Shapes
  <2>2. total' \in [Procs -> Nat]
    BY <1>2 DEF Shapes
  <2>3. pipe' \in [Pipes -> Seq(Bytes)]
    BY <1>2 DEF Shapes
  <2>4. \A z \in Pipes : Len(pipe'[z]) <= SockBuf
    BY <1>2, <1>3, <1>4 DEF Shapes
  <2>5. lenbuf' \in [Procs -> Seq(Bytes)] /\ data' \in [Procs -> Seq(Bytes)]
    BY <1>2 DEF Shapes
  <2> QED
    BY <1>2, <2>1, <2>2, <2>3, <2>4, <2>5 DEF Shapes
<1>6. Elsewhere(q)
  BY <1>4 DEF Elsewhere
<1>7. EndOK(q, pc'[q]) /\ SendOK(pc'[q], total'[q], data'[q], out'[q])
  BY <1>1, <1>3 DEF EndOK, SendOK
<1>8. RecvOK(pc'[q], total'[q], lenbuf'[q], data'[q])
  BY <1>3
<1>9. q # 0 /\ q # N => out'[q] = in'[q]
  BY <1>1 DEF TransInv
<1>10. IsPrefix(out[q], out'[q])
  BY <1>1, <1>2, PrefixSelf DEF Shapes
<1>11. IsPrefix(in'[q], out[q - 1])
  BY DEF TransInv
<1>12. Linked(q)'
  <2> DEFINE a == Taken(in[q], lenbuf[q], data[q])
             w == pipe[q]
  <2>1. a \in Seq(Bytes) /\ Link(pc[q - 1], pc[q], Cat(a, w), Writer(q), out[q - 1])
    BY SidesOf DEF Reader
  <2>2. Cat(x, y) = w /\ Taken(in[q], b, d) = Cat(a, x)
    OBVIOUS
  <2> HIDE DEF a, w
  <2>3. Cat(Cat(a, x), y) = Cat(a, w)
    BY <2>1, <2>2, MoveOut
  <2>4. Link(pc[q - 1], l, Cat(Cat(a, x), y), Writer(q), out[q - 1])
    BY <2>1, <2>3 DEF Link
  <2>5. pc'[q - 1] = pc[q - 1] /\ Writer(q)' = Writer(q)
    BY <1>1, <1>4 DEF Writer
  <2> QED
    BY <1>3, <2>2, <2>4, <2>5 DEF Linked, Writer
<1>13. ASSUME q # N PROVE Linked(q + 1)'
  <2> DEFINE z == q + 1
  <2>1. z \in Pipes /\ z \in Procs /\ z - 1 = q /\ z # q
    BY <1>1, <1>13, TransmitAssumption DEF Procs, Pipes
  <2> HIDE DEF z
  <2>2. Linked(z)
    BY <2>1 DEF TransInv
  <2>3. Left(pc[q], total[q], data[q]) = <<>> /\ Left(l, t, d) = <<>>
    BY DEF Left
  <2>4. /\ pipe'[z] = pipe[z] /\ pc'[z] = pc[z] /\ lenbuf'[z] = lenbuf[z] /\ data'[z] = data[z]
    BY <1>4, <2>1
  <2>5. pc[q] # "exited" /\ l # "exited"
    OBVIOUS
  <2>6. Linked(z)'
    BY <1>3, <2>1, <2>2, <2>3, <2>4, <2>5 DEF Linked, Link
  <2> QED
    BY <2>6 DEF z
<1> QED
  BY <1>1, <1>5, <1>6, <1>7, <1>8, <1>9, <1>10, <1>11, <1>12, <1>13, StepOf

\* A read of x that completes the message m.
LEMMA ReturnStep ==
    ASSUME TransInv, NEW q \in Pipes, pc[q] \in {"recv_len", "recv_data"},
           NEW x \in Seq(Bytes), NEW y \in Seq(Bytes), Cat(x, y) = pipe[q], Len(y) <= SockBuf,
           pipe' = [pipe EXCEPT ![q] = y], NEW m \in Messages, Return(q, m),
           total' = [total EXCEPT ![q] = 0], lenbuf' = [lenbuf EXCEPT ![q] = <<>>],
           data' = [data EXCEPT ![q] = m],
           IsPrefix(Append(in[q], m), out[q - 1]),
           Cat(Stream(in[q]), Frame(m)) = Cat(Taken(in[q], lenbuf[q], data[q]), x)
    PROVE  TransInv'
<1>0. IntBytes \in Nat \ {0} /\ m \in Seq(Bytes) /\ <<>> \in Seq(Bytes) /\ Len(<<>>) = 0
  BY TransmitAssumption
<1>1. q \in Procs /\ q - 1 \in Procs /\ q # 0 /\ q - 1 # q
  BY Neighbours
<1>2. Shapes
  BY DEF TransInv
<1> DEFINE l == AfterRecv(q)
<1>3. /\ in' = [in EXCEPT ![q] = Append(@, m)] /\ pc' = [pc EXCEPT ![q] = l]
      /\ out' = IF q = N THEN out ELSE [out EXCEPT ![q] = Append(@, m)]
  BY DEF Return, At
<1>4. l = IF q = N THEN "recv_len" ELSE "send_len"
  BY DEF AfterRecv
<1> HIDE DEF l
<1>5. /\ in[q] \in Seq(Messages) /\ Append(in[q], m) \in Seq(Messages)
      /\ out[q] \in Seq(Messages) /\ Append(out[q], m) \in Seq(Messages)
  BY <1>1, <1>2 DEF Shapes
<1>6. /\ pc'[q] = l /\ total'[q] = 0 /\ lenbuf'[q] = <<>> /\ data'[q] = m /\ pipe'[q] = y
      /\ in'[q] = Append(in[q], m) /\ out'[q] = IF q = N THEN out[q] ELSE Append(out[q], m)
  BY <1>1, <1>2, <1>3 DEF Shapes
<1>7. /\ \A z \in Procs : z # q => /\ pc'[z] = pc[z] /\ total'[z] = total[z]
                                   /\ lenbuf'[z] = lenbuf[z] /\ data'[z] = data[z]
                                   /\ in'[z] = in[z] /\ out'[z] = out[z]
      /\ \A z \in Pipes : z # q => pipe'[z] = pipe[z]
  BY <1>2, <1>3 DEF Shapes
<1>8. Shapes'
  <2>1. pc' \in [Procs -> {"idle", "send_len", "send_data", "recv_len", "recv_data", "exited"}]
    BY <1>2, <1>3, <1>4 DEF Shapes
  <2>2. total' \in [Procs -> Nat]
    BY <1>2 DEF Shapes
  <2>3. pipe' \in [Pipes -> Seq(Bytes)]
    BY <1>2 DEF Shapes
  <2>4. \A z \in Pipes : Len(pipe'[z]) <= SockBuf
    BY <1>2, <1>6, <1>7 DEF Shapes
  <2>5. lenbuf' \in [Procs -> Seq(Bytes)] /\ data' \in [Procs -> Seq(Bytes)]
    BY <1>0, <1>2 DEF Shapes
  <2>6. in' \in [Procs -> Seq(Messages)]
    BY <1>2, <1>3, <1>5 DEF Shapes
  <2>7. out' \in [Procs -> Seq(Messages)]
    BY <1>2, <1>3, <1>5 DEF Shapes
  <2> QED
    BY <1>2, <2>1, <2>2, <2>3, <2>4, <2>5, <2>6, <2>7 DEF Shapes
<1>9. Elsewhere(q)
  BY <1>7 DEF Elsewhere
<1>10. EndOK(q, pc'[q])
  BY <1>1, <1>4, <1>6 DEF EndOK
<1>11. SendOK(pc'[q], total'[q], data'[q], out'[q])
  <2>1. Append(out[q], m) # <<>> /\ Append(out[q], m)[Len(Append(out[q], m))] = m
    BY <1>5, SMTT(20)
  <2> QED
    BY <1>0, <1>4, <1>6, <2>1 DEF SendOK
<1>12. RecvOK(pc'[q], total'[q], lenbuf'[q], data'[q])
  BY <1>0, <1>4, <1>6 DEF RecvOK
<1>13. q # 0 /\ q # N => out'[q] = in'[q]
  BY <1>1, <1>6 DEF TransInv
<1>14. IsPrefix(out[q], out'[q])
  <2> DEFINE s == out[q]
             u == Append(s, m)
  <2>1. u \in Seq(Messages) /\ Len(s) <= Len(u) /\ \A i \in 1..Len(s) : s[i] = u[i]
    BY <1>5
  <2>2. s \in Seq(Messages)
    BY <1>5
  <2> HIDE DEF s, u
  <2>3. IsPrefix(s, u) /\ IsPrefix(s, s)
    BY <2>1, <2>2, PrefixElements
  <2>4. out'[q] = u \/ out'[q] = s
    BY <1>6 DEF s, u
  <2> QED
    BY <2>3, <2>4 DEF s
<1>15. IsPrefix(in'[q], out[q - 1])
  BY <1>6
<1>16. Linked(q)'
  <2> DEFINE a == Taken(in[q], lenbuf[q], data[q])
             w == pipe[q]
             i == Append(in[q], m)
  <2>1. a \in Seq(Bytes) /\ Link(pc[q - 1], pc[q], Cat(a, w), Writer(q), out[q - 1])
    BY SidesOf DEF Reader
  <2>2. Taken(i, <<>>, m) = Cat(a, x)
    <3>1. Stream(i) = Cat(Stream(in[q]), Frame(m))
      BY <1>5, StreamAppend DEF Cat
    <3>2. Stream(i) \in Seq(Bytes)
      BY <1>5, StreamBytes
    <3>3. Cat(Stream(i), <<>>) = Stream(i)
      BY <3>2, CatEmpty
    <3>4. Taken(i, <<>>, m) = Cat(Cat(Stream(i), <<>>), <<>>)
      BY <1>0 DEF Taken
    <3> QED
      BY <3>1, <3>3, <3>4
  <2>3. Cat(x, y) = w
    OBVIOUS
  <2> HIDE DEF a, w, i
  <2>4. Cat(Cat(a, x), y) = Cat(a, w)
    BY <2>1, <2>3, MoveOut
  <2>5. pc[q] # "exited" /\ l # "exited"
    BY <1>4
  <2>6. Link(pc[q - 1], l, Cat(Cat(a, x), y), Writer(q), out[q - 1])
    BY <2>1, <2>4, <2>5 DEF Link
  <2>7. pc'[q - 1] = pc[q - 1] /\ Writer(q)' = Writer(q) /\ out'[q - 1] = out[q - 1]
    BY <1>1, <1>7 DEF Writer
  <2>8. in'[q] = i
    BY <1>6 DEF i
  <2> QED
    BY <1>6, <2>2, <2>6, <2>7, <2>8 DEF Linked, Writer
<1>17. ASSUME q # N PROVE Linked(q + 1)'
  <2> DEFINE z == q + 1
  <2>1. z \in Pipes /\ z \in Procs /\ z - 1 = q /\ z # q
    BY <1>1, <1>17, TransmitAssumption DEF Procs, Pipes
  <2> HIDE DEF z
  <2>2. Link(pc[q], pc[z], Reader(z), Writer(z), out[q]) /\ Reader(z) \in Seq(Bytes)
    BY <2>1, SidesOf
  <2>3. Writer(z) = <<>> /\ pc[q] # "exited"
    BY <2>1 DEF Left, Writer
  <2>4. Link("send_len", pc[z], Reader(z), Left("send_len", 0, m), Append(out[q], m))
    BY <1>5, <2>2, <2>3, LinkGrow
  <2>5. Reader(z)' = Reader(z) /\ pc'[z] = pc[z]
    BY <1>7, <2>1 DEF Reader
  <2>6. pc'[q] = "send_len" /\ out'[q] = Append(out[q], m)
    BY <1>4, <1>6, <1>17
  <2>7. Link(pc'[q], pc'[z], Reader(z)', Left(pc'[q], total'[q], data'[q]), out'[q])
    BY <1>6, <2>4, <2>5, <2>6
  <2>8. Linked(z)'
    BY <2>1, <2>7 DEF Linked, Reader
  <2> QED
    BY <2>8 DEF z
<1> QED
  BY <1>1, <1>8, <1>9, <1>10, <1>11, <1>12, <1>13, <1>14, <1>15, <1>16, <1>17, StepOf

\* The last bytes of a connection are lost.
LEMMA ResetStep ==
    ASSUME TransInv, NEW q \in Pipes, Reset(q)
    PROVE  TransInv'
<1>1. q \in Procs /\ q - 1 \in Procs /\ q # 0 /\ q - 1 # q
  BY Neighbours
<1>2. Shapes
  BY DEF TransInv
<1> DEFINE w == pipe[q]
           y == SubSeq(w, 1, Len(w) - 1)
           e == <<w[Len(w)]>>
<1>3. /\ pc[q - 1] = "exited" /\ w # <<>> /\ pipe' = [pipe EXCEPT ![q] = y]
      /\ UNCHANGED <<pc, total, lenbuf, data, out, in>>
  BY DEF Reset, Exited, Front
<1>4. w \in Seq(Bytes) /\ Len(w) <= SockBuf
  BY <1>2 DEF Shapes
<1>5. y \in Seq(Bytes) /\ Len(y) <= SockBuf /\ e \in Seq(Bytes) /\ Cat(y, e) = w
  <2> HIDE DEF w
  <2>0. SockBuf \in Nat
    BY TransmitAssumption
  <2>1. Len(w) \in Nat \ {0}
    BY <1>3, <1>4
  <2>2. y \in Seq(Bytes) /\ Len(y) = Len(w) - 1 /\ \A i \in 1..(Len(w) - 1) : y[i] = w[i]
    <3> DEFINE k == Len(w) - 1
    <3>1. k \in Nat /\ k <= Len(w) /\ y = SubSeq(w, 1, k)
      BY <2>1
    <3> HIDE DEF k, y
    <3>2. SubSeq(w, 1, k) \in Seq(Bytes) /\ Len(SubSeq(w, 1, k)) = k
      BY <1>4, <3>1
    <3>3. \A i \in 1..k : SubSeq(w, 1, k)[i] = w[i]
      BY <1>4, <3>1
    <3> QED
      BY <3>1, <3>2, <3>3 DEF k
  <2>3. e \in Seq(Bytes) /\ Len(e) = 1 /\ e[1] = w[Len(w)]
    BY <1>4, <2>1
  <2> HIDE DEF y, e
  <2> DEFINE c == Cat(y, e)
  <2>4. c \in Seq(Bytes) /\ Len(c) = Len(y) + Len(e)
    BY <2>2, <2>3, CatType
  <2>5. \A i \in 1..Len(y) : c[i] = y[i]
    BY <2>2, <2>3, CatLeft
  <2>6. c[Len(y) + 1] = e[1]
    <3>1. 1 \in 1..Len(e)
      BY <2>3
    <3> QED
      BY <2>2, <2>3, <3>1, CatRight, SMTT(20)
  <2> HIDE DEF c
  <2>7. Len(c) = Len(w) /\ \A i \in 1..Len(c) : c[i] = w[i]
    BY <2>1, <2>2, <2>3, <2>4, <2>5, <2>6
  <2>8. c = w
    BY <1>4, <2>4, <2>7, SeqEqual
  <2> QED
    BY <1>4, <2>0, <2>1, <2>2, <2>3, <2>8 DEF c
<1> HIDE DEF y, e
<1>6. pipe'[q] = y /\ \A z \in Pipes : z # q => pipe'[z] = pipe[z]
  BY <1>2, <1>3 DEF Shapes
<1>7. Shapes'
  <2>1. pipe' \in [Pipes -> Seq(Bytes)]
    BY <1>2, <1>3, <1>5 DEF Shapes
  <2>2. \A z \in Pipes : Len(pipe'[z]) <= SockBuf
    BY <1>2, <1>5, <1>6 DEF Shapes
  <2> QED
    BY <1>2, <1>3, <2>1, <2>2 DEF Shapes
<1>8. Elsewhere(q)
  BY <1>3, <1>6 DEF Elsewhere
<1>9. EndOK(q, pc'[q]) /\ SendOK(pc'[q], total'[q], data'[q], out'[q])
  BY <1>1, <1>3 DEF EndOK, TransInv, Ends
<1>10. RecvOK(pc'[q], total'[q], lenbuf'[q], data'[q])
  BY <1>3 DEF TransInv
<1>11. q # 0 /\ q # N => out'[q] = in'[q]
  BY <1>1, <1>3 DEF TransInv
<1>12. IsPrefix(out[q], out'[q])
  BY <1>1, <1>2, <1>3, PrefixSelf DEF Shapes
<1>13. IsPrefix(in'[q], out[q - 1])
  BY <1>3 DEF TransInv
<1>14. Linked(q)'
  <2> DEFINE a == Taken(in[q], lenbuf[q], data[q])
             o == Stream(out[q - 1])
  <2>1. a \in Seq(Bytes) /\ IsPrefix(Cat(a, w), o) /\ o \in Seq(Bytes)
    BY SidesOf, StreamBytes DEF Reader
  <2> HIDE DEF a, o, w
  <2>2. Cat(Cat(a, y), e) = Cat(a, w)
    BY <1>5, <2>1, MoveOut
  <2>3. Cat(a, y) \in Seq(Bytes)
    BY <1>5, <2>1, CatType
  <2> DEFINE ay == Cat(a, y)
  <2>4. ay \in Seq(Bytes) /\ IsPrefix(Cat(ay, e), o)
    BY <2>1, <2>2, <2>3
  <2> HIDE DEF ay
  <2>5. IsPrefix(ay, o)
    BY <1>5, <2>1, <2>4, PrefixOfCat
  <2> QED
    BY <1>3, <1>6, <2>5 DEF Linked, Link, ay, a, o
<1>15. ASSUME q # N PROVE Linked(q + 1)'
  <2> DEFINE z == q + 1
  <2>1. z \in Pipes /\ z \in Procs /\ z - 1 = q /\ z # q
    BY <1>1, <1>15, TransmitAssumption DEF Procs, Pipes
  <2> HIDE DEF z
  <2>2. Linked(z)
    BY <2>1 DEF TransInv
  <2>3. Linked(z)'
    BY <1>3, <1>6, <2>1, <2>2 DEF Linked
  <2> QED
    BY <2>3 DEF z
<1> QED
  BY <1>1, <1>7, <1>8, <1>9, <1>10, <1>11, <1>12, <1>13, <1>14, <1>15, StepOf

\* What Min is of two numbers.
LEMMA MinOfTwo ==
    ASSUME NEW a \in Int, NEW b \in Int
    PROVE  Min({a, b}) \in Int /\ Min({a, b}) <= a /\ Min({a, b}) <= b
<1>1. \E x \in {a, b} : \A y \in {a, b} : x <= y
  OBVIOUS
<1>2. Min({a, b}) \in {a, b} /\ \A y \in {a, b} : Min({a, b}) <= y
  BY <1>1 DEF Min
<1> QED
  BY <1>2

\* The n bytes that are read, at most k, and those that stay on the connection.
LEMMA ReadOf ==
    ASSUME TransInv, NEW q \in Pipes, NEW k \in Int, NEW n \in 1..Min({k, Len(pipe[q])}),
           NEW x, x = Cut(pipe[q], 1, n), NEW y, y = Cut(pipe[q], n + 1, Len(pipe[q]))
    PROVE  /\ x \in Seq(Bytes) /\ Len(x) = n /\ n \in Nat /\ n <= k
           /\ y \in Seq(Bytes) /\ Len(y) <= SockBuf /\ Cat(x, y) = pipe[q]
           /\ Read(q, n) => pipe' = [pipe EXCEPT ![q] = y]
           /\ IsPrefix(Cat(Taken(in[q], lenbuf[q], data[q]), x), Stream(out[q - 1]))
<1> DEFINE w == pipe[q]
<1>1. w \in Seq(Bytes) /\ Len(w) <= SockBuf /\ SockBuf \in Nat
  BY TransmitAssumption DEF TransInv, Shapes
<1>2. pipe \in [Pipes -> Seq(Bytes)]
  BY DEF TransInv, Shapes
<1>3. Read(q, n) => pipe' = [pipe EXCEPT ![q] = y]
  BY <1>2 DEF Read, Cut
<1>4. x = Cut(w, 1, n) /\ y = Cut(w, n + 1, Len(w))
  OBVIOUS
<1>5. Len(w) \in Int /\ n \in 1..Min({k, Len(w)})
  BY <1>1
<1>6. Taken(in[q], lenbuf[q], data[q]) \in Seq(Bytes) /\ IsPrefix(Reader(q), Stream(out[q - 1]))
      /\ Stream(out[q - 1]) \in Seq(Bytes)
  BY SidesOf, StreamBytes
<1> DEFINE a == Taken(in[q], lenbuf[q], data[q])
           o == Stream(out[q - 1])
<1>7. a \in Seq(Bytes) /\ o \in Seq(Bytes) /\ IsPrefix(Cat(a, w), o)
  BY <1>6 DEF Reader
<1> HIDE DEF w, a, o
<1>8. n \in 1..Len(w) /\ n <= k
  <2> DEFINE z == Len(w)
  <2>1. z \in Int /\ n \in 1..Min({k, z})
    BY <1>5
  <2> HIDE DEF z
  <2>2. Min({k, z}) \in Int /\ Min({k, z}) <= k /\ Min({k, z}) <= z
    BY <2>1, MinOfTwo
  <2> QED
    BY <2>1, <2>2 DEF z
<1>9. /\ x \in Seq(Bytes) /\ Len(x) = n /\ y \in Seq(Bytes) /\ Len(y) = Len(w) - n
      /\ Cat(x, y) = w
  BY <1>1, <1>4, <1>8, ReadTurn
<1>10. Len(y) <= SockBuf /\ n \in Nat
  BY <1>1, <1>8, <1>9
<1>11. IsPrefix(Cat(a, x), o)
  <2>1. Cat(Cat(a, x), y) = Cat(a, w)
    BY <1>7, <1>9, MoveOut
  <2> DEFINE ax == Cat(a, x)
  <2>2. ax \in Seq(Bytes) /\ IsPrefix(Cat(ax, y), o)
    BY <1>7, <1>9, <2>1, CatType
  <2> HIDE DEF ax
  <2>3. IsPrefix(ax, o)
    BY <1>7, <1>9, <2>2, PrefixOfCat
  <2> QED
    BY <2>3 DEF ax
<1> QED
  BY <1>3, <1>8, <1>9, <1>10, <1>11 DEF w, a, o

\* m is the message behind i of the messages o, with the length a and, when b is as long, the
\* data b.
IsNext(i, o, a, b, m) ==
    /\ IsPrefix(Append(i, m), o) /\ a = LenBytes(Len(m))
    /\ Len(b) = Len(m) => b = m

\* There is a next message, and what has been received is its length and its data.
LEMMA DecodeNext ==
    ASSUME NEW i \in Seq(Messages), NEW o \in Seq(Messages), IsPrefix(i, o),
           NEW a \in Seq(Bytes), NEW b \in Seq(Bytes), Len(a) = IntBytes,
           IsPrefix(Cat(Cat(Stream(i), a), b), Stream(o))
    PROVE  \E m \in Messages : IsNext(i, o, a, b, m)
<1> DEFINE x == Stream(i)
           y == Stream(o)
<1>1. x \in Seq(Bytes) /\ y \in Seq(Bytes)
  BY StreamBytes
<1>2. x = Stream(i) /\ y = Stream(o) /\ IsPrefix(Cat(Cat(x, a), b), y)
  OBVIOUS
<1> HIDE DEF x, y
<1>3. /\ Len(i) < Len(o) /\ o[Len(i) + 1] \in Messages
      /\ a = LenBytes(Len(o[Len(i) + 1]))
      /\ Len(b) = Len(o[Len(i) + 1]) => b = o[Len(i) + 1]
  BY <1>1, <1>2, Decode
<1> DEFINE m == o[Len(i) + 1]
<1>4. IsPrefix(Append(i, m), o)
  BY <1>3, PrefixNext
<1>5. m \in Messages /\ a = LenBytes(Len(m)) /\ (Len(b) = Len(m) => b = m)
  BY <1>3
<1> HIDE DEF m
<1> QED
  BY <1>4, <1>5 DEF IsNext

\* A turn of the first loop of recv_len_data.
LEMMA RecvLenStep ==
    ASSUME TransInv, NEW q \in Pipes, RecvLen(q)
    PROVE  TransInv'
<1>0. IntBytes \in Nat \ {0} /\ q \in Procs /\ q - 1 \in Procs
  BY TransmitAssumption, Neighbours
<1>1. Shapes /\ pc[q] = "recv_len" /\ RecvOK(pc[q], total[q], lenbuf[q], data[q])
  BY DEF TransInv, RecvLen
<1> DEFINE a == lenbuf[q]
           i == in[q]
           o == out[q - 1]
           k == IntBytes - total[q]
<1>2. /\ a \in Seq(Bytes) /\ total[q] = Len(a) /\ Len(a) < IntBytes /\ Len(a) \in Nat
      /\ i \in Seq(Messages) /\ o \in Seq(Messages) /\ IsPrefix(i, o) /\ k = IntBytes - Len(a)
  BY <1>0, <1>1 DEF RecvOK, Shapes, TransInv
<1>3. PICK n \in 1..Min({k, Len(pipe[q])}) :
        LET got == Cat(a, Cut(pipe[q], 1, n))
        IN  /\ Read(q, n)
            /\ IF Len(got) < IntBytes
               THEN /\ lenbuf' = [lenbuf EXCEPT ![q] = got]
                    /\ total' = [total EXCEPT ![q] = @ + n]
                    /\ UNCHANGED <<pc, data, out, in>>
               ELSE /\ total' = [total EXCEPT ![q] = 0]
                    /\ data' = [data EXCEPT ![q] = <<>>]
                    /\ IF BytesLen(got) <= 0
                       THEN Return(q, <<>>) /\ lenbuf' = [lenbuf EXCEPT ![q] = <<>>]
                       ELSE /\ lenbuf' = [lenbuf EXCEPT ![q] = got]
                            /\ At(q, "recv_data")
                            /\ UNCHANGED <<out, in>>
  BY DEF RecvLen, Cat, Cut
<1> DEFINE x == Cut(pipe[q], 1, n)
           y == Cut(pipe[q], n + 1, Len(pipe[q]))
           got == Cat(a, x)
           s == Stream(i)
<1>4. /\ x \in Seq(Bytes) /\ Len(x) = n /\ n \in Nat /\ n <= k
      /\ y \in Seq(Bytes) /\ Len(y) <= SockBuf /\ Cat(x, y) = pipe[q]
      /\ pipe' = [pipe EXCEPT ![q] = y]
      /\ IsPrefix(Cat(Taken(i, a, data[q]), x), Stream(o))
  <2>1. k \in Int
    BY <1>0, <1>2
  <2> HIDE DEF k
  <2> QED
    BY <1>3, <2>1, ReadOf
<1>5. s \in Seq(Bytes) /\ Stream(o) \in Seq(Bytes)
  BY <1>2, StreamBytes
<1> HIDE DEF i, o, k, y, s, x
<1>6. got \in Seq(Bytes) /\ Len(got) = Len(a) + n
  BY <1>2, <1>4, CatType
<1>7. Cat(s, a) \in Seq(Bytes) /\ Cat(s, got) \in Seq(Bytes)
  BY <1>2, <1>5, <1>6, CatType
<1>8. Cat(Taken(i, a, data[q]), x) = Cat(s, got)
  <2>1. Taken(i, a, data[q]) = Cat(Cat(s, a), <<>>)
    BY <1>0, <1>2 DEF Taken, s
  <2>2. Cat(Cat(s, a), <<>>) = Cat(s, a)
    BY <1>7, CatEmpty
  <2>3. Cat(Cat(s, a), x) = Cat(s, got)
    BY <1>2, <1>4, <1>5, CatAssociative
  <2> QED
    BY <2>1, <2>2, <2>3
<1>9. Len(got) <= IntBytes
  <2> HIDE DEF got
  <2> QED
    BY <1>0, <1>2, <1>4, <1>6
<1>10. Cat(Cat(s, got), <<>>) = Cat(s, got)
  BY <1>7, CatEmpty
<1>11. data[q] \in Seq(Bytes)
  BY <1>0, <1>1 DEF Shapes
<1>12. /\ Read(q, n)
       /\ IF Len(got) < IntBytes
          THEN /\ lenbuf' = [lenbuf EXCEPT ![q] = got]
               /\ total' = [total EXCEPT ![q] = @ + n]
               /\ UNCHANGED <<pc, data, out, in>>
          ELSE /\ total' = [total EXCEPT ![q] = 0]
               /\ data' = [data EXCEPT ![q] = <<>>]
               /\ IF BytesLen(got) <= 0
                  THEN Return(q, <<>>) /\ lenbuf' = [lenbuf EXCEPT ![q] = <<>>]
                  ELSE /\ lenbuf' = [lenbuf EXCEPT ![q] = got]
                       /\ At(q, "recv_data")
                       /\ UNCHANGED <<out, in>>
  BY <1>3 DEF x
<1> HIDE DEF got, a
<1>13. CASE Len(got) < IntBytes
  <2> DEFINE t == Len(got)
  <2>1. /\ pc' = [pc EXCEPT ![q] = "recv_len"] /\ total' = [total EXCEPT ![q] = t] /\ t \in Nat
        /\ lenbuf' = [lenbuf EXCEPT ![q] = got] /\ data' = [data EXCEPT ![q] = data[q]]
        /\ UNCHANGED <<out, in>>
    <3>1. /\ lenbuf' = [lenbuf EXCEPT ![q] = got] /\ total' = [total EXCEPT ![q] = @ + n]
          /\ pc' = pc /\ data' = data /\ UNCHANGED <<out, in>>
      BY <1>12, <1>13
    <3>2. total[q] + n = t /\ t \in Nat
      BY <1>2, <1>4, <1>6
    <3>3. total' = [total EXCEPT ![q] = t]
      <4> HIDE DEF t
      <4> QED
        BY <3>1, <3>2
    <3>4. pc' = [pc EXCEPT ![q] = "recv_len"] /\ data' = [data EXCEPT ![q] = data[q]]
      BY <1>0, <1>1, <3>1 DEF Shapes
    <3> QED
      BY <3>1, <3>2, <3>3, <3>4
  <2>2. RecvOK("recv_len", t, got, data[q])
    BY <1>9, <1>13 DEF RecvOK
  <2>3. Taken(in[q], got, data[q]) = Cat(Cat(s, got), <<>>)
    BY <1>13 DEF Taken, s, i
  <2>4. Taken(in[q], got, data[q]) = Cat(Taken(in[q], lenbuf[q], data[q]), x)
    BY <1>8, <1>10, <2>3 DEF a, i
  <2> HIDE DEF t
  <2> QED
    BY <1>1, <1>4, <1>6, <1>11, <2>1, <2>2, <2>4, ReadStep
<1>14. CASE ~ (Len(got) < IntBytes)
  <2>0. Len(got) = IntBytes /\ <<>> \in Seq(Bytes) /\ Len(<<>>) = 0
    BY <1>0, <1>6, <1>9, <1>14
  <2>1. PICK m \in Messages : /\ IsPrefix(Append(i, m), o) /\ got = LenBytes(Len(m))
                              /\ 0 = Len(m) => <<>> = m
    <3>1. IsPrefix(Cat(Cat(s, got), <<>>), Stream(o))
      BY <1>4, <1>8, <1>10
    <3> DEFINE e == <<>>
    <3>2. e \in Seq(Bytes) /\ Len(e) = 0
      OBVIOUS
    <3>3. IsPrefix(Cat(Cat(Stream(i), got), e), Stream(o)) /\ Len(got) = IntBytes /\ got \in Seq(Bytes)
      BY <1>6, <2>0, <3>1 DEF s
    <3>4. i \in Seq(Messages) /\ o \in Seq(Messages) /\ IsPrefix(i, o)
      BY <1>2
    <3> HIDE DEF e
    <3>5. \E m \in Messages : IsNext(i, o, got, e, m)
      BY <3>2, <3>3, <3>4, DecodeNext
    <3> QED
      BY <3>2, <3>5 DEF e, IsNext
  <2>2. IsPrefix(Append(i, m), o)
    BY <2>1
  <2>3. BytesLen(got) = Len(m) /\ m \in Seq(Bytes)
    BY <2>1, LengthBytes, TransmitAssumption
  <2>4. CASE BytesLen(got) <= 0
    <3>1. m = <<>>
      BY <2>1, <2>3, <2>4
    <3>2. /\ Return(q, m) /\ total' = [total EXCEPT ![q] = 0]
          /\ lenbuf' = [lenbuf EXCEPT ![q] = <<>>] /\ data' = [data EXCEPT ![q] = m]
      BY <1>12, <1>14, <2>4, <3>1
    <3>3. Frame(m) = got
      <4>1. Frame(m) = Cat(got, <<>>)
        BY <2>1, <3>1 DEF Frame, Cat
      <4> QED
        BY <1>6, <4>1, CatEmpty
    <3>4. Cat(Stream(in[q]), Frame(m)) = Cat(Taken(in[q], lenbuf[q], data[q]), x)
      BY <1>8, <3>3 DEF s, i, a
    <3>5. IsPrefix(Append(in[q], m), out[q - 1])
      BY <2>2 DEF i, o
    <3> QED
      BY <1>1, <1>4, <2>1, <3>2, <3>4, <3>5, ReturnStep
  <2>5. CASE ~ (BytesLen(got) <= 0)
    <3>1. /\ pc' = [pc EXCEPT ![q] = "recv_data"] /\ total' = [total EXCEPT ![q] = 0]
          /\ lenbuf' = [lenbuf EXCEPT ![q] = got] /\ data' = [data EXCEPT ![q] = <<>>]
          /\ UNCHANGED <<out, in>>
      BY <1>12, <1>14, <2>5 DEF At
    <3>2. RecvOK("recv_data", 0, got, <<>>)
      <4>1. 0 < BytesLen(got)
        BY <2>3, <2>5
      <4> QED
        BY <1>9, <2>0, <4>1 DEF RecvOK
    <3>3. Taken(in[q], got, <<>>) = Cat(Cat(s, got), <<>>)
      BY DEF Taken, s, i
    <3>4. Taken(in[q], got, <<>>) = Cat(Taken(in[q], lenbuf[q], data[q]), x)
      BY <1>8, <1>10, <3>3 DEF a, i
    <3> QED
      BY <1>1, <1>4, <1>6, <2>0, <3>1, <3>2, <3>4, ReadStep
  <2> QED
    BY <2>4, <2>5
<1> QED
  BY <1>13, <1>14

\* A turn of its second loop.
LEMMA RecvDataStep ==
    ASSUME TransInv, NEW q \in Pipes, RecvData(q)
    PROVE  TransInv'
<1>0. IntBytes \in Nat \ {0} /\ q \in Procs /\ q - 1 \in Procs
  BY TransmitAssumption, Neighbours
<1>1. Shapes /\ pc[q] = "recv_data" /\ RecvOK(pc[q], total[q], lenbuf[q], data[q])
  BY DEF TransInv, RecvData
<1> DEFINE a == lenbuf[q]
           d == data[q]
           i == in[q]
           o == out[q - 1]
           len == BytesLen(a)
           k == len - total[q]
<1>2. /\ a \in Seq(Bytes) /\ Len(a) = IntBytes /\ d \in Seq(Bytes) /\ Len(d) \in Nat
      /\ total[q] = Len(d) /\ i \in Seq(Messages) /\ o \in Seq(Messages) /\ IsPrefix(i, o)
  BY <1>0, <1>1 DEF RecvOK, Shapes, TransInv
<1> DEFINE s == Stream(i)
           sa == Cat(s, a)
<1>3. s \in Seq(Bytes) /\ sa \in Seq(Bytes)
  <2>1. s \in Seq(Bytes)
    BY <1>2, StreamBytes
  <2> HIDE DEF s, a
  <2> QED
    BY <1>2, <2>1, CatType
<1>4. Taken(i, a, d) = Cat(sa, d)
  BY <1>2 DEF Taken
<1>5. len \in Int
  <2>1. IsPrefix(Cat(sa, d), Stream(o))
    <3>1. /\ Taken(i, a, d) \in Seq(Bytes) /\ pipe[q] \in Seq(Bytes)
          /\ IsPrefix(Cat(Taken(i, a, d), pipe[q]), Stream(o)) /\ Stream(o) \in Seq(Bytes)
      BY <1>2, SidesOf, StreamBytes DEF Reader
    <3> DEFINE b == Taken(i, a, d)
               w == pipe[q]
               z == Stream(o)
    <3>2. b \in Seq(Bytes) /\ w \in Seq(Bytes) /\ z \in Seq(Bytes) /\ IsPrefix(Cat(b, w), z)
      BY <3>1
    <3>3. IsPrefix(b, z)
      <4> HIDE DEF b, w, z
      <4> QED
        BY <3>2, PrefixOfCat
    <3> QED
      BY <1>4, <3>3
  <2>2. IsPrefix(Cat(Cat(Stream(i), a), d), Stream(o))
    BY <2>1
  <2> HIDE DEF a, d, i, o
  <2>3. PICK m \in Messages : IsNext(i, o, a, d, m)
    BY <1>2, <2>2, DecodeNext
  <2>4. len = Len(m) /\ m \in Seq(Bytes)
    BY <2>3, LengthBytes, TransmitAssumption DEF IsNext
  <2> HIDE DEF len
  <2> QED
    BY <2>4
<1>6. PICK n \in 1..Min({k, Len(pipe[q])}) :
        LET got == Cat(d, Cut(pipe[q], 1, n))
        IN  /\ Read(q, n)
            /\ data' = [data EXCEPT ![q] = got]
            /\ IF Len(got) < len
               THEN total' = [total EXCEPT ![q] = @ + n] /\ UNCHANGED <<pc, lenbuf, out, in>>
               ELSE /\ total' = [total EXCEPT ![q] = 0]
                    /\ lenbuf' = [lenbuf EXCEPT ![q] = <<>>]
                    /\ Return(q, got)
  BY DEF RecvData, Cat, Cut
<1> DEFINE x == Cut(pipe[q], 1, n)
           y == Cut(pipe[q], n + 1, Len(pipe[q]))
           got == Cat(d, x)
<1>7. /\ x \in Seq(Bytes) /\ Len(x) = n /\ n \in Nat /\ n <= k
      /\ y \in Seq(Bytes) /\ Len(y) <= SockBuf /\ Cat(x, y) = pipe[q]
      /\ pipe' = [pipe EXCEPT ![q] = y]
      /\ IsPrefix(Cat(Taken(i, a, d), x), Stream(o))
  <2>1. k \in Int
    <3> HIDE DEF len
    <3> QED
      BY <1>2, <1>5
  <2> HIDE DEF k
  <2> QED
    BY <1>6, <2>1, ReadOf
<1>8. /\ data' = [data EXCEPT ![q] = got]
      /\ IF Len(got) < len
         THEN total' = [total EXCEPT ![q] = @ + n] /\ UNCHANGED <<pc, lenbuf, out, in>>
         ELSE /\ total' = [total EXCEPT ![q] = 0]
              /\ lenbuf' = [lenbuf EXCEPT ![q] = <<>>]
              /\ Return(q, got)
  BY <1>6
<1>9. k = len - Len(d)
  BY <1>2
<1> HIDE DEF a, d, i, o, x, y, k, len, s, sa
<1>10. got \in Seq(Bytes) /\ Len(got) = Len(d) + n
  BY <1>2, <1>7, CatType
<1>11. Cat(Taken(i, a, d), x) = Cat(sa, got)
  <2>1. Cat(Cat(sa, d), x) = Cat(sa, got)
    BY <1>2, <1>3, <1>7, CatAssociative
  <2> QED
    BY <1>4, <2>1
<1> HIDE DEF got
<1>12. Len(got) <= len /\ Len(got) \in Nat
  BY <1>2, <1>5, <1>7, <1>9, <1>10
<1>13. PICK m \in Messages : IsNext(i, o, a, got, m)
  <2>1. IsPrefix(Cat(Cat(Stream(i), a), got), Stream(o))
    BY <1>7, <1>11 DEF sa, s
  <2> QED
    BY <1>2, <1>10, <2>1, DecodeNext
<1>14. /\ IsPrefix(Append(i, m), o) /\ a = LenBytes(Len(m)) /\ (Len(got) = Len(m) => got = m)
       /\ len = Len(m)
  BY <1>13, LengthBytes DEF IsNext, len
<1>15. CASE Len(got) < len
  <2> DEFINE t == Len(got)
  <2>1. data' = [data EXCEPT ![q] = got]
    BY <1>8
  <2>2. total' = [total EXCEPT ![q] = @ + n] /\ pc' = pc /\ lenbuf' = lenbuf /\ UNCHANGED <<out, in>>
    BY <1>8, <1>15
  <2>3. total[q] + n = t /\ t \in Nat
    BY <1>2, <1>10, <1>12
  <2>4. RecvOK("recv_data", t, a, got)
    BY <1>0, <1>2, <1>15 DEF RecvOK, len
  <2> HIDE DEF t
  <2>5. total' = [total EXCEPT ![q] = t]
    BY <2>2, <2>3
  <2>6. pc' = [pc EXCEPT ![q] = "recv_data"] /\ lenbuf' = [lenbuf EXCEPT ![q] = a]
    BY <1>0, <1>1, <2>2 DEF Shapes, a
  <2>7. Taken(in[q], a, got) = Cat(Taken(in[q], lenbuf[q], data[q]), x)
    <3>1. Taken(i, a, got) = Cat(sa, got)
      BY <1>2 DEF Taken, sa, s
    <3> QED
      BY <1>11, <3>1 DEF i, a, d
  <2> QED
    BY <1>1, <1>2, <1>7, <1>10, <2>1, <2>2, <2>3, <2>4, <2>5, <2>6, <2>7, ReadStep
<1>16. CASE ~ (Len(got) < len)
  <2>1. got = m
    BY <1>5, <1>12, <1>14, <1>16
  <2>2. /\ Return(q, m) /\ total' = [total EXCEPT ![q] = 0]
        /\ lenbuf' = [lenbuf EXCEPT ![q] = <<>>] /\ data' = [data EXCEPT ![q] = m]
    BY <1>8, <1>16, <2>1
  <2>3. Cat(Stream(in[q]), Frame(m)) = Cat(Taken(in[q], lenbuf[q], data[q]), x)
    <3>1. Frame(m) = Cat(a, got)
      BY <1>14, <2>1 DEF Frame, Cat
    <3>2. Cat(Cat(s, a), got) = Cat(s, Cat(a, got))
      BY <1>2, <1>3, <1>10, CatAssociative
    <3>3. Cat(s, Frame(m)) = Cat(sa, got)
      BY <3>1, <3>2 DEF sa
    <3> QED
      BY <1>11, <3>3 DEF s, i, a, d
  <2>4. IsPrefix(Append(in[q], m), out[q - 1])
    BY <1>14 DEF i, o
  <2> QED
    BY <1>1, <1>7, <2>2, <2>3, <2>4, ReturnStep
<1> QED
  BY <1>15, <1>16

-----------------------------------------------------------------------------
(* The theorems.                                                           *)

\* The invariant holds at the start.
LEMMA InitInv == Init => TransInv
<1> SUFFICES ASSUME Init PROVE TransInv
  OBVIOUS
<1>0. IntBytes \in Nat \ {0} /\ SockBuf \in Nat \ {0} /\ 0 \in Procs
  BY TransmitAssumption, Neighbours
<1>1. Shapes
  BY <1>0 DEF Init, Shapes
<1>2. \A p \in Procs : pc[p] = IF p = 0 THEN "idle" ELSE "recv_len"
  BY DEF Init
<1>3. \A p \in Procs : total[p] = 0 /\ lenbuf[p] = <<>> /\ data[p] = <<>> /\ out[p] = <<>> /\ in[p] = <<>>
  BY DEF Init
<1>4. Ends
  BY <1>2 DEF Ends
<1>5. \A p \in Procs : SendOK(pc[p], total[p], data[p], out[p])
  BY <1>2 DEF SendOK
<1>6. \A q \in Pipes : RecvOK(pc[q], total[q], lenbuf[q], data[q])
  BY <1>0, <1>2, <1>3, Neighbours DEF RecvOK
<1>7. \A q \in Pipes : IsPrefix(in[q], out[q - 1]) /\ IsPrefix(in[q], out[0])
  <2>1. <<>> \in Seq(Messages)
    OBVIOUS
  <2>2. IsPrefix(<<>>, <<>>)
    BY <2>1, PrefixSelf
  <2> QED
    BY <1>0, <1>3, <2>2, Neighbours
<1>8. ASSUME NEW q \in Pipes PROVE Linked(q)
  <2>1. q \in Procs /\ q - 1 \in Procs
    BY Neighbours
  <2>2. pc[q] # "exited" /\ pc[q - 1] \in {"idle", "recv_len"}
    BY <1>2, <2>1
  <2>3. pipe[q] = <<>>
    BY DEF Init
  <2>4. <<>> \in Seq(Bytes) /\ Len(<<>>) = 0
    OBVIOUS
  <2>5. Cat(<<>>, <<>>) = <<>>
    BY <2>4, CatEmpty
  <2>6. Taken(<<>>, <<>>, <<>>) = <<>>
    BY <1>0, <2>4, <2>5, StreamEmpty DEF Taken
  <2>7. Left(pc[q - 1], total[q - 1], data[q - 1]) = <<>>
    BY <2>2 DEF Left
  <2>8. Link(pc[q - 1], pc[q], Cat(Taken(<<>>, <<>>, <<>>), <<>>), <<>>, <<>>)
    BY <2>2, <2>5, <2>6, StreamEmpty DEF Link
  <2> QED
    BY <1>3, <2>1, <2>3, <2>7, <2>8 DEF Linked
<1> QED
  BY <1>1, <1>3, <1>4, <1>5, <1>6, <1>7, <1>8 DEF TransInv

\* Every step keeps it.
LEMMA NextInv == TransInv /\ [Next]_vars => TransInv'
<1> SUFFICES ASSUME TransInv, [Next]_vars PROVE TransInv'
  OBVIOUS
<1>1. CASE Submit
  BY <1>1, SubmitStep
<1>2. ASSUME NEW p \in Procs, ProcStep(p) PROVE TransInv'
  <2>1. CASE p < N /\ SendStep(p)
    <3>1. p # N
      BY <2>1, TransmitAssumption DEF Procs
    <3>2. CASE SendLen(p)
      BY <3>1, <3>2, SendLenStep
    <3>3. CASE SendData(p)
      BY <3>1, <3>3, SendDataStep
    <3>4. CASE WriteFails(p)
      BY <3>4, ExitStep DEF WriteFails
    <3> QED
      BY <2>1, <3>2, <3>3, <3>4 DEF SendStep
  <2>2. CASE p > 0 /\ RecvStep(p)
    <3>1. p \in Pipes
      BY <2>2, Neighbours DEF Procs
    <3>2. CASE RecvLen(p)
      BY <3>1, <3>2, RecvLenStep
    <3>3. CASE RecvData(p)
      BY <3>1, <3>3, RecvDataStep
    <3>4. CASE ReadFails(p)
      BY <3>4, ExitStep DEF ReadFails
    <3> QED
      BY <2>2, <3>2, <3>3, <3>4 DEF RecvStep
  <2> QED
    BY <1>2, <2>1, <2>2 DEF ProcStep
<1>3. ASSUME NEW p \in Procs, Kill(p) PROVE TransInv'
  BY <1>3, ExitStep DEF Kill
<1>4. ASSUME NEW q \in Pipes, Reset(q) PROVE TransInv'
  BY <1>4, ResetStep
<1>5. CASE UNCHANGED vars
  <2>1. /\ pc' = pc /\ total' = total /\ lenbuf' = lenbuf /\ data' = data
        /\ pipe' = pipe /\ out' = out /\ in' = in
    BY <1>5 DEF vars
  <2>2. Shapes' /\ Ends'
    BY <2>1 DEF TransInv, Shapes, Ends
  <2>3. \A q \in Pipes : Linked(q)'
    BY <2>1 DEF TransInv, Linked
  <2> QED
    BY <2>1, <2>2, <2>3 DEF TransInv
<1> QED
  BY <1>1, <1>2, <1>3, <1>4, <1>5 DEF Next

\* What a connection holds, what its reader has consumed and what its writer has in hand
\* fit together in every state.
THEOREM TransmitInv == Spec => []TransInv
<1> QED
  BY InitInv, NextInv, PTL DEF Spec

\* For every chain and every way reads and writes are cut up, the counts of both loops stay
\* below the end of the length and of the data: nothing past a buffer is written or read.
THEOREM TransmitTypeCorrect == Spec => []TypeOK
<1>1. TransInv => TypeOK
  <2> SUFFICES ASSUME TransInv PROVE TypeOK
    OBVIOUS
  <2>1. IntBytes \in Nat \ {0} /\ Shapes
    BY TransmitAssumption DEF TransInv
  <2>2. ASSUME NEW p \in Procs
        PROVE  /\ pc[p] \in {"send_len", "recv_len"} => total[p] \in 0..(IntBytes - 1)
               /\ pc[p] = "send_data" => total[p] \in 0..(Len(data[p]) - 1)
               /\ pc[p] = "recv_data" => total[p] = Len(data[p]) /\ total[p] < BytesLen(lenbuf[p])
    <3>1. total[p] \in Nat /\ data[p] \in Seq(Bytes)
      BY <2>1 DEF Shapes
    <3>2. SendOK(pc[p], total[p], data[p], out[p])
      BY DEF TransInv
    <3>3. pc[p] \in {"recv_len", "recv_data"} => RecvOK(pc[p], total[p], lenbuf[p], data[p])
      BY Neighbours DEF TransInv, Ends
    <3> QED
      BY <2>1, <3>1, <3>2, <3>3 DEF SendOK, RecvOK
  <2> QED
    BY <2>1, <2>2 DEF TypeOK, Shapes
<1> QED
  BY <1>1, TransmitInv, PTL

\* No byte is lost, repeated or moved between send_len_data and recv_len_data.
THEOREM AlwaysFraming == Spec => []Framing
<1>1. TransInv => Framing
  <2> SUFFICES ASSUME TransInv, NEW q \in Pipes
               PROVE  IF Exited(q - 1) \/ Exited(q)
                      THEN IsPrefix(Consumed(q) \o pipe[q], Stream(out[q - 1]))
                      ELSE (Consumed(q) \o pipe[q]) \o Unwritten(q - 1) = Stream(out[q - 1])
    BY DEF Framing
  <2>1. Linked(q)
    BY DEF TransInv
  <2>2. Consumed(q) = Taken(in[q], lenbuf[q], data[q])
    BY DEF Consumed, Taken, Cat
  <2>3. Unwritten(q - 1) = Left(pc[q - 1], total[q - 1], data[q - 1])
    BY DEF Unwritten, Left, Cat, Cut
  <2> QED
    BY <2>1, <2>2, <2>3 DEF Linked, Link, Exited, Cat
<1> QED
  BY <1>1, TransmitInv, PTL

-----------------------------------------------------------------------------
(* The steps of MessagePipe.                                               *)

\* Somebody has exited.
Broken == \E p \in Procs : Exited(p)

\* A step that nobody at the ends notices.
Unseen == out'[0] = out[0] /\ in'[N] = in[N] /\ (Broken' <=> Broken)

\* A process that goes from one loop to another has not exited.
LEMMA SameBroken ==
    ASSUME TransInv, NEW p \in Procs, pc[p] # "exited", NEW l, l # "exited",
           pc' = pc \/ pc' = [pc EXCEPT ![p] = l]
    PROVE  Broken' <=> Broken
<1>1. pc \in [Procs -> {"idle", "send_len", "send_data", "recv_len", "recv_data", "exited"}]
  BY DEF TransInv, Shapes
<1>2. \A x \in Procs : pc'[x] = "exited" <=> pc[x] = "exited"
  BY <1>1
<1> QED
  BY <1>2 DEF Broken, Exited

\* What the loops of send_len_data do is not seen at the ends.
LEMMA SendUnseen ==
    ASSUME TransInv, NEW p \in Procs, SendLen(p) \/ SendData(p)
    PROVE  Unseen
<1>1. out' = out /\ in' = in /\ pc[p] # "exited"
  BY DEF SendLen, SendData
<1>2. \E l \in {"idle", "recv_len", "send_data"} : pc' = pc \/ pc' = [pc EXCEPT ![p] = l]
  BY DEF SendLen, SendData, At, AfterSend
<1>3. Broken' <=> Broken
  BY <1>1, <1>2, SameBroken
<1> QED
  BY <1>1, <1>3 DEF Unseen

\* An exit breaks the pipe.
LEMMA ExitBreaks ==
    ASSUME TransInv, NEW p \in Procs, At(p, "exited"), out' = out, in' = in
    PROVE  out'[0] = out[0] /\ in'[N] = in[N] /\ Broken'
<1>1. pc'[p] = "exited"
  BY DEF At, TransInv, Shapes
<1> QED
  BY <1>1 DEF Broken, Exited

\* The next message is delivered.
Delivered ==
    /\ Len(in[N]) < Len(out[0])
    /\ in'[N] = Append(in[N], out[0][Len(in[N]) + 1])
    /\ out'[0] = out[0] /\ (Broken' <=> Broken)

\* recv_len_data delivers the next message at the far end, or is not seen at the ends.
LEMMA RecvDelivers ==
    ASSUME TransInv, TransInv', NEW q \in Pipes, RecvLen(q) \/ RecvData(q)
    PROVE  Unseen \/ Delivered
<1>0. q \in Procs /\ q # 0 /\ N \in Procs /\ N \in Pipes /\ 0 \in Procs
  BY Neighbours
<1>1. pc[q] # "exited"
  BY DEF RecvLen, RecvData
<1>2. \/ in' = in /\ out' = out
      \/ \E m : Return(q, m)
  BY DEF RecvLen, RecvData
<1>3. \E l \in {"recv_len", "recv_data", "send_len"} : pc' = pc \/ pc' = [pc EXCEPT ![q] = l]
  BY DEF RecvLen, RecvData, Return, At, AfterRecv
<1>4. Broken' <=> Broken
  BY <1>0, <1>1, <1>3, SameBroken
<1>5. /\ out \in [Procs -> Seq(Messages)] /\ in \in [Procs -> Seq(Messages)]
      /\ in' \in [Procs -> Seq(Messages)] /\ out' \in [Procs -> Seq(Messages)]
  BY DEF TransInv, Shapes
<1>6. CASE in' = in /\ out' = out
  BY <1>4, <1>6 DEF Unseen
<1>7. ASSUME NEW m, Return(q, m) PROVE Unseen \/ Delivered
  <2>1. out'[0] = out[0]
    BY <1>0, <1>5, <1>7 DEF Return
  <2>2. CASE q # N
    <3>1. in'[N] = in[N]
      BY <1>0, <1>5, <1>7, <2>2 DEF Return
    <3> QED
      BY <1>4, <2>1, <3>1 DEF Unseen
  <2>3. CASE q = N
    <3> DEFINE s == in[N]
               u == in'[N]
               o == out[0]
    <3>1. u = Append(s, m)
      BY <1>0, <1>5, <1>7, <2>3 DEF Return
    <3>2. s \in Seq(Messages) /\ u \in Seq(Messages) /\ o \in Seq(Messages)
      BY <1>0, <1>5
    <3>3. IsPrefix(u, o)
      <4>1. IsPrefix(in'[N], out'[0])
        BY <1>0 DEF TransInv
      <4> QED
        BY <2>1, <4>1
    <3>4. in'[N] = u
      OBVIOUS
    <3> HIDE DEF s, o, u
    <3>5. Len(u) <= Len(o) /\ \A j \in 1..Len(u) : u[j] = o[j]
      BY <3>2, <3>3, PrefixElements
    <3>6. Len(u) = Len(s) + 1 /\ u[Len(s) + 1] = m /\ Len(s) \in Nat /\ Len(o) \in Nat
      BY <3>1, <3>2
    <3> DEFINE k == Len(s) + 1
    <3>7. k \in 1..Len(u) /\ u[k] = m /\ Len(s) < Len(o)
      BY <3>5, <3>6
    <3>8. m = o[k]
      <4> HIDE DEF k
      <4> QED
        BY <3>5, <3>7
    <3> QED
      BY <1>4, <2>1, <3>1, <3>4, <3>7, <3>8 DEF Delivered, s, o
  <2> QED
    BY <2>2, <2>3
<1> QED
  BY <1>2, <1>6, <1>7

\* Every step is one of sending, delivering and breaking, or is not seen.
LEMMA PipeStep ==
    ASSUME TransInv, TransInv', [Next]_vars
    PROVE  \/ Unseen
           \/ Delivered
           \/ out'[0] = out[0] /\ in'[N] = in[N] /\ Broken'
           \/ /\ \E m \in Messages : out'[0] = Append(out[0], m)
              /\ in'[N] = in[N] /\ (Broken' <=> Broken)
<1>1. CASE Submit
  <2>1. 0 \in Procs /\ out \in [Procs -> Seq(Messages)]
    BY Neighbours DEF TransInv, Shapes
  <2>2. \E m \in Messages : out'[0] = Append(out[0], m)
    BY <1>1, <2>1 DEF Submit
  <2>3. in' = in /\ pc[0] # "exited" /\ pc' = [pc EXCEPT ![0] = "send_len"]
    BY <1>1 DEF Submit, At
  <2>4. Broken' <=> Broken
    BY <2>1, <2>3, SameBroken
  <2> QED
    BY <2>2, <2>3, <2>4
<1>2. ASSUME NEW p \in Procs, ProcStep(p)
      PROVE  Unseen \/ Delivered \/ (out'[0] = out[0] /\ in'[N] = in[N] /\ Broken')
  <2>1. CASE SendLen(p) \/ SendData(p)
    BY <2>1, SendUnseen
  <2>2. CASE WriteFails(p) \/ ReadFails(p)
    BY <2>2, ExitBreaks DEF WriteFails, ReadFails
  <2>3. CASE p > 0 /\ (RecvLen(p) \/ RecvData(p))
    <3>1. p \in Pipes
      BY <2>3, Neighbours DEF Procs
    <3> QED
      BY <2>3, <3>1, RecvDelivers
  <2> QED
    BY <1>2, <2>1, <2>2, <2>3 DEF ProcStep, SendStep, RecvStep
<1>3. ASSUME NEW p \in Procs, Kill(p)
      PROVE  out'[0] = out[0] /\ in'[N] = in[N] /\ Broken'
  BY <1>3, ExitBreaks DEF Kill
<1>4. ASSUME NEW q \in Pipes, Reset(q)
      PROVE  Unseen
  BY <1>4 DEF Reset, Unseen, Broken, Exited
<1>5. CASE UNCHANGED vars
  BY <1>5 DEF vars, Unseen, Broken, Exited
<1> QED
  BY <1>1, <1>2, <1>3, <1>4, <1>5 DEF Next

\* MessagePipe without its fairness.
PipeSafety == Pipe!Init /\ [][Pipe!Next]_Pipe!vars

\* The loops of transmit.c take no step that MessagePipe does not: however many relays there
\* are, messages arrive whole, in order and at most once.
THEOREM TransmitRefinesPipe == Spec => PipeSafety
<1>1. Init => Pipe!Init
  <2> SUFFICES ASSUME Init PROVE Pipe!Init
    OBVIOUS
  <2>1. out[0] = <<>> /\ in[N] = <<>>
    BY Neighbours DEF Init
  <2>2. ~ \E p \in Procs : Exited(p)
    BY DEF Init, Exited
  <2> QED
    BY <2>1, <2>2 DEF Pipe!Init
<1>2. TransInv /\ TransInv' /\ [Next]_vars => [Pipe!Next]_Pipe!vars
  <2> SUFFICES ASSUME TransInv, TransInv', [Next]_vars PROVE [Pipe!Next]_Pipe!vars
    OBVIOUS
  <2>1. CASE Unseen
    BY <2>1 DEF Unseen, Broken, Pipe!vars
  <2>2. CASE Delivered
    BY <2>2 DEF Delivered, Broken, Pipe!Next, Pipe!Deliver
  <2>3. CASE out'[0] = out[0] /\ in'[N] = in[N] /\ Broken'
    BY <2>3 DEF Broken, Pipe!Next, Pipe!Break
  <2>4. CASE /\ \E m \in Messages : out'[0] = Append(out[0], m)
             /\ in'[N] = in[N] /\ (Broken' <=> Broken)
    BY <2>4 DEF Broken, Pipe!Next, Pipe!Send
  <2> QED
    BY <2>1, <2>2, <2>3, <2>4, PipeStep
<1> QED
  BY <1>1, <1>2, TransmitInv, PTL DEF Spec, PipeSafety

=============================================================================
