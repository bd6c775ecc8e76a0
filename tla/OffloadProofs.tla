--------------------------- MODULE OffloadProofs ---------------------------
(***************************************************************************)
(* What is proved of SecureOffload for any number of devices, any range of *)
(* the counters and any of the processes killed at any time: the programs  *)
(* stay in step, at most one request goes round, and its answer is the one *)
(* of that request.                                                        *)
(*                                                                         *)
(* OffInv has two phases.  Until the gateway has accepted a device, only   *)
(* the attestation document can be under way.  From then on the accepted   *)
(* device, the gateway and the enclave form a session: each of the four    *)
(* queues has one of a few shapes, and a request is a token that is in one *)
(* place at most; the counters of the device and of the enclave differ by  *)
(* whether it is on its way there or back.                                 *)
(***************************************************************************)
EXTENDS SecureOffload, FiniteSetTheorems, SequenceTheorems, TLAPS

-----------------------------------------------------------------------------
(* Short queues                                                            *)

One(X) == {<<m>> : m \in X}
Two(X, Y) == {<<m, n>> : m \in X, n \in Y}

\* A request or response is always the last message of a queue.
HasCipher(s) == s # <<>> /\ Last(s).kind = "cipher"

Docs == {Attsdoc(doc) : doc \in DocumentKinds}
Keys(k) == {Pubkey(k)}
CipherMsgs == {Encrypt(k, n) : k \in Procs \cup {NULL}, n \in Numbers}

\* The requests: not empty when the document had a key.
Reqs(doc) == {m \in CipherMsgs : doc.body = "good" => m.len # 0}

\* The responses to request n of the device with key k.
Rsps(k, n) == {m \in CipherMsgs : k # NULL => m.for = k /\ m.body = Before(n)}

-----------------------------------------------------------------------------
(* The inductive invariant                                                 *)

DG == chan[<<iiot_fd, Gateway>>]
GD == chan[<<Gateway, iiot_fd>>]
EG == chan[<<Enclave, Gateway>>]
GE == chan[<<Gateway, Enclave>>]

\* A device that has not been accepted has at most connected.
Strangers ==
    \A d \in Devices \ {iiot_fd} :
        /\ pc[d] \in {"start", "recv_attsdoc", "exited"}
        /\ chan[<<d, Gateway>>] = <<>> /\ chan[<<Gateway, d>>] = <<>>
        /\ n_offloads[d] = 0

\* The devices in the backlog are different, and none of them has been accepted.
Waiting ==
    \A i \in 1..Len(backlog) :
        /\ pc[backlog[i]] \in {"recv_attsdoc", "exited"} /\ backlog[i] # iiot_fd
        /\ \A j \in 1..Len(backlog) : backlog[i] = backlog[j] => i = j

\* Nobody has been accepted: the document is with the enclave, on its way or in attsdoc_buf.
Unaccepted ==
    /\ pc[Gateway] \in {"start", "accept_enclave", "recv_attsdoc", "accept_iiot", "exited"}
    /\ pc[Enclave] \in {"start", "attest", "recv_pubkey", "exited"}
    /\ n_response = 0
    /\ GE = <<>>
    /\ EG = <<>> \/ EG \in One(Docs)
    /\ attsdoc_buf = NULL \/ attsdoc_buf \in Docs
    /\ EG # <<>> => attsdoc_buf = NULL
    /\ pc[Gateway] = "accept_iiot" => attsdoc_buf # NULL
    /\ pc[Enclave] \in {"start", "attest"} => EG = <<>> /\ attsdoc_buf = NULL

\* Where the three processes of a session can be, and the document.
Points ==
    /\ pc[iiot_fd] \in {"recv_attsdoc", "send_pubkey", "period", "sleep", "recv_response", "exited"}
    /\ pc[Gateway] \in {"send_attsdoc", "recv_pubkey", "send_pubkey", "recv_request", "send_request",
                        "recv_response", "send_response", "exited"}
    /\ pc[Enclave] \in {"recv_pubkey", "recv_request", "send_response", "exited"}
    /\ attsdoc_buf \in Docs

K == Keys(mykey[iiot_fd])
Q == Reqs(attsdoc_buf)
R == Rsps(mykey[iiot_fd], n_offloads[iiot_fd])

\* What the queues and the buffers can hold.
Shapes ==
    /\ DG = <<>> \/ DG \in One(K) \/ DG \in One(Q) \/ DG \in Two(K, Q)
    /\ GE = <<>> \/ GE \in One(K) \/ GE \in One(Q) \/ GE \in Two(K, Q)
    /\ EG = <<>> \/ EG \in One(R)
    /\ GD = <<>> \/ GD \in One({attsdoc_buf}) \/ GD \in One(R)

Buffers ==
    /\ pc[Gateway] = "send_pubkey" => buf \in K
    /\ pc[Gateway] = "send_request" => buf \in Q
    /\ pc[Gateway] = "send_response" => buf \in R
    /\ pc[Enclave] = "send_response" => encrypted \in CipherMsgs
    /\ pc[Enclave] \in {"recv_request", "send_response"} => pubkey_iiot = mykey[iiot_fd]
    /\ pc[iiot_fd] \in {"send_pubkey", "period", "sleep", "recv_response"} =>
          /\ attsdoc_buf.body # "invalid"
          /\ pubkey_enclave[iiot_fd] = IF attsdoc_buf.body = "good" THEN Enclave ELSE NULL

\* Which messages can meet which program point: the document before everything, the key
\* before the first request.
Order ==
    /\ pc[Gateway] = "send_attsdoc" =>
          GD = <<>> /\ DG = <<>> /\ pc[iiot_fd] \in {"recv_attsdoc", "exited"}
    /\ pc[iiot_fd] \in {"recv_attsdoc", "send_pubkey"} =>
          /\ DG = <<>> /\ GE = <<>> /\ EG = <<>>
          /\ pc[Gateway] \in {"send_attsdoc", "recv_pubkey", "exited"}
          /\ pc[Enclave] \in {"recv_pubkey", "exited"}
    /\ pc[iiot_fd] \notin {"recv_attsdoc", "exited"} => GD = <<>> \/ GD \in One(R)
    /\ pc[Gateway] \in {"send_attsdoc", "recv_pubkey", "send_pubkey"} =>
          GE = <<>> /\ EG = <<>> /\ pc[Enclave] \in {"recv_pubkey", "exited"}
    /\ pc[Gateway] = "recv_pubkey" =>
          /\ DG = <<>> \/ DG \in One(K) \/ DG \in Two(K, Q)
          /\ pc[iiot_fd] \in {"period", "sleep", "recv_response"} => DG # <<>>
    /\ pc[Gateway] \notin {"send_attsdoc", "recv_pubkey", "exited"} => DG = <<>> \/ DG \in One(Q)
    /\ pc[Enclave] = "recv_pubkey" =>
          /\ GE = <<>> \/ GE \in One(K) \/ GE \in Two(K, Q)
          /\ pc[Gateway] \notin {"send_attsdoc", "recv_pubkey", "send_pubkey", "exited"} => GE # <<>>
    /\ pc[Enclave] \in {"recv_request", "send_response"} => GE = <<>> \/ GE \in One(Q)

\* The places of the token, on its way there and back.
Count(b) == IF b THEN 1 ELSE 0
Going == Count(HasCipher(DG)) + Count(pc[Gateway] = "send_request") + Count(HasCipher(GE))
         + Count(pc[Enclave] = "send_response")
Coming == Count(HasCipher(EG)) + Count(pc[Gateway] = "send_response") + Count(HasCipher(GD))

Token ==
    /\ Going + Coming <= 1
    /\ Going + Coming = 1 => pc[iiot_fd] \in {"recv_response", "exited"}
    /\ (pc[iiot_fd] = "recv_response" /\ pc[Gateway] # "exited" /\ pc[Enclave] # "exited")
          => Going + Coming = 1

\* The two counters.
Counters ==
    /\ pc[iiot_fd] \in {"recv_attsdoc", "send_pubkey"} => n_offloads[iiot_fd] = 0
    /\ Coming = 1 => pc[Enclave] # "recv_pubkey"
    /\ pc[Enclave] = "recv_pubkey" =>
          /\ n_response = 0
          /\ Going = 1 => n_offloads[iiot_fd] = 1
          /\ pc[iiot_fd] \in {"period", "sleep"} => n_offloads[iiot_fd] = 0
    /\ pc[Enclave] \in {"recv_request", "send_response"} =>
          /\ Going = 1 => n_response = n_offloads[iiot_fd]
          /\ (Coming = 1 \/ pc[iiot_fd] \in {"period", "sleep"}) => n_response = After(n_offloads[iiot_fd])

InSession == Points /\ Shapes /\ Buffers /\ Order /\ Token /\ Counters

OffInv ==
    /\ TypeOK /\ Strangers /\ Waiting
    /\ iiot_fd = NULL => Unaccepted
    /\ iiot_fd # NULL => InSession

-----------------------------------------------------------------------------
(* Facts about short queues and messages                                   *)

\* What taking the message off a queue with one leaves.
LEMMA OneFacts ==
    ASSUME NEW X, NEW s \in One(X)
    PROVE  /\ s # <<>> /\ Head(s) \in X /\ Tail(s) = <<>> /\ Front(s) = <<>>
           /\ Last(s) = Head(s) /\ Len(s) = 1 /\ s[1] = Head(s)
<1>1. PICK m \in X : s = <<m>>
  BY DEF One
<1>2. s # <<>> /\ Head(s) = m /\ Tail(s) = <<>> /\ Len(s) = 1 /\ s[1] = m
  BY <1>1
<1>3. Front(s) = <<>>
  BY <1>2, SubSeqEmpty DEF Front
<1> QED
  BY <1>2, <1>3 DEF Last

\* What taking the first or losing the last message of two leaves.
LEMMA TwoFacts ==
    ASSUME NEW X, NEW Y, NEW s \in Two(X, Y)
    PROVE  /\ s # <<>> /\ Head(s) \in X /\ Tail(s) \in One(Y) /\ Front(s) \in One(X)
           /\ Last(s) \in Y /\ Len(s) = 2 /\ s[1] \in X /\ s[2] \in Y
<1>1. PICK m \in X, n \in Y : s = <<m, n>>
  BY DEF Two
<1>2. s # <<>> /\ Head(s) = m /\ Tail(s) = <<n>> /\ Len(s) = 2 /\ s[1] = m /\ s[2] = n
  BY <1>1
<1>3. Front(s) = <<m>>
  <2>1. SubSeq(s, 1, 1) = SubSeq(s, 1, 0) \o <<s[1]>>
    <3>1. s \in Seq(X \cup Y) /\ 1 \in 1..Len(s) /\ 1 \in 1..Len(s) /\ 1 - 1 = 0
      BY <1>1, <1>2
    <3> QED
      BY <3>1, SubSeqRecursiveSecond
  <2>2. SubSeq(s, 1, 0) = <<>>
    BY SubSeqEmpty
  <2>3. <<>> \o <<m>> = <<m>>
    <3>1. <<m>> \in Seq(X)
      OBVIOUS
    <3> QED
      BY <3>1, ConcatEmptySeq
  <2>4. Len(s) - 1 = 1
    BY <1>2
  <2>5. Front(s) = SubSeq(s, 1, 1)
    BY <2>4 DEF Front
  <2>6. SubSeq(s, 1, 1) = <<m>>
    BY <1>2, <2>1, <2>2, <2>3
  <2> QED
    BY <2>5, <2>6
<1> QED
  BY <1>2, <1>3 DEF Last, One

\* A message behind an empty queue, and behind one with one message.
LEMMA AppendFacts ==
    /\ \A X : \A m \in X : Append(<<>>, m) \in One(X)
    /\ \A X, Y : \A s \in One(X) : \A m \in Y : Append(s, m) \in Two(X, Y)
<1>1. ASSUME NEW X, NEW m \in X PROVE Append(<<>>, m) \in One(X)
  <2>1. Append(<<>>, m) = <<m>>
    OBVIOUS
  <2> QED
    BY <2>1 DEF One
<1>2. ASSUME NEW X, NEW Y, NEW s \in One(X), NEW m \in Y PROVE Append(s, m) \in Two(X, Y)
  <2>1. PICK x \in X : s = <<x>>
    BY DEF One
  <2> DEFINE S == X \cup Y
             a == Append(<<x>>, m)
             b == <<x, m>>
  <2>2. Append(<<x>>, m) = <<x, m>>
    <3>1. <<x>> \in Seq(S) /\ m \in S /\ Len(<<x>>) = 1
      OBVIOUS
    <3>2. a \in Seq(S) /\ Len(a) = 2 /\ a[1] = x /\ a[2] = m
      BY <3>1, AppendProperties
    <3>3. b \in Seq(S) /\ Len(b) = 2 /\ b[1] = x /\ b[2] = m
      OBVIOUS
    <3> HIDE DEF a, b, S
    <3>4. \A i \in 1..Len(a) : a[i] = b[i]
      BY <3>2, <3>3
    <3>5. a = b
      BY <3>2, <3>3, <3>4, SeqEqual
    <3> QED
      BY <3>5 DEF a, b
  <2> QED
    BY <2>1, <2>2 DEF Two
<1> QED
  BY <1>1, <1>2

\* The three kinds of messages.
LEMMA DocFacts ==
    \A m \in Docs : /\ m \in Messages /\ m.kind = "attsdoc" /\ m.len = 5000 /\ m # NULL
                    /\ m.body \in DocumentKinds
BY NullAssumption DEF Docs, Attsdoc, Messages

\* A public key is a message that fits the buffers.
LEMMA KeyFacts ==
    \A k \in Devices \cup {NULL} : \A m \in Keys(k) :
        m \in Messages /\ m.kind = "pubkey" /\ m.len <= 451 /\ m.for = k
BY DEF Keys, Pubkey, Messages

\* So is an encrypted one, and for a reader it holds a number.
LEMMA CipherFacts ==
    \A m \in CipherMsgs : /\ m \in Messages /\ m.kind = "cipher" /\ m.len <= 256
                          /\ m.for # NULL => m.body \in Numbers
BY DEF CipherMsgs, Encrypt, Messages

\* The four queues of a session are different, and none of them is another device's.
LEMMA LinkFacts ==
    ASSUME NEW d \in Devices
    PROVE  /\ <<d, Gateway>> \in Links /\ <<Gateway, d>> \in Links
           /\ <<Enclave, Gateway>> \in Links /\ <<Gateway, Enclave>> \in Links
           /\ <<d, Gateway>> # <<Gateway, d>> /\ <<d, Gateway>> # <<Enclave, Gateway>>
           /\ <<d, Gateway>> # <<Gateway, Enclave>> /\ <<Gateway, d>> # <<Enclave, Gateway>>
           /\ <<Gateway, d>> # <<Gateway, Enclave>> /\ <<Enclave, Gateway>> # <<Gateway, Enclave>>
           /\ d # Gateway /\ d # Enclave /\ Gateway # Enclave
           /\ d # NULL /\ d \in Procs /\ Gateway \in Procs /\ Enclave \in Procs
           /\ Gateway # NULL /\ Enclave # NULL
           /\ \A x \in Devices \ {d} : <<x, Gateway>> # <<d, Gateway>> /\ <<Gateway, x>> # <<Gateway, d>>
BY ProcessesAssumption DEF Links, Procs

\* What the possible contents of the queues have in common.
LEMMA QueueFacts ==
    ASSUME TypeOK, iiot_fd # NULL, attsdoc_buf \in Docs
    PROVE  /\ ~ HasCipher(<<>>)
           /\ \A s \in One(K) : /\ s # <<>> /\ Head(s) \in K /\ Tail(s) = <<>> /\ Front(s) = <<>>
                                /\ ~ HasCipher(s)
           /\ \A s \in One(Q) : /\ s # <<>> /\ Head(s) \in Q /\ Tail(s) = <<>> /\ Front(s) = <<>>
                                /\ HasCipher(s)
           /\ \A s \in One(R) : /\ s # <<>> /\ Head(s) \in R /\ Tail(s) = <<>> /\ Front(s) = <<>>
                                /\ HasCipher(s)
           /\ \A s \in Two(K, Q) : /\ s # <<>> /\ Head(s) \in K /\ Tail(s) \in One(Q) /\ Front(s) \in One(K)
                                   /\ HasCipher(s)
           /\ \A s \in One({attsdoc_buf}) :
                 /\ s # <<>> /\ Head(s) = attsdoc_buf /\ Tail(s) = <<>> /\ Front(s) = <<>>
                 /\ ~ HasCipher(s)
<1>1. mykey[iiot_fd] \in Devices \cup {NULL}
  BY DEF TypeOK
<1>2. /\ \A m \in K : m.kind = "pubkey"
      /\ \A m \in Q : m.kind = "cipher"
      /\ \A m \in R : m.kind = "cipher"
      /\ attsdoc_buf.kind = "attsdoc"
  <2>1. \A m \in K : m.kind = "pubkey"
    BY <1>1, KeyFacts DEF K
  <2>2. Q \subseteq CipherMsgs /\ R \subseteq CipherMsgs
    BY DEF Q, R, Reqs, Rsps
  <2>3. attsdoc_buf.kind = "attsdoc"
    BY DocFacts
  <2>4. \A m \in CipherMsgs : m.kind = "cipher"
    BY CipherFacts
  <2> QED
    BY <2>1, <2>2, <2>3, <2>4
<1>3. ~ HasCipher(<<>>)
  BY DEF HasCipher
<1>4. ASSUME NEW s \in One(K)
      PROVE  s # <<>> /\ Head(s) \in K /\ Tail(s) = <<>> /\ Front(s) = <<>> /\ ~ HasCipher(s)
  BY <1>2, OneFacts DEF HasCipher
<1>5. ASSUME NEW s \in One(Q)
      PROVE  s # <<>> /\ Head(s) \in Q /\ Tail(s) = <<>> /\ Front(s) = <<>> /\ HasCipher(s)
  BY <1>2, OneFacts DEF HasCipher
<1>6. ASSUME NEW s \in One(R)
      PROVE  s # <<>> /\ Head(s) \in R /\ Tail(s) = <<>> /\ Front(s) = <<>> /\ HasCipher(s)
  BY <1>2, OneFacts DEF HasCipher
<1>7. ASSUME NEW s \in Two(K, Q)
      PROVE  s # <<>> /\ Head(s) \in K /\ Tail(s) \in One(Q) /\ Front(s) \in One(K) /\ HasCipher(s)
  BY <1>2, TwoFacts DEF HasCipher
<1>8. ASSUME NEW s \in One({attsdoc_buf})
      PROVE  /\ s # <<>> /\ Head(s) = attsdoc_buf /\ Tail(s) = <<>> /\ Front(s) = <<>>
             /\ ~ HasCipher(s)
  BY <1>2, OneFacts DEF HasCipher
<1> QED
  BY <1>3, <1>4, <1>5, <1>6, <1>7, <1>8

-----------------------------------------------------------------------------
(* Steps                                                                   *)

\* A process moves on.
LEMMA AtFacts ==
    ASSUME TypeOK, NEW p \in Procs, NEW l \in ProgramPoints, At(p, l)
    PROVE  /\ pc' \in [Procs -> ProgramPoints] /\ pc'[p] = l
           /\ \A q \in Procs \ {p} : pc'[q] = pc[q]
BY DEF TypeOK, At

\* recv_len_data takes a message off one queue.
LEMMA RecvFacts ==
    ASSUME TypeOK, NEW p \in Procs, NEW q, <<q, p>> \in Links, NEW l \in ProgramPoints, Recv(p, q, l)
    PROVE  /\ chan[<<q, p>>] # <<>> /\ Received(p, q) \in Messages
           /\ chan' \in [Links -> Seq(Messages)]
           /\ chan'[<<q, p>>] = Tail(chan[<<q, p>>])
           /\ \A k \in Links \ {<<q, p>>} : chan'[k] = chan[k]
           /\ pc' \in [Procs -> ProgramPoints] /\ pc'[p] = l
           /\ \A x \in Procs \ {p} : pc'[x] = pc[x]
<1>1. chan \in [Links -> Seq(Messages)] /\ chan[<<q, p>>] \in Seq(Messages)
  BY DEF TypeOK
<1>2. chan[<<q, p>>] # <<>> /\ chan' = [chan EXCEPT ![<<q, p>>] = Tail(@)] /\ At(p, l)
  BY DEF Recv
<1>3. Head(chan[<<q, p>>]) \in Messages /\ Tail(chan[<<q, p>>]) \in Seq(Messages)
  BY <1>1, <1>2, HeadTailProperties
<1>4. /\ chan' \in [Links -> Seq(Messages)]
      /\ chan'[<<q, p>>] = Tail(chan[<<q, p>>])
      /\ \A k \in Links \ {<<q, p>>} : chan'[k] = chan[k]
  BY <1>1, <1>2, <1>3
<1> QED
  BY <1>2, <1>3, <1>4, AtFacts DEF Received

\* send_len_data adds a message to one queue, loses it, or is an exit.
Sent(p, q, m, l) ==
    /\ pc' \in [Procs -> ProgramPoints]
    /\ \A x \in Procs \ {p} : pc'[x] = pc[x]
    /\ chan' \in [Links -> Seq(Messages)]
    /\ \A k \in Links \ {<<p, q>>} : chan'[k] = chan[k]
    /\ \/ pc[q] # "exited" /\ pc'[p] = l /\ chan'[<<p, q>>] = Append(chan[<<p, q>>], m)
       \/ pc[q] = "exited" /\ pc'[p] \in {l, "exited"} /\ chan'[<<p, q>>] = chan[<<p, q>>]

\* What Send does, in terms of the queue and the places of the two ends.
LEMMA SendFacts ==
    ASSUME TypeOK, NEW p \in Procs, NEW q \in Procs, <<p, q>> \in Links, NEW m \in Messages,
           NEW l \in ProgramPoints, Send(p, q, m, l)
    PROVE  Sent(p, q, m, l)
<1>1. chan \in [Links -> Seq(Messages)] /\ chan[<<p, q>>] \in Seq(Messages)
  BY DEF TypeOK
<1>2. "exited" \in ProgramPoints
  BY DEF ProgramPoints
<1>3. CASE /\ ~ Exited(q)
           /\ chan' = [chan EXCEPT ![<<p, q>>] = Append(@, m)]
           /\ At(p, l)
  <2>1. Append(chan[<<p, q>>], m) \in Seq(Messages)
    BY <1>1, AppendProperties
  <2>2. /\ chan' \in [Links -> Seq(Messages)]
        /\ chan'[<<p, q>>] = Append(chan[<<p, q>>], m)
        /\ \A k \in Links \ {<<p, q>>} : chan'[k] = chan[k]
    BY <1>1, <1>3, <2>1
  <2> QED
    BY <1>3, <2>2, AtFacts DEF Sent, Exited
<1>4. CASE /\ Exited(q)
           /\ At(p, l) \/ Exit(p)
           /\ UNCHANGED chan
  BY <1>1, <1>2, <1>4, AtFacts DEF Sent, Exited, Exit
<1> QED
  BY <1>3, <1>4 DEF Send

-----------------------------------------------------------------------------
(* The session                                                             *)

\* What a step of the session does not change.
Unmoved ==
    /\ iiot_fd' = iiot_fd /\ backlog' = backlog
    /\ \A x \in Devices \ {iiot_fd} :
          /\ pc'[x] = pc[x] /\ n_offloads'[x] = n_offloads[x]
          /\ chan'[<<x, Gateway>>] = chan[<<x, Gateway>>] /\ chan'[<<Gateway, x>>] = chan[<<Gateway, x>>]

\* A step in the session of one device does not touch the other devices.
LEMMA OthersInv ==
    ASSUME OffInv, Unmoved
    PROVE  Strangers' /\ Waiting'
<1>1. Strangers'
  BY DEF OffInv, Strangers, Unmoved
<1>2. \A i \in 1..Len(backlog) : backlog[i] \in Devices \ {iiot_fd}
  BY DEF OffInv, Waiting, TypeOK
<1>3. Waiting'
  BY <1>2 DEF OffInv, Waiting, Unmoved
<1> QED
  BY <1>1, <1>3

\* What is known in a session.
LEMMA SessionStart ==
    ASSUME OffInv, iiot_fd # NULL
    PROVE  TypeOK /\ InSession /\ iiot_fd \in Devices
BY DEF OffInv, TypeOK

\* A step in a session has to keep only what is said of the session.
LEMMA SessionEnd ==
    ASSUME OffInv, iiot_fd # NULL, Unmoved, TypeOK', InSession'
    PROVE  OffInv'
BY OthersInv DEF OffInv, Unmoved

\* What a queue holds after a step.
LEMMA CipherAfter ==
    ASSUME NEW s
    PROVE  /\ DG' = s => (HasCipher(DG)' <=> HasCipher(s))
           /\ GD' = s => (HasCipher(GD)' <=> HasCipher(s))
           /\ EG' = s => (HasCipher(EG)' <=> HasCipher(s))
           /\ GE' = s => (HasCipher(GE)' <=> HasCipher(s))
BY DEF HasCipher

\* A queue that does not change still holds an encrypted message, or none.
LEMMA CipherKept ==
    /\ DG' = DG => (HasCipher(DG)' <=> HasCipher(DG))
    /\ GD' = GD => (HasCipher(GD)' <=> HasCipher(GD))
    /\ EG' = EG => (HasCipher(EG)' <=> HasCipher(EG))
    /\ GE' = GE => (HasCipher(GE)' <=> HasCipher(GE))
BY CipherAfter

\* The counters.
LEMMA NumberFacts ==
    /\ 0 \in Numbers /\ 0 # 1 /\ After(0) = 1
    /\ \A n \in Numbers : After(n) \in Numbers /\ Before(n) \in Numbers
<1>1. NumberRange \in Nat /\ NumberRange > 1
  BY OffloadAssumption
<1>2. 0 \in Numbers
  BY <1>1 DEF Numbers
<1>3. 1 % NumberRange = 1
  BY <1>1
<1>4. \A x \in Int : x % NumberRange \in 0..(NumberRange - 1)
  BY <1>1
<1>5. ASSUME NEW n \in Numbers
      PROVE  After(n) \in Numbers /\ Before(n) \in Numbers
  BY <1>1, <1>4 DEF Numbers, After, Before
<1> QED
  BY <1>2, <1>3, <1>5 DEF After

-----------------------------------------------------------------------------
(* Exits and resets                                                        *)

\* A process exits: nothing that the others rely on is disturbed.
LEMMA ExitInv ==
    ASSUME OffInv, NEW p \in Procs, Exit(p),
           UNCHANGED <<net, gateway_vars, enclave_vars, device_vars>>
    PROVE  OffInv'
<1>1. TypeOK /\ "exited" \in ProgramPoints
  BY DEF OffInv, ProgramPoints
<1>2. pc' \in [Procs -> ProgramPoints] /\ \A q \in Procs : pc'[q] = pc[q] \/ pc'[q] = "exited"
  BY <1>1, AtFacts DEF Exit
<1>3. UNCHANGED <<chan, connected, backlog, attsdoc_buf, buf, iiot_fd, pubkey_iiot, encrypted,
                  n_response, pubkey_enclave, mykey, n_offloads, data_out>>
  BY DEF net, gateway_vars, enclave_vars, device_vars
<1>4. TypeOK'
  BY <1>1, <1>2, <1>3 DEF TypeOK
<1>5. Strangers' /\ Waiting'
  <2>1. Strangers'
    BY <1>2, <1>3 DEF OffInv, Strangers, Procs
  <2>2. \A i \in 1..Len(backlog) : backlog[i] \in Procs
    BY <1>1 DEF TypeOK, Procs
  <2>3. Waiting'
    BY <1>2, <1>3, <2>2 DEF OffInv, Waiting
  <2> QED
    BY <2>1, <2>3
<1>6. Gateway \in Procs /\ Enclave \in Procs
  BY DEF Procs
<1>7. CASE iiot_fd = NULL
  <2>1. GE' = GE /\ EG' = EG
    BY <1>3 DEF GE, EG
  <2>2. Unaccepted'
    BY <1>2, <1>3, <1>6, <1>7, <2>1 DEF OffInv, Unaccepted
  <2> QED
    BY <1>3, <1>4, <1>5, <1>7, <2>2 DEF OffInv
<1>8. CASE iiot_fd # NULL
  <2>1. InSession /\ iiot_fd \in Procs
    BY <1>1, <1>8 DEF OffInv, TypeOK, Procs
  <2>2. /\ DG' = DG /\ GD' = GD /\ EG' = EG /\ GE' = GE /\ K' = K /\ Q' = Q /\ R' = R
        /\ iiot_fd' = iiot_fd
    BY <1>3 DEF DG, GD, EG, GE, K, Q, R
  <2>3. /\ pc'[iiot_fd] = pc[iiot_fd] \/ pc'[iiot_fd] = "exited"
        /\ pc'[Gateway] = pc[Gateway] \/ pc'[Gateway] = "exited"
        /\ pc'[Enclave] = pc[Enclave] \/ pc'[Enclave] = "exited"
    BY <1>2, <1>6, <2>1
  <2>4. Points' /\ Shapes'
    BY <1>3, <2>1, <2>2, <2>3 DEF InSession, Points, Shapes
  <2>5. Buffers'
    BY <1>3, <2>1, <2>2, <2>3 DEF InSession, Buffers
  <2>6. Order'
    BY <1>3, <2>1, <2>2, <2>3 DEF InSession, Order
  <2>7. /\ Going \in Nat /\ Coming \in Nat /\ Going' \in Nat /\ Coming' \in Nat
        /\ Going' <= Going /\ Coming' <= Coming
        /\ (pc'[Gateway] # "exited" /\ pc'[Enclave] # "exited") => Going' = Going /\ Coming' = Coming
    BY <2>2, <2>3, CipherKept DEF Going, Coming, Count
  <2>8. Token'
    BY <2>1, <2>2, <2>3, <2>7 DEF InSession, Token
  <2>9. Counters'
    BY <1>3, <2>1, <2>2, <2>3, <2>7, <2>8 DEF InSession, Token, Counters
  <2> QED
    BY <1>3, <1>4, <1>5, <1>8, <2>4, <2>5, <2>6, <2>8, <2>9 DEF OffInv, InSession
<1> QED
  BY <1>7, <1>8

\* A reset takes the last message off a queue whose sender has exited.
LEMMA ResetInv ==
    ASSUME OffInv, NEW l \in Links, Reset(l[1], l[2])
    PROVE  OffInv'
<1>1. TypeOK
  BY DEF OffInv
<1>2. PICK p, q \in Procs : l = <<p, q>>
  BY DEF Links, Procs
<1>3. /\ pc[p] = "exited" /\ chan[l] # <<>>
      /\ chan' = [chan EXCEPT ![l] = Front(@)]
      /\ UNCHANGED <<pc, connected, backlog, attsdoc_buf, buf, iiot_fd, pubkey_iiot, encrypted,
                     n_response, pubkey_enclave, mykey, n_offloads, data_out>>
  BY <1>2 DEF Reset, Exited, gateway_vars, enclave_vars, device_vars
<1>4. /\ chan' \in [Links -> Seq(Messages)] /\ chan'[l] = Front(chan[l])
      /\ \A k \in Links \ {l} : chan'[k] = chan[k]
  <2>1. chan \in [Links -> Seq(Messages)] /\ chan[l] \in Seq(Messages)
    BY <1>1 DEF TypeOK
  <2>2. Front(chan[l]) \in Seq(Messages)
    <3>1. chan[l] # <<>> /\ chan[l] \in Seq(Messages)
      BY <1>3, <2>1
    <3>2. Len(chan[l]) \in Nat /\ Len(chan[l]) >= 1
      BY <3>1
    <3>3. \A i \in 1..(Len(chan[l]) - 1) : chan[l][i] \in Messages
      BY <3>1, <3>2
    <3> QED
      BY <3>1, <3>2, <3>3 DEF Front
  <2> QED
    BY <1>3, <2>1, <2>2
<1>5. TypeOK'
  BY <1>1, <1>3, <1>4 DEF TypeOK
<1>6. ASSUME NEW d \in Devices \ {iiot_fd}
      PROVE  <<d, Gateway>> # l /\ <<Gateway, d>> # l
  BY <1>3 DEF OffInv, Strangers
<1>7. Strangers' /\ Waiting'
  <2>1. Strangers'
    BY <1>3, <1>4, <1>6, LinkFacts DEF OffInv, Strangers
  <2>2. Waiting'
    BY <1>3 DEF OffInv, Waiting
  <2> QED
    BY <2>1, <2>2
<1>8. CASE iiot_fd = NULL
  <2>1. PICK d \in Devices : TRUE
    BY ProcessesAssumption
  <2>2. <<Gateway, Enclave>> \in Links /\ <<Enclave, Gateway>> \in Links
    BY <2>1, LinkFacts
  <2>3. GE' = GE /\ (EG' = EG \/ (EG \in One(Docs) /\ EG' = Front(EG)))
    BY <1>3, <1>4, <1>8, <2>2 DEF OffInv, Unaccepted, GE, EG
  <2>4. EG' = EG \/ EG' = <<>>
    BY <2>3, OneFacts
  <2>5. Unaccepted'
    BY <1>3, <1>8, <2>3, <2>4 DEF OffInv, Unaccepted
  <2> QED
    BY <1>3, <1>5, <1>7, <1>8, <2>5 DEF OffInv
<1>9. CASE iiot_fd # NULL
  <2>1. InSession /\ iiot_fd \in Devices
    BY <1>9, SessionStart
  <2>2. K' = K /\ Q' = Q /\ R' = R /\ iiot_fd' = iiot_fd
    BY <1>3 DEF K, Q, R
  <2>3. /\ <<iiot_fd, Gateway>> \in Links /\ <<Gateway, iiot_fd>> \in Links
        /\ <<Enclave, Gateway>> \in Links /\ <<Gateway, Enclave>> \in Links
    BY <2>1, LinkFacts
  <2>4. /\ DG' = DG \/ (pc[iiot_fd] = "exited" /\ DG' = Front(DG) /\ DG # <<>>)
        /\ GD' = GD \/ (pc[Gateway] = "exited" /\ GD' = Front(GD) /\ GD # <<>>)
        /\ EG' = EG \/ (pc[Enclave] = "exited" /\ EG' = Front(EG) /\ EG # <<>>)
        /\ GE' = GE \/ (pc[Gateway] = "exited" /\ GE' = Front(GE) /\ GE # <<>>)
    BY <1>2, <1>3, <1>4, <2>3 DEF DG, GD, EG, GE
  <2>a. \A s \in Two(K, Q) : /\ s \notin One(R) /\ s \notin One({attsdoc_buf})
                             /\ s \notin One(Q) /\ s # <<>>
    BY OneFacts, TwoFacts
  <2>5. ASSUME NEW s, \/ s \in One(K) \/ s \in One(Q) \/ s \in One(R) \/ s \in Two(K, Q)
                      \/ s \in One({attsdoc_buf})
        PROVE  /\ ~ HasCipher(Front(s))
               /\ Front(s) = <<>> \/ (s \in Two(K, Q) /\ Front(s) \in One(K))
    BY <1>1, <1>9, <2>1, <2>5, QueueFacts DEF InSession, Points
  <2>6. /\ DG' = DG \/ (pc[iiot_fd] = "exited" /\ ~ HasCipher(DG)' /\ (DG' = <<>> \/ (DG \in Two(K, Q) /\ DG' \in One(K))))
        /\ GD' = GD \/ (pc[Gateway] = "exited" /\ ~ HasCipher(GD)' /\ GD' = <<>>)
        /\ EG' = EG \/ (pc[Enclave] = "exited" /\ ~ HasCipher(EG)' /\ EG' = <<>>)
        /\ GE' = GE \/ (pc[Gateway] = "exited" /\ ~ HasCipher(GE)' /\ (GE' = <<>> \/ (GE \in Two(K, Q) /\ GE' \in One(K))))
    <3>1. /\ EG # <<>> => EG \in One(R)
          /\ GD # <<>> => GD \in One(R) \/ GD \in One({attsdoc_buf})
      BY <2>1 DEF InSession, Shapes
    <3>2. ASSUME DG' # DG
          PROVE  pc[iiot_fd] = "exited" /\ ~ HasCipher(DG)' /\ (DG' = <<>> \/ (DG \in Two(K, Q) /\ DG' \in One(K)))
      <4>1. DG' = Front(DG) /\ DG # <<>>
        BY <2>4, <3>2
      <4>2. ~ HasCipher(Front(DG)) /\ (Front(DG) = <<>> \/ (DG \in Two(K, Q) /\ Front(DG) \in One(K)))
        BY <2>1, <2>5, <4>1 DEF InSession, Shapes
      <4>3. ~ HasCipher(DG)'
        BY <4>1, <4>2, CipherAfter
      <4> QED
        BY <2>4, <2>a, <3>1, <3>2, <4>1, <4>2, <4>3
    <3>3. ASSUME GD' # GD
          PROVE  pc[Gateway] = "exited" /\ ~ HasCipher(GD)' /\ GD' = <<>>
      <4>1. GD' = Front(GD) /\ GD # <<>>
        BY <2>4, <3>3
      <4>2. ~ HasCipher(Front(GD)) /\ (Front(GD) = <<>> \/ (GD \in Two(K, Q) /\ Front(GD) \in One(K)))
        BY <2>1, <2>5, <4>1 DEF InSession, Shapes
      <4>3. ~ HasCipher(GD)'
        BY <4>1, <4>2, CipherAfter
      <4> QED
        BY <2>4, <2>a, <3>1, <3>3, <4>1, <4>2, <4>3
    <3>4. ASSUME EG' # EG
          PROVE  pc[Enclave] = "exited" /\ ~ HasCipher(EG)' /\ EG' = <<>>
      <4>1. EG' = Front(EG) /\ EG # <<>>
        BY <2>4, <3>4
      <4>2. ~ HasCipher(Front(EG)) /\ (Front(EG) = <<>> \/ (EG \in Two(K, Q) /\ Front(EG) \in One(K)))
        BY <2>1, <2>5, <4>1 DEF InSession, Shapes
      <4>3. ~ HasCipher(EG)'
        BY <4>1, <4>2, CipherAfter
      <4> QED
        BY <2>4, <2>a, <3>1, <3>4, <4>1, <4>2, <4>3
    <3>5. ASSUME GE' # GE
          PROVE  pc[Gateway] = "exited" /\ ~ HasCipher(GE)' /\ (GE' = <<>> \/ (GE \in Two(K, Q) /\ GE' \in One(K)))
      <4>1. GE' = Front(GE) /\ GE # <<>>
        BY <2>4, <3>5
      <4>2. ~ HasCipher(Front(GE)) /\ (Front(GE) = <<>> \/ (GE \in Two(K, Q) /\ Front(GE) \in One(K)))
        BY <2>1, <2>5, <4>1 DEF InSession, Shapes
      <4>3. ~ HasCipher(GE)'
        BY <4>1, <4>2, CipherAfter
      <4> QED
        BY <2>4, <2>a, <3>1, <3>5, <4>1, <4>2, <4>3
    <3> QED
      BY <2>4, <3>2, <3>3, <3>4, <3>5
  <2>7. Points' /\ Shapes'
    BY <1>3, <2>1, <2>2, <2>6 DEF InSession, Points, Shapes
  <2>8. Buffers'
    BY <1>3, <2>1, <2>2 DEF InSession, Buffers
  <2>9. Order'
    BY <1>3, <2>1, <2>2, <2>a, <2>6 DEF InSession, Order
  <2>10. /\ Going \in Nat /\ Coming \in Nat /\ Going' \in Nat /\ Coming' \in Nat
         /\ Going' <= Going /\ Coming' <= Coming
         /\ (pc[iiot_fd] # "exited" /\ pc[Gateway] # "exited" /\ pc[Enclave] # "exited")
                => Going' = Going /\ Coming' = Coming
    BY <1>3, <2>6, CipherKept DEF Going, Coming, Count
  <2>11. Token'
    BY <1>3, <2>1, <2>2, <2>10 DEF InSession, Token
  <2>12. Counters'
    BY <1>3, <2>1, <2>2, <2>10, <2>11 DEF InSession, Token, Counters
  <2> QED
    BY <1>3, <1>5, <1>7, <1>9, <2>7, <2>8, <2>9, <2>11, <2>12 DEF OffInv, InSession
<1> QED
  BY <1>8, <1>9

-----------------------------------------------------------------------------
(* Before a device is accepted                                             *)

\* The invariant holds at the start.
LEMMA InitInv == Init => OffInv
<1> SUFFICES ASSUME Init PROVE OffInv
  OBVIOUS
<1>1. PICK d0 \in Devices : TRUE
  BY ProcessesAssumption
<1>2. /\ \A l \in Links : chan[l] = <<>>
      /\ <<Gateway, Enclave>> \in Links /\ <<Enclave, Gateway>> \in Links
  BY <1>1, LinkFacts DEF Init
<1>3. TypeOK
  BY NumberFacts DEF Init, TypeOK, ProgramPoints
<1>4. Strangers /\ Waiting
  BY <1>2, LinkFacts DEF Init, Strangers, Waiting, Procs
<1>5. Unaccepted
  BY <1>2 DEF Init, Unaccepted, GE, EG, Procs
<1> QED
  BY <1>3, <1>4, <1>5 DEF Init, OffInv

\* While nobody has been accepted, a step that concerns the gateway and the enclave only
\* has to keep Unaccepted.
LEMMA BeforeSession ==
    ASSUME OffInv, iiot_fd = NULL, TypeOK', Unaccepted',
           \A x \in Devices : pc'[x] = pc[x],
           \A x \in Devices : /\ chan'[<<x, Gateway>>] = chan[<<x, Gateway>>]
                              /\ chan'[<<Gateway, x>>] = chan[<<Gateway, x>>],
           UNCHANGED <<backlog, iiot_fd, n_offloads>>
    PROVE  OffInv'
<1>1. Unmoved
  BY DEF Unmoved
<1> QED
  BY <1>1, OthersInv DEF OffInv

\* The gateway listens and accepts the enclave.
LEMMA ListenInv ==
    ASSUME OffInv, ListenEnclave \/ AcceptEnclave
    PROVE  OffInv'
<1>1. TypeOK /\ Gateway \in Procs /\ {"accept_enclave", "recv_attsdoc"} \subseteq ProgramPoints
  BY DEF OffInv, Procs, ProgramPoints
<1>2. /\ pc[Gateway] \in {"start", "accept_enclave"}
      /\ At(Gateway, "accept_enclave") \/ At(Gateway, "recv_attsdoc")
      /\ UNCHANGED <<chan, connected, backlog, attsdoc_buf, buf, iiot_fd, pubkey_iiot, encrypted,
                     n_response, pubkey_enclave, mykey, n_offloads, data_out>>
  BY DEF ListenEnclave, AcceptEnclave, net, gateway_vars, enclave_vars, device_vars
<1>3. /\ pc' \in [Procs -> ProgramPoints] /\ pc'[Gateway] \in {"accept_enclave", "recv_attsdoc"}
      /\ \A q \in Procs \ {Gateway} : pc'[q] = pc[q]
  BY <1>1, <1>2, AtFacts
<1>4. iiot_fd = NULL
  BY <1>2 DEF OffInv, InSession, Points
<1>5. TypeOK'
  BY <1>1, <1>2, <1>3 DEF TypeOK
<1>6. Unaccepted'
  <2>1. pc'[Enclave] = pc[Enclave] /\ GE' = GE /\ EG' = EG
    BY <1>2, <1>3, ProcessesAssumption DEF Procs, GE, EG
  <2> QED
    BY <1>2, <1>3, <1>4, <2>1 DEF OffInv, Unaccepted
<1>7. \A x \in Devices : pc'[x] = pc[x]
  BY <1>3, ProcessesAssumption DEF Procs
<1> QED
  BY <1>2, <1>4, <1>5, <1>6, <1>7, BeforeSession

\* The gateway receives the enclave's document.
LEMMA RecvEnclaveAttsdocInv ==
    ASSUME OffInv, RecvEnclaveAttsdoc
    PROVE  OffInv'
<1>1. PICK d0 \in Devices : TRUE
  BY ProcessesAssumption
<1>2. TypeOK /\ Gateway \in Procs /\ <<Enclave, Gateway>> \in Links /\ "accept_iiot" \in ProgramPoints
  BY <1>1, LinkFacts DEF OffInv, ProgramPoints
<1>3. /\ pc[Gateway] = "recv_attsdoc" /\ Recv(Gateway, Enclave, "accept_iiot")
      /\ attsdoc_buf' = Received(Gateway, Enclave)
      /\ UNCHANGED <<connected, backlog, buf, iiot_fd, pubkey_iiot, encrypted,
                     n_response, pubkey_enclave, mykey, n_offloads, data_out>>
  BY DEF RecvEnclaveAttsdoc, enclave_vars, device_vars
<1>4. /\ EG # <<>> /\ Received(Gateway, Enclave) \in Messages
      /\ chan' \in [Links -> Seq(Messages)]
      /\ chan'[<<Enclave, Gateway>>] = Tail(EG)
      /\ \A k \in Links \ {<<Enclave, Gateway>>} : chan'[k] = chan[k]
      /\ pc' \in [Procs -> ProgramPoints] /\ pc'[Gateway] = "accept_iiot"
      /\ \A x \in Procs \ {Gateway} : pc'[x] = pc[x]
  BY <1>2, <1>3, RecvFacts DEF EG
<1>5. iiot_fd = NULL
  BY <1>3 DEF OffInv, InSession, Points
<1>6. TypeOK'
  BY <1>2, <1>3, <1>4 DEF TypeOK
<1>7. Unaccepted'
  <2>1. EG \in One(Docs) /\ Unaccepted
    BY <1>4, <1>5 DEF OffInv, Unaccepted
  <2>2. Head(EG) \in Docs /\ Tail(EG) = <<>>
    BY <2>1, OneFacts
  <2>3. attsdoc_buf' \in Docs /\ attsdoc_buf' # NULL
    BY <1>3, <2>2, DocFacts DEF Received, EG
  <2>4. pc'[Enclave] = pc[Enclave] /\ GE' = GE /\ EG' = <<>>
    BY <1>1, <1>4, <2>2, LinkFacts DEF GE, EG
  <2> QED
    BY <1>3, <1>4, <2>1, <2>3, <2>4 DEF Unaccepted
<1>8. \A x \in Devices : /\ pc'[x] = pc[x]
                         /\ chan'[<<x, Gateway>>] = chan[<<x, Gateway>>]
                         /\ chan'[<<Gateway, x>>] = chan[<<Gateway, x>>]
  BY <1>4, LinkFacts
<1> QED
  BY <1>3, <1>5, <1>6, <1>7, <1>8, BeforeSession

\* A session begins.
LEMMA AcceptIiotDeviceInv ==
    ASSUME OffInv, AcceptIiotDevice
    PROVE  OffInv'
<1> DEFINE d == Head(backlog)
<1>1. TypeOK /\ Gateway \in Procs /\ "send_attsdoc" \in ProgramPoints
  BY DEF OffInv, Procs, ProgramPoints
<1>2. /\ pc[Gateway] = "accept_iiot" /\ backlog # <<>>
      /\ iiot_fd' = d /\ backlog' = Tail(backlog) /\ At(Gateway, "send_attsdoc")
      /\ UNCHANGED <<chan, connected, attsdoc_buf, buf, pubkey_iiot, encrypted,
                     n_response, pubkey_enclave, mykey, n_offloads, data_out>>
  BY DEF AcceptIiotDevice, enclave_vars, device_vars
<1>3. iiot_fd = NULL /\ Unaccepted
  BY <1>2 DEF OffInv, InSession, Points
<1>4. backlog \in Seq(Devices)
  BY <1>1 DEF TypeOK
<1>5. /\ d \in Devices /\ d = backlog[1] /\ Tail(backlog) \in Seq(Devices)
      /\ Len(Tail(backlog)) = Len(backlog) - 1 /\ Len(backlog) \in Nat /\ Len(backlog) >= 1
      /\ \A i \in 1..Len(Tail(backlog)) : Tail(backlog)[i] = backlog[i + 1]
  BY <1>2, <1>4, HeadTailProperties
<1>6. /\ pc' \in [Procs -> ProgramPoints] /\ pc'[Gateway] = "send_attsdoc"
      /\ \A x \in Procs \ {Gateway} : pc'[x] = pc[x]
  BY <1>1, <1>2, AtFacts
<1> HIDE DEF d
<1>7. TypeOK'
  BY <1>1, <1>2, <1>5, <1>6 DEF TypeOK
<1>8. /\ \A x \in Devices : pc'[x] = pc[x]
      /\ pc'[Enclave] = pc[Enclave] /\ Devices \ {iiot_fd} = Devices
  BY <1>3, <1>6, ProcessesAssumption DEF Procs
<1>9. Strangers'
  BY <1>2, <1>8 DEF OffInv, Strangers
<1>10. Waiting'
  <2> SUFFICES ASSUME NEW i \in 1..Len(Tail(backlog))
               PROVE  /\ pc'[Tail(backlog)[i]] \in {"recv_attsdoc", "exited"} /\ Tail(backlog)[i] # d
                      /\ \A j \in 1..Len(Tail(backlog)) : Tail(backlog)[i] = Tail(backlog)[j] => i = j
    BY <1>2 DEF Waiting
  <2>1. i + 1 \in 1..Len(backlog) /\ 1 \in 1..Len(backlog) /\ i + 1 # 1 /\ Tail(backlog)[i] = backlog[i + 1]
    BY <1>5
  <2>2. pc[backlog[i + 1]] \in {"recv_attsdoc", "exited"} /\ backlog[i + 1] # backlog[1]
    BY <2>1 DEF OffInv, Waiting
  <2>3. backlog[i + 1] \in Devices
    BY <1>4, <2>1
  <2>4. ASSUME NEW j \in 1..Len(Tail(backlog)), Tail(backlog)[i] = Tail(backlog)[j]
        PROVE  i = j
    <3>1. j + 1 \in 1..Len(backlog) /\ backlog[i + 1] = backlog[j + 1]
      BY <1>5, <2>1, <2>4
    <3>2. i + 1 = j + 1
      BY <2>1, <3>1 DEF OffInv, Waiting
    <3> QED
      BY <3>2
  <2> QED
    BY <1>5, <1>8, <2>1, <2>2, <2>3, <2>4
<1>11. InSession'
  <2>1. /\ pc'[d] \in {"recv_attsdoc", "exited"} /\ n_offloads[d] = 0
        /\ chan[<<d, Gateway>>] = <<>> /\ chan[<<Gateway, d>>] = <<>>
    <3>1. 1 \in 1..Len(backlog)
      BY <1>5
    <3>2. pc[d] \in {"recv_attsdoc", "exited"}
      BY <1>5, <3>1 DEF OffInv, Waiting
    <3> QED
      BY <1>5, <1>8, <3>2 DEF OffInv, Strangers
  <2>2. /\ attsdoc_buf' \in Docs /\ EG = <<>> /\ GE = <<>> /\ n_response = 0
        /\ pc'[Enclave] \in {"recv_pubkey", "exited"}
    BY <1>2, <1>3, <1>8 DEF Unaccepted
  <2>3. DG' = <<>> /\ GD' = <<>> /\ EG' = <<>> /\ GE' = <<>>
    BY <1>2, <2>1, <2>2 DEF DG, GD, EG, GE
  <2>4. Points' /\ Shapes' /\ Buffers'
    BY <1>2, <1>6, <2>1, <2>2, <2>3 DEF Points, Shapes, Buffers
  <2>5. Order'
    BY <1>2, <1>6, <2>1, <2>2, <2>3 DEF Order
  <2>6. Going' = 0 /\ Coming' = 0
    BY <1>6, <2>2, <2>3 DEF Going, Coming, Count, HasCipher
  <2>7. Token' /\ Counters'
    BY <1>2, <1>6, <2>1, <2>2, <2>6 DEF Token, Counters
  <2> QED
    BY <2>4, <2>5, <2>7 DEF InSession
<1> QED
  BY <1>2, <1>5, <1>7, <1>9, <1>10, <1>11, LinkFacts DEF OffInv

\* The enclave connects, or gives up.
LEMMA EnclaveConnectInv ==
    ASSUME OffInv, EnclaveConnect
    PROVE  OffInv'
<1>1. TypeOK /\ Enclave \in Procs /\ "attest" \in ProgramPoints
  BY DEF OffInv, Procs, ProgramPoints
<1>2. /\ pc[Enclave] = "start"
      /\ UNCHANGED <<chan, backlog, attsdoc_buf, buf, iiot_fd, pubkey_iiot, encrypted,
                     n_response, pubkey_enclave, mykey, n_offloads, data_out>>
  BY DEF EnclaveConnect, gateway_vars, enclave_vars, device_vars
<1>3. CASE Exit(Enclave) /\ UNCHANGED connected
  BY <1>1, <1>2, <1>3, ExitInv DEF net, gateway_vars, enclave_vars, device_vars
<1>4. CASE At(Enclave, "attest") /\ connected' = connected \cup {Enclave}
  <2>1. /\ pc' \in [Procs -> ProgramPoints] /\ pc'[Enclave] = "attest"
        /\ \A q \in Procs \ {Enclave} : pc'[q] = pc[q]
    BY <1>1, <1>4, AtFacts
  <2>2. iiot_fd = NULL
    BY <1>2 DEF OffInv, InSession, Points
  <2>3. TypeOK'
    BY <1>1, <1>2, <1>4, <2>1 DEF TypeOK
  <2>4. pc'[Gateway] = pc[Gateway] /\ GE' = GE /\ EG' = EG
    BY <1>2, <2>1, ProcessesAssumption DEF Procs, GE, EG
  <2>5. Unaccepted'
    BY <1>2, <2>1, <2>2, <2>4 DEF OffInv, Unaccepted
  <2>6. \A x \in Devices : pc'[x] = pc[x]
    BY <2>1, ProcessesAssumption DEF Procs
  <2> QED
    BY <1>2, <2>2, <2>3, <2>5, <2>6, BeforeSession
<1> QED
  BY <1>3, <1>4 DEF EnclaveConnect

\* The enclave sends its document.
LEMMA EnclaveAttestInv ==
    ASSUME OffInv, EnclaveAttest
    PROVE  OffInv'
<1>1. PICK d0 \in Devices : TRUE
  BY ProcessesAssumption
<1>2. /\ TypeOK /\ Gateway \in Procs /\ Enclave \in Procs /\ <<Enclave, Gateway>> \in Links
      /\ "recv_pubkey" \in ProgramPoints
  BY <1>1, LinkFacts DEF OffInv, ProgramPoints
<1>3. /\ pc[Enclave] = "attest"
      /\ UNCHANGED <<connected, backlog, attsdoc_buf, buf, iiot_fd, pubkey_iiot, encrypted,
                     n_response, pubkey_enclave, mykey, n_offloads, data_out>>
  BY DEF EnclaveAttest, gateway_vars, enclave_vars, device_vars
<1>4. CASE Exit(Enclave) /\ UNCHANGED chan
  BY <1>2, <1>3, <1>4, ExitInv DEF net, gateway_vars, enclave_vars, device_vars
<1>5. ASSUME NEW doc \in Documents, Send(Enclave, Gateway, Attsdoc(doc), "recv_pubkey")
      PROVE  OffInv'
  <2>1. Attsdoc(doc) \in Docs
    BY OffloadAssumption DEF Docs
  <2>2. Attsdoc(doc) \in Messages
    BY <2>1, DocFacts
  <2>3. Sent(Enclave, Gateway, Attsdoc(doc), "recv_pubkey")
    BY <1>2, <1>5, <2>2, SendFacts
  <2>4. iiot_fd = NULL /\ Unaccepted /\ EG = <<>> /\ attsdoc_buf = NULL
    BY <1>3 DEF OffInv, InSession, Points, Unaccepted
  <2>5. TypeOK'
    BY <1>2, <1>3, <2>3 DEF TypeOK, Sent
  <2>6. EG' = <<>> \/ EG' \in One(Docs)
    <3>1. EG' = EG \/ EG' = Append(EG, Attsdoc(doc))
      BY <2>3 DEF EG, Sent
    <3> QED
      BY <2>1, <2>4, <3>1, AppendFacts
  <2>7. GE' = GE /\ pc'[Gateway] = pc[Gateway] /\ pc'[Enclave] \in {"recv_pubkey", "exited"}
    BY <1>1, <2>3, LinkFacts DEF Sent, GE
  <2>8. Unaccepted'
    <3>1. pc[Gateway] # "accept_iiot"
      BY <2>4 DEF Unaccepted
    <3> QED
      BY <1>3, <2>4, <2>6, <2>7, <3>1 DEF Unaccepted
  <2>9. \A x \in Devices : /\ pc'[x] = pc[x]
                           /\ chan'[<<x, Gateway>>] = chan[<<x, Gateway>>]
                           /\ chan'[<<Gateway, x>>] = chan[<<Gateway, x>>]
    BY <2>3, LinkFacts DEF Sent
  <2> QED
    BY <1>3, <2>4, <2>5, <2>8, <2>9, BeforeSession
<1> QED
  BY <1>4, <1>5 DEF EnclaveAttest

\* Another device connects: it waits in the backlog, and the session does not notice.
LEMMA DeviceConnectInv ==
    ASSUME OffInv, NEW d \in Devices, DeviceConnect(d)
    PROVE  OffInv'
<1>1. TypeOK /\ d \in Procs /\ "recv_attsdoc" \in ProgramPoints
  BY DEF OffInv, Procs, ProgramPoints
<1>2. /\ pc[d] = "start"
      /\ UNCHANGED <<chan, attsdoc_buf, buf, iiot_fd, pubkey_iiot, encrypted,
                     n_response, pubkey_enclave, mykey, n_offloads, data_out>>
  BY DEF DeviceConnect, gateway_vars, enclave_vars, device_vars
<1>3. CASE Exit(d) /\ UNCHANGED <<connected, backlog>>
  BY <1>1, <1>2, <1>3, ExitInv DEF net, gateway_vars, enclave_vars, device_vars
<1>4. CASE /\ At(d, "recv_attsdoc") /\ connected' = connected \cup {d}
           /\ backlog' = Append(backlog, d)
  <2>1. /\ pc' \in [Procs -> ProgramPoints] /\ pc'[d] = "recv_attsdoc"
        /\ \A q \in Procs \ {d} : pc'[q] = pc[q]
    BY <1>1, <1>4, AtFacts
  <2>2. d # iiot_fd
    BY <1>2, LinkFacts DEF OffInv, InSession, Points
  <2>3. /\ backlog \in Seq(Devices) /\ backlog' \in Seq(Devices)
        /\ Len(backlog') = Len(backlog) + 1 /\ Len(backlog) \in Nat
        /\ \A i \in 1..Len(backlog) : backlog'[i] = backlog[i]
        /\ backlog'[Len(backlog) + 1] = d
    BY <1>1, <1>4, AppendProperties DEF TypeOK
  <2>4. TypeOK'
    BY <1>1, <1>2, <1>4, <2>1, <2>3 DEF TypeOK
  <2>5. Strangers'
    BY <1>1, <1>2, <2>1, <2>2 DEF OffInv, Strangers, Procs
  <2>6. \A i \in 1..Len(backlog) : /\ backlog[i] # d /\ backlog[i] \in Procs
                                   /\ pc'[backlog[i]] \in {"recv_attsdoc", "exited"}
    BY <1>2, <2>1, <2>3 DEF OffInv, Waiting, Procs
  <2>7. Waiting'
    <3> SUFFICES ASSUME NEW i \in 1..(Len(backlog) + 1)
                 PROVE  /\ pc'[backlog'[i]] \in {"recv_attsdoc", "exited"} /\ backlog'[i] # iiot_fd
                        /\ \A j \in 1..(Len(backlog) + 1) : backlog'[i] = backlog'[j] => i = j
      BY <1>2, <2>3 DEF Waiting
    <3>1. \A j \in 1..(Len(backlog) + 1) : j \in 1..Len(backlog) \/ j = Len(backlog) + 1
      BY <2>3
    <3>2. CASE i \in 1..Len(backlog)
      BY <2>3, <2>6, <3>1, <3>2 DEF OffInv, Waiting
    <3>3. CASE i = Len(backlog) + 1
      BY <2>1, <2>2, <2>3, <2>6, <3>1, <3>3
    <3> QED
      BY <3>1, <3>2, <3>3
  <2>8. pc'[Gateway] = pc[Gateway] /\ pc'[Enclave] = pc[Enclave]
    BY <2>1, LinkFacts
  <2>9. CASE iiot_fd = NULL
    <3>1. GE' = GE /\ EG' = EG
      BY <1>2 DEF GE, EG
    <3>2. Unaccepted'
      BY <1>2, <2>8, <2>9, <3>1 DEF OffInv, Unaccepted
    <3> QED
      BY <1>2, <2>4, <2>5, <2>7, <2>9, <3>2 DEF OffInv
  <2>10. CASE iiot_fd # NULL
    <3>1. InSession /\ iiot_fd \in Devices
      BY <2>10, SessionStart
    <3>2. /\ DG' = DG /\ GD' = GD /\ EG' = EG /\ GE' = GE /\ K' = K /\ Q' = Q /\ R' = R
          /\ iiot_fd' = iiot_fd
      BY <1>2 DEF DG, GD, EG, GE, K, Q, R
    <3>3. pc'[iiot_fd] = pc[iiot_fd]
      BY <2>1, <2>2, <3>1 DEF Procs
    <3>4. Points' /\ Shapes' /\ Buffers'
      BY <1>2, <2>8, <3>1, <3>2, <3>3 DEF InSession, Points, Shapes, Buffers
    <3>5. Order'
      BY <1>2, <2>8, <3>1, <3>2, <3>3 DEF InSession, Order
    <3>6. Going' = Going /\ Coming' = Coming
      BY <2>8, <3>2, CipherKept DEF Going, Coming, Count
    <3>7. Token' /\ Counters'
      BY <1>2, <2>8, <3>1, <3>2, <3>3, <3>6 DEF InSession, Token, Counters
    <3> QED
      BY <1>2, <2>4, <2>5, <2>7, <2>10, <3>4, <3>5, <3>7 DEF OffInv, InSession
  <2> QED
    BY <2>9, <2>10
<1> QED
  BY <1>3, <1>4 DEF DeviceConnect

-----------------------------------------------------------------------------
(* The gateway in a session                                                *)

\* What the gateway's relaying leaves alone.
Steady ==
    /\ UNCHANGED <<iiot_fd, attsdoc_buf, encrypted, pubkey_iiot, n_response, pubkey_enclave, mykey, n_offloads>>
    /\ K' = K /\ Q' = Q /\ R' = R
    /\ pc'[iiot_fd] = pc[iiot_fd] /\ pc'[Enclave] = pc[Enclave]

\* The gateway takes a message from the device or the enclave.
LEMMA RelayInFacts ==
    ASSUME OffInv, iiot_fd # NULL, NEW at, NEW from \in {iiot_fd, Enclave}, NEW l \in ProgramPoints,
           RelayIn(at, from, l)
    PROVE  /\ TypeOK' /\ Unmoved /\ Steady
           /\ pc[Gateway] = at /\ pc'[Gateway] = l /\ GD' = GD /\ GE' = GE
           /\ from = iiot_fd => DG # <<>> /\ DG' = Tail(DG) /\ EG' = EG /\ buf' = Head(DG)
           /\ from = Enclave => EG # <<>> /\ EG' = Tail(EG) /\ DG' = DG /\ buf' = Head(EG)
<1>1. TypeOK /\ iiot_fd \in Devices
  BY SessionStart
<1>2. Gateway \in Procs /\ <<from, Gateway>> \in Links
  BY <1>1, LinkFacts
<1>3. /\ Recv(Gateway, from, l) /\ pc[Gateway] = at /\ buf' = Received(Gateway, from)
      /\ UNCHANGED <<connected, backlog, attsdoc_buf, iiot_fd, pubkey_iiot, encrypted, n_response,
                     pubkey_enclave, mykey, n_offloads, data_out>>
  BY DEF RelayIn, enclave_vars, device_vars
<1>4. /\ chan[<<from, Gateway>>] # <<>> /\ Received(Gateway, from) \in Messages
      /\ chan' \in [Links -> Seq(Messages)]
      /\ chan'[<<from, Gateway>>] = Tail(chan[<<from, Gateway>>])
      /\ \A k \in Links \ {<<from, Gateway>>} : chan'[k] = chan[k]
      /\ pc' \in [Procs -> ProgramPoints] /\ pc'[Gateway] = l
      /\ \A x \in Procs \ {Gateway} : pc'[x] = pc[x]
  BY <1>1, <1>2, <1>3, RecvFacts
<1>5. TypeOK'
  BY <1>1, <1>3, <1>4 DEF TypeOK
<1>6. /\ <<iiot_fd, Gateway>> \in Links /\ <<Gateway, iiot_fd>> \in Links
      /\ <<Enclave, Gateway>> \in Links /\ <<Gateway, Enclave>> \in Links
      /\ <<iiot_fd, Gateway>> # <<Gateway, iiot_fd>> /\ <<iiot_fd, Gateway>> # <<Enclave, Gateway>>
      /\ <<iiot_fd, Gateway>> # <<Gateway, Enclave>> /\ <<Gateway, iiot_fd>> # <<Enclave, Gateway>>
      /\ <<Enclave, Gateway>> # <<Gateway, Enclave>> /\ iiot_fd # Enclave
  BY <1>1, LinkFacts
<1>7. Unmoved
  <2>1. ASSUME NEW x \in Devices \ {iiot_fd}
        PROVE  /\ <<x, Gateway>> \in Links /\ <<Gateway, x>> \in Links
               /\ <<x, Gateway>> # <<from, Gateway>> /\ <<Gateway, x>> # <<from, Gateway>>
               /\ x \in Procs \ {Gateway}
    BY <1>1, LinkFacts
  <2> QED
    BY <1>3, <1>4, <2>1 DEF Unmoved
<1>8. Steady
  BY <1>1, <1>3, <1>4, LinkFacts DEF Steady, K, Q, R
<1>9. /\ GD' = GD /\ GE' = GE
      /\ from = iiot_fd => DG # <<>> /\ DG' = Tail(DG) /\ EG' = EG
      /\ from = Enclave => EG # <<>> /\ EG' = Tail(EG) /\ DG' = DG
  BY <1>3, <1>4, <1>6 DEF DG, GD, EG, GE
<1>10. buf' = Head(chan[<<from, Gateway>>])
  BY <1>3 DEF Received
<1> QED
  BY <1>3, <1>4, <1>5, <1>7, <1>8, <1>9, <1>10 DEF DG, EG

\* relay_iiot_pubkey: the key comes first, whether or not a request has followed it.
LEMMA GatewayGetsKey ==
    ASSUME OffInv, iiot_fd # NULL, RelayIn("recv_pubkey", iiot_fd, "send_pubkey")
    PROVE  OffInv'
<1>1. TypeOK /\ InSession /\ iiot_fd \in Devices /\ "send_pubkey" \in ProgramPoints
  BY SessionStart DEF ProgramPoints
<1>2. /\ TypeOK' /\ Unmoved /\ Steady
      /\ pc[Gateway] = "recv_pubkey" /\ pc'[Gateway] = "send_pubkey" /\ GD' = GD /\ GE' = GE
      /\ DG # <<>> /\ DG' = Tail(DG) /\ EG' = EG /\ buf' = Head(DG)
  BY <1>1, RelayInFacts
<1>3. /\ Head(DG) \in K /\ (HasCipher(DG) <=> HasCipher(Tail(DG)))
      /\ Tail(DG) = <<>> \/ Tail(DG) \in One(Q)
  <2>1. DG \in One(K) \/ DG \in Two(K, Q)
    BY <1>1, <1>2 DEF InSession, Order
  <2> QED
    BY <1>1, <2>1, QueueFacts DEF InSession, Points
<1>4. Points' /\ Shapes'
  BY <1>1, <1>2, <1>3 DEF InSession, Points, Shapes, Steady
<1>5. Buffers'
  BY <1>1, <1>2, <1>3 DEF InSession, Buffers, Steady
<1>6. Order'
  BY <1>1, <1>2, <1>3 DEF InSession, Order, Steady
<1>7. Going' = Going /\ Coming' = Coming
  <2>1. HasCipher(DG)' <=> HasCipher(DG)
    BY <1>2, <1>3, CipherAfter
  <2> QED
    BY <1>2, <2>1, CipherKept DEF Going, Coming, Count, Steady
<1>8. Token' /\ Counters'
  BY <1>1, <1>2, <1>7 DEF InSession, Token, Counters, Steady
<1> QED
  BY <1>2, <1>4, <1>5, <1>6, <1>8, SessionEnd DEF InSession

\* do_relay_offload: the request goes from the queue into buf.
LEMMA GatewayGetsRequest ==
    ASSUME OffInv, iiot_fd # NULL, RelayIn("recv_request", iiot_fd, "send_request")
    PROVE  OffInv'
<1>1. TypeOK /\ InSession /\ iiot_fd \in Devices /\ "send_request" \in ProgramPoints
  BY SessionStart DEF ProgramPoints
<1>2. /\ TypeOK' /\ Unmoved /\ Steady
      /\ pc[Gateway] = "recv_request" /\ pc'[Gateway] = "send_request" /\ GD' = GD /\ GE' = GE
      /\ DG # <<>> /\ DG' = Tail(DG) /\ EG' = EG /\ buf' = Head(DG)
  BY <1>1, RelayInFacts
<1>3. Head(DG) \in Q /\ Tail(DG) = <<>> /\ HasCipher(DG) /\ ~ HasCipher(Tail(DG))
  BY <1>1, <1>2, QueueFacts DEF InSession, Order, Points
<1>4. Points' /\ Shapes'
  BY <1>1, <1>2, <1>3 DEF InSession, Points, Shapes, Steady
<1>5. Buffers'
  BY <1>1, <1>2, <1>3 DEF InSession, Buffers, Steady
<1>6. Order'
  BY <1>1, <1>2, <1>3 DEF InSession, Order, Steady
<1>7. Going' = Going /\ Coming' = Coming
  <2>1. HasCipher(DG) /\ ~ HasCipher(DG)'
    BY <1>2, <1>3, CipherAfter
  <2> QED
    BY <1>2, <2>1, CipherKept DEF Going, Coming, Count, Steady
<1>8. Token' /\ Counters'
  BY <1>1, <1>2, <1>7 DEF InSession, Token, Counters, Steady
<1> QED
  BY <1>2, <1>4, <1>5, <1>6, <1>8, SessionEnd DEF InSession

\* do_relay_offload: the response goes from the queue into buf.
LEMMA GatewayGetsResponse ==
    ASSUME OffInv, iiot_fd # NULL, RelayIn("recv_response", Enclave, "send_response")
    PROVE  OffInv'
<1>1. TypeOK /\ InSession /\ iiot_fd \in Devices /\ "send_response" \in ProgramPoints
  BY SessionStart DEF ProgramPoints
<1>2. /\ TypeOK' /\ Unmoved /\ Steady
      /\ pc[Gateway] = "recv_response" /\ pc'[Gateway] = "send_response" /\ GD' = GD /\ GE' = GE
      /\ EG # <<>> /\ EG' = Tail(EG) /\ DG' = DG /\ buf' = Head(EG)
  BY <1>1, RelayInFacts
<1>3. Head(EG) \in R /\ Tail(EG) = <<>> /\ HasCipher(EG) /\ ~ HasCipher(Tail(EG))
  BY <1>1, <1>2, QueueFacts DEF InSession, Shapes, Points
<1>4. Points' /\ Shapes'
  BY <1>1, <1>2, <1>3 DEF InSession, Points, Shapes, Steady
<1>5. Buffers'
  BY <1>1, <1>2, <1>3 DEF InSession, Buffers, Steady
<1>6. Order'
  BY <1>1, <1>2, <1>3 DEF InSession, Order, Steady
<1>7. Going' = Going /\ Coming' = Coming
  <2>1. HasCipher(EG) /\ ~ HasCipher(EG)'
    BY <1>2, <1>3, CipherAfter
  <2> QED
    BY <1>2, <2>1, CipherKept DEF Going, Coming, Count, Steady
<1>8. Token' /\ Counters'
  BY <1>1, <1>2, <1>7 DEF InSession, Token, Counters, Steady
<1> QED
  BY <1>2, <1>4, <1>5, <1>6, <1>8, SessionEnd DEF InSession

\* The gateway passes a message on to the device or the enclave.
LEMMA GatewaySends ==
    ASSUME OffInv, iiot_fd # NULL, NEW to \in {iiot_fd, Enclave}, NEW m \in Messages,
           NEW l \in ProgramPoints, Send(Gateway, to, m, l),
           UNCHANGED <<connected, backlog, gateway_vars, enclave_vars, device_vars>>
    PROVE  /\ TypeOK' /\ Unmoved /\ Steady /\ DG' = DG /\ EG' = EG /\ buf' = buf
           /\ \/ pc[to] # "exited" /\ pc'[Gateway] = l
              \/ pc[to] = "exited" /\ pc'[Gateway] \in {l, "exited"}
           /\ to = iiot_fd => /\ GE' = GE
                              /\ GD' = IF pc[to] # "exited" THEN Append(GD, m) ELSE GD
           /\ to = Enclave => /\ GD' = GD
                              /\ GE' = IF pc[to] # "exited" THEN Append(GE, m) ELSE GE
<1>1. TypeOK /\ iiot_fd \in Devices
  BY SessionStart
<1>2. Gateway \in Procs /\ to \in Procs /\ <<Gateway, to>> \in Links
  BY <1>1, LinkFacts
<1>3. UNCHANGED <<connected, backlog, attsdoc_buf, buf, iiot_fd, pubkey_iiot, encrypted, n_response,
                  pubkey_enclave, mykey, n_offloads, data_out>>
  BY DEF gateway_vars, enclave_vars, device_vars
<1>4. Sent(Gateway, to, m, l)
  BY <1>1, <1>2, SendFacts
<1>5. TypeOK'
  BY <1>1, <1>3, <1>4 DEF TypeOK, Sent
<1>6. /\ <<iiot_fd, Gateway>> \in Links /\ <<Gateway, iiot_fd>> \in Links
      /\ <<Enclave, Gateway>> \in Links /\ <<Gateway, Enclave>> \in Links
      /\ <<iiot_fd, Gateway>> # <<Gateway, to>> /\ <<Enclave, Gateway>> # <<Gateway, to>>
      /\ <<Gateway, iiot_fd>> # <<Gateway, Enclave>> /\ iiot_fd # Enclave
  BY <1>1, LinkFacts
<1>7. Unmoved
  <2>1. ASSUME NEW x \in Devices \ {iiot_fd}
        PROVE  /\ <<x, Gateway>> \in Links /\ <<Gateway, x>> \in Links
               /\ <<x, Gateway>> # <<Gateway, to>> /\ <<Gateway, x>> # <<Gateway, to>>
               /\ x \in Procs \ {Gateway}
    BY <1>1, LinkFacts
  <2> QED
    BY <1>3, <1>4, <2>1 DEF Unmoved, Sent
<1>8. Steady
  BY <1>1, <1>3, <1>4, LinkFacts DEF Steady, K, Q, R, Sent
<1>9. /\ DG' = DG /\ EG' = EG
      /\ to = iiot_fd => /\ GE' = GE
                         /\ GD' = IF pc[to] # "exited" THEN Append(GD, m) ELSE GD
      /\ to = Enclave => /\ GD' = GD
                         /\ GE' = IF pc[to] # "exited" THEN Append(GE, m) ELSE GE
  BY <1>3, <1>4, <1>6 DEF DG, GD, EG, GE, Sent
<1> QED
  BY <1>3, <1>4, <1>5, <1>7, <1>8, <1>9 DEF Sent

\* send_enclave_attsdoc
LEMMA GatewaySendsDocument ==
    ASSUME OffInv, iiot_fd # NULL, SendEnclaveAttsdoc
    PROVE  OffInv'
<1>1. /\ TypeOK /\ InSession /\ iiot_fd \in Devices /\ "recv_pubkey" \in ProgramPoints
      /\ attsdoc_buf \in Docs /\ attsdoc_buf \in Messages /\ pc[Gateway] = "send_attsdoc"
  BY SessionStart, DocFacts DEF ProgramPoints, InSession, Points, SendEnclaveAttsdoc
<1>2. /\ Send(Gateway, iiot_fd, attsdoc_buf, "recv_pubkey")
      /\ UNCHANGED <<connected, backlog, gateway_vars, enclave_vars, device_vars>>
  BY DEF SendEnclaveAttsdoc
<1>3. /\ TypeOK' /\ Unmoved /\ Steady /\ DG' = DG /\ EG' = EG /\ GE' = GE /\ buf' = buf
      /\ \/ pc[iiot_fd] # "exited" /\ pc'[Gateway] = "recv_pubkey"
         \/ pc[iiot_fd] = "exited" /\ pc'[Gateway] \in {"recv_pubkey", "exited"}
      /\ GD' = IF pc[iiot_fd] # "exited" THEN Append(GD, attsdoc_buf) ELSE GD
  BY <1>1, <1>2, GatewaySends
<1>4. /\ GD = <<>> /\ DG = <<>> /\ GE = <<>> /\ EG = <<>>
      /\ pc[iiot_fd] \in {"recv_attsdoc", "exited"} /\ pc[Enclave] \in {"recv_pubkey", "exited"}
  BY <1>1 DEF InSession, Order
<1>5. (GD' = <<>> \/ (pc[iiot_fd] = "recv_attsdoc" /\ GD' \in One({attsdoc_buf}))) /\ ~ HasCipher(GD)'
  <2>1. Append(<<>>, attsdoc_buf) \in One({attsdoc_buf})
    BY AppendFacts
  <2>2. GD' = <<>> \/ (pc[iiot_fd] = "recv_attsdoc" /\ GD' = Append(<<>>, attsdoc_buf))
    BY <1>3, <1>4
  <2>3. ~ HasCipher(<<>>) /\ ~ HasCipher(Append(<<>>, attsdoc_buf))
    BY <1>1, <2>1, QueueFacts
  <2> QED
    BY <2>1, <2>2, <2>3, CipherAfter
<1>6. Points' /\ Shapes'
  BY <1>1, <1>3, <1>5 DEF InSession, Points, Shapes, Steady
<1>7. Buffers'
  BY <1>1, <1>3 DEF InSession, Buffers, Steady
<1>8. Order'
  BY <1>1, <1>3, <1>4, <1>5 DEF InSession, Order, Steady
<1>9. Going' = Going /\ Coming' = Coming
  <2>1. ~ HasCipher(GD)
    BY <1>1, <1>4, QueueFacts
  <2> QED
    BY <1>1, <1>3, <1>5, <2>1, CipherKept DEF Going, Coming, Count, Steady
<1>10. Token' /\ Counters'
  BY <1>1, <1>3, <1>4, <1>9 DEF InSession, Token, Counters, Steady
<1> QED
  BY <1>3, <1>6, <1>7, <1>8, <1>10, SessionEnd DEF InSession

\* relay_iiot_pubkey
LEMMA GatewaySendsKey ==
    ASSUME OffInv, iiot_fd # NULL, RelayOut("send_pubkey", Enclave, "recv_request")
    PROVE  OffInv'
<1>1. /\ TypeOK /\ InSession /\ iiot_fd \in Devices /\ "recv_request" \in ProgramPoints
      /\ pc[Gateway] = "send_pubkey" /\ attsdoc_buf \in Docs
  BY SessionStart DEF ProgramPoints, RelayOut, InSession, Points
<1>2. buf \in K /\ buf \in Messages
  <2>1. mykey[iiot_fd] \in Devices \cup {NULL}
    BY <1>1 DEF TypeOK
  <2>2. buf \in K
    BY <1>1 DEF InSession, Buffers
  <2> QED
    BY <2>1, <2>2, KeyFacts DEF K
<1>3. /\ Send(Gateway, Enclave, buf, "recv_request")
      /\ UNCHANGED <<connected, backlog, gateway_vars, enclave_vars, device_vars>>
  BY DEF RelayOut
<1>4. /\ TypeOK' /\ Unmoved /\ Steady /\ DG' = DG /\ EG' = EG /\ GD' = GD /\ buf' = buf
      /\ \/ pc[Enclave] # "exited" /\ pc'[Gateway] = "recv_request"
         \/ pc[Enclave] = "exited" /\ pc'[Gateway] \in {"recv_request", "exited"}
      /\ GE' = IF pc[Enclave] # "exited" THEN Append(GE, buf) ELSE GE
  BY <1>1, <1>2, <1>3, GatewaySends
<1>5. GE = <<>> /\ pc[Enclave] \in {"recv_pubkey", "exited"}
  BY <1>1 DEF InSession, Order
<1>6. /\ \/ GE' \in One(K) /\ pc[Enclave] # "exited" /\ GE' # <<>>
         \/ GE' = <<>> /\ pc[Enclave] = "exited"
      /\ ~ HasCipher(GE)'
  <2>1. Append(<<>>, buf) \in One(K)
    BY <1>2, AppendFacts
  <2>2. ~ HasCipher(<<>>) /\ ~ HasCipher(Append(<<>>, buf)) /\ Append(<<>>, buf) # <<>>
    BY <1>1, <2>1, QueueFacts
  <2> QED
    BY <1>4, <1>5, <2>1, <2>2, CipherAfter
<1>7. Points' /\ Shapes'
  BY <1>1, <1>4, <1>6 DEF InSession, Points, Shapes, Steady
<1>8. Buffers'
  BY <1>1, <1>4 DEF InSession, Buffers, Steady
<1>9. Order'
  BY <1>1, <1>4, <1>5, <1>6 DEF InSession, Order, Steady
<1>10. Going' = Going /\ Coming' = Coming
  <2>1. ~ HasCipher(GE)
    BY <1>1, <1>5, QueueFacts
  <2> QED
    BY <1>1, <1>4, <1>6, <2>1, CipherKept DEF Going, Coming, Count, Steady
<1>11. Token' /\ Counters'
  BY <1>1, <1>4, <1>5, <1>10 DEF InSession, Token, Counters, Steady
<1> QED
  BY <1>4, <1>7, <1>8, <1>9, <1>11, SessionEnd DEF InSession

\* The places of the token as numbers, and what a queue holds when the token is elsewhere.
LEMMA TokenFacts ==
    ASSUME TypeOK, InSession, iiot_fd # NULL
    PROVE  /\ Going \in Nat /\ Coming \in Nat
           /\ ~ HasCipher(DG) => DG = <<>> \/ DG \in One(K)
           /\ ~ HasCipher(GE) => GE = <<>> \/ GE \in One(K)
           /\ ~ HasCipher(EG) => EG = <<>>
           /\ ~ HasCipher(GD) => GD = <<>> \/ GD \in One({attsdoc_buf})
           /\ \A s \in One(K) : s \notin One(Q) /\ s \notin One(R) /\ s # <<>>
           /\ \A s \in One({attsdoc_buf}) : s \notin One(R) /\ s # <<>>
<1>1. Going \in Nat /\ Coming \in Nat
  BY DEF Going, Coming, Count
<1>2. attsdoc_buf \in Docs
  BY DEF InSession, Points
<1>3. /\ DG = <<>> \/ DG \in One(K) \/ DG \in One(Q) \/ DG \in Two(K, Q)
      /\ GE = <<>> \/ GE \in One(K) \/ GE \in One(Q) \/ GE \in Two(K, Q)
      /\ EG = <<>> \/ EG \in One(R)
      /\ GD = <<>> \/ GD \in One({attsdoc_buf}) \/ GD \in One(R)
  BY DEF InSession, Shapes
<1> QED
  BY <1>1, <1>2, <1>3, QueueFacts

\* do_relay_offload: the request on its way to the enclave.
LEMMA GatewaySendsRequest ==
    ASSUME OffInv, iiot_fd # NULL, RelayOut("send_request", Enclave, "recv_response")
    PROVE  OffInv'
<1>1. /\ TypeOK /\ InSession /\ iiot_fd \in Devices /\ "recv_response" \in ProgramPoints
      /\ pc[Gateway] = "send_request" /\ attsdoc_buf \in Docs
  BY SessionStart DEF ProgramPoints, RelayOut, InSession, Points
<1>2. buf \in Q /\ buf \in Messages
  <2>1. buf \in Q
    BY <1>1 DEF InSession, Buffers
  <2> QED
    BY <2>1, CipherFacts DEF Q, Reqs
<1>3. /\ Send(Gateway, Enclave, buf, "recv_response")
      /\ UNCHANGED <<connected, backlog, gateway_vars, enclave_vars, device_vars>>
  BY DEF RelayOut
<1>4. /\ TypeOK' /\ Unmoved /\ Steady /\ DG' = DG /\ EG' = EG /\ GD' = GD /\ buf' = buf
      /\ \/ pc[Enclave] # "exited" /\ pc'[Gateway] = "recv_response"
         \/ pc[Enclave] = "exited" /\ pc'[Gateway] \in {"recv_response", "exited"}
      /\ GE' = IF pc[Enclave] # "exited" THEN Append(GE, buf) ELSE GE
  BY <1>1, <1>2, <1>3, GatewaySends
<1>5. /\ Going = 1 /\ Coming = 0 /\ pc[Enclave] # "send_response"
      /\ ~ HasCipher(GE) /\ ~ HasCipher(DG) /\ ~ HasCipher(EG) /\ ~ HasCipher(GD)
  BY <1>1 DEF InSession, Token, Going, Coming, Count
<1>6. GE = <<>> \/ GE \in One(K)
  BY <1>1, <1>5, TokenFacts
<1>7. CASE pc[Enclave] # "exited"
  <2>1. /\ HasCipher(GE)' /\ GE' # <<>>
        /\ pc[Enclave] = "recv_pubkey" => GE' \in Two(K, Q)
        /\ pc[Enclave] = "recv_request" => GE' \in One(Q)
    <3>1. GE' = Append(GE, buf)
      BY <1>4, <1>7
    <3>2. pc[Enclave] = "recv_pubkey" => GE \in One(K)
      BY <1>1, <1>6 DEF InSession, Order
    <3>3. pc[Enclave] = "recv_request" => GE = <<>>
      BY <1>1, <1>6, TokenFacts DEF InSession, Order
    <3>4. /\ GE = <<>> => Append(GE, buf) \in One(Q)
          /\ GE \in One(K) => Append(GE, buf) \in Two(K, Q)
      BY <1>2, AppendFacts
    <3>5. HasCipher(Append(GE, buf)) /\ Append(GE, buf) # <<>>
      BY <1>1, <1>6, <3>4, QueueFacts
    <3> QED
      BY <3>1, <3>2, <3>3, <3>4, <3>5, CipherAfter
  <2>2. pc[Enclave] \in {"recv_pubkey", "recv_request"}
    BY <1>1, <1>5, <1>7 DEF InSession, Points
  <2>3. Points' /\ Shapes'
    BY <1>1, <1>4, <1>7, <2>1, <2>2 DEF InSession, Points, Shapes, Steady
  <2>4. Buffers'
    BY <1>1, <1>4, <1>7 DEF InSession, Buffers, Steady
  <2>5. Order'
    BY <1>1, <1>4, <1>7, <2>1, <2>2 DEF InSession, Order, Steady
  <2>6. Going' = Going /\ Coming' = Coming
    BY <1>1, <1>4, <1>5, <1>7, <2>1, CipherKept DEF Going, Coming, Count, Steady
  <2>7. Token' /\ Counters'
    BY <1>1, <1>4, <1>7, <2>6 DEF InSession, Token, Counters, Steady
  <2> QED
    BY <1>4, <2>3, <2>4, <2>5, <2>7, SessionEnd DEF InSession
<1>8. CASE pc[Enclave] = "exited"
  <2>1. GE' = GE
    BY <1>4, <1>8
  <2>2. Points' /\ Shapes' /\ Buffers'
    BY <1>1, <1>4, <1>8, <2>1 DEF InSession, Points, Shapes, Buffers, Steady
  <2>3. Order'
    BY <1>1, <1>4, <1>8, <2>1 DEF InSession, Order, Steady
  <2>4. Going' = 0 /\ Coming' = 0
    BY <1>1, <1>4, <1>5, <1>8, <2>1, CipherKept DEF Going, Coming, Count, Steady
  <2>5. Token' /\ Counters'
    BY <1>1, <1>4, <1>8, <2>4 DEF InSession, Token, Counters, Steady
  <2> QED
    BY <1>4, <2>2, <2>3, <2>5, SessionEnd DEF InSession
<1> QED
  BY <1>7, <1>8

\* do_relay_offload: the response on its way to the device, which waits for it.
LEMMA GatewaySendsResponse ==
    ASSUME OffInv, iiot_fd # NULL, RelayOut("send_response", iiot_fd, "recv_request")
    PROVE  OffInv'
<1>1. /\ TypeOK /\ InSession /\ iiot_fd \in Devices /\ "recv_request" \in ProgramPoints
      /\ pc[Gateway] = "send_response" /\ attsdoc_buf \in Docs
  BY SessionStart DEF ProgramPoints, RelayOut, InSession, Points
<1>2. buf \in R /\ buf \in Messages
  <2>1. buf \in R
    BY <1>1 DEF InSession, Buffers
  <2> QED
    BY <2>1, CipherFacts DEF R, Rsps
<1>3. /\ Send(Gateway, iiot_fd, buf, "recv_request")
      /\ UNCHANGED <<connected, backlog, gateway_vars, enclave_vars, device_vars>>
  BY DEF RelayOut
<1>4. /\ TypeOK' /\ Unmoved /\ Steady /\ DG' = DG /\ EG' = EG /\ GE' = GE /\ buf' = buf
      /\ \/ pc[iiot_fd] # "exited" /\ pc'[Gateway] = "recv_request"
         \/ pc[iiot_fd] = "exited" /\ pc'[Gateway] \in {"recv_request", "exited"}
      /\ GD' = IF pc[iiot_fd] # "exited" THEN Append(GD, buf) ELSE GD
  BY <1>1, <1>2, <1>3, GatewaySends
<1>5. /\ Going = 0 /\ Coming = 1 /\ pc[Enclave] # "send_response"
      /\ ~ HasCipher(GE) /\ ~ HasCipher(DG) /\ ~ HasCipher(EG) /\ ~ HasCipher(GD)
      /\ pc[iiot_fd] \in {"recv_response", "exited"}
  BY <1>1 DEF InSession, Token, Going, Coming, Count
<1>6. CASE pc[iiot_fd] # "exited"
  <2>1. GD = <<>>
    BY <1>1, <1>5, <1>6, TokenFacts DEF InSession, Order
  <2>2. GD' \in One(R) /\ HasCipher(GD)'
    <3>1. GD' = Append(GD, buf) /\ Append(GD, buf) \in One(R)
      BY <1>2, <1>4, <1>6, <2>1, AppendFacts
    <3>2. HasCipher(Append(GD, buf))
      BY <1>1, <3>1, QueueFacts
    <3> QED
      BY <3>1, <3>2, CipherAfter
  <2>3. Points' /\ Shapes'
    BY <1>1, <1>4, <1>6, <2>2 DEF InSession, Points, Shapes, Steady
  <2>4. Buffers'
    BY <1>1, <1>4, <1>6 DEF InSession, Buffers, Steady
  <2>5. Order'
    BY <1>1, <1>4, <1>5, <1>6, <2>2 DEF InSession, Order, Steady
  <2>6. Going' = Going /\ Coming' = Coming
    BY <1>1, <1>4, <1>5, <1>6, <2>2, CipherKept DEF Going, Coming, Count, Steady
  <2>7. Token' /\ Counters'
    BY <1>1, <1>4, <1>6, <2>6 DEF InSession, Token, Counters, Steady
  <2> QED
    BY <1>4, <2>3, <2>4, <2>5, <2>7, SessionEnd DEF InSession
<1>7. CASE pc[iiot_fd] = "exited"
  <2>1. GD' = GD
    BY <1>4, <1>7
  <2>2. Points' /\ Shapes' /\ Buffers'
    BY <1>1, <1>4, <1>7, <2>1 DEF InSession, Points, Shapes, Buffers, Steady
  <2>3. Order'
    BY <1>1, <1>4, <1>7, <2>1 DEF InSession, Order, Steady
  <2>4. Going' = 0 /\ Coming' = 0
    BY <1>1, <1>4, <1>5, <1>7, <2>1, CipherKept DEF Going, Coming, Count, Steady
  <2>5. Token' /\ Counters'
    BY <1>1, <1>4, <1>7, <2>4 DEF InSession, Token, Counters, Steady
  <2> QED
    BY <1>4, <2>2, <2>3, <2>5, SessionEnd DEF InSession
<1> QED
  BY <1>6, <1>7

-----------------------------------------------------------------------------
(* The enclave in a session                                                *)

\* recv_iiot_pubkey: from now on the two counters are compared.
LEMMA EnclaveGetsKey ==
    ASSUME OffInv, iiot_fd # NULL, RecvIiotPubkey
    PROVE  OffInv'
<1>1. /\ TypeOK /\ InSession /\ iiot_fd \in Devices /\ "recv_request" \in ProgramPoints
      /\ attsdoc_buf \in Docs
  BY SessionStart DEF ProgramPoints, InSession, Points
<1>2. Enclave \in Procs /\ <<Gateway, Enclave>> \in Links
  BY <1>1, LinkFacts
<1>3. /\ pc[Enclave] = "recv_pubkey" /\ Recv(Enclave, Gateway, "recv_request")
      /\ pubkey_iiot' = Head(GE).for /\ n_response' = After(n_response)
      /\ UNCHANGED <<connected, backlog, attsdoc_buf, buf, iiot_fd, encrypted,
                     pubkey_enclave, mykey, n_offloads, data_out>>
  BY DEF RecvIiotPubkey, Received, GE, gateway_vars, device_vars
<1>4. /\ GE # <<>>
      /\ chan' \in [Links -> Seq(Messages)] /\ chan'[<<Gateway, Enclave>>] = Tail(GE)
      /\ \A k \in Links \ {<<Gateway, Enclave>>} : chan'[k] = chan[k]
      /\ pc' \in [Procs -> ProgramPoints] /\ pc'[Enclave] = "recv_request"
      /\ \A x \in Procs \ {Enclave} : pc'[x] = pc[x]
  BY <1>1, <1>2, <1>3, RecvFacts DEF GE
<1>5. /\ Head(GE) \in K /\ (HasCipher(GE) <=> HasCipher(Tail(GE)))
      /\ Tail(GE) = <<>> \/ Tail(GE) \in One(Q)
  <2>1. GE \in One(K) \/ GE \in Two(K, Q)
    BY <1>1, <1>3, <1>4 DEF InSession, Order
  <2> QED
    BY <1>1, <2>1, QueueFacts
<1>6. pubkey_iiot' = mykey[iiot_fd] /\ mykey[iiot_fd] \in Devices \cup {NULL}
  <2>1. mykey[iiot_fd] \in Devices \cup {NULL}
    BY <1>1 DEF TypeOK
  <2> QED
    BY <1>3, <1>5, <2>1, KeyFacts DEF K
<1>7. n_response = 0 /\ n_response' = 1 /\ n_response' \in Numbers
  <2>1. n_response = 0
    BY <1>1, <1>3 DEF InSession, Counters
  <2> QED
    BY <1>3, <2>1, NumberFacts
<1>8. TypeOK'
  BY <1>1, <1>3, <1>4, <1>6, <1>7 DEF TypeOK
<1>9. Unmoved
  BY <1>1, <1>3, <1>4, LinkFacts DEF Unmoved
<1>10. /\ DG' = DG /\ GD' = GD /\ EG' = EG /\ GE' = Tail(GE) /\ iiot_fd' = iiot_fd
       /\ K' = K /\ Q' = Q /\ R' = R
       /\ pc'[Gateway] = pc[Gateway] /\ pc'[iiot_fd] = pc[iiot_fd]
  BY <1>1, <1>3, <1>4, LinkFacts DEF DG, GD, EG, GE, K, Q, R
<1>11. Points' /\ Shapes'
  BY <1>1, <1>3, <1>4, <1>5, <1>10 DEF InSession, Points, Shapes
<1>12. Buffers'
  BY <1>1, <1>3, <1>4, <1>6, <1>10 DEF InSession, Buffers
<1>13. Order'
  <2>1. pc[Gateway] \notin {"send_attsdoc", "recv_pubkey", "send_pubkey"}
    BY <1>1, <1>4 DEF InSession, Order
  <2>2. pc[iiot_fd] \notin {"recv_attsdoc", "send_pubkey"}
    BY <1>1, <1>4 DEF InSession, Order
  <2> QED
    BY <1>1, <1>3, <1>4, <1>5, <1>10, <2>1, <2>2 DEF InSession, Order
<1>14. Going' = Going /\ Coming' = Coming
  <2>1. HasCipher(GE)' <=> HasCipher(GE)
    BY <1>5, <1>10, CipherAfter
  <2> QED
    BY <1>3, <1>4, <1>10, <2>1, CipherKept DEF Going, Coming, Count
<1>15. Token'
  BY <1>1, <1>3, <1>4, <1>10, <1>14 DEF InSession, Token
<1>16. Counters'
  <2>1. /\ Going = 1 => n_offloads[iiot_fd] = 1
        /\ pc[iiot_fd] \in {"period", "sleep"} => n_offloads[iiot_fd] = 0
        /\ Coming # 1
        /\ pc[iiot_fd] \in {"recv_attsdoc", "send_pubkey"} => n_offloads[iiot_fd] = 0
    BY <1>1, <1>3 DEF InSession, Counters
  <2> QED
    BY <1>3, <1>4, <1>7, <1>10, <1>14, <2>1, NumberFacts DEF Counters
<1> QED
  BY <1>8, <1>9, <1>11, <1>12, <1>13, <1>15, <1>16, SessionEnd DEF InSession

\* response_offload: the request arrives; an empty one is an exit.
LEMMA EnclaveGetsRequest ==
    ASSUME OffInv, iiot_fd # NULL, RecvRequest
    PROVE  /\ OffInv'
           /\ attsdoc_buf.body = "good" => pc'[Enclave] # "exited"
<1> DEFINE l == IF Received(Enclave, Gateway).len = 0 THEN "exited" ELSE "send_response"
<1>1. /\ TypeOK /\ InSession /\ iiot_fd \in Devices /\ l \in ProgramPoints
      /\ attsdoc_buf \in Docs /\ l \in {"exited", "send_response"}
  BY SessionStart DEF ProgramPoints, InSession, Points
<1>2. Enclave \in Procs /\ <<Gateway, Enclave>> \in Links
  BY <1>1, LinkFacts
<1>3. /\ pc[Enclave] = "recv_request" /\ Recv(Enclave, Gateway, l)
      /\ encrypted' = Head(GE)
      /\ UNCHANGED <<connected, backlog, attsdoc_buf, buf, iiot_fd, pubkey_iiot, n_response,
                     pubkey_enclave, mykey, n_offloads, data_out>>
  BY DEF RecvRequest, Received, GE, gateway_vars, device_vars
<1>a. l = "exited" => Head(GE).len = 0
  BY DEF Received, GE
<1> HIDE DEF l
<1>4. /\ GE # <<>> /\ Received(Enclave, Gateway) \in Messages
      /\ chan' \in [Links -> Seq(Messages)] /\ chan'[<<Gateway, Enclave>>] = Tail(GE)
      /\ \A k \in Links \ {<<Gateway, Enclave>>} : chan'[k] = chan[k]
      /\ pc' \in [Procs -> ProgramPoints] /\ pc'[Enclave] = l
      /\ \A x \in Procs \ {Enclave} : pc'[x] = pc[x]
  BY <1>1, <1>2, <1>3, RecvFacts DEF GE
<1>5. Head(GE) \in Q /\ HasCipher(GE) /\ ~ HasCipher(Tail(GE)) /\ Tail(GE) = <<>>
  <2>1. GE \in One(Q)
    BY <1>1, <1>3, <1>4 DEF InSession, Order
  <2> QED
    BY <1>1, <2>1, QueueFacts
<1>6. Head(GE) \in CipherMsgs /\ Head(GE) \in Messages /\ (attsdoc_buf.body = "good" => l # "exited")
  <2>1. Head(GE) \in CipherMsgs /\ (attsdoc_buf.body = "good" => Head(GE).len # 0)
    BY <1>5 DEF Q, Reqs
  <2> QED
    BY <1>a, <2>1, CipherFacts
<1>7. TypeOK'
  BY <1>1, <1>3, <1>4, <1>6 DEF TypeOK
<1>8. Unmoved
  BY <1>1, <1>3, <1>4, LinkFacts DEF Unmoved
<1>9. /\ DG' = DG /\ GD' = GD /\ EG' = EG /\ GE' = <<>> /\ iiot_fd' = iiot_fd
      /\ K' = K /\ Q' = Q /\ R' = R
      /\ pc'[Gateway] = pc[Gateway] /\ pc'[iiot_fd] = pc[iiot_fd]
  BY <1>1, <1>3, <1>4, <1>5, LinkFacts DEF DG, GD, EG, GE, K, Q, R
<1>10. /\ pc'[Enclave] \in {"exited", "send_response"}
       /\ pc[Gateway] \notin {"send_attsdoc", "recv_pubkey", "send_pubkey"}
       /\ pc[iiot_fd] \notin {"recv_attsdoc", "send_pubkey"}
  BY <1>1, <1>4 DEF InSession, Order
<1>11. Points' /\ Shapes'
  BY <1>1, <1>3, <1>9, <1>10 DEF InSession, Points, Shapes
<1>12. Buffers'
  BY <1>1, <1>3, <1>6, <1>9, <1>10 DEF InSession, Buffers
<1>13. Order'
  BY <1>1, <1>3, <1>9, <1>10 DEF InSession, Order
<1>14. /\ Going' = IF pc'[Enclave] = "exited" THEN 0 ELSE 1
       /\ Going = 1 /\ Coming = 0 /\ Coming' = 0
  <2>1. ~ HasCipher(GE)'
    BY <1>5, <1>9, CipherAfter
  <2>2. /\ Going = 1 /\ Coming = 0
        /\ ~ HasCipher(DG) /\ ~ HasCipher(EG) /\ ~ HasCipher(GD)
        /\ pc[Gateway] \notin {"send_request", "send_response"}
    BY <1>1, <1>3, <1>5 DEF InSession, Token, Going, Coming, Count
  <2>3. Coming' = 0
    BY <1>9, <2>2, CipherKept DEF Coming, Count
  <2>4. Going' = IF pc'[Enclave] = "exited" THEN 0 ELSE 1
    BY <1>9, <1>10, <2>1, <2>2, CipherKept DEF Going, Count
  <2> QED
    BY <2>2, <2>3, <2>4
<1>15. Token'
  BY <1>1, <1>3, <1>9, <1>10, <1>14 DEF InSession, Token
<1>16. Counters'
  BY <1>1, <1>3, <1>9, <1>10, <1>14 DEF InSession, Token, Counters
<1> QED
  BY <1>4, <1>6, <1>7, <1>8, <1>11, <1>12, <1>13, <1>15, <1>16, SessionEnd DEF InSession

\* response_offload: the response that is sent carries the number of the request.
LEMMA EnclaveSendsResponse ==
    ASSUME OffInv, iiot_fd # NULL, SendResponse
    PROVE  OffInv'
<1> DEFINE m == IF pubkey_iiot = NULL THEN encrypted ELSE Encrypt(pubkey_iiot, Before(n_response))
<1>1. /\ TypeOK /\ InSession /\ iiot_fd \in Devices /\ "recv_request" \in ProgramPoints
      /\ attsdoc_buf \in Docs
  BY SessionStart DEF ProgramPoints, InSession, Points
<1>2. Enclave \in Procs /\ Gateway \in Procs /\ <<Enclave, Gateway>> \in Links
  BY <1>1, LinkFacts
<1>3. /\ pc[Enclave] = "send_response" /\ Send(Enclave, Gateway, m, "recv_request")
      /\ n_response' = After(n_response)
      /\ UNCHANGED <<connected, backlog, attsdoc_buf, buf, iiot_fd, encrypted, pubkey_iiot,
                     pubkey_enclave, mykey, n_offloads, data_out>>
  BY DEF SendResponse, gateway_vars, device_vars
<1>4. /\ Going = 1 /\ Coming = 0
      /\ ~ HasCipher(DG) /\ ~ HasCipher(EG) /\ ~ HasCipher(GD) /\ ~ HasCipher(GE)
      /\ pc[Gateway] \notin {"send_request", "send_response"}
      /\ pc[iiot_fd] \in {"recv_response", "exited"}
  BY <1>1, <1>3 DEF InSession, Token, Going, Coming, Count
<1>5. m \in R /\ m \in Messages
  <2>1. pubkey_iiot = mykey[iiot_fd] /\ encrypted \in CipherMsgs /\ n_response = n_offloads[iiot_fd]
    BY <1>1, <1>3, <1>4 DEF InSession, Buffers, Counters
  <2>2. pubkey_iiot \in Devices \cup {NULL} /\ n_response \in Numbers
    BY <1>1 DEF TypeOK
  <2>3. CASE pubkey_iiot = NULL
    BY <2>1, <2>3, CipherFacts DEF R, Rsps
  <2>4. CASE pubkey_iiot # NULL
    <3>1. m = Encrypt(pubkey_iiot, Before(n_response)) /\ pubkey_iiot \in Procs /\ Before(n_response) \in Numbers
      BY <2>2, <2>4, NumberFacts DEF Procs
    <3>2. m \in CipherMsgs
      BY <3>1 DEF CipherMsgs
    <3>3. m.for = pubkey_iiot /\ m.body = Before(n_response)
      BY <2>4, <3>1 DEF Encrypt
    <3> HIDE DEF m
    <3> QED
      BY <2>1, <3>2, <3>3, CipherFacts DEF R, Rsps
  <2> QED
    BY <2>3, <2>4
<1> HIDE DEF m
<1>6. Sent(Enclave, Gateway, m, "recv_request")
  BY <1>1, <1>2, <1>3, <1>5, SendFacts
<1>7. TypeOK'
  <2>1. n_response' \in Numbers
    BY <1>1, <1>3, NumberFacts DEF TypeOK
  <2> QED
    BY <1>1, <1>3, <1>6, <2>1 DEF TypeOK, Sent
<1>8. Unmoved
  BY <1>1, <1>3, <1>6, LinkFacts DEF Unmoved, Sent
<1>9. /\ DG' = DG /\ GD' = GD /\ GE' = GE /\ iiot_fd' = iiot_fd
      /\ K' = K /\ Q' = Q /\ R' = R
      /\ pc'[Gateway] = pc[Gateway] /\ pc'[iiot_fd] = pc[iiot_fd]
  BY <1>1, <1>3, <1>6, LinkFacts DEF DG, GD, EG, GE, K, Q, R, Sent
<1>10. /\ pc'[Enclave] \in {"recv_request", "exited"}
       /\ \/ /\ pc[Gateway] # "exited" /\ pc'[Enclave] = "recv_request"
             /\ EG' \in One(R) /\ HasCipher(EG)'
          \/ pc[Gateway] = "exited" /\ EG' = <<>> /\ ~ HasCipher(EG)'
  <2>1. EG = <<>>
    BY <1>1, <1>4, TokenFacts
  <2>2. /\ pc'[Enclave] \in {"recv_request", "exited"}
        /\ \/ pc[Gateway] # "exited" /\ pc'[Enclave] = "recv_request" /\ EG' = Append(<<>>, m)
           \/ pc[Gateway] = "exited" /\ EG' = <<>>
    BY <1>6, <2>1 DEF Sent, EG
  <2>3. Append(<<>>, m) \in One(R)
    BY <1>5, AppendFacts
  <2>4. HasCipher(Append(<<>>, m)) /\ ~ HasCipher(<<>>)
    BY <1>1, <2>3, QueueFacts
  <2> QED
    BY <2>2, <2>3, <2>4, CipherAfter
<1>11. Points' /\ Shapes'
  BY <1>1, <1>3, <1>9, <1>10 DEF InSession, Points, Shapes
<1>12. Buffers'
  BY <1>1, <1>3, <1>9, <1>10 DEF InSession, Buffers
<1>13. Order'
  BY <1>1, <1>3, <1>4, <1>9, <1>10 DEF InSession, Order
<1>14. Going' = 0 /\ Coming' = IF pc[Gateway] = "exited" THEN 0 ELSE 1
  <2>1. Going' = 0
    BY <1>4, <1>9, <1>10, CipherKept DEF Going, Count
  <2>2. Coming' = IF pc[Gateway] = "exited" THEN 0 ELSE 1
    BY <1>4, <1>9, <1>10, CipherKept DEF Coming, Count
  <2> QED
    BY <2>1, <2>2
<1>15. Token'
  BY <1>4, <1>9, <1>10, <1>14 DEF Token
<1>16. Counters'
  <2>1. n_response' = After(n_offloads[iiot_fd])
    BY <1>1, <1>3, <1>4 DEF InSession, Counters
  <2> QED
    BY <1>3, <1>4, <1>9, <1>10, <1>14, <2>1 DEF Counters
<1> QED
  BY <1>7, <1>8, <1>11, <1>12, <1>13, <1>15, <1>16, SessionEnd DEF InSession

-----------------------------------------------------------------------------
(* The device in a session                                                 *)

\* recv_attsdoc and validate_attsdoc: an invalid document is an exit.
LEMMA DeviceGetsDocument ==
    ASSUME OffInv, iiot_fd # NULL, RecvAttsdoc(iiot_fd)
    PROVE  /\ OffInv'
           /\ attsdoc_buf.body = "good" => pc'[iiot_fd] # "exited"
<1> DEFINE l == ValidateAttsdoc(Received(iiot_fd, Gateway).body)
<1>1. /\ TypeOK /\ InSession /\ iiot_fd \in Devices /\ attsdoc_buf \in Docs
      /\ l \in ProgramPoints /\ l \in {"exited", "send_pubkey"}
  BY SessionStart DEF ProgramPoints, InSession, Points, ValidateAttsdoc
<1>2. iiot_fd \in Procs /\ <<Gateway, iiot_fd>> \in Links
  BY <1>1, LinkFacts
<1>3. /\ pc[iiot_fd] = "recv_attsdoc" /\ Recv(iiot_fd, Gateway, l)
      /\ pubkey_enclave' = [pubkey_enclave EXCEPT ![iiot_fd] =
                               IF Head(GD).body = "good" THEN Enclave ELSE NULL]
      /\ UNCHANGED <<connected, backlog, attsdoc_buf, buf, iiot_fd, pubkey_iiot, encrypted, n_response,
                     mykey, n_offloads, data_out>>
  BY DEF RecvAttsdoc, Received, GD, gateway_vars, enclave_vars
<1>4. l = IF Head(GD).body = "invalid" THEN "exited" ELSE "send_pubkey"
  BY DEF ValidateAttsdoc, Received, GD
<1> HIDE DEF l
<1>5. /\ GD # <<>>
      /\ chan' \in [Links -> Seq(Messages)] /\ chan'[<<Gateway, iiot_fd>>] = Tail(GD)
      /\ \A k \in Links \ {<<Gateway, iiot_fd>>} : chan'[k] = chan[k]
      /\ pc' \in [Procs -> ProgramPoints] /\ pc'[iiot_fd] = l
      /\ \A x \in Procs \ {iiot_fd} : pc'[x] = pc[x]
  BY <1>1, <1>2, <1>3, RecvFacts DEF GD
<1>6. /\ Head(GD) = attsdoc_buf /\ Tail(GD) = <<>> /\ ~ HasCipher(GD) /\ ~ HasCipher(Tail(GD))
      /\ Going = 0 /\ Coming = 0
  <2>1. ~ HasCipher(GD) /\ Going = 0 /\ Coming = 0
    BY <1>1, <1>3 DEF InSession, Token, Going, Coming, Count
  <2>2. GD \in One({attsdoc_buf})
    BY <1>1, <1>5, <2>1, TokenFacts
  <2> QED
    BY <1>1, <2>1, <2>2, QueueFacts
<1>7. TypeOK'
  BY <1>1, <1>3, <1>5 DEF TypeOK
<1>8. Unmoved
  BY <1>1, <1>3, <1>5, LinkFacts DEF Unmoved, Procs
<1>9. /\ DG' = DG /\ GD' = <<>> /\ EG' = EG /\ GE' = GE /\ iiot_fd' = iiot_fd
      /\ K' = K /\ Q' = Q /\ R' = R
      /\ pc'[Gateway] = pc[Gateway] /\ pc'[Enclave] = pc[Enclave]
  BY <1>1, <1>3, <1>5, <1>6, LinkFacts DEF DG, GD, EG, GE, K, Q, R
<1>10. /\ pc'[iiot_fd] = IF attsdoc_buf.body = "invalid" THEN "exited" ELSE "send_pubkey"
       /\ pubkey_enclave'[iiot_fd] = IF attsdoc_buf.body = "good" THEN Enclave ELSE NULL
  <2>1. iiot_fd \in DOMAIN pubkey_enclave
    BY <1>1 DEF TypeOK
  <2> QED
    BY <1>3, <1>4, <1>5, <1>6, <2>1
<1>11. Points' /\ Shapes'
  BY <1>1, <1>3, <1>9, <1>10 DEF InSession, Points, Shapes
<1>12. Buffers'
  BY <1>1, <1>3, <1>9, <1>10 DEF InSession, Buffers
<1>13. Order'
  BY <1>1, <1>3, <1>5, <1>9, <1>10 DEF InSession, Order
<1>14. Going' = 0 /\ Coming' = 0
  <2>1. ~ HasCipher(GD)'
    BY <1>6, <1>9, CipherAfter
  <2> QED
    BY <1>6, <1>9, <2>1, CipherKept DEF Going, Coming, Count
<1>15. Token' /\ Counters'
  BY <1>1, <1>3, <1>9, <1>10, <1>14 DEF InSession, Token, Counters
<1>16. attsdoc_buf.body = "good" => pc'[iiot_fd] # "exited"
  BY <1>10
<1> QED
  BY <1>7, <1>8, <1>11, <1>12, <1>13, <1>15, <1>16, SessionEnd DEF InSession

\* send_iiot_pubkey: the key that all messages after it are for.
LEMMA DeviceSendsKey ==
    ASSUME OffInv, iiot_fd # NULL, SendIiotPubkey(iiot_fd)
    PROVE  OffInv'
<1>1. /\ TypeOK /\ InSession /\ iiot_fd \in Devices /\ "period" \in ProgramPoints
      /\ attsdoc_buf \in Docs
  BY SessionStart DEF ProgramPoints, InSession, Points
<1>2. iiot_fd \in Procs /\ Gateway \in Procs /\ <<iiot_fd, Gateway>> \in Links
  BY <1>1, LinkFacts
<1>3. PICK k \in {iiot_fd, NULL} : /\ mykey' = [mykey EXCEPT ![iiot_fd] = k]
                                   /\ Send(iiot_fd, Gateway, Pubkey(k), "period")
  BY DEF SendIiotPubkey
<1>4. /\ pc[iiot_fd] = "send_pubkey"
      /\ UNCHANGED <<connected, backlog, attsdoc_buf, buf, iiot_fd, pubkey_iiot, encrypted, n_response,
                     pubkey_enclave, n_offloads, data_out>>
  BY DEF SendIiotPubkey, gateway_vars, enclave_vars
<1>5. mykey'[iiot_fd] = k /\ mykey' \in [Devices -> Devices \cup {NULL}]
  BY <1>1, <1>3 DEF TypeOK
<1>6. Pubkey(k) \in K' /\ Pubkey(k) \in Messages
  <2>1. Pubkey(k) \in K'
    BY <1>4, <1>5 DEF K, Keys
  <2>2. Pubkey(k) \in Messages
    BY <1>1 DEF Messages
  <2> QED
    BY <2>1, <2>2
<1>7. Sent(iiot_fd, Gateway, Pubkey(k), "period")
  BY <1>1, <1>2, <1>3, <1>6, SendFacts
<1>8. TypeOK'
  BY <1>1, <1>4, <1>5, <1>7 DEF TypeOK, Sent
<1>9. Unmoved
  BY <1>1, <1>4, <1>7, LinkFacts DEF Unmoved, Procs, Sent
<1>10. /\ GD' = GD /\ EG' = EG /\ GE' = GE /\ iiot_fd' = iiot_fd /\ Q' = Q
       /\ pc'[Gateway] = pc[Gateway] /\ pc'[Enclave] = pc[Enclave]
  BY <1>1, <1>4, <1>7, LinkFacts DEF GD, EG, GE, Q, Sent
<1>11. /\ DG = <<>> /\ GE = <<>> /\ EG = <<>> /\ GD = <<>>
       /\ pc[Gateway] \in {"recv_pubkey", "exited"} /\ pc[Enclave] \in {"recv_pubkey", "exited"}
       /\ Going = 0 /\ Coming = 0 /\ n_offloads[iiot_fd] = 0
  <2>1. /\ DG = <<>> /\ GE = <<>> /\ EG = <<>> /\ n_offloads[iiot_fd] = 0
        /\ pc[Gateway] \in {"recv_pubkey", "exited"} /\ pc[Enclave] \in {"recv_pubkey", "exited"}
    BY <1>1, <1>4 DEF InSession, Order, Counters
  <2>2. ~ HasCipher(GD) /\ Going = 0 /\ Coming = 0
    BY <1>1, <1>4 DEF InSession, Token, Going, Coming, Count
  <2>3. GD = <<>>
    BY <1>1, <1>4, <2>2, TokenFacts DEF InSession, Order
  <2> QED
    BY <2>1, <2>2, <2>3
<1>12. /\ pc'[iiot_fd] \in {"period", "exited"}
       /\ \/ /\ pc[Gateway] # "exited" /\ pc'[iiot_fd] = "period"
             /\ DG' \in One(K') /\ DG' # <<>> /\ ~ HasCipher(DG)'
          \/ pc[Gateway] = "exited" /\ DG' = <<>> /\ ~ HasCipher(DG)'
  <2>1. /\ pc'[iiot_fd] \in {"period", "exited"}
        /\ \/ pc[Gateway] # "exited" /\ pc'[iiot_fd] = "period" /\ DG' = Append(<<>>, Pubkey(k))
           \/ pc[Gateway] = "exited" /\ DG' = <<>>
    BY <1>4, <1>7, <1>11 DEF Sent, DG
  <2>2. Append(<<>>, Pubkey(k)) \in One(K')
    BY <1>6, AppendFacts
  <2>3. ~ HasCipher(Append(<<>>, Pubkey(k))) /\ Append(<<>>, Pubkey(k)) # <<>> /\ ~ HasCipher(<<>>)
    <3> DEFINE s == Append(<<>>, Pubkey(k))
    <3>1. s \in One(Keys(k)) /\ k \in Devices \cup {NULL}
      BY <1>1, AppendFacts DEF Keys
    <3> HIDE DEF s
    <3>2. s # <<>> /\ Last(s) \in Keys(k)
      BY <3>1, OneFacts
    <3>3. Last(s).kind = "pubkey"
      BY <3>1, <3>2, KeyFacts
    <3>4. ~ HasCipher(s) /\ ~ HasCipher(<<>>)
      BY <3>2, <3>3 DEF HasCipher
    <3> QED
      BY <3>2, <3>4 DEF s
  <2> QED
    BY <2>1, <2>2, <2>3, CipherAfter
<1>13. Points' /\ Shapes'
  BY <1>1, <1>4, <1>10, <1>11, <1>12 DEF InSession, Points, Shapes
<1>14. Buffers'
  BY <1>1, <1>4, <1>10, <1>11, <1>12 DEF InSession, Buffers
<1>15. Order'
  BY <1>4, <1>10, <1>11, <1>12 DEF Order
<1>16. Going' = 0 /\ Coming' = 0
  <2>1. ~ HasCipher(<<>>)
    BY <1>1, QueueFacts
  <2> QED
    BY <1>10, <1>11, <1>12, <2>1, CipherKept DEF Going, Coming, Count
<1>17. Token' /\ Counters'
  BY <1>1, <1>4, <1>10, <1>11, <1>12, <1>16 DEF InSession, Token, Counters
<1> QED
  BY <1>8, <1>9, <1>13, <1>14, <1>15, <1>17, SessionEnd DEF InSession

\* run_iiot_emulation between two requests.
LEMMA DeviceIdles ==
    ASSUME OffInv, iiot_fd # NULL, RunLocally(iiot_fd) \/ Sleep(iiot_fd)
    PROVE  OffInv'
<1>1. /\ TypeOK /\ InSession /\ iiot_fd \in Devices /\ {"period", "sleep"} \subseteq ProgramPoints
      /\ iiot_fd \in Procs
  BY SessionStart DEF ProgramPoints, Procs
<1>2. /\ pc[iiot_fd] \in {"period", "sleep"}
      /\ At(iiot_fd, "period") \/ At(iiot_fd, "sleep")
      /\ UNCHANGED <<chan, connected, backlog, attsdoc_buf, buf, iiot_fd, pubkey_iiot, encrypted,
                     n_response, pubkey_enclave, mykey, n_offloads, data_out>>
  BY DEF RunLocally, Sleep, net, gateway_vars, enclave_vars, device_vars
<1>3. /\ pc' \in [Procs -> ProgramPoints] /\ pc'[iiot_fd] \in {"period", "sleep"}
      /\ \A q \in Procs \ {iiot_fd} : pc'[q] = pc[q]
  BY <1>1, <1>2, AtFacts
<1>4. TypeOK'
  BY <1>1, <1>2, <1>3 DEF TypeOK
<1>5. Unmoved
  BY <1>1, <1>2, <1>3 DEF Unmoved, Procs
<1>6. /\ DG' = DG /\ GD' = GD /\ EG' = EG /\ GE' = GE /\ K' = K /\ Q' = Q /\ R' = R
      /\ iiot_fd' = iiot_fd /\ pc'[Gateway] = pc[Gateway] /\ pc'[Enclave] = pc[Enclave]
  BY <1>1, <1>2, <1>3, LinkFacts DEF DG, GD, EG, GE, K, Q, R
<1>7. Points' /\ Shapes' /\ Buffers'
  BY <1>1, <1>2, <1>3, <1>6 DEF InSession, Points, Shapes, Buffers
<1>8. Order'
  BY <1>1, <1>2, <1>3, <1>6 DEF InSession, Order
<1>9. Going' = Going /\ Coming' = Coming
  BY <1>6, CipherKept DEF Going, Coming, Count
<1>10. Token' /\ Counters'
  BY <1>1, <1>2, <1>3, <1>6, <1>9 DEF InSession, Token, Counters
<1> QED
  BY <1>4, <1>5, <1>7, <1>8, <1>10, SessionEnd DEF InSession

\* request_offload: the token is made; it goes behind the key if that is still there.
LEMMA DeviceSendsRequest ==
    ASSUME OffInv, iiot_fd # NULL, RequestOffload(iiot_fd)
    PROVE  OffInv'
<1> DEFINE m == Encrypt(pubkey_enclave[iiot_fd], n_offloads[iiot_fd])
<1>1. /\ TypeOK /\ InSession /\ iiot_fd \in Devices /\ "recv_response" \in ProgramPoints
      /\ attsdoc_buf \in Docs
  BY SessionStart DEF ProgramPoints, InSession, Points
<1>2. iiot_fd \in Procs /\ Gateway \in Procs /\ Enclave # NULL /\ <<iiot_fd, Gateway>> \in Links
  BY <1>1, LinkFacts
<1>3. /\ pc[iiot_fd] = "period" /\ Send(iiot_fd, Gateway, m, "recv_response")
      /\ n_offloads' = [n_offloads EXCEPT ![iiot_fd] = After(@)]
      /\ UNCHANGED <<connected, backlog, attsdoc_buf, buf, iiot_fd, pubkey_iiot, encrypted, n_response,
                     pubkey_enclave, mykey, data_out>>
  BY DEF RequestOffload, gateway_vars, enclave_vars
<1>4. n_offloads'[iiot_fd] = After(n_offloads[iiot_fd]) /\ n_offloads' \in [Devices -> Numbers]
  BY <1>1, <1>3, NumberFacts DEF TypeOK
<1>5. m \in Q /\ m \in Messages
  <2>1. n_offloads[iiot_fd] \in Numbers /\ pubkey_enclave[iiot_fd] \in {Enclave, NULL}
    BY <1>1 DEF TypeOK
  <2>2. m \in CipherMsgs
    BY <2>1 DEF CipherMsgs, Procs
  <2>3. attsdoc_buf.body = "good" => pubkey_enclave[iiot_fd] = Enclave
    BY <1>1, <1>3 DEF InSession, Buffers
  <2>4. attsdoc_buf.body = "good" => m.len # 0
    BY <1>2, <2>3 DEF Encrypt
  <2> HIDE DEF m
  <2> QED
    BY <2>2, <2>4, CipherFacts DEF Q, Reqs
<1> HIDE DEF m
<1>6. Sent(iiot_fd, Gateway, m, "recv_response")
  BY <1>1, <1>2, <1>3, <1>5, SendFacts
<1>7. TypeOK'
  BY <1>1, <1>3, <1>4, <1>6 DEF TypeOK, Sent
<1>8. Unmoved
  <2>1. \A x \in Devices \ {iiot_fd} : n_offloads'[x] = n_offloads[x]
    BY <1>1, <1>3 DEF TypeOK
  <2> QED
    BY <1>1, <1>3, <1>6, <2>1, LinkFacts DEF Unmoved, Procs, Sent
<1>9. /\ GD' = GD /\ EG' = EG /\ GE' = GE /\ iiot_fd' = iiot_fd /\ Q' = Q /\ K' = K
      /\ pc'[Gateway] = pc[Gateway] /\ pc'[Enclave] = pc[Enclave]
  BY <1>1, <1>3, <1>6, LinkFacts DEF GD, EG, GE, Q, K, Sent
<1>10. /\ EG = <<>> /\ GD = <<>> /\ Going = 0 /\ Coming = 0
       /\ DG = <<>> \/ DG \in One(K)
       /\ ~ HasCipher(DG) /\ ~ HasCipher(GE) /\ ~ HasCipher(EG) /\ ~ HasCipher(GD)
       /\ pc[Gateway] \notin {"send_attsdoc", "send_request", "send_response"}
       /\ pc[Enclave] # "send_response"
  <2>1. /\ ~ HasCipher(DG) /\ ~ HasCipher(GE) /\ ~ HasCipher(EG) /\ ~ HasCipher(GD)
        /\ Going = 0 /\ Coming = 0
        /\ pc[Gateway] \notin {"send_request", "send_response"} /\ pc[Enclave] # "send_response"
    BY <1>1, <1>3 DEF InSession, Token, Going, Coming, Count
  <2>2. pc[Gateway] # "send_attsdoc"
    BY <1>1, <1>3 DEF InSession, Order
  <2>3. GD = <<>>
    BY <1>1, <1>3, <2>1, TokenFacts DEF InSession, Order
  <2>4. EG = <<>> /\ (DG = <<>> \/ DG \in One(K))
    BY <1>1, <2>1, TokenFacts
  <2> QED
    BY <2>1, <2>2, <2>3, <2>4
<1>11. CASE pc[Gateway] # "exited"
  <2>1. pc'[iiot_fd] = "recv_response" /\ DG' = Append(DG, m)
    BY <1>3, <1>6, <1>11 DEF Sent, DG
  <2>2. /\ HasCipher(DG)' /\ DG' # <<>>
        /\ pc[Gateway] = "recv_pubkey" => DG' \in Two(K, Q)
        /\ pc[Gateway] # "recv_pubkey" => DG' \in One(Q)
    <3>1. pc[Gateway] = "recv_pubkey" => DG \in One(K)
      BY <1>1, <1>3, <1>10 DEF InSession, Order
    <3>2. pc[Gateway] # "recv_pubkey" => DG = <<>>
      BY <1>1, <1>10, <1>11, TokenFacts DEF InSession, Order
    <3>3. /\ DG = <<>> => Append(DG, m) \in One(Q)
          /\ DG \in One(K) => Append(DG, m) \in Two(K, Q)
      BY <1>5, AppendFacts
    <3>4. HasCipher(Append(DG, m)) /\ Append(DG, m) # <<>>
      BY <1>1, <1>10, <3>3, QueueFacts
    <3> QED
      BY <2>1, <3>1, <3>2, <3>3, <3>4, CipherAfter
  <2>3. Points' /\ Shapes'
    BY <1>1, <1>3, <1>9, <1>10, <2>1, <2>2 DEF InSession, Points, Shapes
  <2>4. Buffers'
    BY <1>1, <1>3, <1>9, <1>10, <2>1 DEF InSession, Buffers
  <2>5. Order'
    BY <1>1, <1>3, <1>9, <1>10, <2>1, <2>2 DEF InSession, Order
  <2>6. Going' = 1 /\ Coming' = 0
    BY <1>9, <1>10, <2>2, CipherKept DEF Going, Coming, Count
  <2>7. Token'
    BY <1>9, <2>1, <2>6 DEF Token
  <2>8. Counters'
    <3>1. /\ pc[Enclave] = "recv_pubkey" => n_response = 0 /\ n_offloads[iiot_fd] = 0
          /\ pc[Enclave] = "recv_request" => n_response = After(n_offloads[iiot_fd])
      BY <1>1, <1>3 DEF InSession, Counters
    <3> QED
      BY <1>3, <1>4, <1>9, <1>10, <2>1, <2>6, <3>1, NumberFacts DEF Counters
  <2> QED
    BY <1>7, <1>8, <2>3, <2>4, <2>5, <2>7, <2>8, SessionEnd DEF InSession
<1>12. CASE pc[Gateway] = "exited"
  <2>1. pc'[iiot_fd] \in {"recv_response", "exited"} /\ DG' = DG
    BY <1>3, <1>6, <1>12 DEF Sent, DG
  <2>2. Points' /\ Shapes'
    BY <1>1, <1>3, <1>9, <1>10, <2>1 DEF InSession, Points, Shapes
  <2>3. Buffers'
    BY <1>1, <1>3, <1>9, <1>12, <2>1 DEF InSession, Buffers
  <2>4. Order'
    BY <1>1, <1>3, <1>9, <1>10, <1>12, <2>1 DEF InSession, Order
  <2>5. Going' = 0 /\ Coming' = 0
    BY <1>9, <1>10, <2>1, CipherKept DEF Going, Coming, Count
  <2>6. Token'
    BY <1>9, <1>12, <2>1, <2>5 DEF Token
  <2>7. Counters'
    BY <1>1, <1>3, <1>9, <2>1, <2>5 DEF InSession, Counters
  <2> QED
    BY <1>7, <1>8, <2>2, <2>3, <2>4, <2>6, <2>7, SessionEnd DEF InSession
<1> QED
  BY <1>11, <1>12

\* request_offload: the response that is received is the one to the last request.
LEMMA DeviceGetsResponse ==
    ASSUME OffInv, iiot_fd # NULL, RecvResponse(iiot_fd)
    PROVE  /\ OffInv'
           /\ data_out'[iiot_fd] = IF mykey[iiot_fd] = NULL THEN NULL ELSE Before(n_offloads[iiot_fd])
<1>1. /\ TypeOK /\ InSession /\ iiot_fd \in Devices /\ "sleep" \in ProgramPoints
      /\ attsdoc_buf \in Docs
  BY SessionStart DEF ProgramPoints, InSession, Points
<1>2. iiot_fd \in Procs /\ <<Gateway, iiot_fd>> \in Links
  BY <1>1, LinkFacts
<1>3. /\ pc[iiot_fd] = "recv_response" /\ Recv(iiot_fd, Gateway, "sleep")
      /\ data_out' = [data_out EXCEPT ![iiot_fd] = Decrypt(mykey[iiot_fd], Head(GD))]
      /\ UNCHANGED <<connected, backlog, attsdoc_buf, buf, iiot_fd, pubkey_iiot, encrypted, n_response,
                     pubkey_enclave, mykey, n_offloads>>
  BY DEF RecvResponse, Received, GD, gateway_vars, enclave_vars
<1>4. /\ GD # <<>>
      /\ chan' \in [Links -> Seq(Messages)] /\ chan'[<<Gateway, iiot_fd>>] = Tail(GD)
      /\ \A k \in Links \ {<<Gateway, iiot_fd>>} : chan'[k] = chan[k]
      /\ pc' \in [Procs -> ProgramPoints] /\ pc'[iiot_fd] = "sleep"
      /\ \A x \in Procs \ {iiot_fd} : pc'[x] = pc[x]
  BY <1>1, <1>2, <1>3, RecvFacts DEF GD
<1>5. Head(GD) \in R /\ Tail(GD) = <<>> /\ HasCipher(GD) /\ ~ HasCipher(Tail(GD))
  <2>1. GD \in One(R)
    BY <1>1, <1>3, <1>4 DEF InSession, Order
  <2> QED
    BY <1>1, <2>1, QueueFacts
<1>6. /\ Decrypt(mykey[iiot_fd], Head(GD)) =
            IF mykey[iiot_fd] = NULL THEN NULL ELSE Before(n_offloads[iiot_fd])
      /\ Decrypt(mykey[iiot_fd], Head(GD)) \in Numbers \cup {NULL}
  <2>1. n_offloads[iiot_fd] \in Numbers
    BY <1>1 DEF TypeOK
  <2>2. Before(n_offloads[iiot_fd]) \in Numbers
    BY <2>1, NumberFacts
  <2>3. mykey[iiot_fd] # NULL => /\ Head(GD).for = mykey[iiot_fd]
                                 /\ Head(GD).body = Before(n_offloads[iiot_fd])
    BY <1>5 DEF R, Rsps
  <2> QED
    BY <2>2, <2>3 DEF Decrypt
<1>7. /\ data_out' \in [Devices -> Numbers \cup {NULL}]
      /\ data_out'[iiot_fd] = IF mykey[iiot_fd] = NULL THEN NULL ELSE Before(n_offloads[iiot_fd])
  BY <1>1, <1>3, <1>6 DEF TypeOK
<1>8. TypeOK'
  BY <1>1, <1>3, <1>4, <1>7 DEF TypeOK
<1>9. Unmoved
  BY <1>1, <1>3, <1>4, LinkFacts DEF Unmoved, Procs
<1>10. /\ DG' = DG /\ GD' = <<>> /\ EG' = EG /\ GE' = GE /\ iiot_fd' = iiot_fd
       /\ K' = K /\ Q' = Q /\ R' = R
       /\ pc'[Gateway] = pc[Gateway] /\ pc'[Enclave] = pc[Enclave]
  BY <1>1, <1>3, <1>4, <1>5, LinkFacts DEF DG, GD, EG, GE, K, Q, R
<1>11. Points' /\ Shapes'
  BY <1>1, <1>3, <1>4, <1>10 DEF InSession, Points, Shapes
<1>12. Buffers'
  BY <1>1, <1>3, <1>4, <1>10 DEF InSession, Buffers
<1>13. Order'
  BY <1>1, <1>3, <1>4, <1>10 DEF InSession, Order
<1>14. Going = 0 /\ Coming = 1 /\ Going' = 0 /\ Coming' = 0
  <2>1. ~ HasCipher(GD)'
    BY <1>5, <1>10, CipherAfter
  <2>2. /\ Going = 0 /\ Coming = 1
        /\ ~ HasCipher(DG) /\ ~ HasCipher(EG) /\ ~ HasCipher(GE)
        /\ pc[Gateway] \notin {"send_request", "send_response"} /\ pc[Enclave] # "send_response"
    BY <1>1, <1>5 DEF InSession, Token, Going, Coming, Count
  <2> QED
    BY <1>10, <2>1, <2>2, CipherKept DEF Going, Coming, Count
<1>15. Token'
  BY <1>4, <1>10, <1>14 DEF Token
<1>16. Counters'
  BY <1>1, <1>3, <1>4, <1>10, <1>14 DEF InSession, Counters
<1> QED
  BY <1>7, <1>8, <1>9, <1>11, <1>12, <1>13, <1>15, <1>16, SessionEnd DEF InSession

-----------------------------------------------------------------------------
(* Every step preserves the invariant                                      *)

\* recv_len_data fails and Kill: exits, whoever the process is.
LEMMA FailureInv ==
    ASSUME OffInv, NEW p \in Procs, RecvFails(p) \/ Kill(p)
    PROVE  OffInv'
BY ExitInv DEF RecvFails, Kill

\* Every step of the gateway keeps the invariant.
LEMMA GatewayStepInv ==
    ASSUME OffInv, GatewayStep
    PROVE  OffInv'
<1>1. CASE ListenEnclave \/ AcceptEnclave
  BY <1>1, ListenInv
<1>2. CASE RecvEnclaveAttsdoc
  BY <1>2, RecvEnclaveAttsdocInv
<1>3. CASE AcceptIiotDevice
  BY <1>3, AcceptIiotDeviceInv
<1>4. CASE SendEnclaveAttsdoc \/ RelayIiotPubkey \/ DoRelayOffload
  <2>1. pc[Gateway] \in {"send_attsdoc", "recv_pubkey", "send_pubkey", "recv_request", "send_request",
                         "recv_response", "send_response"}
    BY <1>4 DEF SendEnclaveAttsdoc, RelayIiotPubkey, DoRelayOffload, RelayIn, RelayOut
  <2>2. iiot_fd # NULL
    BY <2>1 DEF OffInv, Unaccepted
  <2> QED
    BY <1>4, <2>2, GatewaySendsDocument, GatewayGetsKey, GatewaySendsKey, GatewayGetsRequest,
       GatewaySendsRequest, GatewayGetsResponse, GatewaySendsResponse DEF RelayIiotPubkey, DoRelayOffload
<1>5. CASE RecvFails(Gateway)
  BY <1>5, FailureInv DEF Procs
<1> QED
  BY <1>1, <1>2, <1>3, <1>4, <1>5 DEF GatewayStep

\* Every step of the enclave keeps it.
LEMMA EnclaveStepInv ==
    ASSUME OffInv, EnclaveStep
    PROVE  OffInv'
<1>1. CASE EnclaveConnect
  BY <1>1, EnclaveConnectInv
<1>2. CASE EnclaveAttest
  BY <1>2, EnclaveAttestInv
<1>3. CASE RecvIiotPubkey
  <2>1. GE # <<>>
    BY <1>3 DEF RecvIiotPubkey, Recv, GE
  <2>2. iiot_fd # NULL
    BY <2>1 DEF OffInv, Unaccepted
  <2> QED
    BY <1>3, <2>2, EnclaveGetsKey
<1>4. CASE RecvRequest \/ SendResponse
  <2>1. pc[Enclave] \in {"recv_request", "send_response"}
    BY <1>4 DEF RecvRequest, SendResponse
  <2>2. iiot_fd # NULL
    BY <2>1 DEF OffInv, Unaccepted
  <2> QED
    BY <1>4, <2>2, EnclaveGetsRequest, EnclaveSendsResponse
<1>5. CASE RecvFails(Enclave)
  BY <1>5, FailureInv DEF Procs
<1> QED
  BY <1>1, <1>2, <1>3, <1>4, <1>5 DEF EnclaveStep

\* Only the accepted device gets past the document.
LEMMA OnlyAccepted ==
    ASSUME OffInv, NEW d \in Devices,
           \/ chan[<<Gateway, d>>] # <<>>
           \/ pc[d] \in {"send_pubkey", "period", "recv_response", "sleep"}
    PROVE  d = iiot_fd /\ iiot_fd # NULL
<1>1. d # NULL
  BY ProcessesAssumption DEF Procs
<1>2. ASSUME d # iiot_fd
      PROVE  FALSE
  <2>1. Strangers /\ d \in Devices \ {iiot_fd}
    BY <1>2 DEF OffInv
  <2>2. pc[d] \in {"start", "recv_attsdoc", "exited"} /\ chan[<<Gateway, d>>] = <<>>
    BY <2>1 DEF Strangers
  <2> QED
    BY <2>2
<1> QED
  BY <1>1, <1>2

\* Every step of a device keeps it.
LEMMA DeviceStepInv ==
    ASSUME OffInv, NEW d \in Devices, DeviceStep(d)
    PROVE  OffInv'
<1>1. CASE DeviceConnect(d)
  BY <1>1, DeviceConnectInv
<1>2. CASE RecvFails(d)
  BY <1>2, FailureInv DEF Procs
<1>3. CASE \/ RecvAttsdoc(d) \/ SendIiotPubkey(d) \/ RunLocally(d) \/ RequestOffload(d)
           \/ RecvResponse(d) \/ Sleep(d)
  <2>1. \/ chan[<<Gateway, d>>] # <<>>
        \/ pc[d] \in {"send_pubkey", "period", "recv_response", "sleep"}
    BY <1>3 DEF RecvAttsdoc, SendIiotPubkey, RunLocally, RequestOffload, RecvResponse, Sleep
  <2>2. d = iiot_fd /\ iiot_fd # NULL
    BY <2>1, OnlyAccepted
  <2> QED
    BY <1>3, <2>2, DeviceGetsDocument, DeviceSendsKey, DeviceIdles, DeviceSendsRequest, DeviceGetsResponse
<1> QED
  BY <1>1, <1>2, <1>3 DEF DeviceStep

\* So does a step in which nothing changes.
LEMMA StutterInv ==
    ASSUME OffInv, UNCHANGED vars
    PROVE  OffInv'
<1>1. UNCHANGED <<pc, chan, connected, backlog, attsdoc_buf, buf, iiot_fd, pubkey_iiot, encrypted,
                  n_response, pubkey_enclave, mykey, n_offloads, data_out>>
  BY DEF vars
<1>2. TypeOK' /\ Strangers' /\ Waiting'
  BY <1>1 DEF OffInv, TypeOK, Strangers, Waiting
<1>3. DG' = DG /\ GD' = GD /\ EG' = EG /\ GE' = GE /\ K' = K /\ Q' = Q /\ R' = R
  BY <1>1 DEF DG, GD, EG, GE, K, Q, R
<1>4. Unaccepted => Unaccepted'
  BY <1>1, <1>3 DEF Unaccepted
<1>5. Going' = Going /\ Coming' = Coming
  BY <1>1, <1>3, CipherKept DEF Going, Coming, Count
<1>6. InSession => InSession'
  BY <1>1, <1>3, <1>5 DEF InSession, Points, Shapes, Buffers, Order, Token, Counters
<1> QED
  BY <1>1, <1>2, <1>4, <1>6 DEF OffInv

\* OffInv is an invariant of the prototype.
THEOREM OffloadInv == Spec => []OffInv
<1>1. Init => OffInv
  BY InitInv
<1>2. OffInv /\ [Next]_vars => OffInv'
  <2> SUFFICES ASSUME OffInv, [Next]_vars PROVE OffInv'
    OBVIOUS
  <2>1. CASE UNCHANGED vars
    BY <2>1, StutterInv
  <2>2. CASE Next
    BY <2>2, GatewayStepInv, EnclaveStepInv, DeviceStepInv, FailureInv, ResetInv DEF Next
  <2> QED
    BY <2>1, <2>2
<1> QED
  BY <1>1, <1>2, PTL DEF Spec

\* Type correctness: every variable keeps the shape of its C counterpart, for any number
\* of devices and any range of the counters.
THEOREM OffloadTypeCorrect == Spec => []TypeOK
<1>1. OffInv => TypeOK
  BY DEF OffInv
<1> QED
  BY <1>1, OffloadInv, PTL

\* Attestation comes first: only the accepted device sends its key and its tasks, and only
\* when the document the gateway holds passed validate_attsdoc.
THEOREM AlwaysAttestedFirst == Spec => []AttestedFirst
<1>1. OffInv => AttestedFirst
  <2> SUFFICES ASSUME OffInv, NEW d \in Devices,
                      pc[d] \in {"send_pubkey", "period", "recv_response", "sleep"}
               PROVE  /\ iiot_fd = d
                      /\ attsdoc_buf # NULL /\ attsdoc_buf.body # "invalid"
    BY DEF AttestedFirst
  <2>1. d = iiot_fd /\ iiot_fd # NULL
    BY OnlyAccepted
  <2>2. attsdoc_buf \in Docs /\ attsdoc_buf.body # "invalid"
    BY <2>1 DEF OffInv, InSession, Points, Buffers
  <2> QED
    BY <2>1, <2>2, DocFacts
<1> QED
  BY <1>1, OffloadInv, PTL

\* The three programs stay in step: what a process reads next is what it expects, and fits
\* in its buffer.
THEOREM AlwaysInStep == Spec => []InStep
<1>1. ASSUME OffInv, NEW p \in Procs, Source(p) # NULL, chan[<<Source(p), p>>] # <<>>
      PROVE  /\ Received(p, Source(p)).kind = ExpectedKind(p)
             /\ Received(p, Source(p)).len <= Capacity(p)
  <2> DEFINE m == Received(p, Source(p))
  <2>1. ASSUME m \in Docs, pc[p] = "recv_attsdoc"
        PROVE  m.kind = ExpectedKind(p) /\ m.len <= Capacity(p)
    <3>1. ExpectedKind(p) = "attsdoc" /\ Capacity(p) = 8192
      BY <2>1 DEF ExpectedKind, Capacity
    <3>2. m.kind = "attsdoc" /\ m.len = 5000
      BY <2>1, DocFacts
    <3> QED
      BY <3>1, <3>2
  <2>2. ASSUME m \in K, pc[p] = "recv_pubkey", p = Gateway \/ p = Enclave, iiot_fd # NULL
        PROVE  m.kind = ExpectedKind(p) /\ m.len <= Capacity(p)
    <3>1. ExpectedKind(p) = "pubkey" /\ Capacity(p) \in {1024, 4096}
      BY <2>2, ProcessesAssumption DEF ExpectedKind, Capacity
    <3>2. mykey[iiot_fd] \in Devices \cup {NULL}
      BY <1>1, <2>2 DEF OffInv, TypeOK
    <3>3. m.kind = "pubkey" /\ m.len <= 451 /\ m.len \in {0, 451}
      BY <2>2, <3>2, KeyFacts DEF K, Keys, Pubkey
    <3> QED
      BY <3>1, <3>3
  <2>3. ASSUME m \in CipherMsgs, pc[p] \in {"recv_request", "recv_response"}
        PROVE  m.kind = ExpectedKind(p) /\ m.len <= Capacity(p)
    <3>1. ExpectedKind(p) = "cipher" /\ Capacity(p) \in {1024, 512}
      BY <2>3 DEF ExpectedKind, Capacity
    <3>2. m.kind = "cipher" /\ m.len \in {0, 256}
      BY <2>3, CipherFacts DEF CipherMsgs, Encrypt
    <3> QED
      BY <3>1, <3>2
  <2>4. Q \subseteq CipherMsgs /\ R \subseteq CipherMsgs
    BY DEF Q, R, Reqs, Rsps
  <2>5. /\ \A s \in One(Docs) : Head(s) \in Docs
        /\ \A s \in One(K) : Head(s) \in K
        /\ \A s \in One(Q) : Head(s) \in Q
        /\ \A s \in One(R) : Head(s) \in R
        /\ \A s \in Two(K, Q) : Head(s) \in K
        /\ \A s \in One({attsdoc_buf}) : Head(s) = attsdoc_buf
    BY OneFacts, TwoFacts
  <2>6. CASE p = Gateway
    <3>1. CASE pc[p] = "recv_attsdoc"
      <4>1. Source(p) = Enclave
        BY <2>6, <3>1 DEF Source
      <4>2. iiot_fd = NULL
        BY <1>1, <2>6, <3>1 DEF OffInv, InSession, Points
      <4>3. EG \in One(Docs)
        BY <1>1, <2>6, <4>1, <4>2 DEF OffInv, Unaccepted, EG
      <4>4. m \in Docs
        BY <2>5, <2>6, <4>1, <4>3 DEF Received, EG
      <4> QED
        BY <2>1, <3>1, <4>4
    <3>2. CASE pc[p] = "recv_response"
      <4>1. Source(p) = Enclave
        BY <2>6, <3>2 DEF Source
      <4>2. iiot_fd # NULL
        BY <1>1, <2>6, <3>2 DEF OffInv, Unaccepted
      <4>3. EG \in One(R)
        BY <1>1, <2>6, <4>1, <4>2 DEF OffInv, InSession, Shapes, EG
      <4>4. m \in CipherMsgs
        BY <2>4, <2>5, <2>6, <4>1, <4>3 DEF Received, EG
      <4> QED
        BY <2>3, <3>2, <4>4
    <3>3. CASE pc[p] = "recv_pubkey"
      <4>1. Source(p) = iiot_fd
        BY <2>6, <3>3 DEF Source
      <4>2. iiot_fd # NULL
        BY <1>1, <4>1
      <4>3. DG \in One(K) \/ DG \in Two(K, Q)
        BY <1>1, <2>6, <3>3, <4>1, <4>2 DEF OffInv, InSession, Order, DG
      <4>4. m \in K
        BY <2>5, <2>6, <4>1, <4>3 DEF Received, DG
      <4> QED
        BY <2>2, <2>6, <3>3, <4>2, <4>4
    <3>4. CASE pc[p] = "recv_request"
      <4>1. Source(p) = iiot_fd
        BY <2>6, <3>4 DEF Source
      <4>2. iiot_fd # NULL
        BY <1>1, <4>1
      <4>3. DG \in One(Q)
        BY <1>1, <2>6, <3>4, <4>1, <4>2 DEF OffInv, InSession, Order, DG
      <4>4. m \in CipherMsgs
        BY <2>4, <2>5, <2>6, <4>1, <4>3 DEF Received, DG
      <4> QED
        BY <2>3, <3>4, <4>4
    <3>5. pc[p] \in {"recv_attsdoc", "recv_response", "recv_pubkey", "recv_request"}
      BY <1>1, <2>6 DEF Source
    <3> QED
      BY <3>1, <3>2, <3>3, <3>4, <3>5
  <2>7. ASSUME p # Gateway
        PROVE  /\ Source(p) = Gateway
               /\ pc[p] \in {"recv_attsdoc", "recv_pubkey", "recv_request", "recv_response"}
    BY <1>1, <2>7 DEF Source
  <2>8. CASE p = Enclave
    <3>1. p # Gateway /\ Source(p) = Gateway /\ GE # <<>> /\ m = Head(GE)
      BY <1>1, <2>7, <2>8, ProcessesAssumption DEF GE, Received
    <3>2. iiot_fd # NULL
      BY <1>1, <3>1 DEF OffInv, Unaccepted
    <3>3. CASE pc[p] = "recv_pubkey"
      <4>1. GE \in One(K) \/ GE \in Two(K, Q)
        BY <1>1, <2>8, <3>1, <3>2, <3>3 DEF OffInv, InSession, Order
      <4> QED
        BY <2>2, <2>5, <2>8, <3>1, <3>2, <3>3, <4>1
    <3>4. CASE pc[p] = "recv_request"
      <4>1. GE \in One(Q)
        BY <1>1, <2>8, <3>1, <3>2, <3>4 DEF OffInv, InSession, Order
      <4>2. m \in CipherMsgs
        BY <2>4, <2>5, <3>1, <4>1
      <4> QED
        BY <2>3, <3>4, <4>2
    <3>5. pc[p] \in {"recv_pubkey", "recv_request"}
      BY <1>1, <2>7, <2>8, <3>1, <3>2 DEF OffInv, InSession, Points
    <3> QED
      BY <3>3, <3>4, <3>5
  <2>9. CASE p \in Devices
    <3>1. p # Gateway /\ p # NULL /\ Source(p) = Gateway
      BY <2>7, <2>9, ProcessesAssumption DEF Procs
    <3>2. p = iiot_fd /\ iiot_fd # NULL
      BY <1>1, <2>9, <3>1 DEF OffInv, Strangers
    <3>3. GD # <<>> /\ m = Head(GD)
      BY <1>1, <3>1, <3>2 DEF GD, Received
    <3>4. TypeOK /\ InSession /\ attsdoc_buf \in Docs
      BY <1>1, <3>2 DEF OffInv, InSession, Points
    <3>5. CASE pc[p] = "recv_attsdoc"
      <4>1. ~ HasCipher(GD)
        BY <3>2, <3>4, <3>5 DEF InSession, Token, Going, Coming, Count
      <4>2. GD \in One({attsdoc_buf})
        BY <3>2, <3>3, <3>4, <4>1, TokenFacts
      <4> QED
        BY <2>1, <2>5, <3>3, <3>4, <3>5, <4>2
    <3>6. CASE pc[p] = "recv_response"
      <4>1. GD \in One(R)
        BY <3>2, <3>3, <3>4, <3>6 DEF InSession, Order
      <4>2. m \in CipherMsgs
        BY <2>4, <2>5, <3>3, <4>1
      <4> QED
        BY <2>3, <3>6, <4>2
    <3>7. pc[p] \in {"recv_attsdoc", "recv_response"}
      BY <2>7, <3>1, <3>2, <3>4 DEF InSession, Points
    <3> QED
      BY <3>5, <3>6, <3>7
  <2> QED
    BY <2>6, <2>8, <2>9 DEF Procs
<1>2. OffInv => InStep
  BY <1>1 DEF InStep
<1> QED
  BY <1>2, OffloadInv, PTL

-----------------------------------------------------------------------------
(* One request at a time                                                   *)

\* The only cipher of a queue is its last message.
LEMMA CipherIsLast ==
    ASSUME TypeOK, iiot_fd # NULL, attsdoc_buf \in Docs, NEW s,
           \/ s = <<>> \/ s \in One(K) \/ s \in One(Q) \/ s \in One(R) \/ s \in Two(K, Q)
           \/ s \in One({attsdoc_buf})
    PROVE  {j \in 1..Len(s) : s[j].kind = "cipher"} = IF HasCipher(s) THEN {Len(s)} ELSE {}
<1>1. CASE s = <<>>
  BY <1>1 DEF HasCipher
<1>2. CASE \/ s \in One(K) \/ s \in One(Q) \/ s \in One(R) \/ s \in One({attsdoc_buf})
  <2>1. Len(s) = 1 /\ s # <<>> /\ Last(s) = s[1]
    BY <1>2, OneFacts
  <2> QED
    BY <2>1 DEF HasCipher
<1>3. CASE s \in Two(K, Q)
  <2>1. Len(s) = 2 /\ s[1] \in K /\ HasCipher(s)
    BY <1>3, TwoFacts, QueueFacts
  <2>2. mykey[iiot_fd] \in Devices \cup {NULL}
    BY DEF TypeOK
  <2>3. s[1].kind = "pubkey"
    BY <2>1, <2>2, KeyFacts DEF K
  <2>4. s[2].kind = "cipher"
    BY <2>1 DEF HasCipher, Last
  <2> QED
    BY <2>1, <2>3, <2>4
<1> QED
  BY <1>1, <1>2, <1>3

\* The places of InFlight are the places of the token.
LEMMA Places ==
    ASSUME OffInv, iiot_fd # NULL, NEW x
    PROVE  x \in InFlight <=>
              \/ HasCipher(DG) /\ x = <<<<iiot_fd, Gateway>>, Len(DG)>>
              \/ HasCipher(GD) /\ x = <<<<Gateway, iiot_fd>>, Len(GD)>>
              \/ HasCipher(EG) /\ x = <<<<Enclave, Gateway>>, Len(EG)>>
              \/ HasCipher(GE) /\ x = <<<<Gateway, Enclave>>, Len(GE)>>
              \/ pc[Gateway] \in {"send_request", "send_response"} /\ x = Gateway
              \/ pc[Enclave] = "send_response" /\ x = Enclave
<1> DEFINE At1(l) == {j \in 1..Len(chan[l]) : chan[l][j].kind = "cipher"}
<1>1. TypeOK /\ InSession /\ iiot_fd \in Devices /\ attsdoc_buf \in Docs
  BY SessionStart DEF InSession, Points
<1>2. /\ At1(<<iiot_fd, Gateway>>) = IF HasCipher(DG) THEN {Len(DG)} ELSE {}
      /\ At1(<<Gateway, iiot_fd>>) = IF HasCipher(GD) THEN {Len(GD)} ELSE {}
      /\ At1(<<Enclave, Gateway>>) = IF HasCipher(EG) THEN {Len(EG)} ELSE {}
      /\ At1(<<Gateway, Enclave>>) = IF HasCipher(GE) THEN {Len(GE)} ELSE {}
  <2>1. {j \in 1..Len(DG) : DG[j].kind = "cipher"} = IF HasCipher(DG) THEN {Len(DG)} ELSE {}
    BY <1>1, CipherIsLast DEF InSession, Shapes
  <2>2. {j \in 1..Len(GD) : GD[j].kind = "cipher"} = IF HasCipher(GD) THEN {Len(GD)} ELSE {}
    BY <1>1, CipherIsLast DEF InSession, Shapes
  <2>3. {j \in 1..Len(EG) : EG[j].kind = "cipher"} = IF HasCipher(EG) THEN {Len(EG)} ELSE {}
    BY <1>1, CipherIsLast DEF InSession, Shapes
  <2>4. {j \in 1..Len(GE) : GE[j].kind = "cipher"} = IF HasCipher(GE) THEN {Len(GE)} ELSE {}
    BY <1>1, CipherIsLast DEF InSession, Shapes
  <2> QED
    BY <2>1, <2>2, <2>3, <2>4 DEF DG, GD, EG, GE
<1>3. ASSUME NEW d \in Devices, d # iiot_fd
      PROVE  At1(<<d, Gateway>>) = {} /\ At1(<<Gateway, d>>) = {}
  <2>1. chan[<<d, Gateway>>] = <<>> /\ chan[<<Gateway, d>>] = <<>>
    BY <1>3 DEF OffInv, Strangers
  <2> QED
    BY <2>1
<1>4. pc[Enclave] # "send_request"
  BY <1>1 DEF InSession, Points
<1>5. x \in InFlight <=> \/ \E l \in Links : \E i \in At1(l) : x = <<l, i>>
                         \/ x \in {Gateway, Enclave} /\ pc[x] \in {"send_request", "send_response"}
  <2> DEFINE L(l) == {<<l, i>> : i \in At1(l)}
             U == UNION {L(l) : l \in Links}
             S == {p \in {Gateway, Enclave} : pc[p] \in {"send_request", "send_response"}}
  <2>1. InFlight = U \cup S
    BY DEF InFlight
  <2>2. x \in S <=> x \in {Gateway, Enclave} /\ pc[x] \in {"send_request", "send_response"}
    OBVIOUS
  <2>3. x \in U <=> \E l \in Links : x \in L(l)
    <3> HIDE DEF L
    <3> QED
      OBVIOUS
  <2>4. ASSUME NEW l
        PROVE  x \in L(l) <=> \E i \in At1(l) : x = <<l, i>>
    <3> HIDE DEF At1
    <3> QED
      OBVIOUS
  <2> HIDE DEF U, S, L, At1
  <2> QED
    BY <2>1, <2>2, <2>3, <2>4
<1> HIDE DEF At1
<1>6. (\E l \in Links : \E i \in At1(l) : x = <<l, i>>) <=>
              \/ HasCipher(DG) /\ x = <<<<iiot_fd, Gateway>>, Len(DG)>>
              \/ HasCipher(GD) /\ x = <<<<Gateway, iiot_fd>>, Len(GD)>>
              \/ HasCipher(EG) /\ x = <<<<Enclave, Gateway>>, Len(EG)>>
              \/ HasCipher(GE) /\ x = <<<<Gateway, Enclave>>, Len(GE)>>
  <2>1. ASSUME NEW l \in Links, NEW i \in At1(l), x = <<l, i>>
        PROVE  \/ HasCipher(DG) /\ x = <<<<iiot_fd, Gateway>>, Len(DG)>>
               \/ HasCipher(GD) /\ x = <<<<Gateway, iiot_fd>>, Len(GD)>>
               \/ HasCipher(EG) /\ x = <<<<Enclave, Gateway>>, Len(EG)>>
               \/ HasCipher(GE) /\ x = <<<<Gateway, Enclave>>, Len(GE)>>
    <3>1. \/ l = <<iiot_fd, Gateway>> \/ l = <<Gateway, iiot_fd>>
          \/ l = <<Enclave, Gateway>> \/ l = <<Gateway, Enclave>>
      <4>1. PICK p \in Procs : p # Gateway /\ (l = <<p, Gateway>> \/ l = <<Gateway, p>>)
        BY DEF Links
      <4>2. p = Enclave \/ p = iiot_fd
        BY <1>3, <2>1, <4>1 DEF Procs
      <4> QED
        BY <4>1, <4>2
    <3> QED
      BY <1>2, <2>1, <3>1
  <2>2. /\ <<iiot_fd, Gateway>> \in Links /\ <<Gateway, iiot_fd>> \in Links
        /\ <<Enclave, Gateway>> \in Links /\ <<Gateway, Enclave>> \in Links
    BY <1>1, LinkFacts
  <2>3. /\ HasCipher(DG) => Len(DG) \in At1(<<iiot_fd, Gateway>>)
        /\ HasCipher(GD) => Len(GD) \in At1(<<Gateway, iiot_fd>>)
        /\ HasCipher(EG) => Len(EG) \in At1(<<Enclave, Gateway>>)
        /\ HasCipher(GE) => Len(GE) \in At1(<<Gateway, Enclave>>)
    BY <1>2
  <2> QED
    BY <2>1, <2>2, <2>3
<1> QED
  BY <1>4, <1>5, <1>6

\* While nobody of a session has exited, exactly one message is on its way round when the
\* device waits in request_offload, and none when it does not.
THEOREM AlwaysOneInFlight == Spec => []OneInFlight
<1>1. ASSUME OffInv, iiot_fd # NULL, \A p \in Session : ~ Exited(p)
      PROVE  Cardinality(InFlight) = (IF pc[iiot_fd] = "recv_response" THEN 1 ELSE 0)
  <2>1. pc[Gateway] # "exited" /\ pc[Enclave] # "exited" /\ pc[iiot_fd] # "exited"
    BY <1>1 DEF Session, Exited
  <2>2. InSession /\ Token
    BY <1>1 DEF OffInv, InSession
  <2>3. CASE pc[iiot_fd] # "recv_response"
    <3>1. /\ ~ HasCipher(DG) /\ ~ HasCipher(GD) /\ ~ HasCipher(EG) /\ ~ HasCipher(GE)
          /\ pc[Gateway] \notin {"send_request", "send_response"} /\ pc[Enclave] # "send_response"
      BY <2>1, <2>2, <2>3 DEF Token, Going, Coming, Count
    <3>2. \A x : x \notin InFlight
      BY <1>1, <3>1, Places
    <3>3. InFlight = {}
      BY <3>2
    <3> QED
      BY <2>3, <3>3, FS_EmptySet
  <2>4. CASE pc[iiot_fd] = "recv_response"
    <3>1. Going + Coming = 1
      BY <2>1, <2>2, <2>4 DEF Token
    <3>2. \E y : InFlight = {y}
      <4>1. CASE HasCipher(DG)
        <5> DEFINE y == <<<<iiot_fd, Gateway>>, Len(DG)>>
        <5>1. \A x : x \in InFlight <=> x = y
          <6>1. /\ ~ HasCipher(GD) /\ ~ HasCipher(EG) /\ ~ HasCipher(GE)
                /\ pc[Gateway] \notin {"send_request", "send_response"} /\ pc[Enclave] # "send_response"
            BY <3>1, <4>1 DEF Going, Coming, Count
          <6> QED
            BY <1>1, <4>1, <6>1, Places
        <5> HIDE DEF y
        <5>2. InFlight = {y}
          BY <5>1
        <5> QED
          BY <5>2
      <4>2. CASE HasCipher(GD)
        <5> DEFINE y == <<<<Gateway, iiot_fd>>, Len(GD)>>
        <5>1. \A x : x \in InFlight <=> x = y
          <6>1. /\ ~ HasCipher(DG) /\ ~ HasCipher(EG) /\ ~ HasCipher(GE)
                /\ pc[Gateway] \notin {"send_request", "send_response"} /\ pc[Enclave] # "send_response"
            BY <3>1, <4>2 DEF Going, Coming, Count
          <6> QED
            BY <1>1, <4>2, <6>1, Places
        <5> HIDE DEF y
        <5>2. InFlight = {y}
          BY <5>1
        <5> QED
          BY <5>2
      <4>3. CASE HasCipher(EG)
        <5> DEFINE y == <<<<Enclave, Gateway>>, Len(EG)>>
        <5>1. \A x : x \in InFlight <=> x = y
          <6>1. /\ ~ HasCipher(DG) /\ ~ HasCipher(GD) /\ ~ HasCipher(GE)
                /\ pc[Gateway] \notin {"send_request", "send_response"} /\ pc[Enclave] # "send_response"
            BY <3>1, <4>3 DEF Going, Coming, Count
          <6> QED
            BY <1>1, <4>3, <6>1, Places
        <5> HIDE DEF y
        <5>2. InFlight = {y}
          BY <5>1
        <5> QED
          BY <5>2
      <4>4. CASE HasCipher(GE)
        <5> DEFINE y == <<<<Gateway, Enclave>>, Len(GE)>>
        <5>1. \A x : x \in InFlight <=> x = y
          <6>1. /\ ~ HasCipher(DG) /\ ~ HasCipher(GD) /\ ~ HasCipher(EG)
                /\ pc[Gateway] \notin {"send_request", "send_response"} /\ pc[Enclave] # "send_response"
            BY <3>1, <4>4 DEF Going, Coming, Count
          <6> QED
            BY <1>1, <4>4, <6>1, Places
        <5> HIDE DEF y
        <5>2. InFlight = {y}
          BY <5>1
        <5> QED
          BY <5>2
      <4>5. CASE pc[Gateway] \in {"send_request", "send_response"}
        <5>1. \A x : x \in InFlight <=> x = Gateway
          <6>1. /\ ~ HasCipher(DG) /\ ~ HasCipher(GD) /\ ~ HasCipher(EG) /\ ~ HasCipher(GE)
                /\ pc[Enclave] # "send_response"
            BY <3>1, <4>5 DEF Going, Coming, Count
          <6> QED
            BY <1>1, <4>5, <6>1, Places
        <5> QED
          BY <5>1
      <4>6. CASE pc[Enclave] = "send_response"
        <5>1. \A x : x \in InFlight <=> x = Enclave
          <6>1. /\ ~ HasCipher(DG) /\ ~ HasCipher(GD) /\ ~ HasCipher(EG) /\ ~ HasCipher(GE)
                /\ pc[Gateway] \notin {"send_request", "send_response"}
            BY <3>1, <4>6 DEF Going, Coming, Count
          <6> QED
            BY <1>1, <4>6, <6>1, Places
        <5> QED
          BY <5>1
      <4>7. \/ HasCipher(DG) \/ HasCipher(GD) \/ HasCipher(EG) \/ HasCipher(GE)
            \/ pc[Gateway] \in {"send_request", "send_response"} \/ pc[Enclave] = "send_response"
        BY <3>1 DEF Going, Coming, Count
      <4> QED
        BY <4>1, <4>2, <4>3, <4>4, <4>5, <4>6, <4>7
    <3> QED
      BY <2>4, <3>2, FS_Singleton
  <2> QED
    BY <2>3, <2>4
<1>2. OffInv => OneInFlight
  BY <1>1 DEF OneInFlight
<1> QED
  BY <1>2, OffloadInv, PTL

-----------------------------------------------------------------------------
(* Answers and exits                                                       *)

\* A step of a process moves no other, and Reset moves none.
LEMMA GatewayMoves ==
    ASSUME TypeOK, GatewayStep, NEW q \in Procs, q # Gateway
    PROVE  pc'[q] = pc[q]
<1>1. CASE ListenEnclave \/ AcceptEnclave \/ AcceptIiotDevice \/ RecvFails(Gateway)
  BY <1>1 DEF TypeOK, ListenEnclave, AcceptEnclave, AcceptIiotDevice, RecvFails, Exit, At
<1>2. CASE RecvEnclaveAttsdoc \/ SendEnclaveAttsdoc
  BY <1>2 DEF TypeOK, RecvEnclaveAttsdoc, SendEnclaveAttsdoc, Recv, Send, Exit, At
<1>3. CASE RelayIiotPubkey \/ DoRelayOffload
  BY <1>3 DEF TypeOK, RelayIiotPubkey, DoRelayOffload, RelayIn, RelayOut, Recv, Send, Exit, At
<1> QED
  BY <1>1, <1>2, <1>3 DEF GatewayStep

\* A step of the enclave moves nobody else.
LEMMA EnclaveMoves ==
    ASSUME TypeOK, EnclaveStep, NEW q \in Procs, q # Enclave
    PROVE  pc'[q] = pc[q]
<1>1. CASE EnclaveConnect \/ EnclaveAttest \/ RecvFails(Enclave)
  BY <1>1 DEF TypeOK, EnclaveConnect, EnclaveAttest, RecvFails, Send, Exit, At
<1>2. CASE RecvIiotPubkey \/ RecvRequest \/ SendResponse
  BY <1>2 DEF TypeOK, RecvIiotPubkey, RecvRequest, SendResponse, Recv, Send, Exit, At
<1> QED
  BY <1>1, <1>2 DEF EnclaveStep

\* A step of a device moves nobody else.
LEMMA DeviceMoves ==
    ASSUME TypeOK, NEW d \in Devices, DeviceStep(d), NEW q \in Procs, q # d
    PROVE  pc'[q] = pc[q]
<1>1. CASE DeviceConnect(d) \/ RunLocally(d) \/ Sleep(d) \/ RecvFails(d)
  BY <1>1 DEF TypeOK, DeviceConnect, RunLocally, Sleep, RecvFails, Exit, At
<1>2. CASE RecvAttsdoc(d) \/ RecvResponse(d)
  BY <1>2 DEF TypeOK, RecvAttsdoc, RecvResponse, Recv, At
<1>3. CASE SendIiotPubkey(d) \/ RequestOffload(d)
  BY <1>3 DEF TypeOK, SendIiotPubkey, RequestOffload, Send, Exit, At
<1> QED
  BY <1>1, <1>2, <1>3 DEF DeviceStep

\* request_offload returns the answer to its own request: the counters of device and enclave
\* never drift apart, however often the numbers wrap.
THEOREM AlwaysAnswersTheRequest == Spec => AnswersTheRequest
<1> DEFINE Right == \A d \in Devices :
                       (pc[d] = "recv_response" /\ pc'[d] = "sleep")
                           => data_out'[d] = IF mykey[d] = NULL THEN NULL ELSE Before(n_offloads[d])
<1>1. OffInv /\ [Next]_vars => [Right]_vars
  <2> SUFFICES ASSUME OffInv, Next, NEW d \in Devices, pc[d] = "recv_response", pc'[d] = "sleep"
               PROVE  data_out'[d] = IF mykey[d] = NULL THEN NULL ELSE Before(n_offloads[d])
    OBVIOUS
  <2>1. TypeOK /\ d \in Procs /\ d # Gateway /\ d # Enclave
    BY LinkFacts DEF OffInv
  <2>2. RecvResponse(d)
    <3>1. CASE GatewayStep
      BY <2>1, <3>1, GatewayMoves
    <3>2. CASE EnclaveStep
      BY <2>1, <3>2, EnclaveMoves
    <3>3. ASSUME NEW e \in Devices, DeviceStep(e)
          PROVE  RecvResponse(d)
      <4>1. e = d
        BY <2>1, <3>3, DeviceMoves
      <4>2. ~ RecvFails(d)
        <5>1. RecvFails(d) => pc'[d] = "exited"
          BY <2>1 DEF RecvFails, Exit, At, TypeOK
        <5> QED
          BY <5>1
      <4> QED
        BY <3>3, <4>1, <4>2 DEF DeviceStep, DeviceConnect, RecvAttsdoc, SendIiotPubkey, RunLocally,
                                RequestOffload, Sleep
    <3>4. ASSUME NEW p \in Procs, Kill(p)
          PROVE  FALSE
      BY <2>1, <3>4 DEF Kill, Exit, At, TypeOK
    <3>5. ASSUME NEW l \in Links, Reset(l[1], l[2])
          PROVE  FALSE
      BY <3>5 DEF Reset
    <3> QED
      BY <3>1, <3>2, <3>3, <3>4, <3>5 DEF Next
  <2>3. d = iiot_fd /\ iiot_fd # NULL
    BY OnlyAccepted
  <2> QED
    BY <2>2, <2>3, DeviceGetsResponse
<1> QED
  BY <1>1, OffloadInv, PTL DEF Spec, AnswersTheRequest

\* The error exits of the gateway: a peer has exited.
LEMMA GatewayStays ==
    ASSUME OffInv, GatewayStep, iiot_fd # NULL, pc[Enclave] # "exited", pc[iiot_fd] # "exited"
    PROVE  pc'[Gateway] # "exited"
<1>1. TypeOK /\ Gateway \in Procs
  BY DEF OffInv, Procs
<1>2. CASE ListenEnclave \/ AcceptEnclave \/ AcceptIiotDevice
  BY <1>1, <1>2 DEF TypeOK, ListenEnclave, AcceptEnclave, AcceptIiotDevice, At
<1>3. CASE RecvEnclaveAttsdoc \/ SendEnclaveAttsdoc
  BY <1>1, <1>3 DEF TypeOK, RecvEnclaveAttsdoc, SendEnclaveAttsdoc, Recv, Send, Exited, At
<1>4. CASE RelayIiotPubkey \/ DoRelayOffload
  BY <1>1, <1>4 DEF TypeOK, RelayIiotPubkey, DoRelayOffload, RelayIn, RelayOut, Recv, Send, Exited, At
<1>5. CASE RecvFails(Gateway)
  <2>1. Source(Gateway) \in {Enclave, iiot_fd, NULL}
    BY DEF Source
  <2> QED
    BY <1>5, <2>1 DEF RecvFails, Exited
<1> QED
  BY <1>2, <1>3, <1>4, <1>5 DEF GatewayStep

\* The error exits of the enclave: the gateway has exited, or the request is empty.
LEMMA EnclaveStays ==
    ASSUME OffInv, EnclaveStep, iiot_fd # NULL, pc[Gateway] # "exited", attsdoc_buf.body = "good"
    PROVE  pc'[Enclave] # "exited"
<1>1. TypeOK /\ Enclave \in Procs /\ Enclave # Gateway
  BY ProcessesAssumption DEF OffInv, Procs
<1>2. CASE EnclaveConnect \/ EnclaveAttest
  BY <1>2 DEF EnclaveConnect, EnclaveAttest, OffInv, InSession, Points
<1>3. CASE RecvIiotPubkey
  BY <1>1, <1>3 DEF TypeOK, RecvIiotPubkey, Recv, At
<1>4. CASE RecvRequest
  BY <1>4, EnclaveGetsRequest
<1>5. CASE SendResponse
  BY <1>1, <1>5 DEF TypeOK, SendResponse, Send, Exited, At
<1>6. CASE RecvFails(Enclave)
  <2>1. Source(Enclave) \in {Gateway, NULL}
    BY <1>1 DEF Source
  <2> QED
    BY <1>6, <2>1 DEF RecvFails, Exited
<1> QED
  BY <1>2, <1>3, <1>4, <1>5, <1>6 DEF EnclaveStep

\* The error exits of the device: the gateway has exited, or the document is invalid.
LEMMA DeviceStays ==
    ASSUME OffInv, iiot_fd # NULL, DeviceStep(iiot_fd), pc[Gateway] # "exited", attsdoc_buf.body = "good"
    PROVE  pc'[iiot_fd] # "exited"
<1>1. TypeOK /\ iiot_fd \in Procs /\ iiot_fd # Gateway /\ iiot_fd \in Devices
  BY SessionStart, LinkFacts DEF Procs
<1>2. CASE DeviceConnect(iiot_fd)
  BY <1>2 DEF DeviceConnect, OffInv, InSession, Points
<1>3. CASE RecvAttsdoc(iiot_fd)
  BY <1>3, DeviceGetsDocument
<1>4. CASE RunLocally(iiot_fd) \/ Sleep(iiot_fd) \/ RecvResponse(iiot_fd)
  BY <1>1, <1>4 DEF TypeOK, RunLocally, Sleep, RecvResponse, Recv, At
<1>5. CASE SendIiotPubkey(iiot_fd) \/ RequestOffload(iiot_fd)
  BY <1>1, <1>5 DEF TypeOK, SendIiotPubkey, RequestOffload, Send, Exited, At
<1>6. CASE RecvFails(iiot_fd)
  <2>1. Source(iiot_fd) \in {Gateway, NULL}
    BY <1>1 DEF Source
  <2> QED
    BY <1>6, <2>1 DEF RecvFails, Exited
<1> QED
  BY <1>2, <1>3, <1>4, <1>5, <1>6 DEF DeviceStep

\* A session with a good document ends only by a kill: none of the error exits of the three
\* programs is taken while nobody of it has exited.
THEOREM SessionAlwaysLasts == Spec => SessionLasts
<1> DEFINE Lasts == (/\ iiot_fd # NULL /\ attsdoc_buf.body = "good"
                     /\ \A p \in Session : ~ Exited(p))
                       => \/ \A p \in Session : pc'[p] # "exited"
                          \/ \E p \in Session : Kill(p)
<1>1. OffInv /\ [Next]_vars => [Lasts]_vars
  <2> SUFFICES ASSUME OffInv, Next, iiot_fd # NULL, attsdoc_buf.body = "good",
                      \A p \in Session : ~ Exited(p),
                      \A p \in Session : ~ Kill(p)
               PROVE  \A p \in Session : pc'[p] # "exited"
    OBVIOUS
  <2>1. /\ pc[Gateway] # "exited" /\ pc[Enclave] # "exited" /\ pc[iiot_fd] # "exited"
        /\ TypeOK /\ iiot_fd \in Devices /\ Session \subseteq Procs
        /\ Gateway # Enclave /\ iiot_fd # Gateway /\ iiot_fd # Enclave
    <3>1. TypeOK /\ iiot_fd \in Devices
      BY SessionStart
    <3> QED
      BY <3>1, LinkFacts DEF Session, Exited
  <2>2. CASE GatewayStep
    BY <2>1, <2>2, GatewayMoves, GatewayStays DEF Session
  <2>3. CASE EnclaveStep
    BY <2>1, <2>3, EnclaveMoves, EnclaveStays DEF Session
  <2>4. ASSUME NEW d \in Devices, DeviceStep(d)
        PROVE  \A p \in Session : pc'[p] # "exited"
    <3>1. d = iiot_fd => pc'[iiot_fd] # "exited"
      BY <2>1, <2>4, DeviceStays
    <3>2. \A q \in Session : q # d => pc'[q] = pc[q]
      BY <2>1, <2>4, DeviceMoves
    <3> QED
      BY <2>1, <3>1, <3>2, ProcessesAssumption DEF Session
  <2>5. ASSUME NEW p \in Procs, Kill(p)
        PROVE  \A q \in Session : pc'[q] # "exited"
    <3>1. p \notin Session
      BY <2>5
    <3>2. \A q \in Procs : q # p => pc'[q] = pc[q]
      BY <2>1, <2>5 DEF Kill, Exit, At, TypeOK
    <3> QED
      BY <2>1, <3>1, <3>2 DEF Session
  <2>6. ASSUME NEW l \in Links, Reset(l[1], l[2])
        PROVE  \A p \in Session : pc'[p] # "exited"
    BY <2>1, <2>6 DEF Reset, Session
  <2> QED
    BY <2>2, <2>3, <2>4, <2>5, <2>6 DEF Next
<1> QED
  BY <1>1, OffloadInv, PTL DEF Spec, SessionLasts

=============================================================================
