--------------------------- MODULE SecureOffload ---------------------------
(***************************************************************************)
(* The offloading prototype of secure_sgx: an enclave, a gateway and IIoT  *)
(* devices, each a sequential process.  The enclave connects to the        *)
(* gateway and sends its attestation document; only then does the gateway  *)
(* listen for devices.  It accepts one, hands it the document, relays the  *)
(* device's public key, and then relays requests and responses, one at a   *)
(* time, for ever.  Nobody ever closes a connection but by exiting, and    *)
(* every error is an exit.                                                 *)
(*                                                                         *)
(* send_len_data and recv_len_data move whole length-prefixed messages, so *)
(* that a connection is a FIFO queue of messages in each direction.        *)
(***************************************************************************)
EXTENDS Integers, Sequences, SequencesExt, FiniteSets

CONSTANTS Gateway, Enclave, Devices, NULL,
          BACKLOG,       \* the argument of listen
          NumberRange,   \* n_offloads and n_response wrap at this number
          Faulty,        \* the processes that may be killed
          Documents,     \* the documents the attestation library may return
          KeygenFails    \* whether the device's key generation may fail

Procs == Devices \cup {Gateway, Enclave}

\* What validate_attsdoc finds in a document.
DocumentKinds == {"good", "no_public_key", "invalid"}

ASSUME ProcessesAssumption ==
    /\ Gateway # Enclave
    /\ Gateway \notin Devices /\ Enclave \notin Devices
    /\ NULL \notin Procs
    /\ Devices # {}
ASSUME OffloadAssumption ==
    /\ BACKLOG \in Nat
    /\ NumberRange \in Nat \ {0, 1}
    /\ Faulty \subseteq Procs
    /\ Documents \subseteq DocumentKinds
    /\ KeygenFails \in BOOLEAN

VARIABLES pc,              \* where each process is
          chan,            \* the messages under way from one process to another
          connected,       \* the processes whose connect has succeeded
          backlog,         \* the devices that wait to be accepted
          attsdoc_buf,     \* gateway: the document
          buf,             \* gateway: the message it relays
          iiot_fd,         \* gateway: the device it has accepted
          pubkey_iiot,     \* enclave: the device's public key
          encrypted,       \* enclave: the request it has received
          n_response,      \* enclave
          pubkey_enclave,  \* device: the key it found in the document
          mykey,           \* device: its key pair
          n_offloads,      \* device
          data_out         \* device: what it decrypted last

net == <<chan, connected, backlog>>
gateway_vars == <<attsdoc_buf, buf, iiot_fd>>
enclave_vars == <<pubkey_iiot, encrypted, n_response>>
device_vars == <<pubkey_enclave, mykey, n_offloads, data_out>>
vars == <<pc, chan, connected, backlog, attsdoc_buf, buf, iiot_fd, pubkey_iiot, encrypted,
          n_response, pubkey_enclave, mykey, n_offloads, data_out>>

-----------------------------------------------------------------------------
(* Messages: a key is named by the process that has its private half.      *)

Numbers == 0..(NumberRange - 1)
After(n) == (n + 1) % NumberRange
Before(n) == (n - 1) % NumberRange

Attsdoc(doc) == [kind |-> "attsdoc", for |-> NULL, body |-> doc, len |-> 5000]
Pubkey(k) == [kind |-> "pubkey", for |-> k, body |-> NULL, len |-> IF k = NULL THEN 0 ELSE 451]

\* EVP_PKEY_encrypt with 2048-bit RSA: without a key it fails, and the length stays 0.
Encrypt(k, n) ==
    IF k = NULL THEN [kind |-> "cipher", for |-> NULL, body |-> NULL, len |-> 0]
                ELSE [kind |-> "cipher", for |-> k, body |-> n, len |-> 256]

\* EVP_PKEY_decrypt: with another key than the one it was encrypted for, or none,
\* nothing is written to the zeroed buffer.
Decrypt(k, m) == IF k # NULL /\ m.for = k THEN m.body ELSE NULL

Messages ==
    {Attsdoc(doc) : doc \in DocumentKinds}
    \cup {Pubkey(k) : k \in Devices \cup {NULL}}
    \cup {Encrypt(k, n) : k \in Procs \cup {NULL}, n \in Numbers}

ASSUME NullAssumption == NULL \notin Messages

Links == {<<p, Gateway>> : p \in Procs \ {Gateway}} \cup {<<Gateway, p>> : p \in Procs \ {Gateway}}

Exited(p) == pc[p] = "exited"
At(p, l) == pc' = [pc EXCEPT ![p] = l]
Exit(p) == At(p, "exited")

\* send_len_data: once the other end has exited, the bytes are lost or the write
\* fails (an error or SIGPIPE), which ends the process.
Send(p, q, m, l) ==
    \/ /\ ~ Exited(q)
       /\ chan' = [chan EXCEPT ![<<p, q>>] = Append(@, m)]
       /\ At(p, l)
    \/ /\ Exited(q)
       /\ At(p, l) \/ Exit(p)
       /\ UNCHANGED chan

\* recv_len_data: a whole message ...
Recv(p, q, l) ==
    /\ chan[<<q, p>>] # <<>>
    /\ chan' = [chan EXCEPT ![<<q, p>>] = Tail(@)]
    /\ At(p, l)

Received(p, q) == Head(chan[<<q, p>>])

\* Whom a process that waits in recv_len_data reads from, and the size of its buffer.
Source(p) ==
    CASE p # Gateway /\ pc[p] \in {"recv_attsdoc", "recv_pubkey", "recv_request", "recv_response"} -> Gateway
      [] p = Gateway /\ pc[p] \in {"recv_attsdoc", "recv_response"} -> Enclave
      [] p = Gateway /\ pc[p] \in {"recv_pubkey", "recv_request"} -> iiot_fd
      [] OTHER -> NULL

Capacity(p) ==
    IF pc[p] = "recv_attsdoc" THEN 8192
    ELSE IF p = Gateway THEN 1024
    ELSE IF p = Enclave /\ pc[p] = "recv_pubkey" THEN 4096
    ELSE 512

\* Mutated form: a read of 0 bytes is not taken for an error, and the loop goes on.
RecvFailsIgnoringEof(p) ==
    /\ Source(p) # NULL
    /\ Exited(Source(p))
    /\ chan[<<Source(p), p>>] = <<>>
    /\ UNCHANGED vars

\* ... or exit(3) when there is none and the other end has exited
RecvFails(p) ==
    /\ Source(p) # NULL
    /\ Exited(Source(p))
    /\ chan[<<Source(p), p>>] = <<>>
    /\ Exit(p)
    /\ UNCHANGED <<net, gateway_vars, enclave_vars, device_vars>>

-----------------------------------------------------------------------------
Init ==
    /\ pc = [p \in Procs |-> "start"]
    /\ chan = [l \in Links |-> <<>>]
    /\ connected = {} /\ backlog = <<>>
    /\ attsdoc_buf = NULL /\ buf = NULL /\ iiot_fd = NULL
    /\ pubkey_iiot = NULL /\ encrypted = NULL /\ n_response = 0
    /\ pubkey_enclave = [d \in Devices |-> NULL]
    /\ mykey = [d \in Devices |-> NULL]
    /\ n_offloads = [d \in Devices |-> 0]
    /\ data_out = [d \in Devices |-> NULL]

-----------------------------------------------------------------------------
(* gateway.c                                                               *)

\* accept_enclave: socket, bind and listen
ListenEnclave ==
    /\ pc[Gateway] = "start"
    /\ At(Gateway, "accept_enclave")
    /\ UNCHANGED <<net, gateway_vars, enclave_vars, device_vars>>

\* Mutated form: accept_enclave does not wait for the document.
AcceptEnclaveOnly ==
    /\ pc[Gateway] = "accept_enclave"
    /\ Enclave \in connected
    /\ At(Gateway, "accept_iiot")
    /\ UNCHANGED <<net, gateway_vars, enclave_vars, device_vars>>

AcceptEnclave ==
    /\ pc[Gateway] = "accept_enclave"
    /\ Enclave \in connected
    /\ At(Gateway, "recv_attsdoc")
    /\ UNCHANGED <<net, gateway_vars, enclave_vars, device_vars>>

\* recv_enclave_attsdoc, after which accept_iiot_device listens
RecvEnclaveAttsdoc ==
    /\ pc[Gateway] = "recv_attsdoc"
    /\ Recv(Gateway, Enclave, "accept_iiot")
    /\ attsdoc_buf' = Received(Gateway, Enclave)
    /\ UNCHANGED <<connected, backlog, buf, iiot_fd, enclave_vars, device_vars>>

\* The IIoT port is open from then on, and stays open.
Listening == pc[Gateway] \notin {"start", "accept_enclave", "recv_attsdoc", "exited"}

AcceptIiotDevice ==
    /\ pc[Gateway] = "accept_iiot"
    /\ backlog # <<>>
    /\ iiot_fd' = Head(backlog)
    /\ backlog' = Tail(backlog)
    /\ At(Gateway, "send_attsdoc")
    /\ UNCHANGED <<chan, connected, attsdoc_buf, buf, enclave_vars, device_vars>>

\* Mutated form: the device's public key is not relayed.
SendEnclaveAttsdocSkippingKey ==
    /\ pc[Gateway] = "send_attsdoc"
    /\ Send(Gateway, iiot_fd, attsdoc_buf, "recv_request")
    /\ UNCHANGED <<connected, backlog, gateway_vars, enclave_vars, device_vars>>

SendEnclaveAttsdoc ==
    /\ pc[Gateway] = "send_attsdoc"
    /\ Send(Gateway, iiot_fd, attsdoc_buf, "recv_pubkey")
    /\ UNCHANGED <<connected, backlog, gateway_vars, enclave_vars, device_vars>>

\* relay_iiot_pubkey and do_relay_offload: a message is received into buf ...
RelayIn(at, from, l) ==
    /\ pc[Gateway] = at
    /\ Recv(Gateway, from, l)
    /\ buf' = Received(Gateway, from)
    /\ UNCHANGED <<connected, backlog, attsdoc_buf, iiot_fd, enclave_vars, device_vars>>

\* ... and sent on.
RelayOut(at, to, l) ==
    /\ pc[Gateway] = at
    /\ Send(Gateway, to, buf, l)
    /\ UNCHANGED <<connected, backlog, gateway_vars, enclave_vars, device_vars>>

RelayIiotPubkey ==
    \/ RelayIn("recv_pubkey", iiot_fd, "send_pubkey")
    \/ RelayOut("send_pubkey", Enclave, "recv_request")

\* Mutated form: the request is sent on, but no response is read.
RelayOffloadOneWay ==
    \/ RelayIn("recv_request", iiot_fd, "send_request")
    \/ RelayOut("send_request", Enclave, "recv_request")

DoRelayOffload ==
    \/ RelayIn("recv_request", iiot_fd, "send_request")
    \/ RelayOut("send_request", Enclave, "recv_response")
    \/ RelayIn("recv_response", Enclave, "send_response")
    \/ RelayOut("send_response", iiot_fd, "recv_request")

GatewayStep ==
    \/ ListenEnclave \/ AcceptEnclave \/ RecvEnclaveAttsdoc
    \/ AcceptIiotDevice \/ SendEnclaveAttsdoc
    \/ RelayIiotPubkey \/ DoRelayOffload
    \/ RecvFails(Gateway)

-----------------------------------------------------------------------------
(* enclave.c                                                               *)

\* main: the key pair, then connect_gateway, which needs a listening gateway; exit(1)
\* when either fails
EnclaveConnect ==
    /\ pc[Enclave] = "start"
    /\ \/ /\ pc[Gateway] \notin {"start", "exited"}
          /\ At(Enclave, "attest")
          /\ connected' = connected \cup {Enclave}
       \/ Exit(Enclave) /\ UNCHANGED connected
    /\ UNCHANGED <<chan, backlog, gateway_vars, enclave_vars, device_vars>>

\* get_attsdoc (exit(1) when the library fails) and send_attsdoc
EnclaveAttest ==
    /\ pc[Enclave] = "attest"
    /\ \/ \E doc \in Documents : Send(Enclave, Gateway, Attsdoc(doc), "recv_pubkey")
       \/ Exit(Enclave) /\ UNCHANGED chan
    /\ UNCHANGED <<connected, backlog, gateway_vars, enclave_vars, device_vars>>

\* recv_iiot_pubkey; run_service_offload then formats its first message
RecvIiotPubkey ==
    /\ pc[Enclave] = "recv_pubkey"
    /\ Recv(Enclave, Gateway, "recv_request")
    /\ pubkey_iiot' = Received(Enclave, Gateway).for
    /\ n_response' = After(n_response)
    /\ UNCHANGED <<connected, backlog, gateway_vars, encrypted, device_vars>>

\* response_offload: the request; exit(2) when it is empty
RecvRequest ==
    /\ pc[Enclave] = "recv_request"
    /\ chan[<<Gateway, Enclave>>] # <<>>
    /\ Recv(Enclave, Gateway, IF Received(Enclave, Gateway).len = 0 THEN "exited" ELSE "send_response")
    /\ encrypted' = Received(Enclave, Gateway)
    /\ UNCHANGED <<connected, backlog, gateway_vars, pubkey_iiot, n_response, device_vars>>

\* Mutated form: the number is not taken for the next message.
SendResponseSameNumber ==
    /\ pc[Enclave] = "send_response"
    /\ Send(Enclave, Gateway,
            IF pubkey_iiot = NULL THEN encrypted ELSE Encrypt(pubkey_iiot, Before(n_response)),
            "recv_request")
    /\ UNCHANGED <<connected, backlog, gateway_vars, enclave_vars, device_vars>>

\* response_offload: the message formatted before the request came, encrypted for
\* the device; without a device key the encryption fails and the buffer still has
\* the request.  run_service_offload then formats the next message.
SendResponse ==
    /\ pc[Enclave] = "send_response"
    /\ Send(Enclave, Gateway,
            IF pubkey_iiot = NULL THEN encrypted ELSE Encrypt(pubkey_iiot, Before(n_response)),
            "recv_request")
    /\ n_response' = After(n_response)
    /\ UNCHANGED <<connected, backlog, gateway_vars, pubkey_iiot, encrypted, device_vars>>

EnclaveStep ==
    \/ EnclaveConnect \/ EnclaveAttest \/ RecvIiotPubkey \/ RecvRequest \/ SendResponse
    \/ RecvFails(Enclave)

-----------------------------------------------------------------------------
(* iiot_device.c                                                           *)

\* connect_gateway: the kernel completes the connection while there is room for it
\* to wait to be accepted; exit(1) when nobody listens or the wait times out
DeviceConnect(d) ==
    /\ pc[d] = "start"
    /\ \/ /\ Listening /\ Len(backlog) <= BACKLOG
          /\ At(d, "recv_attsdoc")
          /\ connected' = connected \cup {d}
          /\ backlog' = Append(backlog, d)
       \/ /\ ~ Listening \/ Len(backlog) > BACKLOG
          /\ Exit(d)
          /\ UNCHANGED <<connected, backlog>>
    /\ UNCHANGED <<chan, gateway_vars, enclave_vars, device_vars>>

\* Mutated form: whatever the document is, the device goes on.
ValidateNothing(doc) == "send_pubkey"

\* validate_attsdoc: exit(2) for a document that it cannot decode or whose signature
\* does not verify; a document without a usable public_key passes
ValidateAttsdoc(doc) == IF doc = "invalid" THEN "exited" ELSE "send_pubkey"

\* Mutated form: the key in the document is not kept.
RecvAttsdocNoKey(d) ==
    /\ pc[d] = "recv_attsdoc"
    /\ chan[<<Gateway, d>>] # <<>>
    /\ Recv(d, Gateway, ValidateAttsdoc(Received(d, Gateway).body))
    /\ UNCHANGED <<connected, backlog, gateway_vars, enclave_vars, device_vars>>

\* recv_attsdoc and validate_attsdoc
RecvAttsdoc(d) ==
    /\ pc[d] = "recv_attsdoc"
    /\ chan[<<Gateway, d>>] # <<>>
    /\ LET doc == Received(d, Gateway).body
       IN  /\ Recv(d, Gateway, ValidateAttsdoc(doc))
           /\ pubkey_enclave' = [pubkey_enclave EXCEPT ![d] = IF doc = "good" THEN Enclave ELSE NULL]
    /\ UNCHANGED <<connected, backlog, gateway_vars, enclave_vars, mykey, n_offloads, data_out>>

\* generate_rsa_keypair, unchecked, and send_iiot_pubkey
SendIiotPubkey(d) ==
    /\ pc[d] = "send_pubkey"
    /\ \E k \in {d} \cup (IF KeygenFails THEN {NULL} ELSE {}) :
          /\ mykey' = [mykey EXCEPT ![d] = k]
          /\ Send(d, Gateway, Pubkey(k), "period")
    /\ UNCHANGED <<connected, backlog, gateway_vars, enclave_vars, pubkey_enclave, n_offloads, data_out>>

\* run_iiot_emulation: need_offloading says no
RunLocally(d) ==
    /\ pc[d] = "period"
    /\ At(d, "sleep")
    /\ UNCHANGED <<net, gateway_vars, enclave_vars, device_vars>>

\* Mutated form: the device does not wait for the response.
RequestOffloadOnly(d) ==
    /\ pc[d] = "period"
    /\ n_offloads' = [n_offloads EXCEPT ![d] = After(@)]
    /\ Send(d, Gateway, Encrypt(pubkey_enclave[d], n_offloads[d]), "sleep")
    /\ UNCHANGED <<connected, backlog, gateway_vars, enclave_vars, pubkey_enclave, mykey, data_out>>

\* request_offload: the request
RequestOffload(d) ==
    /\ pc[d] = "period"
    /\ n_offloads' = [n_offloads EXCEPT ![d] = After(@)]
    /\ Send(d, Gateway, Encrypt(pubkey_enclave[d], n_offloads[d]), "recv_response")
    /\ UNCHANGED <<connected, backlog, gateway_vars, enclave_vars, pubkey_enclave, mykey, data_out>>

\* request_offload: the response
RecvResponse(d) ==
    /\ pc[d] = "recv_response"
    /\ Recv(d, Gateway, "sleep")
    /\ data_out' = [data_out EXCEPT ![d] = Decrypt(mykey[d], Received(d, Gateway))]
    /\ UNCHANGED <<connected, backlog, gateway_vars, enclave_vars, pubkey_enclave, mykey, n_offloads>>

Sleep(d) ==
    /\ pc[d] = "sleep"
    /\ At(d, "period")
    /\ UNCHANGED <<net, gateway_vars, enclave_vars, device_vars>>

DeviceStep(d) ==
    \/ DeviceConnect(d) \/ RecvAttsdoc(d) \/ SendIiotPubkey(d)
    \/ RunLocally(d) \/ RequestOffload(d) \/ RecvResponse(d) \/ Sleep(d)
    \/ RecvFails(d)

-----------------------------------------------------------------------------
\* A process is killed; the kernel of its host closes its connections.
Kill(p) ==
    /\ p \in Faulty /\ ~ Exited(p)
    /\ Exit(p)
    /\ UNCHANGED <<net, gateway_vars, enclave_vars, device_vars>>

\* A connection that is closed before everything has been read is reset: what the
\* process that exited had sent last never arrives.
Reset(p, q) ==
    /\ Exited(p)
    /\ chan[<<p, q>>] # <<>>
    /\ chan' = [chan EXCEPT ![<<p, q>>] = Front(@)]
    /\ UNCHANGED <<pc, connected, backlog, gateway_vars, enclave_vars, device_vars>>

Next ==
    \/ GatewayStep \/ EnclaveStep
    \/ \E d \in Devices : DeviceStep(d)
    \/ \E p \in Procs : Kill(p)
    \/ \E l \in Links : Reset(l[1], l[2])

\* Every process runs on its own; rand() % 2 gives both values again and again.
Fairness ==
    /\ WF_vars(GatewayStep)
    /\ WF_vars(EnclaveStep)
    /\ \A d \in Devices : WF_vars(DeviceStep(d)) /\ SF_vars(RequestOffload(d))

Spec == Init /\ [][Next]_vars /\ Fairness

-----------------------------------------------------------------------------
(* Properties                                                              *)

ProgramPoints ==
    {"start", "accept_enclave", "attest", "accept_iiot", "send_attsdoc", "recv_attsdoc",
     "send_pubkey", "recv_pubkey", "send_request", "recv_request", "send_response",
     "recv_response", "period", "sleep", "exited"}

\* Every variable has the shape of its C counterpart.
TypeOK ==
    /\ pc \in [Procs -> ProgramPoints]
    /\ chan \in [Links -> Seq(Messages)]
    /\ connected \subseteq Procs
    /\ backlog \in Seq(Devices)
    /\ attsdoc_buf \in Messages \cup {NULL} /\ buf \in Messages \cup {NULL}
    /\ iiot_fd \in Devices \cup {NULL}
    /\ pubkey_iiot \in Devices \cup {NULL}
    /\ encrypted \in Messages \cup {NULL}
    /\ n_response \in Numbers
    /\ pubkey_enclave \in [Devices -> {Enclave, NULL}]
    /\ mykey \in [Devices -> Devices \cup {NULL}]
    /\ n_offloads \in [Devices -> Numbers]
    /\ data_out \in [Devices -> Numbers \cup {NULL}]

ExpectedKind(p) ==
    CASE pc[p] = "recv_attsdoc" -> "attsdoc"
      [] pc[p] = "recv_pubkey" -> "pubkey"
      [] OTHER -> "cipher"

\* Messages carry no type, and recv_len_data ignores the size its caller passes: it
\* takes what comes next for what it expects, and writes as many bytes as the sender
\* announced.  The three programs stay in step: nobody ever takes a document for a
\* key, a key for a request, or a request for a document, and what is next fits in
\* the buffer of the call it will meet, though the document is larger than every
\* buffer but the two meant for it.
InStep ==
    \A p \in Procs :
        (Source(p) # NULL /\ chan[<<Source(p), p>>] # <<>>)
            => /\ Received(p, Source(p)).kind = ExpectedKind(p)
               /\ Received(p, Source(p)).len <= Capacity(p)

\* A device sends its key and its tasks only when the document that the gateway
\* holds is one that validate_attsdoc lets through, and only the device that the
\* gateway has accepted gets that far; other devices stay in recv_attsdoc.
AttestedFirst ==
    \A d \in Devices :
        pc[d] \in {"send_pubkey", "period", "recv_response", "sleep"}
            => /\ iiot_fd = d
               /\ attsdoc_buf # NULL /\ attsdoc_buf.body # "invalid"

\* The requests and responses that are somewhere between the device and itself, each
\* by the place where it is: a position in a queue, or a process about to send it.
InFlight ==
    (UNION {{<<l, i>> : i \in {j \in 1..Len(chan[l]) : chan[l][j].kind = "cipher"}} : l \in Links})
    \cup {p \in {Gateway, Enclave} : pc[p] \in {"send_request", "send_response"}}

Session == {Gateway, Enclave, iiot_fd}

\* While nobody of a session has exited, exactly one message is on its way round
\* when the device waits in request_offload, and none when it does not: requests
\* are neither lost nor answered twice, although nothing but the order of the
\* messages ties a response to its request.
OneInFlight ==
    (iiot_fd # NULL /\ \A p \in Session : ~ Exited(p))
        => Cardinality(InFlight) = (IF pc[iiot_fd] = "recv_response" THEN 1 ELSE 0)

\* The response that request_offload returns carries the number of its request:
\* n_offloads of the device and n_response of the enclave, two independent counters,
\* never drift apart.  Without a key pair the device decrypts nothing.
AnswersTheRequest ==
    [][\A d \in Devices :
          (pc[d] = "recv_response" /\ pc'[d] = "sleep")
              => data_out'[d] = IF mykey[d] = NULL THEN NULL ELSE Before(n_offloads[d])]_vars

\* request_offload returns, or the device exits: it never waits for ever, even when
\* the gateway or the enclave is killed at any point, or gets an empty request.
Answered ==
    \A d \in Devices : (pc[d] = "recv_response") ~> (pc[d] \in {"sleep", "exited"})

\* Nobody is left behind waiting: once one of gateway, enclave and accepted device
\* has exited, for whatever reason, everyone who ever connected exits.
Cascade ==
    (iiot_fd # NULL /\ \E p \in Session : Exited(p))
        ~> (\A p \in {Gateway} \cup connected : Exited(p))

\* A session with a good document ends only by a kill: as long as nobody of it has
\* exited, none of the error exits of the three programs is taken, whatever other
\* devices do and however often requests go round.
SessionLasts ==
    [][(/\ iiot_fd # NULL /\ attsdoc_buf.body = "good"
        /\ \A p \in Session : ~ Exited(p))
           => \/ \A p \in Session : pc'[p] # "exited"
              \/ \E p \in Session : Kill(p)]_vars

=============================================================================
