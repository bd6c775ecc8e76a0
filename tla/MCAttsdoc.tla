----------------------------- MODULE MCAttsdoc -----------------------------
(***************************************************************************)
(* The documents of the run: a signed one, every way to get its shape      *)
(* wrong, every header with every signature, and every payload of up to    *)
(* three entries with a few signatures.                                    *)
(***************************************************************************)
EXTENDS Attsdoc

Number(t, n) == [key |-> 1, type |-> t, n |-> n]

\* ES256, ES384, ES512, an algorithm nobody knows, ES256 as a number that wraps
\* around, no number at all, and a pair under another key.
Pairs ==
    {Number("negint", 6), Number("negint", 34), Number("negint", 35), Number("negint", 46),
     Number("negint", IntRange + 6), Number("uint", IntRange - 7), Number("other", 0),
     [key |-> 4, type |-> "negint", n |-> 6]}

Header(pairs, len) == [kind |-> "map", pairs |-> pairs, len |-> len]

Headers ==
    {Header(<<>>, 1)} \cup {Header(<<p>>, 4) : p \in Pairs}
    \cup {Header(<<p, q>>, 30) : p \in Pairs, q \in Pairs}
    \cup {[kind |-> "not_map", pairs |-> <<>>, len |-> 1]}

BadHeaders == {[kind |-> k, pairs |-> <<>>, len |-> 0] : k \in {"other", "empty", "garbage"}}

Entries ==
    [key : {"certificate", "cert"}, value : {"not_bytes", "empty", "garbage", "ec1", "rsa1"}]
    \cup [key : {"public_key"}, value : {"not_bytes", "empty", "garbage", "enclave"}]
    \cup {[key |-> "other", value |-> "ec1"], [key |-> "not_text", value |-> "enclave"]}

Payload(entries, len) == [kind |-> "map", entries |-> entries, len |-> len]

Payloads == {Payload(es, 200) : es \in BoundedSeq(Entries, 3)}
BadPayloads == {[kind |-> k, entries |-> <<>>, len |-> 0] : k \in {"null", "other", "garbage", "not_map"}}

Signature(by, over, digest, form, len) ==
    [kind |-> "bytes", by |-> by, over |-> over, digest |-> digest, form |-> form, len |-> len]

Signatures ==
    {Signature(by, over, digest, f[1], f[2]) :
        by \in {"ec1", "rsa1", "ec2"}, over \in {"sig_structure", "payload"},
        digest \in Digests \cup {"sha1"},
        f \in {<<"raw", 64>>, <<"raw", 96>>, <<"raw", 132>>, <<"der", 71>>, <<"der", 64>>, <<"pkcs1", 256>>}}

NoSignature == [Signature("ec1", "sig_structure", "sha384", "raw", 96) EXCEPT !.kind = "other"]

Document(top, items, header, payload, signature) ==
    [top |-> top, items |-> items, protected |-> header, payload |-> payload, signature |-> signature]

Es384 == Header(<<Number("negint", 34)>>, 4)
Nitro == Payload(<<[key |-> "certificate", value |-> "ec1"], [key |-> "public_key", value |-> "enclave"]>>, 4500)
Signed == Signature("ec1", "sig_structure", "sha384", "raw", 96)

MCDocuments ==
    {Document(top, items, Es384, Nitro, Signed) :
        top \in {"garbage", "tagged", "bare"}, items \in {0, 3, 4}}
    \cup {Document("tagged", 4, h, p, s) : h \in {Es384} \cup BadHeaders,
              p \in {Nitro, Payload(Nitro.entries, 300)} \cup BadPayloads, s \in {Signed, NoSignature}}
    \cup {Document("tagged", 4, h, Nitro, s) : h \in Headers, s \in Signatures}
    \cup {Document("bare", 4, Es384, p, s) : p \in Payloads,
              s \in {Signed, Signature("rsa1", "sig_structure", "sha256", "pkcs1", 256)}}

=============================================================================
