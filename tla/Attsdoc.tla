------------------------------ MODULE Attsdoc ------------------------------
(***************************************************************************)
(* validate_attsdoc of attsdoc.c: the checks a device makes on the         *)
(* attestation document before it trusts the key in it.  Each action is a  *)
(* stage of the function, up to the next point where it may exit(2).       *)
(*                                                                         *)
(* A document is what libcbor makes of its bytes; keys and certificates    *)
(* are named by their key pair, and a signature says who made it, over     *)
(* what, with which digest and in which form.                              *)
(*                                                                         *)
(* What is checked is that a document is intact: that the key of the       *)
(* certificate in it has signed its header and payload.  Who made it is    *)
(* not: ROOT_CA_CERT_PATH (attsdoc.c:10) is never used, and no measurement *)
(* of an enclave is compared, although README.md:5, :140 and :161 speak of *)
(* verifying the enclave.                                                  *)
(***************************************************************************)
EXTENDS Integers, Sequences, SequencesExt, FiniteSetsExt

CONSTANTS Documents,    \* the documents that may arrive
          EcKeys,       \* the elliptic-curve key pairs certificates are made for
          RsaKeys,      \* the others
          PublicKeys,   \* the public keys an enclave may put into a document
          IntRange,     \* how many values an int has
          LibraryFails, \* whether calls of libcbor, OpenSSL and malloc may fail
          NULL

Digests == {"sha256", "sha384", "sha512"}

\* What the value of an entry is when it is not a key or a certificate for one.
Oddities == {"not_bytes", "empty", "garbage"}

\* The header: the pairs of a map, a key that is not an integer among them as 0.
HeaderType ==
    [kind : {"map", "not_map", "other", "empty", "garbage"},
     pairs : Seq([key : Nat, type : {"negint", "uint", "other"}, n : Nat]),
     len : Nat]

PayloadType ==
    [kind : {"map", "not_map", "null", "other", "garbage"},
     entries : Seq([key : {"certificate", "cert", "public_key", "other", "not_text"},
                    value : EcKeys \cup RsaKeys \cup PublicKeys \cup Oddities]),
     len : Nat]

SignatureType ==
    [kind : {"bytes", "other"}, by : EcKeys \cup RsaKeys, over : {"sig_structure", "payload"},
     digest : Digests \cup {"sha1"}, form : {"raw", "der", "pkcs1"}, len : Nat]

DocumentType ==
    [top : {"garbage", "tagged", "bare"}, items : Nat, protected : HeaderType,
     payload : PayloadType, signature : SignatureType]

ASSUME AttsdocAssumption ==
    /\ IntRange \in Nat /\ IntRange > 72 /\ IntRange % 2 = 0
    /\ LibraryFails \in BOOLEAN
    /\ EcKeys \cap RsaKeys = {}
    /\ (EcKeys \cup RsaKeys) \cap ({NULL} \cup Oddities) = {}
    /\ NULL \notin Digests
    /\ Documents \subseteq DocumentType

VARIABLES doc,      \* the document
          pc,       \* the stage
          alg_id,
          cert,     \* cert_data
          md,       \* the digest the header asks for
          der_sig,  \* the form of the signature that is verified
          enclave_pubkey,
          failed    \* history: whether a library call has failed

vars == <<doc, pc, alg_id, cert, md, der_sig, enclave_pubkey, failed>>

Init ==
    /\ doc \in Documents
    /\ pc = "decode" /\ alg_id = -1 /\ cert = NULL /\ md = NULL /\ der_sig = NULL
    /\ enclave_pubkey = NULL /\ failed = FALSE

\* The function goes on when ok holds, and ends in exit(2) when it does not.
Stage(at, ok, l) ==
    /\ pc = at
    /\ pc' = IF ok THEN l ELSE "exited"

-----------------------------------------------------------------------------
\* cbor_load and the shape of COSE_Sign1: tagged or not, an array of four
Decode ==
    /\ Stage("decode",
             /\ doc.top \in {"tagged", "bare"}
             /\ doc.items = 4,
             "parts")
    /\ UNCHANGED <<doc, alg_id, cert, md, der_sig, enclave_pubkey, failed>>

\* The types of the four parts; the protected header must decode.
CheckParts ==
    /\ Stage("parts",
             /\ doc.protected.kind \in {"map", "not_map"}
             /\ doc.payload.kind # "other"
             /\ doc.signature.kind = "bytes",
             "alg")
    /\ UNCHANGED <<doc, alg_id, cert, md, der_sig, enclave_pubkey, failed>>

\* Mutated form: alg_id keeps all the bits of the number.
ToIntWide(n) == n

\* A 64-bit number of the document assigned to an int.
ToInt(n) == LET m == n % IntRange IN IF m < IntRange \div 2 THEN m ELSE m - IntRange

\* The first pair with key 1 has the algorithm; a negative integer -1 - n is stored
\* as n.  Anything else leaves -1.
AlgId(header) ==
    LET at == {i \in 1..Len(header.pairs) : header.pairs[i].key = 1}
    IN  IF header.kind = "not_map" \/ at = {} THEN -1
        ELSE LET value == header.pairs[Min(at)]
             IN  CASE value.type = "negint" -> ToInt(-1 - value.n)
                   [] value.type = "uint" -> ToInt(value.n)
                   [] OTHER -> -1

\* The algorithm, then the payload, which must be a CBOR map.
FindAlg ==
    /\ Stage("alg", doc.payload.kind = "map", "certificate")
    /\ alg_id' = AlgId(doc.protected)
    /\ UNCHANGED <<doc, cert, md, der_sig, enclave_pubkey, failed>>

\* The first entry of the payload under one of these names that holds a bytestring.
FirstBytes(keys) ==
    LET at == {i \in 1..Len(doc.payload.entries) :
                  /\ doc.payload.entries[i].key \in keys
                  /\ doc.payload.entries[i].value # "not_bytes"}
    IN  IF at = {} THEN NULL ELSE doc.payload.entries[Min(at)].value

\* The certificate; an empty one is taken for none, even when another one follows.
FindCertificate ==
    /\ LET found == FirstBytes({"certificate", "cert"})
       IN  /\ Stage("certificate", found \notin {NULL, "empty"}, "pubkey")
           /\ cert' = found
    /\ UNCHANGED <<doc, alg_id, md, der_sig, enclave_pubkey, failed>>

\* d2i_X509 and X509_get_pubkey
ExtractPubkey ==
    /\ Stage("pubkey", cert \in EcKeys \cup RsaKeys, "digest")
    /\ UNCHANGED <<doc, alg_id, cert, md, der_sig, enclave_pubkey, failed>>

\* The digest of the algorithm; EVP_DigestVerifyInit takes any of them.
ChooseDigest ==
    /\ Stage("digest", TRUE, "serialize")
    /\ md' = CASE alg_id = -7 -> "sha256"
               [] alg_id = -35 -> "sha384"
               [] alg_id = -36 -> "sha512"
               [] OTHER -> "sha384"
    /\ UNCHANGED <<doc, alg_id, cert, der_sig, enclave_pubkey, failed>>

-----------------------------------------------------------------------------
\* The bytes of a CBOR string of n bytes: its header, of 1 to 9 bytes, and itself.
CborLen(n) ==
    n + (CASE n < 24 -> 1
           [] n >= 24 /\ n < 256 -> 2
           [] n >= 256 /\ n < 65536 -> 3
           [] n >= 65536 /\ n < 65536 * 65536 -> 5
           [] OTHER -> 9)

\* Sig_structure: an array header, "Signature1", the header, no data, the payload
SigStructureLen(p, d) == 1 + CborLen(10) + CborLen(p) + CborLen(0) + CborLen(d)

EstimateSize(p, d) == p + d + 100

\* cbor_serialize returns 0 when the buffer is too small.
Serialize ==
    /\ Stage("serialize",
             SigStructureLen(doc.protected.len, doc.payload.len)
                 <= EstimateSize(doc.protected.len, doc.payload.len),
             "convert")
    /\ UNCHANGED <<doc, alg_id, cert, md, der_sig, enclave_pubkey, failed>>

\* A signature of an EC key whose length is that of r and s is converted to DER,
\* whatever it was.
ConvertSignature ==
    /\ Stage("convert", TRUE, "verify")
    /\ der_sig' = IF cert \in EcKeys /\ doc.signature.len \in {64, 96, 132}
                  THEN IF doc.signature.form = "raw" THEN "der" ELSE "mangled"
                  ELSE doc.signature.form
    /\ UNCHANGED <<doc, alg_id, cert, md, enclave_pubkey, failed>>

\* EVP_DigestVerifyFinal with the certificate's key, a digest and what was signed
Verifies(digest, over) ==
    /\ doc.signature.by = cert
    /\ doc.signature.over = over
    /\ doc.signature.digest = digest
    /\ der_sig = IF cert \in EcKeys THEN "der" ELSE "pkcs1"

\* The stage after an attempt with Sig_structure that failed.
NextAttempt(at) ==
    CASE at = "verify" -> "try_sha256"
      [] at = "try_sha256" -> "try_sha384"
      [] at = "try_sha384" -> "try_sha512"
      [] at = "try_sha512" -> "direct"

\* The digest of an attempt: first the one of the header, then each of the others.
AttemptDigest(at) ==
    CASE at = "verify" -> md
      [] at = "try_sha256" /\ md # "sha256" -> "sha256"
      [] at = "try_sha384" /\ md # "sha384" -> "sha384"
      [] at = "try_sha512" /\ md # "sha512" -> "sha512"
      [] OTHER -> NULL

\* An attempt over Sig_structure; without a digest of its own it is passed over.
Attempt(at) ==
    LET digest == AttemptDigest(at)
    IN  /\ Stage(at, TRUE, IF digest # NULL /\ Verifies(digest, "sig_structure")
                           THEN "public_key" ELSE NextAttempt(at))
        /\ UNCHANGED <<doc, alg_id, cert, md, der_sig, enclave_pubkey, failed>>

\* A call of OpenSSL fails within an attempt: it is taken for one that did not verify.
AttemptFails(at) ==
    /\ LibraryFails
    /\ AttemptDigest(at) # NULL
    /\ Stage(at, TRUE, NextAttempt(at))
    /\ failed' = TRUE
    /\ UNCHANGED <<doc, alg_id, cert, md, der_sig, enclave_pubkey>>

\* Mutated form: a signature over the payload alone is accepted.
DirectAccepts ==
    /\ Stage("direct", Verifies(md, "payload"), "public_key")
    /\ UNCHANGED <<doc, alg_id, cert, md, der_sig, enclave_pubkey, failed>>

\* The attempt over the payload alone prints its result; then the function exits,
\* whatever it was.
Direct ==
    /\ Stage("direct", FALSE, "public_key")
    /\ UNCHANGED <<doc, alg_id, cert, md, der_sig, enclave_pubkey, failed>>

\* The first public_key of the payload is returned, NULL when there is none or
\* d2i_PUBKEY cannot read it.
ReturnPublicKey ==
    /\ Stage("public_key", TRUE, "returned")
    /\ LET found == FirstBytes({"public_key"})
       IN  enclave_pubkey' = IF found \in {"empty", "garbage"} THEN NULL ELSE found
    /\ UNCHANGED <<doc, alg_id, cert, md, der_sig, failed>>

\* d2i_PUBKEY runs out of memory: NULL, as for a key it cannot read
PublicKeyFails ==
    /\ LibraryFails
    /\ FirstBytes({"public_key"}) # NULL
    /\ Stage("public_key", TRUE, "returned")
    /\ failed' = TRUE
    /\ UNCHANGED <<doc, alg_id, cert, md, der_sig, enclave_pubkey>>

\* A call that is checked fails, exit(2), or the malloc of a key_str, which is not: a
\* crash.
Fail ==
    /\ LibraryFails
    /\ pc \in {"decode", "parts", "alg", "certificate", "pubkey", "digest", "serialize",
              "convert", "public_key"}
    /\ pc' = "exited" /\ failed' = TRUE
    /\ UNCHANGED <<doc, alg_id, cert, md, der_sig, enclave_pubkey>>

Attempts == {"verify", "try_sha256", "try_sha384", "try_sha512"}

Next ==
    \/ Decode \/ CheckParts \/ FindAlg \/ FindCertificate \/ ExtractPubkey
    \/ ChooseDigest \/ Serialize \/ ConvertSignature
    \/ \E at \in Attempts : Attempt(at) \/ AttemptFails(at)
    \/ Direct \/ ReturnPublicKey \/ PublicKeyFails \/ Fail

Spec == Init /\ [][Next]_vars

-----------------------------------------------------------------------------
(* What a document is worth, stated without the order of the checks.       *)

\* The document is a COSE_Sign1 with a map in it.
WellFormed(d) ==
    /\ d.top # "garbage" /\ d.items = 4
    /\ d.protected.kind \in {"map", "not_map"}
    /\ d.payload.kind = "map"
    /\ d.signature.kind = "bytes"

\* The bytestring under one of these names that has no other before it: one or none.
First(d, keys) ==
    LET bytes(i) == d.payload.entries[i].key \in keys /\ d.payload.entries[i].value # "not_bytes"
    IN  {d.payload.entries[i].value :
            i \in {j \in 1..Len(d.payload.entries) : bytes(j) /\ \A k \in 1..(j - 1) : ~ bytes(k)}}

\* The signature of d was made with the key of the first certificate in d itself, over
\* Sig_structure, with one of three digests.
SignedByOwnCertificate(d) ==
    /\ d.signature.by \in First(d, {"certificate", "cert"}) \cap (EcKeys \cup RsaKeys)
    /\ d.signature.over = "sig_structure"
    /\ d.signature.digest \in Digests

\* The form of the signature is the one that the code concludes from its length; a
\* signature of another form is refused, also when its key has made it.
Recognizable(d) ==
    IF d.signature.by \in RsaKeys THEN d.signature.form = "pkcs1"
    ELSE \/ d.signature.form = "raw" /\ d.signature.len \in {64, 96, 132}
         \/ d.signature.form = "der" /\ d.signature.len \notin {64, 96, 132}

\* The kind that SecureOffload gives to the document.
Verdict(d) ==
    IF ~ (WellFormed(d) /\ SignedByOwnCertificate(d) /\ Recognizable(d)) THEN "invalid"
    ELSE IF First(d, {"public_key"}) \subseteq {"empty", "garbage"} THEN "no_public_key"
    ELSE "good"

-----------------------------------------------------------------------------
\* Every variable has the type of its C counterpart: no document leads to an
\* algorithm that is not an int or past the last attempt.
TypeOK ==
    /\ pc \in {"decode", "parts", "alg", "certificate", "pubkey", "digest", "serialize",
               "convert", "direct", "public_key", "returned", "exited"} \cup Attempts
    /\ alg_id \in (-(IntRange \div 2))..(IntRange \div 2 - 1)
    /\ md \in Digests \cup {NULL}
    /\ der_sig \in {"raw", "der", "pkcs1", "mangled", NULL}
    /\ failed \in BOOLEAN

\* Whatever library calls fail and whatever the retries do, validate_attsdoc returns
\* only for a document whose signature, by the key of the certificate it contains,
\* covers its header and its payload; the key it returns is the first public_key of that payload, or NULL after a failed call.
AcceptsOnlySigned ==
    pc = "returned" =>
        CASE Verdict(doc) = "invalid" -> FALSE
          [] Verdict(doc) = "no_public_key" -> enclave_pubkey = NULL
          [] OTHER -> \/ enclave_pubkey \in First(doc, {"public_key"})
                      \/ failed /\ enclave_pubkey = NULL

\* Unless a library call fails, every such document is accepted whose signature has the
\* form that its length tells, whatever algorithm its header names.
AcceptsEverySigned == (pc = "exited" /\ ~ failed) => Verdict(doc) = "invalid"

\* validate_attsdoc decides exactly by the signature of the document, taken with the
\* certificate that comes with it: the retries accept nothing else, and no stage refuses
\* what verifies.  That the certificate is that of an enclave is not part of it.
AcceptsExactlySigned == AcceptsOnlySigned /\ AcceptsEverySigned

=============================================================================
