--------------------------- MODULE AttsdocProofs ---------------------------
(***************************************************************************)
(* What validate_attsdoc decides, for every set of documents, every set of *)
(* keys and every width of int, whatever library calls fail.  The          *)
(* invariant AttInv says what has been established when a stage is         *)
(* reached; the lemmas before it are about the search for the first entry  *)
(* of the payload and about the size of Sig_structure.                     *)
(***************************************************************************)
EXTENDS Attsdoc, WellFoundedInduction, TLAPS

-----------------------------------------------------------------------------
(* The stages that are behind each check.                                  *)

AfterConvert == Attempts \cup {"direct", "public_key", "returned"}
AfterDigest == AfterConvert \cup {"serialize", "convert"}
AfterPubkey == AfterDigest \cup {"digest"}
AfterCertificate == AfterPubkey \cup {"pubkey"}
AfterAlg == AfterCertificate \cup {"certificate"}
AfterParts == AfterAlg \cup {"alg"}
AfterDecode == AfterParts \cup {"parts"}

\* The checks on the shape of the document that a stage has behind it.
ShapeChecked ==
    /\ pc \in AfterDecode => doc.top # "garbage" /\ doc.items = 4
    /\ pc \in AfterParts => /\ doc.protected.kind \in {"map", "not_map"}
                            /\ doc.signature.kind = "bytes"
    /\ pc \in AfterAlg => doc.payload.kind = "map"

\* The certificate is the first of the payload, and later on one with a key.
CertificateFound ==
    /\ pc \in AfterCertificate => cert = FirstBytes({"certificate", "cert"})
    /\ pc \in AfterPubkey => cert \in EcKeys \cup RsaKeys

\* The form of the signature once it is converted.
Converted ==
    IF cert \in EcKeys /\ doc.signature.len \in {64, 96, 132}
    THEN IF doc.signature.form = "raw" THEN "der" ELSE "mangled"
    ELSE doc.signature.form

SignatureReady ==
    /\ pc \in AfterDigest => md \in Digests
    /\ pc \in AfterConvert => der_sig = Converted

\* Without a failed call, the digests that are behind have not verified.
Tried ==
    ~ failed =>
        /\ pc \in {"try_sha256", "try_sha384", "try_sha512", "direct"}
               => ~ Verifies(md, "sig_structure")
        /\ pc \in {"try_sha384", "try_sha512", "direct"} => ~ Verifies("sha256", "sig_structure")
        /\ pc \in {"try_sha512", "direct"} => ~ Verifies("sha384", "sig_structure")
        /\ pc = "direct" => ~ Verifies("sha512", "sig_structure")

\* A document that gets to its public key has verified with one of the digests.
Accepted ==
    pc \in {"public_key", "returned"} => \E digest \in Digests : Verifies(digest, "sig_structure")

\* What d2i_PUBKEY makes of the first public_key.
KeyRead ==
    LET found == FirstBytes({"public_key"})
    IN  IF found \in {"empty", "garbage"} THEN NULL ELSE found

KeyReturned ==
    pc = "returned" => enclave_pubkey = KeyRead \/ (failed /\ enclave_pubkey = NULL)

KeyUnread == pc # "returned" => enclave_pubkey = NULL

AttInv ==
    /\ TypeOK
    /\ doc \in DocumentType
    /\ ShapeChecked
    /\ CertificateFound
    /\ SignatureReady
    /\ Tried
    /\ Accepted
    /\ KeyUnread
    /\ KeyReturned
    /\ AcceptsEverySigned

-----------------------------------------------------------------------------
(* The operators.                                                          *)

\* Every nonempty set of positions of a sequence has a least one, the one that Min chooses.
LEMMA FirstPosition ==
    ASSUME NEW n \in Nat, NEW S, S \subseteq 1..n, S # {}
    PROVE  /\ Min(S) \in S
           /\ \A i \in S : Min(S) <= i
<1>1. S \in SUBSET Nat
  OBVIOUS
<1>2. PICK i \in S : \A k \in S : ~ (<<k, i>> \in OpToRel(<, Nat))
  BY <1>1, NatLessThanWellFounded, WFMin
<1>3. \A k \in S : ~ (k < i)
  BY <1>1, <1>2 DEF OpToRel
<1>4. \A k \in S : i <= k
  BY <1>1, <1>3
<1> QED
  BY <1>4 DEF Min

\* The position before which there is none of the set is the least one.
LEMMA NoneBefore ==
    ASSUME NEW n \in Nat, NEW S, S \subseteq 1..n, S # {}
    PROVE  {j \in S : \A k \in 1..(j - 1) : k \notin S} = {Min(S)}
<1> DEFINE m == Min(S)
           js == {j \in S : \A k \in 1..(j - 1) : k \notin S}
<1>1. m \in S /\ \A i \in S : m <= i
  BY FirstPosition
<1> HIDE DEF m
<1>2. m \in Int /\ m >= 1
  BY <1>1
<1>3. m \in js
  <2>1. ASSUME NEW k \in 1..(m - 1), k \in S
        PROVE  FALSE
    BY <1>1, <1>2, <2>1
  <2> QED
    BY <1>1, <2>1
<1>4. ASSUME NEW j \in js
      PROVE  j = m
  <2>1. j \in S /\ m \notin 1..(j - 1)
    BY <1>1, <1>4
  <2>2. j \in Int /\ m <= j
    BY <1>1, <2>1
  <2> QED
    BY <1>2, <2>1, <2>2
<1>5. js = {m}
  BY <1>3, <1>4
<1> QED
  BY <1>5 DEF m

\* A 64-bit number assigned to an int is an int.
LEMMA ToIntRange ==
    ASSUME NEW n \in Int
    PROVE  ToInt(n) \in (-(IntRange \div 2))..(IntRange \div 2 - 1)
<1>1. IntRange \in Nat /\ IntRange > 72
  BY AttsdocAssumption
<1>2. IntRange = 2 * (IntRange \div 2) /\ IntRange \div 2 \in Nat
  BY AttsdocAssumption
<1>3. n % IntRange \in 0..(IntRange - 1)
  BY <1>1
<1> QED
  BY <1>1, <1>2, <1>3 DEF ToInt

\* A sequence over a set has its elements in the set.
LEMMA ElementOf ==
    ASSUME NEW S, NEW s \in Seq(S), NEW i \in 1..Len(s)
    PROVE  s[i] \in S
OBVIOUS

\* The algorithm is an int, whatever the header holds.
LEMMA AlgIdRange ==
    ASSUME NEW header \in HeaderType
    PROVE  AlgId(header) \in (-(IntRange \div 2))..(IntRange \div 2 - 1)
<1>1. -1 \in (-(IntRange \div 2))..(IntRange \div 2 - 1)
  BY AttsdocAssumption
<1> DEFINE at == {i \in 1..Len(header.pairs) : header.pairs[i].key = 1}
<1>2. ASSUME at # {}
      PROVE  header.pairs[Min(at)].n \in Nat
  <2>1. header.pairs \in Seq([key : Nat, type : {"negint", "uint", "other"}, n : Nat])
    BY DEF HeaderType
  <2> DEFINE n == Len(header.pairs)
             m == Min(at)
  <2>2. n \in Nat /\ at \subseteq 1..n
    BY <2>1
  <2>3. m \in at
    <3> HIDE DEF at, n
    <3> QED
      BY <1>2, <2>2, FirstPosition
  <2>4. m \in 1..Len(header.pairs)
    <3> HIDE DEF m
    <3> QED
      BY <2>3
  <2> HIDE DEF m
  <2>5. header.pairs[m].n \in Nat
    <3> HIDE DEF at, n
    <3>1. header.pairs[m] \in [key : Nat, type : {"negint", "uint", "other"}, n : Nat]
      BY <2>1, <2>4, ElementOf
    <3> QED
      BY <3>1
  <2> QED
    BY <2>5 DEF m
<1> QED
  BY <1>1, <1>2, ToIntRange DEF AlgId

\* The buffer for Sig_structure is never too small.
LEMMA BufferSuffices ==
    ASSUME NEW p \in Nat, NEW d \in Nat
    PROVE  SigStructureLen(p, d) <= EstimateSize(p, d)
<1>1. ASSUME NEW n \in Nat
      PROVE  CborLen(n) \in Nat /\ CborLen(n) <= n + 9
  BY DEF CborLen
<1>2. /\ CborLen(10) \in Nat /\ CborLen(10) <= 19
      /\ CborLen(0) \in Nat /\ CborLen(0) <= 9
      /\ CborLen(p) \in Nat /\ CborLen(p) <= p + 9
      /\ CborLen(d) \in Nat /\ CborLen(d) <= d + 9
  BY <1>1
<1> QED
  BY <1>2 DEF SigStructureLen, EstimateSize

\* The search of the code finds what First says, or NULL where that is empty.
LEMMA SearchFindsFirst ==
    ASSUME doc \in DocumentType, NEW keys
    PROVE  \/ First(doc, keys) = {} /\ FirstBytes(keys) = NULL
           \/ First(doc, keys) = {FirstBytes(keys)}
<1> DEFINE es == doc.payload.entries
           at == {i \in 1..Len(es) : es[i].key \in keys /\ es[i].value # "not_bytes"}
           js == {j \in at : \A k \in 1..(j - 1) : k \notin at}
<1>1. Len(es) \in Nat
  BY DEF DocumentType, PayloadType
<1>2. First(doc, keys) = {es[i].value : i \in js}
  <2>1. \A j \in 1..Len(es) : \A k \in 1..(j - 1) : k \in 1..Len(es)
    BY <1>1
  <2> QED
    BY <2>1 DEF First
<1>3. FirstBytes(keys) = IF at = {} THEN NULL ELSE es[Min(at)].value
  BY DEF FirstBytes
<1>4. CASE at = {}
  BY <1>2, <1>3, <1>4
<1>5. CASE at # {}
  <2> DEFINE n == Len(es)
  <2>2. n \in Nat /\ at \subseteq 1..n
    BY <1>1
  <2>3. js = {Min(at)}
    <3> HIDE DEF at, n
    <3> QED
      BY <1>5, <2>2, NoneBefore
  <2>4. First(doc, keys) = {es[Min(at)].value}
    <3> HIDE DEF es, at, js
    <3> QED
      BY <1>2, <2>3
  <2> QED
    BY <1>3, <1>5, <2>4
<1> QED
  BY <1>4, <1>5

\* A signature in the form that is verified is one whose form can be told.
LEMMA FormTold ==
    ASSUME doc \in DocumentType, cert \in EcKeys \cup RsaKeys, doc.signature.by = cert
    PROVE  Recognizable(doc) <=> Converted = IF cert \in EcKeys THEN "der" ELSE "pkcs1"
<1>1. doc.signature.form \in {"raw", "der", "pkcs1"}
  BY DEF DocumentType, SignatureType
<1>2. cert \in RsaKeys <=> cert \notin EcKeys
  BY AttsdocAssumption
<1> QED
  BY <1>1, <1>2 DEF Recognizable, Converted

-----------------------------------------------------------------------------
(* AttInv                                                                  *)

\* At the start nothing has been established yet.
LEMMA AttInit == Init => AttInv
<1> SUFFICES ASSUME Init PROVE AttInv
  OBVIOUS
<1>1. TypeOK
  <2>1. -1 \in (-(IntRange \div 2))..(IntRange \div 2 - 1)
    BY AttsdocAssumption
  <2> QED
    BY <2>1 DEF Init, TypeOK
<1>2. doc \in DocumentType
  BY AttsdocAssumption DEF Init
<1>3. ShapeChecked /\ CertificateFound /\ SignatureReady
  BY DEF Init, ShapeChecked, CertificateFound, SignatureReady, AfterDecode, AfterParts, AfterAlg,
         AfterCertificate, AfterPubkey, AfterDigest, AfterConvert, Attempts
<1>4. Tried /\ Accepted /\ KeyUnread /\ KeyReturned /\ AcceptsEverySigned
  BY Zenon DEF Init, Tried, Accepted, KeyUnread, KeyReturned, AcceptsEverySigned
<1> QED
  BY <1>1, <1>2, <1>3, <1>4 DEF AttInv

\* A document that is not a COSE_Sign1 with a map in it is worth nothing.
LEMMA MisshapenInvalid == ~ WellFormed(doc) => Verdict(doc) = "invalid"
BY DEF Verdict

\* Nor is one whose first certificate has no key.
LEMMA KeylessInvalid ==
    ASSUME doc \in DocumentType, FirstBytes({"certificate", "cert"}) \notin EcKeys \cup RsaKeys
    PROVE  Verdict(doc) = "invalid"
<1> DEFINE keys == {"certificate", "cert"}
<1>1. \/ First(doc, keys) = {}
      \/ First(doc, keys) = {FirstBytes(keys)}
  BY SearchFindsFirst
<1>2. First(doc, keys) \cap (EcKeys \cup RsaKeys) = {}
  BY <1>1
<1> QED
  BY <1>2 DEF Verdict, SignedByOwnCertificate

\* A document that verifies with no digest is not signed by its certificate, or its form
\* is misread.
LEMMA UnverifiedInvalid ==
    ASSUME AttInv, pc = "direct", \A digest \in Digests : ~ Verifies(digest, "sig_structure")
    PROVE  Verdict(doc) = "invalid"
<1> DEFINE keys == {"certificate", "cert"}
<1>1. /\ doc \in DocumentType /\ cert = FirstBytes(keys) /\ cert \in EcKeys \cup RsaKeys
      /\ der_sig = Converted
  BY DEF AttInv, CertificateFound, SignatureReady, AfterConvert, AfterDigest, AfterPubkey,
         AfterCertificate
<1>2. SUFFICES ASSUME SignedByOwnCertificate(doc), Recognizable(doc)
               PROVE  FALSE
  BY DEF Verdict
<1>3. \/ First(doc, keys) = {}
      \/ First(doc, keys) = {FirstBytes(keys)}
  BY <1>1, SearchFindsFirst
<1>4. doc.signature.by = cert
  BY <1>1, <1>2, <1>3 DEF SignedByOwnCertificate
<1>5. Verifies(doc.signature.digest, "sig_structure")
  BY <1>1, <1>2, <1>4, FormTold DEF Verifies, SignedByOwnCertificate
<1> QED
  BY <1>2, <1>5 DEF SignedByOwnCertificate

\* A document that verifies is one that its certificate has signed, in a form that is
\* told.
LEMMA VerifiedValid ==
    ASSUME AttInv, pc \in {"public_key", "returned"}
    PROVE  WellFormed(doc) /\ SignedByOwnCertificate(doc) /\ Recognizable(doc)
<1> DEFINE keys == {"certificate", "cert"}
<1>1. /\ doc \in DocumentType /\ cert = FirstBytes(keys) /\ cert \in EcKeys \cup RsaKeys
      /\ der_sig = Converted
  BY DEF AttInv, CertificateFound, SignatureReady, AfterConvert, AfterDigest, AfterPubkey,
         AfterCertificate
<1>2. PICK digest \in Digests : Verifies(digest, "sig_structure")
  BY DEF AttInv, Accepted
<1>3. \/ First(doc, keys) = {} /\ cert = NULL
      \/ First(doc, keys) = {cert}
  BY <1>1, SearchFindsFirst
<1>4. First(doc, keys) = {cert}
  BY <1>1, <1>3, AttsdocAssumption
<1>5. WellFormed(doc)
  BY DEF AttInv, ShapeChecked, WellFormed, AfterDecode, AfterParts, AfterAlg, AfterCertificate,
         AfterPubkey, AfterDigest, AfterConvert
<1>6. SignedByOwnCertificate(doc)
  BY <1>1, <1>2, <1>4 DEF Verifies, SignedByOwnCertificate
<1>7. Recognizable(doc)
  BY <1>1, <1>2, FormTold DEF Verifies
<1> QED
  BY <1>5, <1>6, <1>7

\* What FirstBytes finds depends on the document alone.
LEMMA FoundKept ==
    ASSUME doc' = doc, NEW CONSTANT keys
    PROVE  FirstBytes(keys)' = FirstBytes(keys)
BY DEF FirstBytes

\* What verifies stays what verifies once the signature is converted.
LEMMA VerifiesKept ==
    ASSUME UNCHANGED <<doc, cert, der_sig>>, NEW CONSTANT digest
    PROVE  Verifies(digest, "sig_structure")' <=> Verifies(digest, "sig_structure")
BY DEF Verifies

\* The same for the digest of the header, which stays the same too.
LEMMA MdVerifiesKept ==
    ASSUME UNCHANGED <<doc, cert, der_sig, md>>
    PROVE  Verifies(md, "sig_structure")' <=> Verifies(md, "sig_structure")
BY DEF Verifies

\* The converted form depends on the document and the certificate.
LEMMA ConvertedKept ==
    ASSUME UNCHANGED <<doc, cert>>
    PROVE  Converted' = Converted
BY DEF Converted

\* The key that d2i_PUBKEY reads depends on the document alone.
LEMMA KeyReadKept ==
    ASSUME doc' = doc
    PROVE  KeyRead' = KeyRead
BY FoundKept DEF KeyRead

\* The stages before the attempts keep AttInv; a check that fails shows that the
\* document is worth nothing.
LEMMA CheckStages ==
    ASSUME AttInv, Decode \/ CheckParts \/ FindAlg
    PROVE  AttInv'
<1>1. doc' = doc /\ cert' = cert /\ md' = md /\ der_sig' = der_sig
      /\ enclave_pubkey' = enclave_pubkey /\ failed' = failed
  BY DEF Decode, CheckParts, FindAlg
<1>2. doc \in DocumentType /\ enclave_pubkey = NULL
  BY DEF AttInv, KeyUnread, Decode, CheckParts, FindAlg, Stage
<1>3. \/ pc = "decode" /\ pc' = "parts" /\ doc.top # "garbage" /\ doc.items = 4
      \/ pc = "parts" /\ pc' = "alg" /\ doc.protected.kind \in {"map", "not_map"} /\ doc.signature.kind = "bytes"
      \/ pc = "alg" /\ pc' = "certificate" /\ doc.payload.kind = "map"
      \/ pc' = "exited" /\ ~ WellFormed(doc)
  BY <1>2 DEF Decode, CheckParts, FindAlg, Stage, WellFormed, DocumentType
<1>4. TypeOK'
  <2>1. alg_id' = alg_id \/ alg_id' = AlgId(doc.protected)
    BY DEF Decode, CheckParts, FindAlg
  <2>2. doc.protected \in HeaderType
    BY <1>2 DEF DocumentType
  <2>3. alg_id' \in (-(IntRange \div 2))..(IntRange \div 2 - 1)
    BY <2>1, <2>2, AlgIdRange DEF AttInv, TypeOK
  <2> QED
    BY <1>1, <1>3, <2>3 DEF AttInv, TypeOK
<1>5. ShapeChecked'
  BY <1>1, <1>3 DEF AttInv, ShapeChecked, AfterDecode, AfterParts, AfterAlg,
     AfterCertificate, AfterPubkey, AfterDigest, AfterConvert, Attempts
<1>6. CertificateFound' /\ SignatureReady'
  BY <1>3 DEF CertificateFound, SignatureReady,
     AfterCertificate, AfterPubkey, AfterDigest, AfterConvert, Attempts
<1>7. Tried' /\ Accepted' /\ KeyReturned'
  BY <1>3, Zenon DEF Tried, Accepted, KeyReturned
<1>8. KeyUnread'
  BY <1>1, <1>2 DEF KeyUnread
<1>9. AcceptsEverySigned'
  <2>1. pc' = "exited" => Verdict(doc) = "invalid"
    BY <1>3, MisshapenInvalid
  <2> QED
    BY <1>1, <2>1 DEF AcceptsEverySigned
<1> QED
  BY <1>1, <1>2, <1>4, <1>5, <1>6, <1>7, <1>8, <1>9 DEF AttInv

\* The search for the certificate and for its key keep AttInv.
LEMMA CertificateStages ==
    ASSUME AttInv, FindCertificate \/ ExtractPubkey
    PROVE  AttInv'
<1> DEFINE found == FirstBytes({"certificate", "cert"})
<1>1. doc' = doc /\ alg_id' = alg_id /\ md' = md /\ der_sig' = der_sig
      /\ enclave_pubkey' = enclave_pubkey /\ failed' = failed
  BY DEF FindCertificate, ExtractPubkey
<1>2. doc \in DocumentType /\ enclave_pubkey = NULL
  BY DEF AttInv, KeyUnread, FindCertificate, ExtractPubkey, Stage
<1>3. cert' = found
  BY DEF AttInv, CertificateFound, FindCertificate, ExtractPubkey, Stage, AfterCertificate
<1>4. \/ pc = "certificate" /\ pc' = "pubkey"
      \/ pc = "pubkey" /\ pc' = "digest" /\ cert' \in EcKeys \cup RsaKeys
      \/ pc' = "exited" /\ found \notin EcKeys \cup RsaKeys
  <2>1. CASE FindCertificate
    BY <2>1, AttsdocAssumption DEF FindCertificate, Stage, Oddities
  <2>2. CASE ExtractPubkey
    BY <2>2, <1>3 DEF ExtractPubkey, Stage
  <2> QED
    BY <2>1, <2>2
<1>5. TypeOK'
  BY <1>1, <1>4 DEF AttInv, TypeOK
<1>6. ShapeChecked'
  BY <1>1, <1>4 DEF AttInv, ShapeChecked, AfterDecode, AfterParts, AfterAlg,
     AfterCertificate, AfterPubkey, AfterDigest, AfterConvert, Attempts
<1>7. CertificateFound'
  <2>1. cert' = found'
    BY <1>1, <1>3, FoundKept
  <2> HIDE DEF found
  <2>2. pc' \in AfterPubkey => cert' \in EcKeys \cup RsaKeys
    BY <1>4 DEF AfterPubkey, AfterDigest, AfterConvert, Attempts
  <2> QED
    BY <2>1, <2>2 DEF CertificateFound, found, AfterPubkey, AfterDigest, AfterConvert, Attempts
<1>8. SignatureReady'
  BY <1>4 DEF SignatureReady, AfterDigest, AfterConvert, Attempts
<1>9. Tried' /\ Accepted' /\ KeyReturned'
  BY <1>4, Zenon DEF Tried, Accepted, KeyReturned
<1>10. KeyUnread'
  BY <1>1, <1>2 DEF KeyUnread
<1>11. AcceptsEverySigned'
  <2>1. pc' = "exited" => Verdict(doc) = "invalid"
    BY <1>2, <1>4, KeylessInvalid
  <2> QED
    BY <1>1, <2>1 DEF AcceptsEverySigned
<1> QED
  BY <1>1, <1>2, <1>5, <1>6, <1>7, <1>8, <1>9, <1>10, <1>11 DEF AttInv

\* The choice of the digest, Sig_structure and the conversion keep AttInv, and none of
\* them turns a document down.
LEMMA SignatureStages ==
    ASSUME AttInv, ChooseDigest \/ Serialize \/ ConvertSignature
    PROVE  AttInv'
<1>1. doc' = doc /\ alg_id' = alg_id /\ cert' = cert
      /\ enclave_pubkey' = enclave_pubkey /\ failed' = failed
  BY DEF ChooseDigest, Serialize, ConvertSignature
<1>2. doc \in DocumentType /\ enclave_pubkey = NULL
  BY DEF AttInv, KeyUnread, ChooseDigest, Serialize, ConvertSignature, Stage
<1>3. \/ pc = "digest" /\ pc' = "serialize"
      \/ pc = "serialize" /\ pc' = "convert"
      \/ pc = "convert" /\ pc' = "verify"
  <2>1. CASE Serialize
    <3>1. doc.protected.len \in Nat /\ doc.payload.len \in Nat
      BY <1>2 DEF DocumentType, HeaderType, PayloadType
    <3> QED
      BY <2>1, <3>1, BufferSuffices DEF Serialize, Stage
  <2>2. CASE ChooseDigest \/ ConvertSignature
    BY <2>2 DEF ChooseDigest, ConvertSignature, Stage
  <2> QED
    BY <2>1, <2>2
<1>4. md' \in Digests
  <2>1. CASE ChooseDigest
    BY <2>1 DEF ChooseDigest, Digests
  <2>2. CASE Serialize \/ ConvertSignature
    BY <2>2 DEF Serialize, ConvertSignature, Stage, AttInv, SignatureReady, AfterDigest
  <2> QED
    BY <2>1, <2>2
<1>5. pc' = "verify" => der_sig' = Converted'
  BY <1>1, <1>3, ConvertedKept DEF ChooseDigest, Serialize, ConvertSignature, Stage, Converted
<1>6. der_sig' \in {"raw", "der", "pkcs1", "mangled", NULL}
  <2>1. doc.signature.form \in {"raw", "der", "pkcs1"}
    BY <1>2 DEF DocumentType, SignatureType
  <2> QED
    BY <2>1 DEF ChooseDigest, Serialize, ConvertSignature, AttInv, TypeOK
<1>7. TypeOK'
  BY <1>1, <1>3, <1>4, <1>6 DEF AttInv, TypeOK, Attempts
<1>8. ShapeChecked'
  BY <1>1, <1>3 DEF AttInv, ShapeChecked, AfterDecode, AfterParts, AfterAlg,
     AfterCertificate, AfterPubkey, AfterDigest, AfterConvert, Attempts
<1>9. CertificateFound'
  BY <1>1, <1>3, FoundKept DEF AttInv, CertificateFound, AfterCertificate, AfterPubkey,
     AfterDigest
<1>10. SignatureReady'
  BY <1>3, <1>4, <1>5 DEF SignatureReady, AfterConvert, Attempts
<1>11. Tried' /\ Accepted' /\ KeyReturned'
  BY <1>3, Zenon DEF Tried, Accepted, KeyReturned
<1>12. KeyUnread' /\ AcceptsEverySigned'
  BY <1>1, <1>2, <1>3 DEF KeyUnread, AcceptsEverySigned
<1> QED
  BY <1>1, <1>2, <1>7, <1>8, <1>9, <1>10, <1>11, <1>12 DEF AttInv

\* A step between two stages after the conversion, which changes nothing of what was
\* found before, keeps all of AttInv but what it says of the attempts and of the key.
LEMMA LaterStages ==
    ASSUME AttInv, pc \in AfterConvert, pc' \in AfterConvert \cup {"exited"},
           UNCHANGED <<doc, alg_id, cert, md, der_sig>>, failed' \in BOOLEAN
    PROVE  /\ TypeOK' /\ (doc \in DocumentType)' /\ ShapeChecked' /\ CertificateFound'
           /\ SignatureReady'
<1>1. TypeOK'
  BY DEF AttInv, TypeOK, AfterConvert, Attempts
<1>2. ShapeChecked'
  BY DEF AttInv, ShapeChecked, AfterDecode, AfterParts, AfterAlg, AfterCertificate, AfterPubkey,
     AfterDigest, AfterConvert, Attempts
<1>3. CertificateFound'
  BY FoundKept DEF AttInv, CertificateFound, AfterCertificate, AfterPubkey, AfterDigest
<1>4. SignatureReady'
  BY ConvertedKept DEF AttInv, SignatureReady, AfterDigest
<1> QED
  BY <1>1, <1>2, <1>3, <1>4 DEF AttInv

\* The digest of an attempt is one of the three, or there is none because it is the
\* one of the header, which was the first.
LEMMA AttemptDigests ==
    ASSUME md \in Digests
    PROVE  /\ AttemptDigest("verify") = md
           /\ AttemptDigest("try_sha256") = IF md = "sha256" THEN NULL ELSE "sha256"
           /\ AttemptDigest("try_sha384") = IF md = "sha384" THEN NULL ELSE "sha384"
           /\ AttemptDigest("try_sha512") = IF md = "sha512" THEN NULL ELSE "sha512"
BY DEF AttemptDigest

\* An attempt keeps AttInv: it verifies, or its digest is one more that did not.
LEMMA AttemptStage ==
    ASSUME AttInv, NEW at \in Attempts, Attempt(at)
    PROVE  AttInv'
<1>1. UNCHANGED <<doc, alg_id, cert, md, der_sig, enclave_pubkey, failed>> /\ pc = at
  BY DEF Attempt, Stage
<1>2. md \in Digests /\ enclave_pubkey = NULL /\ failed \in BOOLEAN /\ pc \in AfterConvert
  BY <1>1 DEF AttInv, TypeOK, SignatureReady, KeyUnread, AfterDigest, AfterConvert, Attempts
<1> DEFINE V(digest) == Verifies(digest, "sig_structure")
<1>3. \/ pc' = "public_key" /\ \E digest \in Digests : V(digest)
      \/ pc = "verify" /\ pc' = "try_sha256" /\ ~ V(md)
      \/ pc = "try_sha256" /\ pc' = "try_sha384" /\ (md = "sha256" \/ ~ V("sha256"))
      \/ pc = "try_sha384" /\ pc' = "try_sha512" /\ (md = "sha384" \/ ~ V("sha384"))
      \/ pc = "try_sha512" /\ pc' = "direct" /\ (md = "sha512" \/ ~ V("sha512"))
  <2> HIDE DEF V
  <2>1. pc' = IF AttemptDigest(at) # NULL /\ V(AttemptDigest(at))
              THEN "public_key" ELSE NextAttempt(at)
    BY DEF Attempt, Stage, V
  <2>2. NULL \notin Digests
    BY AttsdocAssumption
  <2>3. CASE at = "verify"
    BY <1>1, <1>2, <2>1, <2>2, <2>3, AttemptDigests DEF NextAttempt
  <2>4. CASE at = "try_sha256"
    BY <1>1, <1>2, <2>1, <2>2, <2>4, AttemptDigests DEF NextAttempt, Digests
  <2>5. CASE at = "try_sha384"
    BY <1>1, <1>2, <2>1, <2>2, <2>5, AttemptDigests DEF NextAttempt, Digests
  <2>6. CASE at = "try_sha512"
    BY <1>1, <1>2, <2>1, <2>2, <2>6, AttemptDigests DEF NextAttempt, Digests
  <2> QED
    BY <2>3, <2>4, <2>5, <2>6 DEF Attempts
<1>4. pc' \in AfterConvert /\ pc' # "exited" /\ pc' # "returned"
  BY <1>3 DEF AfterConvert, Attempts
<1>5. /\ TypeOK' /\ (doc \in DocumentType)' /\ ShapeChecked' /\ CertificateFound'
      /\ SignatureReady'
  BY <1>1, <1>2, <1>4, LaterStages
<1>6. Tried'
  <2>1. /\ V(md)' <=> V(md)
        /\ V("sha256")' <=> V("sha256")
        /\ V("sha384")' <=> V("sha384")
        /\ V("sha512")' <=> V("sha512")
    BY <1>1, VerifiesKept, MdVerifiesKept
  <2>2. Tried
    BY DEF AttInv
  <2> HIDE DEF V
  <2>3. md = "sha256" /\ ~ V(md) => ~ V("sha256")
    BY DEF V
  <2>4. md = "sha384" /\ ~ V(md) => ~ V("sha384")
    BY DEF V
  <2>5. md = "sha512" /\ ~ V(md) => ~ V("sha512")
    BY DEF V
  <2>6. ~ failed =>
        /\ pc \in {"try_sha256", "try_sha384", "try_sha512", "direct"} => ~ V(md)
        /\ pc \in {"try_sha384", "try_sha512", "direct"} => ~ V("sha256")
        /\ pc \in {"try_sha512", "direct"} => ~ V("sha384")
    BY <2>2 DEF Tried, V
  <2>7. ~ failed =>
        /\ pc' \in {"try_sha256", "try_sha384", "try_sha512", "direct"} => ~ V(md)
        /\ pc' \in {"try_sha384", "try_sha512", "direct"} => ~ V("sha256")
        /\ pc' \in {"try_sha512", "direct"} => ~ V("sha384")
        /\ pc' = "direct" => ~ V("sha512")
    BY <1>3, <2>3, <2>4, <2>5, <2>6
  <2>8. failed' = failed
    BY <1>1
  <2> QED
    BY <2>1, <2>7, <2>8 DEF Tried, V
<1>7. Accepted'
  <2>1. pc' = "public_key" => \E digest \in Digests : V(digest)
    BY <1>3
  <2>2. \A digest \in Digests : V(digest)' <=> V(digest)
    BY <1>1, VerifiesKept
  <2>3. pc' # "returned"
    BY <1>4
  <2> QED
    BY <2>1, <2>2, <2>3 DEF Accepted
<1>8. KeyUnread' /\ KeyReturned' /\ AcceptsEverySigned'
  BY <1>1, <1>2, <1>4, Zenon DEF KeyUnread, KeyReturned, AcceptsEverySigned
<1> QED
  BY <1>5, <1>6, <1>7, <1>8 DEF AttInv

\* A failed call within an attempt keeps AttInv: from here on a document may be turned
\* down for nothing.
LEMMA AttemptFailsStage ==
    ASSUME AttInv, NEW at \in Attempts, AttemptFails(at)
    PROVE  AttInv'
<1>1. UNCHANGED <<doc, alg_id, cert, md, der_sig, enclave_pubkey>> /\ pc = at /\ failed' = TRUE
      /\ pc' = NextAttempt(at)
  BY DEF AttemptFails, Stage
<1>2. enclave_pubkey = NULL /\ pc \in AfterConvert
  BY <1>1 DEF AttInv, KeyUnread, AfterConvert, Attempts
<1>3. pc' \in {"try_sha256", "try_sha384", "try_sha512", "direct"}
  BY <1>1 DEF NextAttempt, Attempts
<1>4. pc' \in AfterConvert
  BY <1>3 DEF AfterConvert, Attempts
<1>5. /\ TypeOK' /\ (doc \in DocumentType)' /\ ShapeChecked' /\ CertificateFound'
      /\ SignatureReady'
  BY <1>1, <1>2, <1>4, LaterStages
<1>6. Tried'
  BY <1>1, Zenon DEF Tried
<1>7. Accepted'
  BY <1>3, Zenon DEF Accepted
<1>8. KeyUnread' /\ KeyReturned' /\ AcceptsEverySigned'
  BY <1>1, <1>2, <1>3 DEF KeyUnread, KeyReturned, AcceptsEverySigned
<1> QED
  BY <1>5, <1>6, <1>7, <1>8 DEF AttInv

\* The attempt over the payload alone keeps AttInv: when no call has failed, all three
\* digests are behind it.
LEMMA DirectStage ==
    ASSUME AttInv, Direct
    PROVE  AttInv'
<1>1. UNCHANGED <<doc, alg_id, cert, md, der_sig, enclave_pubkey, failed>>
      /\ pc = "direct" /\ pc' = "exited"
  BY DEF Direct, Stage
<1>2. enclave_pubkey = NULL /\ pc \in AfterConvert /\ failed \in BOOLEAN
  BY <1>1 DEF AttInv, TypeOK, KeyUnread, AfterConvert
<1>3. /\ TypeOK' /\ (doc \in DocumentType)' /\ ShapeChecked' /\ CertificateFound'
      /\ SignatureReady'
  BY <1>1, <1>2, LaterStages
<1>4. Tried' /\ Accepted' /\ KeyReturned'
  BY <1>1, Zenon DEF Tried, Accepted, KeyReturned
<1>5. KeyUnread'
  BY <1>1, <1>2 DEF KeyUnread
<1>6. AcceptsEverySigned'
  <2>1. ~ failed => \A digest \in Digests : ~ Verifies(digest, "sig_structure")
    BY <1>1 DEF AttInv, Tried, Digests
  <2>2. ~ failed => Verdict(doc) = "invalid"
    BY <1>1, <2>1, UnverifiedInvalid
  <2> QED
    BY <1>1, <2>2 DEF AcceptsEverySigned
<1> QED
  BY <1>3, <1>4, <1>5, <1>6 DEF AttInv

\* The return keeps AttInv: the key is the one that was read, or NULL when d2i_PUBKEY
\* failed.
LEMMA ReturnStage ==
    ASSUME AttInv, ReturnPublicKey \/ PublicKeyFails
    PROVE  AttInv'
<1>1. UNCHANGED <<doc, alg_id, cert, md, der_sig>> /\ pc = "public_key" /\ pc' = "returned"
  BY DEF ReturnPublicKey, PublicKeyFails, Stage
<1>2. enclave_pubkey = NULL /\ pc \in AfterConvert /\ pc' \in AfterConvert
  BY <1>1 DEF AttInv, KeyUnread, AfterConvert
<1>3. failed' \in BOOLEAN
  BY DEF AttInv, TypeOK, ReturnPublicKey, PublicKeyFails
<1>4. /\ TypeOK' /\ (doc \in DocumentType)' /\ ShapeChecked' /\ CertificateFound'
      /\ SignatureReady'
  BY <1>1, <1>2, <1>3, LaterStages
<1>5. Tried' /\ KeyUnread' /\ AcceptsEverySigned'
  BY <1>1, Zenon DEF Tried, KeyUnread, AcceptsEverySigned
<1>6. Accepted'
  <2>1. \E digest \in Digests : Verifies(digest, "sig_structure")
    BY <1>1 DEF AttInv, Accepted
  <2>2. \A digest \in Digests : Verifies(digest, "sig_structure")' <=> Verifies(digest, "sig_structure")
    BY <1>1, VerifiesKept
  <2> QED
    BY <2>1, <2>2 DEF Accepted
<1>7. KeyReturned'
  <2>1. KeyRead' = KeyRead
    BY <1>1, KeyReadKept
  <2>2. CASE ReturnPublicKey
    <3>1. enclave_pubkey' = KeyRead
      BY <2>2 DEF ReturnPublicKey, KeyRead
    <3> QED
      BY <2>1, <3>1 DEF KeyReturned
  <2>3. CASE PublicKeyFails
    <3>1. enclave_pubkey' = NULL /\ failed'
      BY <1>2, <2>3 DEF PublicKeyFails
    <3> QED
      BY <3>1 DEF KeyReturned
  <2> QED
    BY <2>2, <2>3
<1> QED
  BY <1>4, <1>5, <1>6, <1>7 DEF AttInv

\* A failed call that ends the function keeps AttInv.
LEMMA FailStage ==
    ASSUME AttInv, Fail
    PROVE  AttInv'
<1>1. UNCHANGED <<doc, alg_id, cert, md, der_sig, enclave_pubkey>> /\ pc # "returned"
      /\ pc' = "exited" /\ failed' = TRUE
  BY DEF Fail
<1>2. TypeOK' /\ (doc \in DocumentType)'
  BY <1>1 DEF AttInv, TypeOK
<1>3. ShapeChecked' /\ CertificateFound' /\ SignatureReady'
  BY <1>1 DEF ShapeChecked, CertificateFound, SignatureReady, AfterDecode, AfterParts, AfterAlg,
     AfterCertificate, AfterPubkey, AfterDigest, AfterConvert, Attempts
<1>4. Tried' /\ Accepted' /\ KeyReturned' /\ AcceptsEverySigned'
  BY <1>1, Zenon DEF Tried, Accepted, KeyReturned, AcceptsEverySigned
<1>5. KeyUnread'
  BY <1>1 DEF AttInv, KeyUnread
<1> QED
  BY <1>2, <1>3, <1>4, <1>5 DEF AttInv

\* AttInv depends on the variables alone.
LEMMA AttStutter ==
    ASSUME AttInv, UNCHANGED vars
    PROVE  AttInv'
BY FoundKept, VerifiesKept, MdVerifiesKept, ConvertedKept, KeyReadKept
   DEF AttInv, vars, TypeOK, ShapeChecked, CertificateFound, SignatureReady, Tried, Accepted,
       KeyUnread, KeyReturned, AcceptsEverySigned

\* Every step of validate_attsdoc keeps AttInv.
LEMMA AttNext == AttInv /\ [Next]_vars => AttInv'
<1> SUFFICES ASSUME AttInv, [Next]_vars PROVE AttInv'
  OBVIOUS
<1>1. CASE Decode \/ CheckParts \/ FindAlg
  BY <1>1, CheckStages
<1>2. CASE FindCertificate \/ ExtractPubkey
  BY <1>2, CertificateStages
<1>3. CASE ChooseDigest \/ Serialize \/ ConvertSignature
  BY <1>3, SignatureStages
<1>4. ASSUME NEW at \in Attempts, Attempt(at) PROVE AttInv'
  BY <1>4, AttemptStage
<1>5. ASSUME NEW at \in Attempts, AttemptFails(at) PROVE AttInv'
  BY <1>5, AttemptFailsStage
<1>6. CASE Direct
  BY <1>6, DirectStage
<1>7. CASE ReturnPublicKey \/ PublicKeyFails
  BY <1>7, ReturnStage
<1>8. CASE Fail
  BY <1>8, FailStage
<1>9. CASE UNCHANGED vars
  BY <1>9, AttStutter
<1> QED
  BY <1>1, <1>2, <1>3, <1>4, <1>5, <1>6, <1>7, <1>8, <1>9 DEF Next

\* What AttInv says of a document that is returned for is AcceptsOnlySigned.
LEMMA ReturnedSigned == AttInv => AcceptsOnlySigned
<1> SUFFICES ASSUME AttInv, pc = "returned"
             PROVE  CASE Verdict(doc) = "invalid" -> FALSE
                      [] Verdict(doc) = "no_public_key" -> enclave_pubkey = NULL
                      [] OTHER -> \/ enclave_pubkey \in First(doc, {"public_key"})
                                  \/ failed /\ enclave_pubkey = NULL
  BY DEF AcceptsOnlySigned
<1> DEFINE none == First(doc, {"public_key"}) \subseteq {"empty", "garbage"}
           found == FirstBytes({"public_key"})
<1>1. Verdict(doc) = IF none THEN "no_public_key" ELSE "good"
  BY VerifiedValid DEF Verdict
<1>2. enclave_pubkey = (IF found \in {"empty", "garbage"} THEN NULL ELSE found)
      \/ (failed /\ enclave_pubkey = NULL)
  BY DEF AttInv, KeyReturned, KeyRead
<1>3. \/ First(doc, {"public_key"}) = {} /\ found = NULL
      \/ First(doc, {"public_key"}) = {found}
  BY SearchFindsFirst DEF AttInv
<1>4. none => enclave_pubkey = NULL
  <2> HIDE DEF found
  <2> QED
    BY <1>2, <1>3
<1>5. ~ none => enclave_pubkey \in First(doc, {"public_key"}) \/ (failed /\ enclave_pubkey = NULL)
  <2> HIDE DEF found
  <2> QED
    BY <1>2, <1>3
<1> HIDE DEF none
<1> QED
  BY <1>1, <1>4, <1>5

-----------------------------------------------------------------------------
(* The theorems.                                                           *)

\* At every stage of validate_attsdoc the checks behind it have held, and the digests
\* behind it have not verified.
THEOREM AttestationInv == Spec => []AttInv
BY AttInit, AttNext, PTL DEF Spec

\* Whatever the document and whatever fails, the algorithm is an int and the stages of
\* validate_attsdoc end with the attempt over the payload.
THEOREM AttestationTypeCorrect == Spec => []TypeOK
<1>1. AttInv => TypeOK
  BY DEF AttInv
<1> QED
  BY <1>1, AttestationInv, PTL

\* For every set of documents, validate_attsdoc returns only for those whose header and
\* payload the key of their own certificate has signed, with the first public key of the
\* payload; it exits on none of them unless a library call fails or the form of the
\* signature is not the one its length tells.
THEOREM DecidesBySignature == Spec => []AcceptsExactlySigned
<1>1. AttInv => AcceptsExactlySigned
  BY ReturnedSigned DEF AttInv, AcceptsExactlySigned
<1> QED
  BY <1>1, AttestationInv, PTL

=============================================================================
