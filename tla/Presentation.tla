---------------------------- MODULE Presentation ----------------------------
(***************************************************************************)
(* mdoc/testing.py: assembling an mdoc presentation under locally held     *)
(* keys, its self-checks, and signing it again for another transcript.     *)
(* Terms are symbolic: a public key goes by its private key's name, a      *)
(* digest is the item it is taken of (the random salt, which no property   *)
(* tells apart, left out), and CBOR is the term encoded - except that one  *)
(* transcript may have several encodings, of which cbor2 writes one.       *)
(***************************************************************************)
EXTENDS Integers, Sequences, FiniteSets

CONSTANTS
    Keys,               \* private keys, and the key of an RSA certificate
    Curve,              \* Curve[k]: "P-256", "secp256k1", "P-384" or "RSA"
    NewIssuerKey, NewDeviceKey,     \* the keys generated when none is passed
    Texts,              \* encoded names, values and doctypes
    Transcripts,        \* encoded session transcripts
    Canonical,          \* Canonical[t]: cbor2.dumps(cbor2.loads(t))
    Presentations,      \* the arguments create_presentation is called with
    DeviceMaps,         \* device-signed namespace maps
    EmptyMap,           \* the one without items
    Signings,           \* the keys, transcripts and maps callers sign again with
    MaxSignatures,      \* bound on the device signatures made for one document
    Calendar,           \* the instants a datetime can hold
    FirstCertificate,   \* the instant before which no certificate can begin (1950)
    Naive,              \* tzinfo is None
    Unknown,            \* a tzinfo whose utcoffset() is None
    LocalZone,          \* the host's offset from UTC
    None

(* A datetime is in hours; it is aware when its zone is known. *)
Moments == [wall : Int, zone : Int \union {Naive, Unknown}]

Elements == [id : Texts, value : Texts]

(* What the signature of create_presentation lets in (testing.py:225-236): *)
(* claims is a mapping of mappings, so an identifier is once in its namespace. *)
Arguments(a) ==
    /\ a.doc_type \in Texts /\ a.transcript \in Transcripts
    /\ a.valid_from \in Moments /\ a.valid_until \in Moments
    /\ {a.issuer_key, a.device_key, a.issuer_certificate} \subseteq Keys \union {None}
    /\ a.device_namespaces \in DeviceMaps \union {None}
    /\ DOMAIN a.claims \subseteq Texts
    /\ \A s \in DOMAIN a.claims :
        /\ a.claims[s] \in Seq(Elements)
        /\ \A i, j \in DOMAIN a.claims[s] : a.claims[s][i].id = a.claims[s][j].id => i = j

ASSUME PresentationAssumption ==
    /\ DOMAIN Curve = Keys /\ {NewIssuerKey, NewDeviceKey} \subseteq Keys
    /\ Curve[NewIssuerKey] = "P-256" /\ Curve[NewDeviceKey] = "P-256"
    /\ Canonical \in [Transcripts -> Transcripts]
    /\ \A t \in Transcripts : Canonical[Canonical[t]] = Canonical[t]
    /\ EmptyMap \in DeviceMaps /\ None \notin DeviceMaps
    /\ None \notin Presentations /\ \A a \in Presentations : Arguments(a)
    /\ Calendar \subseteq Int /\ {FirstCertificate, LocalZone} \subseteq Int
    /\ Naive # Unknown
    /\ Signings \subseteq [key : Keys, transcript : Transcripts, map : DeviceMaps]
    /\ MaxSignatures \in Nat \ {0}

VARIABLES
    specimen,   \* the PresentationSpecimen create_presentation returned
    document,   \* its document, as it is presented now
    made,       \* auxiliary: what it was created from
    signed      \* auxiliary: every device signature made for it

presentationVars == <<specimen, document, made, signed>>

Sign(key, payload) == [by |-> key, over |-> payload]
Verifies(key, payload, signature) == signature = Sign(key, payload)

(* astimezone(UTC): a zone without an offset counts as the host's. *)
Utc(d) == d.wall - (IF d.zone = Unknown THEN LocalZone ELSE d.zone)

(* Either key defaults to a generated one, the device map to the empty one. *)
IssuerKey(a) == IF a.issuer_key = None THEN NewIssuerKey ELSE a.issuer_key
DeviceKey(a) == IF a.device_key = None THEN NewDeviceKey ELSE a.device_key
DeviceMap(a) == IF a.device_namespaces = None THEN EmptyMap ELSE a.device_namespaces

(* A certificate goes by the key it certifies; by default it is self-signed. *)
Certificate(a) ==
    IF a.issuer_certificate = None THEN IssuerKey(a) ELSE a.issuer_certificate

-----------------------------------------------------------------------------
(* claims maps a namespace to its elements in order.  An empty namespace   *)
(* is dropped by setdefault; digest ids restart in each namespace.         *)
Spaces(claims) == {s \in DOMAIN claims : claims[s] # <<>>}

Items(claims) ==
    [s \in Spaces(claims) |-> [i \in DOMAIN claims[s] |->
        [digestID |-> i - 1, id |-> claims[s][i].id, value |-> claims[s][i].value]]]

(* Fault: the ids in the MSO are counted from one. *)
Digests_FromOne(claims) ==
    [s \in Spaces(claims) |-> [d \in DOMAIN claims[s] |-> Items(claims)[s][d]]]

Digests(claims) ==
    [s \in Spaces(claims) |->
        [d \in 0 .. Len(claims[s]) - 1 |-> Items(claims)[s][d + 1]]]

Mso(a) ==
    [docType |-> a.doc_type, valueDigests |-> Digests(a.claims),
     deviceKey |-> DeviceKey(a),
     validFrom |-> Utc(a.valid_from), validUntil |-> Utc(a.valid_until)]

(* The transcript is decoded and encoded again inside the payload. *)
DeviceAuthenticationBytes(t, doc_type, namespaces) ==
    [transcript |-> Canonical[t], docType |-> doc_type, nameSpaces |-> namespaces]

sign_device_authentication(key, t, doc_type, namespaces) ==
    Sign(key, DeviceAuthenticationBytes(t, doc_type, namespaces))

Document(a) ==
    [docType |-> a.doc_type,
     nameSpaces |-> Items(a.claims),
     x5chain |-> Certificate(a),
     mso |-> Mso(a),
     issuerSignature |-> Sign(IssuerKey(a), Mso(a)),
     deviceNameSpaces |-> DeviceMap(a),
     deviceSignature |-> sign_device_authentication(
        DeviceKey(a), a.transcript, a.doc_type, DeviceMap(a))]

-----------------------------------------------------------------------------
(* The self-checks, on the document read back.  The device key is rebuilt  *)
(* as a point of P-256, which fails for a key of another curve.            *)

(* Fault: any EC certificate will do. *)
IssuerAuthChecks_AnyKey(doc) == Curve[doc.x5chain] # "RSA"

IssuerAuthChecks(doc) ==
    /\ Curve[doc.x5chain] # "RSA"
    /\ Verifies(doc.x5chain, doc.mso, doc.issuerSignature)

verify_device_authentication(doc, t) ==
    /\ Curve[doc.mso.deviceKey] = "P-256"
    /\ Verifies(doc.mso.deviceKey,
                DeviceAuthenticationBytes(t, doc.docType, doc.deviceNameSpaces),
                doc.deviceSignature)

(* A generated certificate needs its window the right way round and not    *)
(* too early, and a key or a signature of P-384 does not fit its 32 bytes. *)
Created(a) ==
    /\ Naive \notin {a.valid_from.zone, a.valid_until.zone}
    /\ {Utc(a.valid_from), Utc(a.valid_until)} \subseteq Calendar
    /\ a.issuer_certificate = None =>
        FirstCertificate <= Utc(a.valid_from) /\ Utc(a.valid_from) <= Utc(a.valid_until)
    /\ "P-384" \notin {Curve[IssuerKey(a)], Curve[DeviceKey(a)]}
    /\ IssuerAuthChecks(Document(a))
    /\ verify_device_authentication(Document(a), a.transcript)

(* The document of a presentation under one device signature or another, *)
(* and what is returned with it: records, none of them None.               *)
Signed(a, key, t, namespaces) ==
    [Document(a) EXCEPT !.deviceSignature =
        sign_device_authentication(key, t, a.doc_type, namespaces)]

Specimen(a) ==
    [issuer_public_key |-> IssuerKey(a), issuer_certificate |-> Certificate(a),
     device_key |-> DeviceKey(a)]

ASSUME RecordsAssumption ==
    \A a \in Presentations : Created(a) =>
        /\ Specimen(a) # None
        /\ \A k \in Keys, t \in Transcripts, m \in DeviceMaps : Signed(a, k, t, m) # None

(* A call that raises leaves nothing behind. *)
CreatePresentation(a) ==
    /\ document = None
    /\ Created(a)
    /\ document' = Document(a)
    /\ specimen' = Specimen(a)
    /\ made' = a
    /\ signed' = {Document(a).deviceSignature}

(* The caller signs for another transcript, rightly or with another key or *)
(* other namespaces, and puts the signature into the document.             *)
SignAgain(key, t, namespaces) ==
    /\ document # None /\ Cardinality(signed) < MaxSignatures
    /\ Curve[key] \notin {"P-384", "RSA"}
    /\ LET signature == sign_device_authentication(key, t, document.docType, namespaces)
       IN  /\ document' = [document EXCEPT !.deviceSignature = signature]
           /\ signed' = signed \union {signature}
    /\ UNCHANGED <<specimen, made>>

PresentationInit ==
    /\ specimen = None
    /\ document = None
    /\ made = None
    /\ signed = {}

-----------------------------------------------------------------------------
(* The caller's key, document and arguments come and go together.          *)
PresentationTypeOK ==
    /\ document = None <=> made = None
    /\ document = None <=> specimen = None
    /\ made \in Presentations \union {None}
    /\ Cardinality(signed) <= MaxSignatures

(* Each claim is in the document, and its digest in what the issuer signed. *)
Covered(a, doc) ==
    \A s \in DOMAIN a.claims : \A i \in DOMAIN a.claims[s] :
        \E item \in {doc.nameSpaces[s][j] : j \in DOMAIN doc.nameSpaces[s]} :
            /\ item.id = a.claims[s][i].id /\ item.value = a.claims[s][i].value
            /\ item.digestID \in DOMAIN doc.mso.valueDigests[s]
            /\ doc.mso.valueDigests[s][item.digestID] = item

(* The self-checks cover the two signatures only.  A specimen they let     *)
(* through is nevertheless whole: every claim is there, with its own       *)
(* digest under its own id in what the issuer signed; the embedded         *)
(* certificate and the returned public key are those of the signature;     *)
(* and a device signature passes for encodings of a transcript only that   *)
(* its device key has signed with its own doctype and device map           *)
(* (testing.py:160-204, 280-377).                                          *)
SpecimenIsWhole ==
    document # None =>
        /\ Covered(made, document)
        /\ Verifies(specimen.issuer_public_key, document.mso, document.issuerSignature)
        /\ document.x5chain = specimen.issuer_public_key
        /\ \A t \in Transcripts :
            verify_device_authentication(document, t) =>
                Sign(specimen.device_key, DeviceAuthenticationBytes(
                        t, made.doc_type, DeviceMap(made))) \in signed

(* Why: only the device signature of the document ever changes, and every  *)
(* one it had is kept in signed.  The inductive form of the above.         *)
Presented ==
    IF document = None
    THEN made = None /\ specimen = None /\ signed = {}
    ELSE /\ made \in Presentations /\ Created(made) /\ specimen = Specimen(made)
         /\ \E k \in Keys, t \in Transcripts, m \in DeviceMaps : document = Signed(made, k, t, m)
         /\ document.deviceSignature \in signed
         /\ IsFiniteSet(signed) /\ Cardinality(signed) <= MaxSignatures
=============================================================================
