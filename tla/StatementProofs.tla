--------------------------- MODULE StatementProofs ---------------------------
(* Proofs about Presentation and Statement, for any keys, presentations and *)
(* requests.                                                               *)
EXTENDS Statement, FiniteSetTheorems, TLAPS

-----------------------------------------------------------------------------
(* What create_presentation makes of its arguments.                        *)

(* Whichever arguments are left to their defaults, keys are keys and the   *)
(* device map is one.                                                      *)
LEMMA Defaults ==
  ASSUME NEW a \in Presentations
  PROVE  /\ IssuerKey(a) \in Keys /\ DeviceKey(a) \in Keys /\ Certificate(a) \in Keys
         /\ DeviceMap(a) \in DeviceMaps
         /\ a.doc_type \in Texts /\ a.transcript \in Transcripts
  BY PresentationAssumption DEF Arguments, IssuerKey, DeviceKey, Certificate, DeviceMap

(* Every claim is an item, under an id with which the MSO has its digest.  *)
LEMMA ItemsAndDigests ==
  ASSUME NEW claims, \A n \in DOMAIN claims : claims[n] \in Seq(Elements),
         NEW s \in DOMAIN claims, NEW i \in DOMAIN claims[s]
  PROVE  /\ s \in DOMAIN Items(claims) /\ s \in DOMAIN Digests(claims)
         /\ i \in DOMAIN Items(claims)[s]
         /\ Items(claims)[s][i] =
                [digestID |-> i - 1, id |-> claims[s][i].id, value |-> claims[s][i].value]
         /\ i - 1 \in DOMAIN Digests(claims)[s]
         /\ Digests(claims)[s][i - 1] = Items(claims)[s][i]
<1>1. claims[s] \in Seq(Elements) /\ i \in 1 .. Len(claims[s]) /\ Len(claims[s]) \in Nat
  OBVIOUS
<1>2. claims[s] # <<>>
  BY <1>1
<1>3. s \in Spaces(claims)
  BY <1>2 DEF Spaces
<1>4. /\ DOMAIN Items(claims) = Spaces(claims) /\ DOMAIN Items(claims)[s] = DOMAIN claims[s]
      /\ Items(claims)[s][i] =
                [digestID |-> i - 1, id |-> claims[s][i].id, value |-> claims[s][i].value]
  BY <1>3 DEF Items
<1>5. /\ DOMAIN Digests(claims) = Spaces(claims)
      /\ Digests(claims)[s] = [d \in 0 .. Len(claims[s]) - 1 |-> Items(claims)[s][d + 1]]
  BY <1>3 DEF Digests
<1>6. i - 1 \in 0 .. Len(claims[s]) - 1 /\ (i - 1) + 1 = i
  BY <1>1
<1> QED
  BY <1>3, <1>4, <1>5, <1>6

(* Only claims are items. *)
LEMMA ItemsOnlyOfClaims ==
  ASSUME NEW claims, NEW s \in DOMAIN Items(claims), NEW i \in DOMAIN Items(claims)[s]
  PROVE  s \in DOMAIN claims /\ i \in DOMAIN claims[s]
  BY DEF Items, Spaces

(* A device signature replaces nothing else of a document. *)
LEMMA SignedFields ==
  ASSUME NEW a, NEW k, NEW t, NEW m
  PROVE  LET d == Signed(a, k, t, m)
         IN  /\ d.docType = a.doc_type /\ d.nameSpaces = Items(a.claims)
             /\ d.x5chain = Certificate(a) /\ d.mso = Mso(a)
             /\ d.issuerSignature = Sign(IssuerKey(a), Mso(a))
             /\ d.deviceNameSpaces = DeviceMap(a)
             /\ d.deviceSignature = sign_device_authentication(k, t, a.doc_type, m)
  BY DEF Signed, Document

LEMMA SignedAgain ==
  ASSUME NEW a, NEW k, NEW t, NEW m, NEW k2, NEW t2, NEW m2
  PROVE  [Signed(a, k, t, m) EXCEPT !.deviceSignature =
            sign_device_authentication(k2, t2, Signed(a, k, t, m).docType, m2)]
         = Signed(a, k2, t2, m2)
  BY DEF Signed, Document

LEMMA SignedFirst ==
  ASSUME NEW a
  PROVE  Document(a) = Signed(a, DeviceKey(a), a.transcript, DeviceMap(a))
  BY DEF Signed, Document

(* The self-check of the issuer's signature forces the certificate. *)
LEMMA CertificateIsIssuers ==
  ASSUME NEW a, Created(a)
  PROVE  Certificate(a) = IssuerKey(a)
<1>1. Verifies(Document(a).x5chain, Document(a).mso, Document(a).issuerSignature)
  BY DEF Created, IssuerAuthChecks
<1>2. Sign(IssuerKey(a), Mso(a)) = Sign(Certificate(a), Mso(a))
  BY <1>1 DEF Verifies, Document
<1> QED
  BY <1>2 DEF Sign

-----------------------------------------------------------------------------
(* The document and its signatures.                                        *)
LEMMA InitPresented == PresentationInit => Presented
  BY DEF PresentationInit, Presented

LEMMA CreatePresented ==
  ASSUME NEW a \in Presentations, Presented, CreatePresentation(a)
  PROVE  Presented'
<1>1. /\ document' = Document(a) /\ specimen' = Specimen(a) /\ made' = a
      /\ signed' = {Document(a).deviceSignature} /\ Created(a)
  BY DEF CreatePresentation
<1>2. document' = Signed(a, DeviceKey(a), a.transcript, DeviceMap(a))
  BY <1>1, SignedFirst
<1>3. document' # None
  BY <1>1, <1>2, Defaults, RecordsAssumption
<1>4. IsFiniteSet(signed') /\ Cardinality(signed') <= MaxSignatures
  <2>1. IsFiniteSet({Document(a).deviceSignature}) /\ Cardinality({Document(a).deviceSignature}) = 1
    BY FS_Singleton, Zenon
  <2>2. IsFiniteSet(signed') /\ Cardinality(signed') = 1
    BY <1>1, <2>1, Zenon
  <2> QED
    BY <2>2, PresentationAssumption
<1>5. \E k \in Keys, t \in Transcripts, m \in DeviceMaps : document' = Signed(a, k, t, m)
  BY <1>2, Defaults
<1> QED
  BY <1>1, <1>3, <1>4, <1>5 DEF Presented

LEMMA SignAgainPresented ==
  ASSUME NEW k \in Keys, NEW t \in Transcripts, NEW m \in DeviceMaps,
         Presented, SignAgain(k, t, m)
  PROVE  Presented'
<1> DEFINE signature == sign_device_authentication(k, t, document.docType, m)
<1>1. /\ document # None /\ Cardinality(signed) < MaxSignatures
      /\ document' = [document EXCEPT !.deviceSignature = signature]
      /\ signed' = signed \union {signature}
      /\ specimen' = specimen /\ made' = made
  BY DEF SignAgain
<1>2. /\ made \in Presentations /\ Created(made) /\ specimen = Specimen(made)
      /\ IsFiniteSet(signed)
  BY <1>1 DEF Presented
<1>3. PICK k1 \in Keys, t1 \in Transcripts, m1 \in DeviceMaps : document = Signed(made, k1, t1, m1)
  BY <1>1 DEF Presented
<1>4. document' = Signed(made, k, t, m)
  BY <1>1, <1>3, SignedAgain
<1>5. document' # None
  BY <1>2, <1>4, RecordsAssumption
<1>6. document'.deviceSignature \in signed'
  <2>1. document.docType = made.doc_type
    BY <1>3, SignedFields
  <2>2. document'.deviceSignature = signature
    BY <1>4, <2>1, SignedFields
  <2> QED
    BY <1>1, <2>2
<1>7. IsFiniteSet(signed') /\ Cardinality(signed') <= MaxSignatures
  <2>1. Cardinality(signed) \in Nat
    BY <1>2, FS_CardinalityType
  <2>2. /\ IsFiniteSet(signed \union {signature})
        /\ Cardinality(signed \union {signature}) =
                IF signature \in signed THEN Cardinality(signed) ELSE Cardinality(signed) + 1
    BY <1>2, FS_AddElement, Zenon
  <2>3. Cardinality(signed \union {signature}) <= Cardinality(signed) + 1
    BY <2>1, <2>2
  <2>4. Cardinality(signed \union {signature}) <= MaxSignatures
    <3>1. Cardinality(signed \union {signature}) \in Nat
      BY <2>1, <2>2
    <3> QED
      BY <1>1, <2>1, <2>3, <3>1, PresentationAssumption
  <2> QED
    BY <1>1, <2>2, <2>4, Zenon
<1> QED
  BY <1>1, <1>2, <1>4, <1>5, <1>6, <1>7 DEF Presented

(* What the rest needs of a document that is presented. *)
LEMMA PresentedFields ==
  ASSUME Presented, document # None
  PROVE  /\ made \in Presentations /\ Created(made) /\ specimen = Specimen(made)
         /\ document.docType = made.doc_type /\ document.nameSpaces = Items(made.claims)
         /\ document.x5chain = IssuerKey(made) /\ document.mso = Mso(made)
         /\ document.issuerSignature = Sign(IssuerKey(made), Mso(made))
         /\ document.deviceNameSpaces = DeviceMap(made)
         /\ document.deviceSignature \in signed
<1>1. /\ made \in Presentations /\ Created(made) /\ specimen = Specimen(made)
      /\ document.deviceSignature \in signed
  BY DEF Presented
<1>2. PICK k \in Keys, t \in Transcripts, m \in DeviceMaps : document = Signed(made, k, t, m)
  BY DEF Presented
<1> QED
  BY <1>1, <1>2, SignedFields, CertificateIsIssuers

LEMMA ClaimsAreSequences ==
  ASSUME NEW a \in Presentations
  PROVE  \A s \in DOMAIN a.claims : a.claims[s] \in Seq(Elements)
  BY PresentationAssumption DEF Arguments

LEMMA PresentedIsWhole == Presented => SpecimenIsWhole
<1> SUFFICES ASSUME Presented, document # None
             PROVE  /\ Covered(made, document)
                    /\ Verifies(specimen.issuer_public_key, document.mso, document.issuerSignature)
                    /\ document.x5chain = specimen.issuer_public_key
                    /\ \A t \in Transcripts :
                        verify_device_authentication(document, t) =>
                            Sign(specimen.device_key, DeviceAuthenticationBytes(
                                    t, made.doc_type, DeviceMap(made))) \in signed
  BY DEF SpecimenIsWhole
<1>1. Covered(made, document)
  <2> SUFFICES ASSUME NEW s \in DOMAIN made.claims, NEW i \in DOMAIN made.claims[s]
               PROVE  \E item \in {document.nameSpaces[s][j] : j \in DOMAIN document.nameSpaces[s]} :
                        /\ item.id = made.claims[s][i].id /\ item.value = made.claims[s][i].value
                        /\ item.digestID \in DOMAIN document.mso.valueDigests[s]
                        /\ document.mso.valueDigests[s][item.digestID] = item
    BY DEF Covered
  <2> DEFINE item == Items(made.claims)[s][i]
  <2>1. document.nameSpaces = Items(made.claims) /\ document.mso.valueDigests = Digests(made.claims)
    BY PresentedFields DEF Mso
  <2>2. /\ i \in DOMAIN Items(made.claims)[s]
        /\ item = [digestID |-> i - 1, id |-> made.claims[s][i].id, value |-> made.claims[s][i].value]
        /\ i - 1 \in DOMAIN Digests(made.claims)[s]
        /\ Digests(made.claims)[s][i - 1] = item
    BY PresentedFields, ClaimsAreSequences, ItemsAndDigests
  <2>3. /\ item.id = made.claims[s][i].id /\ item.value = made.claims[s][i].value
        /\ item.digestID = i - 1
    BY <2>2
  <2> HIDE DEF item
  <2>4. item \in {document.nameSpaces[s][j] : j \in DOMAIN document.nameSpaces[s]}
    BY <2>1, <2>2 DEF item
  <2> QED
    BY <2>1, <2>2, <2>3, <2>4
<1>2. /\ Verifies(specimen.issuer_public_key, document.mso, document.issuerSignature)
      /\ document.x5chain = specimen.issuer_public_key
  BY PresentedFields DEF Specimen, Verifies
<1>3. ASSUME NEW t \in Transcripts, verify_device_authentication(document, t)
      PROVE  Sign(specimen.device_key, DeviceAuthenticationBytes(
                    t, made.doc_type, DeviceMap(made))) \in signed
  <2>1. document.deviceSignature =
            Sign(document.mso.deviceKey,
                 DeviceAuthenticationBytes(t, document.docType, document.deviceNameSpaces))
    BY <1>3 DEF verify_device_authentication, Verifies
  <2>2. document.mso.deviceKey = DeviceKey(made) /\ specimen.device_key = DeviceKey(made)
    BY PresentedFields DEF Mso, Specimen
  <2> QED
    BY <2>1, <2>2, PresentedFields
<1> QED
  BY <1>1, <1>2, <1>3

LEMMA PresentedTyped == Presented => PresentationTypeOK
<1>0. MaxSignatures \in Nat
  BY PresentationAssumption
<1>1. CASE document = None
  BY <1>0, <1>1, FS_EmptySet DEF Presented, PresentationTypeOK
<1>2. ASSUME Presented, document # None PROVE PresentationTypeOK
  <2>1. made \in Presentations /\ Created(made) /\ specimen = Specimen(made)
    BY <1>2, PresentedFields
  <2>2. made # None /\ specimen # None
    BY <2>1, PresentationAssumption, RecordsAssumption
  <2> QED
    BY <1>2, <2>1, <2>2 DEF Presented, PresentationTypeOK
<1> QED
  BY <1>1, <1>2

-----------------------------------------------------------------------------
(* Rendering a moment.                                                     *)
LEMMA Rendered ==
  ASSUME NEW d \in Moments, d.zone # Naive
  PROVE  /\ Utc(d) \in Int
         /\ HasOffset(d) => Utc(d) = Instant(d)
  BY PresentationAssumption DEF Moments, Utc, HasOffset, Instant

LEMMA Bounds ==
  ASSUME NEW a \in Presentations, Created(a)
  PROVE  /\ a.valid_from \in Moments /\ a.valid_from.zone # Naive
         /\ a.valid_until \in Moments /\ a.valid_until.zone # Naive
  BY PresentationAssumption DEF Arguments, Created

(* The claims of a request are a sequence of records. *)
LEMMA RequestFields ==
  ASSUME NEW r \in Requests
  PROVE  /\ r.claims \in Seq(Claims) /\ DOMAIN r.claims = 1 .. Len(r.claims)
         /\ Len(r.claims) \in Nat /\ r.count \in Nat
         /\ r.key \in Keys /\ r.transcript \in Transcripts
         /\ r.time \in Moments /\ r.doctype \in Texts /\ Bytes[r.doctype] \in Nat
         /\ r.device_namespaces \in DeviceMaps \union {None}
  BY StatementAssumption

-----------------------------------------------------------------------------
(* The verifiers agree.                                                    *)

(* About the empty device map, and a doctype C has room for, the two       *)
(* verifiers compare a proof with the same statement.                      *)
LEMMA SameStatement ==
  ASSUME NEW r \in Requests, r.device_namespaces = EmptyMap, Bytes[r.doctype] < 256
  PROVE  GoogleVerifies(r) = IsrgVerifies(r)
<1>1. ~(Bytes[r.doctype] >= 256)
  BY RequestFields
<1> QED
  BY <1>1 DEF GoogleVerifies, IsrgVerifies, GoogleTime, IsrgTime

LEMMA Agreement == BackendsAgree
<1> SUFFICES ASSUME NEW r \in Requests, r.device_namespaces = EmptyMap,
                    \A b \in Backends : ~Refused(b, "verify", r) /\ ~Undefined(b, r)
             PROVE  Verdicts("google-cpp", proof, r) = Verdicts("isrg-rust", proof, r)
  BY DEF BackendsAgree
<1>1. "google-cpp" \in Backends /\ "isrg-rust" \in Backends
  BY DEF Backends
<1>2. Bytes[r.doctype] < 256
  BY <1>1, RequestFields DEF Refused, GoogleRefuses
<1>3. Verifying("google-cpp", r) = Verifying("isrg-rust", r)
  BY <1>2, SameStatement DEF Verifying
<1> QED
  BY <1>1, <1>3 DEF Verdicts

-----------------------------------------------------------------------------
(* What an accepted verification means.                                    *)
LEMMA AcceptedIsMeant ==
  ASSUME Presented, document # None, proof # None, proof.doc = document,
         NEW b \in Backends, NEW r \in Requests, Offset(r),
         "accepted" \in Verdicts(b, proof, r)
  PROVE  Meant(b, r)
<1> DEFINE s == Verifying(b, r)
<1>1. HasOffset(r.time) /\ r.time.zone # Naive /\ Instant(r.time) >= FourDigits
  BY DEF Offset, HasOffset
<1>2. Utc(r.time) = Instant(r.time) /\ Utc(r.time) \in Int
  BY <1>1, Rendered, RequestFields
<1>3. ~Refused(b, "verify", r)
  BY DEF Verdicts
<1>4. ~Undefined(b, r)
  <2>1. ~Unpadded(r.time)
    BY <1>1, <1>2, StatementAssumption DEF Unpadded
  <2>2. b = "google-cpp" => Fits(r.claims)
    BY <1>3 DEF Refused, GoogleRefuses
  <2> QED
    BY <2>1, <2>2 DEF Undefined
<1>5. Holds(document, s)
  BY <1>3, <1>4 DEF Verdicts
<1>6. /\ s.key = r.key /\ s.transcript = r.transcript /\ s.attrs = Attributes(r.claims)
      /\ s.time = Instant(r.time) /\ s.docType = r.doctype
      /\ s.nameSpaces = IF b = "google-cpp" THEN EmptyMap ELSE r.device_namespaces
  <2>1. CASE b = "google-cpp"
    <3>1. ~(Bytes[r.doctype] >= 256)
      BY <1>3, <2>1 DEF Refused, GoogleRefuses
    <3> QED
      BY <1>2, <2>1, <3>1 DEF Verifying, GoogleVerifies, GoogleTime
  <2>2. CASE b # "google-cpp"
    BY <1>2, <2>2 DEF Verifying, IsrgVerifies, IsrgTime
  <2> QED
    BY <2>1, <2>2
<1> HIDE DEF s
<1>7. r.key = IssuerKey(made)
  <2>1. Sign(IssuerKey(made), Mso(made)) = Sign(s.key, Mso(made))
    BY <1>5, PresentedFields DEF Holds, Verifies
  <2> QED
    BY <1>6, <2>1 DEF Sign
<1>8. r.doctype = made.doc_type
  BY <1>5, <1>6, PresentedFields DEF Holds, Mso
<1>9. ASSUME NEW i \in DOMAIN r.claims
      PROVE  \E n \in DOMAIN made.claims : \E j \in DOMAIN made.claims[n] :
                made.claims[n][j] = [id |-> r.claims[i].id, value |-> r.claims[i].value]
  <2>1. DOMAIN s.attrs = DOMAIN r.claims
    BY <1>6 DEF Attributes
  <2>2. s.attrs[i] = [id |-> r.claims[i].id, value |-> r.claims[i].value]
    BY <1>6 DEF Attributes
  <2>3. PICK n \in DOMAIN document.nameSpaces : \E x \in Issued(document, n) :
                s.attrs[i] = [id |-> x.id, value |-> x.value]
    BY <1>5, <2>1 DEF Holds
  <2>4. PICK j \in DOMAIN document.nameSpaces[n] :
                s.attrs[i] = [id |-> document.nameSpaces[n][j].id,
                              value |-> document.nameSpaces[n][j].value]
    BY <2>3 DEF Issued
  <2>5. document.nameSpaces = Items(made.claims)
    BY PresentedFields
  <2>6. n \in DOMAIN made.claims /\ j \in DOMAIN made.claims[n]
    BY <2>5, ItemsOnlyOfClaims
  <2>7. \A m \in DOMAIN made.claims : made.claims[m] \in Seq(Elements)
    BY PresentedFields, ClaimsAreSequences
  <2>8. Items(made.claims)[n][j] =
            [digestID |-> j - 1, id |-> made.claims[n][j].id, value |-> made.claims[n][j].value]
    BY <2>6, <2>7, ItemsAndDigests
  <2>9. /\ r.claims[i].id = made.claims[n][j].id
        /\ r.claims[i].value = made.claims[n][j].value
    BY <2>2, <2>4, <2>5, <2>8
  <2>10. made.claims[n][j] \in Elements
    BY <2>6, <2>7
  <2>11. made.claims[n][j] = [id |-> r.claims[i].id, value |-> r.claims[i].value]
    BY <2>9, <2>10 DEF Elements
  <2> QED
    BY <2>6, <2>11
<1>10. /\ HasOffset(made.valid_from) => Instant(made.valid_from) <= Instant(r.time)
       /\ HasOffset(made.valid_until) => Instant(r.time) <= Instant(made.valid_until)
  <2>1. Utc(made.valid_from) <= Instant(r.time) /\ Instant(r.time) <= Utc(made.valid_until)
    BY <1>5, <1>6, PresentedFields DEF Holds, Within, Mso
  <2> QED
    BY <2>1, PresentedFields, Bounds, Rendered
<1>11. Session(r.transcript, IF b = "google-cpp" THEN EmptyMap
                             ELSE r.device_namespaces) \in signed
  <2>1. document.deviceSignature =
            Sign(DeviceKey(made), [transcript |-> s.transcript, docType |-> s.docType,
                                   nameSpaces |-> s.nameSpaces])
    BY <1>5, PresentedFields DEF Holds, Verifies, Mso
  <2>2. document.deviceSignature =
            Session(r.transcript, IF b = "google-cpp" THEN EmptyMap ELSE r.device_namespaces)
    BY <1>6, <1>8, <2>1 DEF Session
  <2> QED
    BY <2>2, PresentedFields
<1> QED
  BY <1>7, <1>8, <1>9, <1>10, <1>11 DEF Meant

-----------------------------------------------------------------------------
(* What becomes of a request that matches the document.                    *)

(* The public statement such a request is about, on either backend. *)
Public(r) ==
    [key |-> IssuerKey(made), transcript |-> r.transcript, attrs |-> Attributes(r.claims),
     time |-> Instant(r.time), docType |-> made.doc_type, nameSpaces |-> DeviceMap(made),
     count |-> r.count]

LEMMA MatchingFits ==
  ASSUME Presented, document # None, NEW b \in Backends, NEW r \in Requests,
         Matches(r), Suits(b, r), NEW op \in {"prove", "verify"}
  PROVE  /\ ~Refused(b, op, r) /\ ~Undefined(b, r) /\ Fits(r.claims)
         /\ Utc(r.time) = Instant(r.time)
<1>1. /\ HasOffset(r.time) /\ r.time.zone # Naive /\ Instant(r.time) >= FourDigits
      /\ Utc(r.time) \in Calendar /\ Curve[r.key] = "P-256" /\ Len(r.claims) = r.count
  BY DEF Matches, Offset, HasOffset
<1>2. Utc(r.time) = Instant(r.time) /\ Utc(r.time) \in Int
  BY <1>1, Rendered, RequestFields
<1>3. Fits(r.claims)
  BY DEF Suits
<1>4. ~Unpadded(r.time)
  BY <1>1, <1>2, StatementAssumption DEF Unpadded
<1>5. b = "google-cpp" => ~GoogleRefuses(op, r)
  BY <1>1, <1>3, RequestFields DEF GoogleRefuses, Suits
<1>6. b = "isrg-rust" => ~IsrgRefuses(op, r)
  <2>1. DeviceMap(made) # None
    BY PresentedFields, Defaults, PresentationAssumption
  <2> QED
    BY <1>1, <2>1 DEF IsrgRefuses, Suits
<1> QED
  BY <1>1, <1>2, <1>3, <1>4, <1>5, <1>6 DEF Refused, Undefined

(* The item of a claim, the only one of its identifier in its namespace. *)
LEMMA ClaimIsIssued ==
  ASSUME Presented, document # None, NEW r \in Requests, Matches(r), NEW i \in DOMAIN r.claims
  PROVE  LET n == r.claims[i].namespace IN
         /\ n \in DOMAIN document.nameSpaces
         /\ \E x \in Issued(document, n) :
            /\ x.id = r.claims[i].id /\ x.value = r.claims[i].value
            /\ x.digestID \in DOMAIN document.mso.valueDigests[n]
            /\ document.mso.valueDigests[n][x.digestID] = x
            /\ \A y \in Issued(document, n) : y.id = r.claims[i].id => y = x
<1> DEFINE n == r.claims[i].namespace
<1>1. n \in DOMAIN made.claims
  BY DEF Matches
<1>2. PICK j \in DOMAIN made.claims[n] :
        made.claims[n][j] = [id |-> r.claims[i].id, value |-> r.claims[i].value]
  BY DEF Matches
<1> HIDE DEF n
<1>3. /\ document.nameSpaces = Items(made.claims)
      /\ document.mso.valueDigests = Digests(made.claims)
  BY PresentedFields DEF Mso
<1>4. \A s \in DOMAIN made.claims : made.claims[s] \in Seq(Elements)
  BY PresentedFields, ClaimsAreSequences
<1>5. /\ n \in DOMAIN Items(made.claims) /\ j \in DOMAIN Items(made.claims)[n]
      /\ Items(made.claims)[n][j] =
            [digestID |-> j - 1, id |-> made.claims[n][j].id, value |-> made.claims[n][j].value]
      /\ j - 1 \in DOMAIN Digests(made.claims)[n]
      /\ Digests(made.claims)[n][j - 1] = Items(made.claims)[n][j]
  BY <1>1, <1>4, ItemsAndDigests
<1> DEFINE x == Items(made.claims)[n][j]
<1>6. x.id = r.claims[i].id /\ x.value = r.claims[i].value /\ x.digestID = j - 1
  BY <1>2, <1>5
<1>7. x \in Issued(document, n)
  BY <1>3, <1>5 DEF Issued
<1>8. ASSUME NEW y \in Issued(document, n), y.id = r.claims[i].id
      PROVE  y = x
  <2>1. PICK k \in DOMAIN Items(made.claims)[n] : y = Items(made.claims)[n][k]
    BY <1>3, <1>5 DEF Issued
  <2>2. k \in DOMAIN made.claims[n]
    BY <1>5, ItemsOnlyOfClaims
  <2>3. Items(made.claims)[n][k] =
            [digestID |-> k - 1, id |-> made.claims[n][k].id, value |-> made.claims[n][k].value]
    BY <1>1, <1>4, <2>2, ItemsAndDigests
  <2>4. made.claims[n][k].id = made.claims[n][j].id
    BY <1>2, <1>8, <2>1, <2>3
  <2>5. k = j
    BY <1>1, <2>2, <2>4, PresentedFields, PresentationAssumption DEF Arguments
  <2> QED
    BY <2>1, <2>5
<1> HIDE DEF x
<1>9. /\ x.digestID \in DOMAIN document.mso.valueDigests[n]
      /\ document.mso.valueDigests[n][x.digestID] = x
  BY <1>3, <1>5, <1>6 DEF x
<1> QED
  BY <1>3, <1>5, <1>6, <1>7, <1>8, <1>9 DEF n

LEMMA OneNamespace ==
  ASSUME NEW r \in Requests, Cardinality(Namespaces(r.claims)) = 1, NEW i \in DOMAIN r.claims
  PROVE  r.claims[i].namespace = r.claims[1].namespace
<1> DEFINE f == [k \in DOMAIN r.claims |-> r.claims[k].namespace]
<1>1. DOMAIN r.claims = 1 .. Len(r.claims) /\ Len(r.claims) \in Nat
  BY RequestFields
<1>2. 1 \in DOMAIN r.claims
  BY <1>1
<1>3. IsFiniteSet(DOMAIN r.claims)
  BY <1>1, FS_Interval
<1>4. f \in Surjection(DOMAIN r.claims, Namespaces(r.claims))
  BY DEF Surjection, Namespaces
<1>5. IsFiniteSet(Namespaces(r.claims))
  BY <1>3, <1>4, FS_Surjection, Zenon
<1>6. PICK s : Namespaces(r.claims) = {s}
  BY <1>5, FS_Singleton, Zenon
<1>7. r.claims[i].namespace \in Namespaces(r.claims) /\ r.claims[1].namespace \in Namespaces(r.claims)
  BY <1>2 DEF Namespaces
<1> QED
  BY <1>6, <1>7

(* Both verifiers compare a proof with that statement. *)
LEMMA VerifyingIsPublic ==
  ASSUME Presented, document # None, NEW b \in Backends, NEW r \in Requests,
         Matches(r), Suits(b, r)
  PROVE  Verifying(b, r) = Public(r)
<1>1. /\ Utc(r.time) = Instant(r.time)
      /\ r.key = IssuerKey(made) /\ r.doctype = made.doc_type
  BY MatchingFits DEF Matches
<1>2. CASE b = "google-cpp"
  <2>1. DeviceMap(made) = EmptyMap /\ ~(Bytes[r.doctype] >= 256)
    BY <1>2, RequestFields DEF Suits
  <2> QED
    BY <1>1, <1>2, <2>1 DEF Verifying, GoogleVerifies, GoogleTime, Public
<1>3. CASE b # "google-cpp"
  <2>1. r.device_namespaces = DeviceMap(made)
    BY <1>3 DEF Suits
  <2> QED
    BY <1>1, <1>3, <2>1 DEF Verifying, IsrgVerifies, IsrgTime, Public
<1> QED
  BY <1>2, <1>3

(* Both provers are asked for it: isrg-rust, which is told neither key nor *)
(* values, finds the same ones in the document.                            *)
LEMMA ProvingIsPublic ==
  ASSUME Presented, document # None, NEW b \in Backends, NEW r \in Requests,
         Matches(r), Suits(b, r)
  PROVE  Proving(b, document, r) = Public(r)
<1>1. /\ Utc(r.time) = Instant(r.time) /\ r.key = IssuerKey(made)
      /\ document.docType = made.doc_type /\ document.x5chain = IssuerKey(made)
      /\ document.deviceNameSpaces = DeviceMap(made)
  BY MatchingFits, PresentedFields DEF Matches
<1>2. CASE b = "google-cpp"
  <2>1. DeviceMap(made) = EmptyMap
    BY <1>2 DEF Suits
  <2> QED
    BY <1>1, <1>2, <2>1 DEF Proving, GoogleProves, GoogleTime, Public
<1>3. CASE b # "google-cpp"
  <2> DEFINE item(i) == CHOOSE x \in Issued(document, r.claims[1].namespace) : x.id = r.claims[i].id
  <2>1. ASSUME NEW i \in DOMAIN r.claims
        PROVE  item(i).id = r.claims[i].id /\ item(i).value = r.claims[i].value
    <3>1. r.claims[i].namespace = r.claims[1].namespace
      BY <1>3, OneNamespace DEF Suits
    <3>2. PICK x \in Issued(document, r.claims[1].namespace) :
            /\ x.id = r.claims[i].id /\ x.value = r.claims[i].value
            /\ \A y \in Issued(document, r.claims[1].namespace) : y.id = r.claims[i].id => y = x
      BY <3>1, ClaimIsIssued
    <3>3. item(i) = x
      BY <3>2
    <3> QED
      BY <3>2, <3>3
  <2>2. [i \in DOMAIN r.claims |-> [id |-> item(i).id, value |-> item(i).value]] =
            Attributes(r.claims)
    BY <2>1 DEF Attributes
  <2> QED
    BY <1>1, <1>3, <2>2 DEF Proving, IsrgProves, IsrgTime, Public
<1> QED
  BY <1>2, <1>3

LEMMA MatchingWithin ==
  ASSUME Presented, document # None, NEW r \in Requests, Matches(r)
  PROVE  Within(document, Instant(r.time))
<1>1. /\ HasOffset(made.valid_from) /\ Instant(made.valid_from) < Instant(r.time)
      /\ HasOffset(made.valid_until) /\ Instant(r.time) < Instant(made.valid_until)
      /\ r.time \in Moments /\ r.time.zone # Naive /\ HasOffset(r.time)
  BY RequestFields DEF Matches, Offset, HasOffset
<1>2. /\ Utc(made.valid_from) = Instant(made.valid_from) /\ Utc(made.valid_from) \in Int
      /\ Utc(made.valid_until) = Instant(made.valid_until) /\ Utc(made.valid_until) \in Int
  BY <1>1, PresentedFields, Bounds, Rendered
<1>3. Instant(r.time) \in Int
  BY <1>1, Rendered
<1>4. document.mso.validFrom = Utc(made.valid_from) /\ document.mso.validUntil = Utc(made.valid_until)
  BY PresentedFields DEF Mso
<1> QED
  BY <1>1, <1>2, <1>3, <1>4 DEF Within

LEMMA PublicHolds ==
  ASSUME Presented, document # None, NEW r \in Requests, Matches(r)
  PROVE  Holds(document, Public(r))
<1> DEFINE s == Public(r)
<1>1. /\ s.key = IssuerKey(made) /\ s.transcript = r.transcript
      /\ s.attrs = Attributes(r.claims) /\ s.time = Instant(r.time)
      /\ s.docType = made.doc_type /\ s.nameSpaces = DeviceMap(made) /\ s.count = r.count
  BY DEF Public
<1> HIDE DEF s
<1>2. Curve[s.key] = "P-256" /\ Verifies(s.key, document.mso, document.issuerSignature)
  BY <1>1, PresentedFields DEF Matches, Verifies
<1>3. document.mso.docType = s.docType /\ document.mso.deviceKey = DeviceKey(made)
  BY <1>1, PresentedFields DEF Mso
<1>4. Within(document, s.time)
  BY <1>1, MatchingWithin
<1>5. Len(s.attrs) = s.count
  <2>1. /\ DOMAIN r.claims = 1 .. Len(r.claims) /\ Len(r.claims) \in Nat
        /\ Len(r.claims) = r.count
    BY RequestFields DEF Matches
  <2>2. s.attrs = [i \in 1 .. Len(r.claims) |->
                        [id |-> r.claims[i].id, value |-> r.claims[i].value]]
    BY <1>1, <2>1 DEF Attributes
  <2> QED
    BY <1>1, <2>1, <2>2
<1>6. ASSUME NEW i \in DOMAIN s.attrs
      PROVE  \E n \in DOMAIN document.nameSpaces : \E x \in Issued(document, n) :
                /\ s.attrs[i] = [id |-> x.id, value |-> x.value]
                /\ x.digestID \in DOMAIN document.mso.valueDigests[n]
                /\ document.mso.valueDigests[n][x.digestID] = x
  <2>1. i \in DOMAIN r.claims
        /\ s.attrs[i] = [id |-> r.claims[i].id, value |-> r.claims[i].value]
    BY <1>1 DEF Attributes
  <2> QED
    BY <2>1, ClaimIsIssued
<1>7. Verifies(document.mso.deviceKey,
               [transcript |-> s.transcript, docType |-> s.docType, nameSpaces |-> s.nameSpaces],
               document.deviceSignature)
  BY <1>1, <1>3 DEF Matches, Session, Verifies
<1> QED
  BY <1>2, <1>3, <1>4, <1>5, <1>6, <1>7 DEF Holds, s

LEMMA MatchingProvable ==
  ASSUME Presented, document # None, NEW b \in Backends, NEW r \in Requests,
         Matches(r), Suits(b, r)
  PROVE  Provable(b, document, r)
<1>1. CASE b = "google-cpp"
  <2>1. Verifies(r.key, document.mso, document.issuerSignature)
    BY PresentedFields DEF Matches, Verifies
  <2>2. Within(document, GoogleTime(r.time))
    BY MatchingFits, MatchingWithin DEF GoogleTime
  <2> QED
    BY <1>1, <2>1, <2>2, ClaimIsIssued DEF Provable
<1>2. CASE b # "google-cpp"
  <2>1. \A i \in DOMAIN r.claims : r.claims[i].namespace = r.claims[1].namespace
    BY <1>2, OneNamespace DEF Suits
  <2> QED
    BY <1>2, <2>1, ClaimIsIssued DEF Provable
<1> QED
  BY <1>1, <1>2

-----------------------------------------------------------------------------
(* The inductive invariant, action by action.                              *)
LEMMA InitIInv == Init => IInv
<1> SUFFICES ASSUME Init PROVE IInv
  OBVIOUS
<1>1. Presented /\ PresentationTypeOK
  BY InitPresented, PresentedTyped DEF Init
<1> QED
  BY <1>1 DEF Init, PresentationInit, IInv, TypeOK, Proven, AcceptedIsPresented, RoundTrip

(* Neither call nor proof is left of what was before. *)
LEMMA AfreshIInv ==
  ASSUME Presented', document' # None, proof' = None, last' = None
  PROVE  IInv'
<1>1. PresentationTypeOK'
  BY PresentedTyped, PTL
<1> QED
  BY <1>1 DEF IInv, TypeOK, Proven, AcceptedIsPresented, RoundTrip

LEMMA CreateIInv ==
  ASSUME IInv, NEW a \in Presentations, Create(a)
  PROVE  IInv'
<1>1. Presented'
  BY CreatePresented DEF IInv, Create
<1>2. document' # None
  BY SignedFirst, Defaults, RecordsAssumption DEF Create, CreatePresentation
<1>3. proof' = None /\ last' = None
  BY DEF Create, CreatePresentation, IInv, Proven
<1> QED
  BY <1>1, <1>2, <1>3, AfreshIInv

LEMMA PresentIInv ==
  ASSUME IInv, NEW s \in Signings, Present(s.key, s.transcript, s.map)
  PROVE  IInv'
<1>1. s.key \in Keys /\ s.transcript \in Transcripts /\ s.map \in DeviceMaps
  BY PresentationAssumption
<1>2. Presented'
  BY <1>1, SignAgainPresented DEF IInv, Present
<1>3. document' # None
  <2>1. document # None /\ made' = made
    BY DEF Present, SignAgain
  <2>2. made # None
    BY <2>1 DEF IInv, TypeOK, PresentationTypeOK
  <2> QED
    BY <1>2, <2>1, <2>2 DEF Presented
<1>4. proof' = None /\ last' = None
  BY DEF Present
<1> QED
  BY <1>2, <1>3, <1>4, AfreshIInv

LEMMA ProveFailsIInv ==
  ASSUME IInv, NEW b \in Backends, NEW r \in Requests, ProveFails(b, r)
  PROVE  IInv'
<1>1. /\ document # None /\ UNCHANGED <<presentationVars, proof>>
      /\ \E result \in {"refused", "rejected"} :
            last' = [op |-> "prove", by |-> b, request |-> r, result |-> result]
  BY DEF ProveFails, Ends
<1>2. UNCHANGED <<specimen, document, made, signed, proof>>
  BY <1>1 DEF presentationVars
<1>3. TypeOK' /\ Presented' /\ Proven'
  BY <1>1, <1>2
  DEF IInv, TypeOK, PresentationTypeOK, Presented, Proven, Results
<1>4. AcceptedIsPresented'
  BY <1>1 DEF AcceptedIsPresented
<1>5. ~(Matches(r) /\ Suits(b, r))
  <2> SUFFICES ASSUME Matches(r), Suits(b, r) PROVE FALSE
    OBVIOUS
  <2>1. Presented
    BY DEF IInv
  <2>2. ~Refused(b, "prove", r) /\ Fits(r.claims)
    BY <1>1, <2>1, MatchingFits
  <2>3. Provable(b, document, r)
    BY <1>1, <2>1, MatchingProvable
  <2>4. Holds(document, Proving(b, document, r))
    BY <1>1, <2>1, ProvingIsPublic, PublicHolds
  <2> QED
    BY <2>2, <2>3, <2>4 DEF ProveFails
<1>6. RoundTrip'
  <2>1. last'.request = r /\ last'.by = b
    BY <1>1
  <2>2. /\ Matches(last.request)' <=> Matches(r)
        /\ Suits(last.by, last.request)' <=> Suits(b, r)
    BY <1>2, <2>1 DEF Matches, Suits, Session
  <2> QED
    BY <1>5, <2>2 DEF RoundTrip
<1> QED
  BY <1>3, <1>4, <1>6 DEF IInv

LEMMA ProvingTyped ==
  ASSUME Presented, document # None, NEW b \in Backends, NEW r \in Requests,
         ~Refused(b, "prove", r)
  PROVE  LET s == Proving(b, document, r)
         IN  s.key \in Keys /\ s.time \in Calendar /\ s.nameSpaces \in DeviceMaps
<1>1. /\ r.key \in Keys /\ Utc(r.time) \in Calendar
      /\ document.x5chain \in Keys /\ document.deviceNameSpaces \in DeviceMaps
  BY RequestFields, PresentedFields, Defaults DEF Refused
<1> QED
  BY <1>1, PresentationAssumption
  DEF Proving, GoogleProves, IsrgProves, GoogleTime, IsrgTime

LEMMA ProveIInv ==
  ASSUME IInv, NEW b \in Backends, NEW r \in Requests, Prove(b, r)
  PROVE  IInv'
<1>1. /\ document # None /\ ~Refused(b, "prove", r)
      /\ proof' = [doc |-> document, statement |-> Proving(b, document, r),
                   by |-> b, asked |-> r]
      /\ last' = [op |-> "prove", by |-> b, request |-> r, result |-> "returned"]
      /\ UNCHANGED <<specimen, document, made, signed>>
  BY DEF Prove, Ends, presentationVars
<1>2. Presented'
  BY <1>1 DEF IInv, Presented
<1>3. TypeOK'
  <2>1. PresentationTypeOK'
    BY <1>1 DEF IInv, TypeOK, PresentationTypeOK
  <2>2. /\ proof'.statement.key \in Keys /\ proof'.statement.time \in Calendar
        /\ proof'.statement.nameSpaces \in DeviceMaps
    BY <1>1, ProvingTyped DEF IInv
  <2> QED
    BY <1>1, <2>1, <2>2 DEF TypeOK, Results
<1>4. Proven'
  BY <1>1 DEF Proven, Proving, GoogleProves, IsrgProves
<1>5. AcceptedIsPresented' /\ RoundTrip'
  BY <1>1 DEF AcceptedIsPresented, RoundTrip
<1> QED
  BY <1>2, <1>3, <1>4, <1>5 DEF IInv

(* A proof of a request that matches, and a verification of the same one,  *)
(* are about one statement, and it holds.                                  *)
LEMMA MatchingIsAccepted ==
  ASSUME Presented, document # None, proof # None, proof.doc = document,
         proof.statement = Proving(proof.by, document, proof.asked),
         proof.by \in Backends, proof.asked \in Requests,
         NEW b \in Backends, NEW r \in Requests, Matches(r), Suits(b, r),
         Matches(proof.asked), Suits(proof.by, proof.asked),
         r = [proof.asked EXCEPT !.time = r.time, !.device_namespaces = r.device_namespaces],
         Instant(r.time) = Instant(proof.asked.time)
  PROVE  Verdicts(b, proof, r) = {"accepted"}
<1>1. ~Refused(b, "verify", r) /\ ~Undefined(b, r)
  BY MatchingFits
<1>2. proof.statement = Public(proof.asked)
  BY ProvingIsPublic
<1>3. Verifying(b, r) = Public(r)
  BY VerifyingIsPublic
<1>4. r.transcript = proof.asked.transcript /\ r.claims = proof.asked.claims
      /\ r.count = proof.asked.count
  BY StatementAssumption
<1>5. Public(r) = Public(proof.asked)
  BY <1>4 DEF Public
<1>6. Holds(document, Public(r))
  BY PublicHolds
<1> QED
  BY <1>1, <1>2, <1>3, <1>5, <1>6 DEF Verdicts

LEMMA VerifyIInv ==
  ASSUME IInv, NEW b \in Backends, NEW r \in Requests, Verify(b, r)
  PROVE  IInv'
<1>1. PICK result \in Verdicts(b, proof, r) :
        last' = [op |-> "verify", by |-> b, request |-> r, result |-> result]
  BY DEF Verify, Ends
<1>2. proof # None /\ UNCHANGED <<specimen, document, made, signed, proof>>
  BY DEF Verify, presentationVars
<1>3. /\ document # None /\ Presented /\ proof.doc = document
      /\ proof.statement = Proving(proof.by, document, proof.asked)
      /\ proof.by \in Backends /\ proof.asked \in Requests
  BY <1>2 DEF IInv, Proven, TypeOK
<1>4. result \in Results
  BY DEF Verdicts, Results
<1>5. TypeOK' /\ Presented' /\ Proven'
  BY <1>1, <1>2, <1>3, <1>4
  DEF IInv, TypeOK, PresentationTypeOK, Presented, Proven
<1>6. AcceptedIsPresented'
  <2>1. result = "accepted" /\ Offset(r) => Meant(b, r)
    BY <1>2, <1>3, AcceptedIsMeant
  <2> QED
    BY <1>1, <1>2, <2>1 DEF AcceptedIsPresented, Meant, Session
<1>7. RoundTrip'
  <2>1. ASSUME Matches(r), Suits(b, r), Matches(proof.asked), Suits(proof.by, proof.asked),
               r = [proof.asked EXCEPT !.time = r.time,
                        !.device_namespaces = r.device_namespaces],
               Instant(r.time) = Instant(proof.asked.time)
        PROVE  result = "accepted"
    BY <1>2, <1>3, <2>1, MatchingIsAccepted
  <2>2. /\ Matches(r)' <=> Matches(r)
        /\ Suits(b, r)' <=> Suits(b, r)
        /\ Matches(proof.asked)' <=> Matches(proof.asked)
        /\ Suits(proof.by, proof.asked)' <=> Suits(proof.by, proof.asked)
    BY <1>2 DEF Matches, Suits, Session
  <2> QED
    BY <1>1, <1>2, <2>1, <2>2 DEF RoundTrip
<1> QED
  BY <1>5, <1>6, <1>7 DEF IInv

LEMMA NextIInv == IInv /\ [Next]_vars => IInv'
<1> SUFFICES ASSUME IInv, [Next]_vars PROVE IInv'
  OBVIOUS
<1>1. ASSUME NEW a \in Presentations, Create(a) PROVE IInv'
  BY <1>1, CreateIInv
<1>2. ASSUME NEW s \in Signings, Present(s.key, s.transcript, s.map) PROVE IInv'
  BY <1>2, PresentIInv
<1>3. ASSUME NEW b \in Backends, NEW r \in Requests, ProveFails(b, r) PROVE IInv'
  BY <1>3, ProveFailsIInv
<1>4. ASSUME NEW b \in Backends, NEW r \in Requests, Prove(b, r) PROVE IInv'
  BY <1>4, ProveIInv
<1>5. ASSUME NEW b \in Backends, NEW r \in Requests, Verify(b, r) PROVE IInv'
  BY <1>5, VerifyIInv
<1>6. CASE UNCHANGED vars
  <2>1. UNCHANGED <<specimen, document, made, signed, proof, last>>
    BY <1>6 DEF vars, presentationVars
  <2>2. TypeOK' /\ Presented' /\ Proven'
    BY <2>1 DEF IInv, TypeOK, PresentationTypeOK, Presented, Proven
  <2>3. AcceptedIsPresented'
    BY <2>1 DEF IInv, AcceptedIsPresented, Meant, Session
  <2>4. RoundTrip'
    <3>1. /\ Matches(last.request)' <=> Matches(last.request)
          /\ Suits(last.by, last.request)' <=> Suits(last.by, last.request)
          /\ Matches(proof.asked)' <=> Matches(proof.asked)
          /\ Suits(proof.by, proof.asked)' <=> Suits(proof.by, proof.asked)
      BY <2>1 DEF Matches, Suits, Session
    <3> QED
      BY <2>1, <3>1 DEF IInv, RoundTrip
  <2> QED
    BY <2>2, <2>3, <2>4 DEF IInv
<1> QED
  BY <1>1, <1>2, <1>3, <1>4, <1>5, <1>6 DEF Next

(* The document on the table is what its arguments make of it under some   *)
(* device signature, and the proof beside it was made for that document.   *)
THEOREM Invariance == Spec => []IInv
  BY InitIInv, NextIInv, PTL DEF Spec

(* Every variable keeps its type; in particular no instant beyond the      *)
(* calendar is put into a statement (TypeOK).                              *)
THEOREM TypeCorrect == Spec => []TypeOK
<1>1. IInv => TypeOK
  BY DEF IInv
<1> QED
  BY <1>1, Invariance, PTL

(* What create_presentation lets through is whole, whatever its claims and *)
(* keys, and stays so when it is signed again (SpecimenIsWhole).           *)
THEOREM SpecimenCorrect == Spec => []SpecimenIsWhole
<1>1. IInv => SpecimenIsWhole
  BY PresentedIsWhole DEF IInv
<1> QED
  BY <1>1, Invariance, PTL

(* Whatever either backend's verifier accepts was issued, and signed by the *)
(* holder's device for the caller's transcript (AcceptedIsPresented).      *)
THEOREM AcceptedCorrect == Spec => []AcceptedIsPresented
<1>1. IInv => AcceptedIsPresented
  BY DEF IInv
<1> QED
  BY <1>1, Invariance, PTL

(* A request that matches the document is proved by either backend, and    *)
(* the proof accepted by either, in whatever zone the moment is written    *)
(* (RoundTrip).                                                            *)
THEOREM RoundTripCorrect == Spec => []RoundTrip
<1>1. IInv => RoundTrip
  BY DEF IInv
<1> QED
  BY <1>1, Invariance, PTL

(* The two verifiers say the same of every proof about an empty device map *)
(* that neither refuses (BackendsAgree).                                   *)
THEOREM AgreementCorrect == Spec => []BackendsAgree
  BY Agreement, PTL
=============================================================================
