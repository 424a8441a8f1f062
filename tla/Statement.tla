------------------------------ MODULE Statement ------------------------------
(***************************************************************************)
(* What prove and verify are about on each backend: the arguments that     *)
(* google_cpp.py and isrg_rust.py refuse, what they hand on of the others, *)
(* and what a proof by one of them means to the verifier of the other.     *)
(* One document is presented; its proofs are made and verified, and it may *)
(* be signed again for another session.                                    *)
(*                                                                         *)
(* The provers and verifiers themselves are external.  A proof is taken to *)
(* be sound and to bind its public statement: it verifies exactly for the  *)
(* statement it was made for, if that statement holds of its document.     *)
(***************************************************************************)
EXTENDS Presentation

CONSTANTS
    Requests,       \* the arguments of prove and verify: key, transcript, claims,
                    \*   time, doctype, device_namespaces, count (of the circuit)
    Bytes,          \* Bytes[x]: length of an encoded name, value or doctype
    DefaultDoctype, \* the doctype C puts in the place of one that is too long
    FourDigits      \* the first instant of the year 1000

Claims == [namespace : Texts, id : Texts, value : Texts]

ASSUME StatementAssumption ==
    /\ Bytes \in [Texts -> Nat] /\ FourDigits \in Int
    /\ Requests \subseteq
        [key : Keys, transcript : Transcripts, claims : Seq(Claims), time : Moments,
         doctype : Texts, device_namespaces : DeviceMaps \union {None}, count : Nat]

Backends == {"google-cpp", "isrg-rust"}
Results == {"returned", "refused", "rejected", "accepted"}

VARIABLES
    proof,      \* the proof made last: its document and its statement;
                \*   auxiliary: who made it, and when asked what
    last        \* auxiliary: the call that ended last

vars == <<presentationVars, proof, last>>

-----------------------------------------------------------------------------
(* Refusals, before anything reaches the native side.                      *)

(* _fill_attrs: the fields of the C array are fixed. *)
Fits(claims) ==
    \A i \in DOMAIN claims :
        /\ Bytes[claims[i].namespace] <= 64
        /\ Bytes[claims[i].id] <= 32
        /\ Bytes[claims[i].value] <= 64

(* Fault: a doctype of any length goes through. *)
GoogleRefuses_AnyDoctype(op, r) == Len(r.claims) # r.count \/ ~Fits(r.claims)

GoogleRefuses(op, r) ==
    \/ Len(r.claims) # r.count
    \/ ~Fits(r.claims)
    \/ op = "verify" /\ Bytes[r.doctype] >= 256

Namespaces(claims) == {claims[i].namespace : i \in DOMAIN claims}

(* A coordinate of a P-384 key does not fit 32 bytes. *)
IsrgRefuses(op, r) ==
    \/ op = "prove" /\ Cardinality(Namespaces(r.claims)) # 1
    \/ op = "verify" /\ (r.device_namespaces = None \/ Curve[r.key] = "P-384")

(* Fault: the timestamp's own digits are rendered, whatever its zone. *)
GoogleTime_Wall(d) == d.wall

(* Fault: the timestamp's own digits are rendered. *)
IsrgTime_Wall(d) == d.wall

(* Rendering: an instant beyond the calendar raises, and a year before     *)
(* 1000 is not padded, which makes the text shorter than C takes it to be. *)
GoogleTime(d) == Utc(d)
IsrgTime(d) == Utc(d)
Unpadded(d) == Utc(d) < FourDigits

(* Fault: an instant beyond the calendar is rendered somehow. *)
Refused_Rendered(b, op, r) ==
    \/ r.time.zone = Naive
    \/ b = "google-cpp" /\ GoogleRefuses(op, r)
    \/ b = "isrg-rust" /\ IsrgRefuses(op, r)

Refused(b, op, r) ==
    \/ r.time.zone = Naive
    \/ Utc(r.time) \notin Calendar
    \/ b = "google-cpp" /\ GoogleRefuses(op, r)
    \/ b = "isrg-rust" /\ IsrgRefuses(op, r)

-----------------------------------------------------------------------------
(* The statement a call is about: the public inputs of the circuit.  The   *)
(* namespace of a claim is none of them, isrg-rust verifying without it.   *)

Attributes(claims) ==
    [i \in DOMAIN claims |-> [id |-> claims[i].id, value |-> claims[i].value]]

Issued(doc, s) ==
    IF s \in DOMAIN doc.nameSpaces THEN {doc.nameSpaces[s][i] : i \in DOMAIN doc.nameSpaces[s]}
                                   ELSE {}

(* google-cpp is given everything; it takes the device map for empty. *)
GoogleProves(doc, r) ==
    [key |-> r.key, transcript |-> r.transcript, attrs |-> Attributes(r.claims),
     time |-> GoogleTime(r.time), docType |-> doc.docType, nameSpaces |-> EmptyMap,
     count |-> r.count]

GoogleVerifies(r) ==
    [key |-> r.key, transcript |-> r.transcript, attrs |-> Attributes(r.claims),
     time |-> GoogleTime(r.time),
     docType |-> IF Bytes[r.doctype] >= 256 THEN DefaultDoctype ELSE r.doctype,
     nameSpaces |-> EmptyMap, count |-> r.count]

(* isrg-rust's prover is given identifiers of one namespace, no issuer key *)
(* and no values: both are the document's own.                             *)
IsrgProves(doc, r) ==
    [key |-> doc.x5chain, transcript |-> r.transcript,
     attrs |-> [i \in DOMAIN r.claims |->
        LET item == CHOOSE x \in Issued(doc, r.claims[1].namespace) : x.id = r.claims[i].id
        IN  [id |-> item.id, value |-> item.value]],
     time |-> IsrgTime(r.time), docType |-> doc.docType,
     nameSpaces |-> doc.deviceNameSpaces, count |-> r.count]

(* Fault: the caller's timestamp is rendered without its zone. *)
IsrgVerifies_Wall(r) ==
    [key |-> r.key, transcript |-> r.transcript, attrs |-> Attributes(r.claims),
     time |-> r.time.wall, docType |-> r.doctype, nameSpaces |-> r.device_namespaces,
     count |-> r.count]

IsrgVerifies(r) ==
    [key |-> r.key, transcript |-> r.transcript, attrs |-> Attributes(r.claims),
     time |-> IsrgTime(r.time), docType |-> r.doctype, nameSpaces |-> r.device_namespaces,
     count |-> r.count]

Proving(b, doc, r) == IF b = "google-cpp" THEN GoogleProves(doc, r) ELSE IsrgProves(doc, r)
Verifying(b, r) == IF b = "google-cpp" THEN GoogleVerifies(r) ELSE IsrgVerifies(r)

-----------------------------------------------------------------------------
(* The native side.                                                        *)
Within(doc, time) == doc.mso.validFrom <= time /\ time <= doc.mso.validUntil

(* The relation of the circuit.  The device's payload holds the transcript *)
(* as it was given, not as cbor2 would write it.                           *)
Holds(doc, s) ==
    /\ Curve[s.key] = "P-256" /\ Verifies(s.key, doc.mso, doc.issuerSignature)
    /\ doc.mso.docType = s.docType
    /\ Within(doc, s.time)
    /\ Len(s.attrs) = s.count
    /\ \A i \in DOMAIN s.attrs : \E n \in DOMAIN doc.nameSpaces : \E x \in Issued(doc, n) :
        /\ s.attrs[i] = [id |-> x.id, value |-> x.value]
        /\ x.digestID \in DOMAIN doc.mso.valueDigests[n]
        /\ doc.mso.valueDigests[n][x.digestID] = x
    /\ Verifies(doc.mso.deviceKey,
                [transcript |-> s.transcript, docType |-> s.docType, nameSpaces |-> s.nameSpaces],
                doc.deviceSignature)

(* What the provers are known to check (tests/api/test_prove.py:38-58); of *)
(* the rest of a statement that does not hold they may find out.  C is     *)
(* written for timestamps that are not Unpadded.                           *)
Provable(b, doc, r) ==
    IF b = "google-cpp"
    THEN /\ Verifies(r.key, doc.mso, doc.issuerSignature)
         /\ Within(doc, GoogleTime(r.time)) \/ Unpadded(r.time)
         /\ \A i \in DOMAIN r.claims : \E x \in Issued(doc, r.claims[i].namespace) :
                x.id = r.claims[i].id /\ x.value = r.claims[i].value
    ELSE \A i \in DOMAIN r.claims : \E x \in Issued(doc, r.claims[1].namespace) :
                x.id = r.claims[i].id

(* Arguments C has no defined answer to: a field past its buffer, a short  *)
(* timestamp.                                                              *)
Undefined(b, r) == b = "google-cpp" /\ (~Fits(r.claims) \/ Unpadded(r.time))

(* The answers a verification may get. *)
Verdicts(b, p, r) ==
    IF Refused(b, "verify", r) THEN {"refused"}
    ELSE IF Undefined(b, r) THEN {"accepted", "rejected"}
    ELSE IF p.statement = Verifying(b, r) /\ Holds(p.doc, p.statement)
         THEN {"accepted"} ELSE {"rejected"}

-----------------------------------------------------------------------------
Init == PresentationInit /\ proof = None /\ last = None

Ends(op, b, r, result) == last' = [op |-> op, by |-> b, request |-> r, result |-> result]

Create(a) == CreatePresentation(a) /\ UNCHANGED <<proof, last>>

(* The proofs of the document as it was signed before are left aside. *)
Present(key, t, namespaces) ==
    /\ SignAgain(key, t, namespaces)
    /\ proof' = None /\ last' = None

ProveFails(b, r) ==
    /\ document # None
    /\ IF Refused(b, "prove", r)
       THEN Ends("prove", b, r, "refused")
       ELSE /\ ~(/\ Fits(r.claims) /\ Provable(b, document, r)
                  /\ Holds(document, Proving(b, document, r)))
            /\ Ends("prove", b, r, "rejected")
    /\ UNCHANGED <<presentationVars, proof>>

Prove(b, r) ==
    /\ document # None
    /\ ~Refused(b, "prove", r)
    /\ Provable(b, document, r)
    /\ proof' = [doc |-> document, statement |-> Proving(b, document, r), by |-> b, asked |-> r]
    /\ Ends("prove", b, r, "returned")
    /\ UNCHANGED presentationVars

Verify(b, r) ==
    /\ proof # None
    /\ \E result \in Verdicts(b, proof, r) : Ends("verify", b, r, result)
    /\ UNCHANGED <<presentationVars, proof>>

Next ==
    \/ \E a \in Presentations : Create(a)
    \/ \E s \in Signings : Present(s.key, s.transcript, s.map)
    \/ \E b \in Backends, r \in Requests :
        ProveFails(b, r) \/ Prove(b, r) \/ Verify(b, r)

Spec == Init /\ [][Next]_vars

-----------------------------------------------------------------------------
(* Only an instant of the calendar is ever put into a statement, and only  *)
(* one of the listed answers given (google_cpp.py:58-60).                  *)
TypeOK ==
    /\ PresentationTypeOK
    /\ proof = None \/
        /\ proof.by \in Backends /\ proof.asked \in Requests
        /\ proof.statement.key \in Keys /\ proof.statement.time \in Calendar
        /\ proof.statement.nameSpaces \in DeviceMaps
    /\ last = None \/
        /\ last.op \in {"prove", "verify"} /\ last.by \in Backends
        /\ last.request \in Requests /\ last.result \in Results

(* The caller's view of a moment, for a zone that has an offset. *)
HasOffset(d) == d.zone \notin {Naive, Unknown}
Instant(d) == d.wall - d.zone
Offset(r) == HasOffset(r.time) /\ Instant(r.time) >= FourDigits

(* What the device signs for a caller's transcript, had it the one encoding. *)
Session(transcript, namespaces) ==
    Sign(DeviceKey(made), [transcript |-> transcript, docType |-> made.doc_type,
                           nameSpaces |-> namespaces])

Meant(b, r) ==
    /\ r.key = IssuerKey(made)
    /\ r.doctype = made.doc_type
    /\ \A i \in DOMAIN r.claims : \E n \in DOMAIN made.claims :
        \E j \in DOMAIN made.claims[n] :
            made.claims[n][j] = [id |-> r.claims[i].id, value |-> r.claims[i].value]
    /\ HasOffset(made.valid_from) => Instant(made.valid_from) <= Instant(r.time)
    /\ HasOffset(made.valid_until) => Instant(r.time) <= Instant(made.valid_until)
    /\ Session(r.transcript, IF b = "google-cpp" THEN EmptyMap
                             ELSE r.device_namespaces) \in signed

(* Whatever was marshalled on the way, an accepted verification means what *)
(* the caller would take it to mean: the key is the issuer's, the doctype  *)
(* and every claimed value are those issued, the moment lies in the window *)
(* and the holder's device has signed for this very transcript, with the   *)
(* device items the verifier was told of - none, on google-cpp.  Outside   *)
(* are a zone without offset, years before 1000, and the namespace of a    *)
(* claim, which neither verifier compares (google_cpp.py:331-389,          *)
(* isrg_rust.py:162-212).                                                  *)
AcceptedIsPresented ==
    last # None /\ last.result = "accepted" /\ Offset(last.request) =>
        Meant(last.by, last.request)

(* A request that agrees with the document as it is presented now. *)
Matches(r) ==
    /\ Offset(r) /\ Utc(r.time) \in Calendar
    /\ r.key = IssuerKey(made) /\ Curve[r.key] = "P-256"
    /\ r.doctype = made.doc_type /\ Len(r.claims) = r.count
    /\ \A i \in DOMAIN r.claims :
        /\ r.claims[i].namespace \in DOMAIN made.claims
        /\ \E j \in DOMAIN made.claims[r.claims[i].namespace] :
            made.claims[r.claims[i].namespace][j] =
                [id |-> r.claims[i].id, value |-> r.claims[i].value]
    /\ HasOffset(made.valid_from) /\ Instant(made.valid_from) < Instant(r.time)
    /\ HasOffset(made.valid_until) /\ Instant(r.time) < Instant(made.valid_until)
    /\ Canonical[r.transcript] = r.transcript
    /\ document.deviceSignature = Session(r.transcript, DeviceMap(made))

(* What a backend's documented limits leave of such requests. *)
Suits(b, r) ==
    /\ Fits(r.claims)
    /\ IF b = "google-cpp"
       THEN DeviceMap(made) = EmptyMap /\ Bytes[r.doctype] < 256
       ELSE Cardinality(Namespaces(r.claims)) = 1 /\ r.device_namespaces = DeviceMap(made)

(* A matching request is proved, and either backend's verifier accepts the *)
(* proof, whichever made it and in whatever zone the moment is given: both *)
(* render, order and encode everything alike (google_cpp.py:307-322,       *)
(* 373-387; isrg_rust.py:152-158, 194-210; tests/differential).            *)
RoundTrip ==
    last # None /\ Matches(last.request) /\ Suits(last.by, last.request) =>
        \/ last.op = "prove" /\ last.result = "returned"
        \/ /\ last.op = "verify"
           /\ LET same == [proof.asked EXCEPT !.time = last.request.time,
                             !.device_namespaces = last.request.device_namespaces]
              IN  /\ last.request = same
                  /\ Matches(proof.asked) /\ Suits(proof.by, proof.asked)
                  /\ Instant(last.request.time) = Instant(proof.asked.time)
                  => last.result = "accepted"

(* On a request neither refuses, about a device map that is empty, the two *)
(* verifiers say the same of every proof, good or bad: this is what the    *)
(* differential suite samples (tests/differential/test_interop.py).        *)
BackendsAgree ==
    proof # None =>
        \A r \in Requests :
            \/ r.device_namespaces # EmptyMap
            \/ \E b \in Backends : Refused(b, "verify", r) \/ Undefined(b, r)
            \/ Verdicts("google-cpp", proof, r) = Verdicts("isrg-rust", proof, r)

(* Why: a proof is of the document as it is presented now, and what ended  *)
(* last ended for this document and this proof.  The inductive form of the *)
(* above.                                                                  *)
Proven ==
    /\ document = None => proof = None /\ last = None
    /\ proof # None =>
        /\ proof.doc = document
        /\ proof.statement = Proving(proof.by, document, proof.asked)

IInv ==
    /\ TypeOK
    /\ Presented
    /\ Proven
    /\ AcceptedIsPresented
    /\ RoundTrip

(* "Prove the claims hold over the mdoc" (isrg_rust.py:134): a proof that  *)
(* is returned was made for claims that the document holds.  isrg-rust     *)
(* hands its prover neither the claimed values nor the issuer's key.       *)
ProvenClaimsHold ==
    last # None /\ last.op = "prove" /\ last.result = "returned" =>
        \A i \in DOMAIN last.request.claims :
            \E x \in Issued(document, last.request.claims[i].namespace) :
                /\ x.id = last.request.claims[i].id
                /\ x.value = last.request.claims[i].value
=============================================================================
