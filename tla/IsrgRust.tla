------------------------------ MODULE IsrgRust ------------------------------
(***************************************************************************)
(* A Pylongfellow instance on the isrg-rust backend                        *)
(* (backends/isrg_rust.py): Session with its opaque backend replaced by    *)
(* the steps of the real one.  load_circuit only decompresses; the crate's *)
(* prover and verifier are initialised on first use and kept in the        *)
(* _LoadedCircuit object, which is shared by every call the slot handed it *)
(* to.  Nothing is locked: the None test, the slow initialisation, the     *)
(* assignment and the re-read of the field are separate steps.             *)
(*                                                                         *)
(* The Rust crate and zstandard are external.                              *)
(***************************************************************************)
EXTENDS Naturals, FiniteSets

CONSTANTS
    Threads,        \* the caller's threads
    NoCircuit,      \* None in the _circuit slot
    None,           \* None in a prover or verifier field
    Objects,        \* identities of live _LoadedCircuit objects
    Streams,        \* compressed byte strings callers hold, each with the
                    \*   count they declare it with, which the crate is told
    Versions,       \* versions callers declare
    Undecodable,    \* the streams zstandard raises on
    Uninitialisable,\* the <<stream, version>> pairs the crate cannot load
    WideKeys,       \* may an issuer key coordinate exceed 32 bytes?
    BeyondCalendar  \* may a timestamp lie outside the calendar, read in UTC?

_VERSIONS == {6, 7}

Sources == Streams \X _VERSIONS

(* A live object per thread, one in the slot and one being created are all *)
(* the objects there can be; an object nothing refers to is collected.     *)
ASSUME ObjectsAssumption ==
    /\ IsFiniteSet(Threads) /\ IsFiniteSet(Objects)
    /\ Cardinality(Objects) > Cardinality(Threads)
    /\ NoCircuit \notin Objects
    /\ Undecodable \subseteq Streams
    /\ Uninitialisable \subseteq Sources
    /\ WideKeys \in BOOLEAN /\ BeyondCalendar \in BOOLEAN

VARIABLES
    circuit, pc, op, aware, state, outcome,     \* as in Session
    source,     \* source[o]: what object o was made from
    handle,     \* handle[o][m]: o's prover (m = "prove") or verifier
    stage,      \* stage[t]: how far t is inside the backend's prove/verify
    made,       \* made[t]: the value of initialize_*, not yet assigned
    used,       \* used[t]: the handle t passes to the native prove/verify
    inits       \* auxiliary: initialisations per object and method, capped

sessionVars == <<circuit, pc, op, aware, state, outcome>>
vars == <<sessionVars, source, handle, stage, made, used, inits>>

S == INSTANCE Session WITH Handles <- Objects

(* A native prover or verifier, known by what it was initialised from. *)
Native == [method : S!Uses, from : Sources]

NoHandles == [m \in S!Uses |-> None]
NoInits   == [m \in S!Uses |-> 0]
InitCap   == Cardinality(Threads) + 1

(* The exceptions that are not the package's own. *)
Foreign == {"ZstdError", "MdocZkError", "OverflowError"}

TypeOK ==
    /\ circuit \in Objects \union {NoCircuit}
    /\ pc \in [Threads -> {"idle", "load", "store", "check", "read", "backend"}]
    /\ op \in [Threads -> S!Methods]
    /\ aware \in [Threads -> BOOLEAN]
    /\ state \in [Threads -> Objects \union {NoCircuit}]
    /\ outcome \in [Threads -> S!Outcomes \union Foreign]
    /\ source \in [Objects -> Sources \union {None}]
    /\ handle \in [Objects -> [S!Uses -> Native \union {None}]]
    /\ stage \in [Threads -> {"arguments", "test", "init", "assign", "fetch", "native"}]
    /\ made \in [Threads -> Native \union {None}]
    /\ used \in [Threads -> Native \union {None}]
    /\ inits \in [Objects -> [S!Uses -> 0 .. InitCap]]

Init ==
    /\ S!Init
    /\ source = [o \in Objects |-> None]
    /\ handle = [o \in Objects |-> NoHandles]
    /\ stage = [t \in Threads |-> "arguments"]
    /\ made = [t \in Threads |-> None]
    /\ used = [t \in Threads |-> None]
    /\ inits = [o \in Objects |-> NoInits]

(* A field that holds a native object does not hold None. *)
ASSUME NoneAssumption == None \notin Native

(* Objects nothing would refer to if the references in `kept` were all     *)
(* that is left; the collector resets them.                                *)
Collect(kept) ==
    /\ source' = [o \in Objects |-> IF o \in kept THEN source[o] ELSE None]
    /\ handle' = [o \in Objects |-> IF o \in kept THEN handle[o] ELSE NoHandles]
    /\ inits' = [o \in Objects |-> IF o \in kept THEN inits[o] ELSE NoInits]

References(c, s) == {c} \union {s[t] : t \in Threads}

Leave(t) ==
    /\ stage' = [stage EXCEPT ![t] = "arguments"]
    /\ made' = [made EXCEPT ![t] = None]
    /\ used' = [used EXCEPT ![t] = None]

End(t, e) ==
    /\ IF e = "returned" THEN S!BackendReturns(t) ELSE S!BackendRaises(t, e)
    /\ Leave(t)
    /\ Collect(References(circuit, state'))

GoTo(t, s) ==
    /\ stage' = [stage EXCEPT ![t] = s]
    /\ UNCHANGED <<sessionVars, source>>

In(t, s) == pc[t] = "backend" /\ stage[t] = s

-----------------------------------------------------------------------------
(* load_circuit *)
BeginLoad(t) ==
    /\ S!BeginLoad(t)
    /\ UNCHANGED <<source, handle, stage, made, used, inits>>

(* Fault: the version is not checked. *)
Load_AnyVersion(t, stream, version) ==
    /\ \/ /\ stream \in Undecodable
          /\ S!BackendLoadRaises(t, "ZstdError")
          /\ UNCHANGED source
       \/ /\ stream \notin Undecodable
          /\ \E o \in Objects \ References(circuit, state) :
                /\ S!BackendLoads(t, o)
                /\ source' = [source EXCEPT ![o] = <<stream, version>>]
    /\ UNCHANGED <<handle, stage, made, used, inits>>

Load(t, stream, version) ==
    /\ \/ /\ version \notin _VERSIONS
          /\ S!BackendLoadRaises(t, "ValueError")
          /\ UNCHANGED source
       \/ /\ version \in _VERSIONS
          /\ stream \in Undecodable
          /\ S!BackendLoadRaises(t, "ZstdError")
          /\ UNCHANGED source
       \/ /\ version \in _VERSIONS
          /\ stream \notin Undecodable
          /\ \E o \in Objects \ References(circuit, state) :
                /\ S!BackendLoads(t, o)
                /\ source' = [source EXCEPT ![o] = <<stream, version>>]
    /\ UNCHANGED <<handle, stage, made, used, inits>>

Store(t) ==
    /\ S!Store(t)
    /\ Collect(References(circuit', state'))
    /\ UNCHANGED <<stage, made, used>>

-----------------------------------------------------------------------------
(* Pylongfellow.prove and verify, up to the backend call. *)
BeginUse(t, m, aw) ==
    /\ S!BeginUse(t, m, aw)
    /\ UNCHANGED <<source, handle, stage, made, used, inits>>

Lookup(t) ==
    /\ S!CheckLoaded(t) \/ S!ReadLoaded(t)
    /\ UNCHANGED <<source, handle, stage, made, used, inits>>

-----------------------------------------------------------------------------
(* The backend's prove and verify.  prove refuses claims of several        *)
(* namespaces, verify a missing device_namespaces; both render the         *)
(* timestamp in UTC, which it must have a reading in; verify also encodes  *)
(* the issuer key into 32-byte coordinates.                                *)
Arguments(t) ==
    /\ In(t, "arguments")
    /\ \/ GoTo(t, "test") /\ UNCHANGED <<handle, made, used, inits>>
       \/ End(t, "ValueError")
       \/ /\ BeyondCalendar \/ (op[t] = "verify" /\ WideKeys)
          /\ End(t, "OverflowError")

Test(t) ==
    /\ In(t, "test")
    /\ GoTo(t, IF handle[state[t]][op[t]] = None THEN "init" ELSE "fetch")
    /\ UNCHANGED <<handle, made, used, inits>>

Initialise(t) ==
    /\ In(t, "init")
    /\ LET o == state[t] IN
       IF source[o] \in Uninitialisable
       THEN End(t, "MdocZkError")
       ELSE /\ made' = [made EXCEPT ![t] = [method |-> op[t], from |-> source[o]]]
            /\ inits' = [inits EXCEPT ![o][op[t]] =
                            IF @ < InitCap THEN @ + 1 ELSE @]
            /\ GoTo(t, "assign")
            /\ UNCHANGED <<handle, used>>

(* Fault: a failed initialisation resets the field. *)
InitialiseFails_Resets(t) ==
    /\ In(t, "init")
    /\ S!BackendRaises(t, "MemoryError")
    /\ Leave(t)
    /\ handle' = [handle EXCEPT ![state[t]][op[t]] = None]
    /\ UNCHANGED <<source, inits>>

(* The crate may run out of memory loading a circuit it could load. *)
InitialiseFails(t) ==
    /\ In(t, "init")
    /\ End(t, "MemoryError")

(* Fault: the handle is used but not kept. *)
Assign_NotKept(t) ==
    /\ In(t, "assign")
    /\ used' = [used EXCEPT ![t] = made[t]]
    /\ made' = [made EXCEPT ![t] = None]
    /\ GoTo(t, "native")
    /\ UNCHANGED <<handle, inits>>

Assign(t) ==
    /\ In(t, "assign")
    /\ handle' = [handle EXCEPT ![state[t]][op[t]] = made[t]]
    /\ made' = [made EXCEPT ![t] = None]
    /\ GoTo(t, "fetch")
    /\ UNCHANGED <<used, inits>>

Fetch(t) ==
    /\ In(t, "fetch")
    /\ used' = [used EXCEPT ![t] = handle[state[t]][op[t]]]
    /\ GoTo(t, "native")
    /\ UNCHANGED <<handle, made, inits>>

(* Fault: verify's translation of the crate's error is prove's. *)
NativeCall_SameError(t) ==
    /\ In(t, "native")
    /\ End(t, "returned") \/ End(t, "ProverError")

NativeCall(t) ==
    /\ In(t, "native")
    /\ \/ End(t, "returned")
       \/ End(t, IF op[t] = "prove" THEN "ProverError" ELSE "VerifierError")

Continue(t) ==
    \/ \E s \in Streams, v \in Versions : Load(t, s, v)
    \/ Store(t)
    \/ Lookup(t)
    \/ Arguments(t)
    \/ Test(t)
    \/ Initialise(t)
    \/ InitialiseFails(t)
    \/ Assign(t)
    \/ Fetch(t)
    \/ NativeCall(t)

Next ==
    \E t \in Threads :
        \/ BeginLoad(t)
        \/ \E m \in S!Uses, aw \in BOOLEAN : BeginUse(t, m, aw)
        \/ Continue(t)

Spec == Init /\ [][Next]_vars

(* Threads are scheduled, and the crate's functions return. *)
Fairness == \A t \in Threads : WF_vars(Continue(t))

FairSpec == Spec /\ Fairness

-----------------------------------------------------------------------------
(* The handle a native call gets exists, is of the call's own kind, and    *)
(* was initialised from the circuit and version this call was handed -     *)
(* although the field is read again after another thread may have assigned *)
(* it, and although the slot may hold another circuit by now               *)
(* (isrg_rust.py:78-93).                                                   *)
HandleMatchesCircuit ==
    \A t \in Threads :
        stage[t] = "native" =>
            used[t] = [method |-> op[t], from |-> source[state[t]]]

(* The circuit is initialised on first use, once per thread that raced to  *)
(* be first and never again: an installed handle is not lost while its     *)
(* circuit is in use (isrg_rust.py:69, 80-84).                             *)
InitialisedOnFirstUse ==
    \A o \in Objects, m \in S!Uses : inits[o][m] <= Cardinality(Threads)

(* Why: what a call carries from one step to the next was made from its own *)
(* object, an object's fields are empty or were made from it, and a field  *)
(* is only ever filled.  The threads that initialise a field all found it  *)
(* empty: until it is filled each of them still has its value to assign,   *)
(* and none joins them afterwards.  The inductive form of the two.         *)
Handle(t) == [method |-> op[t], from |-> source[state[t]]]

At(s, o, m) == {t \in Threads : stage[t] = s /\ state[t] = o /\ op[t] = m}

Consistent(t) ==
    /\ S!Consistent(t)
    /\ stage[t] # "arguments" => pc[t] = "backend"
    /\ made[t] = IF stage[t] = "assign" THEN Handle(t) ELSE None
    /\ stage[t] = "fetch" => handle[state[t]][op[t]] # None
    /\ used[t] = IF stage[t] = "native" THEN Handle(t) ELSE None

Kept(o) ==
    IF o \in References(circuit, state)
    THEN /\ source[o] \in Sources
         /\ \A m \in S!Uses : handle[o][m] \in {None, [method |-> m, from |-> source[o]]}
    ELSE source[o] = None /\ handle[o] = NoHandles /\ inits[o] = NoInits

Counted(o, m) ==
    IF handle[o][m] = None
    THEN inits[o][m] = Cardinality(At("assign", o, m))
    ELSE inits[o][m] + Cardinality(At("init", o, m)) <= Cardinality(Threads)

IInv ==
    /\ TypeOK
    /\ \A t \in Threads : Consistent(t)
    /\ \A o \in Objects : Kept(o) /\ \A m \in S!Uses : Counted(o, m)

(* Every call ends in a way its docstring lists (isrg_rust.py:117-118,     *)
(* 147-150, 185-188).                                                      *)
OnlyDocumentedErrors == \A t \in Threads : outcome[t] \notin Foreign

(* But for which exception a call ends with, isrg-rust is a backend as     *)
(* Session expects one: each call ends, whatever other threads are         *)
(* initialising, a failed one leaves the slot alone, and no call claims to *)
(* be of the other kind (isrg_rust.py:105-215).                            *)
AsDocumented(o) == IF o \in Foreign THEN "ValueError" ELSE o

Documented == INSTANCE Session WITH
    Handles <- Objects,
    outcome <- [t \in Threads |-> AsDocumented(outcome[t])]

ImplementsSession == Documented!FairSpec
=============================================================================
