------------------------------- MODULE Session -------------------------------
(***************************************************************************)
(* The public class Pylongfellow (mdoc/_pylongfellow.py): the _circuit     *)
(* slot and the three methods that read and write it, called by several    *)
(* threads on one instance.  The code takes no lock, so a thread may be    *)
(* preempted between any two reads or writes of the slot; those are the    *)
(* steps here.  The backend is opaque: load_circuit, prove and verify are  *)
(* the methods of the Backend protocol (backends/__init__.py), each ending *)
(* in one of the ways the protocol's callers document.  GoogleCpp and      *)
(* IsrgRust put the two real backends in its place.                        *)
(***************************************************************************)
CONSTANTS
    Threads,    \* the caller's threads
    Handles,    \* circuit states the backend's load_circuit can return
    NoCircuit   \* None

ASSUME NoCircuitAssumption == NoCircuit \notin Handles

VARIABLES
    circuit,    \* self._circuit
    pc,         \* pc[t]: where thread t is
    op,         \* op[t]: the method t is in
    aware,      \* aware[t]: the timestamp argument has a tzinfo
    state,      \* state[t]: the local `state` of prove/verify, or the value
                \*   load_circuit is about to store
    outcome     \* outcome[t]: how t's latest call ended

vars == <<circuit, pc, op, aware, state, outcome>>

Uses    == {"prove", "verify"}
Methods == Uses \union {"load"}

(* What a backend call may raise, by method: the Raises sections of        *)
(* load_circuit, prove and verify without the RuntimeError the session     *)
(* itself raises, and the interpreter's resource exceptions.               *)
BackendErrors(m) ==
    {"ValueError", "MemoryError"} \union
    (CASE m = "load"   -> {}
       [] m = "prove"  -> {"ProverError"}
       [] m = "verify" -> {"VerifierError"})

Outcomes == {"none", "returned", "RuntimeError"}
                \union UNION {BackendErrors(m) : m \in Methods}

TypeOK ==
    /\ circuit \in Handles \union {NoCircuit}
    /\ pc \in [Threads -> {"idle", "load", "store", "check", "read", "backend"}]
    /\ op \in [Threads -> Methods]
    /\ aware \in [Threads -> BOOLEAN]
    /\ state \in [Threads -> Handles \union {NoCircuit}]
    /\ outcome \in [Threads -> Outcomes]

Init ==
    /\ circuit = NoCircuit
    /\ pc = [t \in Threads |-> "idle"]
    /\ op = [t \in Threads |-> "load"]
    /\ aware = [t \in Threads |-> TRUE]
    /\ state = [t \in Threads |-> NoCircuit]
    /\ outcome = [t \in Threads |-> "none"]

GoTo(t, l) == pc' = [pc EXCEPT ![t] = l]

Begin(t, m, aw, l) ==
    /\ pc[t] = "idle"
    /\ GoTo(t, l)
    /\ op' = [op EXCEPT ![t] = m]
    /\ aware' = [aware EXCEPT ![t] = aw]
    /\ outcome' = [outcome EXCEPT ![t] = "none"]
    /\ UNCHANGED <<circuit, state>>

(* The call ends and its locals are gone. *)
End(t, o) ==
    /\ GoTo(t, "idle")
    /\ op' = [op EXCEPT ![t] = "load"]
    /\ aware' = [aware EXCEPT ![t] = TRUE]
    /\ state' = [state EXCEPT ![t] = NoCircuit]
    /\ outcome' = [outcome EXCEPT ![t] = o]

-----------------------------------------------------------------------------
(* load_circuit: the backend call is evaluated first, its value is stored  *)
(* afterwards, so a call that raises leaves the slot as it was.            *)

(* Fault: drop the old circuit before loading the new one. *)
BeginLoad_Clears(t) ==
    /\ pc[t] = "idle"
    /\ GoTo(t, "load")
    /\ circuit' = NoCircuit
    /\ op' = [op EXCEPT ![t] = "load"]
    /\ outcome' = [outcome EXCEPT ![t] = "none"]
    /\ UNCHANGED <<aware, state>>

BeginLoad(t) == Begin(t, "load", TRUE, "load")

BackendLoads(t, h) ==
    /\ pc[t] = "load"
    /\ state' = [state EXCEPT ![t] = h]
    /\ GoTo(t, "store")
    /\ UNCHANGED <<circuit, op, aware, outcome>>

(* Fault: a failed load leaves nothing loaded. *)
BackendLoadRaises_Clears(t, e) ==
    /\ pc[t] = "load"
    /\ End(t, e)
    /\ circuit' = NoCircuit

BackendLoadRaises(t, e) ==
    /\ pc[t] = "load"
    /\ End(t, e)
    /\ UNCHANGED circuit

(* Fault: return the circuit state as well as storing it. *)
Store_ReturnsState(t) ==
    /\ pc[t] = "store"
    /\ circuit' = state[t]
    /\ End(t, state[t])

Store(t) ==
    /\ pc[t] = "store"
    /\ circuit' = state[t]
    /\ End(t, "returned")

-----------------------------------------------------------------------------
(* prove and verify.  _loaded_circuit reads the slot twice: once for the   *)
(* None check and once for the value it returns.                           *)
BeginUse(t, m, aw) == Begin(t, m, aw, "check")

(* Fault: no None check. *)
CheckLoaded_Skipped(t) ==
    /\ pc[t] = "check"
    /\ GoTo(t, "read")
    /\ UNCHANGED <<circuit, op, aware, state, outcome>>

(* Fault: wait for a circuit instead of raising. *)
CheckLoaded_Waits(t) ==
    /\ pc[t] = "check"
    /\ circuit # NoCircuit
    /\ GoTo(t, "read")
    /\ UNCHANGED <<circuit, op, aware, state, outcome>>

CheckLoaded(t) ==
    /\ pc[t] = "check"
    /\ IF circuit = NoCircuit
       THEN End(t, "RuntimeError")
       ELSE GoTo(t, "read") /\ UNCHANGED <<op, aware, state, outcome>>
    /\ UNCHANGED circuit

ReadLoaded(t) ==
    /\ pc[t] = "read"
    /\ IF aware[t]
       THEN /\ state' = [state EXCEPT ![t] = circuit]
            /\ GoTo(t, "backend")
            /\ UNCHANGED <<op, aware, outcome>>
       ELSE End(t, "ValueError")
    /\ UNCHANGED circuit

BackendReturns(t) ==
    /\ pc[t] = "backend"
    /\ End(t, "returned")
    /\ UNCHANGED circuit

BackendRaises(t, e) ==
    /\ pc[t] = "backend"
    /\ End(t, e)
    /\ UNCHANGED circuit

-----------------------------------------------------------------------------
(* The steps that continue a call thread t is already in. *)
Continue(t) ==
    \/ \E h \in Handles : BackendLoads(t, h)
    \/ \E e \in BackendErrors("load") : BackendLoadRaises(t, e)
    \/ Store(t)
    \/ CheckLoaded(t)
    \/ ReadLoaded(t)
    \/ BackendReturns(t)
    \/ \E e \in BackendErrors(op[t]) : BackendRaises(t, e)

Next ==
    \E t \in Threads :
        \/ BeginLoad(t)
        \/ \E m \in Uses, aw \in BOOLEAN : BeginUse(t, m, aw)
        \/ Continue(t)

Spec == Init /\ [][Next]_vars

(* A thread inside a call keeps running: the interpreter schedules every   *)
(* runnable thread and a backend call ends.  No call need ever be begun.   *)
Fairness == \A t \in Threads : WF_vars(Continue(t))

FairSpec == Spec /\ Fairness

-----------------------------------------------------------------------------
(* The circuit is never missing once the None check has passed, although   *)
(* the slot is read again after it and other threads write it in between:  *)
(* what a backend's prove or verify is handed as `state` is always the     *)
(* result of a load_circuit (_pylongfellow.py:52-54).                      *)
GivenIsLoaded ==
    \A t \in Threads : pc[t] = "backend" => state[t] # NoCircuit

(* Why: the slot is never emptied, so a thread between its two reads still *)
(* sees a circuit.  The inductive form of GivenIsLoaded.                   *)
Consistent(t) ==
    /\ pc[t] = "read" => circuit # NoCircuit
    /\ pc[t] \in {"store", "backend"} => state[t] # NoCircuit
    /\ pc[t] \in {"idle", "load", "check", "read"} => state[t] = NoCircuit
    /\ pc[t] \in {"load", "store"} => op[t] = "load"
    /\ pc[t] \in {"check", "read", "backend"} => op[t] \in Uses

IInv == TypeOK /\ \A t \in Threads : Consistent(t)

(* Every call ends, whatever the other threads load meanwhile. *)
CallsEnd == \A t \in Threads : (pc[t] # "idle") ~> (pc[t] = "idle")

(* The instance keeps the abstract promise: seen from outside, each method *)
(* acts on the slot at one point of its call, and the two reads of         *)
(* _loaded_circuit with the None check between them behave as one.         *)
Contract == INSTANCE SessionContract WITH
    call  <- [t \in Threads |-> IF pc[t] = "idle" THEN "idle" ELSE op[t]],
    given <- [t \in Threads |->
                IF pc[t] = "backend" THEN state[t] ELSE NoCircuit]

ImplementsContract == Contract!Spec
=============================================================================
