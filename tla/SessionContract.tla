--------------------------- MODULE SessionContract ---------------------------
(***************************************************************************)
(* What a Pylongfellow instance promises to the threads that call it, with *)
(* nothing said about how: one register that holds the loaded circuit, and *)
(* three methods.  A load replaces the register at one point of its call   *)
(* or raises and leaves it alone; a prove or verify looks at the register  *)
(* at one point of its call, either finding it empty and raising           *)
(* RuntimeError or taking the circuit it will work on; and each method     *)
(* ends in one of the ways its docstring lists.                            *)
(***************************************************************************)
CONSTANTS
    Threads,    \* the caller's threads
    Handles,    \* circuit states a backend can return from load_circuit
    NoCircuit   \* Python's None in the _circuit slot

VARIABLES
    circuit,    \* the loaded circuit, or NoCircuit
    call,       \* call[t]: the method thread t is inside, or "idle"
    given,      \* given[t]: the circuit t's prove or verify works on
    outcome     \* outcome[t]: how t's latest call ended

vars == <<circuit, call, given, outcome>>

Uses    == {"prove", "verify"}
Methods == Uses \union {"load"}

(* The Raises sections of the three docstrings, and the normal return.     *)
(* MemoryError stands for the interpreter's resource exceptions, which any *)
(* Python call may raise and no docstring lists.                           *)
Documented(m) ==
    CASE m = "load"   -> {"returned", "ValueError", "MemoryError"}
      [] m = "prove"  -> {"returned", "RuntimeError", "ValueError",
                          "ProverError", "MemoryError"}
      [] m = "verify" -> {"returned", "RuntimeError", "ValueError",
                          "VerifierError", "MemoryError"}

Init ==
    /\ circuit = NoCircuit
    /\ call = [t \in Threads |-> "idle"]
    /\ given = [t \in Threads |-> NoCircuit]
    /\ outcome = [t \in Threads |-> "none"]

End(t, o) ==
    /\ call' = [call EXCEPT ![t] = "idle"]
    /\ given' = [given EXCEPT ![t] = NoCircuit]
    /\ outcome' = [outcome EXCEPT ![t] = o]

Begin(t, m) ==
    /\ call[t] = "idle"
    /\ call' = [call EXCEPT ![t] = m]
    /\ outcome' = [outcome EXCEPT ![t] = "none"]
    /\ UNCHANGED <<circuit, given>>

(* A load that succeeds. *)
Replace(t) ==
    /\ call[t] = "load"
    /\ circuit' \in Handles
    /\ End(t, "returned")

(* A load that raises. *)
RefuseLoad(t) ==
    /\ call[t] = "load"
    /\ \E o \in Documented("load") \ {"returned"} : End(t, o)
    /\ UNCHANGED circuit

(* A use that ends before it has a circuit: because there is none, or      *)
(* because its own arguments are refused.                                  *)
RefuseUse(t) ==
    /\ call[t] \in Uses
    /\ given[t] = NoCircuit
    /\ \/ circuit = NoCircuit /\ End(t, "RuntimeError")
       \/ circuit # NoCircuit /\ End(t, "ValueError")
    /\ UNCHANGED circuit

(* A use fixes the circuit it works on. *)
Take(t) ==
    /\ call[t] \in Uses
    /\ given[t] = NoCircuit
    /\ circuit # NoCircuit
    /\ given' = [given EXCEPT ![t] = circuit]
    /\ UNCHANGED <<circuit, call, outcome>>

(* A use that has its circuit ends; never by claiming that there is none.  *)
Finish(t) ==
    /\ call[t] \in Uses
    /\ given[t] # NoCircuit
    /\ \E o \in Documented(call[t]) \ {"RuntimeError"} : End(t, o)
    /\ UNCHANGED circuit

Next ==
    \E t \in Threads :
        \/ \E m \in Methods : Begin(t, m)
        \/ Replace(t)
        \/ RefuseLoad(t)
        \/ RefuseUse(t)
        \/ Take(t)
        \/ Finish(t)

Spec == Init /\ [][Next]_vars
=============================================================================
