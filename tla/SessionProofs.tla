---------------------------- MODULE SessionProofs ----------------------------
(***************************************************************************)
(* What TLAPS proves of Session, for any number of threads and of circuit  *)
(* states: its types, that no backend is ever handed None for a circuit,   *)
(* and that the unlocked double read of the slot keeps the abstract        *)
(* promise of SessionContract.                                             *)
(***************************************************************************)
EXTENDS Session, TLAPS

LEMMA NotAHandle == NoCircuit \notin Handles
  BY NoCircuitAssumption

(* What a backend may raise is an outcome, and not one that says something *)
(* else.                                                                   *)
LEMMA ErrorsAreOutcomes ==
  ASSUME NEW m \in Methods, NEW e \in BackendErrors(m)
  PROVE  e \in Outcomes /\ e \notin {"none", "returned", "RuntimeError"}
<1>1. e \in {"ValueError", "MemoryError", "ProverError", "VerifierError"}
  BY DEF BackendErrors, Methods, Uses
<1>2. e \in Outcomes
  BY DEF Outcomes
<1> QED
  BY <1>1, <1>2

LEMMA InitIInv == Init => IInv
  BY DEF Init, IInv, TypeOK, Consistent, Outcomes, Methods, Uses

(* However a call ends, the invariant is kept as long as the slot is not   *)
(* emptied on the way out.                                                 *)
LEMMA EndKeepsIInv ==
  ASSUME IInv, NEW t \in Threads, NEW o \in Outcomes, End(t, o),
         circuit' \in Handles \union {NoCircuit},
         circuit # NoCircuit => circuit' # NoCircuit
  PROVE  IInv'
<1> USE DEF IInv, TypeOK, End, GoTo
<1>1. TypeOK'
  BY DEF Methods
<1>2. ASSUME NEW u \in Threads
      PROVE  Consistent(u)'
  <2>1. CASE u = t
    BY <2>1 DEF Consistent
  <2>2. CASE u # t
    <3>1. Consistent(u)
      OBVIOUS
    <3>2. pc'[u] = pc[u] /\ op'[u] = op[u] /\ state'[u] = state[u]
      BY <2>2
    <3> QED
      BY <3>1, <3>2 DEF Consistent
  <2> QED
    BY <2>1, <2>2
<1> QED
  BY <1>1, <1>2

(* A step of t that moves it on inside or into a call, and leaves the slot *)
(* alone, disturbs no other thread.                                        *)
LEMMA MoveKeepsIInv ==
  ASSUME IInv, NEW t \in Threads, UNCHANGED circuit, TypeOK', Consistent(t)',
         \A u \in Threads \ {t} :
            pc'[u] = pc[u] /\ op'[u] = op[u] /\ state'[u] = state[u]
  PROVE  IInv'
<1>1. ASSUME NEW u \in Threads
      PROVE  Consistent(u)'
  <2>1. CASE u = t
    BY <2>1
  <2>2. CASE u # t
    BY <2>2 DEF IInv, Consistent
  <2> QED
    BY <2>1, <2>2
<1> QED
  BY <1>1 DEF IInv

(* One step of thread t keeps the invariant. *)
LEMMA NextIInv == IInv /\ [Next]_vars => IInv'
<1> SUFFICES ASSUME IInv, [Next]_vars
             PROVE  IInv'
  OBVIOUS
<1>o. {"none", "returned", "RuntimeError", "ValueError"} \subseteq Outcomes
  BY DEF Outcomes, BackendErrors, Methods, Uses
<1>t. TypeOK /\ (\A t \in Threads : Consistent(t))
  BY DEF IInv
<1>b. ASSUME NEW t \in Threads, NEW m \in Methods, NEW aw \in BOOLEAN,
             NEW l \in {"load", "check"}, Begin(t, m, aw, l),
             l = "load" <=> m = "load"
      PROVE  IInv'
  <2>1. TypeOK'
    BY <1>b, <1>o, <1>t DEF TypeOK, Begin, GoTo
  <2>2. Consistent(t)'
    BY <1>b, <1>t DEF TypeOK, Begin, GoTo, Consistent, Methods
  <2> QED
    BY <1>b, <1>t, <2>1, <2>2, MoveKeepsIInv DEF TypeOK, Begin, GoTo
<1>1. ASSUME NEW t \in Threads, BeginLoad(t)
      PROVE  IInv'
  BY <1>1, <1>b DEF BeginLoad, Methods
<1>2. ASSUME NEW t \in Threads, NEW m \in Uses, NEW aw \in BOOLEAN, BeginUse(t, m, aw)
      PROVE  IInv'
  BY <1>2, <1>b DEF BeginUse, Methods, Uses
<1>3. ASSUME NEW t \in Threads, NEW h \in Handles, BackendLoads(t, h)
      PROVE  IInv'
  <2>1. TypeOK'
    BY <1>3, <1>t DEF TypeOK, BackendLoads, GoTo
  <2>2. Consistent(t)'
    BY <1>3, <1>t, NotAHandle DEF TypeOK, BackendLoads, GoTo, Consistent
  <2> QED
    BY <1>3, <1>t, <2>1, <2>2, MoveKeepsIInv DEF TypeOK, BackendLoads, GoTo
<1>4. ASSUME NEW t \in Threads, NEW e \in BackendErrors("load"), BackendLoadRaises(t, e)
      PROVE  IInv'
  BY <1>4, <1>t, ErrorsAreOutcomes, EndKeepsIInv DEF BackendLoadRaises, Methods, TypeOK
<1>5. ASSUME NEW t \in Threads, Store(t)
      PROVE  IInv'
  <2>1. circuit' \in Handles \union {NoCircuit} /\ circuit' # NoCircuit
    BY <1>5, <1>t DEF Store, TypeOK, Consistent
  <2> QED
    BY <1>5, <1>o, <2>1, EndKeepsIInv DEF Store
<1>6. ASSUME NEW t \in Threads, CheckLoaded(t)
      PROVE  IInv'
  <2>1. CASE circuit = NoCircuit
    BY <1>6, <1>o, <1>t, <2>1, EndKeepsIInv DEF CheckLoaded, TypeOK
  <2>2. CASE circuit # NoCircuit
    <3>1. TypeOK'
      BY <1>6, <1>t, <2>2 DEF TypeOK, CheckLoaded, GoTo
    <3>2. Consistent(t)'
      BY <1>6, <1>t, <2>2 DEF TypeOK, CheckLoaded, GoTo, Consistent
    <3> QED
      BY <1>6, <1>t, <2>2, <3>1, <3>2, MoveKeepsIInv DEF TypeOK, CheckLoaded, GoTo
  <2> QED
    BY <2>1, <2>2
<1>7. ASSUME NEW t \in Threads, ReadLoaded(t)
      PROVE  IInv'
  <2>1. CASE aware[t]
    <3>1. TypeOK'
      BY <1>7, <1>t, <2>1 DEF TypeOK, ReadLoaded, GoTo
    <3>2. Consistent(t)'
      BY <1>7, <1>t, <2>1 DEF TypeOK, ReadLoaded, GoTo, Consistent
    <3> QED
      BY <1>7, <1>t, <2>1, <3>1, <3>2, MoveKeepsIInv DEF TypeOK, ReadLoaded, GoTo
  <2>2. CASE ~aware[t]
    BY <1>7, <1>o, <1>t, <2>2, EndKeepsIInv DEF ReadLoaded, TypeOK
  <2> QED
    BY <2>1, <2>2
<1>8. ASSUME NEW t \in Threads, BackendReturns(t)
      PROVE  IInv'
  BY <1>8, <1>o, <1>t, EndKeepsIInv DEF BackendReturns, TypeOK
<1>9. ASSUME NEW t \in Threads, NEW e \in BackendErrors(op[t]), BackendRaises(t, e)
      PROVE  IInv'
  <2>1. op[t] \in Methods
    BY <1>t DEF TypeOK
  <2>2. e \in Outcomes
    BY <2>1, ErrorsAreOutcomes
  <2> QED
    BY <1>9, <1>t, <2>2, EndKeepsIInv DEF BackendRaises, TypeOK
<1>10. CASE UNCHANGED vars
  BY <1>10, <1>t DEF vars, IInv, TypeOK, Consistent
<1> QED
  BY <1>1, <1>2, <1>3, <1>4, <1>5, <1>6, <1>7, <1>8, <1>9, <1>10 DEF Next, Continue

(* The slot is never emptied and a thread past the None check has a        *)
(* circuit to read: the inductive invariant holds in every behaviour.      *)
THEOREM Invariance == Spec => []IInv
<1>1. Init => IInv
  BY InitIInv
<1>2. IInv /\ [Next]_vars => IInv'
  BY NextIInv
<1> QED
  BY <1>1, <1>2, PTL DEF Spec

(* Every variable keeps its type. *)
THEOREM TypeCorrect == Spec => []TypeOK
<1>1. IInv => TypeOK
  BY DEF IInv
<1> QED
  BY <1>1, Invariance, PTL

(* No backend prove or verify is handed None for its circuit. *)
THEOREM GivenCorrect == Spec => []GivenIsLoaded
<1>1. IInv => GivenIsLoaded
  BY DEF IInv, Consistent, GivenIsLoaded
<1> QED
  BY <1>1, Invariance, PTL

-----------------------------------------------------------------------------
(* The refinement, step by step. *)

LEMMA InitRefines == Init => Contract!Init
  BY DEF Init, Contract!Init

(* A backend's own errors are documented ends of the method, and none says *)
(* that no circuit is loaded.                                              *)
LEMMA ErrorsAreDocumented ==
  ASSUME NEW m \in Methods, NEW e \in BackendErrors(m)
  PROVE  e \in Contract!Documented(m) \ {"returned", "RuntimeError"}
  BY DEF BackendErrors, Contract!Documented, Methods, Uses

LEMMA StepRefines == IInv /\ [Next]_vars => [Contract!Next]_(Contract!vars)
<1> SUFFICES ASSUME IInv, [Next]_vars
             PROVE  Contract!Next \/ UNCHANGED Contract!vars
  OBVIOUS
<1> USE NotAHandle DEF IInv, TypeOK, Consistent
<1>u. Uses \subseteq Methods /\ "load" \in Methods /\ "load" \notin Uses
      /\ "idle" \notin Methods
      /\ Contract!Uses = Uses /\ Contract!Methods = Methods
  BY DEF Uses, Methods, Contract!Uses, Contract!Methods
<1>1. ASSUME NEW t \in Threads, BeginLoad(t)
      PROVE  Contract!Begin(t, "load")
  BY <1>1 DEF BeginLoad, Begin, GoTo, Contract!Begin
<1>2. ASSUME NEW t \in Threads, NEW m \in Uses, NEW aw \in BOOLEAN, BeginUse(t, m, aw)
      PROVE  Contract!Begin(t, m)
  BY <1>2 DEF BeginUse, Begin, GoTo, Contract!Begin
<1>3. ASSUME NEW t \in Threads, NEW h \in Handles, BackendLoads(t, h)
      PROVE  UNCHANGED Contract!vars
  BY <1>3 DEF BackendLoads, GoTo, Contract!vars
<1>4. ASSUME NEW t \in Threads, NEW e \in BackendErrors("load"), BackendLoadRaises(t, e)
      PROVE  Contract!RefuseLoad(t)
  <2>1. e \in Contract!Documented("load") \ {"returned"}
    BY <1>u, ErrorsAreDocumented
  <2>2. Contract!End(t, e)
    BY <1>4 DEF BackendLoadRaises, End, GoTo, Contract!End
  <2> QED
    BY <1>4, <2>1, <2>2 DEF BackendLoadRaises, Contract!RefuseLoad
<1>5. ASSUME NEW t \in Threads, Store(t)
      PROVE  Contract!Replace(t)
  <2>1. Contract!End(t, "returned")
    BY <1>5 DEF Store, End, GoTo, Contract!End
  <2> QED
    BY <1>5, <2>1 DEF Store, Contract!Replace
<1>6. ASSUME NEW t \in Threads, CheckLoaded(t)
      PROVE  Contract!RefuseUse(t) \/ UNCHANGED Contract!vars
  <2>1. CASE circuit = NoCircuit
    <3>1. Contract!End(t, "RuntimeError")
      BY <1>6, <2>1 DEF CheckLoaded, End, GoTo, Contract!End
    <3> QED
      BY <1>6, <1>u, <2>1, <3>1 DEF CheckLoaded, Contract!RefuseUse
  <2>2. CASE circuit # NoCircuit
    BY <1>6, <2>2 DEF CheckLoaded, GoTo, Contract!vars
  <2> QED
    BY <2>1, <2>2
<1>7. ASSUME NEW t \in Threads, ReadLoaded(t)
      PROVE  Contract!RefuseUse(t) \/ Contract!Take(t)
  <2>1. CASE aware[t]
    BY <1>7, <1>u, <2>1 DEF ReadLoaded, GoTo, Contract!Take
  <2>2. CASE ~aware[t]
    <3>1. Contract!End(t, "ValueError")
      BY <1>7, <2>2 DEF ReadLoaded, End, GoTo, Contract!End
    <3> QED
      BY <1>7, <1>u, <2>2, <3>1 DEF ReadLoaded, Contract!RefuseUse
  <2> QED
    BY <2>1, <2>2
<1>8. ASSUME NEW t \in Threads, BackendReturns(t)
      PROVE  Contract!Finish(t)
  <2>1. "returned" \in Contract!Documented(op[t]) \ {"RuntimeError"}
    BY <1>8, <1>u DEF BackendReturns, Contract!Documented, Uses
  <2>2. Contract!End(t, "returned")
    BY <1>8 DEF BackendReturns, End, GoTo, Contract!End
  <2> QED
    BY <1>8, <1>u, <2>1, <2>2 DEF BackendReturns, Contract!Finish
<1>9. ASSUME NEW t \in Threads, NEW e \in BackendErrors(op[t]), BackendRaises(t, e)
      PROVE  Contract!Finish(t)
  <2>1. e \in Contract!Documented(op[t]) \ {"RuntimeError"}
    BY <1>u, ErrorsAreDocumented
  <2>2. Contract!End(t, e)
    BY <1>9 DEF BackendRaises, End, GoTo, Contract!End
  <2> QED
    BY <1>9, <1>u, <2>1, <2>2 DEF BackendRaises, Contract!Finish
<1>10. CASE UNCHANGED vars
  BY <1>10 DEF vars, Contract!vars
<1> QED
  BY <1>1, <1>2, <1>3, <1>4, <1>5, <1>6, <1>7, <1>8, <1>9, <1>10, <1>u
     DEF Next, Continue, Contract!Next

(* The instance, with its unlocked slot, implements the abstract register: *)
(* a use finds the slot empty or takes one circuit, at one point, and a    *)
(* call that has a circuit never ends by saying there is none.             *)
THEOREM Refinement == Spec => ImplementsContract
<1>1. Init => Contract!Init
  BY InitRefines
<1>2. IInv /\ [Next]_vars => [Contract!Next]_(Contract!vars)
  BY StepRefines
<1> QED
  BY <1>1, <1>2, Invariance, PTL DEF Spec, ImplementsContract, Contract!Spec
=============================================================================
