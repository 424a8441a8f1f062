--------------------------- MODULE GoogleCppProofs ---------------------------
(***************************************************************************)
(* What TLAPS proves of GoogleCpp, for any number of threads, any circuit  *)
(* table, any circuits and any declarations.                               *)
(***************************************************************************)
EXTENDS GoogleCpp, TLAPS

USE DEF sessionVars, backendVars

LEMMA ConstantFacts ==
    /\ NoCircuit \notin LoadedCircuits
    /\ 0 \in 0 .. MaxClaims
    /\ NoInput \in Inputs
    /\ S!Uses = {"prove", "verify"}
    /\ S!Methods = {"prove", "verify", "load"}
    /\ {"none", "returned", "RuntimeError", "ValueError", "ProverError",
        "VerifierError", "MemoryError"} = S!Outcomes
<1>1. S!Methods = {"prove", "verify", "load"} /\ S!Uses = {"prove", "verify"}
  BY DEF S!Methods, S!Uses
<1>2. /\ S!BackendErrors("load") = {"ValueError", "MemoryError"}
      /\ S!BackendErrors("prove") = {"ValueError", "MemoryError", "ProverError"}
      /\ S!BackendErrors("verify") = {"ValueError", "MemoryError", "VerifierError"}
  BY DEF S!BackendErrors
<1>3. UNION {S!BackendErrors(m) : m \in S!Methods} =
        {"ValueError", "ProverError", "VerifierError", "MemoryError"}
  BY <1>1, <1>2
<1> QED
  BY <1>1, <1>3, TableAssumption DEF S!Outcomes, NoInput, Inputs

LEMMA InitIInv == Init => IInv
  BY ConstantFacts
     DEF Init, IInv, TypeOK, Consistent, S!Init, S!Consistent

(* The variables a thread owns. *)
Own(t) == <<pc[t], op[t], aware[t], state[t], outcome[t], input[t], stage[t],
            attrs[t], args[t], buffer[t], mutated[t]>>

(* A step of t that touches only what t owns, and does not empty the slot, *)
(* leaves every other thread consistent.                                   *)
LEMMA OthersKeep ==
  ASSUME IInv, NEW t \in Threads,
         TypeOK', Consistent(t)',
         circuit # NoCircuit => circuit' # NoCircuit,
         \A u \in Threads \ {t} : UNCHANGED Own(u)
  PROVE  IInv'
<1>1. ASSUME NEW u \in Threads
      PROVE  Consistent(u)'
  <2>1. CASE u = t
    BY <2>1
  <2>2. CASE u # t
    <3>1. Consistent(u)
      BY DEF IInv
    <3>2. UNCHANGED Own(u)
      BY <2>2
    <3> QED
      BY <3>1, <3>2 DEF Own, Consistent, S!Consistent, CallArgs
  <2> QED
    BY <2>1, <2>2
<1> QED
  BY <1>1 DEF IInv

(* A call of t that ends with its buffer freed keeps the invariant. *)
LEMMA LeaveKeeps ==
  ASSUME IInv, NEW t \in Threads,
         NEW o \in S!Outcomes \union Foreign,
         S!End(t, o), Leave(t),
         circuit' \in LoadedCircuits \union {NoCircuit},
         circuit # NoCircuit => circuit' # NoCircuit,
         buffer' \in [Threads -> BOOLEAN],
         ~buffer'[t],
         \A u \in Threads \ {t} : buffer'[u] = buffer[u]
  PROVE  IInv'
<1>0. TypeOK
  BY DEF IInv
<1>1. TypeOK'
  BY <1>0, ConstantFacts DEF TypeOK, S!End, S!GoTo, Leave
<1>2. Consistent(t)'
  BY <1>0, ConstantFacts DEF TypeOK, S!End, S!GoTo, Leave, Consistent, S!Consistent
<1>3. \A u \in Threads \ {t} : UNCHANGED Own(u)
  BY <1>0 DEF TypeOK, S!End, S!GoTo, Leave, Own
<1> QED
  BY <1>1, <1>2, <1>3, OthersKeep

-----------------------------------------------------------------------------
(* Each action keeps the invariant. *)

LEMMA BeginLoadKeeps ==
  ASSUME IInv, NEW t \in Threads, BeginLoad(t)
  PROVE  IInv'
<1> USE DEF BeginLoad, S!BeginLoad, S!Begin, S!GoTo
<1>0. TypeOK /\ Consistent(t)
  BY DEF IInv
<1>1. TypeOK'
  BY <1>0, ConstantFacts DEF TypeOK
<1>2. Consistent(t)'
  BY <1>0, ConstantFacts DEF TypeOK, Consistent, S!Consistent
<1>3. \A u \in Threads \ {t} : UNCHANGED Own(u)
  BY <1>0 DEF TypeOK, Own
<1> QED
  BY <1>1, <1>2, <1>3, OthersKeep

LEMMA BeginUseKeeps ==
  ASSUME IInv, NEW t \in Threads, NEW m \in S!Uses, NEW aw \in BOOLEAN,
         NEW in \in Inputs, BeginUse(t, m, aw, in)
  PROVE  IInv'
<1> USE DEF BeginUse, S!BeginUse, S!Begin, S!GoTo
<1>0. TypeOK /\ Consistent(t)
  BY DEF IInv
<1>1. TypeOK'
  BY <1>0, ConstantFacts DEF TypeOK
<1>2. Consistent(t)'
  BY <1>0, ConstantFacts DEF TypeOK, Consistent, S!Consistent
<1>3. \A u \in Threads \ {t} : UNCHANGED Own(u)
  BY <1>0 DEF TypeOK, Own
<1> QED
  BY <1>1, <1>2, <1>3, OthersKeep

(* A thread that is not inside a backend holds nothing of the backend's.   *)
LEMMA OutsideBackend ==
  ASSUME IInv, NEW t \in Threads, pc[t] # "backend"
  PROVE  stage[t] = "guard" /\ ~buffer[t]
  BY DEF IInv, TypeOK, Consistent

LEMMA LoadKeeps ==
  ASSUME IInv, NEW t \in Threads, NEW d \in Declarations, Load(t, d)
  PROVE  IInv'
<1>0. TypeOK /\ Consistent(t)
  BY DEF IInv
<1>1. CASE S!BackendLoadRaises(t, "ValueError") /\ UNCHANGED <<backendVars, alive>>
  <2> USE <1>1 DEF S!BackendLoadRaises, S!End, S!GoTo
  <2>1. TypeOK'
    BY <1>0, ConstantFacts DEF TypeOK
  <2>2. Consistent(t)'
    BY <1>0, ConstantFacts DEF TypeOK, Consistent, S!Consistent
  <2>3. \A u \in Threads \ {t} : UNCHANGED Own(u)
    BY <1>0 DEF TypeOK, Own
  <2> QED
    BY <2>1, <2>2, <2>3, OthersKeep
<1>2. ASSUME NEW h \in LoadedCircuits, S!BackendLoads(t, h), UNCHANGED <<backendVars, alive>>
      PROVE  IInv'
  <2> USE <1>2 DEF S!BackendLoads, S!GoTo
  <2>1. TypeOK'
    BY <1>0, ConstantFacts DEF TypeOK
  <2>2. Consistent(t)'
    BY <1>0, ConstantFacts DEF TypeOK, Consistent, S!Consistent
  <2>3. \A u \in Threads \ {t} : UNCHANGED Own(u)
    BY <1>0 DEF TypeOK, Own
  <2> QED
    BY <2>1, <2>2, <2>3, OthersKeep
<1>3. ASSUME NEW r \in _find_row(d.version, d.count)
      PROVE  [row |-> r, blob |-> d.blob] \in LoadedCircuits
  BY TableAssumption DEF _find_row, LoadedCircuits
<1> QED
  BY <1>1, <1>2, <1>3 DEF Load

LEMMA StoreKeeps ==
  ASSUME IInv, NEW t \in Threads, Store(t)
  PROVE  IInv'
<1> USE DEF Store, S!Store, S!End, S!GoTo
<1>0. TypeOK /\ Consistent(t)
  BY DEF IInv
<1>1. TypeOK'
  BY <1>0, ConstantFacts DEF TypeOK
<1>2. Consistent(t)'
  BY <1>0, ConstantFacts DEF TypeOK, Consistent, S!Consistent
<1>3. \A u \in Threads \ {t} : UNCHANGED Own(u)
  BY <1>0 DEF TypeOK, Own
<1>4. circuit' # NoCircuit
  BY <1>0 DEF Consistent, S!Consistent
<1> QED
  BY <1>1, <1>2, <1>3, <1>4, OthersKeep

LEMMA LookupKeeps ==
  ASSUME IInv, NEW t \in Threads, Lookup(t)
  PROVE  IInv'
<1>0. TypeOK /\ Consistent(t)
  BY DEF IInv
<1>1. ~buffer[t] /\ pc[t] # "backend"
  BY <1>0 DEF Lookup, S!CheckLoaded, S!ReadLoaded, Consistent
<1>2. CASE pc'[t] = "idle"
  <2>1. \E o \in {"RuntimeError", "ValueError"} : S!End(t, o)
    BY <1>0, <1>2 DEF Lookup, S!CheckLoaded, S!ReadLoaded, S!GoTo, TypeOK
  <2>2. Leave(t) /\ UNCHANGED <<circuit, buffer>>
    BY <1>2 DEF Lookup, S!CheckLoaded, S!ReadLoaded
  <2> QED
    BY <1>0, <1>1, <2>1, <2>2, LeaveKeeps, ConstantFacts DEF TypeOK
<1>3. CASE pc'[t] # "idle"
  <2> USE <1>3 DEF Lookup, S!CheckLoaded, S!ReadLoaded, S!GoTo, S!End
  <2>1. TypeOK'
    BY <1>0, ConstantFacts DEF TypeOK
  <2>2. Consistent(t)'
    BY <1>0, <1>1, ConstantFacts DEF TypeOK, Consistent, S!Consistent
  <2>3. \A u \in Threads \ {t} : UNCHANGED Own(u)
    BY <1>0 DEF TypeOK, Own
  <2> QED
    BY <2>1, <2>2, <2>3, OthersKeep
<1> QED
  BY <1>2, <1>3

(* A backend call that raises while it holds no buffer. *)
LEMMA RaiseKeeps ==
  ASSUME IInv, NEW t \in Threads,
         NEW e \in S!Outcomes \union Foreign,
         Raise(t, e), UNCHANGED buffer, ~buffer[t]
  PROVE  IInv'
<1>1. TypeOK
  BY DEF IInv
<1> QED
  BY <1>1, LeaveKeeps DEF Raise, S!BackendRaises, TypeOK

LEMMA GuardKeeps ==
  ASSUME IInv, NEW t \in Threads, Guard(t)
  PROVE  IInv'
<1>0. TypeOK /\ Consistent(t)
  BY DEF IInv
<1>1. CASE Raise(t, "ValueError")
  BY <1>0, <1>1, RaiseKeeps, ConstantFacts DEF Guard, In, Consistent
<1>2. CASE /\ _require_claims_match_spec(t)
           /\ op[t] = "verify" => ~input[t].longDoc
           /\ GoTo(t, "alloc") /\ UNCHANGED <<attrs, args, buffer>>
  <2> USE <1>2 DEF Guard, In, GoTo
  <2>1. TypeOK'
    BY <1>0 DEF TypeOK
  <2>2. Consistent(t)'
    BY <1>0 DEF TypeOK, Consistent, S!Consistent, _require_claims_match_spec
  <2>3. \A u \in Threads \ {t} : UNCHANGED Own(u)
    BY <1>0 DEF TypeOK, Own
  <2> QED
    BY <2>1, <2>2, <2>3, OthersKeep
<1> QED
  BY <1>1, <1>2 DEF Guard

LEMMA AllocKeeps ==
  ASSUME IInv, NEW t \in Threads, Alloc(t)
  PROVE  IInv'
<1> USE DEF Alloc, In, GoTo
<1>0. TypeOK /\ Consistent(t)
  BY DEF IInv
<1>1. TypeOK'
  BY <1>0 DEF TypeOK, Inputs
<1>2. Consistent(t)'
  BY <1>0 DEF TypeOK, Consistent, S!Consistent
<1>3. \A u \in Threads \ {t} : UNCHANGED Own(u)
  BY <1>0 DEF TypeOK, Own
<1> QED
  BY <1>1, <1>2, <1>3, OthersKeep

LEMMA FillKeeps ==
  ASSUME IInv, NEW t \in Threads, Fill(t)
  PROVE  IInv'
<1>0. TypeOK /\ Consistent(t)
  BY DEF IInv
<1>1. CASE Raise(t, "ValueError")
  BY <1>0, <1>1, RaiseKeeps, ConstantFacts DEF Fill, In, Consistent
<1>3. CASE input[t].len > attrs[t] /\ Raise(t, "IndexError")
  <2>1. ClaimsMutable
    <3>1. stage[t] = "fill" /\ input[t].len \in Nat
      BY <1>0 DEF Fill, In, TypeOK, Inputs
    <3> QED
      BY <1>0, <1>3, <3>1 DEF Consistent
  <2>2. "IndexError" \in Foreign
    BY <2>1 DEF Foreign
  <2> QED
    BY <1>0, <1>3, <2>2, RaiseKeeps DEF Fill, In, Consistent
<1>2. CASE GoTo(t, "ready") /\ UNCHANGED <<attrs, args, buffer>>
  <2> USE <1>2 DEF Fill, In, GoTo
  <2>1. TypeOK'
    BY <1>0 DEF TypeOK
  <2>2. Consistent(t)'
    BY <1>0 DEF TypeOK, Consistent, S!Consistent
  <2>3. \A u \in Threads \ {t} : UNCHANGED Own(u)
    BY <1>0 DEF TypeOK, Own
  <2> QED
    BY <2>1, <2>2, <2>3, OthersKeep
<1> QED
  BY <1>1, <1>2, <1>3 DEF Fill

LEMMA CallCKeeps ==
  ASSUME IInv, NEW t \in Threads, CallC(t)
  PROVE  IInv'
<1>0. TypeOK /\ Consistent(t)
  BY DEF IInv
<1>1. CASE BeyondCalendar /\ Raise(t, "OverflowError")
  <2>1. "OverflowError" \in Foreign
    BY <1>1 DEF Foreign
  <2> QED
    BY <1>0, <1>1, <2>1, RaiseKeeps DEF CallC, In, Consistent
<1>2. CASE args' = [args EXCEPT ![t] = CallArgs(t)] /\ GoTo(t, "c") /\ UNCHANGED attrs
  <2> USE <1>2 DEF CallC, In, GoTo
  <2>1. CallArgs(t) \in CArgs
    <3>1. state[t] \in LoadedCircuits
      BY <1>0 DEF TypeOK, Consistent, S!Consistent
    <3> QED
      BY <1>0, <3>1 DEF TypeOK, Inputs, LoadedCircuits, CallArgs, CArgs
  <2>2. TypeOK'
    BY <1>0, <2>1 DEF TypeOK
  <2>3. Consistent(t)'
    <3>1. args'[t] = CallArgs(t) /\ CallArgs(t) = CallArgs(t)'
      BY <1>0 DEF TypeOK, CallArgs
    <3>2. CallArgs(t).longDoc = input[t].longDoc
      BY DEF CallArgs
    <3> HIDE DEF CallArgs
    <3> QED
      BY <1>0, <2>1, <3>1, <3>2 DEF TypeOK, Consistent, S!Consistent
  <2>4. \A u \in Threads \ {t} : UNCHANGED Own(u)
    BY <1>0 DEF TypeOK, Own
  <2> QED
    BY <2>2, <2>3, <2>4, OthersKeep
<1> QED
  BY <1>1, <1>2 DEF CallC

LEMMA CSucceedsKeeps ==
  ASSUME IInv, NEW t \in Threads, CSucceeds(t)
  PROVE  IInv'
<1>0. TypeOK /\ Consistent(t)
  BY DEF IInv
<1>1. CASE op[t] = "prove"
  <2> USE <1>1 DEF CSucceeds, In, GoTo
  <2>1. TypeOK'
    BY <1>0 DEF TypeOK
  <2>2. Consistent(t)'
    BY <1>0 DEF TypeOK, Consistent, S!Consistent
  <2>3. \A u \in Threads \ {t} : UNCHANGED Own(u)
    BY <1>0 DEF TypeOK, Own
  <2> QED
    BY <2>1, <2>2, <2>3, OthersKeep
<1>2. CASE op[t] # "prove"
  <2>1. S!End(t, "returned") /\ Leave(t) /\ UNCHANGED <<circuit, buffer>> /\ ~buffer[t]
    BY <1>0, <1>2 DEF CSucceeds, In, S!BackendReturns, Consistent
  <2> QED
    BY <1>0, <2>1, LeaveKeeps, ConstantFacts DEF TypeOK
<1> QED
  BY <1>1, <1>2

LEMMA CRejectsKeeps ==
  ASSUME IInv, NEW t \in Threads, CRejects(t)
  PROVE  IInv'
<1>0. TypeOK /\ Consistent(t)
  BY DEF IInv
<1>1. ~buffer[t]
  BY <1>0 DEF CRejects, In, Consistent
<1>2. \E e \in {"ProverError", "VerifierError"} : Raise(t, e)
  BY DEF CRejects
<1> QED
  BY <1>1, <1>2, RaiseKeeps, ConstantFacts DEF CRejects

LEMMA CAbortsKeeps ==
  ASSUME IInv, NEW t \in Threads, CAborts(t)
  PROVE  IInv'
<1>1. TypeOK'
  BY DEF IInv, TypeOK, CAborts
<1>2. ASSUME NEW u \in Threads
      PROVE  Consistent(u)'
  BY DEF IInv, CAborts, Consistent, S!Consistent, CallArgs
<1> QED
  BY <1>1, <1>2 DEF IInv

LEMMA CopyKeeps ==
  ASSUME IInv, NEW t \in Threads, Copy(t)
  PROVE  IInv'
<1>0. TypeOK
  BY DEF IInv
<1>1. \E o \in {"returned", "MemoryError"} : S!End(t, o)
  BY DEF Copy, S!BackendReturns, S!BackendRaises
<1>2. Leave(t) /\ UNCHANGED circuit /\ buffer' = [buffer EXCEPT ![t] = FALSE]
  BY DEF Copy, S!BackendReturns, S!BackendRaises
<1> QED
  BY <1>0, <1>1, <1>2, LeaveKeeps, ConstantFacts DEF TypeOK

LEMMA MutateClaimsKeeps ==
  ASSUME IInv, NEW t \in Threads, NEW n \in 0 .. MaxClaims, MutateClaims(t, n)
  PROVE  IInv'
<1> USE DEF MutateClaims
<1>0. TypeOK /\ Consistent(t)
  BY DEF IInv
<1>1. TypeOK'
  BY <1>0 DEF TypeOK, Inputs
<1>2. Consistent(t)'
  BY <1>0 DEF TypeOK, Inputs, Consistent, S!Consistent
<1>3. \A u \in Threads \ {t} : UNCHANGED Own(u)
  BY <1>0 DEF TypeOK, Own
<1> QED
  BY <1>1, <1>2, <1>3, OthersKeep

LEMMA NextIInv == IInv /\ [Next]_vars => IInv'
<1> SUFFICES ASSUME IInv, [Next]_vars
             PROVE  IInv'
  OBVIOUS
<1>1. ASSUME NEW t \in Threads, Continue(t)
      PROVE  IInv'
  BY <1>1, LoadKeeps, StoreKeeps, LookupKeeps, GuardKeeps, AllocKeeps, FillKeeps,
     CallCKeeps, CSucceedsKeeps, CRejectsKeeps, CAbortsKeeps, CopyKeeps
     DEF Continue
<1>2. CASE UNCHANGED vars
  BY <1>2 DEF vars, IInv, TypeOK, Consistent, S!Consistent, CallArgs
<1> QED
  BY <1>1, <1>2, BeginLoadKeeps, BeginUseKeeps, MutateClaimsKeeps DEF Next

-----------------------------------------------------------------------------
(* The types, and what each stage of a call still knows of the guard.      *)
THEOREM Invariance == Spec => []IInv
<1>1. Init => IInv
  BY InitIInv
<1>2. IInv /\ [Next]_vars => IInv'
  BY NextIInv
<1> QED
  BY <1>1, <1>2, PTL DEF Spec

(* Every variable keeps its type: what the guard read, what was allocated, *)
(* what C is called with (google_cpp.py:231-392).                          *)
THEOREM TypeCorrect == Spec => []TypeOK
<1>1. IInv => TypeOK
  BY DEF IInv
<1> QED
  BY <1>1, Invariance, PTL

(* Whatever circuits other threads load and however calls interleave, an   *)
(* honestly declared call with an untouched claims list hands C arguments  *)
(* C is written for.                                                       *)
THEOREM HonestCallsCorrect == Spec => []HonestCallsStayInContract
<1>1. IInv => HonestCallsStayInContract
  <2> SUFFICES ASSUME IInv, NEW t \in Threads,
                      stage[t] = "c", Honest(state[t]), ~mutated[t]
               PROVE  InContract(args[t]) /\ (op[t] = "verify" => ~args[t].longDoc)
    BY DEF HonestCallsStayInContract
  <2>1. TypeOK /\ Consistent(t)
    BY DEF IInv
  <2>2. /\ args[t].row = state[t].row
        /\ args[t].blob = state[t].blob
        /\ args[t].attrs = attrs[t]
        /\ args[t].len = input[t].len
        /\ args[t].longDoc = input[t].longDoc
    BY <2>1 DEF Consistent, CallArgs
  <2>3. attrs[t] = input[t].len /\ input[t].len = state[t].row.count
        /\ input[t].len \in Nat
    BY <2>1 DEF TypeOK, Inputs, Consistent
  <2>4. InContract(args[t])
    BY <2>2, <2>3 DEF InContract, Parses, Honest
  <2> QED
    BY <2>1, <2>2, <2>4 DEF Consistent
<1> QED
  BY <1>1, Invariance, PTL

(* No prover buffer outlives the call that received it. *)
THEOREM BuffersCorrect == Spec => []BuffersAreFreed
<1>1. IInv => BuffersAreFreed
  BY DEF IInv, Consistent, BuffersAreFreed
<1> QED
  BY <1>1, Invariance, PTL
-----------------------------------------------------------------------------
(* The process survives honest callers. *)

(* Every declaration is true of its bytes, or C will not parse them. *)
DeclaredHonestly ==
    \A d \in Declarations : \A r \in _find_row(d.version, d.count) :
        Actual[d.blob] \in {r, NoCircuit}

(* Then every circuit state there is was declared honestly. *)
HonestHandles ==
    /\ alive
    /\ circuit # NoCircuit => Honest(circuit)
    /\ \A t \in Threads : state[t] # NoCircuit => Honest(state[t])

(* An honest call that nobody disturbs is not aborted. *)
LEMMA HonestCallReturns ==
  ASSUME IInv, HonestHandles, ~ClaimsMutable, NEW t \in Threads
  PROVE  ~CAborts(t)
<1> SUFFICES ASSUME CAborts(t)
             PROVE  FALSE
  OBVIOUS
<1>1. TypeOK /\ Consistent(t)
  BY DEF IInv
<1>2. Honest(state[t]) /\ ~mutated[t]
  BY <1>1 DEF CAborts, In, Consistent, S!Consistent, HonestHandles
<1>3. args[t] = CallArgs(t) /\ attrs[t] = input[t].len /\ input[t].len \in Nat
      /\ input[t].len = state[t].row.count
  BY <1>1, <1>2 DEF CAborts, In, Consistent, TypeOK, Inputs
<1>4. InContract(args[t])
  BY <1>2, <1>3 DEF CallArgs, InContract, Parses, Honest
<1> QED
  BY <1>4 DEF CAborts

LEMMA NextHonest ==
  ASSUME DeclaredHonestly, ~ClaimsMutable
  PROVE  IInv /\ HonestHandles /\ [Next]_vars => HonestHandles'
<1> SUFFICES ASSUME IInv, HonestHandles, [Next]_vars
             PROVE  HonestHandles'
  OBVIOUS
<1>0. TypeOK
  BY DEF IInv
<1>a. ASSUME NEW t \in Threads, NEW o, S!End(t, o), UNCHANGED <<circuit, alive>>
      PROVE  HonestHandles'
  BY <1>a, <1>0 DEF HonestHandles, Honest, S!End, TypeOK
<1>b. ASSUME UNCHANGED <<circuit, state, alive>>
      PROVE  HonestHandles'
  BY <1>b DEF HonestHandles, Honest
<1>1. ASSUME NEW t \in Threads, NEW d \in Declarations, Load(t, d)
      PROVE  HonestHandles'
  <2>1. CASE S!BackendLoadRaises(t, "ValueError")
    BY <1>1, <1>a, <2>1 DEF Load, S!BackendLoadRaises
  <2>2. ASSUME NEW r \in _find_row(d.version, d.count),
               S!BackendLoads(t, [row |-> r, blob |-> d.blob])
        PROVE  HonestHandles'
    <3>1. Honest([row |-> r, blob |-> d.blob])
      BY DEF DeclaredHonestly, Honest
    <3>2. alive' /\ circuit' = circuit
          /\ state' = [state EXCEPT ![t] = [row |-> r, blob |-> d.blob]]
      BY <1>1, <2>2 DEF Load, S!BackendLoads
    <3> QED
      BY <1>0, <3>1, <3>2 DEF HonestHandles, Honest, TypeOK
  <2> QED
    BY <1>1, <2>1, <2>2 DEF Load
<1>2. ASSUME NEW t \in Threads, Store(t)
      PROVE  HonestHandles'
  BY <1>0, <1>2 DEF Store, S!Store, S!End, HonestHandles, Honest, TypeOK
<1>3. ASSUME NEW t \in Threads, Lookup(t)
      PROVE  HonestHandles'
  <2>1. UNCHANGED <<circuit, alive>>
    BY <1>3 DEF Lookup, Leave, S!CheckLoaded, S!ReadLoaded
  <2>2. \/ \E o \in {"RuntimeError", "ValueError"} : S!End(t, o)
        \/ UNCHANGED state
        \/ state' = [state EXCEPT ![t] = circuit]
    BY <1>3 DEF Lookup, S!CheckLoaded, S!ReadLoaded
  <2>3. CASE state' = [state EXCEPT ![t] = circuit]
    BY <1>0, <2>1, <2>3 DEF HonestHandles, Honest, TypeOK
  <2> QED
    BY <1>a, <1>b, <2>1, <2>2, <2>3
<1>4. ASSUME NEW t \in Threads,
             \/ Guard(t) \/ Alloc(t) \/ Fill(t) \/ CallC(t)
             \/ CSucceeds(t) \/ CRejects(t) \/ Copy(t)
      PROVE  HonestHandles'
  <2>1. UNCHANGED <<circuit, alive>>
    BY <1>4 DEF Guard, Alloc, Fill, CallC, CSucceeds, CRejects, Copy, GoTo,
                Raise, Leave, S!BackendRaises, S!BackendReturns
  <2>2. UNCHANGED state \/ (\E o : S!End(t, o))
    BY <1>4 DEF Guard, Alloc, Fill, CallC, CSucceeds, CRejects, Copy, GoTo,
                Raise, S!BackendRaises, S!BackendReturns
  <2> QED
    BY <1>a, <1>b, <2>1, <2>2
<1>5. ASSUME NEW t \in Threads
      PROVE  ~CAborts(t)
  BY HonestCallReturns
<1>6. CASE UNCHANGED vars
  BY <1>6, <1>b DEF vars
<1>7. ASSUME NEW t \in Threads, BeginLoad(t)
      PROVE  HonestHandles'
  BY <1>7, <1>b DEF BeginLoad, S!BeginLoad, S!Begin
<1>8. ASSUME NEW t \in Threads, NEW m \in S!Uses, NEW aw \in BOOLEAN, NEW in \in Inputs,
             BeginUse(t, m, aw, in)
      PROVE  HonestHandles'
  BY <1>8, <1>b DEF BeginUse, S!BeginUse, S!Begin
<1>9. ASSUME NEW t \in Threads, NEW n \in 0 .. MaxClaims, MutateClaims(t, n)
      PROVE  HonestHandles'
  BY <1>9, <1>b DEF MutateClaims
<1> QED
  BY <1>1, <1>2, <1>3, <1>4, <1>5, <1>6, <1>7, <1>8, <1>9 DEF Next, Continue

(* When every circuit is declared as what it is and callers leave their    *)
(* claims lists alone, no interleaving of loads, proofs and verifications  *)
(* aborts the process.                                                     *)
THEOREM HonestNeverAborts ==
  ASSUME DeclaredHonestly, ~ClaimsMutable
  PROVE  Spec => []NeverAborts
<1>1. Init => HonestHandles
  BY DEF Init, S!Init, HonestHandles
<1>2. IInv /\ HonestHandles /\ [Next]_vars => HonestHandles'
  BY NextHonest
<1>3. HonestHandles => NeverAborts
  BY DEF HonestHandles, NeverAborts
<1> QED
  BY <1>1, <1>2, <1>3, Invariance, PTL DEF Spec

-----------------------------------------------------------------------------
(* But for which exception a call ends with, google-cpp is a backend as    *)
(* Session expects one.                                                    *)

(* A call that ends for Session ends for Documented, with the exception    *)
(* Session has for it.                                                     *)
LEMMA EndIsDocumented ==
  ASSUME IInv, NEW t \in Threads, NEW o, S!End(t, o)
  PROVE  Documented!End(t, AsDocumented(o))
<1>1. outcome \in [Threads -> S!Outcomes \union Foreign]
  BY DEF IInv, TypeOK
<1>2. outcome' = [outcome EXCEPT ![t] = o]
  BY DEF S!End
<1>3. [u \in Threads |-> AsDocumented(outcome[u])]'
        = [[u \in Threads |-> AsDocumented(outcome[u])] EXCEPT ![t] = AsDocumented(o)]
  BY <1>1, <1>2
<1> QED
  BY <1>3 DEF S!End, S!GoTo, Documented!End, Documented!GoTo

LEMMA BackendRaiseIsDocumented ==
  ASSUME IInv, NEW t \in Threads, NEW e, S!BackendRaises(t, e),
         AsDocumented(e) \in Documented!BackendErrors(op[t])
  PROVE  Documented!Next
<1>1. Documented!BackendRaises(t, AsDocumented(e))
  BY EndIsDocumented DEF S!BackendRaises, Documented!BackendRaises
<1> QED
  BY <1>1 DEF Documented!Continue, Documented!Next

LEMMA BackendReturnIsDocumented ==
  ASSUME IInv, NEW t \in Threads, S!BackendReturns(t)
  PROVE  Documented!Next
<1>1. AsDocumented("returned") = "returned"
  BY DEF AsDocumented, Foreign
<1>2. Documented!BackendReturns(t)
  BY <1>1, EndIsDocumented DEF S!BackendReturns, Documented!BackendReturns
<1> QED
  BY <1>2 DEF Documented!Continue, Documented!Next

LEMMA InitIsDocumented == Init => Documented!Init
<1> SUFFICES ASSUME Init
             PROVE  Documented!Init
  OBVIOUS
<1>1. [t \in Threads |-> AsDocumented(outcome[t])] = [t \in Threads |-> "none"]
  BY DEF Init, S!Init, AsDocumented, Foreign
<1> QED
  BY <1>1 DEF Init, S!Init, Documented!Init

LEMMA StepIsDocumented == IInv /\ [Next]_vars => [Documented!Next]_(Documented!vars)
<1> SUFFICES ASSUME IInv, [Next]_vars
             PROVE  Documented!Next \/ UNCHANGED Documented!vars
  OBVIOUS
<1>0. TypeOK
  BY DEF IInv
<1>u. UNCHANGED sessionVars => UNCHANGED Documented!vars
  BY DEF Documented!vars
<1>b. ASSUME NEW t \in Threads, NEW m \in S!Methods, NEW aw \in BOOLEAN, NEW l,
             S!Begin(t, m, aw, l)
      PROVE  Documented!Begin(t, m, aw, l)
  <2>1. [u \in Threads |-> AsDocumented(outcome[u])]'
          = [[u \in Threads |-> AsDocumented(outcome[u])] EXCEPT ![t] = "none"]
    BY <1>0, <1>b DEF S!Begin, TypeOK, AsDocumented, Foreign
  <2> QED
    BY <1>b, <2>1 DEF S!Begin, S!GoTo, Documented!Begin, Documented!GoTo
<1>r. ASSUME NEW t \in Threads, NEW e \in Foreign \union {"ValueError", "MemoryError"},
             S!BackendRaises(t, e)
      PROVE  Documented!Next
  <2>1. AsDocumented(e) \in {"ValueError", "MemoryError"}
    BY DEF AsDocumented, Foreign
  <2>2. AsDocumented(e) \in Documented!BackendErrors(op[t])
    BY <2>1 DEF Documented!BackendErrors
  <2> QED
    BY <1>r, <2>2, BackendRaiseIsDocumented
<1>1. ASSUME NEW t \in Threads, BeginLoad(t)
      PROVE  Documented!Next
  BY <1>1, <1>b, ConstantFacts DEF BeginLoad, S!BeginLoad, Documented!BeginLoad,
                                   Documented!Next
<1>2. ASSUME NEW t \in Threads, NEW m \in S!Uses, NEW aw \in BOOLEAN, NEW in \in Inputs,
             BeginUse(t, m, aw, in)
      PROVE  Documented!Next
  <2>1. Documented!BeginUse(t, m, aw)
    BY <1>2, <1>b, ConstantFacts DEF BeginUse, S!BeginUse, Documented!BeginUse
  <2> QED
    BY <2>1, ConstantFacts DEF Documented!Next, Documented!Uses
<1>3. ASSUME NEW t \in Threads, NEW d \in Declarations, Load(t, d)
      PROVE  Documented!Next
  <2>1. CASE S!BackendLoadRaises(t, "ValueError")
    <3>1. AsDocumented("ValueError") = "ValueError"
      BY DEF AsDocumented
    <3>2. Documented!BackendLoadRaises(t, "ValueError")
      BY <2>1, <3>1, EndIsDocumented DEF S!BackendLoadRaises, Documented!BackendLoadRaises
    <3>3. "ValueError" \in Documented!BackendErrors("load")
      BY DEF Documented!BackendErrors
    <3> QED
      BY <3>2, <3>3 DEF Documented!Next, Documented!Continue
  <2>2. ASSUME NEW r \in _find_row(d.version, d.count),
               S!BackendLoads(t, [row |-> r, blob |-> d.blob])
        PROVE  Documented!Next
    <3>1. [row |-> r, blob |-> d.blob] \in LoadedCircuits
      BY TableAssumption DEF _find_row, LoadedCircuits
    <3>2. Documented!BackendLoads(t, [row |-> r, blob |-> d.blob])
      BY <2>2 DEF S!BackendLoads, S!GoTo, Documented!BackendLoads, Documented!GoTo
    <3> QED
      BY <3>1, <3>2 DEF Documented!Next, Documented!Continue
  <2> QED
    BY <1>3, <2>1, <2>2 DEF Load
<1>4. ASSUME NEW t \in Threads, Store(t)
      PROVE  Documented!Next
  <2>1. Documented!End(t, "returned")
    BY <1>4, EndIsDocumented DEF Store, S!Store, AsDocumented, Foreign
  <2> QED
    BY <1>4, <2>1 DEF Store, S!Store, Documented!Store, Documented!Continue, Documented!Next
<1>5. ASSUME NEW t \in Threads, Lookup(t)
      PROVE  Documented!Next
  <2>1. CASE S!CheckLoaded(t)
    <3>1. S!End(t, "RuntimeError") => Documented!End(t, "RuntimeError")
      BY EndIsDocumented DEF AsDocumented, Foreign
    <3>2. Documented!CheckLoaded(t)
      BY <2>1, <3>1 DEF S!CheckLoaded, S!GoTo, Documented!CheckLoaded, Documented!GoTo
    <3> QED
      BY <3>2 DEF Documented!Continue, Documented!Next
  <2>2. CASE S!ReadLoaded(t)
    <3>1. S!End(t, "ValueError") => Documented!End(t, "ValueError")
      BY EndIsDocumented DEF AsDocumented, Foreign
    <3>2. Documented!ReadLoaded(t)
      BY <2>2, <3>1 DEF S!ReadLoaded, S!GoTo, Documented!ReadLoaded, Documented!GoTo
    <3> QED
      BY <3>2 DEF Documented!Continue, Documented!Next
  <2> QED
    BY <1>5, <2>1, <2>2 DEF Lookup
<1>6. ASSUME NEW t \in Threads, Guard(t)
      PROVE  Documented!Next \/ UNCHANGED sessionVars
  BY <1>6, <1>r DEF Guard, Raise, GoTo
<1>7. ASSUME NEW t \in Threads, Fill(t)
      PROVE  Documented!Next \/ UNCHANGED sessionVars
  <2>1. CASE input[t].len > attrs[t] /\ Raise(t, "IndexError")
    <3>1. Consistent(t) /\ input[t].len \in Nat /\ stage[t] = "fill"
      BY <1>0, <1>7 DEF IInv, TypeOK, Inputs, Fill, In
    <3>2. "IndexError" \in Foreign
      BY <2>1, <3>1 DEF Consistent, Foreign
    <3> QED
      BY <1>r, <2>1, <3>2 DEF Raise
  <2>2. CASE Raise(t, "ValueError")
    BY <1>r, <2>2 DEF Raise
  <2> QED
    BY <1>7, <2>1, <2>2 DEF Fill, GoTo
<1>8. ASSUME NEW t \in Threads, CallC(t)
      PROVE  Documented!Next \/ UNCHANGED sessionVars
  <2>1. CASE BeyondCalendar /\ Raise(t, "OverflowError")
    <3>1. "OverflowError" \in Foreign
      BY <2>1 DEF Foreign
    <3> QED
      BY <1>r, <2>1, <3>1 DEF Raise
  <2> QED
    BY <1>8, <2>1 DEF CallC, GoTo
<1>9. ASSUME NEW t \in Threads, CSucceeds(t)
      PROVE  Documented!Next \/ UNCHANGED sessionVars
  BY <1>9, BackendReturnIsDocumented DEF CSucceeds, GoTo
<1>10. ASSUME NEW t \in Threads, CRejects(t)
       PROVE  Documented!Next
  <2> DEFINE e == IF op[t] = "prove" THEN "ProverError" ELSE "VerifierError"
  <2>1. op[t] \in {"prove", "verify"}
    BY <1>10, ConstantFacts DEF CRejects, In, IInv, Consistent, S!Consistent
  <2>2. AsDocumented(e) = e
    BY DEF AsDocumented, Foreign
  <2>3. e \in Documented!BackendErrors(op[t])
    BY <2>1 DEF Documented!BackendErrors
  <2>4. S!BackendRaises(t, e)
    BY <1>10 DEF CRejects, Raise
  <2> HIDE DEF e
  <2> QED
    BY <2>2, <2>3, <2>4, BackendRaiseIsDocumented
<1>11. ASSUME NEW t \in Threads, Copy(t)
       PROVE  Documented!Next
  BY <1>11, <1>r, BackendReturnIsDocumented DEF Copy
<1>12. ASSUME NEW t \in Threads, Alloc(t) \/ CAborts(t)
       PROVE  UNCHANGED sessionVars
  BY <1>12 DEF Alloc, CAborts, GoTo
<1>13. ASSUME NEW t \in Threads, NEW n \in 0 .. MaxClaims, MutateClaims(t, n)
       PROVE  UNCHANGED sessionVars
  BY <1>13 DEF MutateClaims
<1>14. CASE UNCHANGED vars
  BY <1>14, <1>u DEF vars
<1> QED
  BY <1>u, <1>1, <1>2, <1>3, <1>4, <1>5, <1>6, <1>7, <1>8, <1>9, <1>10, <1>11, <1>12,
     <1>13, <1>14 DEF Next, Continue

(* Every step between Python and the C ABI is one that Session allows an   *)
(* opaque backend, or is invisible to it, whatever circuits are declared   *)
(* and whatever callers do to their claims lists: each call that ends does *)
(* so in a documented way, if the foreign exceptions are read as           *)
(* ValueError, and leaves the slot and the other threads alone             *)
(* (google_cpp.py:248-392).                                                *)
THEOREM RefinesSession == Spec => Documented!Spec
<1>1. Init => Documented!Init
  BY InitIsDocumented
<1>2. IInv /\ [Next]_vars => [Documented!Next]_(Documented!vars)
  BY StepIsDocumented
<1> QED
  BY <1>1, <1>2, Invariance, PTL DEF Spec, Documented!Spec

-----------------------------------------------------------------------------
(* What SessionProofs proves of every backend, for this one.  SP and       *)
(* Documented are two instances of the same definitions.                   *)
SP == INSTANCE SessionProofs WITH
    Handles <- LoadedCircuits,
    outcome <- [t \in Threads |-> AsDocumented(outcome[t])]

(* So an instance on google-cpp keeps the promise of SessionContract, the   *)
(* foreign exceptions read as ValueError.                                  *)
THEOREM KeepsContract == Spec => Documented!ImplementsContract
<1>1. NoCircuit \notin LoadedCircuits
  BY ConstantFacts
<1>2. SP!Spec => SP!ImplementsContract
  BY <1>1, SP!Refinement
<1>3. Documented!Init <=> SP!Init
  BY DEF Documented!Init, SP!Init
<1>4. Documented!Next <=> SP!Next
  BY DEF Documented!Next, SP!Next, Documented!Continue, SP!Continue,
         Documented!BeginLoad, SP!BeginLoad, Documented!BeginUse, SP!BeginUse,
         Documented!Begin, SP!Begin, Documented!End, SP!End, Documented!GoTo,
         SP!GoTo, Documented!BackendLoads, SP!BackendLoads,
         Documented!BackendLoadRaises, SP!BackendLoadRaises, Documented!Store,
         SP!Store, Documented!CheckLoaded, SP!CheckLoaded,
         Documented!ReadLoaded, SP!ReadLoaded, Documented!BackendReturns,
         SP!BackendReturns, Documented!BackendRaises, SP!BackendRaises,
         Documented!BackendErrors, SP!BackendErrors, Documented!Uses, SP!Uses
<1>5. SP!Contract!Init <=> Documented!Contract!Init
  BY DEF Documented!Contract!Init, SP!Contract!Init
<1>6. [SP!Contract!Next]_(SP!Contract!vars)
        <=> [Documented!Contract!Next]_(Documented!Contract!vars)
  BY DEF Documented!Contract!Next, SP!Contract!Next, Documented!Contract!Begin,
         SP!Contract!Begin, Documented!Contract!End, SP!Contract!End,
         Documented!Contract!Replace, SP!Contract!Replace,
         Documented!Contract!RefuseLoad, SP!Contract!RefuseLoad,
         Documented!Contract!RefuseUse, SP!Contract!RefuseUse,
         Documented!Contract!Take, SP!Contract!Take, Documented!Contract!Finish,
         SP!Contract!Finish, Documented!Contract!Documented,
         SP!Contract!Documented, Documented!Contract!Uses, SP!Contract!Uses,
         Documented!Contract!Methods, SP!Contract!Methods,
         Documented!Contract!vars, SP!Contract!vars
<1>7. Documented!Spec => Documented!ImplementsContract
  BY <1>2, <1>3, <1>4, <1>5, <1>6, PTL
     DEF Documented!Spec, SP!Spec, Documented!vars, SP!vars,
         Documented!ImplementsContract, SP!ImplementsContract,
         Documented!Contract!Spec, SP!Contract!Spec
<1> QED
  BY <1>7, RefinesSession
=============================================================================
