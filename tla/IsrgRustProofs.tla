--------------------------- MODULE IsrgRustProofs ---------------------------
(***************************************************************************)
(* What TLAPS proves of IsrgRust, for any number of threads, any circuits  *)
(* and any versions, whichever of them the crate cannot load.              *)
(***************************************************************************)
EXTENDS IsrgRust, FiniteSetTheorems, TLAPS

USE DEF sessionVars

LEMMA ConstantFacts ==
    /\ NoCircuit \notin Objects
    /\ IsFiniteSet(Threads)
    /\ Cardinality(Threads) \in Nat
    /\ S!Uses = {"prove", "verify"}
    /\ S!Methods = {"prove", "verify", "load"}
    /\ {"none", "returned", "RuntimeError", "ValueError", "ProverError",
        "VerifierError", "MemoryError"} = S!Outcomes
<1>1. S!Methods = {"prove", "verify", "load"} /\ S!Uses = {"prove", "verify"}
  BY DEF S!Methods, S!Uses
<1>2. /\ S!BackendErrors("load") = {"ValueError", "MemoryError"}
      /\ S!BackendErrors("prove") = {"ValueError", "MemoryError", "ProverError"}
      /\ S!BackendErrors("verify") = {"ValueError", "MemoryError", "VerifierError"}
  BY DEF S!BackendErrors
<1>3. UNION {S!BackendErrors(m) : m \in S!Methods} =
        {"ValueError", "ProverError", "VerifierError", "MemoryError"}
  BY <1>1, <1>2
<1>4. Cardinality(Threads) \in Nat
  BY ObjectsAssumption, FS_CardinalityType
<1> QED
  BY <1>1, <1>3, <1>4, ObjectsAssumption DEF S!Outcomes

(* The threads at a stage are some of the threads. *)
LEMMA AtIsFinite ==
  ASSUME NEW s, NEW o, NEW m
  PROVE  /\ IsFiniteSet(At(s, o, m))
         /\ Cardinality(At(s, o, m)) \in Nat
         /\ Cardinality(At(s, o, m)) <= Cardinality(Threads)
<1>1. At(s, o, m) \in SUBSET Threads
  BY DEF At
<1> QED
  BY <1>1, ConstantFacts, FS_Subset, FS_CardinalityType

LEMMA NoOneAt ==
  ASSUME NEW s, NEW o, NEW m, \A t \in Threads : stage[t] = s => state[t] # o
  PROVE  Cardinality(At(s, o, m)) = 0
<1>1. At(s, o, m) = {}
  BY DEF At
<1> QED
  BY <1>1, FS_EmptySet

LEMMA InitIInv == Init => IInv
<1> SUFFICES ASSUME Init
             PROVE  IInv
  OBVIOUS
<1> USE DEF Init, S!Init
<1>1. TypeOK
  <2>1. InitCap \in Nat /\ 0 \in 0 .. InitCap
    BY ConstantFacts DEF InitCap
  <2> QED
    BY <2>1, ConstantFacts DEF TypeOK, NoHandles, NoInits
<1>2. ASSUME NEW t \in Threads
      PROVE  Consistent(t)
  BY ConstantFacts DEF Consistent, S!Consistent
<1>3. ASSUME NEW o \in Objects
      PROVE  Kept(o)
  BY ConstantFacts DEF Kept, References
<1>4. ASSUME NEW o \in Objects, NEW m \in S!Uses
      PROVE  Counted(o, m)
  <2>1. Cardinality(At("assign", o, m)) = 0
    BY NoOneAt
  <2> QED
    BY <2>1 DEF Counted, NoHandles, NoInits
<1> QED
  BY <1>1, <1>2, <1>3, <1>4 DEF IInv

(* The variables a thread owns. *)
Own(t) == <<pc[t], op[t], aware[t], state[t], outcome[t], stage[t], made[t], used[t]>>

(* A step of t leaves another thread consistent if it does not empty the   *)
(* slot and, of the objects other threads hold, changes no origin and      *)
(* empties no field.                                                       *)
LEMMA OthersKeep ==
  ASSUME IInv, NEW t \in Threads,
         Consistent(t)',
         circuit # NoCircuit => circuit' # NoCircuit,
         \A u \in Threads \ {t} : UNCHANGED Own(u),
         \A u \in Threads \ {t} : state[u] \in Objects =>
            /\ source'[state[u]] = source[state[u]]
            /\ \A m \in S!Uses :
                 handle[state[u]][m] # None => handle'[state[u]][m] # None
  PROVE  \A u \in Threads : Consistent(u)'
<1> SUFFICES ASSUME NEW u \in Threads, u # t
             PROVE  Consistent(u)'
  OBVIOUS
<1>1. TypeOK /\ Consistent(u)
  BY DEF IInv
<1>2. UNCHANGED Own(u)
  OBVIOUS
<1>3. S!Consistent(u)'
  BY <1>1, <1>2 DEF Own, Consistent, S!Consistent
<1>4. CASE pc[u] # "backend"
  BY <1>1, <1>2, <1>3, <1>4 DEF Own, Consistent
<1>5. CASE pc[u] = "backend"
  <2>1. state[u] \in Objects /\ op[u] \in S!Uses
    BY <1>1, <1>5 DEF TypeOK, Consistent, S!Consistent
  <2>2. Handle(u)' = Handle(u)
    BY <1>2, <2>1 DEF Own, Handle
  <2> QED
    BY <1>1, <1>2, <1>3, <1>5, <2>1, <2>2 DEF Own, Consistent
<1> QED
  BY <1>4, <1>5

(* Steps that concern the session alone. *)
LEMMA SessionKeeps ==
  ASSUME IInv, NEW t \in Threads,
         pc[t] # "backend",
         TypeOK', S!Consistent(t)',
         circuit # NoCircuit => circuit' # NoCircuit,
         \A o \in Objects :
            o \in References(circuit, state)' <=> o \in References(circuit, state),
         \A u \in Threads \ {t} : UNCHANGED Own(u),
         UNCHANGED <<source, handle, stage, made, used, inits>>
  PROVE  IInv'
<1>1. TypeOK /\ Consistent(t) /\ stage[t] = "arguments"
  BY DEF IInv, Consistent, TypeOK
<1>2. Consistent(t)'
  BY <1>1 DEF Consistent
<1>3. \A u \in Threads : Consistent(u)'
  BY <1>2, OthersKeep
<1>4. ASSUME NEW o \in Objects
      PROVE  Kept(o)'
  BY DEF IInv, Kept
<1>5. ASSUME NEW o \in Objects, NEW m \in S!Uses
      PROVE  Counted(o, m)'
  <2>1. /\ At("assign", o, m)' = At("assign", o, m)
        /\ At("init", o, m)' = At("init", o, m)
    BY <1>1 DEF At, Own
  <2> QED
    BY <2>1 DEF IInv, Counted
<1> QED
  BY <1>3, <1>4, <1>5 DEF IInv

(* A call ends, its references go and what nothing refers to any more is   *)
(* collected.                                                              *)
LEMMA EndKeeps ==
  ASSUME IInv, NEW t \in Threads, NEW o \in S!Outcomes \union Foreign,
         S!End(t, o), Leave(t), stage[t] # "assign",
         circuit' \in Objects \union {NoCircuit},
         circuit # NoCircuit => circuit' # NoCircuit,
         \A x \in Objects :
            x \in References(circuit', state') => x \in References(circuit, state),
         Collect(References(circuit', state'))
  PROVE  IInv'
<1>0. TypeOK
  BY DEF IInv
<1> DEFINE kept == References(circuit', state')
<1>1. TypeOK'
  <2>1. 0 \in 0 .. InitCap
    BY ConstantFacts DEF InitCap
  <2>2. NoInits \in [S!Uses -> 0 .. InitCap] /\ NoHandles \in [S!Uses -> Native \union {None}]
    BY <2>1 DEF NoInits, NoHandles
  <2>3. /\ source' \in [Objects -> Sources \union {None}]
        /\ handle' \in [Objects -> [S!Uses -> Native \union {None}]]
        /\ inits' \in [Objects -> [S!Uses -> 0 .. InitCap]]
    BY <1>0, <2>2 DEF Collect, TypeOK
  <2>4. /\ pc' \in [Threads -> {"idle", "load", "store", "check", "read", "backend"}]
        /\ op' \in [Threads -> S!Methods]
        /\ aware' \in [Threads -> BOOLEAN]
        /\ state' \in [Threads -> Objects \union {NoCircuit}]
        /\ outcome' \in [Threads -> S!Outcomes \union Foreign]
    BY <1>0, ConstantFacts DEF TypeOK, S!End, S!GoTo
  <2>5. /\ stage' \in [Threads -> {"arguments", "test", "init", "assign", "fetch", "native"}]
        /\ made' \in [Threads -> Native \union {None}]
        /\ used' \in [Threads -> Native \union {None}]
    BY <1>0 DEF TypeOK, Leave
  <2> QED
    BY <2>3, <2>4, <2>5 DEF TypeOK
<1>2. Consistent(t)'
  BY <1>0, ConstantFacts DEF TypeOK, S!End, S!GoTo, Leave, Consistent, S!Consistent
<1>3. ASSUME NEW u \in Threads \ {t}
      PROVE  UNCHANGED Own(u)
  BY <1>0 DEF TypeOK, S!End, S!GoTo, Leave, Own
<1>4. ASSUME NEW u \in Threads, state'[u] \in Objects
      PROVE  state'[u] \in kept
  BY DEF References
<1>5. ASSUME NEW u \in Threads \ {t}, state[u] \in Objects
      PROVE  source'[state[u]] = source[state[u]] /\ handle'[state[u]] = handle[state[u]]
  <2>1. state'[u] = state[u]
    BY <1>3 DEF Own
  <2>2. state[u] \in kept
    BY <1>4, <1>5, <2>1
  <2> QED
    BY <1>5, <2>2 DEF Collect
<1>6. \A u \in Threads : Consistent(u)'
  BY <1>2, <1>3, <1>5, OthersKeep
<1>7. ASSUME NEW x \in Objects
      PROVE  Kept(x)'
  <2>1. Kept(x)
    BY DEF IInv
  <2> QED
    BY <2>1 DEF Kept, Collect
<1>8. ASSUME NEW x \in Objects, NEW m \in S!Uses
      PROVE  Counted(x, m)'
  <2>0. Counted(x, m)
    BY DEF IInv
  <2>1. CASE x \in kept
    <3>1. handle'[x] = handle[x] /\ inits'[x] = inits[x]
      BY <2>1 DEF Collect
    <3>2. At("assign", x, m)' = At("assign", x, m)
      BY <1>0, <1>3 DEF At, Own, Leave, TypeOK
    <3>3. At("init", x, m)' \in SUBSET At("init", x, m)
      BY <1>0, <1>3 DEF At, Own, Leave, TypeOK
    <3>4. /\ Cardinality(At("init", x, m)') <= Cardinality(At("init", x, m))
          /\ Cardinality(At("init", x, m)') \in Nat
          /\ Cardinality(At("init", x, m)) \in Nat
      BY <3>3, AtIsFinite, FS_Subset, FS_CardinalityType
    <3>5. inits[x][m] \in Nat
      BY <1>0 DEF TypeOK
    <3> QED
      BY <2>0, <3>1, <3>2, <3>4, <3>5, ConstantFacts DEF Counted
  <2>2. CASE x \notin kept
    <3>1. handle'[x] = NoHandles /\ inits'[x] = NoInits
      BY <2>2 DEF Collect
    <3>2. \A u \in Threads : state'[u] # x
      BY <1>4, <2>2
    <3>3. At("assign", x, m)' = {}
      BY <3>2 DEF At
    <3> QED
      BY <3>1, <3>3, FS_EmptySet DEF Counted, NoHandles, NoInits
  <2> QED
    BY <2>1, <2>2
<1> QED
  BY <1>1, <1>6, <1>7, <1>8 DEF IInv

(* A thread moves on inside the backend and keeps its session: what it may *)
(* change of an object is to fill a field with what fits it.               *)
LEMMA MoveKeeps ==
  ASSUME IInv, NEW t \in Threads, NEW s, pc[t] = "backend", GoTo(t, s),
         TypeOK', Consistent(t)',
         \A u \in Threads \ {t} : made'[u] = made[u] /\ used'[u] = used[u],
         \A o \in Objects \ {state[t]} : handle'[o] = handle[o] /\ inits'[o] = inits[o],
         \A m \in S!Uses :
            \/ handle'[state[t]][m] = handle[state[t]][m]
            \/ handle'[state[t]][m] = [method |-> m, from |-> source[state[t]]],
         \A o \in Objects, m \in S!Uses : o = state[t] => Counted(o, m)'
  PROVE  IInv'
<1>0. TypeOK /\ Consistent(t) /\ state[t] \in Objects /\ op[t] \in S!Uses
  BY DEF IInv, TypeOK, Consistent, S!Consistent
<1>1. \A u \in Threads \ {t} : UNCHANGED Own(u)
  BY <1>0 DEF GoTo, TypeOK, Own
<1>2. ASSUME NEW o \in Objects
      PROVE  Kept(o)'
  <2>0. Kept(o) /\ Kept(state[t]) /\ state[t] \in References(circuit, state)
    BY <1>0 DEF IInv, References
  <2>1. References(circuit, state)' = References(circuit, state) /\ source' = source
    BY DEF GoTo, References
  <2>2. CASE o = state[t]
    BY <2>0, <2>1, <2>2 DEF Kept
  <2>3. CASE o # state[t]
    BY <2>0, <2>1, <2>3 DEF Kept
  <2> QED
    BY <2>2, <2>3
<1>3. ASSUME NEW u \in Threads, state[u] \in Objects, NEW m \in S!Uses,
             handle[state[u]][m] # None
      PROVE  handle'[state[u]][m] # None
  <2>1. CASE state[u] = state[t]
    <3>1. source[state[t]] \in Sources
      BY <1>0 DEF IInv, Kept, References
    <3>2. [method |-> m, from |-> source[state[t]]] \in Native
      BY <3>1 DEF Native
    <3> QED
      BY <1>3, <2>1, <3>2, NoneAssumption
  <2>2. CASE state[u] # state[t]
    BY <1>3, <2>2
  <2> QED
    BY <2>1, <2>2
<1>4. \A u \in Threads : Consistent(u)'
  BY <1>1, <1>3, OthersKeep DEF GoTo
<1>5. ASSUME NEW o \in Objects, NEW m \in S!Uses
      PROVE  Counted(o, m)'
  <2>1. CASE o = state[t]
    BY <2>1
  <2>2. CASE o # state[t]
    <3>1. /\ At("assign", o, m)' = At("assign", o, m)
          /\ At("init", o, m)' = At("init", o, m)
      BY <1>0, <1>1, <2>2 DEF At, Own, GoTo
    <3> QED
      BY <2>2, <3>1 DEF IInv, Counted
  <2> QED
    BY <2>1, <2>2
<1> QED
  BY <1>2, <1>4, <1>5 DEF IInv

(* The field a thread is about to look at or fill, and the counts of the   *)
(* other method's, which the thread is not among.                          *)
LEMMA OtherMethod ==
  ASSUME IInv, NEW t \in Threads, NEW s, pc[t] = "backend", GoTo(t, s),
         NEW o \in Objects, o = state[t], NEW m \in S!Uses, m # op[t],
         handle'[o][m] = handle[o][m], inits'[o][m] = inits[o][m]
  PROVE  Counted(o, m)'
<1>0. TypeOK
  BY DEF IInv
<1>1. /\ At("assign", o, m)' = At("assign", o, m)
      /\ At("init", o, m)' = At("init", o, m)
  BY <1>0 DEF At, GoTo, TypeOK
<1>2. Counted(o, m)
  BY DEF IInv
<1> QED
  BY <1>0, <1>1, <1>2 DEF Counted, GoTo

-----------------------------------------------------------------------------
(* Each action keeps the invariant. *)

LEMMA BeginKeeps ==
  ASSUME IInv, NEW t \in Threads, NEW m \in S!Methods, NEW aw \in BOOLEAN,
         NEW l \in {"load", "check"}, l = "load" <=> m = "load",
         S!Begin(t, m, aw, l), UNCHANGED <<source, handle, stage, made, used, inits>>
  PROVE  IInv'
<1> USE DEF S!Begin, S!GoTo
<1>0. TypeOK /\ Consistent(t)
  BY DEF IInv
<1>1. TypeOK'
  BY <1>0, ConstantFacts DEF TypeOK
<1>2. S!Consistent(t)'
  BY <1>0, ConstantFacts DEF TypeOK, Consistent, S!Consistent
<1>3. \A u \in Threads \ {t} : UNCHANGED Own(u)
  BY <1>0 DEF TypeOK, Own
<1> QED
  BY <1>1, <1>2, <1>3, SessionKeeps DEF References

LEMMA LoadKeeps ==
  ASSUME IInv, NEW t \in Threads, NEW stream \in Streams, NEW version \in Versions,
         Load(t, stream, version)
  PROVE  IInv'
<1>0. TypeOK /\ Consistent(t)
  BY DEF IInv
<1>1. ASSUME NEW e \in {"ValueError", "ZstdError"}, S!BackendLoadRaises(t, e),
             UNCHANGED <<source, handle, stage, made, used, inits>>
      PROVE  IInv'
  <2> USE <1>1 DEF S!BackendLoadRaises, S!End, S!GoTo
  <2>1. TypeOK'
    BY <1>0, ConstantFacts DEF TypeOK, Foreign
  <2>2. S!Consistent(t)'
    BY <1>0, ConstantFacts DEF TypeOK, Consistent, S!Consistent
  <2>3. \A u \in Threads \ {t} : UNCHANGED Own(u)
    BY <1>0 DEF TypeOK, Own
  <2>4. state' = state
    BY <1>0 DEF TypeOK, Consistent, S!Consistent
  <2> QED
    BY <2>1, <2>2, <2>3, <2>4, SessionKeeps DEF References
<1>2. ASSUME NEW o \in Objects \ References(circuit, state), version \in _VERSIONS,
             S!BackendLoads(t, o), source' = [source EXCEPT ![o] = <<stream, version>>],
             UNCHANGED <<handle, stage, made, used, inits>>
      PROVE  IInv'
  <2> USE <1>2 DEF S!BackendLoads, S!GoTo
  <2>1. TypeOK'
    BY <1>0, ConstantFacts DEF TypeOK, Sources
  <2>2. /\ Consistent(t)'
        /\ stage[t] = "arguments"
    BY <1>0, ConstantFacts DEF TypeOK, Consistent, S!Consistent
  <2>3. \A u \in Threads \ {t} : UNCHANGED Own(u)
    BY <1>0 DEF TypeOK, Own
  <2>4. \A u \in Threads : state[u] # o
    BY DEF References
  <2>5. \A u \in Threads : Consistent(u)'
    BY <1>0, <2>2, <2>3, <2>4, OthersKeep DEF TypeOK
  <2>6. state[t] = NoCircuit
    BY <1>0 DEF Consistent, S!Consistent
  <2>7. ASSUME NEW x \in Objects
        PROVE  Kept(x)'
    <3>1. Kept(x) /\ handle[o] = NoHandles
      BY DEF IInv, Kept
    <3>2. x \in References(circuit, state)' <=> x \in References(circuit, state) \/ x = o
      BY <1>0, <2>6, ConstantFacts DEF References, TypeOK
    <3>3. CASE x = o
      <4>1. source'[x] \in Sources
        BY <1>0, <3>3 DEF Sources, TypeOK
      <4> QED
        BY <3>1, <3>2, <3>3, <4>1 DEF Kept, NoHandles
    <3>4. CASE x # o
      BY <1>0, <3>1, <3>2, <3>4 DEF Kept, TypeOK
    <3> QED
      BY <3>3, <3>4
  <2>8. ASSUME NEW x \in Objects, NEW m \in S!Uses
        PROVE  Counted(x, m)'
    <3>1. /\ At("assign", x, m)' = At("assign", x, m)
          /\ At("init", x, m)' = At("init", x, m)
      BY <2>2, <2>3 DEF At, Own
    <3> QED
      BY <3>1 DEF IInv, Counted
  <2> QED
    BY <2>1, <2>5, <2>7, <2>8 DEF IInv
<1> QED
  BY <1>1, <1>2 DEF Load

LEMMA StoreKeeps ==
  ASSUME IInv, NEW t \in Threads, Store(t)
  PROVE  IInv'
<1>0. TypeOK /\ Consistent(t)
  BY DEF IInv
<1>1. stage[t] = "arguments" /\ made[t] = None /\ used[t] = None
  BY <1>0 DEF Store, S!Store, Consistent, TypeOK
<1>2. Leave(t)
  BY <1>0, <1>1 DEF Store, Leave, TypeOK
<1>3. S!End(t, "returned") /\ circuit' = state[t] /\ state[t] \in Objects
  BY <1>0 DEF Store, S!Store, Consistent, S!Consistent, TypeOK
<1>4. ASSUME NEW o \in Objects, o \in References(circuit', state')
      PROVE  o \in References(circuit, state)
  <2>1. \A u \in Threads : state'[u] \in {state[u], NoCircuit}
    BY <1>0, <1>3 DEF S!End, TypeOK
  <2> QED
    BY <1>0, <1>3, <1>4, <2>1, ConstantFacts DEF References, TypeOK
<1> QED
  BY <1>1, <1>2, <1>3, <1>4, EndKeeps, ConstantFacts DEF Store

LEMMA LookupKeeps ==
  ASSUME IInv, NEW t \in Threads, Lookup(t)
  PROVE  IInv'
<1> USE DEF Lookup, S!CheckLoaded, S!ReadLoaded, S!End, S!GoTo
<1>0. TypeOK /\ Consistent(t)
  BY DEF IInv
<1>1. TypeOK'
  <2>1. ASSUME NEW o \in {"RuntimeError", "ValueError"}, S!End(t, o), UNCHANGED circuit
        PROVE  TypeOK'
    BY <1>0, <2>1, ConstantFacts DEF TypeOK
  <2>2. ASSUME S!GoTo(t, "read"), UNCHANGED <<circuit, op, aware, state, outcome>>
        PROVE  TypeOK'
    BY <1>0, <2>2 DEF TypeOK
  <2>3. ASSUME S!GoTo(t, "backend"), state' = [state EXCEPT ![t] = circuit],
               UNCHANGED <<circuit, op, aware, outcome>>
        PROVE  TypeOK'
    BY <1>0, <2>3 DEF TypeOK
  <2> HIDE DEF S!End, S!GoTo
  <2> QED
    BY <2>1, <2>2, <2>3
<1>2. S!Consistent(t)'
  <2>1. CASE S!CheckLoaded(t)
    <3>1. \/ pc'[t] = "idle" /\ state'[t] = NoCircuit
          \/ /\ circuit # NoCircuit /\ pc'[t] = "read"
             /\ state'[t] = state[t] /\ op'[t] = op[t]
      BY <1>0, <2>1 DEF TypeOK
    <3> QED
      BY <1>0, <2>1, <3>1 DEF Consistent, S!Consistent
  <2>2. CASE S!ReadLoaded(t)
    <3>1. \/ pc'[t] = "idle" /\ state'[t] = NoCircuit
          \/ pc'[t] = "backend" /\ state'[t] = circuit /\ op'[t] = op[t]
      BY <1>0, <2>2 DEF TypeOK
    <3> QED
      BY <1>0, <2>2, <3>1 DEF Consistent, S!Consistent
  <2> QED
    BY <2>1, <2>2
<1>3. \A u \in Threads \ {t} : UNCHANGED Own(u)
  BY <1>0 DEF TypeOK, Own
<1>4. state[t] = NoCircuit /\ pc[t] # "backend"
  BY <1>0 DEF Consistent, S!Consistent
<1>5. /\ circuit' = circuit
      /\ \A u \in Threads \ {t} : state'[u] = state[u]
      /\ state'[t] \in {circuit, NoCircuit}
  BY <1>0, <1>4 DEF TypeOK
<1>6. ASSUME NEW o \in Objects
      PROVE  o \in References(circuit, state)' <=> o \in References(circuit, state)
  BY <1>4, <1>5, ConstantFacts DEF References
<1> QED
  BY <1>1, <1>2, <1>3, <1>4, <1>6, SessionKeeps

(* A backend call that ends, having assigned what it made. *)
LEMMA BackendEndKeeps ==
  ASSUME IInv, NEW t \in Threads, NEW o \in S!Outcomes \union Foreign,
         End(t, o), stage[t] # "assign"
  PROVE  IInv'
<1>0. TypeOK
  BY DEF IInv
<1>1. S!End(t, o) /\ UNCHANGED circuit
  BY DEF End, S!BackendReturns, S!BackendRaises
<1>2. ASSUME NEW x \in Objects, x \in References(circuit', state')
      PROVE  x \in References(circuit, state)
  <2>1. \A u \in Threads : state'[u] \in {state[u], NoCircuit}
    BY <1>0, <1>1 DEF S!End, TypeOK
  <2> QED
    BY <1>1, <1>2, <2>1, ConstantFacts DEF References
<1>3. Collect(References(circuit', state')) /\ Leave(t)
  BY <1>1 DEF End
<1>4. circuit' \in Objects \union {NoCircuit} /\ (circuit # NoCircuit => circuit' # NoCircuit)
  BY <1>0, <1>1 DEF TypeOK
<1> QED
  BY <1>1, <1>2, <1>3, <1>4, EndKeeps

(* A step that only moves on, neither to nor from an initialisation that   *)
(* is counted.                                                             *)
LEMMA ArgumentsKeeps ==
  ASSUME IInv, NEW t \in Threads, Arguments(t)
  PROVE  IInv'
<1>0. TypeOK /\ Consistent(t)
  BY DEF IInv
<1>1. ASSUME NEW e \in {"ValueError", "OverflowError"}, End(t, e)
      PROVE  IInv'
  <2>1. stage[t] # "assign" /\ e \in S!Outcomes \union Foreign
    BY ConstantFacts DEF Arguments, In, Foreign
  <2> QED
    BY <1>1, <2>1, BackendEndKeeps
<1>2. CASE GoTo(t, "test") /\ UNCHANGED <<handle, made, used, inits>>
  <2> USE <1>2
  <2>1. TypeOK'
    BY <1>0 DEF TypeOK, GoTo
  <2>2. pc[t] = "backend" /\ stage[t] = "arguments"
    BY DEF Arguments, In
  <2>3. Consistent(t)'
    BY <1>0, <2>2 DEF TypeOK, GoTo, Consistent, S!Consistent
  <2>4. ASSUME NEW o \in Objects, NEW m \in S!Uses
        PROVE  Counted(o, m)'
    <3>1. /\ At("assign", o, m)' = At("assign", o, m)
          /\ At("init", o, m)' = At("init", o, m)
      BY <1>0, <2>2 DEF At, GoTo, TypeOK
    <3> QED
      BY <3>1 DEF IInv, Counted
  <2> QED
    BY <2>1, <2>2, <2>3, <2>4, MoveKeeps
<1> QED
  BY <1>1, <1>2 DEF Arguments

LEMMA TestKeeps ==
  ASSUME IInv, NEW t \in Threads, Test(t)
  PROVE  IInv'
<1>0. TypeOK /\ Consistent(t)
  BY DEF IInv
<1> DEFINE next == IF handle[state[t]][op[t]] = None THEN "init" ELSE "fetch"
<1>1. /\ pc[t] = "backend" /\ stage[t] = "test"
      /\ GoTo(t, next) /\ UNCHANGED <<handle, made, used, inits>>
  BY DEF Test, In
<1>2. TypeOK'
  BY <1>0, <1>1 DEF TypeOK, GoTo
<1>3. Consistent(t)'
  BY <1>0, <1>1 DEF TypeOK, GoTo, Consistent, S!Consistent
<1>4. ASSUME NEW o \in Objects, NEW m \in S!Uses
      PROVE  Counted(o, m)'
  <2>1. At("assign", o, m)' = At("assign", o, m)
    BY <1>0, <1>1 DEF At, GoTo, TypeOK
  <2>2. CASE handle[o][m] = None
    BY <1>1, <2>1, <2>2 DEF IInv, Counted
  <2>3. CASE handle[o][m] # None
    <3>1. At("init", o, m)' = At("init", o, m)
      BY <1>0, <1>1, <2>3 DEF At, GoTo, TypeOK
    <3> QED
      BY <1>1, <2>3, <3>1 DEF IInv, Counted
  <2> QED
    BY <2>2, <2>3
<1> QED
  BY <1>1, <1>2, <1>3, <1>4, MoveKeeps

(* While the field is empty, the initialisations counted are those of the  *)
(* threads about to assign, and once it is filled, the threads still to    *)
(* initialise make up for the rest.                                        *)
LEMMA InitialiseCounts ==
  ASSUME IInv, NEW t \in Threads, stage[t] = "init", pc[t] = "backend",
         NEW o \in Objects, o = state[t], NEW m \in S!Uses, m = op[t]
  PROVE  /\ inits[o][m] \in Nat
         /\ inits[o][m] < Cardinality(Threads)
         /\ Cardinality(At("assign", o, m) \union {t}) = Cardinality(At("assign", o, m)) + 1
         /\ Cardinality(At("init", o, m) \ {t}) = Cardinality(At("init", o, m)) - 1
<1>1. t \in At("init", o, m) /\ t \notin At("assign", o, m)
  BY DEF At
<1>2. /\ Cardinality(At("assign", o, m) \union {t}) = Cardinality(At("assign", o, m)) + 1
      /\ Cardinality(At("init", o, m) \ {t}) = Cardinality(At("init", o, m)) - 1
      /\ Cardinality(At("init", o, m) \ {t}) \in Nat
  BY <1>1, AtIsFinite, FS_AddElement, FS_RemoveElement, FS_CardinalityType
<1>3. Cardinality(At("assign", o, m) \union {t}) <= Cardinality(Threads)
  <2>1. At("assign", o, m) \union {t} \in SUBSET Threads
    BY DEF At
  <2> QED
    BY <2>1, ConstantFacts, FS_Subset
<1>4. inits[o][m] \in Nat /\ Counted(o, m)
  BY DEF IInv, TypeOK
<1>5. inits[o][m] < Cardinality(Threads)
  BY <1>2, <1>3, <1>4, ConstantFacts, AtIsFinite DEF Counted
<1> QED
  BY <1>2, <1>4, <1>5

LEMMA InitialiseKeeps ==
  ASSUME IInv, NEW t \in Threads, Initialise(t)
  PROVE  IInv'
<1>0. TypeOK /\ Consistent(t) /\ pc[t] = "backend" /\ stage[t] = "init"
  BY DEF IInv, Initialise, In
<1>1. CASE End(t, "MdocZkError")
  BY <1>0, <1>1, BackendEndKeeps DEF Foreign
<1>2. CASE /\ made' = [made EXCEPT ![t] = Handle(t)]
           /\ inits' = [inits EXCEPT ![state[t]][op[t]] = IF @ < InitCap THEN @ + 1 ELSE @]
           /\ GoTo(t, "assign") /\ UNCHANGED <<handle, used>>
  <2> USE <1>2
  <2>0. state[t] \in Objects /\ op[t] \in S!Uses /\ source[state[t]] \in Sources
    BY <1>0 DEF IInv, TypeOK, Consistent, S!Consistent, Kept, References
  <2>1. Handle(t) \in Native
    BY <2>0 DEF Handle, Native
  <2>2. /\ inits[state[t]][op[t]] \in Nat
        /\ inits[state[t]][op[t]] < Cardinality(Threads)
    BY <1>0, <2>0, InitialiseCounts
  <2>3. inits' = [inits EXCEPT ![state[t]][op[t]] = @ + 1]
    <3>1. (IF inits[state[t]][op[t]] < InitCap THEN inits[state[t]][op[t]] + 1
           ELSE inits[state[t]][op[t]]) = inits[state[t]][op[t]] + 1
      BY <2>2, ConstantFacts DEF InitCap
    <3> QED
      BY <1>2, <3>1
  <2>4. TypeOK'
    <3>1. inits[state[t]][op[t]] + 1 \in 0 .. InitCap
      BY <2>2, ConstantFacts DEF InitCap
    <3>2. inits' \in [Objects -> [S!Uses -> 0 .. InitCap]]
      BY <1>0, <2>0, <2>3, <3>1 DEF TypeOK
    <3> QED
      BY <1>0, <2>1, <3>2 DEF TypeOK, GoTo
  <2>5. Consistent(t)'
    BY <1>0, <2>0 DEF TypeOK, GoTo, Consistent, S!Consistent, Handle
  <2>6. ASSUME NEW o \in Objects, o = state[t], NEW m \in S!Uses
        PROVE  Counted(o, m)'
    <3>1. CASE m # op[t]
      BY <1>0, <2>3, <2>6, <3>1, OtherMethod DEF TypeOK
    <3>2. CASE m = op[t]
      <4>1. /\ At("assign", o, m)' = At("assign", o, m) \union {t}
            /\ At("init", o, m)' = At("init", o, m) \ {t}
        BY <1>0, <2>6, <3>2 DEF At, GoTo, TypeOK
      <4>2. inits'[o][m] = inits[o][m] + 1 /\ inits[o][m] \in Nat
        BY <1>0, <2>0, <2>2, <2>3, <2>6, <3>2 DEF TypeOK
      <4>3. /\ Cardinality(At("assign", o, m)') = Cardinality(At("assign", o, m)) + 1
            /\ Cardinality(At("init", o, m)') = Cardinality(At("init", o, m)) - 1
        BY <1>0, <2>6, <3>2, <4>1, InitialiseCounts
      <4>4. Counted(o, m)
        BY DEF IInv
      <4> QED
        BY <4>2, <4>3, <4>4, ConstantFacts, AtIsFinite DEF Counted
    <3> QED
      BY <3>1, <3>2
  <2>7. /\ \A u \in Threads \ {t} : made'[u] = made[u] /\ used'[u] = used[u]
        /\ \A o \in Objects \ {state[t]} : inits'[o] = inits[o]
    BY <1>0, <2>3 DEF TypeOK
  <2> QED
    BY <1>0, <2>4, <2>5, <2>6, <2>7, MoveKeeps
<1> QED
  BY <1>1, <1>2 DEF Initialise, Handle

LEMMA InitialiseFailsKeeps ==
  ASSUME IInv, NEW t \in Threads, InitialiseFails(t)
  PROVE  IInv'
  BY BackendEndKeeps, ConstantFacts DEF InitialiseFails, In

(* The first assignment finds every initialisation counted about to be     *)
(* assigned, and nobody who could still initialise among them.             *)
LEMMA AssignKeeps ==
  ASSUME IInv, NEW t \in Threads, Assign(t)
  PROVE  IInv'
<1>0. /\ TypeOK /\ Consistent(t) /\ pc[t] = "backend" /\ stage[t] = "assign"
      /\ state[t] \in Objects /\ op[t] \in S!Uses /\ source[state[t]] \in Sources
  BY DEF IInv, Assign, In, TypeOK, Consistent, S!Consistent, Kept, References
<1>1. /\ handle' = [handle EXCEPT ![state[t]][op[t]] = Handle(t)]
      /\ made' = [made EXCEPT ![t] = None]
      /\ GoTo(t, "fetch") /\ UNCHANGED <<used, inits>>
  BY <1>0 DEF Assign, Consistent
<1>2. Handle(t) \in Native /\ Handle(t) # None
  BY <1>0, NoneAssumption DEF Handle, Native
<1>3. TypeOK'
  <2>1. handle' \in [Objects -> [S!Uses -> Native \union {None}]]
    BY <1>0, <1>1, <1>2 DEF TypeOK
  <2> QED
    BY <1>0, <1>1, <2>1 DEF TypeOK, GoTo
<1>4. handle'[state[t]][op[t]] = Handle(t)
  BY <1>0, <1>1 DEF TypeOK
<1>5. Consistent(t)'
  BY <1>0, <1>1, <1>2, <1>4 DEF TypeOK, GoTo, Consistent, S!Consistent
<1>6. ASSUME NEW o \in Objects, o = state[t], NEW m \in S!Uses
      PROVE  Counted(o, m)'
  <2>1. CASE m # op[t]
    BY <1>0, <1>1, <1>6, <2>1, OtherMethod DEF TypeOK
  <2>2. CASE m = op[t]
    <3>1. /\ At("init", o, m)' = At("init", o, m)
          /\ At("init", o, m) \subseteq Threads /\ At("assign", o, m) \subseteq Threads
          /\ At("init", o, m) \intersect At("assign", o, m) = {}
      BY <1>0, <1>1 DEF At, GoTo, TypeOK
    <3>2. Cardinality(At("assign", o, m)) + Cardinality(At("init", o, m))
            <= Cardinality(Threads)
      <4>1. Cardinality(At("assign", o, m) \union At("init", o, m)) <= Cardinality(Threads)
        BY <3>1, ConstantFacts, FS_Subset
      <4>2. Cardinality(At("assign", o, m) \union At("init", o, m))
              = Cardinality(At("assign", o, m)) + Cardinality(At("init", o, m))
                - Cardinality(At("assign", o, m) \intersect At("init", o, m))
        BY AtIsFinite, FS_Union
      <4>3. Cardinality(At("assign", o, m) \intersect At("init", o, m)) = 0
        BY <3>1, FS_EmptySet
      <4> QED
        BY <4>1, <4>2, <4>3, AtIsFinite
    <3>3. handle'[o][m] # None
      BY <1>2, <1>4, <1>6, <2>2
    <3>4. Counted(o, m)
      BY DEF IInv
    <3> QED
      BY <1>1, <3>1, <3>2, <3>3, <3>4 DEF Counted
  <2> QED
    BY <2>1, <2>2
<1>7. /\ \A u \in Threads \ {t} : made'[u] = made[u] /\ used'[u] = used[u]
      /\ \A o \in Objects \ {state[t]} : handle'[o] = handle[o] /\ inits'[o] = inits[o]
      /\ \A m \in S!Uses : m # op[t] => handle'[state[t]][m] = handle[state[t]][m]
  BY <1>0, <1>1 DEF TypeOK
<1> QED
  BY <1>0, <1>1, <1>3, <1>4, <1>5, <1>6, <1>7, MoveKeeps DEF Handle

LEMMA FetchKeeps ==
  ASSUME IInv, NEW t \in Threads, Fetch(t)
  PROVE  IInv'
<1>0. /\ TypeOK /\ Consistent(t) /\ pc[t] = "backend" /\ stage[t] = "fetch"
      /\ state[t] \in Objects /\ op[t] \in S!Uses /\ Kept(state[t])
      /\ state[t] \in References(circuit, state)
  BY DEF IInv, Fetch, In, TypeOK, Consistent, S!Consistent, References
<1>1. handle[state[t]][op[t]] = Handle(t)
  BY <1>0 DEF Consistent, Kept, Handle
<1>2. /\ used' = [used EXCEPT ![t] = Handle(t)]
      /\ GoTo(t, "native") /\ UNCHANGED <<handle, made, inits>>
  BY <1>1 DEF Fetch
<1>3. Handle(t) \in Native
  BY <1>0 DEF Handle, Native, Kept
<1>4. TypeOK'
  BY <1>0, <1>2, <1>3 DEF TypeOK, GoTo
<1>5. Consistent(t)'
  BY <1>0, <1>2 DEF TypeOK, GoTo, Consistent, S!Consistent, Handle
<1>6. ASSUME NEW o \in Objects, NEW m \in S!Uses
      PROVE  Counted(o, m)'
  <2>1. /\ At("assign", o, m)' = At("assign", o, m)
        /\ At("init", o, m)' = At("init", o, m)
    BY <1>0, <1>2 DEF At, GoTo, TypeOK
  <2> QED
    BY <1>2, <2>1 DEF IInv, Counted
<1>7. \A u \in Threads \ {t} : made'[u] = made[u] /\ used'[u] = used[u]
  BY <1>0, <1>2 DEF TypeOK
<1> QED
  BY <1>0, <1>2, <1>4, <1>5, <1>6, <1>7, MoveKeeps

LEMMA NativeCallKeeps ==
  ASSUME IInv, NEW t \in Threads, NativeCall(t)
  PROVE  IInv'
<1>1. \E e \in {"returned", "ProverError", "VerifierError"} : End(t, e)
  BY DEF NativeCall
<1>2. stage[t] # "assign"
  BY DEF NativeCall, In
<1> QED
  BY <1>1, <1>2, BackendEndKeeps, ConstantFacts

LEMMA NextIInv == IInv /\ [Next]_vars => IInv'
<1> SUFFICES ASSUME IInv, [Next]_vars
             PROVE  IInv'
  OBVIOUS
<1>1. ASSUME NEW t \in Threads, BeginLoad(t)
      PROVE  IInv'
  BY <1>1, BeginKeeps, ConstantFacts DEF BeginLoad, S!BeginLoad
<1>2. ASSUME NEW t \in Threads, NEW m \in S!Uses, NEW aw \in BOOLEAN, BeginUse(t, m, aw)
      PROVE  IInv'
  BY <1>2, BeginKeeps, ConstantFacts DEF BeginUse, S!BeginUse
<1>3. ASSUME NEW t \in Threads, Continue(t)
      PROVE  IInv'
  BY <1>3, LoadKeeps, StoreKeeps, LookupKeeps, ArgumentsKeeps, TestKeeps, InitialiseKeeps,
     InitialiseFailsKeeps, AssignKeeps, FetchKeeps, NativeCallKeeps DEF Continue
<1>4. CASE UNCHANGED vars
  <2> USE <1>4 DEF vars
  <2>1. TypeOK'
    BY DEF IInv, TypeOK
  <2>2. ASSUME NEW t \in Threads
        PROVE  Consistent(t)'
    BY DEF IInv, Consistent, S!Consistent, Handle
  <2>3. ASSUME NEW o \in Objects
        PROVE  Kept(o)'
    BY DEF IInv, Kept, References
  <2>4. ASSUME NEW o \in Objects, NEW m \in S!Uses
        PROVE  Counted(o, m)'
    BY DEF IInv, Counted, At
  <2> QED
    BY <2>1, <2>2, <2>3, <2>4 DEF IInv
<1> QED
  BY <1>1, <1>2, <1>3, <1>4 DEF Next

-----------------------------------------------------------------------------
(* What each thread carries through the unlocked lazy initialisation, what *)
(* each shared _LoadedCircuit holds and how often its fields were          *)
(* initialised stay consistent in every behaviour (isrg_rust.py:67-93).    *)
THEOREM Invariance == Spec => []IInv
<1>1. Init => IInv
  BY InitIInv
<1>2. IInv /\ [Next]_vars => IInv'
  BY NextIInv
<1> QED
  BY <1>1, <1>2, PTL DEF Spec

(* Every variable keeps its type. *)
THEOREM TypeCorrect == Spec => []TypeOK
<1>1. IInv => TypeOK
  BY DEF IInv
<1> QED
  BY <1>1, Invariance, PTL

(* However many threads race to initialise a circuit, and whatever is      *)
(* loaded meanwhile, the native call of prove or verify gets the handle of *)
(* its own kind, made from the circuit the call was handed                 *)
(* (isrg_rust.py:78-93).                                                   *)
THEOREM HandlesCorrect == Spec => []HandleMatchesCircuit
<1>1. IInv => HandleMatchesCircuit
  BY DEF IInv, Consistent, Handle, HandleMatchesCircuit
<1> QED
  BY <1>1, Invariance, PTL

(* A circuit's prover and its verifier are each initialised at most once   *)
(* per thread, for any number of threads: nobody initialises again once a  *)
(* handle is installed (isrg_rust.py:69, 80-84).                           *)
THEOREM InitialisedCorrect == Spec => []InitialisedOnFirstUse
<1>1. IInv => InitialisedOnFirstUse
  <2> SUFFICES ASSUME IInv, NEW o \in Objects, NEW m \in S!Uses
               PROVE  inits[o][m] <= Cardinality(Threads)
    BY DEF InitialisedOnFirstUse
  <2>1. Counted(o, m) /\ inits[o][m] \in Nat
    BY DEF IInv, TypeOK
  <2> QED
    BY <2>1, ConstantFacts, AtIsFinite DEF Counted
<1> QED
  BY <1>1, Invariance, PTL

-----------------------------------------------------------------------------
(* But for which exception a call ends with, isrg-rust is a backend as     *)
(* Session expects one.                                                    *)

LEMMA BackendErrorsOf ==
  ASSUME NEW t \in Threads, op[t] \in Documented!Uses
  PROVE  /\ {"ValueError", "MemoryError"} \subseteq Documented!BackendErrors(op[t])
         /\ (IF op[t] = "prove" THEN "ProverError" ELSE "VerifierError")
                \in Documented!BackendErrors(op[t])
  BY DEF Documented!BackendErrors, Documented!Uses

(* A call that ends for Session ends for Documented, with the exception    *)
(* Session has for it.                                                     *)
LEMMA EndIsDocumented ==
  ASSUME IInv, NEW t \in Threads, NEW o, S!End(t, o)
  PROVE  Documented!End(t, AsDocumented(o))
<1>1. outcome \in [Threads -> S!Outcomes \union Foreign]
  BY DEF IInv, TypeOK
<1>2. outcome' = [outcome EXCEPT ![t] = o]
  BY DEF S!End
<1>3. [u \in Threads |-> AsDocumented(outcome[u])]'
        = [[u \in Threads |-> AsDocumented(outcome[u])] EXCEPT ![t] = AsDocumented(o)]
  BY <1>1, <1>2
<1> QED
  BY <1>3 DEF S!End, S!GoTo, Documented!End, Documented!GoTo

LEMMA BackendEndIsDocumented ==
  ASSUME IInv, NEW t \in Threads, NEW e, End(t, e), AsDocumented(e) # "returned" =>
            AsDocumented(e) \in Documented!BackendErrors(op[t])
  PROVE  Documented!Next
<1>1. S!End(t, e) /\ pc[t] = "backend" /\ UNCHANGED circuit
  BY DEF End, S!BackendReturns, S!BackendRaises
<1>2. Documented!End(t, AsDocumented(e))
  BY <1>1, EndIsDocumented
<1>3. CASE AsDocumented(e) = "returned"
  BY <1>1, <1>2, <1>3 DEF Documented!BackendReturns, Documented!Continue, Documented!Next
<1>4. CASE AsDocumented(e) # "returned"
  BY <1>1, <1>2, <1>4 DEF Documented!BackendRaises, Documented!Continue, Documented!Next
<1> QED
  BY <1>3, <1>4

LEMMA InitIsDocumented == Init => Documented!Init
<1> SUFFICES ASSUME Init
             PROVE  Documented!Init
  OBVIOUS
<1>1. [t \in Threads |-> AsDocumented(outcome[t])] = [t \in Threads |-> "none"]
  BY DEF Init, S!Init, AsDocumented, Foreign
<1> QED
  BY <1>1 DEF Init, S!Init, Documented!Init

LEMMA StepIsDocumented == IInv /\ [Next]_vars => [Documented!Next]_(Documented!vars)
<1> SUFFICES ASSUME IInv, [Next]_vars
             PROVE  Documented!Next \/ UNCHANGED Documented!vars
  OBVIOUS
<1>0. TypeOK
  BY DEF IInv
<1>1. ASSUME NEW t \in Threads, NEW m \in S!Methods, NEW aw \in BOOLEAN, NEW l,
             S!Begin(t, m, aw, l)
      PROVE  Documented!Begin(t, m, aw, l)
  <2>1. [u \in Threads |-> AsDocumented(outcome[u])]'
          = [[u \in Threads |-> AsDocumented(outcome[u])] EXCEPT ![t] = "none"]
    BY <1>0, <1>1 DEF S!Begin, TypeOK, AsDocumented, Foreign
  <2> QED
    BY <1>1, <2>1 DEF S!Begin, S!GoTo, Documented!Begin, Documented!GoTo
<1>2. ASSUME NEW t \in Threads, BeginLoad(t)
      PROVE  Documented!Next
  BY <1>1, <1>2, ConstantFacts DEF BeginLoad, S!BeginLoad, Documented!BeginLoad, Documented!Next
<1>3. ASSUME NEW t \in Threads, NEW m \in S!Uses, NEW aw \in BOOLEAN, BeginUse(t, m, aw)
      PROVE  Documented!Next
  <2>1. Documented!BeginUse(t, m, aw)
    BY <1>1, <1>3, ConstantFacts DEF BeginUse, S!BeginUse, Documented!BeginUse
  <2> QED
    BY <2>1, ConstantFacts DEF Documented!Next, Documented!Uses
<1>4. ASSUME NEW t \in Threads, NEW stream \in Streams, NEW version \in Versions,
             Load(t, stream, version)
      PROVE  Documented!Next
  <2>1. ASSUME NEW e \in {"ValueError", "ZstdError"}, S!BackendLoadRaises(t, e)
        PROVE  Documented!Next
    <3>1. AsDocumented(e) = "ValueError"
      BY DEF AsDocumented, Foreign
    <3>2. Documented!BackendLoadRaises(t, "ValueError")
      BY <2>1, <3>1, EndIsDocumented DEF S!BackendLoadRaises, Documented!BackendLoadRaises
    <3>3. "ValueError" \in Documented!BackendErrors("load")
      BY DEF Documented!BackendErrors
    <3> QED
      BY <3>2, <3>3 DEF Documented!Continue, Documented!Next
  <2>2. ASSUME NEW o \in Objects, S!BackendLoads(t, o)
        PROVE  Documented!Next
    <3>1. Documented!BackendLoads(t, o)
      BY <2>2 DEF S!BackendLoads, S!GoTo, Documented!BackendLoads, Documented!GoTo
    <3> QED
      BY <3>1 DEF Documented!Continue, Documented!Next
  <2> QED
    BY <1>4, <2>1, <2>2 DEF Load
<1>5. ASSUME NEW t \in Threads, Store(t)
      PROVE  Documented!Next
  <2>1. Documented!End(t, "returned")
    BY <1>5, EndIsDocumented DEF Store, S!Store, AsDocumented, Foreign
  <2> QED
    BY <1>5, <2>1 DEF Store, S!Store, Documented!Store, Documented!Continue, Documented!Next
<1>6. ASSUME NEW t \in Threads, Lookup(t)
      PROVE  Documented!Next
  <2>1. CASE S!CheckLoaded(t)
    <3>1. S!End(t, "RuntimeError") => Documented!End(t, "RuntimeError")
      BY EndIsDocumented DEF AsDocumented, Foreign
    <3>2. Documented!CheckLoaded(t)
      BY <2>1, <3>1 DEF S!CheckLoaded, S!GoTo, Documented!CheckLoaded, Documented!GoTo
    <3> QED
      BY <3>2 DEF Documented!Continue, Documented!Next
  <2>2. CASE S!ReadLoaded(t)
    <3>1. S!End(t, "ValueError") => Documented!End(t, "ValueError")
      BY EndIsDocumented DEF AsDocumented, Foreign
    <3>2. Documented!ReadLoaded(t)
      BY <2>2, <3>1 DEF S!ReadLoaded, S!GoTo, Documented!ReadLoaded, Documented!GoTo
    <3> QED
      BY <3>2 DEF Documented!Continue, Documented!Next
  <2> QED
    BY <1>6, <2>1, <2>2 DEF Lookup
<1>7. ASSUME NEW t \in Threads,
             \/ Arguments(t) \/ Test(t) \/ Initialise(t) \/ InitialiseFails(t)
             \/ Assign(t) \/ Fetch(t) \/ NativeCall(t)
      PROVE  Documented!Next \/ UNCHANGED sessionVars
  <2>1. op[t] \in Documented!Uses
    <3>1. pc[t] = "backend" /\ Consistent(t)
      BY <1>7 DEF IInv, Arguments, Test, Initialise, InitialiseFails, Assign, Fetch,
                  NativeCall, In
    <3> QED
      BY <3>1, ConstantFacts DEF Consistent, S!Consistent, Documented!Uses
  <2>2. \/ UNCHANGED sessionVars
        \/ \E e \in Foreign \union {"ValueError", "MemoryError", "returned"} : End(t, e)
        \/ End(t, IF op[t] = "prove" THEN "ProverError" ELSE "VerifierError")
    BY <1>7 DEF Arguments, Test, Initialise, InitialiseFails, Assign, Fetch, NativeCall,
                GoTo, Foreign
  <2>3. ASSUME NEW e \in Foreign \union {"ValueError", "MemoryError", "returned"}, End(t, e)
        PROVE  Documented!Next
    <3>1. AsDocumented(e) \in {"ValueError", "MemoryError", "returned"}
      BY DEF AsDocumented, Foreign
    <3> QED
      BY <2>1, <2>3, <3>1, BackendErrorsOf, BackendEndIsDocumented
  <2>4. ASSUME End(t, IF op[t] = "prove" THEN "ProverError" ELSE "VerifierError")
        PROVE  Documented!Next
    <3>1. AsDocumented(IF op[t] = "prove" THEN "ProverError" ELSE "VerifierError")
            = IF op[t] = "prove" THEN "ProverError" ELSE "VerifierError"
      BY DEF AsDocumented, Foreign
    <3> QED
      BY <2>1, <2>4, <3>1, BackendErrorsOf, BackendEndIsDocumented
  <2> QED
    BY <2>2, <2>3, <2>4
<1>8. UNCHANGED sessionVars => UNCHANGED Documented!vars
  BY DEF Documented!vars
<1>9. CASE UNCHANGED vars
  BY <1>8, <1>9 DEF vars
<1> QED
  BY <1>2, <1>3, <1>4, <1>5, <1>6, <1>7, <1>8, <1>9 DEF Next, Continue

(* Every step of the unlocked lazy initialisation is one that Session      *)
(* allows an opaque backend, or is invisible to it: each call ends in a    *)
(* documented way, if the foreign exceptions are read as ValueError, and a *)
(* call that fails leaves the slot alone (isrg_rust.py:105-215).           *)
THEOREM RefinesSession == Spec => Documented!Spec
<1>1. Init => Documented!Init
  BY InitIsDocumented
<1>2. IInv /\ [Next]_vars => [Documented!Next]_(Documented!vars)
  BY StepIsDocumented
<1> QED
  BY <1>1, <1>2, Invariance, PTL DEF Spec, Documented!Spec

-----------------------------------------------------------------------------
(* What SessionProofs proves of every backend, for this one.  SP and       *)
(* Documented are two instances of the same definitions.                   *)
SP == INSTANCE SessionProofs WITH
    Handles <- Objects,
    outcome <- [t \in Threads |-> AsDocumented(outcome[t])]

(* So an instance on isrg-rust keeps the promise of SessionContract, the   *)
(* foreign exceptions read as ValueError.                                  *)
THEOREM KeepsContract == Spec => Documented!ImplementsContract
<1>1. NoCircuit \notin Objects
  BY ConstantFacts
<1>2. SP!Spec => SP!ImplementsContract
  BY <1>1, SP!Refinement
<1>3. Documented!Init <=> SP!Init
  BY DEF Documented!Init, SP!Init
<1>4. Documented!Next <=> SP!Next
  BY DEF Documented!Next, SP!Next, Documented!Continue, SP!Continue,
         Documented!BeginLoad, SP!BeginLoad, Documented!BeginUse, SP!BeginUse,
         Documented!Begin, SP!Begin, Documented!End, SP!End, Documented!GoTo,
         SP!GoTo, Documented!BackendLoads, SP!BackendLoads,
         Documented!BackendLoadRaises, SP!BackendLoadRaises, Documented!Store,
         SP!Store, Documented!CheckLoaded, SP!CheckLoaded,
         Documented!ReadLoaded, SP!ReadLoaded, Documented!BackendReturns,
         SP!BackendReturns, Documented!BackendRaises, SP!BackendRaises,
         Documented!BackendErrors, SP!BackendErrors, Documented!Uses, SP!Uses
<1>5. SP!Contract!Init <=> Documented!Contract!Init
  BY DEF Documented!Contract!Init, SP!Contract!Init
<1>6. [SP!Contract!Next]_(SP!Contract!vars)
        <=> [Documented!Contract!Next]_(Documented!Contract!vars)
  BY DEF Documented!Contract!Next, SP!Contract!Next, Documented!Contract!Begin,
         SP!Contract!Begin, Documented!Contract!End, SP!Contract!End,
         Documented!Contract!Replace, SP!Contract!Replace,
         Documented!Contract!RefuseLoad, SP!Contract!RefuseLoad,
         Documented!Contract!RefuseUse, SP!Contract!RefuseUse,
         Documented!Contract!Take, SP!Contract!Take, Documented!Contract!Finish,
         SP!Contract!Finish, Documented!Contract!Documented,
         SP!Contract!Documented, Documented!Contract!Uses, SP!Contract!Uses,
         Documented!Contract!Methods, SP!Contract!Methods,
         Documented!Contract!vars, SP!Contract!vars
<1>7. Documented!Spec => Documented!ImplementsContract
  BY <1>2, <1>3, <1>4, <1>5, <1>6, PTL
     DEF Documented!Spec, SP!Spec, Documented!vars, SP!vars,
         Documented!ImplementsContract, SP!ImplementsContract,
         Documented!Contract!Spec, SP!Contract!Spec
<1> QED
  BY <1>7, RefinesSession
=============================================================================
