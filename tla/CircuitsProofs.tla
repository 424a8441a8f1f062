--------------------------- MODULE CircuitsProofs ---------------------------
(***************************************************************************)
(* What TLAPS proves of Circuits and the Registry under it, for any number *)
(* of threads, any circuit table whose rows are told apart by their id and *)
(* by system, version and count, and any changes to the disk and the       *)
(* environment.                                                            *)
(***************************************************************************)
EXTENDS Circuits, TLAPS

USE DEF processVars, registryVars, circuitVars

-----------------------------------------------------------------------------
(* The lookups. *)

(* Where one index at most fits, the first row that fits is the row there. *)
LEMMA FirstRowOfOne ==
  ASSUME NEW fits \in SUBSET DOMAIN Table,
         \A i, j \in fits : i = j
  PROVE  /\ fits = {} => FirstRow(fits) = None
         /\ \A i \in fits : FirstRow(fits) = Table[i]
<1>1. ASSUME NEW i \in fits
      PROVE  FirstRow(fits) = Table[i]
  <2>1. fits = {i} /\ i <= i
    BY RowsAssumption
  <2>2. (CHOOSE k \in fits : \A j \in fits : k <= j) = i
    BY <2>1
  <2> QED
    BY <2>2 DEF FirstRow
<1> QED
  BY <1>1 DEF FirstRow

(* _find_row returns a row of the binding's system, of that version and of *)
(* that count, or None.                                                    *)
LEMMA FindRowFits ==
  ASSUME NEW v, NEW n, _find_row(v, n) # None
  PROVE  /\ _find_row(v, n) \in TableRows
         /\ _find_row(v, n).system = _SYSTEM
         /\ _find_row(v, n).version = v
         /\ _find_row(v, n).num_attributes = n
<1> DEFINE fits == {i \in DOMAIN Table : /\ Table[i].system = _SYSTEM
                                         /\ Table[i].version = v
                                         /\ Table[i].num_attributes = n}
<1>1. fits \in SUBSET DOMAIN Table /\ \A i, j \in fits : i = j
  BY TableAssumption
<1>2. _find_row(v, n) = FirstRow(fits)
  BY DEF _find_row
<1>3. PICK i \in fits : TRUE
  BY <1>1, <1>2, FirstRowOfOne
<1>4. _find_row(v, n) = Table[i]
  BY <1>1, <1>2, <1>3, FirstRowOfOne
<1> QED
  BY <1>3, <1>4 DEF TableRows

(* The library finds every row of its table by the row's own id. *)
LEMMA FindZkSpecFinds ==
  ASSUME NEW r \in TableRows
  PROVE  find_zk_spec(r.system, r.circuit_hash) = r
<1> DEFINE fits == {i \in DOMAIN Table :
                      Table[i].system = r.system /\ Table[i].circuit_hash = r.circuit_hash}
<1>1. fits \in SUBSET DOMAIN Table /\ \A i, j \in fits : i = j
  BY TableAssumption
<1>2. PICK i \in DOMAIN Table : r = Table[i]
  BY DEF TableRows
<1>3. i \in fits
  BY <1>2
<1> QED
  BY <1>1, <1>2, <1>3, FirstRowOfOne DEF find_zk_spec

(* So a row survives the way through its id and back. *)
LEMMA IdentifiedIsFound ==
  ASSUME NEW r \in TableRows, r.system = _SYSTEM
  PROVE  find_zk_spec(_SYSTEM, circuit_id(r)) = r
  BY BlobsAssumption, FindZkSpecFinds DEF circuit_id

-----------------------------------------------------------------------------
(* Finding an extension, which every call begins with, sets the log level  *)
(* if and only if it loads google-cpp.                                     *)
LEMMA LoadsKeeps ==
  ASSUME IInv, NEW b \in Registered, Loads(b)
  PROVE  /\ onDisk' = onDisk /\ env' = env /\ changes' = changes
         /\ imported' = imported \union {b}
         /\ level' \in {"error", "info", "silent", "warning", None}
         /\ level' # None <=> "google-cpp" \in imported'
         /\ level # None => level' = level
<1>1. Level(env) \in {"error", "info", "silent", "warning"}
  BY DEF Level
<1>2. /\ level \in {"error", "info", "silent", "warning", None}
      /\ level # None <=> "google-cpp" \in imported
  BY DEF IInv, TypeOK
<1>3. CASE b = "google-cpp" /\ b \notin imported
  BY <1>1, <1>2, <1>3, RegistryAssumption DEF Loads
<1>4. CASE ~(b = "google-cpp" /\ b \notin imported)
  BY <1>2, <1>4 DEF Loads
<1> QED
  BY <1>3, <1>4

LEMMA InitIInv == Init => IInv
<1> SUFFICES ASSUME Init
             PROVE  IInv
  OBVIOUS
<1> USE DEF Init, RegistryInit
<1>1. TypeOK
  <2>1. changes \in 0 .. MaxChanges
    BY RegistryAssumption
  <2>2. \A t \in Threads : Idle(t)
    BY DEF Idle
  <2>3. onDisk \subseteq Registered /\ imported \subseteq Registered
        /\ instances \subseteq Registered /\ lost \subseteq Registered
    OBVIOUS
  <2> QED
    BY <2>1, <2>2, <2>3 DEF TypeOK
<1>2. AvailableStaysAvailable
  BY DEF AvailableStaysAvailable
<1>3. \A t \in Threads : Generating(t)
  BY DEF Generating, Idle
<1> QED
  BY <1>1, <1>2, <1>3 DEF IInv

(* A step that leaves every generation where it is. *)
LEMMA RegistryKeeps ==
  ASSUME IInv, TypeOK', AvailableStaysAvailable',
         (level # None <=> "google-cpp" \in imported)',
         UNCHANGED <<stage, row, buffer, made>>
  PROVE  IInv'
<1>1. ASSUME NEW t \in Threads
      PROVE  Generating(t)'
  BY DEF IInv, Generating, Idle
<1> QED
  BY <1>1 DEF IInv

(* The variables a generation owns. *)
Own(t) == <<stage[t], row[t], buffer[t], made[t]>>

(* A step of one generation. *)
LEMMA GenerationKeeps ==
  ASSUME IInv, NEW t \in Threads, TypeOK', AvailableStaysAvailable',
         (level # None <=> "google-cpp" \in imported)',
         Generating(t)',
         \A u \in Threads \ {t} : UNCHANGED Own(u)
  PROVE  IInv'
<1>1. ASSUME NEW u \in Threads \ {t}
      PROVE  Generating(u)'
  <2>1. Generating(u) /\ UNCHANGED Own(u)
    BY DEF IInv
  <2> QED
    BY <2>1 DEF Generating, Idle, Own
<1> QED
  BY <1>1 DEF IInv

(* In Python a call that finds the extension and does no more. *)
LEMMA LoadOnlyKeeps ==
  ASSUME IInv, NEW b \in Registered, Loads(b), lost' = lost,
         instances' = instances \/ instances' = instances \union {b},
         specs' \in BOOLEAN, ids' \subseteq Blobs \ {Junk},
         b = "google-cpp" \/ UNCHANGED <<specs, ids>>,
         UNCHANGED <<stage, row, buffer, made>>
  PROVE  IInv'
<1>1. TypeOK'
  BY LoadsKeeps DEF IInv, AvailableStaysAvailable, TypeOK, Idle
<1>2. AvailableStaysAvailable'
  BY LoadsKeeps DEF IInv, AvailableStaysAvailable
<1> QED
  BY <1>1, <1>2, LoadsKeeps, RegistryKeeps

LEMMA ConstructKeeps ==
  ASSUME IInv, NEW b \in Registered, Construct(b), UNCHANGED circuitVars
  PROVE  IInv'
  BY LoadOnlyKeeps DEF Construct, IInv, TypeOK

LEMMA UseKeeps ==
  ASSUME IInv, NEW b \in Registered, Use(b), UNCHANGED circuitVars
  PROVE  IInv'
<1>1. lost' = {} /\ UNCHANGED <<processVars, instances>>
  BY DEF Use, IInv, AvailableStaysAvailable
<1>2. TypeOK' /\ AvailableStaysAvailable'
  BY <1>1 DEF IInv, TypeOK, AvailableStaysAvailable, Idle
<1> QED
  BY <1>1, <1>2, RegistryKeeps DEF IInv

LEMMA CircuitIdKeeps ==
  ASSUME IInv, NEW c \in Blobs, CircuitId(c)
  PROVE  IInv'
<1>1. ids' \subseteq Blobs \ {Junk}
  BY DEF CircuitId, circuit_id, IInv, TypeOK
<1> QED
  BY <1>1, LoadOnlyKeeps DEF CircuitId, IInv, TypeOK, Registered

LEMMA GenerateKeeps ==
  ASSUME IInv, NEW t \in Threads, NEW a \in Asked, Generate(t, a[1], a[2])
  PROVE  IInv'
<1>0. TypeOK /\ Generating(t) /\ AvailableStaysAvailable /\ Loads("google-cpp") /\ Idle(t)
  BY DEF IInv, Generate
<1>l. "google-cpp" \in Registered
  BY DEF Registered
<1>1. CASE _find_row(a[1], a[2]) = None
  BY <1>0, <1>1, <1>l, LoadOnlyKeeps DEF Generate, TypeOK
<1>2. CASE _find_row(a[1], a[2]) # None
  <2> DEFINE new == [version |-> a[1], count |-> a[2], circuit |-> None]
  <2>1. /\ stage' = [stage EXCEPT ![t] = "c"]
        /\ row' = [row EXCEPT ![t] = _find_row(a[1], a[2])]
        /\ made' = [made EXCEPT ![t] = new]
        /\ specs' = TRUE
        /\ UNCHANGED <<instances, lost, ids, buffer>>
    BY <1>2 DEF Generate
  <2>2. _find_row(a[1], a[2]) \in TableRows
    BY <1>2, FindRowFits
  <2>3. new \in Made /\ new # None
    BY MadeAssumption DEF Made
  <2>4. TypeOK'
    BY <1>0, <1>l, <2>1, <2>2, <2>3, LoadsKeeps DEF TypeOK
  <2>5. AvailableStaysAvailable'
    BY <1>0, <1>l, <2>1, LoadsKeeps DEF AvailableStaysAvailable
  <2>6. Generating(t)'
    <3>1. /\ stage'[t] = "c" /\ row'[t] = _find_row(a[1], a[2])
          /\ made'[t] = new /\ buffer'[t] = None
      BY <1>0, <2>1 DEF TypeOK, Generating, Idle
    <3> QED
      BY <1>2, <2>3, <3>1 DEF Generating, Idle
  <2>7. \A u \in Threads \ {t} : UNCHANGED Own(u)
    BY <1>0, <2>1 DEF TypeOK, Own
  <2> QED
    BY <1>0, <1>l, <2>4, <2>5, <2>6, <2>7, LoadsKeeps, GenerationKeeps
<1> QED
  BY <1>1, <1>2

LEMMA CGeneratesKeeps ==
  ASSUME IInv, NEW t \in Threads, CGenerates(t)
  PROVE  IInv'
<1> USE DEF CGenerates
<1>0. TypeOK /\ Generating(t)
  BY DEF IInv
<1>1. TypeOK'
  BY <1>0 DEF TypeOK, Idle
<1>2. Generating(t)'
  BY <1>0 DEF TypeOK, Generating, Idle
<1>3. \A u \in Threads \ {t} : UNCHANGED Own(u)
  BY <1>0 DEF TypeOK, Own
<1> QED
  BY <1>1, <1>2, <1>3, GenerationKeeps DEF IInv, AvailableStaysAvailable

LEMMA CFailsKeeps ==
  ASSUME IInv, NEW t \in Threads, CFails(t)
  PROVE  IInv'
<1> USE DEF CFails, Returns
<1>0. TypeOK /\ Generating(t)
  BY DEF IInv
<1>1. TypeOK'
  BY <1>0 DEF TypeOK, Idle
<1>2. Generating(t)'
  BY <1>0 DEF TypeOK, Generating, Idle
<1>3. \A u \in Threads \ {t} : UNCHANGED Own(u)
  BY <1>0 DEF TypeOK, Own
<1> QED
  BY <1>1, <1>2, <1>3, GenerationKeeps DEF IInv, AvailableStaysAvailable

(* What is returned is the buffer C filled for the row that was looked up. *)
LEMMA CopyKeeps ==
  ASSUME IInv, NEW t \in Threads, Copy(t)
  PROVE  IInv'
<1> USE DEF Copy, Returns
<1>0. TypeOK /\ Generating(t)
  BY DEF IInv
<1>1. /\ stage[t] = "copy" /\ buffer[t] = row[t] /\ made[t] \in Made
      /\ buffer[t] = _find_row(made[t].version, made[t].count)
      /\ buffer[t] \in TableRows
  BY <1>0 DEF TypeOK, Generating, Idle
<1>2. CASE UNCHANGED made
  <2>1. TypeOK'
    BY <1>0, <1>2 DEF TypeOK, Idle
  <2>2. Generating(t)'
    BY <1>0, <1>2 DEF TypeOK, Generating, Idle
  <2>3. \A u \in Threads \ {t} : UNCHANGED Own(u)
    BY <1>0, <1>2 DEF TypeOK, Own
  <2> QED
    BY <2>1, <2>2, <2>3, GenerationKeeps DEF IInv, AvailableStaysAvailable
<1>3. CASE made' = [made EXCEPT ![t].circuit = buffer[t]]
  <2>1. made' = [made EXCEPT ![t] = [made[t] EXCEPT !.circuit = buffer[t]]]
    BY <1>3
  <2>2. [made[t] EXCEPT !.circuit = buffer[t]] \in Made
    BY <1>1 DEF Made
  <2>3. TypeOK'
    BY <1>0, <2>1, <2>2 DEF TypeOK, Idle
  <2>4. /\ made'[t].circuit = buffer[t]
        /\ made'[t].version = made[t].version /\ made'[t].count = made[t].count
    BY <1>0, <1>1, <2>1 DEF TypeOK, Made
  <2>5. Generating(t)'
    BY <1>0, <1>1, <2>4 DEF TypeOK, Generating, Idle
  <2>6. \A u \in Threads \ {t} : UNCHANGED Own(u)
    BY <1>0, <2>1 DEF TypeOK, Own
  <2> QED
    BY <2>3, <2>5, <2>6, GenerationKeeps DEF IInv, AvailableStaysAvailable
<1> QED
  BY <1>2, <1>3

LEMMA ChangeKeeps ==
  ASSUME IInv, Change, UNCHANGED circuitVars
  PROVE  IInv'
<1>1. TypeOK'
  BY RegistryAssumption DEF IInv, TypeOK, Change, Idle
<1> QED
  BY <1>1, RegistryKeeps DEF Change, IInv, AvailableStaysAvailable

LEMMA NextIInv == IInv /\ [Next]_vars => IInv'
<1> SUFFICES ASSUME IInv, [Next]_vars
             PROVE  IInv'
  OBVIOUS
<1>1. ASSUME UNCHANGED vars
      PROVE  IInv'
  <2>1. TypeOK'
    BY <1>1 DEF vars, IInv, TypeOK, Idle
  <2> QED
    BY <1>1, <2>1, RegistryKeeps DEF vars, IInv, AvailableStaysAvailable
<1>2. ASSUME NEW b \in Registered, Unavailable(b), UNCHANGED circuitVars
      PROVE  IInv'
  BY <1>1, <1>2 DEF Unavailable, vars
<1>3. ASSUME ZkSpecs \/ FindZkSpec
      PROVE  IInv'
  BY <1>3, LoadOnlyKeeps DEF ZkSpecs, FindZkSpec, IInv, TypeOK, Registered
<1>4. CASE Call
  BY <1>2, <1>3, <1>4, ConstructKeeps, UseKeeps, CircuitIdKeeps, GenerateKeeps DEF Call
<1>5. ASSUME NEW t \in Threads, Generation(t)
      PROVE  IInv'
  BY <1>5, CGeneratesKeeps, CFailsKeeps, CopyKeeps DEF Generation
<1> QED
  BY <1>1, <1>4, <1>5, ChangeKeeps DEF Next

-----------------------------------------------------------------------------
(* What a generation hands to C and gets back is the row it was asked for, *)
(* and the extension it runs in is loaded, with its log level, in every    *)
(* behaviour (google_cpp.py:196-228).                                      *)
THEOREM Invariance == Spec => []IInv
<1>1. Init => IInv
  BY InitIInv
<1>2. IInv /\ [Next]_vars => IInv'
  BY NextIInv
<1> QED
  BY <1>1, <1>2, PTL DEF Spec

(* Every variable keeps its type; no error is cached as a circuit's id.    *)
THEOREM TypeCorrect == Spec => []TypeOK
<1>1. IInv => TypeOK
  BY DEF IInv
<1> QED
  BY <1>1, Invariance, PTL

(* Circuit bytes are identified as what their caller asked for, in every   *)
(* table whose rows the suite would accept (google_cpp.py:135-228).        *)
THEOREM GeneratedCorrect == Spec => []GeneratedIsHonest
<1>1. IInv => GeneratedIsHonest
  <2> SUFFICES ASSUME IInv, NEW t \in Threads, made[t] # None, made[t].circuit # None
               PROVE  LET spec == find_zk_spec(_SYSTEM, circuit_id(made[t].circuit))
                      IN  /\ spec # None
                          /\ spec.version = made[t].version
                          /\ spec.num_attributes = made[t].count
    BY DEF GeneratedIsHonest
  <2>1. made[t].circuit = _find_row(made[t].version, made[t].count)
    BY DEF IInv, Generating
  <2>2. /\ made[t].circuit \in TableRows
        /\ made[t].circuit.system = _SYSTEM
        /\ made[t].circuit.version = made[t].version
        /\ made[t].circuit.num_attributes = made[t].count
    BY <2>1, FindRowFits
  <2>3. find_zk_spec(_SYSTEM, circuit_id(made[t].circuit)) = made[t].circuit
    BY <2>2, IdentifiedIsFound
  <2> QED
    BY <2>2, <2>3
<1> QED
  BY <1>1, Invariance, PTL

(* The buffer C allocated for a circuit exists exactly while it is copied, *)
(* whether or not the copy raises (google_cpp.py:224-228).                 *)
THEOREM BuffersCorrect == Spec => []GenerateBuffersFreed
<1>1. IInv => GenerateBuffersFreed
  <2> SUFFICES ASSUME IInv, NEW t \in Threads
               PROVE  buffer[t] # None <=> stage[t] = "copy"
    BY DEF GenerateBuffersFreed
  <2>1. Generating(t) /\ (stage[t] = "copy" => ~Idle(t))
    BY DEF IInv, Idle
  <2> QED
    BY <2>1 DEF Generating
<1> QED
  BY <1>1, Invariance, PTL

(* An instance once constructed never finds its backend unavailable,       *)
(* whatever is done to the disk (_pylongfellow.py:42-48).                  *)
THEOREM AvailableCorrect == Spec => []AvailableStaysAvailable
<1>1. IInv => AvailableStaysAvailable
  BY DEF IInv
<1> QED
  BY <1>1, Invariance, PTL

(* The log level is fixed before the first call that could log runs, and   *)
(* no later change of the environment reaches it (log_init.cc:6-11).       *)
THEOREM LevelCorrect == Spec => LevelIsSetOnce
<1> DEFINE SetOnce == /\ level # None => level' = level
                      /\ \A t \in Threads : stage'[t] # "idle" => level' # None
                      /\ "google-cpp" \in instances' => level' # None
<1>1. IInv /\ IInv' /\ [Next]_vars => [SetOnce]_vars
  <2> SUFFICES ASSUME IInv, IInv', Next
               PROVE  SetOnce
    OBVIOUS
  <2>1. level # None => level' = level
    <3>1. ASSUME NEW b \in Registered, Loads(b)
          PROVE  level # None => level' = level
      BY <3>1, LoadsKeeps
    <3>2. CASE Call
      <4>1. \/ \E b \in Registered : Loads(b)
            \/ UNCHANGED level
        BY <3>2 DEF Call, Construct, Use, Unavailable, ZkSpecs, FindZkSpec, CircuitId,
                    Generate, Registered
      <4> QED
        BY <3>1, <4>1
    <3>3. ASSUME NEW t \in Threads, Generation(t)
          PROVE  UNCHANGED level
      BY <3>3 DEF Generation, CGenerates, CFails, Copy, Returns
    <3> QED
      BY <3>2, <3>3 DEF Next, Change
  <2>2. \A t \in Threads : stage'[t] # "idle" => level' # None
    BY DEF IInv, TypeOK, Idle
  <2>3. "google-cpp" \in instances' => level' # None
    BY DEF IInv, AvailableStaysAvailable
  <2> QED
    BY <2>1, <2>2, <2>3
<1> QED
  BY <1>1, Invariance, PTL DEF Spec, LevelIsSetOnce
=============================================================================
