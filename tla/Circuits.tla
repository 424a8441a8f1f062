------------------------------ MODULE Circuits ------------------------------
(***************************************************************************)
(* The google-cpp circuit table (backends/google_cpp.py:114-228): the      *)
(* cached table, lookups by version and count and by id, the id of given   *)
(* bytes, and generation, whose C call runs without the interpreter lock   *)
(* and hands over a buffer.  All of it needs the extension, as in Registry.*)
(***************************************************************************)
EXTENDS Registry, Sequences

CONSTANTS
    Threads,        \* the caller's threads
    Table,          \* kZkSpecs, in table order
    _SYSTEM,        \* the proof system the binding is for
    Asked,          \* (version, count) pairs callers ask for
    Junk,           \* bytes that are no circuit
    Blobs           \* the bytes callers identify; a circuit goes by its row

TableRows == {Table[i] : i \in DOMAIN Table}

(* What the suite requires of the table (tests/api/test_circuit.py:66-78). *)
ASSUME TableAssumption ==
    \A i, j \in DOMAIN Table : i # j =>
        /\ Table[i].circuit_hash # Table[j].circuit_hash
        /\ \/ Table[i].system # Table[j].system
           \/ Table[i].version # Table[j].version
           \/ Table[i].num_attributes # Table[j].num_attributes

(* A lookup that finds a row does not return None. *)
ASSUME RowsAssumption == DOMAIN Table \subseteq Nat /\ None \notin TableRows

ASSUME BlobsAssumption == Blobs \subseteq TableRows \union {Junk} /\ Junk \notin TableRows

VARIABLES
    specs,      \* is the table cached?
    ids,        \* circuit bytes whose id is cached
    stage,      \* stage[t]: how far t is inside generate_circuit
    row,        \* row[t]: the row t found
    buffer,     \* buffer[t]: a circuit malloc'ed by C and not yet freed
    made        \* made[t]: the circuit t generated last, and what it asked for

(* What generate_circuit was asked for, and the circuit it returned, if so. *)
Made == [version : {a[1] : a \in Asked}, count : {a[2] : a \in Asked},
         circuit : TableRows \union {None}]

ASSUME MadeAssumption == None \notin Made

circuitVars == <<specs, ids, stage, row, buffer, made>>
vars == <<registryVars, circuitVars>>

-----------------------------------------------------------------------------
(* The first row, in table order, of those with these indices. *)
FirstRow(fits) ==
    IF fits = {} THEN None
    ELSE Table[CHOOSE i \in fits : \A j \in fits : i <= j]

(* Fault: the row is the newest of the count, whichever was asked for. *)
_find_row_Newest(v, n) ==
    FirstRow({i \in DOMAIN Table :
        Table[i].system = _SYSTEM /\ Table[i].num_attributes = n})

(* Fault: the rows of other proof systems count, too. *)
_find_row_AnySystem(v, n) ==
    FirstRow({i \in DOMAIN Table : Table[i].version = v /\ Table[i].num_attributes = n})

_find_row(v, n) ==
    FirstRow({i \in DOMAIN Table : /\ Table[i].system = _SYSTEM
                                   /\ Table[i].version = v
                                   /\ Table[i].num_attributes = n})

find_zk_spec(system, hash) ==
    FirstRow({i \in DOMAIN Table : Table[i].system = system /\ Table[i].circuit_hash = hash})

circuit_id(circuit) == IF circuit = Junk THEN None ELSE circuit.circuit_hash

(* C generates the highest version the table has of a count. *)
Newest(r) ==
    \A x \in TableRows :
        x.system = r.system /\ x.num_attributes = r.num_attributes => x.version <= r.version

-----------------------------------------------------------------------------
Idle(t) == stage[t] = "idle"

(* Functions that are cached need the extension the first time only; a     *)
(* call that finds it Unavailable caches nothing.                          *)
ZkSpecs ==
    /\ ~specs /\ Loads("google-cpp")
    /\ specs' = TRUE
    /\ UNCHANGED <<instances, lost, ids, stage, row, buffer, made>>

(* Fault: that the bytes are no circuit is cached as well. *)
CircuitId_CachesErrors(circuit) ==
    /\ circuit \notin ids /\ Loads("google-cpp")
    /\ ids' = ids \union {circuit}
    /\ UNCHANGED <<instances, lost, specs, stage, row, buffer, made>>

CircuitId(circuit) ==
    /\ circuit \notin ids /\ Loads("google-cpp")
    /\ ids' = IF circuit_id(circuit) = None THEN ids ELSE ids \union {circuit}
    /\ UNCHANGED <<instances, lost, specs, stage, row, buffer, made>>

FindZkSpec == Loads("google-cpp") /\ UNCHANGED <<instances, lost, circuitVars>>

(* generate_circuit loads the extension and the table, also when it finds  *)
(* no row to hand to C.                                                    *)
Generate(t, v, n) ==
    /\ Idle(t)
    /\ Loads("google-cpp")
    /\ specs' = TRUE
    /\ IF _find_row(v, n) = None
       THEN UNCHANGED <<stage, row, made>>
       ELSE /\ stage' = [stage EXCEPT ![t] = "c"]
            /\ row' = [row EXCEPT ![t] = _find_row(v, n)]
            /\ made' = [made EXCEPT ![t] = [version |-> v, count |-> n, circuit |-> None]]
    /\ UNCHANGED <<instances, lost, ids, buffer>>

Returns(t) ==
    /\ stage' = [stage EXCEPT ![t] = "idle"]
    /\ row' = [row EXCEPT ![t] = None]
    /\ UNCHANGED <<registryVars, specs, ids>>

CGenerates(t) ==
    /\ stage[t] = "c" /\ Newest(row[t])
    /\ buffer' = [buffer EXCEPT ![t] = row[t]]
    /\ stage' = [stage EXCEPT ![t] = "copy"]
    /\ UNCHANGED <<registryVars, specs, ids, row, made>>

(* Fault: the status of the C call is not looked at. *)
CFails_Unchecked(t) ==
    /\ stage[t] = "c"
    /\ stage' = [stage EXCEPT ![t] = "copy"]
    /\ UNCHANGED <<registryVars, specs, ids, row, buffer, made>>

(* CircuitError: it refuses a superseded version, and may fail otherwise. *)
CFails(t) ==
    /\ stage[t] = "c"
    /\ Returns(t)
    /\ UNCHANGED <<buffer, made>>

(* Fault: the buffer is freed only after a copy that succeeded. *)
Copy_NoFinally(t) ==
    /\ stage[t] = "copy"
    /\ Returns(t)
    /\ \/ /\ made' = [made EXCEPT ![t].circuit = buffer[t]]
          /\ buffer' = [buffer EXCEPT ![t] = None]
       \/ UNCHANGED <<made, buffer>>

(* The copy may raise; the buffer is freed either way. *)
Copy(t) ==
    /\ stage[t] = "copy"
    /\ Returns(t)
    /\ buffer' = [buffer EXCEPT ![t] = None]
    /\ \/ made' = [made EXCEPT ![t].circuit = buffer[t]]
       \/ UNCHANGED made

Init ==
    /\ RegistryInit
    /\ specs = FALSE
    /\ ids = {}
    /\ stage = [t \in Threads |-> "idle"]
    /\ row = [t \in Threads |-> None]
    /\ buffer = [t \in Threads |-> None]
    /\ made = [t \in Threads |-> None]

Call ==
    \/ \E b \in Registered :
        /\ Construct(b) \/ Use(b) \/ Unavailable(b)
        /\ UNCHANGED circuitVars
    \/ ZkSpecs \/ FindZkSpec
    \/ \E circuit \in Blobs : CircuitId(circuit)
    \/ \E t \in Threads, a \in Asked : Generate(t, a[1], a[2])

Generation(t) == CGenerates(t) \/ CFails(t) \/ Copy(t)

Next ==
    \/ Call
    \/ \E t \in Threads : Generation(t)
    \/ Change /\ UNCHANGED circuitVars

Spec == Init /\ [][Next]_vars

-----------------------------------------------------------------------------
(* Only identified circuits are cached, and nothing is cached or under way *)
(* in C unless the extension has been imported (google_cpp.py:134-228).    *)
TypeOK ==
    /\ onDisk \subseteq Registered /\ imported \subseteq Registered
    /\ env \in EnvValues /\ level \in {"error", "info", "silent", "warning", None}
    /\ changes \in 0 .. MaxChanges
    /\ instances \subseteq Registered /\ lost \subseteq Registered
    /\ specs \in BOOLEAN /\ ids \subseteq Blobs \ {Junk}
    /\ stage \in [Threads -> {"idle", "c", "copy"}]
    /\ row \in [Threads -> TableRows \union {None}]
    /\ buffer \in [Threads -> TableRows \union {None}]
    /\ made \in [Threads -> Made \union {None}]
    /\ specs \/ ids # {} \/ (\E t \in Threads : ~Idle(t)) => "google-cpp" \in imported

(* Circuit bytes are what was asked for: identified from scratch, by       *)
(* circuit_id and find_zk_spec, they are of the binding's proof system, of *)
(* the version and of the count that the caller asked for, and so may      *)
(* declare to load_circuit (google_cpp.py:135-228; GoogleCpp's honest      *)
(* declarations are of such circuits).                                     *)
GeneratedIsHonest ==
    \A t \in Threads : made[t] # None /\ made[t].circuit # None =>
        LET spec == find_zk_spec(_SYSTEM, circuit_id(made[t].circuit))
        IN  /\ spec # None
            /\ spec.version = made[t].version
            /\ spec.num_attributes = made[t].count

(* A circuit buffer exists exactly while the generation that received it   *)
(* copies it: none is leaked when the copy raises (google_cpp.py:224-228). *)
GenerateBuffersFreed ==
    \A t \in Threads : buffer[t] # None <=> stage[t] = "copy"

(* Why: the row a generation hands to C, what C hands back and what it     *)
(* then returns are the row that was asked for, and the extension that     *)
(* brings the log level is loaded before any of it.  The inductive form of *)
(* these and of LevelIsSetOnce.                                            *)
Generating(t) ==
    /\ row[t] # None <=> ~Idle(t)
    /\ ~Idle(t) => made[t] # None /\ made[t].circuit = None
    /\ ~Idle(t) => row[t] = _find_row(made[t].version, made[t].count)
    /\ buffer[t] = IF stage[t] = "copy" THEN row[t] ELSE None
    /\ made[t] # None /\ made[t].circuit # None =>
            made[t].circuit = _find_row(made[t].version, made[t].count)

IInv ==
    /\ TypeOK
    /\ AvailableStaysAvailable
    /\ level # None <=> "google-cpp" \in imported
    /\ \A t \in Threads : Generating(t)

(* The log level is set "before any prove/verify/generate call can run"    *)
(* (log_init.cc:10-11), whichever call it was that loaded the extension,   *)
(* and "there is no runtime reconfiguration" (log_init.cc:6-7).            *)
LevelIsSetOnce ==
    [][/\ level # None => level' = level
       /\ \A t \in Threads : stage'[t] # "idle" => level' # None
       /\ "google-cpp" \in instances' => level' # None]_vars
=============================================================================
