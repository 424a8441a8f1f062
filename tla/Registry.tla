------------------------------ MODULE Registry ------------------------------
(***************************************************************************)
(* Finding a backend and its native extension: backends/__init__.py,       *)
(* Pylongfellow.__init__, _load and _zk, and the log level that            *)
(* log_init.cc sets while the google-cpp extension is being loaded.  What  *)
(* is on disk and in the environment changes while the process runs; the   *)
(* import lock makes an import one step.                                   *)
(***************************************************************************)
EXTENDS Integers

CONSTANTS
    EnvValues,      \* values of PYLONGFELLOW_GOOGLE_CPP_LOG_LEVEL, in lower case
    MaxChanges,     \* bound on changes to the disk and the environment
    None

ASSUME RegistryAssumption ==
    /\ MaxChanges \in Nat
    /\ None \notin {"error", "info", "silent", "warning"}

Registered == {"google-cpp", "isrg-rust"}

VARIABLES
    onDisk,     \* backends whose native extension can be found
    imported,   \* backends whose extension is in sys.modules
    env,        \* the log level the environment asks for
    level,      \* the log level of the google-cpp library, None until it is loaded
    changes,    \* changes to onDisk and env so far
    instances,  \* backends that an instance has been constructed on
    lost        \* auxiliary: of these, the ones that became unavailable in use

processVars == <<onDisk, imported, env, level, changes>>
registryVars == <<processVars, instances, lost>>

RegistryInit ==
    /\ onDisk \in SUBSET Registered
    /\ imported = {}
    /\ env \in EnvValues
    /\ level = None
    /\ changes = 0
    /\ instances = {}
    /\ lost = {}

(* Any value that is not recognised leaves the default. *)
Level(v) == IF v \in {"error", "info", "silent"} THEN v ELSE "warning"

(* Fault: the level is looked up whenever the extension is. *)
Loads_Rereads(b) ==
    /\ b \in imported \union onDisk
    /\ imported' = imported \union {b}
    /\ level' = IF b = "google-cpp" THEN Level(env) ELSE level
    /\ UNCHANGED <<onDisk, env, changes>>

(* An extension once imported needs no file any more; the constructor in   *)
(* it runs as it is loaded.                                                *)
Loads(b) ==
    /\ b \in imported \union onDisk
    /\ imported' = imported \union {b}
    /\ level' = IF b = "google-cpp" /\ b \notin imported THEN Level(env) ELSE level
    /\ UNCHANGED <<onDisk, env, changes>>

(* Fault: the constructor does not ask for the extension. *)
Construct_Unchecked(b) ==
    /\ instances' = instances \union {b}
    /\ UNCHANGED <<processVars, lost>>

(* An import fails if there is no extension, and may fail for one that was *)
(* installed since the last attempt; nothing is kept of the failure.       *)
Unavailable(b) == b \notin imported /\ UNCHANGED registryVars

(* get_backend and ensure_available; another name than these is refused.   *)
Construct(b) ==
    /\ Loads(b)
    /\ instances' = instances \union {b}
    /\ UNCHANGED lost

(* Every prove and verify asks for the extension again; an instance that   *)
(* has no imported one may find it gone.                                   *)
Use(b) ==
    /\ b \in instances
    /\ lost' = lost \union ({b} \ imported)
    /\ UNCHANGED <<processVars, instances>>

Change ==
    /\ changes < MaxChanges
    /\ changes' = changes + 1
    /\ \/ onDisk' \in SUBSET Registered /\ UNCHANGED env
       \/ env' \in EnvValues /\ UNCHANGED onDisk
    /\ UNCHANGED <<imported, level, instances, lost>>

-----------------------------------------------------------------------------
(* Whoever has an instance can use it for as long as the process lives,    *)
(* even if the files are taken away: BackendUnavailableError comes from    *)
(* the constructor or not at all (_pylongfellow.py:42-48).                 *)
AvailableStaysAvailable == lost = {} /\ instances \subseteq imported
=============================================================================
