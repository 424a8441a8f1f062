------------------------------ MODULE GoogleCpp ------------------------------
(***************************************************************************)
(* A Pylongfellow instance on the google-cpp backend                       *)
(* (backends/google_cpp.py): Session with its opaque backend replaced by   *)
(* the steps between Python and the C ABI.  The calling threads share the  *)
(* interpreter, which may switch between them at every step; only the C    *)
(* call itself runs without the interpreter lock.                          *)
(*                                                                         *)
(* What the C library does with an argument is external: it is modelled    *)
(* from the comment of _require_claims_match_spec and from the test suite. *)
(***************************************************************************)
EXTENDS Naturals

CONSTANTS
    Threads,        \* the caller's threads
    NoCircuit,      \* None; also what bytes that are no circuit contain
    Blobs,          \* circuit byte strings callers hold
    Rows,           \* the library's circuit table, a set of TableRow records
    Actual,         \* Actual[b]: the row of the circuit b really is, or NoCircuit
    Declarations,   \* the (bytes, version, count) triples callers declare
    MaxClaims,      \* bound on len(claims)
    ClaimsMutable,  \* may the caller change a claims list during a call?
    BeyondCalendar  \* may a timestamp lie outside the calendar, read in UTC?

TableRow == [version : Nat, count : Nat]

LoadedCircuits == [row : Rows, blob : Blobs]

ASSUME TableAssumption ==
    /\ Rows \subseteq TableRow
    /\ Actual \in [Blobs -> Rows \union {NoCircuit}]
    /\ Declarations \subseteq [blob : Blobs, version : Nat, count : Nat]
    /\ NoCircuit \notin Rows \union LoadedCircuits
    /\ MaxClaims \in Nat
    /\ ClaimsMutable \in BOOLEAN /\ BeyondCalendar \in BOOLEAN

VARIABLES
    circuit, pc, op, aware, state, outcome,     \* as in Session
    input,      \* input[t]: t's arguments: len(claims) now, and whether the
                \*   doctype encodes to 256 bytes or more
    stage,      \* stage[t]: how far t is inside the backend's prove/verify
    attrs,      \* attrs[t]: length of the C array _fill_attrs allocated
    args,       \* args[t]: what the C entry point was handed
    buffer,     \* buffer[t]: a proof buffer malloc'ed by C and not yet freed
    alive,      \* the process has not been aborted
    mutated     \* auxiliary: t's claims list changed since the guard

sessionVars == <<circuit, pc, op, aware, state, outcome>>
backendVars == <<input, stage, attrs, args, buffer, mutated>>
vars == <<sessionVars, backendVars, alive>>

S == INSTANCE Session WITH Handles <- LoadedCircuits

Inputs == [len : 0 .. MaxClaims, longDoc : BOOLEAN]
NoInput == [len |-> 0, longDoc |-> FALSE]

CArgs == [row : Rows, blob : Blobs, attrs : 0 .. MaxClaims,
          len : 0 .. MaxClaims, longDoc : BOOLEAN]
NoArgs == [len |-> 0]

(* The exceptions that no docstring lists, each where a caller provokes it. *)
Foreign ==
    (IF ClaimsMutable THEN {"IndexError"} ELSE {})
        \union (IF BeyondCalendar THEN {"OverflowError"} ELSE {})

TypeOK ==
    /\ circuit \in LoadedCircuits \union {NoCircuit}
    /\ pc \in [Threads -> {"idle", "load", "store", "check", "read", "backend"}]
    /\ op \in [Threads -> S!Methods]
    /\ aware \in [Threads -> BOOLEAN]
    /\ state \in [Threads -> LoadedCircuits \union {NoCircuit}]
    /\ outcome \in [Threads -> S!Outcomes \union Foreign]
    /\ input \in [Threads -> Inputs]
    /\ stage \in [Threads -> {"guard", "alloc", "fill", "ready", "c", "copy"}]
    /\ attrs \in [Threads -> 0 .. MaxClaims]
    /\ args \in [Threads -> CArgs \union {NoArgs}]
    /\ buffer \in [Threads -> BOOLEAN]
    /\ alive \in BOOLEAN
    /\ mutated \in [Threads -> BOOLEAN]

Init ==
    /\ S!Init
    /\ input = [t \in Threads |-> NoInput]
    /\ stage = [t \in Threads |-> "guard"]
    /\ attrs = [t \in Threads |-> 0]
    /\ args = [t \in Threads |-> NoArgs]
    /\ buffer = [t \in Threads |-> FALSE]
    /\ alive = TRUE
    /\ mutated = [t \in Threads |-> FALSE]

(* The locals of t's call go away with it. *)
Leave(t) ==
    /\ input' = [input EXCEPT ![t] = NoInput]
    /\ stage' = [stage EXCEPT ![t] = "guard"]
    /\ attrs' = [attrs EXCEPT ![t] = 0]
    /\ args' = [args EXCEPT ![t] = NoArgs]
    /\ mutated' = [mutated EXCEPT ![t] = FALSE]
    /\ UNCHANGED alive

Raise(t, e) ==
    /\ S!BackendRaises(t, e)
    /\ Leave(t)

GoTo(t, s) ==
    /\ stage' = [stage EXCEPT ![t] = s]
    /\ UNCHANGED <<sessionVars, input, alive, mutated>>

In(t, s) == alive /\ pc[t] = "backend" /\ stage[t] = s

-----------------------------------------------------------------------------
(* load_circuit.  The declared version and count select the table row;     *)
(* the bytes are stored beside it unread.                                  *)
_find_row(version, count) ==
    {r \in Rows : r.version = version /\ r.count = count}

BeginLoad(t) ==
    /\ alive
    /\ S!BeginLoad(t)
    /\ UNCHANGED <<backendVars, alive>>

(* Fault: a pair the table does not have is not refused. *)
Load_Unrefused(t, d) ==
    /\ alive
    /\ LET rows == _find_row(d.version, d.count) IN
       \E r \in IF rows = {} THEN {NoCircuit} ELSE rows :
            S!BackendLoads(t, [row |-> r, blob |-> d.blob])
    /\ UNCHANGED <<backendVars, alive>>

Load(t, d) ==
    /\ alive
    /\ LET rows == _find_row(d.version, d.count) IN
       IF rows = {}
       THEN S!BackendLoadRaises(t, "ValueError")
       ELSE \E r \in rows : S!BackendLoads(t, [row |-> r, blob |-> d.blob])
    /\ UNCHANGED <<backendVars, alive>>

Store(t) ==
    /\ alive
    /\ S!Store(t)
    /\ UNCHANGED <<backendVars, alive>>

-----------------------------------------------------------------------------
(* Pylongfellow.prove and verify, up to the backend call. *)
BeginUse(t, m, aw, in) ==
    /\ alive
    /\ S!BeginUse(t, m, aw)
    /\ input' = [input EXCEPT ![t] = in]
    /\ UNCHANGED <<stage, attrs, args, buffer, mutated, alive>>

(* The two reads of the slot; a call they end drops its arguments. *)
Lookup(t) ==
    /\ alive
    /\ S!CheckLoaded(t) \/ S!ReadLoaded(t)
    /\ IF pc'[t] = "idle" THEN Leave(t) /\ UNCHANGED buffer
                          ELSE UNCHANGED <<backendVars, alive>>

-----------------------------------------------------------------------------
(* The backend's prove and verify, up to the C call. *)

(* Fault: only refuse more claims than the row allows. *)
GuardsTooManyOnly(t) == input[t].len <= state[t].row.count

_require_claims_match_spec(t) == input[t].len = state[t].row.count

(* Fault: a doctype of any length goes to C. *)
Guard_AnyDoctype(t) ==
    /\ In(t, "guard")
    /\ IF _require_claims_match_spec(t)
       THEN GoTo(t, "alloc") /\ UNCHANGED <<attrs, args>>
       ELSE Raise(t, "ValueError")
    /\ UNCHANGED buffer

Guard(t) ==
    /\ In(t, "guard")
    /\ IF /\ _require_claims_match_spec(t)
          /\ op[t] = "verify" => ~input[t].longDoc
       THEN GoTo(t, "alloc") /\ UNCHANGED <<attrs, args>>
       ELSE Raise(t, "ValueError")
    /\ UNCHANGED buffer

(* _fill_attrs sizes the C array from the list, then walks the list.  A    *)
(* list that has grown in between indexes past the array, which cffi       *)
(* refuses; a field longer than its C buffer is refused.                   *)
Alloc(t) ==
    /\ In(t, "alloc")
    /\ attrs' = [attrs EXCEPT ![t] = input[t].len]
    /\ GoTo(t, "fill")
    /\ UNCHANGED <<args, buffer>>

Fill(t) ==
    /\ In(t, "fill")
    /\ \/ input[t].len > attrs[t] /\ Raise(t, "IndexError")
       \/ input[t].len > 0 /\ Raise(t, "ValueError")
       \/ input[t].len <= attrs[t] /\ GoTo(t, "ready") /\ UNCHANGED <<attrs, args>>
    /\ UNCHANGED buffer

(* The spec struct and the bytes come from the one object in `state`; the  *)
(* attribute count is len(claims) read once more.                          *)

(* Fault: the bytes come from the instance, which another thread may have  *)
(* loaded anew since the guard read the row.                               *)
CallArgs_FromSlot(t) ==
    [row |-> state[t].row, blob |-> circuit.blob, attrs |-> attrs[t],
     len |-> input[t].len, longDoc |-> input[t].longDoc]

CallArgs(t) ==
    [row |-> state[t].row, blob |-> state[t].blob, attrs |-> attrs[t],
     len |-> input[t].len, longDoc |-> input[t].longDoc]

(* _fmt_timestamp is evaluated after that read: a moment whose UTC reading *)
(* is before year 1 or after 9999 raises, and C is not called.             *)
CallC(t) ==
    /\ In(t, "ready")
    /\ \/ BeyondCalendar /\ Raise(t, "OverflowError")
       \/ /\ args' = [args EXCEPT ![t] = CallArgs(t)]
          /\ GoTo(t, "c")
          /\ UNCHANGED attrs
    /\ UNCHANGED buffer

-----------------------------------------------------------------------------
(* The C entry points run_mdoc_prover and run_mdoc_verifier.               *)
Parses(a) == Actual[a.blob] # NoCircuit
Few(a)    == Parses(a) /\ a.len < Actual[a.blob].count
Many(a)   == Parses(a) /\ a.len > Actual[a.blob].count

(* The arguments are ones the C code is written for. *)
InContract(a) ==
    /\ a.len <= a.attrs
    /\ Parses(a) => a.row = Actual[a.blob] /\ a.len = a.row.count

CSucceeds(t) ==
    /\ In(t, "c")
    /\ Parses(args[t]) /\ ~Few(args[t]) /\ ~Many(args[t])
    /\ IF op[t] = "prove"
       THEN /\ buffer' = [buffer EXCEPT ![t] = TRUE]
            /\ GoTo(t, "copy")
            /\ UNCHANGED <<attrs, args>>
       ELSE S!BackendReturns(t) /\ Leave(t) /\ UNCHANGED buffer

(* Fault: a bad status of the verifier becomes the prover's error. *)
CRejects_SameError(t) ==
    /\ In(t, "c")
    /\ ~Many(args[t])
    /\ Few(args[t]) => op[t] = "verify"
    /\ Raise(t, "ProverError")
    /\ UNCHANGED buffer

CRejects(t) ==
    /\ In(t, "c")
    /\ ~Many(args[t])
    /\ Few(args[t]) => op[t] = "verify"
    /\ Raise(t, IF op[t] = "prove" THEN "ProverError" ELSE "VerifierError")
    /\ UNCHANGED buffer

(* SIGABRT, or whatever reading past the array or a row that is not the    *)
(* circuit's leads to: the whole process is gone.                          *)
CAborts(t) ==
    /\ In(t, "c")
    /\ ~InContract(args[t])
    /\ ~(Few(args[t]) /\ op[t] = "verify" /\ args[t].len <= args[t].attrs)
    /\ alive' = FALSE
    /\ UNCHANGED <<sessionVars, backendVars>>

(* prove copies the proof out of the malloc'ed buffer and frees it in a    *)
(* finally, so also when the copy raises.                                  *)

(* Fault: the free is not in a finally. *)
Copy_NoFinally(t) ==
    /\ In(t, "copy")
    /\ \/ /\ S!BackendReturns(t)
          /\ buffer' = [buffer EXCEPT ![t] = FALSE]
       \/ /\ S!BackendRaises(t, "MemoryError")
          /\ UNCHANGED buffer
    /\ Leave(t)

Copy(t) ==
    /\ In(t, "copy")
    /\ S!BackendReturns(t) \/ S!BackendRaises(t, "MemoryError")
    /\ Leave(t)
    /\ buffer' = [buffer EXCEPT ![t] = FALSE]

-----------------------------------------------------------------------------
(* The caller changes the list it passed (append, del, clear) between the  *)
(* guard and the C call.  A change before the guard is another choice of   *)
(* argument in BeginUse; after the C call began nothing reads the list.    *)
MutateClaims(t, n) ==
    /\ alive /\ ClaimsMutable
    /\ stage[t] \in {"alloc", "fill", "ready"}
    /\ n # input[t].len
    /\ input' = [input EXCEPT ![t].len = n]
    /\ mutated' = [mutated EXCEPT ![t] = TRUE]
    /\ UNCHANGED <<sessionVars, stage, attrs, args, buffer, alive>>

Continue(t) ==
    \/ \E d \in Declarations : Load(t, d)
    \/ Store(t)
    \/ Lookup(t)
    \/ Guard(t)
    \/ Alloc(t)
    \/ Fill(t)
    \/ CallC(t)
    \/ CSucceeds(t)
    \/ CRejects(t)
    \/ CAborts(t)
    \/ Copy(t)

Next ==
    \E t \in Threads :
        \/ BeginLoad(t)
        \/ \E m \in S!Uses, aw \in BOOLEAN, in \in Inputs : BeginUse(t, m, aw, in)
        \/ Continue(t)
        \/ \E n \in 0 .. MaxClaims : MutateClaims(t, n)

Spec == Init /\ [][Next]_vars

(* Threads are scheduled, and the C entry points return or abort. *)
Fairness == \A t \in Threads : WF_vars(Continue(t))

FairSpec == Spec /\ Fairness

-----------------------------------------------------------------------------
(* A handle whose declaration was true of its bytes, or whose bytes C will *)
(* refuse to parse.                                                        *)
Honest(h) == Actual[h.blob] \in {h.row, NoCircuit}

(* A call made on an honestly declared circuit, whose claims list nobody   *)
(* touches after the guard, hands C only what C is written for: the number *)
(* of attributes the circuit has, no more than the array holds, with the   *)
(* row of that very circuit, and on verify a doctype C will not silently   *)
(* replace - however many other threads load circuits in the meantime      *)
(* (google_cpp.py:101-112, 299-301, 364-369).                              *)
HonestCallsStayInContract ==
    \A t \in Threads :
        /\ stage[t] = "c"
        /\ Honest(state[t])
        /\ ~mutated[t]
        => /\ InContract(args[t])
           /\ op[t] = "verify" => ~args[t].longDoc

(* The buffer a successful prover call leaves is owned by exactly the call *)
(* that will copy it: however that call ends, it is freed                  *)
(* (google_cpp.py:325-329).                                                *)
BuffersAreFreed == \A t \in Threads : buffer[t] <=> stage[t] = "copy"

(* The inductive form of the two properties above: what each stage of a    *)
(* call still knows of the guard, when nobody has touched the claims list. *)
Consistent(t) ==
    /\ S!Consistent(t)
    /\ stage[t] # "guard" => pc[t] = "backend"
    /\ buffer[t] <=> stage[t] = "copy"
    /\ stage[t] \in {"alloc", "fill", "ready", "c"} /\ op[t] = "verify"
            => ~input[t].longDoc
    /\ stage[t] = "c" => args[t] \in CArgs /\ args[t].longDoc = input[t].longDoc
    /\ ~ClaimsMutable => ~mutated[t]
    /\ ~mutated[t] =>
        /\ stage[t] \in {"alloc", "fill", "ready", "c"}
                => input[t].len = state[t].row.count
        /\ stage[t] \in {"fill", "ready", "c"} => attrs[t] = input[t].len
        /\ stage[t] = "c" => args[t] = CallArgs(t)

IInv == TypeOK /\ \A t \in Threads : Consistent(t)

(* The process is never aborted.  Not true in general: it holds when every *)
(* declaration is true and claims lists are left alone.                    *)
NeverAborts == alive

(* The claim of the guard's comment and of tests/api/test_prove.py:65-66:  *)
(* no call whose attribute count differs from the circuit's reaches C.     *)
GuardKeepsMismatchesOutOfC ==
    \A t \in Threads :
        stage[t] = "c" /\ Parses(args[t]) => args[t].len = Actual[args[t].blob].count

(* But for the exceptions of Foreign, which it reads as the ValueError     *)
(* they should be, google-cpp is a backend as Session expects one: each    *)
(* prove and verify ends, in a way its docstring lists, without touching   *)
(* the slot (google_cpp.py:248-392).                                       *)
AsDocumented(o) == IF o \in Foreign THEN "ValueError" ELSE o

Documented == INSTANCE Session WITH
    Handles <- LoadedCircuits,
    outcome <- [t \in Threads |-> AsDocumented(outcome[t])]

ImplementsSession == Documented!FairSpec
=============================================================================
