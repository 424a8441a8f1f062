# pylongfellow: specification, model checking, proofs

pylongfellow is a Python package for proving and verifying claims about mobile
documents (ISO mdoc) in zero knowledge. It holds little cryptography itself: a
small public class, `Pylongfellow`, keeps one loaded circuit and forwards each
call to one of two native libraries, a C++ one reached through cffi
(`google-cpp`) and a Rust crate (`isrg-rust`). What can go wrong in this code is
therefore what happens around the native calls: which circuit a call works on
when several threads share an instance, what a call hands to C, which exceptions
come back, who frees what. These modules are about that.

All paths below are relative to the repository.

## 1. Inventory

### Components

| component | state | operations | talks to |
|---|---|---|---|
| session: `Pylongfellow` (`src/pylongfellow/mdoc/_pylongfellow.py`) | `_circuit` (a circuit state or None), `backend` | constructor, `load_circuit`, `prove`, `verify` | calls the backend; hands it the circuit state back on each use |
| backend protocol and registry (`backends/__init__.py`) | the constant name table; Python's import cache | `get_backend`, `ensure_available` | imports the backend's module, which imports the native extension on first use |
| google-cpp backend (`backends/google_cpp.py`) | per circuit: an immutable (row, bytes) pair; per call: C arrays, the proof buffer that C allocates | `load_circuit`, `prove`, `verify` | the C ABI, which runs without the interpreter lock |
| google-cpp circuit table (same file) | two caches for the life of the process: `zk_specs`, `circuit_id` | `zk_specs`, `find_zk_spec`, `circuit_id`, `generate_circuit` | the C ABI |
| isrg-rust backend (`backends/isrg_rust.py`) | per circuit: a *mutable* object with a prover and a verifier, filled on first use | `load_circuit`, `prove`, `verify` | zstandard, the crate through UniFFI |
| marshalling (both backends) | none | timestamps, key coordinates, fixed C fields | |
| errors, records (`mdoc/_errors.py`, `_types.py`, `_errors.py`) | none | | |
| test presentations (`mdoc/testing.py`) | none; the document is the caller's | `create_presentation`, `sign_device_authentication`, the self-checks | makes the session's inputs |
| native builds (`src/native/*`, `CMakeLists.txt`) | the build tree; the log level fixed when the library is loaded | staging of bindings and library | |
| workflows (`.github/workflows`) | the canary's tested-state cache; what a release has published | fingerprint, test, record, report; publish, smoke-test, release | |
| scripts, examples | none | | |

### How they interact

A caller constructs a session (registry, import of the native extension), calls
`load_circuit` and then any number of `prove` and `verify`. `load_circuit`
stores whatever object the backend returns in `_circuit`; `prove` and `verify`
read it from there and pass it to the backend. The object is the only state
that outlives a call. Threads share it with no lock anywhere in the package: the
session may be loaded anew while other calls run on the old object, and on
isrg-rust several calls may be inside one object's lazy initialisation.

### What is hard here

* **Interleaving.** `_loaded_circuit` reads the slot twice. isrg-rust tests,
  fills and re-reads a field of a shared object, with a slow native call between
  the test and the assignment.
* **Stale state.** google-cpp's guard, allocation and C call each read
  `len(claims)` from a list that belongs to the caller; the row and the bytes a
  call uses must come from the same load.
* **A long sequence of legal calls.** A circuit declared with the wrong count
  is accepted at load time and aborts the process at a later `prove`.
* **Partial failure.** A load that raises, an initialisation that raises, a copy
  that raises after C allocated.
* **Two of everything.** The backends render times and keys, name claims and
  fill in what they are not given each in its own way, yet a proof by one has to
  verify on the other.
* **Numeric edges.** The 256-byte doctype, fixed C fields, 32-byte coordinates,
  years that do not have four digits.
* **Crash and retry** occur only in the build staging, the canary's cache and
  the release; nothing in the package itself is persisted.

`PROJECT.json` lists every hazard at its line, with the properties that would
catch it.

### What makes each component correct

* *session*: no backend is ever handed None; a failed load changes nothing; the
  slot behaves as one atomic register although it is read twice; every call ends
  in a way its docstring lists.
* *google-cpp calls*: C is only ever called with arguments it is written for;
  every buffer C allocated is freed; the process survives.
* *isrg-rust calls*: a native call gets an initialised handle of its own kind,
  made from its own circuit; initialisation is not repeated for ever; native
  errors are translated.
* *circuit table*: a row that is found describes the circuit that is generated;
  the caches never answer wrongly.
* *marshalling*: the instant that is proved is the instant that was passed; a
  key or field arrives whole or is refused.
* *statements*: what a proof binds is what a verification compares.
* *presentations*: what the issuer signed covers every disclosed item.
* *builds and workflows*: what is tested is what is staged, recorded and published.

## 2. The modules

| module | what it is |
|---|---|
| `SessionContract` | abstract: a register and three methods; what an instance promises to its threads |
| `Session` | detailed: the slot and the methods of `Pylongfellow`, each slot access a step; the backend is opaque |
| `GoogleCpp` | `Session` with the google-cpp backend in place of the opaque one |
| `IsrgRust` | `Session` with the isrg-rust backend in place of the opaque one |
| `IsrgBuild` | `native/isrg-rust/build.py` over a tree that outlives it, and the CMake install |
| `Canary` | the canary workflow: triggers, cancellation, fingerprint, cache, reports |
| `Registry` | finding and importing the native extensions, constructing instances, the log level |
| `Circuits` | `Registry` with the google-cpp circuit table: lookups, identification, generation |
| `Presentation` | `mdoc/testing.py`: a document under local keys, its self-checks, signing it again |
| `Statement` | `Presentation` with the arguments of prove and verify on both backends |
| `SessionProofs`, `GoogleCppProofs`, `IsrgRustProofs`, `CircuitsProofs`, `StatementProofs`, `IsrgBuildProofs`, `CanaryProofs` | theorems and proofs |
| `MCSession`, `MCGoogleCpp`, `MCIsrgRust`, `MCIsrgBuild`, `MCCanary`, `MCCircuits`, `MCStatement` | instances for TLC |

The composition is by instance: `GoogleCpp` and `IsrgRust` say
`S == INSTANCE Session WITH Handles <- ...` and conjoin their own effects to the
session's actions, so the slot and the two reads are defined once. The
refinements form two chains,

    GoogleCpp --\
                 Session -- SessionContract
    IsrgRust  --/

`Circuits` and `Statement` extend `Registry` and `Presentation` and add their own
state and actions beside theirs. Between the two groups the modules meet in their
constants and properties: `GoogleCpp` takes the table and the declarations for
given, and `Circuits` shows that generated circuits can be declared honestly;
`GoogleCpp` and `IsrgRust` abstract a call's arguments to what steers its steps,
and `Statement` a call's steps to one, since nothing a call renders is shared.

### Session and SessionContract

`circuit` is `_circuit`. A thread's call is a program counter: `load` (inside
`backend.load_circuit`), `store` (the value is there and not yet assigned),
`check` and `read` (the two reads in `_loaded_circuit`, `_pylongfellow.py:52-54`),
`backend` (inside the backend's `prove` or `verify`). `state` is the local of
that name. The naive-timestamp check has no effect on shared state and shares
the step of the second read, which it follows. A backend call ends by returning or by one of the errors the
method's docstring lists. Any call may also end with `MemoryError`, which stands
for the interpreter's resource exceptions: no docstring lists them and the code
neither raises nor catches one, but they are why prove's `finally` is there.

`SessionContract` forgets the program counter. A load replaces the register at
one instant or raises and leaves it; a use looks at the register once, and
either finds it empty, is refused for its arguments, or takes a circuit and ends
with an error of its own kind. Under the mapping in `Session` (`Contract`), the
None check is a stutter and the second read is the instant at which the circuit
is taken. That this works at all is the point: it holds because no code path
empties the slot.

### GoogleCpp

State added: per thread the arguments (`input`: the length of the claims list as
it is now, and whether the doctype is too long), the `stage` inside the backend
(`guard`, `alloc`, `fill`, `ready`, `c`, `copy`), the length of the C array, what
C was handed, whether C left a buffer, and the global `alive`. A circuit state is
the record `[row, blob]`, as in `_LoadedCircuit`. Circuits are told apart by what
they really are (`Actual`) and what the caller declares (`Declarations`);
`load_circuit` looks only at the declaration, as in the code.

`Fill` abstracts the three length checks of `_fill_attrs` to "some claim's field
may be too long" (so with no claims it cannot fail). `CallC` reads `len(claims)` a third time
(`google_cpp.py:317` and `381`), and then renders the timestamp: one whose UTC reading lies beyond
the calendar's ends makes `astimezone` raise `OverflowError`, and C is not called. Whether such
timestamps are passed is the constant `BeyondCalendar`, as `ClaimsMutable` is whether lists change.
The C library is external: `CSucceeds`, `CRejects`
and `CAborts` follow the comment at `google_cpp.py:102-106` and the tests. Too
many claims abort; too few abort the prover and give the verifier a status; a
call with a wrong row or beyond its array may do anything C can do, including
what looks like success. After an abort no action is enabled, which is why those
configurations allow deadlock. `MutateClaims` is the caller's other thread
changing the list; `mutated` is an auxiliary variable that remembers it did, and
only properties read it. `S!BackendRaises` takes any error, so what backends may
raise is stated by `ImplementsSession` and not assumed. Two exceptions leave this backend
that no docstring lists (`Foreign`): `IndexError` for a list that grew under the call, `OverflowError`
for a time beyond the calendar. `ImplementsSession` reads them as the `ValueError` they should be
(`AsDocumented`), and `TypeOK` says that there are no others.

### IsrgRust

A circuit state is an object with identity, since it is shared and mutable:
`source` is what it was made from, `handle[o][m]` its `prover` and `verifier`
fields. `_ensure_prover` and `_ensure_verifier` (`isrg_rust.py:78-93`) become
`Test`, `Initialise`, `Assign` and `Fetch`. Objects that neither the slot nor a
thread refers to are collected and their names reused, so that a handful of names
stands for any number of loads; `ObjectsAssumption` says how many are enough for
an unused one always to exist. A short read of a truncated stream, which
`_decompress` does not notice, appears as a circuit that cannot be initialised.
Three exceptions leave this backend that no
docstring lists (`Foreign`): zstandard's `ZstdError`, the crate's `MdocZkError`, and `OverflowError`, for a key that
does not fit 32 bytes or a time beyond the calendar; `ImplementsSession` therefore reads them as the `ValueError`
they should be, and `OnlyDocumentedErrors` is the property about them.
`inits` counts initialisations per object and method, up to `InitCap`
(threads + 1, one more than the property allows); it is auxiliary.

### IsrgBuild

One variable per file the script writes, holding the revision it came from:
`target_so` (cargo's output), `out` (generated bindings), `dest` (the three
staged files). One action per statement of `main`. `Cut` ends a build anywhere and
may leave the file being written `Torn`. Between builds the submodule moves and
the target's CRT may change. cargo is external and modelled by what
the script's own comment says of it (`build.py:49-50`) and by its not removing outputs of
earlier builds. `Install` is `CMakeLists.txt:60-73`.

### Canary

`head` holds the heads of the three repositories, `saved` the cache's entries
from oldest to newest, `run` the run in progress with the step it is about to
take and the step outputs later steps read. A revision's watched paths are
its value under `Watched`, so two revisions may share a fingerprint. `Continues`
is the implicit `success()` or the `failure()` of a step: neither holds once a run
has been told to stop, and only the save, which is under `always()`, goes on.
The two upstreams are fetched in one step, as nothing between the two
fetches is observable, and `Record` and `Save` are one step, as both are under the same
condition. A key has at most one entry, since entries are not overwritten. Dispatched runs are on the default branch. The scheduler, the concurrency group and the
cache (newest entry for a prefix, no overwriting, eviction) are external. A cache that does not
answer is a miss. Of a run that is over only its comment is kept (`Ended`).
`fate` is auxiliary, no guard reads it: it says of each fingerprint what became of the latest
verdict on it. A failure's report is `due` from the end of the suite; it is posted (`known`),
`lost` on the way, or `overtaken` when the run that found it is told to stop before it posted.

### Presentation and Statement

Cryptography is symbolic: a signature is the pair of key and payload, a digest is
the item it is taken of, and a public key goes by its private key. A session transcript
is a value that may have several encodings; `Canonical` is the one cbor2 writes,
which is what `_device_authentication_bytes` signs, whichever it was given.
`CreatePresentation` is all of `create_presentation`: the document is assembled
(`Document`), and nothing is returned unless the arguments are usable and both
self-checks pass on it (`Created`). `FirstCertificate` is the first instant at which x509 lets a
generated certificate begin (1950). `SignAgain` is a caller's use of
`sign_device_authentication`, with right and wrong keys, transcripts and items.

In `Statement` a call is one step, as the shared state of a call is the subject of
`GoogleCpp` and `IsrgRust`. `Refused` is what either backend raises before anything
native runs. `GoogleProves`, `GoogleVerifies`, `IsrgProves` and `IsrgVerifies` are
the public statement that each call is about, from what its native function is
handed: isrg-rust's prover gets identifiers of one namespace and takes the rest from
the document, google-cpp's side always has the empty device map, and C puts its default
in the place of a doctype of 256 bytes. `GoogleTime` and `IsrgTime` are the two
`_fmt_timestamp`. Lengths are of encoded text (`Bytes`).

External, and assumed: a proof binds its statement and is sound, so that it verifies
exactly for an equal statement that holds of its document (`Holds`, `Verdicts`). The
namespace of a claim is not part of a statement, since isrg-rust verifies without it and
proofs are interchangeable. Provers must reject what `tests/api/test_prove.py:38-58`
says they reject (`Provable`), and may reject any other statement that does not hold.
The bounds of a document's window are taken to belong to it. A window bound may itself be
given in a zone without an offset; what instant its caller meant nobody can say, so the
properties speak of a bound only where it has one (`HasOffset`). Arguments C has no defined
answer to (`Undefined`) get any answer.

Properties are stated from the caller's side, in terms of the arguments passed and not
of what was made of them: `AcceptedIsPresented`, that an accepted verification means what
its arguments say; `RoundTrip`, that a request that agrees with the document is proved and
verified across backends and time zones; `BackendsAgree`, that the two verifiers
cannot be told apart where both take the request.

### Registry and Circuits

An extension is on disk or not, and may come and go; once imported it stays. An import
is one step, under the interpreter's import lock, and runs `log_init.cc`'s
constructor within it. `Construct` is `Pylongfellow.__init__`. A call that raises
`BackendUnavailableError` leaves nothing behind (`Unavailable`). In `Circuits` a thread's
`generate_circuit` has two steps after the lookup: the C call, without the interpreter lock,
and the copy of its buffer. A circuit goes by the row of the table it is the
circuit of, and `made` remembers what it was generated for.

### Fault operators

The modules have operators headed `Fault:` beside some actions. They are not part
of the specification. Each is the action as it would be after a plausible mistake (the guard
drops a test, the free is not in a `finally`, a failed load empties the slot) and
is defined so that every property can be seen to fail for it; `PROJECT.json`
("mutants") pairs them.

## 3. The runs

| run | question | bounds |
|---|---|---|
| `session` | Is a backend ever handed None? Does the slot implement the register, and does every call end? | 3 threads, 2 circuit states |
| `google_any` | With true and false declarations, lists that change under a call and timestamps beyond the calendar, do honest undisturbed calls still hand C what it is written for? Is every buffer freed? | 2 threads, 3 rows, 3 byte strings, up to 2 claims |
| `google_honest` | With true declarations and stable lists, does the process survive and is this, but for which exception ends a call, the backend `Session` assumes? | the same, up to 3 claims; timestamps beyond the calendar |
| `google_misdeclared` | Does the guard keep every count mismatch out of C? (No.) | as `google_any`, stable lists |
| `isrg` | Does a native call always get its own circuit's handle, however initialisations race? Is this, but for which exception ends a call, the backend `Session` assumes? | 2 threads, 3 objects, 3 streams (one undecodable), a supported and an unsupported version, wide keys |
| `isrg_init_fails` | Do all errors that leave the session appear in its docstrings? (No.) | the same, with a circuit the crate cannot load |
| `statement` | Is a presentation that passes its self-checks whole? Does acceptance mean what was asked? Does what matches verify, across backends? Do the verifiers agree? | 13 presentations (6 pass), 6 further signings of which one is made, 24 requests, both backends |
| `isrg_proves_unasked` | Is a proof returned only for claims the document holds? (No.) | the same |
| `circuits` | Are generated bytes what was asked for? Is every buffer freed? Does an instance stay usable, and is the log level set once, in time? | 2 threads, 4 rows, 4 pairs asked for, 2 changes to disk or environment |
| `canary` | Is a night skipped only for a state that has a verdict? Does a skipped night pass over a failure whose report was never tried - other than by a run by hand overtaking it? Is every push answered, unless another follows? | 2 + 1 + 2 revisions, two of them with equal watched paths; 3 moves, 2 dispatches, 1 eviction; runs overlap, every step may fail |
| `isrg_build` | Does a wheel ever mix revisions or hold half a file? With a dynamic CRT, is what is staged what is checked out? | 3 revisions, both CRTs, any number of builds |
| `isrg_build_static` | And with a static CRT? (No.) | 3 revisions |

**Why the bounds are enough.** The session's races are between one thread's two
reads and another's store, so they need two threads and two circuits; the third
thread lets two loads overtake one use. In google-cpp a race concerns one call
and the loads around it: two threads. The three rows are two counts of one
version and one count in a second version, so that a wrong version and a wrong
count are both possible. The byte strings are two circuits and one that is no
circuit; with two claims at most, each of fewer, equal and more than declared occurs.
In isrg-rust the races are between two first uses of one object, and between a
use and a load that replaces it: two threads and
three objects. A statement's fields are compared one by one, so presentations and
requests that differ from a plain one in one field, or in two that
belong together, meet every comparison both ways; further documents in the
same process share no state with the first. The table has every relation two rows can
have: another version, another count, another proof system; threads of
`Circuits` share only caches that grow. The canary's hazards need a state, a different one, and a way
back or an unwatched difference, and runs that interrupt another: three moves
and two dispatches, one to find a failure and one to interrupt it. The staging has no bound but the number of revisions.
The theorems below cover all other sizes for what they state.

**Fairness.** In the session modules: weak fairness of each thread's `Continue`: the interpreter keeps
scheduling a runnable thread, and the external functions return. No call need
ever be begun, and no particular outcome of a call is ever forced. Nothing in
the package waits for anything, so no stronger fairness is needed. `CallsEnd` and
the fair refinements say that this is in fact so: no call's progress depends on
what other threads do. In `Canary`: weak fairness of the nightly schedule and of the
runner's steps, none of pushes, dispatches or evictions, which are bounded.
A run is stopped by the runner long before it is a day old, so
two scheduled runs do not overlap. No step is assumed to succeed.

`IInv` appears in the runs of the seven modules that have proofs: it is the inductive invariant
of section 5, checked on the instance before it was proved for all.

## 4. Where the code and its documentation differ

* `google_misdeclared`: the guard compares the number of claims with the
  *declared* row's count. `tests/api/test_prove.py:65-66` says that the guard
  keeps the aborting count mismatches out of C entirely. With a circuit of one
  attribute loaded as `(bytes, 7, 2)`, two claims pass the guard. `backends/__init__.py`
  leaves what a backend checks of a declaration to the backend, so this is a
  difference between the test's comment and the code.
* `isrg_init_fails`: `prove` and `verify` initialise the crate outside the `try`
  that translates its errors, so a circuit that the crate cannot load ends them with
  the private `MdocZkError`.
* `isrg_proves_unasked`: isrg-rust's `prove` hands the crate neither the values of the
  claims nor the issuer's key. A claim with a wrong value gets a proof, of the
  document's own value, where `isrg_rust.py:134` says "Prove the claims hold over
  the mdoc" and google-cpp raises `ProverError`. Only a verifier finds out.
* `isrg_build_static`: the test for the library (`build.py:52`) passes on one that an earlier
  build left, so the case it is meant for ("fails with a named error when
  cargo produces no cdylib", `CHANGELOG.md:93-94`) goes unnoticed in a tree that was built
  before.

Some limits are known and have no run. A timestamp whose UTC reading lies before year 1 or after
9999 ends `prove` and `verify` with `astimezone`'s `OverflowError` on both backends, which no
docstring lists (`google_cpp.py:58-60`). A canary run that is told to stop between the end of its
suite and its report still records its state (`canary.yml:134-152`); when the suite had failed, the
failure is recorded and never reported, and the nights after it skip. This takes a run
started by hand, beside or before a nightly one. Neither verifier compares the namespace of a
claim. A transcript in another encoding than cbor2's passes `create_presentation`'s
self-check and can be proved by neither backend; nor can an issuer key of
another 256-bit curve. A tzinfo without an offset is taken for the host's zone. A doctype with a NUL
may be shorter in C than in Python. `load_circuit` on isrg-rust lets zstandard's
`ZstdError` through for bytes that are no zstd stream; only ValueError is documented
(`isrg_rust.py:117-123`). And the cache keeps the entry it has for a fingerprint, so a
canary run by hand on a recorded fingerprint is not recorded again, and a later report's
"Moved since the last tested state" (`canary.yml:174`) may compare with an older one.

## 5. The proofs

TLC settles the instances; the theorems hold for every number of threads, every table, every
set of circuits, presentations, requests and revisions. Every safety invariant that a run checks
is proved, and so are the two refinements of `Session` and the action property `LevelIsSetOnce`.
Each proof module has the same plan: an inductive invariant `IInv` (in the component's module,
where TLC checks it too), one lemma per action, `Invariance`, and the properties from it.

**Assumptions.** Each is a named ASSUME that TLC evaluates on every instance. Some only say that
None is none of the values it stands beside (`NoCircuitAssumption`, `NoneAssumption`,
`RegistryAssumption`, `RowsAssumption`, `MadeAssumption`, `RecordsAssumption`). The others say
what the code's types, the circuit table or the suite give:

| assumption | says | because |
|---|---|---|
| `TableAssumption` (`GoogleCpp`) | each byte string is the circuit of a row or of none; declarations are a version and a count | `load_circuit`'s signature |
| `TableAssumption` (`Circuits`) | rows differ in (system, version, count) and in their ids | what the suite requires of the table |
| `ObjectsAssumption` (`IsrgRust`) | finitely many threads, more object names than threads | an unused name always exists; names are reused |
| `BlobsAssumption` (`Circuits`) | bytes are a row's circuit or junk | |
| `PresentationAssumption` | arguments have the types of `create_presentation`'s signature; an identifier occurs once in its namespace; re-encoding is idempotent; generated keys are P-256 | `testing.py:225-236`: claims are a mapping of mappings; `cbor2.dumps(cbor2.loads(_))` |
| `StatementAssumption` | requests have the types of `prove` and `verify` | `_pylongfellow.py:74-117` |
| `BuildAssumption`, `CanaryAssumption` | constants have their types; a missing and a torn file are no revision's | |

**Session.** `GivenIsLoaded` alone is not inductive: a thread at `read` has tested the slot and
holds nothing, so what saves it is that the slot *remains* non-empty, which in turn needs every
value about to be stored to be a circuit. `Refinement` proves step by step that `Session`
implements `SessionContract`.

**GoogleCpp.** `IInv` carries the guard's knowledge from stage to stage (the count still equals
the row's, the array has that length, what C was handed is built from `state`), each part
conditional on the list not having been touched, and says a buffer exists exactly in stage
`copy`. From it: `HonestCallsCorrect`, `BuffersCorrect`, `HonestNeverAborts` (under the hypotheses
that all declarations are honest and lists are stable), and `RefinesSession`, with no
hypothesis: whatever is declared and whoever changes the lists, what google-cpp does is something the
opaque backend may do, up to the exceptions of `Foreign`. `KeepsContract` composes that with `SessionProofs!Refinement`.

**IsrgRust.** Two arguments. `HandlesCorrect`: an object that anyone refers to has a source, its
fields are empty or were made from that source, and what a thread carries from one step to the
next was made from its own object; since a field is only ever filled, a thread that goes to fetch
finds it filled. Collection and reuse of names preserve this because an object that is reused is
referred to by no thread. `InitialisedCorrect` counts: while a field is empty, every
initialisation made of it is still in the hands of the thread that made it, waiting to
be assigned, so there are as many as such threads; once it is filled no thread joins those that had already found it
empty. `RefinesSession` and `KeepsContract` are as for google-cpp, reading the three exceptions of
`Foreign` as the ones documented.

**Circuits and Registry.** `GeneratedCorrect` needs that the row found at the lookup is still the
answer at the copy, and that C makes what the row says. `AvailableCorrect` needs
that an import is never undone, whatever happens on disk. `LevelCorrect` is an action property: it
follows from the level's being set exactly when the extension is in the process.

**Presentation and Statement.** `IInv` says that the document is the one its arguments make, under
a device signature that was made for it and is among those remembered, and that the proof is of that
document as it is now. `SpecimenCorrect` is then about one document: the self-check of the issuer's
signature forces certificate and key to agree (`CertificateIsIssuers`), and a claim's place in its
namespace is its digest id both in the items and in the MSO (`ItemsAndDigests`).
`AcceptedCorrect` reads a verdict back through the rendering of its request: what was not refused
and is equal as rendered is equal as passed. `RoundTripCorrect` goes the other way: a
matching request is about one public statement (`Public`) on either backend, whoever proves or
verifies, and it holds. For isrg-rust, which is told identifiers only, this is where identifiers must be
unique in a namespace and all claims be of one. `AgreementCorrect` needs no invariant.

Stating this in general showed a gap in two properties: they had compared a moment with a window bound
whose zone may have no offset, which no instance had; they now say what they mean (`HasOffset`), and
the instance has one.

**IsrgBuild.** `IInv` says for each step what the steps before it have established (`out` was
generated from the very library that will be copied, the bindings are already those), which no
file's own content shows. From it: `WheelsCorrect`, and `StagingCorrect`, which is about dynamic CRTs.

**Canary.** `IInv`: every entry of the cache is of a state with a verdict, a hit is about the
state that is checked out, and a run that saves has just had one. `SilencedFailuresAreReported` is
not inductive: it speaks of a night that skips, and what makes it true is said of other runs. A report
is due only from the run that found the failure, at its save or its report, and not told to stop; so
none is due once another run is at work. And while no run has been started by hand, only the
schedule has, so that none waits, none is told to stop, and no failure is ever overtaken.

**Only model-checked:** liveness (`CallsEnd`, `PushesAreAnswered`, and the fair parts of
both `ImplementsSession`), which is beyond the prover. What the violation
runs show is by its nature about an instance. The run of `GoogleCpp` as a backend is
under true declarations and stable lists, since an abort ends liveness; the theorem is not.

## 6. Not modelled, and the plan

What is left, in order:

1. `Release`: publish (with `skip-existing`) before smoke test and GitHub release, and what
   running the failed jobs of a release again finds.
2. An abstract specification of a verifier - what was presented, and what may be accepted of it -
   that `Statement` implements, in place of the three properties that now say so together.

Outside any model: the zero-knowledge proofs and the C++ and Rust code (external;
neither source is in this repository), CBOR and X.509 encoding (but
for what a second encoding of a transcript does), certificate extensions, error codes
and messages, `ffibuild.py`, which generates the cffi binding from a header, the straight-line scripts and examples, and `ci.yml`, a job matrix without state.
