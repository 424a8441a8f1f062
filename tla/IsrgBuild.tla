------------------------------ MODULE IsrgBuild ------------------------------
(***************************************************************************)
(* native/isrg-rust/build.py: build the crate, generate its bindings,      *)
(* stage both in the source tree.  Every file it writes outlives the       *)
(* process, so a build starts from whatever earlier ones left, also those  *)
(* that failed or were killed at any point, and those of other revisions.  *)
(* cargo, uniffi-bindgen and the file system are external.                 *)
(***************************************************************************)
CONSTANTS
    Revisions,      \* revisions of the submodule a developer checks out
    Missing,        \* no such file
    Torn            \* a file whose copy or generation was cut short

ASSUME BuildAssumption ==
    /\ Missing # Torn
    /\ {Missing, Torn} \intersect Revisions = {}

VARIABLES
    source,     \* the revision in the submodule
    crt,        \* the target's CRT: "static" or "dynamic"
    target_so,  \* the revision TARGET_SO was built from
    out,        \* the revision the bindings in OUT were generated from
    dest,       \* the three staged files in DEST
    step,       \* where the build is
    wheel       \* the files a CMake install has packaged

vars == <<source, crt, target_so, out, dest, step, wheel>>

Files  == Revisions \union {Missing, Torn}
Staged == [init : BOOLEAN, bindings : Files, lib : Files]

TypeOK ==
    /\ source \in Revisions
    /\ crt \in {"static", "dynamic"}
    /\ target_so \in Files
    /\ out \in Files
    /\ dest \in Staged
    /\ step \in {"idle", "cargo", "require", "bindgen", "init", "bindings",
                 "lib", "staged", "failed"}
    /\ wheel \in Staged \union {Missing}

Init ==
    /\ source \in Revisions
    /\ crt \in {"static", "dynamic"}
    /\ target_so = Missing
    /\ out = Missing
    /\ dest = [init |-> FALSE, bindings |-> Missing, lib |-> Missing]
    /\ step = "idle"
    /\ wheel = Missing

GoTo(s) == step' = s

Running == step \notin {"idle", "staged", "failed"}

-----------------------------------------------------------------------------
(* Between builds the developer checks out another revision or changes     *)
(* RUSTFLAGS or the target.                                                *)
Checkout ==
    /\ ~Running
    /\ source' \in Revisions
    /\ crt' \in {"static", "dynamic"}
    /\ GoTo("idle")
    /\ UNCHANGED <<target_so, out, dest, wheel>>

(* Fault: a library that is there is not built again. *)
Start_Reuses ==
    /\ ~Running
    /\ GoTo(IF target_so = Missing THEN "cargo" ELSE "bindgen")
    /\ UNCHANGED <<source, crt, target_so, out, dest, wheel>>

(* The submodule and cargo are there, or the script exits. *)
Start ==
    /\ ~Running
    /\ GoTo("cargo") \/ GoTo("failed")
    /\ UNCHANGED <<source, crt, target_so, out, dest, wheel>>

(* cargo does not write the library when the target's CRT is static, and   *)
(* does not remove one that is there.                                      *)
CargoBuild ==
    /\ step = "cargo"
    /\ \/ GoTo("require") /\ target_so' = IF crt = "dynamic" THEN source ELSE target_so
       \/ GoTo("failed") /\ UNCHANGED target_so
    /\ UNCHANGED <<source, crt, out, dest, wheel>>

(* Fault: cargo's success is taken for the library's existence. *)
RequireTarget_Skipped ==
    /\ step = "require"
    /\ GoTo("bindgen")
    /\ UNCHANGED <<source, crt, target_so, out, dest, wheel>>

RequireTarget ==
    /\ step = "require"
    /\ GoTo(IF target_so = Missing THEN "failed" ELSE "bindgen")
    /\ UNCHANGED <<source, crt, target_so, out, dest, wheel>>

(* uniffi-bindgen reads the library; it cannot read one that is torn. *)
Bindgen ==
    /\ step = "bindgen"
    /\ \/ target_so # Torn /\ GoTo("init") /\ out' = target_so
       \/ GoTo("failed") /\ UNCHANGED out
    /\ UNCHANGED <<source, crt, target_so, dest, wheel>>

WriteInit ==
    /\ step = "init"
    /\ GoTo("bindings")
    /\ dest' = [dest EXCEPT !.init = TRUE]
    /\ UNCHANGED <<source, crt, target_so, out, wheel>>

CopyBindings ==
    /\ step = "bindings"
    /\ GoTo("lib")
    /\ dest' = [dest EXCEPT !.bindings = out]
    /\ UNCHANGED <<source, crt, target_so, out, wheel>>

(* Fault: a copy that fails is not an error, as the file may be in use. *)
CopyLib_Ignored ==
    /\ step = "lib"
    /\ GoTo("staged")
    /\ dest' = [dest EXCEPT !.lib = target_so] \/ UNCHANGED dest
    /\ UNCHANGED <<source, crt, target_so, out, wheel>>

CopyLib ==
    /\ step = "lib"
    /\ GoTo("staged")
    /\ dest' = [dest EXCEPT !.lib = target_so]
    /\ UNCHANGED <<source, crt, target_so, out, wheel>>

(* The process is killed, the disk is full: what the step was writing is   *)
(* torn or untouched.  copy2 and cargo write the file in place.            *)
Cut ==
    /\ Running
    /\ GoTo("failed")
    /\ \/ UNCHANGED <<target_so, out, dest>>
       \/ step = "cargo" /\ target_so' = Torn /\ UNCHANGED <<out, dest>>
       \/ step = "bindgen" /\ out' = Torn /\ UNCHANGED <<target_so, dest>>
       \/ step = "bindings" /\ dest' = [dest EXCEPT !.bindings = Torn]
            /\ UNCHANGED <<target_so, out>>
       \/ step = "lib" /\ dest' = [dest EXCEPT !.lib = Torn]
            /\ UNCHANGED <<target_so, out>>
    /\ UNCHANGED <<source, crt, wheel>>

(* Fault: __init__.py is left out of the files to install. *)
Install_NoInit ==
    /\ step = "staged"
    /\ wheel' = [bindings |-> dest.bindings, lib |-> dest.lib]
    /\ GoTo("idle")
    /\ UNCHANGED <<source, crt, target_so, out, dest>>

(* CMakeLists.txt: the install packages what is staged, once the target    *)
(* that runs the script has been made.                                     *)
Install ==
    /\ step = "staged"
    /\ wheel' = dest
    /\ GoTo("idle")
    /\ UNCHANGED <<source, crt, target_so, out, dest>>

Next ==
    \/ Checkout \/ Start \/ CargoBuild \/ RequireTarget \/ Bindgen
    \/ WriteInit \/ CopyBindings \/ CopyLib \/ Cut \/ Install

Spec == Init /\ [][Next]_vars

-----------------------------------------------------------------------------
(* A wheel never packages bindings of one revision beside a library of     *)
(* another, or half a file, whatever builds were cut short before          *)
(* (build.py:74-77, CMakeLists.txt:60-73).                                 *)
Whole(files) ==
    /\ files.init
    /\ files.bindings = files.lib
    /\ files.lib \in Revisions

WheelsAreWhole == wheel # Missing => Whole(wheel)

(* A build that says it has staged the backend has staged the revision     *)
(* that is checked out.  Not so when the target's CRT is static: cargo can *)
(* then succeed without producing the library, and the test meant for this *)
(* case finds the one an earlier build left (build.py:48-55).              *)
StagesWhatIsCheckedOut == step = "staged" => dest.lib = source

(* With a dynamic CRT it is so, whatever earlier builds left behind.       *)
DynamicStagesWhatIsCheckedOut == crt = "dynamic" => StagesWhatIsCheckedOut

(* What each step may rely on; the inductive form of both properties.      *)
IInv ==
    /\ TypeOK
    /\ step = "bindgen" => target_so # Missing
    /\ step \in {"init", "bindings", "lib"} => target_so \in Revisions /\ out = target_so
    /\ step \in {"bindings", "lib"} => dest.init
    /\ step = "lib" => dest.bindings = target_so
    /\ step = "staged" => Whole(dest)
    /\ WheelsAreWhole
    /\ crt = "dynamic" /\ step \in {"require", "bindgen", "init", "bindings", "lib"}
            => target_so = source
    /\ DynamicStagesWhatIsCheckedOut
=============================================================================
