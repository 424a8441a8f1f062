--------------------------- MODULE IsrgBuildProofs ---------------------------
(* Proofs about IsrgBuild, for any set of revisions. *)
EXTENDS IsrgBuild, TLAPS

LEMMA InitIInv == Init => IInv
  BY BuildAssumption
  DEF Init, IInv, TypeOK, Files, Staged, Whole, WheelsAreWhole,
      DynamicStagesWhatIsCheckedOut, StagesWhatIsCheckedOut

(* A step that only moves on, or gives up, relies on nothing new. *)
LEMMA NextIInv == IInv /\ [Next]_vars => IInv'
<1> SUFFICES ASSUME IInv, [Next]_vars PROVE IInv'
  OBVIOUS
<1> USE BuildAssumption
    DEF IInv, TypeOK, Files, Staged, Whole, WheelsAreWhole,
        DynamicStagesWhatIsCheckedOut, StagesWhatIsCheckedOut, GoTo
<1>1. CASE Checkout
  BY <1>1 DEF Checkout, Running
<1>2. CASE Start
  BY <1>2 DEF Start, Running
<1>3. CASE CargoBuild
  BY <1>3 DEF CargoBuild
<1>4. CASE RequireTarget
  BY <1>4 DEF RequireTarget
<1>5. CASE Bindgen
  BY <1>5 DEF Bindgen
<1>6. CASE WriteInit
  BY <1>6 DEF WriteInit
<1>7. CASE CopyBindings
  BY <1>7 DEF CopyBindings
<1>8. CASE CopyLib
  BY <1>8 DEF CopyLib
<1>9. CASE Cut
  BY <1>9 DEF Cut, Running
<1>10. CASE Install
  BY <1>10 DEF Install
<1>11. CASE UNCHANGED vars
  BY <1>11 DEF vars
<1> QED
  BY <1>1, <1>2, <1>3, <1>4, <1>5, <1>6, <1>7, <1>8, <1>9, <1>10, <1>11 DEF Next

(* What each step of _stage relies on: which files the steps before it     *)
(* wrote, and of which revision they are, however often the build was cut  *)
(* short before (ffibuild.py).                                             *)
THEOREM Invariance == Spec => []IInv
  BY InitIInv, NextIInv, PTL DEF Spec

(* Every variable keeps its type. *)
THEOREM TypeCorrect == Spec => []TypeOK
<1>1. IInv => TypeOK
  BY DEF IInv
<1> QED
  BY <1>1, Invariance, PTL

(* Whatever builds were cut short, a packaged wheel holds bindings and a   *)
(* library of one and the same revision (WheelsAreWhole).                  *)
THEOREM WheelsCorrect == Spec => []WheelsAreWhole
<1>1. IInv => WheelsAreWhole
  BY DEF IInv
<1> QED
  BY <1>1, Invariance, PTL

(* On a target with a dynamic CRT, a build that claims to have staged the  *)
(* backend has staged the revision in the submodule                        *)
(* (DynamicStagesWhatIsCheckedOut).                                        *)
THEOREM StagingCorrect == Spec => []DynamicStagesWhatIsCheckedOut
<1>1. IInv => DynamicStagesWhatIsCheckedOut
  BY DEF IInv
<1> QED
  BY <1>1, Invariance, PTL
=============================================================================
