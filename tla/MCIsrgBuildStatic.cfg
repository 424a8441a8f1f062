SPECIFICATION Spec
CONSTANTS
    Revisions = {r1, r2, r3}
    Missing = Missing
    Torn = Torn
SYMMETRY Symm
INVARIANTS
    StagesWhatIsCheckedOut
