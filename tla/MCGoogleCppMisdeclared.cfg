SPECIFICATION Spec
CONSTANTS
    Threads = {t1, t2}
    NoCircuit = NoCircuit
    Blobs <- MCBlobs
    Rows <- MCRows
    Actual <- MCActual
    Declarations <- MixedDeclarations
    MaxClaims = 2
    ClaimsMutable = FALSE
    BeyondCalendar = FALSE
SYMMETRY Symm
INVARIANTS
    GuardKeepsMismatchesOutOfC
CHECK_DEADLOCK FALSE
