SPECIFICATION Spec
CONSTANTS
    Threads = {t1, t2}
    NoCircuit = NoCircuit
    Blobs <- MCBlobs
    Rows <- MCRows
    Actual <- MCActual
    Declarations <- MixedDeclarations
    MaxClaims = 2
    ClaimsMutable = TRUE
    BeyondCalendar = TRUE
SYMMETRY Symm
INVARIANTS
    TypeOK
    HonestCallsStayInContract
    BuffersAreFreed
    IInv
CHECK_DEADLOCK FALSE
