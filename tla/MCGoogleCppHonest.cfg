SPECIFICATION FairSpec
CONSTANTS
    Threads = {t1, t2}
    NoCircuit = NoCircuit
    Blobs <- MCBlobs
    Rows <- MCRows
    Actual <- MCActual
    Declarations <- TrueDeclarations
    MaxClaims = 3
    ClaimsMutable = FALSE
    BeyondCalendar = TRUE
INVARIANTS
    NeverAborts
PROPERTIES
    ImplementsSession
