SPECIFICATION FairSpec
CONSTANTS
    Threads = {t1, t2, t3}
    Handles = {h1, h2}
    NoCircuit = NoCircuit
INVARIANTS
    TypeOK
    GivenIsLoaded
    IInv
PROPERTIES
    ImplementsContract
    CallsEnd
