SPECIFICATION FairSpec
CONSTANTS
    Threads = {t1, t2}
    NoCircuit = NoCircuit
    None = None
    Objects = {o1, o2, o3}
    Streams = {"one", "two", "junk"}
    Versions = {5, 7}
    Undecodable = {"junk"}
    Uninitialisable = {}
    WideKeys = TRUE
    BeyondCalendar = TRUE
INVARIANTS
    TypeOK
    HandleMatchesCircuit
    InitialisedOnFirstUse
    IInv
PROPERTIES
    ImplementsSession
