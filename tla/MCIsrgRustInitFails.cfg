SPECIFICATION Spec
CONSTANTS
    Threads = {t1, t2}
    NoCircuit = NoCircuit
    None = None
    Objects = {o1, o2, o3}
    Streams = {"one", "bad"}
    Versions = {7}
    Undecodable = {}
    Uninitialisable <- MCUninitialisable
    WideKeys = FALSE
    BeyondCalendar = FALSE
INVARIANT
    OnlyDocumentedErrors
