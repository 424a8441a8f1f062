SPECIFICATION FairSpec
CONSTANTS
    Goog <- MCGoog
    Isrg <- MCIsrg
    Self <- MCSelf
    Watched <- MCWatched
    None = None
    MaxMoves = 3
    MaxDispatches = 2
    MaxEvictions = 1
INVARIANTS
    TypeOK
    SkipsOnlyTested
    SilencedFailuresAreReported
    IInv
PROPERTIES
    PushesAreAnswered
