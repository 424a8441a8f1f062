\* Two threads, with two changes to the disk or the environment.
CONSTANTS
    Threads = {t1, t2}
    EnvValues = {"unset", "info", "loud"}
    MaxChanges = 2
    None = None
    Table <- MCTable
    _SYSTEM = "libzk"
    Asked <- MCAsked
    Junk = Junk
    Blobs <- MCBlobs
SPECIFICATION Spec
INVARIANTS
    TypeOK
    GeneratedIsHonest
    GenerateBuffersFreed
    AvailableStaysAvailable
    IInv
PROPERTY LevelIsSetOnce
