\* isrg-rust proves a claim whose value is not the document's.
CONSTANTS
    Keys <- MCKeys
    Curve <- MCCurve
    NewIssuerKey = "issuer"
    NewDeviceKey = "device"
    Texts <- MCTexts
    Transcripts = {"t1", "t1long", "t2"}
    Canonical <- MCCanonical
    Presentations <- MCPresentations
    DeviceMaps = {"empty", "items"}
    EmptyMap = "empty"
    Signings <- MCSignings
    MaxSignatures = 2
    Calendar <- MCCalendar
    FirstCertificate = 6
    Naive = Naive
    Unknown = Unknown
    LocalZone = 5
    None = None
    Requests <- MCRequests
    Bytes <- MCBytes
    DefaultDoctype = "mdl"
    FourDigits = 0
SPECIFICATION Spec
INVARIANT ProvenClaimsHold
