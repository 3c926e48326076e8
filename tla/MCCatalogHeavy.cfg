\* Documents of a weight that the limit in bytes allows fewer of than the limit
\* in operations.
SPECIFICATION MCSpec
CONSTANTS
    read = read
    write = write
    starTypo = starTypo
    dRead = dRead
    dWide = dWide
    dTypo = dTypo
    Blank = Blank
    AnyNode = AnyNode
    BadHex = BadHex
    None = None
    RoleNames = {r1, r2}
    PolicyNames = {q1}
    MCDocNames = {dRead}
    Processes = {w1}
    HeavyWeight = 2
    MaxOps = 4
    MaxBytes = 4
    MaxAudit = 2
    Principals = {alice}
    Ids = {alice}
    Shells = {s1}
    Labels = {l1, l2, l3}
    HeldTokens = {t1, t2}
    MaxEntries = 2
    UnfitLabel = UnfitLabel
    UnfitToken = UnfitToken
    NoToken = NoToken
    Tags = {}
    Uses = {}
    Actions <- MCActions
    Universe <- MCActions
    Patterns <- MCPatterns
    Covers <- MCCovers
    Docs <- MCDocs
    Weight <- MCWeight
INVARIANT Reloadable
CHECK_DEADLOCK FALSE
