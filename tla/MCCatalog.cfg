\* One writer; at most four operations, which is what attaching two roles takes.
SPECIFICATION MCSpec
CONSTANTS
    read = read
    write = write
    starTypo = starTypo
    dRead = dRead
    dWide = dWide
    dTypo = dTypo
    Blank = Blank
    AnyNode = AnyNode
    BadHex = BadHex
    None = None
    RoleNames = {r1, r2}
    PolicyNames = {q1}
    MCDocNames = {dRead, dWide}
    Processes = {w1}
    HeavyWeight = 1
    MaxOps = 4
    MaxBytes = 4
    MaxAudit = 2
    Principals = {alice}
    Ids = {alice}
    Shells = {s1}
    Labels = {l1, l2, l3}
    HeldTokens = {t1, t2}
    MaxEntries = 2
    UnfitLabel = UnfitLabel
    UnfitToken = UnfitToken
    NoToken = NoToken
    Tags = {}
    Uses = {}
    Actions <- MCActions
    Universe <- MCActions
    Patterns <- MCPatterns
    Covers <- MCCovers
    Docs <- MCDocs
    Weight <- MCWeight
INVARIANTS
    MemoryIsDisk
    AuditIsRecent
    AttachedRolesExist
    EffectiveIsMint
    StoredUntilRemoved
PROPERTIES
    ImplementsDurableCatalog
    CompactionKeepsState
CHECK_DEADLOCK FALSE
