\* Two processes write the same catalog; or, with enforcement on, a reader and
\* a writer send requests to a node beside its own.
SPECIFICATION MCSpec
CONSTANTS
    read = read
    Blank = Blank
    AnyNode = AnyNode
    BadHex = BadHex
    None = None
    RoleNames = {r1}
    PolicyNames = {}
    Processes = {w1, w2}
    DocWeight = 2
    MaxOps = 3
    MaxBytes = 6
    MaxAudit = 2
    Principals = {alice}
    Ids = {alice}
    Tags = {}
    Uses = {}
    Actions = {read}
    Universe = {read}
    Patterns = {}
    Covers <- MCCovers
    Docs <- MCDocs
    Weight <- MCWeight
    node = node
    reader = reader
    writer = writer
    secret = secret
    public = public
    sDot = sDot
    sBare = sBare
    Self = node
    Peers = {node, reader, writer}
    ListPrefixes = {sDot, sBare}
    Keys = {secret, public}
    Sensitive = {secret}
    Prefixed <- MCPrefixed
    Gated <- MCGated
    Held <- MCHeld
    EnforceWrite = TRUE
    EnforceRead = TRUE
    Values = {v1}
    NoValue = NoValue
    MaxEvents = 2
    MaxRequests = 3
INVARIANTS
    TypeOK
    KvTypeOK
    FileIsValidLog
    ChangesAreAccounted
PROPERTIES
    CompactionShrinks
    OnlyWritersChange
CHECK_DEADLOCK FALSE
