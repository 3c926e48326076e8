\* Every document of at most two statements, or up to three chains of up to
\* three links, or up to three attestations.
SPECIFICATION MCSpec
CONSTANTS
    org = org
    alice = alice
    bob = bob
    gpu = gpu
    linux = linux
    read = read
    write = write
    admin = admin
    star = star
    starRead = starRead
    starTypo = starTypo
    small = small
    large = large
    eid = eid
    social = social
    Blank = Blank
    AnyNode = AnyNode
    BadHex = BadHex
    None = None
    MaxStatements = 2
    Library <- MCLibrary
    Moments <- MCTimes
    Ids <- MCIds
    Tags <- MCTags
    Actions <- MCActions
    Patterns <- MCPatterns
    Covers <- MCCovers
    Universe <- MCUniverse
    Uses <- MCUses
    SelfTags <- MCSelfTags
    accepted_roots <- MCRoots
    Policies <- MCPolicies
    Times <- MCTimes
    RevocationViews <- MCRevocationViews
    Nonces = {1}
    MaxNonce = 2
    MaxChainDepth = 3
    MaxGrants = 3
    MaxLinks = 3
    Attestors = {eid, social}
    Subjects = {alice, bob}
    Levels = {1, 3}
    Expiries = {0, 2}
    TrustPolicies <- MCTrustPolicies
    MaxHeld = 3
    LastSecond = 2
INVARIANTS
    TypeOK
    CompileFaithful
    ScopesFaithful
    NoSilentTypo
    AttenuationNeverBroadens
    LeafDecides
    TrustIsEarned
CHECK_DEADLOCK FALSE
