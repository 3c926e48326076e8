\* One verifier at a time, one administrator, one link and one configured root.
SPECIFICATION Spec
CONSTANTS
    k1 = k1
    None = None
    Self = Self
    Keys = {k1}
    Links = {l1}
    Admins = {a1}
    Verifiers = {v1}
    Tokens <- MCTokens
    Stances = {"none", "open", "closed"}
    Delays = {0, 1}
    MaxRoots = 1
    MaxTime = 3
    Ttl = 1
INVARIANTS
    TypeOK
    RevocationBound
    RetiredRootRefused
CHECK_DEADLOCK FALSE
