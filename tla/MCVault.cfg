\* One owner and another device, membership by pairing, token and recovery,
\* secrets written and read and grants verified meanwhile; wipes, crashes and
\* late writes at every step.
SPECIFICATION Spec
CONSTANTS
    Devices = {o, d1}
    Owners = {o}
    Codes = {c1}
    Tokens = {t1}
    Names = {n1}
    GrantIds = {g1}
    Apps = {a1}
    None = None
    Ops = {"init", "recover", "pair", "token", "revoke", "put", "get", "delete", "grant", "wipe", "crash"}
    Ttl = 0
    MaxTime = 0
    MaxVersion = 1
    MaxLate = 1
INVARIANT TypeOK
INVARIANT EnrolledOpensEverything
INVARIANT AllowedAtOneInstant
