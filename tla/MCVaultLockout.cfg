\* The owner keeps running `recover` while the others revoke it and the store
\* is wiped.
SPECIFICATION FairSpec
CONSTANTS
    Devices = {o, d1}
    Owners = {o}
    Codes = {c1}
    Tokens = {t1}
    Names = {}
    GrantIds = {}
    Apps = {}
    None = None
    Ops = {"init", "recover", "pair", "token", "revoke", "wipe", "crash"}
    Ttl = 0
    MaxTime = 1
    MaxVersion = 1
    MaxLate = 1
PROPERTY OwnerNeverLockedOut
