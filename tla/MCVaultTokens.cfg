\* Two devices redeem one enrolment token.
SPECIFICATION Spec
CONSTANTS
    Devices = {o, d1, d2}
    Owners = {o}
    Codes = {}
    Tokens = {t1}
    Names = {}
    GrantIds = {}
    Apps = {}
    None = None
    Ops = {"init", "token"}
    Ttl = 0
    MaxTime = 0
    MaxVersion = 1
    MaxLate = 0
INVARIANT TokenEnrolsOnce
CHECK_DEADLOCK FALSE
