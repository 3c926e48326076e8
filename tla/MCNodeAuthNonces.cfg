\* More capabilities than seconds before a restart.
SPECIFICATION MCSpec
CONSTANTS
    ada = ada
    bob = bob
    cast = cast
    Unnamed = Unnamed
    Pilot = Pilot
    Requests <- NonceRequests
    Configs <- NonceConfigs
    StartsWith <- MCStartsWith
    MaxBackoff = 5
    MaxInbox = 1
    MaxFaults = 2
    MaxTime = 1
    Replicas = {}
    NodeIds = {}
    Malformed = malformed
    Apps = {}
    MaxMicros = 0
    MaxMints = 0
INVARIANT NoncesFresh
CHECK_DEADLOCK FALSE
