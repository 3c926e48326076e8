\* A responder that meets three faults, or one replica of the bridge.
SPECIFICATION MCSpec
CONSTANTS
    ada = ada
    bob = bob
    cast = cast
    Unnamed = Unnamed
    Pilot = Pilot
    Requests <- MCRequests
    Configs <- MCConfigs
    StartsWith <- MCStartsWith
    MaxBackoff = 5
    MaxInbox = 1
    MaxFaults = 3
    MaxTime = 0
    Replicas = {r1}
    NodeIds = {n1, n2}
    Malformed = malformed
    Apps = {a1}
    MaxMicros = 5
    MaxMints = 4
INVARIANT TypeOK
INVARIANT VouchNamesRequester
INVARIANT IndependentlyRevocable
PROPERTY DirectAnswered
PROPERTY StopsWhenAsked
CHECK_DEADLOCK FALSE
