SPECIFICATION FairSpec
CONSTANTS
    RDNs <- MCRDNs
    DNs <- DeepDNs
    Contexts <- OneContext
    MaxKeys = 3
CHECK_DEADLOCK FALSE
INVARIANTS TypeOK WaitsAwaited
PROPERTY WaitsEnd
