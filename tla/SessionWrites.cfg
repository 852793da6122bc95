SPECIFICATION FairSpec
CONSTANTS
    Clients = {c1, c2}
    Writes = {w1}
    Profiles = {rw, ro}
    ReadOnlyProfiles = {ro}
    Referral = referral
    None = none
    MaxRecords = 2
    MaxPending = 1
    Keys = {"connectRequest", "disconnect", "modDN", "formCancel"}
CHECK_DEADLOCK FALSE
INVARIANTS TypeOK ReadOnlyProfileNeverWritten
PROPERTIES ConfirmedWritesEnd
