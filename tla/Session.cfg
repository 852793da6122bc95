SPECIFICATION FairSpec
CONSTANTS
    Clients = {c1, c2}
    Writes = {}
    Profiles = {ro}
    ReadOnlyProfiles = {ro}
    Referral = referral
    None = none
    MaxRecords = 1
    MaxPending = 1
    Keys = {"connectRequest", "disconnect", "follow", "openSchema", "needSchema", "addEntry", "formCancel", "back", "openRootDSE", "goto", "cancelPrompt", "quit"}
CHECK_DEADLOCK FALSE
INVARIANTS NoLeakedConnection SessionCoherent OneSchemaLoad CrashNeedsClose
PROPERTY AttemptsSettle
