SPECIFICATION Spec
CONSTANTS
    Lower <- LowerWord
    Stem <- StemWord
    SupSteps = 2
    Servers <- SomeServers
    Parents <- SomeParents
    RDNs <- SomeRDNs
    ClassLists <- SomeClasses
    Picks <- SomePicks
    Extras <- SomeExtras
    MaxInbox = 1
CONSTRAINT Opens
INVARIANTS TypeOK FieldsFollow
PROPERTIES TypedStays SchemaHonoured
