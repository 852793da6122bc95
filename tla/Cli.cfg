SPECIFICATION Spec
CONSTANTS
    FirstWidth = 4
    NextWidth = 2
    Words <- SomeWords
    Rdns <- SomeRdns
    Lower <- Lowered
    Shells <- SomeShells
    Cuts = {0, 8, 20}
CHECK_DEADLOCK FALSE
INVARIANTS TypeOK OutputHonest ReadBack
PROPERTY Ends
