SPECIFICATION BuilderSpec
CONSTANTS
    Typed <- SomeTyped
    RawTexts <- SomeTexts
    MaxRows = 3
    MaxEscapes = 2
CHECK_DEADLOCK FALSE
INVARIANTS BuilderTypeOK OutputFaithful
PROPERTY EditKeeps
