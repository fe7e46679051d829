CONSTANT
    Configs <- ShippedAndSwept
SPECIFICATION Spec
INVARIANT
    TypeOK
PROPERTIES
    ReadsStoredP
    AllMultiplied
CHECK_DEADLOCK FALSE
