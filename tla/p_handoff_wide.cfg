CONSTANT
    Configs <- WideBf16
SPECIFICATION Spec
PROPERTY
    ReadsStoredP
CHECK_DEADLOCK FALSE
