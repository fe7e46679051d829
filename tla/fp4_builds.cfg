SPECIFICATION Spec
INVARIANTS
    OutputExact
    NoCopyBehindReader
