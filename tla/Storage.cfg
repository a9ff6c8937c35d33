\* Texts in base 3, so that the fourth entry has a key of two digits; two
\* lives, so that entries of the first lie behind those of the second.
SPECIFICATION Spec
CONSTANTS
    Node = {"a", "b"}
    Base = 3
    MaxLog = 4
    MaxTerm = 1
    MaxLives = 2
INVARIANT TypeOK
INVARIANT KeysContiguous
INVARIANT MemoryIsOnDisk
INVARIANT TermsOrdered
INVARIANT RestartRestores
