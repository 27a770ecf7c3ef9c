CONSTANTS
    ByteBits = 3
    WSize = 2
    MaxSeq = 11
    MaxCount = 7
    Cycseq = FALSE
SPECIFICATION Spec
INVARIANTS WindowExact
PROPERTY AcceptedOnce
