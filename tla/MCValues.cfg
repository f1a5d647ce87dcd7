SPECIFICATION Spec
CONSTANTS
    Short = 2
    Long = 3
    Lists <- ByteLists
    Starts <- SetStarts
    Data4 <- Contents4
    Data6 <- Contents6
    Lengths <- MaskLengths
    NewRanges <- Ranges
    MaxAdded = 2
    Ports <- PortNumbers
    Objects <- Addresses
    Items6 <- TextItems6
    Items4 <- TextItems4
    Masks <- MaskWords
CONSTRAINT Bounded
INVARIANTS
    ComputesOnNumbers
    MembershipIsPrefix
    EqualityIsConversion
    ReadsTheNotation
    WritesWhatItReads
PROPERTIES
    AddedRangeIsLocal
CHECK_DEADLOCK FALSE
