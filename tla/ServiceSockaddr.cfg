SPECIFICATION Spec
CONSTANTS
    Short = 2
    Long = 3
    Lists <- ByteLists
    Starts <- SetStarts
    Data4 <- Contents4
    Data6 <- Contents6
    Lengths <- MaskLengths
    NewRanges <- Ranges
    MaxAdded = 1
    Ports <- PortNumbers
    Objects <- Addresses
    Items6 <- TextItems6
    Items4 <- TextItems4
    Masks <- MaskWords
CONSTRAINT Bounded
INVARIANT SockaddrIsCurrent
CHECK_DEADLOCK FALSE
