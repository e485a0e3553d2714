CONSTANTS
    GuestRegs <- Guests
    HostRegs <- Hosts
    Role <- GuestRole
    Pool <- HostPool
    Frags = 3
    FragInstrs = 2
    LiveBits = 1
    IrCapacity = 12
    Programs <- Decodings
    Sources <- Codes
    Apply <- Mixed
    Start <- Sevens
SPECIFICATION MeaningSpec
INVARIANTS TblockTypeOK IrBufferSuffices EmitsStartFresh LiveIsUsed SpillsAreDistinct ExclusiveWhereFresh NoAssertionFires CleanCodeIsRight
