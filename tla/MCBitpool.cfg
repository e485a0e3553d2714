CONSTANTS
    p1 = p1
    p2 = p2
    x1 = x1
    x2 = x2
    x3 = x3
    x4 = x4
    x5 = x5
    x6 = x6
    NoPayload = NoPayload
    Producers <- TwoProducers
    Payloads <- Mixed
    ClassOf <- MixedClass
    Perc <- Default
    QuadBits = 64
    Quads = 1
SPECIFICATION QueueSpec
CHECK_DEADLOCK FALSE
INVARIANTS QueueTypeOK PresenceNeverUnderflows PresenceWithinPushes NoForgottenBit PopsFromItsRange
