CONSTANTS
    p1 = p1
    p2 = p2
    x1 = x1
    x2 = x2
    x3 = x3
    NoPayload = NoPayload
    Producers <- TwoClients
    Payloads <- TwoPayloads
    Loads <- AllLoads
    Translates <- TwoPayloads
    ClassOf <- BothHigh
    Perc <- DefaultPerc
    VrowCount = 1
    QuadBits = 64
    Quads = 1
    ThreadsMayFail = FALSE
CHECK_DEADLOCK FALSE
SPECIFICATION SchedSpec
PROPERTY PushIsProcessed
