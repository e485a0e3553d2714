CONSTANTS
    good1 = good1
    good2 = good2
    bad = bad
    NoPayload = NoPayload
    Payloads <- WithBad
    Loads <- WithBad
    Translates <- OnePayload
    VrowCount = 1
    QuadBits = 2
    Quads = 1
    ThreadsMayFail = FALSE
CHECK_DEADLOCK FALSE
SPECIFICATION VrowSpec
PROPERTY CloseEmptiesStates
