CONSTANTS
    good1 = good1
    good2 = good2
    bad = bad
    NoPayload = NoPayload
    Payloads <- WithBad
    Loads <- WithBad
    Translates <- OnePayload
    VrowCount = 2
    QuadBits = 2
    Quads = 1
    ThreadsMayFail = TRUE
CHECK_DEADLOCK FALSE
SPECIFICATION VrowSpec
INVARIANTS VrowTypeOK RunningIsNotEmpty NoUseAfterFree BankZeroExclusive BusyIsTaken OneJobAtATime LoadSpinsOnlyOnFailure
PROPERTIES DeleteHangsOnlyOnFailure
