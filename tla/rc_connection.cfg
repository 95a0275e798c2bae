SPECIFICATION Spec
CONSTANTS
    Callers = {c1, c2}
    Main = main
    MaxOutages = 3
    MaxSignals = 1
INVARIANTS
    TypeOK
    CriticalSections
    OnlyLossBlocks
    LostOnlySinceDeclare
    CloseAfterDrain
PROPERTIES
    BlockedForGood
    CallsReturn
    EventuallyServes
CHECK_DEADLOCK FALSE
