SPECIFICATION Spec
CONSTANTS
    Requests = {r1, r2}
    Emails = {e1}
    Types <- AllTypes
    Migrations <- MigratedOrNot
    Faults <- AnyFault
    MaxFaults = 1
    MaxCrashes = 1
INVARIANTS
    LogoutFailsByIndexOnly
PROPERTIES
    EveryEventIsAnswered
    StoreSpec
    ConsumerSpec
