SPECIFICATION Spec
CONSTANTS
    MaxTroubles = 4
INVARIANTS
    TypeOK
    RolesOutliveUsers
    MigratedServiceIsComplete
PROPERTIES
    FailsOnlyOnOldData
    InterruptStops
