SPECIFICATION Spec
CONSTANTS
    Requests = {r1, r2}
    Emails = {e1, e2}
    Types <- Accounts
    Migrations <- MigratedOrNot
    Faults <- AnyFault
    MaxFaults = 2
    MaxCrashes = 2
SYMMETRY DataSymmetry
INVARIANTS
    TypeOK
    RolesResolve
    AvatarExists
    NoLeftoverFiles
    SuccessIsDurable
    FailureIsTruthful
    OneAccountPerEmail
    DeliveredInOrder
