SPECIFICATION Spec
CONSTANTS
    Requests = {r1, r2}
    Emails = {e1}
    Types <- Sessions
    Migrations <- MigratedOnly
    Faults <- NoFault
    MaxFaults = 0
    MaxCrashes = 0
SYMMETRY DataSymmetry
INVARIANTS
    LogoutSucceeds
