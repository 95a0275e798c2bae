SPECIFICATION Spec
CONSTANTS
    Requests = {r1, r2, r3}
    Operations <- LoginOnly
    MaxCrashes = 0
SYMMETRY RequestSymmetry
INVARIANTS
    DeafOnlyByPeer
    QueueOutlivesOnlyFailedSetup
    OrphansNeedThree
