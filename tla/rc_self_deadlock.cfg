SPECIFICATION Spec
CONSTANTS
    Callers = {c1, c2}
    Main = main
    MaxOutages = 1
    MaxSignals = 1
SYMMETRY CallerSymmetry
INVARIANTS
    NobodyWaitsForItself
CHECK_DEADLOCK FALSE
