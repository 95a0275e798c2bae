SPECIFICATION Spec
CONSTANTS
    Callers = {c1}
    Main = main
    MaxOutages = 0
    MaxSignals = 1
INVARIANTS
    GracefulShutdown
CHECK_DEADLOCK FALSE
