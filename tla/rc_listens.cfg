SPECIFICATION Spec
CONSTANTS
    Callers = {c1}
    Main = main
    MaxOutages = 1
    MaxSignals = 1
PROPERTIES
    ListensAgain
CHECK_DEADLOCK FALSE
