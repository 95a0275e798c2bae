SPECIFICATION Spec
CONSTANTS
    Requests = {r1, r2}
    Operations <- LoginOnly
    MaxCrashes = 0
SYMMETRY RequestSymmetry
INVARIANTS
    AnswerIsOwn
