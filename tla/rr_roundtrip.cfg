SPECIFICATION Spec
CONSTANTS
    Requests = {r1, r2}
    Operations <- ThreeOperations
    MaxCrashes = 1
INVARIANTS
    TypeOK
    AnswerSameOperation
    NoEventLost
PROPERTIES
    EveryRequestEnds
    AcceptedIsHandled
    ContractSpec
    ConsumerSpec
