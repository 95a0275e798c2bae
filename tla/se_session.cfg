SPECIFICATION Spec
CONSTANTS
    Requests = {q1, q2}
    Users = {u1}
    Life = 1
    MaxTime = 2
INVARIANTS
    TypeOK
    RecordOutlivesToken
    RecordsAreHeld
PROPERTIES
    RefusedOnlyWhenExpired
    RequestsEnd
