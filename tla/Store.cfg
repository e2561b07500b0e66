SPECIFICATION FairSpec
CONSTANTS
    Client = {c1, c2}
    Blob = {b1, b2}
    Absent = Absent
    MaxAttempts = 3
INVARIANTS TypeOK OneLateAttempt
PROPERTIES ImplementsRegister CancelledReturns
