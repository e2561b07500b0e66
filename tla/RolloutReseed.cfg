SPECIFICATION Spec
CONSTANTS
    MaxMint = 2
    MaxGen = 2
    MaxDeploy = 3
    Absent = Absent
INVARIANT ReseedTakesEffect
CHECK_DEADLOCK FALSE
