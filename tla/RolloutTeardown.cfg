SPECIFICATION Spec
CONSTANTS
    MaxMint = 2
    MaxGen = 2
    MaxDeploy = 3
    Absent = Absent
INVARIANT TornDown
CHECK_DEADLOCK FALSE
