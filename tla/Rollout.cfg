SPECIFICATION Spec
CONSTANTS
    MaxMint = 2
    MaxGen = 2
    MaxDeploy = 3
    Absent = Absent
INVARIANTS TypeOK StaysEnabled RemovedStaysRemoved
PROPERTIES OffMeansUntouched DeployNeverReverts
CHECK_DEADLOCK FALSE
