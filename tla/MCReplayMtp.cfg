SPECIFICATION Spec
CONSTANTS
    None = None
    Cap = 2
    Shapes <- TwoTokenShapes
    Options <- Verify
    MaxRequests = 2
    MaxFaults = 0
INVARIANTS
    VerifiesOwnState
