CONSTANTS
    c1 = c1
    c2 = c2
    Callers <- MCCallers
    States <- MCStates
    ReqActions <- MCReqActions
    GIDCases <- MCGIDCases
SPECIFICATION Spec
SYMMETRY MCSymmetry
PROPERTIES
    ImplementsReplicationSession
