CONSTANTS
    c1 = c1
    c2 = c2
    Callers <- MCCallers
SPECIFICATION Spec
SYMMETRY MCSymmetry
PROPERTY
    SuccessOnlyIfAccepted
