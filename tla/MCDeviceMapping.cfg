CONSTANTS
    v1 = v1
    v2 = v2
    d1 = d1
    d2 = d2
    Vols <- MCVols
    Devices <- MCDevices
SYMMETRY MCSymmetry
SPECIFICATION Spec
INVARIANT TypeOK
PROPERTIES MappingIsLastCreated
