\* A reload of a config whose array list has a null element.
CONSTANTS
    g1 = g1
    g2 = g2
    h1 = h1
    h2 = h2
    GIDs <- MCGIDs
    Hosts <- MCHosts
    NoGID = NoGID
    BadEndpoint = BadEndpoint
    NilEntry = NilEntry
    NoArray = NoArray
    BadFile = BadFile
    Configs <- MCConfigsNil
    Readers = {r1}
    MaxEdits = 3
SPECIFICATION Spec
INVARIANT
    AllConfiguredArraysLoaded
