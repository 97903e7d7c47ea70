\* A handler resolving a handle while a reload moves GlobalID g2 onto host h1.
CONSTANTS
    g1 = g1
    g2 = g2
    h1 = h1
    h2 = h2
    GIDs <- MCGIDs
    Hosts <- MCHosts
    NoGID = NoGID
    BadEndpoint = BadEndpoint
    NilEntry = NilEntry
    NoArray = NoArray
    BadFile = BadFile
    Configs <- MCConfigsMove
    Readers = {r1}
    MaxEdits = 3
SPECIFICATION Spec
INVARIANT
    ResolvedAsSomePublished
