\* Reloads of well-formed and malformed configs with one concurrent handler.
CONSTANTS
    g1 = g1
    g2 = g2
    h1 = h1
    h2 = h2
    GIDs <- MCGIDs
    Hosts <- MCHosts
    NoGID = NoGID
    BadEndpoint = BadEndpoint
    NilEntry = NilEntry
    NoArray = NoArray
    BadFile = BadFile
    Configs <- MCConfigsGood
    Readers = {r1}
    MaxEdits = 3
SPECIFICATION Spec
INVARIANTS
    TypeOK
    RegistryMatchesLastGoodConfig
    DefaultSetWhenArraysLoaded
PROPERTIES
    EventuallyReflectsFile
    ImplementsConfigRegistry
