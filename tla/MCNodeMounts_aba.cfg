CONSTANTS
    Entries <- MCEntries
    Targets <- MCTargets
    Chunk = 1
    Retries = 1
    MaxWrites = 6
SPECIFICATION Spec
PROPERTIES SnapshotReturned
