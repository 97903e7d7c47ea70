CONSTANTS
    Entries <- MCEntries
    Targets <- MCTargets
    Chunk = 1
    Retries = 2
    MaxWrites = 4
SPECIFICATION Spec
INVARIANT TypeOK
PROPERTIES GiveUpOnlyWhenEveryPairChanged QuietCallAnswersTable
