SPECIFICATION Spec
INVARIANTS
    FormatWWPNIsColonPairs
    NodeOptionsComplete
    StagingPathBelowIffDescends
    FormatNamesSourceOnce
