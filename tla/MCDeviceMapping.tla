--------------------------- MODULE MCDeviceMapping --------------------------
EXTENDS DeviceMapping, TLC

CONSTANTS v1, v2, d1, d2
MCVols == {v1, v2}
MCDevices == {d1, d2}
MCSymmetry == Permutations(MCVols) \cup Permutations(MCDevices)
=============================================================================
