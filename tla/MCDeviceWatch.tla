--------------------------- MODULE MCDeviceWatch ---------------------------
EXTENDS DeviceWatch, TLC

Symmetry == Permutations(Managers) \cup Permutations(Instances) \cup Permutations(Attempts)
=============================================================================
