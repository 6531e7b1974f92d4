---------------------------- MODULE MCNativeGate ----------------------------
EXTENDS NativeGateProps, TLC
Symmetry == Permutations(Apps)
=============================================================================
