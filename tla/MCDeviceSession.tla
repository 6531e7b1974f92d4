-------------------------- MODULE MCDeviceSession --------------------------
EXTENDS DeviceSessionProps, TLC

\* No action singles out an account or a word.
Symmetry == Permutations(Accounts) \cup Permutations(Words)
=============================================================================
