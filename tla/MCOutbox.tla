------------------------------ MODULE MCOutbox ------------------------------
EXTENDS OutboxProps, TLC
Symmetry == Permutations(Workers) \cup Permutations(Consumers)
=============================================================================
