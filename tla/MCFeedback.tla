----------------------------- MODULE MCFeedback -----------------------------
EXTENDS FeedbackProps, TLC

Symmetry == Permutations(Owners) \cup Permutations(Requests)
=============================================================================
