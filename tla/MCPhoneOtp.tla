----------------------------- MODULE MCPhoneOtp -----------------------------
EXTENDS PhoneOtpProps, TLC

Symmetry == Permutations(Challenges) \cup Permutations(Calls)

\* Every account has the first phone.
FirstPhone == [u \in Users |-> CHOOSE p \in Phones : TRUE]
=============================================================================
