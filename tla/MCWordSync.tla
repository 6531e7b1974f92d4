---------------------------- MODULE MCWordSync ----------------------------
EXTENDS WordSyncProps, TLC

\* No action singles out a request slot or (with nothing foreign) a word; the
\* devices' clocks go unequally far.
SlotsAndWords == Permutations(Requests) \cup Permutations(Words)

\* A run may be interrupted anywhere, or anywhere but between the two
\* transactions that mark the pushed rows and merge the answer.
Anywhere == Phases \ {Idle}
OutsideMerge == Phases \ {Idle, "merge"}

\* How far the devices' clocks go: two writes on one device and one on the
\* others.
Uneven == LET first == CHOOSE d \in Devices : TRUE IN
          [d \in Devices |-> IF d = first THEN 2 ELSE 1]
=============================================================================
