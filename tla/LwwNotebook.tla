---------------------------- MODULE LwwNotebook ----------------------------
(***************************************************************************)
(* What the vocabulary sync promises, without requests, cursors or         *)
(* transactions: an account's notebook is one last-write-wins register per *)
(* word, and a device's unsent edit stays with the device until that       *)
(* register holds a version stamped no earlier.                            *)
(***************************************************************************)
EXTENDS Naturals

CONSTANTS
  Devices,
  Words,
  Versions,   \* every version of a word, each with a stamp `at'
  NoVersion   \* the version stamped 0 that is not there

VARIABLES
  truth,  \* the account's version of each word
  draft   \* per device, the edits the account has not seen

Init ==
  /\ truth = [i \in Words |-> NoVersion]
  /\ draft = [d \in Devices |-> [i \in Words |-> NoVersion]]

\* The user writes a word on a device.
Write(d, i) ==
  /\ draft'[d][i] \in Versions
  /\ draft'[d][i].at > draft[d][i].at
  /\ draft' = [draft EXCEPT ![d][i] = draft'[d][i]]
  /\ UNCHANGED truth

\* The account takes in some versions at once, each a later one.
Advance ==
  /\ truth' \in [Words -> Versions]
  /\ truth' # truth
  /\ \A i \in Words : truth'[i] = truth[i] \/ truth'[i].at > truth[i].at
  /\ UNCHANGED draft

\* Drafts go only when the account has something at least as recent.
Settle(d) ==
  /\ \E S \in SUBSET Words :
       /\ \A i \in S : truth[i].at >= draft[d][i].at
       /\ draft' = [draft EXCEPT ![d] =
            [i \in Words |-> IF i \in S THEN NoVersion ELSE draft[d][i]]]
  /\ UNCHANGED truth

Next == Advance \/ \E d \in Devices : Settle(d) \/ \E i \in Words : Write(d, i)

Spec == Init /\ [][Next]_<<truth, draft>>
=============================================================================
