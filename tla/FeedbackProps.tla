--------------------------- MODULE FeedbackProps ---------------------------
(***************************************************************************)
(* What is promised of feedback.                                           *)
(***************************************************************************)
EXTENDS Feedback

(***************************************************************************)
(* "Only a matching server acknowledgement changes the status": a report   *)
(* shown as received is stored under its author, with an update at least   *)
(* as new, and until then the device keeps all of it to send again - with  *)
(* answers lost, requests running on unattended, and reports discarded or  *)
(* accounts switched in the middle of a delivery.                          *)
(***************************************************************************)
ReceiptsAreReal ==
  \A r \in Reports :
    /\ outbox[r].state = "sent" =>
         report[r].owner = outbox[r].owner /\ outbox[r].edit <= report[r].edit
    /\ outbox[r].state = "queued" => outbox[r].attached

(***************************************************************************)
(* The reports on the screen are those of the account that is signed in,   *)
(* whatever lists were still awaited when it changed.                      *)
(***************************************************************************)
ShownBelong == \A r \in shown : outbox[r].owner = owner

(***************************************************************************)
(* An owner has at most PerOwner new reports within the hour, although a   *)
(* retry may meet the request it repeats, and an address at most PerIp     *)
(* attempts in a window of the counter.                                    *)
(***************************************************************************)
LimitsHold ==
  /\ \A o \in Owners :
       Cardinality({ r \in Stored : report[r].owner = o /\ report[r].recent })
         <= PerOwner
  /\ passed <= PerIp

(***************************************************************************)
(* The team's status and reply never go back to older ones on the device.  *)
(***************************************************************************)
NeverOlder ==
  [][ \A r \in Reports : outbox[r].state = "sent" => outbox'[r].edit >= outbox[r].edit
    ]_vars
=============================================================================
