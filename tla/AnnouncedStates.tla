-------------------------- MODULE AnnouncedStates --------------------------
(***************************************************************************)
(* What the store says of deployments next to what users were told of      *)
(* them, and how the two go together.  Notifications is how both change.   *)
(***************************************************************************)
EXTENDS Naturals

CONSTANT Deployments  \* calls of create, each with a document of its own

VARIABLES
  doc,       \* state of each document
  announced  \* history: the notices for which notify was queued

LEVEL_FAILED == 1
LEVEL_FAILED_WARN == 2
LEVEL_SUCCESS == 3
LEVEL_STARTED == 4
LEVEL_PENDING == 5

\* No deployment is FAILED in the store without its failure being announced,
\* wherever _deployment_error_event was killed or failed.
FailuresAnnounced ==
  \A d \in Deployments : doc[d] = "FAILED" => <<d, LEVEL_FAILED>> \in announced

\* Nobody hears of a success that the store does not show, unless the
\* deployment failed after all (a redelivered _promote_success), and then the
\* failure is announced too before the document leaves PROMOTED.
SuccessStored ==
  \A d \in Deployments : <<d, LEVEL_SUCCESS>> \in announced =>
    \/ doc[d] = "PROMOTED"
    \/ doc[d] = "FAILED" /\ <<d, LEVEL_FAILED>> \in announced
=============================================================================
