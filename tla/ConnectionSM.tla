---------------------------- MODULE ConnectionSM ----------------------------
(***************************************************************************)
(* The statuses of an L2VPN connection and the moves between them.         *)
(*                                                                         *)
(* The controller asks ConnectionStateMachine, of the library              *)
(* sdx_datamodel, whether a move is allowed; an illegal one raises and the *)
(* caller abandons what it was doing.  The transition table is not in this *)
(* repository, so it is the parameter Legal, assumed only to contain the   *)
(* moves the code takes without a handler for their failure, and not to    *)
(* contain the move test_connection_state_machine.py:102-107 expects to be *)
(* refused.                                                                *)
(***************************************************************************)

CONSTANT Legal

Status ==
    { "REQUESTED", "REJECTED", "UNDER_PROVISIONING", "UP", "DOWN", "ERROR",
      "RECOVERING", "MODIFYING", "DELETED", "DISABLED", "MAINTENANCE" }

\* The moves the sources take on their main paths: placing a connection that
\* is new or being recovered, rejecting a new one, recording an OXP's answer,
\* recovering what is up, and patching it.
PlaceMoves == { "REQUESTED", "RECOVERING" } \X { "UNDER_PROVISIONING" }
RejectionMoves == { <<"REQUESTED", "REJECTED">> }
AnswerMoves ==
    { <<"UNDER_PROVISIONING", "UP">>, <<"UNDER_PROVISIONING", "DOWN">>,
      <<"MODIFYING", "DOWN">> }
FailureMoves == { <<"UP", "ERROR">>, <<"ERROR", "RECOVERING">> }
PatchMoves == { <<"UP", "MODIFYING">>, <<"MODIFYING", "DOWN">> }

Needed == PlaceMoves \cup RejectionMoves \cup AnswerMoves \cup FailureMoves \cup PatchMoves

ASSUME LegalAssumption ==
    /\ Legal \subseteq Status \X Status
    /\ Needed \subseteq Legal
    /\ <<"DOWN", "UP">> \notin Legal

\* connection_state_machine(): the transition to `to` succeeds.
CanMove(from, to) == <<from, to>> \in Legal

\* remove_connection(): removable_statuses.
Removable ==
    { "UP", "MODIFYING", "UNDER_PROVISIONING", "DOWN", "ERROR", "RECOVERING",
      "REQUESTED", "REJECTED" }
=============================================================================
