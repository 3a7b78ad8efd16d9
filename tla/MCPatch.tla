------------------------------ MODULE MCPatch -------------------------------
(***************************************************************************)
(* Values of the parameters of Patch for TLC.                              *)
(***************************************************************************)
EXTENDS Patch

CONSTANTS g1, g2

\* The least table, and the move a failed recovery makes.
PatchLegal == Needed \cup { << "RECOVERING", "ERROR" >> }

\* The first request crosses one domain, the others two.
Growing == [ r \in Request |-> IF r = 0 THEN {g1} ELSE {g1, g2} ]
=============================================================================
