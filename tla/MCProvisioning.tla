--------------------------- MODULE MCProvisioning ---------------------------
(***************************************************************************)
(* Values of the parameters of Provisioning for TLC.                       *)
(***************************************************************************)
EXTENDS ProvisioningInv

\* The least and the most permissive transition tables the assumption allows.
MinLegal == Needed
MaxLegal == (Status \X Status) \ { << "DOWN", "UP" >> }

CONSTANTS g1, g2, d1, d2

OneSegment == { g1 }
TwoSegments == { g1, g2 }
OwnDomains == [ g \in Segment |-> IF g = g1 THEN d1 ELSE d2 ]
=============================================================================
