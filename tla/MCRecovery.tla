----------------------------- MODULE MCRecovery -----------------------------
(***************************************************************************)
(* Values of the parameters of Recovery for TLC.                           *)
(***************************************************************************)
EXTENDS Recovery

CONSTANTS s1, s2, g1, g2, l1, l2, p1, p2, p3

\* The least table and the move a failed recovery makes.
RecoveryLegal == Needed \cup { << "RECOVERING", "ERROR" >> }
MaxLegal == (Status \X Status) \ { << "DOWN", "UP" >> }

\* A direct path over one link, and a detour that shares a domain with it.
Direct == [ segs |-> {g1, g2}, links |-> {l1} ]
Detour == [ segs |-> {g1}, links |-> {l2} ]
TwoRoutes == { Direct, Detour }
Mixed == [ s \in Service |-> IF s = s1 THEN Direct ELSE Detour ]

\* They share a UNI port.
TwoEnds == [ s \in Service |-> IF s = s1 THEN {p1, p2} ELSE {p2, p3} ]

\* Any link may be lost or come back, and each port of s1 go down or up.
PortsOfS1 == { m \in Topology : p3 \in m.up }
=============================================================================
