----------------------------- MODULE MCRestart ------------------------------
(***************************************************************************)
(* Values of the parameters of Restart for TLC.                            *)
(***************************************************************************)
EXTENDS Restart

CONSTANTS d1, d2, s1, s2

\* Two connections between the same UNI ports, across two domains.
Across ==
    [ s \in Service |->
        << [ dom |-> d1, a |-> "u1", z |-> "x1" ], [ dom |-> d2, a |-> "x2", z |-> "u2" ] >> ]

BothForms ==
    [ s \in Service |->
        [ form |-> IF s = s1 THEN "2.0.0" ELSE "1.0.0", a |-> "u1", z |-> "u2" ] ]

\* A pair that is too long by one, and a text such as "x-1", which is read as
\* the VLAN 1.
TwoRanges == { << Pair(1, MaxVlan + 1) >>, << Text(<< Word, 1 >>) >> }
=============================================================================
