-------------------------- MODULE PatchTransaction --------------------------
(***************************************************************************)
(* What a user may rely on who replaces the request of a connection: a     *)
(* PATCH is a transaction.  While it is open the previous request is the   *)
(* agreed one; it ends with its own request agreed and provisioned, or     *)
(* with the previous one agreed, and never with any other.  Only an open   *)
(* transaction takes a connection down.                                    *)
(***************************************************************************)
EXTENDS Naturals

VARIABLES
    agreed,     \* the request in force
    asked,      \* the request of the last PATCH
    open,       \* whether it is still undecided
    shown,      \* the request shown as up, if there is one
    told,       \* the answer to the last PATCH
    broken      \* nothing is promised any more

vars == << agreed, asked, open, shown, told, broken >>

Init ==
    /\ agreed = 0 /\ asked = 0 /\ shown = {0}
    /\ ~ open /\ told = "none" /\ ~ broken

Ask ==
    /\ ~ open /\ shown = {agreed}
    /\ asked' = asked + 1 /\ open' = TRUE /\ told' = "none"
    /\ UNCHANGED << agreed, shown >>

Hide ==
    /\ open
    /\ shown' = {}
    /\ UNCHANGED << agreed, asked, open, told >>

Show ==
    /\ shown = {} /\ shown' = {agreed}
    /\ UNCHANGED << agreed, asked, open, told >>

Commit ==
    /\ open /\ shown = {}
    /\ open' = FALSE /\ agreed' = asked /\ shown' = {asked}
    /\ UNCHANGED << asked, told >>

Abort ==
    /\ open /\ shown = {}
    /\ open' = FALSE
    /\ UNCHANGED << agreed, asked, shown, told >>

\* The answer is true when it is given.
Tell ==
    /\ \/ told' = "up" /\ ~ open /\ agreed = asked /\ shown = {asked}
       \/ told' = "undone" /\ ~ open /\ agreed # asked /\ shown = {agreed}
       \/ told' = "failed" /\ ~ open /\ agreed # asked
       \/ told' = "provisioning" /\ shown = {}
    /\ UNCHANGED << agreed, asked, open, shown >>

Fail == broken'

Next ==
    \/ ~ broken /\ ~ broken' /\ (Ask \/ Hide \/ Show \/ Commit \/ Abort \/ Tell)
    \/ Fail

Spec == Init /\ [][Next]_vars
=============================================================================
