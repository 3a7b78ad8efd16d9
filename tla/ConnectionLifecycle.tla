------------------------ MODULE ConnectionLifecycle ------------------------
(***************************************************************************)
(* What a client of the API may rely on, whatever threads, documents and   *)
(* messages are behind it: the life of a connection as GET shows it.  A    *)
(* request is accepted, then provisioned or rejected; provisioning ends up *)
(* or down, once; a removed connection never comes back.                   *)
(***************************************************************************)
CONSTANT Service
VARIABLE life

Present == { "requested", "provisioning", "rejected", "up", "down" }

LifeOK == life \in [ Service -> Present \cup { "absent", "removed" } ]

Init == life = [ s \in Service |-> "absent" ]

Move(s, from, to) ==
    /\ life[s] = from
    /\ life' = [ life EXCEPT ![s] = to ]

Accept(s)  == Move(s, "absent", "requested")
Plan(s)     == Move(s, "requested", "provisioning")
Reject(s)   == Move(s, "requested", "rejected")
Complete(s) == Move(s, "provisioning", "up")
Break(s)    == Move(s, "provisioning", "down")
Remove(s)   == \E from \in Present : Move(s, from, "removed")

Next ==
    \E s \in Service :
        \/ Accept(s) \/ Plan(s) \/ Reject(s) \/ Complete(s) \/ Break(s) \/ Remove(s)

Spec == Init /\ [][Next]_life
=============================================================================
