------------------------------- MODULE Restart ------------------------------
(***************************************************************************)
(* What the controller keeps when it restarts.                             *)
(*                                                                         *)
(* The TE manager, with the topologies, the table of the VLANs in use and  *)
(* the solutions of the connections, is in memory.  The LC thread saves    *)
(* the topologies as they arrive and, when the controller starts, rebuilds *)
(* the TE manager from the store, before it takes any message.  POST and   *)
(* DELETE are served meanwhile.                                            *)
(*                                                                         *)
(* How a connection is provisioned is in Provisioning: here a POST, a      *)
(* refusal by an OXP and a DELETE are a step each.  What happens to a      *)
(* heartbeat is in Heartbeat: here the monitor only writes the register of *)
(* domains from its copy.  `hurt` records the known weaknesses that have   *)
(* struck.                                                                 *)
(***************************************************************************)
EXTENDS Integers, FiniteSets, Sequences, VlanRange, ConnectionView

CONSTANTS
    Domain,
    Service,
    Segments,       \* the segments of each connection: records [ dom, a, z ]
    Request,        \* the request of each connection: records [ form, a, z ]
    Metered,        \* the connections with qos_metrics
    Vlan,           \* the VLANs used
    Announced,      \* the ranges an OXP may announce for its ports
    MaxAnnounced, MaxRestarts,
    NoOne           \* a VLAN is free

VARIABLES
    \* The store.
    register,       \* collection DOMAINS: the domains listed
    topologies,     \* collection TOPOLOGIES: each domain's range, << >> if none
    latest,         \* LATEST_TOPOLOGY: each domain's range in it
    status,         \* collection CONNECTIONS: "none" if there is no document
    breakdown,      \* collection BREAKDOWNS: << >> if there is none
    solved,         \* collection SOLUTIONS
    \* The TE manager.
    range,          \* each domain's range, << >> if it has no topology
    table,          \* vlan_tags_table: who uses each VLAN of each port
    solutions,      \* connectionSolution_list
    \* The LC thread, and the monitor.
    lc, dict, base, copy,
    \* Bounds, and what has been announced.
    announcements, restarts, vouched, hurt

store == << register, topologies, latest >>
docs == << status, breakdown, solved >>
te == << range, table, solutions >>
threads == << lc, dict, base, copy >>
ghosts == << announcements, restarts, vouched, hurt >>
vars == << store, docs, te, threads, ghosts >>

NoRange == << >>
Range1 == { Sanitised(r, NoRange) : r \in Announced } \cup { NoRange }

Port == UNION { UNION { { Segments[s][i].a, Segments[s][i].z } :
                    i \in DOMAIN Segments[s] } : s \in Service }

AnySegment == UNION { { Segments[s][i] : i \in DOMAIN Segments[s] } : s \in Service }

ASSUME RestartAssumption ==
    /\ Segments \in [ Service -> Seq([ dom : Domain, a : Port, z : Port ]) ]
    /\ \A s \in Service : Segments[s] # << >>
    /\ Request \in [ Service -> [ form : { "1.0.0", "2.0.0" }, a : Port, z : Port ] ]
    /\ Metered \subseteq Service
    /\ Vlan \subseteq 1 .. MaxVlan
    /\ \A r \in Announced : \A i \in DOMAIN r : IsItem(r[i])
    /\ MaxAnnounced \in Nat /\ MaxRestarts \in Nat
    /\ NoOne \notin Service

\* The breakdown of s on a VLAN: the segments of the path the PCE finds, and
\* one VLAN for all their ends.
Breakdown(s, v) ==
    [ i \in DOMAIN Segments[s] |->
        [ dom |-> Segments[s][i].dom, a |-> Segments[s][i].a,
          z |-> Segments[s][i].z, vlan |-> v ] ]

PortsOf(s) == UNION { { Segments[s][i].a, Segments[s][i].z } : i \in DOMAIN Segments[s] }
DomainsOf(s) == { Segments[s][i].dom : i \in DOMAIN Segments[s] }

\* A path of the PCE joins the ports of the request.
ASSUME PathAssumption ==
    \A s \in Service : { Request[s].a, Request[s].z } \subseteq PortsOf(s)

VlanOf(s) == breakdown[s][1].vlan

NoTopology == [ d \in Domain |-> NoRange ]
AllFree == [ p \in Port |-> [ v \in Vlan |-> NoOne ] ]

\* The table when the VLANs v of the ports P are s's, and when s has none.
Taken(P, v, s) == [ p \in Port |-> IF p \in P THEN [ table[p] EXCEPT ![v] = s ] ELSE table[p] ]
Released(s) == [ p \in Port |-> [ v \in Vlan |-> IF table[p][v] = s THEN NoOne ELSE table[p][v] ] ]

Serving == [ pc |-> "serve" ]
Dead == [ pc |-> "dead" ]
Starting == [ pc |-> "topologies" ]

LcState ==
    { Serving, Dead, Starting } \cup
    [ pc : { "tags", "solutions" }, todo : SUBSET Service ] \cup
    [ pc : { "save" }, dom : Domain, said : Range1 ] \cup [ pc : { "latest" } ]

\* Every range the TE manager is given, or will be given after a restart, is
\* one it can use (_sanitize_vlan_ranges), and everything else has its type.
TypeOK ==
    /\ register \subseteq Domain /\ dict \subseteq Domain /\ copy \subseteq Domain
    /\ topologies \in [ Domain -> Range1 ] /\ latest \in [ Domain -> Range1 ]
    /\ range \in [ Domain -> Range1 ] /\ base \in [ Domain -> Range1 ]
    /\ \A d \in Domain : range[d] = NoRange \/ Usable(range[d])
    /\ status \in [ Service -> { "none", "UP", "DOWN", "REJECTED" } ]
    /\ DOMAIN breakdown = Service
    /\ \A s \in Service : breakdown[s] \in { << >> } \cup { Breakdown(s, v) : v \in Vlan }
    /\ table \in [ Port -> [ Vlan -> Service \cup {NoOne} ] ]
    /\ solutions \subseteq Service /\ solved \subseteq Service
    /\ lc \in LcState
    /\ announcements \in Nat /\ restarts \in Nat
    /\ vouched \in [ Domain -> SUBSET Vlan ]
    /\ hurt \subseteq { "overtaken", "stale", "unlisted", "unsaved" }

\* The controller has started with an empty store.
Init ==
    /\ register = {} /\ dict = {} /\ copy = {}
    /\ topologies = NoTopology /\ latest = NoTopology
    /\ range = NoTopology /\ base = NoTopology
    /\ status = [ s \in Service |-> "none" ]
    /\ breakdown = [ s \in Service |-> << >> ]
    /\ solved = {} /\ solutions = {}
    /\ table = AllFree
    /\ lc = Serving
    /\ announcements = 0 /\ restarts = 0
    /\ vouched = [ d \in Domain |-> {} ]
    /\ hurt = {}

(***************************************************************************)
(* The REST API.                                                           *)
(***************************************************************************)
Offered(d) == { v \in Vlan : range[d] # NoRange /\ Offers(range[d], v) }

\* The PCE finds a VLAN free on every port of the path.
Free(s) == { v \in Vlan : /\ \A p \in PortsOf(s) : table[p][v] = NoOne
                          /\ \A d \in DomainsOf(s) : v \in Offered(d) }

\* topology_db_update saves the topologies of the TE manager.
TopologiesSaved ==
    /\ topologies' = [ d \in Domain |-> IF range[d] # NoRange THEN range[d] ELSE topologies[d] ]
    /\ latest' = range

\* The table is not rebuilt, or not yet.
Loading == lc.pc \in { "topologies", "tags", "dead" }

\* A POST.  Its connection comes up; or publishing raises, and it is rejected
\* with its breakdown stored and its VLANs taken.
Post(s) ==
    /\ status[s] = "none"
    /\ \E v \in Free(s) :
           /\ breakdown' = [ breakdown EXCEPT ![s] = Breakdown(s, v) ]
           /\ table' = Taken(PortsOf(s), v, s)
    /\ solved' = solved \cup {s} /\ solutions' = solutions \cup {s}
    /\ \/ /\ status' = [ status EXCEPT ![s] = "UP" ]
          /\ TopologiesSaved
       \/ /\ status' = [ status EXCEPT ![s] = "REJECTED" ]
          /\ UNCHANGED << topologies, latest >>
    /\ hurt' = IF Loading THEN hurt \cup {"overtaken"} ELSE hurt
    /\ UNCHANGED << register, range, threads, announcements, restarts, vouched >>

\* An OXP refuses its segment: the PCE forgets the connection, the documents
\* stay (cleanup_partial_connection).
Refuse(s) ==
    /\ status[s] = "UP"
    /\ status' = [ status EXCEPT ![s] = "DOWN" ]
    /\ table' = Released(s)
    /\ solutions' = solutions \ {s}
    /\ UNCHANGED << store, breakdown, solved, range, threads, ghosts >>

Delete(s) ==
    /\ status[s] # "none"
    /\ status' = [ status EXCEPT ![s] = "none" ]
    /\ breakdown' = [ breakdown EXCEPT ![s] = << >> ]
    /\ table' = Released(s)
    /\ solutions' = solutions \ {s}
    /\ UNCHANGED << store, solved, range, threads, ghosts >>

(***************************************************************************)
(* The LC thread on a topology: process_lc_json_msg.                       *)
(***************************************************************************)
VlansOf(r) == { v \in Vlan : Offers(r, v) }

\* Mutant of Accepted: the default range is used whatever there was.
MutAccepted(r, d) == Sanitised(r, NoRange)

\* The ranges of the topology the controller has started with stand for
\* invalid ones: latest_topo is not read again.
Accepted(r, d) == Sanitised(r, base[d])

TakeTopology(d, r) ==
    /\ lc = Serving
    /\ announcements < MaxAnnounced
    /\ announcements' = announcements + 1
    /\ range' = [ range EXCEPT ![d] = Accepted(r, d) ]
    /\ dict' = dict \cup {d}
    /\ register' = IF d \in dict THEN register ELSE dict'
    /\ lc' = [ pc |-> "save", dom |-> d, said |-> Accepted(r, d) ]
    /\ vouched' = [ vouched EXCEPT ![d] = @ \cup
                      IF Valid(r) \/ base[d] = NoRange THEN VlansOf(Accepted(r, d)) ELSE {} ]
    /\ UNCHANGED << topologies, latest, docs, table, solutions, base, copy, restarts, hurt >>

SaveTopology ==
    /\ lc.pc = "save"
    /\ topologies' = [ topologies EXCEPT ![lc.dom] = lc.said ]
    /\ lc' = [ pc |-> "latest" ]
    /\ UNCHANGED << register, latest, docs, te, dict, base, copy, ghosts >>

SaveLatest ==
    /\ lc.pc = "latest"
    /\ latest' = range
    /\ lc' = Serving
    /\ UNCHANGED << register, topologies, docs, te, dict, base, copy, ghosts >>

(***************************************************************************)
(* HeartbeatMonitor.check_status writes the register from a copy, which a  *)
(* domain may have joined since (see Heartbeat).                           *)
(***************************************************************************)
MonitorRead ==
    /\ copy = {}
    /\ copy' = register
    /\ UNCHANGED << store, docs, te, lc, dict, base, ghosts >>

MonitorWrite ==
    /\ copy # {}
    /\ register' = copy
    /\ copy' = {}
    /\ hurt' = IF register \subseteq copy THEN hurt ELSE hurt \cup {"unlisted"}
    /\ UNCHANGED << topologies, latest, docs, te, lc, dict, base,
                    announcements, restarts, vouched >>

(***************************************************************************)
(* The controller stops, at any time, and starts.                          *)
(***************************************************************************)
Crash ==
    /\ restarts < MaxRestarts
    /\ restarts' = restarts + 1
    /\ range' = NoTopology /\ table' = AllFree /\ solutions' = {}
    /\ dict' = register /\ base' = latest /\ copy' = {}
    /\ lc' = IF register = {} THEN Serving ELSE Starting
    /\ hurt' = IF lc.pc = "save" THEN hurt \cup {"unsaved"} ELSE hurt
    /\ UNCHANGED << store, docs, announcements, vouched >>

Stored == { s \in Service : status[s] # "none" }

LoadTopologies ==
    /\ lc = Starting
    /\ range' = [ d \in Domain |-> IF d \in dict THEN topologies[d] ELSE range[d] ]
    /\ lc' = [ pc |-> "tags", todo |-> Stored ]
    /\ UNCHANGED << store, docs, table, solutions, dict, base, copy, ghosts >>

Done(s) == lc' = [ lc EXCEPT !.todo = @ \ {s} ]

\* The segments of s whose VLANs are recovered: up to the first whose domain
\* has no table.
Recoverable(s) ==
    { i \in DOMAIN Segments[s] : \A j \in 1 .. i : range[Segments[s][j].dom] # NoRange }

RecoveredPorts(s) == UNION { { Segments[s][i].a, Segments[s][i].z } : i \in Recoverable(s) }

\* Mutant of LoadTags: the VLANs of the first segment only are recovered.
MutLoadTags(s) ==
    /\ lc.pc = "tags" /\ s \in lc.todo
    /\ Done(s)
    /\ table' = IF breakdown[s] # << >>
                THEN Taken({ Segments[s][1].a, Segments[s][1].z }, VlanOf(s), s) ELSE table
    /\ UNCHANGED << store, docs, range, solutions, dict, base, copy, ghosts >>

\* The VLANs of a connection are recovered, whatever its status.  One whose
\* domain has no table ends the thread.
LoadTags(s) ==
    /\ lc.pc = "tags" /\ s \in lc.todo
    /\ IF breakdown[s] = << >>
       THEN Done(s) /\ UNCHANGED << table, hurt >>
       ELSE /\ table' = Taken(RecoveredPorts(s), VlanOf(s), s)
            /\ IF Recoverable(s) = DOMAIN Segments[s] THEN Done(s) ELSE lc' = Dead
            /\ hurt' = IF status[s] = "UP" THEN hurt ELSE hurt \cup {"stale"}
    /\ UNCHANGED << store, docs, range, solutions, dict, base, copy,
                    announcements, restarts, vouched >>

TagsLoaded ==
    /\ lc.pc = "tags" /\ lc.todo = {}
    /\ lc' = [ pc |-> "solutions", todo |-> Stored ]
    /\ UNCHANGED << store, docs, te, dict, base, copy, ghosts >>

\* Mutant of LoadSolution: that GET may answer nothing is not looked at.
MutLoadSolution(s) ==
    /\ lc.pc = "solutions" /\ s \in lc.todo
    /\ IF View(status[s], Request[s], breakdown[s]) = NotFound
       THEN lc' = Dead /\ UNCHANGED solutions
       ELSE solutions' = solutions \cup {s} /\ Done(s)
    /\ UNCHANGED << store, docs, range, table, dict, base, copy, ghosts >>

\* The solution of a connection with qos_metrics is recovered: with those of
\* the connections that GET does not answer, the others are passed over.
LoadSolution(s) ==
    /\ lc.pc = "solutions" /\ s \in lc.todo
    /\ IF s \in Metered \cap solved /\ View(status[s], Request[s], breakdown[s]) # NotFound
       THEN IF \A d \in DomainsOf(s) : range[d] # NoRange
            THEN solutions' = solutions \cup {s} /\ Done(s)
            ELSE lc' = Dead /\ UNCHANGED solutions
       ELSE Done(s) /\ UNCHANGED solutions
    /\ UNCHANGED << store, docs, range, table, dict, base, copy, ghosts >>

SolutionsLoaded ==
    /\ lc.pc = "solutions" /\ lc.todo = {}
    /\ lc' = Serving
    /\ UNCHANGED << store, docs, te, dict, base, copy, ghosts >>

Load ==
    \/ LoadTopologies \/ TagsLoaded \/ SolutionsLoaded
    \/ \E s \in Service : LoadTags(s) \/ LoadSolution(s)

-----------------------------------------------------------------------------
Next ==
    \/ \E s \in Service : Post(s) \/ Refuse(s) \/ Delete(s)
    \/ \E d \in Domain, r \in Announced : TakeTopology(d, r)
    \/ SaveTopology \/ SaveLatest
    \/ MonitorRead \/ MonitorWrite
    \/ Crash \/ Load

Spec == Init /\ [][Next]_vars

\* The LC thread runs.
FairSpec == Spec /\ WF_vars(Load) /\ WF_vars(SaveTopology) /\ WF_vars(SaveLatest)

-----------------------------------------------------------------------------
(***************************************************************************)
(* Properties.                                                             *)
(***************************************************************************)
Unhurt(W) == hurt \cap W = {}

\* Two connections that are up never use one VLAN of a port, though the table
\* that tells them apart has been lost and rebuilt in between.
NoSharedVlan ==
    Unhurt({"overtaken", "stale"}) =>
        \A s, t \in Service :
            s # t /\ status[s] = "UP" /\ status[t] = "UP" /\ VlanOf(s) = VlanOf(t) =>
                PortsOf(s) \cap PortsOf(t) = {}

\* Once the LC thread serves again, a connection that is up holds in the TE
\* manager all its VLANs and, if it is metered, its solution.
UpIsHeld ==
    lc.pc \in { "serve", "save", "latest" } /\ Unhurt({"overtaken", "stale"}) =>
        \A s \in Service : status[s] = "UP" =>
            /\ \A p \in PortsOf(s) : table[p][VlanOf(s)] = s
            /\ s \in Metered => s \in solutions

\* An invalid range never makes a port offer a VLAN that no valid one has
\* offered, unless nothing was known of the port when the controller started.
NothingInvented == \A d \in Domain : Offered(d) \subseteq vouched[d]

\* GET shows both ends of a connection that is up, each once and with the VLAN
\* the user is to use, if the request is of specification 2.0.0.
BothEndsShown ==
    \A s \in Service : status[s] = "UP" /\ Request[s].form = "2.0.0" =>
        LET shown == View(status[s], Request[s], breakdown[s]).endpoints IN
        /\ { e.port : e \in shown } = { Request[s].a, Request[s].z }
        /\ \A e \in shown : table[e.port][e.vlan] = s \/ lc.pc # "serve" \/ ~ Unhurt({"overtaken", "stale"})

\* After a restart the LC thread comes to serve again.
ServesAgain ==
    lc = Starting ~> lc = Serving \/ ~ Unhurt({"unlisted", "unsaved"})
=============================================================================
