------------------------------ MODULE Recovery ------------------------------
(***************************************************************************)
(* What the LC thread does when an OXP's topology loses links or its UNI   *)
(* ports change: connections on a lost link are removed and placed again,  *)
(* connections on a port follow the port.                                  *)
(*                                                                         *)
(* The connections were placed before; POST, DELETE, PATCH and the timeout *)
(* monitor are quiet, so the LC thread is the only writer of the documents *)
(* and one message, or one connection of a topology message, is handled in *)
(* a step or two.  What interleaves with it are the OXPs: they carry out   *)
(* orders, answer, and publish topologies whenever they like, also while   *)
(* an earlier recovery is not finished.                                    *)
(*                                                                         *)
(* A few known weaknesses of the code would falsify every property of a    *)
(* connection.  `hurt` records which of them has hit it, and a property    *)
(* excuses only those it names.                                            *)
(***************************************************************************)
EXTENDS Integers, FiniteSets, Sequences, ConnectionSM

CONSTANTS
    Service,        \* connection ids
    Segment,        \* keys of breakdowns, one per OXP domain
    Link,           \* links between domains
    Route,          \* what the PCE may answer: records [ segs, links ]
    FirstRoute,     \* the route each connection was placed on
    Port,           \* UNI ports
    Ends,           \* the UNI ports of each connection
    Stubborn,       \* where the OXP may fail to remove an EVC
    Reported,       \* the topologies the OXPs may publish
    MaxChanges      \* how many of them they do

VARIABLES
    conns,       \* collection CONNECTIONS
    breakdowns,  \* collection BREAKDOWNS; {} when absent
    solutions,   \* collection SOLUTIONS: the links of a connection's path
    index,       \* LINK_CONNECTIONS_DICT: the links a connection is listed on
    listed,      \* PORT_CONNECTIONS_DICT: both its UNI ports list it
    reserved,    \* the PCE holds resources for it
    topo,        \* the topology the TE manager has
    toLC,        \* orders published, a queue per domain
    inbox,       \* the queue of the LC thread
    evcs,        \* the EVCs at the OXPs
    net,         \* the topology as the OXPs last published it
    changes,     \* how many they have published
    attempt,     \* how many times each connection has been placed
    lc,          \* the LC thread
    hurt         \* which known weakness has hit a connection

vars == << conns, breakdowns, solutions, index, listed, reserved, topo, toLC,
           inbox, evcs, net, changes, attempt, lc, hurt >>

docs == << conns, breakdowns, solutions, index, listed, reserved >>
oxps == << evcs, net, changes >>

(***************************************************************************)
(* An EVC's id is the number of the placement that asked for it; 0 is no   *)
(* id.  A topology is the set of lost links and the set of UNI ports that  *)
(* are up.                                                                 *)
(***************************************************************************)
Id == Nat

Conn ==
    [ status : Status, count : Nat, evc : [ Segment -> Id ],
      partial : BOOLEAN, late : SUBSET Segment ]

Order == [ op : {"post", "delete"}, sid : Service, id : Id ]
Answer == [ op : {"post", "delete"}, sid : Service, seg : Segment, id : Id, ok : BOOLEAN ]
Topology == [ lost : SUBSET Link, up : SUBSET Port ]
Weakness == { "publish", "port", "oneEnd", "skipped", "aborted", "undeleted" }

Idle == [ pc |-> "idle" ]

ASSUME RecoveryAssumption ==
    /\ IsFiniteSet(Segment)
    /\ Route \subseteq [ segs : (SUBSET Segment) \ {{}}, links : SUBSET Link ]
    /\ FirstRoute \in [ Service -> Route ]
    /\ Ends \in [ Service -> SUBSET Port ]
    /\ Stubborn \subseteq Segment
    /\ Reported \subseteq Topology
    /\ MaxChanges \in Nat

LcState ==
    { Idle } \cup
    [ pc : { "links" }, todo : SUBSET Service, was : Topology ] \cup
    [ pc : { "place" }, sid : Service, todo : SUBSET Service, was : Topology ]

TypeOK ==
    /\ conns \in [ Service -> Conn ]
    /\ breakdowns \in [ Service -> SUBSET Segment ]
    /\ solutions \in [ Service -> SUBSET Link ]
    /\ index \in [ Service -> SUBSET Link ]
    /\ listed \in [ Service -> BOOLEAN ]
    /\ reserved \in [ Service -> BOOLEAN ]
    /\ topo \in Topology
    /\ toLC \in [ Segment -> Seq(Order) ]
    /\ inbox \in Seq(Answer \cup Topology)
    /\ evcs \in [ Service -> SUBSET (Segment \X Id) ]
    /\ net \in Topology
    /\ changes \in Nat
    /\ attempt \in [ Service -> Nat ]
    /\ lc \in LcState
    /\ hurt \in [ Service -> SUBSET Weakness ]

NoIds == [ g \in Segment |-> 0 ]
Ids(B, n) == [ g \in Segment |-> IF g \in B THEN n ELSE 0 ]

\* Every connection has been provisioned by a POST and is up.
Init ==
    /\ conns = [ s \in Service |->
                   [ status |-> "UP", count |-> Cardinality(FirstRoute[s].segs),
                     evc |-> Ids(FirstRoute[s].segs, 1), partial |-> FALSE, late |-> {} ] ]
    /\ breakdowns = [ s \in Service |-> FirstRoute[s].segs ]
    /\ solutions = [ s \in Service |-> FirstRoute[s].links ]
    /\ index = [ s \in Service |-> FirstRoute[s].links ]
    /\ listed = [ s \in Service |-> TRUE ]
    /\ reserved = [ s \in Service |-> TRUE ]
    /\ topo = [ lost |-> {}, up |-> Port ]
    /\ toLC = [ g \in Segment |-> << >> ]
    /\ inbox = << >>
    /\ evcs = [ s \in Service |-> FirstRoute[s].segs \X {1} ]
    /\ net = topo
    /\ changes = 0
    /\ attempt = [ s \in Service |-> 1 ]
    /\ lc = Idle
    /\ hurt = [ s \in Service |-> {} ]

(***************************************************************************)
(* Publishing.                                                             *)
(***************************************************************************)
\* Mutant of Publish: the EVC's id is left out.
MutPublishNoId(op, s, B, F) ==
    [ g \in Segment |->
        IF g \in B THEN Append(toLC[g], [ op |-> op, sid |-> s ]) ELSE toLC[g] ]

\* The queues after one message per segment of B, for the EVC ids of F.
Publish(op, s, B, F) ==
    [ g \in Segment |->
        IF g \in B THEN Append(toLC[g], [ op |-> op, sid |-> s, id |-> F[g] ]) ELSE toLC[g] ]

\* _send_breakdown_to_lc skips a delete for which the copy c has no EVC id.
Deletable(B, c) == { g \in B : c.evc[g] # 0 }

Hit(S, w) == [ s \in Service |-> IF s \in S THEN hurt[s] \cup {w} ELSE hurt[s] ]

(***************************************************************************)
(* Lost links.                                                             *)
(***************************************************************************)
\* Mutant of TakeTopology: the ports of the message only, no link.
MutNoLinks(m) ==
    /\ topo' = m
    /\ lc' = [ pc |-> "links", todo |-> {}, was |-> topo ]

\* The TE manager takes the topology and reports what has changed; the
\* connections to recover are read from the link index once.
TakeTopology(m) ==
    /\ topo' = m
    /\ lc' = [ pc |-> "links", was |-> topo,
               todo |-> { s \in Service : index[s] \cap (m.lost \ topo.lost) # {} } ]

LcTopology ==
    /\ lc = Idle
    /\ inbox # << >> /\ Head(inbox) \in Topology
    /\ TakeTopology(Head(inbox))
    /\ inbox' = Tail(inbox)
    /\ UNCHANGED << docs, toLC, oxps, attempt, hurt >>

Goto(pc, s) == lc' = [ pc |-> pc, sid |-> s, todo |-> lc.todo \ {s}, was |-> lc.was ]
Skip(s) == lc' = [ lc EXCEPT !.todo = @ \ {s} ]

\* The thread's copy cannot be moved to ERROR (say, the connection is still
\* being provisioned): the failure is logged and the connection left alone.
LcSkip(s) ==
    /\ lc.pc = "links" /\ s \in lc.todo
    /\ ~ CanMove(conns[s].status, "ERROR")
    /\ Skip(s)
    /\ hurt' = Hit({s}, "skipped")
    /\ UNCHANGED << docs, topo, toLC, inbox, oxps, attempt >>

\* Mutant of Unlist: the links stay listed.
MutUnlistPorts(s) ==
    /\ listed' = [ listed EXCEPT ![s] = FALSE ]
    /\ UNCHANGED index

\* _process_path_to_db on a removal: the links of the stored solution.
Unlist(s) ==
    /\ listed' = [ listed EXCEPT ![s] = FALSE ]
    /\ index' = [ index EXCEPT ![s] = @ \ solutions[s] ]

\* Mutant of RemoveFor: nobody tells the OXPs.
MutRemoveSilent(s) ==
    /\ reserved' = [ reserved EXCEPT ![s] = FALSE ]
    /\ IF breakdowns[s] = {} THEN UNCHANGED << index, listed >> ELSE Unlist(s)
    /\ breakdowns' = [ breakdowns EXCEPT ![s] = {} ]
    /\ UNCHANGED toLC

\* remove_connection with archive=False: the document stays as it is.  Its
\* wait for provisioning to settle can only expire: the answers it waits for
\* are handled by this very thread.
RemoveFor(s) ==
    /\ reserved' = [ reserved EXCEPT ![s] = FALSE ]
    /\ toLC' = Publish("delete", s, Deletable(breakdowns[s], conns[s]), conns[s].evc)
    /\ IF breakdowns[s] = {} THEN UNCHANGED << index, listed >> ELSE Unlist(s)
    /\ breakdowns' = [ breakdowns EXCEPT ![s] = {} ]

LcRemove(s) ==
    /\ lc.pc = "links" /\ s \in lc.todo
    /\ CanMove(conns[s].status, "ERROR")
    /\ RemoveFor(s)
    /\ Goto("place", s)
    /\ UNCHANGED << conns, solutions, topo, inbox, oxps, attempt, hurt >>

\* Publishing raises after some deletes: the PCE has released the connection,
\* the recovery is given up, and the document still says what it said.
LcRemoveFails(s) ==
    /\ lc.pc = "links" /\ s \in lc.todo
    /\ CanMove(conns[s].status, "ERROR")
    /\ \E D \in SUBSET Deletable(breakdowns[s], conns[s]) :
           /\ D # Deletable(breakdowns[s], conns[s])
           /\ toLC' = Publish("delete", s, D, conns[s].evc)
    /\ reserved' = [ reserved EXCEPT ![s] = FALSE ]
    /\ \E b \in BOOLEAN : listed' = [ listed EXCEPT ![s] = b /\ @ ]
    /\ Skip(s)
    /\ hurt' = Hit({s}, "publish")
    /\ UNCHANGED << conns, breakdowns, solutions, index, topo, inbox, oxps, attempt >>

\* Mutant of Fresh: the count of answers is not reset.
MutKeepCount(c) ==
    [ c EXCEPT !.status = "RECOVERING", !.evc = NoIds, !.partial = FALSE ]

\* The document that is written before the connection is placed again.
\* late_cleanup_domains keeps its value.
Fresh(c) ==
    [ c EXCEPT !.status = "RECOVERING", !.count = 0, !.evc = NoIds, !.partial = FALSE ]

\* The PCE only knows the links that are left (external).
Usable(r) == r.links \cap topo.lost = {}

\* place_connection with route r, up to publishing.
PlaceOn(s, r) ==
    /\ solutions' = [ solutions EXCEPT ![s] = r.links ]
    /\ index' = [ index EXCEPT ![s] = @ \cup r.links ]
    /\ listed' = [ listed EXCEPT ![s] = TRUE ]
    /\ reserved' = [ reserved EXCEPT ![s] = TRUE ]

\* A path is found and every create is published.
LcPlace(r) ==
    /\ lc.pc = "place"
    /\ Usable(r)
    /\ LET s == lc.sid IN
       /\ PlaceOn(s, r)
       /\ breakdowns' = [ breakdowns EXCEPT ![s] = r.segs ]
       /\ conns' = [ conns EXCEPT ![s] = [ Fresh(@) EXCEPT !.status = "UNDER_PROVISIONING" ] ]
       /\ attempt' = [ attempt EXCEPT ![s] = @ + 1 ]
       /\ toLC' = Publish("post", s, r.segs, Ids(r.segs, attempt'[s]))
    /\ lc' = [ pc |-> "links", todo |-> lc.todo, was |-> lc.was ]
    /\ UNCHANGED << topo, inbox, oxps, hurt >>

\* The connections with a UNI port in P.
OnPorts(P) == { s \in Service : Ends[s] \cap P # {} }

\* The placement of lc.sid has failed when its copy of the document had got to
\* status st.  If the copy cannot be moved to ERROR the exception leaves the
\* handler: the connections and the ports still to do are forgotten, and the
\* TE manager will not report them again.
GiveUp(st, W) ==
    LET s == lc.sid
        c == [ Fresh(conns[s]) EXCEPT !.status = st ]
        forgotten == lc.todo \cup OnPorts(lc.was.up \ topo.up) \cup OnPorts(topo.up \ lc.was.up)
    IN  IF CanMove(st, "ERROR")
        THEN /\ conns' = [ conns EXCEPT ![s] = [ c EXCEPT !.status = "ERROR" ] ]
             /\ lc' = [ pc |-> "links", todo |-> lc.todo, was |-> lc.was ]
             /\ hurt' = [ hurt EXCEPT ![s] = @ \cup W ]
        ELSE /\ conns' = [ conns EXCEPT ![s] = c ]
             /\ lc' = Idle
             /\ hurt' = [ x \in Service |-> hurt[x] \cup (IF x = s THEN W ELSE {})
                            \cup (IF x \in forgotten THEN {"aborted"} ELSE {}) ]

\* No path, or the PCE cannot break it down: in the latter case the solution
\* has been stored.
LcPlaceFails ==
    /\ lc.pc = "place"
    /\ \/ UNCHANGED solutions
       \/ \E r \in Route :
              Usable(r) /\ solutions' = [ solutions EXCEPT ![lc.sid] = r.links ]
    /\ GiveUp("RECOVERING", {})
    /\ UNCHANGED << breakdowns, index, listed, reserved, topo, toLC, inbox, oxps, attempt >>

\* Publishing raises after some creates; the breakdown is deleted again.
LcPlaceBroken(r) ==
    /\ lc.pc = "place"
    /\ Usable(r)
    /\ PlaceOn(lc.sid, r)
    /\ attempt' = [ attempt EXCEPT ![lc.sid] = @ + 1 ]
    /\ \E D \in SUBSET r.segs :
           D # r.segs /\ toLC' = Publish("post", lc.sid, D, Ids(D, attempt'[lc.sid]))
    /\ GiveUp("UNDER_PROVISIONING", {"publish"})
    /\ UNCHANGED << breakdowns, topo, inbox, oxps >>

(***************************************************************************)
(* UNI ports, when the links are done.                                     *)
(***************************************************************************)
\* Every create of the current placement has been answered, with success.
Settled(s) == breakdowns[s] # {} /\ conns[s].count = Cardinality(breakdowns[s])

\* A port that changes is found in the port index, connection by connection.
Found(P) == { s \in OnPorts(P) : listed[s] }

WentDown == Found(lc.was.up \ topo.up)
CameUp == Found(topo.up \ lc.was.up)

\* What a port change does wrong: it overwrites the status of a connection
\* that is not settled, and a port that comes up does not look at the other.
HitByPorts(down, up) ==
    hurt' = [ s \in Service |-> hurt[s]
                \cup (IF s \in down \cup up /\ ~ Settled(s) THEN {"port"} ELSE {})
                \cup (IF s \in up /\ ~ (Ends[s] \subseteq topo.up) THEN {"oneEnd"} ELSE {}) ]

\* Mutant of LcPorts: a port that goes down is not looked at.
MutPortsUpOnly ==
    /\ lc.pc = "links" /\ lc.todo = {}
    /\ conns' = [ s \in Service |->
            IF s \in CameUp THEN [ conns[s] EXCEPT !.status = "UP" ] ELSE conns[s] ]
    /\ HitByPorts({}, CameUp)
    /\ lc' = Idle
    /\ UNCHANGED << breakdowns, solutions, index, listed, reserved, topo, toLC,
                    inbox, oxps, attempt >>

\* handle_uni_ports_up_to_down for every port that went down, then
\* handle_uni_ports_down_to_up for every port that came up: each connection
\* the index lists under the port gets the status of that one port, whatever
\* its own status and its other port.
LcPorts ==
    /\ lc.pc = "links" /\ lc.todo = {}
    /\ conns' = [ s \in Service |->
            IF s \in CameUp THEN [ conns[s] EXCEPT !.status = "UP" ]
            ELSE IF s \in WentDown THEN [ conns[s] EXCEPT !.status = "DOWN" ]
            ELSE conns[s] ]
    /\ HitByPorts(WentDown, CameUp)
    /\ lc' = Idle
    /\ UNCHANGED << breakdowns, solutions, index, listed, reserved, topo, toLC,
                    inbox, oxps, attempt >>

(***************************************************************************)
(* The OXPs' answers: process_lc_json_msg on an oxp_conn_response, as in    *)
(* Provisioning, with EVC ids and, since nobody else writes, in one step.  *)
(***************************************************************************)
Recorded(c, m) ==
    [ c EXCEPT !.evc[m.seg] =
        IF m.op = "delete" THEN @ ELSE IF m.ok THEN m.id ELSE 0 ]

Save(s, c) == conns' = [ conns EXCEPT ![s] = c ]

\* A recovering connection passes through UNDER_PROVISIONING.
CanComeUp(st) == CanMove(IF st = "RECOVERING" THEN "UNDER_PROVISIONING" ELSE st, "UP")

\* A success is counted; the last one brings the connection up, or raises
\* (then nothing of the answer is saved).
LcCreated(m) ==
    /\ m.ok /\ m.op = "post" /\ ~ conns[m.sid].partial
    /\ LET c == [ Recorded(conns[m.sid], m) EXCEPT !.count = @ + 1 ] IN
       IF c.count # Cardinality(breakdowns[m.sid]) THEN Save(m.sid, c)
       ELSE IF CanComeUp(c.status) THEN Save(m.sid, [ c EXCEPT !.status = "UP" ])
       ELSE UNCHANGED conns
    /\ UNCHANGED << index, listed, reserved, toLC >>

\* A create that succeeds in a connection that is being cleaned up.
LcCreatedLate(m) ==
    /\ m.ok /\ m.op = "post" /\ conns[m.sid].partial
    /\ LET c == Recorded(conns[m.sid], m) IN
       IF m.seg \in c.late THEN Save(m.sid, c) /\ UNCHANGED toLC
       ELSE /\ Save(m.sid, [ c EXCEPT !.late = @ \cup {m.seg} ])
            /\ toLC' = Publish("delete", m.sid, {m.seg} \cap breakdowns[m.sid], c.evc)
    /\ UNCHANGED << index, listed, reserved >>

LcDeleted(m) ==
    /\ m.ok /\ m.op = "delete"
    /\ Save(m.sid, Recorded(conns[m.sid], m))
    /\ UNCHANGED << index, listed, reserved, toLC >>

\* A refusal, or a delete that failed, takes a connection that is being
\* provisioned down; the first refusal also has what was created removed
\* (cleanup_partial_connection).
LcFailed(m) ==
    /\ ~ m.ok
    /\ LET d == Recorded(conns[m.sid], m)
           c == [ d EXCEPT !.status =
                    IF @ \in { "MODIFYING", "UNDER_PROVISIONING" } THEN "DOWN" ELSE @ ]
       IN  IF m.op = "post" /\ ~ c.partial
           THEN /\ Save(m.sid, [ c EXCEPT !.partial = TRUE ])
                /\ reserved' = [ reserved EXCEPT ![m.sid] = FALSE ]
                /\ toLC' = Publish("delete", m.sid, Deletable(breakdowns[m.sid], c), c.evc)
                /\ Unlist(m.sid)
           ELSE /\ Save(m.sid, c)
                /\ UNCHANGED << index, listed, reserved, toLC >>

\* Publishing a cleanup raises: the answer is lost.
LcCleanupBroken(m) ==
    /\ \/ ~ m.ok /\ m.op = "post" /\ ~ conns[m.sid].partial
       \/ m.ok /\ m.op = "post" /\ conns[m.sid].partial /\ m.seg \notin conns[m.sid].late
    /\ hurt' = Hit({m.sid}, "publish")
    /\ LET c == Recorded(conns[m.sid], m)
           all == Deletable(breakdowns[m.sid], c)
       IN  IF m.ok THEN UNCHANGED << reserved, listed, toLC >>
           ELSE /\ reserved' = [ reserved EXCEPT ![m.sid] = FALSE ]
                /\ \E D \in SUBSET all : D # all /\ toLC' = Publish("delete", m.sid, D, c.evc)
                /\ \E b \in BOOLEAN : listed' = [ listed EXCEPT ![m.sid] = b /\ @ ]
    /\ UNCHANGED << conns, index >>

LcAnswer ==
    /\ lc = Idle
    /\ inbox # << >> /\ Head(inbox) \in Answer
    /\ LET m == Head(inbox) IN
       IF breakdowns[m.sid] = {}       \* "Could not find breakdown"
       THEN UNCHANGED << conns, index, listed, reserved, toLC, hurt >>
       ELSE \/ /\ LcCreated(m) \/ LcCreatedLate(m) \/ LcDeleted(m) \/ LcFailed(m)
               /\ UNCHANGED hurt
            \/ LcCleanupBroken(m)
    /\ inbox' = Tail(inbox)
    /\ UNCHANGED << breakdowns, solutions, topo, oxps, attempt, lc >>

LcStep ==
    \/ LcAnswer \/ LcTopology \/ LcPorts \/ LcPlaceFails
    \/ \E s \in Service : LcSkip(s) \/ LcRemove(s) \/ LcRemoveFails(s)
    \/ \E r \in Route : LcPlace(r) \/ LcPlaceBroken(r)

(***************************************************************************)
(* The OXPs (external).  Each local controller serves its queue in order.  *)
(***************************************************************************)
Reply(g, ok) ==
    LET m == Head(toLC[g]) IN
    Append(inbox, [ op |-> m.op, sid |-> m.sid, seg |-> g, id |-> m.id, ok |-> ok ])

OxpCreate(g) ==
    /\ toLC[g] # << >> /\ Head(toLC[g]).op = "post"
    /\ LET m == Head(toLC[g]) IN
       \E ok \in BOOLEAN :
           /\ evcs' = [ evcs EXCEPT ![m.sid] = IF ok THEN @ \cup {<< g, m.id >>} ELSE @ ]
           /\ inbox' = Reply(g, ok)
    /\ toLC' = [ toLC EXCEPT ![g] = Tail(@) ]
    /\ UNCHANGED << docs, topo, net, changes, attempt, lc, hurt >>

OxpDelete(g) ==
    /\ toLC[g] # << >> /\ Head(toLC[g]).op = "delete"
    /\ LET m == Head(toLC[g]) IN
       \E ok \in BOOLEAN :
           /\ ok \/ g \in Stubborn
           /\ evcs' = [ evcs EXCEPT ![m.sid] = IF ok THEN @ \ {<< g, m.id >>} ELSE @ ]
           /\ inbox' = Reply(g, ok)
           /\ hurt' = IF ok THEN hurt ELSE Hit({m.sid}, "undeleted")
    /\ toLC' = [ toLC EXCEPT ![g] = Tail(@) ]
    /\ UNCHANGED << docs, topo, net, changes, attempt, lc >>

\* Links are lost or come back, ports go down or up.
OxpChange(m) ==
    /\ changes < MaxChanges
    /\ m # net
    /\ net' = m
    /\ changes' = changes + 1
    /\ inbox' = Append(inbox, m)
    /\ UNCHANGED << docs, topo, toLC, evcs, attempt, lc, hurt >>

OxpServe(g) == OxpCreate(g) \/ OxpDelete(g)

-----------------------------------------------------------------------------
Next ==
    \/ LcStep
    \/ \E g \in Segment : OxpServe(g)
    \/ \E m \in Reported : OxpChange(m)

Spec == Init /\ [][Next]_vars

\* The LC thread runs and the OXPs serve their queues; nothing need change.
FairSpec ==
    Spec /\ WF_vars(LcStep) /\ \A g \in Segment : WF_vars(OxpServe(g))

-----------------------------------------------------------------------------
(***************************************************************************)
(* Properties.                                                             *)
(***************************************************************************)
\* The LC thread has removed s and not yet placed it again.
Removed(s) == lc # Idle /\ lc.pc = "place" /\ lc.sid = s

Unhurt(s, W) == hurt[s] \cap W = {}

\* A connection shown up has its resources and, in every segment, the EVC
\* its document records, unless publishing has raised (:770, :811) or a port
\* has changed while it was being provisioned (:912).
UpIsBacked ==
    \A s \in Service :
        conns[s].status = "UP" /\ Unhurt(s, {"publish", "port"}) /\ ~ Removed(s) =>
            /\ reserved[s] /\ breakdowns[s] # {}
            /\ \A g \in breakdowns[s] : << g, conns[s].evc[g] >> \in evcs[s]

\* A connection shown up avoids every lost link the TE manager knows of, until
\* the LC thread gets to it, unless the loss was skipped (:757-782) or forgotten
\* after another connection's exception (:815).
UpAvoidsLost ==
    \A s \in Service :
        conns[s].status = "UP" /\ Unhurt(s, {"publish", "port", "skipped", "aborted"}) =>
            \/ solutions[s] \cap topo.lost = {}
            \/ lc # Idle /\ (s \in lc.todo \/ Removed(s))

\* A connection shown up has both its UNI ports up, as far as the TE manager
\* knows (parse_conn_status: "down: ... endpoints being down"), unless a port
\* changed while it was being provisioned, one came up while the other was
\* down (:912), or the change was forgotten after an exception (:815).
UpHasPorts ==
    \A s \in Service :
        conns[s].status = "UP" /\ lc = Idle
                /\ Unhurt(s, {"port", "oneEnd", "aborted", "publish"}) =>
            Ends[s] \subseteq topo.up

\* The same of a port that comes up while the other is down: the code shows the
\* connection up (:912), and parse_conn_status (:1163) says it is down.
UpHasBothPorts ==
    \A s \in Service :
        conns[s].status = "UP" /\ lc = Idle /\ Unhurt(s, {"port", "aborted", "publish"}) =>
            Ends[s] \subseteq topo.up

\* The two indexes list a connection exactly on the path it is placed on:
\* they are how a link failure and a port change find it (:131-244).
IndexFollowsPath ==
    \A s \in Service :
        Unhurt(s, {"publish"}) =>
            LET placed == breakdowns[s] # {} /\ ~ conns[s].partial IN
            /\ index[s] = IF placed THEN solutions[s] ELSE {}
            /\ listed[s] = placed

\* A recovery ends, with the connection up or shown down.
RecoveryEnds ==
    \A s \in Service :
        conns[s].status \in { "RECOVERING", "UNDER_PROVISIONING" } ~>
            \/ conns[s].status \notin { "RECOVERING", "UNDER_PROVISIONING" }
            \/ ~ Unhurt(s, {"publish", "aborted"})

\* What an abandoned placement has created is removed in the end: no EVC
\* stays that the document does not record, unless an OXP failed to remove
\* it, publishing raised or an answer was lost to a port change.
NoOrphans ==
    \A s \in Service :
        <>[]( \/ ~ Unhurt(s, {"publish", "port", "undeleted"})
              \/ \A e \in evcs[s] : e[1] \in breakdowns[s] /\ e[2] = conns[s].evc[e[1]] )
-----------------------------------------------------------------------------
(***************************************************************************)
(* The inductive invariant of RecoveryProofs.                              *)
(***************************************************************************)
\* A connection being provisioned, or down, is not recovered: the state
\* machine does not let it fail.
OnlyUpFails ==
    ~ CanMove("UNDER_PROVISIONING", "ERROR") /\ ~ CanMove("DOWN", "ERROR")

Placed(s) == breakdowns[s] # {} /\ ~ conns[s].partial

\* What IndexFollowsPath says of one connection.
Follows(s) ==
    Unhurt(s, {"publish"}) =>
        /\ index[s] = IF Placed(s) THEN solutions[s] ELSE {}
        /\ listed[s] = Placed(s)

\* A connection that is to be placed again has been removed.
RemovedFirst == lc.pc = "place" => breakdowns[lc.sid] = {}

IndexInv == RemovedFirst /\ \A s \in Service : Follows(s)

Members(q) == { q[i] : i \in 1 .. Len(q) }
Once(q, X) == \A i, j \in 1 .. Len(q) : q[i] \in X /\ q[j] \in X => i = j

\* The orders and answers of connection s that are under way in segment g.
OrdersOf(op, s) == { o \in Order : o.op = op /\ o.sid = s }
AnswersOf(s, g) == { a \in Answer : a.op = "post" /\ a.sid = s /\ a.seg = g }

Creates(s, g) == Members(toLC[g]) \cap OrdersOf("post", s)
Removes(s, g) == Members(toLC[g]) \cap OrdersOf("delete", s)
Answers(s, g) == Members(inbox) \cap AnswersOf(s, g)

Awaited(s, g) == Creates(s, g) # {} \/ Answers(s, g) # {}

\* At most one create of s is under way in g.
AwaitedOnce(s, g) ==
    /\ Once(toLC[g], OrdersOf("post", s)) /\ Once(inbox, AnswersOf(s, g))
    /\ Creates(s, g) = {} \/ Answers(s, g) = {}

\* The segments whose current EVC is recorded.
Provisioned(s) == { g \in breakdowns[s] : conns[s].evc[g] = attempt[s] }

\* Removed, or its placement has failed: nothing that is under way can create
\* an EVC.
Gone(s) ==
    /\ breakdowns[s] = {}
    /\ conns[s].status = "UP" => Removed(s)
    /\ \A g \in Segment :
           /\ ~ Awaited(s, g)
           /\ \A o \in Removes(s, g) : o.id <= attempt[s]

\* Refused by an OXP: it stays down.
TakenDown(s) == breakdowns[s] # {} /\ conns[s].partial /\ conns[s].status = "DOWN"

\* Placed: what is under way, what is recorded and what is at the OXPs are of
\* the one current placement, and it is up only when all of it is there.
Held(s) ==
    /\ Placed(s) /\ reserved[s]
    /\ conns[s].status \in { "UNDER_PROVISIONING", "UP", "DOWN" }
    /\ conns[s].status = "UP" => Settled(s)
    /\ conns[s].count = Cardinality(Provisioned(s))
    /\ \A g \in Segment :
           /\ conns[s].evc[g] <= attempt[s]
           /\ Awaited(s, g) => g \in breakdowns[s] /\ conns[s].evc[g] = 0
           /\ AwaitedOnce(s, g)
           /\ \A o \in Creates(s, g) : o.id = attempt[s]
           /\ \A a \in Answers(s, g) :
                  a.id = attempt[s] /\ (a.ok => << g, attempt[s] >> \in evcs[s])
           /\ \A o \in Removes(s, g) : o.id < attempt[s]
           /\ g \in Provisioned(s) => << g, attempt[s] >> \in evcs[s]

Backed(s) ==
    /\ attempt[s] >= 1
    /\ Unhurt(s, {"publish", "port"}) => Gone(s) \/ TakenDown(s) \/ Held(s)

BackedInv == \A s \in Service : Backed(s)

\* A connection on a lost link is on the thread's list.
Avoids(s) ==
    Placed(s) /\ Unhurt(s, {"publish", "skipped", "aborted"}) =>
        solutions[s] \cap topo.lost = {} \/ (lc # Idle /\ s \in lc.todo)

AvoidsInv == \A s \in Service : Avoids(s)

\* The UNI ports that were up when the thread last had no topology to handle.
UpBefore == IF lc = Idle THEN topo.up ELSE lc.was.up

\* A connection that is up, or on its way there, had both its ports up, and
\* one on the thread's list is placed.
PortsFollow(s) ==
    Unhurt(s, {"publish", "port", "oneEnd", "aborted"}) =>
        /\ (Placed(s) /\ conns[s].status # "DOWN") \/ Removed(s) => Ends[s] \subseteq UpBefore
        /\ lc # Idle /\ s \in lc.todo => Placed(s)

PortsInv == \A s \in Service : PortsFollow(s)
=============================================================================
