---------------------------- MODULE RecoveryProofs --------------------------
(***************************************************************************)
(* Proofs about Recovery: type correctness; that the link and the port     *)
(* index follow the path of every connection, on which the recovery of a   *)
(* lost link and of a port rests; and, given the index, that a connection  *)
(* shown up has the EVCs of its last placement, avoids the lost links and  *)
(* has its UNI ports up.                                                   *)
(***************************************************************************)
EXTENDS Recovery, FiniteSetTheorems, TLAPS

(***************************************************************************)
(* Documents, orders and answers.                                          *)
(***************************************************************************)
LEMMA StatusNames == { "RECOVERING", "UNDER_PROVISIONING", "ERROR", "UP", "DOWN" } \subseteq Status
BY DEF Status

LEMMA SegmentsCount ==
    ASSUME NEW B \in SUBSET Segment
    PROVE  Cardinality(B) \in Nat
BY RecoveryAssumption, FS_Subset, FS_CardinalityType

\* A document with a field written is a document.
LEMMA ConnFields ==
    ASSUME NEW c \in Conn
    PROVE  /\ \A st \in Status : [ c EXCEPT !.status = st ] \in Conn
           /\ [ c EXCEPT !.count = c.count + 1 ] \in Conn
           /\ [ c EXCEPT !.partial = TRUE ] \in Conn
           /\ \A g \in Segment : [ c EXCEPT !.late = c.late \cup {g} ] \in Conn
           /\ c.status \in Status /\ c.evc \in [ Segment -> Id ]
<1>1. /\ c.status \in Status /\ c.count \in Nat /\ c.evc \in [ Segment -> Id ]
      /\ c.partial \in BOOLEAN /\ c.late \in SUBSET Segment
      BY DEF Conn
<1>2. \A st \in Status : [ c EXCEPT !.status = st ] \in Conn
      BY DEF Conn
<1>3. [ c EXCEPT !.count = c.count + 1 ] \in Conn
      BY <1>1 DEF Conn
<1>4. [ c EXCEPT !.partial = TRUE ] \in Conn
      BY DEF Conn
<1>5. ASSUME NEW g \in Segment
      PROVE  [ c EXCEPT !.late = c.late \cup {g} ] \in Conn
      BY <1>1 DEF Conn
<1> QED
    BY <1>1, <1>2, <1>3, <1>4, <1>5

LEMMA FreshType ==
    ASSUME NEW c \in Conn
    PROVE  Fresh(c) \in Conn
BY StatusNames DEF Fresh, Conn, NoIds, Id

LEMMA IdsType ==
    ASSUME NEW B \in SUBSET Segment, NEW n \in Nat
    PROVE  Ids(B, n) \in [ Segment -> Id ]
BY DEF Ids, Id

LEMMA PublishType ==
    ASSUME TypeOK, NEW op \in { "post", "delete" }, NEW s \in Service,
           NEW B \in SUBSET Segment, NEW F \in [ Segment -> Id ]
    PROVE  Publish(op, s, B, F) \in [ Segment -> Seq(Order) ]
<1> SUFFICES ASSUME NEW g \in Segment
             PROVE  (IF g \in B THEN Append(toLC[g], [ op |-> op, sid |-> s, id |-> F[g] ])
                     ELSE toLC[g]) \in Seq(Order)
    BY DEF Publish
<1>1. [ op |-> op, sid |-> s, id |-> F[g] ] \in Order
      BY DEF Order
<1>2. toLC[g] \in Seq(Order)
      BY DEF TypeOK
<1> QED
    BY <1>1, <1>2

LEMMA RecordedType ==
    ASSUME NEW c \in Conn, NEW m \in Answer
    PROVE  Recorded(c, m) \in Conn
<1>1. m.seg \in Segment /\ m.id \in Id /\ c.evc \in [ Segment -> Id ] /\ 0 \in Id
      BY DEF Answer, Conn, Id
<1>2. c.evc[m.seg] \in Id
      BY <1>1
<1> QED
    BY <1>1, <1>2 DEF Recorded, Conn

LEMMA HitType ==
    ASSUME TypeOK, NEW S, NEW w \in Weakness
    PROVE  Hit(S, w) \in [ Service -> SUBSET Weakness ]
BY DEF TypeOK, Hit

LEMMA LcShape ==
    ASSUME TypeOK
    PROVE  /\ lc.pc = "links" => /\ lc.todo \in SUBSET Service /\ lc.was \in Topology
                                 /\ lc = [ pc |-> "links", todo |-> lc.todo, was |-> lc.was ]
           /\ lc.pc = "place" => /\ lc.sid \in Service
                                 /\ lc.todo \in SUBSET Service /\ lc.was \in Topology
           /\ Idle.pc = "idle" /\ lc # Idle => lc.pc \in { "links", "place" }
BY DEF TypeOK, LcState, Idle

(***************************************************************************)
(* Types.                                                                  *)
(***************************************************************************)
LEMMA InitType ==
    ASSUME Init
    PROVE  TypeOK
<1>1. ASSUME NEW s \in Service
      PROVE  FirstRoute[s].segs \in SUBSET Segment /\ FirstRoute[s].links \in SUBSET Link
      BY RecoveryAssumption
<1>2. ASSUME NEW s \in Service
      PROVE  [ status |-> "UP", count |-> Cardinality(FirstRoute[s].segs),
               evc |-> Ids(FirstRoute[s].segs, 1), partial |-> FALSE, late |-> {} ] \in Conn
      BY <1>1, SegmentsCount, IdsType, StatusNames DEF Conn
<1>3. conns \in [ Service -> Conn ]
      BY <1>2 DEF Init
<1>4. evcs \in [ Service -> SUBSET (Segment \X Id) ]
      BY <1>1 DEF Init, Id
<1>5. topo \in Topology /\ net \in Topology
      BY DEF Init, Topology
<1>6. inbox \in Seq(Answer \cup Topology) /\ toLC \in [ Segment -> Seq(Order) ]
  <2>1. << >> \in Seq(Answer \cup Topology) /\ << >> \in Seq(Order)
        OBVIOUS
  <2> QED
      BY <2>1 DEF Init
<1>7. /\ breakdowns \in [ Service -> SUBSET Segment ] /\ solutions \in [ Service -> SUBSET Link ]
      /\ index \in [ Service -> SUBSET Link ] /\ hurt \in [ Service -> SUBSET Weakness ]
      BY <1>1 DEF Init
<1> QED
    BY <1>3, <1>4, <1>5, <1>6, <1>7 DEF Init, TypeOK, LcState

LEMMA GiveUpType ==
    ASSUME TypeOK, lc.pc = "place", NEW st \in { "RECOVERING", "UNDER_PROVISIONING" },
           NEW W \in SUBSET Weakness, GiveUp(st, W)
    PROVE  /\ conns' \in [ Service -> Conn ] /\ lc' \in LcState
           /\ hurt' \in [ Service -> SUBSET Weakness ]
<1> DEFINE c == [ Fresh(conns[lc.sid]) EXCEPT !.status = st ]
<1>1. lc.sid \in Service /\ lc.todo \in SUBSET Service /\ lc.was \in Topology
      BY LcShape
<1>2. c \in Conn /\ [ c EXCEPT !.status = "ERROR" ] \in Conn
  <2>1. conns[lc.sid] \in Conn
        BY <1>1 DEF TypeOK
  <2>2. Fresh(conns[lc.sid]) \in Conn /\ st \in Status /\ "ERROR" \in Status
        BY <2>1, FreshType, StatusNames
  <2> QED
      BY <2>2, ConnFields
<1>3. conns' \in [ Service -> Conn ]
      BY <1>1, <1>2 DEF GiveUp, TypeOK
<1>4. lc' \in LcState
      BY <1>1 DEF GiveUp, LcState
<1>5. hurt' \in [ Service -> SUBSET Weakness ]
  <2>1. "aborted" \in Weakness /\ \A x \in Service : hurt[x] \in SUBSET Weakness
        BY DEF TypeOK, Weakness
  <2>2. CASE CanMove(st, "ERROR")
    <3>1. hurt' = [ hurt EXCEPT ![lc.sid] = hurt[lc.sid] \cup W ]
          BY <2>2 DEF GiveUp
    <3>2. hurt[lc.sid] \cup W \in SUBSET Weakness
          BY <1>1, <2>1
    <3> QED
        BY <3>1, <3>2 DEF TypeOK
  <2>3. CASE ~ CanMove(st, "ERROR")
    <3> DEFINE forgotten == lc.todo \cup OnPorts(lc.was.up \ topo.up) \cup OnPorts(topo.up \ lc.was.up)
    <3>1. hurt' = [ x \in Service |-> hurt[x] \cup (IF x = lc.sid THEN W ELSE {})
                       \cup (IF x \in forgotten THEN {"aborted"} ELSE {}) ]
          BY <2>3 DEF GiveUp
    <3> HIDE DEF forgotten
    <3> QED
        BY <2>1, <3>1
  <2> QED
      BY <2>2, <2>3
<1> QED
    BY <1>3, <1>4, <1>5

LEMMA LinksType ==
    ASSUME TypeOK, NEW s \in Service, LcSkip(s) \/ LcRemove(s) \/ LcRemoveFails(s)
    PROVE  TypeOK'
<1>1. /\ lc.pc = "links" /\ lc.todo \in SUBSET Service /\ lc.was \in Topology
      /\ lc = [ pc |-> "links", todo |-> lc.todo, was |-> lc.was ]
      BY LcShape DEF LcSkip, LcRemove, LcRemoveFails
<1>2. Skip(s) => lc' \in LcState
      BY <1>1 DEF Skip, LcState
<1>3. /\ conns[s].evc \in [ Segment -> Id ]
      /\ Deletable(breakdowns[s], conns[s]) \in SUBSET Segment
      BY DEF TypeOK, Conn, Deletable
<1>4. CASE LcSkip(s)
  <2>1. hurt' \in [ Service -> SUBSET Weakness ]
        BY <1>4, HitType DEF LcSkip, Weakness
  <2> QED
      BY <1>2, <1>4, <2>1 DEF LcSkip, TypeOK, docs, oxps
<1>5. CASE LcRemove(s)
  <2>1. toLC' \in [ Segment -> Seq(Order) ]
        BY <1>3, <1>5, PublishType DEF LcRemove, RemoveFor
  <2>2. index' \in [ Service -> SUBSET Link ] /\ listed' \in [ Service -> BOOLEAN ]
    <3>1. \/ UNCHANGED << index, listed >>
          \/ /\ listed' = [ listed EXCEPT ![s] = FALSE ]
             /\ index' = [ index EXCEPT ![s] = index[s] \ solutions[s] ]
          BY <1>5 DEF LcRemove, RemoveFor, Unlist
    <3>2. index[s] \in SUBSET Link
          BY DEF TypeOK
    <3>3. (index[s] \ solutions[s]) \in SUBSET Link
          BY <3>2
    <3>4. [ index EXCEPT ![s] = index[s] \ solutions[s] ] \in [ Service -> SUBSET Link ]
          BY <3>3 DEF TypeOK
    <3>5. [ listed EXCEPT ![s] = FALSE ] \in [ Service -> BOOLEAN ]
          BY DEF TypeOK
    <3> QED
        BY <3>1, <3>4, <3>5 DEF TypeOK
  <2>3. lc' \in LcState
        BY <1>1, <1>5 DEF LcRemove, Goto, LcState
  <2>4. /\ breakdowns' \in [ Service -> SUBSET Segment ]
        /\ reserved' \in [ Service -> BOOLEAN ]
        BY <1>5 DEF LcRemove, RemoveFor, TypeOK
  <2> QED
      BY <1>5, <2>1, <2>2, <2>3, <2>4 DEF LcRemove, TypeOK, oxps
<1>6. CASE LcRemoveFails(s)
  <2>1. toLC' \in [ Segment -> Seq(Order) ]
        BY <1>3, <1>6, PublishType DEF LcRemoveFails
  <2>2. hurt' \in [ Service -> SUBSET Weakness ]
        BY <1>6, HitType DEF LcRemoveFails, Weakness
  <2>3. listed' \in [ Service -> BOOLEAN ] /\ reserved' \in [ Service -> BOOLEAN ]
        BY <1>6 DEF LcRemoveFails, TypeOK
  <2> QED
      BY <1>2, <1>6, <2>1, <2>2, <2>3 DEF LcRemoveFails, TypeOK, oxps
<1> QED
    BY <1>4, <1>5, <1>6

LEMMA PlaceType ==
    ASSUME TypeOK, LcPlaceFails \/ \E r \in Route : LcPlace(r) \/ LcPlaceBroken(r)
    PROVE  TypeOK'
<1>1. lc.pc = "place" /\ lc.sid \in Service /\ lc.todo \in SUBSET Service /\ lc.was \in Topology
      BY LcShape DEF LcPlaceFails, LcPlace, LcPlaceBroken
<1>2. \A r \in Route : r.segs \in SUBSET Segment /\ r.links \in SUBSET Link
      BY RecoveryAssumption
<1>3. attempt[lc.sid] + 1 \in Nat
      BY <1>1 DEF TypeOK
<1>4. ASSUME NEW r \in Route, PlaceOn(lc.sid, r)
      PROVE  /\ solutions' \in [ Service -> SUBSET Link ] /\ index' \in [ Service -> SUBSET Link ]
             /\ listed' \in [ Service -> BOOLEAN ] /\ reserved' \in [ Service -> BOOLEAN ]
      BY <1>1, <1>2, <1>4 DEF PlaceOn, TypeOK
<1>5. CASE LcPlaceFails
  <2>1. /\ conns' \in [ Service -> Conn ] /\ lc' \in LcState
        /\ hurt' \in [ Service -> SUBSET Weakness ]
        BY <1>1, <1>5, GiveUpType DEF LcPlaceFails
  <2>2. solutions' \in [ Service -> SUBSET Link ]
        BY <1>1, <1>2, <1>5 DEF LcPlaceFails, TypeOK
  <2> QED
      BY <1>5, <2>1, <2>2 DEF LcPlaceFails, TypeOK, oxps
<1>6. ASSUME NEW r \in Route, LcPlace(r)
      PROVE  TypeOK'
  <2>1. attempt' \in [ Service -> Nat ] /\ attempt'[lc.sid] = attempt[lc.sid] + 1
        BY <1>1, <1>3, <1>6 DEF LcPlace, TypeOK
  <2>2. toLC' \in [ Segment -> Seq(Order) ]
        BY <1>1, <1>2, <1>3, <1>6, <2>1, IdsType, PublishType DEF LcPlace
  <2>3. [ Fresh(conns[lc.sid]) EXCEPT !.status = "UNDER_PROVISIONING" ] \in Conn
        BY <1>1, FreshType, ConnFields, StatusNames DEF TypeOK
  <2>4. conns' \in [ Service -> Conn ]
        BY <1>1, <1>6, <2>3 DEF LcPlace, TypeOK
  <2>5. breakdowns' \in [ Service -> SUBSET Segment ]
        BY <1>1, <1>2, <1>6 DEF LcPlace, TypeOK
  <2>6. lc' \in LcState
        BY <1>1, <1>6 DEF LcPlace, LcState
  <2> QED
      BY <1>4, <1>6, <2>1, <2>2, <2>4, <2>5, <2>6 DEF LcPlace, TypeOK, oxps
<1>7. ASSUME NEW r \in Route, LcPlaceBroken(r)
      PROVE  TypeOK'
  <2>1. attempt' \in [ Service -> Nat ] /\ attempt'[lc.sid] = attempt[lc.sid] + 1
        BY <1>1, <1>3, <1>7 DEF LcPlaceBroken, TypeOK
  <2>2. PICK D \in SUBSET r.segs : toLC' = Publish("post", lc.sid, D, Ids(D, attempt'[lc.sid]))
        BY <1>7 DEF LcPlaceBroken
  <2>3. toLC' \in [ Segment -> Seq(Order) ]
        BY <1>1, <1>2, <1>3, <2>1, <2>2, IdsType, PublishType
  <2>4. /\ conns' \in [ Service -> Conn ] /\ lc' \in LcState
        /\ hurt' \in [ Service -> SUBSET Weakness ]
        BY <1>1, <1>7, GiveUpType DEF LcPlaceBroken, Weakness
  <2> QED
      BY <1>4, <1>7, <2>1, <2>3, <2>4 DEF LcPlaceBroken, TypeOK, oxps
<1> QED
    BY <1>5, <1>6, <1>7

\* What a change of ports does to one connection.
LEMMA PortsShape ==
    ASSUME TypeOK, LcPorts, NEW s \in Service
    PROVE  /\ conns'[s] = IF s \in CameUp THEN [ conns[s] EXCEPT !.status = "UP" ]
                          ELSE IF s \in WentDown THEN [ conns[s] EXCEPT !.status = "DOWN" ]
                          ELSE conns[s]
           /\ hurt[s] \subseteq hurt'[s] /\ hurt'[s] \in SUBSET Weakness
           /\ s \in WentDown \cup CameUp /\ ~ Settled(s) => "port" \in hurt'[s]
           /\ s \in CameUp /\ ~ (Ends[s] \subseteq topo.up) => "oneEnd" \in hurt'[s]
<1>1. conns'[s] = IF s \in CameUp THEN [ conns[s] EXCEPT !.status = "UP" ]
                  ELSE IF s \in WentDown THEN [ conns[s] EXCEPT !.status = "DOWN" ]
                  ELSE conns[s]
      BY DEF LcPorts
<1>2. hurt'[s] = hurt[s]
          \cup (IF s \in WentDown \cup CameUp /\ ~ Settled(s) THEN {"port"} ELSE {})
          \cup (IF s \in CameUp /\ ~ (Ends[s] \subseteq topo.up) THEN {"oneEnd"} ELSE {})
      BY DEF LcPorts, HitByPorts
<1>3. hurt[s] \in SUBSET Weakness /\ {"port", "oneEnd"} \subseteq Weakness
      BY DEF TypeOK, Weakness
<1> QED
    BY <1>1, <1>2, <1>3

LEMMA TopologyType ==
    ASSUME TypeOK, LcTopology \/ LcPorts
    PROVE  TypeOK'
<1>1. CASE LcTopology
  <2>1. Head(inbox) \in Topology /\ Tail(inbox) \in Seq(Answer \cup Topology)
        BY <1>1 DEF LcTopology, TypeOK
  <2>2. topo' \in Topology /\ lc' \in LcState
        BY <1>1, <2>1 DEF LcTopology, TakeTopology, LcState, TypeOK
  <2> QED
      BY <1>1, <2>1, <2>2 DEF LcTopology, TypeOK, docs, oxps
<1>2. CASE LcPorts
  <2>1. \A s \in Service : /\ [ conns[s] EXCEPT !.status = "UP" ] \in Conn
                           /\ [ conns[s] EXCEPT !.status = "DOWN" ] \in Conn
        BY ConnFields, StatusNames DEF TypeOK
  <2>2. conns' \in [ Service -> Conn ]
        BY <1>2, <2>1 DEF LcPorts, TypeOK
  <2>3. hurt' \in [ Service -> SUBSET Weakness ]
    <3>1. DOMAIN hurt' = Service /\ hurt' = [ s \in Service |-> hurt'[s] ]
          BY <1>2 DEF LcPorts, HitByPorts
    <3>2. \A s \in Service : hurt'[s] \in SUBSET Weakness
          BY <1>2, PortsShape
    <3> QED
        BY <3>1, <3>2
  <2> QED
      BY <1>2, <2>2, <2>3 DEF LcPorts, TypeOK, LcState, oxps
<1> QED
    BY <1>1, <1>2

LEMMA AnswerType ==
    ASSUME TypeOK, LcAnswer
    PROVE  TypeOK'
<1> DEFINE m == Head(inbox)
           s == m.sid
           c == Recorded(conns[s], m)
<1>1. /\ m \in Answer /\ Tail(inbox) \in Seq(Answer \cup Topology) /\ s \in Service
      /\ m.seg \in Segment
      BY DEF LcAnswer, TypeOK, Answer
<1>2. c \in Conn /\ c.evc \in [ Segment -> Id ]
      BY <1>1, RecordedType DEF TypeOK, Conn
<1> HIDE DEF m
<1>3. \A d \in Conn : Save(s, d) => conns' \in [ Service -> Conn ]
      BY <1>1 DEF Save, TypeOK
<1>4. Unlist(s) => index' \in [ Service -> SUBSET Link ] /\ listed' \in [ Service -> BOOLEAN ]
      BY <1>1 DEF Unlist, TypeOK
<1> DEFINE Same == /\ conns' \in [ Service -> Conn ] /\ index' \in [ Service -> SUBSET Link ]
                   /\ listed' \in [ Service -> BOOLEAN ] /\ reserved' \in [ Service -> BOOLEAN ]
                   /\ toLC' \in [ Segment -> Seq(Order) ]
                   /\ hurt' \in [ Service -> SUBSET Weakness ]
<1>5. ASSUME LcCreated(m), UNCHANGED hurt
      PROVE  Same
  <2> DEFINE d == [ c EXCEPT !.count = @ + 1 ]
  <2>1. d \in Conn /\ [ d EXCEPT !.status = "UP" ] \in Conn
        BY <1>2, StatusNames, ConnFields
  <2>2. conns' \in [ Service -> Conn ]
        BY <1>3, <1>5, <2>1 DEF LcCreated, TypeOK
  <2> QED
      BY <1>5, <2>2 DEF LcCreated, TypeOK
<1>6. ASSUME LcCreatedLate(m), UNCHANGED hurt
      PROVE  Same
  <2>1. [ c EXCEPT !.late = @ \cup {m.seg} ] \in Conn
        BY <1>1, <1>2, ConnFields
  <2>2. conns' \in [ Service -> Conn ]
        BY <1>2, <1>3, <1>6, <2>1 DEF LcCreatedLate
  <2>3. toLC' \in [ Segment -> Seq(Order) ]
    <3>1. {m.seg} \cap breakdowns[s] \in SUBSET Segment
          BY <1>1
    <3>2. Publish("delete", s, {m.seg} \cap breakdowns[s], c.evc) \in [ Segment -> Seq(Order) ]
          BY <1>1, <1>2, <3>1, PublishType
    <3> QED
        BY <1>6, <3>2 DEF LcCreatedLate, TypeOK
  <2> QED
      BY <1>6, <2>2, <2>3 DEF LcCreatedLate, TypeOK
<1>7. ASSUME LcDeleted(m), UNCHANGED hurt
      PROVE  Same
      BY <1>2, <1>3, <1>7 DEF LcDeleted, TypeOK
<1>8. ASSUME LcFailed(m), UNCHANGED hurt
      PROVE  Same
  <2> DEFINE d == [ c EXCEPT !.status =
                      IF @ \in { "MODIFYING", "UNDER_PROVISIONING" } THEN "DOWN" ELSE @ ]
  <2>1. /\ d \in Conn /\ [ d EXCEPT !.partial = TRUE ] \in Conn
        /\ d.evc \in [ Segment -> Id ] /\ Deletable(breakdowns[s], d) \in SUBSET Segment
    <3>1. d \in Conn
      <4>1. d = [ c EXCEPT !.status = IF c.status \in { "MODIFYING", "UNDER_PROVISIONING" }
                                      THEN "DOWN" ELSE c.status ]
            OBVIOUS
      <4>2. (IF c.status \in { "MODIFYING", "UNDER_PROVISIONING" } THEN "DOWN" ELSE c.status)
                \in Status
            BY <1>2, StatusNames, ConnFields
      <4> QED
          BY <1>2, <4>1, <4>2, ConnFields
    <3> QED
        BY <1>1, <3>1, ConnFields DEF Deletable, TypeOK
  <2>2. CASE m.op = "post" /\ ~ d.partial
    <3>1. /\ Save(s, [ d EXCEPT !.partial = TRUE ]) /\ Unlist(s)
          /\ reserved' = [ reserved EXCEPT ![s] = FALSE ]
          /\ toLC' = Publish("delete", s, Deletable(breakdowns[s], d), d.evc)
          BY <1>8, <2>2 DEF LcFailed
    <3>2. toLC' \in [ Segment -> Seq(Order) ]
          BY <1>1, <2>1, <3>1, PublishType
    <3> QED
        BY <1>3, <1>4, <1>8, <2>1, <3>1, <3>2 DEF TypeOK
  <2>3. CASE ~ (m.op = "post" /\ ~ d.partial)
    <3>1. Save(s, d) /\ UNCHANGED << index, listed, reserved, toLC >>
          BY <1>8, <2>3 DEF LcFailed
    <3> QED
        BY <1>3, <1>8, <2>1, <3>1 DEF TypeOK
  <2> QED
      BY <2>2, <2>3
<1>9. ASSUME LcCleanupBroken(m)
      PROVE  Same
  <2>1. hurt' \in [ Service -> SUBSET Weakness ]
        BY <1>9, HitType DEF LcCleanupBroken, Weakness
  <2>2. CASE m.ok
        BY <1>9, <2>1, <2>2 DEF LcCleanupBroken, TypeOK
  <2>3. CASE ~ m.ok
    <3>1. PICK D \in SUBSET Deletable(breakdowns[s], c) :
              toLC' = Publish("delete", s, D, c.evc)
          BY <1>9, <2>3 DEF LcCleanupBroken
    <3>2. D \in SUBSET Segment
          BY <1>1, <3>1 DEF Deletable, TypeOK
    <3>3. toLC' \in [ Segment -> Seq(Order) ]
          BY <1>1, <1>2, <3>1, <3>2, PublishType
    <3>4. listed' \in [ Service -> BOOLEAN ] /\ reserved' \in [ Service -> BOOLEAN ]
          BY <1>1, <1>9, <2>3 DEF LcCleanupBroken, TypeOK
    <3> QED
        BY <1>9, <2>1, <3>3, <3>4 DEF LcCleanupBroken, TypeOK
  <2> QED
      BY <2>2, <2>3
<1>10. ASSUME UNCHANGED << conns, index, listed, reserved, toLC, hurt >>
       PROVE  Same
       BY <1>10 DEF TypeOK
<1>11. Same
       BY <1>5, <1>6, <1>7, <1>8, <1>9, <1>10 DEF LcAnswer, m
<1>12. inbox' \in Seq(Answer \cup Topology)
       BY <1>1 DEF LcAnswer
<1> QED
    BY <1>11, <1>12 DEF LcAnswer, TypeOK, oxps

LEMMA OxpType ==
    ASSUME TypeOK, NEW g \in Segment, OxpServe(g)
    PROVE  TypeOK'
<1> DEFINE m == Head(toLC[g])
<1>1. /\ m \in Order /\ m.op \in { "post", "delete" } /\ m.sid \in Service /\ m.id \in Id
      /\ Tail(toLC[g]) \in Seq(Order)
  <2>1. toLC[g] \in Seq(Order) /\ toLC[g] # << >>
        BY DEF OxpServe, OxpCreate, OxpDelete, TypeOK
  <2>2. Head(toLC[g]) \in Order
        BY <2>1
  <2>3. Tail(toLC[g]) \in Seq(Order)
        BY <2>1
  <2> QED
      BY <2>2, <2>3 DEF Order
<1>2. toLC' \in [ Segment -> Seq(Order) ]
      BY <1>1 DEF OxpServe, OxpCreate, OxpDelete, TypeOK
<1>3. \A ok \in BOOLEAN : Reply(g, ok) \in Seq(Answer \cup Topology)
  <2> SUFFICES ASSUME NEW ok \in BOOLEAN
               PROVE  Reply(g, ok) \in Seq(Answer \cup Topology)
      OBVIOUS
  <2>1. [ op |-> m.op, sid |-> m.sid, seg |-> g, id |-> m.id, ok |-> ok ] \in Answer
        BY <1>1 DEF Answer
  <2> QED
      BY <2>1 DEF Reply, TypeOK
<1>4. CASE OxpCreate(g)
  <2>1. << g, m.id >> \in Segment \X Id
        BY <1>1
  <2>2. evcs' \in [ Service -> SUBSET (Segment \X Id) ]
        BY <1>1, <1>4, <2>1 DEF OxpCreate, TypeOK
  <2> QED
      BY <1>2, <1>3, <1>4, <2>2 DEF OxpCreate, TypeOK, docs
<1>5. CASE OxpDelete(g)
  <2>1. evcs' \in [ Service -> SUBSET (Segment \X Id) ]
        BY <1>1, <1>5 DEF OxpDelete, TypeOK
  <2>2. hurt' \in [ Service -> SUBSET Weakness ]
        BY <1>5, HitType DEF OxpDelete, Weakness, TypeOK
  <2> QED
      BY <1>2, <1>3, <1>5, <2>1, <2>2 DEF OxpDelete, TypeOK, docs
<1> QED
    BY <1>4, <1>5 DEF OxpServe

LEMMA NextType ==
    ASSUME TypeOK, [Next]_vars
    PROVE  TypeOK'
<1>1. ASSUME NEW m \in Reported, OxpChange(m)
      PROVE  TypeOK'
  <2>1. m \in Topology /\ inbox' \in Seq(Answer \cup Topology)
        BY <1>1, RecoveryAssumption DEF OxpChange, TypeOK
  <2> QED
      BY <1>1, <2>1 DEF OxpChange, TypeOK, docs
<1>2. CASE UNCHANGED vars
      BY <1>2 DEF vars, TypeOK
<1> QED
    BY <1>1, <1>2, LinksType, PlaceType, TopologyType, AnswerType, OxpType DEF Next, LcStep

\* Types, for any connections, domains, links, routes and number of changes.
THEOREM TypeCorrect == Spec => []TypeOK
BY InitType, NextType, PTL DEF Spec

(***************************************************************************)
(* The indexes.                                                            *)
(***************************************************************************)
LEMMA InitIndex ==
    ASSUME Init
    PROVE  IndexInv
<1>1. \A s \in Service : FirstRoute[s].segs # {}
      BY RecoveryAssumption
<1>2. \A s \in Service : Placed(s) /\ index[s] = solutions[s] /\ listed[s] = TRUE
      BY <1>1 DEF Init, Placed
<1>3. lc.pc # "place"
      BY DEF Init, Idle
<1> QED
    BY <1>2, <1>3 DEF IndexInv, RemovedFirst, Follows

\* A step that leaves the path and the indexes of t alone leaves them in
\* agreement.
LEMMA Untouched ==
    ASSUME NEW t \in Service, Follows(t), hurt[t] \subseteq hurt'[t],
           breakdowns'[t] = breakdowns[t], conns'[t].partial = conns[t].partial,
           \/ "publish" \in hurt'[t]
           \/ /\ index'[t] = index[t] /\ listed'[t] = listed[t]
              /\ solutions'[t] = solutions[t] \/ ~ Placed(t)
    PROVE  Follows(t)'
BY DEF Follows, Placed, Unhurt

\* A removal takes a connection off the indexes it is on.
LEMMA Unlisted ==
    ASSUME TypeOK, NEW t \in Service, Follows(t), Unlist(t),
           UNCHANGED << hurt, solutions >>, breakdowns'[t] = {} \/ conns'[t].partial
    PROVE  Follows(t)'
<1>1. index'[t] = index[t] \ solutions[t] /\ listed'[t] = FALSE
      BY DEF Unlist, TypeOK
<1>2. Placed(t)' = FALSE
      BY DEF Placed
<1>3. Unhurt(t, {"publish"})' => index'[t] = {}
      BY <1>1 DEF Follows, Unhurt
<1> QED
    BY <1>1, <1>2, <1>3 DEF Follows

LEMMA LinksIndex ==
    ASSUME TypeOK, IndexInv, NEW s \in Service, LcSkip(s) \/ LcRemove(s) \/ LcRemoveFails(s)
    PROVE  IndexInv'
<1>1. /\ lc.pc = "links" /\ lc.todo \in SUBSET Service
      /\ lc = [ pc |-> "links", todo |-> lc.todo, was |-> lc.was ]
      BY LcShape DEF LcSkip, LcRemove, LcRemoveFails
<1>2. \A t \in Service : Follows(t)
      BY DEF IndexInv
<1>3. CASE LcSkip(s)
  <2>1. lc'.pc # "place"
        BY <1>1, <1>3 DEF LcSkip, Skip
  <2>2. \A t \in Service : hurt[t] \subseteq hurt'[t]
        BY <1>3 DEF LcSkip, Hit
  <2>3. \A t \in Service : Follows(t)'
        BY <1>2, <1>3, <2>2, Untouched DEF LcSkip, docs
  <2> QED
      BY <2>1, <2>3 DEF IndexInv, RemovedFirst
<1>4. CASE LcRemove(s)
  <2>1. RemovedFirst'
    <3>1. lc'.pc = "place" /\ lc'.sid = s /\ breakdowns'[s] = {}
          BY <1>4 DEF LcRemove, RemoveFor, Goto, TypeOK
    <3> QED
        BY <3>1 DEF RemovedFirst
  <2>2. UNCHANGED << conns, solutions, hurt >> /\ breakdowns'[s] = {}
        BY <1>4 DEF LcRemove, RemoveFor, TypeOK
  <2>3. Follows(s)'
    <3>1. CASE breakdowns[s] = {}
          BY <1>2, <1>4, <2>2, <3>1, Untouched DEF LcRemove, RemoveFor
    <3>2. CASE breakdowns[s] # {}
          BY <1>2, <1>4, <2>2, <3>2, Unlisted DEF LcRemove, RemoveFor
    <3> QED
        BY <3>1, <3>2
  <2>4. ASSUME NEW t \in Service, t # s
        PROVE  Follows(t)'
    <3>1. breakdowns'[t] = breakdowns[t] /\ index'[t] = index[t] /\ listed'[t] = listed[t]
          BY <1>4, <2>4 DEF LcRemove, RemoveFor, Unlist, TypeOK
    <3> QED
        BY <1>2, <2>2, <3>1, Untouched
  <2> QED
      BY <2>1, <2>3, <2>4 DEF IndexInv
<1>5. CASE LcRemoveFails(s)
  <2>1. lc'.pc # "place"
        BY <1>1, <1>5 DEF LcRemoveFails, Skip
  <2>2. \A t \in Service : hurt[t] \subseteq hurt'[t]
        BY <1>5 DEF LcRemoveFails, Hit
  <2>3. "publish" \in hurt'[s] /\ UNCHANGED << conns, breakdowns, solutions, index >>
        BY <1>5 DEF LcRemoveFails, Hit
  <2>4. \A t \in Service : t # s => listed'[t] = listed[t]
        BY <1>5 DEF LcRemoveFails, TypeOK
  <2>5. \A t \in Service : Follows(t)'
        BY <1>2, <2>2, <2>3, <2>4, Untouched
  <2> QED
      BY <2>1, <2>5 DEF IndexInv, RemovedFirst
<1> QED
    BY <1>3, <1>4, <1>5

LEMMA GiveUpIndex ==
    ASSUME TypeOK, lc.pc = "place", NEW st, NEW W, GiveUp(st, W)
    PROVE  /\ \A t \in Service : hurt[t] \subseteq hurt'[t]
           /\ W \subseteq hurt'[lc.sid] /\ lc'.pc # "place"
           /\ conns'[lc.sid].partial = FALSE
           /\ \A t \in Service : t # lc.sid => conns'[t] = conns[t]
<1> DEFINE s == lc.sid
           c == [ Fresh(conns[s]) EXCEPT !.status = st ]
<1>1. s \in Service /\ conns[s] \in Conn
      BY LcShape DEF TypeOK
<1>2. c.partial = FALSE /\ [ c EXCEPT !.status = "ERROR" ].partial = FALSE
      BY <1>1 DEF Fresh, Conn
<1>3. CASE CanMove(st, "ERROR")
  <2>1. /\ conns' = [ conns EXCEPT ![s] = [ c EXCEPT !.status = "ERROR" ] ]
        /\ lc'.pc = "links"
        /\ hurt' = [ hurt EXCEPT ![s] = hurt[s] \cup W ]
        BY <1>3 DEF GiveUp
  <2> QED
      BY <1>1, <1>2, <2>1 DEF TypeOK
<1>4. CASE ~ CanMove(st, "ERROR")
  <2>1. /\ conns' = [ conns EXCEPT ![s] = c ] /\ lc'.pc = "idle"
        /\ \A t \in Service : hurt[t] \cup (IF t = s THEN W ELSE {}) \subseteq hurt'[t]
        BY <1>4 DEF GiveUp, Idle
  <2> QED
      BY <1>1, <1>2, <2>1 DEF TypeOK
<1> QED
    BY <1>3, <1>4

LEMMA PlaceIndex ==
    ASSUME TypeOK, IndexInv, LcPlaceFails \/ \E r \in Route : LcPlace(r) \/ LcPlaceBroken(r)
    PROVE  IndexInv'
<1>0. lc.pc = "place" /\ lc.sid \in Service /\ breakdowns[lc.sid] = {}
      BY LcShape DEF LcPlaceFails, LcPlace, LcPlaceBroken, IndexInv, RemovedFirst
<1>1. PICK s \in Service : s = lc.sid /\ breakdowns[s] = {}
      BY <1>0
<1>2. (\A t \in Service : Follows(t)) /\ Placed(s) = FALSE
      BY <1>1 DEF IndexInv, Placed
<1>3. CASE LcPlaceFails
  <2>1. /\ \A t \in Service : hurt[t] \subseteq hurt'[t]
        /\ lc'.pc # "place"
        /\ \A t \in Service : t # s => conns'[t] = conns[t]
        BY <1>0, <1>1, <1>3, GiveUpIndex DEF LcPlaceFails
  <2>2. \A t \in Service : t # s => solutions'[t] = solutions[t]
        BY <1>1, <1>3 DEF LcPlaceFails, TypeOK
  <2>3. UNCHANGED << breakdowns, index, listed >>
        BY <1>3 DEF LcPlaceFails
  <2>4. Follows(s)'
        BY <1>1, <1>2, <2>1, <2>3 DEF Follows, Placed, Unhurt
  <2>5. \A t \in Service : t # s => Follows(t)'
        BY <1>2, <2>1, <2>2, <2>3, Untouched
  <2> QED
      BY <2>1, <2>4, <2>5 DEF IndexInv, RemovedFirst
<1>4. ASSUME NEW r \in Route, LcPlace(r)
      PROVE  IndexInv'
  <2>1. lc'.pc # "place" /\ hurt' = hurt
        BY <1>4 DEF LcPlace
  <2>2. r.segs # {}
        BY RecoveryAssumption
  <2>3. /\ breakdowns'[s] = r.segs /\ conns'[s].partial = FALSE
        /\ solutions'[s] = r.links /\ index'[s] = index[s] \cup r.links /\ listed'[s] = TRUE
        BY <1>1, <1>4 DEF LcPlace, PlaceOn, Fresh, TypeOK, Conn
  <2>4. \A t \in Service : t # s =>
            /\ breakdowns'[t] = breakdowns[t] /\ conns'[t] = conns[t]
            /\ solutions'[t] = solutions[t] /\ index'[t] = index[t] /\ listed'[t] = listed[t]
        BY <1>1, <1>4 DEF LcPlace, PlaceOn, TypeOK
  <2>5. Follows(s)'
        BY <1>1, <1>2, <2>1, <2>2, <2>3 DEF Follows, Placed, Unhurt
  <2>6. \A t \in Service : t # s => Follows(t)'
        BY <1>2, <2>1, <2>4, Untouched
  <2> QED
      BY <2>1, <2>5, <2>6 DEF IndexInv, RemovedFirst
<1>5. ASSUME NEW r \in Route, LcPlaceBroken(r)
      PROVE  IndexInv'
  <2>1. /\ \A t \in Service : hurt[t] \subseteq hurt'[t]
        /\ "publish" \in hurt'[s] /\ lc'.pc # "place"
        /\ \A t \in Service : t # s => conns'[t] = conns[t]
        BY <1>0, <1>1, <1>5, GiveUpIndex DEF LcPlaceBroken
  <2>2. \A t \in Service : t # s =>
            solutions'[t] = solutions[t] /\ index'[t] = index[t] /\ listed'[t] = listed[t]
        BY <1>1, <1>5 DEF LcPlaceBroken, PlaceOn, TypeOK
  <2>3. breakdowns' = breakdowns
        BY <1>5 DEF LcPlaceBroken
  <2>4. Follows(s)'
        BY <2>1 DEF Follows, Unhurt
  <2>5. \A t \in Service : t # s => Follows(t)'
        BY <1>2, <2>1, <2>2, <2>3, Untouched
  <2> QED
      BY <2>1, <2>4, <2>5 DEF IndexInv, RemovedFirst
<1> QED
    BY <1>3, <1>4, <1>5

LEMMA AnswerIndex ==
    ASSUME TypeOK, IndexInv, LcAnswer
    PROVE  IndexInv'
<1>0. PICK m \in Answer : m = Head(inbox)
      BY DEF LcAnswer
<1>1. PICK s \in Service : s = m.sid /\ m.seg \in Segment
      BY DEF Answer
<1> DEFINE c == Recorded(conns[s], m)
<1>2. c \in Conn /\ c.partial = conns[s].partial
  <2>1. conns[s] \in Conn
        BY <1>1 DEF TypeOK
  <2>2. c \in Conn
        BY <1>1, <2>1, RecordedType
  <2>3. c.partial = conns[s].partial
        BY <2>1 DEF Recorded, Conn
  <2> QED
      BY <2>2, <2>3
<1>3. lc' = lc /\ lc.pc # "place" /\ UNCHANGED << breakdowns, solutions >>
      BY DEF LcAnswer, Idle
<1>4. \A t \in Service : Follows(t)
      BY DEF IndexInv
<1> DEFINE Agree == \A t \in Service : Follows(t)'
<1>5. ASSUME NEW d, conns' = conns \/ (conns' = [ conns EXCEPT ![s] = d ] /\ d.partial = c.partial),
             UNCHANGED << index, listed, hurt >>
      PROVE  Agree
  <2>1. \A t \in Service : conns'[t].partial = conns[t].partial
        BY <1>1, <1>2, <1>5 DEF TypeOK
  <2> QED
      BY <1>3, <1>4, <1>5, <2>1, Untouched
<1>6. ASSUME LcCreated(m), UNCHANGED hurt
      PROVE  Agree
  <2> DEFINE d == [ c EXCEPT !.count = @ + 1 ]
             e == [ d EXCEPT !.status = "UP" ]
  <2>1. d.partial = c.partial /\ e.partial = c.partial
        BY <1>2 DEF Conn
  <2>2. \/ conns' = conns
        \/ conns' = [ conns EXCEPT ![s] = d ]
        \/ conns' = [ conns EXCEPT ![s] = e ]
        BY <1>1, <1>6 DEF LcCreated, Save
  <2>3. UNCHANGED << index, listed >>
        BY <1>6 DEF LcCreated
  <2> QED
      BY <1>5, <1>6, <2>1, <2>2, <2>3
<1>7. ASSUME LcCreatedLate(m), UNCHANGED hurt
      PROVE  Agree
  <2> DEFINE d == [ c EXCEPT !.late = @ \cup {m.seg} ]
  <2>1. d.partial = c.partial
        BY <1>2 DEF Conn
  <2>2. /\ conns' = [ conns EXCEPT ![s] = c ] \/ conns' = [ conns EXCEPT ![s] = d ]
        /\ UNCHANGED << index, listed >>
        BY <1>1, <1>7 DEF LcCreatedLate, Save
  <2> QED
      BY <1>5, <1>7, <2>1, <2>2
<1>8. ASSUME LcDeleted(m), UNCHANGED hurt
      PROVE  Agree
      BY <1>5, <1>1, <1>8 DEF LcDeleted, Save
<1>9. ASSUME LcFailed(m), UNCHANGED hurt
      PROVE  Agree
  <2> DEFINE d == [ c EXCEPT !.status =
                      IF @ \in { "MODIFYING", "UNDER_PROVISIONING" } THEN "DOWN" ELSE @ ]
             e == [ d EXCEPT !.partial = TRUE ]
  <2>1. d.partial = c.partial /\ e.partial = TRUE
        BY <1>2 DEF Conn
  <2>2. CASE m.op = "post" /\ ~ d.partial
    <3>1. conns' = [ conns EXCEPT ![s] = e ] /\ Unlist(s)
          BY <1>1, <1>9, <2>2 DEF LcFailed, Save
    <3>2. Follows(s)'
          BY <1>1, <1>3, <1>4, <1>9, <2>1, <3>1, Unlisted DEF TypeOK
    <3>3. \A t \in Service : t # s =>
              conns'[t] = conns[t] /\ index'[t] = index[t] /\ listed'[t] = listed[t]
          BY <1>1, <3>1 DEF Unlist, TypeOK
    <3>4. \A t \in Service : t # s => Follows(t)'
          BY <1>3, <1>4, <1>9, <3>3, Untouched
    <3> QED
        BY <3>2, <3>4
  <2>3. CASE ~ (m.op = "post" /\ ~ d.partial)
    <3>1. conns' = [ conns EXCEPT ![s] = d ] /\ UNCHANGED << index, listed >>
          BY <1>1, <1>9, <2>3 DEF LcFailed, Save
    <3> QED
        BY <1>5, <1>9, <2>1, <3>1
  <2> QED
      BY <2>2, <2>3
<1>10. ASSUME LcCleanupBroken(m)
       PROVE  Agree
  <2>1. /\ "publish" \in hurt'[s] /\ \A t \in Service : hurt[t] \subseteq hurt'[t]
        /\ UNCHANGED << conns, index >>
        BY <1>1, <1>10 DEF LcCleanupBroken, Hit
  <2>2. \A t \in Service : t # s => listed'[t] = listed[t]
        BY <1>1, <1>10 DEF LcCleanupBroken, TypeOK
  <2> QED
      BY <1>3, <1>4, <2>1, <2>2, Untouched
<1>11. ASSUME UNCHANGED << conns, index, listed, reserved, toLC, hurt >>
       PROVE  Agree
       BY <1>5, <1>11
<1>12. Agree
       BY <1>6, <1>7, <1>8, <1>9, <1>10, <1>11, <1>0, <1>1 DEF LcAnswer
<1> QED
    BY <1>3, <1>12 DEF IndexInv, RemovedFirst

LEMMA NextIndex ==
    ASSUME TypeOK, IndexInv, [Next]_vars
    PROVE  IndexInv'
<1>1. \A t \in Service : Follows(t)
      BY DEF IndexInv
<1>2. ASSUME UNCHANGED << breakdowns, conns, index, listed, solutions >>,
             \A t \in Service : hurt[t] \subseteq hurt'[t],
             lc' = lc \/ lc'.pc # "place"
      PROVE  IndexInv'
  <2>1. \A t \in Service : Follows(t)'
        BY <1>1, <1>2, Untouched
  <2> QED
      BY <1>2, <2>1 DEF IndexInv, RemovedFirst
<1>3. CASE LcTopology
      BY <1>2, <1>3 DEF LcTopology, TakeTopology, docs
<1>4. CASE LcPorts
  <2>1. \A t \in Service : conns'[t].partial = conns[t].partial
        BY <1>4, PortsShape DEF TypeOK, Conn
  <2>2. lc'.pc # "place" /\ \A t \in Service : hurt[t] \subseteq hurt'[t]
        BY <1>4, PortsShape DEF LcPorts, Idle
  <2>3. UNCHANGED << breakdowns, index, listed, solutions >>
        BY <1>4 DEF LcPorts
  <2>4. \A t \in Service : Follows(t)'
        BY <1>1, <2>1, <2>2, <2>3, Untouched
  <2> QED
      BY <2>2, <2>4 DEF IndexInv, RemovedFirst
<1>5. ASSUME NEW g \in Segment, OxpServe(g)
      PROVE  IndexInv'
  <2>1. \A t \in Service : hurt[t] \subseteq hurt'[t]
        BY <1>5 DEF OxpServe, OxpCreate, OxpDelete, Hit
  <2> QED
      BY <1>2, <1>5, <2>1 DEF OxpServe, OxpCreate, OxpDelete, docs
<1>6. ASSUME NEW m \in Reported, OxpChange(m)
      PROVE  IndexInv'
      BY <1>2, <1>6 DEF OxpChange, docs
<1>7. CASE UNCHANGED vars
      BY <1>2, <1>7 DEF vars
<1> QED
    BY <1>3, <1>4, <1>5, <1>6, <1>7, LinksIndex, PlaceIndex, AnswerIndex DEF Next, LcStep

\* The indexes list every connection exactly on the path it is placed on,
\* unless publishing has raised: for any connections, links and routes, and
\* however often the topology changes (_process_path_to_db).
THEOREM IndexFollowsPathCorrect == Spec => []IndexFollowsPath
<1>1. Init => TypeOK /\ IndexInv
      BY InitType, InitIndex
<1>2. TypeOK /\ IndexInv /\ [Next]_vars => (TypeOK /\ IndexInv)'
      BY NextType, NextIndex
<1>3. IndexInv => IndexFollowsPath
      BY DEF IndexInv, Follows, Placed, IndexFollowsPath
<1> QED
    BY <1>1, <1>2, <1>3, PTL DEF Spec

(***************************************************************************)
(* Queues: what is in one, and that something is in it at most once.       *)
(***************************************************************************)
LEMMA AppendParts ==
    ASSUME NEW S, NEW q \in Seq(S), NEW x \in S
    PROVE  /\ Members(Append(q, x)) = Members(q) \cup {x}
           /\ \A X : Once(q, X) /\ (x \notin X \/ Members(q) \cap X = {}) => Once(Append(q, x), X)
<1>1. PICK n \in Nat : n = Len(q)
      OBVIOUS
<1>2. /\ Len(Append(q, x)) = n + 1 /\ Append(q, x)[n + 1] = x
      /\ \A i \in 1 .. n : Append(q, x)[i] = q[i]
      BY <1>1
<1> DEFINE r == Append(q, x)
<1> HIDE DEF r
<1>3. Members(r) = Members(q) \cup {x}
  <2>1. Members(r) \subseteq Members(q) \cup {x}
    <3> SUFFICES ASSUME NEW i \in 1 .. n + 1
                 PROVE  r[i] \in Members(q) \cup {x}
        BY <1>2 DEF Members, r
    <3>1. i \in 1 .. n \/ i = n + 1
          OBVIOUS
    <3> QED
        BY <1>1, <1>2, <3>1 DEF Members, r
  <2>2. x \in Members(r)
    <3>1. n + 1 \in 1 .. n + 1
          OBVIOUS
    <3> QED
        BY <1>2, <3>1 DEF Members, r
  <2>3. ASSUME NEW i \in 1 .. n
        PROVE  q[i] \in Members(r)
    <3>1. i \in 1 .. n + 1 /\ r[i] = q[i]
          BY <1>2 DEF r
    <3> QED
        BY <1>2, <3>1 DEF Members, r
  <2> QED
      BY <1>1, <2>1, <2>2, <2>3 DEF Members
<1>4. ASSUME NEW X, Once(q, X), x \notin X \/ Members(q) \cap X = {}
      PROVE  Once(r, X)
  <2> SUFFICES ASSUME NEW i \in 1 .. n + 1, NEW j \in 1 .. n + 1, r[i] \in X, r[j] \in X
               PROVE  i = j
      BY <1>2 DEF Once, r
  <2>1. \A k \in 1 .. n + 1 : (k \in 1 .. n /\ r[k] = q[k] /\ q[k] \in Members(q)) \/ (k = n + 1 /\ r[k] = x)
        BY <1>1, <1>2 DEF Members, r
  <2>2. CASE x \notin X
        BY <1>1, <1>4, <2>1, <2>2 DEF Once
  <2>3. CASE Members(q) \cap X = {}
        BY <2>1, <2>3
  <2> QED
      BY <1>4, <2>2, <2>3
<1> QED
    BY <1>3, <1>4 DEF r

LEMMA TailParts ==
    ASSUME NEW S, NEW q \in Seq(S), q # << >>
    PROVE  /\ Head(q) \in Members(q) /\ Members(Tail(q)) \subseteq Members(q)
           /\ \A X : Once(q, X) => /\ Once(Tail(q), X)
                                   /\ Head(q) \in X => Members(Tail(q)) \cap X = {}
<1>1. PICK n \in Nat : n = Len(q) /\ n >= 1
      OBVIOUS
<1>2. /\ Len(Tail(q)) = n - 1 /\ Head(q) = q[1]
      /\ \A i \in 1 .. n - 1 : Tail(q)[i] = q[i + 1]
      BY <1>1
<1>3. 1 \in 1 .. n /\ \A i \in 1 .. n - 1 : i + 1 \in 1 .. n /\ i + 1 # 1
      BY <1>1
<1> DEFINE r == Tail(q)
<1> HIDE DEF r
<1>4. Head(q) \in Members(q)
      BY <1>1, <1>2, <1>3 DEF Members
<1>5. Members(r) \subseteq Members(q)
      BY <1>1, <1>2, <1>3 DEF Members, r
<1>6. ASSUME NEW X, Once(q, X)
      PROVE  Once(r, X) /\ (Head(q) \in X => Members(r) \cap X = {})
  <2>1. Once(r, X)
    <3> SUFFICES ASSUME NEW i \in 1 .. n - 1, NEW j \in 1 .. n - 1, r[i] \in X, r[j] \in X
                 PROVE  i = j
        BY <1>2 DEF Once, r
    <3>1. i + 1 = j + 1
          BY <1>1, <1>2, <1>3, <1>6 DEF Once, r
    <3> QED
        BY <3>1
  <2>2. ASSUME Head(q) \in X, NEW i \in 1 .. n - 1
        PROVE  r[i] \notin X
        BY <1>1, <1>2, <1>3, <1>6, <2>2 DEF Once, r
  <2> QED
      BY <1>2, <2>1, <2>2 DEF Members, r
<1> QED
    BY <1>4, <1>5, <1>6 DEF r

(***************************************************************************)
(* What is under way for a connection, and the steps that only take from   *)
(* it.                                                                     *)
(***************************************************************************)
OrdersFewer(s) ==
    \A g \in Segment :
        /\ Creates(s, g)' \subseteq Creates(s, g) /\ Removes(s, g)' \subseteq Removes(s, g)
        /\ Once(toLC[g], OrdersOf("post", s)) => Once(toLC'[g], OrdersOf("post", s))

AnswersFewer(s) ==
    \A g \in Segment :
        /\ Answers(s, g)' \subseteq Answers(s, g)
        /\ Once(inbox, AnswersOf(s, g)) => Once(inbox', AnswersOf(s, g))

LEMMA SameOrders ==
    ASSUME NEW s \in Service, toLC' = toLC
    PROVE  OrdersFewer(s)
BY DEF OrdersFewer, Creates, Removes

LEMMA InboxTaken ==
    ASSUME TypeOK, NEW s \in Service, inbox' = inbox \/ (inbox # << >> /\ inbox' = Tail(inbox))
    PROVE  AnswersFewer(s)
<1>1. inbox' = inbox => AnswersFewer(s)
      BY DEF AnswersFewer, Answers
<1>2. ASSUME inbox # << >>, inbox' = Tail(inbox)
      PROVE  AnswersFewer(s)
  <2>1. inbox \in Seq(Answer \cup Topology)
        BY DEF TypeOK
  <2>2. Members(Tail(inbox)) \subseteq Members(inbox)
        BY <1>2, <2>1, TailParts
  <2>3. \A X : Once(inbox, X) => Once(Tail(inbox), X)
        BY <1>2, <2>1, TailParts
  <2> QED
      BY <1>2, <2>2, <2>3 DEF AnswersFewer, Answers
<1> QED
    BY <1>1, <1>2

\* What publishing adds to the queue of a segment.
Msg(op, s, n) == [ op |-> op, sid |-> s, id |-> n ]

LEMMA MsgParts ==
    ASSUME NEW op, NEW s, NEW n
    PROVE  /\ Msg(op, s, n).op = op /\ Msg(op, s, n).sid = s /\ Msg(op, s, n).id = n
           /\ \A p, t : p # op \/ t # s => Msg(op, s, n) \notin OrdersOf(p, t)
BY DEF Msg, OrdersOf

LEMMA Published ==
    ASSUME TypeOK, NEW op \in { "post", "delete" }, NEW t \in Service,
           NEW B \in SUBSET Segment, NEW F \in [ Segment -> Id ],
           toLC' = Publish(op, t, B, F), NEW g \in Segment
    PROVE  /\ g \notin B => toLC'[g] = toLC[g]
           /\ g \in B => Members(toLC'[g]) = Members(toLC[g]) \cup { Msg(op, t, F[g]) }
<1>1. Msg(op, t, F[g]) \in Order
      BY DEF Order, Msg
<1>2. toLC[g] \in Seq(Order)
      BY DEF TypeOK
<1>3. toLC'[g] = IF g \in B THEN Append(toLC[g], Msg(op, t, F[g])) ELSE toLC[g]
      BY DEF Publish, Msg
<1> QED
    BY <1>1, <1>2, <1>3, AppendParts

LEMMA PublishedOnce ==
    ASSUME TypeOK, NEW op \in { "post", "delete" }, NEW t \in Service,
           NEW B \in SUBSET Segment, NEW F \in [ Segment -> Id ],
           toLC' = Publish(op, t, B, F), NEW g \in Segment, NEW X, Once(toLC[g], X),
           Msg(op, t, F[g]) \notin X \/ Members(toLC[g]) \cap X = {}
    PROVE  Once(toLC'[g], X)
<1>1. Msg(op, t, F[g]) \in Order
      BY DEF Order, Msg
<1>2. toLC[g] \in Seq(Order)
      BY DEF TypeOK
<1>3. toLC'[g] = IF g \in B THEN Append(toLC[g], Msg(op, t, F[g])) ELSE toLC[g]
      BY DEF Publish, Msg
<1> QED
    BY <1>1, <1>2, <1>3, AppendParts

\* It adds nothing to what is under way for another connection.
LEMMA PublishedElsewhere ==
    ASSUME TypeOK, NEW op \in { "post", "delete" }, NEW t \in Service,
           NEW B \in SUBSET Segment, NEW F \in [ Segment -> Id ],
           toLC' = Publish(op, t, B, F), NEW s \in Service, s # t
    PROVE  OrdersFewer(s)
<1> SUFFICES ASSUME NEW g \in Segment
             PROVE  /\ Creates(s, g)' \subseteq Creates(s, g)
                    /\ Removes(s, g)' \subseteq Removes(s, g)
                    /\ Once(toLC[g], OrdersOf("post", s)) => Once(toLC'[g], OrdersOf("post", s))
    BY DEF OrdersFewer
<1>1. /\ Msg(op, t, F[g]) \notin OrdersOf("post", s)
      /\ Msg(op, t, F[g]) \notin OrdersOf("delete", s)
      BY MsgParts
<1>2. /\ g \notin B => toLC'[g] = toLC[g]
      /\ g \in B => Members(toLC'[g]) = Members(toLC[g]) \cup { Msg(op, t, F[g]) }
  <2>1. g \notin B => toLC'[g] = toLC[g]
        BY Published
  <2>2. g \in B => Members(toLC'[g]) = Members(toLC[g]) \cup { Msg(op, t, F[g]) }
        BY Published
  <2> QED
      BY <2>1, <2>2
<1>3. Once(toLC[g], OrdersOf("post", s)) => Once(toLC'[g], OrdersOf("post", s))
      BY <1>1, PublishedOnce
<1>4. /\ Creates(s, g) = Members(toLC[g]) \cap OrdersOf("post", s)
      /\ Creates(s, g)' = Members(toLC'[g]) \cap OrdersOf("post", s)
      /\ Removes(s, g) = Members(toLC[g]) \cap OrdersOf("delete", s)
      /\ Removes(s, g)' = Members(toLC'[g]) \cap OrdersOf("delete", s)
      BY DEF Creates, Removes
<1> QED
    BY <1>1, <1>2, <1>3, <1>4

LEMMA FewerAwaited ==
    ASSUME NEW s \in Service, OrdersFewer(s), AnswersFewer(s), NEW g \in Segment
    PROVE  /\ Creates(s, g)' \subseteq Creates(s, g) /\ Removes(s, g)' \subseteq Removes(s, g)
           /\ Answers(s, g)' \subseteq Answers(s, g)
           /\ AwaitedOnce(s, g) => AwaitedOnce(s, g)'
           /\ ~ Awaited(s, g) => ~ Awaited(s, g)'
BY DEF OrdersFewer, AnswersFewer, AwaitedOnce, Awaited

\* A step that writes no more than the status of s.
LEMMA HeldKept ==
    ASSUME NEW s \in Service, Held(s), OrdersFewer(s), AnswersFewer(s),
           conns'[s].count = conns[s].count, conns'[s].evc = conns[s].evc,
           conns'[s].partial = conns[s].partial,
           conns'[s].status \in { "UNDER_PROVISIONING", "UP", "DOWN" },
           conns'[s].status = "UP" => Settled(s),
           breakdowns'[s] = breakdowns[s], reserved'[s] = reserved[s], attempt'[s] = attempt[s],
           \A g \in Segment : << g, attempt[s] >> \in evcs[s] => << g, attempt[s] >> \in evcs'[s]
    PROVE  Held(s)'
<1>1. \A g \in Segment :
          /\ Creates(s, g)' \subseteq Creates(s, g) /\ Removes(s, g)' \subseteq Removes(s, g)
          /\ Answers(s, g)' \subseteq Answers(s, g)
          /\ AwaitedOnce(s, g) => AwaitedOnce(s, g)'
          /\ ~ Awaited(s, g) => ~ Awaited(s, g)'
      BY FewerAwaited
<1>2. /\ Placed(s)' /\ reserved'[s]
      /\ conns'[s].status = "UP" => Settled(s)'
      /\ Provisioned(s)' = Provisioned(s)
      /\ conns'[s].count = Cardinality(Provisioned(s)')
      BY DEF Held, Placed, Settled, Provisioned
<1>3. ASSUME NEW g \in Segment
      PROVE  /\ conns'[s].evc[g] <= attempt'[s]
             /\ Awaited(s, g)' => g \in breakdowns'[s] /\ conns'[s].evc[g] = 0
             /\ AwaitedOnce(s, g)'
             /\ \A o \in Creates(s, g)' : o.id = attempt'[s]
             /\ \A a \in Answers(s, g)' :
                    a.id = attempt'[s] /\ (a.ok => << g, attempt'[s] >> \in evcs'[s])
             /\ \A o \in Removes(s, g)' : o.id < attempt'[s]
             /\ g \in Provisioned(s)' => << g, attempt'[s] >> \in evcs'[s]
      BY <1>1, <1>2, <1>3 DEF Held
<1> QED
    BY <1>2, <1>3 DEF Held

\* A step that leaves s alone, and only takes from what is under way for it.
LEMMA BackedKept ==
    ASSUME NEW s \in Service, Backed(s), hurt[s] \subseteq hurt'[s],
           OrdersFewer(s), AnswersFewer(s), Removed(s) => Removed(s)',
           conns'[s] = conns[s], breakdowns'[s] = breakdowns[s],
           reserved'[s] = reserved[s], attempt'[s] = attempt[s],
           Held(s) => \A g \in Segment :
               << g, attempt[s] >> \in evcs[s] => << g, attempt[s] >> \in evcs'[s]
    PROVE  Backed(s)'
<1> SUFFICES ASSUME Unhurt(s, {"publish", "port"})'
             PROVE  Gone(s)' \/ TakenDown(s)' \/ Held(s)'
    BY DEF Backed
<1>1. Gone(s) \/ TakenDown(s) \/ Held(s)
      BY DEF Backed, Unhurt
<1>2. CASE Gone(s)
  <2>1. \A g \in Segment : ~ Awaited(s, g)' /\ Removes(s, g)' \subseteq Removes(s, g)
        BY <1>2, FewerAwaited DEF Gone
  <2> QED
      BY <1>2, <2>1 DEF Gone
<1>3. CASE TakenDown(s)
      BY <1>3 DEF TakenDown
<1>4. CASE Held(s)
  <2>1. /\ conns'[s].status \in { "UNDER_PROVISIONING", "UP", "DOWN" }
        /\ conns'[s].status = "UP" => Settled(s)
        BY <1>4 DEF Held
  <2> QED
      BY <1>4, <2>1, HeldKept
<1> QED
    BY <1>1, <1>2, <1>3, <1>4

\* When every create has succeeded, every segment is provisioned,
LEMMA SettledAll ==
    ASSUME TypeOK, NEW s \in Service, Held(s), Settled(s)
    PROVE  Provisioned(s) = breakdowns[s]
<1>1. breakdowns[s] \in SUBSET Segment
      BY DEF TypeOK
<1>2. IsFiniteSet(breakdowns[s])
      BY <1>1, RecoveryAssumption, FS_Subset
<1>3. Provisioned(s) \subseteq breakdowns[s]
      BY DEF Provisioned
<1>4. Cardinality(Provisioned(s)) = Cardinality(breakdowns[s])
      BY DEF Held, Settled
<1> QED
    BY <1>2, <1>3, <1>4, FS_Subset

\* and nothing is under way that could create an EVC.
LEMMA SettledQuiet ==
    ASSUME TypeOK, NEW s \in Service, attempt[s] >= 1, Held(s), Settled(s)
    PROVE  \A g \in Segment : ~ Awaited(s, g)
<1> SUFFICES ASSUME NEW g \in Segment, Awaited(s, g)
             PROVE  FALSE
    OBVIOUS
<1>1. g \in breakdowns[s] /\ conns[s].evc[g] = 0
      BY DEF Held
<1>2. conns[s].evc[g] = attempt[s]
      BY <1>1, SettledAll DEF Provisioned
<1> QED
    BY <1>1, <1>2

\* Deletes published for s itself.
LEMMA DeletesPublished ==
    ASSUME TypeOK, NEW s \in Service, NEW B \in SUBSET Segment, NEW F \in [ Segment -> Id ],
           toLC' = Publish("delete", s, B, F), NEW g \in Segment
    PROVE  /\ Creates(s, g)' = Creates(s, g)
           /\ Once(toLC[g], OrdersOf("post", s)) => Once(toLC'[g], OrdersOf("post", s))
           /\ \A o \in Removes(s, g)' : o \in Removes(s, g) \/ (g \in B /\ o.id = F[g])
<1> DEFINE o == Msg("delete", s, F[g])
<1>a. g \in B => Members(toLC'[g]) = Members(toLC[g]) \cup { Msg("delete", s, F[g]) }
      BY Published
<1>b. Msg("delete", s, F[g]) \notin OrdersOf("post", s)
      BY MsgParts
<1>c. Once(toLC[g], OrdersOf("post", s)) => Once(toLC'[g], OrdersOf("post", s))
      BY <1>b, PublishedOnce
<1>1. o \notin OrdersOf("post", s) /\ o.id = F[g]
      BY MsgParts
<1> HIDE DEF o
<1>2. g \notin B => toLC'[g] = toLC[g]
      BY Published
<1>3. g \in B => Members(toLC'[g]) = Members(toLC[g]) \cup { o }
      BY <1>a DEF o
<1>5. /\ Creates(s, g) = Members(toLC[g]) \cap OrdersOf("post", s)
      /\ Creates(s, g)' = Members(toLC'[g]) \cap OrdersOf("post", s)
      /\ Removes(s, g) = Members(toLC[g]) \cap OrdersOf("delete", s)
      /\ Removes(s, g)' = Members(toLC'[g]) \cap OrdersOf("delete", s)
      BY DEF Creates, Removes
<1> QED
    BY <1>1, <1>2, <1>3, <1>5, <1>c

\* Creates published for s, when none is under way.
LEMMA CreatesPublished ==
    ASSUME TypeOK, NEW s \in Service, NEW B \in SUBSET Segment, NEW F \in [ Segment -> Id ],
           toLC' = Publish("post", s, B, F), NEW g \in Segment, Creates(s, g) = {}
    PROVE  /\ Removes(s, g)' = Removes(s, g)
           /\ Once(toLC'[g], OrdersOf("post", s))
           /\ \A o \in Creates(s, g)' : g \in B /\ o.id = F[g]
<1> DEFINE o == Msg("post", s, F[g])
<1>a. g \in B => Members(toLC'[g]) = Members(toLC[g]) \cup { Msg("post", s, F[g]) }
      BY Published, Z3
<1>1. o \notin OrdersOf("delete", s) /\ o.id = F[g]
      BY MsgParts
<1> HIDE DEF o
<1>2. g \notin B => toLC'[g] = toLC[g]
      BY Published
<1>3. g \in B => Members(toLC'[g]) = Members(toLC[g]) \cup { o }
      BY <1>a DEF o
<1>4. /\ Creates(s, g) = Members(toLC[g]) \cap OrdersOf("post", s)
      /\ Creates(s, g)' = Members(toLC'[g]) \cap OrdersOf("post", s)
      /\ Removes(s, g) = Members(toLC[g]) \cap OrdersOf("delete", s)
      /\ Removes(s, g)' = Members(toLC'[g]) \cap OrdersOf("delete", s)
      BY DEF Creates, Removes
<1>5. Once(toLC[g], OrdersOf("post", s))
      BY <1>4 DEF Once, Members
<1>6. Once(toLC'[g], OrdersOf("post", s))
      BY <1>4, <1>5, PublishedOnce
<1> QED
    BY <1>1, <1>2, <1>3, <1>4, <1>6

LEMMA InitBacked ==
    ASSUME Init
    PROVE  BackedInv
<1> SUFFICES ASSUME NEW s \in Service
             PROVE  attempt[s] >= 1 /\ Held(s)
    BY DEF BackedInv, Backed
<1> DEFINE B == FirstRoute[s].segs
<1>1. B \in SUBSET Segment /\ B # {}
      BY RecoveryAssumption
<1> HIDE DEF B
<1>2. /\ attempt[s] = 1 /\ breakdowns[s] = B /\ reserved[s] = TRUE
      /\ conns[s].partial = FALSE /\ conns[s].status = "UP" /\ conns[s].count = Cardinality(B)
      /\ conns[s].evc = Ids(B, 1) /\ evcs[s] = B \X {1}
      BY DEF Init, B
<1>3. \A g \in Segment : conns[s].evc[g] = IF g \in B THEN 1 ELSE 0
      BY <1>2 DEF Ids
<1>4. Provisioned(s) = B
      BY <1>1, <1>2, <1>3 DEF Provisioned
<1>5. Members(<< >>) = {} /\ \A X : Once(<< >>, X)
      BY DEF Members, Once
<1>6. inbox = << >> /\ \A g \in Segment : toLC[g] = << >>
      BY DEF Init
<1>7. \A g \in Segment : Creates(s, g) = {} /\ Answers(s, g) = {} /\ Removes(s, g) = {}
      BY <1>5, <1>6 DEF Creates, Answers, Removes
<1>8. \A g \in Segment : AwaitedOnce(s, g) /\ ~ Awaited(s, g)
      BY <1>5, <1>6, <1>7 DEF AwaitedOnce, Awaited
<1>9. \A g \in B : << g, 1 >> \in evcs[s]
      BY <1>2
<1> QED
    BY <1>1, <1>2, <1>3, <1>4, <1>7, <1>8, <1>9 DEF Held, Placed, Settled

LEMMA LinksBacked ==
    ASSUME TypeOK, OnlyUpFails, BackedInv, NEW s \in Service,
           LcSkip(s) \/ LcRemove(s) \/ LcRemoveFails(s)
    PROVE  BackedInv'
<1>1. lc.pc = "links" /\ \A t \in Service : ~ Removed(t)
      BY DEF LcSkip, LcRemove, LcRemoveFails, Removed
<1>2. \A t \in Service : Backed(t)
      BY DEF BackedInv
<1> DEFINE F == conns[s].evc
           B == Deletable(breakdowns[s], conns[s])
<1>3. F \in [ Segment -> Id ] /\ B \in SUBSET Segment
      BY DEF TypeOK, Conn, Deletable
<1>4. inbox' = inbox /\ UNCHANGED << attempt, evcs, conns >>
      BY DEF LcSkip, LcRemove, LcRemoveFails, docs, oxps
<1>5. \A t \in Service : AnswersFewer(t)
      BY <1>4, InboxTaken
<1>6. CASE LcSkip(s)
  <2>1. /\ UNCHANGED << conns, breakdowns, reserved, toLC >>
        /\ \A t \in Service : hurt[t] \subseteq hurt'[t]
        BY <1>6 DEF LcSkip, Hit, docs
  <2>2. \A t \in Service : OrdersFewer(t)
        BY <2>1, SameOrders
  <2>3. \A t \in Service : Backed(t)'
        BY <1>1, <1>2, <1>4, <1>5, <2>1, <2>2, BackedKept
  <2> QED
      BY <2>3 DEF BackedInv
<1>7. CASE LcRemove(s)
  <2>1. /\ toLC' = Publish("delete", s, B, F) /\ hurt' = hurt /\ breakdowns'[s] = {}
        /\ \A t \in Service : t # s => breakdowns'[t] = breakdowns[t] /\ reserved'[t] = reserved[t]
        /\ lc'.pc = "place" /\ lc'.sid = s
        BY <1>7 DEF LcRemove, RemoveFor, Goto, TypeOK
  <2> HIDE DEF B, F
  <2>2. ASSUME NEW t \in Service, t # s
        PROVE  Backed(t)'
    <3>1. OrdersFewer(t)
          BY <1>3, <2>1, <2>2, PublishedElsewhere
    <3> QED
        BY <1>1, <1>2, <1>4, <1>5, <2>1, <2>2, <3>1, BackedKept
  <2>3. Backed(s)'
    <3> SUFFICES ASSUME Unhurt(s, {"publish", "port"})'
                 PROVE  Gone(s)'
        BY <1>2, <1>4 DEF Backed
    <3>1. attempt[s] >= 1 /\ (Gone(s) \/ TakenDown(s) \/ Held(s))
          BY <1>2, <2>1 DEF Backed, Unhurt
    <3>2. \A g \in Segment : ~ Awaited(s, g)
      <4>1. conns[s].status # "UNDER_PROVISIONING" /\ conns[s].status # "DOWN"
            BY <1>7 DEF LcRemove, OnlyUpFails
      <4>2. CASE Gone(s)
            BY <4>2 DEF Gone
      <4>3. CASE Held(s)
        <5>1. Settled(s)
              BY <4>1, <4>3 DEF Held
        <5> QED
            BY <3>1, <4>3, <5>1, SettledQuiet
      <4> QED
          BY <3>1, <4>1, <4>2, <4>3 DEF TakenDown
    <3>3. \A g \in Segment : \A o \in Removes(s, g) : o.id <= attempt[s]
      <4>1. CASE Gone(s)
            BY <4>1 DEF Gone
      <4>2. CASE Held(s)
        <5> SUFFICES ASSUME NEW g \in Segment, NEW o \in Removes(s, g)
                     PROVE  o.id <= attempt[s]
            OBVIOUS
        <5>1. o.id < attempt[s]
              BY <4>2 DEF Held
        <5>2. o.id \in Nat /\ attempt[s] \in Nat
              BY DEF Removes, OrdersOf, Order, Id, TypeOK
        <5> QED
            BY <5>1, <5>2
      <4> QED
          BY <1>7, <3>1, <4>1, <4>2 DEF TakenDown, LcRemove, OnlyUpFails
    <3>4. \A g \in B : F[g] <= attempt[s]
      <4>1. Gone(s) => B = {}
            BY DEF Gone, B, Deletable
      <4>2. Held(s) => \A g \in Segment : F[g] <= attempt[s]
            BY DEF Held, F
      <4> QED
          BY <1>3, <1>7, <3>1, <4>1, <4>2 DEF TakenDown, LcRemove, OnlyUpFails
    <3>5. ASSUME NEW g \in Segment
          PROVE  ~ Awaited(s, g)' /\ \A o \in Removes(s, g)' : o.id <= attempt'[s]
      <4>0. Creates(s, g)' = Creates(s, g)
            BY <1>3, <2>1, DeletesPublished
      <4>1. \A o \in Removes(s, g)' : o \in Removes(s, g) \/ (g \in B /\ o.id = F[g])
            BY <1>3, <2>1, DeletesPublished
      <4>2. Answers(s, g)' = Answers(s, g)
            BY <1>4 DEF Answers
      <4>3. ~ Awaited(s, g)'
            BY <3>2, <4>0, <4>2 DEF Awaited
      <4>4. \A o \in Removes(s, g)' : o.id <= attempt'[s]
            BY <1>4, <3>3, <3>4, <4>1
      <4> QED
          BY <4>3, <4>4
    <3>6. Removed(s)'
          BY <2>1 DEF Removed, Idle
    <3> QED
        BY <2>1, <3>5, <3>6 DEF Gone
  <2> QED
      BY <2>2, <2>3 DEF BackedInv
<1>8. CASE LcRemoveFails(s)
  <2>1. PICK D \in SUBSET B : toLC' = Publish("delete", s, D, F)
        BY <1>8 DEF LcRemoveFails
  <2>2. /\ hurt' = Hit({s}, "publish") /\ breakdowns' = breakdowns
        /\ \A t \in Service : t # s => reserved'[t] = reserved[t]
        BY <1>8 DEF LcRemoveFails, TypeOK
  <2> HIDE DEF B, F
  <2>3. "publish" \in hurt'[s] /\ \A t \in Service : hurt[t] \subseteq hurt'[t]
        BY <2>2 DEF Hit
  <2>4. ASSUME NEW t \in Service, t # s
        PROVE  Backed(t)'
    <3>1. OrdersFewer(t)
          BY <1>3, <2>1, <2>4, PublishedElsewhere
    <3> QED
        BY <1>1, <1>2, <1>4, <1>5, <2>2, <2>3, <2>4, <3>1, BackedKept
  <2>5. Backed(s)'
        BY <1>2, <1>4, <2>3 DEF Backed, Unhurt
  <2> QED
      BY <2>4, <2>5 DEF BackedInv
<1> QED
    BY <1>6, <1>7, <1>8

\* What a failed placement leaves in the document.
LEMMA GiveUpStatus ==
    ASSUME TypeOK, lc.pc = "place", NEW st \in Status, NEW W, GiveUp(st, W)
    PROVE  conns'[lc.sid].status \in { st, "ERROR" }
<1> DEFINE s == lc.sid
           c == [ Fresh(conns[s]) EXCEPT !.status = st ]
<1>1. s \in Service /\ Fresh(conns[s]) \in Conn
      BY LcShape, FreshType DEF TypeOK
<1>2. c.status = st /\ [ c EXCEPT !.status = "ERROR" ].status = "ERROR"
      BY <1>1 DEF Conn
<1>3. \/ conns' = [ conns EXCEPT ![s] = [ c EXCEPT !.status = "ERROR" ] ]
      \/ conns' = [ conns EXCEPT ![s] = c ]
      BY DEF GiveUp
<1> HIDE DEF c
<1>4. conns'[s] = [ c EXCEPT !.status = "ERROR" ] \/ conns'[s] = c
      BY <1>1, <1>3 DEF TypeOK
<1> QED
    BY <1>2, <1>4

\* A connection that is placed on a route with nothing else under way.
LEMMA PlacedHeld ==
    ASSUME TypeOK, NEW r \in Route, LcPlace(r), NEW s \in Service, s = lc.sid, Gone(s)
    PROVE  Held(s)'
<1> DEFINE n == attempt[s] + 1
           F == Ids(r.segs, n)
<1>1. r.segs \in SUBSET Segment /\ r.segs # {} /\ attempt[s] \in Nat /\ n \in Nat
      BY RecoveryAssumption DEF TypeOK
<1>2. /\ breakdowns'[s] = r.segs /\ attempt'[s] = n /\ reserved'[s] = TRUE
      /\ inbox' = inbox /\ evcs' = evcs
      BY DEF LcPlace, PlaceOn, TypeOK, oxps
<1>3. toLC' = Publish("post", s, r.segs, F)
      BY <1>2 DEF LcPlace
<1>4. /\ conns'[s].status = "UNDER_PROVISIONING" /\ conns'[s].partial = FALSE
      /\ conns'[s].count = 0 /\ conns'[s].evc = NoIds
      BY DEF LcPlace, Fresh, TypeOK, Conn
<1>5. F \in [ Segment -> Id ] /\ \A g \in r.segs : F[g] = n
      BY <1>1, IdsType DEF Ids
<1> HIDE DEF F
<1>6. \A g \in Segment : conns'[s].evc[g] = 0
      BY <1>4 DEF NoIds
<1>7. Provisioned(s)' = {}
      BY <1>1, <1>2, <1>6 DEF Provisioned
<1>8. ASSUME NEW g \in Segment
      PROVE  /\ conns'[s].evc[g] <= attempt'[s]
             /\ Awaited(s, g)' => g \in breakdowns'[s] /\ conns'[s].evc[g] = 0
             /\ AwaitedOnce(s, g)'
             /\ \A o \in Creates(s, g)' : o.id = attempt'[s]
             /\ Answers(s, g)' = {}
             /\ \A o \in Removes(s, g)' : o.id < attempt'[s]
  <2>1. Creates(s, g) = {} /\ Answers(s, g) = {} /\ \A o \in Removes(s, g) : o.id <= attempt[s]
        BY DEF Gone, Awaited
  <2>2. Answers(s, g)' = {}
        BY <1>2, <2>1 DEF Answers
  <2>3. Once(inbox', AnswersOf(s, g))
        BY <2>2 DEF Answers, Once, Members
  <2>4. Removes(s, g)' = Removes(s, g) /\ Once(toLC'[g], OrdersOf("post", s))
        BY <1>1, <1>3, <1>5, <2>1, CreatesPublished
  <2>5. \A o \in Creates(s, g)' : g \in r.segs /\ o.id = F[g]
        BY <1>1, <1>3, <1>5, <2>1, CreatesPublished
  <2>6. \A o \in Creates(s, g)' : g \in r.segs /\ o.id = attempt'[s]
        BY <1>2, <1>5, <2>5
  <2>7. \A o \in Removes(s, g)' : o.id < attempt'[s]
    <3> SUFFICES ASSUME NEW o \in Removes(s, g)
                 PROVE  o.id < n
        BY <1>2, <2>4
    <3>1. o.id \in Nat
          BY DEF Removes, OrdersOf, Order, Id
    <3> QED
        BY <1>1, <2>1, <3>1
  <2>8. Awaited(s, g)' => g \in breakdowns'[s] /\ conns'[s].evc[g] = 0
        BY <1>2, <1>6, <2>2, <2>6 DEF Awaited
  <2>9. AwaitedOnce(s, g)'
        BY <2>2, <2>3, <2>4 DEF AwaitedOnce
  <2> QED
      BY <1>1, <1>2, <1>6, <2>2, <2>6, <2>7, <2>8, <2>9
<1>9. Placed(s)' /\ conns'[s].count = Cardinality(Provisioned(s)')
      BY <1>1, <1>2, <1>4, <1>7, FS_EmptySet DEF Placed
<1> QED
    BY <1>2, <1>4, <1>7, <1>8, <1>9 DEF Held

LEMMA PlaceBacked ==
    ASSUME TypeOK, IndexInv, BackedInv,
           LcPlaceFails \/ \E r \in Route : LcPlace(r) \/ LcPlaceBroken(r)
    PROVE  BackedInv'
<1>1. lc.pc = "place" /\ lc.sid \in Service /\ breakdowns[lc.sid] = {}
      BY LcShape DEF LcPlaceFails, LcPlace, LcPlaceBroken, IndexInv, RemovedFirst
<1>2. PICK s \in Service : s = lc.sid /\ breakdowns[s] = {}
      BY <1>1
<1>3. \A t \in Service : Backed(t) /\ (t # s => ~ Removed(t))
      BY <1>2 DEF BackedInv, Removed
<1>4. Unhurt(s, {"publish", "port"}) => Gone(s)
      BY <1>2, <1>3 DEF Backed, TakenDown, Held, Placed
<1>5. inbox' = inbox /\ evcs' = evcs
      BY DEF LcPlaceFails, LcPlace, LcPlaceBroken, oxps
<1>6. \A t \in Service : AnswersFewer(t)
      BY <1>5, InboxTaken
<1>7. CASE LcPlaceFails
  <2>1. /\ UNCHANGED << breakdowns, reserved, toLC, attempt >>
        /\ GiveUp("RECOVERING", {})
        BY <1>7 DEF LcPlaceFails
  <2>2. /\ \A t \in Service : hurt[t] \subseteq hurt'[t]
        /\ \A t \in Service : t # s => conns'[t] = conns[t]
        /\ conns'[s].status # "UP"
        BY <1>1, <1>2, <2>1, GiveUpIndex, GiveUpStatus, StatusNames
  <2>3. \A t \in Service : OrdersFewer(t)
        BY <2>1, SameOrders
  <2>4. \A t \in Service : t # s => Backed(t)'
        BY <1>3, <1>5, <1>6, <2>1, <2>2, <2>3, BackedKept
  <2>5. Backed(s)'
    <3> SUFFICES ASSUME Unhurt(s, {"publish", "port"})'
                 PROVE  Gone(s)'
        BY <1>3, <2>1 DEF Backed
    <3>1. Gone(s)
          BY <1>4, <2>2 DEF Unhurt
    <3>2. \A g \in Segment : ~ Awaited(s, g)' /\ Removes(s, g)' \subseteq Removes(s, g)
          BY <1>6, <2>3, <3>1, FewerAwaited DEF Gone
    <3> QED
        BY <2>1, <2>2, <3>1, <3>2 DEF Gone
  <2> QED
      BY <2>4, <2>5 DEF BackedInv
<1>8. ASSUME NEW r \in Route, LcPlace(r)
      PROVE  BackedInv'
  <2>1. PICK F \in [ Segment -> Id ] : toLC' = Publish("post", s, r.segs, F)
    <3>1. attempt'[s] \in Nat /\ r.segs \in SUBSET Segment
          BY <1>2, <1>8, RecoveryAssumption DEF LcPlace, TypeOK
    <3> QED
        BY <1>2, <1>8, <3>1, IdsType DEF LcPlace
  <2>2. /\ r.segs \in SUBSET Segment /\ hurt' = hurt /\ attempt'[s] >= 1
        /\ \A t \in Service : t # s =>
               /\ conns'[t] = conns[t] /\ breakdowns'[t] = breakdowns[t]
               /\ reserved'[t] = reserved[t] /\ attempt'[t] = attempt[t]
        BY <1>2, <1>8, RecoveryAssumption DEF LcPlace, PlaceOn, TypeOK
  <2>3. ASSUME NEW t \in Service, t # s
        PROVE  Backed(t)'
    <3>1. OrdersFewer(t)
          BY <2>1, <2>2, <2>3, PublishedElsewhere
    <3> QED
        BY <1>3, <1>5, <1>6, <2>2, <2>3, <3>1, BackedKept
  <2>4. Backed(s)'
        BY <1>2, <1>4, <1>8, <2>2, PlacedHeld DEF Backed, Unhurt
  <2> QED
      BY <2>3, <2>4 DEF BackedInv
<1>9. ASSUME NEW r \in Route, LcPlaceBroken(r)
      PROVE  BackedInv'
  <2>1. PICK D \in SUBSET Segment, F \in [ Segment -> Id ] : toLC' = Publish("post", s, D, F)
    <3>1. attempt'[s] \in Nat /\ r.segs \in SUBSET Segment
          BY <1>2, <1>9, RecoveryAssumption DEF LcPlaceBroken, TypeOK
    <3>2. PICK D \in SUBSET r.segs : toLC' = Publish("post", s, D, Ids(D, attempt'[s]))
          BY <1>2, <1>9 DEF LcPlaceBroken
    <3>3. D \in SUBSET Segment /\ Ids(D, attempt'[s]) \in [ Segment -> Id ]
          BY <3>1, <3>2, IdsType
    <3> QED
        BY <3>2, <3>3
  <2>2. /\ breakdowns' = breakdowns /\ attempt'[s] >= 1
        /\ \A t \in Service : t # s => reserved'[t] = reserved[t] /\ attempt'[t] = attempt[t]
        BY <1>2, <1>9 DEF LcPlaceBroken, PlaceOn, TypeOK
  <2>3. /\ \A t \in Service : hurt[t] \subseteq hurt'[t]
        /\ \A t \in Service : t # s => conns'[t] = conns[t]
        /\ "publish" \in hurt'[s]
        BY <1>1, <1>2, <1>9, GiveUpIndex DEF LcPlaceBroken
  <2>4. ASSUME NEW t \in Service, t # s
        PROVE  Backed(t)'
    <3>1. OrdersFewer(t)
          BY <2>1, <2>4, PublishedElsewhere
    <3> QED
        BY <1>3, <1>5, <1>6, <2>2, <2>3, <2>4, <3>1, BackedKept
  <2>5. Backed(s)'
        BY <2>2, <2>3 DEF Backed, Unhurt
  <2> QED
      BY <2>4, <2>5 DEF BackedInv
<1> QED
    BY <1>7, <1>8, <1>9

LEMMA RecordedParts ==
    ASSUME NEW c \in Conn, NEW m \in Answer
    PROVE  /\ Recorded(c, m) \in Conn
           /\ Recorded(c, m).status = c.status /\ Recorded(c, m).count = c.count
           /\ Recorded(c, m).partial = c.partial
           /\ m.op = "delete" => Recorded(c, m).evc = c.evc
           /\ m.op = "post" /\ m.ok => Recorded(c, m).evc = [ c.evc EXCEPT ![m.seg] = m.id ]
<1>1. c.evc \in [ Segment -> Id ] /\ m.seg \in Segment
      BY DEF Conn, Answer
<1>2. Recorded(c, m) = [ c EXCEPT !.evc = [ c.evc EXCEPT ![m.seg] =
          IF m.op = "delete" THEN c.evc[m.seg] ELSE IF m.ok THEN m.id ELSE 0 ] ]
      BY DEF Recorded
<1> DEFINE e == [ c.evc EXCEPT ![m.seg] =
                    IF m.op = "delete" THEN c.evc[m.seg] ELSE IF m.ok THEN m.id ELSE 0 ]
<1>3. m.op = "delete" => e = c.evc
      BY <1>1
<1>4. m.op = "post" /\ m.ok => e = [ c.evc EXCEPT ![m.seg] = m.id ]
      BY <1>1
<1> HIDE DEF e
<1>5. /\ [ c EXCEPT !.evc = e ].status = c.status /\ [ c EXCEPT !.evc = e ].count = c.count
      /\ [ c EXCEPT !.evc = e ].partial = c.partial /\ [ c EXCEPT !.evc = e ].evc = e
      BY DEF Conn
<1>6. Recorded(c, m) = [ c EXCEPT !.evc = e ]
      BY <1>2 DEF e
<1> QED
    BY <1>3, <1>4, <1>5, <1>6, RecordedType

\* The success of a create is counted and its EVC recorded.
LEMMA CreatedHeld ==
    ASSUME TypeOK, NEW m \in Answer, NEW s \in Service, s = m.sid, attempt[s] >= 1, Held(s),
           m \in Members(inbox), AnswersFewer(s), LcCreated(m),
           Answers(s, m.seg)' = {},
           UNCHANGED << breakdowns, evcs, attempt >>
    PROVE  Held(s)'
<1> DEFINE g == m.seg
           c == Recorded(conns[s], m)
           d == [ c EXCEPT !.count = c.count + 1 ]
           u == [ d EXCEPT !.status = "UP" ]
<1>1. /\ m.ok /\ m.op = "post" /\ g \in Segment /\ UNCHANGED << reserved, toLC >>
      BY DEF LcCreated, Answer
<1>2. conns[s] \in Conn
      BY DEF TypeOK
<1>3. /\ c \in Conn /\ c.status = conns[s].status /\ c.count = conns[s].count
      /\ c.partial = conns[s].partial /\ c.evc = [ conns[s].evc EXCEPT ![g] = m.id ]
      BY <1>1, <1>2, RecordedParts
<1>4. /\ d.count = conns[s].count + 1 /\ u.count = conns[s].count + 1
      /\ d.evc = c.evc /\ u.evc = c.evc /\ d.partial = conns[s].partial
      /\ u.partial = conns[s].partial /\ d.status = conns[s].status /\ u.status = "UP"
      BY <1>3 DEF Conn
<1>5. \/ conns' = conns
      \/ d.count # Cardinality(breakdowns[s]) /\ conns' = [ conns EXCEPT ![s] = d ]
      \/ d.count = Cardinality(breakdowns[s]) /\ conns' = [ conns EXCEPT ![s] = u ]
      BY <1>3 DEF LcCreated, Save
<1> HIDE DEF c, d, u, g
<1>6. OrdersFewer(s)
      BY <1>1, SameOrders
<1>7. m \in Answers(s, g)
      BY <1>1 DEF Answers, AnswersOf, g
<1>8. /\ g \in breakdowns[s] /\ conns[s].evc[g] = 0 /\ m.id = attempt[s]
      /\ << g, attempt[s] >> \in evcs[s] /\ Creates(s, g) = {}
      BY <1>1, <1>7 DEF Held, Awaited, AwaitedOnce
<1>9. CASE conns' = conns
  <2>1. conns'[s].status = "UP" => Settled(s)
        BY <1>9 DEF Held
  <2>2. conns'[s].status \in { "UNDER_PROVISIONING", "UP", "DOWN" }
        BY <1>9 DEF Held
  <2> QED
      BY <1>1, <1>6, <1>9, <2>1, <2>2, HeldKept
<1>10. ASSUME NEW x, x = d \/ x = u, conns' = [ conns EXCEPT ![s] = x ],
              x.status = "UP" => x.count = Cardinality(breakdowns[s]), x.status \in { "UNDER_PROVISIONING", "UP", "DOWN" }
       PROVE  Held(s)'
  <2>1. /\ conns'[s] = x /\ x.count = conns[s].count + 1 /\ x.partial = conns[s].partial
        /\ x.evc = [ conns[s].evc EXCEPT ![g] = attempt[s] ]
        BY <1>3, <1>4, <1>8, <1>10 DEF TypeOK
  <2>2. conns[s].evc \in [ Segment -> Id ] /\ attempt[s] \in Nat /\ breakdowns[s] \in SUBSET Segment
        BY <1>2 DEF Conn, TypeOK
  <2>3. /\ conns'[s].evc[g] = attempt[s]
        /\ \A h \in Segment : h # g => conns'[s].evc[h] = conns[s].evc[h]
        BY <1>1, <2>1, <2>2 DEF g
  <2>4. Provisioned(s)' = Provisioned(s) \cup {g}
        BY <1>8, <2>2, <2>3 DEF Provisioned
  <2>5. g \notin Provisioned(s)
        BY <1>8, <2>2 DEF Provisioned
  <2>6. IsFiniteSet(Provisioned(s))
        BY <2>2, RecoveryAssumption, FS_Subset DEF Provisioned
  <2>7. conns'[s].count = Cardinality(Provisioned(s)')
    <3>1. Cardinality(Provisioned(s) \cup {g}) = Cardinality(Provisioned(s)) + 1
          BY <2>5, <2>6, FS_AddElement
    <3>2. conns[s].count = Cardinality(Provisioned(s))
          BY DEF Held
    <3> QED
        BY <2>1, <2>4, <3>1, <3>2
  <2>8. ASSUME NEW h \in Segment
        PROVE  /\ conns'[s].evc[h] <= attempt'[s]
               /\ Awaited(s, h)' => h \in breakdowns'[s] /\ conns'[s].evc[h] = 0
               /\ AwaitedOnce(s, h)'
               /\ \A o \in Creates(s, h)' : o.id = attempt'[s]
               /\ \A a \in Answers(s, h)' :
                      a.id = attempt'[s] /\ (a.ok => << h, attempt'[s] >> \in evcs'[s])
               /\ \A o \in Removes(s, h)' : o.id < attempt'[s]
               /\ h \in Provisioned(s)' => << h, attempt'[s] >> \in evcs'[s]
    <3>1. /\ Creates(s, h)' \subseteq Creates(s, h) /\ Removes(s, h)' \subseteq Removes(s, h)
          /\ Answers(s, h)' \subseteq Answers(s, h)
          /\ AwaitedOnce(s, h) => AwaitedOnce(s, h)'
          /\ ~ Awaited(s, h) => ~ Awaited(s, h)'
          BY <1>6, FewerAwaited
    <3>2. conns'[s].evc[h] <= attempt'[s]
      <4>1. conns[s].evc[h] <= attempt[s]
            BY DEF Held
      <4>2. attempt[s] <= attempt[s]
            BY <2>2
      <4>3. conns'[s].evc[h] = conns[s].evc[h] \/ conns'[s].evc[h] = attempt[s]
            BY <2>3
      <4> QED
          BY <4>1, <4>2, <4>3
    <3>3. ~ Awaited(s, g)'
      <4>1. Creates(s, g)' = {}
            BY <1>1, <1>6, <1>8, FewerAwaited DEF g
      <4> QED
          BY <4>1 DEF Awaited, g
    <3>4. Awaited(s, h)' => h \in breakdowns'[s] /\ conns'[s].evc[h] = 0
          BY <2>3, <3>1, <3>3 DEF Held
    <3>5. h \in Provisioned(s)' => << h, attempt'[s] >> \in evcs'[s]
          BY <1>8, <2>4 DEF Held
    <3> QED
        BY <3>1, <3>2, <3>4, <3>5 DEF Held
  <2>9. Placed(s)' /\ reserved'[s] /\ (conns'[s].status = "UP" => Settled(s)')
        BY <1>1, <1>10, <2>1 DEF Held, Placed, Settled
  <2> QED
      BY <1>10, <2>1, <2>7, <2>8, <2>9 DEF Held
<1>11. conns[s].status = "UP" => ~ Awaited(s, g)
       BY <1>1, SettledQuiet DEF Held, g
<1>12. conns[s].status # "UP"
       BY <1>7, <1>11 DEF Awaited
<1>13. CASE d.count # Cardinality(breakdowns[s]) /\ conns' = [ conns EXCEPT ![s] = d ]
       BY <1>4, <1>10, <1>12, <1>13 DEF Held
<1>14. CASE d.count = Cardinality(breakdowns[s]) /\ conns' = [ conns EXCEPT ![s] = u ]
       BY <1>4, <1>10, <1>14
<1> QED
    BY <1>5, <1>9, <1>13, <1>14

LEMMA AnswerBacked ==
    ASSUME TypeOK, OnlyUpFails, BackedInv, LcAnswer
    PROVE  BackedInv'
<1>0. /\ inbox # << >> /\ Head(inbox) \in Answer /\ inbox' = Tail(inbox)
      /\ inbox \in Seq(Answer \cup Topology)
      /\ UNCHANGED << breakdowns, evcs, attempt, lc >>
      BY DEF LcAnswer, TypeOK, oxps
<1>1. PICK m \in Answer : m = Head(inbox)
      BY <1>0
<1>2. PICK s \in Service : s = m.sid /\ m.seg \in Segment /\ m.op \in { "post", "delete" }
      BY DEF Answer
<1> DEFINE b == conns[s]
           c == Recorded(b, m)
<1>3. b \in Conn /\ breakdowns[s] \in SUBSET Segment
      BY DEF TypeOK
<1>4. /\ c \in Conn /\ c.status = b.status /\ c.count = b.count /\ c.partial = b.partial
      /\ m.op = "delete" => c.evc = b.evc
      BY <1>3, RecordedParts
<1>5. \A t \in Service : Backed(t) /\ AnswersFewer(t)
      BY <1>0, InboxTaken DEF BackedInv
<1>6. m \in Members(inbox)
      BY <1>0, <1>1, TailParts
<1>7. \/ /\ UNCHANGED << conns, index, listed, reserved, toLC, hurt >>
         /\ breakdowns[s] = {}
      \/ /\ breakdowns[s] # {}
         /\ \/ (LcCreated(m) \/ LcCreatedLate(m) \/ LcDeleted(m) \/ LcFailed(m)) /\ UNCHANGED hurt
            \/ LcCleanupBroken(m)
      BY <1>1, <1>2 DEF LcAnswer
<1>8. toLC' = toLC \/ \E D \in SUBSET Segment, F \in [ Segment -> Id ] : toLC' = Publish("delete", s, D, F)
  <2>1. c.evc \in [ Segment -> Id ] /\ [ c EXCEPT !.status =
            IF @ \in { "MODIFYING", "UNDER_PROVISIONING" } THEN "DOWN" ELSE @ ].evc = c.evc
        BY <1>4 DEF Conn
  <2>2. LcCreatedLate(m) => toLC' = toLC \/ toLC' = Publish("delete", s, {m.seg} \cap breakdowns[s], c.evc)
        BY <1>2 DEF LcCreatedLate
  <2>3. LcFailed(m) => \/ toLC' = toLC
                       \/ \E D \in SUBSET breakdowns[s] : toLC' = Publish("delete", s, D, c.evc)
        BY <1>2, <2>1 DEF LcFailed, Deletable
  <2>4. LcCleanupBroken(m) => \/ toLC' = toLC
                              \/ \E D \in SUBSET breakdowns[s] : toLC' = Publish("delete", s, D, c.evc)
        BY <1>2 DEF LcCleanupBroken, Deletable
  <2>5. LcCreated(m) \/ LcDeleted(m) => toLC' = toLC
        BY DEF LcCreated, LcDeleted
  <2> HIDE DEF c
  <2> QED
      BY <1>2, <1>3, <1>7, <2>1, <2>2, <2>3, <2>4, <2>5
<1>9. /\ \A t \in Service : hurt[t] \subseteq hurt'[t]
      /\ LcCleanupBroken(m) => "publish" \in hurt'[s]
      BY <1>2, <1>7 DEF LcCleanupBroken, Hit
<1>10. \A t \in Service : t # s => conns'[t] = conns[t] /\ reserved'[t] = reserved[t]
       BY <1>2, <1>7 DEF LcCreated, LcCreatedLate, LcDeleted, LcFailed, LcCleanupBroken, Save, TypeOK
<1> HIDE DEF c, b
<1>11. ASSUME NEW t \in Service, t # s
       PROVE  Backed(t)'
  <2>1. OrdersFewer(t)
        BY <1>8, <1>11, SameOrders, PublishedElsewhere
  <2>2. Removed(t) => Removed(t)'
        BY <1>0 DEF Removed
  <2> QED
      BY <1>0, <1>5, <1>9, <1>10, <1>11, <2>1, <2>2, BackedKept
<1>12. Backed(s)'
  <2>1. CASE UNCHANGED << conns, index, listed, reserved, toLC, hurt >>
    <3>1. OrdersFewer(s) /\ (Removed(s) => Removed(s)')
          BY <1>0, <2>1, SameOrders DEF Removed
    <3> QED
        BY <1>0, <1>5, <2>1, <3>1, BackedKept
  <2>2. CASE LcCleanupBroken(m)
        BY <1>0, <1>5, <1>9, <2>2 DEF Backed, Unhurt
  <2>3. CASE /\ breakdowns[s] # {}
             /\ LcCreated(m) \/ LcCreatedLate(m) \/ LcDeleted(m) \/ LcFailed(m)
    <3> SUFFICES ASSUME Unhurt(s, {"publish", "port"})'
                 PROVE  TakenDown(s)' \/ Held(s)'
        BY <1>0, <1>5 DEF Backed
    <3>1. attempt[s] >= 1 /\ (TakenDown(s) \/ Held(s))
          BY <1>5, <1>9, <2>3 DEF Backed, Gone, Unhurt
    <3>2. m.op = "post" => m \in Answers(s, m.seg) /\ Awaited(s, m.seg)
          BY <1>2, <1>6 DEF Answers, AnswersOf, Awaited
    <3> DEFINE d == [ c EXCEPT !.status =
                        IF c.status \in { "MODIFYING", "UNDER_PROVISIONING" } THEN "DOWN" ELSE c.status ]
               e == [ d EXCEPT !.partial = TRUE ]
               l == [ c EXCEPT !.late = c.late \cup {m.seg} ]
    <3>3. /\ d.status = IF c.status \in { "MODIFYING", "UNDER_PROVISIONING" } THEN "DOWN" ELSE c.status
          /\ d.count = c.count /\ d.evc = c.evc /\ d.partial = c.partial
          /\ e.status = d.status /\ e.partial = TRUE
          /\ l.status = c.status /\ l.partial = c.partial
          BY <1>4 DEF Conn
    <3>4. LcCreatedLate(m) => b.partial /\ conns'[s] \in { c, l }
          BY <1>2 DEF LcCreatedLate, Save, TypeOK, b, c
    <3>5. LcDeleted(m) => conns'[s] = c /\ m.op = "delete" /\ UNCHANGED << toLC, reserved >>
          BY <1>2 DEF LcDeleted, Save, TypeOK, b, c
    <3>6. LcFailed(m) => IF m.op = "post" /\ ~ d.partial
                         THEN conns'[s] = e
                         ELSE conns'[s] = d /\ UNCHANGED << toLC, reserved >>
          BY <1>2 DEF LcFailed, Save, TypeOK, b, c
    <3>7. LcCreated(m) => ~ b.partial
          BY <1>2 DEF LcCreated, b
    <3> HIDE DEF d, e, l
    <3>8. CASE TakenDown(s)
      <4>1. b.partial = TRUE /\ b.status = "DOWN"
            BY <1>3, <3>8 DEF TakenDown, b, Conn
      <4>2. conns'[s].partial = TRUE /\ conns'[s].status = "DOWN"
            BY <1>4, <2>3, <3>3, <3>4, <3>5, <3>6, <3>7, <4>1
      <4> QED
          BY <1>0, <3>8, <4>2 DEF TakenDown
    <3>9. CASE Held(s)
      <4>1. b.partial = FALSE /\ b.status \in { "UNDER_PROVISIONING", "UP", "DOWN" }
            BY <1>3, <3>9 DEF Held, Placed, b, Conn
      <4>2. CASE LcCreated(m)
        <5>1. Members(Tail(inbox)) \cap AnswersOf(s, m.seg) = {}
          <6>1. m \in AnswersOf(s, m.seg) /\ Once(inbox, AnswersOf(s, m.seg))
                BY <1>2, <3>2, <3>9, <4>2 DEF Answers, Held, AwaitedOnce, LcCreated
          <6> QED
              BY <1>0, <1>1, <6>1, TailParts
        <5>2. Answers(s, m.seg)' = {}
              BY <1>0, <5>1 DEF Answers
        <5> QED
            BY <1>0, <1>2, <1>5, <1>6, <3>1, <3>9, <4>2, <5>2, CreatedHeld
      <4>3. CASE LcFailed(m) /\ m.op = "post"
        <5>1. b.status # "UP"
          <6>1. Settled(s) => ~ Awaited(s, m.seg)
                BY <1>2, <3>1, <3>9, SettledQuiet
          <6> QED
              BY <3>2, <3>9, <4>3, <6>1 DEF Held, b
        <5>2. conns'[s].partial = TRUE /\ conns'[s].status = "DOWN"
              BY <1>4, <3>3, <3>6, <4>1, <4>3, <5>1
        <5> QED
            BY <1>0, <2>3, <5>2 DEF TakenDown
      <4>4. CASE m.op = "delete" /\ (LcDeleted(m) \/ LcFailed(m))
        <5>1. /\ conns'[s] = c \/ conns'[s] = d
              /\ UNCHANGED << toLC, reserved >>
              BY <3>5, <3>6, <4>4
        <5>2. /\ conns'[s].count = b.count /\ conns'[s].evc = b.evc /\ conns'[s].partial = b.partial
              /\ conns'[s].status \in { "UNDER_PROVISIONING", "UP", "DOWN" }
              /\ conns'[s].status = "UP" => b.status = "UP"
              BY <1>4, <3>3, <4>1, <4>4, <5>1
        <5>3. conns'[s].status = "UP" => Settled(s)
              BY <3>9, <5>2 DEF Held, b
        <5>4. OrdersFewer(s)
              BY <5>1, SameOrders
        <5> QED
            BY <1>0, <1>5, <3>9, <5>1, <5>2, <5>3, <5>4, HeldKept DEF b
      <4> QED
          BY <1>2, <2>3, <3>4, <3>5, <4>1, <4>2, <4>3, <4>4
    <3> QED
        BY <3>1, <3>8, <3>9
  <2> QED
      BY <1>7, <2>1, <2>2, <2>3
<1> QED
    BY <1>11, <1>12 DEF BackedInv

(***************************************************************************)
(* What the OXPs do, and topologies.                                       *)
(***************************************************************************)
LEMMA InboxAdded ==
    ASSUME TypeOK, NEW x \in Answer \cup Topology, inbox' = Append(inbox, x),
           NEW s \in Service, \A g \in Segment : x \notin AnswersOf(s, g)
    PROVE  AnswersFewer(s)
<1>1. inbox \in Seq(Answer \cup Topology)
      BY DEF TypeOK
<1>2. Members(inbox') = Members(inbox) \cup {x}
      BY <1>1, AppendParts
<1>3. \A X : x \notin X => (Once(inbox, X) => Once(inbox', X))
      BY <1>1, AppendParts
<1> QED
    BY <1>2, <1>3 DEF AnswersFewer, Answers

LEMMA OrderServed ==
    ASSUME TypeOK, NEW h \in Segment, toLC[h] # << >>,
           toLC' = [ toLC EXCEPT ![h] = Tail(toLC[h]) ], NEW s \in Service
    PROVE  OrdersFewer(s)
<1> SUFFICES ASSUME NEW g \in Segment
             PROVE  /\ Creates(s, g)' \subseteq Creates(s, g)
                    /\ Removes(s, g)' \subseteq Removes(s, g)
                    /\ Once(toLC[g], OrdersOf("post", s)) => Once(toLC'[g], OrdersOf("post", s))
    BY DEF OrdersFewer
<1>1. toLC[h] \in Seq(Order) /\ toLC \in [ Segment -> Seq(Order) ]
      BY DEF TypeOK
<1>2. Members(Tail(toLC[h])) \subseteq Members(toLC[h])
      BY <1>1, TailParts
<1>3. Once(toLC[h], OrdersOf("post", s)) => Once(Tail(toLC[h]), OrdersOf("post", s))
      BY <1>1, TailParts
<1>4. toLC'[g] = IF g = h THEN Tail(toLC[h]) ELSE toLC[g]
      BY <1>1
<1> QED
    BY <1>2, <1>3, <1>4 DEF Creates, Removes

\* What an OXP's answer is, and whose.
LEMMA Replied ==
    ASSUME TypeOK, NEW h \in Segment, toLC[h] # << >>, NEW ok \in BOOLEAN,
           inbox' = Reply(h, ok)
    PROVE  /\ Head(toLC[h]) \in Order /\ Head(toLC[h]) \in Members(toLC[h])
           /\ \E x \in Answer :
                  /\ inbox' = Append(inbox, x)
                  /\ x.op = Head(toLC[h]).op /\ x.sid = Head(toLC[h]).sid
                  /\ x.seg = h /\ x.id = Head(toLC[h]).id /\ x.ok = ok
<1>1. toLC[h] \in Seq(Order)
      BY DEF TypeOK
<1>2. Head(toLC[h]) \in Members(toLC[h]) /\ Head(toLC[h]) \in Order
      BY <1>1, TailParts
<1> DEFINE o == Head(toLC[h])
           x == [ op |-> o.op, sid |-> o.sid, seg |-> h, id |-> o.id, ok |-> ok ]
<1>3. x \in Answer /\ inbox' = Append(inbox, x)
      BY <1>2 DEF Order, Answer, Reply
<1>4. x.op = o.op /\ x.sid = o.sid /\ x.seg = h /\ x.id = o.id /\ x.ok = ok
      OBVIOUS
<1> QED
    BY <1>2, <1>3, <1>4

LEMMA CreateBacked ==
    ASSUME TypeOK, BackedInv, NEW h \in Segment, OxpCreate(h)
    PROVE  BackedInv'
<1>1. /\ toLC[h] # << >> /\ toLC' = [ toLC EXCEPT ![h] = Tail(toLC[h]) ]
      /\ UNCHANGED << conns, breakdowns, reserved, attempt, lc, hurt >>
      BY DEF OxpCreate, docs
<1>2. PICK o : o = Head(toLC[h]) /\ o.op = "post"
      BY DEF OxpCreate
<1>3. PICK ok \in BOOLEAN :
          /\ evcs' = [ evcs EXCEPT ![o.sid] = IF ok THEN @ \cup {<< h, o.id >>} ELSE @ ]
          /\ inbox' = Reply(h, ok)
      BY <1>2 DEF OxpCreate
<1>4. o \in Order /\ o \in Members(toLC[h])
      BY <1>1, <1>2, <1>3, Replied
<1>5. PICK x \in Answer :
          /\ inbox' = Append(inbox, x)
          /\ x.op = "post" /\ x.sid = o.sid /\ x.seg = h /\ x.id = o.id /\ x.ok = ok
      BY <1>1, <1>2, <1>3, Replied
<1>6. PICK s \in Service : s = o.sid
      BY <1>4 DEF Order
<1>7. \A t \in Service : Backed(t) /\ OrdersFewer(t)
      BY <1>1, OrderServed DEF BackedInv
<1>8. \A t \in Service : Removed(t) => Removed(t)'
      BY <1>1 DEF Removed
<1>9. ASSUME NEW t \in Service, t # s
      PROVE  Backed(t)'
  <2>1. \A g \in Segment : x \notin AnswersOf(t, g)
        BY <1>5, <1>6, <1>9 DEF AnswersOf
  <2>2. AnswersFewer(t)
        BY <1>5, <2>1, InboxAdded
  <2>3. evcs'[t] = evcs[t]
        BY <1>3, <1>6, <1>9 DEF TypeOK
  <2> QED
      BY <1>1, <1>7, <1>8, <2>2, <2>3, BackedKept
<1>10. Backed(s)'
  <2> SUFFICES ASSUME Unhurt(s, {"publish", "port"})
               PROVE  TakenDown(s)' \/ Held(s)'
      BY <1>1, <1>7 DEF Backed, Unhurt
  <2>1. o \in Creates(s, h)
        BY <1>2, <1>4, <1>6 DEF Creates, OrdersOf
  <2>2. TakenDown(s) \/ Held(s)
        BY <1>7, <2>1 DEF Backed, Gone, Awaited
  <2>3. CASE TakenDown(s)
        BY <1>1, <2>3 DEF TakenDown
  <2>4. CASE Held(s)
    <3>1. /\ Placed(s)' /\ reserved'[s] /\ Provisioned(s)' = Provisioned(s)
          /\ conns'[s].status \in { "UNDER_PROVISIONING", "UP", "DOWN" }
          /\ conns'[s].status = "UP" => Settled(s)'
          /\ conns'[s].count = Cardinality(Provisioned(s)')
          BY <1>1, <2>4 DEF Held, Placed, Settled, Provisioned
    <3>2. /\ o.id = attempt[s] /\ Answers(s, h) = {} /\ h \in breakdowns[s] /\ conns[s].evc[h] = 0
          /\ Once(toLC[h], OrdersOf("post", s)) /\ Once(inbox, AnswersOf(s, h))
          BY <2>1, <2>4 DEF Held, Awaited, AwaitedOnce
    <3>3. \A g \in Segment : << g, attempt[s] >> \in evcs[s] => << g, attempt[s] >> \in evcs'[s]
          BY <1>3, <1>6 DEF TypeOK
    <3>4. inbox \in Seq(Answer \cup Topology) /\ x \in Answer \cup Topology
          BY DEF TypeOK
    <3>5. Members(inbox') = Members(inbox) \cup {x}
          BY <1>5, <3>4, AppendParts
    <3>6. ASSUME NEW g \in Segment
          PROVE  /\ conns'[s].evc[g] <= attempt'[s]
                 /\ Awaited(s, g)' => g \in breakdowns'[s] /\ conns'[s].evc[g] = 0
                 /\ AwaitedOnce(s, g)'
                 /\ \A p \in Creates(s, g)' : p.id = attempt'[s]
                 /\ \A a \in Answers(s, g)' :
                        a.id = attempt'[s] /\ (a.ok => << g, attempt'[s] >> \in evcs'[s])
                 /\ \A p \in Removes(s, g)' : p.id < attempt'[s]
                 /\ g \in Provisioned(s)' => << g, attempt'[s] >> \in evcs'[s]
      <4>1. /\ Creates(s, g)' \subseteq Creates(s, g) /\ Removes(s, g)' \subseteq Removes(s, g)
            /\ Once(toLC[g], OrdersOf("post", s)) => Once(toLC'[g], OrdersOf("post", s))
            BY <1>7 DEF OrdersFewer
      <4>2. /\ conns'[s].evc[g] <= attempt'[s]
            /\ \A p \in Creates(s, g)' : p.id = attempt'[s]
            /\ \A p \in Removes(s, g)' : p.id < attempt'[s]
            /\ g \in Provisioned(s)' => << g, attempt'[s] >> \in evcs'[s]
            BY <1>1, <2>4, <3>1, <3>3, <4>1 DEF Held
      <4>3. CASE g = h
        <5>1. Members(toLC'[h]) \cap OrdersOf("post", s) = {}
          <6>1. toLC[h] \in Seq(Order) /\ toLC'[h] = Tail(toLC[h])
                BY <1>1 DEF TypeOK
          <6>2. o \in OrdersOf("post", s)
                BY <2>1 DEF Creates
          <6> QED
              BY <1>1, <1>2, <3>2, <6>1, <6>2, TailParts
        <5>2. Creates(s, h)' = {}
              BY <5>1 DEF Creates
        <5>3. Answers(s, h)' \subseteq {x}
              BY <3>2, <3>5 DEF Answers
        <5>4. Once(inbox', AnswersOf(s, h))
              BY <1>5, <3>2, <3>4, AppendParts DEF Answers
        <5>5. AwaitedOnce(s, h)'
          <6>1. Once(toLC'[h], OrdersOf("post", s))
                BY <3>2, <4>1, <4>3
          <6> QED
              BY <5>2, <5>4, <6>1 DEF AwaitedOnce
        <5>6. x.id = attempt[s] /\ (x.ok => << h, attempt[s] >> \in evcs'[s])
              BY <1>3, <1>5, <1>6, <3>2 DEF TypeOK
        <5>7. h \in breakdowns'[s] /\ conns'[s].evc[h] = 0
              BY <1>1, <3>2
        <5> QED
            BY <1>1, <4>2, <4>3, <5>3, <5>5, <5>6, <5>7
      <4>4. CASE g # h
        <5>1. x \notin AnswersOf(s, g)
              BY <1>5, <4>4 DEF AnswersOf
        <5>2. Answers(s, g)' = Answers(s, g)
              BY <3>5, <5>1 DEF Answers
        <5>3. Once(inbox, AnswersOf(s, g)) => Once(inbox', AnswersOf(s, g))
              BY <1>5, <3>4, <5>1, AppendParts
        <5>4. AwaitedOnce(s, g)'
              BY <2>4, <4>1, <5>2, <5>3 DEF Held, AwaitedOnce
        <5>5. Awaited(s, g)' => g \in breakdowns'[s] /\ conns'[s].evc[g] = 0
              BY <1>1, <2>4, <4>1, <5>2 DEF Held, Awaited
        <5>6. \A a \in Answers(s, g)' :
                  a.id = attempt'[s] /\ (a.ok => << g, attempt'[s] >> \in evcs'[s])
              BY <1>1, <2>4, <3>3, <5>2 DEF Held
        <5> QED
            BY <4>2, <5>4, <5>5, <5>6
      <4> QED
          BY <4>3, <4>4
    <3> QED
        BY <3>1, <3>6 DEF Held
  <2> QED
      BY <2>2, <2>3, <2>4
<1> QED
    BY <1>9, <1>10 DEF BackedInv

LEMMA DeleteBacked ==
    ASSUME TypeOK, BackedInv, NEW h \in Segment, OxpDelete(h)
    PROVE  BackedInv'
<1>1. /\ toLC[h] # << >> /\ toLC' = [ toLC EXCEPT ![h] = Tail(toLC[h]) ]
      /\ UNCHANGED << conns, breakdowns, reserved, attempt, lc >>
      BY DEF OxpDelete, docs
<1>2. PICK o : o = Head(toLC[h]) /\ o.op = "delete"
      BY DEF OxpDelete
<1>3. PICK ok \in BOOLEAN :
          /\ evcs' = [ evcs EXCEPT ![o.sid] = IF ok THEN @ \ {<< h, o.id >>} ELSE @ ]
          /\ inbox' = Reply(h, ok)
          /\ hurt' = IF ok THEN hurt ELSE Hit({o.sid}, "undeleted")
      BY <1>2 DEF OxpDelete
<1>4. o \in Order /\ o \in Members(toLC[h])
      BY <1>1, <1>2, <1>3, Replied
<1>5. PICK x \in Answer : inbox' = Append(inbox, x) /\ x.op = "delete"
      BY <1>1, <1>2, <1>3, Replied
<1>6. \A t \in Service : hurt[t] \subseteq hurt'[t]
      BY <1>3 DEF Hit
<1> SUFFICES ASSUME NEW t \in Service
             PROVE  Backed(t)'
    BY DEF BackedInv
<1>7. Backed(t) /\ OrdersFewer(t) /\ (Removed(t) => Removed(t)')
      BY <1>1, OrderServed DEF BackedInv, Removed
<1>8. AnswersFewer(t)
  <2>1. \A g \in Segment : x \notin AnswersOf(t, g)
        BY <1>5 DEF AnswersOf
  <2> QED
      BY <1>5, <2>1, InboxAdded
<1>9. ASSUME Held(t), NEW g \in Segment, << g, attempt[t] >> \in evcs[t]
      PROVE  << g, attempt[t] >> \in evcs'[t]
  <2>1. CASE t # o.sid
        BY <1>3, <1>9, <2>1 DEF TypeOK
  <2>2. CASE t = o.sid
    <3>1. o \in Removes(t, h)
          BY <1>2, <1>4, <2>2 DEF Removes, OrdersOf
    <3>2. o.id < attempt[t] /\ o.id \in Nat /\ attempt[t] \in Nat
          BY <1>4, <1>9, <3>1 DEF Held, Order, Id, TypeOK
    <3>3. << g, attempt[t] >> # << h, o.id >>
          BY <3>2
    <3> QED
        BY <1>3, <1>9, <2>2, <3>3 DEF TypeOK
  <2> QED
      BY <2>1, <2>2
<1> QED
    BY <1>1, <1>6, <1>7, <1>8, <1>9, BackedKept

LEMMA PortsBacked ==
    ASSUME TypeOK, IndexInv, BackedInv, LcPorts
    PROVE  BackedInv'
<1>1. UNCHANGED << breakdowns, reserved, toLC, inbox, evcs, attempt >> /\ lc.pc = "links"
      BY DEF LcPorts, oxps
<1> SUFFICES ASSUME NEW s \in Service
             PROVE  Backed(s)'
    BY DEF BackedInv
<1>2. Backed(s) /\ Follows(s) /\ OrdersFewer(s) /\ AnswersFewer(s) /\ ~ Removed(s)
      BY <1>1, SameOrders, InboxTaken DEF BackedInv, IndexInv, Removed
<1>3. s \in WentDown \cup CameUp => listed[s]
      BY DEF WentDown, CameUp, Found
<1>4. hurt[s] \subseteq hurt'[s]
      BY PortsShape
<1>5. CASE s \notin WentDown \cup CameUp
  <2>1. conns'[s] = conns[s]
        BY <1>5, PortsShape
  <2> QED
      BY <1>1, <1>2, <1>4, <2>1, BackedKept
<1>6. CASE s \in WentDown \cup CameUp
  <2> SUFFICES ASSUME Unhurt(s, {"publish", "port"})'
               PROVE  Held(s)'
      BY <1>1, <1>2 DEF Backed
  <2>1. Unhurt(s, {"publish", "port"}) /\ Unhurt(s, {"publish"})
        BY <1>4 DEF Unhurt
  <2>2. Settled(s)
        BY <1>6, PortsShape DEF Unhurt
  <2>3. Placed(s)
        BY <1>2, <1>3, <1>6, <2>1 DEF Follows
  <2>4. Held(s)
        BY <1>2, <2>1, <2>3 DEF Backed, Placed, Gone, TakenDown
  <2>5. /\ conns'[s].count = conns[s].count /\ conns'[s].evc = conns[s].evc
        /\ conns'[s].partial = conns[s].partial /\ conns'[s].status \in { "UP", "DOWN" }
    <3>1. conns[s] \in Conn /\ (conns'[s] = [ conns[s] EXCEPT !.status = "UP" ]
                                   \/ conns'[s] = [ conns[s] EXCEPT !.status = "DOWN" ])
          BY <1>6, PortsShape DEF TypeOK
    <3> QED
        BY <3>1 DEF Conn
  <2> QED
      BY <1>1, <1>2, <2>2, <2>4, <2>5, HeldKept
<1> QED
    BY <1>5, <1>6

LEMMA NoAnswer ==
    ASSUME NEW m \in Topology
    PROVE  m \notin Answer
<1>1. DOMAIN m = { "lost", "up" }
      BY DEF Topology
<1>2. \A x \in Answer : "op" \in DOMAIN x
      BY DEF Answer
<1> QED
    BY <1>1, <1>2

LEMMA NextBacked ==
    ASSUME TypeOK, OnlyUpFails, IndexInv, BackedInv, [Next]_vars
    PROVE  BackedInv'
<1>1. ASSUME UNCHANGED << conns, breakdowns, reserved, attempt, evcs, toLC, hurt >>,
             \A t \in Service : AnswersFewer(t), lc = Idle \/ lc' = lc
      PROVE  BackedInv'
  <2>1. \A t \in Service : Backed(t) /\ OrdersFewer(t) /\ (Removed(t) => Removed(t)')
        BY <1>1, SameOrders DEF BackedInv, Removed
  <2>2. \A t \in Service : Backed(t)'
        BY <1>1, <2>1, BackedKept
  <2> QED
      BY <2>2 DEF BackedInv
<1>2. CASE LcTopology
  <2>1. \A t \in Service : AnswersFewer(t)
        BY <1>2, InboxTaken DEF LcTopology
  <2> QED
      BY <1>1, <1>2, <2>1 DEF LcTopology, docs, oxps
<1>3. ASSUME NEW m \in Reported, OxpChange(m)
      PROVE  BackedInv'
  <2>1. m \in Topology /\ inbox' = Append(inbox, m)
        BY <1>3, RecoveryAssumption DEF OxpChange
  <2>2. \A t \in Service, g \in Segment : m \notin AnswersOf(t, g)
        BY <2>1, NoAnswer DEF AnswersOf
  <2>3. \A t \in Service : AnswersFewer(t)
        BY <2>1, <2>2, InboxAdded
  <2> QED
      BY <1>1, <1>3, <2>3 DEF OxpChange, docs
<1>4. CASE UNCHANGED vars
  <2>1. \A t \in Service : AnswersFewer(t)
        BY <1>4, InboxTaken DEF vars
  <2> QED
      BY <1>1, <1>4, <2>1 DEF vars
<1> QED
    BY <1>2, <1>3, <1>4, LinksBacked, PlaceBacked, AnswerBacked, PortsBacked,
       CreateBacked, DeleteBacked DEF Next, LcStep, OxpServe

\* A connection that is shown up has its resources and the EVCs its document
\* records, and they exist, unless publishing has raised or a port has changed
\* while it was being provisioned: for any number of connections and domains,
\* any routes, and however often topologies change.
THEOREM UpIsBackedCorrect ==
    ASSUME OnlyUpFails
    PROVE  Spec => []UpIsBacked
<1>1. Init => TypeOK /\ IndexInv /\ BackedInv
      BY InitType, InitIndex, InitBacked
<1>2. TypeOK /\ IndexInv /\ BackedInv /\ [Next]_vars => (TypeOK /\ IndexInv /\ BackedInv)'
      BY NextType, NextIndex, NextBacked
<1>3. TypeOK /\ BackedInv => UpIsBacked
  <2> SUFFICES ASSUME TypeOK, BackedInv, NEW s \in Service, conns[s].status = "UP",
                      Unhurt(s, {"publish", "port"}), ~ Removed(s)
               PROVE  /\ reserved[s] /\ breakdowns[s] # {}
                      /\ \A g \in breakdowns[s] : << g, conns[s].evc[g] >> \in evcs[s]
      BY DEF UpIsBacked
  <2>1. Held(s) /\ Settled(s) /\ attempt[s] >= 1
        BY DEF BackedInv, Backed, Gone, TakenDown, Held
  <2>2. Provisioned(s) = breakdowns[s]
        BY <2>1, SettledAll
  <2> QED
      BY <2>1, <2>2 DEF Held, Placed, Provisioned, TypeOK
<1> QED
    BY <1>1, <1>2, <1>3, PTL DEF Spec

(***************************************************************************)
(* Lost links and ports.                                                   *)
(***************************************************************************)
\* An answer never puts a connection back together, nor up from DOWN.
LEMMA AnswerDocs ==
    ASSUME TypeOK, LcAnswer, NEW t \in Service
    PROVE  /\ Placed(t)' => Placed(t)
           /\ conns[t].status = "DOWN" => conns'[t].status = "DOWN"
           /\ hurt[t] \subseteq hurt'[t]
           /\ lc = Idle /\ lc' = Idle /\ UNCHANGED << solutions, topo >>
<1>1. PICK m \in Answer : m = Head(inbox)
      BY DEF LcAnswer
<1>2. m.sid \in Service
      BY DEF Answer
<1> DEFINE b == conns[t]
           c == Recorded(b, m)
           f == [ c EXCEPT !.status =
                    IF c.status \in { "MODIFYING", "UNDER_PROVISIONING" } THEN "DOWN" ELSE c.status ]
           e == [ f EXCEPT !.partial = TRUE ]
           d == [ c EXCEPT !.count = c.count + 1 ]
           u == [ d EXCEPT !.status = "UP" ]
           l == [ c EXCEPT !.late = c.late \cup {m.seg} ]
<1>3. b \in Conn
      BY DEF TypeOK
<1>4. c \in Conn /\ c.status = b.status /\ c.partial = b.partial
      BY <1>3, RecordedParts
<1>5. /\ f.partial = b.partial /\ (b.status = "DOWN" => f.status = "DOWN")
      /\ e.partial = TRUE /\ e.status = f.status
      /\ d.partial = b.partial /\ u.partial = b.partial /\ d.status = b.status
      /\ l.partial = b.partial /\ l.status = b.status
      BY <1>4 DEF Conn
<1>6. \/ conns'[t] \in { b, c, f, e, d, l }
      \/ conns'[t] = u /\ CanComeUp(d.status)
  <2>1. CASE t # m.sid
        BY <1>1, <1>2, <2>1
           DEF LcAnswer, LcCreated, LcCreatedLate, LcDeleted, LcFailed, LcCleanupBroken, Save, TypeOK
  <2>2. CASE t = m.sid
    <3>1. LcCreated(m) => conns'[t] \in { b, d } \/ (conns'[t] = u /\ CanComeUp(d.status))
          BY <2>2 DEF LcCreated, Save, TypeOK
    <3>2. LcCreatedLate(m) => conns'[t] \in { c, l }
          BY <2>2 DEF LcCreatedLate, Save, TypeOK
    <3>3. LcDeleted(m) => conns'[t] = c
          BY <2>2 DEF LcDeleted, Save, TypeOK
    <3>4. LcFailed(m) => conns'[t] \in { e, f }
          BY <2>2 DEF LcFailed, Save, TypeOK
    <3>5. LcCleanupBroken(m) => conns'[t] = b
          BY DEF LcCleanupBroken
    <3> HIDE DEF c, f, e, d, u, l
    <3> QED
        BY <1>1, <3>1, <3>2, <3>3, <3>4, <3>5 DEF LcAnswer
  <2> QED
      BY <2>1, <2>2
<1> HIDE DEF c, f, e, d, u, l
<1>7. CanComeUp(d.status) => d.status # "DOWN"
      BY LegalAssumption DEF CanComeUp, CanMove
<1>8. conns'[t].partial = FALSE => conns[t].partial = FALSE
      BY <1>4, <1>5, <1>6
<1>9. conns[t].status = "DOWN" => conns'[t].status = "DOWN"
      BY <1>4, <1>5, <1>6, <1>7
<1>10. hurt[t] \subseteq hurt'[t]
       BY DEF LcAnswer, LcCleanupBroken, Hit
<1>11. conns[t].partial \in BOOLEAN /\ breakdowns' = breakdowns
       BY <1>3 DEF Conn, LcAnswer
<1>12. conns'[t].partial \in BOOLEAN
       BY <1>4, <1>5, <1>6, <1>11
<1> QED
    BY <1>8, <1>9, <1>10, <1>11, <1>12 DEF Placed, LcAnswer

\* What a placement that fails leaves for the thread to do.
LEMMA GiveUpRest ==
    ASSUME TypeOK, lc.pc = "place", NEW st, NEW W, GiveUp(st, W)
    PROVE  \/ /\ lc' # Idle /\ lc'.pc # "place" /\ lc'.todo = lc.todo /\ lc'.was = lc.was
           \/ /\ lc' = Idle
              /\ \A t \in Service :
                     t \in lc.todo \cup OnPorts(lc.was.up \ topo.up)
                           \cup OnPorts(topo.up \ lc.was.up) =>
                         "aborted" \in hurt'[t]
<1>1. CASE CanMove(st, "ERROR")
      BY <1>1 DEF GiveUp, Idle
<1>2. CASE ~ CanMove(st, "ERROR")
      BY <1>2 DEF GiveUp
<1> QED
    BY <1>1, <1>2

\* The steps of the OXPs leave the documents and the LC thread alone.
LEMMA Elsewhere ==
    ASSUME (\E g \in Segment : OxpServe(g)) \/ (\E m \in Reported : OxpChange(m)) \/ UNCHANGED vars,
           NEW s \in Service
    PROVE  /\ UNCHANGED << conns, breakdowns, solutions, topo, lc >>
           /\ hurt[s] \subseteq hurt'[s]
<1>1. ASSUME NEW g \in Segment, OxpServe(g)
      PROVE  UNCHANGED << conns, breakdowns, solutions, topo, lc >> /\ hurt[s] \subseteq hurt'[s]
  <2>1. CASE OxpCreate(g)
        BY <2>1 DEF OxpCreate, docs
  <2>2. CASE OxpDelete(g)
    <3>1. PICK ok \in BOOLEAN :
              hurt' = IF ok THEN hurt ELSE Hit({Head(toLC[g]).sid}, "undeleted")
          BY <2>2 DEF OxpDelete
    <3>2. hurt[s] \subseteq hurt'[s]
          BY <3>1 DEF Hit
    <3> QED
        BY <2>2, <3>2 DEF OxpDelete, docs
  <2> QED
      BY <1>1, <2>1, <2>2 DEF OxpServe
<1>2. ASSUME NEW m \in Reported, OxpChange(m)
      PROVE  UNCHANGED << conns, breakdowns, solutions, topo, lc >> /\ hurt[s] \subseteq hurt'[s]
      BY <1>2 DEF OxpChange, docs
<1>3. CASE UNCHANGED vars
      BY <1>3 DEF vars
<1> QED
    BY <1>1, <1>2, <1>3

LEMMA AvoidsKept ==
    ASSUME NEW s \in Service, Avoids(s), hurt[s] \subseteq hurt'[s], Placed(s)' => Placed(s),
           solutions'[s] = solutions[s], topo' = topo,
           lc # Idle /\ s \in lc.todo => \/ lc' # Idle /\ s \in lc'.todo
                                         \/ "aborted" \in hurt'[s]
    PROVE  Avoids(s)'
BY DEF Avoids, Unhurt

LEMMA NextAvoids ==
    ASSUME TypeOK, IndexInv, AvoidsInv, [Next]_vars
    PROVE  AvoidsInv'
<1> SUFFICES ASSUME NEW s \in Service
             PROVE  Avoids(s)'
    BY DEF AvoidsInv
<1>1. Avoids(s) /\ Follows(s)
      BY DEF AvoidsInv, IndexInv
<1>2. CASE LcTopology
  <2>1. PICK m \in Topology : m = Head(inbox)
        BY <1>2 DEF LcTopology
  <2>2. /\ lc = Idle /\ topo' = m /\ lc' # Idle
        /\ lc'.todo = { t \in Service : index[t] \cap (m.lost \ topo.lost) # {} }
        /\ UNCHANGED << conns, breakdowns, solutions, index, hurt >>
        BY <1>2, <2>1 DEF LcTopology, TakeTopology, Idle, docs
  <2> SUFFICES ASSUME Placed(s)', Unhurt(s, {"publish", "skipped", "aborted"})',
                      solutions'[s] \cap topo'.lost # {}
               PROVE  lc' # Idle /\ s \in lc'.todo
      BY DEF Avoids
  <2>3. Placed(s) /\ Unhurt(s, {"publish", "skipped", "aborted"}) /\ Unhurt(s, {"publish"})
        BY <2>2 DEF Placed, Unhurt
  <2>4. index[s] = solutions[s] /\ solutions[s] \cap topo.lost = {}
        BY <1>1, <2>2, <2>3 DEF Avoids, Follows
  <2> QED
      BY <2>2, <2>4
<1>3. ASSUME NEW t \in Service, LcSkip(t) \/ LcRemove(t) \/ LcRemoveFails(t)
      PROVE  Avoids(s)'
  <2>1. /\ lc.pc = "links" /\ lc' # Idle /\ lc'.todo = lc.todo \ {t}
        /\ UNCHANGED << conns, solutions, topo >> /\ hurt[s] \subseteq hurt'[s]
    <3>1. lc.pc = "links" /\ lc = [ pc |-> "links", todo |-> lc.todo, was |-> lc.was ]
          BY <1>3, LcShape DEF LcSkip, LcRemove, LcRemoveFails
    <3>2. lc'.pc \in { "links", "place" } /\ lc'.todo = lc.todo \ {t}
          BY <1>3, <3>1 DEF LcSkip, LcRemove, LcRemoveFails, Skip, Goto
    <3> QED
        BY <1>3, <3>1, <3>2 DEF LcSkip, LcRemove, LcRemoveFails, Hit, docs, Idle
  <2>2. s = t => \/ "skipped" \in hurt'[s] \/ "publish" \in hurt'[s] \/ breakdowns'[s] = {}
        BY <1>3 DEF LcSkip, LcRemove, LcRemoveFails, RemoveFor, Hit, TypeOK
  <2>3. s # t => breakdowns'[s] = breakdowns[s]
        BY <1>3 DEF LcSkip, LcRemove, LcRemoveFails, RemoveFor, docs, TypeOK
  <2>4. CASE s = t
        BY <2>2, <2>4 DEF Avoids, Unhurt, Placed
  <2>5. CASE s # t
        BY <1>1, <2>1, <2>3, <2>5, AvoidsKept DEF Placed
  <2> QED
      BY <2>4, <2>5
<1>4. CASE LcPlaceFails \/ \E r \in Route : LcPlace(r) \/ LcPlaceBroken(r)
  <2>1. lc.pc = "place" /\ breakdowns[lc.sid] = {} /\ lc # Idle /\ topo' = topo
        BY <1>4 DEF LcPlaceFails, LcPlace, LcPlaceBroken, IndexInv, RemovedFirst, Idle
  <2>2. CASE s = lc.sid
    <3>1. CASE LcPlaceFails
          BY <2>1, <2>2, <3>1 DEF LcPlaceFails, Avoids, Placed
    <3>2. ASSUME NEW r \in Route, LcPlace(r)
          PROVE  Avoids(s)'
          BY <2>1, <2>2, <3>2 DEF LcPlace, PlaceOn, Usable, Avoids, TypeOK
    <3>3. ASSUME NEW r \in Route, LcPlaceBroken(r)
          PROVE  Avoids(s)'
      <4>1. "publish" \in hurt'[s]
            BY <2>1, <2>2, <3>3, GiveUpIndex DEF LcPlaceBroken
      <4> QED
          BY <4>1 DEF Avoids, Unhurt
    <3> QED
        BY <1>4, <3>1, <3>2, <3>3
  <2>3. CASE s # lc.sid
    <3>1. conns'[s] = conns[s] /\ hurt[s] \subseteq hurt'[s]
      <4>1. LcPlaceFails => conns'[s] = conns[s] /\ hurt[s] \subseteq hurt'[s]
            BY <2>1, <2>3, GiveUpIndex DEF LcPlaceFails
      <4>2. ASSUME NEW r \in Route, LcPlaceBroken(r)
            PROVE  conns'[s] = conns[s] /\ hurt[s] \subseteq hurt'[s]
            BY <2>1, <2>3, <4>2, GiveUpIndex DEF LcPlaceBroken
      <4>3. ASSUME NEW r \in Route, LcPlace(r)
            PROVE  conns'[s] = conns[s] /\ hurt[s] \subseteq hurt'[s]
            BY <2>3, <4>3 DEF LcPlace, TypeOK
      <4> QED
          BY <1>4, <4>1, <4>2, <4>3
    <3>2. breakdowns'[s] = breakdowns[s] /\ solutions'[s] = solutions[s]
          BY <1>4, <2>3 DEF LcPlaceFails, LcPlace, LcPlaceBroken, PlaceOn, TypeOK
    <3>3. s \in lc.todo => (lc' # Idle /\ s \in lc'.todo) \/ "aborted" \in hurt'[s]
      <4>1. LcPlaceFails /\ s \in lc.todo => (lc' # Idle /\ s \in lc'.todo) \/ "aborted" \in hurt'[s]
            BY <2>1, GiveUpRest DEF LcPlaceFails
      <4>2. ASSUME NEW r \in Route, LcPlaceBroken(r), s \in lc.todo
            PROVE  (lc' # Idle /\ s \in lc'.todo) \/ "aborted" \in hurt'[s]
            BY <2>1, <4>2, GiveUpRest DEF LcPlaceBroken
      <4>3. ASSUME NEW r \in Route, LcPlace(r), s \in lc.todo
            PROVE  (lc' # Idle /\ s \in lc'.todo) \/ "aborted" \in hurt'[s]
            BY <4>3 DEF LcPlace, Idle
      <4> QED
          BY <1>4, <4>1, <4>2, <4>3
    <3> QED
        BY <1>1, <2>1, <3>1, <3>2, <3>3, AvoidsKept DEF Placed
  <2> QED
      BY <2>2, <2>3
<1>5. CASE LcPorts
  <2>1. /\ lc.todo = {} /\ UNCHANGED << breakdowns, solutions, topo >>
        /\ hurt[s] \subseteq hurt'[s]
        BY <1>5, PortsShape DEF LcPorts
  <2>2. conns'[s].partial = conns[s].partial
        BY <1>5, PortsShape DEF TypeOK, Conn
  <2> QED
      BY <1>1, <2>1, <2>2, AvoidsKept DEF Placed
<1>6. CASE LcAnswer
      BY <1>1, <1>6, AnswerDocs, AvoidsKept
<1>7. CASE (\E g \in Segment : OxpServe(g)) \/ (\E m \in Reported : OxpChange(m)) \/ UNCHANGED vars
  <2>1. /\ UNCHANGED << conns, breakdowns, solutions, topo, lc >>
        /\ hurt[s] \subseteq hurt'[s]
        BY <1>7, Elsewhere
  <2> QED
      BY <1>1, <2>1, AvoidsKept DEF Placed
<1> QED
    BY <1>2, <1>3, <1>4, <1>5, <1>6, <1>7 DEF Next, LcStep

LEMMA PortsKept ==
    ASSUME NEW s \in Service, PortsFollow(s), hurt[s] \subseteq hurt'[s],
           Placed(s)' => Placed(s), conns[s].status = "DOWN" => conns'[s].status = "DOWN",
           Removed(s)' => Removed(s),
           \/ "aborted" \in hurt'[s]
           \/ /\ Ends[s] \subseteq UpBefore => Ends[s] \subseteq UpBefore'
              /\ lc' # Idle /\ s \in lc'.todo =>
                     lc # Idle /\ s \in lc.todo /\ (Placed(s) => Placed(s)')
    PROVE  PortsFollow(s)'
BY DEF PortsFollow, Unhurt

LEMMA NextPorts ==
    ASSUME TypeOK, OnlyUpFails, IndexInv, BackedInv, PortsInv, [Next]_vars
    PROVE  PortsInv'
<1> SUFFICES ASSUME NEW s \in Service
             PROVE  PortsFollow(s)'
    BY DEF PortsInv
<1>1. PortsFollow(s) /\ Follows(s) /\ Backed(s)
      BY DEF PortsInv, IndexInv, BackedInv
<1>2. CASE LcTopology
  <2>1. PICK m \in Topology : m = Head(inbox)
        BY <1>2 DEF LcTopology
  <2>2. /\ lc = Idle /\ topo' = m /\ lc' # Idle /\ lc'.pc = "links" /\ lc'.was = topo
        /\ lc'.todo = { t \in Service : index[t] \cap (m.lost \ topo.lost) # {} }
        /\ UNCHANGED << conns, breakdowns, index, hurt >>
        BY <1>2, <2>1 DEF LcTopology, TakeTopology, Idle, docs
  <2>3. UpBefore' = UpBefore /\ ~ Removed(s)' /\ Placed(s)' = Placed(s)
        BY <2>2 DEF UpBefore, Removed, Placed
  <2>4. Unhurt(s, {"publish", "port", "oneEnd", "aborted"}) /\ s \in lc'.todo => Placed(s)
        BY <1>1, <2>2 DEF Follows, Unhurt
  <2> QED
      BY <1>1, <2>2, <2>3, <2>4 DEF PortsFollow, Unhurt
<1>3. ASSUME NEW t \in Service, LcSkip(t) \/ LcRemove(t) \/ LcRemoveFails(t)
      PROVE  PortsFollow(s)'
  <2>1. /\ lc # Idle /\ lc' # Idle /\ lc'.todo = lc.todo \ {t} /\ lc'.was = lc.was
        /\ UNCHANGED << conns, topo >> /\ hurt[s] \subseteq hurt'[s]
        /\ t \in lc.todo
    <3>1. lc.pc = "links" /\ lc = [ pc |-> "links", todo |-> lc.todo, was |-> lc.was ]
          BY <1>3, LcShape DEF LcSkip, LcRemove, LcRemoveFails
    <3>2. /\ lc'.pc \in { "links", "place" } /\ lc'.todo = lc.todo \ {t} /\ lc'.was = lc.was
          /\ t \in lc.todo
          BY <1>3, <3>1 DEF LcSkip, LcRemove, LcRemoveFails, Skip, Goto
    <3> QED
        BY <1>3, <3>1, <3>2 DEF LcSkip, LcRemove, LcRemoveFails, Hit, docs, Idle
  <2>2. UpBefore' = UpBefore
        BY <2>1 DEF UpBefore
  <2>3. Removed(s)' => s = t /\ LcRemove(t)
        BY <1>3, LcShape DEF Removed, LcSkip, LcRemove, LcRemoveFails, Skip, Goto
  <2>4. /\ breakdowns'[s] = breakdowns[s] \/ breakdowns'[s] = {}
        /\ s # t => breakdowns'[s] = breakdowns[s]
        BY <1>3 DEF LcSkip, LcRemove, LcRemoveFails, RemoveFor, docs, TypeOK
  <2>5. CASE s # t \/ ~ LcRemove(t)
        BY <1>1, <2>1, <2>2, <2>3, <2>4, <2>5, PortsKept DEF Placed
  <2>6. CASE s = t /\ LcRemove(t)
    <3> SUFFICES ASSUME Unhurt(s, {"publish", "port", "oneEnd", "aborted"})'
                 PROVE  Ends[s] \subseteq UpBefore'
        BY <2>1, <2>6 DEF PortsFollow
    <3>1. Unhurt(s, {"publish", "port", "oneEnd", "aborted"}) /\ Unhurt(s, {"publish", "port"})
          BY <2>1 DEF Unhurt
    <3>2. Placed(s)
          BY <1>1, <2>1, <2>6, <3>1 DEF PortsFollow
    <3>3. conns[s].status # "DOWN"
          BY <2>6 DEF LcRemove, OnlyUpFails
    <3> QED
        BY <1>1, <2>2, <3>1, <3>2, <3>3 DEF PortsFollow
  <2> QED
      BY <2>5, <2>6
<1>4. CASE LcPlaceFails \/ \E r \in Route : LcPlace(r) \/ LcPlaceBroken(r)
  <2>1. lc.pc = "place" /\ breakdowns[lc.sid] = {} /\ lc # Idle /\ topo' = topo /\ lc.sid \in Service
        BY <1>4, LcShape DEF LcPlaceFails, LcPlace, LcPlaceBroken, IndexInv, RemovedFirst, Idle
  <2> DEFINE Rest ==
                 /\ hurt[s] \subseteq hurt'[s] /\ (s # lc.sid => conns'[s] = conns[s])
                 /\ \/ /\ lc' # Idle /\ lc'.pc # "place" /\ lc'.todo = lc.todo /\ lc'.was = lc.was
                    \/ /\ lc' = Idle
                       /\ s \in lc.todo \cup OnPorts(lc.was.up \ topo.up)
                             \cup OnPorts(topo.up \ lc.was.up) =>
                              "aborted" \in hurt'[s]
  <2>2. Rest
    <3>1. CASE LcPlaceFails
          BY <2>1, <3>1, GiveUpIndex, GiveUpRest DEF LcPlaceFails
    <3>2. ASSUME NEW r \in Route, LcPlaceBroken(r)
          PROVE  Rest
          BY <2>1, <3>2, GiveUpIndex, GiveUpRest DEF LcPlaceBroken
    <3>3. ASSUME NEW r \in Route, LcPlace(r)
          PROVE  Rest
          BY <3>3 DEF LcPlace, TypeOK, Idle
    <3> QED
        BY <1>4, <3>1, <3>2, <3>3
  <2>3. ~ Removed(s)'
        BY <2>2 DEF Removed
  <2>4. CASE s # lc.sid
    <3>1. breakdowns'[s] = breakdowns[s]
          BY <1>4, <2>4 DEF LcPlaceFails, LcPlace, LcPlaceBroken, TypeOK
    <3>2. Placed(s)' = Placed(s)
          BY <2>2, <2>4, <3>1 DEF Placed
    <3>3. CASE lc' # Idle
          BY <1>1, <2>1, <2>2, <2>3, <2>4, <3>2, <3>3, PortsKept DEF UpBefore
    <3>4. CASE lc' = Idle
      <4>1. \/ "aborted" \in hurt'[s]
            \/ Ends[s] \cap ((lc.was.up \ topo.up) \cup (topo.up \ lc.was.up)) = {}
            BY <2>2, <3>4 DEF OnPorts
      <4>2. UpBefore = lc.was.up /\ UpBefore' = topo.up
            BY <2>1, <3>4 DEF UpBefore
      <4>3. Ends[s] \subseteq UpBefore => Ends[s] \subseteq UpBefore' \/ "aborted" \in hurt'[s]
            BY <4>1, <4>2
      <4>4. conns'[s] = conns[s] /\ hurt[s] \subseteq hurt'[s]
            BY <2>2, <2>4
      <4> QED
          BY <1>1, <2>3, <3>2, <3>4, <4>3, <4>4, PortsKept
    <3> QED
        BY <3>3, <3>4
  <2>5. CASE s = lc.sid
    <3> SUFFICES ASSUME Unhurt(s, {"publish", "port", "oneEnd", "aborted"})'
                 PROVE  (Placed(s)' => Ends[s] \subseteq UpBefore') /\ (lc' # Idle => s \notin lc'.todo)
        BY <2>3 DEF PortsFollow
    <3>1. Unhurt(s, {"publish", "port", "oneEnd", "aborted"})
          BY <2>2 DEF Unhurt
    <3>2. Ends[s] \subseteq UpBefore /\ s \notin lc.todo
          BY <1>1, <2>1, <2>5, <3>1 DEF PortsFollow, Removed, Placed
    <3>3. Placed(s)' => Ends[s] \subseteq UpBefore'
      <4>1. CASE \E r \in Route : LcPlace(r)
            BY <2>1, <2>2, <3>2, <4>1 DEF LcPlace, Idle, UpBefore
      <4>2. CASE LcPlaceFails \/ \E r \in Route : LcPlaceBroken(r)
            BY <2>1, <2>5, <4>2 DEF LcPlaceFails, LcPlaceBroken, Placed
      <4> QED
          BY <1>4, <4>1, <4>2
    <3> QED
        BY <2>2, <3>2, <3>3
  <2> QED
      BY <2>4, <2>5
<1>5. CASE LcPorts
  <2>1. /\ conns'[s] = IF s \in CameUp THEN [ conns[s] EXCEPT !.status = "UP" ]
                       ELSE IF s \in WentDown THEN [ conns[s] EXCEPT !.status = "DOWN" ]
                       ELSE conns[s]
        /\ lc.pc = "links" /\ lc' = Idle /\ UNCHANGED << breakdowns, topo >>
        /\ hurt[s] \subseteq hurt'[s]
        /\ s \in CameUp /\ ~ (Ends[s] \subseteq topo.up) => "oneEnd" \in hurt'[s]
        BY <1>5, PortsShape DEF LcPorts
  <2>2. /\ conns'[s].partial = conns[s].partial
        /\ conns'[s].status = IF s \in CameUp THEN "UP"
                              ELSE IF s \in WentDown THEN "DOWN" ELSE conns[s].status
        BY <2>1 DEF TypeOK, Conn
  <2>3. lc # Idle
        BY <2>1 DEF Idle
  <2> SUFFICES ASSUME Unhurt(s, {"publish", "port", "oneEnd", "aborted"})', Placed(s)',
                      conns'[s].status # "DOWN"
               PROVE  Ends[s] \subseteq topo.up
      BY <2>1 DEF PortsFollow, UpBefore, Removed
  <2>4. /\ Unhurt(s, {"publish", "port", "oneEnd", "aborted"}) /\ Unhurt(s, {"publish"})
        /\ Placed(s)
        BY <2>1, <2>2 DEF Unhurt, Placed
  <2>5. CASE s \in CameUp
        BY <2>1, <2>5 DEF Unhurt
  <2>6. CASE s \notin CameUp
    <3>1. s \notin WentDown /\ conns[s].status # "DOWN"
          BY <2>2, <2>6
    <3>2. listed[s] /\ Ends[s] \subseteq lc.was.up
          BY <1>1, <2>3, <2>4, <3>1 DEF Follows, PortsFollow, UpBefore
    <3> QED
        BY <3>1, <3>2 DEF WentDown, Found, OnPorts
  <2> QED
      BY <2>5, <2>6
<1>6. CASE LcAnswer
      BY <1>1, <1>6, AnswerDocs, PortsKept DEF UpBefore, Removed
<1>7. CASE (\E g \in Segment : OxpServe(g)) \/ (\E m \in Reported : OxpChange(m)) \/ UNCHANGED vars
  <2>1. /\ UNCHANGED << conns, breakdowns, topo, lc >>
        /\ hurt[s] \subseteq hurt'[s]
        BY <1>7, Elsewhere
  <2> QED
      BY <1>1, <2>1, PortsKept DEF Placed, UpBefore, Removed
<1> QED
    BY <1>2, <1>3, <1>4, <1>5, <1>6, <1>7 DEF Next, LcStep

LEMMA InitRest ==
    ASSUME Init
    PROVE  AvoidsInv /\ PortsInv
<1> SUFFICES ASSUME NEW s \in Service
             PROVE  Avoids(s) /\ PortsFollow(s)
    BY DEF AvoidsInv, PortsInv
<1>1. topo.lost = {} /\ topo.up = Port /\ lc = Idle
      BY DEF Init
<1> QED
    BY <1>1, RecoveryAssumption DEF Avoids, PortsFollow, UpBefore, Removed

\* A connection that is shown up is placed, or the thread has just removed it.
LEMMA UpIsPlaced ==
    ASSUME BackedInv, NEW s \in Service, conns[s].status = "UP", Unhurt(s, {"publish", "port"})
    PROVE  Placed(s) \/ Removed(s)
BY DEF BackedInv, Backed, Gone, TakenDown, Held

\* A connection that is shown up avoids every lost link the TE manager knows
\* of, or the LC thread has yet to get to it; the losses the code is known to
\* skip or to forget are excused.
THEOREM UpAvoidsLostCorrect ==
    ASSUME OnlyUpFails
    PROVE  Spec => []UpAvoidsLost
<1>1. Init => TypeOK /\ IndexInv /\ BackedInv /\ AvoidsInv
      BY InitType, InitIndex, InitBacked, InitRest
<1>2. TypeOK /\ IndexInv /\ BackedInv /\ AvoidsInv /\ [Next]_vars =>
          (TypeOK /\ IndexInv /\ BackedInv /\ AvoidsInv)'
      BY NextType, NextIndex, NextBacked, NextAvoids
<1>3. BackedInv /\ AvoidsInv => UpAvoidsLost
  <2> SUFFICES ASSUME BackedInv, AvoidsInv, NEW s \in Service, conns[s].status = "UP",
                      Unhurt(s, {"publish", "port", "skipped", "aborted"})
               PROVE  \/ solutions[s] \cap topo.lost = {}
                      \/ lc # Idle /\ (s \in lc.todo \/ Removed(s))
      BY DEF UpAvoidsLost
  <2>1. Unhurt(s, {"publish", "port"}) /\ Unhurt(s, {"publish", "skipped", "aborted"})
        BY DEF Unhurt
  <2>2. Placed(s) \/ Removed(s)
        BY <2>1, UpIsPlaced
  <2> QED
      BY <2>1, <2>2 DEF AvoidsInv, Avoids, Removed
<1> QED
    BY <1>1, <1>2, <1>3, PTL DEF Spec

\* A connection that is shown up when the LC thread has no topology to handle
\* has both its UNI ports up, unless a port that came up did not look at the other.
THEOREM UpHasPortsCorrect ==
    ASSUME OnlyUpFails
    PROVE  Spec => []UpHasPorts
<1>1. Init => TypeOK /\ IndexInv /\ BackedInv /\ PortsInv
      BY InitType, InitIndex, InitBacked, InitRest
<1>2. TypeOK /\ IndexInv /\ BackedInv /\ PortsInv /\ [Next]_vars =>
          (TypeOK /\ IndexInv /\ BackedInv /\ PortsInv)'
      BY NextType, NextIndex, NextBacked, NextPorts
<1>3. BackedInv /\ PortsInv => UpHasPorts
  <2> SUFFICES ASSUME BackedInv, PortsInv, NEW s \in Service, conns[s].status = "UP", lc = Idle,
                      Unhurt(s, {"port", "oneEnd", "aborted", "publish"})
               PROVE  Ends[s] \subseteq topo.up
      BY DEF UpHasPorts
  <2>1. Unhurt(s, {"publish", "port"}) /\ Unhurt(s, {"publish", "port", "oneEnd", "aborted"})
        BY DEF Unhurt
  <2>2. Placed(s)
        BY <2>1, UpIsPlaced DEF Removed
  <2> QED
      BY <2>1, <2>2 DEF PortsInv, PortsFollow, UpBefore
<1> QED
    BY <1>1, <1>2, <1>3, PTL DEF Spec
=============================================================================
