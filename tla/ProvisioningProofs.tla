-------------------------- MODULE ProvisioningProofs --------------------------
(***************************************************************************)
(* Proofs about Provisioning, for every value of its constants that        *)
(* satisfies the assumptions.                                              *)
(***************************************************************************)
EXTENDS ProvisioningInv, FiniteSetTheorems, TLAPS

(***************************************************************************)
(* The shape of a thread's state, from its program counter.                *)
(***************************************************************************)
LEMMA LcShape ==
    ASSUME lc \in LcState
    PROVE  /\ lc.pc \in { "cleanup", "late", "save" } =>
                  lc \in [ pc : { "cleanup", "late", "save" }, sid : Service,
                           seg : Segment, conn : Conn ]
           /\ lc.pc = "replace" => lc \in [ pc : { "replace" }, sid : Service, conn : Conn ]
           /\ lc # Idle => lc.sid \in Service /\ lc.conn \in Conn /\ lc.pc # "idle"
BY DEF LcState, Idle

LEMMA DelShape ==
    ASSUME del \in [ Request -> DelState ], NEW r \in Request
    PROVE  /\ del[r] \notin { Idle, Finished } <=> del[r].pc \notin { "idle", "done" }
           /\ del[r] \notin { Idle, Finished } =>
                  del[r] \in [ pc : { "settle", "release", "send", "drop", "archive",
                                      "unlink", "mark", "markBreakdown" },
                               sid : Service, conn : Conn, brk : SUBSET Segment ]
BY DEF DelState, Idle, Finished

LEMMA MonShape ==
    ASSUME mon \in MonState
    PROVE  /\ mon.pc = "scan" =>
                  mon \in [ pc : { "scan" }, snap : [ Service -> Conn \cup {NoConn} ] ]
           /\ mon.pc = "cleanup" =>
                  mon \in [ pc : { "cleanup" }, snap : [ Service -> Conn \cup {NoConn} ],
                            sid : Service, conn : Conn ]
           /\ mon # Idle => mon.pc \in { "scan", "cleanup" }
BY DEF MonState, Idle

LEMMA NewConnType == NewConn \in Conn
BY DEF NewConn, Conn, Status

LEMMA StatusType ==
    ASSUME NEW c \in Conn, NEW st \in Status
    PROVE  LET d == [ c EXCEPT !.status = st ] IN
           d \in Conn /\ d.status = st /\ d.evc = c.evc /\ d.count = c.count
BY DEF Conn

LEMMA CountType ==
    ASSUME NEW c \in Conn
    PROVE  LET d == [ c EXCEPT !.count = @ + 1 ] IN
           d \in Conn /\ d.status = c.status /\ d.evc = c.evc /\ d.count = c.count + 1
BY DEF Conn

LEMMA DbUpdateType ==
    ASSUME conns \in [ Service -> Conn \cup {NoConn} ], NEW s \in Service,
           NEW doc, Present(s) => doc \in Conn, DbUpdate(s, doc)
    PROVE  conns' \in [ Service -> Conn \cup {NoConn} ]
BY DEF DbUpdate, Present

LEMMA DbSetStatusType ==
    ASSUME conns \in [ Service -> Conn \cup {NoConn} ], NEW s \in Service,
           NEW st \in Status, DbSetStatus(s, st)
    PROVE  conns' \in [ Service -> Conn \cup {NoConn} ]
<1>1. Present(s) => [ conns[s] EXCEPT !.status = st ] \in Conn
      BY StatusType DEF Present
<1> QED
    BY <1>1, DbUpdateType DEF DbSetStatus

LEMMA InitType == Init => TypeOK
BY DEF Init, TypeOK, PostState, DelState, LcState, MonState, Idle, Finished, Status

LEMMA PostWrites ==
    ASSUME post \in [ Service -> PostState ], NEW s \in Service,
           NEW pc \in { "idle", "saved", "planned", "sending", "reject", "done" }
    PROVE  /\ [ post EXCEPT ![s].pc = pc ] \in [ Service -> PostState ]
           /\ \A st \in Status :
                  [ post EXCEPT ![s].pc = pc, ![s].status = st ] \in [ Service -> PostState ]
           /\ \A B \in SUBSET Segment :
                  [ post EXCEPT ![s].pc = pc, ![s].todo = B ] \in [ Service -> PostState ]
<1>1. [ post EXCEPT ![s].pc = pc ] \in [ Service -> PostState ]
      BY DEF PostState
<1> DEFINE p == [ post EXCEPT ![s].pc = pc ]
<1> HIDE DEF p
<1>2. p \in [ Service -> PostState ]
      BY <1>1 DEF p
<1>3. ASSUME NEW st \in Status
      PROVE  [ p EXCEPT ![s].status = st ] \in [ Service -> PostState ]
      BY <1>2 DEF PostState
<1>4. ASSUME NEW B \in SUBSET Segment
      PROVE  [ p EXCEPT ![s].todo = B ] \in [ Service -> PostState ]
      BY <1>2 DEF PostState
<1> QED
    BY <1>1, <1>3, <1>4 DEF p

LEMMA PostType ==
    ASSUME TypeOK, NEW s \in Service, PostSave(s) \/ PostStep(s)
    PROVE  TypeOK'
<1>a. ASSUME NEW g \in Segment, PlaceSend(s, g)
      PROVE  post' \in [ Service -> PostState ] /\ toLC' \subseteq Order
  <2>1. post \in [ Service -> PostState ] /\ toLC \subseteq Order
        BY DEF TypeOK
  <2>2. Orders("post", s, {g}) \subseteq Order
        BY DEF Orders, Order
  <2>3. [ post EXCEPT ![s].todo = post[s].todo \ {g} ] \in [ Service -> PostState ]
        BY <2>1 DEF PostState
  <2> QED
      BY <1>a, <2>1, <2>2, <2>3 DEF PlaceSend
<1> USE DEF TypeOK, store, wire, PostGoto
<1>1. CASE PostSave(s)
      BY <1>1, NewConnType DEF PostSave, DbAdd, PostState
<1>2. CASE PlaceFail(s)
      BY <1>2 DEF PlaceFail, PostState
<1>3. ASSUME NEW B \in SUBSET Segment, PlaceBreakdown(s, B) PROVE TypeOK'
  <2>1. post' \in [ Service -> PostState ]
        BY <1>3, PostWrites DEF PlaceBreakdown
  <2> QED
      BY <1>3, <2>1 DEF PlaceBreakdown
<1>4. CASE PlaceMark(s)
  <2>1. "UNDER_PROVISIONING" \in Status
        BY DEF Status
  <2>2. conns' \in [ Service -> Conn \cup {NoConn} ]
        BY <1>4, <2>1, DbSetStatusType DEF PlaceMark
  <2>3. post' \in [ Service -> PostState ]
        BY <1>4, <2>1, PostWrites DEF PlaceMark
  <2> QED
      BY <1>4, <2>2, <2>3 DEF PlaceMark
<1>5. ASSUME NEW g \in Segment, PlaceSend(s, g) PROVE TypeOK'
      BY <1>5, <1>a DEF PlaceSend
<1>6. CASE PlaceReturn(s)
      BY <1>6 DEF PlaceReturn, PostState
<1>7. CASE PlaceBroken(s)
      BY <1>7 DEF PlaceBroken, PostState
<1>8. CASE PostReject(s)
  <2>1. "REJECTED" \in Status
        BY DEF Status
  <2>2. conns' \in [ Service -> Conn \cup {NoConn} ]
        BY <1>8, <2>1, DbSetStatusType DEF PostReject
  <2>3. post' \in [ Service -> PostState ]
        BY <1>8 DEF PostReject, PostState
  <2> QED
      BY <1>8, <2>2, <2>3 DEF PostReject
<1> QED
    BY <1>1, <1>2, <1>3, <1>4, <1>5, <1>6, <1>7, <1>8 DEF PostStep

LEMMA DelType ==
    ASSUME TypeOK, NEW r \in Request,
           (\E s \in Service : DelRead(r, s)) \/ DelStep(r)
    PROVE  TypeOK'
<1> USE DEF TypeOK, store, wire, DelGoto
<1>1. ASSUME NEW s \in Service, DelRead(r, s) PROVE TypeOK'
      BY <1>1 DEF DelRead, Present, DelState
<1>2. ASSUME del[r] \notin { Idle, Finished }
      PROVE  /\ del[r] \in [ pc : { "settle", "release", "send", "drop", "archive",
                                    "unlink", "mark", "markBreakdown" },
                             sid : Service, conn : Conn, brk : SUBSET Segment ]
             /\ \A pc \in { "release", "send", "drop", "archive", "unlink", "mark",
                            "markBreakdown" } :
                    [ del[r] EXCEPT !.pc = pc ] \in DelState
      BY <1>2, DelShape DEF DelState
<1>3. del[r].pc \in { "settle", "release", "send", "drop", "archive", "unlink",
                      "mark", "markBreakdown" } => del[r] \notin { Idle, Finished }
      BY DelShape
<1>4. CASE DelSettle(r)
  <2>1. del[r].sid \in Service
        BY <1>2, <1>3, <1>4 DEF DelSettle
  <2>2. Present(del[r].sid) =>
            [ del[r] EXCEPT !.pc = "release", !.conn = conns[del[r].sid] ] \in DelState
    <3>1. ASSUME Present(del[r].sid) PROVE conns[del[r].sid] \in Conn
          BY <2>1, <3>1 DEF Present
    <3> QED
        BY <1>2, <1>3, <1>4, <3>1 DEF DelSettle, DelState
  <2>3. del' \in [ Request -> DelState ]
        BY <1>2, <1>3, <1>4, <2>2 DEF DelSettle
  <2> QED
      BY <1>4, <2>3 DEF DelSettle
<1>5. CASE DelRelease(r)
      BY <1>2, <1>3, <1>5 DEF DelRelease
<1>6. CASE DelSend(r)
      BY <1>2, <1>3, <1>6 DEF DelSend, Deletes, Orders, Order, Conn
<1>7. CASE DelSendFails(r)
      BY <1>2, <1>3, <1>7 DEF DelSendFails, Deletes, Orders, Order, Conn
<1>8. CASE DelDrop(r)
      BY <1>2, <1>3, <1>8 DEF DelDrop
<1>9. CASE DelArchive(r)
      BY <1>2, <1>3, <1>9 DEF DelArchive
<1>10. CASE DelUnlink(r)
  <2>1. del[r].sid \in Service
        BY <1>2, <1>3, <1>10 DEF DelUnlink
  <2>2. /\ conns' \in [ Service -> Conn \cup {NoConn} ]
        /\ tombs' \in [ Service -> Nat ]
    <3>1. CASE tombs[del[r].sid] > 0
      <4>1. tombs[del[r].sid] - 1 \in Nat
            BY <2>1, <3>1
      <4> QED
          BY <1>10, <2>1, <3>1, <4>1 DEF DelUnlink, DbDeleteOne
    <3>2. CASE ~ (tombs[del[r].sid] > 0)
          BY <1>10, <2>1, <3>2 DEF DelUnlink, DbDeleteOne
    <3> QED
        BY <3>1, <3>2
  <2>3. del' \in [ Request -> DelState ]
        BY <1>2, <1>3, <1>10 DEF DelUnlink
  <2> QED
    <3>1. history' \in [ Service -> Nat ]
          BY <1>10, <2>1 DEF DelUnlink
    <3> QED
        BY <1>10, <2>2, <2>3, <3>1 DEF DelUnlink
<1>11. CASE DelMark(r)
      BY <1>2, <1>3, <1>11 DEF DelMark, DbMark
<1>12. CASE DelMarkBreakdown(r)
      BY <1>2, <1>3, <1>12 DEF DelMarkBreakdown, DelState
<1> QED
    BY <1>1, <1>4, <1>5, <1>6, <1>7, <1>8, <1>9, <1>10, <1>11, <1>12 DEF DelStep

LEMMA DeletesType ==
    ASSUME NEW s \in Service, NEW B, NEW c \in Conn
    PROVE  Deletes(s, B, c) \subseteq Order
BY DEF Deletes, Orders, Order, Conn

LEMMA RecordedType ==
    ASSUME NEW c \in Conn, NEW m \in Answer
    PROVE  Recorded(c, m) \in Conn
BY DEF Recorded, Conn, Answer

LEMMA LcReceiveType ==
    ASSUME TypeOK, NEW m \in toSDX, LcReceive(m)
    PROVE  TypeOK'
<1> USE DEF TypeOK
<1>1. m \in Answer /\ m.sid \in Service /\ m.seg \in Segment
      BY DEF Answer
<1>2. toSDX' \subseteq Answer /\ dups' \in Nat
      BY DEF LcReceive, Take
<1>3. lc' \in LcState
  <2>1. ASSUME NEW pc \in { "cleanup", "late", "save" }, NEW c \in Conn, Handle(m, pc, c)
        PROVE  lc' \in LcState
        BY <1>1, <2>1 DEF Handle, LcState
  <2>2. ASSUME Known(m)
        PROVE  conns[m.sid] \in Conn /\ Recorded(conns[m.sid], m) \in Conn
        BY <1>1, <2>2, RecordedType DEF Known, Present
  <2>3. CASE LcIgnore(m)
        BY <2>3 DEF LcIgnore
  <2>4. CASE LcCreated(m)
    <3> DEFINE c == [ Recorded(conns[m.sid], m) EXCEPT !.count = @ + 1 ]
    <3>1. Recorded(conns[m.sid], m) \in Conn
          BY <2>2, <2>4 DEF LcCreated
    <3>2. c \in Conn /\ [ c EXCEPT !.status = "UP" ] \in Conn
          BY <3>1, CountType, StatusType DEF Status
    <3> QED
        BY <2>1, <2>4, <3>2 DEF LcCreated
  <2>5. CASE LcCreatedLate(m)
        BY <2>1, <2>2, <2>5 DEF LcCreatedLate
  <2>6. CASE LcDeleted(m)
        BY <2>1, <2>2, <2>6 DEF LcDeleted
  <2>7. CASE LcFailed(m)
    <3> DEFINE c == conns[m.sid]
               d == [ Recorded(c, m) EXCEPT
                        !.status = IF @ \in { "MODIFYING", "UNDER_PROVISIONING" }
                                   THEN "DOWN" ELSE @ ]
    <3>1. d \in Conn /\ [ d EXCEPT !.partial = TRUE ] \in Conn
          BY <2>2, <2>7 DEF LcFailed, Conn, Status
    <3> QED
        BY <2>1, <2>7, <3>1 DEF LcFailed
  <2> QED
      BY <2>3, <2>4, <2>5, <2>6, <2>7 DEF LcReceive
<1> QED
    BY <1>2, <1>3 DEF LcReceive, store

LEMMA LcType ==
    ASSUME TypeOK, LcStep
    PROVE  TypeOK'
<1> USE DEF TypeOK, store, wire
<1>1. ASSUME NEW m \in toSDX, LcReceive(m) PROVE TypeOK'
      BY <1>1, LcReceiveType
<1>2. ASSUME NEW m \in reports, LcReport(m) PROVE TypeOK'
  <2>1. m.sid \in Service /\ m.status \in Status
        BY DEF Report
  <2>2. lc' \in LcState
    <3>1. ASSUME Present(m.sid) PROVE [ conns[m.sid] EXCEPT !.status = m.status ] \in Conn
          BY <2>1, <3>1, StatusType DEF Present
    <3> QED
      <4>1. ASSUME Present(m.sid), conns[m.sid].status # m.status
            PROVE  lc' \in [ pc : { "replace" }, sid : Service, conn : Conn ]
        <5> DEFINE c == [ conns[m.sid] EXCEPT !.status = m.status ]
        <5>1. lc' = [ pc |-> "replace", sid |-> m.sid, conn |-> c ]
              BY <1>2, <4>1 DEF LcReport
        <5>2. c \in Conn
              BY <3>1, <4>1
        <5> HIDE DEF c
        <5> QED
            BY <2>1, <5>1, <5>2
      <4> QED
          BY <1>2, <4>1 DEF LcReport, LcState
  <2> QED
      BY <1>2, <2>2 DEF LcReport
<1>3. CASE LcCleanup
  <2>1. lc.sid \in Service /\ lc.conn \in Conn /\ lc' \in LcState
        BY <1>3, LcShape DEF LcCleanup, LcState
  <2> QED
      BY <1>3, <2>1, DeletesType DEF LcCleanup
<1>4. CASE LcCleanupFails
  <2>1. lc.sid \in Service /\ lc.conn \in Conn
        BY <1>4, LcShape DEF LcCleanupFails
  <2> QED
      BY <1>4, <2>1, DeletesType DEF LcCleanupFails, LcState
<1>5. CASE LcLate
  <2>1. lc \in [ pc : { "cleanup", "late", "save" }, sid : Service,
                 seg : Segment, conn : Conn ]
        BY <1>5, LcShape DEF LcLate
  <2>2. DomOf[lc.seg] \in Domain
        BY <2>1, ProvisioningAssumption
  <2>3. [ lc EXCEPT !.pc = "save", !.conn.late = @ \cup { DomOf[lc.seg] } ] \in LcState
        BY <2>1, <2>2 DEF LcState, Conn
  <2> QED
      BY <1>5, <2>1, <2>3, DeletesType DEF LcLate
<1>6. CASE LcLateFails
      BY <1>6 DEF LcLateFails, LcState
<1>7. CASE LcSave
  <2>1. lc.sid \in Service /\ lc.conn \in Conn
        BY <1>7, LcShape DEF LcSave
  <2>2. Present(lc.sid) => [ lc.conn EXCEPT !.handled = conns[lc.sid].handled ] \in Conn
        BY <2>1 DEF Present, Conn
  <2> QED
      BY <1>7, <2>1, <2>2, DbUpdateType DEF LcSave, LcState
<1>8. CASE LcReplace
  <2>1. lc.sid \in Service /\ lc.conn \in Conn
        BY <1>8, LcShape DEF LcReplace
  <2> QED
      BY <1>8, <2>1 DEF LcReplace, DbAdd, LcState
<1> QED
    BY <1>1, <1>2, <1>3, <1>4, <1>5, <1>6, <1>7, <1>8 DEF LcStep

LEMMA MonType ==
    ASSUME TypeOK, MonStep
    PROVE  TypeOK'
<1> USE DEF TypeOK, store, wire
<1>1. ASSUME NEW T \in SUBSET Service, MonScan(T) PROVE TypeOK'
      BY <1>1 DEF MonScan, MonState
<1>2. ASSUME NEW s \in Service, MonTimeout(s) PROVE TypeOK'
  <2> DEFINE c == [ mon.snap[s] EXCEPT !.status = "DOWN", !.handled = TRUE, !.partial = TRUE ]
  <2>1. mon.snap \in [ Service -> Conn \cup {NoConn} ] /\ mon.snap[s] \in Conn
        BY <1>2, MonShape DEF MonTimeout
  <2>2. c \in Conn
        BY <2>1 DEF Conn, Status
  <2>3. mon' \in MonState
        BY <1>2, <2>1, <2>2 DEF MonTimeout, MonState
  <2> QED
      BY <1>2, <2>2, <2>3 DEF MonTimeout, DbAdd
<1>3. CASE MonCleanup
  <2>1. /\ mon.snap \in [ Service -> Conn \cup {NoConn} ]
        /\ mon.sid \in Service /\ mon.conn \in Conn
        BY <1>3, MonShape DEF MonCleanup
  <2>2. mon' \in MonState
        BY <1>3, <2>1 DEF MonCleanup, MonContinue, MonState
  <2> QED
      BY <1>3, <2>1, <2>2, DeletesType DEF MonCleanup
<1>4. CASE MonCleanupFails
  <2>1. mon.sid \in Service /\ mon.conn \in Conn
        BY <1>4, MonShape DEF MonCleanupFails
  <2> QED
      BY <1>4, <2>1, DeletesType DEF MonCleanupFails, MonState
<1> QED
    BY <1>1, <1>2, <1>3, <1>4 DEF MonStep

LEMMA OxpType ==
    ASSUME TypeOK, OxpStep
    PROVE  TypeOK'
<1> USE DEF TypeOK, store, wire
<1>1. ASSUME NEW m \in toLC, OxpServe(m) PROVE TypeOK'
  <2>1. m \in Order
        OBVIOUS
  <2>2. ASSUME NEW st \in { "none", "up", "refused", "gone" }, NEW ok \in BOOLEAN,
               Serve(m, st, ok)
        PROVE  TypeOK'
        BY <2>1, <2>2 DEF Serve, Order, Answer
  <2> QED
    <3>1. oxp[m.sid][m.seg] \in { "none", "up", "refused", "gone" }
          BY <2>1 DEF Order
    <3>2. CASE OxpCreate(m)
          BY <2>2, <3>2 DEF OxpCreate
    <3>3. CASE OxpRefuse(m)
          BY <2>2, <3>3 DEF OxpRefuse
    <3>4. CASE OxpDelete(m)
          BY <2>2, <3>4 DEF OxpDelete
    <3>5. CASE OxpDeleteFails(m)
          BY <2>2, <3>1, <3>5 DEF OxpDeleteFails
    <3> QED
        BY <1>1, <3>2, <3>3, <3>4, <3>5 DEF OxpServe
<1>2. ASSUME NEW s \in Service, NEW st \in ReportedStatus, OxpReport(s, st) PROVE TypeOK'
      BY <1>2, ProvisioningAssumption DEF OxpReport, Report
<1> QED
    BY <1>1, <1>2 DEF OxpStep

LEMMA NextType ==
    ASSUME TypeOK, [Next]_vars
    PROVE  TypeOK'
<1>1. CASE UNCHANGED vars
      BY <1>1 DEF TypeOK, vars
<1> QED
    BY <1>1, PostType, DelType, LcType, MonType, OxpType DEF Next

\* Every document, message and thread state is of its type: in particular no
\* thread works on the absence of a document.
THEOREM TypeCorrect == Spec => []TypeOK
BY InitType, NextType, PTL DEF Spec
=============================================================================
