-------------------------- MODULE ProvisioningSafety --------------------------
(***************************************************************************)
(* The safety theorems of Provisioning.  WireInv is inductive for every    *)
(* value of the constants: no OXP is asked to delete what it has not       *)
(* created.  DocumentInv and LifeInv are inductive where no timeout and no *)
(* report disturbs a connection: what is deleted stays deleted, and every  *)
(* step is one of ConnectionLifecycle or changes nothing a client sees.    *)
(***************************************************************************)
EXTENDS ProvisioningProofs

Wire == FreshIsClean /\ CreatedOnce /\ AnswersAreTrue /\ DeleteTargetsCreated

(***************************************************************************)
(* Frames: what keeps each half of WireInv.                                *)
(***************************************************************************)
LEMMA WireKept ==
    ASSUME Wire, UNCHANGED << oxp, toLC, toSDX, post >>
    PROVE  Wire'
BY DEF Wire, FreshIsClean, CreatedOnce, AnswersAreTrue, DeleteTargetsCreated, Fresh,
       Creating, Answered, Created

\* Publishing deletes from a sound copy.
LEMMA WireDeletes ==
    ASSUME Wire, NEW s \in Service, NEW B, NEW c \in Conn, EvcCreated(s, c),
           NEW D \in SUBSET Deletes(s, B, c), toLC' = toLC \cup D,
           UNCHANGED << oxp, toSDX, post >>
    PROVE  Wire'
<1>1. \A m \in D : m.op = "delete" /\ Created(m.sid, m.seg)
      BY DEF Deletes, Orders, EvcCreated, Conn
<1>2. \A t \in Service, g \in Segment : Creating(t, g)' <=> Creating(t, g)
      BY <1>1 DEF Creating
<1>3. DeleteTargetsCreated'
      BY <1>1 DEF Wire, DeleteTargetsCreated, Created
<1>4. (FreshIsClean /\ CreatedOnce /\ AnswersAreTrue)'
      BY <1>2 DEF Wire, FreshIsClean, CreatedOnce, AnswersAreTrue, Fresh, Answered, Created
<1> QED
    BY <1>3, <1>4 DEF Wire

\* While no EVC changes, it is enough to look at the copies a step makes.
LEMMA CopiesSound ==
    ASSUME TypeOK, EveryCopy(EvcCreated), UNCHANGED oxp,
           \A s \in Service : conns'[s] # NoConn =>
               conns'[s] = conns[s] \/ EvcCreated(s, conns'[s]),
           lc' # Idle => lc' = lc \/ EvcCreated(lc'.sid, lc'.conn),
           \A r \in Request : del'[r] \notin { Idle, Finished } =>
               del'[r] = del[r] \/ EvcCreated(del'[r].sid, del'[r].conn),
           mon' # mon /\ mon' # Idle => \A s \in Service :
               mon'.snap[s] # NoConn => EvcCreated(s, mon'.snap[s]),
           mon' # mon /\ mon'.pc = "cleanup" => EvcCreated(mon'.sid, mon'.conn)
    PROVE  EveryCopy(EvcCreated)'
<1>1. (\A s \in Service : Present(s) => EvcCreated(s, conns[s]))'
      BY DEF EveryCopy, Present, EvcCreated, Created
<1>2. (lc # Idle => EvcCreated(lc.sid, lc.conn))'
      BY DEF EveryCopy, EvcCreated, Created
<1>3. (\A r \in Request :
           del[r] \notin { Idle, Finished } => EvcCreated(del[r].sid, del[r].conn))'
      BY DEF EveryCopy, EvcCreated, Created
<1>4. (mon # Idle => \A s \in Service :
           mon.snap[s] # NoConn => EvcCreated(s, mon.snap[s]))'
      BY DEF EveryCopy, EvcCreated, Created
<1>5. (mon.pc = "cleanup" => EvcCreated(mon.sid, mon.conn))'
      BY DEF EveryCopy, EvcCreated, Created
<1> QED
    BY <1>1, <1>2, <1>3, <1>4, <1>5 DEF EveryCopy

LEMMA InitWire == Init => WireInv
<1> SUFFICES ASSUME Init PROVE WireInv
    OBVIOUS
<1>1. FreshIsClean /\ CreatedOnce /\ AnswersAreTrue /\ DeleteTargetsCreated
      BY DEF Init, FreshIsClean, CreatedOnce, AnswersAreTrue, DeleteTargetsCreated, Fresh,
             Creating, Answered
<1>2. EveryCopy(EvcCreated)
      BY DEF Init, EveryCopy, Present, Idle
<1> QED
    BY <1>1, <1>2 DEF WireInv

(***************************************************************************)
(* WireInv is kept by each thread.                                         *)
(***************************************************************************)
LEMMA SetStatusSound ==
    ASSUME TypeOK, EveryCopy(EvcCreated), NEW s \in Service, NEW st \in Status,
           DbSetStatus(s, st)
    PROVE  \A t \in Service : conns'[t] # NoConn =>
               conns'[t] = conns[t] \/ EvcCreated(t, conns'[t])
<1>1. CASE Present(s) /\ tombs[s] = 0
  <2>1. conns[s] \in Conn /\ EvcCreated(s, conns[s])
        BY <1>1 DEF TypeOK, Present, EveryCopy
  <2>2. EvcCreated(s, [ conns[s] EXCEPT !.status = st ])
        BY <2>1 DEF EvcCreated, Conn
  <2> QED
      BY <1>1, <2>2 DEF DbSetStatus, DbUpdate, TypeOK
<1>2. CASE ~ (Present(s) /\ tombs[s] = 0)
      BY <1>2 DEF DbSetStatus, DbUpdate
<1> QED
    BY <1>1, <1>2

LEMMA PostWire ==
    ASSUME TypeOK, WireInv, NEW s \in Service, PostSave(s) \/ PostStep(s)
    PROVE  WireInv'
<1> USE DEF store, wire, PostGoto
<1>0. Wire /\ EveryCopy(EvcCreated) /\ post[s] \in PostState
      BY DEF WireInv, Wire, TypeOK
<1>1. CASE PostSave(s)
  <2>1. Wire'
        BY <1>0, <1>1 DEF PostSave, TypeOK, PostState, Wire, FreshIsClean, CreatedOnce,
           AnswersAreTrue, DeleteTargetsCreated, Fresh, Creating, Answered, Created
  <2>2. EveryCopy(EvcCreated)'
    <3>1. EvcCreated(s, NewConn)
          BY DEF EvcCreated, NewConn
    <3> QED
        BY <1>0, <1>1, <3>1, CopiesSound DEF PostSave, DbAdd, TypeOK
  <2> QED
      BY <2>1, <2>2 DEF WireInv, Wire
<1>2. ASSUME UNCHANGED << oxp, toLC, toSDX, conns, lc, del, mon >>,
             \A t \in Service : Fresh(t)' => Fresh(t) /\ post'[t].todo = {},
             \A t \in Service : post'[t].todo \subseteq
                                    post[t].todo \cup { g \in Segment : Fresh(t) }
      PROVE  WireInv'
  <2>1. FreshIsClean'
        BY <1>0, <1>2 DEF Wire, FreshIsClean, Creating
  <2>2. CreatedOnce'
        BY <1>0, <1>2 DEF Wire, FreshIsClean, CreatedOnce, Creating
  <2>3. AnswersAreTrue' /\ DeleteTargetsCreated'
        BY <1>0, <1>2 DEF Wire, AnswersAreTrue, DeleteTargetsCreated, Answered, Created
  <2>4. EveryCopy(EvcCreated)'
        BY <1>0, <1>2, CopiesSound DEF EveryCopy, Present
  <2> QED
      BY <2>1, <2>2, <2>3, <2>4 DEF WireInv
<1>3. CASE PlaceFail(s)
      BY <1>0, <1>2, <1>3 DEF PlaceFail, TypeOK, PostState, Fresh, Wire, FreshIsClean
<1>4. ASSUME NEW B \in SUBSET Segment, PlaceBreakdown(s, B) PROVE WireInv'
      BY <1>0, <1>2, <1>4 DEF PlaceBreakdown, TypeOK, PostState, Fresh, Wire, FreshIsClean
<1>5. ASSUME UNCHANGED << oxp, toLC, toSDX, lc, del, mon >>, ~ Fresh(s),
             NEW st \in Status, DbSetStatus(s, st) \/ UNCHANGED conns,
             NEW pc \in { "sending", "done" }, NEW l \in Status,
             post' = [ post EXCEPT ![s].pc = pc, ![s].status = l ]
      PROVE  WireInv'
  <2>1. \A t \in Service : Fresh(t)' <=> Fresh(t)
        BY <1>0, <1>5 DEF Fresh, TypeOK, PostState
  <2>2. \A t \in Service : post'[t].todo = post[t].todo
        BY <1>5 DEF TypeOK, PostState
  <2>3. Wire'
        BY <1>0, <1>5, <2>1, <2>2 DEF Wire, FreshIsClean, CreatedOnce, AnswersAreTrue,
           DeleteTargetsCreated, Creating, Answered, Created
  <2>4. EveryCopy(EvcCreated)'
        BY <1>0, <1>5, SetStatusSound, CopiesSound
  <2> QED
      BY <2>3, <2>4 DEF WireInv, Wire
<1>6. CASE PlaceMark(s)
      BY <1>5, <1>6 DEF PlaceMark, Fresh, Status
<1>7. ASSUME NEW g \in Segment, PlaceSend(s, g) PROVE WireInv'
  <2>1. /\ \A t \in Service : Fresh(t)' <=> Fresh(t)
        /\ ~ Fresh(s)
        /\ \A t \in Service : post'[t].todo = IF t = s THEN post[s].todo \ {g} ELSE post[t].todo
        BY <1>7 DEF PlaceSend, Fresh, TypeOK, PostState
  <2>2. \A t \in Service, h \in Segment :
            Creating(t, h)' <=> Creating(t, h) \/ (t = s /\ h = g)
        BY <1>7 DEF PlaceSend, Orders, Creating
  <2>3. g \in post[s].todo /\ oxp' = oxp /\ toSDX' = toSDX
        BY <1>7 DEF PlaceSend
  <2>4. FreshIsClean' /\ CreatedOnce'
        BY <1>0, <2>1, <2>2, <2>3 DEF Wire, FreshIsClean, CreatedOnce
  <2>5. AnswersAreTrue'
        BY <1>0, <2>3 DEF Wire, AnswersAreTrue, Answered, Created
  <2>6. DeleteTargetsCreated'
        BY <1>0, <1>7 DEF Wire, PlaceSend, DeleteTargetsCreated, Orders, Created
  <2>7. EveryCopy(EvcCreated)'
        BY <1>0, <1>7, CopiesSound DEF PlaceSend
  <2> QED
      BY <2>4, <2>5, <2>6, <2>7 DEF WireInv
<1>8. CASE PlaceReturn(s)
      BY <1>0, <1>2, <1>8 DEF PlaceReturn, TypeOK, PostState, Fresh, Wire, FreshIsClean
<1>9. CASE PlaceBroken(s)
      BY <1>0, <1>2, <1>9 DEF PlaceBroken, TypeOK, PostState, Fresh, Wire, FreshIsClean
<1>10. CASE PostReject(s)
  <2>1. post' = [ post EXCEPT ![s].pc = "done", ![s].status = post[s].status ]
        BY <1>0, <1>10 DEF PostReject, TypeOK, PostState
  <2> QED
      BY <1>0, <1>5, <1>10, <2>1 DEF PostReject, Fresh, Status, PostState
<1> QED
    BY <1>1, <1>3, <1>4, <1>6, <1>7, <1>8, <1>9, <1>10 DEF PostStep

LEMMA DelWire ==
    ASSUME TypeOK, WireInv, NEW r \in Request,
           (\E s \in Service : DelRead(r, s)) \/ DelStep(r)
    PROVE  WireInv'
<1> USE DEF store, wire, DelGoto
<1>0. Wire /\ EveryCopy(EvcCreated) /\ del \in [ Request -> DelState ]
      BY DEF WireInv, Wire, TypeOK
<1>1. ASSUME UNCHANGED << oxp, toSDX, post, lc, mon >>,
             Wire',
             \A s \in Service : conns'[s] # NoConn => conns'[s] = conns[s],
             NEW d \in DelState, del' = [ del EXCEPT ![r] = d ],
             d \notin { Idle, Finished } => EvcCreated(d.sid, d.conn)
      PROVE  WireInv'
  <2>1. EveryCopy(EvcCreated)'
        BY <1>0, <1>1, CopiesSound
  <2> QED
      BY <1>1, <2>1 DEF WireInv, Wire
<1>2. ASSUME NEW s \in Service, DelRead(r, s) PROVE WireInv'
  <2>1. Wire'
        BY <1>0, <1>2, WireKept DEF DelRead
  <2>2. conns[s] \in Conn /\ EvcCreated(s, conns[s])
        BY <1>0, <1>2 DEF DelRead, TypeOK, Present, EveryCopy
  <2>3. PICK pc \in { "mark", "settle", "release" } :
            del' = [ del EXCEPT ![r] = [ pc |-> pc, sid |-> s, conn |-> conns[s],
                                         brk |-> breakdowns[s] ] ]
        BY <1>2 DEF DelRead
  <2>4. [ pc |-> pc, sid |-> s, conn |-> conns[s], brk |-> breakdowns[s] ] \in DelState
        BY <2>2 DEF DelState, TypeOK
  <2> QED
      BY <1>1, <1>2, <2>1, <2>2, <2>3, <2>4 DEF DelRead
<1>3. ASSUME DelStep(r)
      PROVE  /\ del[r] \in [ pc : { "settle", "release", "send", "drop", "archive",
                                    "unlink", "mark", "markBreakdown" },
                             sid : Service, conn : Conn, brk : SUBSET Segment ]
             /\ EvcCreated(del[r].sid, del[r].conn)
             /\ \A pc \in { "release", "send", "drop", "archive", "unlink", "mark",
                            "markBreakdown" } :
                    /\ [ del[r] EXCEPT !.pc = pc ] \in DelState
                    /\ [ del[r] EXCEPT !.pc = pc ].sid = del[r].sid
                    /\ [ del[r] EXCEPT !.pc = pc ].conn = del[r].conn
  <2>1. del[r] \notin { Idle, Finished }
        BY <1>0, <1>3, DelShape DEF DelStep, DelSettle, DelRelease, DelSend, DelSendFails,
           DelDrop, DelArchive, DelUnlink, DelMark, DelMarkBreakdown
  <2>2. del[r] \in [ pc : { "settle", "release", "send", "drop", "archive", "unlink",
                            "mark", "markBreakdown" },
                     sid : Service, conn : Conn, brk : SUBSET Segment ]
        BY <1>0, <2>1, DelShape
  <2> QED
      BY <1>0, <2>1, <2>2 DEF EveryCopy, DelState
<1>4. CASE DelSettle(r)
  <2>1. Wire'
        BY <1>0, <1>4, WireKept DEF DelSettle
  <2>2. CASE DelGoto(r, "mark")
        BY <1>1, <1>3, <1>4, <2>1, <2>2 DEF DelSettle, DelStep
  <2>3. CASE /\ Present(del[r].sid)
             /\ del' = [ del EXCEPT ![r] =
                           [ @ EXCEPT !.pc = "release", !.conn = conns[del[r].sid] ] ]
    <3>1. /\ conns[del[r].sid] \in Conn
          /\ EvcCreated(del[r].sid, conns[del[r].sid])
          BY <1>0, <1>3, <1>4, <2>3 DEF DelStep, TypeOK, Present, EveryCopy
    <3> DEFINE d == [ del[r] EXCEPT !.pc = "release", !.conn = conns[del[r].sid] ]
    <3>2. d \in DelState /\ d.sid = del[r].sid /\ d.conn = conns[del[r].sid]
          BY <1>3, <1>4, <3>1 DEF DelStep, DelState
    <3>3. del' = [ del EXCEPT ![r] = d ]
          BY <2>3
    <3> HIDE DEF d
    <3> QED
        BY <1>1, <1>4, <2>1, <3>1, <3>2, <3>3 DEF DelSettle
  <2> QED
      BY <1>4, <2>2, <2>3 DEF DelSettle
<1>5. CASE DelRelease(r)
  <2>1. Wire'
        BY <1>0, <1>5, WireKept DEF DelRelease
  <2> QED
      BY <1>1, <1>3, <1>5, <2>1 DEF DelRelease, DelStep
<1>6. CASE DelSend(r)
  <2>1. Wire'
        BY <1>0, <1>3, <1>6, WireDeletes DEF DelSend, DelStep
  <2> QED
      BY <1>1, <1>3, <1>6, <2>1 DEF DelSend, DelStep
<1>7. CASE DelSendFails(r)
  <2>1. Wire'
        BY <1>0, <1>3, <1>7, WireDeletes DEF DelSendFails, DelStep
  <2> QED
      BY <1>1, <1>3, <1>7, <2>1 DEF DelSendFails, DelStep
<1>8. CASE DelDrop(r)
  <2>1. Wire'
        BY <1>0, <1>8, WireKept DEF DelDrop
  <2> QED
      BY <1>1, <1>3, <1>8, <2>1 DEF DelDrop, DelStep
<1>9. CASE DelArchive(r)
  <2>1. Wire'
        BY <1>0, <1>9, WireKept DEF DelArchive
  <2> QED
      BY <1>1, <1>3, <1>9, <2>1 DEF DelArchive, DelStep
<1>10. CASE DelUnlink(r)
  <2>1. Wire'
        BY <1>0, <1>10, WireKept DEF DelUnlink
  <2>2. \A s \in Service : conns'[s] # NoConn => conns'[s] = conns[s]
        BY <1>3, <1>10 DEF DelUnlink, DbDeleteOne, TypeOK, DelStep
  <2> QED
      BY <1>1, <1>3, <1>10, <2>1, <2>2 DEF DelUnlink, DelStep
<1>11. CASE DelMark(r)
  <2>1. Wire'
        BY <1>0, <1>11, WireKept DEF DelMark
  <2>2. \A s \in Service : conns'[s] # NoConn => conns'[s] = conns[s]
        BY <1>3, <1>11 DEF DelMark, DbMark, TypeOK, DelStep
  <2> QED
      BY <1>1, <1>3, <1>11, <2>1, <2>2 DEF DelMark, DelStep
<1>12. CASE DelMarkBreakdown(r)
  <2>1. Wire'
        BY <1>0, <1>12, WireKept DEF DelMarkBreakdown
  <2>2. Finished \in DelState
        BY DEF DelState
  <2> QED
      BY <1>1, <1>3, <1>12, <2>1, <2>2 DEF DelMarkBreakdown, DelStep
<1> QED
    BY <1>2, <1>4, <1>5, <1>6, <1>7, <1>8, <1>9, <1>10, <1>11, <1>12 DEF DelStep

LEMMA MonWire ==
    ASSUME TypeOK, WireInv, MonStep
    PROVE  WireInv'
<1> USE DEF store, wire
<1>0. Wire /\ EveryCopy(EvcCreated)
      BY DEF WireInv, Wire
<1>1. ASSUME NEW T \in SUBSET Service, MonScan(T) PROVE WireInv'
  <2>1. Wire'
        BY <1>0, <1>1, WireKept DEF MonScan
  <2>2. \A s \in Service : mon'.snap[s] # NoConn => EvcCreated(s, mon'.snap[s])
        BY <1>0, <1>1 DEF MonScan, EveryCopy, Present, TypeOK
  <2>3. EveryCopy(EvcCreated)'
        BY <1>0, <1>1, <2>2, CopiesSound DEF MonScan
  <2> QED
      BY <2>1, <2>3 DEF WireInv, Wire
<1>2. ASSUME NEW s \in Service, MonTimeout(s) PROVE WireInv'
  <2>1. Wire'
        BY <1>0, <1>2, WireKept DEF MonTimeout
  <2> DEFINE c == [ mon.snap[s] EXCEPT !.status = "DOWN", !.handled = TRUE, !.partial = TRUE ]
  <2>2. /\ mon.snap \in [ Service -> Conn \cup {NoConn} ]
        /\ mon.snap[s] \in Conn /\ EvcCreated(s, mon.snap[s])
        BY <1>0, <1>2, MonShape DEF MonTimeout, TypeOK, EveryCopy, Idle
  <2>3. EvcCreated(s, c)
        BY <2>2 DEF EvcCreated, Conn
  <2>4. /\ conns' = [ conns EXCEPT ![s] = c ]
        /\ mon' = [ pc |-> "cleanup", sid |-> s, conn |-> c,
                    snap |-> [ mon.snap EXCEPT ![s] = NoConn ] ]
        /\ UNCHANGED << oxp, lc, del >>
        BY <1>2 DEF MonTimeout, DbAdd
  <2>5. \A t \in Service : mon'.snap[t] # NoConn => EvcCreated(t, mon'.snap[t])
        BY <1>0, <1>2, <2>2, <2>4 DEF EveryCopy, MonTimeout, Idle
  <2>6. EveryCopy(EvcCreated)'
        BY <1>0, <2>3, <2>4, <2>5, CopiesSound DEF TypeOK
  <2> QED
      BY <2>1, <2>6 DEF WireInv, Wire
<1>3. CASE MonCleanup \/ MonCleanupFails
  <2>1. /\ mon.sid \in Service /\ mon.conn \in Conn /\ EvcCreated(mon.sid, mon.conn)
        /\ mon # Idle
        BY <1>0, <1>3, MonShape DEF MonCleanup, MonCleanupFails, TypeOK, EveryCopy, Idle
  <2>2. Wire'
        BY <1>0, <1>3, <2>1, WireDeletes DEF MonCleanup, MonCleanupFails
  <2>3. mon' # Idle => mon'.snap = mon.snap /\ mon'.pc = "scan"
        BY <1>3 DEF MonCleanup, MonCleanupFails, MonContinue
  <2>4. mon' = Idle => mon'.pc = "idle"
        BY DEF Idle
  <2>5. EveryCopy(EvcCreated)'
        BY <1>0, <1>3, <2>1, <2>3, <2>4, CopiesSound DEF MonCleanup, MonCleanupFails, EveryCopy
  <2> QED
      BY <2>2, <2>5 DEF WireInv, Wire
<1> QED
    BY <1>1, <1>2, <1>3 DEF MonStep

LEMMA LcWire ==
    ASSUME TypeOK, WireInv, LcStep
    PROVE  WireInv'
<1> USE DEF store, wire
<1>0. Wire /\ EveryCopy(EvcCreated)
      BY DEF WireInv, Wire
<1>1. ASSUME NEW m \in toSDX, LcReceive(m) PROVE WireInv'
  <2>1. m \in Answer /\ m.sid \in Service /\ m.seg \in Segment
        BY DEF TypeOK, Answer
  <2>2. Wire'
    <3>1. toSDX' \subseteq toSDX /\ UNCHANGED << oxp, toLC, post >>
          BY <1>1 DEF LcReceive, Take
    <3> QED
        BY <1>0, <3>1 DEF Wire, FreshIsClean, CreatedOnce, AnswersAreTrue,
           DeleteTargetsCreated, Fresh, Creating, Answered, Created
  <2>3. ASSUME Known(m)
        PROVE  /\ conns[m.sid] \in Conn
               /\ Recorded(conns[m.sid], m) \in Conn
               /\ EvcCreated(m.sid, Recorded(conns[m.sid], m))
    <3>1. conns[m.sid] \in Conn /\ EvcCreated(m.sid, conns[m.sid])
          BY <1>0, <2>1, <2>3 DEF Known, Present, TypeOK, EveryCopy
    <3>2. m.op = "post" /\ m.ok => Created(m.sid, m.seg)
      <4>1. ASSUME m.op = "post", m.ok
            PROVE  m = [ op |-> "post", sid |-> m.sid, seg |-> m.seg, ok |-> TRUE ]
            BY <2>1, <4>1 DEF Answer
      <4> QED
          BY <1>0, <2>1, <4>1 DEF Wire, AnswersAreTrue, Answered
    <3>3. m.op \in { "post", "delete" }
          BY <2>1 DEF Answer
    <3> QED
        BY <2>1, <3>1, <3>2, <3>3, RecordedType DEF Recorded, EvcCreated, Conn
  <2>4. lc' # Idle => lc'.sid = m.sid /\ EvcCreated(m.sid, lc'.conn)
    <3>1. ASSUME NEW pc, NEW c, Handle(m, pc, c),
                 Known(m), c \in Conn, c.evc = Recorded(conns[m.sid], m).evc
          PROVE  lc'.sid = m.sid /\ EvcCreated(m.sid, lc'.conn)
          BY <2>3, <3>1 DEF Handle, EvcCreated
    <3>2. CASE LcIgnore(m)
          BY <1>1, <3>2 DEF LcIgnore, LcReceive
    <3>3. CASE LcCreated(m)
      <4> DEFINE k == Recorded(conns[m.sid], m)
                 c == [ k EXCEPT !.count = @ + 1 ]
      <4>1. k \in Conn
            BY <2>3, <3>3 DEF LcCreated
      <4>2. /\ c \in Conn /\ c.evc = k.evc
            /\ [ c EXCEPT !.status = "UP" ] \in Conn
            /\ [ c EXCEPT !.status = "UP" ].evc = k.evc
        <5> HIDE DEF k
        <5>1. c \in Conn /\ c.evc = k.evc
              BY <4>1, CountType
        <5> HIDE DEF c
        <5>2. [ c EXCEPT !.status = "UP" ] \in Conn
              BY <5>1, StatusType DEF Status
        <5>3. [ c EXCEPT !.status = "UP" ].evc = c.evc
              BY <5>1 DEF Conn
        <5> QED
            BY <5>1, <5>2, <5>3
      <4> QED
          BY <1>1, <3>1, <3>3, <4>2 DEF LcCreated, LcReceive
    <3>4. CASE LcCreatedLate(m)
          BY <2>3, <3>1, <3>4 DEF LcCreatedLate
    <3>5. CASE LcDeleted(m)
          BY <2>3, <3>1, <3>5 DEF LcDeleted
    <3>6. CASE LcFailed(m)
      <4> DEFINE d == [ Recorded(conns[m.sid], m) EXCEPT
                          !.status = IF @ \in { "MODIFYING", "UNDER_PROVISIONING" }
                                     THEN "DOWN" ELSE @ ]
      <4>1. Recorded(conns[m.sid], m) \in Conn
            BY <2>3, <3>6 DEF LcFailed
      <4>2. /\ d \in Conn /\ d.evc = Recorded(conns[m.sid], m).evc
            /\ [ d EXCEPT !.partial = TRUE ] \in Conn
            /\ [ d EXCEPT !.partial = TRUE ].evc = Recorded(conns[m.sid], m).evc
            BY <4>1 DEF Conn, Status
      <4> QED
          BY <3>1, <3>6, <4>2 DEF LcFailed
    <3> QED
        BY <1>1, <3>2, <3>3, <3>4, <3>5, <3>6 DEF LcReceive
  <2>5. EveryCopy(EvcCreated)'
        BY <1>0, <1>1, <2>4, CopiesSound DEF LcReceive
  <2> QED
      BY <2>2, <2>5 DEF WireInv, Wire
<1>2. ASSUME NEW m \in reports, LcReport(m) PROVE WireInv'
  <2>1. m.sid \in Service /\ m.status \in Status
        BY DEF TypeOK, Report
  <2>2. Wire'
        BY <1>0, <1>2, WireKept DEF LcReport
  <2>3. lc' # Idle => EvcCreated(lc'.sid, lc'.conn)
    <3>1. ASSUME Present(m.sid)
          PROVE  EvcCreated(m.sid, [ conns[m.sid] EXCEPT !.status = m.status ])
          BY <1>0, <2>1, <3>1 DEF Present, TypeOK, EveryCopy, EvcCreated, Conn
    <3> QED
        BY <1>2, <3>1 DEF LcReport, Present
  <2>4. EveryCopy(EvcCreated)'
        BY <1>0, <1>2, <2>3, CopiesSound DEF LcReport
  <2> QED
      BY <2>2, <2>4 DEF WireInv, Wire
<1>3. CASE LcCleanup \/ LcCleanupFails \/ LcLate \/ LcLateFails
  <2>1. lc.sid \in Service /\ lc.conn \in Conn /\ EvcCreated(lc.sid, lc.conn) /\ lc # Idle
        BY <1>0, <1>3, LcShape DEF LcCleanup, LcCleanupFails, LcLate, LcLateFails, TypeOK,
           EveryCopy, Idle
  <2>2. Wire'
    <3>1. CASE LcCleanup
          BY <1>0, <2>1, <3>1, WireDeletes DEF LcCleanup
    <3>2. CASE LcCleanupFails
          BY <1>0, <2>1, <3>2, WireDeletes DEF LcCleanupFails
    <3>3. CASE LcLate
          BY <1>0, <2>1, <3>3, WireDeletes DEF LcLate
    <3>4. CASE LcLateFails
          BY <1>0, <3>4, WireKept DEF LcLateFails
    <3> QED
        BY <1>3, <3>1, <3>2, <3>3, <3>4
  <2>3. lc' # Idle => lc'.sid = lc.sid /\ lc'.conn.evc = lc.conn.evc
    <3>1. CASE LcCleanup
          BY <3>1, <2>1, LcShape DEF LcCleanup, TypeOK
    <3>2. CASE LcCleanupFails \/ LcLateFails
          BY <3>2 DEF LcCleanupFails, LcLateFails
    <3>3. CASE LcLate
      <4>1. lc \in [ pc : { "cleanup", "late", "save" }, sid : Service,
                     seg : Segment, conn : Conn ]
            BY <3>3, LcShape DEF LcLate, TypeOK
      <4>2. lc' = [ lc EXCEPT !.pc = "save", !.conn.late = @ \cup { DomOf[lc.seg] } ]
            BY <3>3 DEF LcLate
      <4> QED
          BY <4>1, <4>2 DEF Conn
    <3> QED
        BY <1>3, <3>1, <3>2, <3>3
  <2>4. EveryCopy(EvcCreated)'
    <3>1. lc' # Idle => EvcCreated(lc'.sid, lc'.conn)
          BY <2>1, <2>3 DEF EvcCreated
    <3> QED
        BY <1>0, <1>3, <3>1, CopiesSound DEF LcCleanup, LcCleanupFails, LcLate, LcLateFails
  <2> QED
      BY <2>2, <2>4 DEF WireInv, Wire
<1>4. CASE LcSave \/ LcReplace
  <2>1. lc.sid \in Service /\ lc.conn \in Conn /\ EvcCreated(lc.sid, lc.conn)
        BY <1>0, <1>4, LcShape DEF LcSave, LcReplace, TypeOK, EveryCopy, Idle
  <2>2. Wire'
        BY <1>0, <1>4, WireKept DEF LcSave, LcReplace
  <2>3. \A s \in Service : conns'[s] # NoConn =>
            conns'[s] = conns[s] \/ EvcCreated(s, conns'[s])
    <3>1. EvcCreated(lc.sid, [ lc.conn EXCEPT !.handled = conns[lc.sid].handled ])
          BY <2>1 DEF EvcCreated, Conn
    <3> QED
        BY <1>4, <2>1, <3>1 DEF LcSave, LcReplace, DbUpdate, DbAdd, TypeOK
  <2>4. EveryCopy(EvcCreated)'
        BY <1>0, <1>4, <2>3, CopiesSound DEF LcSave, LcReplace
  <2> QED
      BY <2>2, <2>4 DEF WireInv, Wire
<1> QED
    BY <1>1, <1>2, <1>3, <1>4 DEF LcStep

LEMMA OxpWire ==
    ASSUME TypeOK, WireInv, OxpStep
    PROVE  WireInv'
<1> USE DEF store, wire
<1>0. Wire /\ EveryCopy(EvcCreated)
      BY DEF WireInv, Wire
<1>1. ASSUME NEW m \in toLC, OxpServe(m) PROVE WireInv'
  <2>1. m \in Order /\ m.sid \in Service /\ m.seg \in Segment
        BY DEF TypeOK, Order
  <2>2. /\ m.op = "post" => m = [ op |-> "post", sid |-> m.sid, seg |-> m.seg ]
        /\ m.op \in { "post", "delete" }
        BY <2>1 DEF Order
  <2>3. /\ m.op = "post" => Creating(m.sid, m.seg) /\ oxp[m.sid][m.seg] = "none"
        /\ m.op = "delete" => Created(m.sid, m.seg)
        BY <1>0, <2>1, <2>2 DEF Wire, CreatedOnce, Creating, DeleteTargetsCreated
  <2>4. PICK st \in { "none", "up", "refused", "gone" }, ok \in BOOLEAN :
            /\ Serve(m, st, ok)
            /\ m.op = "post" => st = IF ok THEN "up" ELSE "refused"
            /\ m.op = "delete" => st \in { "up", "gone" }
        BY <1>1, <2>3 DEF OxpServe, OxpCreate, OxpRefuse, OxpDelete, OxpDeleteFails, Created
  <2>5. \A s \in Service, g \in Segment :
            oxp'[s][g] = IF s = m.sid /\ g = m.seg THEN st ELSE oxp[s][g]
        BY <2>1, <2>4 DEF Serve, TypeOK
  <2>6. \A s \in Service, g \in Segment : Created(s, g) => Created(s, g)'
        BY <2>2, <2>3, <2>4, <2>5 DEF Created
  <2>7. \A s \in Service, g \in Segment :
            Creating(s, g)' => Creating(s, g) /\ ~ (m.op = "post" /\ s = m.sid /\ g = m.seg)
        BY <2>2, <2>4 DEF Serve, Creating
  <2>8. FreshIsClean'
    <3>1. ~ Fresh(m.sid)
          BY <1>0, <2>1, <2>2, <2>3 DEF Wire, FreshIsClean, Created
    <3> QED
        BY <1>0, <2>4, <2>5, <2>7, <3>1 DEF Wire, FreshIsClean, Fresh, Serve
  <2>9. CreatedOnce'
        BY <1>0, <2>2, <2>3, <2>4, <2>5, <2>7 DEF Wire, CreatedOnce, Serve, Created
  <2>10. AnswersAreTrue'
    <3>1. ASSUME NEW s \in Service, NEW g \in Segment, NEW b \in BOOLEAN, Answered(s, g, b)'
          PROVE  Answered(s, g, b) \/ (m.op = "post" /\ s = m.sid /\ g = m.seg /\ b = ok)
          BY <2>4, <3>1 DEF Serve, Answered
    <3>2. ASSUME NEW s \in Service, NEW g \in Segment, Answered(s, g, TRUE)'
          PROVE  Created(s, g)'
      <4>1. CASE Answered(s, g, TRUE)
            BY <1>0, <2>6, <4>1 DEF Wire, AnswersAreTrue
      <4>2. CASE m.op = "post" /\ s = m.sid /\ g = m.seg /\ ok = TRUE
            BY <2>4, <2>5, <4>2 DEF Created
      <4> QED
          BY <3>1, <3>2, <4>1, <4>2
    <3>3. ASSUME NEW s \in Service, NEW g \in Segment, Answered(s, g, FALSE)'
          PROVE  oxp'[s][g] = "refused"
      <4>1. CASE Answered(s, g, FALSE)
        <5>1. oxp[s][g] = "refused"
              BY <1>0, <4>1 DEF Wire, AnswersAreTrue
        <5>2. ~ (s = m.sid /\ g = m.seg)
              BY <2>2, <2>3, <5>1 DEF Created
        <5> QED
            BY <2>5, <5>1, <5>2
      <4>2. CASE m.op = "post" /\ s = m.sid /\ g = m.seg /\ ok = FALSE
            BY <2>4, <2>5, <4>2
      <4> QED
          BY <3>1, <3>3, <4>1, <4>2
    <3> QED
        BY <3>2, <3>3 DEF AnswersAreTrue
  <2>11. DeleteTargetsCreated'
    <3>1. toLC' \subseteq toLC
          BY <2>4 DEF Serve
    <3>2. \A n \in toLC : n.sid \in Service /\ n.seg \in Segment
          BY DEF TypeOK, Order
    <3> QED
        BY <1>0, <2>6, <3>1, <3>2 DEF Wire, DeleteTargetsCreated
  <2>12. EveryCopy(EvcCreated)'
    <3>1. UNCHANGED << conns, lc, del, mon >>
          BY <2>4 DEF Serve
    <3>2. \A s \in Service, c \in Conn : EvcCreated(s, c) => EvcCreated(s, c)'
          BY <2>6 DEF EvcCreated, Conn
    <3>3. (\A s \in Service : Present(s) => EvcCreated(s, conns[s]))'
          BY <1>0, <3>1, <3>2 DEF EveryCopy, Present, TypeOK, EvcCreated
    <3>4. (lc # Idle => EvcCreated(lc.sid, lc.conn))'
          BY <1>0, <3>1, <3>2, LcShape DEF EveryCopy, TypeOK, EvcCreated
    <3>5. (\A r \in Request :
               del[r] \notin { Idle, Finished } => EvcCreated(del[r].sid, del[r].conn))'
          BY <1>0, <3>1, <3>2, DelShape DEF EveryCopy, TypeOK, EvcCreated
    <3>6. (mon # Idle => \A s \in Service :
               mon.snap[s] # NoConn => EvcCreated(s, mon.snap[s]))'
          BY <1>0, <3>1, <3>2, MonShape DEF EveryCopy, TypeOK, EvcCreated
    <3>7. (mon.pc = "cleanup" => EvcCreated(mon.sid, mon.conn))'
          BY <1>0, <3>1, <3>2, MonShape DEF EveryCopy, TypeOK, EvcCreated
    <3> QED
        BY <3>3, <3>4, <3>5, <3>6, <3>7 DEF EveryCopy
  <2> QED
      BY <2>8, <2>9, <2>10, <2>11, <2>12 DEF WireInv
<1>2. ASSUME NEW s \in Service, NEW st \in ReportedStatus, OxpReport(s, st) PROVE WireInv'
  <2>1. Wire'
        BY <1>0, <1>2, WireKept DEF OxpReport
  <2>2. EveryCopy(EvcCreated)'
        BY <1>0, <1>2, CopiesSound DEF OxpReport
  <2> QED
      BY <2>1, <2>2 DEF WireInv, Wire
<1> QED
    BY <1>1, <1>2 DEF OxpStep

LEMMA NextWire ==
    ASSUME TypeOK, WireInv, [Next]_vars
    PROVE  WireInv'
<1>1. CASE UNCHANGED vars
  <2>1. Wire'
        BY <1>1, WireKept DEF vars, WireInv, Wire
  <2>2. EveryCopy(EvcCreated)'
        BY <1>1, CopiesSound DEF vars, WireInv
  <2> QED
      BY <2>1, <2>2 DEF WireInv, Wire
<1> QED
    BY <1>1, PostWire, DelWire, LcWire, MonWire, OxpWire DEF Next

\* Every step of every thread keeps WireInv, whatever fails, is delivered
\* twice or is reported.
THEOREM WireCorrect == Spec => []WireInv
<1>1. TypeOK /\ WireInv /\ [Next]_vars => TypeOK' /\ WireInv'
      BY NextType, NextWire
<1>2. Init => TypeOK /\ WireInv
      BY InitType, InitWire
<1> QED
    BY <1>1, <1>2, PTL DEF Spec

\* No thread, with a copy of a document however old, asks an OXP to delete
\* an EVC it has not created.
THEOREM DeletesAreSafe == Spec => []DeleteTargetsCreated
<1>1. WireInv => DeleteTargetsCreated
      BY DEF WireInv
<1> QED
    BY <1>1, WireCorrect, PTL
(***************************************************************************)
(* The life of a document, when nothing but POST, DELETE and the answers   *)
(* writes it.                                                              *)
(***************************************************************************)
LEMMA NextQuiet ==
    ASSUME TypeOK, Undisturbed, Quiet, [Next]_vars
    PROVE  Quiet'
<1> USE DEF Undisturbed, Quiet, store, wire
<1>1. ASSUME NEW s \in Service, PostSave(s) \/ PostStep(s) PROVE Quiet'
      BY <1>1 DEF PostSave, PostStep, PlaceFail, PlaceMark, PlaceReturn, PlaceBroken,
         PostReject, PlaceBreakdown, PlaceSend
<1>2. ASSUME NEW r \in Request, (\E s \in Service : DelRead(r, s)) \/ DelStep(r) PROVE Quiet'
      BY <1>2 DEF DelRead, DelStep, DelSettle, DelRelease, DelSend, DelSendFails, DelDrop,
         DelArchive, DelUnlink, DelMark, DelMarkBreakdown
<1>3. CASE LcStep
  <2>1. ASSUME NEW m \in toSDX, LcReceive(m) PROVE Quiet'
        BY <2>1 DEF LcReceive, LcIgnore, LcCreated, LcCreatedLate, LcDeleted, LcFailed, Handle, Idle
  <2>2. CASE LcCleanup \/ LcLate
    <3>1. lc' = [ lc EXCEPT !.pc = "save" ] \/ lc'.pc = "save"
          BY <2>2, LcShape DEF LcCleanup, LcLate, TypeOK
    <3>2. lc'.pc = "save"
          BY <2>2, <3>1, LcShape DEF LcCleanup, LcLate, TypeOK
    <3> QED
        BY <2>2, <3>2 DEF LcCleanup, LcLate
  <2>3. CASE LcCleanupFails \/ LcLateFails \/ LcSave
        BY <2>3 DEF LcCleanupFails, LcLateFails, LcSave, Idle
  <2> QED
      BY <1>3, <2>1, <2>2, <2>3 DEF LcStep, LcReplace
<1>4. ~ MonStep
      BY DEF MonStep, MonScan, MonTimeout, MonCleanup, MonCleanupFails, Idle
<1>5. CASE OxpStep
      BY <1>5 DEF OxpStep, OxpServe, OxpCreate, OxpRefuse, OxpDelete, OxpDeleteFails, Serve
<1>6. CASE UNCHANGED vars
      BY <1>6 DEF vars
<1> QED
    BY <1>1, <1>2, <1>3, <1>4, <1>5, <1>6 DEF Next

\* Nothing but POST brings a document into being.
LEMMA NotRevived ==
    ASSUME TypeOK, Quiet, Undisturbed, [Next]_vars, NEW s \in Service, Present(s)'
    PROVE  Present(s) \/ PostSave(s)
<1> USE DEF store, wire
<1>0. conns \in [ Service -> Conn \cup {NoConn} ] /\ tombs \in [ Service -> Nat ]
      BY DEF TypeOK
<1>1. ASSUME NEW t \in Service, PostSave(t) PROVE Present(s) \/ PostSave(s)
      BY <1>0, <1>1 DEF PostSave, DbAdd, Present
<1>2. ASSUME NEW t \in Service, PostStep(t) PROVE Present(s)
      BY <1>0, <1>2 DEF PostStep, PlaceFail, PlaceMark, PlaceReturn, PlaceBroken, PostReject,
         PlaceBreakdown, PlaceSend, DbSetStatus, DbUpdate, Present
<1>3. ASSUME NEW r \in Request, DelStep(r) PROVE Present(s)
      BY <1>0, <1>3 DEF DelStep, DelSettle, DelRelease, DelSend, DelSendFails, DelDrop,
         DelArchive, DelUnlink, DelMark, DelMarkBreakdown, DbDeleteOne, DbMark, Present
<1>4. ASSUME NEW r \in Request, NEW t \in Service, DelRead(r, t) PROVE Present(s)
      BY <1>4 DEF DelRead, Present
<1>5. CASE LcStep
  <2>1. CASE LcSave
        BY <1>0, <2>1 DEF LcSave, DbUpdate, Present
  <2>2. ~ LcReplace
        BY DEF Quiet, LcReplace
  <2>3. CASE ~ LcSave
    <3>1. UNCHANGED conns
          BY <1>5, <2>2, <2>3 DEF LcStep, LcReceive, LcReport, LcCleanup, LcCleanupFails,
             LcLate, LcLateFails
    <3> QED
        BY <3>1 DEF Present
  <2> QED
      BY <2>1, <2>3
<1>6. ~ MonStep
      BY DEF Undisturbed, Quiet, MonStep, MonScan, MonTimeout, MonCleanup, MonCleanupFails, Idle
<1>7. CASE OxpStep \/ UNCHANGED vars
      BY <1>7 DEF OxpStep, OxpServe, OxpCreate, OxpRefuse, OxpDelete, OxpDeleteFails, Serve,
         OxpReport, Present, vars
<1> QED
    BY <1>1, <1>2, <1>3, <1>4, <1>5, <1>6, <1>7 DEF Next

\* A deleted connection stays deleted, unless the timeout or an unasked
\* report writes an old copy back.
THEOREM NoResurrectionCorrect ==
    ASSUME Undisturbed
    PROVE  Spec => NoResurrection
<1>1. Init => TypeOK /\ Quiet
      BY InitType DEF Init, Quiet, Idle
<1>2. TypeOK /\ Quiet /\ [Next]_vars => TypeOK' /\ Quiet'
      BY NextType, NextQuiet
<1>3. TypeOK /\ Quiet /\ [Next]_vars =>
          [ \A s \in Service :
                post[s].pc # "idle" /\ ~ Present(s) => ~ Present(s)' ]_vars
      BY NotRevived DEF PostSave
<1> QED
    BY <1>1, <1>2, <1>3, PTL DEF Spec, NoResurrection
(***************************************************************************)
(* DocumentInv is inductive: what POST has not sent, no one answers.       *)
(***************************************************************************)
LEMMA InitDocument == Init => DocumentInv
<1> SUFFICES ASSUME Init PROVE DocumentInv
    OBVIOUS
<1>1. Quiet
      BY DEF Init, Quiet, Idle
<1>2. ASSUME NEW s \in Service
      PROVE  PostFollows(s) /\ UnsentIsClean(s) /\ OneDocument(s)
      BY DEF Init, PostFollows, UnsentIsClean, OneDocument, Unsent, Present
<1> QED
    BY <1>1, <1>2 DEF DocumentInv

\* A copy of the document of a connection nothing was sent for has no EVC.
LEMMA UnsentDeletes ==
    ASSUME NEW s \in Service, NEW c \in Conn, EvcCreated(s, c), Unsent(s),
           UnsentIsClean(s), NEW B
    PROVE  Deletes(s, B, c) = {}
<1>1. c.evc \subseteq Segment
      BY DEF Conn
<1>2. \A g \in c.evc : oxp[s][g] = "none" /\ Created(s, g)
      BY <1>1 DEF EvcCreated, UnsentIsClean
<1>3. c.evc = {}
      BY <1>2 DEF Created
<1> QED
    BY <1>3 DEF Deletes, Orders

\* The steps of the other threads: it is enough to look at what reaches a
\* connection nothing was sent for.
LEMMA DocumentKept ==
    ASSUME DocumentInv, Quiet', UNCHANGED post,
           \A s \in Service : Present(s)' => Present(s) /\ tombs'[s] = tombs[s],
           \A s \in Service : post[s].pc = "idle" => tombs'[s] = tombs[s],
           \A s \in Service : Unsent(s) =>
               /\ oxp'[s] = oxp[s]
               /\ \A m \in toLC' \cup toSDX' : m \in toLC \cup toSDX \/ m.sid # s
               /\ lc' = lc \/ lc' = Idle \/ lc'.sid # s
    PROVE  DocumentInv'
<1> SUFFICES ASSUME NEW s \in Service
             PROVE  (PostFollows(s) /\ UnsentIsClean(s) /\ OneDocument(s))'
    BY DEF DocumentInv
<1>0. PostFollows(s) /\ UnsentIsClean(s) /\ OneDocument(s)
      BY DEF DocumentInv
<1>1. PostFollows(s)'
      BY <1>0 DEF PostFollows, Unsent
<1>2. UnsentIsClean(s)'
      BY <1>0 DEF UnsentIsClean, Unsent
<1>3. OneDocument(s)'
      BY <1>0 DEF OneDocument
<1> QED
    BY <1>1, <1>2, <1>3

\* A step of POST moves its own thread, and writes its own document.
LEMMA PostMoves ==
    ASSUME TypeOK, NEW s \in Service, PostSave(s) \/ PostStep(s)
    PROVE  /\ \A t \in Service : t # s => post'[t] = post[t]
           /\ \A t \in Service : t # s => conns'[t] = conns[t]
           /\ post'[s].pc \in { "saved", "planned", "sending", "reject", "done" }
           /\ post'[s].status \in { post[s].status, "UNDER_PROVISIONING" }
           /\ UNCHANGED << tombs, oxp, toSDX, lc >>
<1> USE DEF store, wire, PostGoto
<1>0. post \in [ Service -> PostState ] /\ conns \in [ Service -> Conn \cup {NoConn} ]
      BY DEF TypeOK
<1>1. CASE PostSave(s)
      BY <1>0, <1>1 DEF PostSave, DbAdd, PostState
<1>2. CASE PlaceFail(s)
      BY <1>0, <1>2 DEF PlaceFail, PostState
<1>3. CASE PlaceReturn(s)
      BY <1>0, <1>3 DEF PlaceReturn, PostState
<1>4. CASE PlaceBroken(s)
      BY <1>0, <1>4 DEF PlaceBroken, PostState
<1>5. CASE PlaceMark(s)
      BY <1>0, <1>5 DEF PlaceMark, DbSetStatus, DbUpdate, PostState
<1>6. CASE PostReject(s)
      BY <1>0, <1>6 DEF PostReject, DbSetStatus, DbUpdate, PostState
<1>7. ASSUME NEW B \in SUBSET Segment, PlaceBreakdown(s, B)
      PROVE  /\ \A t \in Service : t # s => post'[t] = post[t]
             /\ post'[s].pc = "planned" /\ post'[s].status = post[s].status
             /\ UNCHANGED << conns, tombs, oxp, toSDX, lc >>
      BY <1>0, <1>7 DEF PlaceBreakdown, PostState
<1>8. ASSUME NEW g \in Segment, PlaceSend(s, g)
      PROVE  /\ \A t \in Service : t # s => post'[t] = post[t]
             /\ post'[s].pc = "sending" /\ post'[s].status = post[s].status
             /\ UNCHANGED << conns, tombs, oxp, toSDX, lc >>
      BY <1>0, <1>8 DEF PlaceSend, PostState
<1> QED
    BY <1>1, <1>2, <1>3, <1>4, <1>5, <1>6, <1>7, <1>8 DEF PostStep

LEMMA PostDocument ==
    ASSUME TypeOK, DocumentInv, Quiet', NEW s \in Service, PostSave(s) \/ PostStep(s)
    PROVE  DocumentInv'
<1> USE DEF store, wire, PostGoto
<1>0. /\ post \in [ Service -> PostState ] /\ conns \in [ Service -> Conn \cup {NoConn} ]
      /\ tombs \in [ Service -> Nat ]
      BY DEF TypeOK
<1>1. /\ \A t \in Service : t # s => post'[t] = post[t] /\ conns'[t] = conns[t]
      /\ post'[s].pc \in { "saved", "planned", "sending", "reject", "done" }
      /\ UNCHANGED << tombs, oxp, toSDX, lc >>
      BY PostMoves
<1>2. \/ toLC' = toLC
      \/ ~ Unsent(s) /\ \A m \in toLC' : m \in toLC \/ m.sid = s
  <2>1. ASSUME NEW g \in Segment, PlaceSend(s, g)
        PROVE  ~ Unsent(s) /\ \A m \in toLC' : m \in toLC \/ m.sid = s
        BY <2>1 DEF PlaceSend, Orders, DocumentInv, PostFollows, Unsent
  <2>2. CASE ~ \E g \in Segment : PlaceSend(s, g)
        BY <2>2 DEF PostSave, PostStep, PlaceFail, PlaceMark, PlaceReturn, PlaceBroken,
           PostReject, PlaceBreakdown
  <2> QED
      BY <2>1, <2>2
<1>3. Unsent(s)' => Unsent(s)
      BY PostMoves DEF Unsent
<1>4. \A t \in Service : PostFollows(t) /\ UnsentIsClean(t) /\ OneDocument(t)
      BY DEF DocumentInv
<1>5. PostFollows(s)'
  <2> USE <1>0, <1>4 DEF PostFollows, Unsent, PostState
  <2>1. CASE PostSave(s) \/ PlaceFail(s)
        BY <2>1 DEF PostSave, PlaceFail
  <2>2. ASSUME NEW B \in SUBSET Segment, PlaceBreakdown(s, B) PROVE PostFollows(s)'
        BY <2>2 DEF PlaceBreakdown
  <2>3. CASE PlaceMark(s) \/ PlaceReturn(s) \/ PlaceBroken(s) \/ PostReject(s)
        BY <2>3 DEF PlaceMark, PlaceReturn, PlaceBroken, PostReject
  <2>4. ASSUME NEW g \in Segment, PlaceSend(s, g) PROVE PostFollows(s)'
        BY <2>4 DEF PlaceSend
  <2> QED
      BY <2>1, <2>2, <2>3, <2>4 DEF PostStep
<1>6. UnsentIsClean(s)'
      BY <1>1, <1>2, <1>3, <1>4 DEF UnsentIsClean
<1>7. OneDocument(s)'
  <2>1. CASE PostSave(s)
        BY <1>1, <1>4, <2>1 DEF OneDocument, PostSave
  <2>2. CASE PostStep(s)
    <3>1. post[s].pc # "idle"
          BY <2>2 DEF PostStep, PlaceFail, PlaceMark, PlaceReturn, PlaceBroken, PostReject,
             PlaceBreakdown, PlaceSend
    <3>2. Present(s)' => Present(s)
          BY <1>0, <2>2 DEF PostStep, PlaceFail, PlaceMark, PlaceReturn, PlaceBroken,
             PostReject, PlaceBreakdown, PlaceSend, DbSetStatus, DbUpdate, Present
    <3> QED
        BY <1>1, <1>4, <3>2 DEF OneDocument
  <2> QED
      BY <2>1, <2>2
<1>8. ASSUME NEW t \in Service, t # s
      PROVE  (PostFollows(t) /\ UnsentIsClean(t) /\ OneDocument(t))'
  <2>1. \A m \in toLC' \cup toSDX' : m \in toLC \cup toSDX \/ m.sid # t
        BY <1>1, <1>2, <1>8
  <2>2. UnsentIsClean(t)'
        BY <1>1, <1>4, <1>8, <2>1 DEF UnsentIsClean, Unsent
  <2>3. PostFollows(t)' /\ OneDocument(t)'
        BY <1>1, <1>4, <1>8 DEF PostFollows, OneDocument, Unsent, Present
  <2> QED
      BY <2>2, <2>3
<1> QED
    BY <1>5, <1>6, <1>7, <1>8 DEF DocumentInv

LEMMA DelDocument ==
    ASSUME TypeOK, WireInv, DocumentInv, Undisturbed, Quiet', NEW r \in Request,
           (\E s \in Service : DelRead(r, s)) \/ DelStep(r), [Next]_vars
    PROVE  DocumentInv'
<1> USE DEF store, wire
<1>0. /\ conns \in [ Service -> Conn \cup {NoConn} ] /\ tombs \in [ Service -> Nat ]
      /\ \A s \in Service : UnsentIsClean(s) /\ OneDocument(s)
      BY DEF TypeOK, DocumentInv
<1>1. UNCHANGED << post, oxp, toSDX, lc >>
      BY DEF DelRead, DelStep, DelSettle, DelRelease, DelSend, DelSendFails, DelDrop,
         DelArchive, DelUnlink, DelMark, DelMarkBreakdown
<1>2. \/ UNCHANGED << conns, tombs >>
      \/ /\ del[r] \notin { Idle, Finished }
         /\ DbMark(del[r].sid) \/ DbDeleteOne(del[r].sid)
      BY DEF DelRead, DelStep, DelSettle, DelRelease, DelSend, DelSendFails, DelDrop,
         DelArchive, DelUnlink, DelMark, DelMarkBreakdown, Idle, Finished
<1>3. del[r] \notin { Idle, Finished } =>
          del[r].sid \in Service /\ del[r].conn \in Conn /\ EvcCreated(del[r].sid, del[r].conn)
      BY DelShape DEF TypeOK, WireInv, EveryCopy
<1>4. \A s \in Service : Present(s)' => Present(s) /\ tombs'[s] = tombs[s]
      BY <1>0, <1>2, <1>3 DEF DbMark, DbDeleteOne, Present, OneDocument
<1>5. \A s \in Service : post[s].pc = "idle" => tombs'[s] = tombs[s]
      BY <1>0, <1>2, <1>3 DEF DbMark, DbDeleteOne, Present, OneDocument
<1>6. ASSUME NEW s \in Service, Unsent(s), NEW m \in toLC' \cup toSDX'
      PROVE  m \in toLC \cup toSDX \/ m.sid # s
  <2>1. \/ toLC' \subseteq toLC
        \/ /\ del[r] \notin { Idle, Finished }
           /\ toLC' \subseteq toLC \cup Deletes(del[r].sid, del[r].brk, del[r].conn)
        BY DEF DelRead, DelStep, DelSettle, DelRelease, DelSend, DelSendFails, DelDrop,
           DelArchive, DelUnlink, DelMark, DelMarkBreakdown, Idle, Finished
  <2>2. del[r] \notin { Idle, Finished } /\ del[r].sid = s =>
            Deletes(del[r].sid, del[r].brk, del[r].conn) = {}
        BY <1>0, <1>3, <1>6, UnsentDeletes
  <2>3. \A n \in Deletes(del[r].sid, del[r].brk, del[r].conn) : n.sid = del[r].sid
        BY DEF Deletes, Orders
  <2> QED
      BY <1>1, <1>6, <2>1, <2>2, <2>3
<1> QED
    BY <1>1, <1>4, <1>5, <1>6, DocumentKept

LEMMA LcDocument ==
    ASSUME TypeOK, WireInv, DocumentInv, Quiet', LcStep
    PROVE  DocumentInv'
<1> USE DEF store, wire
<1>0. /\ conns \in [ Service -> Conn \cup {NoConn} ] /\ tombs \in [ Service -> Nat ]
      /\ \A s \in Service : UnsentIsClean(s)
      /\ Quiet
      BY DEF TypeOK, DocumentInv
<1>1. UNCHANGED << post, oxp, tombs >> /\ ~ LcReplace /\ ~ \E m \in reports : LcReport(m)
      BY <1>0 DEF Quiet, LcStep, LcReceive, LcReport, LcCleanup, LcCleanupFails, LcLate,
         LcLateFails, LcSave, LcReplace
<1>2. \A s \in Service : Present(s)' => Present(s)
  <2>1. CASE LcSave
        BY <1>0, <2>1 DEF LcSave, DbUpdate, Present
  <2>2. CASE ~ LcSave
    <3>1. UNCHANGED conns
          BY <1>1, <2>2 DEF LcStep, LcReceive, LcCleanup, LcCleanupFails, LcLate, LcLateFails
    <3> QED
        BY <3>1 DEF Present
  <2> QED
      BY <2>1, <2>2
<1>3. ASSUME NEW s \in Service, Unsent(s), NEW m \in toLC' \cup toSDX'
      PROVE  m \in toLC \cup toSDX \/ m.sid # s
  <2>1. toSDX' \subseteq toSDX
        BY <1>1 DEF LcStep, LcReceive, Take, LcCleanup, LcCleanupFails, LcLate, LcLateFails, LcSave
  <2>2. \/ toLC' = toLC
        \/ lc # Idle /\ \A n \in toLC' : n \in toLC \/ n.sid = lc.sid
        BY <1>1 DEF LcStep, LcReceive, LcCleanup, LcCleanupFails, LcLate, LcLateFails, LcSave,
           Deletes, Orders, Idle
  <2>3. lc = Idle \/ lc.sid # s
        BY <1>0, <1>3 DEF UnsentIsClean
  <2> QED
      BY <1>3, <2>1, <2>2, <2>3
<1>4. ASSUME NEW s \in Service, Unsent(s)
      PROVE  lc' = lc \/ lc' = Idle \/ lc'.sid # s
  <2>1. lc = Idle \/ lc.sid # s
        BY <1>0, <1>4 DEF UnsentIsClean
  <2>2. ASSUME NEW m \in toSDX, LcReceive(m)
        PROVE  lc' = lc \/ lc'.sid # s
    <3>1. m.sid # s
          BY <1>0, <1>4 DEF UnsentIsClean
    <3>2. UNCHANGED lc \/ \E pc, c : Handle(m, pc, c)
      <4>1. CASE LcCreated(m)
            BY <4>1 DEF LcCreated
      <4>2. CASE LcFailed(m)
            BY <4>2 DEF LcFailed
      <4>3. CASE LcCreatedLate(m) \/ LcDeleted(m) \/ LcIgnore(m)
            BY <4>3 DEF LcCreatedLate, LcDeleted, LcIgnore
      <4> QED
          BY <2>2, <4>1, <4>2, <4>3 DEF LcReceive
    <3> QED
        BY <3>1, <3>2 DEF Handle
  <2>3. CASE LcCleanup \/ LcLate
    <3>1. /\ lc \in [ pc : { "cleanup", "late", "save" }, sid : Service,
                      seg : Segment, conn : Conn ]
          /\ lc # Idle
          BY <2>3, LcShape DEF LcCleanup, LcLate, TypeOK, Idle
    <3>2. LcCleanup => lc'.sid = lc.sid
          BY <3>1 DEF LcCleanup
    <3>3. LcLate => lc'.sid = lc.sid
          BY <3>1 DEF LcLate
    <3> QED
        BY <2>1, <2>3, <3>1, <3>2, <3>3
  <2> QED
      BY <1>1, <2>2, <2>3 DEF LcStep, LcCleanupFails, LcLateFails, LcSave
<1> QED
    BY <1>1, <1>2, <1>3, <1>4, DocumentKept

LEMMA OxpDocument ==
    ASSUME TypeOK, DocumentInv, Quiet', OxpStep
    PROVE  DocumentInv'
<1> USE DEF store
<1>1. UNCHANGED << post, conns, tombs, lc >>
      BY DEF OxpStep, OxpServe, OxpCreate, OxpRefuse, OxpDelete, OxpDeleteFails, Serve, OxpReport
<1>2. ASSUME NEW s \in Service, Unsent(s)
      PROVE  /\ oxp'[s] = oxp[s]
             /\ \A m \in toLC' \cup toSDX' : m \in toLC \cup toSDX \/ m.sid # s
  <2>1. ASSUME NEW n \in toLC, OxpServe(n)
        PROVE  /\ oxp'[s] = oxp[s]
               /\ \A m \in toLC' \cup toSDX' : m \in toLC \cup toSDX \/ m.sid # s
    <3>1. n.sid # s
          BY <1>2 DEF DocumentInv, UnsentIsClean
    <3> QED
        BY <2>1, <3>1 DEF OxpServe, OxpCreate, OxpRefuse, OxpDelete, OxpDeleteFails, Serve, TypeOK
  <2>2. ASSUME NEW t \in Service, NEW st \in ReportedStatus, OxpReport(t, st)
        PROVE  UNCHANGED << oxp, toLC, toSDX >>
        BY <2>2 DEF OxpReport
  <2> QED
      BY <2>1, <2>2 DEF OxpStep
<1> QED
    BY <1>1, <1>2, DocumentKept DEF Present

LEMMA NextDocument ==
    ASSUME TypeOK, WireInv, DocumentInv, Undisturbed, [Next]_vars
    PROVE  DocumentInv'
<1>1. Quiet'
      BY NextQuiet DEF DocumentInv
<1>2. ~ MonStep
      BY DEF Undisturbed, DocumentInv, Quiet, MonStep, MonScan, MonTimeout, MonCleanup,
         MonCleanupFails, Idle
<1>3. CASE UNCHANGED vars
      BY <1>1, <1>3, DocumentKept DEF vars, Present
<1> QED
    BY <1>1, <1>2, <1>3, PostDocument, DelDocument, LcDocument, OxpDocument DEF Next

LEMMA DocumentCorrect ==
    ASSUME Undisturbed
    PROVE  Spec => [](TypeOK /\ WireInv /\ DocumentInv)
<1>1. Init => TypeOK /\ WireInv /\ DocumentInv
      BY InitType, InitWire, InitDocument
<1>2. TypeOK /\ WireInv /\ DocumentInv /\ [Next]_vars => TypeOK' /\ WireInv' /\ DocumentInv'
      BY NextType, NextWire, NextDocument
<1> QED
    BY <1>1, <1>2, PTL DEF Spec
(***************************************************************************)
(* Provisioning implements ConnectionLifecycle.                            *)
(***************************************************************************)
\* A document keeps its status, but for one connection's, which is created,
\* moved or removed.
SameDoc(s) ==
    /\ post'[s].pc = "idle" <=> post[s].pc = "idle"
    /\ Present(s)' <=> Present(s)
    /\ Present(s) => conns'[s].status = conns[s].status

LifeMoves ==
    { << "REQUESTED", "UNDER_PROVISIONING" >>, << "REQUESTED", "REJECTED" >>,
      << "UNDER_PROVISIONING", "UP" >>, << "UNDER_PROVISIONING", "DOWN" >> }

CreatedDoc(s) ==
    /\ post[s].pc = "idle" /\ post'[s].pc # "idle" /\ ~ Present(s)
    /\ Present(s)' /\ conns'[s].status = "REQUESTED"

MovedDoc(s) ==
    /\ Present(s) /\ Present(s)'
    /\ << conns[s].status, conns'[s].status >> \in LifeMoves

RemovedDoc(s) == Present(s) /\ ~ Present(s)' /\ post'[s] = post[s] /\ post[s].pc # "idle"

LifeStep(s) ==
    /\ CreatedDoc(s) \/ MovedDoc(s) \/ RemovedDoc(s)
    /\ \A t \in Service : t # s => SameDoc(t)

LEMMA InitLife == Init => LifeInv
BY DEF Init, LifeInv, CopyFollows, StatusFollows, Present, Idle

\* What PostReject writes.
LEMMA RejectMoves ==
    ASSUME RejectsEarly, NEW s \in Service, PostFollows(s), PostReject(s)
    PROVE  IF Unsent(s) THEN DbSetStatus(s, "REJECTED") ELSE UNCHANGED conns
<1>1. CanMove("REQUESTED", "REJECTED")
      BY LegalAssumption DEF CanMove, Needed, RejectionMoves
<1>2. ~ Unsent(s) => ~ CanMove(post[s].status, "REJECTED")
      BY DEF PostReject, PostFollows, RejectsEarly, Unsent
<1> QED
    BY <1>1, <1>2 DEF PostReject, Unsent

\* What DbSetStatus does to a document of which there is only one.
LEMMA SetStatusMoves ==
    ASSUME TypeOK, NEW s \in Service, OneDocument(s), NEW st \in Status, DbSetStatus(s, st)
    PROVE  /\ Present(s)' <=> Present(s)
           /\ Present(s) => conns'[s].status = st
           /\ \A t \in Service : t # s => conns'[t] = conns[t]
<1>0. conns \in [ Service -> Conn \cup {NoConn} ]
      BY DEF TypeOK
<1>1. CASE Present(s)
  <2>1. [ conns[s] EXCEPT !.status = st ] \in Conn /\ [ conns[s] EXCEPT !.status = st ].status = st
        BY <1>0, <1>1, StatusType DEF Present
  <2>2. conns' = [ conns EXCEPT ![s] = [ conns[s] EXCEPT !.status = st ] ]
        BY <1>1 DEF OneDocument, DbSetStatus, DbUpdate
  <2> QED
      BY <1>0, <1>1, <2>1, <2>2, ProvisioningAssumption DEF Present
<1>2. CASE ~ Present(s)
      BY <1>2 DEF DbSetStatus, DbUpdate, Present
<1> QED
    BY <1>1, <1>2

LEMMA PostLife ==
    ASSUME TypeOK, RejectsEarly, DocumentInv, LifeInv, NEW s \in Service,
           PostSave(s) \/ PostStep(s)
    PROVE  LifeInv' /\ (LifeStep(s) \/ \A t \in Service : SameDoc(t))
<1> USE DEF store, wire, PostGoto
<1>0. /\ post \in [ Service -> PostState ] /\ conns \in [ Service -> Conn \cup {NoConn} ]
      /\ \A t \in Service : PostFollows(t) /\ UnsentIsClean(t) /\ OneDocument(t)
      /\ \A t \in Service : StatusFollows(t)
      /\ CopyFollows /\ lc' = lc
      BY DEF TypeOK, DocumentInv, LifeInv, PostSave, PostStep, PlaceFail, PlaceMark,
         PlaceReturn, PlaceBroken, PostReject, PlaceBreakdown, PlaceSend
<1>1. \A t \in Service : t # s => post'[t] = post[t]
      BY PostMoves
<1>2. ASSUME \A t \in Service : t # s => conns'[t] = conns[t],
             StatusFollows(s)', Unsent(s) \/ conns'[s] = conns[s]
      PROVE  LifeInv' /\ \A t \in Service : t # s => SameDoc(t)
  <2>1. \A t \in Service : t # s => StatusFollows(t)' /\ SameDoc(t)
        BY <1>0, <1>1, <1>2 DEF StatusFollows, Present, Unsent, SameDoc
  <2>2. lc # Idle => lc.sid \in Service
        BY LcShape DEF TypeOK
  <2>3. lc # Idle => conns'[lc.sid] = conns[lc.sid]
        BY <1>0, <1>2, <2>2 DEF UnsentIsClean
  <2>4. CopyFollows'
        BY <1>0, <2>3 DEF CopyFollows, Present
  <2> QED
      BY <1>2, <2>1, <2>4 DEF LifeInv
<1>3. CASE PostSave(s)
  <2>1. /\ conns' = [ conns EXCEPT ![s] = NewConn ]
        /\ post' = [ post EXCEPT ![s].pc = "saved" ]
        /\ post[s].pc = "idle"
        BY <1>3 DEF PostSave, DbAdd
  <2>2. NewConn # NoConn /\ NewConn.status = "REQUESTED"
        BY NewConnType, ProvisioningAssumption DEF NewConn
  <2>3. Unsent(s) /\ ~ Present(s) /\ Unsent(s)'
        BY <1>0, <2>1 DEF PostFollows, OneDocument, Unsent, PostState
  <2>4. conns'[s] = NewConn /\ post'[s].pc = "saved"
        BY <1>0, <2>1 DEF PostState
  <2>5. StatusFollows(s)' /\ CreatedDoc(s)
        BY <2>1, <2>2, <2>3, <2>4 DEF StatusFollows, CreatedDoc, Present
  <2> QED
      BY <1>0, <1>2, <2>1, <2>3, <2>5 DEF LifeStep
<1>4. CASE PlaceMark(s)
  <2>1. /\ DbSetStatus(s, "UNDER_PROVISIONING") /\ post[s].pc = "planned"
        /\ post'[s].status = "UNDER_PROVISIONING" /\ post'[s].pc = "sending"
        BY <1>0, <1>4 DEF PlaceMark, PostState
  <2>2. Unsent(s) /\ ~ Unsent(s)'
        BY <1>0, <2>1 DEF PostFollows, Unsent
  <2>3. /\ Present(s)' <=> Present(s)
        /\ Present(s) => conns'[s].status = "UNDER_PROVISIONING"
        /\ \A t \in Service : t # s => conns'[t] = conns[t]
        BY <1>0, <2>1, SetStatusMoves DEF Status
  <2>4. StatusFollows(s)'
        BY <2>2, <2>3 DEF StatusFollows, Provisioned
  <2>5. Present(s) => MovedDoc(s)
        BY <1>0, <2>1, <2>2, <2>3 DEF StatusFollows, MovedDoc, LifeMoves
  <2>6. ~ Present(s) => SameDoc(s)
        BY <2>1, <2>3 DEF SameDoc
  <2> QED
      BY <1>2, <2>2, <2>3, <2>4, <2>5, <2>6 DEF LifeStep
<1>5. CASE PostReject(s)
  <2>1. post'[s].pc = "done" /\ post[s].pc = "reject" /\ post'[s].status = post[s].status
        BY <1>0, <1>5 DEF PostReject, PostState
  <2>2. CASE Unsent(s)
    <3>1. DbSetStatus(s, "REJECTED")
          BY <1>0, <1>5, <2>2, RejectMoves
    <3>2. /\ Present(s)' <=> Present(s)
          /\ Present(s) => conns'[s].status = "REJECTED"
          /\ \A t \in Service : t # s => conns'[t] = conns[t]
          BY <1>0, <3>1, SetStatusMoves DEF Status
    <3>3. StatusFollows(s)'
          BY <2>1, <2>2, <3>2 DEF StatusFollows, Unsent
    <3>4. Present(s) => MovedDoc(s)
          BY <1>0, <2>1, <2>2, <3>2 DEF StatusFollows, MovedDoc, LifeMoves
    <3>5. ~ Present(s) => SameDoc(s)
          BY <2>1, <3>2 DEF SameDoc
    <3> QED
        BY <1>2, <2>2, <3>2, <3>3, <3>4, <3>5 DEF LifeStep
  <2>3. CASE ~ Unsent(s)
    <3>1. UNCHANGED conns
          BY <1>0, <1>5, <2>3, RejectMoves
    <3>2. StatusFollows(s)' /\ SameDoc(s)
          BY <1>0, <2>1, <2>3, <3>1 DEF StatusFollows, Unsent, Present, SameDoc
    <3> QED
        BY <1>2, <3>1, <3>2
  <2> QED
      BY <2>2, <2>3
<1>6. ASSUME UNCHANGED conns, post[s].pc \notin { "idle", "done" },
             Unsent(s)' <=> Unsent(s), post'[s].pc # "idle"
      PROVE  LifeInv' /\ \A t \in Service : SameDoc(t)
  <2>1. StatusFollows(s)' /\ SameDoc(s)
        BY <1>0, <1>6 DEF StatusFollows, Present, SameDoc
  <2> QED
      BY <1>2, <1>6, <2>1
<1>7. CASE PlaceFail(s) \/ PlaceReturn(s) \/ PlaceBroken(s)
  <2>1. /\ UNCHANGED conns /\ post[s].pc \notin { "idle", "done" } /\ post'[s].pc # "idle"
        /\ post'[s].status = post[s].status
        BY <1>0, <1>7 DEF PlaceFail, PlaceReturn, PlaceBroken, PostState
  <2> QED
      BY <1>6, <2>1 DEF Unsent
<1>8. ASSUME NEW B \in SUBSET Segment, PlaceBreakdown(s, B)
      PROVE  LifeInv' /\ \A t \in Service : SameDoc(t)
  <2>1. /\ UNCHANGED conns /\ post[s].pc \notin { "idle", "done" } /\ post'[s].pc # "idle"
        /\ post'[s].status = post[s].status
        BY <1>0, <1>8 DEF PlaceBreakdown, PostState
  <2> QED
      BY <1>6, <2>1 DEF Unsent
<1>9. ASSUME NEW g \in Segment, PlaceSend(s, g)
      PROVE  LifeInv' /\ \A t \in Service : SameDoc(t)
  <2>1. /\ UNCHANGED conns /\ post[s].pc \notin { "idle", "done" } /\ post'[s].pc # "idle"
        /\ post'[s].status = post[s].status
        BY <1>0, <1>9 DEF PlaceSend, PostState
  <2> QED
      BY <1>6, <2>1 DEF Unsent
<1> QED
    BY <1>3, <1>4, <1>5, <1>7, <1>8, <1>9 DEF PostStep

LEMMA DelLife ==
    ASSUME TypeOK, DocumentInv, LifeInv, NEW r \in Request,
           (\E s \in Service : DelRead(r, s)) \/ DelStep(r)
    PROVE  LifeInv' /\ ((\E s \in Service : LifeStep(s)) \/ \A t \in Service : SameDoc(t))
<1> USE DEF store, wire
<1>0. /\ conns \in [ Service -> Conn \cup {NoConn} ]
      /\ \A s \in Service : StatusFollows(s) /\ OneDocument(s)
      /\ CopyFollows
      BY DEF TypeOK, DocumentInv, LifeInv
<1>1. UNCHANGED << post, lc >>
      BY DEF DelRead, DelStep, DelSettle, DelRelease, DelSend, DelSendFails, DelDrop,
         DelArchive, DelUnlink, DelMark, DelMarkBreakdown
<1>2. \/ UNCHANGED conns
      \/ /\ del[r] \notin { Idle, Finished }
         /\ conns' = [ conns EXCEPT ![del[r].sid] = NoConn ]
      BY DEF DelRead, DelStep, DelSettle, DelRelease, DelSend, DelSendFails, DelDrop,
         DelArchive, DelUnlink, DelMark, DelMarkBreakdown, DbMark, DbDeleteOne, Idle, Finished
<1>3. del[r] \notin { Idle, Finished } => del[r].sid \in Service
      BY DelShape DEF TypeOK
<1>4. \A s \in Service : conns'[s] \in { conns[s], NoConn }
      BY <1>0, <1>2, <1>3
<1>5. LifeInv'
  <2>1. \A s \in Service : StatusFollows(s)'
        BY <1>0, <1>1, <1>4 DEF StatusFollows, Present, Unsent
  <2>2. lc # Idle => lc.sid \in Service
        BY LcShape DEF TypeOK
  <2>3. CopyFollows'
        BY <1>0, <1>1, <1>4, <2>2 DEF CopyFollows, Present
  <2> QED
      BY <2>1, <2>3 DEF LifeInv
<1>6. CASE \A t \in Service : conns'[t] = conns[t]
      BY <1>1, <1>5, <1>6 DEF SameDoc, Present
<1>7. CASE ~ \A t \in Service : conns'[t] = conns[t]
  <2>1. PICK s \in Service : conns' = [ conns EXCEPT ![s] = NoConn ] /\ Present(s)
        BY <1>0, <1>2, <1>3, <1>7 DEF Present
  <2>2. RemovedDoc(s)
        BY <1>0, <1>1, <2>1 DEF RemovedDoc, Present, OneDocument
  <2>3. \A t \in Service : t # s => SameDoc(t)
        BY <1>0, <1>1, <2>1 DEF SameDoc, Present
  <2> QED
      BY <1>5, <2>1, <2>2, <2>3 DEF LifeStep
<1> QED
    BY <1>6, <1>7
\* What the LC thread makes of the copy it has read: the status is kept, or
\* moved on from UNDER_PROVISIONING.
LEMMA LcReceiveLife ==
    ASSUME TypeOK, DocumentInv, LifeInv, NEW m \in toSDX, LcReceive(m)
    PROVE  \/ UNCHANGED lc
           \/ /\ lc' # Idle /\ lc'.sid = m.sid /\ Present(m.sid)
              /\ lc'.conn.status \in Provisioned
              /\ conns[m.sid].status \in { lc'.conn.status, "UNDER_PROVISIONING" }
<1>1. m \in Answer /\ m.sid \in Service
      BY DEF TypeOK, Answer
<1>2. ~ Unsent(m.sid)
      BY <1>1 DEF DocumentInv, UnsentIsClean
<1> DEFINE b == conns[m.sid]
           k == Recorded(b, m)
<1>3. ASSUME Known(m)
      PROVE  b \in Conn /\ b.status \in Provisioned /\ k \in Conn /\ k.status = b.status
  <2>1. b \in Conn /\ b.status \in Provisioned
        BY <1>1, <1>2, <1>3 DEF Known, Present, TypeOK, LifeInv, StatusFollows
  <2> HIDE DEF b
  <2>2. k \in Conn /\ k.status = b.status
        BY <1>1, <2>1, RecordedType DEF Recorded, Conn
  <2> QED
      BY <2>1, <2>2
<1>4. ASSUME Known(m), NEW pc \in { "cleanup", "late", "save" }, NEW c, Handle(m, pc, c),
             c.status \in Provisioned, b.status \in { c.status, "UNDER_PROVISIONING" }
      PROVE  /\ lc' # Idle /\ lc'.sid = m.sid /\ Present(m.sid)
             /\ lc'.conn.status \in Provisioned
             /\ b.status \in { lc'.conn.status, "UNDER_PROVISIONING" }
      BY <1>4 DEF Handle, Known, Idle
<1>5. CASE LcIgnore(m)
      BY <1>5 DEF LcIgnore
<1>6. CASE LcCreated(m)
  <2> DEFINE c == [ k EXCEPT !.count = @ + 1 ]
             u == [ c EXCEPT !.status = "UP" ]
  <2>1. Known(m)
        BY <1>6 DEF LcCreated
  <2>2. c \in Conn /\ c.status = b.status
    <3> HIDE DEF k, b
    <3> QED
        BY <1>3, <2>1, CountType
  <2>3. u.status = "UP"
    <3> HIDE DEF c
    <3> QED
        BY <2>2, StatusType DEF Status
  <2>4. CanBringUp(c.status) => b.status \in { "UP", "UNDER_PROVISIONING" }
        BY <1>3, <2>1, <2>2, LegalAssumption DEF CanBringUp, CanMove, Provisioned
  <2>5. \/ Handle(m, "save", c) \/ UNCHANGED lc
        \/ CanBringUp(c.status) /\ Handle(m, "save", u)
        BY <1>6 DEF LcCreated
  <2> HIDE DEF c, u, k
  <2> QED
      BY <1>3, <1>4, <2>1, <2>2, <2>3, <2>4, <2>5 DEF Provisioned
<1>7. CASE LcCreatedLate(m)
  <2>1. Known(m) /\ \E pc \in { "late", "save" } : Handle(m, pc, k)
        BY <1>7 DEF LcCreatedLate
  <2> HIDE DEF k
  <2> QED
      BY <1>3, <1>4, <2>1
<1>8. CASE LcDeleted(m)
  <2>1. Known(m) /\ Handle(m, "save", k)
        BY <1>8 DEF LcDeleted
  <2> HIDE DEF k
  <2> QED
      BY <1>3, <1>4, <2>1
<1>9. CASE LcFailed(m)
  <2> DEFINE d == [ k EXCEPT !.status = IF @ \in { "MODIFYING", "UNDER_PROVISIONING" }
                                        THEN "DOWN" ELSE @ ]
             e == [ d EXCEPT !.partial = TRUE ]
  <2>1. Known(m) /\ (Handle(m, "cleanup", e) \/ Handle(m, "save", d))
        BY <1>9 DEF LcFailed
  <2>2. /\ d \in Conn
        /\ d.status = IF b.status = "UNDER_PROVISIONING" THEN "DOWN" ELSE b.status
    <3> HIDE DEF k, b
    <3> QED
        BY <1>3, <2>1 DEF Conn, Status, Provisioned
  <2>3. e.status = d.status
    <3> HIDE DEF d
    <3> QED
        BY <2>2 DEF Conn
  <2> HIDE DEF d, e, k
  <2> QED
      BY <1>3, <1>4, <2>1, <2>2, <2>3 DEF Provisioned
<1> QED
    BY <1>5, <1>6, <1>7, <1>8, <1>9 DEF LcReceive

LEMMA LcLife ==
    ASSUME TypeOK, DocumentInv, LifeInv, LcStep
    PROVE  LifeInv' /\ ((\E s \in Service : LifeStep(s)) \/ \A t \in Service : SameDoc(t))
<1> USE DEF store, wire
<1>0. /\ conns \in [ Service -> Conn \cup {NoConn} ]
      /\ \A s \in Service : StatusFollows(s) /\ OneDocument(s) /\ UnsentIsClean(s)
      /\ CopyFollows
      BY DEF TypeOK, DocumentInv, LifeInv
<1>1. UNCHANGED post /\ ~ LcReplace /\ ~ \E m \in reports : LcReport(m)
      BY DEF DocumentInv, Quiet, LcStep, LcReceive, LcReport, LcCleanup, LcCleanupFails,
         LcLate, LcLateFails, LcSave, LcReplace
<1>2. ASSUME UNCHANGED conns, CopyFollows'
      PROVE  LifeInv' /\ \A t \in Service : SameDoc(t)
      BY <1>0, <1>1, <1>2 DEF LifeInv, StatusFollows, Unsent, SameDoc, Present
<1>3. ASSUME NEW m \in toSDX, LcReceive(m)
      PROVE  LifeInv' /\ \A t \in Service : SameDoc(t)
  <2>1. UNCHANGED conns
        BY <1>3 DEF LcReceive
  <2>2. CASE UNCHANGED lc
        BY <1>0, <1>2, <2>1, <2>2 DEF CopyFollows, Present
  <2>3. CASE /\ lc'.sid = m.sid
             /\ lc'.conn.status \in Provisioned
             /\ conns[m.sid].status \in { lc'.conn.status, "UNDER_PROVISIONING" }
        BY <1>2, <2>1, <2>3 DEF CopyFollows
  <2> QED
      BY <1>3, <2>2, <2>3, LcReceiveLife
<1>4. CASE LcCleanup \/ LcLate
  <2>1. lc \in [ pc : { "cleanup", "late", "save" }, sid : Service, seg : Segment, conn : Conn ]
        BY <1>4, LcShape DEF LcCleanup, LcLate, TypeOK
  <2>2. LcCleanup => lc'.sid = lc.sid /\ lc'.conn.status = lc.conn.status
        BY <2>1 DEF LcCleanup
  <2>3. LcLate => lc'.sid = lc.sid /\ lc'.conn.status = lc.conn.status
        BY <2>1 DEF LcLate, Conn
  <2>4. UNCHANGED conns /\ lc # Idle
        BY <1>4 DEF LcCleanup, LcLate, Idle
  <2>5. CopyFollows'
        BY <1>0, <1>4, <2>2, <2>3, <2>4 DEF CopyFollows, Present
  <2> QED
      BY <1>2, <2>4, <2>5
<1>5. CASE LcCleanupFails \/ LcLateFails
      BY <1>2, <1>5 DEF LcCleanupFails, LcLateFails, CopyFollows
<1>6. CASE LcSave
  <2>1. PICK s \in Service : s = lc.sid
        BY <1>6, LcShape DEF LcSave, TypeOK
  <2>2. lc.conn \in Conn /\ lc # Idle /\ lc.pc = "save"
        BY <1>6, LcShape DEF LcSave, TypeOK, Idle
  <2> DEFINE d == [ lc.conn EXCEPT !.handled = conns[s].handled ]
  <2>3. DbUpdate(s, d) /\ lc' = Idle
        BY <1>6, <2>1 DEF LcSave
  <2>4. CopyFollows'
        BY <2>3 DEF CopyFollows
  <2>5. CASE ~ Present(s)
    <3>1. UNCHANGED conns
          BY <2>3, <2>5 DEF DbUpdate
    <3> QED
        BY <1>2, <2>4, <3>1
  <2>6. CASE Present(s)
    <3>1. conns[s] \in Conn
          BY <1>0, <2>6 DEF Present
    <3>2. d \in Conn /\ d.status = lc.conn.status
          BY <2>2, <3>1 DEF Conn
    <3> HIDE DEF d
    <3>3. conns' = [ conns EXCEPT ![s] = d ]
          BY <1>0, <2>3, <2>6 DEF DbUpdate, OneDocument
    <3>4. /\ ~ Unsent(s) /\ d.status \in Provisioned
          /\ conns[s].status \in { d.status, "UNDER_PROVISIONING" }
          BY <1>0, <2>1, <2>2, <2>6, <3>2 DEF CopyFollows, UnsentIsClean
    <3>5. Present(s)' /\ conns'[s].status = d.status
          BY <1>0, <3>2, <3>3, ProvisioningAssumption DEF Present
    <3>6. \A t \in Service : t # s => conns'[t] = conns[t]
          BY <1>0, <3>3
    <3>7. \A t \in Service : t # s => SameDoc(t)
          BY <1>1, <3>6 DEF SameDoc, Present
    <3>8. SameDoc(s) \/ MovedDoc(s)
          BY <1>1, <2>6, <3>4, <3>5 DEF SameDoc, MovedDoc, LifeMoves, Provisioned
    <3>9. \A t \in Service : StatusFollows(t)'
          BY <1>0, <1>1, <3>4, <3>5, <3>6 DEF StatusFollows, Unsent, Present
    <3> QED
        BY <2>4, <3>7, <3>8, <3>9 DEF LifeInv, LifeStep
  <2> QED
      BY <2>5, <2>6
<1> QED
    BY <1>1, <1>3, <1>4, <1>5, <1>6 DEF LcStep

LEMMA NextLife ==
    ASSUME TypeOK, RejectsEarly, Undisturbed, DocumentInv, LifeInv, [Next]_vars
    PROVE  LifeInv' /\ ((\E s \in Service : LifeStep(s)) \/ \A t \in Service : SameDoc(t))
<1>1. ASSUME UNCHANGED << conns, post, lc >>
      PROVE  LifeInv' /\ \A t \in Service : SameDoc(t)
      BY <1>1 DEF LifeInv, CopyFollows, StatusFollows, Unsent, SameDoc, Present
<1>2. CASE OxpStep
  <2>1. UNCHANGED << conns, post, lc >>
        BY <1>2 DEF OxpStep, OxpServe, OxpCreate, OxpRefuse, OxpDelete, OxpDeleteFails, Serve,
           OxpReport, store
  <2> QED
      BY <1>1, <2>1
<1>3. CASE UNCHANGED vars
      BY <1>1, <1>3 DEF vars
<1>4. ~ MonStep
      BY DEF Undisturbed, DocumentInv, Quiet, MonStep, MonScan, MonTimeout, MonCleanup,
         MonCleanupFails, Idle
<1> QED
    BY <1>2, <1>3, <1>4, PostLife, DelLife, LcLife DEF Next

(***************************************************************************)
(* The refinement mapping: a step of one document is a step of the life it *)
(* is mapped to.                                                           *)
(***************************************************************************)
LEMMA LifeOf ==
    ASSUME NEW s \in Service
    PROVE  /\ ~ Present(s) /\ post[s].pc = "idle" => Life[s] = "absent"
           /\ ~ Present(s) /\ post[s].pc # "idle" => Life[s] = "removed"
           /\ Present(s) =>
                /\ conns[s].status = "REQUESTED" => Life[s] = "requested"
                /\ conns[s].status = "UNDER_PROVISIONING" => Life[s] = "provisioning"
                /\ conns[s].status = "REJECTED" => Life[s] = "rejected"
                /\ conns[s].status = "UP" => Life[s] = "up"
                /\ conns[s].status = "DOWN" => Life[s] = "down"
                /\ Life[s] \in Lifecycle!Present
BY DEF Life, Lifecycle!Present

LEMMA LifeOfNext ==
    ASSUME NEW s \in Service
    PROVE  /\ (~ Present(s))' /\ post'[s].pc # "idle" => Life'[s] = "removed"
           /\ Present(s)' =>
                /\ conns'[s].status = "REQUESTED" => Life'[s] = "requested"
                /\ conns'[s].status = "UNDER_PROVISIONING" => Life'[s] = "provisioning"
                /\ conns'[s].status = "REJECTED" => Life'[s] = "rejected"
                /\ conns'[s].status = "UP" => Life'[s] = "up"
                /\ conns'[s].status = "DOWN" => Life'[s] = "down"
BY DEF Life

LEMMA LifeSame ==
    ASSUME NEW s \in Service, SameDoc(s)
    PROVE  Life'[s] = Life[s]
BY DEF Life, SameDoc

\* A step on the life of s alone is a move of the abstract specification.
LEMMA LifeMove ==
    ASSUME NEW s \in Service, \A t \in Service : t # s => Life'[t] = Life[t],
           NEW from, NEW to, Life[s] = from, Life'[s] = to
    PROVE  Lifecycle!Move(s, from, to)
<1>1. Life' = [ Life EXCEPT ![s] = to ]
  <2> DEFINE f == Life
             h == Life'
  <2>1. f = [ t \in Service |-> f[t] ] /\ h = [ t \in Service |-> h[t] ]
        BY DEF Life
  <2> HIDE DEF f, h
  <2>2. h = [ f EXCEPT ![s] = to ]
        BY <2>1 DEF f, h
  <2> QED
      BY <2>2 DEF f, h
<1> QED
    BY <1>1 DEF Lifecycle!Move

LEMMA LifeImplements ==
    ASSUME NEW s \in Service, LifeStep(s)
    PROVE  Lifecycle!Next
<1>1. \A t \in Service : t # s => Life'[t] = Life[t]
      BY LifeSame DEF LifeStep
<1>2. CASE CreatedDoc(s)
  <2>1. Life[s] = "absent" /\ Life'[s] = "requested"
        BY <1>2, LifeOf, LifeOfNext DEF CreatedDoc
  <2>2. Lifecycle!Accept(s)
        BY <1>1, <2>1, LifeMove DEF Lifecycle!Accept
  <2> QED
      BY <2>2 DEF Lifecycle!Next
<1>3. CASE RemovedDoc(s)
  <2>1. Life[s] \in Lifecycle!Present /\ Life'[s] = "removed"
        BY <1>3, LifeOf, LifeOfNext DEF RemovedDoc
  <2>2. Lifecycle!Move(s, Life[s], "removed")
        BY <1>1, <2>1, LifeMove
  <2>3. Lifecycle!Remove(s)
        BY <2>1, <2>2 DEF Lifecycle!Remove
  <2> QED
      BY <2>3 DEF Lifecycle!Next
<1>4. CASE MovedDoc(s)
  <2>1. \/ Life[s] = "requested" /\ Life'[s] = "provisioning"
        \/ Life[s] = "requested" /\ Life'[s] = "rejected"
        \/ Life[s] = "provisioning" /\ Life'[s] = "up"
        \/ Life[s] = "provisioning" /\ Life'[s] = "down"
        BY <1>4, LifeOf, LifeOfNext DEF MovedDoc, LifeMoves
  <2>2. \/ Lifecycle!Plan(s) \/ Lifecycle!Reject(s)
        \/ Lifecycle!Complete(s) \/ Lifecycle!Break(s)
        BY <1>1, <2>1, LifeMove
           DEF Lifecycle!Plan, Lifecycle!Reject, Lifecycle!Complete, Lifecycle!Break
  <2> QED
      BY <2>2 DEF Lifecycle!Next
<1> QED
    BY <1>2, <1>3, <1>4 DEF LifeStep

LEMMA LifeStutters ==
    ASSUME \A s \in Service : SameDoc(s)
    PROVE  UNCHANGED Life
<1>1. \A s \in Service : Life'[s] = Life[s]
      BY LifeSame
<1> DEFINE f == Life
           h == Life'
<1>2. f = [ t \in Service |-> f[t] ] /\ h = [ t \in Service |-> h[t] ]
      BY DEF Life
<1> HIDE DEF f, h
<1>3. h = f
      BY <1>1, <1>2 DEF f, h
<1> QED
    BY <1>3 DEF f, h

LEMMA InitLifecycle == Init => Lifecycle!Init
BY DEF Init, Lifecycle!Init, Life, Present

\* With the timeout off and no status reported unasked, whatever the threads,
\* the OXPs and the broker do, a client sees a connection live as
\* ConnectionLifecycle says: accepted, planned or rejected, up or down once,
\* and removed for good.
THEOREM LifecycleCorrect ==
    ASSUME Undisturbed, RejectsEarly
    PROVE  Spec => ImplementsLifecycle
<1> DEFINE I == TypeOK /\ WireInv /\ DocumentInv /\ LifeInv
<1>1. Init => I
      BY InitType, InitWire, InitDocument, InitLife
<1>2. I /\ [Next]_vars => I'
      BY NextType, NextWire, NextDocument, NextLife
<1>3. I /\ [Next]_vars => [Lifecycle!Next]_Life
      BY NextLife, LifeImplements, LifeStutters
<1> HIDE DEF I
<1> QED
    BY <1>1, <1>2, <1>3, InitLifecycle, PTL
       DEF Spec, ImplementsLifecycle, Lifecycle!Spec
(***************************************************************************)
(* What the LC thread makes of an answer m, of the document b it reads:    *)
(* the copy c, and where the thread goes with it.                          *)
(***************************************************************************)
CopyOf(m, b, c) ==
    /\ c.late = b.late
    /\ m.op = "delete" => c.evc = b.evc
    /\ m.op = "post" /\ m.ok => c.evc = b.evc \cup {m.seg}
    /\ m.op = "post" /\ ~ m.ok => c.evc = b.evc \ {m.seg}

\* An EVC of a whole connection: it is counted.
CopyCreated(m, b, pc, c) ==
    /\ m.op = "post" /\ m.ok /\ ~ b.partial
    /\ pc = "save" /\ ~ c.partial /\ c.count = b.count + 1
    /\ IF c.count = Cardinality(breakdowns[m.sid]) THEN c.status = "UP"
       ELSE c.status = b.status

CopyLate(m, b, pc, c) ==
    /\ m.op = "post" /\ m.ok /\ b.partial /\ c.partial
    /\ pc = "late" \/ (pc = "save" /\ DomOf[m.seg] \in b.late)

CopyDeleted(m, b, pc, c) ==
    /\ m.op = "delete" /\ m.ok /\ pc = "save"
    /\ c.partial = b.partial /\ c.status = b.status /\ c.count = b.count

CopyFailed(m, b, pc, c) ==
    /\ ~ m.ok
    /\ \/ m.op = "post" /\ ~ b.partial /\ pc = "cleanup" /\ c.partial
       \/ (m.op = "delete" \/ b.partial) /\ pc = "save" /\ c.partial = b.partial

\* The last answer of a connection that cannot be brought up is dropped.
Dropped(m, b) ==
    /\ m.op = "post" /\ m.ok /\ ~ b.partial
    /\ b.count + 1 = Cardinality(breakdowns[m.sid]) /\ ~ CanBringUp(b.status)

LEMMA PartialType ==
    ASSUME NEW c \in Conn
    PROVE  LET d == [ c EXCEPT !.partial = TRUE ] IN
           d \in Conn /\ d.partial = TRUE /\ d.evc = c.evc /\ d.late = c.late
BY DEF Conn

LEMMA LcReceiveMakes ==
    ASSUME TypeOK, NEW m \in toSDX, LcReceive(m)
    PROVE  \/ UNCHANGED lc /\ (Known(m) => Dropped(m, conns[m.sid]))
           \/ /\ Known(m) /\ conns[m.sid] \in Conn
              /\ \E pc \in { "cleanup", "late", "save" }, c \in Conn :
                     /\ Handle(m, pc, c) /\ CopyOf(m, conns[m.sid], c)
                     /\ \/ CopyCreated(m, conns[m.sid], pc, c)
                        \/ CopyLate(m, conns[m.sid], pc, c)
                        \/ CopyDeleted(m, conns[m.sid], pc, c)
                        \/ CopyFailed(m, conns[m.sid], pc, c)
<1>1. m \in Answer /\ m.sid \in Service /\ m.op \in { "post", "delete" }
      BY DEF TypeOK, Answer
<1> DEFINE b == conns[m.sid]
           k == Recorded(b, m)
<1>2. CASE LcIgnore(m)
      BY <1>2 DEF LcIgnore
<1>3. ASSUME Known(m)
      PROVE  /\ b \in Conn
             /\ k \in Conn /\ CopyOf(m, b, k)
             /\ k.status = b.status /\ k.count = b.count /\ k.partial = b.partial
  <2>1. b \in Conn
        BY <1>1, <1>3 DEF Known, Present, TypeOK
  <2> HIDE DEF b
  <2>2. k \in Conn
        BY <1>1, <2>1, RecordedType
  <2>3. k.status = b.status /\ k.count = b.count /\ k.partial = b.partial /\ k.late = b.late
        BY <2>1 DEF Recorded, Conn
  <2>4. k.evc = IF m.op = "delete" THEN b.evc
                ELSE IF m.ok THEN b.evc \cup {m.seg} ELSE b.evc \ {m.seg}
        BY <2>1 DEF Recorded, Conn
  <2> HIDE DEF k
  <2> QED
      BY <2>1, <2>2, <2>3, <2>4 DEF CopyOf
<1>4. CASE LcCreated(m)
  <2> DEFINE c == [ k EXCEPT !.count = @ + 1 ]
             u == [ c EXCEPT !.status = "UP" ]
             n == Cardinality(breakdowns[m.sid])
  <2>1. Known(m) /\ m.ok /\ m.op = "post" /\ ~ b.partial
        BY <1>4 DEF LcCreated
  <2>2. /\ c \in Conn /\ c.status = b.status /\ c.evc = k.evc /\ c.count = b.count + 1
        /\ c.late = k.late /\ c.partial = k.partial
    <3>1. k \in Conn /\ k.status = b.status /\ k.count = b.count
          BY <1>3, <2>1
    <3> HIDE DEF k, b
    <3>2. c \in Conn /\ c.status = k.status /\ c.evc = k.evc /\ c.count = k.count + 1
          BY <3>1, CountType
    <3>3. c.late = k.late /\ c.partial = k.partial
          BY <3>1 DEF Conn
    <3> QED
        BY <3>1, <3>2, <3>3
  <2>3. /\ u \in Conn /\ u.status = "UP" /\ u.evc = c.evc /\ u.count = c.count
        /\ u.late = c.late /\ u.partial = c.partial
    <3> HIDE DEF c
    <3>1. u \in Conn /\ u.status = "UP" /\ u.evc = c.evc /\ u.count = c.count
          BY <2>2, StatusType DEF Status
    <3>2. u.late = c.late /\ u.partial = c.partial
          BY <2>2 DEF Conn
    <3> QED
        BY <3>1, <3>2
  <2>4. \/ c.count # n /\ Handle(m, "save", c)
        \/ c.count = n /\ ~ CanBringUp(c.status) /\ UNCHANGED lc
        \/ c.count = n /\ Handle(m, "save", u)
        BY <1>4 DEF LcCreated
  <2> HIDE DEF c, u, k, n
  <2>5. CopyOf(m, b, c) /\ CopyOf(m, b, u)
        BY <1>3, <2>1, <2>2, <2>3 DEF CopyOf
  <2>6. c.count # n => CopyCreated(m, b, "save", c)
        BY <1>3, <2>1, <2>2 DEF CopyCreated, n
  <2>7. c.count = n => CopyCreated(m, b, "save", u)
        BY <1>3, <2>1, <2>2, <2>3 DEF CopyCreated, n
  <2>8. c.count = n /\ ~ CanBringUp(c.status) => Dropped(m, b)
        BY <2>1, <2>2 DEF Dropped, n
  <2> HIDE DEF b
  <2> QED
      BY <1>3, <2>1, <2>2, <2>3, <2>4, <2>5, <2>6, <2>7, <2>8 DEF b
<1>5. CASE LcCreatedLate(m)
  <2>1. /\ Known(m) /\ m.ok /\ m.op = "post" /\ b.partial
        /\ \/ DomOf[m.seg] \in b.late /\ Handle(m, "save", k)
           \/ Handle(m, "late", k)
        BY <1>5 DEF LcCreatedLate
  <2> HIDE DEF k
  <2>2. \/ CopyLate(m, b, "save", k) /\ Handle(m, "save", k)
        \/ CopyLate(m, b, "late", k) /\ Handle(m, "late", k)
        BY <1>3, <2>1 DEF CopyLate
  <2> QED
      BY <1>3, <2>1, <2>2
<1>6. CASE LcDeleted(m)
  <2>1. Known(m) /\ m.ok /\ m.op = "delete" /\ Handle(m, "save", k)
        BY <1>6 DEF LcDeleted
  <2> HIDE DEF k
  <2>2. CopyDeleted(m, b, "save", k)
        BY <1>3, <2>1 DEF CopyDeleted
  <2> QED
      BY <1>3, <2>1, <2>2
<1>7. CASE LcFailed(m)
  <2> DEFINE d == [ k EXCEPT !.status = IF @ \in { "MODIFYING", "UNDER_PROVISIONING" }
                                        THEN "DOWN" ELSE @ ]
             e == [ d EXCEPT !.partial = TRUE ]
  <2>1. /\ Known(m) /\ ~ m.ok
        /\ \/ m.op = "post" /\ ~ b.partial /\ Handle(m, "cleanup", e)
           \/ (m.op # "post" \/ b.partial) /\ Handle(m, "save", d)
        BY <1>7 DEF LcFailed
  <2>2. d \in Conn /\ d.evc = k.evc /\ d.late = k.late /\ d.partial = k.partial
    <3>1. k \in Conn
          BY <1>3, <2>1
    <3> HIDE DEF k
    <3> QED
        BY <3>1 DEF Conn, Status
  <2>3. e \in Conn /\ e.partial = TRUE /\ e.evc = d.evc /\ e.late = d.late
    <3> HIDE DEF d
    <3> QED
        BY <2>2, PartialType
  <2> HIDE DEF d, e, k
  <2>4. CopyOf(m, b, d) /\ CopyOf(m, b, e)
        BY <1>3, <2>1, <2>2, <2>3 DEF CopyOf
  <2>5. \/ CopyFailed(m, b, "cleanup", e) /\ Handle(m, "cleanup", e)
        \/ CopyFailed(m, b, "save", d) /\ Handle(m, "save", d)
        BY <1>1, <1>3, <2>1, <2>2, <2>3 DEF CopyFailed
  <2> QED
      BY <1>3, <2>1, <2>2, <2>3, <2>4, <2>5
<1> QED
    BY <1>2, <1>4, <1>5, <1>6, <1>7 DEF LcReceive
=============================================================================
