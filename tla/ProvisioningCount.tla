--------------------------- MODULE ProvisioningCount ---------------------------
(***************************************************************************)
(* What holds a connection up.  If the broker delivers no answer twice and *)
(* no OXP reports "UP" unasked, CountInv is inductive: a connection is     *)
(* shown up only if every OXP of its breakdown created its EVC.  Timeouts, *)
(* failed publishes, deletes and stale copies written over newer documents *)
(* may happen.                                                             *)
(*                                                                         *)
(* Without timeouts and reports, OperationalInv: what is up keeps its EVCs *)
(* and its reservation.  Where nothing but a refused EVC goes wrong,       *)
(* CleanupInv: a partial cleanup leaves no EVC behind, answers delivered   *)
(* twice or not.                                                           *)
(***************************************************************************)
EXTENDS ProvisioningSafety

Unrepeated == MaxRedeliveries = 0 /\ "UP" \notin ReportedStatus

\* It is enough to look at the copies a step makes, as long as the step does
\* not take the property from the copies there were.
LEMMA CopiesCounted ==
    ASSUME TypeOK, WireInv, EveryCopy(Counted),
           \A s \in Service, c \in Conn :
               Counted(s, c) /\ EvcCreated(s, c) => Counted(s, c)',
           (\A s \in Service : Present(s) => Counted(s, conns[s]))'
               \/ conns' = conns,
           lc' = Idle \/ lc' = lc \/ (Counted(lc.sid, lc.conn))',
           \A r \in Request : del'[r] \in { Idle, Finished } \/ del'[r] = del[r]
               \/ (Counted(del[r].sid, del[r].conn))',
           \/ mon' = Idle
           \/ mon' = mon
           \/ /\ (\A s \in Service : mon.snap[s] # NoConn => Counted(s, mon.snap[s]))'
              /\ (mon.pc = "cleanup" => Counted(mon.sid, mon.conn))'
    PROVE  EveryCopy(Counted)'
<1>0. EveryCopy(EvcCreated)
      BY DEF WireInv
<1>1. (\A s \in Service : Present(s) => Counted(s, conns[s]))'
  <2>1. CASE conns' = conns
    <3>1. \A s \in Service : Present(s) => conns[s] \in Conn
          BY DEF TypeOK, Present
    <3> QED
        BY <1>0, <2>1, <3>1 DEF EveryCopy, Present, Counted, Answered, Fresh
  <2> QED
      BY <2>1
<1>2. (lc # Idle => Counted(lc.sid, lc.conn))'
  <2>1. CASE lc' = lc
    <3>1. lc # Idle => lc.sid \in Service /\ lc.conn \in Conn
          BY LcShape DEF TypeOK
    <3>2. lc # Idle => Counted(lc.sid, lc.conn)'
          BY <1>0, <2>1, <3>1 DEF EveryCopy, Counted, Answered, Fresh
    <3> QED
        BY <2>1, <3>2
  <2> QED
      BY <2>1
<1>3. ASSUME NEW r \in Request
      PROVE  (del[r] \notin { Idle, Finished } => Counted(del[r].sid, del[r].conn))'
  <2>1. CASE del'[r] = del[r]
    <3>1. del[r] \notin { Idle, Finished } => del[r].sid \in Service /\ del[r].conn \in Conn
          BY DelShape DEF TypeOK
    <3>2. del[r] \notin { Idle, Finished } => Counted(del[r].sid, del[r].conn)'
          BY <1>0, <2>1, <3>1 DEF EveryCopy, Counted, Answered, Fresh
    <3> QED
        BY <2>1, <3>2 DEF Idle, Finished
  <2> QED
      BY <2>1
<1>4. (/\ mon # Idle => \A s \in Service : mon.snap[s] # NoConn => Counted(s, mon.snap[s])
       /\ mon.pc = "cleanup" => Counted(mon.sid, mon.conn))'
  <2>1. CASE mon' = mon
    <3>1. /\ mon # Idle => \A s \in Service : mon.snap[s] # NoConn => mon.snap[s] \in Conn
          /\ mon.pc = "cleanup" => mon.sid \in Service /\ mon.conn \in Conn
          BY MonShape DEF TypeOK
    <3> QED
        BY <1>0, <2>1, <3>1 DEF EveryCopy, Counted, Answered, Fresh
  <2>2. CASE mon' = Idle
        BY <2>2 DEF Idle
  <2> QED
      BY <2>1, <2>2
<1> QED
    BY <1>1, <1>2, <1>3, <1>4 DEF EveryCopy

LEMMA CountedKept ==
    ASSUME toSDX' \subseteq toSDX,
           \A s \in Service : breakdowns'[s] \subseteq breakdowns[s] \/ Fresh(s),
           \A s \in Service : Fresh(s)' => Fresh(s) /\ breakdowns'[s] \subseteq breakdowns[s]
    PROVE  \A s \in Service, c \in Conn :
               Counted(s, c) /\ EvcCreated(s, c) => Counted(s, c)'
BY DEF Counted, Answered

LEMMA InitCount == Init => CountInv
<1> SUFFICES ASSUME Init PROVE CountInv
    OBVIOUS
<1>1. Planned /\ NoReportUp
      BY DEF Init, Planned, NoReportUp
<1>2. EveryCopy(Counted)
      BY DEF Init, EveryCopy, Present, Idle
<1> QED
    BY <1>1, <1>2 DEF CountInv

LEMMA PostCount ==
    ASSUME TypeOK, WireInv, CountInv, NEW s \in Service, PostSave(s) \/ PostStep(s)
    PROVE  CountInv'
<1> USE DEF store, wire, PostGoto
<1>0. /\ Planned /\ NoReportUp /\ EveryCopy(Counted)
      /\ post \in [ Service -> PostState ]
      BY DEF CountInv, TypeOK
<1>1. ASSUME DbSetStatus(s, "UNDER_PROVISIONING") \/ DbSetStatus(s, "REJECTED")
                 \/ conns' = conns,
             UNCHANGED << breakdowns, toLC, toSDX, reports, oxp, lc, del, mon >>,
             \A t \in Service : Fresh(t)' => Fresh(t),
             \A t \in Service : post'[t].todo = post[t].todo
      PROVE  CountInv'
  <2>1. Planned' /\ NoReportUp'
        BY <1>0, <1>1 DEF Planned, NoReportUp, Creating
  <2>2. \A t \in Service, c \in Conn : Counted(t, c) /\ EvcCreated(t, c) => Counted(t, c)'
        BY <1>1, CountedKept
  <2>3. (\A t \in Service : Present(t) => Counted(t, conns[t]))' \/ conns' = conns
    <3>1. SUFFICES ASSUME NEW t \in Service, conns'[t] # NoConn, conns' # conns
                   PROVE  Counted(t, conns'[t]) /\ conns'[t] \in Conn
                              /\ EvcCreated(t, conns'[t])
          BY <1>1, <2>2 DEF Present, Counted, Answered, Fresh
    <3>2. conns'[t] = conns[t] => Counted(t, conns'[t]) /\ conns'[t] \in Conn
              /\ EvcCreated(t, conns'[t])
          BY <1>0, <3>1 DEF EveryCopy, Present, TypeOK, WireInv
    <3>3. CASE t = s /\ Present(s) /\ tombs[s] = 0
      <4>1. conns[s] \in Conn /\ Counted(s, conns[s]) /\ EvcCreated(s, conns[s])
            BY <1>0, <3>3 DEF TypeOK, Present, EveryCopy, WireInv
      <4>2. ASSUME NEW st \in Status \ { "UP" }, DbSetStatus(s, st)
            PROVE  Counted(s, conns'[s]) /\ conns'[s] \in Conn /\ EvcCreated(s, conns'[s])
        <5>1. conns'[s] = [ conns[s] EXCEPT !.status = st ]
              BY <3>3, <4>2 DEF DbSetStatus, DbUpdate, TypeOK
        <5>2. /\ conns'[s] \in Conn /\ conns'[s].evc = conns[s].evc
              /\ conns'[s].count = conns[s].count /\ conns'[s].status = st
          <6> DEFINE d == [ conns[s] EXCEPT !.status = st ]
          <6>1. /\ d \in Conn /\ d.evc = conns[s].evc
                /\ d.count = conns[s].count /\ d.status = st
                BY <4>1 DEF Conn
          <6>2. conns'[s] = d
                BY <5>1
          <6> HIDE DEF d
          <6> QED
              BY <6>1, <6>2
        <5> QED
            BY <4>1, <5>2 DEF Counted, EvcCreated
      <4> QED
          BY <1>1, <3>1, <3>3, <4>2 DEF Status
    <3>4. CASE ~ (t = s /\ Present(s) /\ tombs[s] = 0)
          BY <1>1, <3>2, <3>4 DEF DbSetStatus, DbUpdate, TypeOK
    <3> QED
        BY <3>3, <3>4
  <2>4. EveryCopy(Counted)'
        BY <1>0, <1>1, <2>2, <2>3, CopiesCounted
  <2> QED
      BY <2>1, <2>4 DEF CountInv
<1>2. CASE PostSave(s)
  <2>1. UNCHANGED << breakdowns, toLC, toSDX, reports, oxp, lc, del, mon >>
        BY <1>2 DEF PostSave
  <2>2. \A t \in Service : (Fresh(t)' <=> Fresh(t)) /\ post'[t].todo = post[t].todo
        BY <1>0, <1>2 DEF PostSave, Fresh, PostState
  <2>3. Planned' /\ NoReportUp'
        BY <1>0, <2>1, <2>2 DEF Planned, NoReportUp, Creating
  <2>4. \A t \in Service, c \in Conn : Counted(t, c) /\ EvcCreated(t, c) => Counted(t, c)'
        BY <2>1, <2>2, CountedKept
  <2>5. NewConn.count = 0 /\ NewConn.evc = {} /\ NewConn.status = "REQUESTED"
        BY DEF NewConn
  <2>6. Counted(s, NewConn) /\ EvcCreated(s, NewConn)
        BY <2>5, FS_EmptySet DEF Counted, EvcCreated
  <2>7. (\A t \in Service : Present(t) => Counted(t, conns[t]))'
    <3>1. SUFFICES ASSUME NEW t \in Service, conns'[t] # NoConn
                   PROVE  Counted(t, conns'[t]) /\ conns'[t] \in Conn
                              /\ EvcCreated(t, conns'[t])
          BY <2>1, <2>4 DEF Present, Counted, Answered, Fresh
    <3>2. conns' = [ conns EXCEPT ![s] = NewConn ]
          BY <1>2 DEF PostSave, DbAdd
    <3> QED
        BY <1>0, <2>6, <3>1, <3>2, NewConnType DEF EveryCopy, Present, TypeOK, WireInv
  <2>8. EveryCopy(Counted)'
        BY <1>0, <2>1, <2>4, <2>7, CopiesCounted
  <2> QED
      BY <2>3, <2>8 DEF CountInv
<1>3. CASE PlaceFail(s)
      BY <1>0, <1>1, <1>3 DEF PlaceFail, PostState, Fresh
<1>4. ASSUME NEW B \in SUBSET Segment, PlaceBreakdown(s, B) PROVE CountInv'
  <2>1. /\ UNCHANGED << conns, toLC, toSDX, reports, oxp, lc, del, mon >>
        /\ Fresh(s)
        /\ \A t \in Service : breakdowns'[t] = IF t = s THEN B ELSE breakdowns[t]
        /\ \A t \in Service : post'[t].todo = IF t = s THEN B ELSE post[t].todo
        /\ \A t \in Service : Fresh(t)' => Fresh(t) /\ t # s
        BY <1>0, <1>4 DEF PlaceBreakdown, PostState, Fresh, TypeOK
  <2>2. Planned'
        BY <1>0, <2>1 DEF Planned, Creating, WireInv, FreshIsClean
  <2>3. NoReportUp'
        BY <1>0, <2>1 DEF NoReportUp
  <2>4. \A t \in Service, c \in Conn : Counted(t, c) /\ EvcCreated(t, c) => Counted(t, c)'
        BY <2>1, CountedKept
  <2>5. EveryCopy(Counted)'
        BY <1>0, <2>1, <2>4, CopiesCounted
  <2> QED
      BY <2>2, <2>3, <2>5 DEF CountInv
<1>5. CASE PlaceMark(s)
      BY <1>0, <1>1, <1>5 DEF PlaceMark, PostState, Fresh
<1>6. ASSUME NEW g \in Segment, PlaceSend(s, g) PROVE CountInv'
  <2>1. /\ UNCHANGED << conns, breakdowns, toSDX, reports, oxp, lc, del, mon >>
        /\ g \in post[s].todo
        /\ \A t \in Service : post'[t].todo \subseteq post[t].todo
        /\ \A t \in Service : Fresh(t)' => Fresh(t)
        BY <1>0, <1>6 DEF PlaceSend, PostState, Fresh
  <2>2. \A t \in Service, h \in Segment :
            Creating(t, h)' => Creating(t, h) \/ (t = s /\ h = g)
        BY <1>6 DEF PlaceSend, Orders, Creating
  <2>3. Planned'
        BY <1>0, <2>1, <2>2 DEF Planned
  <2>4. NoReportUp'
        BY <1>0, <2>1 DEF NoReportUp
  <2>5. \A t \in Service, c \in Conn : Counted(t, c) /\ EvcCreated(t, c) => Counted(t, c)'
        BY <2>1, CountedKept
  <2>6. EveryCopy(Counted)'
        BY <1>0, <2>1, <2>5, CopiesCounted
  <2> QED
      BY <2>3, <2>4, <2>6 DEF CountInv
<1>7. CASE PlaceReturn(s)
      BY <1>0, <1>1, <1>7 DEF PlaceReturn, PostState, Fresh
<1>8. CASE PlaceBroken(s)
      BY <1>0, <1>1, <1>8 DEF PlaceBroken, PostState, Fresh
<1>9. CASE PostReject(s)
      BY <1>0, <1>1, <1>9 DEF PostReject, PostState, Fresh
<1> QED
    BY <1>2, <1>3, <1>4, <1>5, <1>6, <1>7, <1>8, <1>9 DEF PostStep

LEMMA DelCount ==
    ASSUME TypeOK, WireInv, CountInv, NEW r \in Request,
           (\E s \in Service : DelRead(r, s)) \/ DelStep(r)
    PROVE  CountInv'
<1> USE DEF store, wire, DelGoto
<1>0. /\ Planned /\ NoReportUp /\ EveryCopy(Counted) /\ del \in [ Request -> DelState ]
      BY DEF CountInv, TypeOK
<1>1. ASSUME UNCHANGED << toSDX, reports, oxp, post, lc, mon >>,
             \A m \in toLC' : m \in toLC \/ m.op = "delete",
             \A s \in Service : breakdowns'[s] = breakdowns[s] \/ breakdowns'[s] = {},
             \A s \in Service : conns'[s] # NoConn => conns'[s] = conns[s],
             NEW d \in DelState, del' = [ del EXCEPT ![r] = d ],
             \/ d \in { Idle, Finished }
             \/ d.sid \in Service /\ d.conn \in Conn
                    /\ Counted(d.sid, d.conn) /\ EvcCreated(d.sid, d.conn)
      PROVE  CountInv'
  <2>1. Planned'
        BY <1>0, <1>1 DEF Planned, Creating, Fresh
  <2>2. NoReportUp'
        BY <1>0, <1>1 DEF NoReportUp
  <2>3. \A s \in Service, c \in Conn : Counted(s, c) /\ EvcCreated(s, c) => Counted(s, c)'
        BY <1>1, CountedKept DEF Fresh
  <2>4. (\A s \in Service : Present(s) => Counted(s, conns[s]))'
    <3>1. \A s \in Service : Present(s)' =>
              conns[s] \in Conn /\ Counted(s, conns[s]) /\ EvcCreated(s, conns[s])
          BY <1>0, <1>1 DEF EveryCopy, Present, TypeOK, WireInv
    <3> QED
        BY <1>1, <2>3, <3>1 DEF Present, Counted, Answered, Fresh
  <2>5. \A q \in Request : del'[q] \in { Idle, Finished } \/ del'[q] = del[q]
            \/ (Counted(del[q].sid, del[q].conn))'
        BY <1>0, <1>1, <2>3 DEF Counted, Answered, Fresh
  <2>6. EveryCopy(Counted)'
        BY <1>0, <1>1, <2>3, <2>4, <2>5, CopiesCounted
  <2> QED
      BY <2>1, <2>2, <2>6 DEF CountInv
<1>2. ASSUME NEW s \in Service, DelRead(r, s) PROVE CountInv'
  <2>1. conns[s] \in Conn /\ EvcCreated(s, conns[s]) /\ Counted(s, conns[s])
        BY <1>0, <1>2 DEF DelRead, TypeOK, Present, EveryCopy, WireInv
  <2>2. PICK pc \in { "mark", "settle", "release" } :
            del' = [ del EXCEPT ![r] = [ pc |-> pc, sid |-> s, conn |-> conns[s],
                                         brk |-> breakdowns[s] ] ]
        BY <1>2 DEF DelRead
  <2>3. [ pc |-> pc, sid |-> s, conn |-> conns[s], brk |-> breakdowns[s] ] \in DelState
        BY <2>1 DEF DelState, TypeOK
  <2> QED
      BY <1>1, <1>2, <2>1, <2>2, <2>3 DEF DelRead
<1>3. ASSUME DelStep(r)
      PROVE  /\ del[r] \in [ pc : { "settle", "release", "send", "drop", "archive",
                                    "unlink", "mark", "markBreakdown" },
                             sid : Service, conn : Conn, brk : SUBSET Segment ]
             /\ Counted(del[r].sid, del[r].conn) /\ EvcCreated(del[r].sid, del[r].conn)
             /\ \A pc \in { "release", "send", "drop", "archive", "unlink", "mark",
                            "markBreakdown" } :
                    /\ [ del[r] EXCEPT !.pc = pc ] \in DelState
                    /\ [ del[r] EXCEPT !.pc = pc ].sid = del[r].sid
                    /\ [ del[r] EXCEPT !.pc = pc ].conn = del[r].conn
  <2>1. del[r] \notin { Idle, Finished }
        BY <1>0, <1>3, DelShape DEF DelStep, DelSettle, DelRelease, DelSend, DelSendFails,
           DelDrop, DelArchive, DelUnlink, DelMark, DelMarkBreakdown
  <2>2. del[r] \in [ pc : { "settle", "release", "send", "drop", "archive", "unlink",
                            "mark", "markBreakdown" },
                     sid : Service, conn : Conn, brk : SUBSET Segment ]
        BY <1>0, <2>1, DelShape
  <2> QED
      BY <1>0, <2>1, <2>2 DEF EveryCopy, DelState, WireInv
<1>4. CASE DelSettle(r)
  <2>1. CASE DelGoto(r, "mark")
        BY <1>1, <1>3, <1>4, <2>1 DEF DelSettle, DelStep
  <2>2. CASE /\ Present(del[r].sid)
             /\ del' = [ del EXCEPT ![r] =
                           [ @ EXCEPT !.pc = "release", !.conn = conns[del[r].sid] ] ]
    <3>1. /\ del[r].sid \in Service /\ conns[del[r].sid] \in Conn
          /\ EvcCreated(del[r].sid, conns[del[r].sid])
          /\ Counted(del[r].sid, conns[del[r].sid])
          BY <1>0, <1>3, <1>4, <2>2 DEF DelStep, TypeOK, Present, EveryCopy, WireInv
    <3> DEFINE d == [ del[r] EXCEPT !.pc = "release", !.conn = conns[del[r].sid] ]
    <3>2. d \in DelState /\ d.sid = del[r].sid /\ d.conn = conns[del[r].sid]
          BY <1>3, <1>4, <3>1 DEF DelStep, DelState
    <3>3. del' = [ del EXCEPT ![r] = d ]
          BY <2>2
    <3> HIDE DEF d
    <3> QED
        BY <1>1, <1>4, <3>1, <3>2, <3>3 DEF DelSettle
  <2> QED
      BY <1>4, <2>1, <2>2 DEF DelSettle
<1>5. CASE DelRelease(r)
      BY <1>1, <1>3, <1>5 DEF DelRelease, DelStep
<1>6. CASE DelSend(r) \/ DelSendFails(r)
  <2>1. \A m \in toLC' : m \in toLC \/ m.op = "delete"
        BY <1>6 DEF DelSend, DelSendFails, Deletes, Orders
  <2> QED
      BY <1>1, <1>3, <1>6, <2>1 DEF DelSend, DelSendFails, DelStep
<1>7. CASE DelDrop(r)
      BY <1>1, <1>3, <1>7 DEF DelDrop, DelStep, TypeOK
<1>8. CASE DelArchive(r)
      BY <1>1, <1>3, <1>8 DEF DelArchive, DelStep
<1>9. CASE DelUnlink(r) \/ DelMark(r)
  <2>1. \A s \in Service : conns'[s] # NoConn => conns'[s] = conns[s]
        BY <1>3, <1>9 DEF DelUnlink, DelMark, DbDeleteOne, DbMark, TypeOK, DelStep
  <2> QED
      BY <1>1, <1>3, <1>9, <2>1 DEF DelUnlink, DelMark, DelStep
<1>10. CASE DelMarkBreakdown(r)
  <2>1. Finished \in DelState
        BY DEF DelState
  <2> QED
      BY <1>1, <1>3, <1>10, <2>1 DEF DelMarkBreakdown, DelStep, TypeOK
<1> QED
    BY <1>2, <1>4, <1>5, <1>6, <1>7, <1>8, <1>9, <1>10 DEF DelStep

LEMMA MonCount ==
    ASSUME TypeOK, WireInv, CountInv, MonStep
    PROVE  CountInv'
<1> USE DEF store, wire
<1>0. /\ Planned /\ NoReportUp /\ EveryCopy(Counted) /\ EveryCopy(EvcCreated)
      BY DEF CountInv, WireInv
<1>1. ASSUME UNCHANGED << breakdowns, toSDX, reports, oxp, post >>,
             \A m \in toLC' : m \in toLC \/ m.op = "delete"
      PROVE  /\ Planned' /\ NoReportUp'
             /\ \A s \in Service, c \in Conn :
                    Counted(s, c) /\ EvcCreated(s, c) => Counted(s, c)'
  <2>1. Planned' /\ NoReportUp'
        BY <1>0, <1>1 DEF Planned, NoReportUp, Creating, Fresh
  <2> QED
      BY <1>1, <2>1, CountedKept DEF Fresh
<1>2. ASSUME NEW T \in SUBSET Service, MonScan(T) PROVE CountInv'
  <2>1. UNCHANGED << breakdowns, toLC, toSDX, reports, oxp, post, conns, lc, del >>
        BY <1>2 DEF MonScan
  <2>2. (\A s \in Service : mon.snap[s] # NoConn => Counted(s, mon.snap[s]))'
    <3>1. \A s \in Service : mon'.snap[s] # NoConn =>
              conns[s] # NoConn /\ mon'.snap[s] = conns[s]
          BY <1>2 DEF MonScan
    <3> QED
        BY <1>0, <2>1, <3>1 DEF EveryCopy, Present, Counted, Answered, Fresh
  <2>3. mon'.pc = "scan"
        BY <1>2 DEF MonScan
  <2>4. EveryCopy(Counted)'
        BY <1>0, <1>1, <2>1, <2>2, <2>3, CopiesCounted
  <2> QED
      BY <1>1, <2>1, <2>4 DEF CountInv
<1>3. ASSUME NEW s \in Service, MonTimeout(s) PROVE CountInv'
  <2> DEFINE c == [ mon.snap[s] EXCEPT !.status = "DOWN", !.handled = TRUE, !.partial = TRUE ]
  <2>1. UNCHANGED << breakdowns, toLC, toSDX, reports, oxp, post, lc, del >>
        BY <1>3 DEF MonTimeout
  <2>2. /\ mon.snap \in [ Service -> Conn \cup {NoConn} ]
        /\ mon.snap[s] \in Conn /\ Counted(s, mon.snap[s]) /\ mon # Idle
        BY <1>0, <1>3, MonShape DEF MonTimeout, TypeOK, EveryCopy, Idle
  <2>3. c \in Conn /\ c.evc = mon.snap[s].evc /\ c.count = mon.snap[s].count /\ c.status = "DOWN"
        BY <2>2 DEF Conn, Status
  <2>4. /\ conns' = [ conns EXCEPT ![s] = c ]
        /\ mon' = [ pc |-> "cleanup", sid |-> s, conn |-> c,
                    snap |-> [ mon.snap EXCEPT ![s] = NoConn ] ]
        BY <1>3 DEF MonTimeout, DbAdd
  <2> HIDE DEF c
  <2>5. Counted(s, c)
        BY <2>2, <2>3 DEF Counted
  <2>6. (\A t \in Service : Present(t) => Counted(t, conns[t]))'
        BY <1>0, <2>1, <2>4, <2>5 DEF EveryCopy, Present, TypeOK, Counted, Answered, Fresh
  <2>7. (\A t \in Service : mon.snap[t] # NoConn => Counted(t, mon.snap[t]))'
    <3>1. \A t \in Service : mon'.snap[t] # NoConn =>
              mon'.snap[t] = mon.snap[t] /\ Counted(t, mon.snap[t])
          BY <1>0, <2>2, <2>4 DEF EveryCopy
    <3> QED
        BY <2>1, <3>1 DEF Counted, Answered, Fresh
  <2>8. (mon.pc = "cleanup" => Counted(mon.sid, mon.conn))'
        BY <2>1, <2>4, <2>5 DEF Counted, Answered, Fresh
  <2>9. EveryCopy(Counted)'
        BY <1>0, <1>1, <2>1, <2>6, <2>7, <2>8, CopiesCounted
  <2> QED
      BY <1>1, <2>1, <2>9 DEF CountInv
<1>4. CASE MonCleanup \/ MonCleanupFails
  <2>1. UNCHANGED << breakdowns, toSDX, reports, oxp, post, conns, lc, del >>
        BY <1>4 DEF MonCleanup, MonCleanupFails
  <2>2. \A m \in toLC' : m \in toLC \/ m.op = "delete"
        BY <1>4 DEF MonCleanup, MonCleanupFails, Deletes, Orders
  <2>3. mon # Idle
        BY <1>4 DEF MonCleanup, MonCleanupFails, Idle
  <2>4. mon' = Idle \/ (mon'.snap = mon.snap /\ mon'.pc = "scan")
        BY <1>4 DEF MonCleanup, MonCleanupFails, MonContinue
  <2>5. mon' = Idle \/ (\A t \in Service : mon.snap[t] # NoConn => Counted(t, mon.snap[t]))'
        BY <1>0, <2>1, <2>3, <2>4 DEF EveryCopy, Counted, Answered, Fresh
  <2>6. EveryCopy(Counted)'
        BY <1>0, <1>1, <2>1, <2>2, <2>4, <2>5, CopiesCounted
  <2> QED
      BY <1>1, <2>1, <2>2, <2>6 DEF CountInv
<1> QED
    BY <1>2, <1>3, <1>4 DEF MonStep

(***************************************************************************)
(* The answer that counts.                                                 *)
(***************************************************************************)
LEMMA RecordedCounted ==
    ASSUME TypeOK, WireInv, CountInv, NEW m \in toSDX, Known(m)
    PROVE  LET b == conns[m.sid]
               k == Recorded(b, m)
           IN  /\ m.sid \in Service /\ m.seg \in Segment
               /\ b \in Conn /\ Counted(m.sid, b)
               /\ k \in Conn /\ k.count = b.count /\ k.status = b.status
               /\ EvcCreated(m.sid, k)
               /\ ~ (m.op = "post" /\ m.ok) => k.evc = b.evc
               /\ m.op = "post" /\ m.ok =>
                      /\ k.evc = b.evc \cup {m.seg}
                      /\ Cardinality(k.evc) = Cardinality(b.evc) + 1
                      /\ ~ Fresh(m.sid)
<1> DEFINE b == conns[m.sid]
           k == Recorded(b, m)
<1>1. m \in Answer /\ m.sid \in Service /\ m.seg \in Segment
      BY DEF TypeOK, Answer
<1>2. b \in Conn /\ Counted(m.sid, b) /\ EvcCreated(m.sid, b)
      BY <1>1 DEF Known, Present, TypeOK, CountInv, WireInv, EveryCopy
<1>3. /\ k \in Conn /\ k.count = b.count /\ k.status = b.status
      /\ k.evc = IF m.op = "delete" THEN b.evc
                 ELSE IF m.ok THEN b.evc \cup {m.seg} ELSE b.evc \ {m.seg}
      BY <1>1, <1>2, RecordedType DEF Recorded, Conn
<1>4. m.op \in { "post", "delete" } /\ m.ok \in BOOLEAN
      BY <1>1 DEF Answer
<1>5. ASSUME m.op = "post", m.ok
      PROVE  /\ m.seg \notin b.evc
             /\ Created(m.sid, m.seg)
             /\ ~ Fresh(m.sid)
  <2>1. m = [ op |-> "post", sid |-> m.sid, seg |-> m.seg, ok |-> TRUE ]
        BY <1>1, <1>5 DEF Answer
  <2>2. Answered(m.sid, m.seg, TRUE)
        BY <2>1 DEF Answered
  <2>3. m.seg \notin b.evc /\ Created(m.sid, m.seg)
        BY <1>1, <1>2, <2>2 DEF Counted, WireInv, AnswersAreTrue
  <2> QED
      BY <1>1, <2>3 DEF WireInv, FreshIsClean, Created
<1>6. ASSUME m.op = "post", ~ m.ok
      PROVE  m.seg \notin b.evc
  <2>1. m = [ op |-> "post", sid |-> m.sid, seg |-> m.seg, ok |-> FALSE ]
        BY <1>1, <1>6 DEF Answer
  <2>2. Answered(m.sid, m.seg, FALSE)
        BY <2>1 DEF Answered
  <2> QED
      BY <1>1, <1>2, <2>2 DEF EvcCreated, WireInv, AnswersAreTrue, Created
<1>7. ~ (m.op = "post" /\ m.ok) => k.evc = b.evc
      BY <1>3, <1>4, <1>6
<1>8. m.op = "post" /\ m.ok => k.evc = b.evc \cup {m.seg} /\ Cardinality(k.evc) = Cardinality(b.evc) + 1
  <2>1. IsFiniteSet(b.evc)
        BY <1>2, ProvisioningAssumption, FS_Subset DEF Conn
  <2> QED
      BY <1>3, <1>5, <2>1, FS_AddElement
<1>9. EvcCreated(m.sid, k)
      BY <1>2, <1>5, <1>7, <1>8 DEF EvcCreated
<1> QED
    BY <1>1, <1>2, <1>3, <1>5, <1>7, <1>8, <1>9

\* In a copy whose count has reached the size of the breakdown, the recorded
\* EVCs are those of the whole breakdown.
LEMMA FullCount ==
    ASSUME TypeOK, WireInv, CountInv, NEW s \in Service, NEW c \in Conn,
           EvcCreated(s, c), breakdowns[s] # {},
           c.count <= Cardinality(c.evc), c.count = Cardinality(breakdowns[s])
    PROVE  c.evc = breakdowns[s]
<1>1. c.evc \subseteq breakdowns[s]
      BY DEF EvcCreated, Created, CountInv, Planned, Conn
<1>2. IsFiniteSet(breakdowns[s])
      BY ProvisioningAssumption, FS_Subset DEF TypeOK
<1>3. IsFiniteSet(c.evc) /\ Cardinality(c.evc) <= Cardinality(breakdowns[s])
      BY <1>1, <1>2, FS_Subset
<1>4. Cardinality(c.evc) \in Nat /\ Cardinality(breakdowns[s]) \in Nat
      BY <1>2, <1>3, FS_CardinalityType
<1>5. Cardinality(c.evc) = Cardinality(breakdowns[s])
      BY <1>3, <1>4
<1> QED
    BY <1>1, <1>2, <1>5, FS_Subset

LEMMA LcReceiveCount ==
    ASSUME Unrepeated, TypeOK, WireInv, CountInv, NEW m \in toSDX, LcReceive(m)
    PROVE  CountInv'
<1>0. /\ Planned /\ NoReportUp /\ EveryCopy(Counted) /\ EveryCopy(EvcCreated)
      BY DEF CountInv, WireInv
<1>1. /\ toSDX' = toSDX \ {m}
      /\ UNCHANGED << conns, breakdowns, toLC, reports, oxp, post, del, mon >>
      /\ lc = Idle
      BY DEF LcReceive, Take, Unrepeated, TypeOK, store
<1>2. Planned' /\ NoReportUp'
      BY <1>0, <1>1 DEF Planned, NoReportUp, Creating, Fresh
<1>3. \A s \in Service, c \in Conn : Counted(s, c) /\ EvcCreated(s, c) => Counted(s, c)'
      BY <1>1, CountedKept DEF Fresh
<1>4. lc' = Idle \/ (Counted(lc.sid, lc.conn))'
  <2> DEFINE b == conns[m.sid]
             k == Recorded(b, m)
             After(c) ==
                 /\ c.count <= Cardinality(c.evc)
                 /\ \A g \in Segment : Answered(m.sid, g, TRUE)' => g \notin c.evc
                 /\ c.status = "UP" => breakdowns[m.sid] \subseteq c.evc /\ ~ Fresh(m.sid)
  <2>1. ASSUME NEW pc, NEW c, Handle(m, pc, c), After(c)
        PROVE  (Counted(lc.sid, lc.conn))'
    <3>1. lc'.sid = m.sid /\ lc'.conn = c
          BY <2>1 DEF Handle
    <3> QED
        BY <1>1, <2>1, <3>1 DEF Counted, Answered, Fresh
  <2>2. ASSUME Known(m)
        PROVE  /\ m.sid \in Service /\ m.seg \in Segment
               /\ b \in Conn /\ Counted(m.sid, b)
               /\ k \in Conn /\ k.count = b.count /\ k.status = b.status
               /\ EvcCreated(m.sid, k)
               /\ ~ (m.op = "post" /\ m.ok) => k.evc = b.evc
               /\ m.op = "post" /\ m.ok =>
                      /\ k.evc = b.evc \cup {m.seg}
                      /\ Cardinality(k.evc) = Cardinality(b.evc) + 1
                      /\ ~ Fresh(m.sid)
        BY <2>2, RecordedCounted
  <2>3. Cardinality(b.evc) \in Nat \/ ~ Known(m)
    <3>1. ASSUME Known(m) PROVE IsFiniteSet(b.evc)
          BY <2>2, <3>1, ProvisioningAssumption, FS_Subset DEF Conn
    <3> QED
        BY <3>1, FS_CardinalityType
  <2>4. ASSUME Known(m), m.op = "post", m.ok
        PROVE  /\ \A g \in Segment : Answered(m.sid, g, TRUE)' => g \notin k.evc
               /\ b.status = "UP" => breakdowns[m.sid] \subseteq k.evc
               /\ b.count + 1 <= Cardinality(k.evc)
    <3>1. ~ Answered(m.sid, m.seg, TRUE)'
      <4>1. m = [ op |-> "post", sid |-> m.sid, seg |-> m.seg, ok |-> TRUE ]
            BY <2>4 DEF TypeOK, Answer
      <4> QED
          BY <1>1, <4>1 DEF Answered
    <3>2. b.count \in Nat
          BY <2>2, <2>4 DEF Conn
    <3>3. b.count + 1 <= Cardinality(k.evc)
          BY <2>2, <2>3, <2>4, <3>2 DEF Counted
    <3>4. b.status = "UP" => breakdowns[m.sid] \subseteq k.evc
          BY <2>2, <2>4 DEF Counted
    <3>5. ASSUME NEW g \in Segment, Answered(m.sid, g, TRUE)'
          PROVE  g \notin k.evc
      <4>1. Answered(m.sid, g, TRUE) /\ g # m.seg
            BY <1>1, <3>1, <3>5 DEF Answered
      <4> QED
          BY <2>2, <2>4, <4>1 DEF Counted
    <3> QED
        BY <3>3, <3>4, <3>5
  <2>5. ASSUME Known(m), ~ (m.op = "post" /\ m.ok), NEW c \in Conn,
               c.evc = k.evc, c.count = b.count, c.status \in { b.status, "DOWN" }
        PROVE  After(c)
        BY <1>1, <2>2, <2>5 DEF Counted, Answered
  <2>6. CASE LcIgnore(m)
        BY <1>1, <2>6 DEF LcIgnore
  <2>7. CASE LcCreated(m)
    <3> DEFINE c == [ k EXCEPT !.count = @ + 1 ]
               u == [ c EXCEPT !.status = "UP" ]
    <3>0. Known(m) /\ m.op = "post" /\ m.ok
          BY <2>7 DEF LcCreated
    <3>1. /\ c \in Conn /\ c.evc = k.evc /\ c.count = b.count + 1 /\ c.status = b.status
          /\ u \in Conn /\ u.evc = k.evc /\ u.count = b.count + 1 /\ u.status = "UP"
      <4>1. k \in Conn /\ k.count = b.count /\ k.status = b.status
            BY <2>2, <3>0
      <4> HIDE DEF k
      <4>2. /\ c \in Conn /\ c.evc = k.evc /\ c.count = b.count + 1 /\ c.status = b.status
            BY <4>1, CountType
      <4> HIDE DEF c, b
      <4>3. /\ u \in Conn /\ u.evc = c.evc /\ u.count = c.count /\ u.status = "UP"
            BY <4>2 DEF Conn, Status
      <4> QED
          BY <4>2, <4>3
    <3>2. After(c)
          BY <2>2, <2>4, <3>0, <3>1
    <3>3. c.count = Cardinality(breakdowns[m.sid]) => After(u)
      <4>1. EvcCreated(m.sid, u)
            BY <2>2, <3>0, <3>1 DEF EvcCreated
      <4>2. breakdowns[m.sid] # {}
            BY <3>0 DEF Known
      <4>3. ASSUME c.count = Cardinality(breakdowns[m.sid])
            PROVE  u.evc = breakdowns[m.sid]
        <5>1. u \in Conn /\ u.count <= Cardinality(u.evc)
                  /\ u.count = Cardinality(breakdowns[m.sid])
              BY <2>4, <3>0, <3>1, <4>3
        <5>2. m.sid \in Service
              BY <2>2, <3>0
        <5> HIDE DEF c, u
        <5> QED
            BY <4>1, <4>2, <5>1, <5>2, FullCount
      <4> QED
          BY <2>2, <2>4, <3>0, <3>1, <4>3
    <3>4. \/ Handle(m, "save", c)
          \/ c.count = Cardinality(breakdowns[m.sid]) /\ Handle(m, "save", u)
          \/ lc' = Idle
          BY <1>1, <2>7 DEF LcCreated
    <3> HIDE DEF After, c, u
    <3> QED
        BY <2>1, <3>2, <3>3, <3>4
  <2>8. CASE LcCreatedLate(m)
    <3>1. After(k)
      <4>1. Known(m) /\ m.op = "post" /\ m.ok
            BY <2>8 DEF LcCreatedLate
      <4>2. b.count \in Nat
            BY <2>2, <4>1 DEF Conn
      <4>3. k.count <= Cardinality(k.evc)
            BY <2>2, <2>3, <2>4, <4>1, <4>2
      <4> QED
          BY <2>2, <2>4, <4>1, <4>3
    <3> HIDE DEF After, k
    <3> QED
        BY <2>1, <2>2, <2>8, <3>1 DEF LcCreatedLate, k
  <2>9. CASE LcDeleted(m)
    <3>1. Known(m) /\ ~ (m.op = "post" /\ m.ok) /\ Handle(m, "save", k)
          BY <2>9 DEF LcDeleted
    <3>2. After(k)
          BY <2>2, <2>5, <3>1
    <3> HIDE DEF After, k
    <3> QED
        BY <2>1, <3>1, <3>2
  <2>10. CASE LcFailed(m)
    <3> DEFINE d == [ k EXCEPT !.status = IF @ \in { "MODIFYING", "UNDER_PROVISIONING" }
                                          THEN "DOWN" ELSE @ ]
               e == [ d EXCEPT !.partial = TRUE ]
    <3>1. Known(m) /\ ~ (m.op = "post" /\ m.ok)
          BY <2>10 DEF LcFailed
    <3>2. /\ d \in Conn /\ d.evc = k.evc /\ d.count = b.count /\ d.status \in { b.status, "DOWN" }
          /\ e \in Conn /\ e.evc = k.evc /\ e.count = b.count /\ e.status \in { b.status, "DOWN" }
      <4>1. k \in Conn /\ k.count = b.count /\ k.status = b.status
            BY <2>2, <3>1
      <4> HIDE DEF k, b
      <4> QED
          BY <4>1 DEF Conn, Status
    <3>3. After(d) /\ After(e)
      <4> HIDE DEF After, d, e
      <4> QED
          BY <2>5, <3>1, <3>2
    <3>4. Handle(m, "save", d) \/ Handle(m, "cleanup", e)
          BY <2>10 DEF LcFailed
    <3> HIDE DEF After, d, e
    <3> QED
        BY <2>1, <3>3, <3>4
  <2> QED
      BY <2>6, <2>7, <2>8, <2>9, <2>10 DEF LcReceive
<1>5. EveryCopy(Counted)'
      BY <1>0, <1>1, <1>3, <1>4, CopiesCounted
<1> QED
    BY <1>2, <1>5 DEF CountInv

LEMMA LcCount ==
    ASSUME Unrepeated, TypeOK, WireInv, CountInv, LcStep
    PROVE  CountInv'
<1> USE DEF store, wire
<1>0. /\ Planned /\ NoReportUp /\ EveryCopy(Counted) /\ EveryCopy(EvcCreated)
      BY DEF CountInv, WireInv
<1>1. ASSUME UNCHANGED << breakdowns, toSDX, oxp, post >>, reports' \subseteq reports,
             \A m \in toLC' : m \in toLC \/ m.op = "delete"
      PROVE  /\ Planned' /\ NoReportUp'
             /\ \A s \in Service, c \in Conn :
                    Counted(s, c) /\ EvcCreated(s, c) => Counted(s, c)'
  <2>1. Planned' /\ NoReportUp'
        BY <1>0, <1>1 DEF Planned, NoReportUp, Creating, Fresh
  <2> QED
      BY <1>1, <2>1, CountedKept DEF Fresh
<1>2. ASSUME NEW m \in reports, LcReport(m) PROVE CountInv'
  <2>1. m.sid \in Service /\ m.status \in Status \ { "UP" }
        BY <1>0 DEF TypeOK, Report, NoReportUp
  <2>2. UNCHANGED << conns, breakdowns, toLC, toSDX, oxp, post, del, mon >>
            /\ reports' \subseteq reports
        BY <1>2 DEF LcReport
  <2>3. lc' = lc \/ (Counted(lc.sid, lc.conn))'
    <3>1. SUFFICES ASSUME Present(m.sid),
                          lc' = [ pc |-> "replace", sid |-> m.sid,
                                  conn |-> [ conns[m.sid] EXCEPT !.status = m.status ] ]
                   PROVE  (Counted(lc.sid, lc.conn))'
          BY <1>2 DEF LcReport
    <3>2. conns[m.sid] \in Conn /\ Counted(m.sid, conns[m.sid])
              /\ EvcCreated(m.sid, conns[m.sid])
          BY <1>0, <2>1, <3>1 DEF Present, TypeOK, EveryCopy
    <3> DEFINE b == conns[m.sid]
               d == [ b EXCEPT !.status = m.status ]
    <3>3. d \in Conn /\ d.evc = b.evc /\ d.count = b.count /\ d.status = m.status
          BY <2>1, <3>2 DEF Conn
    <3>4. lc'.sid = m.sid /\ lc'.conn = d
          BY <3>1
    <3> HIDE DEF d
    <3>5. Counted(m.sid, d)
          BY <2>1, <3>2, <3>3 DEF Counted
    <3> QED
        BY <2>2, <3>4, <3>5 DEF Counted, Answered, Fresh
  <2>4. EveryCopy(Counted)'
        BY <1>0, <1>1, <2>2, <2>3, CopiesCounted
  <2> QED
      BY <1>1, <2>2, <2>4 DEF CountInv
<1>3. CASE LcCleanup \/ LcCleanupFails \/ LcLate \/ LcLateFails
  <2>1. /\ UNCHANGED << conns, breakdowns, toSDX, reports, oxp, post, del, mon >>
        /\ \A m \in toLC' : m \in toLC \/ m.op = "delete"
        BY <1>3 DEF LcCleanup, LcCleanupFails, LcLate, LcLateFails, Deletes, Orders
  <2>2. /\ lc \in [ pc : { "cleanup", "late", "save" }, sid : Service,
                     seg : Segment, conn : Conn ]
        /\ Counted(lc.sid, lc.conn)
        BY <1>0, <1>3, LcShape DEF LcCleanup, LcCleanupFails, LcLate, LcLateFails, TypeOK,
           EveryCopy, Idle
  <2>3. lc' = Idle \/ /\ lc'.sid = lc.sid /\ lc'.conn.evc = lc.conn.evc
                      /\ lc'.conn.count = lc.conn.count
                      /\ lc'.conn.status = lc.conn.status
    <3>1. CASE LcCleanup
          BY <3>1, <2>2 DEF LcCleanup
    <3>2. CASE LcCleanupFails \/ LcLateFails
          BY <3>2 DEF LcCleanupFails, LcLateFails
    <3>3. CASE LcLate
      <4>1. lc' = [ lc EXCEPT !.pc = "save", !.conn.late = @ \cup { DomOf[lc.seg] } ]
            BY <3>3 DEF LcLate
      <4> QED
          BY <2>2, <4>1 DEF Conn
    <3> QED
        BY <1>3, <3>1, <3>2, <3>3
  <2>4. lc' = Idle \/ (Counted(lc.sid, lc.conn))'
        BY <2>1, <2>2, <2>3 DEF Counted, Answered, Fresh
  <2>5. EveryCopy(Counted)'
        BY <1>0, <1>1, <2>1, <2>4, CopiesCounted
  <2> QED
      BY <1>1, <2>1, <2>5 DEF CountInv
<1>4. CASE LcSave \/ LcReplace
  <2>1. /\ UNCHANGED << breakdowns, toLC, toSDX, reports, oxp, post, del, mon >>
        /\ lc' = Idle
        BY <1>4 DEF LcSave, LcReplace
  <2>2. lc.sid \in Service /\ lc.conn \in Conn /\ Counted(lc.sid, lc.conn)
        BY <1>0, <1>4, LcShape DEF LcSave, LcReplace, TypeOK, EveryCopy, Idle
  <2>3. Counted(lc.sid, [ lc.conn EXCEPT !.handled = conns[lc.sid].handled ])
        BY <2>2 DEF Counted, Conn
  <2>4. \A s \in Service : conns'[s] # NoConn => Counted(s, conns'[s])
    <3>1. \A s \in Service : conns[s] # NoConn => Counted(s, conns[s])
          BY <1>0 DEF EveryCopy, Present
    <3> QED
        BY <1>4, <2>2, <2>3, <3>1 DEF LcSave, LcReplace, DbUpdate, DbAdd, TypeOK
  <2>5. (\A s \in Service : Present(s) => Counted(s, conns[s]))'
        BY <2>1, <2>4 DEF Present, Counted, Answered, Fresh
  <2>6. EveryCopy(Counted)'
        BY <1>0, <1>1, <2>1, <2>5, CopiesCounted
  <2> QED
      BY <1>1, <2>1, <2>6 DEF CountInv
<1> QED
    BY <1>2, <1>3, <1>4, LcReceiveCount DEF LcStep

LEMMA OxpCount ==
    ASSUME Unrepeated, TypeOK, WireInv, CountInv, OxpStep
    PROVE  CountInv'
<1> USE DEF store, wire
<1>0. /\ Planned /\ NoReportUp /\ EveryCopy(Counted) /\ EveryCopy(EvcCreated)
      BY DEF CountInv, WireInv
<1>1. ASSUME NEW m \in toLC, OxpServe(m) PROVE CountInv'
  <2>1. /\ m.sid \in Service /\ m.seg \in Segment /\ m.op \in { "post", "delete" }
        /\ m.op = "post" => m = [ op |-> "post", sid |-> m.sid, seg |-> m.seg ]
        BY DEF TypeOK, Order
  <2>2. /\ m.op = "post" => Creating(m.sid, m.seg) /\ oxp[m.sid][m.seg] = "none"
        /\ m.op = "delete" => Created(m.sid, m.seg)
        BY <2>1 DEF WireInv, CreatedOnce, Creating, DeleteTargetsCreated
  <2>3. PICK st \in { "none", "up", "refused", "gone" }, ok \in BOOLEAN : Serve(m, st, ok)
        BY <1>1, <2>1, <2>2 DEF OxpServe, OxpCreate, OxpRefuse, OxpDelete, OxpDeleteFails, Created
  <2>4. UNCHANGED << conns, breakdowns, reports, post, lc, del, mon >>
        BY <2>3 DEF Serve
  <2>5. Planned'
    <3>1. \A s \in Service, g \in Segment :
              Creating(s, g)' \/ oxp'[s][g] # "none" =>
                  Creating(s, g) \/ oxp[s][g] # "none"
      <4>1. \A s \in Service, g \in Segment :
                oxp'[s][g] = IF s = m.sid /\ g = m.seg THEN st ELSE oxp[s][g]
            BY <2>1, <2>3 DEF Serve, TypeOK
      <4>2. Creating(m.sid, m.seg) \/ oxp[m.sid][m.seg] # "none"
            BY <2>1, <2>2 DEF Created
      <4>3. toLC' \subseteq toLC
            BY <2>3 DEF Serve
      <4> QED
          BY <4>1, <4>2, <4>3 DEF Creating
    <3> QED
        BY <1>0, <2>4, <3>1 DEF Planned, Fresh
  <2>6. NoReportUp'
        BY <1>0, <2>4 DEF NoReportUp
  <2>7. \A s \in Service, c \in Conn : Counted(s, c) /\ EvcCreated(s, c) => Counted(s, c)'
    <3>1. SUFFICES ASSUME NEW s \in Service, NEW c \in Conn,
                          Counted(s, c), EvcCreated(s, c),
                          NEW g \in Segment, Answered(s, g, TRUE)'
                   PROVE  g \notin c.evc
          BY <2>4 DEF Counted, Fresh
    <3>2. CASE Answered(s, g, TRUE)
          BY <3>1, <3>2 DEF Counted
    <3>3. CASE m.op = "post" /\ s = m.sid /\ g = m.seg
          BY <2>2, <3>1, <3>3 DEF EvcCreated, Created
    <3> QED
        BY <2>3, <3>1, <3>2, <3>3 DEF Serve, Answered
  <2>8. EveryCopy(Counted)'
        BY <1>0, <2>4, <2>7, CopiesCounted
  <2> QED
      BY <2>5, <2>6, <2>8 DEF CountInv
<1>2. ASSUME NEW s \in Service, NEW st \in ReportedStatus, OxpReport(s, st) PROVE CountInv'
  <2>1. UNCHANGED << conns, breakdowns, toLC, toSDX, oxp, post, lc, del, mon >>
        BY <1>2 DEF OxpReport
  <2>2. NoReportUp'
        BY <1>0, <1>2 DEF OxpReport, NoReportUp, Unrepeated
  <2>3. Planned'
        BY <1>0, <2>1 DEF Planned, Creating, Fresh
  <2>4. \A t \in Service, c \in Conn : Counted(t, c) /\ EvcCreated(t, c) => Counted(t, c)'
        BY <2>1, CountedKept DEF Fresh
  <2>5. EveryCopy(Counted)'
        BY <1>0, <2>1, <2>4, CopiesCounted
  <2> QED
      BY <2>2, <2>3, <2>5 DEF CountInv
<1> QED
    BY <1>1, <1>2 DEF OxpStep

LEMMA NextCount ==
    ASSUME Unrepeated, TypeOK, WireInv, CountInv, [Next]_vars
    PROVE  CountInv'
<1>1. CASE UNCHANGED vars
  <2>1. UNCHANGED << conns, breakdowns, toLC, toSDX, reports, oxp, post, lc, del, mon >>
        BY <1>1 DEF vars
  <2>2. Planned' /\ NoReportUp'
        BY <2>1 DEF CountInv, Planned, NoReportUp, Creating, Fresh
  <2>3. \A s \in Service, c \in Conn : Counted(s, c) /\ EvcCreated(s, c) => Counted(s, c)'
        BY <2>1, CountedKept DEF Fresh
  <2>4. EveryCopy(Counted)'
        BY <2>1, <2>3, CopiesCounted DEF CountInv
  <2> QED
      BY <2>2, <2>4 DEF CountInv
<1> QED
    BY <1>1, PostCount, DelCount, LcCount, MonCount, OxpCount DEF Next

\* Without redeliveries and unasked "UP" reports, CountInv holds whatever
\* times out, fails or is deleted, and in whatever order the threads run.
THEOREM CountCorrect ==
    ASSUME Unrepeated
    PROVE  Spec => []CountInv
<1>1. TypeOK /\ WireInv /\ CountInv /\ [Next]_vars => TypeOK' /\ WireInv' /\ CountInv'
      BY NextType, NextWire, NextCount
<1>2. Init => TypeOK /\ WireInv /\ CountInv
      BY InitType, InitWire, InitCount
<1> QED
    BY <1>1, <1>2, PTL DEF Spec

\* The same environment shows a connection up only if every OXP of its
\* breakdown has created its EVC.
THEOREM UpIsBacked ==
    ASSUME Unrepeated
    PROVE  Spec => []UpNeedsEverySegment
<1>1. WireInv /\ CountInv => UpNeedsEverySegment
      BY DEF WireInv, CountInv, EveryCopy, Counted, EvcCreated, UpNeedsEverySegment, Shows
<1> QED
    BY <1>1, WireCorrect, CountCorrect, PTL
(***************************************************************************)
(* OperationalInv: what holds a connection up until a DELETE takes it down.*)
(***************************************************************************)
LEMMA InitOperational == Init => OperationalInv
<1> SUFFICES ASSUME Init PROVE OperationalInv
    OBVIOUS
<1>1. PartialIsRefused /\ PartialIsReleased
      BY DEF Init, PartialIsRefused, PartialIsReleased, Present
<1>2. \A s \in Service : Kept(s) /\ UnsentIsDown(s)
      BY DEF Init, Kept, UnsentIsDown, Present
<1>3. \A r \in Request : DeleteFollows(r)
      BY DEF Init, DeleteFollows
<1> QED
    BY <1>1, <1>2, <1>3 DEF OperationalInv

\* An EVC that was refused stays refused: it is not created again.
LEMMA RefusedStays ==
    ASSUME TypeOK, WireInv, NEW m \in toLC, OxpServe(m), NEW s \in Service, Refused(s)
    PROVE  Refused(s)'
<1>1. PICK g \in Segment : oxp[s][g] = "refused"
      BY DEF Refused
<1>2. m \in Order /\ m.sid \in Service /\ m.seg \in Segment /\ m.op \in { "post", "delete" }
      BY DEF TypeOK, Order
<1>3. m.op = "delete" => Created(m.sid, m.seg)
      BY DEF WireInv, DeleteTargetsCreated
<1>4. m.op = "post" => oxp[m.sid][m.seg] = "none"
  <2>1. m.op = "post" => m = [ op |-> "post", sid |-> m.sid, seg |-> m.seg ]
        BY <1>2 DEF Order
  <2> QED
      BY <1>2, <2>1 DEF WireInv, CreatedOnce, Creating
<1>5. ~ (m.sid = s /\ m.seg = g)
      BY <1>1, <1>2, <1>3, <1>4 DEF Created
<1>6. PICK st : oxp' = [ oxp EXCEPT ![m.sid][m.seg] = st ]
      BY DEF OxpServe, OxpCreate, OxpRefuse, OxpDelete, OxpDeleteFails, Serve
<1>7. oxp'[s][g] = oxp[s][g]
      BY <1>2, <1>5, <1>6 DEF TypeOK
<1> QED
    BY <1>1, <1>7 DEF Refused

\* What keeps Kept, a conjunct at a time.
LEMMA KeptStays ==
    ASSUME NEW s \in Service, Kept(s),
           Present(s)' => Present(s), PlannedOnce(s)' => PlannedOnce(s),
           Refused(s) => Refused(s)',
           Removing(s, Published) => Removing(s, Published)',
           Removing(s, Published \cup {"send"}) => Removing(s, Published \cup {"send"})',
           breakdowns'[s] = breakdowns[s],
           \/ reserved'[s] = reserved[s]
           \/ Refused(s)
           \/ Removing(s, Published \cup {"send"})',
           \/ Refused(s)
           \/ Removing(s, Published)'
           \/ /\ \A g \in Segment : Deleting(s, g)' => Deleting(s, g)
              /\ \A g \in Segment : oxp'[s][g] = "gone" => oxp[s][g] = "gone" \/ Deleting(s, g)
    PROVE  Kept(s)'
BY DEF Kept

LEMMA PostOperational ==
    ASSUME TypeOK, WireInv, DocumentInv, OperationalInv, NEW s \in Service,
           PostSave(s) \/ PostStep(s)
    PROVE  OperationalInv'
<1> USE DEF store, wire, PostGoto
<1>0. /\ post \in [ Service -> PostState ] /\ conns \in [ Service -> Conn \cup {NoConn} ]
      /\ breakdowns \in [ Service -> SUBSET Segment ] /\ reserved \in [ Service -> BOOLEAN ]
      BY DEF TypeOK
<1>a. /\ \A t \in Service : PostFollows(t) /\ UnsentIsClean(t) /\ OneDocument(t)
      /\ \A t \in Service : Kept(t) /\ UnsentIsDown(t)
      /\ \A r \in Request : DeleteFollows(r)
      /\ PartialIsRefused /\ PartialIsReleased
      BY DEF DocumentInv, OperationalInv
<1>b. /\ \A t \in Service : t # s => post'[t] = post[t]
      /\ \A t \in Service : t # s => conns'[t] = conns[t]
      /\ post'[s].pc # "idle"
      /\ UNCHANGED << oxp, lc, del >>
  <2>1. UNCHANGED del
        BY DEF PostSave, PostStep, PlaceFail, PlaceMark, PlaceReturn, PlaceBroken,
           PostReject, PlaceBreakdown, PlaceSend
  <2> QED
      BY <2>1, PostMoves
<1>c. \A t \in Service, g \in Segment : Deleting(t, g)' <=> Deleting(t, g)
  <2>1. ASSUME NEW h \in Segment, PlaceSend(s, h)
        PROVE  \A t \in Service, g \in Segment : Deleting(t, g)' <=> Deleting(t, g)
        BY <2>1 DEF PlaceSend, Orders, Deleting
  <2>2. CASE ~ \E h \in Segment : PlaceSend(s, h)
    <3>1. UNCHANGED toLC
          BY <2>2 DEF PostSave, PostStep, PlaceFail, PlaceMark, PlaceReturn, PlaceBroken,
             PostReject, PlaceBreakdown
    <3> QED
        BY <3>1 DEF Deleting
  <2> QED
      BY <2>1, <2>2
<1>d. \A t \in Service : (Refused(t)' <=> Refused(t)) /\ \A P : Removing(t, P)' <=> Removing(t, P)
      BY <1>b DEF Refused, Removing
\* The document that is written.
<1>1. /\ Present(s)' => Present(s) \/ PostSave(s)
      /\ Present(s)' => \/ conns'[s].partial = FALSE
                        \/ Present(s) /\ conns'[s].partial = conns[s].partial
      /\ UnsentIsDown(s)'
  <2> USE <1>0 DEF UnsentIsDown
  <2>1. CASE PostSave(s)
    <3>1. conns'[s] = NewConn
          BY <2>1 DEF PostSave, DbAdd
    <3> QED
        BY <2>1, <3>1 DEF NewConn
  <2>2. ASSUME NEW st \in Status, DbSetStatus(s, st)
        PROVE  /\ Present(s)' => Present(s)
               /\ Present(s)' => conns'[s].partial = conns[s].partial /\ conns'[s].status = st
    <3>1. CASE Present(s)
      <4>1. conns[s] \in Conn
            BY <3>1 DEF Present
      <4>2. conns' = [ conns EXCEPT ![s] = [ conns[s] EXCEPT !.status = st ] ]
            BY <1>a, <2>2, <3>1 DEF DbSetStatus, DbUpdate, OneDocument
      <4>3. conns'[s] = [ conns[s] EXCEPT !.status = st ]
            BY <4>2
      <4> QED
          BY <3>1, <4>1, <4>3 DEF Conn
    <3>2. CASE ~ Present(s)
          BY <2>2, <3>2 DEF DbSetStatus, DbUpdate, Present
    <3> QED
        BY <3>1, <3>2
  <2>3. CASE PlaceMark(s)
    <3>1. DbSetStatus(s, "UNDER_PROVISIONING") /\ post'[s].status = "UNDER_PROVISIONING"
          BY <2>3 DEF PlaceMark, PostState
    <3> QED
        BY <2>2, <3>1 DEF Status, Unsent
  <2>4. CASE PostReject(s)
    <3>1. CASE DbSetStatus(s, "REJECTED")
          BY <2>2, <3>1 DEF Status
    <3>2. CASE UNCHANGED conns
      <4>1. Unsent(s)' => Unsent(s)
            BY PostMoves DEF Unsent
      <4> QED
          BY <1>a, <3>2, <4>1 DEF Present
    <3> QED
        BY <2>4, <3>1, <3>2 DEF PostReject
  <2>5. CASE ~ (PostSave(s) \/ PlaceMark(s) \/ PostReject(s))
    <3>1. UNCHANGED conns
          BY <2>5 DEF PostStep, PlaceFail, PlaceReturn, PlaceBroken, PlaceBreakdown, PlaceSend
    <3>2. Unsent(s)' => Unsent(s)
          BY PostMoves DEF Unsent
    <3> QED
        BY <1>a, <3>1, <3>2 DEF Present
  <2> QED
      BY <2>1, <2>3, <2>4, <2>5
\* The resources that are reserved.
<1>2. ASSUME NEW B \in SUBSET Segment, PlaceBreakdown(s, B)
      PROVE  /\ Kept(s)'
             /\ Unsent(s)
             /\ \A t \in Service : t # s => reserved'[t] = reserved[t] /\ breakdowns'[t] = breakdowns[t]
  <2>1. Unsent(s) /\ breakdowns'[s] = B /\ B # {} /\ reserved'[s] = TRUE /\ UNCHANGED toLC
        BY <1>0, <1>2, <1>a DEF PlaceBreakdown, PostFollows
  <2>2. \A g \in Segment : oxp[s][g] = "none" /\ ~ Deleting(s, g)
        BY <1>a, <2>1 DEF UnsentIsClean, Deleting
  <2>3. \A g \in Segment : oxp'[s][g] # "gone" /\ ~ Deleting(s, g)'
        BY <1>b, <2>1, <2>2 DEF Deleting
  <2>4. Kept(s)'
        BY <2>1, <2>3 DEF Kept
  <2>5. \A t \in Service : t # s => reserved'[t] = reserved[t] /\ breakdowns'[t] = breakdowns[t]
        BY <1>0, <1>2 DEF PlaceBreakdown
  <2> QED
      BY <2>1, <2>4, <2>5
<1>3. ASSUME ~ \E B \in SUBSET Segment : PlaceBreakdown(s, B)
      PROVE  Kept(s)' /\ UNCHANGED << breakdowns, reserved >>
  <2>1. UNCHANGED << breakdowns, reserved >>
        BY <1>3 DEF PostSave, PostStep, PlaceFail, PlaceMark, PlaceReturn, PlaceBroken,
           PostReject, PlaceSend
  <2>2. PlannedOnce(s)' => PlannedOnce(s) /\ ~ PostSave(s)
    <3>1. CASE PostSave(s)
          BY <1>0, <1>a, <3>1 DEF PostSave, PostFollows, PlannedOnce, Unsent, PostState
    <3>2. CASE PlaceFail(s) \/ PlaceReturn(s) \/ PlaceBroken(s) \/ PostReject(s)
          BY <1>0, <3>2 DEF PlaceFail, PlaceReturn, PlaceBroken, PostReject, PlannedOnce,
             Unsent, PostState, PostSave
    <3>3. CASE PlaceMark(s)
          BY <3>3 DEF PlaceMark, PlannedOnce, PostSave
    <3>4. ASSUME NEW g \in Segment, PlaceSend(s, g)
          PROVE  PlannedOnce(s)' => PlannedOnce(s) /\ ~ PostSave(s)
          BY <1>a, <3>4 DEF PlaceSend, PostFollows, PlannedOnce, Unsent, PostSave
    <3> QED
        BY <1>3, <3>1, <3>2, <3>3, <3>4 DEF PostStep
  <2>3. CASE PostSave(s)
    <3>1. Kept(s)'
          BY <2>2, <2>3 DEF Kept
    <3> QED
        BY <2>1, <3>1
  <2>4. CASE ~ PostSave(s)
    <3>1. Present(s)' => Present(s)
          BY <1>1, <2>4
    <3>2. Kept(s)'
          BY <1>a, <1>b, <1>c, <1>d, <2>1, <2>2, <3>1, KeptStays
    <3> QED
        BY <2>1, <3>2
  <2> QED
      BY <2>3, <2>4
<1>4. /\ Kept(s)'
      /\ \A t \in Service : t # s => reserved'[t] = reserved[t] /\ breakdowns'[t] = breakdowns[t]
      /\ reserved'[s] = reserved[s] \/ Unsent(s)
      BY <1>2, <1>3
<1>5. ASSUME NEW t \in Service, t # s
      PROVE  Kept(t)'
  <2>1. /\ Present(t)' <=> Present(t)
        /\ PlannedOnce(t)' <=> PlannedOnce(t)
        /\ reserved'[t] = reserved[t] /\ breakdowns'[t] = breakdowns[t] /\ oxp'[t] = oxp[t]
        BY <1>b, <1>4, <1>5 DEF Present, PlannedOnce, Unsent
  <2> QED
      BY <1>a, <1>c, <1>d, <2>1, KeptStays
<1>6. \A t \in Service : t # s => UnsentIsDown(t)'
      BY <1>a, <1>b DEF UnsentIsDown, Present, Unsent
<1>7. PartialIsRefused'
  <2>1. \A t \in Service : Present(t)' /\ conns'[t].partial => Refused(t)'
        BY <1>a, <1>b, <1>d, <1>1 DEF PartialIsRefused, Present
  <2>2. lc # Idle => lc.sid \in Service
        BY LcShape DEF TypeOK
  <2>3. lc # Idle /\ (lc.conn.partial \/ lc.pc \in { "cleanup", "late" }) => Refused(lc.sid)'
        BY <1>a, <1>b, <2>2 DEF PartialIsRefused, Refused
  <2> QED
      BY <1>b, <2>1, <2>3 DEF PartialIsRefused
<1>8. PartialIsReleased'
  <2>1. lc # Idle => lc.sid \in Service
        BY LcShape DEF TypeOK
  <2>2. Unsent(s) => ~ Refused(s) /\ (lc # Idle => lc.sid # s)
        BY <1>a DEF UnsentIsClean, Refused
  <2>3. \A t \in Service : Present(t)' /\ conns'[t].partial => ~ reserved'[t]
        BY <1>a, <1>b, <1>1, <1>4, <2>2 DEF PartialIsReleased, PartialIsRefused, Present
  <2>4. lc # Idle => reserved'[lc.sid] = reserved[lc.sid]
        BY <1>4, <2>1, <2>2
  <2> QED
      BY <1>a, <1>b, <2>3, <2>4 DEF PartialIsReleased
<1>9. \A r \in Request : DeleteFollows(r)'
  <2>1. \A r \in Request : del[r] \notin { Idle, Finished } => del[r].sid \in Service
        BY DelShape DEF TypeOK
  <2>2. PostSave(s) => post[s].pc = "idle"
        BY DEF PostSave
  <2> QED
      BY <1>a, <1>b, <1>1, <2>1, <2>2 DEF DeleteFollows, Present
<1> QED
    BY <1>1, <1>4, <1>5, <1>6, <1>7, <1>8, <1>9 DEF OperationalInv
LEMMA DelOperational ==
    ASSUME TypeOK, DocumentInv, OperationalInv, NEW r \in Request,
           (\E s \in Service : DelRead(r, s)) \/ DelStep(r)
    PROVE  OperationalInv'
<1> USE DEF store, wire, DelGoto
<1>0. /\ conns \in [ Service -> Conn \cup {NoConn} ] /\ del \in [ Request -> DelState ]
      /\ breakdowns \in [ Service -> SUBSET Segment ] /\ reserved \in [ Service -> BOOLEAN ]
      /\ \A s \in Service : OneDocument(s)
      BY DEF TypeOK, DocumentInv
<1>a. /\ \A t \in Service : Kept(t) /\ UnsentIsDown(t)
      /\ \A q \in Request : DeleteFollows(q)
      /\ PartialIsRefused /\ PartialIsReleased
      BY DEF OperationalInv
<1>b. /\ UNCHANGED << post, oxp, lc >>
      /\ \A q \in Request : q # r => del'[q] = del[q]
      BY <1>0 DEF DelRead, DelStep, DelSettle, DelRelease, DelSend, DelSendFails, DelDrop,
         DelArchive, DelUnlink, DelMark, DelMarkBreakdown
<1>c. \A t \in Service : Refused(t)' <=> Refused(t)
      BY <1>b DEF Refused
<1>d. \A t \in Service : PlannedOnce(t)' <=> PlannedOnce(t)
      BY <1>b DEF PlannedOnce, Unsent
\* It is enough to look at the service of r.
<1>1. ASSUME NEW s \in Service,
             del[r] \in { Idle, Finished } \/ del[r].sid = s,
             del'[r] \in { Idle, Finished } \/ del'[r].sid = s,
             \A t \in Service : conns'[t] \in { conns[t], NoConn },
             \A t \in Service : reserved'[t] \in { reserved[t], FALSE },
             \A t \in Service : t # s =>
                 reserved'[t] = reserved[t] /\ breakdowns'[t] = breakdowns[t],
             \A t \in Service, g \in Segment : Deleting(t, g)' => Deleting(t, g) \/ t = s,
             Kept(s)', DeleteFollows(r)'
      PROVE  OperationalInv'
  <2>1. ASSUME NEW t \in Service, t # s
        PROVE  Kept(t)'
    <3>1. \A P : Removing(t, P) => Removing(t, P)'
          BY <1>1, <1>b, <2>1 DEF Removing
    <3>2. Present(t)' => Present(t)
          BY <1>1 DEF Present
    <3> QED
        BY <1>1, <1>a, <1>b, <1>c, <1>d, <2>1, <3>1, <3>2, KeptStays
  <2>2. \A t \in Service : UnsentIsDown(t)'
        BY <1>1, <1>a, <1>b DEF UnsentIsDown, Present, Unsent
  <2>3. PartialIsRefused'
    <3>1. \A t \in Service : Present(t)' /\ conns'[t].partial => Refused(t)'
          BY <1>1, <1>a, <1>c DEF PartialIsRefused, Present
    <3>2. lc # Idle => lc.sid \in Service
          BY LcShape DEF TypeOK
    <3> QED
        BY <1>a, <1>b, <3>1, <3>2 DEF PartialIsRefused, Refused
  <2>4. PartialIsReleased'
    <3>1. \A t \in Service : Present(t)' /\ conns'[t].partial => ~ reserved'[t]
          BY <1>1, <1>a DEF PartialIsReleased, Present
    <3>2. lc # Idle => lc.sid \in Service
          BY LcShape DEF TypeOK
    <3> QED
        BY <1>1, <1>a, <1>b, <3>1, <3>2 DEF PartialIsReleased
  <2>5. ASSUME NEW q \in Request, q # r
        PROVE  DeleteFollows(q)'
    <3>1. del[q] \notin { Idle, Finished } => del[q].sid \in Service
          BY DelShape DEF TypeOK
    <3> QED
        BY <1>1, <1>a, <1>b, <2>5, <3>1 DEF DeleteFollows, Present
  <2> QED
      BY <1>1, <2>1, <2>2, <2>3, <2>4, <2>5 DEF OperationalInv
<1>2. ASSUME NEW s \in Service, DelRead(r, s) PROVE OperationalInv'
  <2>1. PICK pc \in { "mark", "settle", "release" } :
            del' = [ del EXCEPT ![r] = [ pc |-> pc, sid |-> s, conn |-> conns[s],
                                         brk |-> breakdowns[s] ] ]
        BY <1>2 DEF DelRead
  <2>2. del'[r].sid = s /\ del'[r].pc = pc /\ del[r] = Idle /\ Present(s)
        BY <1>0, <1>2, <2>1 DEF DelRead
  <2>3. UNCHANGED << conns, breakdowns, reserved, toLC >>
        BY <1>2 DEF DelRead
  <2>4. \A P : Removing(s, P) => Removing(s, P)'
        BY <1>b, <2>2 DEF Removing
  <2>5. Kept(s)'
        BY <1>a, <1>b, <1>c, <1>d, <2>3, <2>4, KeptStays DEF Present, Deleting
  <2>6. DeleteFollows(r)'
        BY <1>0, <1>b, <2>2, <2>3 DEF DeleteFollows, OneDocument
  <2> QED
      BY <1>1, <2>2, <2>3, <2>5, <2>6 DEF Deleting
<1>3. ASSUME DelStep(r) PROVE OperationalInv'
  <2>1. /\ del[r] \in [ pc : { "settle", "release", "send", "drop", "archive",
                               "unlink", "mark", "markBreakdown" },
                        sid : Service, conn : Conn, brk : SUBSET Segment ]
        /\ del[r] \notin { Idle, Finished }
        BY <1>0, <1>3, DelShape DEF DelStep, DelSettle, DelRelease, DelSend, DelSendFails,
           DelDrop, DelArchive, DelUnlink, DelMark, DelMarkBreakdown
  <2>2. PICK s \in Service : s = del[r].sid
        BY <2>1
  <2>3. ASSUME NEW pc, del' = [ del EXCEPT ![r] = [ @ EXCEPT !.pc = pc ] ]
        PROVE  del'[r].sid = s /\ del'[r].pc = pc
        BY <1>0, <2>1, <2>2, <2>3
  <2>4. post[s].pc # "idle"
        BY <1>a, <2>1, <2>2 DEF DeleteFollows
  <2>5. ASSUME del'[r].sid = s, del'[r].pc \notin { "idle", "done", "markBreakdown" }
        PROVE  DeleteFollows(r)' /\ del'[r] \notin { Idle, Finished }
        BY <1>b, <2>4, <2>5 DEF DeleteFollows, Idle, Finished
  \* A step that is published leaves nothing to keep.
  <2>6. ASSUME del'[r].sid = s, del'[r].pc \in Published, del'[r] \notin { Idle, Finished }
        PROVE  Kept(s)'
    <3>1. Removing(s, Published)' /\ Removing(s, Published \cup {"send"})'
          BY <2>6 DEF Removing
    <3> QED
        BY <3>1 DEF Kept
  <2>7. CASE DelSettle(r)
    <3>1. del'[r].sid = s /\ del'[r].pc \in { "mark", "release" } /\ del[r].pc = "settle"
      <4>1. CASE DelGoto(r, "mark")
            BY <2>3, <2>7, <4>1 DEF DelSettle
      <4>2. CASE del' = [ del EXCEPT ![r] = [ @ EXCEPT !.pc = "release", !.conn = conns[del[r].sid] ] ]
            BY <1>0, <2>1, <2>2, <2>7, <4>2 DEF DelSettle
      <4> QED
          BY <2>7, <4>1, <4>2 DEF DelSettle
    <3>2. UNCHANGED << conns, breakdowns, reserved, toLC >>
          BY <2>7 DEF DelSettle
    <3>3. \A P \in { Published, Published \cup {"send"} } : Removing(s, P) => Removing(s, P)'
          BY <1>b, <3>1 DEF Removing, Published
    <3>4. Kept(s)'
          BY <1>a, <1>b, <1>c, <1>d, <3>2, <3>3, KeptStays DEF Present, Deleting
    <3>5. DeleteFollows(r)'
          BY <2>5, <3>1
    <3> QED
        BY <1>1, <2>2, <3>1, <3>2, <3>4, <3>5 DEF Deleting
  <2>8. CASE DelRelease(r)
    <3>1. /\ del'[r].sid = s /\ del'[r].pc \in { "archive", "send" } /\ del[r].pc = "release"
          /\ reserved' = [ reserved EXCEPT ![s] = FALSE ]
          BY <2>2, <2>3, <2>8 DEF DelRelease
    <3>2. UNCHANGED << conns, breakdowns, toLC >>
          BY <2>8 DEF DelRelease
    <3>3. DeleteFollows(r)' /\ del'[r] \notin { Idle, Finished }
          BY <2>5, <3>1
    <3>4. /\ Removing(s, Published) => Removing(s, Published)'
          /\ Removing(s, Published \cup {"send"})'
          BY <1>b, <3>1, <3>3 DEF Removing, Published
    <3>5. Kept(s)'
          BY <1>a, <1>b, <1>c, <1>d, <3>2, <3>4, KeptStays DEF Present, Deleting
    <3> QED
        BY <1>0, <1>1, <2>2, <3>1, <3>2, <3>3, <3>5 DEF Deleting
  <2>9. CASE DelSend(r) \/ DelSendFails(r)
    <3>1. del'[r].sid = s /\ del'[r].pc \in { "drop", "mark" }
          BY <2>3, <2>9 DEF DelSend, DelSendFails
    <3>2. UNCHANGED << conns, breakdowns, reserved >>
          BY <2>9 DEF DelSend, DelSendFails
    <3>3. toLC' \subseteq toLC \cup Deletes(s, del[r].brk, del[r].conn)
          BY <2>2, <2>9 DEF DelSend, DelSendFails
    <3>4. \A t \in Service, g \in Segment : Deleting(t, g)' => Deleting(t, g) \/ t = s
          BY <3>3 DEF Deleting, Deletes, Orders
    <3>5. Kept(s)' /\ DeleteFollows(r)'
          BY <2>5, <2>6, <3>1 DEF Published
    <3> QED
        BY <1>1, <2>2, <3>1, <3>2, <3>4, <3>5
  <2>10. CASE DelDrop(r) \/ DelArchive(r)
    <3>1. /\ del'[r].sid = s /\ del'[r].pc \in { "archive", "unlink", "mark" }
          /\ breakdowns' \in { breakdowns, [ breakdowns EXCEPT ![s] = {} ] }
          BY <2>2, <2>3, <2>10 DEF DelDrop, DelArchive
    <3>2. UNCHANGED << conns, reserved, toLC >>
          BY <2>10 DEF DelDrop, DelArchive
    <3>3. Kept(s)' /\ DeleteFollows(r)'
          BY <2>5, <2>6, <3>1 DEF Published
    <3> QED
        BY <1>0, <1>1, <2>2, <3>1, <3>2, <3>3 DEF Deleting
  <2>11. CASE DelUnlink(r) \/ DelMark(r)
    <3>1. /\ del'[r].sid = s /\ del'[r].pc \in { "mark", "markBreakdown" }
          /\ conns' \in { conns, [ conns EXCEPT ![s] = NoConn ] }
          /\ del'[r].pc = "markBreakdown" => conns' = [ conns EXCEPT ![s] = NoConn ]
          BY <2>2, <2>3, <2>11 DEF DelUnlink, DelMark, DbMark, DbDeleteOne
    <3>2. UNCHANGED << breakdowns, reserved, toLC >>
          BY <2>11 DEF DelUnlink, DelMark
    <3>3. del'[r] \notin { Idle, Finished }
          BY <3>1 DEF Idle, Finished
    <3>4. Kept(s)'
          BY <2>6, <3>1, <3>3 DEF Published
    <3>5. DeleteFollows(r)'
          BY <1>0, <1>b, <2>4, <3>1 DEF DeleteFollows, Present
    <3> QED
        BY <1>0, <1>1, <2>2, <3>1, <3>2, <3>4, <3>5 DEF Deleting
  <2>12. CASE DelMarkBreakdown(r)
    <3>1. /\ del'[r] = Finished /\ ~ Present(s)
          /\ breakdowns' = [ breakdowns EXCEPT ![s] = {} ]
          BY <1>0, <1>a, <2>1, <2>2, <2>12 DEF DelMarkBreakdown, DeleteFollows
    <3>2. UNCHANGED << conns, reserved, toLC >>
          BY <2>12 DEF DelMarkBreakdown
    <3>3. Kept(s)' /\ DeleteFollows(r)'
          BY <3>1, <3>2 DEF Kept, DeleteFollows, Present
    <3> QED
        BY <1>0, <1>1, <2>2, <3>1, <3>2, <3>3 DEF Deleting
  <2> QED
      BY <1>3, <2>7, <2>8, <2>9, <2>10, <2>11, <2>12 DEF DelStep
<1> QED
    BY <1>2, <1>3
LEMMA LcOperational ==
    ASSUME TypeOK, WireInv, DocumentInv, OperationalInv, LcStep
    PROVE  OperationalInv'
<1> USE DEF store, wire
<1>0. /\ conns \in [ Service -> Conn \cup {NoConn} ] /\ reserved \in [ Service -> BOOLEAN ]
      /\ \A s \in Service : OneDocument(s) /\ UnsentIsClean(s)
      BY DEF TypeOK, DocumentInv
<1>a. /\ \A t \in Service : Kept(t) /\ UnsentIsDown(t)
      /\ \A r \in Request : DeleteFollows(r)
      /\ PartialIsRefused /\ PartialIsReleased
      BY DEF OperationalInv
<1>b. /\ UNCHANGED << post, oxp, del, breakdowns >>
      /\ ~ LcReplace /\ ~ \E m \in reports : LcReport(m)
      BY DEF DocumentInv, Quiet, LcStep, LcReceive, LcReport, LcCleanup, LcCleanupFails,
         LcLate, LcLateFails, LcSave, LcReplace
<1>c. \A t \in Service : (Refused(t)' <=> Refused(t)) /\ (PlannedOnce(t)' <=> PlannedOnce(t))
      BY <1>b DEF Refused, PlannedOnce, Unsent
<1>d. \A t \in Service, P \in { Published, Published \cup {"send"} } :
          Removing(t, P) => Removing(t, P)'
      BY <1>b DEF Removing
<1>e. \A r \in Request : del[r] \notin { Idle, Finished } => del[r].sid \in Service
      BY DelShape DEF TypeOK
\* Only a connection with a refused EVC loses anything.
<1>1. ASSUME UNCHANGED conns,
             \A t \in Service : reserved'[t] = reserved[t] \/ (~ reserved'[t] /\ Refused(t)),
             \A t \in Service, g \in Segment : Deleting(t, g)' => Deleting(t, g) \/ Refused(t),
             lc' # Idle => /\ lc'.sid \in Service
                           /\ lc'.conn.partial \/ lc'.pc \in { "cleanup", "late" } => Refused(lc'.sid)
                           /\ lc'.pc \in { "late", "save" } /\ lc'.conn.partial => ~ reserved'[lc'.sid]
      PROVE  OperationalInv'
  <2>1. ASSUME NEW t \in Service
        PROVE  Kept(t)'
    <3>1. Present(t)' <=> Present(t)
          BY <1>1 DEF Present
    <3> QED
        BY <1>1, <1>a, <1>b, <1>c, <1>d, <3>1, KeptStays
  <2>2. \A t \in Service : UnsentIsDown(t)'
        BY <1>1, <1>a, <1>b DEF UnsentIsDown, Present, Unsent
  <2>3. PartialIsRefused'
        BY <1>1, <1>a, <1>b DEF PartialIsRefused, Present, Refused
  <2>4. PartialIsReleased'
        BY <1>1, <1>a DEF PartialIsReleased, Present
  <2>5. \A r \in Request : DeleteFollows(r)'
        BY <1>1, <1>a, <1>b, <1>e DEF DeleteFollows, Present
  <2> QED
      BY <2>1, <2>2, <2>3, <2>4, <2>5 DEF OperationalInv
<1>2. ASSUME NEW m \in toSDX, LcReceive(m) PROVE OperationalInv'
  <2>1. UNCHANGED << conns, reserved, toLC >> /\ m \in Answer /\ m.sid \in Service /\ m.seg \in Segment
        BY <1>2 DEF LcReceive, TypeOK, Answer
  <2>2. CASE UNCHANGED lc
    <3>1. lc # Idle => lc.sid \in Service
          BY LcShape DEF TypeOK
    <3> QED
        BY <1>1, <1>a, <2>1, <2>2, <3>1 DEF Deleting, PartialIsRefused, PartialIsReleased
  <2>3. ASSUME NEW pc \in { "cleanup", "late", "save" }, NEW c \in Conn, Handle(m, pc, c),
               c.partial \/ pc \in { "cleanup", "late" } => Refused(m.sid),
               pc \in { "late", "save" } /\ c.partial => ~ reserved[m.sid]
        PROVE  OperationalInv'
        BY <1>1, <2>1, <2>3 DEF Handle, Deleting
  <2>4. CASE ~ UNCHANGED lc
    <3>1. PICK pc \in { "cleanup", "late", "save" }, c \in Conn :
              /\ Handle(m, pc, c)
              /\ \/ CopyCreated(m, conns[m.sid], pc, c)
                 \/ CopyLate(m, conns[m.sid], pc, c)
                 \/ CopyDeleted(m, conns[m.sid], pc, c)
                 \/ CopyFailed(m, conns[m.sid], pc, c)
          BY <1>2, <2>4, LcReceiveMakes
    <3>2. Known(m) /\ conns[m.sid].partial \in BOOLEAN
          BY <1>2, <2>4, LcReceiveMakes DEF Conn
    <3>3. conns[m.sid].partial => Refused(m.sid) /\ ~ reserved[m.sid]
          BY <1>a, <2>1, <3>2 DEF Known, PartialIsRefused, PartialIsReleased
    <3>4. m.op = "post" /\ ~ m.ok => Refused(m.sid)
      <4>1. ASSUME m.op = "post", ~ m.ok
            PROVE  m = [ op |-> "post", sid |-> m.sid, seg |-> m.seg, ok |-> FALSE ]
            BY <2>1, <4>1 DEF Answer
      <4> QED
          BY <2>1, <4>1 DEF WireInv, AnswersAreTrue, Answered, Refused
    <3>5. c.partial \/ pc \in { "cleanup", "late" } => Refused(m.sid)
          BY <3>1, <3>2, <3>3, <3>4 DEF CopyCreated, CopyLate, CopyDeleted, CopyFailed
    <3>6. pc \in { "late", "save" } /\ c.partial => ~ reserved[m.sid]
          BY <3>1, <3>2, <3>3 DEF CopyCreated, CopyLate, CopyDeleted, CopyFailed
    <3> QED
        BY <2>3, <3>1, <3>5, <3>6
  <2> QED
      BY <2>2, <2>4
<1>3. CASE LcCleanup \/ LcCleanupFails \/ LcLate \/ LcLateFails
  <2>1. /\ lc \in [ pc : { "cleanup", "late", "save" }, sid : Service, seg : Segment, conn : Conn ]
        /\ lc # Idle /\ lc.pc \in { "cleanup", "late" }
        BY <1>3, LcShape DEF LcCleanup, LcCleanupFails, LcLate, LcLateFails, TypeOK, Idle
  <2>2. PICK s \in Service : s = lc.sid
        BY <2>1
  <2>3. Refused(s)
        BY <1>a, <2>1, <2>2 DEF PartialIsRefused
  <2>4. UNCHANGED conns /\ reserved' \in { reserved, [ reserved EXCEPT ![s] = FALSE ] }
        BY <1>3, <2>2 DEF LcCleanup, LcCleanupFails, LcLate, LcLateFails
  <2>5. \A t \in Service, g \in Segment : Deleting(t, g)' => Deleting(t, g) \/ t = s
    <3>1. \A n \in toLC' : n \in toLC \/ n.sid = s
          BY <1>3, <2>2 DEF LcCleanup, LcCleanupFails, LcLate, LcLateFails, Deletes, Orders
    <3> QED
        BY <3>1 DEF Deleting
  <2>6. LcCleanup => lc'.sid = s /\ ~ reserved'[s] /\ lc'.pc = "save"
        BY <1>0, <2>1, <2>2 DEF LcCleanup
  <2>7. LcLate => /\ lc'.sid = s /\ lc'.pc = "save" /\ reserved' = reserved
                  /\ lc'.conn.partial = lc.conn.partial
        BY <2>1, <2>2 DEF LcLate, Conn
  <2>8. lc' # Idle => LcCleanup \/ LcLate
        BY <1>3 DEF LcCleanupFails, LcLateFails
  <2>9. lc' # Idle /\ lc'.conn.partial => ~ reserved'[s]
    <3>1. LcLate => lc.pc = "late"
          BY DEF LcLate
    <3>2. lc.pc = "late" /\ lc.conn.partial => ~ reserved[s]
          BY <1>a, <2>1, <2>2 DEF PartialIsReleased
    <3>3. LcLate /\ lc'.conn.partial => ~ reserved'[s]
          BY <2>7, <3>1, <3>2
    <3> QED
        BY <2>6, <2>8, <3>3
  <2> QED
      BY <1>0, <1>1, <2>2, <2>3, <2>4, <2>5, <2>6, <2>7, <2>8, <2>9
<1>4. CASE LcSave
  <2>1. PICK s \in Service : s = lc.sid
        BY <1>4, LcShape DEF LcSave, TypeOK
  <2>2. lc.conn \in Conn /\ lc # Idle /\ lc.pc = "save" /\ lc' = Idle /\ UNCHANGED << reserved, toLC >>
        BY <1>4, LcShape DEF LcSave, TypeOK, Idle
  <2>3. CASE ~ Present(s)
    <3>1. UNCHANGED conns
          BY <1>4, <2>1, <2>3 DEF LcSave, DbUpdate
    <3> QED
        BY <1>1, <2>2, <3>1 DEF Deleting
  <2>4. CASE Present(s)
    <3> DEFINE d == [ lc.conn EXCEPT !.handled = conns[s].handled ]
    <3>1. conns' = [ conns EXCEPT ![s] = d ]
          BY <1>0, <1>4, <2>1, <2>4 DEF LcSave, DbUpdate, OneDocument
    <3>2. conns[s] \in Conn
          BY <1>0, <2>4 DEF Present
    <3>3. d \in Conn /\ d.partial = lc.conn.partial
          BY <2>2, <3>2 DEF Conn
    <3> HIDE DEF d
    <3>4. d.partial => Refused(s) /\ ~ reserved[s]
          BY <1>a, <2>1, <2>2, <3>3 DEF PartialIsRefused, PartialIsReleased
    <3>5. ~ Unsent(s)
          BY <1>0, <2>1, <2>2 DEF UnsentIsClean
    <3>6. /\ conns'[s] = d
          /\ \A t \in Service : t # s => conns'[t] = conns[t]
          BY <1>0, <3>1
    <3>7. \A t \in Service : Present(t)' => Present(t)
          BY <2>4, <3>6 DEF Present
    <3>8. \A t \in Service : Kept(t)'
          BY <1>a, <1>b, <1>c, <1>d, <2>2, <3>7, KeptStays DEF Deleting
    <3>9. \A t \in Service : UnsentIsDown(t)'
          BY <1>a, <1>b, <3>5, <3>6 DEF UnsentIsDown, Present, Unsent
    <3>10. PartialIsRefused'
      <4>1. \A t \in Service : Present(t)' /\ conns'[t].partial => Refused(t)
            BY <1>a, <3>4, <3>6 DEF PartialIsRefused, Present
      <4> QED
          BY <1>c, <2>2, <4>1 DEF PartialIsRefused
    <3>11. PartialIsReleased'
      <4>1. \A t \in Service : Present(t)' /\ conns'[t].partial => ~ reserved[t]
            BY <1>a, <3>4, <3>6 DEF PartialIsReleased, Present
      <4> QED
          BY <2>2, <4>1 DEF PartialIsReleased
    <3>12. \A r \in Request : DeleteFollows(r)'
          BY <1>a, <1>b, <1>e, <3>7 DEF DeleteFollows, Present
    <3> QED
        BY <3>8, <3>9, <3>10, <3>11, <3>12 DEF OperationalInv
  <2> QED
      BY <2>3, <2>4
<1> QED
    BY <1>b, <1>2, <1>3, <1>4 DEF LcStep

LEMMA OxpOperational ==
    ASSUME TypeOK, WireInv, OperationalInv, OxpStep
    PROVE  OperationalInv'
<1>1. /\ UNCHANGED << post, conns, reserved, breakdowns, del, lc >>
      /\ toLC' \subseteq toLC
      BY DEF OxpStep, OxpServe, OxpCreate, OxpRefuse, OxpDelete, OxpDeleteFails, Serve,
         OxpReport, store
<1>2. ASSUME NEW t \in Service
      PROVE  /\ Refused(t) => Refused(t)'
             /\ \A g \in Segment : oxp'[t][g] = "gone" => oxp[t][g] = "gone" \/ Deleting(t, g)
  <2>1. ASSUME NEW m \in toLC, OxpServe(m)
        PROVE  \A g \in Segment : oxp'[t][g] = "gone" => oxp[t][g] = "gone" \/ Deleting(t, g)
    <3>1. m \in Order /\ m.sid \in Service /\ m.seg \in Segment
          BY DEF TypeOK, Order
    <3>2. PICK st : /\ oxp' = [ oxp EXCEPT ![m.sid][m.seg] = st ]
                    /\ st = "gone" => oxp[m.sid][m.seg] = "gone" \/ m.op = "delete"
      <4> DEFINE Moved(x) == /\ oxp' = [ oxp EXCEPT ![m.sid][m.seg] = x ]
                             /\ x = "gone" => oxp[m.sid][m.seg] = "gone" \/ m.op = "delete"
      <4>1. CASE OxpCreate(m)
        <5>1. Moved("up")
              BY <4>1 DEF OxpCreate, Serve
        <5> QED
            BY <5>1
      <4>2. CASE OxpRefuse(m)
        <5>1. Moved("refused")
              BY <4>2 DEF OxpRefuse, Serve
        <5> QED
            BY <5>1
      <4>3. CASE OxpDelete(m)
        <5>1. Moved("gone")
              BY <4>3 DEF OxpDelete, Serve
        <5> QED
            BY <5>1
      <4>4. CASE OxpDeleteFails(m)
        <5>1. Moved(oxp[m.sid][m.seg])
              BY <4>4 DEF OxpDeleteFails, Serve
        <5> QED
            BY <5>1
      <4> QED
          BY <2>1, <4>1, <4>2, <4>3, <4>4 DEF OxpServe
    <3>3. m.op = "delete" => Deleting(m.sid, m.seg)
          BY <3>1 DEF Deleting, Order
    <3>4. \A g \in Segment : oxp'[t][g] = oxp[t][g] \/ (t = m.sid /\ g = m.seg /\ oxp'[t][g] = st)
          BY <3>1, <3>2 DEF TypeOK
    <3> QED
        BY <3>2, <3>3, <3>4
  <2>2. ASSUME NEW s \in Service, NEW st \in ReportedStatus, OxpReport(s, st)
        PROVE  UNCHANGED oxp
        BY <2>2 DEF OxpReport
  <2> QED
      BY <2>1, <2>2, RefusedStays DEF OxpStep, Refused
<1>3. ASSUME NEW t \in Service
      PROVE  Kept(t)'
  <2>1. /\ Present(t)' <=> Present(t)
        /\ PlannedOnce(t)' <=> PlannedOnce(t)
        /\ \A P : Removing(t, P)' <=> Removing(t, P)
        /\ \A g \in Segment : Deleting(t, g)' => Deleting(t, g)
        BY <1>1 DEF Present, PlannedOnce, Unsent, Removing, Deleting
  <2> QED
      BY <1>1, <1>2, <2>1, KeptStays DEF OperationalInv
<1>4. \A t \in Service : UnsentIsDown(t)'
      BY <1>1 DEF OperationalInv, UnsentIsDown, Present, Unsent
<1>5. PartialIsRefused'
  <2>1. lc # Idle => lc.sid \in Service
        BY LcShape DEF TypeOK
  <2>2. \A t \in Service : Present(t)' /\ conns'[t].partial => Refused(t)'
        BY <1>1, <1>2 DEF OperationalInv, PartialIsRefused, Present
  <2>3. lc # Idle /\ (lc.conn.partial \/ lc.pc \in { "cleanup", "late" }) =>
            \E t \in Service : t = lc.sid /\ Refused(t)'
        BY <1>2, <2>1 DEF OperationalInv, PartialIsRefused
  <2> QED
      BY <1>1, <2>2, <2>3 DEF PartialIsRefused, Refused
<1>6. PartialIsReleased' /\ \A r \in Request : DeleteFollows(r)'
      BY <1>1 DEF OperationalInv, PartialIsReleased, DeleteFollows, Present
<1> QED
    BY <1>3, <1>4, <1>5, <1>6 DEF OperationalInv

LEMMA NextOperational ==
    ASSUME TypeOK, WireInv, DocumentInv, Undisturbed, OperationalInv, [Next]_vars
    PROVE  OperationalInv'
<1>1. ~ MonStep
      BY DEF Undisturbed, DocumentInv, Quiet, MonStep, MonScan, MonTimeout, MonCleanup,
         MonCleanupFails, Idle
<1>2. CASE UNCHANGED vars
  <2>1. \A t \in Service : Kept(t)' <=> Kept(t)
        BY <1>2 DEF vars, Kept, Present, PlannedOnce, Unsent, Removing, Refused, Deleting
  <2>2. \A t \in Service : UnsentIsDown(t)' <=> UnsentIsDown(t)
        BY <1>2 DEF vars, UnsentIsDown, Present, Unsent
  <2>3. PartialIsRefused' /\ PartialIsReleased'
        BY <1>2 DEF vars, OperationalInv, PartialIsRefused, PartialIsReleased, Present, Refused
  <2>4. \A r \in Request : DeleteFollows(r)' <=> DeleteFollows(r)
        BY <1>2 DEF vars, DeleteFollows, Present
  <2> QED
      BY <2>1, <2>2, <2>3, <2>4 DEF OperationalInv
<1> QED
    BY <1>1, <1>2, PostOperational, DelOperational, LcOperational, OxpOperational DEF Next

LEMMA OperationalCorrect ==
    ASSUME Undisturbed
    PROVE  Spec => []OperationalInv
<1>1. Init => OperationalInv
      BY InitOperational
<1>2. TypeOK /\ WireInv /\ DocumentInv /\ OperationalInv /\ [Next]_vars => OperationalInv'
      BY NextOperational
<1> QED
    BY <1>1, <1>2, DocumentCorrect, PTL DEF Spec

\* A connection shown up has no refused EVC, as long as its breakdown is
\* stored.
LEMMA UpIsWhole ==
    ASSUME TypeOK, CountInv, OperationalInv, UpNeedsEverySegment,
           NEW s \in Service, Shows(s, "UP"), ~ Removing(s, Published)
    PROVE  /\ breakdowns[s] # {} /\ ~ Refused(s)
           /\ \A g \in breakdowns[s] : Created(s, g)
           /\ Kept(s) /\ Present(s) /\ PlannedOnce(s)
<1>1. Present(s) /\ PlannedOnce(s) /\ Kept(s)
      BY DEF OperationalInv, UnsentIsDown, Shows, PlannedOnce
<1>2. breakdowns[s] # {}
      BY <1>1 DEF Kept
<1>3. \A g \in breakdowns[s] : Created(s, g)
      BY DEF UpNeedsEverySegment
<1>4. \A g \in Segment : oxp[s][g] = "refused" => g \in breakdowns[s]
      BY <1>2 DEF CountInv, Planned
<1> QED
    BY <1>1, <1>2, <1>3, <1>4 DEF Refused, Created

\* With the timeout off, nothing reported unasked and no answer delivered
\* twice, a connection shown up is up at every OXP of its breakdown until a
\* DELETE has published its deletes.
THEOREM UpIsOperationalCorrect ==
    ASSUME Undisturbed, Unrepeated
    PROVE  Spec => []UpIsOperational
<1>1. TypeOK /\ CountInv /\ OperationalInv /\ UpNeedsEverySegment => UpIsOperational
  <2> SUFFICES ASSUME TypeOK, CountInv, OperationalInv, UpNeedsEverySegment,
                      NEW s \in Service, Shows(s, "UP"), ~ Removing(s, Published)
               PROVE  breakdowns[s] # {} /\ \A g \in breakdowns[s] : oxp[s][g] = "up"
      BY DEF UpIsOperational
  <2>1. /\ breakdowns[s] # {} /\ ~ Refused(s)
        /\ \A g \in breakdowns[s] : Created(s, g)
        /\ Kept(s) /\ Present(s) /\ PlannedOnce(s)
        BY UpIsWhole
  <2>2. \A g \in Segment : oxp[s][g] # "gone"
        BY <2>1 DEF Kept
  <2>3. breakdowns[s] \subseteq Segment
        BY DEF TypeOK
  <2> QED
      BY <2>1, <2>2, <2>3 DEF Created
<1> QED
    BY <1>1, TypeCorrect, CountCorrect, OperationalCorrect, UpIsBacked, PTL

\* ... and the PCE keeps its resources until a DELETE releases them, but
\* holds none for a connection whose partial cleanup is recorded.
THEOREM ReservationFollowsCorrect ==
    ASSUME Undisturbed, Unrepeated
    PROVE  Spec => []ReservationFollows
<1>1. TypeOK /\ CountInv /\ OperationalInv /\ UpNeedsEverySegment => ReservationFollows
  <2> SUFFICES ASSUME TypeOK, CountInv, OperationalInv, UpNeedsEverySegment, NEW s \in Service
               PROVE  /\ Shows(s, "UP") => reserved[s] \/ Removing(s, Published \cup {"send"})
                      /\ Present(s) /\ conns[s].partial => ~ reserved[s]
      BY DEF ReservationFollows
  <2>1. Present(s) /\ conns[s].partial => ~ reserved[s]
        BY DEF OperationalInv, PartialIsReleased
  <2>2. CASE Removing(s, Published)
        BY <2>1, <2>2 DEF Removing
  <2>3. CASE ~ Removing(s, Published)
    <3>1. Shows(s, "UP") => Kept(s) /\ Present(s) /\ PlannedOnce(s) /\ ~ Refused(s)
          BY <2>3, UpIsWhole
    <3> QED
        BY <2>1, <3>1 DEF Kept
  <2> QED
      BY <2>2, <2>3
<1> QED
    BY <1>1, TypeCorrect, CountCorrect, OperationalCorrect, UpIsBacked, PTL
(***************************************************************************)
(* A partial cleanup misses no EVC, when nothing but a refused EVC goes    *)
(* wrong.                                                                  *)
(***************************************************************************)
\* What leaves the breakdowns alone, and takes up no segment that was not
\* posted, keeps them complete.
LEMMA PlannedStays ==
    ASSUME Planned,
           \A s \in Service : Fresh(s)' => Fresh(s),
           \A s \in Service : breakdowns'[s] \in { breakdowns[s], {} },
           \A s \in Service, g \in Segment :
               oxp'[s][g] # "none" \/ Creating(s, g)' \/ g \in post'[s].todo =>
                   oxp[s][g] # "none" \/ Creating(s, g) \/ g \in post[s].todo
    PROVE  Planned'
<1> SUFFICES ASSUME NEW s \in Service
             PROVE  /\ Fresh(s)' => breakdowns'[s] = {}
                    /\ breakdowns'[s] # {} =>
                           \A g \in Segment :
                               oxp'[s][g] # "none" \/ Creating(s, g)' \/ g \in post'[s].todo
                                   => g \in breakdowns'[s]
    BY DEF Planned
<1>1. breakdowns'[s] = breakdowns[s] \/ breakdowns'[s] = {}
      OBVIOUS
<1> QED
    BY <1>1 DEF Planned

LEMMA PostPlanned ==
    ASSUME TypeOK, WireInv, Planned, NEW s \in Service, PostSave(s) \/ PostStep(s)
    PROVE  Planned'
<1> USE DEF store, wire, PostGoto
<1>0. post \in [ Service -> PostState ] /\ breakdowns \in [ Service -> SUBSET Segment ]
      BY DEF TypeOK
<1>1. ASSUME NEW B \in SUBSET Segment, PlaceBreakdown(s, B)
      PROVE  Planned'
  <2>1. /\ UNCHANGED << toLC, oxp >> /\ Fresh(s)
        /\ \A t \in Service : breakdowns'[t] = IF t = s THEN B ELSE breakdowns[t]
        /\ \A t \in Service : post'[t].todo = IF t = s THEN B ELSE post[t].todo
        /\ \A t \in Service : Fresh(t)' => Fresh(t) /\ t # s
        BY <1>0, <1>1 DEF PlaceBreakdown, PostState, Fresh
  <2> QED
      BY <2>1 DEF Planned, Creating, WireInv, FreshIsClean
<1>2. ASSUME NEW g \in Segment, PlaceSend(s, g)
      PROVE  Planned'
  <2>1. /\ UNCHANGED << breakdowns, oxp >> /\ g \in post[s].todo
        /\ \A t \in Service : post'[t].todo \subseteq post[t].todo
        /\ \A t \in Service : Fresh(t)' => Fresh(t)
        BY <1>0, <1>2 DEF PlaceSend, PostState, Fresh
  <2>2. \A t \in Service, h \in Segment : Creating(t, h)' => Creating(t, h) \/ (t = s /\ h = g)
        BY <1>2 DEF PlaceSend, Orders, Creating
  <2> QED
      BY <2>1, <2>2, PlannedStays
<1>3. CASE /\ ~ \E g \in Segment : PlaceSend(s, g)
           /\ ~ \E B \in SUBSET Segment : PlaceBreakdown(s, B)
  <2>1. UNCHANGED << toLC, oxp, breakdowns >>
        BY <1>3 DEF PostSave, PostStep, PlaceFail, PlaceMark, PlaceReturn, PlaceBroken, PostReject
  <2>2. \A t \in Service : (Fresh(t)' => Fresh(t)) /\ post'[t].todo = post[t].todo
    <3>1. CASE PostSave(s) \/ PlaceFail(s)
          BY <1>0, <3>1 DEF PostSave, PlaceFail, Fresh, PostState
    <3>2. CASE PlaceMark(s)
          BY <1>0, <3>2 DEF PlaceMark, Fresh, PostState
    <3>3. CASE PlaceReturn(s) \/ PlaceBroken(s) \/ PostReject(s)
          BY <1>0, <3>3 DEF PlaceReturn, PlaceBroken, PostReject, Fresh, PostState
    <3> QED
        BY <1>3, <3>1, <3>2, <3>3 DEF PostStep
  <2> QED
      BY <2>1, <2>2, PlannedStays DEF Creating
<1> QED
    BY <1>1, <1>2, <1>3 DEF PostStep

LEMMA OxpPlanned ==
    ASSUME TypeOK, WireInv, Planned, OxpStep
    PROVE  Planned'
<1>1. UNCHANGED << breakdowns, post >> /\ toLC' \subseteq toLC
      BY DEF OxpStep, OxpServe, OxpCreate, OxpRefuse, OxpDelete, OxpDeleteFails, Serve,
         OxpReport, store
<1>2. ASSUME NEW s \in Service, NEW g \in Segment, oxp'[s][g] # "none"
      PROVE  oxp[s][g] # "none" \/ Creating(s, g)
  <2>1. ASSUME NEW m \in toLC, OxpServe(m)
        PROVE  oxp'[s][g] = oxp[s][g] \/ (m.sid = s /\ m.seg = g)
    <3>1. PICK st : oxp' = [ oxp EXCEPT ![m.sid][m.seg] = st ]
          BY <2>1 DEF OxpServe, OxpCreate, OxpRefuse, OxpDelete, OxpDeleteFails, Serve
    <3>2. m.sid \in Service /\ m.seg \in Segment
          BY DEF TypeOK, Order
    <3> QED
        BY <3>1, <3>2 DEF TypeOK
  <2>2. ASSUME NEW m \in toLC, m.sid = s, m.seg = g
        PROVE  oxp[s][g] # "none" \/ Creating(s, g)
    <3>1. m \in Order /\ m.op \in { "post", "delete" }
          BY DEF TypeOK, Order
    <3>2. m.op = "delete" => Created(s, g)
          BY <2>2 DEF WireInv, DeleteTargetsCreated
    <3>3. m.op = "post" => m = [ op |-> "post", sid |-> s, seg |-> g ]
          BY <2>2, <3>1 DEF Order
    <3> QED
        BY <3>1, <3>2, <3>3 DEF Created, Creating
  <2>3. UNCHANGED oxp \/ \E m \in toLC : OxpServe(m)
        BY DEF OxpStep, OxpReport
  <2> QED
      BY <1>2, <2>1, <2>2, <2>3
<1>3. \A s \in Service : Fresh(s)' => Fresh(s)
      BY <1>1 DEF Fresh
<1>4. \A s \in Service, g \in Segment : Creating(s, g)' => Creating(s, g)
      BY <1>1 DEF Creating
<1> QED
    BY <1>1, <1>2, <1>3, <1>4, PlannedStays

\* A message for the LCs that a step adds, and that creates an EVC, is
\* POST's.
LEMMA OthersPlanned ==
    ASSUME TypeOK, Planned,
           \/ \E r \in Request : (\E s \in Service : DelRead(r, s)) \/ DelStep(r)
           \/ LcStep \/ MonStep \/ UNCHANGED vars
    PROVE  Planned'
<1> USE DEF store, wire
<1>1. ASSUME UNCHANGED << post, oxp >>,
             \A s \in Service : breakdowns'[s] \in { breakdowns[s], {} },
             \A m \in toLC' : m \in toLC \/ m.op = "delete"
      PROVE  Planned'
      BY <1>1, PlannedStays DEF Creating, Fresh
<1>2. ASSUME NEW r \in Request, (\E s \in Service : DelRead(r, s)) \/ DelStep(r)
      PROVE  Planned'
  <2>1. UNCHANGED << post, oxp >>
        BY <1>2 DEF DelRead, DelStep, DelSettle, DelRelease, DelSend, DelSendFails, DelDrop,
           DelArchive, DelUnlink, DelMark, DelMarkBreakdown
  <2>2. \A s \in Service : breakdowns'[s] \in { breakdowns[s], {} }
    <3>1. CASE DelDrop(r) \/ DelMarkBreakdown(r)
          BY <3>1 DEF DelDrop, DelMarkBreakdown, TypeOK
    <3>2. CASE ~ (DelDrop(r) \/ DelMarkBreakdown(r))
          BY <1>2, <3>2 DEF DelRead, DelStep, DelSettle, DelRelease, DelSend, DelSendFails,
             DelArchive, DelUnlink, DelMark
    <3> QED
        BY <3>1, <3>2
  <2>3. \A m \in toLC' : m \in toLC \/ m.op = "delete"
    <3>1. CASE DelSend(r)
          BY <3>1 DEF DelSend, Deletes, Orders
    <3>2. CASE DelSendFails(r)
          BY <3>2 DEF DelSendFails, Deletes, Orders
    <3>3. CASE ~ (DelSend(r) \/ DelSendFails(r))
          BY <1>2, <3>3 DEF DelRead, DelStep, DelSettle, DelRelease, DelDrop, DelArchive,
             DelUnlink, DelMark, DelMarkBreakdown
    <3> QED
        BY <3>1, <3>2, <3>3
  <2> QED
      BY <1>1, <2>1, <2>2, <2>3
<1>3. CASE LcStep
  <2>1. UNCHANGED << post, oxp, breakdowns >>
        BY <1>3 DEF LcStep, LcReceive, LcReport, LcCleanup, LcCleanupFails, LcLate,
           LcLateFails, LcSave, LcReplace
  <2>2. \A m \in toLC' : m \in toLC \/ m.op = "delete"
        BY <1>3 DEF LcStep, LcReceive, LcReport, LcCleanup, LcCleanupFails, LcLate,
           LcLateFails, LcSave, LcReplace, Deletes, Orders
  <2> QED
      BY <1>1, <2>1, <2>2
<1>4. CASE MonStep
  <2>1. UNCHANGED << post, oxp, breakdowns >>
        BY <1>4 DEF MonStep, MonScan, MonTimeout, MonCleanup, MonCleanupFails
  <2>2. \A m \in toLC' : m \in toLC \/ m.op = "delete"
    <3>1. CASE MonCleanup
          BY <3>1 DEF MonCleanup, Deletes, Orders
    <3>2. CASE MonCleanupFails
          BY <3>2 DEF MonCleanupFails, Deletes, Orders
    <3>3. CASE ~ (MonCleanup \/ MonCleanupFails)
          BY <1>4, <3>3 DEF MonStep, MonScan, MonTimeout
    <3> QED
        BY <3>1, <3>2, <3>3
  <2> QED
      BY <1>1, <2>1, <2>2
<1>5. CASE UNCHANGED vars
      BY <1>1, <1>5 DEF vars
<1> QED
    BY <1>2, <1>3, <1>4, <1>5

\* A stored breakdown has every segment that was posted, whatever happens.
LEMMA PlannedCorrect == Spec => []Planned
<1>1. Init => Planned
      BY DEF Init, Planned
<1>2. TypeOK /\ WireInv /\ Planned /\ [Next]_vars => Planned'
      BY PostPlanned, OxpPlanned, OthersPlanned DEF Next
<1> QED
    BY <1>1, <1>2, TypeCorrect, WireCorrect, PTL DEF Spec
LEMMA InitCleanup == Init => CleanupInv
<1> SUFFICES ASSUME Init PROVE CleanupInv
    OBVIOUS
<1>1. \A s \in Service : Stays(s)
      BY DEF Init, Stays, PlannedOnce, Unsent
<1>2. DeletesSucceed /\ WholeInv /\ LateInv /\ CleanupFollows
      BY DEF Init, DeletesSucceed, WholeInv, LateInv, CleanupFollows, Present, Idle
<1>3. \A s \in Service, g \in Segment : oxp[s][g] # "up"
      BY DEF Init
<1> QED
    BY <1>1, <1>2, <1>3 DEF CleanupInv

\* What POST has sent messages for has its document and its breakdown, and
\* so has what the LC thread works on.
LEMMA Posted ==
    ASSUME DocumentInv, CleanupInv, NEW s \in Service, ~ Unsent(s)
    PROVE  Present(s) /\ breakdowns[s] # {} /\ tombs[s] = 0
BY DEF DocumentInv, CleanupInv, Stays, PostFollows, OneDocument, PlannedOnce

LEMMA WorkedOn ==
    ASSUME TypeOK, DocumentInv, CleanupInv, lc # Idle
    PROVE  /\ lc.sid \in Service /\ ~ Unsent(lc.sid)
           /\ Present(lc.sid) /\ breakdowns[lc.sid] # {} /\ tombs[lc.sid] = 0
<1>1. lc.sid \in Service
      BY LcShape DEF TypeOK
<1>2. ~ Unsent(lc.sid)
      BY <1>1 DEF DocumentInv, UnsentIsClean
<1> QED
    BY <1>1, <1>2, Posted

LEMMA PostCleanup ==
    ASSUME TypeOK, WireInv, DocumentInv, OnlyRefusals, CleanupInv, NEW s \in Service,
           PostSave(s) \/ PostStep(s)
    PROVE  CleanupInv'
<1> USE DEF store, wire, PostGoto
<1>0. /\ post \in [ Service -> PostState ] /\ conns \in [ Service -> Conn \cup {NoConn} ]
      /\ breakdowns \in [ Service -> SUBSET Segment ]
      BY DEF TypeOK
<1>a. /\ \A t \in Service : PostFollows(t) /\ UnsentIsClean(t) /\ OneDocument(t) /\ Stays(t)
      /\ ~ CanFail
      BY DEF DocumentInv, CleanupInv, OnlyRefusals
<1>b. /\ \A t \in Service : t # s => post'[t] = post[t] /\ conns'[t] = conns[t]
      /\ post'[s].pc # "idle" /\ post'[s].status \in { post[s].status, "UNDER_PROVISIONING" }
      /\ UNCHANGED << oxp, toSDX, lc >>
      BY PostMoves
<1>c. \A t \in Service, g \in Segment : Deleting(t, g)' <=> Deleting(t, g)
  <2>1. ASSUME NEW h \in Segment, PlaceSend(s, h)
        PROVE  \A t \in Service, g \in Segment : Deleting(t, g)' <=> Deleting(t, g)
        BY <2>1 DEF PlaceSend, Orders, Deleting
  <2>2. CASE ~ \E h \in Segment : PlaceSend(s, h)
    <3>1. UNCHANGED toLC
          BY <2>2 DEF PostSave, PostStep, PlaceFail, PlaceMark, PlaceReturn, PlaceBroken,
             PostReject, PlaceBreakdown
    <3> QED
        BY <3>1 DEF Deleting
  <2> QED
      BY <2>1, <2>2
\* Only a connection nothing was sent for is written.
<1>1. ~ Unsent(s) => UNCHANGED << conns, breakdowns >>
      BY <1>a DEF PostSave, PostStep, PlaceFail, PlaceMark, PlaceReturn, PlaceBroken,
         PostReject, PlaceBreakdown, PlaceSend, PostFollows
<1>2. \A t \in Service : t # s => breakdowns'[t] = breakdowns[t]
  <2>1. ASSUME NEW B \in SUBSET Segment, PlaceBreakdown(s, B)
        PROVE  \A t \in Service : t # s => breakdowns'[t] = breakdowns[t]
        BY <1>0, <2>1 DEF PlaceBreakdown
  <2>2. CASE ~ \E B \in SUBSET Segment : PlaceBreakdown(s, B)
        BY <2>2 DEF PostSave, PostStep, PlaceFail, PlaceMark, PlaceReturn, PlaceBroken,
           PostReject, PlaceSend
  <2> QED
      BY <2>1, <2>2
<1>3. \A t \in Service : ~ Unsent(t) =>
          conns'[t] = conns[t] /\ breakdowns'[t] = breakdowns[t] /\ ~ Unsent(t)'
  <2>1. ~ Unsent(s) => ~ Unsent(s)'
        BY <1>b DEF Unsent
  <2> QED
      BY <1>b, <1>1, <1>2, <2>1 DEF Unsent
\* The documents it writes.
<1>4. /\ Present(s)'
      /\ PlannedOnce(s)' => breakdowns'[s] # {}
      /\ ~ Unsent(s)' => ~ Unsent(s) \/ conns'[s].status = "UNDER_PROVISIONING"
      /\ conns'[s].late = {} \/ (Present(s) /\ conns'[s].late = conns[s].late)
  <2>1. CASE PostSave(s)
    <3>1. conns'[s] = NewConn /\ post'[s].pc = "saved" /\ post'[s].status = post[s].status
          BY <1>0, <2>1 DEF PostSave, DbAdd, PostState
    <3>2. Unsent(s) /\ Unsent(s)'
          BY <1>a, <2>1, <3>1 DEF PostSave, PostFollows, Unsent
    <3>3. NewConn # NoConn /\ NewConn.late = {}
          BY NewConnType, ProvisioningAssumption DEF NewConn
    <3> QED
        BY <3>1, <3>2, <3>3 DEF Present, PlannedOnce
  <2>2. ASSUME Present(s), NEW st \in Status, DbSetStatus(s, st)
        PROVE  Present(s)' /\ conns'[s].late = conns[s].late /\ conns'[s].status = st
    <3> DEFINE d == [ conns[s] EXCEPT !.status = st ]
    <3>1. conns[s] \in Conn
          BY <1>0, <2>2 DEF Present
    <3>2. d \in Conn /\ d.late = conns[s].late /\ d.status = st
          BY <3>1 DEF Conn
    <3>3. conns' = [ conns EXCEPT ![s] = d ]
          BY <1>a, <2>2 DEF DbSetStatus, DbUpdate, OneDocument
    <3> HIDE DEF d
    <3>4. conns'[s] = d
          BY <1>0, <3>3
    <3> QED
        BY <3>2, <3>4, ProvisioningAssumption DEF Present
  <2>3. PostStep(s) => post[s].pc # "idle" /\ Present(s)
    <3>1. PostStep(s) => post[s].pc # "idle"
          BY DEF PostStep, PlaceFail, PlaceMark, PlaceReturn, PlaceBroken, PostReject,
             PlaceBreakdown, PlaceSend
    <3> QED
        BY <1>a, <3>1 DEF Stays
  <2>4. CASE PlaceMark(s)
    <3>1. /\ DbSetStatus(s, "UNDER_PROVISIONING") /\ UNCHANGED breakdowns
          /\ PlannedOnce(s)
          BY <2>4 DEF PlaceMark, PlannedOnce
    <3>2. Present(s)
          BY <2>3, <2>4 DEF PostStep
    <3>3. breakdowns[s] # {}
          BY <1>a, <3>1 DEF Stays
    <3> QED
        BY <2>2, <3>1, <3>2, <3>3 DEF Status
  <2>5. CASE PostReject(s)
    <3>1. /\ DbSetStatus(s, "REJECTED") \/ UNCHANGED conns
          /\ UNCHANGED breakdowns /\ post'[s].pc = "done" /\ post'[s].status = post[s].status
          BY <1>0, <2>5 DEF PostReject, PostState
    <3>2. Present(s)
          BY <2>3, <2>5 DEF PostStep
    <3>3. Present(s)' /\ conns'[s].late = conns[s].late
          BY <2>2, <3>1, <3>2 DEF Status, Present
    <3>4. (PlannedOnce(s)' => PlannedOnce(s)) /\ (~ Unsent(s)' => ~ Unsent(s))
          BY <3>1 DEF PlannedOnce, Unsent
    <3> QED
        BY <1>a, <3>1, <3>2, <3>3, <3>4 DEF Stays
  <2>6. ASSUME NEW B \in SUBSET Segment, PlaceBreakdown(s, B)
        PROVE  /\ UNCHANGED conns /\ breakdowns'[s] # {}
               /\ ~ Unsent(s)' => ~ Unsent(s)
        BY <1>0, <2>6 DEF PlaceBreakdown, Unsent, PostState
  <2>7. CASE PlaceFail(s) \/ PlaceReturn(s) \/ PlaceBroken(s) \/ \E g \in Segment : PlaceSend(s, g)
    <3>1. UNCHANGED << conns, breakdowns >>
          BY <2>7 DEF PlaceFail, PlaceReturn, PlaceBroken, PlaceSend
    <3>2. post'[s].status = post[s].status /\ post'[s].pc \in { "reject", "done", "sending" }
          BY <1>0, <2>7 DEF PlaceFail, PlaceReturn, PlaceBroken, PlaceSend, PostState
    <3>3. Present(s)
          BY <2>3, <2>7 DEF PostStep
    <3> QED
        BY <1>a, <3>1, <3>2, <3>3 DEF Stays, Present, PlannedOnce, Unsent
  <2> QED
      BY <2>1, <2>3, <2>4, <2>5, <2>6, <2>7 DEF PostStep, Present
<1>5. \A t \in Service : Stays(t)'
      BY <1>a, <1>b, <1>2, <1>4 DEF Stays, Present, PlannedOnce, Unsent
<1>6. DeletesSucceed'
      BY <1>b DEF CleanupInv, DeletesSucceed
<1>7. lc # Idle => /\ lc.sid \in Service /\ conns'[lc.sid] = conns[lc.sid]
                   /\ breakdowns'[lc.sid] = breakdowns[lc.sid]
      BY <1>3, WorkedOn
<1>8. WholeInv'
  <2>1. ASSUME NEW t \in Service, Present(t)', ~ Unsent(t)'
        PROVE  Whole(t, conns[t])'
    <3>1. CASE ~ Unsent(t)
      <4>1. Present(t) /\ Whole(t, conns[t])
            BY <3>1, Posted DEF CleanupInv, WholeInv
      <4> QED
          BY <1>3, <3>1, <4>1 DEF Whole
    <3>2. CASE Unsent(t)
      <4>1. t = s
            BY <1>b, <2>1, <3>2 DEF Unsent
      <4> QED
          BY <1>4, <2>1, <3>2, <4>1 DEF Whole
    <3> QED
        BY <3>1, <3>2
  <2>2. (lc.pc = "save" => Whole(lc.sid, lc.conn))'
        BY <1>b, <1>7 DEF CleanupInv, WholeInv, Whole, Idle
  <2> QED
      BY <2>1, <2>2 DEF WholeInv
<1>9. LateInv'
  <2>1. ASSUME NEW t \in Service, Present(t)'
        PROVE  LateDeleted(t, conns[t])'
    <3>1. conns'[t].late = {} \/ (Present(t) /\ conns'[t].late = conns[t].late)
          BY <1>b, <1>4, <2>1 DEF Present
    <3> QED
        BY <1>b, <1>c, <3>1 DEF CleanupInv, LateInv, LateDeleted
  <2>2. lc # Idle => LateDeleted(lc.sid, lc.conn)'
        BY <1>b, <1>c, <1>7 DEF CleanupInv, LateInv, LateDeleted
  <2> QED
      BY <1>b, <2>1, <2>2 DEF LateInv
<1>10. CleanupFollows'
      BY <1>b, <1>7 DEF CleanupInv, CleanupFollows
<1>11. ASSUME NEW t \in Service, NEW g \in Segment, oxp'[t][g] = "up"
       PROVE  Reached(t, g)'
  <2>1. ~ Unsent(t)
        BY <1>a, <1>b, <1>11 DEF UnsentIsClean
  <2>2. Reached(t, g)
        BY <1>b, <1>11 DEF CleanupInv
  <2> QED
      BY <1>b, <1>c, <1>3, <2>1, <2>2 DEF Reached, Answered, Working
<1> QED
    BY <1>5, <1>6, <1>8, <1>9, <1>10, <1>11 DEF CleanupInv
\* An answer is never ignored or dropped, and what the LC thread makes of it
\* keeps track of every EVC.
LEMMA LcReceiveCleanup ==
    ASSUME TypeOK, WireInv, DocumentInv, OnlyRefusals, CleanupInv, NEW m \in toSDX, LcReceive(m)
    PROVE  CleanupInv'
<1> USE DEF store
<1> DEFINE s == m.sid
           b == conns[m.sid]
<1>0. /\ m \in Answer /\ s \in Service /\ m.seg \in Segment /\ m.op \in { "post", "delete" }
      /\ lc = Idle
      BY DEF TypeOK, Answer, LcReceive
<1>1. /\ UNCHANGED << conns, tombs, breakdowns, toLC, oxp, post >> /\ toSDX' \subseteq toSDX
      /\ \A n \in toSDX : n # m => n \in toSDX'
      BY DEF LcReceive, Take
<1>2. ~ Unsent(s)
      BY <1>0 DEF DocumentInv, UnsentIsClean
<1>3. Known(m) /\ Present(s) /\ breakdowns[s] # {} /\ tombs[s] = 0
      BY <1>0, <1>2, Posted DEF Known
<1>4. Whole(s, b) /\ (m.op = "delete" => m.ok) /\ LateDeleted(s, b)
      BY <1>0, <1>2, <1>3 DEF CleanupInv, WholeInv, DeletesSucceed, LateInv
<1>5. ~ Dropped(m, b)
  <2>1. CanBringUp("UNDER_PROVISIONING")
        BY LegalAssumption DEF CanBringUp, CanMove, Needed, AnswerMoves
  <2>2. breakdowns[s] \in SUBSET Segment
        BY <1>0 DEF TypeOK
  <2>3. Cardinality(breakdowns[s]) \in Nat
        BY <2>2, ProvisioningAssumption, FS_Subset, FS_CardinalityType
  <2>4. b \in Conn
        BY <1>0, <1>3 DEF Present, TypeOK
  <2>5. b.count \in Nat
        BY <2>4 DEF Conn
  <2> QED
      BY <1>4, <2>1, <2>3, <2>5 DEF Dropped, Whole
<1>6. PICK pc \in { "cleanup", "late", "save" }, c \in Conn :
          /\ Handle(m, pc, c) /\ CopyOf(m, b, c)
          /\ \/ CopyCreated(m, b, pc, c)
             \/ CopyLate(m, b, pc, c)
             \/ CopyDeleted(m, b, pc, c)
             \/ CopyFailed(m, b, pc, c)
  <2>1. ~ (UNCHANGED lc /\ (Known(m) => Dropped(m, b)))
        BY <1>3, <1>5
  <2> QED
      BY <2>1, LcReceiveMakes
<1>7. b \in Conn
      BY <1>0, <1>3 DEF Present, TypeOK
<1> HIDE DEF b
<1>8. lc' # Idle /\ lc'.pc = pc /\ lc'.sid = s /\ lc'.seg = m.seg /\ lc'.conn = c
      BY <1>6 DEF Handle, Idle
<1>9. \A t \in Service : Stays(t)'
      BY <1>1 DEF CleanupInv, Stays, Present, PlannedOnce, Unsent
<1>10. DeletesSucceed'
      BY <1>1 DEF CleanupInv, DeletesSucceed
<1>11. WholeInv'
  <2>1. \A t \in Service : (Present(t) /\ ~ Unsent(t) => Whole(t, conns[t]))'
        BY <1>1 DEF CleanupInv, WholeInv, Present, Unsent, Whole
  <2>2. pc = "save" => Whole(s, c)
    <3>1. CASE CopyCreated(m, b, pc, c)
      <4>1. breakdowns[s] \in SUBSET Segment
            BY <1>0 DEF TypeOK
      <4>2. Cardinality(breakdowns[s]) \in Nat /\ b.count \in Nat
            BY <1>7, <4>1, ProvisioningAssumption, FS_Subset, FS_CardinalityType DEF Conn
      <4> QED
          BY <1>4, <3>1, <4>2 DEF CopyCreated, Whole
    <3>2. CASE CopyLate(m, b, pc, c)
          BY <3>2 DEF CopyLate, Whole
    <3>3. CASE CopyDeleted(m, b, pc, c)
          BY <1>4, <3>3 DEF CopyDeleted, Whole
    <3>4. CASE CopyFailed(m, b, pc, c)
          BY <1>4, <3>4 DEF CopyFailed, Whole
    <3> QED
        BY <1>6, <3>1, <3>2, <3>3, <3>4
  <2>3. (lc.pc = "save" => Whole(lc.sid, lc.conn))'
        BY <1>1, <1>8, <2>2 DEF Whole
  <2> QED
      BY <2>1, <2>3 DEF WholeInv
<1>12. LateInv'
  <2>1. \A t \in Service : (Present(t) => LateDeleted(t, conns[t]))'
        BY <1>1 DEF CleanupInv, LateInv, Present, LateDeleted, Deleting
  <2>2. c.late = b.late
        BY <1>6 DEF CopyOf
  <2>3. LateDeleted(lc.sid, lc.conn)'
        BY <1>1, <1>4, <1>8, <2>2 DEF LateDeleted, Deleting
  <2> QED
      BY <2>1, <2>3 DEF LateInv
<1>13. CleanupFollows'
  <2>1. /\ pc = "cleanup" => c.partial /\ ~ b.partial
        /\ pc = "late" => c.partial /\ m.seg \in c.evc
        /\ pc = "save" /\ b.partial => c.partial
        BY <1>6 DEF CopyOf, CopyCreated, CopyLate, CopyDeleted, CopyFailed
  <2> QED
      BY <1>1, <1>8, <2>1 DEF CleanupFollows, b
<1>14. ASSUME NEW t \in Service, NEW g \in Segment, oxp'[t][g] = "up"
       PROVE  Reached(t, g)'
  <2>0. oxp[t][g] = "up" /\ Reached(t, g)
        BY <1>1, <1>14 DEF CleanupInv
  <2>1. CASE Deleting(t, g)
        BY <1>1, <2>1 DEF Reached, Deleting
  <2>2. CASE Answered(t, g, TRUE) /\ m # [ op |-> "post", sid |-> t, seg |-> g, ok |-> TRUE ]
        BY <1>1, <2>2 DEF Reached, Answered
  <2>3. CASE m = [ op |-> "post", sid |-> t, seg |-> g, ok |-> TRUE ]
    <3>1. t = s /\ g = m.seg /\ m.op = "post" /\ m.ok
          BY <2>3
    <3>2. g \in c.evc
          BY <1>6, <3>1 DEF CopyOf
    <3>3. CASE CopyCreated(m, b, pc, c)
          BY <1>8, <3>1, <3>2, <3>3 DEF CopyCreated, Reached, Working
    <3>4. CASE CopyLate(m, b, pc, c) /\ pc = "late"
          BY <1>8, <3>1, <3>4 DEF Reached, Working
    <3>5. CASE CopyLate(m, b, pc, c) /\ pc = "save"
      <4>1. Deleting(t, g)
            BY <1>4, <2>0, <3>1, <3>5 DEF CopyLate, LateDeleted
      <4> QED
          BY <1>1, <4>1 DEF Reached, Deleting
    <3> QED
        BY <1>6, <3>1, <3>3, <3>4, <3>5 DEF CopyLate, CopyDeleted, CopyFailed
  <2>4. CASE ~ Working(t) /\ ~ conns[t].partial /\ g \in conns[t].evc
    <3>1. CASE t # s
          BY <1>1, <1>8, <2>4, <3>1 DEF Reached, Working
    <3>2. CASE t = s
      <4>1. ~ b.partial /\ g \in b.evc
            BY <2>4, <3>2 DEF b
      <4>2. m.op = "post" /\ ~ m.ok => g # m.seg
        <5>1. ASSUME m.op = "post", ~ m.ok
              PROVE  m = [ op |-> "post", sid |-> s, seg |-> m.seg, ok |-> FALSE ]
              BY <1>0, <5>1 DEF Answer
        <5>2. m.op = "post" /\ ~ m.ok => oxp[s][m.seg] = "refused"
              BY <1>0, <5>1 DEF WireInv, AnswersAreTrue, Answered
        <5> QED
            BY <2>0, <3>2, <5>2
      <4>3. g \in c.evc
            BY <1>0, <1>6, <4>1, <4>2 DEF CopyOf
      <4>4. pc = "cleanup" \/ (pc = "save" /\ ~ c.partial)
            BY <1>4, <1>6, <4>1 DEF CopyCreated, CopyLate, CopyDeleted, CopyFailed
      <4> QED
          BY <1>8, <3>2, <4>3, <4>4 DEF Reached, Working
    <3> QED
        BY <3>1, <3>2
  <2> QED
      BY <1>0, <2>0, <2>1, <2>2, <2>3, <2>4 DEF Reached, Working
<1> QED
    BY <1>9, <1>10, <1>11, <1>12, <1>13, <1>14 DEF CleanupInv

\* The steps that leave POST and the breakdowns alone, a conjunct at a time.
LEMMA LcWorkCleanup ==
    ASSUME TypeOK, DocumentInv, CleanupInv, lc # Idle, NEW s \in Service, s = lc.sid,
           UNCHANGED << breakdowns, toSDX, oxp, post >>, toLC \subseteq toLC',
           lc' = Idle \/ (lc' # Idle /\ lc'.sid = s /\ lc'.pc = "save" /\ lc'.conn.partial),
           \/ UNCHANGED conns
           \/ /\ lc' = Idle /\ \A t \in Service : t # s => conns'[t] = conns[t]
              /\ Present(s)' /\ Whole(s, conns[s])' /\ LateDeleted(s, conns[s])',
           lc' # Idle => LateDeleted(s, lc.conn)',
           \A g \in Segment : oxp[s][g] = "up" /\ Reached(s, g) => Reached(s, g)'
    PROVE  CleanupInv'
<1>0. ~ Unsent(s) /\ Present(s)
      BY WorkedOn
<1>1. \A t \in Service, g \in Segment : Deleting(t, g) => Deleting(t, g)'
      BY DEF Deleting
<1>2. \A t \in Service : t # s => conns'[t] = conns[t]
  <2>1. CASE UNCHANGED conns
        BY <2>1
  <2> QED
      BY <2>1
<1>3. Present(s)' /\ DeletesSucceed'
      BY <1>0 DEF Present, CleanupInv, DeletesSucceed
<1>4. \A t \in Service : Stays(t)'
      BY <1>2, <1>3 DEF CleanupInv, Stays, Present, PlannedOnce, Unsent
<1>5. WholeInv'
  <2>1. ASSUME NEW t \in Service, Present(t)', ~ Unsent(t)'
        PROVE  Whole(t, conns[t])'
    <3>1. ASSUME conns'[t] = conns[t] PROVE Whole(t, conns[t])'
          BY <2>1, <3>1 DEF CleanupInv, WholeInv, Whole, Present, Unsent
    <3> QED
        BY <1>2, <3>1
  <2>2. (lc.pc = "save" => Whole(lc.sid, lc.conn))'
        BY DEF Whole, Idle
  <2> QED
      BY <2>1, <2>2 DEF WholeInv
<1>6. LateInv'
  <2>1. ASSUME NEW t \in Service, Present(t)'
        PROVE  LateDeleted(t, conns[t])'
    <3>1. ASSUME conns'[t] = conns[t] PROVE LateDeleted(t, conns[t])'
          BY <1>1, <2>1, <3>1 DEF CleanupInv, LateInv, LateDeleted, Present
    <3> QED
        BY <1>2, <3>1
  <2>2. (lc # Idle => LateDeleted(lc.sid, lc.conn))'
        BY DEF LateDeleted
  <2> QED
      BY <2>1, <2>2 DEF LateInv
<1>7. CleanupFollows'
      BY DEF CleanupFollows
<1>8. ASSUME NEW t \in Service, NEW g \in Segment, oxp'[t][g] = "up"
      PROVE  Reached(t, g)'
  <2>1. Reached(t, g)
        BY <1>8 DEF CleanupInv
  <2>2. CASE t # s
        BY <1>1, <1>2, <2>1, <2>2 DEF Reached, Answered, Working
  <2> QED
      BY <1>8, <2>1, <2>2
<1> QED
    BY <1>3, <1>4, <1>5, <1>6, <1>7, <1>8 DEF CleanupInv

LEMMA LcCleanupCleanup ==
    ASSUME TypeOK, DocumentInv, Planned, CleanupInv, LcCleanup
    PROVE  CleanupInv'
<1>0. /\ lc \in [ pc : { "cleanup", "late", "save" }, sid : Service, seg : Segment, conn : Conn ]
      /\ lc # Idle /\ lc.pc = "cleanup"
      BY LcShape DEF LcCleanup, TypeOK, Idle
<1>s. PICK s \in Service : s = lc.sid
      BY <1>0
<1>1. ~ Unsent(s) /\ breakdowns[s] # {}
      BY <1>0, <1>s, WorkedOn
<1>2. /\ UNCHANGED << breakdowns, toSDX, oxp, post, conns >>
      /\ toLC' = toLC \cup Deletes(s, breakdowns[s], lc.conn)
      BY <1>s DEF LcCleanup
<1>3. /\ lc' # Idle /\ lc'.sid = s /\ lc'.pc = "save" /\ lc'.conn = lc.conn
      BY <1>0, <1>s DEF LcCleanup, Idle
<1>4. lc.conn.partial /\ LateDeleted(s, lc.conn)
      BY <1>0, <1>s DEF CleanupInv, CleanupFollows, LateInv
<1>5. LateDeleted(s, lc.conn)'
      BY <1>2, <1>3, <1>4 DEF LateDeleted, Deleting
<1>6. ASSUME NEW g \in Segment, oxp[s][g] = "up", Reached(s, g)
      PROVE  Reached(s, g)'
  <2>1. g \in breakdowns[s]
        BY <1>1, <1>6 DEF Planned
  <2>2. g \in lc.conn.evc => Deleting(s, g)'
        BY <1>2, <2>1 DEF Deletes, Orders, Deleting
  <2>3. Deleting(s, g) => Deleting(s, g)'
        BY <1>2 DEF Deleting
  <2>4. Answered(s, g, TRUE) => Answered(s, g, TRUE)'
        BY <1>2 DEF Answered
  <2>5. Deleting(s, g)' \/ Answered(s, g, TRUE)'
        BY <1>0, <1>4, <1>s, <1>6, <2>2, <2>3, <2>4 DEF Reached, Working
  <2> QED
      BY <1>3, <2>5 DEF Reached, Deleting, Answered
<1> QED
    BY <1>0, <1>s, <1>2, <1>3, <1>4, <1>5, <1>6, LcWorkCleanup
LEMMA LcLateCleanup ==
    ASSUME TypeOK, DocumentInv, OnlyRefusals, WireInv, Planned, CleanupInv, LcLate
    PROVE  CleanupInv'
<1>0. /\ lc \in [ pc : { "cleanup", "late", "save" }, sid : Service, seg : Segment, conn : Conn ]
      /\ lc # Idle /\ lc.pc = "late"
      BY LcShape DEF LcLate, TypeOK, Idle
<1>s. PICK s \in Service : s = lc.sid
      BY <1>0
<1>h. PICK h \in Segment : h = lc.seg
      BY <1>0
<1>1. ~ Unsent(s) /\ breakdowns[s] # {}
      BY <1>0, <1>s, WorkedOn
<1>2. /\ UNCHANGED << breakdowns, toSDX, oxp, post, conns >>
      /\ toLC' = toLC \cup Deletes(s, FirstInDomain(breakdowns[s], DomOf[h]), lc.conn)
      BY <1>s, <1>h DEF LcLate, store
<1>3. /\ lc' # Idle /\ lc'.sid = s /\ lc'.pc = "save"
      /\ lc'.conn.late = lc.conn.late \cup { DomOf[h] } /\ lc'.conn.partial = lc.conn.partial
  <2>1. lc'.sid = s /\ lc'.pc = "save"
        BY <1>0, <1>s DEF LcLate
  <2>2. lc'.conn.late = lc.conn.late \cup { DomOf[h] }
        BY <1>0, <1>h DEF LcLate, Conn
  <2>3. lc'.conn.partial = lc.conn.partial
        BY <1>0 DEF LcLate, Conn
  <2> QED
      BY <2>1, <2>2, <2>3 DEF Idle
<1>4. lc.conn.partial /\ h \in lc.conn.evc /\ LateDeleted(s, lc.conn)
      BY <1>0, <1>s, <1>h DEF CleanupInv, CleanupFollows, LateInv
\* Its domain has no other segment, and its breakdown has this one.
<1>5. Deleting(s, h)'
  <2>1. Created(s, h)
        BY <1>0, <1>s, <1>4 DEF WireInv, EveryCopy, EvcCreated
  <2>2. h \in breakdowns[s] /\ breakdowns[s] \subseteq Segment
        BY <1>1, <2>1 DEF Planned, Created, TypeOK
  <2>3. InDomain(breakdowns[s], DomOf[h]) = { h }
        BY <2>2 DEF InDomain, OnlyRefusals
  <2>4. FirstInDomain(breakdowns[s], DomOf[h]) = { h }
        BY <2>3 DEF FirstInDomain
  <2> QED
      BY <1>2, <1>4, <2>4 DEF Deletes, Orders, Deleting
<1>6. LateDeleted(s, lc.conn)'
  <2>1. \A g \in Segment : DomOf[g] = DomOf[h] => g = h
        BY DEF OnlyRefusals
  <2>2. \A g \in Segment : Deleting(s, g) => Deleting(s, g)'
        BY <1>2 DEF Deleting
  <2> QED
      BY <1>2, <1>3, <1>4, <1>5, <2>1, <2>2 DEF LateDeleted
<1>7. ASSUME NEW g \in Segment, oxp[s][g] = "up", Reached(s, g)
      PROVE  Reached(s, g)'
  <2>1. Deleting(s, g) => Deleting(s, g)'
        BY <1>2 DEF Deleting
  <2>2. Answered(s, g, TRUE) => Answered(s, g, TRUE)'
        BY <1>2 DEF Answered
  <2>3. Deleting(s, g)' \/ Answered(s, g, TRUE)'
        BY <1>0, <1>s, <1>h, <1>5, <1>7, <2>1, <2>2 DEF Reached, Working
  <2> QED
      BY <2>3 DEF Reached
<1> QED
    BY <1>0, <1>s, <1>2, <1>3, <1>4, <1>6, <1>7, LcWorkCleanup

LEMMA LcSaveCleanup ==
    ASSUME TypeOK, DocumentInv, CleanupInv, LcSave
    PROVE  CleanupInv'
<1>0. /\ lc \in [ pc : { "cleanup", "late", "save" }, sid : Service, seg : Segment, conn : Conn ]
      /\ lc # Idle /\ lc.pc = "save"
      /\ conns \in [ Service -> Conn \cup {NoConn} ]
      BY LcShape DEF LcSave, TypeOK, Idle
<1>s. PICK s \in Service : s = lc.sid
      BY <1>0
<1>1. Present(s) /\ tombs[s] = 0 /\ ~ Unsent(s)
      BY <1>0, <1>s, WorkedOn
<1>2. UNCHANGED << breakdowns, toLC, toSDX, oxp, post >> /\ lc' = Idle
      BY DEF LcSave, wire
<1> DEFINE d == [ lc.conn EXCEPT !.handled = conns[s].handled ]
<1>3. /\ d # NoConn /\ d.partial = lc.conn.partial /\ d.evc = lc.conn.evc
      /\ d.late = lc.conn.late /\ d.status = lc.conn.status /\ d.count = lc.conn.count
  <2>1. conns[s] \in Conn /\ lc.conn \in Conn
        BY <1>0, <1>1 DEF Present
  <2>2. d \in Conn
        BY <2>1 DEF Conn
  <2>3. d.partial = lc.conn.partial /\ d.evc = lc.conn.evc /\ d.late = lc.conn.late
        BY <2>1 DEF Conn
  <2>4. d.status = lc.conn.status /\ d.count = lc.conn.count
        BY <2>1 DEF Conn
  <2> QED
      BY <2>2, <2>3, <2>4, ProvisioningAssumption
<1>4. conns' = [ conns EXCEPT ![s] = d ]
      BY <1>s, <1>1 DEF LcSave, DbUpdate
<1> HIDE DEF d
<1>5. conns'[s] = d /\ \A t \in Service : t # s => conns'[t] = conns[t]
      BY <1>0, <1>4
<1>6. Whole(s, lc.conn) /\ LateDeleted(s, lc.conn)
      BY <1>0, <1>s DEF CleanupInv, WholeInv, LateInv
<1>7. Present(s)' /\ Whole(s, conns[s])' /\ LateDeleted(s, conns[s])'
      BY <1>2, <1>3, <1>5, <1>6 DEF Present, Whole, LateDeleted, Deleting
<1>8. ASSUME NEW g \in Segment, oxp[s][g] = "up", Reached(s, g)
      PROVE  Reached(s, g)'
  <2>1. \/ Deleting(s, g) \/ Answered(s, g, TRUE)
        \/ ~ lc.conn.partial /\ g \in lc.conn.evc
        BY <1>0, <1>s, <1>8 DEF Reached, Working
  <2> QED
      BY <1>2, <1>3, <1>5, <2>1 DEF Reached, Deleting, Answered, Working
<1> QED
    BY <1>0, <1>s, <1>2, <1>5, <1>7, <1>8, LcWorkCleanup

LEMMA OxpCleanup ==
    ASSUME TypeOK, WireInv, DocumentInv, OnlyRefusals, CleanupInv, OxpStep
    PROVE  CleanupInv'
<1>1. PICK m \in toLC : OxpCreate(m) \/ OxpRefuse(m) \/ OxpDelete(m)
      BY DEF OxpStep, OxpServe, OxpDeleteFails, OnlyRefusals, Undisturbed
<1>2. /\ m \in Order /\ m.sid \in Service /\ m.seg \in Segment
      /\ UNCHANGED << conns, breakdowns, post, lc >>
      /\ toLC' = toLC \ {m} /\ toSDX \subseteq toSDX'
      BY <1>1 DEF TypeOK, Order, OxpCreate, OxpRefuse, OxpDelete, Serve, store
<1>3. \A t \in Service, g \in Segment :
          t # m.sid \/ g # m.seg => oxp'[t][g] = oxp[t][g]
  <2>1. PICK st : oxp' = [ oxp EXCEPT ![m.sid][m.seg] = st ]
        BY <1>1 DEF OxpCreate, OxpRefuse, OxpDelete, Serve
  <2> QED
      BY <1>2, <2>1 DEF TypeOK
<1>4. /\ OxpDelete(m) => oxp'[m.sid][m.seg] = "gone"
      /\ OxpRefuse(m) => oxp'[m.sid][m.seg] = "refused"
      /\ OxpCreate(m) => Answered(m.sid, m.seg, TRUE)'
      /\ m.op = "delete" => OxpDelete(m)
  <2>1. OxpDelete(m) => oxp'[m.sid][m.seg] = "gone"
        BY <1>2 DEF OxpDelete, Serve, TypeOK
  <2>2. OxpRefuse(m) => oxp'[m.sid][m.seg] = "refused"
        BY <1>2 DEF OxpRefuse, Serve, TypeOK
  <2>3. OxpCreate(m) => Answered(m.sid, m.seg, TRUE)'
        BY DEF OxpCreate, Serve, Answered
  <2> QED
      BY <1>1, <2>1, <2>2, <2>3 DEF OxpCreate, OxpRefuse
\* A delete message is taken only to remove the EVC.
<1>5. ASSUME NEW t \in Service, NEW g \in Segment, Deleting(t, g)
      PROVE  Deleting(t, g)' \/ oxp'[t][g] = "gone"
  <2>1. CASE m = [ op |-> "delete", sid |-> t, seg |-> g ]
        BY <1>4, <2>1
  <2>2. CASE m # [ op |-> "delete", sid |-> t, seg |-> g ]
        BY <1>2, <1>5, <2>2 DEF Deleting
  <2> QED
      BY <2>1, <2>2
\* What is gone stays gone.
<1>6. ASSUME NEW t \in Service, NEW g \in Segment, oxp[t][g] = "gone"
      PROVE  oxp'[t][g] = "gone"
  <2>1. CASE m.op = "delete"
        BY <1>3, <1>4, <1>6, <2>1
  <2>2. CASE m.op = "post"
    <3>1. m = [ op |-> "post", sid |-> m.sid, seg |-> m.seg ]
          BY <1>2, <2>2 DEF Order
    <3>2. oxp[m.sid][m.seg] = "none"
          BY <1>2, <3>1 DEF WireInv, CreatedOnce, Creating
    <3> QED
        BY <1>3, <1>6, <3>2
  <2> QED
      BY <1>2, <2>1, <2>2 DEF Order
<1>7. LateInv'
  <2>1. \A t \in Service : Present(t)' => LateDeleted(t, conns[t])
        BY <1>2 DEF CleanupInv, LateInv, Present
  <2>2. lc # Idle => lc.sid \in Service /\ LateDeleted(lc.sid, lc.conn)
        BY WorkedOn DEF CleanupInv, LateInv
  <2>3. \A t \in Service : Present(t)' => LateDeleted(t, conns[t])'
        BY <1>2, <1>5, <1>6, <2>1 DEF LateDeleted
  <2>4. lc # Idle => LateDeleted(lc.sid, lc.conn)'
        BY <1>2, <1>5, <1>6, <2>2 DEF LateDeleted
  <2> QED
      BY <1>2, <2>3, <2>4 DEF LateInv
<1>8. DeletesSucceed'
      BY <1>1 DEF CleanupInv, DeletesSucceed, OxpCreate, OxpRefuse, OxpDelete, Serve
<1>9. \A t \in Service : Stays(t)'
       BY <1>2 DEF CleanupInv, Stays, Present, PlannedOnce, Unsent
<1>10. WholeInv' /\ CleanupFollows'
       BY <1>2 DEF CleanupInv, WholeInv, CleanupFollows, Whole, Present, Unsent
<1>11. ASSUME NEW t \in Service, NEW g \in Segment, oxp'[t][g] = "up"
       PROVE  Reached(t, g)'
  <2>1. CASE t = m.sid /\ g = m.seg
    <3>1. OxpCreate(m)
          BY <1>1, <1>4, <1>11, <2>1
    <3> QED
        BY <1>4, <2>1, <3>1 DEF Reached
  <2>2. CASE t # m.sid \/ g # m.seg
    <3>1. Reached(t, g)
          BY <1>3, <1>11, <2>2 DEF CleanupInv
    <3>2. Deleting(t, g) => Deleting(t, g)'
          BY <1>5, <1>11
    <3>3. Answered(t, g, TRUE) => Answered(t, g, TRUE)'
          BY <1>2 DEF Answered
    <3> QED
        BY <1>2, <3>1, <3>2, <3>3 DEF Reached, Working
  <2> QED
      BY <2>1, <2>2
<1> QED
    BY <1>7, <1>8, <1>9, <1>10, <1>11 DEF CleanupInv

LEMMA NextCleanup ==
    ASSUME TypeOK, WireInv, DocumentInv, Planned, OnlyRefusals, CleanupInv, [Next]_vars
    PROVE  CleanupInv'
<1>1. ~ MonStep
      BY DEF OnlyRefusals, Undisturbed, DocumentInv, Quiet, MonStep, MonScan, MonTimeout,
         MonCleanup, MonCleanupFails, Idle
<1>2. Request = {}
      BY DEF OnlyRefusals
<1>3. CASE LcStep
  <2>1. \/ \E m \in toSDX : LcReceive(m)
        \/ LcCleanup \/ LcLate \/ LcSave
        BY <1>3 DEF DocumentInv, Quiet, OnlyRefusals, LcStep, LcReport, LcCleanupFails,
           LcLateFails, LcReplace
  <2> QED
      BY <2>1, LcReceiveCleanup, LcCleanupCleanup, LcLateCleanup, LcSaveCleanup
<1>4. CASE UNCHANGED vars
  <2>1. \A s \in Service : Stays(s)'
        BY <1>4 DEF vars, CleanupInv, Stays, Present, PlannedOnce, Unsent
  <2>2. DeletesSucceed' /\ WholeInv' /\ LateInv' /\ CleanupFollows'
        BY <1>4 DEF vars, CleanupInv, DeletesSucceed, WholeInv, LateInv, CleanupFollows, Whole,
           LateDeleted, Present, Unsent, Deleting
  <2>3. \A s \in Service, g \in Segment : oxp'[s][g] = "up" => Reached(s, g)'
        BY <1>4 DEF vars, CleanupInv, Reached, Deleting, Answered, Working
  <2> QED
      BY <2>1, <2>2, <2>3 DEF CleanupInv
<1> QED
    BY <1>1, <1>2, <1>3, <1>4, PostCleanup, OxpCleanup DEF Next

\* When nothing but a refused EVC goes wrong and no two segments of a
\* breakdown lie in one domain, a recorded partial cleanup misses no EVC,
\* however late an OXP creates it and however often its answer is delivered.
THEOREM CleanupCompleteCorrect ==
    ASSUME OnlyRefusals
    PROVE  Spec => []CleanupComplete
<1>1. Undisturbed
      BY DEF OnlyRefusals
<1>2. Init => CleanupInv
      BY InitCleanup
<1>3. TypeOK /\ WireInv /\ DocumentInv /\ Planned /\ CleanupInv /\ [Next]_vars => CleanupInv'
      BY NextCleanup
<1>4. CleanupInv => CleanupComplete
  <2> SUFFICES ASSUME CleanupInv, NEW s \in Service, NEW g \in Segment,
                      conns[s].partial, oxp[s][g] = "up"
               PROVE  \/ Deleting(s, g) \/ Answered(s, g, TRUE)
                      \/ lc.pc = "late" /\ lc.sid = s /\ lc.seg = g
      BY DEF CleanupComplete, Deleting, Answered
  <2>1. Reached(s, g)
        BY DEF CleanupInv
  <2> QED
      BY <2>1 DEF CleanupInv, CleanupFollows, Reached, Working
<1>5. Spec => [](TypeOK /\ WireInv /\ DocumentInv)
      BY <1>1, DocumentCorrect
<1> QED
    BY <1>2, <1>3, <1>4, <1>5, PlannedCorrect, PTL DEF Spec
=============================================================================
