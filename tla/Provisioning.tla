---------------------------- MODULE Provisioning ----------------------------
(***************************************************************************)
(* How an L2VPN connection is provisioned, timed out and deleted.          *)
(*                                                                         *)
(* Four kinds of thread of the controller work on one connection document: *)
(*   post   the HTTP worker that serves POST: save the request, have the   *)
(*          path computed, save its breakdown (one segment per OXP domain  *)
(*          crossed), publish one create message per segment;              *)
(*   del    the HTTP workers that serve DELETE;                            *)
(*   lc     the one thread that handles the local controllers' answers;    *)
(*   mon    the monitor that times out connections stuck in                *)
(*          UNDER_PROVISIONING.                                            *)
(* They share MongoDB, without a lock or a transaction: each reads the     *)
(* document, works on its copy, and writes fields or the whole document    *)
(* back.  A step below is what one thread does between two reads or        *)
(* writes of what another can change.                                      *)
(*                                                                         *)
(* The OXPs and the message broker are outside the repository; they are    *)
(* modelled from the messages src/ sends and handles.                      *)
(***************************************************************************)
EXTENDS Integers, FiniteSets, ConnectionSM

CONSTANTS
    Service,            \* connection ids; each is POSTed once (a fresh uuid)
    Segment,            \* keys a breakdown may have
    Domain,             \* OXP domain names
    DomOf,              \* the domain a segment lies in
    Request,            \* DELETE requests, each served once
    NoConn,             \* "there is no such document"
    TimeoutEnabled,     \* OXP_RESPONSE_TIMEOUT > 0
    CanFail,            \* publishing to the broker may raise
    SettleMayExpire,    \* a DELETE may give up waiting for the answers
    DeleteMayFail,      \* an OXP may fail to remove an EVC
    MaxRedeliveries,    \* how many answers are delivered a second time
    ReportedStatus      \* statuses the OXPs report unasked

VARIABLES
    conns,       \* collection CONNECTIONS: the visible document of an id
    tombs,       \* ... and how many of its documents are marked deleted
    breakdowns,  \* collection BREAKDOWNS: the segments; {} when absent
    history,     \* collection HISTORICAL_CONNECTIONS: number of entries
    reserved,    \* the PCE holds bandwidth and VLANs for the id
    toLC,        \* create and delete messages published, not yet served
    toSDX,       \* answers published, not yet taken by the LC thread
    reports,     \* status changes published, not yet taken
    dups,        \* redeliveries so far
    oxp,         \* each segment's EVC at its OXP
    post, del, lc, mon   \* the threads

vars == << conns, tombs, breakdowns, history, reserved, toLC, toSDX, reports,
           dups, oxp, post, del, lc, mon >>

store == << conns, tombs, breakdowns, history, reserved >>
wire == << toLC, toSDX, reports, dups, oxp >>

(***************************************************************************)
(* Documents and messages.  resp is the set of segments oxp_response has   *)
(* an entry for, evc those whose entry holds the EVC's id; late is         *)
(* late_cleanup_domains.                                                   *)
(***************************************************************************)
Conn ==
    [ status : Status, count : Nat, resp : SUBSET Segment,
      evc : SUBSET Segment, partial : BOOLEAN, handled : BOOLEAN,
      late : SUBSET Domain ]

Order == [ op : {"post", "delete"}, sid : Service, seg : Segment ]
Answer == [ op : {"post", "delete"}, sid : Service, seg : Segment, ok : BOOLEAN ]
Report == [ sid : Service, status : Status ]

NewConn ==
    [ status |-> "REQUESTED", count |-> 0, resp |-> {}, evc |-> {},
      partial |-> FALSE, handled |-> FALSE, late |-> {} ]

Idle == [ pc |-> "idle" ]
Finished == [ pc |-> "done" ]

ASSUME ProvisioningAssumption ==
    /\ IsFiniteSet(Segment)
    /\ DomOf \in [ Segment -> Domain ]
    /\ NoConn \notin Conn
    /\ TimeoutEnabled \in BOOLEAN /\ CanFail \in BOOLEAN
    /\ SettleMayExpire \in BOOLEAN /\ DeleteMayFail \in BOOLEAN
    /\ MaxRedeliveries \in Nat
    /\ ReportedStatus \subseteq Status

PostState ==
    [ pc : { "idle", "saved", "planned", "sending", "reject", "done" },
      status : Status, todo : SUBSET Segment ]

DelState ==
    { Idle, Finished } \cup
    [ pc : { "settle", "release", "send", "drop", "archive", "unlink", "mark",
             "markBreakdown" },
      sid : Service, conn : Conn, brk : SUBSET Segment ]

LcState ==
    { Idle } \cup
    [ pc : { "cleanup", "late", "save" }, sid : Service, seg : Segment, conn : Conn ]
    \cup [ pc : { "replace" }, sid : Service, conn : Conn ]

MonState ==
    { Idle } \cup
    [ pc : { "scan" }, snap : [ Service -> Conn \cup {NoConn} ] ]
    \cup [ pc : { "cleanup" }, snap : [ Service -> Conn \cup {NoConn} ],
           sid : Service, conn : Conn ]

TypeOK ==
    /\ conns \in [ Service -> Conn \cup {NoConn} ]
    /\ tombs \in [ Service -> Nat ]
    /\ breakdowns \in [ Service -> SUBSET Segment ]
    /\ history \in [ Service -> Nat ]
    /\ reserved \in [ Service -> BOOLEAN ]
    /\ toLC \subseteq Order
    /\ toSDX \subseteq Answer
    /\ reports \subseteq Report
    /\ dups \in Nat
    /\ oxp \in [ Service -> [ Segment -> { "none", "up", "refused", "gone" } ] ]
    /\ post \in [ Service -> PostState ]
    /\ del \in [ Request -> DelState ]
    /\ lc \in LcState
    /\ mon \in MonState

Init ==
    /\ conns = [ s \in Service |-> NoConn ]
    /\ tombs = [ s \in Service |-> 0 ]
    /\ breakdowns = [ s \in Service |-> {} ]
    /\ history = [ s \in Service |-> 0 ]
    /\ reserved = [ s \in Service |-> FALSE ]
    /\ toLC = {} /\ toSDX = {} /\ reports = {} /\ dups = 0
    /\ oxp = [ s \in Service |-> [ g \in Segment |-> "none" ] ]
    /\ post = [ s \in Service |->
                  [ pc |-> "idle", status |-> "REQUESTED", todo |-> {} ] ]
    /\ del = [ r \in Request |-> Idle ]
    /\ lc = Idle
    /\ mon = Idle

(***************************************************************************)
(* DbUtils.  Reads skip documents marked deleted; update_field_in_json and *)
(* delete_one_entry do not, and act on the oldest document of the id,      *)
(* which is a marked one whenever there is any.                            *)
(***************************************************************************)
Present(s) == conns[s] # NoConn

\* add_key_value_pair_to_db: replace the visible document, or insert one.
DbAdd(s, doc) == conns' = [ conns EXCEPT ![s] = doc ]

\* update_field_in_json on the field(s) in which doc differs from conns[s].
DbUpdate(s, doc) ==
    conns' = IF Present(s) /\ tombs[s] = 0
             THEN [ conns EXCEPT ![s] = doc ] ELSE conns

DbSetStatus(s, st) == DbUpdate(s, [ conns[s] EXCEPT !.status = st ])

\* Mutant of DbMark: the wrong filter, no document is marked.
MutMarkNothing(s) == UNCHANGED << conns, tombs >>

\* mark_deleted
DbMark(s) ==
    /\ conns' = [ conns EXCEPT ![s] = NoConn ]
    /\ tombs' = IF Present(s) THEN [ tombs EXCEPT ![s] = @ + 1 ] ELSE tombs

\* Mutant of DbDeleteOne: the visible document preferred to a marked one that
\* is not there.
MutDeleteMarked(s) ==
    IF Present(s)
    THEN conns' = [ conns EXCEPT ![s] = NoConn ] /\ UNCHANGED tombs
    ELSE tombs' = [ tombs EXCEPT ![s] = @ - 1 ] /\ UNCHANGED conns

\* delete_one_entry
DbDeleteOne(s) ==
    IF tombs[s] > 0
    THEN tombs' = [ tombs EXCEPT ![s] = @ - 1 ] /\ UNCHANGED conns
    ELSE conns' = [ conns EXCEPT ![s] = NoConn ] /\ UNCHANGED tombs

Orders(op, s, G) == [ op : {op}, sid : {s}, seg : G ]

\* Mutant of Deletes: a message for every segment, EVC id or not.
MutDeletesAll(s, B, c) == Orders("delete", s, B)

\* What _send_breakdown_to_lc publishes for a delete: one message for each
\* segment of B whose EVC id the caller's copy c of the document holds.
Deletes(s, B, c) == Orders("delete", s, B \cap c.evc)

(***************************************************************************)
(* POST                                                                    *)
(***************************************************************************)
PostGoto(s, pc) == post' = [ post EXCEPT ![s].pc = pc ]

\* l2vpn_controller.place_connection up to the handler's call.
PostSave(s) ==
    /\ post[s].pc = "idle"
    /\ DbAdd(s, NewConn)
    /\ PostGoto(s, "saved")
    /\ UNCHANGED << tombs, breakdowns, history, reserved, wire, del, lc, mon >>

\* Every way connection_handler.place_connection returns before it has a
\* breakdown: a request it cannot validate, no topology, no path.
PlaceFail(s) ==
    /\ post[s].pc = "saved"
    /\ PostGoto(s, "reject")
    /\ UNCHANGED << store, wire, del, lc, mon >>

\* A path is found and reserved, and its breakdown B is saved.
PlaceBreakdown(s, B) ==
    /\ post[s].pc = "saved"
    /\ B # {}
    /\ breakdowns' = [ breakdowns EXCEPT ![s] = B ]
    /\ reserved' = [ reserved EXCEPT ![s] = TRUE ]
    /\ post' = [ post EXCEPT ![s].pc = "planned", ![s].todo = B ]
    /\ UNCHANGED << conns, tombs, history, wire, del, lc, mon >>

\* The thread's own copy is moved by the state machine, the document only
\* gets the new status.
PlaceMark(s) ==
    /\ post[s].pc = "planned"
    /\ DbSetStatus(s, "UNDER_PROVISIONING")
    /\ post' = [ post EXCEPT ![s].pc = "sending", ![s].status = "UNDER_PROVISIONING" ]
    /\ UNCHANGED << tombs, breakdowns, history, reserved, wire, del, lc, mon >>

PlaceSend(s, g) ==
    /\ post[s].pc = "sending"
    /\ g \in post[s].todo
    /\ toLC' = toLC \cup Orders("post", s, {g})
    /\ post' = [ post EXCEPT ![s].todo = @ \ {g} ]
    /\ UNCHANGED << store, toSDX, reports, dups, oxp, del, lc, mon >>

PlaceReturn(s) ==
    /\ post[s].pc = "sending"
    /\ post[s].todo = {}
    /\ PostGoto(s, "done")
    /\ UNCHANGED << store, wire, del, lc, mon >>

\* The handler's `except Exception`: what was sent stays sent.
PlaceBroken(s) ==
    /\ CanFail
    /\ post[s].pc = "sending"
    /\ PostGoto(s, "reject")
    /\ UNCHANGED << store, wire, del, lc, mon >>

\* Not a 2xx: the thread moves its own copy to REJECTED, and only if that
\* is legal (else the request ends with an exception) writes the status.
PostReject(s) ==
    /\ post[s].pc = "reject"
    /\ IF CanMove(post[s].status, "REJECTED")
       THEN DbSetStatus(s, "REJECTED") ELSE UNCHANGED conns
    /\ PostGoto(s, "done")
    /\ UNCHANGED << tombs, breakdowns, history, reserved, wire, del, lc, mon >>

PostStep(s) ==
    \/ PlaceFail(s) \/ PlaceMark(s) \/ PlaceReturn(s) \/ PlaceBroken(s) \/ PostReject(s)
    \/ \E B \in SUBSET Segment : PlaceBreakdown(s, B)
    \/ \E g \in Segment : PlaceSend(s, g)

(***************************************************************************)
(* DELETE: l2vpn_controller.delete_connection and remove_connection.       *)
(* Whatever the latter returns, the former marks both documents deleted.   *)
(***************************************************************************)
DelGoto(r, pc) == del' = [ del EXCEPT ![r] = [ @ EXCEPT !.pc = pc ] ]

\* The reads.  With no document the request ends in 404 and changes nothing.
DelRead(r, s) ==
    /\ del[r] = Idle
    /\ Present(s)
    /\ LET c == conns[s]
           B == breakdowns[s]
           next == IF c.status \notin Removable THEN "mark"
                   ELSE IF c.status = "UNDER_PROVISIONING" /\ B # {} THEN "settle"
                   ELSE "release"
       IN  del' = [ del EXCEPT ![r] = [ pc |-> next, sid |-> s, conn |-> c, brk |-> B ] ]
    /\ UNCHANGED << store, wire, post, lc, mon >>

\* _wait_for_provisioning_to_settle: a poll that ends the wait.  An expired
\* wait returns what the last poll read.
DelSettle(r) ==
    /\ del[r].pc = "settle"
    /\ LET s == del[r].sid IN
       \/ /\ ~ Present(s)
          /\ DelGoto(r, "mark")
       \/ /\ Present(s)
          /\ \/ conns[s].status # "UNDER_PROVISIONING"
             \/ Cardinality(conns[s].resp) >= Cardinality(del[r].brk)
             \/ SettleMayExpire
          /\ del' = [ del EXCEPT ![r] = [ @ EXCEPT !.pc = "release", !.conn = conns[s] ] ]
    /\ UNCHANGED << store, wire, post, lc, mon >>

\* te_manager.delete_connection
DelRelease(r) ==
    /\ del[r].pc = "release"
    /\ reserved' = [ reserved EXCEPT ![del[r].sid] = FALSE ]
    /\ DelGoto(r, IF del[r].brk = {} THEN "archive" ELSE "send")
    /\ UNCHANGED << conns, tombs, breakdowns, history, wire, post, lc, mon >>

DelSend(r) ==
    /\ del[r].pc = "send"
    /\ toLC' = toLC \cup Deletes(del[r].sid, del[r].brk, del[r].conn)
    /\ DelGoto(r, "drop")
    /\ UNCHANGED << store, toSDX, reports, dups, oxp, post, lc, mon >>

\* A publish raises after some messages: 400, and the controller goes on to
\* mark the documents deleted.
DelSendFails(r) ==
    /\ CanFail
    /\ del[r].pc = "send"
    /\ \E D \in SUBSET Deletes(del[r].sid, del[r].brk, del[r].conn) :
           /\ D # Deletes(del[r].sid, del[r].brk, del[r].conn)
           /\ toLC' = toLC \cup D
    /\ DelGoto(r, "mark")
    /\ UNCHANGED << store, toSDX, reports, dups, oxp, post, lc, mon >>

DelDrop(r) ==
    /\ del[r].pc = "drop"
    /\ breakdowns' = [ breakdowns EXCEPT ![del[r].sid] = {} ]
    /\ DelGoto(r, "archive")
    /\ UNCHANGED << conns, tombs, history, reserved, wire, post, lc, mon >>

\* archive_connection: its early return, or the copy it will archive.
DelArchive(r) ==
    /\ del[r].pc = "archive"
    /\ DelGoto(r, IF Present(del[r].sid) THEN "unlink" ELSE "mark")
    /\ UNCHANGED << store, wire, post, lc, mon >>

\* ... the document is deleted and the copy appended to the history.
DelUnlink(r) ==
    /\ del[r].pc = "unlink"
    /\ DbDeleteOne(del[r].sid)
    /\ history' = [ history EXCEPT ![del[r].sid] = @ + 1 ]
    /\ DelGoto(r, "mark")
    /\ UNCHANGED << breakdowns, reserved, wire, post, lc, mon >>

DelMark(r) ==
    /\ del[r].pc = "mark"
    /\ DbMark(del[r].sid)
    /\ DelGoto(r, "markBreakdown")
    /\ UNCHANGED << breakdowns, history, reserved, wire, post, lc, mon >>

DelMarkBreakdown(r) ==
    /\ del[r].pc = "markBreakdown"
    /\ breakdowns' = [ breakdowns EXCEPT ![del[r].sid] = {} ]
    /\ del' = [ del EXCEPT ![r] = Finished ]
    /\ UNCHANGED << conns, tombs, history, reserved, wire, post, lc, mon >>

DelStep(r) ==
    \/ DelSettle(r) \/ DelRelease(r) \/ DelSend(r) \/ DelSendFails(r) \/ DelDrop(r)
    \/ DelArchive(r) \/ DelUnlink(r) \/ DelMark(r) \/ DelMarkBreakdown(r)

(***************************************************************************)
(* The LC thread: process_lc_json_msg on an oxp_conn_response.             *)
(***************************************************************************)
\* An answer is acknowledged once it is queued: if the connection to the
\* broker is lost in between, the broker delivers it again.
Take(m) ==
    /\ m \in toSDX
    /\ \/ toSDX' = toSDX \ {m} /\ UNCHANGED dups
       \/ /\ dups < MaxRedeliveries
          /\ dups' = dups + 1
          /\ UNCHANGED toSDX

\* oxp_response[domain] is overwritten; the answer to a delete keeps the EVC
\* id already there, a refused create carries none.
Recorded(c, m) ==
    [ c EXCEPT !.resp = @ \cup {m.seg},
               !.evc = IF m.op = "delete" THEN @
                       ELSE IF m.ok THEN @ \cup {m.seg} ELSE @ \ {m.seg} ]

\* From RECOVERING the connection passes through UNDER_PROVISIONING.
CanBringUp(st) ==
    IF st = "RECOVERING"
    THEN CanMove(st, "UNDER_PROVISIONING") /\ CanMove("UNDER_PROVISIONING", "UP")
    ELSE CanMove(st, "UP")

Handle(m, pc, c) == lc' = [ pc |-> pc, sid |-> m.sid, seg |-> m.seg, conn |-> c ]

Known(m) == Present(m.sid) /\ breakdowns[m.sid] # {}

\* No document, or no breakdown: the answer is ignored.
LcIgnore(m) ==
    /\ ~ Known(m)
    /\ UNCHANGED lc

\* Mutant of LcCreated: a refused create counts too.
MutCountRefused(m) ==
    /\ Known(m) /\ m.op = "post"
    /\ ~ conns[m.sid].partial
    /\ LET c == [ Recorded(conns[m.sid], m) EXCEPT !.count = @ + 1 ] IN
       IF c.count # Cardinality(breakdowns[m.sid])
       THEN Handle(m, "save", c)
       ELSE IF CanBringUp(c.status)
       THEN Handle(m, "save", [ c EXCEPT !.status = "UP" ])
       ELSE UNCHANGED lc

\* An EVC is created; it counts, and the last one brings the connection up.
LcCreated(m) ==
    /\ Known(m) /\ m.ok /\ m.op = "post"
    /\ ~ conns[m.sid].partial
    /\ LET c == [ Recorded(conns[m.sid], m) EXCEPT !.count = @ + 1 ] IN
       IF c.count # Cardinality(breakdowns[m.sid])
       THEN Handle(m, "save", c)
       ELSE IF CanBringUp(c.status)
       THEN Handle(m, "save", [ c EXCEPT !.status = "UP" ])
       ELSE UNCHANGED lc      \* the state machine raises: nothing is saved

\* Mutant of LcCreatedLate: no late cleanup.
MutLateKept(m) ==
    /\ Known(m) /\ m.ok /\ m.op = "post"
    /\ conns[m.sid].partial
    /\ Handle(m, "save", Recorded(conns[m.sid], m))

\* An EVC is created for a connection that is being cleaned up.
LcCreatedLate(m) ==
    /\ Known(m) /\ m.ok /\ m.op = "post"
    /\ conns[m.sid].partial
    /\ Handle(m, IF DomOf[m.seg] \in conns[m.sid].late THEN "save" ELSE "late",
              Recorded(conns[m.sid], m))

LcDeleted(m) ==
    /\ Known(m) /\ m.ok /\ m.op = "delete"
    /\ Handle(m, "save", Recorded(conns[m.sid], m))

\* Mutant of LcFailed: the status is left alone.
MutFailedStatusKept(m) ==
    /\ Known(m) /\ ~ m.ok
    /\ LET c == conns[m.sid]
           d == Recorded(c, m)
       IN  IF m.op = "post" /\ ~ c.partial
           THEN Handle(m, "cleanup", [ d EXCEPT !.partial = TRUE ])
           ELSE Handle(m, "save", d)

\* Mutant of LcFailed: every status becomes DOWN.
MutFailedAlwaysDown(m) ==
    /\ Known(m) /\ ~ m.ok
    /\ LET c == conns[m.sid]
           d == [ Recorded(c, m) EXCEPT !.status = "DOWN" ]
       IN  IF m.op = "post" /\ ~ c.partial
           THEN Handle(m, "cleanup", [ d EXCEPT !.partial = TRUE ])
           ELSE Handle(m, "save", d)

LcFailed(m) ==
    /\ Known(m) /\ ~ m.ok
    /\ LET c == conns[m.sid]
           d == [ Recorded(c, m) EXCEPT
                    !.status = IF @ \in { "MODIFYING", "UNDER_PROVISIONING" }
                               THEN "DOWN" ELSE @ ]
       IN  IF m.op = "post" /\ ~ c.partial
           THEN Handle(m, "cleanup", [ d EXCEPT !.partial = TRUE ])
           ELSE Handle(m, "save", d)

LcReceive(m) ==
    /\ lc = Idle
    /\ Take(m)
    /\ \/ LcIgnore(m) \/ LcCreated(m) \/ LcCreatedLate(m) \/ LcDeleted(m) \/ LcFailed(m)
    /\ UNCHANGED << store, toLC, reports, oxp, post, del, mon >>

\* Mutant of LcCleanup: the PCE is not told.
MutCleanupHolds ==
    /\ lc.pc = "cleanup"
    /\ toLC' = toLC \cup Deletes(lc.sid, breakdowns[lc.sid], lc.conn)
    /\ lc' = [ lc EXCEPT !.pc = "save" ]
    /\ UNCHANGED << store, toSDX, reports, dups, oxp, post, del, mon >>

\* Mutant of LcCleanup: the OXPs are not told.
MutCleanupSilent ==
    /\ lc.pc = "cleanup"
    /\ reserved' = [ reserved EXCEPT ![lc.sid] = FALSE ]
    /\ lc' = [ lc EXCEPT !.pc = "save" ]
    /\ UNCHANGED << conns, tombs, breakdowns, history, wire, post, del, mon >>

\* cleanup_partial_connection, on the thread's copy of the document.
LcCleanup ==
    /\ lc.pc = "cleanup"
    /\ reserved' = [ reserved EXCEPT ![lc.sid] = FALSE ]
    /\ toLC' = toLC \cup Deletes(lc.sid, breakdowns[lc.sid], lc.conn)
    /\ lc' = [ lc EXCEPT !.pc = "save" ]
    /\ UNCHANGED << conns, tombs, breakdowns, history, toSDX, reports, dups, oxp, post, del, mon >>

\* A publish raises: the whole answer is lost, what was done stays done.
LcCleanupFails ==
    /\ CanFail
    /\ lc.pc = "cleanup"
    /\ reserved' = [ reserved EXCEPT ![lc.sid] = FALSE ]
    /\ LET all == Deletes(lc.sid, breakdowns[lc.sid], lc.conn) IN
       \E D \in SUBSET all : D # all /\ toLC' = toLC \cup D
    /\ lc' = Idle
    /\ UNCHANGED << conns, tombs, breakdowns, history, toSDX, reports, dups, oxp, post, del, mon >>

\* The segments of B in domain d; cleanup_partial_connection_domain takes
\* only the first.
InDomain(B, d) == { g \in B : DomOf[g] = d }
FirstInDomain(B, d) ==
    IF InDomain(B, d) = {} THEN {} ELSE { CHOOSE g \in InDomain(B, d) : TRUE }

LcLate ==
    /\ lc.pc = "late"
    /\ LET d == DomOf[lc.seg] IN
       /\ toLC' = toLC \cup Deletes(lc.sid, FirstInDomain(breakdowns[lc.sid], d), lc.conn)
       /\ lc' = [ lc EXCEPT !.pc = "save", !.conn.late = @ \cup {d} ]
    /\ UNCHANGED << store, toSDX, reports, dups, oxp, post, del, mon >>

LcLateFails ==
    /\ CanFail
    /\ lc.pc = "late"
    /\ Deletes(lc.sid, FirstInDomain(breakdowns[lc.sid], DomOf[lc.seg]), lc.conn) # {}
    /\ lc' = Idle
    /\ UNCHANGED << store, wire, post, del, mon >>

\* Mutant of LcSave: the whole copy written back, as LcReplace does.
MutSaveWhole ==
    /\ lc.pc = "save"
    /\ DbAdd(lc.sid, lc.conn)
    /\ lc' = Idle
    /\ UNCHANGED << tombs, breakdowns, history, reserved, wire, post, del, mon >>

\* The fields the handler writes back, from its copy: all but
\* provisioning_timeout_handled.
LcSave ==
    /\ lc.pc = "save"
    /\ DbUpdate(lc.sid, [ lc.conn EXCEPT !.handled = conns[lc.sid].handled ])
    /\ lc' = Idle
    /\ UNCHANGED << tombs, breakdowns, history, reserved, wire, post, del, mon >>

(***************************************************************************)
(* The LC thread on an oxp_conn_status_change: the copy with the reported  *)
(* status replaces the document, whatever the status was.                  *)
(***************************************************************************)
LcReport(m) ==
    /\ lc = Idle
    /\ m \in reports
    /\ reports' = reports \ {m}
    /\ IF Present(m.sid) /\ conns[m.sid].status # m.status
       THEN lc' = [ pc |-> "replace", sid |-> m.sid,
                    conn |-> [ conns[m.sid] EXCEPT !.status = m.status ] ]
       ELSE UNCHANGED lc
    /\ UNCHANGED << store, toLC, toSDX, dups, oxp, post, del, mon >>

LcReplace ==
    /\ lc.pc = "replace"
    /\ DbAdd(lc.sid, lc.conn)
    /\ lc' = Idle
    /\ UNCHANGED << tombs, breakdowns, history, reserved, wire, post, del, mon >>

LcStep ==
    \/ \E m \in toSDX : LcReceive(m)
    \/ \E m \in reports : LcReport(m)
    \/ LcCleanup \/ LcCleanupFails \/ LcLate \/ LcLateFails \/ LcSave \/ LcReplace

(***************************************************************************)
(* The provisioning-timeout monitor.                                       *)
(***************************************************************************)
Watched(s) ==
    Present(s) /\ conns[s].status = "UNDER_PROVISIONING" /\ ~ conns[s].handled

\* One find() over the collection.  T are the watched documents that are
\* older than the timeout; the scan works through this snapshot of them.
MonScan(T) ==
    /\ TimeoutEnabled
    /\ mon = Idle
    /\ T # {} /\ \A s \in T : Watched(s)
    /\ mon' = [ pc |-> "scan",
                snap |-> [ s \in Service |-> IF s \in T THEN conns[s] ELSE NoConn ] ]
    /\ UNCHANGED << store, wire, post, del, lc >>

\* The whole document is written back from the snapshot.
MonTimeout(s) ==
    /\ mon.pc = "scan"
    /\ mon.snap[s] # NoConn
    /\ LET c == [ mon.snap[s] EXCEPT !.status = "DOWN", !.handled = TRUE, !.partial = TRUE ]
       IN  /\ DbAdd(s, c)
           /\ mon' = [ pc |-> "cleanup", sid |-> s, conn |-> c,
                       snap |-> [ mon.snap EXCEPT ![s] = NoConn ] ]
    /\ UNCHANGED << tombs, breakdowns, history, reserved, wire, post, del, lc >>

MonContinue ==
    mon' = IF \A s \in Service : mon.snap[s] = NoConn
           THEN Idle ELSE [ pc |-> "scan", snap |-> mon.snap ]

\* cleanup_partial_connection
MonCleanup ==
    /\ mon.pc = "cleanup"
    /\ reserved' = [ reserved EXCEPT ![mon.sid] = FALSE ]
    /\ toLC' = toLC \cup Deletes(mon.sid, breakdowns[mon.sid], mon.conn)
    /\ MonContinue
    /\ UNCHANGED << conns, tombs, breakdowns, history, toSDX, reports, dups, oxp, post, del, lc >>

\* A publish raises: the scan is abandoned, the document stays handled.
MonCleanupFails ==
    /\ CanFail
    /\ mon.pc = "cleanup"
    /\ reserved' = [ reserved EXCEPT ![mon.sid] = FALSE ]
    /\ LET all == Deletes(mon.sid, breakdowns[mon.sid], mon.conn) IN
       \E D \in SUBSET all : D # all /\ toLC' = toLC \cup D
    /\ mon' = Idle
    /\ UNCHANGED << conns, tombs, breakdowns, history, toSDX, reports, dups, oxp, post, del, lc >>

MonStep ==
    \/ \E T \in SUBSET Service : MonScan(T)
    \/ \E s \in Service : MonTimeout(s)
    \/ MonCleanup \/ MonCleanupFails

(***************************************************************************)
(* The OXPs, behind their local controllers (external).                    *)
(***************************************************************************)
Serve(m, st, ok) ==
    /\ toLC' = toLC \ {m}
    /\ oxp' = [ oxp EXCEPT ![m.sid][m.seg] = st ]
    /\ toSDX' = toSDX \cup { [ op |-> m.op, sid |-> m.sid, seg |-> m.seg, ok |-> ok ] }
    /\ UNCHANGED << store, reports, dups, post, del, lc, mon >>

OxpCreate(m) == m.op = "post" /\ Serve(m, "up", TRUE)
OxpRefuse(m) == m.op = "post" /\ Serve(m, "refused", FALSE)
OxpDelete(m) == m.op = "delete" /\ Serve(m, "gone", TRUE)
OxpDeleteFails(m) ==
    /\ DeleteMayFail
    /\ m.op = "delete"
    /\ Serve(m, oxp[m.sid][m.seg], FALSE)

OxpReport(s, st) ==
    /\ \E g \in Segment : oxp[s][g] = "up"
    /\ reports' = reports \cup { [ sid |-> s, status |-> st ] }
    /\ UNCHANGED << store, toLC, toSDX, dups, oxp, post, del, lc, mon >>

OxpServe(m) == OxpCreate(m) \/ OxpRefuse(m) \/ OxpDelete(m) \/ OxpDeleteFails(m)

OxpStep ==
    \/ \E m \in toLC : OxpServe(m)
    \/ \E s \in Service, st \in ReportedStatus : OxpReport(s, st)

-----------------------------------------------------------------------------
Next ==
    \/ \E s \in Service : PostSave(s) \/ PostStep(s)
    \/ \E r \in Request, s \in Service : DelRead(r, s)
    \/ \E r \in Request : DelStep(r)
    \/ LcStep
    \/ MonStep
    \/ OxpStep

Spec == Init /\ [][Next]_vars

\* The threads of the controller run; the OXPs may never answer.
ControllerFairness ==
    /\ \A s \in Service : WF_vars(PostStep(s))
    /\ \A r \in Request : WF_vars(DelStep(r))
    /\ WF_vars(LcStep)
    /\ WF_vars(MonStep)

OxpFairness ==
    \A s \in Service, g \in Segment :
        WF_vars(\E m \in toLC : m.sid = s /\ m.seg = g /\ OxpServe(m))

ControllerFairSpec == Spec /\ ControllerFairness
FairSpec == Spec /\ ControllerFairness /\ OxpFairness

-----------------------------------------------------------------------------
(***************************************************************************)
(* Properties.                                                             *)
(***************************************************************************)
Shows(s, st) == Present(s) /\ conns[s].status = st

Created(s, g) == oxp[s][g] \in { "up", "gone" }

\* A DELETE of s has released its resources, or published its deletes.
Removing(s, pcs) ==
    \E r \in Request :
        del[r] \notin { Idle, Finished } /\ del[r].sid = s /\ del[r].pc \in pcs

Published == { "drop", "archive", "unlink", "mark", "markBreakdown" }

\* A connection is shown up only if every OXP of its breakdown has created
\* its EVC (lc_message_handler:288-304 counts the answers, and no answer is
\* tied to the segment it is counted for).
UpNeedsEverySegment ==
    \A s \in Service : Shows(s, "UP") => \A g \in breakdowns[s] : Created(s, g)

\* A connection is shown up only while it has a breakdown and all its EVCs are
\* up, until a DELETE has published its deletes (parse_conn_status: "up: if
\* the L2VPN is operational").
UpIsOperational ==
    \A s \in Service :
        Shows(s, "UP") =>
            \/ breakdowns[s] # {} /\ \A g \in breakdowns[s] : oxp[s][g] = "up"
            \/ Removing(s, Published)

\* The PCE keeps the resources of a connection shown up until a DELETE
\* releases them, and holds none for one whose partial cleanup is recorded
\* (cleanup_partial_connection:359-364 and remove_connection:644-649 release
\* them before the document says so).
ReservationFollows ==
    \A s \in Service :
        /\ Shows(s, "UP") => reserved[s] \/ Removing(s, Published \cup {"send"})
        /\ Present(s) /\ conns[s].partial => ~ reserved[s]

\* No OXP is asked to delete an EVC it has not created
\* (_send_breakdown_to_lc:313-329), whichever thread asks and however old its
\* copy of the document is.
DeleteTargetsCreated ==
    \A m \in toLC : m.op = "delete" => Created(m.sid, m.seg)

\* Once a partial cleanup is recorded, each EVC still up is about to be
\* deleted: its delete is in flight, or the answer that will trigger it is,
\* or the LC thread is at it (lc_message_handler:275-286, :315-321).
CleanupComplete ==
    \A s \in Service, g \in Segment :
        Present(s) /\ conns[s].partial /\ oxp[s][g] = "up" =>
            \/ [ op |-> "delete", sid |-> s, seg |-> g ] \in toLC
            \/ [ op |-> "post", sid |-> s, seg |-> g, ok |-> TRUE ] \in toSDX
            \/ lc.pc = "late" /\ lc.sid = s /\ lc.seg = g

\* A deleted connection never comes back: no thread's later write of its
\* copy brings the document back.
NoResurrection ==
    [][ \A s \in Service :
            post[s].pc # "idle" /\ ~ Present(s) => ~ Present(s)' ]_vars

\* The stored status only makes moves the state machine allows (POST and the
\* LC thread check the move on their own copies, not on the document).
StatusMovesLegally ==
    [][ \A s \in Service :
            Present(s) /\ Present(s)' =>
                \/ conns'[s].status = conns[s].status
                \/ CanMove(conns[s].status, conns'[s].status) ]_vars

\* Provisioning ends.
ProvisioningEnds ==
    \A s \in Service :
        Shows(s, "UNDER_PROVISIONING") ~> ~ Shows(s, "UNDER_PROVISIONING")

\* After a partial failure nothing stays provisioned.
PartialIsCleaned ==
    \A s \in Service :
        (Present(s) /\ conns[s].partial) ~>
            [](\A g \in Segment : oxp[s][g] # "up")

\* Once a DELETE has been answered, nothing stays provisioned.
DeleteTearsDown ==
    \A s \in Service :
        Removing(s, {"markBreakdown"}) ~> [](\A g \in Segment : oxp[s][g] # "up")

(***************************************************************************)
(* The client's view.                                                      *)
(***************************************************************************)
Life ==
    [ s \in Service |->
        IF ~ Present(s) THEN IF post[s].pc = "idle" THEN "absent" ELSE "removed"
        ELSE CASE conns[s].status = "REQUESTED" -> "requested"
               [] conns[s].status = "UNDER_PROVISIONING" -> "provisioning"
               [] conns[s].status = "REJECTED" -> "rejected"
               [] conns[s].status = "UP" -> "up"
               [] OTHER -> "down" ]

Lifecycle == INSTANCE ConnectionLifecycle WITH life <- Life

ImplementsLifecycle == Lifecycle!Spec
=============================================================================
