------------------------------- MODULE Patch --------------------------------
(***************************************************************************)
(* How PATCH replaces the request of a connection, and goes back to the    *)
(* previous one when the new one cannot be provisioned.                    *)
(*                                                                         *)
(* Two threads place the connection.  `http` serves PATCH: it removes the  *)
(* connection, places the new request, waits, and if that has failed       *)
(* places the old request.  `lc` handles the OXPs' answers; when a failed  *)
(* PATCH has been cleaned up, it places the old request too, and when a    *)
(* link is lost it places the current one again.  Both work on the same    *)
(* document, from copies of it.                                            *)
(*                                                                         *)
(* POST and DELETE are in Provisioning, as is the timeout monitor.  PATCHes *)
(* come one after the other, and a link is lost only between two of them.  *)
(* `hurt` records the known weaknesses of the code that have hit the       *)
(* connection; a property excuses only those it names.                     *)
(***************************************************************************)
EXTENDS Integers, FiniteSets, Sequences, ConnectionSM

CONSTANTS
    Segment,        \* keys of breakdowns, one per OXP domain
    NoConn,         \* "there is no such document"
    MaxPatches,     \* PATCHes served; request k is that of the k-th, 0 of POST
    Plan,           \* the breakdown the PCE makes of each request
    MaxLosses,      \* links lost from under the connection
    CanFail         \* publishing to the broker may raise

VARIABLES
    conn,       \* collection CONNECTIONS: the document, or NoConn
    breakdown,  \* collection BREAKDOWNS: its segments, {} when absent
    reserved,   \* the PCE holds resources for it
    toLC,       \* orders published, a queue per domain
    inbox,      \* answers published, the queue of the LC thread
    evcs,       \* the EVCs at the OXPs
    attempt,    \* the number of placements so far; an EVC's id is its number
    request,    \* the request each placement was for
    patches,    \* PATCHes received
    losses,     \* links lost
    th,         \* the two threads
    reply,      \* the answer to the last PATCH
    hurt        \* known weaknesses that have hit the connection

vars == << conn, breakdown, reserved, toLC, inbox, evcs, attempt, request,
           patches, losses, th, reply, hurt >>

Request == 0 .. MaxPatches
Thread == { "http", "lc" }
Id == Nat

(***************************************************************************)
(* The document.  req stands for the request's own fields, back for        *)
(* rollback_request; onFail, inProgress and performed are                  *)
(* rollback_on_failure, rollback_in_progress and                           *)
(* rollback_performed_for_failed_patch.                                    *)
(***************************************************************************)
Conn ==
    [ status : Status, req : Request, count : Nat, resp : SUBSET Segment,
      evc : [ Segment -> Id ], partial : BOOLEAN, late : SUBSET Segment,
      onFail : BOOLEAN, inProgress : BOOLEAN, performed : BOOLEAN,
      back : Request ]

Order == [ op : {"post", "delete"}, id : Id ]
Answer == [ op : {"post", "delete"}, seg : Segment, id : Id, ok : BOOLEAN ]

ASSUME PatchAssumption ==
    /\ IsFiniteSet(Segment)
    /\ MaxPatches \in Nat /\ MaxLosses \in Nat
    /\ Plan \in [ Request -> (SUBSET Segment) \ {{}} ]
    /\ CanFail \in BOOLEAN
    /\ NoConn \notin Conn

NoIds == [ g \in Segment |-> 0 ]

\* A request as it is stored before it is placed, by whoever sets all the
\* fields: l2vpn_controller :457-475 and lc_message_handler :53-65.
Restored(r) ==
    [ status |-> "REQUESTED", req |-> r, count |-> 0, resp |-> {}, evc |-> NoIds,
      partial |-> FALSE, late |-> {}, onFail |-> FALSE, inProgress |-> FALSE,
      performed |-> TRUE, back |-> r ]

Blank ==
    [ status |-> "REQUESTED", req |-> 0, count |-> 0, resp |-> {}, evc |-> NoIds,
      partial |-> FALSE, late |-> {}, onFail |-> FALSE, inProgress |-> FALSE,
      performed |-> FALSE, back |-> 0 ]

\* A thread: where it is; what it is placing: a new request, the old one, or
\* the same one again; its copies of the document and of the breakdown; the
\* segment to clean up late; the number of its placement.
Idle == [ pc |-> "idle", job |-> "none", doc |-> Blank, brk |-> {}, seg |-> {}, id |-> 0 ]

ThreadState ==
    [ pc : { "idle", "modify", "remove", "send", "drop", "reset", "plan", "mark",
             "publish", "wait", "reject", "giveUp", "cleanup", "late", "save", "begin" },
      job : { "none", "new", "old", "again" },
      doc : Conn, brk : SUBSET Segment, seg : SUBSET Segment, id : Id ]

TypeOK ==
    /\ conn \in Conn \cup {NoConn}
    /\ breakdown \in SUBSET Segment
    /\ reserved \in BOOLEAN
    /\ toLC \in [ Segment -> Seq(Order) ]
    /\ inbox \in Seq(Answer)
    /\ evcs \in SUBSET (Segment \X Id)
    /\ attempt \in Nat
    /\ request \in Seq(Request) /\ Len(request) = attempt
    /\ patches \in Request /\ losses \in Nat
    /\ th \in [ Thread -> ThreadState ]
    /\ reply \in { "none", "up", "provisioning", "undone", "failed" }
    /\ hurt \subseteq { "publish", "stuck", "hasty", "expired", "raced", "lost", "forgotten" }

\* The connection was POSTed and is up.
Init ==
    /\ breakdown = Plan[0]
    /\ conn = [ Blank EXCEPT !.status = "UP", !.count = Cardinality(Plan[0]),
                  !.resp = Plan[0],
                  !.evc = [ g \in Segment |-> IF g \in Plan[0] THEN 1 ELSE 0 ] ]
    /\ reserved = TRUE
    /\ toLC = [ g \in Segment |-> << >> ]
    /\ inbox = << >>
    /\ evcs = Plan[0] \X {1}
    /\ attempt = 1 /\ request = << 0 >>
    /\ patches = 0 /\ losses = 0
    /\ th = [ t \in Thread |-> Idle ]
    /\ reply = "none"
    /\ hurt = {}

(***************************************************************************)
(* Operators shared by the two threads.                                    *)
(***************************************************************************)
Present == conn # NoConn

\* Mutant of DbAdd: an entry that is not there is not made.
MutDbAdd(c) == conn' = IF Present THEN c ELSE conn

DbAdd(c) == conn' = c
DbUpdate(c) == conn' = IF Present THEN c ELSE conn
DbSetStatus(st) == DbUpdate([ conn EXCEPT !.status = st ])

At(t, pc) == th[t].pc = pc
Goto(t, pc) == th' = [ th EXCEPT ![t].pc = pc ]

Publish(op, B, F) ==
    [ g \in Segment |->
        IF g \in B THEN Append(toLC[g], [ op |-> op, id |-> F[g] ]) ELSE toLC[g] ]

\* The segments of B for which the copy c has an EVC id.
Deletable(B, c) == { g \in B : c.evc[g] # 0 }
Deletes(B, c) == Publish("delete", Deletable(B, c), c.evc)

SomeDeletes(B, c) ==
    \E D \in SUBSET Deletable(B, c) :
        D # Deletable(B, c) /\ toLC' = Publish("delete", D, c.evc)

counters == << attempt, request, patches, losses >>
wires == << toLC, inbox, evcs >>

(***************************************************************************)
(* connection_handler.remove_connection.  Its reads may come at any time   *)
(* after it is called, which its wait for provisioning to settle allows.   *)
(***************************************************************************)
RemoveRead(t) ==
    /\ At(t, "remove")
    /\ Present
    /\ th' = [ th EXCEPT ![t].pc = "send", ![t].brk = breakdown, ![t].doc.evc = conn.evc ]
    /\ UNCHANGED << conn, breakdown, reserved, wires, counters, reply, hurt >>

RemoveSend(t) ==
    /\ At(t, "send")
    /\ reserved' = FALSE
    /\ toLC' = Deletes(th[t].brk, th[t].doc)
    /\ Goto(t, "drop")
    /\ UNCHANGED << conn, breakdown, inbox, evcs, counters, reply, hurt >>

\* Publishing raises after some deletes.  PATCH answers that it has failed
\* and the connection is DOWN; the LC thread leaves it as it is.
RemoveBroken(t) ==
    /\ CanFail
    /\ At(t, "send")
    /\ reserved' = FALSE
    /\ SomeDeletes(th[t].brk, th[t].doc)
    /\ IF t = "http" THEN DbSetStatus("DOWN") /\ reply' = "failed" ELSE UNCHANGED << conn, reply >>
    /\ th' = [ th EXCEPT ![t] = Idle ]
    /\ hurt' = hurt \cup {"publish"}
    /\ UNCHANGED << breakdown, inbox, evcs, counters >>

\* The breakdown is deleted and, in a PATCH, the document archived.
RemoveDrop(t) ==
    /\ At(t, "drop")
    /\ breakdown' = {}
    /\ conn' = IF t = "http" THEN NoConn ELSE conn
    /\ Goto(t, "reset")
    /\ UNCHANGED << reserved, wires, counters, reply, hurt >>

(***************************************************************************)
(* connection_handler.place_connection, with the document already stored.  *)
(***************************************************************************)
\* What follows a placement that has failed, in each caller: PATCH goes back
\* to the old request, or rejects it; the LC thread forgets the result of a
\* rollback, and gives up a recovery.
AfterFailure(t) ==
    CASE th[t].job = "new" -> [ th[t] EXCEPT !.pc = "reset", !.job = "old" ]
      [] th[t].job = "old" /\ t = "http" -> [ th[t] EXCEPT !.pc = "reject" ]
      [] th[t].job = "again" -> [ th[t] EXCEPT !.pc = "giveUp" ]
      [] OTHER -> Idle

PlaceFails(t) ==
    /\ At(t, "plan")
    /\ th' = [ th EXCEPT ![t] = AfterFailure(t) ]
    /\ hurt' = IF t = "lc" /\ th[t].job = "old" THEN hurt \cup {"forgotten"} ELSE hurt
    /\ UNCHANGED << conn, breakdown, reserved, wires, counters, reply >>

PlacePlan(t) ==
    /\ At(t, "plan")
    /\ breakdown' = Plan[th[t].doc.req]
    /\ reserved' = TRUE
    /\ attempt' = attempt + 1
    /\ request' = Append(request, th[t].doc.req)
    /\ th' = [ th EXCEPT ![t].pc = "mark", ![t].brk = Plan[th[t].doc.req], ![t].id = attempt' ]
    /\ UNCHANGED << conn, wires, patches, losses, reply, hurt >>

PlaceMark(t) ==
    /\ At(t, "mark")
    /\ DbSetStatus("UNDER_PROVISIONING")
    /\ th' = [ th EXCEPT ![t].pc = "publish", ![t].doc.status = "UNDER_PROVISIONING" ]
    /\ UNCHANGED << breakdown, reserved, wires, counters, reply, hurt >>

Creates(t, B) == Publish("post", B, [ g \in Segment |-> th[t].id ])

PlacePublish(t) ==
    /\ At(t, "publish")
    /\ toLC' = Creates(t, th[t].brk)
    /\ th' = [ th EXCEPT ![t] = IF t = "http" THEN [ @ EXCEPT !.pc = "wait" ] ELSE Idle ]
    /\ UNCHANGED << conn, breakdown, reserved, inbox, evcs, counters, reply, hurt >>

PlaceBroken(t) ==
    /\ CanFail
    /\ At(t, "publish")
    /\ \E D \in SUBSET th[t].brk :
           D # th[t].brk /\ toLC' = Creates(t, D)
    /\ th' = [ th EXCEPT ![t] = AfterFailure(t) ]
    /\ hurt' = hurt \cup {"publish"}
    /\ UNCHANGED << conn, breakdown, reserved, inbox, evcs, counters, reply >>

PlaceStep(t) ==
    \/ RemoveRead(t) \/ RemoveSend(t) \/ RemoveBroken(t) \/ RemoveDrop(t)
    \/ PlaceFails(t) \/ PlacePlan(t) \/ PlaceMark(t) \/ PlacePublish(t) \/ PlaceBroken(t)

(***************************************************************************)
(* PATCH: l2vpn_controller.patch_connection.                               *)
(***************************************************************************)
\* The document is read and the new request validated.  An invalid request,
\* or a status that cannot become MODIFYING, ends the request here.
PatchRead ==
    /\ th["http"] = Idle
    /\ th["lc"].job # "again"
    /\ patches < MaxPatches
    /\ Present /\ CanMove(conn.status, "MODIFYING")
    /\ patches' = patches + 1
    /\ th' = [ th EXCEPT !["http"] = [ Idle EXCEPT !.pc = "modify", !.job = "new", !.doc = conn ] ]
    /\ reply' = "none"
    /\ UNCHANGED << conn, breakdown, reserved, wires, attempt, request, losses, hurt >>

PatchModify ==
    /\ At("http", "modify")
    /\ DbSetStatus("MODIFYING")
    /\ Goto("http", "remove")
    /\ UNCHANGED << breakdown, reserved, wires, counters, reply, hurt >>

\* Mutants of Patched: the count is kept; the rollback goes one request too
\* far.
MutPatchedKeepsCount(c) ==
    [ c EXCEPT !.status = "REQUESTED", !.req = patches, !.resp = {}, !.evc = NoIds,
               !.onFail = TRUE, !.back = c.req, !.inProgress = FALSE, !.performed = FALSE ]

MutPatchedBack(c) ==
    [ c EXCEPT !.status = "REQUESTED", !.req = patches, !.count = 0, !.resp = {},
               !.evc = NoIds, !.onFail = TRUE, !.back = c.req - 1,
               !.inProgress = FALSE, !.performed = FALSE ]

\* The patched document, from the copy read at the start: no entry of it is
\* reset but those of :403-409.
Patched(c) ==
    [ c EXCEPT !.status = "REQUESTED", !.req = patches, !.count = 0, !.resp = {},
               !.evc = NoIds, !.onFail = TRUE, !.back = c.req,
               !.inProgress = FALSE, !.performed = FALSE ]

\* The removal has been carried out and answered, and the answers handled.
NoneUnderWay == inbox = << >> /\ \A g \in Segment : toLC[g] = << >>
Quiet == NoneUnderWay /\ th["lc"] = Idle

\* PATCH sleeps for 10 s after the removal, and does not look whether that was
\* enough.
PatchReset ==
    /\ At("http", "reset") /\ th["http"].job = "new"
    /\ DbAdd(Patched(th["http"].doc))
    /\ th' = [ th EXCEPT !["http"].pc = "plan", !["http"].doc = Patched(@) ]
    /\ hurt' = hurt \cup (IF th["lc"] = Idle THEN {} ELSE {"stuck"})
                    \cup (IF NoneUnderWay THEN {} ELSE {"hasty"})
    /\ UNCHANGED << breakdown, reserved, wires, counters, reply >>

\* The LC thread has rolled the PATCH back, or is about to.
LcUndoes == th["lc"].job = "old" \/ (Present /\ conn.performed)

Answered(r) == reply' = r /\ th' = [ th EXCEPT !["http"] = Idle ]

\* _wait_for_patch_provisioning_to_settle returns the document it has read.
Settled ==
    Present =>
        /\ conn.status # "UNDER_PROVISIONING"
        /\ conn.partial =>
             breakdown # {} /\ Cardinality(conn.resp) >= Cardinality(breakdown)

\* Mutant of PatchWait: the status alone decides.
MutPatchWait ==
    /\ At("http", "wait") /\ th["http"].job = "new"
    /\ Present /\ conn.status # "UNDER_PROVISIONING"
    /\ IF conn.status = "UP"
       THEN Answered("up") /\ UNCHANGED hurt
       ELSE /\ th' = [ th EXCEPT !["http"].pc = "reset", !["http"].job = "old" ]
            /\ hurt' = IF LcUndoes THEN hurt \cup {"raced"} ELSE hurt
            /\ UNCHANGED reply
    /\ UNCHANGED << conn, breakdown, reserved, wires, counters >>

\* A poll that ends the wait for the new request.  What is neither UP nor
\* UNDER_PROVISIONING has failed.
PatchWait ==
    /\ At("http", "wait") /\ th["http"].job = "new"
    /\ Settled
    /\ IF Present /\ conn.status = "UP"
       THEN /\ Answered(IF conn.performed THEN "undone" ELSE "up")
            /\ UNCHANGED hurt
       ELSE /\ th' = [ th EXCEPT !["http"].pc = "reset", !["http"].job = "old" ]
            /\ hurt' = IF LcUndoes THEN hurt \cup {"raced"} ELSE hurt
            /\ UNCHANGED reply
    /\ UNCHANGED << conn, breakdown, reserved, wires, counters >>

\* The wait expires first, and the answer is what the last poll has read.
PatchExpires ==
    /\ At("http", "wait") /\ th["http"].job = "new"
    /\ ~ Settled
    /\ IF conn.status = "UNDER_PROVISIONING"
       THEN Answered("provisioning") /\ UNCHANGED hurt
       ELSE /\ th' = [ th EXCEPT !["http"].pc = "reset", !["http"].job = "old" ]
            /\ hurt' = hurt \cup {"expired"}
            /\ UNCHANGED reply
    /\ UNCHANGED << conn, breakdown, reserved, wires, counters >>

\* "Rolling back to old connection."
PatchUndo ==
    /\ At("http", "reset") /\ th["http"].job = "old"
    /\ LET c == Restored(th["http"].doc.back) IN
       /\ DbAdd(c)
       /\ th' = [ th EXCEPT !["http"].pc = "plan", !["http"].doc = c ]
    /\ UNCHANGED << breakdown, reserved, wires, counters, reply, hurt >>

\* The wait for the old request: it has come back, or not, or not yet.
PatchWaitOld ==
    /\ At("http", "wait") /\ th["http"].job = "old"
    /\ Answered(IF Settled /\ Present /\ conn.status = "UP" THEN "undone" ELSE "failed")
    /\ UNCHANGED << conn, breakdown, reserved, wires, counters, hurt >>

\* The old request cannot be placed either.
PatchReject ==
    /\ At("http", "reject")
    /\ DbSetStatus("REJECTED")
    /\ Answered("failed")
    /\ UNCHANGED << breakdown, reserved, wires, counters, hurt >>

PatchStep ==
    \/ PatchModify \/ PatchReset \/ PatchWait \/ PatchExpires \/ PatchUndo
    \/ PatchWaitOld \/ PatchReject \/ PlaceStep("http")

(***************************************************************************)
(* The LC thread on an oxp_conn_response.                                  *)
(***************************************************************************)
Recorded(c, m) ==
    [ c EXCEPT !.resp = @ \cup {m.seg},
               !.evc[m.seg] = IF m.op = "delete" THEN @ ELSE IF m.ok THEN m.id ELSE 0 ]

Handle(pc, c, G) ==
    th' = [ th EXCEPT !["lc"] =
              [ Idle EXCEPT !.pc = pc, !.doc = c, !.brk = breakdown, !.seg = G ] ]

Known == Present /\ breakdown # {}

LcIgnore(m) ==
    /\ ~ Known
    /\ UNCHANGED th

\* A recovering connection passes through UNDER_PROVISIONING.
CanComeUp(st) == CanMove(IF st = "RECOVERING" THEN "UNDER_PROVISIONING" ELSE st, "UP")

\* The answer that completes the count in a status from which the connection
\* cannot come up raises, and nothing of it is saved.
LcCreated(m) ==
    /\ Known /\ m.ok /\ m.op = "post" /\ ~ conn.partial
    /\ LET c == [ Recorded(conn, m) EXCEPT !.count = @ + 1 ] IN
       IF c.count # Cardinality(breakdown) THEN Handle("save", c, {})
       ELSE IF CanComeUp(c.status) THEN Handle("save", [ c EXCEPT !.status = "UP" ], {})
       ELSE UNCHANGED th

LcCreatedLate(m) ==
    /\ Known /\ m.ok /\ m.op = "post" /\ conn.partial
    /\ Handle(IF m.seg \in conn.late THEN "save" ELSE "late", Recorded(conn, m), {m.seg})

LcDeleted(m) ==
    /\ Known /\ m.ok /\ m.op = "delete"
    /\ Handle("save", Recorded(conn, m), {})

LcFailed(m) ==
    /\ Known /\ ~ m.ok
    /\ LET d == Recorded(conn, m)
           c == [ d EXCEPT !.status =
                    IF @ \in { "MODIFYING", "UNDER_PROVISIONING" } THEN "DOWN" ELSE @ ]
       IN  IF m.op = "post" /\ ~ c.partial
           THEN Handle("cleanup", [ c EXCEPT !.partial = TRUE ], {})
           ELSE Handle("save", c, {})

LcReceive ==
    /\ th["lc"] = Idle
    /\ inbox # << >>
    /\ LET m == Head(inbox) IN
       LcIgnore(m) \/ LcCreated(m) \/ LcCreatedLate(m) \/ LcDeleted(m) \/ LcFailed(m)
    /\ inbox' = Tail(inbox)
    /\ UNCHANGED << conn, breakdown, reserved, toLC, evcs, counters, reply, hurt >>

LcCleanup ==
    /\ At("lc", "cleanup")
    /\ reserved' = FALSE
    /\ toLC' = Deletes(breakdown, th["lc"].doc)
    /\ Goto("lc", "save")
    /\ UNCHANGED << conn, breakdown, inbox, evcs, counters, reply, hurt >>

LcLate ==
    /\ At("lc", "late")
    /\ toLC' = Deletes(th["lc"].seg \cap breakdown, th["lc"].doc)
    /\ th' = [ th EXCEPT !["lc"].pc = "save", !["lc"].doc.late = @ \cup th["lc"].seg ]
    /\ UNCHANGED << conn, breakdown, reserved, inbox, evcs, counters, reply, hurt >>

\* Publishing raises: the answer is lost.
LcBroken ==
    /\ CanFail
    /\ \/ /\ At("lc", "cleanup")
          /\ reserved' = FALSE
          /\ SomeDeletes(breakdown, th["lc"].doc)
       \/ /\ At("lc", "late")
          /\ UNCHANGED << reserved, toLC >>
    /\ th' = [ th EXCEPT !["lc"] = Idle ]
    /\ hurt' = hurt \cup {"publish"}
    /\ UNCHANGED << conn, breakdown, inbox, evcs, counters, reply >>

\* The fields of the copy that are written back.
Saved(c) ==
    [ conn EXCEPT !.status = c.status, !.count = c.count, !.resp = c.resp, !.evc = c.evc,
                  !.partial = c.partial, !.late = c.late, !.onFail = c.onFail,
                  !.back = c.back, !.inProgress = c.inProgress ]

\* Mutant of CleanedUp: the answers still to come are not waited for.
MutCleanedUpEarly(c, B) ==
    /\ c.onFail /\ ~ c.inProgress
    /\ c.status = "DOWN" /\ c.partial
    /\ B # {}

\* Mutant of CleanedUp: whatever the status.
MutCleanedUpAny(c, B) ==
    /\ c.onFail /\ ~ c.inProgress
    /\ B # {} /\ Cardinality(c.resp) >= Cardinality(B)

\* _failed_patch_cleanup_is_complete
CleanedUp(c, B) ==
    /\ c.onFail /\ ~ c.inProgress
    /\ c.status = "DOWN" /\ c.partial
    /\ B # {} /\ Cardinality(c.resp) >= Cardinality(B)

LcSave ==
    /\ At("lc", "save")
    /\ LET c == th["lc"].doc IN
       /\ DbUpdate(Saved(c))
       /\ th' = [ th EXCEPT !["lc"] =
                    IF CleanedUp(c, @.brk)
                    THEN [ Idle EXCEPT !.pc = "begin", !.job = "old", !.doc = c ] ELSE Idle ]
    /\ UNCHANGED << breakdown, reserved, wires, counters, reply, hurt >>

\* _rollback_failed_patch
LcBegin ==
    /\ At("lc", "begin")
    /\ DbUpdate([ conn EXCEPT !.inProgress = TRUE ])
    /\ Goto("lc", "reset")
    /\ UNCHANGED << breakdown, reserved, wires, counters, reply, hurt >>

LcUndo ==
    /\ At("lc", "reset") /\ th["lc"].job = "old"
    /\ LET c == Restored(th["lc"].doc.back) IN
       /\ DbAdd(c)
       /\ th' = [ th EXCEPT !["lc"].pc = "plan", !["lc"].doc = c ]
    /\ UNCHANGED << breakdown, reserved, wires, counters, reply, hurt >>

(***************************************************************************)
(* The LC thread when a link of the connection is lost (see Recovery).     *)
(***************************************************************************)
LcLost ==
    /\ th["lc"] = Idle /\ th["http"] = Idle
    /\ losses < MaxLosses
    /\ Present /\ breakdown # {} /\ ~ conn.partial /\ CanMove(conn.status, "ERROR")
    /\ losses' = losses + 1
    /\ th' = [ th EXCEPT !["lc"] = [ Idle EXCEPT !.pc = "remove", !.job = "again", !.doc = conn ] ]
    /\ hurt' = hurt \cup {"lost"}
    /\ UNCHANGED << conn, breakdown, reserved, wires, attempt, request, patches, reply >>

\* handle_link_failure resets these fields only.
Again(c) ==
    [ c EXCEPT !.status = "RECOVERING", !.count = 0, !.resp = {}, !.evc = NoIds,
               !.partial = FALSE ]

LcAgain ==
    /\ At("lc", "reset") /\ th["lc"].job = "again"
    /\ DbAdd(Again(th["lc"].doc))
    /\ th' = [ th EXCEPT !["lc"].pc = "plan", !["lc"].doc = Again(@) ]
    /\ UNCHANGED << breakdown, reserved, wires, counters, reply, hurt >>

LcGiveUp ==
    /\ At("lc", "giveUp")
    /\ breakdown' = {}
    /\ IF CanMove(th["lc"].doc.status, "ERROR")
       THEN DbAdd([ th["lc"].doc EXCEPT !.status = "ERROR" ]) ELSE UNCHANGED conn
    /\ th' = [ th EXCEPT !["lc"] = Idle ]
    /\ UNCHANGED << reserved, wires, counters, reply, hurt >>

LcStep ==
    \/ LcReceive \/ LcCleanup \/ LcLate \/ LcBroken \/ LcSave \/ LcBegin \/ LcUndo
    \/ LcAgain \/ LcGiveUp \/ PlaceStep("lc")

(***************************************************************************)
(* The OXPs (external).  Each local controller serves its queue in order.  *)
(***************************************************************************)
OxpServe(g) ==
    /\ toLC[g] # << >>
    /\ LET m == Head(toLC[g])
           answer(ok) == Append(inbox, [ op |-> m.op, seg |-> g, id |-> m.id, ok |-> ok ])
       IN  \/ /\ m.op = "post"
              /\ evcs' = evcs \cup {<< g, m.id >>}
              /\ inbox' = answer(TRUE)
           \/ /\ m.op = "post"
              /\ inbox' = answer(FALSE)
              /\ UNCHANGED evcs
           \/ /\ m.op = "delete"
              /\ evcs' = evcs \ {<< g, m.id >>}
              /\ inbox' = answer(TRUE)
    /\ toLC' = [ toLC EXCEPT ![g] = Tail(@) ]
    /\ UNCHANGED << conn, breakdown, reserved, counters, th, reply, hurt >>

-----------------------------------------------------------------------------
Next ==
    \/ PatchRead
    \/ PatchStep
    \/ LcStep
    \/ LcLost
    \/ \E g \in Segment : OxpServe(g)

Spec == Init /\ [][Next]_vars

\* Both threads run, and the OXPs serve their queues; nobody need PATCH.
FairSpec ==
    /\ Spec
    /\ WF_vars(PatchStep) /\ WF_vars(LcStep)
    /\ \A g \in Segment : WF_vars(OxpServe(g))

-----------------------------------------------------------------------------
(***************************************************************************)
(* Properties.                                                             *)
(***************************************************************************)
Shows(st) == Present /\ conn.status = st
Unhurt(W) == hurt \cap W = {}

\* A removal is on its way: the LC thread may write an old UP back meanwhile.
Removing == \E t \in Thread : At(t, "drop") \/ At(t, "reset")

\* A connection shown up by its document is provisioned in every segment by an
\* EVC the document records, made for the request it shows: a PATCH never
\* mixes the EVCs of two requests.  (lc_message_handler:295-303 counts answers,
\* without looking which placement they belong to.)
UpMatchesRequest ==
    Shows("UP") /\ ~ Removing /\ Unhurt({"publish", "stuck", "hasty", "expired", "raced", "lost"}) =>
        \A g \in breakdown :
            /\ << g, conn.evc[g] >> \in evcs
            /\ request[conn.evc[g]] = conn.req

\* A PATCH is answered "up" only if the patched request is provisioned
\* (l2vpn_controller:34-35), and it then stays the request.
PatchSticks ==
    reply = "up" /\ Unhurt({"stuck", "hasty", "lost"}) =>
        /\ Shows("UP") /\ conn.req = patches
        /\ \A g \in breakdown : << g, conn.evc[g] >> \in evcs /\ request[conn.evc[g]] = patches

\* No OXP is asked for a second EVC of the connection before it is asked to
\* remove the first one.
Kept(g) ==
    { n \in 1 .. attempt :
        /\ << g, n >> \in evcs \/ \E i \in DOMAIN toLC[g] : toLC[g][i] = [ op |-> "post", id |-> n ]
        /\ \A i \in DOMAIN toLC[g] : toLC[g][i] # [ op |-> "delete", id |-> n ] }

NoDoubleProvision ==
    Unhurt({"publish", "stuck", "hasty", "expired", "raced", "lost"}) =>
        \A g \in Segment : Cardinality(Kept(g)) <= 1

\* A PATCH never loses the connection: when it is answered there is a
\* document, and it is not left MODIFYING.
NothingLost ==
    At("http", "idle") => Present /\ (Unhurt({"publish", "stuck"}) => conn.status # "MODIFYING")

\* Every PATCH is answered, and leaves the connection neither in between two
\* requests nor under provisioning: it comes to rest with a status a user can
\* act on.  (The LC thread does not look whether its rollback could be placed,
\* lc_message_handler:70.)
PatchSettles ==
    <>[]( /\ At("http", "idle")
          /\ \/ \E st \in { "UP", "DOWN", "REJECTED", "ERROR" } : Shows(st)
             \/ ~ Unhurt({"publish", "stuck", "hasty", "forgotten", "expired", "raced"}) )

\* "Preserve the last successful request so rollback can recreate it cleanly."
\* (l2vpn_controller:348): once a PATCH has been answered "up", its request is
\* that of the connection until the next PATCH.  (Nor does it take a removal that
\* outlasts PATCH's sleep.)
PatchStays ==
    reply = "up" /\ Unhurt({"stuck", "hasty"}) => Present /\ conn.req = patches

-----------------------------------------------------------------------------
(***************************************************************************)
(* PATCH as a transaction.                                                 *)
(***************************************************************************)
\* The old provisioning is being removed.
Removes ==
    \/ th["http"].pc \in { "modify", "remove", "send", "drop" }
    \/ th["http"].pc = "reset" /\ th["http"].job = "new"

\* The document is of a request that may yet be rolled back.
Undecided == ~ Removes /\ Present /\ conn.onFail /\ conn.status # "UP"

Open == Removes \/ Undecided

Agreed == IF Removes THEN th["http"].doc.req ELSE IF Undecided THEN conn.back ELSE conn.req

Shown == IF Shows("UP") THEN {conn.req} ELSE {}

Transaction == INSTANCE PatchTransaction WITH
    agreed <- Agreed, asked <- patches, open <- Open, shown <- Shown, told <- reply,
    broken <- ~ Unhurt({"publish", "stuck", "hasty", "expired", "raced", "lost"})

\* "Rolling back to old connection": whatever the two threads write over each
\* other's copies, a PATCH ends with its own request provisioned or with the
\* previous one, and its answer says which.
ImplementsTransaction == Transaction!Spec
=============================================================================
