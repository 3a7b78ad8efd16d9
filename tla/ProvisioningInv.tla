-------------------------- MODULE ProvisioningInv --------------------------
(***************************************************************************)
(* The inductive invariants behind the safety properties of Provisioning,  *)
(* checked by TLC and proved in ProvisioningSafety and ProvisioningCount.  *)
(***************************************************************************)
EXTENDS Provisioning

Creating(s, g) == [ op |-> "post", sid |-> s, seg |-> g ] \in toLC
Answered(s, g, ok) == [ op |-> "post", sid |-> s, seg |-> g, ok |-> ok ] \in toSDX

\* POST has not planned the connection yet.
Fresh(s) == post[s].pc \in { "idle", "saved" }

\* Every copy of a document, in the database and in the threads, satisfies P.
EveryCopy(P(_, _)) ==
    /\ \A s \in Service : Present(s) => P(s, conns[s])
    /\ lc # Idle => P(lc.sid, lc.conn)
    /\ \A r \in Request : del[r] \notin { Idle, Finished } => P(del[r].sid, del[r].conn)
    /\ mon # Idle =>
           \A s \in Service : mon.snap[s] # NoConn => P(s, mon.snap[s])
    /\ mon.pc = "cleanup" => P(mon.sid, mon.conn)

(***************************************************************************)
(* What is on the wire.  A segment is created at most once: its create     *)
(* message is still to be sent, or in flight, or served, and only one of   *)
(* the three.                                                              *)
(***************************************************************************)
FreshIsClean ==
    \A s \in Service : Fresh(s) =>
        /\ post[s].todo = {}
        /\ \A g \in Segment : oxp[s][g] = "none" /\ ~ Creating(s, g)

CreatedOnce ==
    \A s \in Service, g \in Segment :
        /\ g \in post[s].todo => ~ Creating(s, g) /\ oxp[s][g] = "none"
        /\ Creating(s, g) => oxp[s][g] = "none"

AnswersAreTrue ==
    \A s \in Service, g \in Segment :
        /\ Answered(s, g, TRUE) => Created(s, g)
        /\ Answered(s, g, FALSE) => oxp[s][g] = "refused"

\* A recorded EVC id is that of an EVC the OXP created.
EvcCreated(s, c) == \A g \in c.evc : Created(s, g)

\* The strengthening of DeleteTargetsCreated: it holds because every copy of
\* a document, however old, records only EVCs that were created, so no write
\* of one copy over another can invent an EVC (lc_message_handler:253-267).
WireInv ==
    /\ FreshIsClean
    /\ CreatedOnce
    /\ AnswersAreTrue
    /\ DeleteTargetsCreated
    /\ EveryCopy(EvcCreated)

(***************************************************************************)
(* What is counted, when no answer is delivered twice and no OXP reports   *)
(* "UP" unasked.                                                           *)
(***************************************************************************)
\* The breakdown, as long as it is stored, has every segment posted.
Planned ==
    \A s \in Service :
        /\ Fresh(s) => breakdowns[s] = {}
        /\ breakdowns[s] # {} =>
               \A g \in Segment :
                   oxp[s][g] # "none" \/ Creating(s, g) \/ g \in post[s].todo
                       => g \in breakdowns[s]

\* oxp_success_count counts distinct recorded EVCs; an answer in flight is in
\* no copy; a copy that says UP has the whole breakdown.
Counted(s, c) ==
    /\ c.count <= Cardinality(c.evc)
    /\ \A g \in Segment : Answered(s, g, TRUE) => g \notin c.evc
    /\ c.status = "UP" => breakdowns[s] \subseteq c.evc /\ ~ Fresh(s)

NoReportUp == \A m \in reports : m.status # "UP"

\* The strengthening of UpNeedsEverySegment: in every copy of a document, in
\* the database or held by a thread, the count of successful answers
\* (lc_message_handler:288-304) is backed by as many recorded EVCs.
CountInv ==
    /\ Planned
    /\ NoReportUp
    /\ EveryCopy(Counted)
(***************************************************************************)
(* The life of a document, when the timeout is off and no OXP reports a    *)
(* status unasked: nothing but POST, DELETE and the answers writes it.     *)
(***************************************************************************)
Undisturbed == ~ TimeoutEnabled /\ ReportedStatus = {}

Quiet == mon = Idle /\ reports = {} /\ lc.pc # "replace"

\* POST has sent no message, and will send none if it has given up.
Unsent(s) == post[s].status = "REQUESTED"

\* The thread's status follows its program counter; a rejection of a
\* connection that was planned comes of a publish that raised.
PostFollows(s) ==
    /\ post[s].status \in { "REQUESTED", "UNDER_PROVISIONING" }
    /\ post[s].pc \in { "idle", "saved", "planned" } => Unsent(s)
    /\ post[s].pc = "sending" => post[s].status = "UNDER_PROVISIONING"
    /\ post[s].pc = "reject" => Unsent(s) \/ CanFail

UnsentIsClean(s) ==
    Unsent(s) =>
        /\ \A g \in Segment : oxp[s][g] = "none"
        /\ \A m \in toLC \cup toSDX : m.sid # s
        /\ lc = Idle \/ lc.sid # s

\* Before POST there is no document, and while there is one, no other is
\* marked deleted.
OneDocument(s) ==
    /\ post[s].pc = "idle" => ~ Present(s) /\ tombs[s] = 0
    /\ Present(s) => tombs[s] = 0

\* The strengthening of NoResurrection that the other invariants start from.
DocumentInv ==
    /\ Quiet
    /\ \A s \in Service : PostFollows(s) /\ UnsentIsClean(s) /\ OneDocument(s)

\* A planned connection is not rejected: publishing never raises, or the
\* state machine refuses the move.
RejectsEarly == CanFail => ~ CanMove("UNDER_PROVISIONING", "REJECTED")

Provisioned == { "UNDER_PROVISIONING", "UP", "DOWN" }

StatusFollows(s) ==
    Present(s) =>
        /\ Unsent(s) /\ post[s].pc # "done" => conns[s].status = "REQUESTED"
        /\ Unsent(s) => conns[s].status \in { "REQUESTED", "REJECTED" }
        /\ ~ Unsent(s) => conns[s].status \in Provisioned

\* The LC thread's copy is at most one move ahead of the document.
CopyFollows ==
    lc # Idle =>
        /\ lc.conn.status \in Provisioned
        /\ Present(lc.sid) =>
               conns[lc.sid].status \in { lc.conn.status, "UNDER_PROVISIONING" }

\* What the refinement of ConnectionLifecycle needs of a state.
LifeInv == CopyFollows /\ \A s \in Service : StatusFollows(s)

(***************************************************************************)
(* What holds a connection up.                                             *)
(***************************************************************************)
Refused(s) == \E g \in Segment : oxp[s][g] = "refused"

\* A partial cleanup is that of a connection one of whose EVCs was refused.
PartialIsRefused ==
    /\ \A s \in Service : Present(s) /\ conns[s].partial => Refused(s)
    /\ lc # Idle /\ (lc.conn.partial \/ lc.pc \in { "cleanup", "late" }) => Refused(lc.sid)

\* ... and its resources are released before the document says so.
PartialIsReleased ==
    /\ \A s \in Service : Present(s) /\ conns[s].partial => ~ reserved[s]
    /\ lc # Idle /\ lc.pc \in { "late", "save" } /\ lc.conn.partial => ~ reserved[lc.sid]

PlannedOnce(s) == post[s].pc = "planned" \/ ~ Unsent(s)

Deleting(s, g) == [ op |-> "delete", sid |-> s, seg |-> g ] \in toLC

\* Until a DELETE takes them away, or an OXP has refused an EVC, a planned
\* connection keeps its breakdown, its resources and its EVCs.
Kept(s) ==
    Present(s) /\ PlannedOnce(s) =>
        /\ breakdowns[s] # {} \/ Removing(s, Published)
        /\ reserved[s] \/ Refused(s) \/ Removing(s, Published \cup {"send"})
        /\ \/ \A g \in Segment : oxp[s][g] # "gone" /\ ~ Deleting(s, g)
           \/ Refused(s) \/ Removing(s, Published)

UnsentIsDown(s) ==
    Present(s) /\ Unsent(s) => conns[s].status \in { "REQUESTED", "REJECTED" }

\* A DELETE works on a connection that was posted, and once it has marked
\* the document, there is none.
DeleteFollows(r) ==
    del[r] \notin { Idle, Finished } =>
        /\ post[del[r].sid].pc # "idle"
        /\ del[r].pc = "markBreakdown" => ~ Present(del[r].sid)

\* The strengthening of UpIsOperational and ReservationFollows.
OperationalInv ==
    /\ PartialIsRefused /\ PartialIsReleased
    /\ \A s \in Service : Kept(s) /\ UnsentIsDown(s)
    /\ \A r \in Request : DeleteFollows(r)

(***************************************************************************)
(* What a partial cleanup reaches, when nothing but a refused EVC goes     *)
(* wrong: no DELETE, no publish that raises, no EVC that cannot be removed *)
(* and one segment in a domain.                                            *)
(***************************************************************************)
OnlyRefusals ==
    /\ Undisturbed /\ ~ CanFail /\ ~ DeleteMayFail /\ Request = {}
    /\ \A g, h \in Segment : DomOf[g] = DomOf[h] => g = h

\* Nothing is taken away, and POST has saved what it has sent.
Stays(s) ==
    /\ post[s].pc # "idle" => Present(s)
    /\ PlannedOnce(s) => breakdowns[s] # {}

\* Of a connection no EVC of which was refused, every answer moves the status.
Whole(s, c) ==
    ~ c.partial =>
        \/ c.status = "UNDER_PROVISIONING"
        \/ c.status = "UP" /\ c.count >= Cardinality(breakdowns[s])

WholeInv ==
    /\ \A s \in Service : Present(s) /\ ~ Unsent(s) => Whole(s, conns[s])
    /\ lc.pc = "save" => Whole(lc.sid, lc.conn)

\* A domain in late_cleanup_domains has its delete message, or no EVC.
LateDeleted(s, c) ==
    \A g \in Segment : DomOf[g] \in c.late => oxp[s][g] = "gone" \/ Deleting(s, g)

LateInv ==
    /\ \A s \in Service : Present(s) => LateDeleted(s, conns[s])
    /\ lc # Idle => LateDeleted(lc.sid, lc.conn)

\* The document is about to be told of the partial cleanup.
CleanupFollows ==
    lc # Idle =>
        /\ lc.pc = "cleanup" => lc.conn.partial /\ ~ conns[lc.sid].partial
        /\ lc.pc = "late" => lc.conn.partial /\ lc.seg \in lc.conn.evc
        /\ lc.pc = "save" /\ conns[lc.sid].partial => lc.conn.partial

DeletesSucceed == \A m \in toSDX : m.op = "delete" => m.ok

Working(s) == lc # Idle /\ lc.sid = s

\* Who will see to the EVC of segment g that is up.
Reached(s, g) ==
    \/ Deleting(s, g)
    \/ Answered(s, g, TRUE)
    \/ Working(s) /\ lc.pc = "late" /\ lc.seg = g
    \/ Working(s) /\ lc.pc = "cleanup" /\ g \in lc.conn.evc
    \/ Working(s) /\ lc.pc = "save" /\ ~ lc.conn.partial /\ g \in lc.conn.evc
    \/ ~ Working(s) /\ ~ conns[s].partial /\ g \in conns[s].evc

\* The strengthening of CleanupComplete.
CleanupInv ==
    /\ \A s \in Service : Stays(s)
    /\ DeletesSucceed /\ WholeInv /\ LateInv /\ CleanupFollows
    /\ \A s \in Service, g \in Segment : oxp[s][g] = "up" => Reached(s, g)
=============================================================================
