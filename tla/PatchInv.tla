------------------------------ MODULE PatchInv ------------------------------
(***************************************************************************)
(* The inductive invariant behind UpMatchesRequest and NoDoubleProvision   *)
(* of Patch, checked by TLC and proved in PatchProofs.  As long as none of *)
(* the weaknesses these properties excuse has struck, the connection is in *)
(* one of five modes: served; removed by PATCH; being placed by PATCH; or  *)
(* by the LC thread, which rolls a failed PATCH back; or ended, with a     *)
(* request that nobody could place.                                        *)
(***************************************************************************)
EXTENDS Patch

\* Only a connection that is up is modified: a PATCH of one that is not ends
\* when its status is checked (l2vpn_controller:353-357).
OnlyUpModifies == \A st \in Status : CanMove(st, "MODIFYING") => st = "UP"

Excused == { "publish", "stuck", "hasty", "expired", "raced", "lost" }

(***************************************************************************)
(* What is under way.                                                      *)
(***************************************************************************)
Members(q) == { q[i] : i \in 1 .. Len(q) }
Once(q, X) == \A i, j \in 1 .. Len(q) : q[i] \in X /\ q[j] \in X => i = j

OrdersTo(op) == { o \in Order : o.op = op }
AnswersOf(op, g) == { a \in Answer : a.op = op /\ a.seg = g }

Asked(g) == Members(toLC[g]) \cap OrdersTo("post")
Removals(g) == Members(toLC[g]) \cap OrdersTo("delete")
Replies(op, g) == Members(inbox) \cap AnswersOf(op, g)

Awaited(g) == Asked(g) # {} \/ Replies("post", g) # {}

AwaitedOnce(g) ==
    /\ Once(toLC[g], OrdersTo("post")) /\ Once(inbox, AnswersOf("post", g))
    /\ Asked(g) = {} \/ Replies("post", g) = {}

Leaving(g, n) == [ op |-> "delete", id |-> n ] \in Removals(g)

\* A delete is of a placement that was made, and succeeds.
Deleting ==
    /\ attempt >= 1
    /\ \A g \in Segment : \A o \in Removals(g) : o.id <= attempt
    /\ \A g \in Segment : \A a \in Replies("delete", g) : a.ok

\* There is no EVC but those about to be deleted, and there will be none.
Cleared ==
    /\ \A g \in Segment : ~ Awaited(g)
    /\ \A e \in evcs : Leaving(e[1], e[2])

(***************************************************************************)
(* The document of a connection that is served.                            *)
(***************************************************************************)
http == th["http"]
lc == th["lc"]

\* The LC thread handles an answer, and its copy is the newer one.
Busy == lc.pc \in { "cleanup", "late", "save" }
Doc == IF Busy THEN lc.doc ELSE conn

Provisioned(c) == { g \in breakdown : c.evc[g] = attempt }

\* What a copy of the document says of the current placement and nothing else.
Current(c) ==
    /\ ~ c.inProgress
    /\ \A g \in Segment : c.evc[g] = 0 \/ (c.evc[g] = attempt /\ g \in breakdown)

\* Provisioned in every segment.
Whole(c) ==
    /\ c.status \in { "UP", "MODIFYING" }
    /\ ~ c.partial /\ c.late = {}
    /\ Provisioned(c) = breakdown

\* Being provisioned, with every answer counted.
Coming(c) ==
    /\ c.status = "UNDER_PROVISIONING"
    /\ ~ c.partial /\ c.late = {}
    /\ c.count = Cardinality(Provisioned(c))

Failed(c) == c.status = "DOWN" /\ c.partial

(***************************************************************************)
(* What is under way for the placement, seen from a copy c of the          *)
(* document.                                                               *)
(***************************************************************************)
\* The create or the answer that segment g is waiting for.
Expected(g, c) ==
    /\ AwaitedOnce(g)
    /\ Awaited(g) =>
           g \in breakdown /\ c.evc[g] = 0 /\ g \notin c.late /\ ~ Leaving(g, attempt)
    /\ \A o \in Asked(g) : o.id = attempt /\ << g, attempt >> \notin evcs
    /\ \A a \in Replies("post", g) :
           a.id = attempt /\ (a.ok <=> << g, attempt >> \in evcs)

\* While a PATCH may still be rolled back, what is under way is of its own
\* placement, so oxp_response names segments that have answered for it.
OwnAnswers(c) ==
    \A g \in Segment :
        Removals(g) # {} \/ Replies("delete", g) # {} \/ g \in c.resp
            => g \in breakdown /\ ~ Awaited(g)

\* An EVC that is there is about to be deleted; or it is of the current
\* placement, and its answer is yet to come, or it is recorded and either
\* nothing has failed or its segment is in W, where deletes are about to be
\* published.
Traced(g, n, c, W) ==
    \/ Leaving(g, n)
    \/ n = attempt /\ Awaited(g)
    \/ n = attempt /\ c.evc[g] = attempt /\ (~ c.partial \/ g \in W)

Followed(c, W) ==
    /\ \A g \in Segment : Expected(g, c)
    /\ c.onFail => OwnAnswers(c)
    /\ ~ c.partial =>
           \A g \in Provisioned(c) : << g, attempt >> \in evcs /\ ~ Leaving(g, attempt)
    /\ \A e \in evcs : Traced(e[1], e[2], c, W)

\* The segments the LC thread is about to publish deletes for.
Pending ==
    CASE lc.pc = "cleanup" -> Segment
      [] lc.pc = "late" -> lc.seg
      [] OTHER -> {}

\* The document c and the newer copy d of it.
Coherent(c, d) ==
    /\ breakdown # {} /\ request[attempt] = c.req
    /\ Current(c) /\ Current(d)
    /\ Whole(c) \/ Coming(c) \/ Failed(c)
    /\ Whole(d) \/ Coming(d) \/ Failed(d)
    /\ Whole(c) => Whole(d)
    /\ c.onFail /\ c.partial => Cardinality(c.resp) < Cardinality(breakdown)

(***************************************************************************)
(* The five modes.                                                         *)
(***************************************************************************)
Unplaced(c) == c.status \in { "REQUESTED", "REJECTED" } /\ ~ c.onFail

\* What thread t places, and has stored, from the reset to the publication.
Placing(t) ==
    LET x == th[t] IN
    /\ conn = x.doc
    /\ x.doc.count = 0 /\ x.doc.resp = {} /\ x.doc.evc = NoIds
    /\ ~ x.doc.partial /\ x.doc.late = {} /\ ~ x.doc.inProgress
    /\ x.doc.onFail <=> x.job = "new"
    /\ x.doc.status = IF x.pc = "publish" THEN "UNDER_PROVISIONING" ELSE "REQUESTED"
    /\ x.pc \in { "mark", "publish" } =>
           /\ x.brk = breakdown /\ breakdown # {} /\ x.id = attempt
           /\ request[attempt] = conn.req
           /\ \A g \in Segment : ~ Leaving(g, attempt)

\* The copy PATCH has read of a connection that was up.
ReadUp == ~ http.doc.partial /\ http.doc.late = {}

HttpServes ==
    /\ http.pc \in { "idle", "wait", "modify", "remove", "send" }
    /\ http.pc \in { "modify", "remove", "send" } =>
           http.job = "new" /\ ReadUp /\ Whole(conn)
    /\ http.pc = "send" => http.brk = breakdown /\ http.doc.evc = conn.evc

LcServes ==
    /\ lc.pc = "idle" \/ Busy
    /\ lc.job = "none"
    /\ Busy => lc.brk = breakdown /\ lc.doc.onFail = conn.onFail
    /\ lc.pc \in { "cleanup", "late" } => lc.doc.partial
    /\ lc.pc = "late" => \A g \in lc.seg : g \in breakdown /\ lc.doc.evc[g] = attempt

Serving ==
    /\ Present /\ Coherent(conn, Doc)
    /\ HttpServes /\ LcServes
    /\ Followed(Doc, Pending)

Removed ==
    /\ http.pc \in { "drop", "reset" } /\ http.job = "new" /\ ReadUp
    /\ lc.pc \in { "idle", "save" } /\ lc.job = "none"
    /\ Cleared
    /\ http.pc = "reset" => ~ Present
    /\ http.pc = "drop" =>
           /\ Present /\ conn.status \in { "UP", "MODIFYING" }
    /\ lc.pc = "save" => lc.doc.status \in { "UP", "MODIFYING" }

PatchPlaces ==
    /\ http.pc \in { "reset", "plan", "mark", "publish", "reject" }
    /\ Quiet /\ Cleared
    /\ http.job \in { "new", "old" }
    /\ http.pc \in { "reset", "reject" } => http.job = "old"
    /\ http.pc = "reject" => Present /\ Unplaced(conn)
    /\ http.pc \in { "plan", "mark", "publish" } => Placing("http")

LcPlaces ==
    /\ http.pc \in { "idle", "wait" }
    /\ lc.job = "old" /\ lc.pc \in { "begin", "reset", "plan", "mark", "publish" }
    /\ Present /\ Cleared
    /\ lc.pc \in { "begin", "reset" } => conn.status = "DOWN"
    /\ lc.pc \in { "plan", "mark", "publish" } => Placing("lc")

Ended ==
    /\ http.pc \in { "idle", "wait" }
    /\ lc.pc \in { "idle", "save" } /\ lc.job = "none"
    /\ Present /\ Unplaced(conn) /\ Cleared
    /\ lc.pc = "save" => Unplaced(lc.doc) /\ lc.doc.status = conn.status

\* PATCH waits for its new request, or the LC thread has put the old one back.
WaitsFor ==
    http.pc = "wait" =>
        /\ http.job \in { "new", "old" }
        /\ http.job = "new" => conn.onFail \/ conn.performed

Mode == Serving \/ Removed \/ PatchPlaces \/ LcPlaces \/ Ended

MatchInv == Unhurt(Excused) => Deleting /\ WaitsFor /\ Mode
=============================================================================
