-------------------------------- MODULE Bapm --------------------------------
(***************************************************************************)
(* The BAPM server, which stores what it is told of the network's          *)
(* performance.                                                            *)
(*                                                                         *)
(* Measurements are published to an exchange: by the OXPs, and by the test *)
(* publisher, which counts what the broker confirms.  The server is two    *)
(* threads.  The consumer takes measurements from the broker's queue into  *)
(* a queue in memory, and acknowledges them; the main thread indexes them  *)
(* in Elasticsearch under numbers it counts itself.                        *)
(*                                                                         *)
(* The connections of the publisher and of the consumer may be lost at any *)
(* stage, Elasticsearch may refuse a measurement, and the server may be    *)
(* restarted.  `hurt` records what of that has happened.                   *)
(***************************************************************************)
EXTENDS Integers, FiniteSets, Sequences

CONSTANTS
    MaxPublished,   \* measurements the publisher publishes
    MaxMeasured,    \* measurements of the OXPs
    NotJson,        \* those of them that are not JSON
    MaxRestarts,
    None            \* no delivery is on its way

ASSUME BapmAssumption ==
    /\ MaxPublished \in Nat /\ MaxMeasured \in Nat /\ MaxRestarts \in Nat
    /\ NotJson \subseteq 1 .. MaxMeasured

VARIABLES
    \* BAPMPublisher
    pub,            \* the stage it is in
    deliveries, acked, nacked, messageNumber,
    unconfirmed,    \* what the broker still has to confirm
    \* The broker.
    bound,          \* the queue is bound to the exchange
    queue,
    flight,         \* the delivery not acknowledged, of which there is one
    \* BAPMConsumer
    con,            \* the stage it is in
    threadQueue,    \* taken, and to be indexed
    \* The main thread.
    main, msgId,
    index,          \* measurement-index: the measurement under each number
    \* Bounds, and what has happened.
    measured, restarts, accepted, hurt

publisher == << pub, deliveries, acked, nacked, messageNumber, unconfirmed >>
server == << con, threadQueue, main, msgId, index >>
broker == << bound, queue, flight >>
ghosts == << measured, restarts, accepted, hurt >>
vars == << publisher, broker, server, ghosts >>

Measurement == [ by : { "publisher", "oxp" }, no : Nat ]
IsJson(m) == m.by = "publisher" \/ m.no \notin NotJson

Delivery == [ m : Measurement, taken : BOOLEAN ]
ASSUME NoneAssumption == None \notin Delivery

\* The stages of a connection, each followed by the next when the broker has
\* answered, and those after it is lost.
PubNext ==
    [ connection |-> "channel", channel |-> "exchange", exchange |-> "queue",
      queue |-> "bind", bind |-> "publishing" ]
ConNext ==
    [ connection |-> "channel", channel |-> "exchange", exchange |-> "queue",
      queue |-> "bind", bind |-> "qos", qos |-> "consuming" ]

PubOpen == { "connection", "channel", "exchange", "queue", "bind", "publishing" }
ConOpen == { "connection", "channel", "exchange", "queue", "bind", "qos", "consuming" }
Over == { "reopening", "stopping", "stopped" }

TypeOK ==
    /\ pub \in PubOpen \cup Over
    /\ deliveries \subseteq 1 .. messageNumber /\ unconfirmed \subseteq 1 .. messageNumber
    /\ acked \in Nat /\ nacked \in Nat /\ messageNumber \in Nat
    /\ bound \in BOOLEAN
    /\ queue \in Seq(Measurement)
    /\ flight \in { None } \cup Delivery
    /\ con \in ConOpen \cup { "closing", "ended" }
    /\ threadQueue \in Seq(Measurement)
    /\ main \in { "running", "dead" }
    /\ index \in Seq(Measurement)
    /\ msgId \in 1 .. Len(index) + 1
    /\ measured \in Nat /\ restarts \in Nat
    /\ accepted \subseteq Measurement
    /\ hurt \subseteq { "refused", "restarted", "several" }

Init ==
    /\ pub = "connection" /\ con = "connection"
    /\ deliveries = {} /\ acked = 0 /\ nacked = 0 /\ messageNumber = 0 /\ unconfirmed = {}
    /\ bound = FALSE /\ queue = << >> /\ flight = None
    /\ threadQueue = << >>
    /\ main = "running" /\ msgId = 1 /\ index = << >>
    /\ measured = 0 /\ restarts = 0 /\ accepted = {} /\ hurt = {}

\* A measurement is routed to the queue if it is bound.
Routed(m) ==
    /\ queue' = IF bound THEN Append(queue, m) ELSE queue
    /\ accepted' = IF bound THEN accepted \cup {m} ELSE accepted

OxpMeasures ==
    /\ measured < MaxMeasured
    /\ measured' = measured + 1
    /\ Routed([ by |-> "oxp", no |-> measured' ])
    /\ UNCHANGED << publisher, bound, flight, server, restarts, hurt >>

(***************************************************************************)
(* BAPMPublisher                                                           *)
(***************************************************************************)
PubAdvance ==
    /\ pub \in PubOpen \ { "publishing" }
    /\ pub' = PubNext[pub]
    /\ bound' = (bound \/ pub = "bind")
    /\ UNCHANGED << deliveries, acked, nacked, messageNumber, unconfirmed,
                    queue, flight, server, ghosts >>

\* Mutant of PublishMessage: the number is the one before.
MutPublishMessage ==
    /\ pub = "publishing" /\ messageNumber < MaxPublished
    /\ messageNumber' = messageNumber + 1
    /\ deliveries' = deliveries \cup { messageNumber }
    /\ unconfirmed' = unconfirmed \cup { messageNumber' }
    /\ Routed([ by |-> "publisher", no |-> messageNumber' ])
    /\ UNCHANGED << pub, acked, nacked, bound, flight, server, measured, restarts, hurt >>

PublishMessage ==
    /\ pub = "publishing" /\ messageNumber < MaxPublished
    /\ messageNumber' = messageNumber + 1
    /\ deliveries' = deliveries \cup { messageNumber' }
    /\ unconfirmed' = unconfirmed \cup { messageNumber' }
    /\ Routed([ by |-> "publisher", no |-> messageNumber' ])
    /\ UNCHANGED << pub, acked, nacked, bound, flight, server, measured, restarts, hurt >>

\* The broker confirms or refuses one publication, or all up to it with a
\* single confirmation.
Confirmable(n, D) == n \in unconfirmed /\ D \in { {n}, { k \in unconfirmed : k <= n } }

\* Mutant of OnDeliveryConfirmation: all that the broker means is forgotten.
MutConfirmation(n, D) ==
    /\ pub \in { "publishing", "stopping" } /\ Confirmable(n, D)
    /\ unconfirmed' = unconfirmed \ D
    /\ deliveries' = deliveries \ D
    /\ \/ acked' = acked + 1 /\ UNCHANGED nacked
       \/ nacked' = nacked + 1 /\ UNCHANGED acked
    /\ UNCHANGED << pub, messageNumber, broker, server, ghosts >>

\* The publisher takes every confirmation for one of the publication it names.
OnDeliveryConfirmation(n, D) ==
    /\ pub \in { "publishing", "stopping" } /\ Confirmable(n, D)
    /\ unconfirmed' = unconfirmed \ D
    /\ deliveries' = deliveries \ {n}
    /\ \/ acked' = acked + 1 /\ UNCHANGED nacked
       \/ nacked' = nacked + 1 /\ UNCHANGED acked
    /\ hurt' = IF D = {n} THEN hurt ELSE hurt \cup {"several"}
    /\ UNCHANGED << pub, messageNumber, broker, server, measured, restarts, accepted >>

\* "Connection closed, reopening in 5 seconds": the loop ends then, and with
\* it run.  A closed channel closes the connection.
PubLost ==
    /\ pub \in PubOpen
    /\ pub' = "reopening"
    /\ UNCHANGED << deliveries, acked, nacked, messageNumber, unconfirmed,
                    broker, server, ghosts >>

\* The user interrupts the publisher.
PubStop ==
    /\ pub \in PubOpen
    /\ pub' = "stopping"
    /\ UNCHANGED << deliveries, acked, nacked, messageNumber, unconfirmed,
                    broker, server, ghosts >>

PubEnd ==
    /\ pub \in { "reopening", "stopping" }
    /\ pub' = "stopped"
    /\ UNCHANGED << deliveries, acked, nacked, messageNumber, unconfirmed,
                    broker, server, ghosts >>

PublisherStep ==
    \/ PubAdvance \/ PublishMessage \/ PubLost \/ PubStop \/ PubEnd
    \/ \E n \in unconfirmed, D \in SUBSET unconfirmed : OnDeliveryConfirmation(n, D)

(***************************************************************************)
(* BAPMConsumer, and the broker's side of its channel.                     *)
(***************************************************************************)
ConAdvance ==
    /\ con \in ConOpen \ { "consuming" }
    /\ con' = ConNext[con]
    /\ bound' = (bound \/ con = "bind")
    /\ UNCHANGED << publisher, queue, flight, threadQueue, main, msgId, index, ghosts >>

\* The broker has at most one delivery unacknowledged (set_qos).
Deliver ==
    /\ con = "consuming" /\ flight = None /\ queue # << >>
    /\ flight' = [ m |-> Head(queue), taken |-> FALSE ]
    /\ queue' = Tail(queue)
    /\ UNCHANGED << publisher, bound, server, ghosts >>

\* Mutant of OnMessage: acknowledged, and not kept.
MutOnMessage ==
    /\ con = "consuming" /\ flight # None /\ ~ flight.taken
    /\ flight' = [ flight EXCEPT !.taken = TRUE ]
    /\ UNCHANGED << publisher, bound, queue, server, ghosts >>

OnMessage ==
    /\ con = "consuming" /\ flight # None /\ ~ flight.taken
    /\ threadQueue' = Append(threadQueue, flight.m)
    /\ flight' = [ flight EXCEPT !.taken = TRUE ]
    /\ UNCHANGED << publisher, bound, queue, con, main, msgId, index, ghosts >>

\* The acknowledgement reaches the broker.
Acknowledge ==
    /\ con = "consuming" /\ flight # None /\ flight.taken
    /\ flight' = None
    /\ UNCHANGED << publisher, bound, queue, server, ghosts >>

\* When its channel is gone, the broker puts the delivery back.
Requeued ==
    /\ queue' = IF flight = None THEN queue ELSE << flight.m >> \o queue
    /\ flight' = None

\* The broker closes the channel, or cancels the consumer.
ChannelClosed ==
    /\ con \in ConOpen \ { "connection", "channel" }
    /\ con' = "closing"
    /\ Requeued
    /\ UNCHANGED << publisher, bound, threadQueue, main, msgId, index, ghosts >>

\* reconnect sets should_reconnect, which nobody reads, and stops the loop.  Of
\* a consumer that was consuming the channel is closed first, and with it
\* _consuming, so that stop does not wait for the broker.
ConLost ==
    /\ con \in ConOpen \cup { "closing" }
    /\ con' = "ended"
    /\ Requeued
    /\ UNCHANGED << publisher, bound, threadQueue, main, msgId, index, ghosts >>

(***************************************************************************)
(* The main thread.                                                        *)
(***************************************************************************)
\* es.index(id=n): what was under the number is replaced.
Indexed(n, m) == index' = [ i \in 1 .. (IF n > Len(index) THEN n ELSE Len(index)) |->
                                IF i = n THEN m ELSE index[i] ]

\* Mutant of IndexNext: the number is not counted.
MutIndexNext ==
    /\ main = "running" /\ threadQueue # << >>
    /\ threadQueue' = Tail(threadQueue)
    /\ IF IsJson(Head(threadQueue)) THEN Indexed(msgId, Head(threadQueue)) ELSE UNCHANGED index
    /\ UNCHANGED << publisher, broker, con, main, msgId, ghosts >>

IndexNext ==
    /\ main = "running" /\ threadQueue # << >>
    /\ threadQueue' = Tail(threadQueue)
    /\ IF IsJson(Head(threadQueue))
       THEN Indexed(msgId, Head(threadQueue)) /\ msgId' = msgId + 1
       ELSE UNCHANGED << msgId, index >>
    /\ UNCHANGED << publisher, broker, con, main, ghosts >>

\* Elasticsearch refuses: the main thread ends, and the consumer goes on.
IndexRefused ==
    /\ main = "running" /\ threadQueue # << >> /\ IsJson(Head(threadQueue))
    /\ threadQueue' = Tail(threadQueue)
    /\ main' = "dead"
    /\ hurt' = hurt \cup {"refused"}
    /\ UNCHANGED << publisher, broker, con, msgId, index, measured, restarts, accepted >>

\* The server is restarted.
Restart ==
    /\ restarts < MaxRestarts
    /\ restarts' = restarts + 1
    /\ con' = "connection" /\ threadQueue' = << >>
    /\ main' = "running" /\ msgId' = 1
    /\ Requeued
    /\ hurt' = hurt \cup {"restarted"}
    /\ UNCHANGED << publisher, bound, index, measured, accepted >>

ServerStep == ConAdvance \/ Deliver \/ OnMessage \/ Acknowledge \/ IndexNext \/ IndexRefused

-----------------------------------------------------------------------------
Next ==
    \/ OxpMeasures
    \/ PublisherStep
    \/ ServerStep \/ ChannelClosed \/ ConLost
    \/ Restart

Spec == Init /\ [][Next]_vars

\* The broker answers the consumer, and both threads of the server run.
FairSpec ==
    /\ Spec
    /\ WF_vars(ConAdvance) /\ WF_vars(Deliver) /\ WF_vars(OnMessage) /\ WF_vars(Acknowledge)
    /\ WF_vars(IndexNext \/ IndexRefused)

-----------------------------------------------------------------------------
(***************************************************************************)
(* Properties.                                                             *)
(***************************************************************************)
Members(seq) == { seq[i] : i \in DOMAIN seq }
Distinct(seq) == \A i, j \in DOMAIN seq : seq[i] = seq[j] => i = j
Unhurt(W) == hurt \cap W = {}

\* What the publisher logs adds up, it never takes for settled what the broker
\* has not confirmed, and it keeps nothing that has been: a publication is
\* acked, nacked, or in _deliveries until it is confirmed, unless the broker
\* has settled several with one confirmation (on_delivery_confirmation).
Accounted ==
    /\ messageNumber = acked + nacked + Cardinality(deliveries)
    /\ unconfirmed \subseteq deliveries
    /\ Unhurt({"several"}) => deliveries = unconfirmed

\* A measurement the queue has accepted is in one of the queues or indexed,
\* and never under two numbers, though connections are lost, until
\* Elasticsearch refuses one or the server is restarted.
KeptOnce ==
    Unhurt({"refused", "restarted"}) =>
        /\ \A m \in accepted : IsJson(m) =>
               \/ m \in Members(queue) \cup Members(threadQueue) \cup Members(index)
               \/ flight # None /\ flight.m = m
        /\ Distinct(index)

\* The strengthening of KeptOnce.  What is in the queues has been accepted,
\* and was numbered once.  Until one is refused or the server restarted, the
\* next number is a free one, and a measurement the consumer has taken is
\* beyond the broker; the broker may put it back after that, but only once no
\* connection is left to deliver it again.
Numbered ==
    /\ \A m \in accepted : m.no <= IF m.by = "publisher" THEN messageNumber ELSE measured
    /\ Members(queue) \cup Members(threadQueue) \cup Members(index) \subseteq accepted
    /\ flight # None => flight.m \in accepted

Taken == Members(threadQueue) \cup Members(index)

KeptInv ==
    Unhurt({"refused", "restarted"}) =>
        /\ KeptOnce
        /\ msgId = Len(index) + 1
        /\ Distinct(threadQueue) /\ Members(threadQueue) \cap Members(index) = {}
        /\ flight # None /\ flight.taken /\ IsJson(flight.m) => flight.m \in Taken
        /\ con \in ConOpen =>
               /\ Distinct(queue) /\ Members(queue) \cap Taken = {}
               /\ flight # None => flight.m \notin Members(queue)
               /\ flight # None /\ ~ flight.taken => flight.m \notin Taken

\* A measurement in the queue is indexed in the end, unless the consumer loses
\* its connection, Elasticsearch refuses one or the server is restarted.
MeasurementsArrive ==
    \A n \in 1 .. MaxMeasured :
        LET m == [ by |-> "oxp", no |-> n ] IN
        m \in Members(queue) /\ IsJson(m) ~>
            \/ m \in Members(index)
            \/ con \in { "closing", "ended" }
            \/ ~ Unhurt({"refused", "restarted"})
=============================================================================
