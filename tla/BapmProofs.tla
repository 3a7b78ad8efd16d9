----------------------------- MODULE BapmProofs -----------------------------
(***************************************************************************)
(* Proofs about Bapm: type correctness; that the publisher's account of    *)
(* its publications adds up; and that a measurement is kept once, as long  *)
(* as nothing has been refused and the server has not been restarted.      *)
(***************************************************************************)
EXTENDS Bapm, FiniteSetTheorems, SequenceTheorems, TLAPS

(***************************************************************************)
(* Types, one lemma for each of the three processes.                       *)
(***************************************************************************)
LEMMA InitType ==
    ASSUME Init
    PROVE  TypeOK
<1>1. << >> \in Seq(Measurement) /\ Len(<< >>) = 0
      OBVIOUS
<1>2. pub \in PubOpen /\ con \in ConOpen
      BY DEF Init, PubOpen, ConOpen
<1>3. msgId \in 1 .. Len(index) + 1
      BY <1>1 DEF Init
<1> QED
    BY <1>1, <1>2, <1>3 DEF Init, TypeOK

LEMMA RoutedType ==
    ASSUME TypeOK, NEW m \in Measurement, Routed(m)
    PROVE  queue' \in Seq(Measurement) /\ accepted' \subseteq Measurement
BY DEF TypeOK, Routed

LEMMA RequeuedType ==
    ASSUME TypeOK, Requeued
    PROVE  queue' \in Seq(Measurement) /\ flight' = None
<1>1. CASE flight = None
      BY <1>1 DEF TypeOK, Requeued
<1>2. CASE flight # None
  <2>1. flight.m \in Measurement
        BY <1>2 DEF TypeOK, Delivery
  <2>2. << flight.m >> \in Seq(Measurement)
        BY <2>1
  <2>3. << flight.m >> \o queue \in Seq(Measurement)
        BY <2>2 DEF TypeOK
  <2> QED
      BY <1>2, <2>3 DEF Requeued
<1> QED
    BY <1>1, <1>2

LEMMA PublisherType ==
    ASSUME TypeOK, PublisherStep
    PROVE  TypeOK'
<1>1. CASE PubAdvance
  <2>1. PubNext[pub] \in PubOpen
        BY <1>1 DEF PubAdvance, PubNext, PubOpen
  <2> QED
      BY <1>1, <2>1 DEF PubAdvance, TypeOK, server, ghosts
<1>2. CASE PublishMessage
  <2>1. [ by |-> "publisher", no |-> messageNumber' ] \in Measurement
        BY <1>2 DEF PublishMessage, TypeOK, Measurement
  <2>2. queue' \in Seq(Measurement) /\ accepted' \subseteq Measurement
        BY <1>2, <2>1, RoutedType DEF PublishMessage
  <2> QED
      BY <1>2, <2>2 DEF PublishMessage, TypeOK, server
<1>3. ASSUME NEW n \in unconfirmed, NEW D \in SUBSET unconfirmed, OnDeliveryConfirmation(n, D)
      PROVE  TypeOK'
  <2>1. acked' \in Nat /\ nacked' \in Nat
        BY <1>3 DEF OnDeliveryConfirmation, TypeOK
  <2>2. deliveries' \subseteq 1 .. messageNumber' /\ unconfirmed' \subseteq 1 .. messageNumber'
        BY <1>3 DEF OnDeliveryConfirmation, TypeOK
  <2>3. hurt' \subseteq { "refused", "restarted", "several" }
        BY <1>3 DEF OnDeliveryConfirmation, TypeOK
  <2> QED
      BY <1>3, <2>1, <2>2, <2>3 DEF OnDeliveryConfirmation, TypeOK, broker, server
<1>4. CASE PubLost
      BY <1>4 DEF PubLost, TypeOK, Over, broker, server, ghosts
<1>5. CASE PubStop
      BY <1>5 DEF PubStop, TypeOK, Over, broker, server, ghosts
<1>6. CASE PubEnd
      BY <1>6 DEF PubEnd, TypeOK, Over, broker, server, ghosts
<1> QED
    BY <1>1, <1>2, <1>3, <1>4, <1>5, <1>6 DEF PublisherStep

LEMMA ConsumerType ==
    ASSUME TypeOK, ConAdvance \/ Deliver \/ OnMessage \/ Acknowledge \/ ChannelClosed \/ ConLost
    PROVE  TypeOK'
<1>1. CASE ConAdvance
  <2>1. ConNext[con] \in ConOpen
        BY <1>1 DEF ConAdvance, ConNext, ConOpen
  <2> QED
      BY <1>1, <2>1 DEF ConAdvance, TypeOK, publisher, ghosts
<1>2. CASE Deliver
  <2>1. Head(queue) \in Measurement /\ Tail(queue) \in Seq(Measurement)
        BY <1>2 DEF Deliver, TypeOK
  <2> QED
      BY <1>2, <2>1 DEF Deliver, TypeOK, Delivery, publisher, server, ghosts
<1>3. CASE OnMessage
  <2>1. flight.m \in Measurement
        BY <1>3 DEF OnMessage, TypeOK, Delivery
  <2>2. threadQueue' \in Seq(Measurement)
        BY <1>3, <2>1 DEF OnMessage, TypeOK
  <2>3. flight' \in [ m : Measurement, taken : BOOLEAN ]
        BY <1>3 DEF OnMessage, TypeOK, Delivery
  <2> QED
      BY <1>3, <2>2, <2>3 DEF OnMessage, TypeOK, Delivery, publisher, ghosts
<1>4. CASE Acknowledge
      BY <1>4 DEF Acknowledge, TypeOK, publisher, server, ghosts
<1>5. CASE ChannelClosed \/ ConLost
  <2>1. queue' \in Seq(Measurement) /\ flight' = None
        BY <1>5, RequeuedType DEF ChannelClosed, ConLost
  <2> QED
      BY <1>5, <2>1 DEF ChannelClosed, ConLost, TypeOK, publisher, ghosts
<1> QED
    BY <1>1, <1>2, <1>3, <1>4, <1>5

\* Indexing under a number at most one past the last keeps the index a sequence.
LEMMA IndexedType ==
    ASSUME TypeOK, NEW m \in Measurement, Indexed(msgId, m)
    PROVE  index' \in Seq(Measurement) /\ msgId + 1 \in 1 .. Len(index') + 1
<1> DEFINE L == IF msgId > Len(index) THEN msgId ELSE Len(index)
<1>1. L \in Nat /\ msgId <= L /\ Len(index) \in Nat
      BY DEF TypeOK
<1>2. index' = [ i \in 1 .. L |-> IF i = msgId THEN m ELSE index[i] ]
      BY DEF Indexed
<1>3. \A i \in 1 .. L : i # msgId => index[i] \in Measurement
      BY DEF TypeOK
<1>4. index' \in [ 1 .. L -> Measurement ]
      BY <1>2, <1>3
<1>5. index' \in Seq(Measurement)
      BY <1>1, <1>4
<1>6. Len(index') = L
      BY <1>1, <1>4, <1>5
<1> QED
    BY <1>1, <1>5, <1>6 DEF TypeOK

LEMMA MainType ==
    ASSUME TypeOK, IndexNext \/ IndexRefused
    PROVE  TypeOK'
<1>1. Head(threadQueue) \in Measurement /\ Tail(threadQueue) \in Seq(Measurement)
      BY DEF TypeOK, IndexNext, IndexRefused
<1>2. CASE IndexNext
  <2>1. index' \in Seq(Measurement) /\ msgId' \in 1 .. Len(index') + 1
    <3>1. CASE IsJson(Head(threadQueue))
          BY <1>1, <1>2, <3>1, IndexedType DEF IndexNext
    <3>2. CASE ~ IsJson(Head(threadQueue))
          BY <1>2, <3>2 DEF IndexNext, TypeOK
    <3> QED
        BY <3>1, <3>2
  <2> QED
      BY <1>1, <1>2, <2>1 DEF IndexNext, TypeOK, publisher, broker, ghosts
<1>3. CASE IndexRefused
      BY <1>1, <1>3 DEF IndexRefused, TypeOK, publisher, broker
<1> QED
    BY <1>2, <1>3

LEMMA NextType ==
    ASSUME TypeOK, [Next]_vars
    PROVE  TypeOK'
<1>1. CASE OxpMeasures
  <2>1. [ by |-> "oxp", no |-> measured' ] \in Measurement
        BY <1>1 DEF OxpMeasures, TypeOK, Measurement
  <2>2. queue' \in Seq(Measurement) /\ accepted' \subseteq Measurement
        BY <1>1, <2>1, RoutedType DEF OxpMeasures
  <2> QED
      BY <1>1, <2>2 DEF OxpMeasures, TypeOK, publisher, server
<1>2. CASE Restart
  <2>1. queue' \in Seq(Measurement) /\ flight' = None
        BY <1>2, RequeuedType DEF Restart
  <2>2. << >> \in Seq(Measurement) /\ Len(index) \in Nat
        BY DEF TypeOK
  <2> QED
      BY <1>2, <2>1, <2>2 DEF Restart, TypeOK, ConOpen, publisher
<1>3. CASE UNCHANGED vars
      BY <1>3 DEF vars, publisher, broker, server, ghosts, TypeOK
<1> QED
    BY <1>1, <1>2, <1>3, PublisherType, ConsumerType, MainType DEF Next, ServerStep

\* Types, for any number of measurements and restarts.
THEOREM TypeCorrect == Spec => []TypeOK
BY InitType, NextType, PTL DEF Spec

(***************************************************************************)
(* The publisher's account.                                                *)
(***************************************************************************)
LEMMA DeliveriesFinite ==
    ASSUME TypeOK
    PROVE  IsFiniteSet(deliveries)
<1>1. IsFiniteSet(1 .. messageNumber)
      BY FS_Interval DEF TypeOK
<1> QED
    BY <1>1, FS_Subset DEF TypeOK

\* One confirmation more in the counts, and one delivery less to come.
LEMMA Balance ==
    ASSUME NEW m \in Int, NEW s \in Int, NEW c \in Int, NEW t \in Int, NEW e \in Int,
           m = s + c, t = s + 1, e = c - 1
    PROVE  m = t + e
OBVIOUS

LEMMA NextAccounted ==
    ASSUME TypeOK, Accounted, [Next]_vars
    PROVE  Accounted'
<1> USE DEF Accounted
<1>1. CASE PublishMessage
  <2>1. messageNumber' \notin deliveries /\ messageNumber \in Nat
        BY <1>1 DEF PublishMessage, TypeOK
  <2>2. Cardinality(deliveries') = Cardinality(deliveries) + 1
        BY <1>1, <2>1, DeliveriesFinite, FS_AddElement DEF PublishMessage
  <2>3. Cardinality(deliveries) \in Nat
        BY DeliveriesFinite, FS_CardinalityType
  <2>4. messageNumber = acked + nacked + Cardinality(deliveries)
        OBVIOUS
  <2>5. /\ messageNumber' = messageNumber + 1 /\ acked' = acked /\ nacked' = nacked
        /\ acked \in Nat /\ nacked \in Nat
        BY <1>1 DEF PublishMessage, TypeOK
  <2>6. messageNumber' = acked' + nacked' + Cardinality(deliveries')
        BY <2>2, <2>3, <2>4, <2>5
  <2>7. unconfirmed' \subseteq deliveries'
        BY <1>1 DEF PublishMessage
  <2>8. Unhurt({"several"})' => deliveries' = unconfirmed'
        BY <1>1 DEF PublishMessage, Unhurt
  <2> QED
      BY <2>6, <2>7, <2>8
<1>2. ASSUME NEW n \in unconfirmed, NEW D \in SUBSET unconfirmed, OnDeliveryConfirmation(n, D)
      PROVE  Accounted'
  <2>1. n \in deliveries /\ n \in D
    <3>1. n <= n
          BY DEF TypeOK
    <3> QED
        BY <1>2, <3>1 DEF OnDeliveryConfirmation, Confirmable
  <2>2. Cardinality(deliveries') = Cardinality(deliveries) - 1
        BY <1>2, <2>1, DeliveriesFinite, FS_RemoveElement DEF OnDeliveryConfirmation
  <2>3. Cardinality(deliveries) \in Nat
        BY DeliveriesFinite, FS_CardinalityType
  <2>4. unconfirmed' \subseteq deliveries'
        BY <1>2, <2>1 DEF OnDeliveryConfirmation
  <2>5. acked' + nacked' = acked + nacked + 1 /\ acked \in Nat /\ nacked \in Nat
    <3>1. \/ acked' = acked + 1 /\ nacked' = nacked
          \/ nacked' = nacked + 1 /\ acked' = acked
          BY <1>2 DEF OnDeliveryConfirmation
    <3> QED
        BY <3>1 DEF TypeOK
  <2>6. messageNumber' = messageNumber /\ acked' \in Nat /\ nacked' \in Nat
        BY <1>2 DEF OnDeliveryConfirmation, TypeOK
  <2>7. messageNumber = acked + nacked + Cardinality(deliveries)
        OBVIOUS
  <2>8. messageNumber' = acked' + nacked' + Cardinality(deliveries')
    <3> DEFINE C == Cardinality(deliveries)
               E == Cardinality(deliveries')
    <3>1. C \in Int /\ E \in Int /\ E = C - 1
          BY <2>2, <2>3
    <3>2. /\ acked + nacked \in Int /\ acked' + nacked' \in Int
          /\ messageNumber \in Int /\ messageNumber = (acked + nacked) + C
          BY <2>5, <2>6, <2>7, <3>1
    <3> HIDE DEF C, E
    <3>3. messageNumber = (acked' + nacked') + E
          BY <2>5, <3>1, <3>2, Balance
    <3> QED
        BY <2>6, <3>3 DEF E
  <2>9. Unhurt({"several"})' => deliveries' = unconfirmed'
        BY <1>2 DEF OnDeliveryConfirmation, Unhurt
  <2> QED
      BY <2>4, <2>8, <2>9
<1>3. ASSUME UNCHANGED << deliveries, acked, nacked, messageNumber, unconfirmed >>,
             hurt \subseteq hurt'
      PROVE  Accounted'
      BY <1>3 DEF Unhurt
<1>4. CASE PubAdvance \/ PubLost \/ PubStop \/ PubEnd
      BY <1>3, <1>4 DEF PubAdvance, PubLost, PubStop, PubEnd, ghosts
<1>5. CASE OxpMeasures \/ ServerStep \/ ChannelClosed \/ ConLost \/ Restart \/ UNCHANGED vars
      BY <1>3, <1>5 DEF OxpMeasures, ServerStep, ConAdvance, Deliver, OnMessage, Acknowledge,
         IndexNext, IndexRefused, ChannelClosed, ConLost, Restart, vars, publisher, ghosts
<1> QED
    BY <1>1, <1>2, <1>4, <1>5 DEF Next, PublisherStep

LEMMA InitAccounted == Init => Accounted
BY FS_EmptySet DEF Init, Accounted

\* The publisher's counts add up, whatever the broker confirms, one by one or
\* many at once; it forgets nothing the broker has not confirmed, and keeps
\* nothing it has confirmed one by one.
THEOREM AccountCorrect == Spec => []Accounted
<1>1. Init => TypeOK /\ Accounted
      BY InitType, InitAccounted
<1>2. TypeOK /\ Accounted /\ [Next]_vars => (TypeOK /\ Accounted)'
      BY NextType, NextAccounted
<1> QED
    BY <1>1, <1>2, PTL DEF Spec

(***************************************************************************)
(* What is in a sequence, and whether it is there once.                    *)
(***************************************************************************)
LEMMA AppendMembers ==
    ASSUME NEW S, NEW q \in Seq(S), NEW m \in S
    PROVE  /\ Members(Append(q, m)) = Members(q) \cup {m}
           /\ Distinct(q) /\ m \notin Members(q) => Distinct(Append(q, m))
<1> DEFINE a == Append(q, m)
<1>1. PICK n \in Nat : n = Len(q)
      OBVIOUS
<1>2. DOMAIN q = 1 .. n /\ DOMAIN a = 1 .. (n + 1)
      BY <1>1
<1>3. a[n + 1] = m /\ \A i \in 1 .. n : a[i] = q[i]
      BY <1>1
<1> HIDE DEF a
<1>4. Members(a) = Members(q) \cup {m}
      BY <1>2, <1>3 DEF Members
<1>5. Distinct(q) /\ m \notin Members(q) => Distinct(a)
      BY <1>2, <1>3 DEF Members, Distinct
<1> QED
    BY <1>4, <1>5 DEF a

LEMMA TailMembers ==
    ASSUME NEW S, NEW q \in Seq(S), q # << >>
    PROVE  /\ Members(q) = Members(Tail(q)) \cup {Head(q)}
           /\ Distinct(q) => Distinct(Tail(q)) /\ Head(q) \notin Members(Tail(q))
<1> DEFINE a == Tail(q)
           h == Head(q)
<1>1. PICK n \in Nat : Len(q) = n + 1
  <2>1. Len(q) \in Nat /\ Len(q) # 0
        OBVIOUS
  <2> QED
      BY <2>1
<1>2. DOMAIN q = 1 .. (n + 1) /\ DOMAIN a = 1 .. n
      BY <1>1
<1>3. h = q[1] /\ \A i \in 1 .. n : a[i] = q[i + 1]
      BY <1>1
<1> HIDE DEF a, h
<1>4. \A j \in 1 .. (n + 1) : j = 1 \/ (j - 1 \in 1 .. n /\ j = (j - 1) + 1)
      OBVIOUS
<1>5. \A i \in 1 .. n : i + 1 \in 1 .. (n + 1) /\ i + 1 # 1
      OBVIOUS
<1>6. Members(q) \subseteq Members(a) \cup {h}
  <2>1. ASSUME NEW j \in 1 .. (n + 1), j # 1 PROVE q[j] \in Members(a)
    <3>1. PICK i \in 1 .. n : j = i + 1
          BY <1>4, <2>1
    <3>2. q[j] = a[i] /\ i \in DOMAIN a
          BY <1>2, <1>3, <3>1
    <3> QED
        BY <3>2 DEF Members
  <2> QED
      BY <1>2, <1>3, <2>1 DEF Members
<1>7. Members(a) \cup {h} \subseteq Members(q)
  <2>1. 1 \in DOMAIN q
        BY <1>2
  <2>2. h \in Members(q)
        BY <1>3, <2>1 DEF Members
  <2>3. ASSUME NEW i \in 1 .. n PROVE a[i] \in Members(q)
    <3>1. i + 1 \in DOMAIN q /\ a[i] = q[i + 1]
          BY <1>2, <1>3, <1>5
    <3> QED
        BY <3>1 DEF Members
  <2> QED
      BY <1>2, <2>2, <2>3 DEF Members
<1>8. ASSUME Distinct(q) PROVE Distinct(a) /\ h \notin Members(a)
  <2>1. ASSUME NEW i \in 1 .. n, NEW j \in 1 .. n, a[i] = a[j] PROVE i = j
    <3>1. i + 1 = j + 1
          BY <1>2, <1>3, <1>5, <1>8, <2>1 DEF Distinct
    <3> QED
        BY <3>1
  <2>2. ASSUME NEW i \in 1 .. n PROVE a[i] # h
    <3>1. 1 \in 1 .. (n + 1)
          OBVIOUS
    <3> QED
        BY <1>2, <1>3, <1>5, <1>8, <3>1 DEF Distinct
  <2> QED
      BY <1>2, <2>1, <2>2 DEF Distinct, Members
<1> QED
    BY <1>6, <1>7, <1>8 DEF a, h

LEMMA PutMembers ==
    ASSUME NEW S, NEW q \in Seq(S), NEW m \in S
    PROVE  Members(<< m >> \o q) = {m} \cup Members(q)
<1> DEFINE a == << m >> \o q
<1>1. PICK n \in Nat : n = Len(q)
      OBVIOUS
<1>2. << m >> \in Seq(S) /\ Len(<< m >>) = 1 /\ << m >>[1] = m
      OBVIOUS
<1>3. DOMAIN q = 1 .. n /\ DOMAIN a = 1 .. (1 + n)
      BY <1>1, <1>2
<1>4. a[1] = m /\ \A i \in 1 .. n : a[1 + i] = q[i]
      BY <1>1, <1>2
<1> HIDE DEF a
<1>5. \A j \in 1 .. (1 + n) : j = 1 \/ (j - 1 \in 1 .. n /\ 1 + (j - 1) = j)
      OBVIOUS
<1>6. \A i \in 1 .. n : 1 + i \in 1 .. (1 + n)
      OBVIOUS
<1>7. 1 \in 1 .. (1 + n)
      OBVIOUS
<1>8. Members(a) \subseteq {m} \cup Members(q)
  <2>1. ASSUME NEW j \in 1 .. (1 + n), j # 1 PROVE a[j] \in Members(q)
    <3>1. PICK i \in 1 .. n : 1 + i = j
          BY <1>5, <2>1
    <3>2. a[j] = q[i] /\ i \in DOMAIN q
          BY <1>3, <1>4, <3>1
    <3> QED
        BY <3>2 DEF Members
  <2> QED
      BY <1>3, <1>4, <2>1 DEF Members
<1>9. {m} \cup Members(q) \subseteq Members(a)
  <2>1. 1 \in DOMAIN a
        BY <1>3, <1>7
  <2>2. m \in Members(a)
        BY <1>4, <2>1 DEF Members
  <2>3. ASSUME NEW i \in 1 .. n PROVE q[i] \in Members(a)
    <3>1. 1 + i \in DOMAIN a /\ q[i] = a[1 + i]
          BY <1>3, <1>4, <1>6
    <3> QED
        BY <3>1 DEF Members
  <2> QED
      BY <1>3, <2>2, <2>3 DEF Members
<1> QED
    BY <1>8, <1>9 DEF a

LEMMA EmptyMembers == Members(<< >>) = {} /\ Distinct(<< >>)
BY DEF Members, Distinct

(***************************************************************************)
(* No measurement is lost or indexed twice.                                *)
(***************************************************************************)
KeptParts == Numbered /\ KeptInv

LEMMA InitKept == Init => KeptParts
BY EmptyMembers DEF Init, KeptParts, Numbered, KeptInv, KeptOnce, Taken

\* A new measurement.
LEMMA RoutedKept ==
    ASSUME TypeOK, KeptParts, NEW m \in Measurement, Routed(m), m \notin accepted,
           UNCHANGED << flight, threadQueue, index, msgId, con, hurt >>,
           messageNumber' >= messageNumber, measured' >= measured,
           messageNumber' \in Nat, measured' \in Nat,
           m.no <= IF m.by = "publisher" THEN messageNumber' ELSE measured'
    PROVE  KeptParts'
<1>1. \A k \in accepted : k.no \in Nat
      BY DEF TypeOK, Measurement
<1>2. \A k \in accepted' : k.no <= IF k.by = "publisher" THEN messageNumber' ELSE measured'
  <2>1. ASSUME NEW k \in accepted
        PROVE  k.no <= IF k.by = "publisher" THEN messageNumber' ELSE measured'
        BY <1>1 DEF KeptParts, Numbered, TypeOK
  <2> QED
      BY <2>1 DEF Routed
<1>3. Members(queue') \cup Members(threadQueue') \cup Members(index') \subseteq accepted'
  <2>1. Members(queue') \subseteq Members(queue) \cup {m}
        BY AppendMembers DEF Routed, TypeOK
  <2> QED
      BY <2>1, AppendMembers DEF Routed, TypeOK, KeptParts, Numbered
<1>4. Numbered'
      BY <1>2, <1>3 DEF KeptParts, Numbered, Routed
<1>5. CASE bound
  <2>1. /\ Members(queue') = Members(queue) \cup {m}
        /\ Distinct(queue) /\ m \notin Members(queue) => Distinct(queue')
        /\ accepted' = accepted \cup {m}
        BY <1>5, AppendMembers DEF Routed, TypeOK
  <2>2. m \notin Members(queue) \cup Taken /\ (flight # None => flight.m # m)
        BY DEF KeptParts, Numbered, Taken
  <2> QED
      BY <1>4, <2>1, <2>2 DEF KeptParts, KeptInv, KeptOnce, Taken, Unhurt
<1>6. CASE ~ bound
  <2>1. UNCHANGED << queue, accepted >>
        BY <1>6 DEF Routed
  <2> QED
      BY <1>4, <2>1 DEF KeptParts, KeptInv, KeptOnce, Taken, Unhurt
<1> QED
    BY <1>5, <1>6

\* The delivery is put back, and nothing is delivered any more.
LEMMA RequeuedKept ==
    ASSUME TypeOK, KeptParts, Requeued, con' \notin ConOpen,
           UNCHANGED << threadQueue, index, msgId, hurt, messageNumber, measured, accepted >>
    PROVE  KeptParts'
<1>1. Members(queue') = Members(queue) \cup IF flight = None THEN {} ELSE {flight.m}
  <2>1. CASE flight = None
        BY <2>1 DEF Requeued
  <2>2. CASE flight # None
    <3>1. flight.m \in Measurement /\ queue \in Seq(Measurement)
          BY <2>2 DEF TypeOK, Delivery
    <3>2. Members(<< flight.m >> \o queue) = {flight.m} \cup Members(queue)
          BY <3>1, PutMembers
    <3> QED
        BY <2>2, <3>2 DEF Requeued
  <2> QED
      BY <2>1, <2>2
<1>2. Numbered'
      BY <1>1 DEF KeptParts, Numbered, Requeued
<1>3. flight' = None
      BY DEF Requeued
<1> QED
    BY <1>1, <1>2, <1>3 DEF KeptParts, KeptInv, KeptOnce, Taken, Unhurt

\* Once something has been refused, or the server restarted, only what is
\* accepted is claimed.
LEMMA HurtKept ==
    ASSUME TypeOK, KeptParts, hurt' \cap {"refused", "restarted"} # {},
           UNCHANGED << index, messageNumber, measured, accepted >>,
           Members(threadQueue') \subseteq Members(threadQueue),
           \/ UNCHANGED << queue, flight >>
           \/ Requeued
    PROVE  KeptParts'
<1>1. /\ Members(queue') \subseteq Members(queue) \cup IF flight = None THEN {} ELSE {flight.m}
      /\ flight' = flight \/ flight' = None
  <2>1. CASE UNCHANGED << queue, flight >>
        BY <2>1
  <2>2. CASE Requeued /\ flight = None
        BY <2>2 DEF Requeued
  <2>3. CASE Requeued /\ flight # None
    <3>1. flight.m \in Measurement /\ queue \in Seq(Measurement)
          BY <2>3 DEF TypeOK, Delivery
    <3>2. Members(<< flight.m >> \o queue) = {flight.m} \cup Members(queue)
          BY <3>1, PutMembers
    <3> QED
        BY <2>3, <3>2 DEF Requeued
  <2> QED
      BY <2>1, <2>2, <2>3
<1>2. Numbered'
      BY <1>1 DEF KeptParts, Numbered
<1> QED
    BY <1>2 DEF KeptParts, KeptInv, Unhurt

LEMMA IndexedMembers ==
    ASSUME TypeOK, NEW m \in Measurement, msgId = Len(index) + 1, Indexed(msgId, m)
    PROVE  index' = Append(index, m)
<1>1. Len(index) \in Nat /\ msgId > Len(index)
      BY DEF TypeOK
<1>2. index' = [ i \in 1 .. Len(index) + 1 |-> IF i = Len(index) + 1 THEN m ELSE index[i] ]
      BY <1>1 DEF Indexed
<1> DEFINE a == Append(index, m)
<1>3. a \in Seq(Measurement) /\ DOMAIN a = 1 .. Len(index) + 1 /\ index \in Seq(Measurement)
      BY DEF TypeOK
<1>4. a = [ i \in 1 .. Len(index) + 1 |-> a[i] ]
  <2> HIDE DEF a
  <2>1. a \in [ 1 .. Len(a) -> Measurement ] /\ DOMAIN a = 1 .. Len(index) + 1
        BY <1>3, LenProperties
  <2> QED
      BY <2>1
<1>5. ASSUME NEW i \in 1 .. Len(index) + 1
      PROVE  a[i] = IF i = Len(index) + 1 THEN m ELSE index[i]
      BY <1>1, <1>3
<1> HIDE DEF a
<1>6. index' = a
      BY <1>2, <1>4, <1>5
<1> QED
    BY <1>6 DEF a

\* The main thread indexes the next, or drops what is not JSON.
LEMMA IndexKept ==
    ASSUME TypeOK, KeptParts, IndexNext
    PROVE  KeptParts'
<1> DEFINE h == Head(threadQueue)
<1>1. /\ threadQueue \in Seq(Measurement) /\ threadQueue # << >>
      /\ threadQueue' = Tail(threadQueue) /\ h \in Measurement
      /\ UNCHANGED << queue, flight, con, hurt, messageNumber, measured, accepted >>
      BY DEF TypeOK, IndexNext, publisher, broker, ghosts
<1>2. /\ Members(threadQueue) = Members(threadQueue') \cup {h}
      /\ Distinct(threadQueue) => Distinct(threadQueue') /\ h \notin Members(threadQueue')
      BY <1>1, TailMembers
<1>3. CASE Unhurt({"refused", "restarted"}) /\ IsJson(h)
  <2>1. msgId = Len(index) + 1 /\ Indexed(msgId, h) /\ msgId' = msgId + 1
        BY <1>3 DEF KeptParts, KeptInv, IndexNext
  <2>2. index' = Append(index, h) /\ index \in Seq(Measurement)
        BY <1>1, <2>1, IndexedMembers DEF TypeOK
  <2>3. /\ Members(index') = Members(index) \cup {h}
        /\ Distinct(index) /\ h \notin Members(index) => Distinct(index')
        BY <1>1, <2>2, AppendMembers
  <2>4. msgId' = Len(index') + 1
        BY <2>1, <2>2
  <2>5. Numbered'
        BY <1>1, <1>2, <2>3 DEF KeptParts, Numbered
  <2>6. Taken' = Taken
        BY <1>2, <2>3 DEF Taken
  <2>7. h \notin Members(index)
        BY <1>2, <1>3 DEF KeptParts, KeptInv
  <2> HIDE DEF h
  <2>8. KeptOnce'
        BY <1>1, <1>2, <1>3, <2>3, <2>7 DEF KeptParts, KeptInv, KeptOnce, Unhurt
  <2> QED
      BY <1>1, <1>2, <1>3, <2>3, <2>4, <2>5, <2>6, <2>7, <2>8 DEF KeptParts, KeptInv, Unhurt
<1>4. CASE Unhurt({"refused", "restarted"}) /\ ~ IsJson(h)
  <2>1. UNCHANGED << index, msgId >>
        BY <1>4 DEF IndexNext
  <2>2. Numbered'
        BY <1>1, <1>2, <2>1 DEF KeptParts, Numbered
  <2>3. Taken = Taken' \cup {h}
        BY <1>2, <2>1 DEF Taken
  <2> HIDE DEF h
  <2>4. KeptOnce'
        BY <1>1, <1>2, <1>4, <2>1 DEF KeptParts, KeptInv, KeptOnce, Unhurt
  <2> QED
      BY <1>1, <1>2, <1>4, <2>1, <2>2, <2>3, <2>4 DEF KeptParts, KeptInv, Unhurt
<1>5. CASE ~ Unhurt({"refused", "restarted"})
  <2>1. Members(index') \subseteq Members(index) \cup {h}
    <3>1. CASE IsJson(h)
      <4> DEFINE L == IF msgId > Len(index) THEN msgId ELSE Len(index)
      <4>1. msgId \in 1 .. Len(index) + 1 /\ Len(index) \in Nat /\ DOMAIN index = 1 .. Len(index)
            BY DEF TypeOK
      <4>2. index' = [ i \in 1 .. L |-> IF i = msgId THEN h ELSE index[i] ]
            BY <3>1 DEF IndexNext, Indexed
      <4>3. \A i \in 1 .. L : i # msgId => i \in DOMAIN index
            BY <4>1
      <4> HIDE DEF L, h
      <4>4. \A i \in DOMAIN index' : index'[i] = h \/ (i \in DOMAIN index /\ index'[i] = index[i])
            BY <4>2, <4>3
      <4> QED
          BY <4>4 DEF Members
    <3>2. CASE ~ IsJson(h)
          BY <3>2 DEF IndexNext
    <3> QED
        BY <3>1, <3>2
  <2>2. Numbered'
        BY <1>1, <1>2, <2>1 DEF KeptParts, Numbered
  <2> QED
      BY <1>1, <1>5, <2>2 DEF KeptParts, KeptInv, Unhurt
<1> QED
    BY <1>3, <1>4, <1>5

LEMMA ConsumerKept ==
    ASSUME TypeOK, KeptParts, Deliver \/ OnMessage \/ Acknowledge
    PROVE  KeptParts'
<1>1. con = "consuming" /\ con' = con /\ con \in ConOpen
      BY DEF Deliver, OnMessage, Acknowledge, ConOpen, server
<1>2. UNCHANGED << index, msgId, hurt, messageNumber, measured, accepted >>
      BY DEF Deliver, OnMessage, Acknowledge, publisher, server, ghosts
<1>3. CASE Deliver
  <2>1. /\ queue \in Seq(Measurement) /\ queue # << >> /\ queue' = Tail(queue)
        /\ flight = None /\ threadQueue' = threadQueue
        /\ flight'.m = Head(queue) /\ ~ flight'.taken
        BY <1>3 DEF Deliver, TypeOK, server
  <2>2. /\ Members(queue) = Members(queue') \cup {flight'.m}
        /\ Distinct(queue) => Distinct(queue') /\ flight'.m \notin Members(queue')
        BY <2>1, TailMembers
  <2>3. flight' # None
    <3>1. flight' \in Delivery
          BY <1>3, <2>1 DEF Deliver, Delivery
    <3> QED
        BY <3>1, NoneAssumption
  <2>4. Numbered'
        BY <1>2, <2>1, <2>2 DEF KeptParts, Numbered
  <2> QED
      BY <1>1, <1>2, <2>1, <2>2, <2>3, <2>4 DEF KeptParts, KeptInv, KeptOnce, Taken, Unhurt
<1>4. CASE OnMessage
  <2>1. /\ flight # None /\ ~ flight.taken /\ flight' = [ flight EXCEPT !.taken = TRUE ]
        /\ threadQueue' = Append(threadQueue, flight.m) /\ queue' = queue
        /\ threadQueue \in Seq(Measurement) /\ flight.m \in Measurement
        BY <1>4 DEF OnMessage, TypeOK, Delivery
  <2>2. /\ Members(threadQueue') = Members(threadQueue) \cup {flight.m}
        /\ Distinct(threadQueue) /\ flight.m \notin Members(threadQueue) => Distinct(threadQueue')
        BY <2>1, AppendMembers
  <2>3. flight'.m = flight.m /\ flight'.taken
        BY <2>1 DEF TypeOK
  <2>4. Numbered'
        BY <1>2, <2>1, <2>2, <2>3 DEF KeptParts, Numbered
  <2> QED
      BY <1>1, <1>2, <2>1, <2>2, <2>3, <2>4 DEF KeptParts, KeptInv, KeptOnce, Taken, Unhurt
<1>5. CASE Acknowledge
  <2>1. flight # None /\ flight.taken /\ flight' = None /\ UNCHANGED << queue, threadQueue >>
        BY <1>5 DEF Acknowledge, server
  <2>2. Numbered'
        BY <1>2, <2>1 DEF KeptParts, Numbered
  <2> QED
      BY <1>1, <1>2, <2>1, <2>2 DEF KeptParts, KeptInv, KeptOnce, Taken, Unhurt
<1> QED
    BY <1>3, <1>4, <1>5

LEMMA NextKept ==
    ASSUME TypeOK, KeptParts, [Next]_vars
    PROVE  KeptParts'
<1>1. ASSUME UNCHANGED << queue, flight, threadQueue, index, msgId, accepted,
                          messageNumber, measured >>,
             hurt' \cap {"refused", "restarted"} = hurt \cap {"refused", "restarted"},
             con' \in ConOpen => con \in ConOpen
      PROVE  KeptParts'
      BY <1>1 DEF KeptParts, Numbered, KeptInv, KeptOnce, Taken, Unhurt
<1>2. messageNumber \in Nat /\ measured \in Nat
      BY DEF TypeOK
<1>3. CASE OxpMeasures
  <2> DEFINE m == [ by |-> "oxp", no |-> measured + 1 ]
  <2>1. m \in Measurement /\ m.no = measured + 1 /\ m.by = "oxp"
        BY <1>2 DEF Measurement
  <2>2. m \notin accepted
    <3>1. m \in accepted => measured + 1 <= measured
          BY <2>1 DEF KeptParts, Numbered
    <3> QED
        BY <1>2, <3>1
  <2>3. Routed(m)
        BY <1>3 DEF OxpMeasures
  <2>4. /\ UNCHANGED << flight, threadQueue, index, msgId, con, hurt, messageNumber >>
        /\ measured' = measured + 1
        BY <1>3 DEF OxpMeasures, publisher, server
  <2> HIDE DEF m
  <2> QED
      BY <1>2, <2>1, <2>2, <2>3, <2>4, RoutedKept
<1>4. CASE PublishMessage
  <2> DEFINE m == [ by |-> "publisher", no |-> messageNumber + 1 ]
  <2>1. m \in Measurement /\ m.no = messageNumber + 1 /\ m.by = "publisher"
        BY <1>2 DEF Measurement
  <2>2. m \notin accepted
    <3>1. m \in accepted => messageNumber + 1 <= messageNumber
          BY <2>1 DEF KeptParts, Numbered
    <3> QED
        BY <1>2, <3>1
  <2>3. Routed(m)
        BY <1>4 DEF PublishMessage
  <2>4. /\ UNCHANGED << flight, threadQueue, index, msgId, con, hurt, measured >>
        /\ messageNumber' = messageNumber + 1
        BY <1>4 DEF PublishMessage, server
  <2> HIDE DEF m
  <2> QED
      BY <1>2, <2>1, <2>2, <2>3, <2>4, RoutedKept
<1>5. CASE PubAdvance \/ PubLost \/ PubStop \/ PubEnd
      BY <1>1, <1>5 DEF PubAdvance, PubLost, PubStop, PubEnd, broker, server, ghosts
<1>6. ASSUME NEW n \in unconfirmed, NEW D \in SUBSET unconfirmed, OnDeliveryConfirmation(n, D)
      PROVE  KeptParts'
  <2>1. hurt' \cap {"refused", "restarted"} = hurt \cap {"refused", "restarted"}
        BY <1>6 DEF OnDeliveryConfirmation
  <2> QED
      BY <1>1, <1>6, <2>1 DEF OnDeliveryConfirmation, broker, server
<1>7. CASE ConAdvance
      BY <1>1, <1>7 DEF ConAdvance, publisher, ghosts
<1>8. CASE ChannelClosed
  <2>1. con' \notin ConOpen
        BY <1>8 DEF ChannelClosed, ConOpen
  <2> QED
      BY <1>8, <2>1, RequeuedKept DEF ChannelClosed, publisher, ghosts
<1>9. CASE ConLost
  <2>1. con' \notin ConOpen
        BY <1>9 DEF ConLost, ConOpen
  <2> QED
      BY <1>9, <2>1, RequeuedKept DEF ConLost, publisher, ghosts
<1>10. CASE IndexRefused
  <2>1. Members(threadQueue') \subseteq Members(threadQueue)
        BY <1>10, TailMembers DEF IndexRefused, TypeOK
  <2> QED
      BY <1>10, <2>1, HurtKept DEF IndexRefused, publisher, broker
<1>11. CASE Restart
  <2>1. Members(threadQueue') \subseteq Members(threadQueue)
        BY <1>11, EmptyMembers DEF Restart
  <2> QED
      BY <1>11, <2>1, HurtKept DEF Restart, publisher
<1>12. CASE UNCHANGED vars
      BY <1>1, <1>12 DEF vars, publisher, broker, server, ghosts
<1> QED
    BY <1>3, <1>4, <1>5, <1>6, <1>7, <1>8, <1>9, <1>10, <1>11, <1>12, ConsumerKept, IndexKept
       DEF Next, PublisherStep, ServerStep

\* No measurement the broker has accepted is lost, and none is indexed under
\* two numbers, however often connections are lost and deliveries put back,
\* until Elasticsearch refuses one or the server is restarted.
THEOREM KeptOnceCorrect == Spec => []KeptOnce
<1>1. KeptParts => KeptOnce
      BY DEF KeptParts, KeptInv, KeptOnce
<1> QED
    BY <1>1, InitKept, NextKept, TypeCorrect, PTL DEF Spec
=============================================================================
