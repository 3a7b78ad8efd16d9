-------------------------- MODULE HeartbeatProofs --------------------------
(***************************************************************************)
(* Proofs about Heartbeat, whatever the number of domains, messages and    *)
(* restarts: type correctness; a listed domain is known; no domain is      *)
(* shown UNKNOWN that has been heard since it was marked or found so;      *)
(* nothing but a heartbeat or a join takes UNKNOWN back; and the document  *)
(* says what the monitor knows, but for what a join has overwritten.       *)
(***************************************************************************)
EXTENDS Heartbeat, TLAPS

LEMMA MonShape ==
    ASSUME TypeOK
    PROVE  /\ mon.pc = "check" => mon.todo \subseteq Domain
           /\ mon.pc = "write" => mon.todo \subseteq Domain /\ mon.copy \in Listing
           /\ Asleep.pc = "asleep" /\ Idle.pc = "idle" /\ Dead.pc = "dead"
BY DEF TypeOK, Asleep, Idle, Dead

\* Nothing is ever written to the monitor's place but these.
LEMMA ContinueShape ==
    ASSUME NEW D \in SUBSET Domain, Continue(D)
    PROVE  mon' = Asleep \/ mon' = [ pc |-> "check", todo |-> D ]
BY DEF Continue

(***************************************************************************)
(* Types.                                                                  *)
(***************************************************************************)
LEMMA InitType == Init => TypeOK
BY HeartbeatAssumption DEF Init, TypeOK, Listing, NotListed, Idle, Asleep

LEMMA LcType ==
    ASSUME TypeOK, NEW d \in Domain,
           \/ TakeHeartbeat(d) \/ TakeTopology(d)
           \/ Record(d) \/ RecordWrite(d) \/ Add(d) \/ SaveTopology(d)
    PROVE  TypeOK'
<1> USE DEF Goto, DbReplace
<1>1. CASE TakeHeartbeat(d)
  <2>1. queue' \in Seq(Message)
        BY <1>1 DEF TakeHeartbeat, TypeOK
  <2> QED
      BY <1>1, <2>1 DEF TakeHeartbeat, TypeOK
<1>2. CASE TakeTopology(d)
  <2>1. queue' \in Seq(Message)
        BY <1>2 DEF TakeTopology, TypeOK
  <2> QED
      BY <1>2, <2>1 DEF TakeTopology, TypeOK
<1>3. CASE Record(d)
      BY <1>3 DEF Record, TypeOK
<1>4. CASE RecordWrite(d)
      BY <1>4 DEF RecordWrite, TypeOK, Listing
<1>5. CASE Add(d)
      BY <1>5 DEF Add, TypeOK, Listing
<1>6. CASE SaveTopology(d)
      BY <1>6 DEF SaveTopology, TypeOK
<1> QED
    BY <1>1, <1>2, <1>3, <1>4, <1>5, <1>6

LEMMA MonType ==
    ASSUME TypeOK, MonStep
    PROVE  TypeOK'
<1>1. CASE Check
  <2>1. Silent \subseteq Domain
        BY DEF Silent
  <2> QED
      BY <1>1, <2>1, ContinueShape DEF Check, TypeOK
<1>2. ASSUME NEW d \in Domain, Mark(d) PROVE TypeOK'
  <2>1. mon.todo \ {d} \subseteq Domain /\ [ doc EXCEPT ![d] = "UNKNOWN" ] \in Listing
        BY <1>2, MonShape DEF Mark, TypeOK, Listing
  <2>2. mon' \in { Asleep } \cup [ pc : { "check" }, todo : SUBSET Domain ]
                 \cup [ pc : { "write" }, todo : SUBSET Domain, copy : Listing ]
        BY <1>2, <2>1, ContinueShape DEF Mark
  <2> QED
      BY <1>2, <2>2 DEF Mark, TypeOK
<1>3. CASE MarkWrite
      BY <1>3, MonShape, ContinueShape DEF MarkWrite, DbReplace, TypeOK
<1> QED
    BY <1>1, <1>2, <1>3 DEF MonStep

LEMMA NextType ==
    ASSUME TypeOK, [Next]_vars
    PROVE  TypeOK'
<1>1. ASSUME NEW d \in Domain, SendTopology(d) \/ SendHeartbeat(d) PROVE TypeOK'
  <2>1. \A t \in { "heartbeat", "topology" } :
            Append(queue, [ type |-> t, dom |-> d ]) \in Seq(Message)
        BY DEF TypeOK, Message
  <2> QED
      BY <1>1, <2>1 DEF SendTopology, SendHeartbeat, TypeOK
<1>2. ASSUME NEW d \in Domain, Lapse(d) PROVE TypeOK'
      BY <1>2 DEF Lapse, TypeOK
<1>3. CASE Restart
      BY <1>3 DEF Restart, TypeOK
<1>4. CASE UNCHANGED vars
      BY <1>4 DEF vars, TypeOK
<1> QED
    BY <1>1, <1>2, <1>3, <1>4, LcType, MonType DEF Next, LcStep

\* Types, for any set of domains, any queue length and any number of restarts.
THEOREM TypeCorrect == Spec => []TypeOK
BY InitType, NextType, PTL DEF Spec

(***************************************************************************)
(* A listed domain is known.                                               *)
(***************************************************************************)
LEMMA NextListed ==
    ASSUME TypeOK, ListedInv, [Next]_vars
    PROVE  ListedInv'
<1> USE DEF ListedInv, ListedIsKnown
<1>1. ASSUME UNCHANGED << doc, dict >>, mon' = mon \/ mon'.pc # "write",
             \/ lc' = lc
             \/ /\ lc'.pc = "recordWrite" => dict'[lc'.dom] # "absent"
                /\ lc'.pc = "add" => dict'[lc'.dom] = "absent"
      PROVE  ListedInv'
      BY <1>1
<1>2. ASSUME NEW d \in Domain,
             TakeHeartbeat(d) \/ TakeTopology(d) \/ Record(d) \/ SaveTopology(d)
      PROVE  ListedInv'
      BY <1>1, <1>2, MonShape
         DEF TakeHeartbeat, TakeTopology, Record, SaveTopology, Goto
<1>3. ASSUME NEW d \in Domain, RecordWrite(d) PROVE ListedInv'
  <2>1. /\ doc' = [ doc EXCEPT ![d] = "UP" ] /\ dict' = dict /\ lc' = Idle
        /\ mon' = mon
        /\ lc.pc = "recordWrite" /\ lc.dom = d
        BY <1>3 DEF RecordWrite, DbReplace
  <2>2. dict[d] # "absent"
        BY <2>1
  <2>3. \A e \in Domain : doc'[e] # "absent" => dict'[e] # "absent"
        BY <2>1, <2>2 DEF TypeOK, Listing
  <2> QED
      BY <2>1, <2>3, MonShape
<1>4. ASSUME NEW d \in Domain, Add(d) PROVE ListedInv'
  <2>1. /\ dict' = [ dict EXCEPT ![d] = "UP" ] /\ doc' = dict'
        /\ lc' = [ pc |-> "save", dom |-> d ] /\ mon' = mon
        BY <1>4 DEF Add, DbReplace, Goto
  <2>2. \A e \in Domain : dict[e] # "absent" => dict'[e] # "absent"
        BY <2>1 DEF TypeOK, Listing
  <2> QED
      BY <2>1, <2>2, MonShape
<1>5. CASE Check
  <2>1. mon'.pc # "write"
        BY <1>5, ContinueShape, MonShape DEF Check, Silent
  <2> QED
      BY <1>1, <1>5, <2>1 DEF Check
<1>6. ASSUME NEW d \in Domain, Mark(d) PROVE ListedInv'
  <2>1. UNCHANGED << doc, dict >>
        BY <1>6 DEF Mark
  <2>2. CASE doc[d] = "absent"
    <3>1. mon'.pc # "write" /\ lc' = lc
          BY <1>6, <2>2, ContinueShape, MonShape DEF Mark
    <3> QED
        BY <1>1, <2>1, <3>1
  <2>3. CASE doc[d] # "absent"
    <3>1. mon'.copy = [ doc EXCEPT ![d] = "UNKNOWN" ] /\ lc' = lc
          BY <1>6, <2>3 DEF Mark
    <3> QED
        BY <2>1, <2>3, <3>1 DEF TypeOK, Listing
  <2> QED
      BY <2>2, <2>3
<1>7. CASE MarkWrite
  <2>1. mon'.pc # "write" /\ doc' = mon.copy /\ dict' = dict /\ mon.pc = "write"
         /\ lc' = lc
        BY <1>7, ContinueShape, MonShape DEF MarkWrite, DbReplace
  <2> QED
      BY <2>1
<1>8. CASE Restart
      BY <1>8, MonShape DEF Restart
<1>9. ASSUME NEW d \in Domain, SendTopology(d) \/ SendHeartbeat(d) \/ Lapse(d)
      PROVE  ListedInv'
      BY <1>1, <1>9 DEF SendTopology, SendHeartbeat, Lapse
<1>10. CASE UNCHANGED vars
      BY <1>1, <1>10 DEF vars
<1> QED
    BY <1>2, <1>3, <1>4, <1>5, <1>6, <1>7, <1>8, <1>9, <1>10 DEF Next, LcStep, MonStep

\* No step, and no restart between two steps, lists a domain the LC thread
\* does not know.
THEOREM ListedCorrect == Spec => []ListedIsKnown
<1>1. Init => ListedInv
      BY DEF Init, ListedInv, ListedIsKnown, NotListed, Asleep, Idle
<1>2. ListedInv => ListedIsKnown
      BY DEF ListedInv
<1> QED
    BY <1>1, <1>2, NextListed, TypeCorrect, PTL DEF Spec

(***************************************************************************)
(* No false UNKNOWN.                                                       *)
(***************************************************************************)
LEMMA NextUnknown ==
    ASSUME TypeOK, ListedInv, UnknownInv, [Next]_vars
    PROVE  UnknownInv'
<1> USE DEF UnknownInv, NoFalseUnknown
<1>1. ASSUME NEW d \in Domain, TakeHeartbeat(d) \/ TakeTopology(d) \/ SaveTopology(d)
      PROVE  UnknownInv'
  <2>1. /\ UNCHANGED << doc, dict, status, mon >>
        /\ lc.pc # "recordWrite" /\ lc'.pc # "recordWrite"
        BY <1>1, MonShape DEF TakeHeartbeat, TakeTopology, SaveTopology, Goto
  <2> QED
      BY <2>1
<1>2. ASSUME NEW d \in Domain, Record(d) PROVE UnknownInv'
  <2>1. /\ UNCHANGED << doc, dict, mon >> /\ mon = Asleep /\ mon.pc # "write"
        /\ lc = [ pc |-> "record", dom |-> d ]
        /\ status' = [ status EXCEPT ![d] = "UP" ]
        BY <1>2, MonShape DEF Record
  <2>2. lc' = [ pc |-> "recordWrite", dom |-> d ] \/ lc'.pc # "recordWrite"
        BY <1>2, MonShape DEF Record, Goto
  <2>3. doc[d] = "UNKNOWN" => lc' = [ pc |-> "recordWrite", dom |-> d ] \/ dict[d] = "UNKNOWN"
    <3>1. doc[d] = "UNKNOWN" /\ dict[d] # "UNKNOWN" => status[d] = "UNKNOWN"
          BY <2>1
    <3> QED
        BY <1>2, <3>1 DEF Record, Goto
  <2>4. status'[d] = "UP" /\ \A e \in Domain : e # d => status'[e] = status[e]
        BY <2>1 DEF TypeOK
  <2>5. \A e \in Domain : lc # [ pc |-> "recordWrite", dom |-> e ]
        BY <2>1
  <2>6. \A e \in Domain : e # d /\ doc[e] = "UNKNOWN" => status[e] = "UNKNOWN" \/ dict[e] = "UNKNOWN"
        BY <2>5
  <2> QED
      BY <2>1, <2>2, <2>3, <2>4, <2>6
<1>3. ASSUME NEW d \in Domain, RecordWrite(d) PROVE UnknownInv'
  <2>1. /\ UNCHANGED << dict, mon, status >> /\ lc' = Idle
        /\ doc' = [ doc EXCEPT ![d] = "UP" ]
        /\ lc = [ pc |-> "recordWrite", dom |-> d ]
        BY <1>3 DEF RecordWrite, DbReplace
  <2>2. \A e \in Domain : doc'[e] = "UNKNOWN" => e # d /\ doc[e] = "UNKNOWN"
        BY <2>1 DEF TypeOK, Listing
  <2>3. \A e \in Domain : e # d => lc # [ pc |-> "recordWrite", dom |-> e ]
        BY <2>1
  <2>4. mon.pc # "write" /\ lc'.pc # "recordWrite"
        BY <2>1, MonShape
  <2> QED
      BY <2>1, <2>2, <2>3, <2>4
<1>4. ASSUME NEW d \in Domain, Add(d) PROVE UnknownInv'
  <2>1. /\ dict' = [ dict EXCEPT ![d] = "UP" ] /\ doc' = dict' /\ UNCHANGED << mon, status >>
        /\ lc'.pc # "recordWrite" /\ lc = [ pc |-> "add", dom |-> d ]
        BY <1>4 DEF Add, DbReplace, Goto
  <2>2. dict[d] # "UNKNOWN"
        BY <2>1 DEF ListedInv
  <2>3. \A e \in Domain : dict[e] = "UNKNOWN" => dict'[e] = "UNKNOWN"
        BY <2>1, <2>2 DEF TypeOK, Listing
  <2> QED
      BY <2>1, <2>3
<1>5. CASE Check
  <2>1. mon'.pc # "write" /\ lc'.pc # "recordWrite" /\ UNCHANGED << doc, dict, status, lc >>
        BY <1>5, ContinueShape, MonShape DEF Check, Silent
  <2> QED
      BY <2>1
<1>6. ASSUME NEW d \in Domain, Mark(d) PROVE UnknownInv'
  <2>1. /\ UNCHANGED << doc, dict, lc >> /\ lc.pc # "recordWrite"
        /\ status' = [ status EXCEPT ![d] = "UNKNOWN" ]
        BY <1>6, MonShape DEF Mark
  <2>2. status'[d] = "UNKNOWN" /\ \A e \in Domain : e # d => status'[e] = status[e]
        BY <2>1 DEF TypeOK
  <2>3. \A e \in Domain : doc[e] = "UNKNOWN" => status'[e] = "UNKNOWN" \/ dict[e] = "UNKNOWN"
        BY <2>1, <2>2
  <2>4. CASE doc[d] = "absent"
    <3>1. mon'.pc # "write"
          BY <1>6, <2>4, ContinueShape, MonShape DEF Mark
    <3> QED
        BY <2>1, <2>3, <3>1
  <2>5. CASE doc[d] # "absent"
    <3>1. mon'.copy = [ doc EXCEPT ![d] = "UNKNOWN" ]
          BY <1>6, <2>5 DEF Mark
    <3>2. \A e \in Domain : e # d => mon'.copy[e] = doc[e]
          BY <3>1 DEF TypeOK, Listing
    <3> QED
        BY <2>1, <2>2, <2>3, <3>2
  <2> QED
      BY <2>4, <2>5
<1>7. CASE MarkWrite
  <2>1. /\ mon'.pc # "write" /\ doc' = mon.copy /\ mon.pc = "write"
        /\ UNCHANGED << dict, status, lc >>
        BY <1>7, ContinueShape, MonShape DEF MarkWrite, DbReplace
  <2>2. lc.pc # "recordWrite"
        BY <2>1, MonShape
  <2> QED
      BY <2>1, <2>2
<1>8. CASE Restart
  <2>1. dict' = doc /\ doc' = doc /\ lc'.pc # "recordWrite" /\ mon'.pc # "write"
        BY <1>8, MonShape DEF Restart
  <2> QED
      BY <2>1
<1>9. ASSUME NEW d \in Domain, SendTopology(d) \/ SendHeartbeat(d) \/ Lapse(d)
      PROVE  UnknownInv'
      BY <1>9 DEF SendTopology, SendHeartbeat, Lapse
<1>10. CASE UNCHANGED vars
      BY <1>10 DEF vars
<1> QED
    BY <1>1, <1>2, <1>3, <1>4, <1>5, <1>6, <1>7, <1>8, <1>9, <1>10 DEF Next, LcStep, MonStep

LEMMA InitUnknown == Init => ListedInv /\ UnknownInv
BY DEF Init, ListedInv, ListedIsKnown, UnknownInv, NoFalseUnknown, NotListed, Asleep, Idle

\* A domain shown UNKNOWN has been silent since the monitor marked it, or was
\* found UNKNOWN at the start, however topologies, heartbeats, the monitor's
\* stale copies and restarts interleave.
THEOREM UnknownCorrect == Spec => []NoFalseUnknown
<1>1. UnknownInv => NoFalseUnknown
      BY DEF UnknownInv
<1> QED
    BY <1>1, InitUnknown, NextListed, NextUnknown, TypeCorrect, PTL DEF Spec

(***************************************************************************)
(* Who takes UNKNOWN back.                                                 *)
(***************************************************************************)
LEMMA NextRevive ==
    ASSUME TypeOK, ListedInv, UnknownInv, ReviveInv, [Next]_vars
    PROVE  /\ ReviveInv'
           /\ \A d \in Domain :
                  doc[d] = "UNKNOWN" /\ doc'[d] # "UNKNOWN" =>
                      \/ status[d] = "UP"
                      \/ \E e \in Domain : doc[e] = "absent" /\ doc'[e] = "UP"
<1> DEFINE Kept(d) ==
               doc[d] = "UNKNOWN" /\ doc'[d] # "UNKNOWN" =>
                   \/ status[d] = "UP"
                   \/ \E e \in Domain : doc[e] = "absent" /\ doc'[e] = "UP"
           Inv(d) ==
               /\ dict[d] = "UNKNOWN" =>
                      doc[d] # "absent" /\ (mon.pc = "write" => mon.copy[d] # "absent")
               /\ dict[d] = "UNKNOWN" /\ status[d] # "UP" =>
                      doc[d] = "UNKNOWN" \/ (mon.pc = "write" /\ mon.copy[d] = "UNKNOWN")
               /\ mon.pc = "write" /\ status[d] # "UP" /\ mon.copy[d] # "UNKNOWN" =>
                      doc[d] # "UNKNOWN" /\ dict[d] # "UNKNOWN"
<1> SUFFICES ASSUME NEW e \in Domain PROVE Inv(e)' /\ Kept(e)
    BY DEF ReviveInv
<1>1. Inv(e)
      BY DEF ReviveInv
<1>2. ASSUME UNCHANGED << doc, dict, status >>, mon' = mon \/ (mon.pc # "write" /\ mon'.pc # "write")
      PROVE  Inv(e)' /\ Kept(e)
      BY <1>1, <1>2
<1>3. ASSUME NEW d \in Domain,
             \/ TakeHeartbeat(d) \/ TakeTopology(d) \/ SaveTopology(d)
             \/ SendTopology(d) \/ SendHeartbeat(d) \/ Lapse(d)
      PROVE  Inv(e)' /\ Kept(e)
  <2>1. UNCHANGED << doc, dict, status, mon >>
        BY <1>3 DEF TakeHeartbeat, TakeTopology, SaveTopology, SendTopology, SendHeartbeat, Lapse
  <2> QED
      BY <1>2, <2>1
<1>4. ASSUME NEW d \in Domain, Record(d) PROVE Inv(e)' /\ Kept(e)
  <2>1. /\ UNCHANGED << doc, dict, mon >> /\ mon.pc # "write"
        /\ status' = [ status EXCEPT ![d] = "UP" ]
        BY <1>4, MonShape DEF Record
  <2>2. status'[e] = "UP" \/ status'[e] = status[e]
        BY <2>1 DEF TypeOK
  <2> QED
      BY <1>1, <2>1, <2>2
<1>5. ASSUME NEW d \in Domain, RecordWrite(d) PROVE Inv(e)' /\ Kept(e)
  <2>1. /\ UNCHANGED << dict, mon, status >> /\ doc' = [ doc EXCEPT ![d] = "UP" ]
        /\ mon.pc # "write" /\ status[d] = "UP"
        BY <1>5, MonShape DEF RecordWrite, DbReplace, UnknownInv
  <2>2. IF e = d THEN doc'[e] = "UP" ELSE doc'[e] = doc[e]
        BY <2>1 DEF TypeOK, Listing
  <2> QED
      BY <1>1, <2>1, <2>2
<1>6. ASSUME NEW d \in Domain, Add(d) PROVE Inv(e)' /\ Kept(e)
  <2>1. /\ dict' = [ dict EXCEPT ![d] = "UP" ] /\ doc' = dict' /\ UNCHANGED << mon, status >>
        /\ lc = [ pc |-> "add", dom |-> d ]
        BY <1>6 DEF Add, DbReplace
  <2>2. dict[d] = "absent" /\ doc[d] = "absent"
        BY <2>1 DEF ListedInv, ListedIsKnown
  <2>3. dict'[d] = "UP" /\ (e # d => dict'[e] = dict[e])
        BY <2>1 DEF TypeOK, Listing
  <2>4. Kept(e)
        BY <2>1, <2>2, <2>3
  <2>5. Inv(e)'
        BY <1>1, <2>1, <2>2, <2>3
  <2> QED
      BY <2>4, <2>5
<1>7. CASE Check
  <2>1. UNCHANGED << doc, dict, status >> /\ mon.pc # "write" /\ mon'.pc # "write"
        BY <1>7, ContinueShape, MonShape DEF Check, Silent
  <2> QED
      BY <1>2, <2>1
<1>8. ASSUME NEW d \in Domain, Mark(d) PROVE Inv(e)' /\ Kept(e)
  <2>1. /\ UNCHANGED << doc, dict >> /\ mon.pc = "check"
        /\ status' = [ status EXCEPT ![d] = "UNKNOWN" ]
        BY <1>8 DEF Mark
  <2>2. IF e = d THEN status'[e] = "UNKNOWN" ELSE status'[e] = status[e]
        BY <2>1 DEF TypeOK
  <2>3. CASE doc[d] = "absent"
    <3>1. mon'.pc # "write"
          BY <1>8, <2>3, ContinueShape, MonShape DEF Mark
    <3> QED
        BY <1>1, <2>1, <2>2, <2>3, <3>1
  <2>4. CASE doc[d] # "absent"
    <3>1. mon'.pc = "write" /\ mon'.copy = [ doc EXCEPT ![d] = "UNKNOWN" ]
          BY <1>8, <2>4 DEF Mark
    <3>2. IF e = d THEN mon'.copy[e] = "UNKNOWN" ELSE mon'.copy[e] = doc[e]
          BY <3>1 DEF TypeOK, Listing
    <3> QED
        BY <1>1, <2>1, <2>2, <2>4, <3>1, <3>2
  <2> QED
      BY <2>3, <2>4
<1>9. CASE MarkWrite
  <2>1. /\ UNCHANGED << dict, status >> /\ mon.pc = "write" /\ doc' = mon.copy
        /\ mon'.pc # "write"
        BY <1>9, ContinueShape, MonShape DEF MarkWrite, DbReplace
  <2> QED
      BY <1>1, <2>1
<1>10. CASE Restart
  <2>1. dict' = doc /\ doc' = doc /\ mon'.pc # "write"
        BY <1>10, MonShape DEF Restart
  <2> QED
      BY <2>1
<1>11. CASE UNCHANGED vars
      BY <1>2, <1>11 DEF vars
<1> QED
    BY <1>3, <1>4, <1>5, <1>6, <1>7, <1>8, <1>9, <1>10, <1>11 DEF Next, LcStep, MonStep

\* A mark is taken back by the domain's heartbeat, or by the first topology of
\* a domain that is not listed; by no other topology, no stale copy of the
\* monitor and no restart.
THEOREM ReviveCorrect == Spec => OnlyHeartbeatsRevive
<1>1. Init => ReviveInv
      BY DEF Init, ReviveInv, NotListed, Asleep
<1>2. TypeOK /\ ListedInv /\ UnknownInv /\ ReviveInv /\ [Next]_vars
          => ReviveInv' /\ [ \A d \in Domain :
                                doc[d] = "UNKNOWN" /\ doc'[d] # "UNKNOWN" =>
                                    \/ status[d] = "UP"
                                    \/ \E e \in Domain : doc[e] = "absent" /\ doc'[e] = "UP" ]_vars
      BY NextRevive
<1> QED
    BY <1>1, <1>2, InitUnknown, NextListed, NextUnknown, TypeCorrect, PTL
       DEF Spec, OnlyHeartbeatsRevive

(***************************************************************************)
(* The document follows the monitor.                                       *)
(***************************************************************************)
LEMMA NextFollow ==
    ASSUME TypeOK, UnknownInv, FollowInv, [Next]_vars
    PROVE  FollowInv'
<1> DEFINE Inv(e) ==
               e \notin overwritten =>
                   /\ mon.pc # "write" /\ status[e] # "none" /\ doc[e] # "absent" =>
                          doc[e] = status[e] \/ lc = [ pc |-> "recordWrite", dom |-> e ]
                   /\ mon.pc = "write" =>
                          /\ status[e] # "none" /\ mon.copy[e] # "absent" => mon.copy[e] = status[e]
                          /\ mon.copy[e] = "UNKNOWN" => status[e] # "none"
                   /\ doc[e] = "UNKNOWN" => status[e] # "none"
<1> SUFFICES ASSUME NEW e \in Domain PROVE Inv(e)'
    BY DEF FollowInv
<1>1. Inv(e)
      BY DEF FollowInv
<1>2. ASSUME UNCHANGED << doc, status, overwritten >>, mon' = mon \/ (mon.pc # "write" /\ mon'.pc # "write"),
             lc' = lc \/ lc.pc # "recordWrite"
      PROVE  Inv(e)'
      BY <1>1, <1>2
<1>3. ASSUME NEW d \in Domain,
             \/ TakeHeartbeat(d) \/ TakeTopology(d) \/ SaveTopology(d)
             \/ SendTopology(d) \/ SendHeartbeat(d) \/ Lapse(d)
      PROVE  Inv(e)'
  <2>1. UNCHANGED << doc, status, mon, overwritten >> /\ (lc' = lc \/ lc.pc # "recordWrite")
        BY <1>3, MonShape
           DEF TakeHeartbeat, TakeTopology, SaveTopology, SendTopology, SendHeartbeat, Lapse
  <2> QED
      BY <1>2, <2>1
<1>4. ASSUME NEW d \in Domain, Record(d) PROVE Inv(e)'
  <2>1. /\ UNCHANGED << doc, mon, overwritten >> /\ mon.pc # "write"
        /\ lc = [ pc |-> "record", dom |-> d ]
        /\ status' = [ status EXCEPT ![d] = "UP" ]
        BY <1>4, MonShape DEF Record
  <2>2. lc # [ pc |-> "recordWrite", dom |-> e ]
        BY <2>1
  <2>3. CASE e = d
    <3>1. status'[e] = "UP"
          BY <2>1, <2>3 DEF TypeOK
    <3>2. status[e] = "UNKNOWN" /\ doc[e] # "absent" => lc' = [ pc |-> "recordWrite", dom |-> e ]
          BY <1>4, <2>3 DEF Record, Goto
    <3>3. doc[e] \in { "absent", "UP", "UNKNOWN" } /\ status[e] \in { "none", "UP", "UNKNOWN" }
          BY DEF TypeOK, Listing
    <3> QED
        BY <1>1, <2>1, <2>2, <3>1, <3>2, <3>3
  <2>4. CASE e # d
    <3>1. status'[e] = status[e]
          BY <2>1, <2>4 DEF TypeOK
    <3> QED
        BY <1>1, <2>1, <2>2, <3>1
  <2> QED
      BY <2>3, <2>4
<1>5. ASSUME NEW d \in Domain, RecordWrite(d) PROVE Inv(e)'
  <2>1. /\ UNCHANGED << status, mon >> /\ doc' = [ doc EXCEPT ![d] = "UP" ]
        /\ overwritten' = overwritten \ {d} /\ mon.pc # "write" /\ status[d] = "UP"
        /\ lc = [ pc |-> "recordWrite", dom |-> d ]
        BY <1>5, MonShape DEF RecordWrite, DbReplace, UnknownInv
  <2>2. IF e = d THEN doc'[e] = "UP" ELSE doc'[e] = doc[e]
        BY <2>1 DEF TypeOK, Listing
  <2>3. e # d => lc # [ pc |-> "recordWrite", dom |-> e ]
        BY <2>1
  <2> QED
      BY <1>1, <2>1, <2>2, <2>3
<1>6. ASSUME NEW d \in Domain, Add(d) PROVE Inv(e)'
  <2>1. /\ UNCHANGED << mon, status >> /\ lc = [ pc |-> "add", dom |-> d ]
        /\ overwritten' = overwritten \cup
               { x \in Domain : doc'[x] # doc[x] /\ "UNKNOWN" \in { doc'[x], status[x] } }
        BY <1>6 DEF Add
  <2>2. doc'[e] \in { "absent", "UP", "UNKNOWN" } /\ status[e] \in { "none", "UP", "UNKNOWN" }
        BY <1>6 DEF Add, DbReplace, TypeOK, Listing
  <2>3. lc # [ pc |-> "recordWrite", dom |-> e ]
        BY <2>1
  <2> QED
      BY <1>1, <2>1, <2>2, <2>3
<1>7. CASE Check
  <2>1. /\ UNCHANGED << doc, status, overwritten, lc >> /\ mon.pc # "write" /\ mon'.pc # "write"
        BY <1>7, ContinueShape, MonShape DEF Check, Silent
  <2> QED
      BY <1>2, <2>1
<1>8. ASSUME NEW d \in Domain, Mark(d) PROVE Inv(e)'
  <2>1. /\ UNCHANGED << doc, lc >> /\ mon.pc = "check"
        /\ status' = [ status EXCEPT ![d] = "UNKNOWN" ]
        BY <1>8 DEF Mark
  <2>2. IF e = d THEN status'[e] = "UNKNOWN" ELSE status'[e] = status[e]
        BY <2>1 DEF TypeOK
  <2>3. lc # [ pc |-> "recordWrite", dom |-> e ]
        BY <2>1, MonShape DEF UnknownInv
  <2>4. CASE doc[d] = "absent"
    <3>1. mon'.pc # "write" /\ overwritten' = overwritten
          BY <1>8, <2>4, ContinueShape, MonShape DEF Mark
    <3> QED
        BY <1>1, <2>1, <2>2, <2>3, <2>4, <3>1
  <2>5. CASE doc[d] # "absent"
    <3>1. /\ mon'.pc = "write" /\ mon'.copy = [ doc EXCEPT ![d] = "UNKNOWN" ]
          /\ overwritten' = overwritten \ {d}
          BY <1>8, <2>5 DEF Mark
    <3>2. IF e = d THEN mon'.copy[e] = "UNKNOWN" ELSE mon'.copy[e] = doc[e]
          BY <3>1 DEF TypeOK, Listing
    <3> QED
        BY <1>1, <2>1, <2>2, <2>3, <3>1, <3>2
  <2> QED
      BY <2>4, <2>5
<1>9. CASE MarkWrite
  <2>1. /\ UNCHANGED << status, lc, overwritten >> /\ mon.pc = "write" /\ doc' = mon.copy
        /\ mon'.pc # "write"
        BY <1>9, ContinueShape, MonShape DEF MarkWrite, DbReplace
  <2> QED
      BY <1>1, <2>1
<1>10. CASE Restart
  <2>1. /\ doc' = doc /\ mon'.pc # "write" /\ status'[e] = "none"
        /\ overwritten' = { d \in Domain : doc[d] = "UNKNOWN" }
        BY <1>10, MonShape DEF Restart
  <2> QED
      BY <2>1
<1>11. CASE UNCHANGED vars
      BY <1>2, <1>11 DEF vars
<1> QED
    BY <1>3, <1>4, <1>5, <1>6, <1>7, <1>8, <1>9, <1>10, <1>11 DEF Next, LcStep, MonStep

\* Whenever both threads are at rest, the stored status of a domain is the
\* monitor's, unless a join has overwritten it or it was found UNKNOWN.
THEOREM StoreFollowsCorrect == Spec => []StoreFollows
<1>1. Init => FollowInv
      BY DEF Init, FollowInv, NotListed, Asleep
<1>2. TypeOK /\ FollowInv => StoreFollows
      BY MonShape DEF FollowInv, StoreFollows
<1> QED
    BY <1>1, <1>2, InitUnknown, NextListed, NextUnknown, NextFollow, TypeCorrect, PTL DEF Spec
=============================================================================
