----------------------------- MODULE Heartbeat -----------------------------
(***************************************************************************)
(* The register of OXP domains.                                            *)
(*                                                                         *)
(* The document DOMAINS/domain_dict lists the domains whose topology has   *)
(* arrived and whether each is UP or UNKNOWN.  Two threads write it, each  *)
(* from a copy of its own: the LC thread, which takes topologies and       *)
(* heartbeats off a queue, and the monitor of HeartbeatMonitor, which      *)
(* marks the domains that have fallen silent.  HeartbeatMonitor.lock       *)
(* keeps heartbeats and the monitor apart, but not topologies.             *)
(*                                                                         *)
(* Everything but the document and the stored topologies is lost when the  *)
(* controller restarts.                                                    *)
(*                                                                         *)
(* Two weaknesses make the document disagree with the monitor: the LC      *)
(* thread stores its own dict over the monitor's marks when a domain       *)
(* joins, and a new process does not know which domains the document says  *)
(* are UNKNOWN.  `overwritten` records the domains either has hit since    *)
(* the monitor last wrote their status; it is read by properties only.     *)
(***************************************************************************)
EXTENDS Naturals, Sequences

CONSTANTS
    Domain,
    MaxQueue,           \* bound on the messages in the LC thread's queue
    MaxRestarts         \* bound on the restarts of the controller

ASSUME HeartbeatAssumption == MaxQueue \in Nat /\ MaxRestarts \in Nat

VARIABLES
    doc,        \* collection DOMAINS: the stored status of each listed domain
    saved,      \* collection TOPOLOGIES: the domains with a topology there
    dict,       \* the LC thread's domain_dict
    last,       \* last_heartbeat: never, or how long ago
    status,     \* domain_status
    queue,      \* thread_queue
    lc, mon,    \* the LC thread, and the monitor
    restarts,
    overwritten

vars == << doc, saved, dict, last, status, queue, lc, mon, restarts, overwritten >>

Message == [ type : { "heartbeat", "topology" }, dom : Domain ]

Listing == [ Domain -> { "absent", "UP", "UNKNOWN" } ]
NotListed == [ d \in Domain |-> "absent" ]      \* also: there is no document

Idle == [ pc |-> "idle" ]
Dead == [ pc |-> "dead" ]
Asleep == [ pc |-> "asleep" ]

TypeOK ==
    /\ doc \in Listing /\ dict \in Listing
    /\ saved \subseteq Domain /\ overwritten \subseteq Domain
    /\ last \in [ Domain -> { "never", "recent", "overdue" } ]
    /\ status \in [ Domain -> { "none", "UP", "UNKNOWN" } ]
    /\ queue \in Seq(Message)
    /\ lc \in { Idle, Dead } \cup
              [ pc : { "record", "recordWrite", "add", "save" }, dom : Domain ]
    /\ mon \in { Asleep } \cup [ pc : { "check" }, todo : SUBSET Domain ]
               \cup [ pc : { "write" }, todo : SUBSET Domain, copy : Listing ]
    /\ restarts \in Nat

Init ==
    /\ doc = NotListed /\ dict = NotListed
    /\ saved = {} /\ overwritten = {}
    /\ last = [ d \in Domain |-> "never" ]
    /\ status = [ d \in Domain |-> "none" ]
    /\ queue = << >>
    /\ lc = Idle /\ mon = Asleep
    /\ restarts = 0

\* add_key_value_pair_to_db
DbReplace(listing) == doc' = listing

(***************************************************************************)
(* The LC thread.                                                          *)
(***************************************************************************)
Goto(pc, d) == lc' = [ pc |-> pc, dom |-> d ]

TakeHeartbeat(d) ==
    /\ lc = Idle
    /\ queue # << >> /\ Head(queue) = [ type |-> "heartbeat", dom |-> d ]
    /\ queue' = Tail(queue)
    /\ Goto("record", d)
    /\ UNCHANGED << doc, saved, dict, last, status, mon, restarts, overwritten >>

\* Mutant of TakeTopology: every topology is taken for a new domain's.
MutAlwaysAdd(d) ==
    /\ lc = Idle
    /\ queue # << >> /\ Head(queue) = [ type |-> "topology", dom |-> d ]
    /\ queue' = Tail(queue)
    /\ Goto("add", d)
    /\ UNCHANGED << doc, saved, dict, last, status, mon, restarts, overwritten >>

TakeTopology(d) ==
    /\ lc = Idle
    /\ queue # << >> /\ Head(queue) = [ type |-> "topology", dom |-> d ]
    /\ queue' = Tail(queue)
    /\ Goto(IF dict[d] = "absent" THEN "add" ELSE "save", d)
    /\ UNCHANGED << doc, saved, dict, last, status, mon, restarts, overwritten >>

\* Mutant of Record: the document is not looked up.
MutRecordInMemory(d) ==
    /\ lc = [ pc |-> "record", dom |-> d ]
    /\ mon = Asleep
    /\ last' = [ last EXCEPT ![d] = "recent" ]
    /\ status' = [ status EXCEPT ![d] = "UP" ]
    /\ lc' = Idle
    /\ UNCHANGED << doc, saved, dict, queue, mon, restarts, overwritten >>

\* record_heartbeat, once it has the lock.  A domain that was UNKNOWN is
\* looked up in the document; if there is no document, `domain in None`
\* raises, outside any try of the thread.
Record(d) ==
    /\ lc = [ pc |-> "record", dom |-> d ]
    /\ mon = Asleep
    /\ last' = [ last EXCEPT ![d] = "recent" ]
    /\ status' = [ status EXCEPT ![d] = "UP" ]
    /\ \/ status[d] # "UNKNOWN" /\ lc' = Idle
       \/ status[d] = "UNKNOWN" /\ doc[d] # "absent" /\ Goto("recordWrite", d)
       \/ /\ status[d] = "UNKNOWN" /\ doc[d] = "absent"
          /\ lc' = IF doc = NotListed THEN Dead ELSE Idle
    /\ UNCHANGED << doc, saved, dict, queue, mon, restarts, overwritten >>

\* ... still with the lock.
RecordWrite(d) ==
    /\ lc = [ pc |-> "recordWrite", dom |-> d ]
    /\ DbReplace([ doc EXCEPT ![d] = "UP" ])
    /\ lc' = Idle
    /\ overwritten' = overwritten \ {d}
    /\ UNCHANGED << saved, dict, last, status, queue, mon, restarts >>

\* A topology of a new domain: the thread's whole dict is stored.
Add(d) ==
    /\ lc = [ pc |-> "add", dom |-> d ]
    /\ dict' = [ dict EXCEPT ![d] = "UP" ]
    /\ DbReplace(dict')
    /\ Goto("save", d)
    /\ overwritten' = overwritten \cup
           { e \in Domain : doc'[e] # doc[e] /\ "UNKNOWN" \in { doc'[e], status[e] } }
    /\ UNCHANGED << saved, last, status, queue, mon, restarts >>

SaveTopology(d) ==
    /\ lc = [ pc |-> "save", dom |-> d ]
    /\ saved' = saved \cup {d}
    /\ lc' = Idle
    /\ UNCHANGED << doc, dict, last, status, queue, mon, restarts, overwritten >>

LcStep ==
    \E d \in Domain :
        \/ TakeHeartbeat(d) \/ TakeTopology(d)
        \/ Record(d) \/ RecordWrite(d) \/ Add(d) \/ SaveTopology(d)

(***************************************************************************)
(* HeartbeatMonitor.check_status, which holds the lock from its first step *)
(* to its last.                                                            *)
(***************************************************************************)
Continue(D) ==
    mon' = IF D = {} THEN Asleep ELSE [ pc |-> "check", todo |-> D ]

\* Mutant of Silent: the comparison the wrong way round.
MutSilent == { d \in Domain : last[d] = "recent" /\ status[d] # "UNKNOWN" }

Silent == { d \in Domain : last[d] = "overdue" /\ status[d] # "UNKNOWN" }

Check ==
    /\ mon = Asleep
    /\ lc.pc # "recordWrite"
    /\ Silent # {}
    /\ Continue(Silent)
    /\ UNCHANGED << doc, saved, dict, last, status, queue, lc, restarts, overwritten >>

Mark(d) ==
    /\ mon.pc = "check"
    /\ d \in mon.todo
    /\ status' = [ status EXCEPT ![d] = "UNKNOWN" ]
    /\ IF doc[d] = "absent"
       THEN Continue(mon.todo \ {d}) /\ UNCHANGED overwritten
       ELSE /\ mon' = [ pc |-> "write", todo |-> mon.todo \ {d},
                        copy |-> [ doc EXCEPT ![d] = "UNKNOWN" ] ]
            /\ overwritten' = overwritten \ {d}
    /\ UNCHANGED << doc, saved, dict, last, queue, lc, restarts >>

\* Mutant of MarkWrite: the lock is not released.
MutLockKept ==
    /\ mon.pc = "write"
    /\ DbReplace(mon.copy)
    /\ mon' = [ pc |-> "check", todo |-> mon.todo ]
    /\ UNCHANGED << saved, dict, last, status, queue, lc, restarts, overwritten >>

MarkWrite ==
    /\ mon.pc = "write"
    /\ DbReplace(mon.copy)
    /\ Continue(mon.todo)
    /\ UNCHANGED << saved, dict, last, status, queue, lc, restarts, overwritten >>

MonStep == Check \/ (\E d \in Domain : Mark(d)) \/ MarkWrite

(***************************************************************************)
(* The local controllers (external), time, and restarts.                   *)
(***************************************************************************)
SendTopology(d) ==
    /\ Len(queue) < MaxQueue
    /\ queue' = Append(queue, [ type |-> "topology", dom |-> d ])
    /\ UNCHANGED << doc, saved, dict, last, status, lc, mon, restarts, overwritten >>

SendHeartbeat(d) ==
    /\ Len(queue) < MaxQueue
    /\ queue' = Append(queue, [ type |-> "heartbeat", dom |-> d ])
    /\ UNCHANGED << doc, saved, dict, last, status, lc, mon, restarts, overwritten >>

\* HEARTBEAT_TOLERANCE * HEARTBEAT_INTERVAL seconds have passed since the last
\* heartbeat of d.
Lapse(d) ==
    /\ last[d] = "recent"
    /\ last' = [ last EXCEPT ![d] = "overdue" ]
    /\ UNCHANGED << doc, saved, dict, status, queue, lc, mon, restarts, overwritten >>

\* Mutant of Restart: the stored dict is not read back.
MutRestartEmpty ==
    /\ restarts < MaxRestarts
    /\ restarts' = restarts + 1
    /\ dict' = NotListed
    /\ last' = [ d \in Domain |-> "never" ]
    /\ status' = [ d \in Domain |-> "none" ]
    /\ queue' = << >>
    /\ lc' = Idle /\ mon' = Asleep
    /\ overwritten' = { d \in Domain : doc[d] = "UNKNOWN" }
    /\ UNCHANGED << doc, saved >>

\* start_sdx_consumer in a new process: the dict comes from the document, the
\* monitor knows no domain.
Restart ==
    /\ restarts < MaxRestarts
    /\ restarts' = restarts + 1
    /\ dict' = doc
    /\ last' = [ d \in Domain |-> "never" ]
    /\ status' = [ d \in Domain |-> "none" ]
    /\ queue' = << >>
    /\ lc' = Idle /\ mon' = Asleep
    /\ overwritten' = { d \in Domain : doc[d] = "UNKNOWN" }
    /\ UNCHANGED << doc, saved >>

Next ==
    \/ LcStep
    \/ MonStep
    \/ \E d \in Domain : SendTopology(d) \/ SendHeartbeat(d) \/ Lapse(d)
    \/ Restart

Spec == Init /\ [][Next]_vars

FairSpec == Spec /\ WF_vars(LcStep) /\ WF_vars(MonStep)

-----------------------------------------------------------------------------
(***************************************************************************)
(* Properties.                                                             *)
(***************************************************************************)
\* While nobody is writing, the document agrees with the monitor on every
\* listed domain the monitor knows (record_heartbeat:65-79 and
\* check_status:95-104 each update both), unless a join has overwritten it
\* (lc_message_handler:404) or it was UNKNOWN when the controller started.
StoreFollows ==
    lc = Idle /\ mon = Asleep =>
        \A d \in Domain \ overwritten :
            status[d] # "none" /\ doc[d] # "absent" => doc[d] = status[d]

\* The document shows a domain UNKNOWN only if the monitor has marked it and
\* no heartbeat has come since, or its heartbeat is about to be written
\* (record_heartbeat: "mark it as UP if previously UNKNOWN"), or the document
\* said so when the controller started: the new monitor does not know of that,
\* and its heartbeats do not take it back.
NoFalseUnknown ==
    \A d \in Domain :
        doc[d] = "UNKNOWN" =>
            \/ status[d] = "UNKNOWN"
            \/ lc = [ pc |-> "recordWrite", dom |-> d ]
            \/ dict[d] = "UNKNOWN"

\* The LC thread knows every domain the document lists, even one restored by
\* the monitor's stale copy or left by a previous process; so no listed domain
\* is taken for a new one (lc_message_handler:368).
ListedIsKnown ==
    \A d \in Domain : doc[d] # "absent" => dict[d] # "absent"

\* A stored topology is one a restart will find: its domain is listed
\* (rpc_queue_consumer:225-235 loads the topologies of the listed domains).
SavedIsListed == \A d \in saved : doc[d] # "absent"

\* The strengthenings: of ListedIsKnown, for the copy the monitor is about to
\* write and the domain the LC thread is; of NoFalseUnknown, for that copy,
\* which needs that the LC thread writes no heartbeat meanwhile, and that it
\* adds only a domain it does not know.
ListedInv ==
    /\ ListedIsKnown
    /\ mon.pc = "write" => \A d \in Domain : mon.copy[d] # "absent" => dict[d] # "absent"
    /\ lc.pc = "recordWrite" => dict[lc.dom] # "absent"
    /\ lc.pc = "add" => dict[lc.dom] = "absent"

UnknownInv ==
    /\ NoFalseUnknown
    /\ lc.pc = "recordWrite" => mon = Asleep /\ status[lc.dom] = "UP"
    /\ mon.pc = "write" =>
           \A d \in Domain :
               mon.copy[d] = "UNKNOWN" => status[d] = "UNKNOWN" \/ dict[d] = "UNKNOWN"

\* Of OnlyHeartbeatsRevive.  What the LC thread's dict says UNKNOWN was so at
\* the start.  Until the domain is heard the document says it too, or is about
\* to; so no copy the monitor holds says otherwise of a domain that the
\* document shows UNKNOWN.
ReviveInv ==
    \A d \in Domain :
        /\ dict[d] = "UNKNOWN" =>
               doc[d] # "absent" /\ (mon.pc = "write" => mon.copy[d] # "absent")
        /\ dict[d] = "UNKNOWN" /\ status[d] # "UP" =>
               doc[d] = "UNKNOWN" \/ (mon.pc = "write" /\ mon.copy[d] = "UNKNOWN")
        /\ mon.pc = "write" /\ status[d] # "UP" /\ mon.copy[d] # "UNKNOWN" =>
               doc[d] # "UNKNOWN" /\ dict[d] # "UNKNOWN"

\* Of StoreFollows, for the time a thread is writing.
FollowInv ==
    /\ mon.pc # "write" =>
           \A d \in Domain \ overwritten :
               status[d] # "none" /\ doc[d] # "absent" =>
                   doc[d] = status[d] \/ lc = [ pc |-> "recordWrite", dom |-> d ]
    /\ mon.pc = "write" =>
           \A d \in Domain \ overwritten :
               /\ status[d] # "none" /\ mon.copy[d] # "absent" => mon.copy[d] = status[d]
               /\ mon.copy[d] = "UNKNOWN" => status[d] # "none"
    /\ \A d \in Domain \ overwritten : doc[d] = "UNKNOWN" => status[d] # "none"

\* A domain that is shown UNKNOWN is shown so until it has been heard, or the
\* first topology of another domain arrives: the LC thread then stores its own
\* dict, in which the monitor's marks are not (lc_message_handler:403-406).
\* Neither a topology of a domain that is listed, nor the monitor's stale copy,
\* nor a restart takes a mark back.
OnlyHeartbeatsRevive ==
    [][ \A d \in Domain :
            doc[d] = "UNKNOWN" /\ doc'[d] # "UNKNOWN" =>
                \/ status[d] = "UP"
                \/ \E e \in Domain : doc[e] = "absent" /\ doc'[e] = "UP" ]_vars

\* Once a domain is listed the LC thread always comes back to its queue, in
\* this process and the next: the monitor keeps no lock, and the document that
\* record_heartbeat needs (:73) never goes away again.
LcKeepsServing == [](doc # NotListed => []<>(lc = Idle))

\* A domain that stays silent is marked UNKNOWN.
SilenceIsNoticed ==
    \A d \in Domain :
        last[d] = "overdue" ~> status[d] = "UNKNOWN" \/ last[d] # "overdue"
=============================================================================
