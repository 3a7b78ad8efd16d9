---------------------------- MODULE RestartProofs ---------------------------
(***************************************************************************)
(* Proofs about Restart: type correctness, with it that every range the TE *)
(* manager is given is one it can use; that an invalid range invents no    *)
(* VLAN; that two connections that are up never share one, because whoever *)
(* is up holds its VLANs once the table is rebuilt; and that a connection  *)
(* that is up is shown with both of its ends.                              *)
(***************************************************************************)
EXTENDS Restart, SequenceTheorems, TLAPS

(***************************************************************************)
(* Ranges.                                                                 *)
(***************************************************************************)
\* What passes for valid is an interval of VLANs.
LEMMA ValidItemIsInterval ==
    ASSUME NEW i, IsItem(i), ValidItem(i)
    PROVE  0 <= Low(i) /\ Low(i) <= High(i) /\ High(i) <= MaxVlan
<1> DEFINE r == Read(i)
<1>1. r.kind = "number" => Len(r.of) = 1
      BY DEF IsItem, Read, ReadText
<1>2. /\ Low(i) = r.of[1] /\ High(i) = r.of[Len(r.of)]
      /\ \/ Len(r.of) = 1 /\ r.of[1] \in 0 .. MaxVlan
         \/ /\ Len(r.of) = 2
            /\ r.of[1] \in 0 .. MaxVlan /\ r.of[2] \in 0 .. MaxVlan
            /\ r.of[1] <= r.of[2]
      BY <1>1 DEF Low, High, ValidItem
<1>3. \A n \in 0 .. MaxVlan : 0 <= n /\ n <= n /\ n <= MaxVlan
      BY DEF MaxVlan
<1>4. \/ Low(i) \in 0 .. MaxVlan /\ High(i) = Low(i)
      \/ Low(i) \in 0 .. MaxVlan /\ High(i) \in 0 .. MaxVlan /\ Low(i) <= High(i)
      BY <1>2
<1> QED
    BY <1>3, <1>4

LEMMA DefaultIsUsable == Usable(<< Pair(1, MaxVlan) >>)
BY DEF Usable, Pair, Low, High, Read, MaxVlan

\* Whatever is announced, what is kept of it can be used.
LEMMA Range1IsUsable ==
    ASSUME NEW r \in Range1, r # NoRange
    PROVE  Usable(r)
<1>1. PICK a \in Announced : r = Sanitised(a, NoRange)
      BY DEF Range1
<1>2. CASE Valid(a)
  <2>1. r = a /\ a # << >> /\ \A i \in DOMAIN a : ValidItem(a[i]) /\ IsItem(a[i])
        BY <1>1, <1>2, RestartAssumption DEF Sanitised, Valid
  <2> QED
      BY <2>1, ValidItemIsInterval DEF Usable
<1>3. CASE ~ Valid(a)
      BY <1>1, <1>3, DefaultIsUsable DEF Sanitised, NoRange
<1> QED
    BY <1>2, <1>3

LEMMA AcceptedType ==
    ASSUME TypeOK, NEW d \in Domain, NEW r \in Announced
    PROVE  Accepted(r, d) \in Range1
<1>1. base[d] \in Range1
      BY DEF TypeOK
<1>2. CASE Valid(r)
      BY <1>2 DEF Accepted, Sanitised, Range1
<1>3. CASE ~ Valid(r) /\ base[d] # << >>
      BY <1>1, <1>3 DEF Accepted, Sanitised
<1>4. CASE ~ Valid(r) /\ base[d] = << >>
      BY <1>4 DEF Accepted, Sanitised, Range1, NoRange
<1> QED
    BY <1>2, <1>3, <1>4

(***************************************************************************)
(* Types.                                                                  *)
(***************************************************************************)
LEMMA LcShape ==
    ASSUME TypeOK
    PROVE  /\ lc.pc = "save" => lc.dom \in Domain /\ lc.said \in Range1
           /\ lc.pc \in { "tags", "solutions" } =>
                  lc.todo \subseteq Service /\ lc = [ pc |-> lc.pc, todo |-> lc.todo ]
           /\ Serving.pc = "serve" /\ Dead.pc = "dead" /\ Starting.pc = "topologies"
BY DEF TypeOK, LcState, Serving, Dead, Starting

LEMMA DoneType ==
    ASSUME TypeOK, NEW s \in Service, lc.pc \in { "tags", "solutions" }, Done(s)
    PROVE  lc' = [ pc |-> lc.pc, todo |-> lc.todo \ {s} ] /\ lc' \in LcState
BY LcShape DEF Done, LcState

LEMMA TakenType ==
    ASSUME TypeOK, NEW s \in Service, NEW P, NEW v
    PROVE  Taken(P, v, s) \in [ Port -> [ Vlan -> Service \cup {NoOne} ] ]
BY DEF TypeOK, Taken

LEMMA ReleasedType ==
    ASSUME TypeOK, NEW s \in Service
    PROVE  Released(s) \in [ Port -> [ Vlan -> Service \cup {NoOne} ] ]
BY DEF TypeOK, Released

LEMMA InitType ==
    ASSUME Init
    PROVE  TypeOK
<1>1. NoTopology \in [ Domain -> Range1 ]
      BY DEF NoTopology, Range1
<1>2. AllFree \in [ Port -> [ Vlan -> Service \cup {NoOne} ] ]
      BY DEF AllFree
<1>3. \A d \in Domain : NoTopology[d] = NoRange
      BY DEF NoTopology
<1> QED
    BY <1>1, <1>2, <1>3 DEF Init, TypeOK, LcState

LEMMA RestType ==
    ASSUME TypeOK, NEW s \in Service, Post(s) \/ Refuse(s) \/ Delete(s)
    PROVE  TypeOK'
<1> USE DEF store, docs, te, threads, ghosts
<1>1. CASE Post(s)
  <2>1. PICK v \in Free(s) : breakdown' = [ breakdown EXCEPT ![s] = Breakdown(s, v) ]
                             /\ table' = Taken(PortsOf(s), v, s)
        BY <1>1 DEF Post
  <2>2. v \in Vlan
        BY DEF Free
  <2>3. topologies' \in [ Domain -> Range1 ] /\ latest' \in [ Domain -> Range1 ]
        BY <1>1 DEF Post, TopologiesSaved, TypeOK
  <2>4. table' \in [ Port -> [ Vlan -> Service \cup {NoOne} ] ]
        BY <2>1, TakenType
  <2>5. \A t \in Service : breakdown'[t] \in { << >> } \cup { Breakdown(t, w) : w \in Vlan }
    <3> SUFFICES ASSUME NEW t \in Service
                 PROVE  breakdown'[t] \in { << >> } \cup { Breakdown(t, w) : w \in Vlan }
        OBVIOUS
    <3>1. breakdown'[t] = breakdown[t] \/ (t = s /\ breakdown'[t] = Breakdown(s, v))
          BY <2>1 DEF TypeOK
    <3> QED
        BY <2>2, <3>1 DEF TypeOK
  <2>6. status' \in [ Service -> { "none", "UP", "DOWN", "REJECTED" } ]
        BY <1>1 DEF Post, TypeOK
  <2>7. hurt' \subseteq { "overtaken", "stale", "unlisted", "unsaved" }
        BY <1>1 DEF Post, TypeOK
  <2> QED
      BY <1>1, <2>3, <2>4, <2>5, <2>6, <2>7 DEF Post, TypeOK
<1>2. CASE Refuse(s)
      BY <1>2, ReleasedType DEF Refuse, TypeOK
<1>3. CASE Delete(s)
  <2>1. \A t \in Service : breakdown'[t] \in { << >> } \cup { Breakdown(t, w) : w \in Vlan }
        BY <1>3 DEF Delete, TypeOK
  <2>2. status' \in [ Service -> { "none", "UP", "DOWN", "REJECTED" } ]
        BY <1>3 DEF Delete, TypeOK
  <2> QED
      BY <1>3, <2>1, <2>2, ReleasedType DEF Delete, TypeOK
<1> QED
    BY <1>1, <1>2, <1>3

LEMMA TopologyType ==
    ASSUME TypeOK,
           (\E d \in Domain, r \in Announced : TakeTopology(d, r)) \/ SaveTopology \/ SaveLatest
    PROVE  TypeOK'
<1> USE DEF store, docs, te, threads, ghosts
<1>1. ASSUME NEW d \in Domain, NEW r \in Announced, TakeTopology(d, r)
      PROVE  TypeOK'
  <2>1. Accepted(r, d) \in Range1
        BY AcceptedType
  <2>2. range' \in [ Domain -> Range1 ]
        BY <1>1, <2>1 DEF TakeTopology, TypeOK
  <2>3. \A e \in Domain : range'[e] = NoRange \/ Usable(range'[e])
        BY <2>2, Range1IsUsable
  <2>4. lc' \in LcState
        BY <1>1, <2>1 DEF TakeTopology, LcState
  <2>5. vouched' \in [ Domain -> SUBSET Vlan ]
    <3>1. VlansOf(Accepted(r, d)) \subseteq Vlan
          BY DEF VlansOf
    <3> QED
        BY <1>1, <3>1 DEF TakeTopology, TypeOK
  <2> QED
      BY <1>1, <2>2, <2>3, <2>4, <2>5 DEF TakeTopology, TypeOK
<1>2. CASE SaveTopology
      BY <1>2, LcShape DEF SaveTopology, TypeOK, LcState
<1>3. CASE SaveLatest
      BY <1>3 DEF SaveLatest, TypeOK, LcState
<1> QED
    BY <1>1, <1>2, <1>3

LEMMA LoadType ==
    ASSUME TypeOK, Load
    PROVE  TypeOK'
<1> USE DEF store, docs, te, threads, ghosts
<1>1. CASE LoadTopologies
  <2>1. range' \in [ Domain -> Range1 ]
        BY <1>1 DEF LoadTopologies, TypeOK
  <2>2. \A e \in Domain : range'[e] = NoRange \/ Usable(range'[e])
        BY <2>1, Range1IsUsable
  <2> QED
      BY <1>1, <2>1, <2>2 DEF LoadTopologies, TypeOK, LcState, Stored
<1>2. ASSUME NEW s \in Service, LoadTags(s)
      PROVE  TypeOK'
  <2>1. table' \in [ Port -> [ Vlan -> Service \cup {NoOne} ] ]
        BY <1>2, TakenType DEF LoadTags, TypeOK
  <2>2. lc' \in LcState
        BY <1>2, DoneType DEF LoadTags, LcState
  <2>3. hurt' \subseteq { "overtaken", "stale", "unlisted", "unsaved" }
        BY <1>2 DEF LoadTags, TypeOK
  <2> QED
      BY <1>2, <2>1, <2>2, <2>3 DEF LoadTags, TypeOK
<1>3. ASSUME NEW s \in Service, LoadSolution(s)
      PROVE  TypeOK'
  <2>1. lc' \in LcState
        BY <1>3, DoneType DEF LoadSolution, LcState
  <2>2. solutions' \subseteq Service
        BY <1>3 DEF LoadSolution, TypeOK
  <2> QED
      BY <1>3, <2>1, <2>2 DEF LoadSolution, TypeOK
<1>4. CASE TagsLoaded
  <2>1. lc' \in LcState
        BY <1>4 DEF TagsLoaded, LcState, Stored
  <2> QED
      BY <1>4, <2>1 DEF TagsLoaded, TypeOK
<1>5. CASE SolutionsLoaded
      BY <1>5 DEF SolutionsLoaded, TypeOK, LcState
<1> QED
    BY <1>1, <1>2, <1>3, <1>4, <1>5 DEF Load

LEMMA NextType ==
    ASSUME TypeOK, [Next]_vars
    PROVE  TypeOK'
<1> USE DEF store, docs, te, threads, ghosts
<1>1. CASE MonitorRead
      BY <1>1 DEF MonitorRead, TypeOK
<1>2. CASE MonitorWrite
      BY <1>2 DEF MonitorWrite, TypeOK
<1>3. CASE Crash
  <2>1. NoTopology \in [ Domain -> Range1 ]
        BY DEF NoTopology, Range1
  <2>2. AllFree \in [ Port -> [ Vlan -> Service \cup {NoOne} ] ]
        BY DEF AllFree
  <2>3. \A d \in Domain : NoTopology[d] = NoRange
        BY DEF NoTopology
  <2> QED
      BY <1>3, <2>1, <2>2, <2>3 DEF Crash, TypeOK, LcState
<1>4. CASE UNCHANGED vars
      BY <1>4 DEF vars, TypeOK
<1> QED
    BY <1>1, <1>2, <1>3, <1>4, RestType, TopologyType, LoadType DEF Next

\* Types, and that the TE manager can use every range it is given, for any
\* number of announcements, valid or not, and of restarts.
THEOREM TypeCorrect == Spec => []TypeOK
BY InitType, NextType, PTL DEF Spec

(***************************************************************************)
(* An invalid range invents no VLAN: what is stored, and what a restart    *)
(* takes from the store, is as much vouched for as what the ports offer.   *)
(***************************************************************************)
Vouched(r) == \A d \in Domain : VlansOf(r[d]) \subseteq vouched[d]

AllVouched ==
    /\ Vouched(range) /\ Vouched(base) /\ Vouched(latest) /\ Vouched(topologies)
    /\ lc.pc = "save" => VlansOf(lc.said) \subseteq vouched[lc.dom]

LEMMA NoRangeOffersNothing == VlansOf(NoRange) = {}
BY DEF VlansOf, Offers, NoRange

LEMMA InitVouched ==
    ASSUME Init
    PROVE  AllVouched
BY NoRangeOffersNothing DEF Init, AllVouched, Vouched, NoTopology, Serving

LEMMA TakeVouched ==
    ASSUME TypeOK, AllVouched, NEW d \in Domain, NEW r \in Announced, TakeTopology(d, r)
    PROVE  AllVouched'
<1>1. vouched \in [ Domain -> SUBSET Vlan ] /\ range \in [ Domain -> Range1 ]
      BY DEF TypeOK
<1>2. \A e \in Domain : vouched[e] \subseteq vouched'[e]
      BY <1>1 DEF TakeTopology
<1>3. VlansOf(Accepted(r, d)) \subseteq vouched'[d]
  <2>1. CASE Valid(r) \/ base[d] = NoRange
        BY <1>1, <2>1 DEF TakeTopology
  <2>2. CASE ~ Valid(r) /\ base[d] # NoRange
    <3>1. Accepted(r, d) = base[d]
          BY <2>2 DEF Accepted, Sanitised, NoRange
    <3> QED
        BY <1>2, <3>1 DEF AllVouched, Vouched
  <2> QED
      BY <2>1, <2>2
<1>4. range' = [ range EXCEPT ![d] = Accepted(r, d) ]
      /\ UNCHANGED << base, latest, topologies >>
      /\ lc' = [ pc |-> "save", dom |-> d, said |-> Accepted(r, d) ]
      BY DEF TakeTopology
<1>5. Vouched(range)'
      BY <1>1, <1>2, <1>3, <1>4 DEF AllVouched, Vouched, VlansOf
<1>6. Vouched(base)' /\ Vouched(latest)' /\ Vouched(topologies)'
      BY <1>2, <1>4 DEF AllVouched, Vouched, VlansOf
<1> QED
    BY <1>3, <1>4, <1>5, <1>6 DEF AllVouched, VlansOf

LEMMA NextVouched ==
    ASSUME TypeOK, AllVouched, [Next]_vars
    PROVE  AllVouched'
<1> USE DEF store, docs, te, threads, ghosts, AllVouched, Vouched, VlansOf
<1>1. ASSUME NEW s \in Service, Post(s) \/ Refuse(s) \/ Delete(s)
      PROVE  AllVouched'
      BY <1>1 DEF Post, TopologiesSaved, Refuse, Delete
<1>2. CASE SaveTopology
      BY <1>2 DEF SaveTopology, TypeOK
<1>3. CASE SaveLatest
      BY <1>3 DEF SaveLatest, Serving
<1>4. CASE MonitorRead \/ MonitorWrite
      BY <1>4 DEF MonitorRead, MonitorWrite
<1>5. CASE Crash
      BY <1>5, NoRangeOffersNothing DEF Crash, NoTopology, Serving, Starting
<1>6. CASE LoadTopologies
      BY <1>6 DEF LoadTopologies
<1>7. ASSUME NEW s \in Service, LoadTags(s) \/ LoadSolution(s)
      PROVE  AllVouched'
  <2>1. lc'.pc # "save"
        BY <1>7, DoneType DEF LoadTags, LoadSolution, Dead
  <2> QED
      BY <1>7, <2>1 DEF LoadTags, LoadSolution
<1>8. CASE TagsLoaded \/ SolutionsLoaded
      BY <1>8 DEF TagsLoaded, SolutionsLoaded, Serving
<1>9. CASE UNCHANGED vars
      BY <1>9 DEF vars
<1> QED
    BY <1>1, <1>2, <1>3, <1>4, <1>5, <1>6, <1>7, <1>8, <1>9, TakeVouched DEF Next, Load

\* An invalid range never makes a port offer a VLAN that no valid one has
\* offered, unless nothing was known of the port (_sanitize_vlan_ranges): for
\* any ranges, announced in any order, and any number of restarts.
THEOREM NothingInventedCorrect == Spec => []NothingInvented
<1>1. Init => TypeOK /\ AllVouched
      BY InitType, InitVouched
<1>2. TypeOK /\ AllVouched /\ [Next]_vars => (TypeOK /\ AllVouched)'
      BY NextType, NextVouched
<1>3. TypeOK /\ AllVouched => NothingInvented
      BY DEF AllVouched, Vouched, NothingInvented, Offered, VlansOf
<1> QED
    BY <1>1, <1>2, <1>3, PTL DEF Spec

(***************************************************************************)
(* Whoever is up holds its VLANs, once the table is rebuilt.               *)
(***************************************************************************)
\* The LC thread has recovered what the table is to say of s, and its solution.
TagsOf(s) ==
    \/ lc.pc \in { "serve", "save", "latest", "solutions" }
    \/ lc.pc = "tags" /\ s \notin lc.todo
SolutionOf(s) ==
    \/ lc.pc \in { "serve", "save", "latest" }
    \/ lc.pc = "solutions" /\ s \notin lc.todo

Holds(s) == \A p \in PortsOf(s) : table[p][VlanOf(s)] = s
Apart(s, t) == VlanOf(s) = VlanOf(t) => PortsOf(s) \cap PortsOf(t) = {}

\* With no topology nothing is placed, so a controller that starts with
\* connections up finds a domain listed, and rebuilds the TE manager.
Documented ==
    /\ \A s \in Service : status[s] = "UP" =>
           breakdown[s] # << >> /\ s \in solved /\ register # {}
    /\ \A d \in Domain : range[d] # NoRange => dict # {}
    /\ dict # {} => register # {}

HeldOnce ==
    Unhurt({"overtaken", "stale"}) =>
        /\ \A s \in Service : status[s] = "UP" =>
               /\ TagsOf(s) => Holds(s)
               /\ SolutionOf(s) /\ s \in Metered => s \in solutions
        /\ \A s, t \in Service :
               s # t /\ status[s] = "UP" /\ status[t] = "UP" => Apart(s, t)

LEMMA PathIsNotEmpty ==
    ASSUME NEW s \in Service
    PROVE  /\ 1 \in DOMAIN Segments[s] /\ PortsOf(s) \subseteq Port
           /\ \E d \in Domain : d \in DomainsOf(s)
           /\ \A v : Breakdown(s, v) # << >> /\ Breakdown(s, v)[1].vlan = v
<1>1. Segments[s] \in Seq([ dom : Domain, a : Port, z : Port ]) /\ Segments[s] # << >>
      BY RestartAssumption
<1>2. 1 \in DOMAIN Segments[s] /\ Segments[s][1].dom \in Domain
  <2>1. Len(Segments[s]) \in Nat /\ Len(Segments[s]) # 0
        BY <1>1
  <2>2. DOMAIN Segments[s] = 1 .. Len(Segments[s])
        BY <1>1
  <2>3. 1 \in DOMAIN Segments[s]
        BY <2>1, <2>2
  <2>4. Segments[s][1] \in [ dom : Domain, a : Port, z : Port ]
    <3> DEFINE T == [ dom : Domain, a : Port, z : Port ]
    <3>1. Segments[s] \in Seq(T) /\ 1 \in 1 .. Len(Segments[s])
          BY <1>1, <2>1
    <3> HIDE DEF T
    <3>2. Segments[s][1] \in T
          BY <3>1, ElementOfSeq
    <3> QED
        BY <3>2 DEF T
  <2> QED
      BY <2>3, <2>4
<1>3. PortsOf(s) \subseteq Port
      BY DEF PortsOf, Port
<1>4. \A v : DOMAIN Breakdown(s, v) = DOMAIN Segments[s]
      BY DEF Breakdown
<1>5. \A v : Breakdown(s, v) # << >>
      BY <1>2, <1>4
<1>6. \A v : Breakdown(s, v)[1].vlan = v
      BY <1>2 DEF Breakdown
<1> QED
    BY <1>2, <1>3, <1>5, <1>6 DEF DomainsOf

LEMMA VlanOfType ==
    ASSUME TypeOK, NEW s \in Service, breakdown[s] # << >>
    PROVE  VlanOf(s) \in Vlan
BY PathIsNotEmpty DEF TypeOK, VlanOf

LEMMA InitHeld ==
    ASSUME Init
    PROVE  Documented /\ HeldOnce
BY DEF Init, Documented, HeldOnce, NoTopology

(***************************************************************************)
(* The documents, and the register.                                        *)
(***************************************************************************)
LEMMA NextDocumented ==
    ASSUME TypeOK, Documented, [Next]_vars
    PROVE  Documented'
<1> USE DEF store, docs, te, threads, ghosts, Documented
<1>1. ASSUME NEW s \in Service, Post(s)
      PROVE  Documented'
  <2>1. PICK v \in Free(s) : breakdown' = [ breakdown EXCEPT ![s] = Breakdown(s, v) ]
        BY <1>1 DEF Post
  <2>2. PICK d \in Domain : d \in DomainsOf(s)
        BY PathIsNotEmpty
  <2>3. range[d] # NoRange
        BY <2>1, <2>2 DEF Free, Offered
  <2>4. register # {}
        BY <2>3
  <2>5. \A t \in Service : status'[t] = "UP" => breakdown'[t] # << >> /\ t \in solved'
    <3>1. breakdown'[s] # << >>
          BY <2>1, PathIsNotEmpty DEF TypeOK
    <3>2. \A t \in Service : t # s => breakdown'[t] = breakdown[t] /\ status'[t] = status[t]
          BY <1>1, <2>1 DEF Post, TypeOK
    <3> QED
        BY <1>1, <3>1, <3>2 DEF Post
  <2> QED
      BY <1>1, <2>4, <2>5 DEF Post
<1>2. ASSUME NEW s \in Service, Refuse(s)
      PROVE  Documented'
      BY <1>2 DEF Refuse, TypeOK
<1>3. ASSUME NEW s \in Service, Delete(s)
      PROVE  Documented'
  <2>1. \A t \in Service : status'[t] = "UP" =>
            t # s /\ status[t] = "UP" /\ breakdown'[t] = breakdown[t]
        BY <1>3 DEF Delete, TypeOK
  <2> QED
      BY <1>3, <2>1 DEF Delete
<1>4. ASSUME NEW d \in Domain, NEW r \in Announced, TakeTopology(d, r)
      PROVE  Documented'
      BY <1>4 DEF TakeTopology
<1>5. CASE SaveTopology \/ SaveLatest \/ MonitorRead \/ UNCHANGED vars
      BY <1>5 DEF SaveTopology, SaveLatest, MonitorRead, vars
<1>6. CASE MonitorWrite
      BY <1>6 DEF MonitorWrite
<1>7. CASE Crash
      BY <1>7 DEF Crash, NoTopology
<1>8. CASE LoadTopologies
      BY <1>8 DEF LoadTopologies, TypeOK
<1>9. ASSUME NEW s \in Service, LoadTags(s) \/ LoadSolution(s)
      PROVE  Documented'
      BY <1>9 DEF LoadTags, LoadSolution
<1>10. CASE TagsLoaded \/ SolutionsLoaded
      BY <1>10 DEF TagsLoaded, SolutionsLoaded
<1> QED
    BY <1>1, <1>2, <1>3, <1>4, <1>5, <1>6, <1>7, <1>8, <1>9, <1>10 DEF Next, Load

(***************************************************************************)
(* The VLANs, one lemma for each way they change.                          *)
(***************************************************************************)
\* What is recovered, or what is taken, is s's; what others hold apart from it
\* stays theirs.
LEMMA TakenHolds ==
    ASSUME TypeOK, NEW s \in Service, NEW v \in Vlan, table' = Taken(PortsOf(s), v, s)
    PROVE  /\ \A p \in PortsOf(s) : table'[p][v] = s
           /\ \A p \in Port, w \in Vlan :
                  p \notin PortsOf(s) \/ w # v => table'[p][w] = table[p][w]
BY PathIsNotEmpty DEF TypeOK, Taken

LEMMA PostHeld ==
    ASSUME TypeOK, Documented, HeldOnce, NEW s \in Service, Post(s)
    PROVE  HeldOnce'
<1>1. PICK v \in Free(s) : /\ breakdown' = [ breakdown EXCEPT ![s] = Breakdown(s, v) ]
                           /\ table' = Taken(PortsOf(s), v, s)
      BY DEF Post
<1>2. v \in Vlan /\ \A p \in PortsOf(s) : table[p][v] = NoOne
      BY DEF Free
<1>3. VlanOf(s)' = v
      BY <1>1, PathIsNotEmpty DEF TypeOK, VlanOf
<1>4. \A t \in Service : t # s =>
          VlanOf(t)' = VlanOf(t) /\ status'[t] = status[t]
      BY <1>1 DEF Post, TypeOK, VlanOf
<1>5. SUFFICES ASSUME Unhurt({"overtaken", "stale"})'
               PROVE  HeldOnce'
      BY DEF HeldOnce
<1>6. Unhurt({"overtaken", "stale"}) /\ ~ Loading /\ lc' = lc
      BY <1>5 DEF Post, Unhurt, threads, TypeOK
<1>7. \A t \in Service : TagsOf(t)
      BY <1>6, LcShape DEF Loading, TagsOf, TypeOK, LcState, Serving, Dead, Starting
<1>8. \A t \in Service : t # s /\ status[t] = "UP" =>
          /\ VlanOf(t) \in Vlan /\ PortsOf(t) \subseteq Port
          /\ \A p \in PortsOf(t) : table[p][VlanOf(t)] = t
      BY <1>6, <1>7, VlanOfType, PathIsNotEmpty DEF Documented, HeldOnce, Holds
<1>9. \A t \in Service : t # s /\ status[t] = "UP" /\ VlanOf(t) = v =>
          PortsOf(s) \cap PortsOf(t) = {}
      BY <1>2, <1>8, RestartAssumption
<1>10. \A t \in Service : status'[t] = "UP" => Holds(t)'
  <2>1. Holds(s)'
        BY <1>1, <1>2, <1>3, TakenHolds DEF Holds
  <2>2. ASSUME NEW t \in Service, t # s, status[t] = "UP"
        PROVE  Holds(t)'
    <3>1. \A p \in PortsOf(t) : p \notin PortsOf(s) \/ VlanOf(t) # v
          BY <1>9, <2>2
    <3> QED
        BY <1>1, <1>2, <1>4, <1>8, <2>2, <3>1, TakenHolds DEF Holds
  <2> QED
      BY <1>4, <2>1, <2>2
<1>11. \A t, u \in Service : t # u /\ status'[t] = "UP" /\ status'[u] = "UP" => Apart(t, u)'
      BY <1>3, <1>4, <1>6, <1>9 DEF HeldOnce, Apart
<1>12. \A t \in Service : status'[t] = "UP" /\ SolutionOf(t)' /\ t \in Metered => t \in solutions'
      BY <1>4, <1>6 DEF Post, HeldOnce, SolutionOf
<1> QED
    BY <1>10, <1>11, <1>12 DEF HeldOnce

LEMMA ReleasedHeld ==
    ASSUME TypeOK, Documented, HeldOnce, NEW s \in Service, Refuse(s) \/ Delete(s)
    PROVE  HeldOnce'
<1>1. /\ table' = Released(s) /\ solutions' = solutions \ {s} /\ lc' = lc /\ hurt' = hurt
      /\ status'[s] # "UP"
      /\ \A t \in Service : t # s => status'[t] = status[t] /\ VlanOf(t)' = VlanOf(t)
      BY DEF Refuse, Delete, TypeOK, VlanOf, threads, ghosts
<1>2. \A t \in Service : t # s /\ status[t] = "UP" /\ Holds(t) => Holds(t)'
  <2> SUFFICES ASSUME NEW t \in Service, t # s, status[t] = "UP", Holds(t)
               PROVE  Holds(t)'
      OBVIOUS
  <2>1. VlanOf(t) \in Vlan /\ PortsOf(t) \subseteq Port
        BY VlanOfType, PathIsNotEmpty DEF Documented
  <2> QED
      BY <1>1, <2>1 DEF Holds, Released
<1> QED
    BY <1>1, <1>2 DEF HeldOnce, Unhurt, TagsOf, SolutionOf, Apart

LEMMA LoadTagsHeld ==
    ASSUME TypeOK, Documented, HeldOnce, NEW s \in Service, LoadTags(s)
    PROVE  HeldOnce'
<1>1. /\ UNCHANGED << status, breakdown, solutions >> /\ lc.pc = "tags"
      /\ \A t \in Service : VlanOf(t)' = VlanOf(t)
      BY DEF LoadTags, docs, VlanOf
<1>2. SUFFICES ASSUME Unhurt({"overtaken", "stale"})'
               PROVE  HeldOnce'
      BY DEF HeldOnce
<1>3. Unhurt({"overtaken", "stale"}) /\ (breakdown[s] # << >> => status[s] = "UP")
      BY <1>2 DEF LoadTags, Unhurt
<1>4. \A t \in Service : ~ SolutionOf(t)' /\ (TagsOf(t)' => t = s \/ TagsOf(t))
      BY <1>1, DoneType DEF LoadTags, SolutionOf, TagsOf, Dead
<1>5. \A t \in Service : status[t] = "UP" /\ TagsOf(t)' => Holds(t)'
  <2>1. CASE breakdown[s] = << >>
    <3>1. status[s] # "UP" /\ table' = table
          BY <2>1 DEF Documented, LoadTags
    <3> QED
        BY <1>1, <1>3, <1>4, <3>1 DEF HeldOnce, Holds
  <2>2. CASE breakdown[s] # << >> /\ Recoverable(s) # DOMAIN Segments[s]
        BY <2>2 DEF LoadTags, Dead, TagsOf
  <2>3. CASE breakdown[s] # << >> /\ Recoverable(s) = DOMAIN Segments[s]
    <3>1. table' = Taken(PortsOf(s), VlanOf(s), s) /\ VlanOf(s) \in Vlan
          BY <2>3, VlanOfType DEF LoadTags, RecoveredPorts, PortsOf
    <3>2. Holds(s)'
          BY <1>1, <3>1, TakenHolds DEF Holds
    <3>3. ASSUME NEW t \in Service, t # s, status[t] = "UP", TagsOf(t)
          PROVE  Holds(t)'
      <4>1. VlanOf(t) \in Vlan /\ PortsOf(t) \subseteq Port /\ Holds(t) /\ Apart(s, t)
            BY <1>3, <2>3, <3>3, VlanOfType, PathIsNotEmpty DEF Documented, HeldOnce
      <4>2. \A p \in PortsOf(t) : p \notin PortsOf(s) \/ VlanOf(t) # VlanOf(s)
            BY <4>1 DEF Apart
      <4> QED
          BY <1>1, <3>1, <4>1, <4>2, TakenHolds DEF Holds
    <3> QED
        BY <1>4, <3>2, <3>3
  <2> QED
      BY <2>1, <2>2, <2>3
<1>6. \A t, u \in Service : t # u /\ status[t] = "UP" /\ status[u] = "UP" => Apart(t, u)'
      BY <1>1, <1>3 DEF HeldOnce, Apart
<1> QED
    BY <1>1, <1>4, <1>5, <1>6 DEF HeldOnce

LEMMA LoadSolutionHeld ==
    ASSUME TypeOK, Documented, HeldOnce, NEW s \in Service, LoadSolution(s)
    PROVE  HeldOnce'
<1>1. /\ UNCHANGED << status, breakdown, solved, table, hurt >> /\ lc.pc = "solutions"
      /\ \A t \in Service : (VlanOf(t)' = VlanOf(t)) /\ TagsOf(t)
      BY DEF LoadSolution, docs, ghosts, VlanOf, TagsOf
<1>2. status[s] = "UP" => View(status[s], Request[s], breakdown[s]) # NotFound
  <2>1. ASSUME status[s] = "UP", breakdown[s] # << >>
        PROVE  View(status[s], Request[s], breakdown[s]) # NotFound
    <3>1. View(status[s], Request[s], breakdown[s]).status = "up"
          BY <2>1 DEF View, ParseStatus
    <3>2. NotFound.status = "not found"
          BY DEF NotFound
    <3>3. "up" # "not found"
          OBVIOUS
    <3> QED
        BY <3>1, <3>2, <3>3
  <2> QED
      BY <2>1 DEF Documented
<1>3. \A t \in Service : SolutionOf(t)' => (t = s \/ SolutionOf(t)) /\ lc' # Dead
      BY <1>1, DoneType DEF LoadSolution, SolutionOf, Dead
<1>4. solutions \subseteq solutions'
      BY DEF LoadSolution
<1>5. SolutionOf(s)' /\ status[s] = "UP" /\ s \in Metered => s \in solutions'
      BY <1>2, <1>3 DEF LoadSolution, Documented
<1>6. \A t \in Service : TagsOf(t) /\ Holds(t) => Holds(t)'
      BY <1>1 DEF Holds
<1> QED
    BY <1>1, <1>3, <1>4, <1>5, <1>6 DEF HeldOnce, Unhurt, Apart

LEMMA NextHeld ==
    ASSUME TypeOK, Documented, HeldOnce, [Next]_vars
    PROVE  HeldOnce'
<1> USE DEF store, docs, te, threads, ghosts
<1>1. ASSUME UNCHANGED << status, breakdown, table, solutions >>,
             Unhurt({"overtaken", "stale"})' => Unhurt({"overtaken", "stale"}),
             \A s \in Service : (TagsOf(s)' => TagsOf(s)) /\ (SolutionOf(s)' => SolutionOf(s))
      PROVE  HeldOnce'
  <2>1. \A s \in Service : VlanOf(s)' = VlanOf(s) /\ (Holds(s) => Holds(s)')
        BY <1>1 DEF VlanOf, Holds
  <2> QED
      BY <1>1, <2>1 DEF HeldOnce, Apart
<1>2. ASSUME NEW d \in Domain, NEW r \in Announced, TakeTopology(d, r)
      PROVE  HeldOnce'
      BY <1>1, <1>2 DEF TakeTopology, TagsOf, SolutionOf, Serving, Unhurt
<1>3. CASE SaveTopology \/ SaveLatest
      BY <1>1, <1>3 DEF SaveTopology, SaveLatest, TagsOf, SolutionOf, Serving, Unhurt
<1>4. CASE MonitorRead \/ MonitorWrite \/ UNCHANGED vars
      BY <1>1, <1>4 DEF MonitorRead, MonitorWrite, vars, TagsOf, SolutionOf, Unhurt
<1>5. CASE LoadTopologies
  <2>1. \A s \in Service : status[s] = "UP" => s \in lc'.todo
        BY <1>5 DEF LoadTopologies, Stored
  <2>2. lc'.pc = "tags" /\ UNCHANGED << status, breakdown, table, solutions, hurt >>
        BY <1>5 DEF LoadTopologies
  <2> QED
      BY <2>1, <2>2 DEF HeldOnce, Unhurt, Apart, VlanOf, TagsOf, SolutionOf
<1>6. CASE Crash
  <2>1. UNCHANGED << status, breakdown >> /\ hurt \subseteq hurt'
        BY <1>6 DEF Crash
  <2>2. CASE register = {}
    <3>1. \A s \in Service : status[s] # "UP"
          BY <2>2 DEF Documented
    <3> QED
        BY <2>1, <3>1 DEF HeldOnce
  <2>3. CASE register # {}
    <3>1. \A s \in Service : ~ TagsOf(s)' /\ ~ SolutionOf(s)'
          BY <1>6, <2>3 DEF Crash, Starting, TagsOf, SolutionOf
    <3> QED
        BY <2>1, <3>1 DEF HeldOnce, Unhurt, Apart, VlanOf
  <2> QED
      BY <2>2, <2>3
<1>7. CASE TagsLoaded
  <2>1. \A s \in Service : status[s] = "UP" => ~ SolutionOf(s)' /\ TagsOf(s)
        BY <1>7 DEF TagsLoaded, Stored, SolutionOf, TagsOf
  <2>2. UNCHANGED << status, breakdown, table, solutions, hurt >>
        BY <1>7 DEF TagsLoaded
  <2>3. \A s \in Service : VlanOf(s)' = VlanOf(s) /\ (Holds(s) => Holds(s)')
        BY <2>2 DEF VlanOf, Holds
  <2> QED
      BY <2>1, <2>2, <2>3 DEF HeldOnce, Unhurt, Apart
<1>8. CASE SolutionsLoaded
      BY <1>1, <1>8 DEF SolutionsLoaded, TagsOf, SolutionOf, Serving, Unhurt
<1>9. ASSUME NEW s \in Service,
             Post(s) \/ Refuse(s) \/ Delete(s) \/ LoadTags(s) \/ LoadSolution(s)
      PROVE  HeldOnce'
      BY <1>9, PostHeld, ReleasedHeld, LoadTagsHeld, LoadSolutionHeld
<1> QED
    BY <1>2, <1>3, <1>4, <1>5, <1>6, <1>7, <1>8, <1>9 DEF Next, Load

LEMMA HeldInvariant == Spec => [](TypeOK /\ Documented /\ HeldOnce)
<1>1. Init => TypeOK /\ Documented /\ HeldOnce
      BY InitType, InitHeld
<1>2. TypeOK /\ Documented /\ HeldOnce /\ [Next]_vars => (TypeOK /\ Documented /\ HeldOnce)'
      BY NextType, NextDocumented, NextHeld
<1> QED
    BY <1>1, <1>2, PTL DEF Spec

\* Two connections that are up never use one VLAN of a port, whatever is lost
\* in restarts: for any connections, domains, VLANs and number of restarts.
THEOREM NoSharedVlanCorrect == Spec => []NoSharedVlan
<1>1. HeldOnce => NoSharedVlan
      BY DEF HeldOnce, NoSharedVlan, Apart
<1> QED
    BY <1>1, HeldInvariant, PTL

\* Once the LC thread serves again, the TE manager holds the VLANs and the
\* solution of each connection that is up (the loading in start_consumer).
THEOREM UpIsHeldCorrect == Spec => []UpIsHeld
<1>1. HeldOnce => UpIsHeld
      BY DEF HeldOnce, UpIsHeld, TagsOf, SolutionOf, Holds
<1> QED
    BY <1>1, HeldInvariant, PTL

(***************************************************************************)
(* What GET shows.                                                         *)
(***************************************************************************)
LEMMA Halves ==
    ASSUME NEW n \in Nat
    PROVE  /\ \A i \in 1 .. 2 * n : (i + 1) \div 2 \in 1 .. n /\ 2 - (i % 2) \in { 1, 2 }
           /\ \A k \in 1 .. n :
                  /\ 2 * k - 1 \in 1 .. 2 * n /\ 2 * k \in 1 .. 2 * n
                  /\ ((2 * k - 1) + 1) \div 2 = k /\ 2 - ((2 * k - 1) % 2) = 1
                  /\ ((2 * k) + 1) \div 2 = k /\ 2 - ((2 * k) % 2) = 2
OBVIOUS

\* The path GET shows is both ends of every segment, and no other.
LEMMA CurrentPathEnds ==
    ASSUME NEW b, Len(b) \in Nat, DOMAIN b = 1 .. Len(b)
    PROVE  /\ DOMAIN CurrentPath(b) = 1 .. 2 * Len(b)
           /\ \A i \in 1 .. 2 * Len(b) : \E k \in DOMAIN b :
                  CurrentPath(b)[i] \in { EndsOf(b[k])[1], EndsOf(b[k])[2] }
           /\ \A k \in DOMAIN b, j \in { 1, 2 } : \E i \in 1 .. 2 * Len(b) :
                  CurrentPath(b)[i] = EndsOf(b[k])[j]
<1> DEFINE c == CurrentPath(b)
<1>1. /\ DOMAIN c = 1 .. 2 * Len(b)
      /\ \A i \in 1 .. 2 * Len(b) : c[i] = EndsOf(b[(i + 1) \div 2])[2 - (i % 2)]
      BY DEF CurrentPath
<1> HIDE DEF c
<1>2. ASSUME NEW i \in 1 .. 2 * Len(b)
      PROVE  \E k \in DOMAIN b : c[i] \in { EndsOf(b[k])[1], EndsOf(b[k])[2] }
  <2>1. PICK k \in DOMAIN b, j \in { 1, 2 } : k = (i + 1) \div 2 /\ j = 2 - (i % 2)
        BY Halves
  <2>2. c[i] = EndsOf(b[k])[j]
        BY <1>1, <2>1
  <2> QED
      BY <2>2
<1>3. ASSUME NEW k \in DOMAIN b, NEW j \in { 1, 2 }
      PROVE  \E i \in 1 .. 2 * Len(b) : c[i] = EndsOf(b[k])[j]
  <2>1. CASE j = 1
    <3>1. PICK i \in 1 .. 2 * Len(b) : (i + 1) \div 2 = k /\ 2 - (i % 2) = 1
          BY Halves
    <3> QED
        BY <1>1, <2>1, <3>1
  <2>2. CASE j = 2
    <3>1. PICK i \in 1 .. 2 * Len(b) : (i + 1) \div 2 = k /\ 2 - (i % 2) = 2
          BY Halves
    <3> QED
        BY <1>1, <2>2, <3>1
  <2> QED
      BY <2>1, <2>2
<1> QED
    BY <1>1, <1>2, <1>3 DEF c

\* Of a connection on a VLAN, GET shows the ends that are asked for.
LEMMA EndpointsShown ==
    ASSUME NEW s \in Service, NEW v
    PROVE  Endpoints(Request[s], Breakdown(s, v)) =
               { [ port |-> p, vlan |-> v ] : p \in PortsOf(s) \cap RequestPorts(Request[s]) }
<1> DEFINE b == Breakdown(s, v)
           G == Segments[s]
           e(p) == [ port |-> p, vlan |-> v ]
<1>1. Len(G) \in Nat /\ DOMAIN G = 1 .. Len(G)
      BY RestartAssumption
<1>2. /\ DOMAIN b = DOMAIN G
      /\ \A i \in DOMAIN G : b[i].a = G[i].a /\ b[i].z = G[i].z /\ b[i].vlan = v
      BY DEF Breakdown
<1>3. Len(b) \in Nat /\ DOMAIN b = 1 .. Len(b)
  <2> DEFINE T == { b[i] : i \in DOMAIN b }
  <2>1. b \in [ 1 .. Len(G) -> T ]
        BY <1>1 DEF Breakdown
  <2>2. b \in Seq(T)
    <3> HIDE DEF b, T
    <3> QED
        BY <1>1, <2>1
  <2> HIDE DEF b, T
  <2> QED
      BY <2>2
<1>4. \A i \in DOMAIN G : EndsOf(b[i])[1] = e(G[i].a) /\ EndsOf(b[i])[2] = e(G[i].z)
      BY <1>2 DEF EndsOf
<1>5. PortsOf(s) = UNION { { G[i].a, G[i].z } : i \in DOMAIN G }
      BY DEF PortsOf
<1>a. \A p \in PortsOf(s) : e(p).port = p
      OBVIOUS
<1> HIDE DEF b, G, e
<1> DEFINE c == CurrentPath(b)
           P == { c[i] : i \in DOMAIN c }
<1>6. ASSUME NEW x \in P PROVE \E p \in PortsOf(s) : x = e(p)
  <2>1. PICK i \in 1 .. 2 * Len(b) : x = c[i]
        BY <1>3, CurrentPathEnds
  <2>2. PICK k \in DOMAIN b : c[i] \in { EndsOf(b[k])[1], EndsOf(b[k])[2] }
        BY <1>3, CurrentPathEnds
  <2>3. /\ G[k].a \in PortsOf(s) /\ G[k].z \in PortsOf(s)
        /\ x = e(G[k].a) \/ x = e(G[k].z)
        BY <1>2, <1>4, <1>5, <2>1, <2>2
  <2> QED
      BY <2>3
<1>7. ASSUME NEW p \in PortsOf(s) PROVE e(p) \in P
  <2>1. PICK k \in DOMAIN b : p = G[k].a \/ p = G[k].z
        BY <1>2, <1>5
  <2>2. PICK j \in { 1, 2 } : e(p) = EndsOf(b[k])[j]
    <3>1. EndsOf(b[k])[1] = e(G[k].a) /\ EndsOf(b[k])[2] = e(G[k].z)
          BY <1>2, <1>4
    <3> QED
        BY <2>1, <3>1
  <2>a. PICK i \in 1 .. 2 * Len(b) : c[i] = EndsOf(b[k])[j]
        BY <1>3, CurrentPathEnds
  <2>3. c[i] = e(p)
        BY <2>2, <2>a
  <2> QED
      BY <1>3, <2>3, CurrentPathEnds
<1>8. Endpoints(Request[s], b) = { x \in P : x.port \in RequestPorts(Request[s]) }
      BY DEF Endpoints
<1> HIDE DEF P
<1>9. Endpoints(Request[s], b) = { e(p) : p \in PortsOf(s) \cap RequestPorts(Request[s]) }
      BY <1>a, <1>6, <1>7, <1>8
<1> QED
    BY <1>9 DEF b, e

LEMMA ShownUp ==
    ASSUME TypeOK, Documented, HeldOnce, NEW s \in Service, status[s] = "UP",
           Request[s].form = "2.0.0"
    PROVE  LET shown == View(status[s], Request[s], breakdown[s]).endpoints IN
           /\ { x.port : x \in shown } = { Request[s].a, Request[s].z }
           /\ \A x \in shown : table[x.port][x.vlan] = s \/ lc.pc # "serve"
                                  \/ ~ Unhurt({"overtaken", "stale"})
<1> DEFINE v == VlanOf(s)
           shown == View(status[s], Request[s], breakdown[s]).endpoints
           R == { Request[s].a, Request[s].z }
<1>1. breakdown[s] # << >> /\ breakdown[s] = Breakdown(s, v)
  <2>1. breakdown[s] # << >>
        BY DEF Documented
  <2>2. PICK w \in Vlan : breakdown[s] = Breakdown(s, w)
        BY <2>1 DEF TypeOK
  <2> QED
      BY <2>1, <2>2, PathIsNotEmpty DEF VlanOf
<1>2. shown = Endpoints(Request[s], breakdown[s])
      BY <1>1 DEF View
<1>3. RequestPorts(Request[s]) = R /\ R \subseteq PortsOf(s)
      BY PathAssumption DEF RequestPorts
<1> HIDE DEF v, R, shown
<1>4. shown = { [ port |-> p, vlan |-> v ] : p \in R }
  <2>1. PortsOf(s) \cap RequestPorts(Request[s]) = R
        BY <1>3
  <2> QED
      BY <1>1, <1>2, <2>1, EndpointsShown
<1>5. { x.port : x \in shown } = R
  <2>1. ASSUME NEW x \in shown PROVE x.port \in R
        BY <1>4
  <2>2. ASSUME NEW p \in R PROVE \E x \in shown : x.port = p
    <3>1. /\ [ port |-> p, vlan |-> v ] \in shown
          /\ [ port |-> p, vlan |-> v ].port = p
          BY <1>4
    <3> QED
        BY <3>1
  <2> QED
      BY <2>1, <2>2
<1>6. ASSUME lc.pc = "serve", Unhurt({"overtaken", "stale"}), NEW x \in shown
      PROVE  table[x.port][x.vlan] = s
  <2>1. Holds(s)
        BY <1>6 DEF HeldOnce, TagsOf
  <2>2. x.port \in PortsOf(s) /\ x.vlan = v
        BY <1>3, <1>4
  <2> QED
      BY <2>1, <2>2 DEF Holds, v
<1> QED
    BY <1>5, <1>6 DEF R, shown

\* Of a connection that is up GET shows exactly the two ports that were asked
\* for, whatever the path between them, and on each the VLAN that the TE
\* manager holds for the connection.
THEOREM BothEndsShownCorrect == Spec => []BothEndsShown
<1>1. TypeOK /\ Documented /\ HeldOnce => BothEndsShown
      BY ShownUp DEF BothEndsShown
<1> QED
    BY <1>1, HeldInvariant, PTL
=============================================================================
