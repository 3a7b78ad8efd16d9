----------------------------- MODULE PatchProofs ----------------------------
(***************************************************************************)
(* Proofs about Patch: type correctness; that a PATCH never loses the      *)
(* connection, whoever else places it meanwhile; from the invariant of     *)
(* PatchInv, that it never mixes the EVCs of two requests; that a PATCH    *)
(* answered "up" is; and that PATCH implements PatchTransaction.           *)
(***************************************************************************)
EXTENDS PatchInv, FiniteSetTheorems, SequenceTheorems, TLAPS

(***************************************************************************)
(* Documents, threads and orders.                                          *)
(***************************************************************************)
LEMMA StatusNames ==
    { "REQUESTED", "REJECTED", "UNDER_PROVISIONING", "UP", "DOWN", "ERROR",
      "RECOVERING", "MODIFYING" } \subseteq Status
BY DEF Status

LEMMA ConnShape ==
    ASSUME NEW c \in Conn
    PROVE  /\ c.status \in Status /\ c.req \in Request /\ c.count \in Nat
           /\ c.resp \in SUBSET Segment /\ c.evc \in [ Segment -> Id ]
           /\ c.partial \in BOOLEAN /\ c.late \in SUBSET Segment /\ c.onFail \in BOOLEAN
           /\ c.inProgress \in BOOLEAN /\ c.performed \in BOOLEAN /\ c.back \in Request
BY DEF Conn

LEMMA NoIdsType == NoIds \in [ Segment -> Id ] /\ 0 \in Request
BY PatchAssumption DEF NoIds, Id, Request

LEMMA RestoredType ==
    ASSUME NEW r \in Request
    PROVE  Restored(r) \in Conn /\ Restored(r).status = "REQUESTED"
BY NoIdsType, StatusNames DEF Restored, Conn

LEMMA BlankType == Blank \in Conn /\ Blank.status = "REQUESTED"
BY NoIdsType, StatusNames DEF Blank, Conn

LEMMA IdleType == Idle \in ThreadState /\ Idle.pc = "idle" /\ Idle.job = "none"
                  /\ Idle.doc.status = "REQUESTED" /\ Idle.doc \in Conn
BY BlankType DEF Idle, ThreadState, Id

\* A document with a field written is a document.
LEMMA ConnFields ==
    ASSUME NEW c \in Conn
    PROVE  /\ \A st \in Status : [ c EXCEPT !.status = st ] \in Conn
           /\ [ c EXCEPT !.count = c.count + 1 ] \in Conn
           /\ [ c EXCEPT !.partial = TRUE ] \in Conn
           /\ [ c EXCEPT !.inProgress = TRUE ] \in Conn
           /\ \A F \in [ Segment -> Id ] : [ c EXCEPT !.evc = F ] \in Conn
           /\ \A G \in SUBSET Segment : [ c EXCEPT !.late = c.late \cup G ] \in Conn
<1>1. \A st \in Status : [ c EXCEPT !.status = st ] \in Conn
      BY DEF Conn
<1>2. [ c EXCEPT !.count = c.count + 1 ] \in Conn
      BY DEF Conn
<1>3. [ c EXCEPT !.partial = TRUE ] \in Conn /\ [ c EXCEPT !.inProgress = TRUE ] \in Conn
      BY DEF Conn
<1>4. \A F \in [ Segment -> Id ] : [ c EXCEPT !.evc = F ] \in Conn
      BY DEF Conn
<1>5. \A G \in SUBSET Segment : [ c EXCEPT !.late = c.late \cup G ] \in Conn
      BY DEF Conn
<1> QED
    BY <1>1, <1>2, <1>3, <1>4, <1>5

\* What the status of such a document is.
LEMMA StatusWritten ==
    ASSUME NEW c \in Conn
    PROVE  /\ \A st : [ c EXCEPT !.status = st ].status = st
           /\ [ c EXCEPT !.partial = TRUE ].status = c.status
           /\ [ c EXCEPT !.count = c.count + 1 ].status = c.status
BY DEF Conn

LEMMA RecordedType ==
    ASSUME NEW c \in Conn, NEW m \in Answer
    PROVE  Recorded(c, m) \in Conn /\ Recorded(c, m).status = c.status
<1>1. m.seg \in Segment /\ m.id \in Id /\ 0 \in Id /\ c.evc[m.seg] \in Id
      BY ConnShape DEF Answer, Id
<1> QED
    BY <1>1 DEF Recorded, Conn

LEMMA PatchedType ==
    ASSUME TypeOK, NEW c \in Conn
    PROVE  Patched(c) \in Conn /\ Patched(c).status = "REQUESTED"
BY NoIdsType, StatusNames DEF Patched, Conn, TypeOK

LEMMA AgainType ==
    ASSUME NEW c \in Conn
    PROVE  Again(c) \in Conn /\ Again(c).status = "RECOVERING"
BY NoIdsType, StatusNames DEF Again, Conn

LEMMA SavedType ==
    ASSUME NEW c \in Conn, conn \in Conn
    PROVE  Saved(c) \in Conn /\ Saved(c).status = c.status
BY DEF Saved, Conn

LEMMA PublishType ==
    ASSUME TypeOK, NEW op \in { "post", "delete" }, NEW B \in SUBSET Segment,
           NEW F \in [ Segment -> Id ]
    PROVE  Publish(op, B, F) \in [ Segment -> Seq(Order) ]
<1> SUFFICES ASSUME NEW g \in Segment
             PROVE  (IF g \in B THEN Append(toLC[g], [ op |-> op, id |-> F[g] ])
                     ELSE toLC[g]) \in Seq(Order)
    BY DEF Publish
<1>1. [ op |-> op, id |-> F[g] ] \in Order
      BY DEF Order
<1>2. toLC[g] \in Seq(Order)
      BY DEF TypeOK
<1> QED
    BY <1>1, <1>2

LEMMA DeletesType ==
    ASSUME TypeOK, NEW B \in SUBSET Segment, NEW c \in Conn
    PROVE  /\ Deletes(B, c) \in [ Segment -> Seq(Order) ]
           /\ SomeDeletes(B, c) => toLC' \in [ Segment -> Seq(Order) ]
<1>1. Deletable(B, c) \in SUBSET Segment /\ c.evc \in [ Segment -> Id ]
      BY ConnShape DEF Deletable
<1>2. Deletes(B, c) \in [ Segment -> Seq(Order) ]
      BY <1>1, PublishType DEF Deletes
<1>3. ASSUME NEW D \in SUBSET Deletable(B, c), toLC' = Publish("delete", D, c.evc)
      PROVE  toLC' \in [ Segment -> Seq(Order) ]
  <2>1. D \in SUBSET Segment
        BY <1>1
  <2> QED
      BY <1>1, <1>3, <2>1, PublishType
<1> QED
    BY <1>2, <1>3 DEF SomeDeletes

LEMMA ThreadShape ==
    ASSUME TypeOK, NEW t \in Thread
    PROVE  /\ th[t] \in ThreadState
           /\ th[t].doc \in Conn /\ th[t].brk \in SUBSET Segment
           /\ th[t].seg \in SUBSET Segment /\ th[t].id \in Id
BY DEF TypeOK, ThreadState

Pc == { "idle", "modify", "remove", "send", "drop", "reset", "plan", "mark",
        "publish", "wait", "reject", "giveUp", "cleanup", "late", "save", "begin" }

\* A thread with one field written is a thread, ...
LEMMA ThreadField ==
    ASSUME NEW x \in ThreadState
    PROVE  /\ \A pc \in Pc : [ x EXCEPT !.pc = pc ] \in ThreadState
           /\ \A j \in { "none", "new", "old", "again" } : [ x EXCEPT !.job = j ] \in ThreadState
           /\ \A c \in Conn : [ x EXCEPT !.doc = c ] \in ThreadState
           /\ \A B \in SUBSET Segment : [ x EXCEPT !.brk = B ] \in ThreadState
           /\ \A G \in SUBSET Segment : [ x EXCEPT !.seg = G ] \in ThreadState
           /\ \A n \in Id : [ x EXCEPT !.id = n ] \in ThreadState
<1>1. ASSUME NEW pc \in Pc PROVE [ x EXCEPT !.pc = pc ] \in ThreadState
      BY DEF ThreadState, Pc
<1>2. ASSUME NEW j \in { "none", "new", "old", "again" } PROVE [ x EXCEPT !.job = j ] \in ThreadState
      BY DEF ThreadState
<1>3. ASSUME NEW c \in Conn PROVE [ x EXCEPT !.doc = c ] \in ThreadState
      BY DEF ThreadState
<1>4. ASSUME NEW B \in SUBSET Segment PROVE [ x EXCEPT !.brk = B ] \in ThreadState
      BY DEF ThreadState
<1>5. ASSUME NEW G \in SUBSET Segment PROVE [ x EXCEPT !.seg = G ] \in ThreadState
      BY DEF ThreadState
<1>6. ASSUME NEW n \in Id PROVE [ x EXCEPT !.id = n ] \in ThreadState
      BY DEF ThreadState
<1> QED
    BY <1>1, <1>2, <1>3, <1>4, <1>5, <1>6

\* ... and so is one with several: they are written one after the other.
LEMMA ThreadFields ==
    ASSUME NEW x \in ThreadState
    PROVE  /\ \A pc \in Pc : [ x EXCEPT !.pc = pc ] \in ThreadState
           /\ \A pc \in Pc, j \in { "none", "new", "old", "again" } : [ x EXCEPT !.pc = pc, !.job = j ] \in ThreadState
           /\ \A pc \in Pc, c \in Conn : [ x EXCEPT !.pc = pc, !.doc = c ] \in ThreadState
           /\ \A pc \in Pc, j \in { "none", "new", "old", "again" }, c \in Conn :
                  [ x EXCEPT !.pc = pc, !.job = j, !.doc = c ] \in ThreadState
           /\ \A pc \in Pc, c \in Conn, B, G \in SUBSET Segment :
                  [ x EXCEPT !.pc = pc, !.doc = c, !.brk = B, !.seg = G ] \in ThreadState
           /\ \A pc \in Pc, B \in SUBSET Segment, n \in Id :
                  [ x EXCEPT !.pc = pc, !.brk = B, !.id = n ] \in ThreadState
<1>1. \A pc \in Pc : [ x EXCEPT !.pc = pc ] \in ThreadState
      BY ThreadField
<1>2. ASSUME NEW pc \in Pc, NEW j \in { "none", "new", "old", "again" }
      PROVE  [ x EXCEPT !.pc = pc, !.job = j ] \in ThreadState
  <2> DEFINE y == [ x EXCEPT !.pc = pc ]
  <2>1. y \in ThreadState
        BY <1>1
  <2>2. [ y EXCEPT !.job = j ] \in ThreadState
        BY <2>1, ThreadField
  <2> QED
      BY <2>2
<1>3. ASSUME NEW pc \in Pc, NEW c \in Conn
      PROVE  [ x EXCEPT !.pc = pc, !.doc = c ] \in ThreadState
  <2> DEFINE y == [ x EXCEPT !.pc = pc ]
  <2>1. y \in ThreadState
        BY <1>1
  <2>2. [ y EXCEPT !.doc = c ] \in ThreadState
        BY <2>1, ThreadField
  <2> QED
      BY <2>2
<1>4. ASSUME NEW pc \in Pc, NEW j \in { "none", "new", "old", "again" }, NEW c \in Conn
      PROVE  [ x EXCEPT !.pc = pc, !.job = j, !.doc = c ] \in ThreadState
  <2> DEFINE y == [ x EXCEPT !.pc = pc, !.job = j ]
  <2>1. y \in ThreadState
        BY <1>2
  <2>2. [ y EXCEPT !.doc = c ] \in ThreadState
        BY <2>1, ThreadField
  <2> QED
      BY <2>2
<1>5. ASSUME NEW pc \in Pc, NEW c \in Conn, NEW B \in SUBSET Segment,
             NEW G \in SUBSET Segment
      PROVE  [ x EXCEPT !.pc = pc, !.doc = c, !.brk = B, !.seg = G ] \in ThreadState
  <2> DEFINE y == [ x EXCEPT !.pc = pc, !.doc = c ]
             z == [ y EXCEPT !.brk = B ]
  <2>1. y \in ThreadState
        BY <1>3
  <2>2. z \in ThreadState
        BY <2>1, ThreadField
  <2>3. [ z EXCEPT !.seg = G ] \in ThreadState
        BY <2>2, ThreadField
  <2> QED
      BY <2>3
<1>6. ASSUME NEW pc \in Pc, NEW B \in SUBSET Segment, NEW n \in Id
      PROVE  [ x EXCEPT !.pc = pc, !.brk = B, !.id = n ] \in ThreadState
  <2> DEFINE y == [ x EXCEPT !.pc = pc ]
             z == [ y EXCEPT !.brk = B ]
  <2>1. y \in ThreadState
        BY <1>1
  <2>2. z \in ThreadState
        BY <2>1, ThreadField
  <2>3. [ z EXCEPT !.id = n ] \in ThreadState
        BY <2>2, ThreadField
  <2> QED
      BY <2>3
<1> QED
    BY <1>1, <1>2, <1>3, <1>4, <1>5, <1>6

\* One thread moves to y.
Moves(t, y) == y \in ThreadState /\ th' = [ th EXCEPT ![t] = y ]

LEMMA MovesType ==
    ASSUME TypeOK, NEW t \in Thread, NEW y, Moves(t, y)
    PROVE  th' \in [ Thread -> ThreadState ]
BY DEF TypeOK, Moves

LEMMA GotoMoves ==
    ASSUME TypeOK, NEW t \in Thread, NEW pc \in Pc, Goto(t, pc)
    PROVE  Moves(t, [ th[t] EXCEPT !.pc = pc ]) /\ th' \in [ Thread -> ThreadState ]
<1>1. Moves(t, [ th[t] EXCEPT !.pc = pc ])
      BY ThreadShape, ThreadFields DEF Goto, Moves
<1> QED
    BY <1>1, MovesType

(***************************************************************************)
(* Types, one lemma for each group of steps.                               *)
(***************************************************************************)
LEMMA InitConn ==
    ASSUME Init
    PROVE  conn \in Conn
<1>1. Plan[0] \in SUBSET Segment
      BY PatchAssumption, NoIdsType
<1>2. Cardinality(Plan[0]) \in Nat
      BY <1>1, PatchAssumption, FS_Subset, FS_CardinalityType
<1> QED
    BY <1>1, <1>2, BlankType, StatusNames DEF Init, Conn, Id

LEMMA InitType ==
    ASSUME Init
    PROVE  TypeOK
<1>1. Plan[0] \in SUBSET Segment /\ 0 \in Request
      BY PatchAssumption, NoIdsType
<1>4. << >> \in Seq(Order) /\ << >> \in Seq(Answer) /\ << 0 >> \in Seq(Request) /\ Len(<< 0 >>) = 1
      BY <1>1
<1>5. request \in Seq(Request) /\ Len(request) = attempt
      BY <1>4 DEF Init
<1>6. evcs \in SUBSET (Segment \X Id)
      BY <1>1 DEF Init, Id
<1> QED
    BY <1>1, <1>4, <1>5, <1>6, IdleType, InitConn DEF Init, TypeOK

LEMMA UpdateType ==
    ASSUME TypeOK
    PROVE  /\ \A c \in Conn : DbUpdate(c) => conn' \in Conn \cup {NoConn}
           /\ \A st \in Status : DbSetStatus(st) => conn' \in Conn \cup {NoConn}
<1>1. \A c \in Conn : DbUpdate(c) => conn' \in Conn \cup {NoConn}
      BY DEF DbUpdate, TypeOK
<1>2. ASSUME NEW st \in Status, DbSetStatus(st)
      PROVE  conn' \in Conn \cup {NoConn}
  <2>1. CASE Present
    <3>1. conn \in Conn /\ conn' = [ conn EXCEPT !.status = st ]
          BY <1>2, <2>1 DEF Present, TypeOK, DbSetStatus, DbUpdate
    <3> QED
        BY <3>1, ConnFields
  <2>2. CASE ~ Present
        BY <1>2, <2>2 DEF TypeOK, DbSetStatus, DbUpdate
  <2> QED
      BY <2>1, <2>2
<1> QED
    BY <1>1, <1>2

LEMMA RemoveType ==
    ASSUME TypeOK, NEW t \in Thread,
           RemoveRead(t) \/ RemoveSend(t) \/ RemoveBroken(t) \/ RemoveDrop(t)
    PROVE  TypeOK'
<1> USE DEF wires, counters
<1>1. CASE RemoveRead(t)
  <2> DEFINE d == [ th[t].doc EXCEPT !.evc = conn.evc ]
             y == [ th[t] EXCEPT !.pc = "send", !.doc = d, !.brk = breakdown, !.seg = th[t].seg ]
  <2>1. conn \in Conn /\ breakdown \in SUBSET Segment
        BY <1>1 DEF RemoveRead, Present, TypeOK
  <2>2. d \in Conn
        BY <2>1, ThreadShape, ConnShape, ConnFields
  <2>3. y \in ThreadState
        BY <2>1, <2>2, ThreadShape, ThreadFields DEF Pc
  <2>4. th' = [ th EXCEPT ![t] = y ]
    <3>1. [ th[t] EXCEPT !.pc = "send", !.brk = breakdown, !.doc.evc = conn.evc ] = y
          BY ThreadShape DEF ThreadState
    <3>2. th' = [ th EXCEPT ![t] =
                    [ th[t] EXCEPT !.pc = "send", !.brk = breakdown, !.doc.evc = conn.evc ] ]
          BY <1>1 DEF RemoveRead
    <3> QED
        BY <3>1, <3>2
  <2>5. th' \in [ Thread -> ThreadState ]
        BY <2>3, <2>4, MovesType DEF Moves
  <2> QED
      BY <1>1, <2>5 DEF RemoveRead, TypeOK
<1>2. CASE RemoveSend(t)
  <2>1. toLC' \in [ Segment -> Seq(Order) ]
        BY <1>2, ThreadShape, DeletesType DEF RemoveSend
  <2>2. th' \in [ Thread -> ThreadState ]
        BY <1>2, GotoMoves DEF RemoveSend, Pc
  <2> QED
      BY <1>2, <2>1, <2>2 DEF RemoveSend, TypeOK
<1>3. CASE RemoveBroken(t)
  <2>1. toLC' \in [ Segment -> Seq(Order) ]
        BY <1>3, ThreadShape, DeletesType DEF RemoveBroken
  <2>2. conn' \in Conn \cup {NoConn}
        BY <1>3, StatusNames, UpdateType DEF RemoveBroken, TypeOK
  <2>3. th' \in [ Thread -> ThreadState ]
        BY <1>3, IdleType, MovesType DEF RemoveBroken, Moves
  <2>4. reply' \in { "none", "up", "provisioning", "undone", "failed" }
        /\ hurt' \subseteq { "publish", "stuck", "hasty", "expired", "raced", "lost", "forgotten" }
        BY <1>3 DEF RemoveBroken, TypeOK
  <2> QED
      BY <1>3, <2>1, <2>2, <2>3, <2>4 DEF RemoveBroken, TypeOK
<1>4. CASE RemoveDrop(t)
  <2>1. th' \in [ Thread -> ThreadState ]
        BY <1>4, GotoMoves DEF RemoveDrop, Pc
  <2> QED
      BY <1>4, <2>1 DEF RemoveDrop, TypeOK
<1> QED
    BY <1>1, <1>2, <1>3, <1>4

LEMMA AfterFailureType ==
    ASSUME TypeOK, NEW t \in Thread
    PROVE  AfterFailure(t) \in ThreadState
<1>1. /\ [ th[t] EXCEPT !.pc = "reset", !.job = "old" ] \in ThreadState
      /\ [ th[t] EXCEPT !.pc = "reject" ] \in ThreadState
      /\ [ th[t] EXCEPT !.pc = "giveUp" ] \in ThreadState
      BY ThreadShape, ThreadFields DEF Pc
<1> QED
    BY <1>1, IdleType DEF AfterFailure

LEMMA CreatesType ==
    ASSUME TypeOK, NEW t \in Thread, NEW B \in SUBSET Segment
    PROVE  Creates(t, B) \in [ Segment -> Seq(Order) ]
<1>1. [ g \in Segment |-> th[t].id ] \in [ Segment -> Id ]
      BY ThreadShape
<1> QED
    BY <1>1, PublishType DEF Creates

LEMMA PlaceType ==
    ASSUME TypeOK, NEW t \in Thread,
           PlaceFails(t) \/ PlacePlan(t) \/ PlaceMark(t) \/ PlacePublish(t) \/ PlaceBroken(t)
    PROVE  TypeOK'
<1> USE DEF wires, counters
<1>1. CASE PlaceFails(t)
  <2>1. th' \in [ Thread -> ThreadState ]
        BY <1>1, AfterFailureType, MovesType DEF PlaceFails, Moves
  <2> QED
      BY <1>1, <2>1 DEF PlaceFails, TypeOK
<1>2. CASE PlacePlan(t)
  <2> DEFINE r == th[t].doc.req
             y == [ th[t] EXCEPT !.pc = "mark", !.brk = Plan[r], !.id = attempt + 1 ]
  <2>1. r \in Request /\ Plan[r] \in SUBSET Segment
        BY ThreadShape, ConnShape, PatchAssumption
  <2>2. attempt + 1 \in Id /\ attempt' = attempt + 1
        BY <1>2 DEF PlacePlan, TypeOK, Id
  <2>3. y \in ThreadState
        BY <2>1, <2>2, ThreadShape, ThreadFields DEF Pc
  <2>4. th' = [ th EXCEPT ![t] = y ]
        BY <1>2, <2>2 DEF PlacePlan
  <2>5. th' \in [ Thread -> ThreadState ]
        BY <2>3, <2>4, MovesType DEF Moves
  <2>6. request' \in Seq(Request) /\ Len(request') = attempt'
    <3>1. request \in Seq(Request) /\ Len(request) = attempt
          BY DEF TypeOK
    <3>2. request' = Append(request, r)
          BY <1>2 DEF PlacePlan
    <3> QED
        BY <2>1, <2>2, <3>1, <3>2, AppendProperties
  <2> QED
      BY <1>2, <2>1, <2>2, <2>5, <2>6 DEF PlacePlan, TypeOK, Id
<1>3. CASE PlaceMark(t)
  <2> DEFINE d == [ th[t].doc EXCEPT !.status = "UNDER_PROVISIONING" ]
             y == [ th[t] EXCEPT !.pc = "publish", !.doc = d ]
  <2>1. d \in Conn
        BY ThreadShape, ConnFields, StatusNames
  <2>2. y \in ThreadState
        BY <2>1, ThreadShape, ThreadFields DEF Pc
  <2>3. th' = [ th EXCEPT ![t] = y ]
    <3>1. [ th[t] EXCEPT !.pc = "publish", !.doc.status = "UNDER_PROVISIONING" ] = y
          BY ThreadShape DEF ThreadState
    <3>2. th' = [ th EXCEPT ![t] =
                    [ th[t] EXCEPT !.pc = "publish", !.doc.status = "UNDER_PROVISIONING" ] ]
          BY <1>3 DEF PlaceMark
    <3> QED
        BY <3>1, <3>2
  <2>4. th' \in [ Thread -> ThreadState ]
        BY <2>2, <2>3, MovesType DEF Moves
  <2>5. conn' \in Conn \cup {NoConn}
        BY <1>3, StatusNames, UpdateType DEF PlaceMark
  <2> QED
      BY <1>3, <2>4, <2>5 DEF PlaceMark, TypeOK
<1>4. CASE PlacePublish(t)
  <2>1. toLC' \in [ Segment -> Seq(Order) ]
        BY <1>4, ThreadShape, CreatesType DEF PlacePublish
  <2>2. [ th[t] EXCEPT !.pc = "wait" ] \in ThreadState
        BY ThreadShape, ThreadFields DEF Pc
  <2>3. th' \in [ Thread -> ThreadState ]
    <3>1. th' = [ th EXCEPT ![t] = IF t = "http" THEN [ th[t] EXCEPT !.pc = "wait" ] ELSE Idle ]
          BY <1>4 DEF PlacePublish
    <3> QED
        BY <2>2, <3>1, IdleType, MovesType DEF Moves
  <2> QED
      BY <1>4, <2>1, <2>3 DEF PlacePublish, TypeOK
<1>5. CASE PlaceBroken(t)
  <2>1. PICK D \in SUBSET th[t].brk : toLC' = Creates(t, D)
        BY <1>5 DEF PlaceBroken
  <2>2. D \in SUBSET Segment
        BY <2>1, ThreadShape
  <2>3. toLC' \in [ Segment -> Seq(Order) ]
        BY <2>1, <2>2, CreatesType
  <2>4. th' \in [ Thread -> ThreadState ]
        BY <1>5, AfterFailureType, MovesType DEF PlaceBroken, Moves
  <2> QED
      BY <1>5, <2>3, <2>4 DEF PlaceBroken, TypeOK
<1> QED
    BY <1>1, <1>2, <1>3, <1>4, <1>5

LEMMA HttpType ==
    ASSUME TypeOK,
           \/ PatchRead \/ PatchModify \/ PatchReset \/ PatchWait \/ PatchExpires
           \/ PatchUndo \/ PatchWaitOld \/ PatchReject
    PROVE  TypeOK'
<1> USE DEF wires, counters
<1>0. "http" \in Thread
      BY DEF Thread
<1>1. ASSUME NEW r, Answered(r)
      PROVE  th' \in [ Thread -> ThreadState ] /\ reply' = r
      BY <1>0, <1>1, IdleType, MovesType DEF Answered, Moves
<1>2. [ th["http"] EXCEPT !.pc = "reset", !.job = "old" ] \in ThreadState
      BY <1>0, ThreadShape, ThreadFields DEF Pc
<1>3. th' = [ th EXCEPT !["http"].pc = "reset", !["http"].job = "old" ] =>
          th' \in [ Thread -> ThreadState ]
  <2>1. [ th EXCEPT !["http"].pc = "reset", !["http"].job = "old" ]
            = [ th EXCEPT !["http"] = [ th["http"] EXCEPT !.pc = "reset", !.job = "old" ] ]
        BY <1>0 DEF TypeOK
  <2> QED
      BY <1>0, <1>2, <2>1, MovesType DEF Moves
<1>4. ASSUME NEW c \in Conn, DbAdd(c),
             th' = [ th EXCEPT !["http"].pc = "plan", !["http"].doc = c ]
      PROVE  th' \in [ Thread -> ThreadState ] /\ conn' \in Conn \cup {NoConn}
  <2>1. [ th["http"] EXCEPT !.pc = "plan", !.doc = c ] \in ThreadState
        BY <1>0, ThreadShape, ThreadFields DEF Pc
  <2>2. th' = [ th EXCEPT !["http"] = [ th["http"] EXCEPT !.pc = "plan", !.doc = c ] ]
        BY <1>0, <1>4 DEF TypeOK
  <2>3. th' \in [ Thread -> ThreadState ]
        BY <1>0, <2>1, <2>2, MovesType DEF Moves
  <2> QED
      BY <1>4, <2>3 DEF DbAdd, TypeOK
<1>5. CASE PatchRead
  <2>1. conn \in Conn /\ patches' \in Request
        BY <1>5, PatchAssumption DEF PatchRead, Present, TypeOK, Request
  <2>2. [ Idle EXCEPT !.pc = "modify", !.job = "new", !.doc = conn ] \in ThreadState
        BY <2>1, IdleType, ThreadFields DEF Pc
  <2>3. th' \in [ Thread -> ThreadState ]
        BY <1>0, <1>5, <2>2, MovesType DEF PatchRead, Moves
  <2> QED
      BY <1>5, <2>1, <2>3 DEF PatchRead, TypeOK
<1>6. CASE PatchModify
  <2>1. th' \in [ Thread -> ThreadState ] /\ conn' \in Conn \cup {NoConn}
        BY <1>0, <1>6, GotoMoves, StatusNames, UpdateType DEF PatchModify, Pc
  <2> QED
      BY <1>6, <2>1 DEF PatchModify, TypeOK
<1>7. CASE PatchReset
  <2> DEFINE c == Patched(th["http"].doc)
  <2>1. c \in Conn
        BY <1>0, ThreadShape, PatchedType
  <2>2. th' = [ th EXCEPT !["http"].pc = "plan", !["http"].doc = c ]
    <3>1. "http" \in DOMAIN th /\ th["http"] \in ThreadState
          BY <1>0 DEF TypeOK
    <3>2. [ th["http"] EXCEPT !.pc = "plan", !.doc = Patched(@) ]
              = [ th["http"] EXCEPT !.pc = "plan", !.doc = c ]
          BY <3>1 DEF ThreadState
    <3> QED
        BY <1>7, <3>1, <3>2 DEF PatchReset
  <2>3. th' \in [ Thread -> ThreadState ] /\ conn' \in Conn \cup {NoConn}
        BY <1>4, <1>7, <2>1, <2>2 DEF PatchReset
  <2>4. hurt' \subseteq { "publish", "stuck", "hasty", "expired", "raced", "lost", "forgotten" }
        BY <1>7 DEF PatchReset, TypeOK
  <2> QED
      BY <1>7, <2>3, <2>4 DEF PatchReset, TypeOK
<1>8. CASE PatchWait
  <2>1. th' \in [ Thread -> ThreadState ]
        /\ reply' \in { "none", "up", "provisioning", "undone", "failed" }
    <3>1. CASE Present /\ conn.status = "UP"
          BY <1>1, <1>8, <3>1 DEF PatchWait
    <3>2. CASE ~ (Present /\ conn.status = "UP")
          BY <1>3, <1>8, <3>2 DEF PatchWait, TypeOK
    <3> QED
        BY <3>1, <3>2
  <2>2. hurt' \subseteq { "publish", "stuck", "hasty", "expired", "raced", "lost", "forgotten" }
        BY <1>8 DEF PatchWait, TypeOK
  <2> QED
      BY <1>8, <2>1, <2>2 DEF PatchWait, TypeOK
<1>9. CASE PatchExpires
  <2>1. th' \in [ Thread -> ThreadState ]
        /\ reply' \in { "none", "up", "provisioning", "undone", "failed" }
    <3>1. CASE conn.status = "UNDER_PROVISIONING"
          BY <1>1, <1>9, <3>1 DEF PatchExpires
    <3>2. CASE conn.status # "UNDER_PROVISIONING"
          BY <1>3, <1>9, <3>2 DEF PatchExpires, TypeOK
    <3> QED
        BY <3>1, <3>2
  <2>2. hurt' \subseteq { "publish", "stuck", "hasty", "expired", "raced", "lost", "forgotten" }
        BY <1>9 DEF PatchExpires, TypeOK
  <2> QED
      BY <1>9, <2>1, <2>2 DEF PatchExpires, TypeOK
<1>10. CASE PatchUndo
  <2>1. Restored(th["http"].doc.back) \in Conn
        BY <1>0, ThreadShape, ConnShape, RestoredType
  <2>2. th' \in [ Thread -> ThreadState ] /\ conn' \in Conn \cup {NoConn}
        BY <1>4, <1>10, <2>1 DEF PatchUndo
  <2> QED
      BY <1>10, <2>2 DEF PatchUndo, TypeOK
<1>11. CASE PatchWaitOld
  <2>1. PICK r \in { "undone", "failed" } : Answered(r)
        BY <1>11 DEF PatchWaitOld
  <2>2. th' \in [ Thread -> ThreadState ] /\ reply' = r
        BY <1>1, <2>1
  <2> QED
      BY <1>11, <2>2 DEF PatchWaitOld, TypeOK
<1>12. CASE PatchReject
  <2>1. th' \in [ Thread -> ThreadState ] /\ reply' = "failed"
        BY <1>1, <1>12 DEF PatchReject
  <2>2. conn' \in Conn \cup {NoConn}
        BY <1>12, StatusNames, UpdateType DEF PatchReject
  <2> QED
      BY <1>12, <2>1, <2>2 DEF PatchReject, TypeOK
<1> QED
    BY <1>5, <1>6, <1>7, <1>8, <1>9, <1>10, <1>11, <1>12

LEMMA HandleType ==
    ASSUME TypeOK, NEW pc \in Pc, NEW c \in Conn, NEW G \in SUBSET Segment, Handle(pc, c, G)
    PROVE  Moves("lc", [ Idle EXCEPT !.pc = pc, !.doc = c, !.brk = breakdown, !.seg = G ])
           /\ th' \in [ Thread -> ThreadState ]
<1>1. "lc" \in Thread /\ breakdown \in SUBSET Segment
      BY DEF Thread, TypeOK
<1>2. [ Idle EXCEPT !.pc = pc, !.doc = c, !.brk = breakdown, !.seg = G ] \in ThreadState
      BY <1>1, IdleType, ThreadFields
<1>3. Moves("lc", [ Idle EXCEPT !.pc = pc, !.doc = c, !.brk = breakdown, !.seg = G ])
      BY <1>2 DEF Handle, Moves
<1> QED
    BY <1>1, <1>3, MovesType

\* The LC thread takes up an answer, with a copy of the document that shows
\* the same status, UP or DOWN.
Takes ==
    /\ Present
    /\ \E pc \in { "save", "late", "cleanup" }, c \in Conn, G \in SUBSET Segment :
           /\ Handle(pc, c, G)
           /\ c.status \in { conn.status, "UP", "DOWN" }

LEMMA TakesIntro ==
    ASSUME Present, NEW pc \in { "save", "late", "cleanup" }, NEW c \in Conn, NEW G \in SUBSET Segment,
           Handle(pc, c, G), c.status \in { conn.status, "UP", "DOWN" }
    PROVE  Takes
BY DEF Takes

LEMMA ReceiveType ==
    ASSUME TypeOK, LcReceive
    PROVE  TypeOK' /\ (th' = th \/ Takes) /\ conn' = conn
<1>1. PICK m \in Answer : m = Head(inbox)
      BY DEF LcReceive, TypeOK
<1>2. Tail(inbox) \in Seq(Answer) /\ m.seg \in Segment /\ {m.seg} \in SUBSET Segment
      BY <1>1 DEF LcReceive, TypeOK, Answer
<1> DEFINE d == Recorded(conn, m)
<1>3. Known => d \in Conn /\ d.status = conn.status
      BY RecordedType DEF Known, Present, TypeOK
<1>4. {} \in SUBSET Segment
      OBVIOUS
<1>5. ASSUME LcCreated(m)
      PROVE  th' = th \/ Takes
  <2> DEFINE e == [ d EXCEPT !.count = d.count + 1 ]
             f == [ e EXCEPT !.status = "UP" ]
  <2>1. e \in Conn /\ e.status = conn.status
        BY <1>3, <1>5, ConnFields DEF LcCreated, Conn
  <2>2. f \in Conn /\ f.status = "UP" /\ Present
        BY <1>5, <2>1, ConnFields, StatusNames DEF Conn, LcCreated, Known
  <2>3. th' = th \/ Handle("save", e, {}) \/ Handle("save", f, {})
        BY <1>5 DEF LcCreated
  <2> HIDE DEF e, f
  <2>4. CASE Handle("save", e, {})
        BY <1>4, <2>1, <2>2, <2>4, TakesIntro
  <2>5. CASE Handle("save", f, {})
        BY <1>4, <2>2, <2>5, TakesIntro
  <2> QED
      BY <2>3, <2>4, <2>5
<1>6. ASSUME LcCreatedLate(m)
      PROVE  Takes
  <2>1. Handle("save", d, {m.seg}) \/ Handle("late", d, {m.seg})
        BY <1>6 DEF LcCreatedLate
  <2>2. d \in Conn /\ d.status = conn.status /\ Present
        BY <1>3, <1>6 DEF LcCreatedLate, Known
  <2> QED
      BY <1>2, <2>1, <2>2, TakesIntro
<1>7. ASSUME LcDeleted(m)
      PROVE  Takes
  <2>1. Handle("save", d, {}) /\ d \in Conn /\ d.status = conn.status /\ Present
        BY <1>3, <1>7 DEF LcDeleted, Known
  <2> HIDE DEF d
  <2> QED
      BY <1>4, <2>1, TakesIntro
<1>8. ASSUME LcFailed(m)
      PROVE  Takes
  <2> DEFINE st == IF d.status \in { "MODIFYING", "UNDER_PROVISIONING" } THEN "DOWN" ELSE d.status
             e == [ d EXCEPT !.status = st ]
             f == [ e EXCEPT !.partial = TRUE ]
  <2>a. d \in Conn /\ d.status = conn.status /\ Present
        BY <1>3, <1>8 DEF LcFailed, Known
  <2>b. st \in Status
        BY <2>a, ConnShape, StatusNames
  <2>1. d \in Conn /\ d.status = conn.status /\ st \in Status /\ Present
        BY <2>a, <2>b
  <2>2. e \in Conn /\ e.status \in { conn.status, "DOWN" }
    <3> HIDE DEF d, st
    <3>1. e \in Conn /\ e.status = st
          BY <2>1, ConnFields, StatusWritten
    <3>2. st \in { d.status, "DOWN" }
          BY DEF st
    <3> QED
        BY <2>1, <3>1, <3>2
  <2>3. f \in Conn /\ f.status = e.status
    <3> HIDE DEF e
    <3> QED
        BY <2>2, ConnFields, StatusWritten
  <2>4. Handle("cleanup", f, {}) \/ Handle("save", e, {})
    <3>1. IF m.op = "post" /\ ~ e.partial THEN Handle("cleanup", f, {})
          ELSE Handle("save", e, {})
          BY <1>8 DEF LcFailed
    <3> QED
        BY <3>1
  <2> HIDE DEF e, f
  <2>5. CASE Handle("cleanup", f, {})
        BY <1>4, <2>1, <2>2, <2>3, <2>5, TakesIntro
  <2>6. CASE Handle("save", e, {})
        BY <1>4, <2>1, <2>2, <2>6, TakesIntro
  <2> QED
      BY <2>4, <2>5, <2>6
<1>9. th' = th \/ Takes
      BY <1>1, <1>5, <1>6, <1>7, <1>8 DEF LcReceive, LcIgnore
<1>10. th' \in [ Thread -> ThreadState ]
  <2>1. CASE th' = th
        BY <2>1 DEF TypeOK
  <2>2. CASE Takes
        BY <2>2, HandleType DEF Takes, Pc
  <2> QED
      BY <1>9, <2>1, <2>2
<1> QED
    BY <1>2, <1>9, <1>10 DEF LcReceive, TypeOK, counters

(***************************************************************************)
(* The other steps of the LC thread, and the OXPs.                         *)
(***************************************************************************)
LEMMA LcType ==
    ASSUME TypeOK,
           \/ LcCleanup \/ LcLate \/ LcBroken \/ LcSave \/ LcBegin \/ LcUndo
           \/ LcAgain \/ LcGiveUp \/ LcLost
    PROVE  TypeOK'
<1> USE DEF wires, counters
<1>0. "lc" \in Thread /\ breakdown \in SUBSET Segment
      BY DEF Thread, TypeOK
<1> DEFINE x == th["lc"]
<1>1. x \in ThreadState /\ x.doc \in Conn /\ x.seg \in SUBSET Segment
      BY <1>0, ThreadShape
<1>2. ASSUME NEW c \in Conn, DbAdd(c),
             th' = [ th EXCEPT !["lc"].pc = "plan", !["lc"].doc = c ]
      PROVE  th' \in [ Thread -> ThreadState ] /\ conn' \in Conn \cup {NoConn}
  <2>1. [ x EXCEPT !.pc = "plan", !.doc = c ] \in ThreadState
        BY <1>1, ThreadFields DEF Pc
  <2>2. [ th EXCEPT !["lc"].pc = "plan", !["lc"].doc = c ]
            = [ th EXCEPT !["lc"] = [ x EXCEPT !.pc = "plan", !.doc = c ] ]
        BY <1>0 DEF TypeOK
  <2> QED
      BY <1>0, <1>2, <2>1, <2>2, MovesType DEF Moves, DbAdd
<1>3. CASE LcCleanup
  <2>1. toLC' \in [ Segment -> Seq(Order) ]
        BY <1>0, <1>1, <1>3, DeletesType DEF LcCleanup
  <2>2. th' \in [ Thread -> ThreadState ]
        BY <1>0, <1>3, GotoMoves DEF LcCleanup, Pc
  <2> QED
      BY <1>3, <2>1, <2>2 DEF LcCleanup, TypeOK
<1>4. CASE LcLate
  <2> DEFINE c == [ x.doc EXCEPT !.late = x.doc.late \cup x.seg ]
             y == [ x EXCEPT !.pc = "save", !.doc = c ]
  <2>1. x.seg \cap breakdown \in SUBSET Segment
        BY <1>0
  <2>2. toLC' \in [ Segment -> Seq(Order) ]
        BY <1>1, <1>4, <2>1, DeletesType DEF LcLate
  <2>3. c \in Conn
        BY <1>1, ConnFields
  <2>4. y \in ThreadState
        BY <1>1, <2>3, ThreadFields DEF Pc
  <2>5. th' = [ th EXCEPT !["lc"] = y ]
    <3>1. th' = [ th EXCEPT !["lc"] = [ x EXCEPT !.pc = "save", !.doc.late = x.doc.late \cup x.seg ] ]
          BY <1>0, <1>4 DEF LcLate, TypeOK
    <3>2. [ x EXCEPT !.pc = "save", !.doc.late = x.doc.late \cup x.seg ] = y
          BY <1>1 DEF ThreadState
    <3> QED
        BY <3>1, <3>2
  <2>6. th' \in [ Thread -> ThreadState ]
        BY <1>0, <2>4, <2>5, MovesType DEF Moves
  <2> QED
      BY <1>4, <2>2, <2>6 DEF LcLate, TypeOK
<1>5. CASE LcBroken
  <2>1. toLC' \in [ Segment -> Seq(Order) ] /\ reserved' \in BOOLEAN
        BY <1>0, <1>1, <1>5, DeletesType DEF LcBroken, TypeOK
  <2>2. th' \in [ Thread -> ThreadState ]
        BY <1>0, <1>5, IdleType, MovesType DEF LcBroken, Moves
  <2>3. hurt' \subseteq { "publish", "stuck", "hasty", "expired", "raced", "lost", "forgotten" }
        BY <1>5 DEF LcBroken, TypeOK
  <2> QED
      BY <1>5, <2>1, <2>2, <2>3 DEF LcBroken, TypeOK
<1>6. CASE LcSave
  <2>1. conn' \in Conn \cup {NoConn}
    <3>1. DbUpdate(Saved(x.doc))
          BY <1>6 DEF LcSave
    <3>2. CASE Present
      <4>1. conn \in Conn
            BY <3>2 DEF Present, TypeOK
      <4> QED
          BY <1>1, <3>1, <4>1, SavedType, UpdateType
    <3>3. CASE ~ Present
          BY <3>1, <3>3 DEF DbUpdate, TypeOK
    <3> QED
        BY <3>2, <3>3
  <2>2. th' \in [ Thread -> ThreadState ]
    <3>1. [ Idle EXCEPT !.pc = "begin", !.job = "old", !.doc = x.doc ] \in ThreadState
          BY <1>1, IdleType, ThreadFields DEF Pc
    <3>2. th' = [ th EXCEPT !["lc"] = [ Idle EXCEPT !.pc = "begin", !.job = "old", !.doc = x.doc ] ]
          \/ th' = [ th EXCEPT !["lc"] = Idle ]
          BY <1>6 DEF LcSave
    <3> QED
        BY <1>0, <3>1, <3>2, IdleType, MovesType DEF Moves
  <2> QED
      BY <1>6, <2>1, <2>2 DEF LcSave, TypeOK
<1>7. CASE LcBegin
  <2>1. th' \in [ Thread -> ThreadState ]
        BY <1>0, <1>7, GotoMoves DEF LcBegin, Pc
  <2>2. conn' \in Conn \cup {NoConn}
    <3>1. CASE Present
      <4>1. conn \in Conn
            BY <3>1 DEF Present, TypeOK
      <4> QED
          BY <1>7, <4>1, ConnFields, UpdateType DEF LcBegin
    <3>2. CASE ~ Present
          BY <1>7, <3>2 DEF LcBegin, DbUpdate, TypeOK
    <3> QED
        BY <3>1, <3>2
  <2> QED
      BY <1>7, <2>1, <2>2 DEF LcBegin, TypeOK
<1>8. CASE LcUndo
  <2>1. Restored(x.doc.back) \in Conn
        BY <1>1, ConnShape, RestoredType
  <2>2. th' \in [ Thread -> ThreadState ] /\ conn' \in Conn \cup {NoConn}
        BY <1>2, <1>8, <2>1 DEF LcUndo
  <2> QED
      BY <1>8, <2>2 DEF LcUndo, TypeOK
<1>9. CASE LcAgain
  <2>1. Again(x.doc) \in Conn
        BY <1>1, AgainType
  <2>2. th' = [ th EXCEPT !["lc"].pc = "plan", !["lc"].doc = Again(x.doc) ]
        BY <1>0, <1>1, <1>9 DEF LcAgain, TypeOK, ThreadState
  <2>3. th' \in [ Thread -> ThreadState ] /\ conn' \in Conn \cup {NoConn}
        BY <1>2, <1>9, <2>1, <2>2 DEF LcAgain
  <2> QED
      BY <1>9, <2>3 DEF LcAgain, TypeOK
<1>10. CASE LcGiveUp
  <2>1. [ x.doc EXCEPT !.status = "ERROR" ] \in Conn
        BY <1>1, ConnFields, StatusNames
  <2>2. conn' \in Conn \cup {NoConn}
        BY <1>10, <2>1 DEF LcGiveUp, DbAdd, TypeOK
  <2>3. th' \in [ Thread -> ThreadState ]
        BY <1>0, <1>10, IdleType, MovesType DEF LcGiveUp, Moves
  <2> QED
      BY <1>10, <2>2, <2>3 DEF LcGiveUp, TypeOK
<1>11. CASE LcLost
  <2>1. conn \in Conn
        BY <1>11 DEF LcLost, Present, TypeOK
  <2>2. [ Idle EXCEPT !.pc = "remove", !.job = "again", !.doc = conn ] \in ThreadState
        BY <2>1, IdleType, ThreadFields DEF Pc
  <2>3. th' \in [ Thread -> ThreadState ]
        BY <1>0, <1>11, <2>2, MovesType DEF LcLost, Moves
  <2>4. hurt' \subseteq { "publish", "stuck", "hasty", "expired", "raced", "lost", "forgotten" } /\ losses' \in Nat
        BY <1>11 DEF LcLost, TypeOK
  <2> QED
      BY <1>11, <2>3, <2>4 DEF LcLost, TypeOK
<1> QED
    BY <1>3, <1>4, <1>5, <1>6, <1>7, <1>8, <1>9, <1>10, <1>11

LEMMA OxpType ==
    ASSUME TypeOK, NEW g \in Segment, OxpServe(g)
    PROVE  TypeOK'
<1> DEFINE m == Head(toLC[g])
<1>1. m \in Order /\ Tail(toLC[g]) \in Seq(Order)
      BY DEF OxpServe, TypeOK
<1>2. m.op \in { "post", "delete" } /\ m.id \in Id
      BY <1>1 DEF Order
<1>3. \A ok \in BOOLEAN : [ op |-> m.op, seg |-> g, id |-> m.id, ok |-> ok ] \in Answer
      BY <1>2 DEF Answer
<1>4. inbox' \in Seq(Answer)
  <2>1. PICK ok \in BOOLEAN :
            inbox' = Append(inbox, [ op |-> m.op, seg |-> g, id |-> m.id, ok |-> ok ])
        BY DEF OxpServe
  <2>2. inbox \in Seq(Answer)
        BY DEF TypeOK
  <2> QED
      BY <1>3, <2>1, <2>2
<1>5. evcs' \in SUBSET (Segment \X Id)
      BY <1>2 DEF OxpServe, TypeOK
<1>6. toLC' \in [ Segment -> Seq(Order) ]
      BY <1>1 DEF OxpServe, TypeOK
<1> QED
    BY <1>4, <1>5, <1>6 DEF OxpServe, TypeOK, counters

LEMMA NextType ==
    ASSUME TypeOK, [Next]_vars
    PROVE  TypeOK'
<1>1. CASE PatchRead \/ PatchStep
  <2>1. "http" \in Thread
        BY DEF Thread
  <2> QED
      BY <1>1, <2>1, HttpType, RemoveType, PlaceType DEF PatchStep, PlaceStep
<1>2. CASE LcStep \/ LcLost
  <2>1. "lc" \in Thread
        BY DEF Thread
  <2> QED
      BY <1>2, <2>1, ReceiveType, LcType, RemoveType, PlaceType DEF LcStep, PlaceStep
<1>3. CASE \E g \in Segment : OxpServe(g)
      BY <1>3, OxpType
<1>4. CASE UNCHANGED vars
      BY <1>4 DEF vars, TypeOK
<1> QED
    BY <1>1, <1>2, <1>3, <1>4 DEF Next

\* Every state has its type: in particular an EVC id recorded for a segment is
\* the number of a placement, and every placement has its request.
THEOREM TypeCorrect == Spec => []TypeOK
<1>1. Init => TypeOK
      BY InitType
<1>2. TypeOK /\ [Next]_vars => TypeOK'
      BY NextType
<1> QED
    BY <1>1, <1>2, PTL DEF Spec

(***************************************************************************)
(* NothingLost.  The document is away only between the removal and the     *)
(* reset of a PATCH, and MODIFYING stands, in the document or in the copy  *)
(* of it the LC thread may write back, only while the PATCH removes the    *)
(* old provisioning.  The LC thread, if the reset finds it with an answer, *)
(* may write MODIFYING back: that is excused.                              *)
(***************************************************************************)
Between ==
    \/ th["http"].pc \in { "remove", "send", "drop" }
    \/ th["http"].pc = "reset" /\ th["http"].job = "new"

Modifying == Shows("MODIFYING") \/ th["lc"].doc.status = "MODIFYING"

LostInv ==
    /\ ~ Present => At("http", "reset")
    /\ th["http"].pc \in { "modify", "remove", "send", "drop" } => th["http"].job = "new"
    /\ Unhurt({"publish", "stuck"}) /\ Modifying => Between

\* A step of the LC thread or of an OXP: the document stays, and MODIFYING is
\* not invented.
Steady ==
    /\ hurt \subseteq hurt'
    /\ th'["http"] = th["http"]
    /\ Present => Present'
    /\ Modifying' => Modifying

LEMMA SteadyIntro ==
    ASSUME TypeOK, hurt \subseteq hurt', NEW y,
           th' = [ th EXCEPT !["lc"] = y ],
           y.doc.status = "MODIFYING" => Modifying,
           \/ conn' = conn
           \/ conn' \in Conn /\ (conn'.status = "MODIFYING" => Modifying)
    PROVE  Steady
<1>1. "lc" \in Thread /\ "http" \in Thread /\ "lc" # "http"
      BY DEF Thread
<1>2. th'["http"] = th["http"] /\ th'["lc"] = y
      BY <1>1 DEF TypeOK
<1>3. Present => Present'
      BY PatchAssumption DEF Present
<1>4. Modifying' => Modifying
      BY <1>2 DEF Modifying, Shows, Present
<1> QED
    BY <1>2, <1>3, <1>4 DEF Steady

\* The steps that leave the document and the status of the copy as they are.
LEMMA SteadySame ==
    ASSUME TypeOK, hurt \subseteq hurt', conn' = conn, NEW y,
           th' = [ th EXCEPT !["lc"] = y ], y.doc.status = th["lc"].doc.status
    PROVE  Steady
BY SteadyIntro DEF Modifying

LEMMA SteadyIdle ==
    ASSUME TypeOK, hurt \subseteq hurt', conn' = conn, th' = [ th EXCEPT !["lc"] = Idle ]
    PROVE  Steady
BY SteadyIntro, IdleType

\* Writing a status, one that is not MODIFYING, over the document.
LEMMA UpdateSteady ==
    ASSUME TypeOK, NEW c, DbUpdate(c), Present => c \in Conn,
           Present /\ c.status = "MODIFYING" => Modifying
    PROVE  \/ conn' = conn
           \/ conn' \in Conn /\ (conn'.status = "MODIFYING" => Modifying)
BY DEF DbUpdate

LEMMA ReceiveSteady ==
    ASSUME TypeOK, LcReceive
    PROVE  Steady
<1>1. conn' = conn /\ hurt \subseteq hurt' /\ (th' = th \/ Takes)
      BY ReceiveType DEF LcReceive
<1>2. CASE th' = th
      BY <1>1, <1>2 DEF Steady, Modifying, Shows, Present
<1>3. CASE Takes
  <2>1. PICK pc \in { "save", "late", "cleanup" }, c \in Conn, G \in SUBSET Segment :
            Handle(pc, c, G) /\ c.status \in { conn.status, "UP", "DOWN" }
        BY <1>3 DEF Takes
  <2> DEFINE y == [ Idle EXCEPT !.pc = pc, !.doc = c, !.brk = breakdown, !.seg = G ]
  <2>2. y.doc = c
        BY DEF Idle
  <2>3. th' = [ th EXCEPT !["lc"] = y ]
        BY <2>1 DEF Handle
  <2>4. c.status = "MODIFYING" => Modifying
        BY <1>3, <2>1 DEF Takes, Modifying, Shows
  <2> HIDE DEF y
  <2> QED
      BY <1>1, <2>2, <2>3, <2>4, SteadyIntro
<1> QED
    BY <1>1, <1>2, <1>3

LEMMA LcSteady ==
    ASSUME TypeOK,
           \/ LcCleanup \/ LcLate \/ LcBroken \/ LcSave \/ LcBegin \/ LcUndo
           \/ LcAgain \/ LcGiveUp \/ LcLost
    PROVE  Steady
<1> DEFINE x == th["lc"]
<1>1. "lc" \in Thread /\ x \in ThreadState /\ x.doc \in Conn
      BY ThreadShape DEF Thread
<1>2. CASE LcCleanup
  <2>1. th' = [ th EXCEPT !["lc"] = [ x EXCEPT !.pc = "save" ] ]
        BY <1>1, <1>2 DEF LcCleanup, Goto
  <2>2. [ x EXCEPT !.pc = "save" ].doc.status = x.doc.status
        BY <1>1 DEF ThreadState
  <2> QED
      BY <1>2, <2>1, <2>2, SteadySame DEF LcCleanup
<1>3. CASE LcLate
  <2> DEFINE y == [ x EXCEPT !.pc = "save", !.doc.late = x.doc.late \cup x.seg ]
  <2>1. th' = [ th EXCEPT !["lc"] = y ]
        BY <1>1, <1>3 DEF LcLate, TypeOK
  <2>2. y.doc.status = x.doc.status
        BY <1>1 DEF ThreadState, Conn
  <2> QED
      BY <1>3, <2>1, <2>2, SteadySame DEF LcLate
<1>4. CASE LcBroken
      BY <1>4, SteadyIdle DEF LcBroken
<1>5. CASE LcSave
  <2>1. Present => Saved(x.doc) \in Conn /\ Saved(x.doc).status = x.doc.status
        BY <1>1, SavedType DEF Present, TypeOK
  <2>2. DbUpdate(Saved(x.doc))
        BY <1>5 DEF LcSave
  <2>3. \/ conn' = conn
        \/ conn' \in Conn /\ (conn'.status = "MODIFYING" => Modifying)
        BY <2>1, <2>2, UpdateSteady DEF Modifying
  <2>4. CASE th' = [ th EXCEPT !["lc"] = [ Idle EXCEPT !.pc = "begin", !.job = "old", !.doc = x.doc ] ]
    <3> DEFINE y == [ Idle EXCEPT !.pc = "begin", !.job = "old", !.doc = x.doc ]
    <3>1. y.doc.status = x.doc.status
          BY DEF Idle
    <3> QED
        BY <1>5, <2>3, <2>4, <3>1, SteadyIntro DEF LcSave, Modifying
  <2>5. CASE th' = [ th EXCEPT !["lc"] = Idle ]
        BY <1>5, <2>3, <2>5, IdleType, SteadyIntro DEF LcSave
  <2> QED
      BY <1>5, <2>4, <2>5 DEF LcSave
<1>6. CASE LcBegin
  <2>1. th' = [ th EXCEPT !["lc"] = [ x EXCEPT !.pc = "reset" ] ]
        BY <1>1, <1>6 DEF LcBegin, Goto
  <2>2. [ x EXCEPT !.pc = "reset" ].doc.status = x.doc.status
        BY <1>1 DEF ThreadState
  <2> DEFINE c == [ conn EXCEPT !.inProgress = TRUE ]
  <2>3. Present => c \in Conn /\ c.status = conn.status
        BY ConnFields DEF Present, TypeOK, Conn
  <2>4. DbUpdate(c)
        BY <1>6 DEF LcBegin
  <2>5. \/ conn' = conn
        \/ conn' \in Conn /\ (conn'.status = "MODIFYING" => Modifying)
        BY <2>3, <2>4, UpdateSteady DEF Modifying, Shows
  <2> QED
      BY <1>6, <2>1, <2>2, <2>5, SteadyIntro DEF LcBegin, Modifying
<1>7. ASSUME NEW c \in Conn, c.status # "MODIFYING", DbAdd(c), hurt' = hurt,
             th' = [ th EXCEPT !["lc"].pc = "plan", !["lc"].doc = c ]
      PROVE  Steady
  <2> DEFINE y == [ x EXCEPT !.pc = "plan", !.doc = c ]
  <2>1. th' = [ th EXCEPT !["lc"] = y ]
        BY <1>1, <1>7 DEF TypeOK
  <2>2. y.doc = c
        BY <1>1 DEF ThreadState
  <2> HIDE DEF y
  <2> QED
      BY <1>7, <2>1, <2>2, SteadyIntro DEF DbAdd
<1>8. CASE LcUndo
  <2>1. Restored(x.doc.back) \in Conn /\ Restored(x.doc.back).status = "REQUESTED"
        BY <1>1, ConnShape, RestoredType
  <2> QED
      BY <1>7, <1>8, <2>1 DEF LcUndo
<1>9. CASE LcAgain
  <2>1. Again(x.doc) \in Conn /\ Again(x.doc).status = "RECOVERING"
        BY <1>1, AgainType
  <2>2. th' = [ th EXCEPT !["lc"].pc = "plan", !["lc"].doc = Again(x.doc) ]
        BY <1>1, <1>9 DEF LcAgain, TypeOK, ThreadState
  <2> QED
      BY <1>7, <1>9, <2>1, <2>2 DEF LcAgain
<1>10. CASE LcGiveUp
  <2> DEFINE c == [ x.doc EXCEPT !.status = "ERROR" ]
  <2>1. c \in Conn /\ c.status = "ERROR"
        BY <1>1, ConnFields, StatusNames DEF Conn
  <2>2. conn' = conn \/ conn' = c
        BY <1>10 DEF LcGiveUp, DbAdd
  <2> HIDE DEF c
  <2> QED
      BY <1>10, <2>1, <2>2, IdleType, SteadyIntro DEF LcGiveUp
<1>11. CASE LcLost
  <2> DEFINE y == [ Idle EXCEPT !.pc = "remove", !.job = "again", !.doc = conn ]
  <2>1. y.doc = conn
        BY DEF Idle
  <2>2. th' = [ th EXCEPT !["lc"] = y ] /\ Present /\ conn' = conn /\ hurt \subseteq hurt'
        BY <1>11 DEF LcLost
  <2> HIDE DEF y
  <2> QED
      BY <2>1, <2>2, SteadyIntro DEF Modifying, Shows
<1> QED
    BY <1>2, <1>3, <1>4, <1>5, <1>6, <1>8, <1>9, <1>10, <1>11

LEMMA LcPlaceSteady ==
    ASSUME TypeOK, PlaceStep("lc")
    PROVE  Steady
<1> DEFINE x == th["lc"]
<1>1. "lc" \in Thread /\ x \in ThreadState /\ x.doc \in Conn
      BY ThreadShape DEF Thread
<1>2. CASE RemoveRead("lc")
  <2> DEFINE y == [ x EXCEPT !.pc = "send", !.brk = breakdown, !.doc.evc = conn.evc ]
  <2>1. th' = [ th EXCEPT !["lc"] = y ]
        BY <1>2 DEF RemoveRead
  <2>2. y.doc.status = x.doc.status
        BY <1>1 DEF ThreadState, Conn
  <2> QED
      BY <1>2, <2>1, <2>2, SteadySame DEF RemoveRead
<1>3. CASE RemoveSend("lc") \/ RemoveDrop("lc")
  <2>1. PICK pc : th' = [ th EXCEPT !["lc"] = [ x EXCEPT !.pc = pc ] ]
        BY <1>3 DEF RemoveSend, RemoveDrop, Goto
  <2>2. [ x EXCEPT !.pc = pc ].doc.status = x.doc.status
        BY <1>1 DEF ThreadState
  <2> QED
      BY <1>3, <2>1, <2>2, SteadySame DEF RemoveSend, RemoveDrop
<1>4. CASE RemoveBroken("lc")
      BY <1>4, SteadyIdle DEF RemoveBroken
<1>5. ASSUME PlaceFails("lc") \/ PlaceBroken("lc")
      PROVE  Steady
  <2>1. AfterFailure("lc").doc \in { x.doc, Idle.doc }
        BY <1>1 DEF AfterFailure, ThreadState
  <2>2. AfterFailure("lc").doc.status = "MODIFYING" => Modifying
        BY <2>1, IdleType DEF Modifying
  <2>3. th' = [ th EXCEPT !["lc"] = AfterFailure("lc") ] /\ conn' = conn /\ hurt \subseteq hurt'
        BY <1>5 DEF PlaceFails, PlaceBroken
  <2> QED
      BY <2>2, <2>3, SteadyIntro
<1>6. CASE PlacePlan("lc")
  <2> DEFINE y == [ x EXCEPT !.pc = "mark", !.brk = Plan[x.doc.req], !.id = attempt' ]
  <2>1. th' = [ th EXCEPT !["lc"] = y ]
        BY <1>6 DEF PlacePlan
  <2>2. y.doc.status = x.doc.status
        BY <1>1 DEF ThreadState
  <2> QED
      BY <1>6, <2>1, <2>2, SteadySame DEF PlacePlan
<1>7. CASE PlaceMark("lc")
  <2> DEFINE y == [ x EXCEPT !.pc = "publish", !.doc.status = "UNDER_PROVISIONING" ]
             c == [ conn EXCEPT !.status = "UNDER_PROVISIONING" ]
  <2>1. th' = [ th EXCEPT !["lc"] = y ]
        BY <1>7 DEF PlaceMark
  <2>2. y.doc.status = "UNDER_PROVISIONING"
        BY <1>1 DEF ThreadState, Conn
  <2>3. Present => c \in Conn /\ c.status = "UNDER_PROVISIONING"
        BY ConnFields, StatusNames DEF Present, TypeOK, Conn
  <2>4. DbUpdate(c)
        BY <1>7 DEF PlaceMark, DbSetStatus
  <2>5. \/ conn' = conn
        \/ conn' \in Conn /\ (conn'.status = "MODIFYING" => Modifying)
        BY <2>3, <2>4, UpdateSteady
  <2> HIDE DEF y
  <2> QED
      BY <1>7, <2>1, <2>2, <2>5, SteadyIntro DEF PlaceMark
<1>8. CASE PlacePublish("lc")
      BY <1>8, SteadyIdle DEF PlacePublish
<1> QED
    BY <1>2, <1>3, <1>4, <1>5, <1>6, <1>7, <1>8 DEF PlaceStep

LEMMA OxpSteady ==
    ASSUME NEW g \in Segment, OxpServe(g)
    PROVE  Steady
BY DEF OxpServe, Steady, Modifying, Shows, Present

LEMMA SteadyKeeps ==
    ASSUME LostInv, Steady
    PROVE  LostInv'
BY DEF LostInv, Steady, Unhurt, Between, At

\* A step of the HTTP thread to y.
\* What a reset that the LC thread was not idle for, or that came before the
\* removal was over, leaves behind.
LEMMA ResetQuiet ==
    ASSUME PatchReset
    PROVE  /\ Unhurt({"stuck"})' => th["lc"] = Idle
           /\ Unhurt({"stuck", "hasty"})' => Quiet /\ hurt' = hurt
BY DEF PatchReset, Unhurt, Quiet

LEMMA UnhurtBefore ==
    ASSUME hurt \subseteq hurt'
    PROVE  Unhurt({"publish", "stuck"})' => Unhurt({"publish", "stuck"})
BY DEF Unhurt

LEMMA HttpMoves ==
    ASSUME TypeOK, NEW y, th' = [ th EXCEPT !["http"] = y ]
    PROVE  th'["http"] = y /\ th'["lc"] = th["lc"]
BY DEF TypeOK, Thread

LEMMA HttpIntro ==
    ASSUME TypeOK, LostInv, NEW y, th' = [ th EXCEPT !["http"] = y ],
           ~ Present' => y.pc = "reset",
           y.pc \in { "modify", "remove", "send", "drop" } => y.job = "new",
           \/ y.pc \in { "remove", "send", "drop" }
           \/ y.pc = "reset" /\ y.job = "new"
           \/ Unhurt({"publish", "stuck"})' =>
                  ~ Shows("MODIFYING")' /\ th["lc"].doc.status # "MODIFYING"
    PROVE  LostInv'
BY HttpMoves DEF LostInv, Between, At, Modifying, Unhurt

\* The steps between two placements or in one: the document is there and not
\* MODIFYING, and they leave it alone.
LEMMA HttpSame ==
    ASSUME TypeOK, LostInv, NEW y, th' = [ th EXCEPT !["http"] = y ],
           conn' = conn, hurt \subseteq hurt',
           th["http"].pc \in { "idle", "plan", "mark", "publish", "wait" },
           \/ y.pc \notin { "modify", "remove", "send", "drop" }
           \/ y.pc = "modify" /\ y.job = "new"
    PROVE  LostInv'
<1>1. Present /\ (Unhurt({"publish", "stuck"}) => ~ Modifying)
      BY DEF LostInv, Between, At
<1>2. Present' /\ (Unhurt({"publish", "stuck"}) => ~ Shows("MODIFYING")')
      BY <1>1 DEF Present, Shows, Modifying
<1>3. Unhurt({"publish", "stuck"})' => ~ Shows("MODIFYING")' /\ th["lc"].doc.status # "MODIFYING"
      BY <1>1, <1>2, UnhurtBefore DEF Modifying
<1> QED
    BY <1>2, <1>3, HttpIntro

LEMMA HttpRemoves ==
    ASSUME TypeOK, LostInv,
           \/ RemoveRead("http") \/ RemoveSend("http") \/ RemoveBroken("http")
           \/ RemoveDrop("http")
    PROVE  LostInv'
<1> DEFINE x == th["http"]
<1>1. x \in ThreadState /\ x.pc \in { "remove", "send", "drop" } /\ x.job = "new" /\ Present
      BY ThreadShape DEF Thread, LostInv, At, RemoveRead, RemoveSend, RemoveBroken, RemoveDrop
<1>2. CASE RemoveRead("http")
  <2> DEFINE y == [ x EXCEPT !.pc = "send", !.brk = breakdown, !.doc.evc = conn.evc ]
  <2>1. th' = [ th EXCEPT !["http"] = y ] /\ y.pc = "send" /\ y.job = "new"
        BY <1>1, <1>2 DEF RemoveRead, ThreadState
  <2> HIDE DEF y
  <2> QED
      BY <1>1, <1>2, <2>1, HttpIntro DEF RemoveRead, Present
<1>3. CASE RemoveSend("http")
  <2> DEFINE y == [ x EXCEPT !.pc = "drop" ]
  <2>1. th' = [ th EXCEPT !["http"] = y ] /\ y.pc = "drop" /\ y.job = "new"
        BY <1>1, <1>3 DEF RemoveSend, Goto, ThreadState
  <2> HIDE DEF y
  <2> QED
      BY <1>1, <1>3, <2>1, HttpIntro DEF RemoveSend, Present
<1>4. CASE RemoveBroken("http")
  <2>1. Present'
    <3>1. [ conn EXCEPT !.status = "DOWN" ] \in Conn
          BY <1>1, ConnFields, StatusNames DEF Present, TypeOK
    <3> QED
        BY <1>1, <1>4, <3>1, PatchAssumption DEF RemoveBroken, DbSetStatus, DbUpdate, Present
  <2>2. th' = [ th EXCEPT !["http"] = Idle ] /\ ~ Unhurt({"publish", "stuck"})'
        BY <1>4 DEF RemoveBroken, Unhurt
  <2> QED
      BY <2>1, <2>2, HttpIntro, IdleType
<1>5. CASE RemoveDrop("http")
  <2> DEFINE y == [ x EXCEPT !.pc = "reset" ]
  <2>1. th' = [ th EXCEPT !["http"] = y ] /\ y.pc = "reset" /\ y.job = "new"
        BY <1>1, <1>5 DEF RemoveDrop, Goto, ThreadState
  <2> HIDE DEF y
  <2> QED
      BY <2>1, HttpIntro
<1> QED
    BY <1>2, <1>3, <1>4, <1>5

LEMMA HttpPlaces ==
    ASSUME TypeOK, LostInv,
           \/ PlaceFails("http") \/ PlacePlan("http") \/ PlaceMark("http")
           \/ PlacePublish("http") \/ PlaceBroken("http")
    PROVE  LostInv'
<1> DEFINE x == th["http"]
<1>1. x \in ThreadState
      BY ThreadShape DEF Thread
<1>2. CASE PlaceFails("http") \/ PlaceBroken("http")
  <2>1. AfterFailure("http").pc \in { "reset", "reject", "giveUp", "idle" }
        BY <1>1, IdleType DEF AfterFailure, ThreadState
  <2> QED
      BY <1>2, <2>1, HttpSame DEF PlaceFails, PlaceBroken, At
<1>3. CASE PlacePlan("http")
  <2> DEFINE y == [ x EXCEPT !.pc = "mark", !.brk = Plan[x.doc.req], !.id = attempt' ]
  <2>1. th' = [ th EXCEPT !["http"] = y ] /\ y.pc = "mark"
        BY <1>1, <1>3 DEF PlacePlan, ThreadState
  <2> HIDE DEF y
  <2> QED
      BY <1>3, <2>1, HttpSame DEF PlacePlan, At
<1>4. CASE PlaceMark("http")
  <2> DEFINE y == [ x EXCEPT !.pc = "publish", !.doc.status = "UNDER_PROVISIONING" ]
             c == [ conn EXCEPT !.status = "UNDER_PROVISIONING" ]
  <2>1. th' = [ th EXCEPT !["http"] = y ] /\ y.pc = "publish"
        BY <1>1, <1>4 DEF PlaceMark, ThreadState
  <2>2. Present /\ (Unhurt({"publish", "stuck"}) => ~ Modifying)
        BY <1>4 DEF LostInv, Between, PlaceMark, At
  <2>3. c \in Conn /\ c.status = "UNDER_PROVISIONING" /\ conn' = c
        BY <1>4, <2>2, ConnFields, StatusNames
           DEF Present, TypeOK, Conn, PlaceMark, DbSetStatus, DbUpdate
  <2>4. Present' /\ ~ Shows("MODIFYING")'
        BY <2>3, PatchAssumption DEF Present, Shows
  <2>5. Unhurt({"publish", "stuck"})' => th["lc"].doc.status # "MODIFYING"
        BY <1>4, <2>2, UnhurtBefore DEF PlaceMark, Modifying
  <2> HIDE DEF y
  <2> QED
      BY <2>1, <2>4, <2>5, HttpIntro
<1>5. CASE PlacePublish("http")
  <2> DEFINE y == [ x EXCEPT !.pc = "wait" ]
  <2>1. th' = [ th EXCEPT !["http"] = y ] /\ y.pc = "wait"
        BY <1>1, <1>5 DEF PlacePublish, ThreadState
  <2> HIDE DEF y
  <2> QED
      BY <1>5, <2>1, HttpSame DEF PlacePublish, At
<1> QED
    BY <1>2, <1>3, <1>4, <1>5

LEMMA PatchKeeps ==
    ASSUME TypeOK, LostInv,
           \/ PatchRead \/ PatchModify \/ PatchReset \/ PatchWait \/ PatchExpires
           \/ PatchUndo \/ PatchWaitOld \/ PatchReject
    PROVE  LostInv'
<1> DEFINE x == th["http"]
<1>1. x \in ThreadState /\ x.doc \in Conn
      BY ThreadShape DEF Thread
<1>2. CASE PatchRead
  <2> DEFINE y == [ Idle EXCEPT !.pc = "modify", !.job = "new", !.doc = conn ]
  <2>1. y.pc = "modify" /\ y.job = "new" /\ x.pc = "idle"
        BY <1>2, IdleType DEF Idle, PatchRead
  <2>2. th' = [ th EXCEPT !["http"] = y ] /\ conn' = conn /\ hurt' = hurt
        BY <1>2 DEF PatchRead
  <2> HIDE DEF y
  <2> QED
      BY <2>1, <2>2, HttpSame
<1>3. CASE PatchModify
  <2> DEFINE y == [ x EXCEPT !.pc = "remove" ]
             c == [ conn EXCEPT !.status = "MODIFYING" ]
  <2>1. x.pc = "modify" /\ x.job = "new" /\ Present
        BY <1>3 DEF PatchModify, At, LostInv
  <2>2. th' = [ th EXCEPT !["http"] = y ] /\ y.pc = "remove" /\ y.job = "new"
        BY <1>1, <1>3, <2>1 DEF PatchModify, Goto, ThreadState
  <2>3. c \in Conn /\ conn' = c
        BY <1>3, <2>1, ConnFields, StatusNames
           DEF Present, TypeOK, PatchModify, DbSetStatus, DbUpdate
  <2>4. Present'
        BY <2>3, PatchAssumption DEF Present
  <2> HIDE DEF y
  <2> QED
      BY <2>2, <2>4, HttpIntro
<1>4. ASSUME NEW c \in Conn, c.status # "MODIFYING", DbAdd(c), hurt \subseteq hurt',
             th' = [ th EXCEPT !["http"].pc = "plan", !["http"].doc = c ],
             Unhurt({"publish", "stuck"})' => th["lc"].doc.status # "MODIFYING"
      PROVE  LostInv'
  <2> DEFINE y == [ x EXCEPT !.pc = "plan", !.doc = c ]
  <2>1. th' = [ th EXCEPT !["http"] = y ] /\ y.pc = "plan"
        BY <1>1, <1>4 DEF TypeOK, Thread, ThreadState
  <2>2. Present' /\ ~ Shows("MODIFYING")'
        BY <1>4, PatchAssumption DEF DbAdd, Present, Shows
  <2> HIDE DEF y
  <2> QED
      BY <1>4, <2>1, <2>2, HttpIntro
<1>5. CASE PatchReset
  <2>1. Patched(x.doc) \in Conn /\ Patched(x.doc).status = "REQUESTED"
        BY <1>1, PatchedType
  <2>2. hurt \subseteq hurt' /\ (Unhurt({"publish", "stuck"})' => th["lc"].doc.status = "REQUESTED")
        BY <1>5, IdleType, ResetQuiet DEF PatchReset, Unhurt
  <2>3. th' = [ th EXCEPT !["http"].pc = "plan", !["http"].doc = Patched(x.doc) ]
        BY <1>1, <1>5 DEF PatchReset, TypeOK, Thread, ThreadState
  <2> QED
      BY <1>4, <1>5, <2>1, <2>2, <2>3 DEF PatchReset
<1>6. ASSUME NEW r, Answered(r), x.pc = "wait", conn' = conn, hurt' = hurt
      PROVE  LostInv'
      BY <1>6, HttpSame, IdleType DEF Answered
<1>7. ASSUME th' = [ th EXCEPT !["http"].pc = "reset", !["http"].job = "old" ],
             x.pc = "wait", conn' = conn, hurt \subseteq hurt'
      PROVE  LostInv'
  <2> DEFINE y == [ x EXCEPT !.pc = "reset", !.job = "old" ]
  <2>1. th' = [ th EXCEPT !["http"] = y ] /\ y.pc = "reset"
        BY <1>1, <1>7 DEF TypeOK, Thread, ThreadState
  <2> HIDE DEF y
  <2> QED
      BY <1>7, <2>1, HttpSame
<1>8. CASE PatchWait
      BY <1>6, <1>7, <1>8 DEF PatchWait, At
<1>9. CASE PatchExpires
      BY <1>6, <1>7, <1>9 DEF PatchExpires, At
<1>10. CASE PatchUndo
  <2>1. Restored(x.doc.back) \in Conn /\ Restored(x.doc.back).status = "REQUESTED"
        BY <1>1, ConnShape, RestoredType
  <2>2. Unhurt({"publish", "stuck"})' => th["lc"].doc.status # "MODIFYING"
        BY <1>10 DEF Unhurt, PatchUndo, At, LostInv, Between, Modifying
  <2> QED
      BY <1>4, <1>10, <2>1, <2>2 DEF PatchUndo
<1>11. CASE PatchWaitOld
      BY <1>6, <1>11 DEF PatchWaitOld, At
<1>12. CASE PatchReject
  <2> DEFINE c == [ conn EXCEPT !.status = "REJECTED" ]
  <2>1. Present /\ (Unhurt({"publish", "stuck"}) => ~ Modifying)
        BY <1>12 DEF LostInv, Between, PatchReject, At
  <2>2. c \in Conn /\ c.status = "REJECTED" /\ conn' = c
        BY <1>12, <2>1, ConnFields, StatusNames
           DEF Present, TypeOK, Conn, PatchReject, DbSetStatus, DbUpdate
  <2>3. Present' /\ ~ Shows("MODIFYING")'
        BY <2>2, PatchAssumption DEF Present, Shows
  <2>4. Unhurt({"publish", "stuck"})' => th["lc"].doc.status # "MODIFYING"
        BY <1>12, <2>1, UnhurtBefore DEF PatchReject, Modifying
  <2>5. th' = [ th EXCEPT !["http"] = Idle ]
        BY <1>12 DEF PatchReject, Answered
  <2> QED
      BY <2>3, <2>4, <2>5, HttpIntro, IdleType
<1> QED
    BY <1>2, <1>3, <1>5, <1>8, <1>9, <1>10, <1>11, <1>12

LEMMA NextKeeps ==
    ASSUME TypeOK, LostInv, [Next]_vars
    PROVE  LostInv'
<1>1. CASE PatchRead \/ PatchStep
      BY <1>1, PatchKeeps, HttpRemoves, HttpPlaces DEF PatchStep, PlaceStep
<1>2. CASE LcStep \/ LcLost
      BY <1>2, ReceiveSteady, LcSteady, LcPlaceSteady, SteadyKeeps DEF LcStep
<1>3. CASE \E g \in Segment : OxpServe(g)
      BY <1>3, OxpSteady, SteadyKeeps
<1>4. CASE UNCHANGED vars
      BY <1>4 DEF vars, LostInv, Present, At, Unhurt, Modifying, Shows, Between
<1> QED
    BY <1>1, <1>2, <1>3, <1>4 DEF Next

LEMMA LostInit ==
    ASSUME Init
    PROVE  LostInv
<1>1. \A t \in Thread : th[t] = Idle
      BY DEF Init
<1>2. th["http"] = Idle /\ th["lc"] = Idle
      BY <1>1 DEF Thread
<1>3. conn \in Conn /\ conn.status = "UP"
  <2>1. conn.status = "UP"
        BY DEF Init, Blank
  <2> QED
      BY <2>1, InitConn
<1> QED
    BY <1>2, <1>3, IdleType, PatchAssumption
       DEF LostInv, Present, Modifying, Shows

\* However the two threads interleave and whatever fails, a PATCH that has been
\* answered leaves a document; and unless publishing has raised, or the reset
\* found the LC thread with an answer, not one that says MODIFYING.
THEOREM NothingLostCorrect == Spec => []NothingLost
<1>1. Init => LostInv
      BY LostInit
<1>2. TypeOK /\ LostInv /\ [Next]_vars => LostInv'
      BY NextKeeps
<1>3. LostInv => NothingLost
      BY DEF LostInv, NothingLost, At, Between, Modifying, Shows, Present
<1> QED
    BY <1>1, <1>2, <1>3, TypeCorrect, PTL DEF Spec

(***************************************************************************)
(* Queues: what is in one, and that something is in it at most once.       *)
(***************************************************************************)
LEMMA AppendParts ==
    ASSUME NEW S, NEW q \in Seq(S), NEW x \in S
    PROVE  /\ Members(Append(q, x)) = Members(q) \cup {x}
           /\ \A X : Once(q, X) /\ (x \notin X \/ Members(q) \cap X = {}) => Once(Append(q, x), X)
<1>1. PICK n \in Nat : n = Len(q)
      OBVIOUS
<1>2. /\ Len(Append(q, x)) = n + 1 /\ Append(q, x)[n + 1] = x
      /\ \A i \in 1 .. n : Append(q, x)[i] = q[i]
      BY <1>1
<1> DEFINE r == Append(q, x)
<1> HIDE DEF r
<1>3. Members(r) = Members(q) \cup {x}
  <2>1. Members(r) \subseteq Members(q) \cup {x}
    <3> SUFFICES ASSUME NEW i \in 1 .. n + 1
                 PROVE  r[i] \in Members(q) \cup {x}
        BY <1>2 DEF Members, r
    <3>1. i \in 1 .. n \/ i = n + 1
          OBVIOUS
    <3> QED
        BY <1>1, <1>2, <3>1 DEF Members, r
  <2>2. x \in Members(r)
    <3>1. n + 1 \in 1 .. n + 1
          OBVIOUS
    <3> QED
        BY <1>2, <3>1 DEF Members, r
  <2>3. ASSUME NEW i \in 1 .. n
        PROVE  q[i] \in Members(r)
    <3>1. i \in 1 .. n + 1 /\ r[i] = q[i]
          BY <1>2 DEF r
    <3> QED
        BY <1>2, <3>1 DEF Members, r
  <2> QED
      BY <1>1, <2>1, <2>2, <2>3 DEF Members
<1>4. ASSUME NEW X, Once(q, X), x \notin X \/ Members(q) \cap X = {}
      PROVE  Once(r, X)
  <2> SUFFICES ASSUME NEW i \in 1 .. n + 1, NEW j \in 1 .. n + 1, r[i] \in X, r[j] \in X
               PROVE  i = j
      BY <1>2 DEF Once, r
  <2>1. \A k \in 1 .. n + 1 : (k \in 1 .. n /\ r[k] = q[k] /\ q[k] \in Members(q)) \/ (k = n + 1 /\ r[k] = x)
        BY <1>1, <1>2 DEF Members, r
  <2>2. CASE x \notin X
        BY <1>1, <1>4, <2>1, <2>2 DEF Once
  <2>3. CASE Members(q) \cap X = {}
        BY <2>1, <2>3
  <2> QED
      BY <1>4, <2>2, <2>3
<1> QED
    BY <1>3, <1>4 DEF r

LEMMA TailParts ==
    ASSUME NEW S, NEW q \in Seq(S), q # << >>
    PROVE  /\ Head(q) \in Members(q) /\ Members(q) = Members(Tail(q)) \cup {Head(q)}
           /\ \A X : Once(q, X) => /\ Once(Tail(q), X)
                                   /\ Head(q) \in X => Members(Tail(q)) \cap X = {}
<1>1. PICK n \in Nat : n = Len(q) /\ n >= 1
      OBVIOUS
<1>2. /\ Len(Tail(q)) = n - 1 /\ Head(q) = q[1]
      /\ \A i \in 1 .. n - 1 : Tail(q)[i] = q[i + 1]
      BY <1>1
<1>3. 1 \in 1 .. n /\ \A i \in 1 .. n - 1 : i + 1 \in 1 .. n /\ i + 1 # 1
      BY <1>1
<1> DEFINE r == Tail(q)
<1> HIDE DEF r
<1>4. Head(q) \in Members(q)
      BY <1>1, <1>2, <1>3 DEF Members
<1>5. Members(q) = Members(r) \cup {Head(q)}
  <2>1. Members(r) \subseteq Members(q)
        BY <1>1, <1>2, <1>3 DEF Members, r
  <2>2. ASSUME NEW i \in 1 .. n
        PROVE  q[i] \in Members(r) \cup {Head(q)}
    <3>1. i = 1 \/ (i - 1 \in 1 .. n - 1 /\ (i - 1) + 1 = i)
          BY <1>1
    <3> QED
        BY <1>2, <3>1 DEF Members, r
  <2> QED
      BY <1>1, <1>4, <2>1, <2>2 DEF Members
<1>6. ASSUME NEW X, Once(q, X)
      PROVE  Once(r, X) /\ (Head(q) \in X => Members(r) \cap X = {})
  <2>1. Once(r, X)
    <3> SUFFICES ASSUME NEW i \in 1 .. n - 1, NEW j \in 1 .. n - 1, r[i] \in X, r[j] \in X
                 PROVE  i = j
        BY <1>2 DEF Once, r
    <3>1. i + 1 = j + 1
          BY <1>1, <1>2, <1>3, <1>6 DEF Once, r
    <3> QED
        BY <3>1
  <2>2. ASSUME Head(q) \in X, NEW i \in 1 .. n - 1
        PROVE  r[i] \notin X
        BY <1>1, <1>2, <1>3, <1>6, <2>2 DEF Once, r
  <2> QED
      BY <1>2, <2>1, <2>2 DEF Members, r
<1> QED
    BY <1>4, <1>5, <1>6 DEF r

(***************************************************************************)
(* What is under way.                                                      *)
(***************************************************************************)
Msg(op, n) == [ op |-> op, id |-> n ]

LEMMA MsgParts ==
    ASSUME NEW n \in Id
    PROVE  /\ Msg("post", n) \in OrdersTo("post") /\ Msg("post", n) \notin OrdersTo("delete")
           /\ Msg("delete", n) \in OrdersTo("delete") /\ Msg("delete", n) \notin OrdersTo("post")
           /\ Msg("post", n).id = n /\ Msg("delete", n).id = n
BY DEF Msg, OrdersTo, Order

\* A step that publishes nothing and takes nothing.
LEMMA SameWires ==
    ASSUME toLC' = toLC, inbox' = inbox, NEW g \in Segment
    PROVE  /\ Asked(g)' = Asked(g) /\ Removals(g)' = Removals(g)
           /\ \A op : Replies(op, g)' = Replies(op, g)
           /\ Awaited(g)' = Awaited(g) /\ AwaitedOnce(g)' = AwaitedOnce(g)
           /\ \A n : Leaving(g, n)' = Leaving(g, n)
BY DEF Asked, Removals, Replies, Awaited, AwaitedOnce, Leaving

LEMMA SameOrders ==
    ASSUME toLC' = toLC, NEW g \in Segment
    PROVE  Asked(g)' = Asked(g) /\ Removals(g)' = Removals(g)
           /\ \A n : Leaving(g, n)' = Leaving(g, n)
BY DEF Asked, Removals, Leaving

LEMMA InboxTaken ==
    ASSUME TypeOK, inbox # << >>, inbox' = Tail(inbox), NEW m, m = Head(inbox)
    PROVE  /\ m \in Answer /\ m \in Replies(m.op, m.seg)
           /\ \A op, g : Replies(op, g)' \subseteq Replies(op, g)
           /\ \A op, g : op # m.op \/ g # m.seg => Replies(op, g)' = Replies(op, g)
           /\ \A X : Once(inbox, X) => Once(inbox', X)
           /\ \A g : Once(inbox, AnswersOf("post", g)) /\ m \in AnswersOf("post", g)
                         => Replies("post", g)' = {}
<1>1. inbox \in Seq(Answer) /\ m \in Answer
      BY DEF TypeOK
<1>2. m \in Members(inbox) /\ Members(inbox) = Members(Tail(inbox)) \cup {m}
      BY <1>1, TailParts
<1>3. \A X : Once(inbox, X) => /\ Once(Tail(inbox), X)
                               /\ m \in X => Members(Tail(inbox)) \cap X = {}
      BY <1>1, TailParts
<1>4. m \in AnswersOf(m.op, m.seg) /\ \A op, g : op # m.op \/ g # m.seg => m \notin AnswersOf(op, g)
      BY <1>1 DEF AnswersOf
<1> QED
    BY <1>1, <1>2, <1>3, <1>4 DEF Replies

LEMMA InboxAdded ==
    ASSUME TypeOK, NEW x \in Answer, inbox' = Append(inbox, x)
    PROVE  /\ \A op, g : x \notin AnswersOf(op, g) => Replies(op, g)' = Replies(op, g)
           /\ \A op, g : Replies(op, g)' \subseteq Replies(op, g) \cup {x}
           /\ \A g : /\ Once(inbox, AnswersOf("post", g))
                     /\ x \notin AnswersOf("post", g) \/ Replies("post", g) = {}
                     => Once(inbox', AnswersOf("post", g))
<1>1. inbox \in Seq(Answer)
      BY DEF TypeOK
<1>2. Members(inbox') = Members(inbox) \cup {x}
      BY <1>1, AppendParts
<1>3. \A X : Once(inbox, X) /\ (x \notin X \/ Members(inbox) \cap X = {}) => Once(inbox', X)
      BY <1>1, AppendParts
<1> QED
    BY <1>2, <1>3 DEF Replies

LEMMA OrderServed ==
    ASSUME TypeOK, NEW h \in Segment, toLC[h] # << >>,
           toLC' = [ toLC EXCEPT ![h] = Tail(toLC[h]) ], NEW o, o = Head(toLC[h])
    PROVE  /\ o \in Order /\ o \in Members(toLC[h])
           /\ \A g \in Segment :
                  /\ Asked(g)' \subseteq Asked(g) /\ Removals(g)' \subseteq Removals(g)
                  /\ Once(toLC[g], OrdersTo("post")) => Once(toLC'[g], OrdersTo("post"))
                  /\ \A n : Leaving(g, n) => Leaving(g, n)' \/ (g = h /\ o = Msg("delete", n))
           /\ Once(toLC[h], OrdersTo("post")) /\ o.op = "post" => Asked(h)' = {}
           /\ o.op # "post" => \A g \in Segment : Asked(g)' = Asked(g)
<1>1. toLC[h] \in Seq(Order) /\ toLC \in [ Segment -> Seq(Order) ] /\ o \in Order
      BY DEF TypeOK
<1>2. o \in Members(toLC[h]) /\ Members(toLC[h]) = Members(Tail(toLC[h])) \cup {o}
      BY <1>1, TailParts
<1>3. \A X : Once(toLC[h], X) => /\ Once(Tail(toLC[h]), X)
                                 /\ o \in X => Members(Tail(toLC[h])) \cap X = {}
      BY <1>1, TailParts
<1>4. \A g \in Segment : toLC'[g] = IF g = h THEN Tail(toLC[h]) ELSE toLC[g]
      BY <1>1
<1>5. Once(toLC[h], OrdersTo("post")) /\ o.op = "post" => Asked(h)' = {}
      BY <1>1, <1>3, <1>4 DEF Asked, OrdersTo
<1>0. o.op # "post" => \A g \in Segment : Asked(g)' = Asked(g)
      BY <1>2, <1>4 DEF Asked, OrdersTo
<1> SUFFICES ASSUME NEW g \in Segment
             PROVE  /\ Asked(g)' \subseteq Asked(g) /\ Removals(g)' \subseteq Removals(g)
                    /\ Once(toLC[g], OrdersTo("post")) => Once(toLC'[g], OrdersTo("post"))
                    /\ \A n : Leaving(g, n) => Leaving(g, n)' \/ (g = h /\ o = Msg("delete", n))
    BY <1>0, <1>1, <1>2, <1>5
<1>6. Members(toLC'[g]) \subseteq Members(toLC[g])
      BY <1>2, <1>4
<1>7. Members(toLC[g]) \subseteq Members(toLC'[g]) \cup (IF g = h THEN {o} ELSE {})
      BY <1>2, <1>4
<1>8. Once(toLC[g], OrdersTo("post")) => Once(toLC'[g], OrdersTo("post"))
      BY <1>3, <1>4
<1>9. Asked(g)' \subseteq Asked(g) /\ Removals(g)' \subseteq Removals(g)
      BY <1>6 DEF Asked, Removals
<1>10. ASSUME NEW n, Leaving(g, n)
       PROVE  Leaving(g, n)' \/ (g = h /\ o = Msg("delete", n))
       BY <1>7, <1>10 DEF Leaving, Removals, Msg
<1> QED
    BY <1>8, <1>9, <1>10

LEMMA Published ==
    ASSUME TypeOK, NEW op \in { "post", "delete" }, NEW B \in SUBSET Segment,
           NEW F \in [ Segment -> Id ], toLC' = Publish(op, B, F), NEW g \in Segment
    PROVE  /\ g \notin B => toLC'[g] = toLC[g]
           /\ g \in B => Members(toLC'[g]) = Members(toLC[g]) \cup { Msg(op, F[g]) }
           /\ \A X : Once(toLC[g], X) /\ (Msg(op, F[g]) \notin X \/ Members(toLC[g]) \cap X = {})
                         => Once(toLC'[g], X)
<1>1. Msg(op, F[g]) \in Order
      BY DEF Order, Msg
<1>2. toLC[g] \in Seq(Order)
      BY DEF TypeOK
<1>3. toLC'[g] = IF g \in B THEN Append(toLC[g], Msg(op, F[g])) ELSE toLC[g]
      BY DEF Publish, Msg
<1>4. \A X : Once(toLC[g], X) /\ (Msg(op, F[g]) \notin X \/ Members(toLC[g]) \cap X = {})
          => Once(Append(toLC[g], Msg(op, F[g])), X)
      BY <1>1, <1>2, AppendParts
<1>5. Members(Append(toLC[g], Msg(op, F[g]))) = Members(toLC[g]) \cup { Msg(op, F[g]) }
      BY <1>1, <1>2, AppendParts
<1> QED
    BY <1>3, <1>4, <1>5

LEMMA DeletesPublished ==
    ASSUME TypeOK, NEW G \in SUBSET Segment, NEW c \in Conn, toLC' = Deletes(G, c),
           NEW g \in Segment
    PROVE  /\ Asked(g)' = Asked(g)
           /\ Once(toLC[g], OrdersTo("post")) => Once(toLC'[g], OrdersTo("post"))
           /\ Removals(g) \subseteq Removals(g)'
           /\ g \in G /\ c.evc[g] # 0 => Leaving(g, c.evc[g])'
           /\ g \notin G \/ c.evc[g] = 0 => Removals(g)' = Removals(g)
           /\ \A o \in Removals(g)' : o \in Removals(g) \/ o.id = c.evc[g]
<1>1. c.evc \in [ Segment -> Id ] /\ c.evc[g] \in Id
      BY ConnShape
<1> DEFINE D == Deletable(G, c)
           o == Msg("delete", c.evc[g])
<1>2. D \in SUBSET Segment /\ (g \in D <=> g \in G /\ c.evc[g] # 0)
      BY DEF Deletable
<1>3. toLC' = Publish("delete", D, c.evc)
      BY DEF Deletes
<1>4. o \notin OrdersTo("post") /\ o \in OrdersTo("delete") /\ o.id = c.evc[g]
      BY <1>1, MsgParts
<1> HIDE DEF D
<1>5. /\ g \notin D => toLC'[g] = toLC[g]
      /\ g \in D => Members(toLC'[g]) = Members(toLC[g]) \cup {o}
      /\ \A X : Once(toLC[g], X) /\ (o \notin X \/ Members(toLC[g]) \cap X = {})
                    => Once(toLC'[g], X)
  <2>1. "delete" \in { "post", "delete" }
        OBVIOUS
  <2> QED
      BY <1>1, <1>2, <1>3, <2>1, Published
<1>6. Leaving(g, c.evc[g])' <=> o \in Removals(g)'
      BY DEF Leaving, Msg
<1> HIDE DEF o
<1> QED
    BY <1>2, <1>4, <1>5, <1>6 DEF Asked, Removals

LEMMA CreatesPublished ==
    ASSUME TypeOK, NEW B \in SUBSET Segment, NEW n \in Id,
           toLC' = Publish("post", B, [ g \in Segment |-> n ]), NEW g \in Segment,
           Asked(g) = {}
    PROVE  /\ Removals(g)' = Removals(g)
           /\ Once(toLC'[g], OrdersTo("post"))
           /\ \A o \in Asked(g)' : g \in B /\ o.id = n
<1> DEFINE F == [ h \in Segment |-> n ]
           o == Msg("post", n)
<1>1. F \in [ Segment -> Id ] /\ F[g] = n
      OBVIOUS
<1>2. o \notin OrdersTo("delete") /\ o.id = n
      BY MsgParts
<1>3. toLC' = Publish("post", B, F)
      OBVIOUS
<1> HIDE DEF F
<1>4. /\ g \notin B => toLC'[g] = toLC[g]
      /\ g \in B => Members(toLC'[g]) = Members(toLC[g]) \cup {o}
      /\ \A X : Once(toLC[g], X) /\ (o \notin X \/ Members(toLC[g]) \cap X = {})
                    => Once(toLC'[g], X)
  <2>1. "post" \in { "post", "delete" }
        OBVIOUS
  <2>2. Msg("post", F[g]) = o
        BY <1>1
  <2> HIDE DEF o
  <2>3. /\ g \notin B => toLC'[g] = toLC[g]
        /\ g \in B => Members(toLC'[g]) = Members(toLC[g]) \cup { Msg("post", F[g]) }
        /\ \A X : Once(toLC[g], X) /\ (Msg("post", F[g]) \notin X \/ Members(toLC[g]) \cap X = {})
                      => Once(toLC'[g], X)
        BY <1>1, <1>3, <2>1, Published
  <2> QED
      BY <2>2, <2>3
<1>5. Members(toLC[g]) \cap OrdersTo("post") = {}
      BY DEF Asked
<1>6. Once(toLC[g], OrdersTo("post"))
      BY <1>5 DEF Once, Members
<1> HIDE DEF o
<1> QED
    BY <1>2, <1>4, <1>5, <1>6 DEF Asked, Removals

(***************************************************************************)
(* What is under way, seen from the document.                              *)
(***************************************************************************)
LEMMA EvcPairs ==
    ASSUME TypeOK, NEW e \in evcs
    PROVE  e[1] \in Segment /\ e[2] \in Id /\ e = << e[1], e[2] >>
BY DEF TypeOK

LEMMA FollowedSame ==
    ASSUME TypeOK, UNCHANGED << wires, attempt, breakdown >>, NEW W, NEW c, NEW d, Followed(c, W),
           d.evc = c.evc, d.late = c.late, d.partial = c.partial, d.resp = c.resp,
           d.onFail = c.onFail
    PROVE  Followed(d, W)'
<1> USE DEF wires
<1>1. \A g \in Segment : Expected(g, d)'
      BY SameWires DEF Followed, Expected
<1>2. d.onFail => OwnAnswers(d)'
      BY SameWires DEF Followed, OwnAnswers
<1>3. ~ d.partial => \A g \in Provisioned(d)' : << g, attempt' >> \in evcs' /\ ~ Leaving(g, attempt)'
  <2>1. Provisioned(d)' = Provisioned(c) /\ Provisioned(c) \subseteq Segment
        BY DEF Provisioned, TypeOK
  <2> QED
      BY <2>1, SameWires DEF Followed
<1>4. ASSUME NEW e \in evcs
      PROVE  Traced(e[1], e[2], d, W)'
      BY <1>4, EvcPairs, SameWires DEF Followed, Traced
<1> QED
    BY <1>1, <1>2, <1>3, <1>4 DEF Followed

LEMMA ClearedSame ==
    ASSUME TypeOK, UNCHANGED wires, Cleared
    PROVE  Cleared'
<1> USE DEF wires
<1>1. ASSUME NEW e \in evcs
      PROVE  Leaving(e[1], e[2])'
      BY <1>1, EvcPairs, SameWires DEF Cleared
<1> QED
    BY <1>1, SameWires DEF Cleared

\* What an answer leaves in a copy d of a copy c, up to the status and the
\* count.
TakesAnswer(c, m, d) ==
    /\ d.resp = c.resp \cup {m.seg}
    /\ d.evc = [ c.evc EXCEPT ![m.seg] = IF m.op = "delete" THEN @ ELSE IF m.ok THEN m.id ELSE 0 ]
    /\ d.late = c.late /\ d.onFail = c.onFail /\ (c.partial => d.partial)

LEMMA AnswerTaken ==
    ASSUME TypeOK, inbox # << >>, inbox' = Tail(inbox),
           UNCHANGED << toLC, evcs, attempt, breakdown >>,
           NEW m, m = Head(inbox), NEW c \in Conn, Followed(c, {}),
           NEW d, TakesAnswer(c, m, d),
           NEW W, m.op = "post" /\ m.ok /\ d.partial => m.seg \in W,
           d.partial /\ ~ c.partial => W = Segment,
           m.op = "post" /\ ~ m.ok => d.partial,
           attempt >= 1
    PROVE  Followed(d, W)'
<1>1. /\ m \in Answer /\ m \in Replies(m.op, m.seg)
      /\ \A op, g : Replies(op, g)' \subseteq Replies(op, g)
      /\ \A op, g : op # m.op \/ g # m.seg => Replies(op, g)' = Replies(op, g)
      /\ \A g : Once(inbox, AnswersOf("post", g)) => Once(inbox', AnswersOf("post", g))
      BY InboxTaken
<1>2. m.seg \in Segment /\ m.op \in { "post", "delete" } /\ m.id \in Id /\ m.ok \in BOOLEAN
      BY <1>1 DEF Answer
<1>3. \A g \in Segment : Asked(g)' = Asked(g) /\ Removals(g)' = Removals(g)
                         /\ \A n : Leaving(g, n)' = Leaving(g, n)
      BY SameOrders
<1>4. \A g \in Segment : Expected(g, c)
      BY DEF Followed
<1> DEFINE h == m.seg
<1>5. \A g \in Segment : Awaited(g)' => Awaited(g)
      BY <1>1, <1>3 DEF Awaited
<1>6. m.op = "post" => /\ Awaited(h) /\ ~ Awaited(h)'
                       /\ h \in breakdown /\ c.evc[h] = 0 /\ ~ Leaving(h, attempt)
                       /\ m.id = attempt /\ (m.ok <=> << h, attempt >> \in evcs)
  <2> SUFFICES ASSUME m.op = "post"
               PROVE  /\ Awaited(h) /\ ~ Awaited(h)'
                      /\ h \in breakdown /\ c.evc[h] = 0 /\ ~ Leaving(h, attempt)
                      /\ m.id = attempt /\ (m.ok <=> << h, attempt >> \in evcs)
      OBVIOUS
  <2>1. m \in Replies("post", h) /\ Expected(h, c)
        BY <1>1, <1>2, <1>4
  <2>2. Awaited(h) /\ Asked(h) = {} /\ Once(inbox, AnswersOf("post", h))
        BY <2>1 DEF Awaited, Expected, AwaitedOnce
  <2>3. m \in AnswersOf("post", h)
        BY <2>1 DEF Replies
  <2>4. Replies("post", h)' = {}
        BY <2>2, <2>3, InboxTaken
  <2>5. ~ Awaited(h)'
        BY <1>2, <1>3, <2>2, <2>4 DEF Awaited
  <2> QED
      BY <2>1, <2>2, <2>5 DEF Expected
<1>7. \A g \in Segment : g # h \/ m.op # "post" => (Awaited(g)' <=> Awaited(g)) /\ d.evc[g] = c.evc[g]
  <2> SUFFICES ASSUME NEW g \in Segment, g # h \/ m.op # "post"
               PROVE  (Awaited(g)' <=> Awaited(g)) /\ d.evc[g] = c.evc[g]
      OBVIOUS
  <2>1. Replies("post", g)' = Replies("post", g)
        BY <1>1
  <2>2. d.evc[g] = c.evc[g]
        BY <1>2, ConnShape DEF TakesAnswer
  <2> QED
      BY <1>3, <2>1, <2>2 DEF Awaited
<1>8. m.op = "post" => d.evc[h] = IF m.ok THEN attempt ELSE 0
      BY <1>2, <1>6, ConnShape DEF TakesAnswer
<1>9. ASSUME NEW g \in Segment
      PROVE  Expected(g, d)'
  <2>1. Expected(g, c)
        BY <1>4
  <2>2. AwaitedOnce(g)'
        BY <1>1, <1>3, <2>1 DEF Expected, AwaitedOnce
  <2>3. Awaited(g)' => g \in breakdown' /\ d.evc[g] = 0 /\ g \notin d.late /\ ~ Leaving(g, attempt)'
        BY <1>3, <1>5, <1>6, <1>7, <2>1 DEF Expected, TakesAnswer
  <2> QED
      BY <1>1, <1>3, <2>1, <2>2, <2>3 DEF Expected
<1>10. ASSUME d.onFail
       PROVE  OwnAnswers(d)'
  <2>1. OwnAnswers(c)
        BY <1>10 DEF Followed, TakesAnswer
  <2> SUFFICES ASSUME NEW g \in Segment,
                      Removals(g)' # {} \/ Replies("delete", g)' # {} \/ g \in d.resp
               PROVE  g \in breakdown' /\ ~ Awaited(g)'
      BY DEF OwnAnswers
  <2>2. CASE g = h
    <3>1. CASE m.op = "post"
          BY <1>6, <2>2, <3>1
    <3>2. CASE m.op = "delete"
          BY <1>1, <1>2, <1>5, <2>1, <2>2, <3>2 DEF OwnAnswers
    <3> QED
        BY <1>2, <3>1, <3>2
  <2>3. CASE g # h
        BY <1>1, <1>3, <1>5, <2>1, <2>3 DEF OwnAnswers, TakesAnswer
  <2> QED
      BY <2>2, <2>3
<1>11. ASSUME ~ d.partial, NEW g \in Provisioned(d)'
       PROVE  << g, attempt' >> \in evcs' /\ ~ Leaving(g, attempt)'
  <2>1. g \in Segment /\ g \in breakdown /\ d.evc[g] = attempt
        BY DEF Provisioned, TypeOK
  <2>2. CASE g = h /\ m.op = "post"
        BY <1>2, <1>3, <1>6, <1>11, <2>1, <2>2
  <2>3. CASE g # h \/ m.op # "post"
    <3>1. g \in Provisioned(c) /\ ~ c.partial
          BY <1>7, <1>11, <2>1, <2>3 DEF Provisioned, TakesAnswer
    <3> QED
        BY <1>3, <2>1, <3>1 DEF Followed
  <2> QED
      BY <2>2, <2>3
<1>12. ASSUME NEW e \in evcs
       PROVE  Traced(e[1], e[2], d, W)'
  <2>1. e[1] \in Segment /\ e = << e[1], e[2] >> /\ Traced(e[1], e[2], c, {})
        BY <1>12, EvcPairs DEF Followed
  <2>2. CASE Leaving(e[1], e[2])
        BY <1>3, <2>1, <2>2 DEF Traced
  <2>3. CASE e[2] = attempt /\ Awaited(e[1])
        BY <1>2, <1>6, <1>7, <1>8, <2>1, <2>3 DEF Traced
  <2>4. CASE e[2] = attempt /\ c.evc[e[1]] = attempt /\ ~ c.partial
        BY <1>6, <1>7, <2>1, <2>4 DEF Traced
  <2> QED
      BY <2>1, <2>2, <2>3, <2>4 DEF Traced
<1> QED
    BY <1>9, <1>10, <1>11, <1>12 DEF Followed

\* The deletes of a partial cleanup are published, for a copy c of the document.
LEMMA DeletesFollow ==
    ASSUME TypeOK, NEW B \in SUBSET Segment, NEW c \in Conn, toLC' = Deletes(B, c),
           UNCHANGED << inbox, evcs, attempt, breakdown >>,
           NEW W, Followed(c, W), c.partial, Current(c),
           \A g \in W : c.evc[g] = attempt => g \in B,
           NEW d, d.evc = c.evc, d.partial = c.partial, d.resp = c.resp, d.onFail = c.onFail,
           \A g \in d.late : g \in c.late \/ c.evc[g] # 0,
           attempt >= 1
    PROVE  Followed(d, {})'
<1>1. ASSUME NEW g \in Segment
      PROVE  /\ Asked(g)' = Asked(g)
             /\ Once(toLC[g], OrdersTo("post")) => Once(toLC'[g], OrdersTo("post"))
             /\ Removals(g) \subseteq Removals(g)'
             /\ g \in B /\ c.evc[g] # 0 => Leaving(g, c.evc[g])'
             /\ g \notin B \/ c.evc[g] = 0 => Removals(g)' = Removals(g)
             /\ \A op : Replies(op, g)' = Replies(op, g)
             /\ Awaited(g)' = Awaited(g)
  <2>1. Asked(g)' = Asked(g)
        BY DeletesPublished
  <2>2. \A op : Replies(op, g)' = Replies(op, g)
        BY DEF Replies
  <2> QED
      BY <2>1, <2>2, DeletesPublished DEF Awaited
<1>2. \A g \in Segment : Expected(g, c) /\ (Awaited(g) => c.evc[g] = 0)
      BY DEF Followed, Expected
<1>3. ASSUME NEW g \in Segment
      PROVE  Expected(g, d)'
  <2>1. AwaitedOnce(g)'
        BY <1>1, <1>2 DEF Expected, AwaitedOnce
  <2>2. Awaited(g)' => g \in breakdown' /\ d.evc[g] = 0 /\ g \notin d.late /\ ~ Leaving(g, attempt)'
        BY <1>1, <1>2 DEF Expected, Leaving
  <2> QED
      BY <1>1, <1>2, <2>1, <2>2 DEF Expected
<1>4. ASSUME d.onFail, NEW g \in Segment,
             Removals(g)' # {} \/ Replies("delete", g)' # {} \/ g \in d.resp
      PROVE  g \in breakdown' /\ ~ Awaited(g)'
  <2>1. CASE c.evc[g] # 0
        BY <1>1, <1>2, <2>1 DEF Current
  <2>2. CASE c.evc[g] = 0
        BY <1>1, <1>4, <2>2 DEF Followed, OwnAnswers
  <2> QED
      BY <2>1, <2>2
<1>5. ASSUME NEW e \in evcs
      PROVE  Traced(e[1], e[2], d, {})'
  <2>1. e[1] \in Segment /\ Traced(e[1], e[2], c, W)
        BY <1>5, EvcPairs DEF Followed
  <2>2. CASE Leaving(e[1], e[2])
        BY <1>1, <2>1, <2>2 DEF Traced, Leaving
  <2>3. CASE e[2] = attempt /\ Awaited(e[1])
        BY <1>1, <2>1, <2>3 DEF Traced
  <2>4. CASE e[2] = attempt /\ c.evc[e[1]] = attempt /\ e[1] \in W
    <3>1. Leaving(e[1], c.evc[e[1]])'
          BY <1>1, <2>1, <2>4
    <3> QED
        BY <2>4, <3>1 DEF Traced
  <2> QED
      BY <2>1, <2>2, <2>3, <2>4 DEF Traced
<1> QED
    BY <1>3, <1>4, <1>5 DEF Followed, OwnAnswers

\* The deletes of a removal are published, from a copy of the document of a
\* connection that is whole, while the LC thread has copy d.
LEMMA DeletesClear ==
    ASSUME TypeOK, NEW c \in Conn, toLC' = Deletes(breakdown, c),
           UNCHANGED << inbox, evcs, attempt >>,
           NEW d, NEW W, Followed(d, W), Current(d), Provisioned(d) = breakdown,
           \A g \in breakdown : c.evc[g] = attempt,
           attempt >= 1
    PROVE  Cleared'
<1>0. breakdown \in SUBSET Segment /\ attempt # 0
      BY DEF TypeOK
<1>1. ASSUME NEW g \in Segment
      PROVE  /\ Awaited(g)' = Awaited(g)
             /\ Removals(g) \subseteq Removals(g)'
             /\ g \in breakdown => Leaving(g, attempt)'
  <2>1. Asked(g)' = Asked(g) /\ Replies("post", g)' = Replies("post", g)
        BY <1>0, DeletesPublished DEF Replies
  <2> QED
      BY <1>0, <2>1, DeletesPublished DEF Awaited
<1>2. ASSUME NEW g \in Segment
      PROVE  ~ Awaited(g)
  <2>1. Awaited(g) => g \in breakdown /\ d.evc[g] = 0
        BY DEF Followed, Expected
  <2>2. g \in breakdown => d.evc[g] = attempt
        BY DEF Provisioned
  <2> QED
      BY <1>0, <2>1, <2>2
<1>3. ASSUME NEW e \in evcs
      PROVE  Leaving(e[1], e[2])'
  <2>1. e[1] \in Segment /\ Traced(e[1], e[2], d, W)
        BY <1>3, EvcPairs DEF Followed
  <2>2. CASE Leaving(e[1], e[2])
        BY <1>1, <2>1, <2>2 DEF Leaving
  <2>3. CASE e[2] = attempt /\ d.evc[e[1]] = attempt
        BY <1>0, <1>1, <2>1, <2>3 DEF Current
  <2> QED
      BY <1>2, <2>1, <2>2, <2>3 DEF Traced
<1> QED
    BY <1>1, <1>2, <1>3 DEF Cleared

\* The creates of a placement are published.
LEMMA CreatesFollow ==
    ASSUME TypeOK, Cleared, toLC' = Publish("post", breakdown, [ g \in Segment |-> attempt ]),
           UNCHANGED << inbox, evcs, attempt, breakdown >>,
           \A g \in Segment : ~ Leaving(g, attempt),
           NEW c, c.evc = NoIds, c.resp = {}, c.late = {}, ~ c.partial,
           c.onFail => \A g \in Segment : Removals(g) = {} /\ Replies("delete", g) = {},
           attempt >= 1
    PROVE  Followed(c, {})'
<1>0. breakdown \in SUBSET Segment /\ attempt \in Id
      BY DEF TypeOK, Id
<1>1. ASSUME NEW g \in Segment
      PROVE  /\ Asked(g) = {} /\ Replies("post", g)' = {}
             /\ \A op : Replies(op, g)' = Replies(op, g)
             /\ Removals(g)' = Removals(g) /\ (\A n : Leaving(g, n)' = Leaving(g, n))
             /\ Once(toLC'[g], OrdersTo("post"))
             /\ \A o \in Asked(g)' : g \in breakdown /\ o.id = attempt
             /\ Once(inbox', AnswersOf("post", g))
  <2>1. Asked(g) = {} /\ Replies("post", g) = {}
        BY DEF Cleared, Awaited
  <2>2. \A op : Replies(op, g)' = Replies(op, g)
        BY DEF Replies
  <2>3. Once(inbox', AnswersOf("post", g))
    <3>1. Members(inbox) \cap AnswersOf("post", g) = {}
          BY <2>1 DEF Replies
    <3> QED
        BY <3>1 DEF Once, Members
  <2> DEFINE n == attempt
  <2>4. /\ Removals(g)' = Removals(g) /\ Once(toLC'[g], OrdersTo("post"))
        /\ \A o \in Asked(g)' : g \in breakdown /\ o.id = n
    <3>1. n \in Id /\ toLC' = Publish("post", breakdown, [ k \in Segment |-> n ])
          BY <1>0
    <3> HIDE DEF n
    <3> QED
        BY <1>0, <2>1, <3>1, CreatesPublished
  <2> QED
      BY <2>1, <2>2, <2>3, <2>4 DEF Leaving
<1>2. \A g \in Segment : c.evc[g] = 0
      BY DEF NoIds
<1>3. ASSUME NEW g \in Segment
      PROVE  << g, attempt >> \notin evcs
  <2> DEFINE e == << g, attempt >>
  <2>1. e[1] = g /\ e[2] = attempt
        OBVIOUS
  <2> HIDE DEF e
  <2>2. e \notin evcs
        BY <2>1 DEF Cleared
  <2> QED
      BY <2>2 DEF e
<1>4. ASSUME NEW g \in Segment
      PROVE  Expected(g, c)'
  <2>1. AwaitedOnce(g)'
        BY <1>1 DEF AwaitedOnce
  <2>2. Awaited(g)' => g \in breakdown'
        BY <1>1 DEF Awaited
  <2> QED
      BY <1>1, <1>2, <1>3, <2>1, <2>2 DEF Expected
<1>5. c.onFail => OwnAnswers(c)'
      BY <1>1 DEF OwnAnswers
<1>6. Provisioned(c)' = {}
      BY <1>0, <1>2 DEF Provisioned
<1>7. ASSUME NEW e \in evcs
      PROVE  Traced(e[1], e[2], c, {})'
      BY <1>1, <1>7, EvcPairs DEF Traced, Cleared
<1> QED
    BY <1>4, <1>5, <1>6, <1>7 DEF Followed

\* What an OXP does with the order o at the head of its queue: a create that
\* succeeds, one that fails, or a delete.
Serves(h, o, ok) ==
    /\ o \in Order /\ toLC' = [ toLC EXCEPT ![h] = Tail(toLC[h]) ]
    /\ inbox' = Append(inbox, [ op |-> o.op, seg |-> h, id |-> o.id, ok |-> ok ])
    /\ evcs' = IF o.op = "delete" THEN evcs \ {<< h, o.id >>}
               ELSE IF ok THEN evcs \cup {<< h, o.id >>} ELSE evcs
    /\ o.op = "delete" => ok

LEMMA OxpServes ==
    ASSUME TypeOK, NEW h \in Segment, OxpServe(h)
    PROVE  /\ toLC[h] # << >>
           /\ \E ok \in BOOLEAN : Serves(h, Head(toLC[h]), ok)
           /\ UNCHANGED << conn, breakdown, counters, th, hurt >>
<1>1. toLC[h] \in Seq(Order) /\ toLC[h] # << >> /\ Head(toLC[h]) \in Order
      BY DEF OxpServe, TypeOK
<1> DEFINE o == Head(toLC[h])
<1>2. \/ o.op = "post" /\ evcs' = evcs \cup {<< h, o.id >>}
         /\ inbox' = Append(inbox, [ op |-> o.op, seg |-> h, id |-> o.id, ok |-> TRUE ])
      \/ o.op = "post" /\ evcs' = evcs
         /\ inbox' = Append(inbox, [ op |-> o.op, seg |-> h, id |-> o.id, ok |-> FALSE ])
      \/ o.op = "delete" /\ evcs' = evcs \ {<< h, o.id >>}
         /\ inbox' = Append(inbox, [ op |-> o.op, seg |-> h, id |-> o.id, ok |-> TRUE ])
      BY DEF OxpServe
<1>3. toLC' = [ toLC EXCEPT ![h] = Tail(toLC[h]) ]
      BY DEF OxpServe
<1> HIDE DEF o
<1>4. Serves(h, o, TRUE) \/ Serves(h, o, FALSE)
      BY <1>1, <1>2, <1>3 DEF Serves, o
<1> QED
    BY <1>1, <1>4 DEF OxpServe, o

LEMMA ServedParts ==
    ASSUME TypeOK, NEW h \in Segment, toLC[h] # << >>, NEW o, o = Head(toLC[h]),
           NEW ok \in BOOLEAN, Serves(h, o, ok), NEW g \in Segment
    PROVE  /\ Asked(g)' \subseteq Asked(g) /\ Removals(g)' \subseteq Removals(g)
           /\ Once(toLC[g], OrdersTo("post")) => Once(toLC'[g], OrdersTo("post"))
           /\ \A n : Leaving(g, n) => Leaving(g, n)' \/ (g = h /\ o.op = "delete" /\ o.id = n)
           /\ g # h \/ o.op # "post" => /\ Asked(g)' = Asked(g)
                                        /\ Replies("post", g)' = Replies("post", g)
           /\ g # h \/ o.op # "delete" => Replies("delete", g)' = Replies("delete", g)
           /\ o.op = "post" => /\ o \in Asked(h)
                               /\ Once(toLC[h], OrdersTo("post")) => Asked(h)' = {}
                               /\ \A a \in Replies("post", h)' :
                                      a \in Replies("post", h) \/ (a.id = o.id /\ a.ok = ok)
           /\ o.op = "delete" => /\ Leaving(h, o.id)
                                 /\ \A a \in Replies("delete", h)' : a \in Replies("delete", h) \/ a.ok
           /\ Once(inbox, AnswersOf("post", g))
              /\ (g # h \/ o.op # "post" \/ Replies("post", g) = {})
                 => Once(inbox', AnswersOf("post", g))
           /\ o.id \in Id
<1> DEFINE x == [ op |-> o.op, seg |-> h, id |-> o.id, ok |-> ok ]
<1>1. o \in Order /\ o.op \in { "post", "delete" } /\ o.id \in Id
      BY DEF Serves, Order
<1>2. x \in Answer /\ x.op = o.op /\ x.seg = h /\ x.id = o.id /\ x.ok = ok
      BY <1>1 DEF Answer
<1>3. x \notin AnswersOf("post", g) <=> (g # h \/ o.op # "post")
      BY <1>1, <1>2 DEF AnswersOf
<1>4. x \notin AnswersOf("delete", g) <=> (g # h \/ o.op # "delete")
      BY <1>1, <1>2 DEF AnswersOf
<1>5. inbox' = Append(inbox, x) /\ toLC' = [ toLC EXCEPT ![h] = Tail(toLC[h]) ]
      BY DEF Serves
<1> HIDE DEF x
<1>6. /\ \A op, k : x \notin AnswersOf(op, k) => Replies(op, k)' = Replies(op, k)
      /\ \A op, k : Replies(op, k)' \subseteq Replies(op, k) \cup {x}
      /\ \A k : /\ Once(inbox, AnswersOf("post", k))
                /\ x \notin AnswersOf("post", k) \/ Replies("post", k) = {}
                => Once(inbox', AnswersOf("post", k))
      BY <1>2, <1>5, InboxAdded
<1>7. /\ o \in Members(toLC[h])
      /\ Asked(g)' \subseteq Asked(g) /\ Removals(g)' \subseteq Removals(g)
      /\ Once(toLC[g], OrdersTo("post")) => Once(toLC'[g], OrdersTo("post"))
      /\ \A n : Leaving(g, n) => Leaving(g, n)' \/ (g = h /\ o = Msg("delete", n))
      /\ Once(toLC[h], OrdersTo("post")) /\ o.op = "post" => Asked(h)' = {}
      /\ o.op # "post" => Asked(g)' = Asked(g)
      BY <1>5, OrderServed
<1>8. g # h => Asked(g)' = Asked(g)
  <2>1. toLC \in [ Segment -> Seq(Order) ]
        BY DEF TypeOK
  <2> QED
      BY <1>5, <2>1 DEF Asked
<1>9. o.op = "post" => o \in Asked(h)
      BY <1>1, <1>7 DEF Asked, OrdersTo
<1>10. o.op = "delete" => Leaving(h, o.id)
  <2>1. o.op = "delete" => o = [ op |-> "delete", id |-> o.id ]
        BY <1>1 DEF Order
  <2> QED
      BY <1>1, <1>7, <2>1 DEF Leaving, Removals, OrdersTo
<1>11. \A n : o = Msg("delete", n) => o.op = "delete" /\ o.id = n
       BY DEF Msg
<1>12. \A a \in Replies("post", h)' : a \in Replies("post", h) \/ (a.id = o.id /\ a.ok = ok)
       BY <1>2, <1>6
<1>13. o.op = "delete" => \A a \in Replies("delete", h)' : a \in Replies("delete", h) \/ a.ok
       BY <1>2, <1>6 DEF Serves
<1> QED
    BY <1>1, <1>3, <1>4, <1>6, <1>7, <1>8, <1>9, <1>10, <1>11, <1>12, <1>13

LEMMA OxpFollow ==
    ASSUME TypeOK, NEW h \in Segment, OxpServe(h), NEW c, NEW W, Followed(c, W)
    PROVE  Followed(c, W)'
<1>1. toLC[h] # << >> /\ UNCHANGED << breakdown, counters >>
      BY OxpServes
<1>2. PICK ok \in BOOLEAN : Serves(h, Head(toLC[h]), ok)
      BY OxpServes
<1>3. PICK o : o = Head(toLC[h])
      OBVIOUS
<1>4. Serves(h, o, ok)
      BY <1>2, <1>3
<1>5. attempt' = attempt /\ breakdown' = breakdown
      BY <1>1 DEF counters
<1>6. \A g \in Segment : Expected(g, c)
      BY DEF Followed
<1>7. o.op \in { "post", "delete" } /\ o.id \in Id
      BY <1>4 DEF Serves, Order
\* A create is of the current placement, and what is deleted is not awaited.
<1>8. o.op = "post" => /\ Awaited(h) /\ Awaited(h)' /\ o.id = attempt /\ << h, attempt >> \notin evcs
                       /\ Replies("post", h) = {}
  <2> SUFFICES ASSUME o.op = "post"
               PROVE  /\ Awaited(h) /\ Awaited(h)' /\ o.id = attempt /\ << h, attempt >> \notin evcs
                      /\ Replies("post", h) = {}
      OBVIOUS
  <2>1. o \in Asked(h)
        BY <1>1, <1>3, <1>4, ServedParts
  <2>2. Awaited(h) /\ o.id = attempt /\ << h, attempt >> \notin evcs /\ Replies("post", h) = {}
        BY <1>6, <2>1 DEF Awaited, Expected, AwaitedOnce
  <2>3. Replies("post", h)' # {}
    <3> DEFINE x == [ op |-> o.op, seg |-> h, id |-> o.id, ok |-> ok ]
    <3>1. x \in Answer /\ x \in AnswersOf("post", h)
          BY <1>7 DEF Answer, AnswersOf
    <3>2. inbox' = Append(inbox, x) /\ inbox \in Seq(Answer)
          BY <1>4 DEF Serves, TypeOK
    <3> HIDE DEF x
    <3>3. x \in Members(inbox')
          BY <3>1, <3>2, AppendParts
    <3> QED
        BY <3>1, <3>3 DEF Replies
  <2> QED
      BY <2>2, <2>3 DEF Awaited
<1>9. o.op = "delete" => Leaving(h, o.id)
      BY <1>1, <1>3, <1>4, ServedParts
<1>10. \A g \in Segment : Awaited(g)' <=> Awaited(g)
  <2> TAKE g \in Segment
  <2>1. g # h \/ o.op # "post" => Asked(g)' = Asked(g) /\ Replies("post", g)' = Replies("post", g)
        BY <1>1, <1>3, <1>4, ServedParts
  <2> QED
      BY <1>8, <2>1 DEF Awaited
<1>11. \A g \in Segment : Removals(g)' \subseteq Removals(g) /\ \A n : Leaving(g, n)' => Leaving(g, n)
  <2> TAKE g \in Segment
  <2>1. Removals(g)' \subseteq Removals(g)
        BY <1>1, <1>3, <1>4, ServedParts
  <2> QED
      BY <2>1 DEF Leaving
<1>12. \A g \in Segment, n \in Id :
           /\ g # h \/ n # o.id => (<< g, n >> \in evcs' <=> << g, n >> \in evcs)
           /\ g = h /\ n = o.id /\ o.op = "post" =>
                  (<< g, n >> \in evcs' <=> (ok \/ << g, n >> \in evcs))
       BY <1>4, <1>7 DEF Serves
<1>13. attempt \in Id
       BY DEF TypeOK, Id
<1>14. ASSUME NEW g \in Segment
       PROVE  Expected(g, c)'
  <2>1. /\ Asked(g)' \subseteq Asked(g)
        /\ Once(toLC[g], OrdersTo("post")) => Once(toLC'[g], OrdersTo("post"))
        /\ g # h \/ o.op # "post" => /\ Asked(g)' = Asked(g)
                                     /\ Replies("post", g)' = Replies("post", g)
        /\ o.op = "post" => /\ Once(toLC[h], OrdersTo("post")) => Asked(h)' = {}
                            /\ \A a \in Replies("post", h)' :
                                   a \in Replies("post", h) \/ (a.id = o.id /\ a.ok = ok)
        /\ Once(inbox, AnswersOf("post", g))
           /\ (g # h \/ o.op # "post" \/ Replies("post", g) = {})
              => Once(inbox', AnswersOf("post", g))
        BY <1>1, <1>3, <1>4, ServedParts
  <2>2. Expected(g, c)
        BY <1>6
  <2>3. AwaitedOnce(g)'
        BY <1>8, <2>1, <2>2 DEF Expected, AwaitedOnce
  <2>4. Awaited(g)' => g \in breakdown' /\ c.evc[g] = 0 /\ g \notin c.late /\ ~ Leaving(g, attempt)'
        BY <1>5, <1>10, <1>11, <2>2 DEF Expected
  <2>5. CASE g = h /\ o.op = "post"
    <3>1. Asked(g)' = {}
          BY <2>1, <2>2, <2>5 DEF Expected, AwaitedOnce
    <3>2. \A a \in Replies("post", g)' : a.id = attempt /\ a.ok = ok
          BY <1>8, <2>1, <2>5
    <3>3. ok <=> << g, attempt >> \in evcs'
          BY <1>8, <1>12, <1>13, <2>5
    <3> QED
        BY <1>5, <2>3, <2>4, <3>1, <3>2, <3>3 DEF Expected
  <2>6. CASE g # h \/ o.op # "post"
    <3>1. ASSUME Awaited(g)
          PROVE  << g, attempt >> \in evcs' <=> << g, attempt >> \in evcs
      <4>1. ~ Leaving(g, attempt)
            BY <2>2, <3>1 DEF Expected
      <4>2. g # h \/ attempt # o.id
            BY <1>7, <1>9, <2>6, <4>1
      <4> QED
          BY <1>12, <1>13, <4>2
    <3> QED
        BY <1>5, <2>1, <2>2, <2>3, <2>4, <2>6, <3>1 DEF Expected, Awaited
  <2> QED
      BY <2>5, <2>6
<1>15. ASSUME c.onFail
       PROVE  OwnAnswers(c)'
  <2>1. OwnAnswers(c)
        BY <1>15 DEF Followed
  <2> SUFFICES ASSUME NEW g \in Segment,
                      Removals(g)' # {} \/ Replies("delete", g)' # {} \/ g \in c.resp
               PROVE  g \in breakdown' /\ ~ Awaited(g)'
      BY DEF OwnAnswers
  <2>2. g # h \/ o.op # "delete" => Replies("delete", g)' = Replies("delete", g)
        BY <1>1, <1>3, <1>4, ServedParts
  <2>3. Removals(g) # {} \/ Replies("delete", g) # {} \/ g \in c.resp
        BY <1>7, <1>9, <1>11, <2>2 DEF Leaving
  <2> QED
      BY <1>5, <1>10, <2>1, <2>3 DEF OwnAnswers
<1>16. ASSUME ~ c.partial, NEW g \in Provisioned(c)'
       PROVE  << g, attempt' >> \in evcs' /\ ~ Leaving(g, attempt)'
  <2>1. g \in Segment /\ g \in Provisioned(c)
        BY <1>5 DEF Provisioned, TypeOK
  <2>2. << g, attempt >> \in evcs /\ ~ Leaving(g, attempt)
        BY <1>16, <2>1 DEF Followed
  <2>3. o.op = "delete" => g # h \/ attempt # o.id
        BY <1>9, <2>2
  <2>4. << g, attempt >> \in evcs'
        BY <1>7, <1>12, <1>13, <2>1, <2>2, <2>3
  <2> QED
      BY <1>5, <1>11, <2>1, <2>2, <2>4
<1>17. ASSUME NEW e \in evcs'
       PROVE  Traced(e[1], e[2], c, W)'
  <2>1. CASE e \in evcs
    <3>1. e[1] \in Segment /\ e = << e[1], e[2] >> /\ e[2] \in Id /\ Traced(e[1], e[2], c, W)
          BY <2>1, EvcPairs DEF Followed
    <3>2. \A n : Leaving(e[1], n) => Leaving(e[1], n)' \/ (e[1] = h /\ o.op = "delete" /\ o.id = n)
          BY <1>1, <1>3, <1>4, <3>1, ServedParts
    <3>3. ~ (e[1] = h /\ o.op = "delete" /\ o.id = e[2])
          BY <1>4, <1>17, <3>1 DEF Serves
    <3> QED
        BY <1>5, <1>10, <3>1, <3>2, <3>3 DEF Traced
  <2>2. CASE e \notin evcs
    <3>1. o.op = "post" /\ e = << h, o.id >>
          BY <1>4, <1>7, <1>17, <2>2 DEF Serves
    <3> QED
        BY <1>5, <1>8, <3>1 DEF Traced
  <2> QED
      BY <2>1, <2>2
<1> QED
    BY <1>14, <1>15, <1>16, <1>17 DEF Followed

LEMMA ClearedServed ==
    ASSUME TypeOK, NEW h \in Segment, OxpServe(h), Cleared
    PROVE  Cleared'
<1>1. toLC[h] # << >>
      BY OxpServes
<1>2. PICK ok \in BOOLEAN : Serves(h, Head(toLC[h]), ok)
      BY OxpServes
<1>3. PICK o : o = Head(toLC[h])
      OBVIOUS
<1>4. Serves(h, o, ok)
      BY <1>2, <1>3
<1>5. o.op = "delete"
  <2>1. o.op = "post" => o \in Asked(h)
        BY <1>1, <1>3, <1>4, ServedParts
  <2>2. o.op \in { "post", "delete" }
        BY <1>4 DEF Serves, Order
  <2> QED
      BY <2>1, <2>2 DEF Cleared, Awaited
<1>6. ASSUME NEW g \in Segment
      PROVE  ~ Awaited(g)'
  <2>1. Asked(g)' = Asked(g) /\ Replies("post", g)' = Replies("post", g)
        BY <1>1, <1>3, <1>4, <1>5, ServedParts
  <2> QED
      BY <2>1 DEF Cleared, Awaited
<1>7. ASSUME NEW e \in evcs'
      PROVE  Leaving(e[1], e[2])'
  <2>1. e \in evcs /\ e # << h, o.id >>
        BY <1>4, <1>5, <1>7 DEF Serves
  <2>2. e[1] \in Segment /\ e = << e[1], e[2] >> /\ Leaving(e[1], e[2])
        BY <2>1, EvcPairs DEF Cleared
  <2>3. Leaving(e[1], e[2])' \/ (e[1] = h /\ o.op = "delete" /\ o.id = e[2])
        BY <1>1, <1>3, <1>4, <2>2, ServedParts
  <2> QED
      BY <2>1, <2>2, <2>3
<1> QED
    BY <1>6, <1>7 DEF Cleared

LEMMA ClearedTaken ==
    ASSUME TypeOK, inbox # << >>, inbox' = Tail(inbox), UNCHANGED << toLC, evcs >>, Cleared
    PROVE  Cleared'
<1>1. \A op, g : Replies(op, g)' \subseteq Replies(op, g)
      BY InboxTaken
<1>2. ASSUME NEW g \in Segment
      PROVE  ~ Awaited(g)'
      BY <1>1, SameOrders DEF Cleared, Awaited
<1>3. ASSUME NEW e \in evcs
      PROVE  Leaving(e[1], e[2])'
      BY <1>3, EvcPairs, SameOrders DEF Cleared
<1> QED
    BY <1>2, <1>3 DEF Cleared

\* Deletes are of placements that were made, and succeed.
LEMMA DeletingSame ==
    ASSUME TypeOK, UNCHANGED << toLC, inbox >>, attempt' \in Nat, attempt <= attempt', Deleting
    PROVE  Deleting'
<1>1. attempt \in Nat
      BY DEF TypeOK
<1>2. ASSUME NEW g \in Segment, NEW o \in Removals(g)
      PROVE  o.id <= attempt'
  <2>1. o.id \in Nat
        BY <1>2 DEF Removals, OrdersTo, Order, Id
  <2>2. o.id <= attempt
        BY <1>2 DEF Deleting
  <2> QED
      BY <1>1, <2>1, <2>2
<1> QED
    BY <1>1, <1>2, SameWires DEF Deleting

LEMMA DeletingTaken ==
    ASSUME TypeOK, inbox # << >>, inbox' = Tail(inbox), UNCHANGED << toLC, attempt >>, Deleting
    PROVE  Deleting'
<1>1. \A op, g : Replies(op, g)' \subseteq Replies(op, g)
      BY InboxTaken
<1> QED
    BY <1>1, SameOrders DEF Deleting

LEMMA DeletingServed ==
    ASSUME TypeOK, NEW h \in Segment, OxpServe(h), Deleting
    PROVE  Deleting'
<1>1. toLC[h] # << >> /\ attempt' = attempt
      BY OxpServes DEF counters
<1>2. PICK ok \in BOOLEAN : Serves(h, Head(toLC[h]), ok)
      BY OxpServes
<1>3. PICK o : o = Head(toLC[h])
      OBVIOUS
<1>4. Serves(h, o, ok)
      BY <1>2, <1>3
<1>5. ASSUME NEW g \in Segment
      PROVE  /\ Removals(g)' \subseteq Removals(g)
             /\ \A a \in Replies("delete", g)' : a.ok
  <2>1. /\ Removals(g)' \subseteq Removals(g)
        /\ g # h \/ o.op # "delete" => Replies("delete", g)' = Replies("delete", g)
        /\ o.op = "delete" => \A a \in Replies("delete", h)' : a \in Replies("delete", h) \/ a.ok
        BY <1>1, <1>3, <1>4, ServedParts
  <2> QED
      BY <2>1 DEF Deleting
<1> QED
    BY <1>1, <1>5 DEF Deleting

LEMMA DeletingSent ==
    ASSUME TypeOK, NEW B \in SUBSET Segment, NEW c \in Conn, toLC' = Deletes(B, c),
           UNCHANGED << inbox, attempt >>, \A g \in Segment : c.evc[g] \in { 0, attempt },
           Deleting
    PROVE  Deleting'
<1>1. attempt \in Nat /\ attempt >= 1
      BY DEF TypeOK, Deleting
<1>2. ASSUME NEW g \in Segment, NEW o \in Removals(g)'
      PROVE  o.id <= attempt
  <2>1. o \in Removals(g) \/ o.id = c.evc[g]
        BY <1>2, DeletesPublished
  <2>2. c.evc[g] <= attempt
        BY <1>1
  <2> QED
      BY <1>1, <2>1, <2>2 DEF Deleting
<1>3. \A op, g : Replies(op, g)' = Replies(op, g)
      BY DEF Replies
<1> QED
    BY <1>1, <1>2, <1>3 DEF Deleting

LEMMA DeletingCreates ==
    ASSUME TypeOK, NEW B \in SUBSET Segment, NEW n \in Id,
           toLC' = Publish("post", B, [ g \in Segment |-> n ]),
           UNCHANGED << inbox, attempt >>, Cleared, Deleting
    PROVE  Deleting'
<1>1. \A g \in Segment : Removals(g)' = Removals(g)
      BY CreatesPublished DEF Cleared, Awaited
<1>2. \A op, g : Replies(op, g)' = Replies(op, g)
      BY DEF Replies
<1> QED
    BY <1>1, <1>2 DEF Deleting

(***************************************************************************)
(* The modes, one step after the other.                                    *)
(***************************************************************************)
LEMMA LcMoves ==
    ASSUME TypeOK, NEW y, th' = [ th EXCEPT !["lc"] = y ]
    PROVE  lc' = y /\ http' = http
BY DEF TypeOK, Thread, http, lc

LEMMA HttpLocal ==
    ASSUME TypeOK, NEW y, th' = [ th EXCEPT !["http"] = y ]
    PROVE  http' = y /\ lc' = lc
BY HttpMoves DEF http, lc

LEMMA Threads ==
    ASSUME TypeOK
    PROVE  /\ http \in ThreadState /\ http.doc \in Conn
           /\ lc \in ThreadState /\ lc.doc \in Conn
           /\ \A pc : (At("http", pc) <=> http.pc = pc) /\ (At("lc", pc) <=> lc.pc = pc)
BY ThreadShape DEF Thread, http, lc, At

LEMMA DocType ==
    ASSUME TypeOK, Present
    PROVE  conn \in Conn /\ Doc \in Conn
BY Threads DEF TypeOK, Present, Doc

\* What a copy says, as long as nothing is placed.
LEMMA CopySame ==
    ASSUME UNCHANGED << attempt, breakdown >>, NEW c
    PROVE  /\ Provisioned(c)' = Provisioned(c) /\ Current(c)' = Current(c) /\ Whole(c)' = Whole(c)
           /\ Coming(c)' = Coming(c) /\ Failed(c)' = Failed(c)
BY DEF Provisioned, Current, Whole, Coming, Failed

LEMMA CoherentSame ==
    ASSUME UNCHANGED << attempt, breakdown, request >>, NEW c, NEW d
    PROVE  Coherent(c, d)' = Coherent(c, d)
BY CopySame DEF Coherent

LEMMA ServingIntro ==
    ASSUME NEW c, NEW d, NEW W, conn' = c, Doc' = d, Pending' = W, Present',
           Coherent(c, d)', HttpServes', LcServes', Followed(d, W)'
    PROVE  Serving'
BY DEF Serving

\* The HTTP thread moves, and nothing else does.
LEMMA ServingHttp ==
    ASSUME TypeOK, Serving, UNCHANGED << conn, breakdown, wires, attempt, request >>,
           NEW y, th' = [ th EXCEPT !["http"] = y ],
           y.pc \in { "idle", "wait", "modify", "send" },
           y.pc \in { "modify", "send" } =>
               y.job = "new" /\ ~ y.doc.partial /\ y.doc.late = {} /\ Whole(conn),
           y.pc = "send" => y.brk = breakdown /\ y.doc.evc = conn.evc
    PROVE  Serving'
<1>1. http' = y /\ lc' = lc
      BY HttpLocal
<1>2. PICK c, d, W : c = conn /\ d = Doc /\ W = Pending
      OBVIOUS
<1>3. conn' = c /\ Doc' = d /\ Pending' = W /\ Present'
      BY <1>1, <1>2 DEF Doc, Busy, Pending, Serving, Present
<1>4. Coherent(c, d)'
      BY <1>2, CoherentSame DEF Serving
<1>5. Followed(d, W)'
      BY <1>2, FollowedSame DEF Serving
<1>6. LcServes'
      BY <1>1 DEF Serving, LcServes, Busy
<1>7. Whole(conn) => Whole(conn)'
      BY <1>2, <1>3, CopySame
<1>8. HttpServes'
      BY <1>1, <1>7 DEF HttpServes, ReadUp
<1> QED
    BY <1>3, <1>4, <1>5, <1>6, <1>8, ServingIntro

LEMMA ServingModify ==
    ASSUME TypeOK, Serving, PatchModify
    PROVE  Serving'
<1> USE DEF wires, counters
<1> DEFINE e == [ conn EXCEPT !.status = "MODIFYING" ]
           y == [ http EXCEPT !.pc = "remove" ]
<1>1. http.pc = "modify" /\ http \in ThreadState /\ Whole(conn) /\ conn \in Conn /\ Present
      BY Threads, DocType DEF PatchModify, Serving, HttpServes
<1>2. th' = [ th EXCEPT !["http"] = y ] /\ conn' = e
      BY <1>1 DEF PatchModify, Goto, DbSetStatus, DbUpdate, TypeOK, http, Thread
<1>3. http' = y /\ lc' = lc /\ y.pc = "remove" /\ y.job = http.job /\ y.doc = http.doc
      BY <1>1, <1>2, HttpLocal DEF ThreadState
<1>4. /\ e \in Conn /\ e.status = "MODIFYING" /\ e.evc = conn.evc /\ e.late = conn.late
      /\ e.partial = conn.partial /\ e.resp = conn.resp /\ e.onFail = conn.onFail
      /\ e.req = conn.req /\ e.inProgress = conn.inProgress
      BY <1>1, ConnFields, StatusNames DEF Conn
<1> HIDE DEF e, y
<1>5. PICK c, d, W : c = e /\ d = Doc' /\ W = Pending
      OBVIOUS
<1>6. (d = Doc /\ Busy) \/ (d = e /\ ~ Busy /\ Doc = conn)
      BY <1>2, <1>3, <1>5 DEF Doc, Busy
<1>7. /\ d.evc = Doc.evc /\ d.late = Doc.late /\ d.partial = Doc.partial
      /\ d.resp = Doc.resp /\ d.onFail = Doc.onFail
      BY <1>4, <1>6
<1>8. Followed(d, W)'
      BY <1>5, <1>7, FollowedSame DEF PatchModify, Serving
<1>9. UNCHANGED << attempt, breakdown, request >>
      BY DEF PatchModify
<1>10. Whole(e)
       BY <1>1, <1>4 DEF Whole, Provisioned
<1>11. Current(e)
       BY <1>4 DEF Serving, Coherent, Current
<1>12. Coherent(c, d)
       BY <1>1, <1>4, <1>5, <1>6, <1>10, <1>11 DEF Serving, Coherent
<1>13. Coherent(c, d)'
       BY <1>9, <1>12, CoherentSame
<1>14. Whole(conn)'
       BY <1>2, <1>5, <1>9, <1>10, CopySame
<1>15. LcServes'
       BY <1>2, <1>3, <1>4, <1>9 DEF Serving, LcServes, Busy
<1>16. HttpServes'
       BY <1>1, <1>3, <1>14 DEF HttpServes, ReadUp, Serving
<1>17. conn' = c /\ Pending' = W /\ Present'
       BY <1>2, <1>3, <1>4, <1>5, PatchAssumption DEF Pending, Present
<1> QED
    BY <1>5, <1>8, <1>13, <1>15, <1>16, <1>17, ServingIntro

LEMMA HttpMode ==
    ASSUME Mode
    PROVE  /\ http.pc \in { "modify", "remove", "send" } => Serving
           /\ http.pc = "drop" => Removed
           /\ http.pc = "reset" /\ http.job = "new" => Removed
           /\ http.pc = "reset" /\ http.job = "old" => PatchPlaces
           /\ http.pc \in { "plan", "mark", "publish", "reject" } => PatchPlaces
           /\ http.pc \in { "idle", "wait" } => Serving \/ LcPlaces \/ Ended
<1>1. Serving => http.pc \in { "idle", "wait", "modify", "remove", "send" }
      BY DEF Serving, HttpServes
<1>2. Removed => http.pc \in { "drop", "reset" } /\ http.job = "new"
      BY DEF Removed
<1>3. PatchPlaces => /\ http.pc \in { "reset", "plan", "mark", "publish", "reject" }
                     /\ http.pc = "reset" => http.job = "old"
      BY DEF PatchPlaces
<1>4. LcPlaces \/ Ended => http.pc \in { "idle", "wait" }
      BY DEF LcPlaces, Ended
<1> QED
    BY <1>1, <1>2, <1>3, <1>4 DEF Mode

LEMMA LcMode ==
    ASSUME Mode, TypeOK
    PROVE  /\ lc.pc \in { "cleanup", "late" } => Serving
           /\ lc.pc = "save" => Serving \/ Removed \/ Ended
           /\ lc.pc \in { "begin", "reset", "plan", "mark", "publish" } => LcPlaces
           /\ lc.pc \in { "idle", "cleanup", "late", "save", "begin", "reset", "plan",
                          "mark", "publish" }
           /\ lc.job \in { "none", "old" }
<1>1. Serving => lc.pc \in { "idle", "cleanup", "late", "save" } /\ lc.job = "none"
      BY DEF Serving, LcServes, Busy
<1>2. Removed \/ Ended => lc.pc \in { "idle", "save" } /\ lc.job = "none"
      BY DEF Removed, Ended
<1>3. PatchPlaces => lc.pc = "idle" /\ lc.job = "none"
      BY IdleType DEF PatchPlaces, Quiet, NoneUnderWay, lc
<1>4. LcPlaces => lc.pc \in { "begin", "reset", "plan", "mark", "publish" } /\ lc.job = "old"
      BY DEF LcPlaces
<1> QED
    BY <1>1, <1>2, <1>3, <1>4 DEF Mode

\* What LcPlaces and Ended say of the document: it is not up, and nothing
\* makes it MODIFYING.
LEMMA NotUp ==
    ASSUME TypeOK, LcPlaces \/ Ended
    PROVE  Present /\ conn.status \in { "DOWN", "REQUESTED", "REJECTED", "UNDER_PROVISIONING" }
<1>1. CASE Ended
      BY <1>1 DEF Ended, Unplaced
<1>2. CASE LcPlaces
  <2>1. lc.pc \in { "begin", "reset" } => conn.status = "DOWN"
        BY <1>2 DEF LcPlaces
  <2>2. lc.pc \in { "plan", "mark", "publish" } => conn.status \in { "REQUESTED", "UNDER_PROVISIONING" }
        BY <1>2 DEF LcPlaces, Placing
  <2> QED
      BY <1>2, <2>1, <2>2 DEF LcPlaces
<1> QED
    BY <1>1, <1>2

LEMMA ReadMode ==
    ASSUME TypeOK, OnlyUpModifies, Mode, PatchRead
    PROVE  Mode'
<1> USE DEF wires
<1> DEFINE y == [ Idle EXCEPT !.pc = "modify", !.job = "new", !.doc = conn ]
<1>1. Present /\ conn \in Conn /\ conn.status = "UP"
      BY DEF PatchRead, Present, TypeOK, OnlyUpModifies, Conn
<1>2. http.pc = "idle"
      BY IdleType DEF PatchRead, http
<1>3. Serving
      BY <1>1, <1>2, HttpMode, NotUp
<1>4. Whole(conn) /\ ~ conn.partial /\ conn.late = {}
      BY <1>1, <1>3 DEF Serving, Coherent, Whole, Coming, Failed
<1>5. y.pc = "modify" /\ y.job = "new" /\ y.doc = conn
      BY DEF Idle
<1>6. th' = [ th EXCEPT !["http"] = y ]
      BY DEF PatchRead
<1> HIDE DEF y
<1> QED
    BY <1>3, <1>4, <1>5, <1>6, ServingHttp DEF PatchRead, Mode

LEMMA RemoveReadMode ==
    ASSUME TypeOK, Mode, RemoveRead("http")
    PROVE  Mode'
<1> USE DEF wires, counters
<1> DEFINE y == [ http EXCEPT !.pc = "send", !.brk = breakdown, !.doc.evc = conn.evc ]
<1>1. http.pc = "remove" /\ http \in ThreadState /\ http.doc \in Conn
      BY Threads DEF RemoveRead
<1>2. Serving
      BY <1>1, HttpMode
<1>3. http.job = "new" /\ ReadUp /\ Whole(conn)
      BY <1>1, <1>2 DEF Serving, HttpServes
<1>4. /\ y.pc = "send" /\ y.job = "new" /\ y.brk = breakdown
      /\ y.doc.evc = conn.evc /\ y.doc.partial = http.doc.partial /\ y.doc.late = http.doc.late
      BY <1>1, <1>3 DEF ThreadState, Conn
<1>5. th' = [ th EXCEPT !["http"] = y ]
      BY DEF RemoveRead, http
<1> HIDE DEF y
<1> QED
    BY <1>2, <1>3, <1>4, <1>5, ServingHttp DEF RemoveRead, ReadUp, Mode

LEMMA RemoveSendMode ==
    ASSUME TypeOK, Deleting, Mode, RemoveSend("http")
    PROVE  Mode'
<1> DEFINE y == [ http EXCEPT !.pc = "drop" ]
<1>1. http.pc = "send" /\ http \in ThreadState /\ http.doc \in Conn
      BY Threads DEF RemoveSend
<1>2. Serving
      BY <1>1, HttpMode
<1>3. /\ http.job = "new" /\ ReadUp /\ Whole(conn)
      /\ http.brk = breakdown /\ http.doc.evc = conn.evc
      BY <1>1, <1>2 DEF Serving, HttpServes
<1>4. y.pc = "drop" /\ y.job = "new" /\ y.doc = http.doc
      BY <1>1, <1>3 DEF ThreadState
<1>5. th' = [ th EXCEPT !["http"] = y ] /\ toLC' = Deletes(breakdown, http.doc)
      BY <1>3 DEF RemoveSend, Goto, http
<1>6. http' = y /\ lc' = lc
      BY <1>5, HttpLocal
<1> HIDE DEF y
<1>7. Whole(Doc) /\ Current(Doc) /\ Followed(Doc, Pending)
      BY <1>2, <1>3 DEF Serving, Coherent
<1>8. Cleared'
  <2>1. PICK d, W : d = Doc /\ W = Pending
        OBVIOUS
  <2>2. Provisioned(d) = breakdown
        BY <1>7, <2>1 DEF Whole
  <2>3. \A g \in breakdown : http.doc.evc[g] = attempt
        BY <1>3 DEF Whole, Provisioned
  <2>4. UNCHANGED << inbox, evcs, attempt >>
        BY DEF RemoveSend, counters
  <2>5. attempt >= 1
        BY DEF Deleting
  <2> QED
      BY <1>1, <1>5, <1>7, <2>1, <2>2, <2>3, <2>4, <2>5, DeletesClear
<1>9. conn' = conn /\ Present /\ conn.status \in { "UP", "MODIFYING" }
      BY <1>2, <1>3 DEF RemoveSend, Serving, Whole
<1>10. lc.pc \in { "idle", "save" } /\ lc.job = "none"
       /\ (lc.pc = "save" => lc.doc.status \in { "UP", "MODIFYING" })
  <2>1. Busy => ~ lc.doc.partial /\ lc.doc.status \in { "UP", "MODIFYING" }
        BY <1>7 DEF Whole, Doc
  <2> QED
      BY <1>2, <2>1 DEF Serving, LcServes, Busy
<1> QED
    BY <1>3, <1>4, <1>6, <1>8, <1>9, <1>10 DEF Removed, ReadUp, Present, Mode

LEMMA RemoveDropMode ==
    ASSUME TypeOK, Mode, RemoveDrop("http")
    PROVE  Mode'
<1> DEFINE y == [ http EXCEPT !.pc = "reset" ]
<1>1. http.pc = "drop" /\ http \in ThreadState
      BY Threads DEF RemoveDrop
<1>2. Removed
      BY <1>1, HttpMode
<1>3. y.pc = "reset" /\ y.job = "new" /\ y.doc = http.doc
      BY <1>1, <1>2 DEF ThreadState, Removed
<1>4. th' = [ th EXCEPT !["http"] = y ] /\ conn' = NoConn
      BY DEF RemoveDrop, Goto, http
<1>5. http' = y /\ lc' = lc
      BY <1>4, HttpLocal
<1> HIDE DEF y
<1>6. Cleared'
      BY <1>2, ClearedSame DEF RemoveDrop, Removed
<1> QED
    BY <1>2, <1>3, <1>4, <1>5, <1>6 DEF Removed, ReadUp, Present, Mode

(***************************************************************************)
(* A placement, by either thread.                                          *)
(***************************************************************************)
\* The document c is stored, to be placed.
Stores(t, c, job) ==
    /\ c \in Conn /\ c.status = "REQUESTED"
    /\ c.count = 0 /\ c.resp = {} /\ c.evc = NoIds
    /\ ~ c.partial /\ c.late = {} /\ ~ c.inProgress
    /\ c.onFail <=> job = "new"
    /\ conn' = c /\ th'[t].pc = "plan" /\ th'[t].doc = c /\ th'[t].job = job

LEMMA StoresPlacing ==
    ASSUME NEW t, NEW c, NEW job, Stores(t, c, job)
    PROVE  Placing(t)' /\ Present' /\ th'[t].pc = "plan" /\ th'[t].job = job
BY PatchAssumption DEF Stores, Placing, Present

LEMMA RestoredFields ==
    ASSUME NEW r
    PROVE  LET c == Restored(r) IN
           /\ c.status = "REQUESTED" /\ c.count = 0 /\ c.resp = {} /\ c.evc = NoIds
           /\ ~ c.partial /\ c.late = {} /\ ~ c.inProgress /\ ~ c.onFail /\ c.performed
BY DEF Restored

LEMMA PatchedFields ==
    ASSUME NEW c \in Conn
    PROVE  LET d == Patched(c) IN
           /\ d.status = "REQUESTED" /\ d.count = 0 /\ d.resp = {} /\ d.evc = NoIds
           /\ d.partial = c.partial /\ d.late = c.late /\ ~ d.inProgress /\ d.onFail
BY DEF Patched, Conn

LEMMA PlanPlaces ==
    ASSUME TypeOK, NEW t \in Thread, Deleting, Placing(t), PlacePlan(t)
    PROVE  /\ Placing(t)' /\ Present' /\ UNCHANGED << conn, wires >>
           /\ \E y : /\ th' = [ th EXCEPT ![t] = y ]
                     /\ y.pc = "mark" /\ y.job = th[t].job
<1> USE DEF wires
<1> DEFINE x == th[t]
           y == [ x EXCEPT !.pc = "mark", !.brk = Plan[x.doc.req], !.id = attempt' ]
<1>1. x \in ThreadState /\ x.doc \in Conn /\ x.pc = "plan"
      BY ThreadShape DEF PlacePlan, At
<1>2. x.doc.req \in Request /\ Plan[x.doc.req] # {}
      BY <1>1, ConnShape, PatchAssumption
<1>3. th' = [ th EXCEPT ![t] = y ] /\ th'[t] = y
      BY DEF PlacePlan, TypeOK
<1>4. y.pc = "mark" /\ y.job = x.job /\ y.doc = x.doc /\ y.brk = Plan[x.doc.req] /\ y.id = attempt'
      BY <1>1 DEF ThreadState
<1>5. attempt' = attempt + 1 /\ attempt \in Nat
      BY DEF PlacePlan, TypeOK
<1>6. request'[attempt'] = x.doc.req
      BY <1>2, <1>5, AppendProperties DEF PlacePlan, TypeOK
<1>7. \A g \in Segment : ~ Leaving(g, attempt)'
  <2>1. PICK n : n = attempt + 1
        OBVIOUS
  <2>2. ASSUME NEW g \in Segment, Leaving(g, n)
        PROVE  FALSE
    <3> DEFINE o == [ op |-> "delete", id |-> n ]
    <3>1. o \in Removals(g) /\ o.id = n
          BY <2>2 DEF Leaving
    <3>2. n <= attempt
          BY <3>1 DEF Deleting
    <3> QED
        BY <1>5, <2>1, <3>2
  <2>3. \A g \in Segment : ~ Leaving(g, n)'
        BY <2>2, SameWires DEF PlacePlan
  <2> QED
      BY <1>5, <2>1, <2>3
<1>8. conn' = conn /\ conn = x.doc /\ breakdown' = Plan[x.doc.req] /\ UNCHANGED << toLC, inbox, evcs >>
      BY DEF PlacePlan, Placing
<1> HIDE DEF y
<1>9. Placing(t)'
      BY <1>1, <1>2, <1>3, <1>4, <1>6, <1>7, <1>8 DEF Placing
<1> QED
    BY <1>1, <1>3, <1>4, <1>8, <1>9, PatchAssumption DEF Present

LEMMA MarkPlaces ==
    ASSUME TypeOK, NEW t \in Thread, Placing(t), PlaceMark(t)
    PROVE  /\ Placing(t)' /\ Present' /\ UNCHANGED << breakdown, wires >>
           /\ conn'.onFail = conn.onFail /\ conn'.performed = conn.performed
           /\ \E y : /\ th' = [ th EXCEPT ![t] = y ]
                     /\ y.pc = "publish" /\ y.job = th[t].job
<1> USE DEF wires, counters
<1> DEFINE x == th[t]
           c == [ conn EXCEPT !.status = "UNDER_PROVISIONING" ]
           y == [ x EXCEPT !.pc = "publish", !.doc.status = "UNDER_PROVISIONING" ]
<1>1. x \in ThreadState /\ x.doc \in Conn /\ x.pc = "mark" /\ conn = x.doc
      BY ThreadShape DEF PlaceMark, At, Placing
<1>2. Present
      BY <1>1, PatchAssumption DEF Present
<1>3. th' = [ th EXCEPT ![t] = y ] /\ th'[t] = y /\ conn' = c
      BY <1>2 DEF PlaceMark, TypeOK, DbSetStatus, DbUpdate
<1>4. y.pc = "publish" /\ y.job = x.job /\ y.brk = x.brk /\ y.id = x.id /\ y.doc = c
      BY <1>1 DEF ThreadState
<1>5. /\ c \in Conn /\ c.status = "UNDER_PROVISIONING"
      /\ c.count = conn.count /\ c.resp = conn.resp /\ c.evc = conn.evc /\ c.partial = conn.partial
      /\ c.late = conn.late /\ c.inProgress = conn.inProgress /\ c.onFail = conn.onFail
      /\ c.performed = conn.performed /\ c.req = conn.req
      BY <1>1, ConnFields, StatusNames DEF Conn
<1> HIDE DEF c, y
<1>6. \A g \in Segment : ~ Leaving(g, attempt)'
      BY <1>1, SameWires DEF PlaceMark, Placing
<1>7. UNCHANGED << breakdown, toLC, inbox, evcs, attempt, request >>
      BY DEF PlaceMark
<1>8. Placing(t)'
      BY <1>1, <1>3, <1>4, <1>5, <1>6, <1>7 DEF Placing
<1> QED
    BY <1>3, <1>4, <1>5, <1>7, <1>8, PatchAssumption DEF Present

LEMMA PublishServes ==
    ASSUME TypeOK, NEW t \in Thread, Deleting, Cleared, Placing(t), PlacePublish(t),
           th[t].job = "new" => Quiet,
           http'.pc \in { "idle", "wait" }, lc' = Idle
    PROVE  Serving'
<1> DEFINE x == th[t]
<1>1. x \in ThreadState /\ x.doc \in Conn /\ x.pc = "publish" /\ conn = x.doc
      BY ThreadShape DEF PlacePublish, At, Placing
<1>2. PICK c : c = conn
      OBVIOUS
<1>3. /\ c \in Conn /\ c.status = "UNDER_PROVISIONING"
      /\ c.count = 0 /\ c.resp = {} /\ c.evc = NoIds
      /\ ~ c.partial /\ c.late = {} /\ ~ c.inProgress
      /\ c.onFail => x.job = "new"
      /\ breakdown # {} /\ request[attempt] = c.req /\ x.brk = breakdown /\ x.id = attempt
      /\ \A g \in Segment : ~ Leaving(g, attempt)
      BY <1>1, <1>2 DEF Placing
<1>4. attempt >= 1 /\ attempt \in Nat /\ breakdown \in SUBSET Segment
      BY DEF Deleting, TypeOK
<1>5. UNCHANGED << conn, breakdown, inbox, evcs, attempt, request >>
      BY DEF PlacePublish, counters
<1>6. toLC' = Publish("post", breakdown, [ g \in Segment |-> attempt ])
      BY <1>3 DEF PlacePublish, Creates
<1>7. c.onFail => \A g \in Segment : Removals(g) = {} /\ Replies("delete", g) = {}
  <2> SUFFICES ASSUME Quiet, NEW g \in Segment
               PROVE  Removals(g) = {} /\ Replies("delete", g) = {}
      BY <1>3
  <2> QED
      BY DEF Quiet, NoneUnderWay, Removals, Replies, Members
<1>8. Followed(c, {})'
      BY <1>3, <1>4, <1>5, <1>6, <1>7, CreatesFollow
<1>9. \A g \in Segment : c.evc[g] = 0
      BY <1>3 DEF NoIds
<1>10. Provisioned(c) = {}
       BY <1>4, <1>9 DEF Provisioned
<1>11. Coming(c)
       BY <1>3, <1>10, FS_EmptySet DEF Coming
<1>12. Current(c) /\ ~ Whole(c)
       BY <1>3, <1>9 DEF Current, Whole
<1>13. Coherent(c, c)
       BY <1>3, <1>11, <1>12 DEF Coherent
<1>14. Coherent(c, c)'
       BY <1>5, <1>13, CoherentSame
<1>15. lc'.pc = "idle" /\ lc'.job = "none"
       BY IdleType
<1>16. HttpServes'
       BY DEF HttpServes
<1>17. LcServes'
       BY <1>15 DEF LcServes, Busy
<1>18. Doc' = c /\ Pending' = {} /\ conn' = c /\ Present'
       BY <1>2, <1>3, <1>5, <1>15, PatchAssumption DEF Doc, Busy, Pending, Present
<1> QED
    BY <1>8, <1>14, <1>16, <1>17, <1>18, ServingIntro

(***************************************************************************)
(* The HTTP thread.                                                        *)
(***************************************************************************)
LEMMA QuietSame ==
    ASSUME Quiet, UNCHANGED << toLC, inbox >>, lc' = lc
    PROVE  Quiet'
BY DEF Quiet, NoneUnderWay, lc

LEMMA StoreMode ==
    ASSUME TypeOK, Mode, PatchReset \/ PatchUndo, Unhurt(Excused)'
    PROVE  Mode'
<1> USE DEF wires
<1>1. http.pc = "reset" /\ http \in ThreadState /\ http.doc \in Conn /\ http.doc.back \in Request
      BY Threads, ConnShape DEF PatchReset, PatchUndo
<1>2. UNCHANGED wires
      BY DEF PatchReset, PatchUndo
<1>3. ASSUME NEW c, NEW job \in { "new", "old" }, http.job = job,
             c \in Conn, c.status = "REQUESTED", c.count = 0, c.resp = {}, c.evc = NoIds,
             ~ c.partial, c.late = {}, ~ c.inProgress, c.onFail <=> job = "new",
             conn' = c, th' = [ th EXCEPT !["http"].pc = "plan", !["http"].doc = c ],
             Quiet, Cleared
      PROVE  Mode'
  <2> DEFINE y == [ http EXCEPT !.pc = "plan", !.doc = c ]
  <2>1. th' = [ th EXCEPT !["http"] = y ]
        BY <1>1, <1>3 DEF http, TypeOK, Thread
  <2>2. y.pc = "plan" /\ y.doc = c /\ y.job = job
        BY <1>1, <1>3 DEF ThreadState
  <2> HIDE DEF y
  <2>3. http' = y /\ lc' = lc /\ th'["http"] = y
        BY <2>1, HttpLocal DEF http
  <2>4. Stores("http", c, job)
        BY <1>3, <2>2, <2>3 DEF Stores
  <2>5. Placing("http")'
        BY <2>4, StoresPlacing
  <2>6. Quiet' /\ Cleared'
        BY <1>2, <1>3, <2>3, QuietSame, ClearedSame
  <2> QED
      BY <1>3, <2>2, <2>3, <2>5, <2>6 DEF PatchPlaces, Mode
<1>4. CASE PatchReset
  <2> DEFINE c == Patched(http.doc)
  <2>1. http.job = "new" /\ Quiet /\ conn' = c
    <3>1. Unhurt({"stuck", "hasty"})'
          BY DEF Unhurt, Excused
    <3> QED
        BY <1>4, <3>1, ResetQuiet DEF PatchReset, DbAdd, http
  <2>2. Removed
        BY <1>1, <2>1, HttpMode
  <2>3. c \in Conn /\ c.status = "REQUESTED"
        BY <1>1, PatchedType
  <2>4. /\ c.count = 0 /\ c.resp = {} /\ c.evc = NoIds
        /\ c.partial = http.doc.partial /\ c.late = http.doc.late /\ ~ c.inProgress /\ c.onFail
        BY <1>1, PatchedFields
  <2>5. ~ http.doc.partial /\ http.doc.late = {} /\ Cleared
        BY <2>2 DEF Removed, ReadUp
  <2>6. th' = [ th EXCEPT !["http"].pc = "plan", !["http"].doc = c ]
        BY <1>1, <1>4 DEF PatchReset, TypeOK, Thread, ThreadState, http
  <2> HIDE DEF c
  <2> QED
      BY <1>3, <2>1, <2>3, <2>4, <2>5, <2>6
<1>5. CASE PatchUndo
  <2> DEFINE c == Restored(http.doc.back)
  <2>1. http.job = "old" /\ conn' = c
        BY <1>5 DEF PatchUndo, DbAdd, http
  <2>2. PatchPlaces
        BY <1>1, <2>1, HttpMode
  <2>3. c \in Conn /\ c.status = "REQUESTED"
        BY <1>1, RestoredType
  <2>4. /\ c.count = 0 /\ c.resp = {} /\ c.evc = NoIds
        /\ ~ c.partial /\ c.late = {} /\ ~ c.inProgress /\ ~ c.onFail
        BY RestoredFields
  <2>5. th' = [ th EXCEPT !["http"].pc = "plan", !["http"].doc = c ]
        BY <1>5 DEF PatchUndo, http
  <2>6. Quiet /\ Cleared
        BY <2>2 DEF PatchPlaces
  <2> HIDE DEF c
  <2> QED
      BY <1>3, <2>1, <2>3, <2>4, <2>5, <2>6
<1> QED
    BY <1>4, <1>5

LEMMA PatchPlaceMode ==
    ASSUME TypeOK, Deleting, Mode,
           PlaceFails("http") \/ PlacePlan("http") \/ PlaceMark("http") \/ PlacePublish("http")
    PROVE  Mode'
<1> USE DEF wires
<1>1. /\ http.pc \in { "plan", "mark", "publish" } /\ http \in ThreadState /\ http.doc \in Conn
      /\ "http" \in Thread /\ th["http"] = http
      BY Threads DEF PlaceFails, PlacePlan, PlaceMark, PlacePublish, Thread, http
<1>2. PatchPlaces /\ Quiet /\ Cleared /\ Placing("http") /\ http.job \in { "new", "old" }
      BY <1>1, HttpMode DEF PatchPlaces
<1>3. ASSUME NEW y, th' = [ th EXCEPT !["http"] = y ], UNCHANGED wires, y.job \in { "new", "old" },
             \/ y.pc \in { "plan", "mark", "publish" } /\ Placing("http")'
             \/ y.pc = "reset" /\ y.job = "old"
             \/ y.pc = "reject" /\ y.job = "old" /\ Present' /\ conn' = conn /\ Unplaced(conn)
      PROVE  Mode'
  <2>1. http' = y /\ lc' = lc
        BY <1>3, HttpLocal
  <2>2. Quiet' /\ Cleared'
        BY <1>2, <1>3, <2>1, QuietSame, ClearedSame
  <2>3. conn' = conn /\ Unplaced(conn) => Unplaced(conn)'
        BY DEF Unplaced
  <2> QED
      BY <1>3, <2>1, <2>2, <2>3 DEF PatchPlaces, Mode
<1>4. CASE PlaceFails("http")
  <2> DEFINE y == AfterFailure("http")
  <2>1. th' = [ th EXCEPT !["http"] = y ] /\ http.pc = "plan"
        BY <1>4, Threads DEF PlaceFails
  <2>2. CASE http.job = "new"
    <3>1. y.pc = "reset" /\ y.job = "old"
          BY <1>1, <2>2 DEF AfterFailure, ThreadState
    <3> HIDE DEF y
    <3> QED
        BY <1>3, <1>4, <2>1, <3>1 DEF PlaceFails
  <2>3. CASE http.job = "old"
    <3>1. y.pc = "reject" /\ y.job = "old"
          BY <1>1, <2>3 DEF AfterFailure, ThreadState
    <3>2. Unplaced(conn) /\ Present
          BY <1>1, <1>2, <2>1, <2>3, PatchAssumption DEF Placing, Unplaced, Present
    <3>3. conn' = conn /\ Present'
          BY <1>4, <3>2 DEF PlaceFails, Present
    <3> HIDE DEF y
    <3> QED
        BY <1>3, <1>4, <2>1, <3>1, <3>2, <3>3 DEF PlaceFails
  <2> QED
      BY <1>2, <2>2, <2>3
<1>5. CASE PlacePlan("http")
      BY <1>1, <1>2, <1>3, <1>5, PlanPlaces
<1>6. CASE PlaceMark("http")
      BY <1>1, <1>2, <1>3, <1>6, MarkPlaces
<1>7. CASE PlacePublish("http")
  <2> DEFINE y == [ http EXCEPT !.pc = "wait" ]
  <2>1. th' = [ th EXCEPT !["http"] = y ] /\ y.pc = "wait"
        BY <1>1, <1>7 DEF PlacePublish, ThreadState
  <2> HIDE DEF y
  <2>2. http'.pc = "wait" /\ lc' = Idle
        BY <1>2, <2>1, HttpLocal DEF Quiet, NoneUnderWay, lc
  <2> QED
      BY <1>1, <1>2, <1>7, <2>2, PublishServes DEF Mode
<1> QED
    BY <1>4, <1>5, <1>6, <1>7

LEMMA RejectMode ==
    ASSUME TypeOK, Mode, PatchReject
    PROVE  Mode'
<1> USE DEF wires
<1> DEFINE c == [ conn EXCEPT !.status = "REJECTED" ]
<1>1. http.pc = "reject" /\ PatchPlaces
      BY Threads, HttpMode DEF PatchReject
<1>2. Present /\ Unplaced(conn) /\ Quiet /\ Cleared /\ conn \in Conn
      BY <1>1 DEF PatchPlaces, Present, TypeOK
<1>3. c \in Conn /\ c.status = "REJECTED" /\ c.onFail = conn.onFail
      BY <1>2, ConnFields, StatusNames DEF Conn
<1>4. conn' = c /\ th' = [ th EXCEPT !["http"] = Idle ]
      BY <1>2 DEF PatchReject, DbSetStatus, DbUpdate, Answered
<1> HIDE DEF c
<1>5. http' = Idle /\ lc' = Idle
      BY <1>2, <1>4, HttpLocal DEF Quiet, NoneUnderWay, lc
<1>6. Cleared'
      BY <1>2, ClearedSame DEF PatchReject
<1>7. Present' /\ Unplaced(conn)'
      BY <1>2, <1>3, <1>4, PatchAssumption DEF Present, Unplaced
<1> QED
    BY <1>5, <1>6, <1>7, IdleType DEF Ended, Mode

\* The HTTP thread answers, or sets out to go back to the old request.
LEMMA AnsweredMode ==
    ASSUME TypeOK, Mode, http.pc = "wait", NEW r, Answered(r),
           UNCHANGED << conn, breakdown, wires, attempt, request >>
    PROVE  Mode'
<1> USE DEF wires
<1>1. th' = [ th EXCEPT !["http"] = Idle ] /\ Idle.pc = "idle"
      BY IdleType DEF Answered
<1>2. http' = Idle /\ lc' = lc /\ th'["lc"] = th["lc"]
      BY <1>1, HttpLocal, HttpMoves
<1>3. Cleared => Cleared'
      BY ClearedSame
<1>4. CASE Serving
      BY <1>1, <1>4, ServingHttp DEF Mode
<1>5. CASE LcPlaces
  <2>1. Placing("lc") => Placing("lc")'
        BY <1>2, SameWires DEF Placing
  <2> QED
      BY <1>1, <1>2, <1>3, <1>5, <2>1 DEF LcPlaces, Present, Mode
<1>6. CASE Ended
      BY <1>1, <1>2, <1>3, <1>6 DEF Ended, Present, Unplaced, Mode
<1> QED
    BY <1>4, <1>5, <1>6, HttpMode

LEMMA WaitMode ==
    ASSUME TypeOK, LostInv, Unhurt(Excused), WaitsFor, Mode, Unhurt(Excused)',
           PatchWait \/ PatchExpires \/ PatchWaitOld
    PROVE  Mode'
<1>1. http.pc = "wait" /\ UNCHANGED << conn, breakdown, wires, attempt, request >>
      BY Threads DEF PatchWait, PatchExpires, PatchWaitOld, counters
<1>2. CASE \E r : Answered(r)
      BY <1>1, <1>2, AnsweredMode
<1>3. CASE ~ \E r : Answered(r)
  <2>1. PatchWait
        BY <1>3 DEF PatchExpires, PatchWaitOld, Unhurt, Excused
  <2>2. Settled /\ ~ (Present /\ conn.status = "UP") /\ ~ LcUndoes
        BY <1>3, <2>1 DEF PatchWait, Unhurt, Excused
  <2>3. http.job = "new"
        BY <2>1 DEF PatchWait, http
  <2>4. ~ LcPlaces
        BY <2>2 DEF LcUndoes, LcPlaces, lc
  <2>5. ~ Ended
        BY <1>1, <2>2, <2>3 DEF LcUndoes, Ended, Unplaced, WaitsFor
  <2>6. Serving
        BY <1>1, <2>4, <2>5, HttpMode
  <2>7. Present /\ conn.onFail
        BY <1>1, <2>2, <2>3, <2>6 DEF LcUndoes, WaitsFor, Serving
  <2>8. conn.status # "MODIFYING"
        BY <1>1, <2>7 DEF LostInv, Modifying, Shows, Between, Unhurt, Excused, http
  <2>9. Failed(conn)
        BY <2>2, <2>6, <2>7, <2>8 DEF Serving, Coherent, Whole, Coming, Settled
  <2>10. Cardinality(conn.resp) < Cardinality(breakdown)
         BY <2>6, <2>7, <2>9 DEF Serving, Coherent, Failed
  <2>11. Cardinality(conn.resp) >= Cardinality(breakdown)
         BY <2>2, <2>7, <2>9 DEF Settled, Failed
  <2>12. Cardinality(conn.resp) \in Nat /\ Cardinality(breakdown) \in Nat
    <3>1. conn.resp \in SUBSET Segment /\ breakdown \in SUBSET Segment
          BY <2>7, ConnShape DEF Present, TypeOK
    <3> QED
        BY <3>1, PatchAssumption, FS_Subset, FS_CardinalityType
  <2> QED
      BY <2>10, <2>11, <2>12
<1> QED
    BY <1>2, <1>3

(***************************************************************************)
(* The LC thread.                                                          *)
(***************************************************************************)
\* It takes up an answer with copy c.
LEMMA HandleIs ==
    ASSUME TypeOK, NEW pc, NEW c, NEW G, Handle(pc, c, G)
    PROVE  /\ http' = http /\ lc'.pc = pc /\ lc'.job = "none" /\ lc'.doc = c
           /\ lc'.brk = breakdown /\ lc'.seg = G
<1> DEFINE y == [ Idle EXCEPT !.pc = pc, !.doc = c, !.brk = breakdown, !.seg = G ]
<1>1. th' = [ th EXCEPT !["lc"] = y ]
      BY DEF Handle
<1>2. y.pc = pc /\ y.job = "none" /\ y.doc = c /\ y.brk = breakdown /\ y.seg = G
      BY DEF Idle
<1> HIDE DEF y
<1> QED
    BY <1>1, <1>2, LcMoves

\* A served connection: the answer is taken up with a copy c that is as
\* coherent as the document.
LEMMA ServingTakes ==
    ASSUME TypeOK, Deleting, Serving, lc.pc = "idle", LcReceive,
           NEW m, m = Head(inbox),
           NEW pc \in { "save", "late", "cleanup" }, NEW c, NEW G, Handle(pc, c, G),
           TakesAnswer(conn, m, c), Coherent(conn, c),
           m.op = "post" /\ ~ m.ok => c.partial,
           pc \in { "cleanup", "late" } => c.partial,
           pc = "late" => \A g \in G : g \in breakdown /\ c.evc[g] = attempt,
           m.op = "post" /\ m.ok /\ c.partial => pc = "late" /\ m.seg \in G,
           c.partial /\ ~ conn.partial => pc = "cleanup"
    PROVE  Serving'
<1>1. /\ http' = http /\ lc'.pc = pc /\ lc'.job = "none" /\ lc'.doc = c
      /\ lc'.brk = breakdown /\ lc'.seg = G
      BY HandleIs
<1>2. UNCHANGED << conn, breakdown, toLC, evcs, attempt, request >> /\ inbox # << >> /\ inbox' = Tail(inbox)
      BY DEF LcReceive, counters
<1>3. PICK k, W : k = conn /\ W = Pending'
      OBVIOUS
<1>4. W = IF pc = "cleanup" THEN Segment ELSE IF pc = "late" THEN G ELSE {}
      BY <1>1, <1>3 DEF Pending
<1>5. Present /\ k \in Conn /\ Doc = k /\ Pending = {}
      BY <1>3, DocType DEF Serving, Doc, Busy, Pending
<1>6. Followed(k, {})
      BY <1>5 DEF Serving
<1>7. attempt >= 1
      BY DEF Deleting
<1>8. Followed(c, W)'
      BY <1>2, <1>3, <1>4, <1>5, <1>6, <1>7, AnswerTaken
<1>9. Coherent(k, c)'
      BY <1>2, <1>3, CoherentSame
<1>10. LcServes'
       BY <1>1, <1>2 DEF LcServes, Busy, TakesAnswer
<1>11. Whole(conn) => Whole(conn)'
       BY <1>2, <1>3, CopySame
<1>12. HttpServes'
       BY <1>1, <1>2, <1>11 DEF Serving, HttpServes, ReadUp
<1>13. conn' = k /\ Doc' = c /\ Present'
       BY <1>1, <1>2, <1>3 DEF Doc, Busy, Serving, Present
<1> QED
    BY <1>3, <1>8, <1>9, <1>10, <1>12, <1>13, ServingIntro

\* What the answer to a create that is awaited finds.
LEMMA AnswerFinds ==
    ASSUME TypeOK, NEW m, inbox # << >>, m = Head(inbox), m.op = "post",
           NEW c, Followed(c, {})
    PROVE  /\ m.seg \in breakdown /\ m.seg \in Segment /\ c.evc[m.seg] = 0 /\ m.seg \notin c.late
           /\ m.id = attempt
<1>1. m \in Members(inbox) /\ m \in Answer
  <2>1. inbox \in Seq(Answer)
        BY DEF TypeOK
  <2> QED
      BY <2>1, TailParts
<1>2. m \in Replies("post", m.seg) /\ m.seg \in Segment
      BY <1>1 DEF Replies, AnswersOf, Answer
<1> QED
    BY <1>2 DEF Followed, Expected, Awaited

LEMMA RecordedFields ==
    ASSUME NEW c \in Conn, NEW m \in Answer
    PROVE  LET d == Recorded(c, m) IN
           /\ TakesAnswer(c, m, d)
           /\ d.status = c.status /\ d.count = c.count /\ d.partial = c.partial
           /\ d.inProgress = c.inProgress
           /\ d.req = c.req
           /\ d.evc[m.seg] = IF m.op = "delete" THEN c.evc[m.seg] ELSE IF m.ok THEN m.id ELSE 0
           /\ \A g \in Segment : g # m.seg => d.evc[g] = c.evc[g]
BY ConnShape DEF Recorded, Conn, Answer, TakesAnswer

\* The copies the LC thread takes.
LEMMA CreatedServing ==
    ASSUME TypeOK, Deleting, Serving, lc.pc = "idle", LcReceive,
           NEW m, m = Head(inbox), LcCreated(m)
    PROVE  Serving'
<1>1. Present /\ conn \in Conn /\ Doc = conn /\ Pending = {} /\ m.op = "post" /\ m.ok
      /\ ~ conn.partial /\ inbox # << >>
      BY DocType DEF Serving, Doc, Busy, Pending, LcReceive, LcCreated
<1>2. m \in Answer
      BY <1>1 DEF TypeOK
<1>3. PICK k : k = conn
      OBVIOUS
<1>4. Followed(k, {}) /\ Coherent(k, k)
      BY <1>1, <1>3 DEF Serving
<1>5. /\ m.seg \in breakdown /\ m.seg \in Segment /\ conn.evc[m.seg] = 0 /\ m.seg \notin conn.late
      /\ m.id = attempt
      BY <1>1, <1>3, <1>4, AnswerFinds
<1>6. attempt # 0 /\ attempt \in Nat /\ breakdown \in SUBSET Segment
      BY DEF Deleting, TypeOK
<1>7. ~ Whole(conn) /\ ~ Failed(conn) /\ Coming(conn)
  <2>1. ~ Whole(conn)
        BY <1>5, <1>6 DEF Whole, Provisioned
  <2>2. ~ Failed(conn)
        BY <1>1 DEF Failed
  <2> QED
      BY <1>3, <1>4, <2>1, <2>2 DEF Coherent
<1> DEFINE d == Recorded(conn, m)
           e == [ d EXCEPT !.count = d.count + 1 ]
           f == [ e EXCEPT !.status = "UP" ]
<1>8. /\ TakesAnswer(conn, m, d)
      /\ d.status = conn.status /\ d.count = conn.count /\ d.partial = conn.partial
      /\ d.inProgress = conn.inProgress
      /\ d.evc[m.seg] = attempt /\ \A g \in Segment : g # m.seg => d.evc[g] = conn.evc[g]
      BY <1>1, <1>2, <1>5, RecordedFields
<1>9. d \in Conn
      BY <1>1, <1>2, RecordedType
<1> HIDE DEF d
<1>10. /\ e \in Conn /\ e.count = conn.count + 1 /\ e.status = conn.status
       /\ e.resp = d.resp /\ e.evc = d.evc /\ e.late = d.late /\ e.onFail = d.onFail
       /\ e.partial = d.partial /\ e.inProgress = d.inProgress
       BY <1>8, <1>9, ConnFields DEF Conn
<1> HIDE DEF e
<1>11. /\ f.count = e.count /\ f.status = "UP"
       /\ f.resp = d.resp /\ f.evc = d.evc /\ f.late = d.late /\ f.onFail = d.onFail
       /\ f.partial = d.partial /\ f.inProgress = d.inProgress
       BY <1>10, StatusNames DEF Conn
<1> HIDE DEF f
<1>12. TakesAnswer(conn, m, e) /\ TakesAnswer(conn, m, f)
       BY <1>8, <1>10, <1>11 DEF TakesAnswer
<1>13. Provisioned(e) = Provisioned(conn) \cup {m.seg} /\ Provisioned(f) = Provisioned(e)
       BY <1>5, <1>6, <1>8, <1>10, <1>11 DEF Provisioned
<1>14. /\ IsFiniteSet(breakdown) /\ IsFiniteSet(Provisioned(conn)) /\ m.seg \notin Provisioned(conn)
       /\ Provisioned(e) \in SUBSET breakdown
  <2>1. IsFiniteSet(breakdown)
        BY <1>6, PatchAssumption, FS_Subset
  <2>2. Provisioned(conn) \in SUBSET breakdown /\ Provisioned(e) \in SUBSET breakdown
        BY DEF Provisioned
  <2> QED
      BY <1>5, <1>6, <2>1, <2>2, FS_Subset DEF Provisioned
<1>15. e.count = Cardinality(Provisioned(e))
       BY <1>7, <1>10, <1>13, <1>14, FS_AddElement DEF Coming
<1>16. Current(e) /\ Current(f)
       BY <1>3, <1>4, <1>5, <1>8, <1>10, <1>11 DEF Coherent, Current
<1>17. Coming(e)
       BY <1>1, <1>7, <1>8, <1>10, <1>12, <1>15 DEF Coming, TakesAnswer
<1>18. e.count = Cardinality(breakdown) => Whole(f)
  <2>1. e.count = Cardinality(breakdown) => Provisioned(e) = breakdown
        BY <1>14, <1>15, FS_Subset
  <2> QED
      BY <1>1, <1>7, <1>8, <1>11, <1>12, <1>13, <2>1 DEF Whole, TakesAnswer, Coming
<1>19. Coherent(conn, e) /\ (e.count = Cardinality(breakdown) => Coherent(conn, f))
       BY <1>3, <1>4, <1>7, <1>16, <1>17, <1>18 DEF Coherent
<1>20. CanComeUp(e.status)
       BY <1>7, <1>10, LegalAssumption DEF Coming, CanComeUp, CanMove, Needed, PlaceMoves, AnswerMoves
<1>21. IF e.count # Cardinality(breakdown) THEN Handle("save", e, {}) ELSE Handle("save", f, {})
       BY <1>20 DEF LcCreated, d, e, f
<1>22. ~ e.partial /\ ~ f.partial
       BY <1>1, <1>8, <1>10, <1>11
<1>23. CASE e.count # Cardinality(breakdown)
       BY <1>1, <1>12, <1>19, <1>21, <1>22, <1>23, ServingTakes
<1>24. CASE e.count = Cardinality(breakdown)
       BY <1>1, <1>12, <1>19, <1>21, <1>22, <1>24, ServingTakes
<1> QED
    BY <1>23, <1>24

LEMMA LateServing ==
    ASSUME TypeOK, Deleting, Serving, lc.pc = "idle", LcReceive,
           NEW m, m = Head(inbox), LcCreatedLate(m)
    PROVE  Serving'
<1>1. Present /\ conn \in Conn /\ Doc = conn /\ Pending = {} /\ m.op = "post" /\ m.ok
      /\ conn.partial /\ inbox # << >>
      BY DocType DEF Serving, Doc, Busy, Pending, LcReceive, LcCreatedLate
<1>2. m \in Answer
      BY <1>1 DEF TypeOK
<1>3. PICK k : k = conn
      OBVIOUS
<1>4. Followed(k, {}) /\ Coherent(k, k)
      BY <1>1, <1>3 DEF Serving
<1>5. /\ m.seg \in breakdown /\ m.seg \in Segment /\ conn.evc[m.seg] = 0 /\ m.seg \notin conn.late
      /\ m.id = attempt
      BY <1>1, <1>3, <1>4, AnswerFinds
<1>6. Failed(conn) /\ ~ Whole(conn)
      BY <1>1, <1>3, <1>4 DEF Coherent, Whole, Coming
<1> DEFINE d == Recorded(conn, m)
<1>7. /\ TakesAnswer(conn, m, d)
      /\ d.status = conn.status /\ d.partial = conn.partial /\ d.inProgress = conn.inProgress
      /\ d.evc[m.seg] = attempt /\ \A g \in Segment : g # m.seg => d.evc[g] = conn.evc[g]
      BY <1>1, <1>2, <1>5, RecordedFields
<1>8. Handle("late", d, {m.seg})
      BY <1>5 DEF LcCreatedLate
<1> HIDE DEF d
<1>9. Failed(d) /\ Current(d)
      BY <1>3, <1>4, <1>5, <1>6, <1>7 DEF Failed, Coherent, Current
<1>10. Coherent(conn, d)
       BY <1>3, <1>4, <1>6, <1>9 DEF Coherent
<1> QED
    BY <1>1, <1>5, <1>7, <1>8, <1>10, ServingTakes

LEMMA DeletedServing ==
    ASSUME TypeOK, Deleting, Serving, lc.pc = "idle", LcReceive,
           NEW m, m = Head(inbox), LcDeleted(m)
    PROVE  Serving'
<1>1. Present /\ conn \in Conn /\ Doc = conn /\ m.op = "delete" /\ m.ok /\ inbox # << >>
      BY DocType DEF Serving, Doc, Busy, LcReceive, LcDeleted
<1>2. m \in Answer
      BY <1>1 DEF TypeOK
<1>3. Coherent(conn, conn)
      BY <1>1 DEF Serving
<1> DEFINE d == Recorded(conn, m)
<1>4. /\ TakesAnswer(conn, m, d)
      /\ d.status = conn.status /\ d.count = conn.count /\ d.partial = conn.partial
      /\ d.inProgress = conn.inProgress /\ d.late = conn.late
      /\ \A g \in Segment : d.evc[g] = conn.evc[g]
  <2>1. /\ TakesAnswer(conn, m, d)
        /\ d.status = conn.status /\ d.count = conn.count /\ d.partial = conn.partial
        /\ d.inProgress = conn.inProgress
        BY <1>1, <1>2, RecordedFields
  <2>2. /\ d.evc[m.seg] = conn.evc[m.seg]
        /\ \A g \in Segment : g # m.seg => d.evc[g] = conn.evc[g]
        BY <1>1, <1>2, RecordedFields
  <2> HIDE DEF d
  <2>3. d.late = conn.late
        BY <2>1 DEF TakesAnswer
  <2> QED
      BY <2>1, <2>2, <2>3
<1>5. Handle("save", d, {})
      BY DEF LcDeleted
<1> HIDE DEF d
<1>6. Provisioned(d) = Provisioned(conn)
      BY <1>4 DEF Provisioned, TypeOK
<1>7. /\ Current(conn) => Current(d)
      /\ Whole(conn) => Whole(d)
      /\ Coming(conn) => Coming(d)
      /\ Failed(conn) => Failed(d)
      BY <1>4, <1>6 DEF Current, Whole, Coming, Failed
<1>8. Coherent(conn, d)
      BY <1>3, <1>7 DEF Coherent
<1>9. d.partial = conn.partial
      BY <1>4
<1> QED
    BY <1>1, <1>4, <1>5, <1>8, <1>9, ServingTakes

LEMMA FailedServing ==
    ASSUME TypeOK, Deleting, Serving, lc.pc = "idle", LcReceive,
           NEW m, m = Head(inbox), LcFailed(m)
    PROVE  Serving'
<1>1. Present /\ conn \in Conn /\ Doc = conn /\ Pending = {} /\ ~ m.ok /\ inbox # << >>
      BY DocType DEF Serving, Doc, Busy, Pending, LcReceive, LcFailed
<1>2. m \in Answer /\ m \in Members(inbox)
  <2>1. inbox \in Seq(Answer)
        BY DEF TypeOK
  <2> QED
      BY <1>1, <2>1, TailParts
<1>3. m.op = "post"
  <2>1. m.op \in { "post", "delete" } /\ m.seg \in Segment
        BY <1>2 DEF Answer
  <2>2. m.op = "delete" => m \in Replies("delete", m.seg)
        BY <1>2 DEF Replies, AnswersOf
  <2> QED
      BY <1>1, <2>1, <2>2 DEF Deleting
<1>4. PICK k : k = conn
      OBVIOUS
<1>5. Followed(k, {}) /\ Coherent(k, k)
      BY <1>1, <1>4 DEF Serving
<1>6. /\ m.seg \in breakdown /\ m.seg \in Segment /\ conn.evc[m.seg] = 0 /\ m.seg \notin conn.late
      /\ m.id = attempt
      BY <1>1, <1>3, <1>4, <1>5, AnswerFinds
<1>7. attempt # 0
      BY DEF Deleting, TypeOK
<1>8. ~ Whole(conn) /\ conn.status \in { "UNDER_PROVISIONING", "DOWN" }
  <2>1. ~ Whole(conn)
        BY <1>6, <1>7 DEF Whole, Provisioned
  <2> QED
      BY <1>4, <1>5, <2>1 DEF Coherent, Coming, Failed
<1> DEFINE d == Recorded(conn, m)
           e == [ d EXCEPT !.status = IF d.status \in { "MODIFYING", "UNDER_PROVISIONING" }
                                      THEN "DOWN" ELSE d.status ]
           f == [ e EXCEPT !.partial = TRUE ]
<1>9. /\ d \in Conn /\ TakesAnswer(conn, m, d)
      /\ d.status = conn.status /\ d.partial = conn.partial /\ d.inProgress = conn.inProgress
      /\ d.evc[m.seg] = 0 /\ \A g \in Segment : g # m.seg => d.evc[g] = conn.evc[g]
      BY <1>1, <1>2, <1>3, RecordedFields, RecordedType
<1>10. IF ~ e.partial THEN Handle("cleanup", f, {}) ELSE Handle("save", e, {})
       BY <1>3 DEF LcFailed
<1> HIDE DEF d
<1>11. /\ e.status = "DOWN" /\ e.partial = d.partial /\ e.resp = d.resp /\ e.evc = d.evc
       /\ e.late = d.late /\ e.onFail = d.onFail /\ e.inProgress = d.inProgress /\ e \in Conn
  <2>1. e = [ d EXCEPT !.status = "DOWN" ]
        BY <1>8, <1>9
  <2>2. "DOWN" \in Status
        BY StatusNames
  <2> HIDE DEF e
  <2>3. e \in Conn
        BY <1>9, <2>1, <2>2, ConnFields
  <2> QED
      BY <1>9, <2>1, <2>3 DEF Conn
<1> HIDE DEF e
<1>12. /\ f.status = "DOWN" /\ f.partial /\ f.resp = d.resp /\ f.evc = d.evc
       /\ f.late = d.late /\ f.onFail = d.onFail /\ f.inProgress = d.inProgress
       BY <1>11 DEF Conn
<1> HIDE DEF f
<1>13. TakesAnswer(conn, m, e) /\ TakesAnswer(conn, m, f)
       BY <1>9, <1>11, <1>12 DEF TakesAnswer
<1>14. Current(e) /\ Current(f)
       BY <1>4, <1>5, <1>6, <1>9, <1>11, <1>12 DEF Coherent, Current
<1>15. Failed(f) /\ (e.partial => Failed(e))
       BY <1>11, <1>12 DEF Failed
<1>16. Coherent(conn, f) /\ (e.partial => Coherent(conn, e))
       BY <1>4, <1>5, <1>8, <1>14, <1>15 DEF Coherent
<1>17. CASE e.partial
       BY <1>1, <1>3, <1>9, <1>10, <1>11, <1>13, <1>16, <1>17, ServingTakes
<1>18. CASE ~ e.partial
       BY <1>1, <1>3, <1>10, <1>12, <1>13, <1>16, <1>18, ServingTakes
<1> QED
    BY <1>17, <1>18

\* A connection that is removed, or has ended: there are answers to deletes only.
LEMMA ClearedTakes ==
    ASSUME TypeOK, Deleting, Cleared, LcReceive,
           th' = th \/ Present
    PROVE  /\ Cleared' /\ http' = http /\ conn' = conn
           /\ \/ lc' = lc
              \/ /\ lc'.pc = "save" /\ lc'.job = "none"
                 /\ lc'.doc.status = conn.status /\ lc'.doc.onFail = conn.onFail
<1>1. inbox # << >> /\ inbox' = Tail(inbox) /\ UNCHANGED << conn, toLC, evcs >>
      BY DEF LcReceive
<1>2. Cleared'
      BY <1>1, ClearedTaken
<1>3. PICK m : m = Head(inbox)
      OBVIOUS
<1>4. m \in Answer /\ m.seg \in Segment /\ m \in Replies(m.op, m.seg)
  <2>1. m \in Answer /\ m \in Replies(m.op, m.seg)
        BY <1>1, <1>3, InboxTaken
  <2> QED
      BY <2>1 DEF Answer
<1>5. m.op = "delete" /\ m.ok
  <2>1. m.op \in { "post", "delete" }
        BY <1>4 DEF Answer
  <2>2. m.op # "post"
        BY <1>4 DEF Cleared, Awaited
  <2> QED
      BY <1>4, <2>1, <2>2 DEF Deleting
<1>6. LcIgnore(m) \/ LcDeleted(m)
      BY <1>3, <1>5 DEF LcReceive, LcCreated, LcCreatedLate, LcFailed
<1>7. CASE th' = th
      BY <1>1, <1>2, <1>7 DEF http, lc
<1>8. CASE th' # th
  <2>1. LcDeleted(m) /\ Present /\ conn \in Conn
        BY <1>6, <1>8 DEF LcIgnore, LcDeleted, Known, Present, TypeOK
  <2> DEFINE d == Recorded(conn, m)
  <2>2. d.status = conn.status /\ d.onFail = conn.onFail
        BY <1>4, <2>1, RecordedFields DEF TakesAnswer
  <2>3. Handle("save", d, {})
        BY <2>1 DEF LcDeleted
  <2> HIDE DEF d
  <2>4. http' = http /\ lc'.pc = "save" /\ lc'.job = "none" /\ lc'.doc = d
        BY <2>3, HandleIs
  <2> QED
      BY <1>1, <1>2, <2>2, <2>4
<1> QED
    BY <1>7, <1>8

LEMMA ReceiveMode ==
    ASSUME TypeOK, Deleting, Mode, LcReceive
    PROVE  Mode'
<1>1. lc = Idle /\ lc.pc = "idle" /\ inbox # << >> /\ conn' = conn
      BY IdleType DEF LcReceive, lc
<1>2. PICK m : m = Head(inbox)
      OBVIOUS
<1>3. LcIgnore(m) \/ LcCreated(m) \/ LcCreatedLate(m) \/ LcDeleted(m) \/ LcFailed(m)
      BY <1>2 DEF LcReceive
<1>4. LcIgnore(m) => th' = th
      BY DEF LcIgnore
<1>5. th' = th \/ Present
      BY <1>3, <1>4 DEF LcCreated, LcCreatedLate, LcDeleted, LcFailed, Known
<1>6. CASE Serving
  <2>1. ~ LcIgnore(m)
        BY <1>6 DEF LcIgnore, Known, Serving, Coherent
  <2>2. Serving'
        BY <1>1, <1>2, <1>3, <1>6, <2>1, CreatedServing, LateServing, DeletedServing, FailedServing
  <2> QED
      BY <2>2 DEF Mode
<1>7. CASE Removed
  <2>1. /\ Cleared' /\ http' = http /\ conn' = conn
        /\ \/ lc' = lc
           \/ /\ lc'.pc = "save" /\ lc'.job = "none" /\ lc'.doc.status = conn.status
        BY <1>5, <1>7, ClearedTakes DEF Removed
  <2>2. ~ Present => th' = th
        BY <1>5
  <2>3. http.pc = "reset" => lc' = lc
        BY <1>7, <2>2 DEF Removed, lc
  <2>4. Removed'
        BY <1>1, <1>7, <2>1, <2>3 DEF Removed, ReadUp, Present
  <2> QED
      BY <2>4 DEF Mode
<1>8. CASE Ended
  <2>1. /\ Cleared' /\ http' = http /\ conn' = conn
        /\ \/ lc' = lc
           \/ /\ lc'.pc = "save" /\ lc'.job = "none"
              /\ lc'.doc.status = conn.status /\ lc'.doc.onFail = conn.onFail
        BY <1>5, <1>8, ClearedTakes DEF Ended
  <2>2. Ended'
        BY <1>1, <1>8, <2>1 DEF Ended, Unplaced, Present
  <2> QED
      BY <2>2 DEF Mode
<1>9. ~ PatchPlaces /\ ~ LcPlaces
      BY <1>1, IdleType DEF PatchPlaces, Quiet, NoneUnderWay, LcPlaces
<1> QED
    BY <1>6, <1>7, <1>8, <1>9 DEF Mode

\* The deletes of a partial cleanup.
LEMMA CleanupMode ==
    ASSUME TypeOK, Deleting, Mode, LcCleanup \/ LcLate
    PROVE  Mode'
<1>1. lc.pc \in { "cleanup", "late" } /\ lc \in ThreadState /\ lc.doc \in Conn /\ lc.seg \in SUBSET Segment
      BY Threads, ThreadShape DEF LcCleanup, LcLate, lc, Thread
<1>2. Serving
      BY <1>1, LcMode
<1>3. /\ Present /\ Doc = lc.doc /\ lc.doc.partial /\ lc.job = "none" /\ lc.brk = breakdown
      /\ lc.doc.onFail = conn.onFail
      /\ lc.pc = "late" => \A g \in lc.seg : g \in breakdown /\ lc.doc.evc[g] = attempt
      BY <1>1, <1>2 DEF Serving, LcServes, Busy, Doc
<1>4. UNCHANGED << conn, breakdown, inbox, evcs, attempt, request >> /\ attempt >= 1
      BY DEF LcCleanup, LcLate, counters, Deleting
<1>5. PICK k, c, W : k = conn /\ c = lc.doc /\ W = Pending
      OBVIOUS
<1>6. Coherent(k, c) /\ Followed(c, W) /\ c.partial /\ c \in Conn
      BY <1>1, <1>2, <1>3, <1>5 DEF Serving
<1>7. Current(c) /\ Failed(c)
      BY <1>6 DEF Coherent, Whole, Coming
<1>8. attempt # 0 /\ breakdown \in SUBSET Segment
      BY DEF Deleting, TypeOK
\* It goes on to save, with copy d.
<1>9. ASSUME NEW B \in SUBSET Segment, toLC' = Deletes(B, c), \A g \in W : c.evc[g] = attempt => g \in B,
             NEW y, th' = [ th EXCEPT !["lc"] = y ], y.pc = "save", y.job = lc.job, y.brk = lc.brk,
             NEW d, y.doc = d, d.status = c.status, d.evc = c.evc, d.partial = c.partial,
             d.resp = c.resp, d.onFail = c.onFail, d.inProgress = c.inProgress,
             \A g \in d.late : g \in c.late \/ c.evc[g] # 0
      PROVE  Mode'
  <2>1. http' = http /\ lc' = y
        BY <1>9, LcMoves
  <2>2. Followed(d, {})'
        BY <1>4, <1>6, <1>7, <1>9, DeletesFollow
  <2>3. Failed(d) /\ Current(d)
        BY <1>7, <1>9 DEF Failed, Current
  <2>4. Coherent(k, d)
        BY <1>6, <2>3 DEF Coherent, Failed, Whole
  <2>5. Coherent(k, d)'
        BY <1>4, <2>4, CoherentSame
  <2>6. LcServes'
        BY <1>3, <1>4, <1>5, <1>9, <2>1 DEF LcServes, Busy
  <2>7. Whole(conn) => Whole(conn)'
        BY <1>4, <1>5, CopySame
  <2>8. HttpServes'
        BY <1>2, <1>4, <2>1, <2>7 DEF Serving, HttpServes, ReadUp
  <2>9. conn' = k /\ Doc' = d /\ Pending' = {} /\ Present'
        BY <1>3, <1>4, <1>5, <1>9, <2>1 DEF Doc, Busy, Pending, Present
  <2> QED
      BY <2>2, <2>5, <2>6, <2>8, <2>9, ServingIntro DEF Mode
<1>10. CASE LcCleanup
  <2> DEFINE y == [ lc EXCEPT !.pc = "save" ]
  <2>1. th' = [ th EXCEPT !["lc"] = y ] /\ toLC' = Deletes(breakdown, c)
        BY <1>5, <1>10 DEF LcCleanup, Goto, lc
  <2>2. y.pc = "save" /\ y.job = lc.job /\ y.brk = lc.brk /\ y.doc = c
        BY <1>1, <1>5 DEF ThreadState
  <2> HIDE DEF y
  <2>3. \A g \in W : c.evc[g] = attempt => g \in breakdown
    <3>1. W \subseteq Segment
          BY <1>1, <1>5 DEF Pending
    <3> QED
        BY <1>7, <1>8, <3>1 DEF Current
  <2> QED
      BY <1>8, <1>9, <2>1, <2>2, <2>3
<1>11. CASE LcLate
  <2> DEFINE d == [ c EXCEPT !.late = c.late \cup lc.seg ]
             y == [ lc EXCEPT !.pc = "save", !.doc = d ]
             B == lc.seg \cap breakdown
  <2>0. lc.pc = "late" /\ W = lc.seg
        BY <1>5, <1>11, Threads DEF LcLate, Pending
  <2>1. th' = [ th EXCEPT !["lc"] = y ]
    <3>1. th' = [ th EXCEPT !["lc"] = [ lc EXCEPT !.pc = "save", !.doc.late = lc.doc.late \cup lc.seg ] ]
      <4>1. "lc" \in Thread
            BY DEF Thread
      <4>2. th' = [ th EXCEPT !["lc"] =
                      [ th["lc"] EXCEPT !.pc = "save", !.doc.late = th["lc"].doc.late \cup th["lc"].seg ] ]
            BY <1>11, <4>1 DEF LcLate, TypeOK
      <4> QED
          BY <4>2 DEF lc
    <3>2. [ lc EXCEPT !.pc = "save", !.doc.late = lc.doc.late \cup lc.seg ] = y
          BY <1>1, <1>5 DEF ThreadState
    <3> QED
        BY <3>1, <3>2
  <2>2. y.pc = "save" /\ y.job = lc.job /\ y.brk = lc.brk /\ y.doc = d
        BY <1>1, <1>6 DEF ThreadState
  <2>3. /\ d.status = c.status /\ d.evc = c.evc /\ d.partial = c.partial
        /\ d.resp = c.resp /\ d.onFail = c.onFail /\ d.inProgress = c.inProgress
        /\ d.late = c.late \cup lc.seg
        BY <1>6 DEF Conn
  <2>4. toLC' = Deletes(B, c) /\ B \in SUBSET Segment
        BY <1>1, <1>5, <1>11 DEF LcLate, lc
  <2> HIDE DEF y, d
  <2>5. \A g \in d.late : g \in c.late \/ c.evc[g] # 0
        BY <1>3, <1>5, <1>8, <2>0, <2>3
  <2>6. \A g \in W : c.evc[g] = attempt => g \in B
        BY <1>3, <2>0
  <2> HIDE DEF B
  <2> QED
      BY <1>9, <2>1, <2>2, <2>3, <2>4, <2>5, <2>6
<1> QED
    BY <1>10, <1>11

LEMMA SavedFields ==
    ASSUME NEW c \in Conn, conn \in Conn
    PROVE  LET d == Saved(c) IN
           /\ d \in Conn /\ d.status = c.status /\ d.count = c.count /\ d.resp = c.resp /\ d.evc = c.evc
           /\ d.partial = c.partial /\ d.late = c.late /\ d.onFail = c.onFail
           /\ d.inProgress = c.inProgress /\ d.req = conn.req /\ d.performed = conn.performed
BY DEF Saved, Conn

\* What is saved, and where the LC thread goes.
LEMMA SaveIs ==
    ASSUME TypeOK, LcSave
    PROVE  /\ lc.pc = "save" /\ lc \in ThreadState /\ lc.doc \in Conn
           /\ Present => conn \in Conn /\ conn' = Saved(lc.doc) /\ Present'
           /\ ~ Present => ~ Present'
           /\ UNCHANGED << breakdown, wires, attempt, request >> /\ http' = http
           /\ IF CleanedUp(lc.doc, lc.brk)
              THEN lc'.pc = "begin" /\ lc'.job = "old" /\ lc'.doc = lc.doc ELSE lc' = Idle
<1>1. lc.pc = "save" /\ lc \in ThreadState /\ lc.doc \in Conn
      BY Threads DEF LcSave
<1> DEFINE y == [ Idle EXCEPT !.pc = "begin", !.job = "old", !.doc = lc.doc ]
           z == IF CleanedUp(lc.doc, lc.brk) THEN y ELSE Idle
<1>2. th' = [ th EXCEPT !["lc"] = z ]
      BY DEF LcSave, lc
<1>3. y.pc = "begin" /\ y.job = "old" /\ y.doc = lc.doc
      BY DEF Idle
<1> HIDE DEF y
<1>4. http' = http /\ lc' = IF CleanedUp(lc.doc, lc.brk) THEN y ELSE Idle
  <2>1. lc' = z /\ http' = http
    <3> HIDE DEF z
    <3> QED
        BY <1>2, LcMoves
  <2> QED
      BY <2>1
<1>5. Present => conn \in Conn /\ conn' = Saved(lc.doc) /\ Present'
  <2>1. Present => conn \in Conn /\ conn' = Saved(lc.doc)
        BY DEF LcSave, DbUpdate, Present, TypeOK, lc
  <2> QED
      BY <1>1, <2>1, SavedType, PatchAssumption DEF Present
<1>6. ~ Present => ~ Present'
      BY DEF LcSave, DbUpdate, Present
<1> QED
    BY <1>1, <1>3, <1>4, <1>5, <1>6 DEF LcSave, counters

\* Two copies that are whole have the same ids.
LEMMA WholeEvc ==
    ASSUME NEW c \in Conn, NEW d \in Conn, Whole(c), Whole(d), Current(c), Current(d)
    PROVE  c.evc = d.evc
<1>1. c.evc \in [ Segment -> Id ] /\ d.evc \in [ Segment -> Id ]
      BY ConnShape
<1>2. ASSUME NEW g \in Segment
      PROVE  c.evc[g] = d.evc[g]
  <2>1. \A h \in breakdown : c.evc[h] = attempt /\ d.evc[h] = attempt
        BY DEF Whole, Provisioned
  <2>2. g \notin breakdown => c.evc[g] = 0 /\ d.evc[g] = 0
        BY DEF Current
  <2> QED
      BY <2>1, <2>2
<1> QED
    BY <1>1, <1>2

LEMMA SaveServing ==
    ASSUME TypeOK, Deleting, Serving, LcSave
    PROVE  Mode'
<1>1. lc.pc = "save" /\ lc.doc \in Conn /\ UNCHANGED << breakdown, wires, attempt, request >>
      /\ http' = http
      BY SaveIs
<1>2. Present /\ conn \in Conn /\ Doc = lc.doc /\ lc.brk = breakdown /\ Pending = {}
      /\ lc.doc.onFail = conn.onFail
      BY <1>1, DocType DEF Serving, LcServes, Busy, Doc, Pending
<1>3. PICK k, c, d : k = conn /\ c = lc.doc /\ d = Saved(lc.doc)
      OBVIOUS
<1>4. Coherent(k, c) /\ Followed(c, {}) /\ k \in Conn /\ c \in Conn
      BY <1>1, <1>2, <1>3 DEF Serving
<1>5. /\ d \in Conn /\ d.status = c.status /\ d.count = c.count /\ d.resp = c.resp /\ d.evc = c.evc
      /\ d.partial = c.partial /\ d.late = c.late /\ d.onFail = c.onFail
      /\ d.inProgress = c.inProgress /\ d.req = k.req
      BY <1>2, <1>3, <1>4, SavedFields
<1>6. conn' = d /\ Present'
      BY <1>2, <1>3, SaveIs
<1>7. breakdown \in SUBSET Segment /\ IsFiniteSet(breakdown)
      BY PatchAssumption, FS_Subset DEF TypeOK
\* The cleanup of a failed PATCH is complete: everything has been deleted.
<1>8. CASE CleanedUp(c, breakdown)
  <2>1. lc'.pc = "begin" /\ lc'.job = "old"
        BY <1>2, <1>3, <1>8, SaveIs
  <2>2. c.onFail /\ c.partial /\ c.status = "DOWN" /\ Cardinality(c.resp) >= Cardinality(breakdown)
        BY <1>8 DEF CleanedUp
  <2>3. c.resp \in SUBSET breakdown
        BY <1>4, <2>2, ConnShape DEF Followed, OwnAnswers
  <2>4. c.resp = breakdown
    <3>1. /\ Cardinality(c.resp) <= Cardinality(breakdown)
          /\ Cardinality(breakdown) = Cardinality(c.resp) => breakdown = c.resp
          BY <1>7, <2>3, FS_Subset
    <3>2. Cardinality(c.resp) \in Nat /\ Cardinality(breakdown) \in Nat
          BY <1>7, <2>3, FS_Subset, FS_CardinalityType
    <3> QED
        BY <2>2, <3>1, <3>2
  <2>5. \A g \in Segment : ~ Awaited(g)
        BY <1>4, <2>2, <2>4 DEF Followed, OwnAnswers, Expected
  <2>6. ASSUME NEW e \in evcs
        PROVE  Leaving(e[1], e[2])
    <3>1. e[1] \in Segment /\ Traced(e[1], e[2], c, {})
          BY <1>4, <2>6, EvcPairs DEF Followed
    <3> QED
        BY <2>2, <2>5, <3>1 DEF Traced
  <2>7. Cleared
        BY <2>5, <2>6 DEF Cleared
  <2>8. Cleared'
        BY <1>1, <2>7, ClearedSame
  <2>9. ~ Whole(conn)
        BY <1>3, <1>4, <2>2 DEF Coherent, Whole
  <2>10. http.pc \in { "idle", "wait" }
         BY <2>9 DEF Serving, HttpServes
  <2> QED
      BY <1>1, <1>5, <1>6, <2>1, <2>2, <2>8, <2>10 DEF LcPlaces, Mode
<1>9. CASE ~ CleanedUp(c, breakdown)
  <2>1. lc' = Idle
        BY <1>2, <1>3, <1>9, SaveIs
  <2>2. Followed(d, {})'
        BY <1>1, <1>4, <1>5, FollowedSame
  <2>3. Provisioned(d) = Provisioned(c)
        BY <1>5 DEF Provisioned
  <2>4. /\ Current(c) <=> Current(d)
        /\ Whole(c) <=> Whole(d)
        /\ Coming(c) <=> Coming(d)
        /\ Failed(c) <=> Failed(d)
        BY <1>5, <2>3 DEF Current, Whole, Coming, Failed
  <2>5. c.onFail /\ c.partial => Cardinality(c.resp) < Cardinality(breakdown)
    <3> SUFFICES ASSUME c.onFail, c.partial
                 PROVE  Cardinality(c.resp) < Cardinality(breakdown)
        OBVIOUS
    <3>1. c.status = "DOWN" /\ ~ c.inProgress /\ breakdown # {}
          BY <1>4 DEF Coherent, Whole, Coming, Failed, Current
    <3>2. ~ (Cardinality(c.resp) >= Cardinality(breakdown))
          BY <1>9, <3>1 DEF CleanedUp
    <3>3. Cardinality(c.resp) \in Nat /\ Cardinality(breakdown) \in Nat
      <4>1. c.resp \in SUBSET Segment
            BY <1>4, ConnShape
      <4> QED
          BY <1>7, <4>1, PatchAssumption, FS_Subset, FS_CardinalityType
    <3> QED
        BY <3>2, <3>3
  <2>6. Coherent(d, d)
        BY <1>4, <1>5, <2>4, <2>5 DEF Coherent
  <2>7. Coherent(d, d)'
        BY <1>1, <2>6, CoherentSame
  <2>8. lc'.pc = "idle" /\ lc'.job = "none"
        BY <2>1, IdleType
  <2>9. Doc' = d /\ Pending' = {}
        BY <1>6, <2>8 DEF Doc, Busy, Pending
  <2>10. LcServes'
         BY <2>8 DEF LcServes, Busy
  <2>11. Whole(conn) => Whole(d) /\ Whole(d)' /\ d.evc = conn.evc
    <3>1. Whole(d)' <=> Whole(d)
          BY <1>1, CopySame
    <3>2. Whole(k) => Whole(c)
          BY <1>4 DEF Coherent
    <3>3. Whole(k) => c.evc = k.evc
          BY <1>4, <3>2, WholeEvc DEF Coherent
    <3> QED
        BY <1>3, <1>5, <2>4, <3>1, <3>2, <3>3
  <2>12. HttpServes'
         BY <1>1, <1>6, <2>11 DEF Serving, HttpServes, ReadUp
  <2> QED
      BY <1>6, <2>2, <2>7, <2>9, <2>10, <2>12, ServingIntro DEF Mode
<1> QED
    BY <1>8, <1>9

LEMMA SaveMode ==
    ASSUME TypeOK, Deleting, Mode, LcSave
    PROVE  Mode'
<1>1. lc.pc = "save" /\ lc.doc \in Conn /\ UNCHANGED << breakdown, wires, attempt, request >>
      /\ http' = http
      BY SaveIs
<1>2. CASE Serving
      BY <1>2, SaveServing
<1>3. CASE Removed \/ Ended
  <2>1. Cleared'
        BY <1>1, <1>3, ClearedSame DEF Removed, Ended
  <2>2. lc.doc.status # "DOWN"
        BY <1>1, <1>3 DEF Removed, Ended, Unplaced
  <2>3. lc' = Idle /\ lc'.pc = "idle" /\ lc'.job = "none"
        BY <2>2, SaveIs, IdleType DEF CleanedUp
  <2>4. Present => /\ Present' /\ conn'.status = lc.doc.status /\ conn'.onFail = lc.doc.onFail
        BY <1>1, SaveIs, SavedFields
  <2>5. ~ Present => ~ Present'
        BY SaveIs
  <2>6. CASE Removed
        BY <1>1, <2>1, <2>3, <2>4, <2>5, <2>6 DEF Removed, ReadUp, Mode
  <2>7. CASE Ended
        BY <1>1, <2>1, <2>3, <2>4, <2>7 DEF Ended, Unplaced, Mode
  <2> QED
      BY <1>3, <2>6, <2>7
<1> QED
    BY <1>1, <1>2, <1>3, LcMode

\* The LC thread rolls a PATCH back.
LEMMA UndoMode ==
    ASSUME TypeOK, Mode, LcBegin \/ LcUndo
    PROVE  Mode'
<1> USE DEF wires
<1>1. lc.pc \in { "begin", "reset" } /\ lc \in ThreadState /\ lc.doc \in Conn /\ lc.doc.back \in Request
      BY Threads, ConnShape DEF LcBegin, LcUndo
<1>2. LcPlaces
      BY <1>1, LcMode
<1>3. Present /\ conn \in Conn /\ Cleared /\ lc.job = "old" /\ http.pc \in { "idle", "wait" }
      /\ conn.status = "DOWN"
      BY <1>1, <1>2 DEF LcPlaces, Present, TypeOK
<1>4. Cleared'
      BY <1>3, ClearedSame DEF LcBegin, LcUndo
<1>5. CASE LcBegin
  <2> DEFINE c == [ conn EXCEPT !.inProgress = TRUE ]
             y == [ lc EXCEPT !.pc = "reset" ]
  <2>1. th' = [ th EXCEPT !["lc"] = y ] /\ conn' = c
        BY <1>3, <1>5 DEF LcBegin, Goto, DbUpdate, lc
  <2>2. y.pc = "reset" /\ y.job = "old"
        BY <1>1, <1>3 DEF ThreadState
  <2>3. c \in Conn /\ c.status = "DOWN"
        BY <1>3, ConnFields DEF Conn
  <2> HIDE DEF c, y
  <2>4. http' = http /\ lc' = y
        BY <2>1, LcMoves
  <2> QED
      BY <1>3, <1>4, <2>1, <2>2, <2>3, <2>4, PatchAssumption DEF LcPlaces, Present, Mode
<1>6. CASE LcUndo
  <2> DEFINE c == Restored(lc.doc.back)
             y == [ lc EXCEPT !.pc = "plan", !.doc = c ]
  <2>1. conn' = c /\ th' = [ th EXCEPT !["lc"].pc = "plan", !["lc"].doc = c ]
        BY <1>6 DEF LcUndo, DbAdd, lc
  <2>2. th' = [ th EXCEPT !["lc"] = y ]
        BY <2>1 DEF TypeOK, Thread, lc
  <2>3. y.pc = "plan" /\ y.doc = c /\ y.job = "old"
        BY <1>1, <1>3 DEF ThreadState
  <2>4. /\ c \in Conn /\ c.status = "REQUESTED" /\ c.count = 0 /\ c.resp = {} /\ c.evc = NoIds
        /\ ~ c.partial /\ c.late = {} /\ ~ c.inProgress /\ ~ c.onFail
        BY <1>1, RestoredType, RestoredFields
  <2> HIDE DEF c, y
  <2>5. http' = http /\ lc' = y /\ th'["lc"] = y
        BY <2>2, LcMoves DEF lc
  <2>6. Stores("lc", c, "old")
        BY <2>1, <2>3, <2>4, <2>5 DEF Stores
  <2>7. Placing("lc")' /\ Present'
        BY <2>6, StoresPlacing
  <2> QED
      BY <1>3, <1>4, <2>3, <2>5, <2>7 DEF LcPlaces, Mode
<1> QED
    BY <1>5, <1>6

LEMMA LcPlaceMode ==
    ASSUME TypeOK, Deleting, Mode,
           PlaceFails("lc") \/ PlacePlan("lc") \/ PlaceMark("lc") \/ PlacePublish("lc")
    PROVE  Mode'
<1> USE DEF wires
<1>1. /\ lc.pc \in { "plan", "mark", "publish" } /\ lc \in ThreadState /\ lc.doc \in Conn
      /\ "lc" \in Thread /\ th["lc"] = lc
      BY Threads DEF PlaceFails, PlacePlan, PlaceMark, PlacePublish, Thread, lc
<1>2. LcPlaces /\ Cleared /\ Placing("lc") /\ lc.job = "old" /\ http.pc \in { "idle", "wait" } /\ Present
      BY <1>1, LcMode DEF LcPlaces
<1>3. ASSUME NEW y, th' = [ th EXCEPT !["lc"] = y ], UNCHANGED wires, y.job = "old",
             y.pc \in { "plan", "mark", "publish" }, Placing("lc")', Present'
      PROVE  Mode'
  <2>1. http' = http /\ lc' = y
        BY <1>3, LcMoves
  <2>2. Cleared'
        BY <1>2, <1>3, ClearedSame
  <2> QED
      BY <1>2, <1>3, <2>1, <2>2 DEF LcPlaces, Mode
<1>4. CASE PlaceFails("lc")
  <2>1. lc.pc = "plan" /\ AfterFailure("lc") = Idle
        BY <1>1, <1>2, <1>4, Threads DEF PlaceFails, AfterFailure
  <2>2. th' = [ th EXCEPT !["lc"] = Idle ] /\ conn' = conn /\ UNCHANGED wires
        BY <1>4, <2>1 DEF PlaceFails
  <2>3. http' = http /\ lc' = Idle
        BY <2>2, LcMoves
  <2>4. Unplaced(conn)
        BY <1>1, <1>2, <2>1 DEF Placing, Unplaced
  <2>5. Cleared'
        BY <1>2, <2>2, ClearedSame
  <2> QED
      BY <1>2, <2>2, <2>3, <2>4, <2>5, IdleType DEF Ended, Unplaced, Present, Mode
<1>5. CASE PlacePlan("lc")
      BY <1>1, <1>2, <1>3, <1>5, PlanPlaces
<1>6. CASE PlaceMark("lc")
      BY <1>1, <1>2, <1>3, <1>6, MarkPlaces
<1>7. CASE PlacePublish("lc")
  <2>1. th' = [ th EXCEPT !["lc"] = Idle ]
        BY <1>7 DEF PlacePublish
  <2>2. http' = http /\ lc' = Idle
        BY <2>1, LcMoves
  <2> QED
      BY <1>1, <1>2, <1>7, <2>2, PublishServes DEF Mode
<1> QED
    BY <1>4, <1>5, <1>6, <1>7

(***************************************************************************)
(* The OXPs.                                                               *)
(***************************************************************************)
LEMMA OxpMode ==
    ASSUME TypeOK, Mode, NEW h \in Segment, OxpServe(h)
    PROVE  Mode'
<1>1. toLC[h] # << >> /\ UNCHANGED << conn, breakdown, attempt, request, th >>
      BY OxpServes DEF counters
<1>2. http' = http /\ lc' = lc
      BY <1>1 DEF http, lc
<1>3. Cleared => Cleared'
      BY ClearedServed
<1>4. CASE Serving
  <2>1. PICK c, d, W : c = conn /\ d = Doc /\ W = Pending
        OBVIOUS
  <2>2. conn' = c /\ Doc' = d /\ Pending' = W /\ Present'
        BY <1>1, <1>2, <1>4, <2>1 DEF Doc, Busy, Pending, Serving, Present
  <2>3. Coherent(c, d)'
        BY <1>1, <1>4, <2>1, CoherentSame DEF Serving
  <2>4. Followed(d, W)'
        BY <1>4, <2>1, OxpFollow DEF Serving
  <2>5. LcServes'
        BY <1>1, <1>2, <1>4 DEF Serving, LcServes, Busy
  <2>6. Whole(conn) => Whole(conn)'
        BY <1>1, <2>1, CopySame
  <2>7. HttpServes'
        BY <1>1, <1>2, <1>4, <2>6 DEF Serving, HttpServes, ReadUp
  <2> QED
      BY <2>2, <2>3, <2>4, <2>5, <2>7, ServingIntro DEF Mode
<1>5. CASE Removed
      BY <1>1, <1>2, <1>3, <1>5 DEF Removed, ReadUp, Present, Mode
<1>6. CASE PatchPlaces
      BY <1>1, <1>6 DEF PatchPlaces, Quiet, NoneUnderWay
<1>7. CASE LcPlaces
  <2>1. \A g \in Segment : \A n : Leaving(g, n)' => Leaving(g, n)
    <3>1. PICK ok \in BOOLEAN : Serves(h, Head(toLC[h]), ok)
          BY OxpServes
    <3>2. PICK o : o = Head(toLC[h])
          OBVIOUS
    <3>3. ASSUME NEW g \in Segment
          PROVE  Removals(g)' \subseteq Removals(g)
          BY <1>1, <3>1, <3>2, ServedParts
    <3> QED
        BY <3>3 DEF Leaving
  <2>2. Placing("lc") => Placing("lc")'
        BY <1>1, <2>1 DEF Placing
  <2> QED
      BY <1>1, <1>2, <1>3, <1>7, <2>2 DEF LcPlaces, Present, Mode
<1>8. CASE Ended
      BY <1>1, <1>2, <1>3, <1>8 DEF Ended, Present, Unplaced, Mode
<1> QED
    BY <1>4, <1>5, <1>6, <1>7, <1>8 DEF Mode

(***************************************************************************)
(* All steps.                                                              *)
(***************************************************************************)
LEMMA ModifyMode ==
    ASSUME TypeOK, Mode, PatchModify
    PROVE  Mode'
<1>1. http.pc = "modify"
      BY Threads DEF PatchModify
<1>2. Serving
      BY <1>1, HttpMode
<1> QED
    BY <1>2, ServingModify DEF Mode

\* The LC thread is not about to place a connection again, and removes none.
LEMMA LcIdleSteps ==
    ASSUME TypeOK, Mode
    PROVE  /\ ~ RemoveRead("lc") /\ ~ RemoveSend("lc") /\ ~ RemoveDrop("lc")
           /\ ~ LcAgain /\ ~ LcGiveUp
BY LcMode, Threads DEF RemoveRead, RemoveSend, RemoveDrop, LcAgain, LcGiveUp, lc

\* The steps that hurt.
LEMMA Hurts ==
    ASSUME Unhurt(Excused)'
    PROVE  /\ \A t : ~ RemoveBroken(t) /\ ~ PlaceBroken(t)
           /\ ~ LcBroken /\ ~ LcLost
<1>1. "publish" \notin hurt' /\ "lost" \notin hurt'
      BY DEF Unhurt, Excused
<1> QED
    BY <1>1 DEF RemoveBroken, PlaceBroken, LcBroken, LcLost

LEMMA HurtStays ==
    ASSUME [Next]_vars
    PROVE  hurt \subseteq hurt'
BY DEF Next, vars, PatchRead, PatchStep, LcStep, LcLost, OxpServe, PlaceStep,
       PatchModify, PatchReset, PatchWait, PatchExpires, PatchUndo, PatchWaitOld,
       PatchReject, RemoveRead, RemoveSend, RemoveBroken, RemoveDrop, PlaceFails,
       PlacePlan, PlaceMark, PlacePublish, PlaceBroken, LcReceive, LcCleanup, LcLate,
       LcBroken, LcSave, LcBegin, LcUndo, LcAgain, LcGiveUp

LEMMA DeletesOfPlacement ==
    ASSUME TypeOK, Mode, RemoveSend("http") \/ LcCleanup \/ LcLate, Deleting
    PROVE  Deleting'
<1>1. /\ RemoveSend("http") => http.pc = "send"
      /\ LcCleanup => lc.pc = "cleanup"
      /\ LcLate => lc.pc = "late"
      BY Threads DEF RemoveSend, LcCleanup, LcLate
<1>2. Serving
      BY <1>1, HttpMode, LcMode
<1>3. Present /\ Current(conn) /\ Current(Doc)
      BY <1>2 DEF Serving, Coherent
<1>4. \A c : Current(c) => \A g \in Segment : c.evc[g] \in { 0, attempt }
      BY DEF Current
<1>5. CASE RemoveSend("http")
  <2>1. http.doc.evc = conn.evc
        BY <1>1, <1>2, <1>5 DEF Serving, HttpServes
  <2>2. http \in ThreadState /\ http.brk \in SUBSET Segment /\ http.doc \in Conn
        BY Threads DEF ThreadState
  <2>3. \A g \in Segment : http.doc.evc[g] \in { 0, attempt }
        BY <1>3, <1>4, <2>1
  <2>4. toLC' = Deletes(http.brk, http.doc) /\ UNCHANGED << inbox, attempt >>
        BY <1>5 DEF RemoveSend, http, counters
  <2> QED
      BY <2>2, <2>3, <2>4, DeletingSent
<1>6. CASE LcCleanup \/ LcLate
  <2>1. Doc = lc.doc
        BY <1>1, <1>6 DEF Doc, Busy
  <2>2. lc.doc \in Conn /\ lc.seg \in SUBSET Segment /\ breakdown \in SUBSET Segment
        BY Threads DEF ThreadState, TypeOK
  <2>3. \A g \in Segment : lc.doc.evc[g] \in { 0, attempt }
        BY <1>3, <1>4, <2>1
  <2>4. PICK B \in SUBSET Segment : toLC' = Deletes(B, lc.doc)
        BY <1>6, <2>2 DEF LcCleanup, LcLate, lc
  <2>5. UNCHANGED << inbox, attempt >>
        BY <1>6 DEF LcCleanup, LcLate, counters
  <2> QED
      BY <2>2, <2>3, <2>4, <2>5, DeletingSent
<1> QED
    BY <1>5, <1>6

LEMMA CreatesOfPlacement ==
    ASSUME TypeOK, Mode, NEW t \in Thread, PlacePublish(t), Deleting
    PROVE  Deleting'
<1>1. th[t].pc = "publish"
      BY DEF PlacePublish, At
<1>2. Cleared
  <2>1. t = "http" => PatchPlaces
        BY <1>1, HttpMode DEF http
  <2>2. t = "lc" => LcPlaces
        BY <1>1, LcMode DEF lc
  <2> QED
      BY <2>1, <2>2 DEF PatchPlaces, LcPlaces, Thread
<1>3. th[t].id \in Id /\ th[t].brk \in SUBSET Segment
      BY ThreadShape
<1>4. toLC' = Publish("post", th[t].brk, [ g \in Segment |-> th[t].id ])
      BY DEF PlacePublish, Creates
<1>5. UNCHANGED << inbox, attempt >>
      BY DEF PlacePublish, counters
<1> QED
    BY <1>2, <1>3, <1>4, <1>5, DeletingCreates

LEMMA DeletingKeeps ==
    ASSUME TypeOK, Mode, Deleting, [Next]_vars, Unhurt(Excused)'
    PROVE  Deleting'
<1>1. attempt \in Nat
      BY DEF TypeOK
<1>2. ASSUME UNCHANGED << toLC, inbox, attempt >> PROVE Deleting'
      BY <1>1, <1>2, DeletingSame
<1>3. CASE PatchRead
      BY <1>2, <1>3 DEF PatchRead, wires
<1>4. CASE PatchModify \/ PatchReset \/ PatchWait \/ PatchExpires \/ PatchUndo
           \/ PatchWaitOld \/ PatchReject
      BY <1>2, <1>4 DEF PatchModify, PatchReset, PatchWait, PatchExpires, PatchUndo,
                        PatchWaitOld, PatchReject, wires, counters
<1>5. ASSUME NEW t \in Thread, PlaceStep(t)
      PROVE  Deleting'
  <2>1. CASE RemoveRead(t) \/ RemoveDrop(t) \/ PlaceFails(t) \/ PlaceMark(t)
        BY <1>2, <2>1 DEF RemoveRead, RemoveDrop, PlaceFails, PlaceMark, wires, counters
  <2>2. CASE RemoveSend(t)
        BY <2>2, DeletesOfPlacement, LcIdleSteps DEF Thread
  <2>3. CASE PlacePlan(t)
    <3>1. UNCHANGED << toLC, inbox >> /\ attempt' = attempt + 1
          BY <2>3 DEF PlacePlan, wires
    <3> QED
        BY <1>1, <3>1, DeletingSame
  <2>4. CASE PlacePublish(t)
        BY <2>4, CreatesOfPlacement
  <2> QED
      BY <1>5, <2>1, <2>2, <2>3, <2>4, Hurts DEF PlaceStep
<1>6. CASE LcReceive
  <2>1. inbox # << >> /\ inbox' = Tail(inbox) /\ UNCHANGED << toLC, attempt >>
        BY <1>6 DEF LcReceive, counters
  <2> QED
      BY <2>1, DeletingTaken
<1>7. CASE LcCleanup \/ LcLate
      BY <1>7, DeletesOfPlacement
<1>8. CASE LcSave \/ LcBegin \/ LcUndo \/ LcAgain \/ LcGiveUp
      BY <1>2, <1>8 DEF LcSave, LcBegin, LcUndo, LcAgain, LcGiveUp, wires, counters
<1>9. CASE \E g \in Segment : OxpServe(g)
      BY <1>9, DeletingServed
<1>10. CASE UNCHANGED vars
      BY <1>2, <1>10 DEF vars
<1> QED
    BY <1>3, <1>4, <1>5, <1>6, <1>7, <1>8, <1>9, <1>10, Hurts
       DEF Next, PatchStep, LcStep, Thread

(***************************************************************************)
(* What PATCH waits for.                                                   *)
(***************************************************************************)
LEMMA WaitsKept ==
    ASSUME WaitsFor, http' = http,
           http.pc = "wait" => conn'.onFail = conn.onFail /\ conn'.performed = conn.performed
    PROVE  WaitsFor'
BY DEF WaitsFor

LEMMA HttpWaits ==
    ASSUME TypeOK, Mode,
           \/ PatchRead \/ PatchModify \/ PatchReset \/ PatchWait \/ PatchExpires
           \/ PatchUndo \/ PatchWaitOld \/ PatchReject
           \/ RemoveRead("http") \/ RemoveSend("http") \/ RemoveDrop("http")
           \/ PlaceFails("http") \/ PlacePlan("http") \/ PlaceMark("http")
    PROVE  http'.pc # "wait"
<1>1. http \in ThreadState /\ http = th["http"] /\ "http" \in Thread
      BY Threads DEF http, Thread
<1>2. ASSUME NEW y, th' = [ th EXCEPT !["http"] = y ], y.pc # "wait"
      PROVE  http'.pc # "wait"
  <2> HIDE DEF http
  <2> QED
      BY <1>2, HttpLocal
<1>3. ASSUME NEW pc, NEW c, pc # "wait",
             \/ Goto("http", pc)
             \/ th' = [ th EXCEPT !["http"].pc = pc, !["http"].doc = c ]
      PROVE  http'.pc # "wait"
  <2>1. th'["http"].pc = pc
        BY <1>1, <1>3 DEF Goto, TypeOK, ThreadState
  <2> QED
      BY <1>3, <2>1 DEF http
<1>4. Idle.pc # "wait"
      BY IdleType
<1>5. ASSUME NEW j, th' = [ th EXCEPT !["http"].pc = "reset", !["http"].job = j ]
      PROVE  http'.pc # "wait"
  <2>1. th'["http"].pc = "reset"
        BY <1>1, <1>5 DEF TypeOK, ThreadState
  <2> QED
      BY <2>1 DEF http
<1>6. CASE PatchRead
  <2>1. [ Idle EXCEPT !.pc = "modify", !.job = "new", !.doc = conn ].pc = "modify"
        BY DEF Idle
  <2> QED
      BY <1>2, <1>6, <2>1 DEF PatchRead
<1>7. CASE PatchModify \/ RemoveSend("http") \/ RemoveDrop("http")
      BY <1>3, <1>7 DEF PatchModify, RemoveSend, RemoveDrop
<1>8. CASE PatchReset
  <2>1. th'["http"].pc = "plan"
        BY <1>1, <1>8 DEF PatchReset, TypeOK, ThreadState
  <2> QED
      BY <2>1 DEF http
<1>9. CASE PatchUndo
      BY <1>3, <1>9 DEF PatchUndo
<1>10. CASE PatchWait \/ PatchExpires \/ PatchWaitOld \/ PatchReject
      BY <1>2, <1>4, <1>5, <1>10
         DEF PatchWait, PatchExpires, PatchWaitOld, PatchReject, Answered
<1>11. CASE RemoveRead("http") \/ PlacePlan("http") \/ PlaceMark("http")
  <2>1. th'["http"].pc \in { "send", "mark", "publish" }
        BY <1>1, <1>11 DEF RemoveRead, PlacePlan, PlaceMark, TypeOK, ThreadState
  <2> QED
      BY <2>1 DEF http
<1>12. CASE PlaceFails("http")
  <2>1. http.pc = "plan"
        BY <1>12, Threads DEF PlaceFails
  <2>2. http.job \in { "new", "old" }
        BY <2>1, HttpMode DEF PatchPlaces
  <2>3. AfterFailure("http").pc # "wait"
        BY <1>1, <1>4, <2>2 DEF AfterFailure, ThreadState
  <2> QED
      BY <1>2, <1>12, <2>3 DEF PlaceFails
<1> QED
    BY <1>6, <1>7, <1>8, <1>9, <1>10, <1>11, <1>12

LEMMA PublishWaits ==
    ASSUME TypeOK, Mode, PlacePublish("http")
    PROVE  WaitsFor'
<1>1. http.pc = "publish" /\ http \in ThreadState
      BY Threads DEF PlacePublish
<1>2. PatchPlaces
      BY <1>1, HttpMode
<1>3. http.job \in { "new", "old" } /\ (http.job = "new" => conn.onFail)
      BY <1>1, <1>2 DEF PatchPlaces, Placing, http
<1>4. http'.job = http.job /\ conn' = conn
  <2>1. th' = [ th EXCEPT !["http"] = [ http EXCEPT !.pc = "wait" ] ] /\ conn' = conn
        BY DEF PlacePublish, http
  <2>2. http' = [ http EXCEPT !.pc = "wait" ]
        BY <2>1, HttpLocal
  <2> QED
      BY <1>1, <2>1, <2>2 DEF ThreadState
<1> QED
    BY <1>3, <1>4 DEF WaitsFor

LEMMA LcWaits ==
    ASSUME TypeOK, Mode, WaitsFor,
           \/ LcReceive \/ LcCleanup \/ LcLate \/ LcSave \/ LcBegin \/ LcUndo
           \/ PlaceFails("lc") \/ PlacePlan("lc") \/ PlaceMark("lc") \/ PlacePublish("lc")
    PROVE  WaitsFor'
<1>1. "lc" \in Thread
      BY DEF Thread
<1>2. ASSUME UNCHANGED << conn, http >> PROVE WaitsFor'
      BY <1>2 DEF WaitsFor
<1>3. http' = http
  <2>1. ASSUME NEW y, th' = [ th EXCEPT !["lc"] = y ] PROVE http' = http
        BY <2>1, LcMoves
  <2>2. CASE LcReceive
        BY <2>1, <2>2 DEF LcReceive, LcIgnore, LcCreated, LcCreatedLate, LcDeleted, LcFailed,
                          Handle, http
  <2>3. CASE LcCleanup \/ LcBegin
        BY <2>1, <2>3 DEF LcCleanup, LcBegin, Goto
  <2>4. CASE LcLate \/ LcUndo \/ PlacePlan("lc") \/ PlaceMark("lc")
    <3>1. th'["http"] = th["http"]
          BY <1>1, <2>4 DEF LcLate, LcUndo, PlacePlan, PlaceMark, TypeOK, Thread
    <3> QED
        BY <3>1 DEF http
  <2>5. CASE LcSave
        BY <2>5, SaveIs
  <2>6. CASE PlaceFails("lc") \/ PlacePublish("lc")
        BY <2>1, <2>6 DEF PlaceFails, PlacePublish
  <2> QED
      BY <2>2, <2>3, <2>4, <2>5, <2>6
<1>4. CASE \/ LcReceive \/ LcCleanup \/ LcLate
           \/ PlaceFails("lc") \/ PlacePlan("lc") \/ PlacePublish("lc")
      BY <1>2, <1>3, <1>4 DEF LcReceive, LcCleanup, LcLate, PlaceFails, PlacePlan, PlacePublish
<1>5. CASE LcSave
  <2>1. lc.pc = "save" /\ lc.doc \in Conn
        BY <1>5, SaveIs
  <2>2. http.pc = "wait" => Serving \/ Ended
        BY <2>1, LcMode DEF Removed
  <2>3. Serving \/ Ended => Present /\ lc.doc.onFail = conn.onFail
    <3>1. CASE Serving
          BY <2>1, <3>1 DEF Serving, LcServes, Busy
    <3>2. CASE Ended
      <4>1. Present /\ ~ conn.onFail /\ ~ lc.doc.onFail
            BY <2>1, <3>2 DEF Ended, Unplaced
      <4>2. conn \in Conn
            BY <4>1 DEF Present, TypeOK
      <4>3. conn.onFail \in BOOLEAN /\ lc.doc.onFail \in BOOLEAN
            BY <2>1, <4>2, ConnShape
      <4> QED
          BY <4>1, <4>3
    <3> QED
        BY <3>1, <3>2
  <2>4. http.pc = "wait" => conn'.onFail = conn.onFail /\ conn'.performed = conn.performed
        BY <1>5, <2>1, <2>2, <2>3, SaveIs, SavedFields
  <2> QED
      BY <1>3, <2>4, WaitsKept
<1>6. CASE LcBegin
  <2>1. lc.pc = "begin"
        BY <1>6, Threads DEF LcBegin
  <2>2. conn \in Conn /\ Present
        BY <2>1, LcMode DEF LcPlaces, Present, TypeOK
  <2>3. conn' = [ conn EXCEPT !.inProgress = TRUE ]
        BY <1>6, <2>2 DEF LcBegin, DbUpdate
  <2>4. conn'.onFail = conn.onFail /\ conn'.performed = conn.performed
        BY <2>2, <2>3 DEF Conn
  <2> QED
      BY <1>3, <2>4, WaitsKept
<1>7. CASE LcUndo
  <2>1. conn'.performed
        BY <1>7, RestoredFields DEF LcUndo, DbAdd
  <2> QED
      BY <1>3, <2>1 DEF WaitsFor
<1>8. CASE PlaceMark("lc")
  <2>1. lc.pc = "mark"
        BY <1>8, Threads DEF PlaceMark
  <2>2. Placing("lc")
        BY <2>1, LcMode DEF LcPlaces
  <2>3. conn'.onFail = conn.onFail /\ conn'.performed = conn.performed
        BY <1>1, <1>8, <2>2, MarkPlaces
  <2> QED
      BY <1>3, <2>3, WaitsKept
<1> QED
    BY <1>4, <1>5, <1>6, <1>7, <1>8

LEMMA WaitsForKeeps ==
    ASSUME TypeOK, Mode, WaitsFor, [Next]_vars, Unhurt(Excused)'
    PROVE  WaitsFor'
<1>1. CASE PatchRead \/ PatchStep
      BY <1>1, HttpWaits, PublishWaits, Hurts DEF PatchStep, PlaceStep, WaitsFor
<1>2. CASE LcStep \/ LcLost
      BY <1>2, LcWaits, LcIdleSteps, Hurts DEF LcStep, PlaceStep
<1>3. ASSUME UNCHANGED << conn, th >> PROVE WaitsFor'
      BY <1>3 DEF WaitsFor, http
<1>4. CASE (\E g \in Segment : OxpServe(g)) \/ UNCHANGED vars
      BY <1>3, <1>4 DEF OxpServe, vars
<1> QED
    BY <1>1, <1>2, <1>4 DEF Next

LEMMA ModeSame ==
    ASSUME TypeOK, Mode, UNCHANGED << conn, breakdown, wires, attempt, request, th >>
    PROVE  Mode'
<1>1. http' = http /\ lc' = lc /\ (Cleared => Cleared')
      BY ClearedSame DEF http, lc
<1>2. CASE Serving
  <2>1. PICK c, d, W : c = conn /\ d = Doc /\ W = Pending
        OBVIOUS
  <2>2. conn' = c /\ Doc' = d /\ Pending' = W /\ Present'
        BY <1>1, <1>2, <2>1 DEF Doc, Pending, Busy, Present, Serving
  <2>3. Coherent(c, d)' /\ Followed(d, W)'
        BY <1>2, <2>1, CoherentSame, FollowedSame DEF Serving
  <2>4. Whole(conn)' = Whole(conn)
        BY <2>1, <2>2, CopySame
  <2>5. HttpServes' /\ LcServes'
        BY <1>1, <1>2, <2>4 DEF Serving, HttpServes, LcServes, Busy, ReadUp
  <2> QED
      BY <2>2, <2>3, <2>5, ServingIntro DEF Mode
<1>3. CASE Removed
      BY <1>1, <1>3 DEF Removed, ReadUp, Present, Mode
<1>4. ASSUME NEW t \in Thread, Placing(t) PROVE Placing(t)'
      BY <1>4, SameWires DEF Placing, wires
<1>5. CASE PatchPlaces
      BY <1>1, <1>4, <1>5 DEF PatchPlaces, Quiet, NoneUnderWay, Present, Unplaced, Mode, wires, Thread, lc, http
<1>6. CASE LcPlaces
      BY <1>1, <1>4, <1>6 DEF LcPlaces, Present, Mode, Thread
<1>7. CASE Ended
      BY <1>1, <1>7 DEF Ended, Present, Unplaced, Mode
<1> QED
    BY <1>2, <1>3, <1>5, <1>6, <1>7 DEF Mode

LEMMA ModeKeeps ==
    ASSUME TypeOK, LostInv, OnlyUpModifies, Deleting, Mode, WaitsFor, [Next]_vars,
           Unhurt(Excused), Unhurt(Excused)'
    PROVE  Mode'
<1>1. CASE PatchRead \/ PatchStep
  <2>1. \/ PatchRead \/ PatchModify \/ PatchReset \/ PatchWait \/ PatchExpires \/ PatchUndo
        \/ PatchWaitOld \/ PatchReject
        \/ RemoveRead("http") \/ RemoveSend("http") \/ RemoveDrop("http") \/ PlaceFails("http")
        \/ PlacePlan("http") \/ PlaceMark("http") \/ PlacePublish("http")
        BY <1>1, Hurts DEF PatchStep, PlaceStep
  <2> QED
      BY <2>1, ReadMode, ModifyMode, StoreMode, WaitMode, RejectMode,
         RemoveReadMode, RemoveSendMode, RemoveDropMode, PatchPlaceMode
<1>2. CASE LcStep \/ LcLost
  <2>1. \/ LcReceive \/ LcCleanup \/ LcLate \/ LcSave \/ LcBegin \/ LcUndo
        \/ PlaceFails("lc") \/ PlacePlan("lc") \/ PlaceMark("lc") \/ PlacePublish("lc")
        BY <1>2, LcIdleSteps, Hurts DEF LcStep, PlaceStep
  <2> QED
      BY <2>1, ReceiveMode, CleanupMode, SaveMode, UndoMode, LcPlaceMode
<1>3. CASE \E g \in Segment : OxpServe(g)
      BY <1>3, OxpMode
<1>4. CASE UNCHANGED vars
      BY <1>4, ModeSame DEF vars, wires
<1> QED
    BY <1>1, <1>2, <1>3, <1>4 DEF Next

LEMMA MatchNext ==
    ASSUME TypeOK, LostInv, OnlyUpModifies, MatchInv, [Next]_vars
    PROVE  MatchInv'
<1>1. Unhurt(Excused)' => Unhurt(Excused)
      BY HurtStays DEF Unhurt
<1> QED
    BY <1>1, DeletingKeeps, WaitsForKeeps, ModeKeeps DEF MatchInv

LEMMA EmptyQueue == Members(<< >>) = {} /\ \A X : Once(<< >>, X)
BY DEF Members, Once

\* It starts served, and nothing is under way.
LEMMA MatchInit ==
    ASSUME Init
    PROVE  MatchInv
<1>1. http = Idle /\ lc = Idle
      BY DEF Init, http, lc, Thread
<1>2. http.pc = "idle" /\ lc.pc = "idle" /\ lc.job = "none"
      BY <1>1, IdleType
<1>3. conn \in Conn /\ Present /\ Doc = conn /\ Pending = {}
      BY <1>2, InitConn, PatchAssumption DEF Present, Doc, Pending, Busy
<1>4. breakdown \in SUBSET Segment /\ breakdown # {} /\ attempt = 1
      BY NoIdsType, PatchAssumption DEF Init
<1>5. /\ conn.status = "UP" /\ ~ conn.partial /\ conn.late = {} /\ ~ conn.onFail
      /\ ~ conn.inProgress /\ conn.req = 0 /\ conn.resp = breakdown
      /\ conn.evc = [ g \in Segment |-> IF g \in breakdown THEN 1 ELSE 0 ]
      BY DEF Init, Blank
<1>6. request[attempt] = 0
      BY DEF Init
<1>7. Current(conn) /\ Whole(conn) /\ Provisioned(conn) = breakdown
      BY <1>4, <1>5 DEF Current, Whole, Provisioned
<1>8. \A g \in Segment : toLC[g] = << >>
      BY DEF Init
<1>9. inbox = << >> /\ evcs = breakdown \X {1}
      BY DEF Init
<1>10. ASSUME NEW g \in Segment
       PROVE  /\ Asked(g) = {} /\ Removals(g) = {} /\ \A op : Replies(op, g) = {}
              /\ ~ Awaited(g) /\ AwaitedOnce(g)
       BY <1>8, <1>9, EmptyQueue DEF Asked, Removals, Replies, Awaited, AwaitedOnce
<1>11. Followed(conn, {})
  <2>1. \A g \in Segment : Expected(g, conn)
        BY <1>10 DEF Expected
  <2>2. \A g \in Provisioned(conn) : << g, attempt >> \in evcs /\ ~ Leaving(g, attempt)
        BY <1>4, <1>7, <1>9, <1>10 DEF Leaving
  <2>3. ASSUME NEW e \in evcs PROVE Traced(e[1], e[2], conn, {})
        BY <1>4, <1>5, <1>9 DEF Traced
  <2> QED
      BY <1>5, <2>1, <2>2, <2>3 DEF Followed
<1>12. Serving
       BY <1>2, <1>3, <1>4, <1>5, <1>6, <1>7, <1>11
          DEF Serving, Coherent, HttpServes, LcServes, Busy
<1>13. Deleting /\ WaitsFor
       BY <1>2, <1>4, <1>10 DEF Deleting, WaitsFor
<1> QED
    BY <1>12, <1>13 DEF MatchInv, Mode

(***************************************************************************)
(* What follows from the invariant.                                        *)
(***************************************************************************)
LEMMA MatchShowsUp ==
    ASSUME TypeOK, MatchInv
    PROVE  UpMatchesRequest
<1> SUFFICES ASSUME Shows("UP"), ~ Removing, Unhurt(Excused)
             PROVE  \A g \in breakdown :
                        /\ << g, conn.evc[g] >> \in evcs
                        /\ request[conn.evc[g]] = conn.req
    BY DEF UpMatchesRequest, Excused
<1>1. Mode /\ Present /\ conn.status = "UP"
      BY DEF MatchInv, Shows
<1>2. ~ LcPlaces /\ ~ Ended
      BY <1>1, NotUp
<1>3. ~ Removed
      BY DEF Removed, Removing, At, http, Thread
<1>4. ~ PatchPlaces
      BY <1>1, <1>3 DEF PatchPlaces, Placing, Unplaced, Removing, At, http, Thread
<1>5. Serving
      BY <1>1, <1>2, <1>3, <1>4 DEF Mode
<1>6. Whole(conn) /\ Whole(Doc) /\ Current(conn) /\ Current(Doc) /\ request[attempt] = conn.req
      BY <1>1, <1>5 DEF Serving, Coherent, Coming, Failed
<1>7. conn \in Conn /\ Doc \in Conn
      BY <1>1, DocType
<1>8. conn.evc = Doc.evc
      BY <1>6, <1>7, WholeEvc
<1>9. \A g \in breakdown : conn.evc[g] = attempt
      BY <1>6 DEF Whole, Provisioned
<1>10. \A g \in Provisioned(Doc) : << g, attempt >> \in evcs
       BY <1>5, <1>6 DEF Serving, Followed, Whole
<1> QED
    BY <1>6, <1>9, <1>10 DEF Whole

\* The EVCs an OXP has or is asked for, but for those it is asked to remove,
\* are of the current placement.
LEMMA MatchKeeps ==
    ASSUME TypeOK, MatchInv
    PROVE  NoDoubleProvision
<1> SUFFICES ASSUME Unhurt(Excused), NEW g \in Segment
             PROVE  Cardinality(Kept(g)) <= 1
    BY DEF NoDoubleProvision, Excused
<1>1. Mode
      BY DEF MatchInv
<1>2. Kept(g) \subseteq { attempt }
  <2> SUFFICES ASSUME NEW n \in Kept(g)
               PROVE  n = attempt
      OBVIOUS
  <2>1. n \in Id
        BY DEF Kept, Id
  <2>2. << g, n >> \in evcs \/ Msg("post", n) \in Asked(g)
        BY <2>1, MsgParts DEF Kept, Asked, Members, Msg
  <2>3. ~ Leaving(g, n)
        BY DEF Kept, Leaving, Removals, Members
  <2>4. CASE Serving
    <3>1. Followed(Doc, Pending)
          BY <2>4 DEF Serving
    <3>2. CASE << g, n >> \in evcs
          BY <2>3, <3>1, <3>2 DEF Followed, Traced
    <3>3. CASE Msg("post", n) \in Asked(g)
          BY <2>1, <3>1, <3>3, MsgParts DEF Followed, Expected
    <3> QED
        BY <2>2, <3>2, <3>3
  <2>5. CASE Cleared
        BY <2>2, <2>3, <2>5 DEF Cleared, Awaited
  <2> QED
      BY <1>1, <2>4, <2>5 DEF Mode, Removed, PatchPlaces, LcPlaces, Ended
<1>3. IsFiniteSet({ attempt }) /\ Cardinality({ attempt }) = 1
      BY FS_Singleton
<1> QED
    BY <1>2, <1>3, FS_Subset, FS_CardinalityType

LEMMA MatchCorrect ==
    ASSUME OnlyUpModifies
    PROVE  Spec => [](TypeOK /\ MatchInv)
<1>1. Init => LostInv /\ MatchInv
      BY LostInit, MatchInit
<1>2. TypeOK /\ LostInv /\ MatchInv /\ [Next]_vars => LostInv' /\ MatchInv'
      BY NextKeeps, MatchNext
<1> QED
    BY <1>1, <1>2, TypeCorrect, PTL DEF Spec

\* A connection shown up is provisioned in every segment by the EVC its
\* document records, made for the request it shows, although the LC thread
\* counts answers without looking which placement they belong to and writes
\* back a copy that PATCH may have replaced meanwhile.
THEOREM UpMatchesRequestCorrect ==
    ASSUME OnlyUpModifies
    PROVE  Spec => []UpMatchesRequest
<1>1. TypeOK /\ MatchInv => UpMatchesRequest
      BY MatchShowsUp
<1> QED
    BY <1>1, MatchCorrect, PTL

\* No OXP is asked for a second EVC of the connection before it is asked to
\* remove the first one, whoever places it, rolls it back or cleans it up.
THEOREM NoDoubleProvisionCorrect ==
    ASSUME OnlyUpModifies
    PROVE  Spec => []NoDoubleProvision
<1>1. TypeOK /\ MatchInv => NoDoubleProvision
      BY MatchKeeps
<1> QED
    BY <1>1, MatchCorrect, PTL

(***************************************************************************)
(* PatchSticks.  When PATCH stores its request nothing is under way, so it *)
(* makes no difference what has struck before, nor what was left behind:   *)
(* until a create of the new placement fails, all orders and answers are   *)
(* of that placement, and the document counts them right.  If an answer is *)
(* lost, or its failure not recorded, the count never becomes complete.    *)
(* When it does, the document says UP and nothing is under way again.      *)
(***************************************************************************)
\* Nobody places the connection again without a request of its user.
NoneAgain ==
    /\ lc.job \in { "none", "old" }
    /\ lc.pc \notin { "remove", "send", "drop", "giveUp" }

\* The placement the document is about is that of the last PATCH.
OfLastPatch ==
    /\ Present /\ conn.req = patches /\ ~ conn.performed
    /\ breakdown # {} /\ attempt > 0 /\ request[attempt] = patches

PlacesNew ==
    /\ Quiet
    /\ Present /\ conn = http.doc /\ conn.req = patches /\ ~ conn.performed
    /\ conn.count = 0 /\ conn.evc = NoIds /\ conn.status # "UP"
    /\ http.pc # "plan" => OfLastPatch /\ http.brk = breakdown /\ http.id = attempt

\* The create or the answer that segment g is waiting for.
Pends(g, c) ==
    /\ AwaitedOnce(g)
    /\ Awaited(g) => g \in breakdown /\ c.evc[g] = 0
    /\ \A o \in Asked(g) : o.id = attempt
    /\ \A a \in Replies("post", g) : a.id = attempt

\* Every segment is recorded in c or will still answer.
Promising(c) == \A g \in breakdown : Awaited(g) \/ c.evc[g] = attempt

\* Nothing is deleted, and the EVCs of all positive answers are there.
AllThere(g, c) ==
    /\ Removals(g) = {} /\ Replies("delete", g) = {}
    /\ (c.evc[g] # 0 \/ \E a \in Replies("post", g) : a.ok) => << g, attempt >> \in evcs

\* What the copy c has recorded, and how many it has counted.
Counts(c) ==
    /\ \A g \in Segment : Pends(g, c)
    /\ \A g \in Segment : c.evc[g] = 0 \/ (c.evc[g] = attempt /\ g \in breakdown)
    /\ c.count = Cardinality(Provisioned(c))
    /\ Promising(c) => \A g \in Segment : AllThere(g, c)

Counted ==
    /\ OfLastPatch
    /\ lc.job = "none" /\ (lc.pc = "idle" \/ Busy)
    /\ ~ Doc.partial => Counts(Doc)
    /\ Doc.status = "UP" => ~ Doc.partial /\ Provisioned(Doc) = breakdown
    /\ conn.status = "UP" => Quiet
    /\ lc.pc = "late" => lc.doc.partial /\ conn.partial
    /\ lc.pc = "cleanup" => lc.doc.partial /\ Counts(conn) /\ ~ Promising(conn)

\* The LC thread is about to roll the PATCH back.
Undoing == Present /\ lc.job = "old" /\ lc.pc \in { "begin", "reset" } /\ conn.status = "DOWN"

Undone == Present /\ conn.performed

SticksInv ==
    Unhurt({"stuck", "hasty", "lost"}) =>
        /\ NoneAgain
        /\ http.job = "new" /\ http.pc \in { "plan", "mark", "publish" } => PlacesNew
        /\ http.job = "new" /\ http.pc = "wait" => Counted \/ Undoing \/ Undone
        /\ reply = "up" => http = Idle /\ Counted /\ conn.status = "UP"

LEMMA CountsSame ==
    ASSUME UNCHANGED << wires, attempt, breakdown >>, NEW c, NEW d,
           d.evc = c.evc, d.count = c.count
    PROVE  /\ Counts(c) => Counts(d)'
           /\ ~ Promising(c) => ~ Promising(d)'
<1>1. \A g \in Segment :
          /\ Asked(g)' = Asked(g) /\ Removals(g)' = Removals(g)
          /\ \A op : Replies(op, g)' = Replies(op, g)
          /\ Awaited(g)' = Awaited(g) /\ AwaitedOnce(g)' = AwaitedOnce(g)
      BY SameWires DEF wires
<1>2. Promising(d)' = Promising(c)
      BY <1>1 DEF Promising, Awaited, Asked, Replies, wires
<1>3. Provisioned(d)' = Provisioned(c)
      BY DEF Provisioned
<1>4. \A g \in Segment : Pends(g, c) => Pends(g, d)'
      BY <1>1 DEF Pends
<1>5. \A g \in Segment : AllThere(g, c) => AllThere(g, d)'
      BY <1>1 DEF AllThere, wires
<1> QED
    BY <1>2, <1>3, <1>4, <1>5 DEF Counts

\* What the OXPs do keeps the count right.
LEMMA CountsServed ==
    ASSUME TypeOK, NEW h \in Segment, OxpServe(h), NEW c
    PROVE  /\ Counts(c) => Counts(c)'
           /\ ~ Promising(c) => ~ Promising(c)'
<1>1. toLC[h] # << >> /\ UNCHANGED << breakdown, attempt >>
      BY OxpServes DEF counters
<1>2. PICK ok \in BOOLEAN : Serves(h, Head(toLC[h]), ok)
      BY OxpServes
<1>3. PICK o : o = Head(toLC[h])
      OBVIOUS
<1>4. Serves(h, o, ok)
      BY <1>2, <1>3
<1>5. \A g \in Segment :
        /\ Asked(g)' \subseteq Asked(g) /\ Removals(g)' \subseteq Removals(g)
        /\ Once(toLC[g], OrdersTo("post")) => Once(toLC'[g], OrdersTo("post"))
        /\ g # h \/ o.op # "post" => /\ Asked(g)' = Asked(g)
                                     /\ Replies("post", g)' = Replies("post", g)
        /\ g # h \/ o.op # "delete" => Replies("delete", g)' = Replies("delete", g)
        /\ Once(inbox, AnswersOf("post", g))
           /\ (g # h \/ o.op # "post" \/ Replies("post", g) = {})
              => Once(inbox', AnswersOf("post", g))
      BY <1>1, <1>3, <1>4, ServedParts
<1>6. /\ o.op = "post" => /\ o \in Asked(h)
                          /\ Once(toLC[h], OrdersTo("post")) => Asked(h)' = {}
                          /\ \A a \in Replies("post", h)' :
                                 a \in Replies("post", h) \/ (a.id = o.id /\ a.ok = ok)
      /\ o.op = "delete" => Leaving(h, o.id)
      BY <1>1, <1>3, <1>4, ServedParts
<1>7. /\ o.op \in { "post", "delete" }
      /\ evcs' = IF o.op = "delete" THEN evcs \ {<< h, o.id >>}
                 ELSE IF ok THEN evcs \cup {<< h, o.id >>} ELSE evcs
      BY <1>4 DEF Serves, Order
<1>8. \A g \in Segment : Awaited(g)' => Awaited(g)
      BY <1>5, <1>6, <1>7 DEF Awaited
<1>9. Promising(c)' => Promising(c)
      BY <1>1, <1>8 DEF Promising, TypeOK
<1> SUFFICES ASSUME Counts(c)
             PROVE  Counts(c)'
    BY <1>9
<1>10. \A g \in Segment : Pends(g, c)'
  <2> SUFFICES ASSUME NEW g \in Segment
               PROVE  Pends(g, c)'
      OBVIOUS
  <2>1. Pends(g, c) /\ Pends(h, c)
        BY DEF Counts
  <2>2. CASE g = h /\ o.op = "post"
    <3>1. Replies("post", h) = {} /\ Asked(h)' = {} /\ o.id = attempt
          BY <1>6, <2>1, <2>2 DEF Pends, AwaitedOnce
    <3>2. \A a \in Replies("post", h)' : a.id = attempt
          BY <1>6, <2>2, <3>1
    <3> QED
        BY <1>1, <1>5, <1>6, <2>1, <2>2, <3>1, <3>2, <1>8 DEF Pends, AwaitedOnce
  <2>3. CASE ~ (g = h /\ o.op = "post")
        BY <1>1, <1>5, <1>8, <2>1, <2>3 DEF Pends, AwaitedOnce
  <2> QED
      BY <2>2, <2>3
<1>11. ASSUME Promising(c)', NEW g \in Segment
       PROVE  AllThere(g, c)'
  <2>1. \A k \in Segment : AllThere(k, c)
        BY <1>9, <1>11 DEF Counts
  <2>2. o.op = "post"
        BY <1>6, <1>7, <2>1 DEF AllThere, Leaving
  <2>3. Removals(g)' = {} /\ Replies("delete", g)' = {}
        BY <1>5, <2>1, <2>2 DEF AllThere
  <2>4. evcs \subseteq evcs'
        BY <1>7, <2>2
  <2>5. ASSUME NEW a \in Replies("post", g)', a.ok
        PROVE  << g, attempt >> \in evcs'
    <3>1. CASE a \in Replies("post", g)
          BY <2>1, <2>4, <2>5, <3>1 DEF AllThere
    <3>2. CASE a \notin Replies("post", g)
      <4>1. g = h /\ a.id = o.id /\ ok
            BY <1>5, <1>6, <2>2, <2>5, <3>2
      <4>2. o.id = attempt
            BY <1>6, <2>2 DEF Counts, Pends
      <4> QED
          BY <1>7, <2>2, <4>1, <4>2
    <3> QED
        BY <3>1, <3>2
  <2> QED
      BY <1>1, <2>1, <2>3, <2>4, <2>5 DEF AllThere
<1> QED
    BY <1>1, <1>10, <1>11, CopySame DEF Counts

\* An answer is taken from the inbox: if it is to a create, nothing more is
\* awaited of its segment.
LEMMA AnswerCounts ==
    ASSUME TypeOK, inbox # << >>, inbox' = Tail(inbox),
           UNCHANGED << toLC, evcs, attempt, breakdown >>,
           NEW m, m = Head(inbox), NEW c, Counts(c), attempt > 0
    PROVE  /\ m \in Answer
           /\ m.op = "post" => /\ m.seg \in breakdown /\ m.seg \in Segment /\ c.evc[m.seg] = 0
                               /\ m.id = attempt
           /\ \A d : d.evc = c.evc /\ d.count = c.count =>
                  Counts(d)' /\ (m.op = "post" => ~ Promising(d)')
           /\ \A d : /\ m.op = "post" /\ m.ok /\ d.evc[m.seg] = attempt /\ d.count = c.count + 1
                     /\ \A g \in Segment : g # m.seg => d.evc[g] = c.evc[g]
                     => Counts(d)'
<1>1. /\ m \in Answer /\ m \in Replies(m.op, m.seg)
      /\ \A op, g : Replies(op, g)' \subseteq Replies(op, g)
      /\ \A op, g : op # m.op \/ g # m.seg => Replies(op, g)' = Replies(op, g)
      /\ \A X : Once(inbox, X) => Once(inbox', X)
      /\ \A g : Once(inbox, AnswersOf("post", g)) /\ m \in AnswersOf("post", g)
                    => Replies("post", g)' = {}
      BY InboxTaken
<1>2. m.seg \in Segment /\ m.op \in { "post", "delete" } /\ attempt \in Nat /\ attempt # 0
      BY <1>1 DEF Answer, TypeOK
<1>3. \A g \in Segment : Asked(g)' = Asked(g) /\ Removals(g)' = Removals(g)
      BY SameOrders
<1>4. \A g \in Segment : Pends(g, c) /\ (c.evc[g] = 0 \/ (c.evc[g] = attempt /\ g \in breakdown))
      BY DEF Counts
<1>5. \A g \in Segment : Awaited(g)' => Awaited(g)
      BY <1>1, <1>3 DEF Awaited
<1>6. m.op = "post" => /\ m.seg \in breakdown /\ c.evc[m.seg] = 0 /\ m.id = attempt
                       /\ Awaited(m.seg) /\ ~ Awaited(m.seg)'
  <2>1. m.op = "post" => m \in AnswersOf("post", m.seg)
        BY <1>1 DEF Replies
  <2>2. m.op = "post" => Awaited(m.seg)
        BY <1>1 DEF Awaited
  <2>3. m.op = "post" => Asked(m.seg)' = {} /\ Replies("post", m.seg)' = {}
        BY <1>1, <1>2, <1>3, <1>4, <2>1 DEF Pends, AwaitedOnce
  <2> QED
      BY <1>1, <1>2, <1>4, <2>2, <2>3 DEF Pends, Awaited
<1>7. \A g \in Segment : AwaitedOnce(g)'
  <2>1. \A g \in Segment : AwaitedOnce(g)
        BY <1>4 DEF Pends
  <2> QED
      BY <1>1, <1>3, <2>1 DEF AwaitedOnce
<1>8. ASSUME NEW d, d.evc = c.evc, d.count = c.count
      PROVE  Counts(d)' /\ (m.op = "post" => ~ Promising(d)')
  <2>1. \A g \in Segment : Pends(g, d)'
        BY <1>1, <1>3, <1>4, <1>5, <1>7, <1>8 DEF Pends
  <2>2. m.op = "post" => ~ Promising(d)'
        BY <1>2, <1>6, <1>8 DEF Promising
  <2>3. ASSUME Promising(d)', NEW g \in Segment
        PROVE  AllThere(g, d)'
    <3>1. Promising(c)
          BY <1>5, <1>8, <2>3 DEF Promising, TypeOK
    <3>2. AllThere(g, c)
          BY <3>1 DEF Counts
    <3> QED
        BY <1>1, <1>3, <1>8, <3>2 DEF AllThere
  <2>4. Provisioned(d)' = Provisioned(c)
        BY <1>8 DEF Provisioned
  <2> QED
      BY <1>4, <1>8, <2>1, <2>2, <2>3, <2>4 DEF Counts
<1>9. ASSUME NEW d, m.op = "post", m.ok, d.evc[m.seg] = attempt, d.count = c.count + 1,
             \A g \in Segment : g # m.seg => d.evc[g] = c.evc[g]
      PROVE  Counts(d)'
  <2>1. \A g \in Segment : Pends(g, d)'
        BY <1>1, <1>3, <1>4, <1>5, <1>6, <1>7, <1>9 DEF Pends
  <2>2. ASSUME Promising(d)', NEW g \in Segment
        PROVE  AllThere(g, d)'
    <3>1. Promising(c)
          BY <1>2, <1>5, <1>6, <1>9, <2>2 DEF Promising, TypeOK
    <3>2. AllThere(g, c) /\ AllThere(m.seg, c)
          BY <1>2, <3>1 DEF Counts
    <3>3. g = m.seg => << g, attempt >> \in evcs
          BY <1>1, <1>9, <3>2 DEF AllThere
    <3> QED
        BY <1>1, <1>3, <1>9, <3>2, <3>3 DEF AllThere
  <2>3. Provisioned(d)' = Provisioned(c) \cup {m.seg} /\ m.seg \notin Provisioned(c)
        BY <1>2, <1>6, <1>9 DEF Provisioned, TypeOK
  <2>4. IsFiniteSet(Provisioned(c))
    <3>1. breakdown \in SUBSET Segment /\ Provisioned(c) \in SUBSET breakdown
          BY DEF TypeOK, Provisioned
    <3> QED
        BY <3>1, PatchAssumption, FS_Subset
  <2>5. Cardinality(Provisioned(d)') = Cardinality(Provisioned(c)) + 1
        BY <2>3, <2>4, FS_AddElement
  <2>6. d.count = Cardinality(Provisioned(d)')
        BY <1>9, <2>5 DEF Counts
  <2> QED
      BY <1>2, <1>4, <1>6, <1>9, <2>1, <2>2, <2>6 DEF Counts
<1> QED
    BY <1>1, <1>2, <1>6, <1>8, <1>9

\* When every segment has been provisioned, nothing is under way.
LEMMA CountedQuiet ==
    ASSUME TypeOK, NEW c, Counts(c), Provisioned(c) = breakdown, attempt > 0
    PROVE  inbox = << >> /\ \A g \in Segment : toLC[g] = << >>
<1>1. attempt \in Nat /\ attempt # 0 /\ inbox \in Seq(Answer) /\ toLC \in [ Segment -> Seq(Order) ]
      BY DEF TypeOK
<1>2. \A g \in breakdown : c.evc[g] = attempt
      BY DEF Provisioned
<1>3. \A g \in Segment : ~ Awaited(g)
      BY <1>1, <1>2 DEF Counts, Pends
<1>4. \A g \in Segment : AllThere(g, c)
      BY <1>2 DEF Counts, Promising
<1>5. inbox = << >>
  <2> SUFFICES ASSUME inbox # << >>
               PROVE  FALSE
      OBVIOUS
  <2>1. Head(inbox) \in Members(inbox) /\ Head(inbox) \in Answer
        BY <1>1, TailParts
  <2>2. PICK m : m = Head(inbox)
        OBVIOUS
  <2>3. m.op \in { "post", "delete" } /\ m.seg \in Segment /\ m \in Replies(m.op, m.seg)
        BY <2>1, <2>2 DEF Answer, Replies, AnswersOf
  <2> QED
      BY <1>3, <1>4, <2>3 DEF Awaited, AllThere
<1>6. ASSUME NEW g \in Segment, toLC[g] # << >>
      PROVE  FALSE
  <2>1. Head(toLC[g]) \in Members(toLC[g]) /\ Head(toLC[g]) \in Order
        BY <1>1, <1>6, TailParts
  <2>2. PICK o : o = Head(toLC[g])
        OBVIOUS
  <2>3. o \in Asked(g) \/ o \in Removals(g)
        BY <2>1, <2>2 DEF Order, Asked, Removals, OrdersTo
  <2> QED
      BY <1>3, <1>4, <2>3 DEF Awaited, AllThere
<1> QED
    BY <1>5, <1>6

\* The LC thread takes up an answer with a copy c of the document k.
LEMMA CountedTakes ==
    ASSUME OfLastPatch, conn.status # "UP", NEW k, k = conn,
           UNCHANGED << conn, breakdown, attempt, request, patches >>,
           NEW pc \in { "save", "late", "cleanup" }, NEW c,
           lc'.pc = pc, lc'.job = "none", lc'.doc = c,
           ~ c.partial => Counts(c)',
           c.status = "UP" => ~ c.partial /\ Provisioned(c) = breakdown,
           pc = "late" => c.partial /\ k.partial,
           pc = "cleanup" => c.partial /\ Counts(k)' /\ ~ Promising(k)'
    PROVE  Counted'
<1>1. conn' = k /\ conn'.status # "UP"
      OBVIOUS
<1>2. Doc' = c /\ Busy'
      BY DEF Doc, Busy
<1>3. OfLastPatch'
      BY DEF OfLastPatch, Present
<1>4. Provisioned(c)' = Provisioned(c)
      BY CopySame
<1> QED
    BY <1>1, <1>2, <1>3, <1>4 DEF Counted

\* The LC thread does not take it up.
LEMMA CountedIgnores ==
    ASSUME OfLastPatch, conn.status # "UP", NEW k, k = conn,
           UNCHANGED << conn, breakdown, attempt, request, patches >>,
           lc' = Idle, ~ k.partial => Counts(k)'
    PROVE  Counted'
<1>1. conn' = k /\ conn'.status # "UP" /\ lc'.pc = "idle" /\ lc'.job = "none"
      BY IdleType
<1>2. Doc' = k /\ ~ Busy'
      BY <1>1 DEF Doc, Busy
<1>3. OfLastPatch'
      BY DEF OfLastPatch, Present
<1> QED
    BY <1>1, <1>2, <1>3 DEF Counted

\* The LC thread handles the answer to a create, to a delete, or a failure.
LEMMA CountedReceives ==
    ASSUME TypeOK, Counted, LcReceive
    PROVE  Counted'
<1>1. /\ lc = Idle /\ Present /\ Doc = conn /\ conn \in Conn /\ conn.status # "UP"
      /\ inbox # << >> /\ inbox' = Tail(inbox)
      /\ UNCHANGED << conn, breakdown, toLC, evcs, attempt, request, patches >>
  <2>1. lc = Idle /\ Present /\ conn.status # "UP" /\ inbox # << >>
        BY DEF LcReceive, lc, Counted, OfLastPatch, Quiet, NoneUnderWay
  <2> QED
      BY <2>1, IdleType, DocType DEF LcReceive, counters, Doc, Busy
<1>2. PICK m, k : m = Head(inbox) /\ k = conn
      OBVIOUS
<1>3. k \in Conn /\ OfLastPatch /\ attempt > 0 /\ (~ k.partial => Counts(k)) /\ k.status # "UP"
      BY <1>1, <1>2 DEF Counted, OfLastPatch
<1>4. /\ m \in Answer
      /\ ~ k.partial =>
           /\ m.op = "post" => /\ m.seg \in breakdown /\ m.seg \in Segment /\ k.evc[m.seg] = 0
                               /\ m.id = attempt
           /\ \A d : d.evc = k.evc /\ d.count = k.count =>
                  Counts(d)' /\ (m.op = "post" => ~ Promising(d)')
           /\ \A d : /\ m.op = "post" /\ m.ok /\ d.evc[m.seg] = attempt /\ d.count = k.count + 1
                     /\ \A g \in Segment : g # m.seg => d.evc[g] = k.evc[g]
                     => Counts(d)'
  <2>1. m \in Answer
        BY <1>1, <1>2 DEF TypeOK
  <2>2. ~ k.partial => Counts(k)
        BY <1>3
  <2> QED
      BY <1>1, <1>2, <1>3, <2>1, <2>2, AnswerCounts
<1> DEFINE d == Recorded(k, m)
<1>5. /\ d \in Conn /\ d.status = k.status /\ d.count = k.count /\ d.partial = k.partial
      /\ d.evc[m.seg] = IF m.op = "delete" THEN k.evc[m.seg] ELSE IF m.ok THEN m.id ELSE 0
      /\ \A g \in Segment : g # m.seg => d.evc[g] = k.evc[g]
      BY <1>3, <1>4, RecordedFields, RecordedType
<1>6. m.seg \in Segment /\ m.op \in { "post", "delete" } /\ k.evc \in [ Segment -> Id ]
      /\ d.evc \in [ Segment -> Id ]
      BY <1>3, <1>4, <1>5, ConnShape DEF Answer
\* An answer that does not count leaves the EVC ids as they are.
<1>7. d.evc[m.seg] = k.evc[m.seg] => d.evc = k.evc
  <2>1. d.evc[m.seg] = k.evc[m.seg] => \A g \in Segment : d.evc[g] = k.evc[g]
        BY <1>5
  <2> HIDE DEF d
  <2> QED
      BY <1>6, <2>1
<1>8. CASE LcIgnore(m)
      BY <1>3, <1>8 DEF LcIgnore, Known, OfLastPatch
<1>9. CASE LcCreated(m)
  <2>1. m.ok /\ m.op = "post" /\ ~ k.partial
        BY <1>2, <1>9 DEF LcCreated
  <2> DEFINE e == [ d EXCEPT !.count = d.count + 1 ]
             f == [ e EXCEPT !.status = "UP" ]
  <2>2. IF e.count # Cardinality(breakdown) THEN Handle("save", e, {})
        ELSE Handle("save", f, {}) \/ UNCHANGED th
        BY <1>2, <1>9 DEF LcCreated
  <2> HIDE DEF d
  <2>3. /\ e \in Conn /\ e.count = k.count + 1 /\ e.status = k.status /\ e.evc = d.evc
        /\ ~ e.partial
        BY <1>5, <2>1, ConnFields DEF Conn
  <2> HIDE DEF e
  <2>4. f.count = e.count /\ f.status = "UP" /\ f.evc = d.evc /\ ~ f.partial
        BY <2>3, StatusNames DEF Conn
  <2> HIDE DEF f
  <2>5. Counts(e)' /\ Counts(f)'
        BY <1>4, <1>5, <2>1, <2>3, <2>4
  <2>6. Provisioned(f)' = Provisioned(f) /\ Provisioned(f) \in SUBSET breakdown /\ IsFiniteSet(breakdown)
        BY <1>1, CopySame, PatchAssumption, FS_Subset DEF Provisioned, TypeOK
  <2>7. f.count = Cardinality(Provisioned(f)')
        BY <2>5 DEF Counts
  <2>8. e.count = Cardinality(breakdown) => Provisioned(f) = breakdown
        BY <2>4, <2>6, <2>7, FS_Subset
  <2>9. CASE Handle("save", e, {}) /\ e.count # Cardinality(breakdown)
        BY <1>1, <1>2, <1>3, <2>3, <2>5, <2>9, HandleIs, CountedTakes
  <2>10. CASE Handle("save", f, {}) /\ e.count = Cardinality(breakdown)
         BY <1>1, <1>2, <1>3, <2>4, <2>5, <2>8, <2>10, HandleIs, CountedTakes
  <2>11. CASE UNCHANGED th
    <3>1. lc' = Idle
          BY <1>1, <2>11 DEF lc
    <3>2. Counts(k)'
          BY <1>4, <2>1
    <3> QED
        BY <1>1, <1>2, <1>3, <3>1, <3>2, CountedIgnores
  <2> QED
      BY <2>2, <2>9, <2>10, <2>11
<1>10. CASE LcCreatedLate(m)
  <2>1. k.partial /\ (Handle("save", d, {m.seg}) \/ Handle("late", d, {m.seg}))
        BY <1>2, <1>10 DEF LcCreatedLate
  <2> HIDE DEF d
  <2>2. d.partial /\ d.status # "UP"
        BY <1>3, <1>5, <2>1
  <2>3. PICK pc \in { "save", "late" } : Handle(pc, d, {m.seg})
        BY <2>1
  <2>4. lc'.pc = pc /\ lc'.job = "none" /\ lc'.doc = d
        BY <2>3, HandleIs
  <2> QED
      BY <1>1, <1>2, <1>3, <2>1, <2>2, <2>4, CountedTakes
<1>11. CASE LcDeleted(m)
  <2>1. m.op = "delete" /\ Handle("save", d, {}) /\ d.evc = k.evc
        BY <1>2, <1>5, <1>7, <1>11 DEF LcDeleted
  <2>2. ~ d.partial => Counts(d)'
        BY <1>4, <1>5, <2>1
  <2> HIDE DEF d
  <2> QED
      BY <1>1, <1>2, <1>3, <1>5, <2>1, <2>2, HandleIs, CountedTakes
<1>12. CASE LcFailed(m)
  <2> DEFINE st == IF d.status \in { "MODIFYING", "UNDER_PROVISIONING" } THEN "DOWN" ELSE d.status
             e == [ d EXCEPT !.status = st ]
             f == [ e EXCEPT !.partial = TRUE ]
  <2>1. ~ m.ok /\ IF m.op = "post" /\ ~ e.partial THEN Handle("cleanup", f, {})
                  ELSE Handle("save", e, {})
        BY <1>2, <1>12 DEF LcFailed
  <2>2. st \in Status /\ st # "UP"
        BY <1>3, <1>5, ConnShape, StatusNames
  <2>3. ~ k.partial => d.evc = k.evc
        BY <1>4, <1>5, <1>6, <1>7, <2>1
  <2> HIDE DEF d, st
  <2>4. /\ e \in Conn /\ e.status = st /\ e.evc = d.evc /\ e.count = d.count
        /\ e.partial = d.partial
        BY <1>5, <2>2, ConnFields DEF Conn
  <2> HIDE DEF e
  <2>5. f.status = st /\ f.partial
        BY <2>4 DEF Conn
  <2> HIDE DEF f
  <2>6. ~ e.partial => Counts(e)'
        BY <1>4, <1>5, <2>3, <2>4
  <2>7. CASE m.op = "post" /\ ~ e.partial /\ Handle("cleanup", f, {})
    <3>1. Counts(k)' /\ ~ Promising(k)'
          BY <1>4, <1>5, <2>4, <2>7
    <3> QED
        BY <1>1, <1>2, <1>3, <2>2, <2>5, <2>7, <3>1, HandleIs, CountedTakes
  <2>8. CASE Handle("save", e, {})
        BY <1>1, <1>2, <1>3, <2>2, <2>4, <2>6, <2>8, HandleIs, CountedTakes
  <2> QED
      BY <2>1, <2>7, <2>8
<1> QED
    BY <1>2, <1>8, <1>9, <1>10, <1>11, <1>12 DEF LcReceive

LEMMA CountedServed ==
    ASSUME TypeOK, Counted, NEW h \in Segment, OxpServe(h)
    PROVE  Counted'
<1>1. toLC[h] # << >> /\ UNCHANGED << conn, breakdown, counters, th >>
      BY OxpServes
<1>2. conn.status # "UP"
      BY <1>1 DEF Counted, Quiet, NoneUnderWay
<1>3. PICK k, d : k = conn /\ d = Doc
      OBVIOUS
<1>4. conn' = k /\ Doc' = d /\ lc' = lc /\ Busy' = Busy /\ OfLastPatch'
      BY <1>1, <1>3 DEF Doc, Busy, lc, counters, Counted, OfLastPatch, Present
<1>5. /\ Counts(k) => Counts(k)'
      /\ Counts(d) => Counts(d)'
      /\ ~ Promising(k) => ~ Promising(k)'
      BY CountsServed
<1>6. Provisioned(d)' = Provisioned(d)
      BY <1>1, CopySame DEF counters
<1>7. ~ d.partial => Counts(d)'
      BY <1>3, <1>5 DEF Counted
<1>8. lc.pc = "cleanup" => lc.doc.partial /\ Counts(k)' /\ ~ Promising(k)'
      BY <1>3, <1>5 DEF Counted
<1>9. d.status = "UP" => ~ d.partial /\ Provisioned(d)' = breakdown'
      BY <1>1, <1>3, <1>6 DEF Counted
<1> QED
    BY <1>2, <1>3, <1>4, <1>7, <1>8, <1>9 DEF Counted

LEMMA CleansIs ==
    ASSUME TypeOK, LcCleanup \/ LcLate
    PROVE  /\ lc.pc \in { "cleanup", "late" } /\ http' = http
           /\ lc'.pc = "save" /\ lc'.job = lc.job
           /\ lc'.doc.status = lc.doc.status /\ lc'.doc.partial = lc.doc.partial
<1>1. lc \in ThreadState /\ lc.doc \in Conn /\ "lc" \in Thread
      BY Threads DEF Thread
<1>2. PICK y : y = IF LcCleanup THEN [ lc EXCEPT !.pc = "save" ]
                   ELSE [ lc EXCEPT !.pc = "save", !.doc.late = lc.doc.late \cup lc.seg ]
      OBVIOUS
<1>3. th' = [ th EXCEPT !["lc"] = y ]
  <2>1. CASE LcCleanup
        BY <1>2, <2>1 DEF LcCleanup, Goto, lc
  <2>2. CASE LcLate /\ ~ LcCleanup
    <3>1. th' = [ th EXCEPT !["lc"] =
                    [ th["lc"] EXCEPT !.pc = "save", !.doc.late = th["lc"].doc.late \cup th["lc"].seg ] ]
          BY <1>1, <2>2 DEF LcLate, TypeOK
    <3> QED
        BY <1>2, <2>2, <3>1 DEF lc
  <2> QED
      BY <2>1, <2>2
<1>4. /\ y.pc = "save" /\ y.job = lc.job
      /\ y.doc.status = lc.doc.status /\ y.doc.partial = lc.doc.partial
      BY <1>1, <1>2 DEF ThreadState, Conn
<1> QED
    BY <1>3, <1>4, LcMoves, Threads DEF LcCleanup, LcLate

LEMMA CountedCleans ==
    ASSUME TypeOK, Counted, LcCleanup \/ LcLate
    PROVE  Counted'
<1>1. /\ lc.pc \in { "cleanup", "late" } /\ lc'.pc = "save" /\ lc'.job = lc.job
      /\ lc'.doc.status = lc.doc.status /\ lc'.doc.partial = lc.doc.partial
      BY CleansIs
<1>2. lc.doc.partial /\ Doc = lc.doc /\ lc # Idle /\ lc.job = "none" /\ OfLastPatch
      BY <1>1, IdleType DEF Counted, Doc, Busy
<1>3. conn.status # "UP" /\ lc.doc.status # "UP"
      BY <1>2 DEF Counted, Quiet, NoneUnderWay, lc
<1>4. PICK k, c : k = conn /\ c = lc'.doc
      OBVIOUS
<1>5. UNCHANGED << conn, breakdown, attempt, request, patches >>
      BY DEF LcCleanup, LcLate, counters
<1> QED
    BY <1>1, <1>2, <1>3, <1>4, <1>5, CountedTakes

\* Deletes are published when an answer is already missing: this does not
\* disturb the count.
LEMMA DeletesCount ==
    ASSUME TypeOK, NEW D \in SUBSET Segment, NEW F \in [ Segment -> Id ],
           toLC' = Publish("delete", D, F), UNCHANGED << inbox, attempt, breakdown >>,
           NEW c, Counts(c), ~ Promising(c)
    PROVE  Counts(c)'
<1>1. ASSUME NEW g \in Segment
      PROVE  /\ Asked(g)' = Asked(g)
             /\ Once(toLC[g], OrdersTo("post")) => Once(toLC'[g], OrdersTo("post"))
  <2> DEFINE o == Msg("delete", F[g])
  <2>1. o \notin OrdersTo("post")
        BY MsgParts
  <2>2. /\ g \notin D => toLC'[g] = toLC[g]
        /\ g \in D => Members(toLC'[g]) = Members(toLC[g]) \cup {o}
        /\ \A X : Once(toLC[g], X) /\ (o \notin X \/ Members(toLC[g]) \cap X = {})
                      => Once(toLC'[g], X)
    <3>1. "delete" \in { "post", "delete" }
          OBVIOUS
    <3> QED
        BY <3>1, Published
  <2> HIDE DEF o
  <2> QED
      BY <2>1, <2>2 DEF Asked
<1>2. \A g \in Segment :
          /\ Replies("post", g)' = Replies("post", g) /\ Awaited(g)' = Awaited(g)
          /\ AwaitedOnce(g) => AwaitedOnce(g)'
      BY <1>1 DEF Replies, Awaited, AwaitedOnce
<1>3. \A g \in Segment : Pends(g, c)'
      BY <1>1, <1>2 DEF Counts, Pends
<1>4. ~ Promising(c)'
      BY <1>2 DEF Promising, TypeOK
<1> QED
    BY <1>3, <1>4, CopySame DEF Counts

\* The answer is lost, and so is what it said.
LEMMA CountedBroken ==
    ASSUME TypeOK, Counted, LcBroken
    PROVE  Counted'
<1>1. lc' = Idle /\ UNCHANGED << conn, breakdown, attempt, request, patches, inbox, evcs >>
      BY LcMoves DEF LcBroken, counters
<1>2. lc.pc \in { "cleanup", "late" } /\ lc # Idle /\ OfLastPatch /\ conn.status # "UP"
  <2>1. lc.pc \in { "cleanup", "late" }
        BY Threads DEF LcBroken
  <2> QED
      BY <2>1, IdleType DEF Counted, Quiet, NoneUnderWay, lc
<1>3. PICK k : k = conn
      OBVIOUS
<1>4. CASE lc.pc = "late"
  <2>1. k.partial
        BY <1>3, <1>4 DEF Counted
  <2> QED
      BY <1>1, <1>2, <1>3, <2>1, CountedIgnores
<1>5. CASE lc.pc = "cleanup"
  <2>1. Counts(k) /\ ~ Promising(k)
        BY <1>3, <1>5 DEF Counted
  <2>2. PICK c : c = lc.doc
        OBVIOUS
  <2>3. SomeDeletes(breakdown, c)
        BY <1>5, <2>2, Threads DEF LcBroken, lc
  <2>4. PICK D \in SUBSET Segment : toLC' = Publish("delete", D, c.evc)
        BY <2>3 DEF SomeDeletes, Deletable, TypeOK
  <2>5. c.evc \in [ Segment -> Id ]
        BY <2>2, Threads, ConnShape
  <2>6. Counts(k)'
        BY <1>1, <2>1, <2>4, <2>5, DeletesCount
  <2> QED
      BY <1>1, <1>2, <1>3, <2>6, CountedIgnores
<1> QED
    BY <1>2, <1>4, <1>5

\* The copy is written back; when it shows a failed PATCH that has been
\* cleaned up, the LC thread goes on to roll it back.
LEMMA CountedSaved ==
    ASSUME TypeOK, Counted, LcSave
    PROVE  Counted' \/ Undoing'
<1>1. /\ lc.pc = "save" /\ lc.doc \in Conn
      /\ UNCHANGED << breakdown, wires, attempt, request, patches >>
      /\ IF CleanedUp(lc.doc, lc.brk) THEN lc'.pc = "begin" /\ lc'.job = "old" ELSE lc' = Idle
      BY SaveIs DEF LcSave, counters
<1>2. Present /\ conn \in Conn /\ OfLastPatch /\ Doc = lc.doc
      BY <1>1, DocType DEF Counted, OfLastPatch, Doc, Busy
<1>3. PICK c, d : c = lc.doc /\ d = Saved(lc.doc)
      OBVIOUS
<1>4. /\ d.status = c.status /\ d.count = c.count /\ d.evc = c.evc
      /\ d.partial = c.partial /\ d.req = conn.req /\ d.performed = conn.performed
      BY <1>1, <1>2, <1>3, SavedFields
<1>5. conn' = d /\ Present'
      BY <1>2, <1>3, SaveIs
<1>6. CASE CleanedUp(lc.doc, lc.brk)
      BY <1>1, <1>3, <1>4, <1>5, <1>6 DEF CleanedUp, Undoing
<1>7. CASE ~ CleanedUp(lc.doc, lc.brk)
  <2>1. lc' = Idle /\ lc'.pc = "idle" /\ lc'.job = "none"
        BY <1>1, <1>7, IdleType
  <2>2. Doc' = d /\ OfLastPatch'
        BY <1>1, <1>2, <1>4, <1>5, <2>1 DEF Doc, Busy, OfLastPatch
  <2>3. ~ d.partial => Counts(c) /\ Counts(d)'
        BY <1>1, <1>2, <1>3, <1>4, CountsSame DEF Counted
  <2>4. d.status = "UP" => ~ d.partial /\ Provisioned(c) = breakdown /\ Provisioned(d)' = breakdown'
        BY <1>1, <1>2, <1>3, <1>4 DEF Counted, Provisioned
  <2>5. d.status = "UP" => Quiet'
    <3>1. d.status = "UP" => inbox = << >> /\ \A g \in Segment : toLC[g] = << >>
          BY <1>2, <2>3, <2>4, CountedQuiet DEF OfLastPatch
    <3> QED
        BY <1>1, <2>1, <3>1 DEF Quiet, NoneUnderWay, wires, lc
  <2> QED
      BY <1>5, <2>1, <2>2, <2>3, <2>4, <2>5 DEF Counted
<1> QED
    BY <1>6, <1>7

LEMMA CountedSame ==
    ASSUME UNCHANGED << conn, breakdown, wires, attempt, request, patches >>, lc' = lc, Counted
    PROVE  Counted'
<1>1. PICK k, d : k = conn /\ d = Doc
      OBVIOUS
<1>2. conn' = k /\ Doc' = d /\ Busy' = Busy /\ OfLastPatch'
      BY <1>1 DEF Doc, Busy, Counted, OfLastPatch, Present
<1>3. /\ Counts(k) => Counts(k)'
      /\ Counts(d) => Counts(d)'
      /\ ~ Promising(k) => ~ Promising(k)'
      BY CountsSame
<1>4. Provisioned(d)' = Provisioned(d)
      BY CopySame
<1>5. Quiet => Quiet'
      BY DEF Quiet, NoneUnderWay, wires, lc
<1>6. lc.pc = "cleanup" => lc.doc.partial /\ Counts(k)' /\ ~ Promising(k)'
      BY <1>1, <1>3 DEF Counted
<1>7. ~ d.partial => Counts(d)'
      BY <1>1, <1>3 DEF Counted
<1>8. d.status = "UP" => ~ d.partial /\ Provisioned(d)' = breakdown'
      BY <1>1, <1>4 DEF Counted
<1> QED
    BY <1>1, <1>2, <1>5, <1>6, <1>7, <1>8 DEF Counted

\* When nothing is under way, neither the LC thread nor an OXP does anything.
LEMMA QuietIdles ==
    ASSUME TypeOK, Quiet
    PROVE  ~ LcStep /\ \A g \in Segment : ~ OxpServe(g)
<1>1. th["lc"].pc = "idle" /\ inbox = << >>
      BY IdleType DEF Quiet, NoneUnderWay
<1>2. ~ PlaceStep("lc")
      BY <1>1 DEF PlaceStep, At, RemoveRead, RemoveSend, RemoveBroken, RemoveDrop, PlaceFails,
                  PlacePlan, PlaceMark, PlacePublish, PlaceBroken
<1>3. ~ LcStep
      BY <1>1, <1>2 DEF LcStep, LcReceive, LcCleanup, LcLate, LcBroken, LcSave, LcBegin, LcUndo,
                        LcAgain, LcGiveUp, At
<1> QED
    BY <1>3 DEF Quiet, NoneUnderWay, OxpServe

\* A rollback that is about to begin is carried out, and one that has been
\* stored stays: this thread does nothing else.
LEMMA UndoingKept ==
    ASSUME TypeOK, NoneAgain, LcStep, Undoing \/ Undone
    PROVE  Undoing' \/ Undone'
<1>1. lc \in ThreadState /\ lc.doc \in Conn /\ conn \in Conn /\ lc.doc.back \in Request /\ Present
      BY Threads, ConnShape DEF Undoing, Undone, Present, TypeOK
<1>2. CASE LcReceive \/ LcCleanup \/ LcLate \/ LcBroken \/ PlaceFails("lc") \/ PlacePlan("lc")
           \/ PlacePublish("lc") \/ PlaceBroken("lc")
  <2>1. conn' = conn
        BY <1>2 DEF LcReceive, LcCleanup, LcLate, LcBroken, PlaceFails, PlacePlan, PlacePublish,
                    PlaceBroken
  <2>2. CASE Undone
        BY <2>1, <2>2 DEF Undone, Present
  <2>3. CASE Undoing
    <3>1. th["lc"].pc \in { "begin", "reset" } /\ th["lc"] # Idle
          BY <2>3, IdleType DEF Undoing, lc
    <3> QED
        BY <1>2, <3>1 DEF LcReceive, LcCleanup, LcLate, LcBroken, PlaceFails, PlacePlan,
                          PlacePublish, PlaceBroken, At
  <2> QED
      BY <2>2, <2>3
<1>3. CASE LcSave
  <2>1. lc.pc = "save" /\ conn' = Saved(lc.doc) /\ Present'
        BY <1>1, <1>3, SaveIs
  <2>2. Saved(lc.doc).performed = conn.performed
        BY <1>1, SavedFields
  <2> QED
      BY <2>1, <2>2 DEF Undoing, Undone
<1>4. CASE LcBegin
  <2> DEFINE c == [ conn EXCEPT !.inProgress = TRUE ]
             y == [ lc EXCEPT !.pc = "reset" ]
  <2>1. th' = [ th EXCEPT !["lc"] = y ] /\ conn' = c /\ lc.pc = "begin"
        BY <1>1, <1>4, Threads DEF LcBegin, Goto, DbUpdate, lc
  <2>2. y.pc = "reset" /\ y.job = lc.job
        BY <1>1 DEF ThreadState
  <2>3. c \in Conn /\ c.status = conn.status /\ c.performed = conn.performed
        BY <1>1, ConnFields DEF Conn
  <2> HIDE DEF c, y
  <2>4. lc' = y /\ Present'
        BY <2>1, <2>3, LcMoves, PatchAssumption DEF Present
  <2> QED
      BY <2>1, <2>2, <2>3, <2>4 DEF Undoing, Undone
<1>5. CASE LcUndo
  <2> DEFINE c == Restored(lc.doc.back)
  <2>1. conn' = c
        BY <1>5 DEF LcUndo, DbAdd, lc
  <2>2. c \in Conn /\ c.performed
        BY <1>1, RestoredType, RestoredFields
  <2> QED
      BY <2>1, <2>2, PatchAssumption DEF Undone, Present
<1>6. CASE PlaceMark("lc")
  <2> DEFINE c == [ conn EXCEPT !.status = "UNDER_PROVISIONING" ]
  <2>1. conn' = c /\ lc.pc = "mark"
        BY <1>1, <1>6, Threads DEF PlaceMark, DbSetStatus, DbUpdate
  <2>2. c \in Conn /\ c.performed = conn.performed
        BY <1>1, ConnFields, StatusNames DEF Conn
  <2> QED
      BY <2>1, <2>2, PatchAssumption DEF Undoing, Undone, Present
<1>7. CASE RemoveRead("lc") \/ RemoveSend("lc") \/ RemoveBroken("lc") \/ RemoveDrop("lc")
           \/ LcAgain \/ LcGiveUp
      BY <1>7, Threads DEF NoneAgain, RemoveRead, RemoveSend, RemoveBroken, RemoveDrop, LcAgain,
                           LcGiveUp, lc
<1> QED
    BY <1>2, <1>3, <1>4, <1>5, <1>6, <1>7 DEF LcStep, PlaceStep

LEMMA HttpOnly ==
    ASSUME TypeOK, PatchRead \/ PatchStep
    PROVE  lc' = lc
<1>1. th \in [ Thread -> ThreadState ] /\ Thread = { "http", "lc" }
      BY DEF TypeOK, Thread
<1>2. CASE PatchRead \/ PatchModify \/ PatchReset \/ PatchWait \/ PatchExpires
           \/ PatchUndo \/ PatchWaitOld \/ PatchReject
      BY <1>1, <1>2 DEF PatchRead, PatchModify, PatchReset, PatchWait, PatchExpires, PatchUndo,
                        PatchWaitOld, PatchReject, Answered, Goto, lc
<1>3. CASE PlaceStep("http")
      BY <1>1, <1>3 DEF PlaceStep, RemoveRead, RemoveSend, RemoveBroken, RemoveDrop, PlaceFails,
                        PlacePlan, PlaceMark, PlacePublish, PlaceBroken, Goto, lc
<1> QED
    BY <1>2, <1>3 DEF PatchStep

LEMMA LcOnly ==
    ASSUME TypeOK, LcStep
    PROVE  http' = http /\ UNCHANGED << patches, reply >>
<1>1. th \in [ Thread -> ThreadState ] /\ Thread = { "http", "lc" } /\ "lc" # "http"
      BY DEF TypeOK, Thread
<1>2. CASE LcReceive
      BY <1>1, <1>2 DEF LcReceive, LcIgnore, LcCreated, LcCreatedLate, LcDeleted, LcFailed, Handle,
                        counters, http
<1>3. CASE LcCleanup \/ LcLate \/ LcBroken \/ LcSave \/ LcBegin \/ LcUndo \/ LcAgain \/ LcGiveUp
      BY <1>1, <1>3 DEF LcCleanup, LcLate, LcBroken, LcSave, LcBegin, LcUndo, LcAgain, LcGiveUp,
                        Goto, counters, http
<1>4. CASE PlaceStep("lc")
      BY <1>1, <1>4 DEF PlaceStep, RemoveRead, RemoveSend, RemoveBroken, RemoveDrop, PlaceFails,
                        PlacePlan, PlaceMark, PlacePublish, PlaceBroken, Goto, counters, http
<1> QED
    BY <1>2, <1>3, <1>4 DEF LcStep

LEMMA NoneAgainKept ==
    ASSUME TypeOK, NoneAgain, LcStep
    PROVE  NoneAgain'
<1>1. lc \in ThreadState /\ th \in [ Thread -> ThreadState ] /\ "lc" \in Thread
      BY Threads DEF TypeOK, Thread
<1>2. Idle.pc = "idle" /\ Idle.job = "none"
      BY DEF Idle
<1>3. CASE LcReceive
  <2>1. PICK m : LcIgnore(m) \/ LcCreated(m) \/ LcCreatedLate(m) \/ LcDeleted(m) \/ LcFailed(m)
        BY <1>3 DEF LcReceive
  <2>2. CASE th' = th
        BY <2>2 DEF NoneAgain, lc
  <2>3. CASE \E pc \in { "save", "late", "cleanup" } : \E c, G : Handle(pc, c, G)
        BY <2>3, HandleIs DEF NoneAgain
  <2>4. th' = th \/ \E pc \in { "save", "late", "cleanup" } : \E c, G : Handle(pc, c, G)
        BY <2>1 DEF LcIgnore, LcCreated, LcCreatedLate, LcDeleted, LcFailed
  <2> QED
      BY <2>2, <2>3, <2>4
<1>4. CASE LcCleanup \/ LcLate
      BY <1>4, CleansIs DEF NoneAgain
<1>5. CASE LcBroken \/ LcGiveUp
  <2>1. lc' = Idle
        BY <1>5, LcMoves DEF LcBroken, LcGiveUp
  <2> QED
      BY <1>2, <2>1 DEF NoneAgain
<1>6. CASE LcSave
      BY <1>2, <1>6, SaveIs DEF NoneAgain
<1>7. CASE LcBegin
  <2> DEFINE y == [ lc EXCEPT !.pc = "reset" ]
  <2>1. th' = [ th EXCEPT !["lc"] = y ]
        BY <1>7 DEF LcBegin, Goto, lc
  <2>2. y.pc = "reset" /\ y.job = lc.job
        BY <1>1 DEF ThreadState
  <2> HIDE DEF y
  <2> QED
      BY <2>1, <2>2, LcMoves DEF NoneAgain
<1>8. CASE LcUndo
  <2> DEFINE y == [ lc EXCEPT !.pc = "plan", !.doc = Restored(lc.doc.back) ]
  <2>1. th' = [ th EXCEPT !["lc"] = y ]
        BY <1>1, <1>8 DEF LcUndo, lc
  <2>2. y.pc = "plan" /\ y.job = lc.job
        BY <1>1 DEF ThreadState
  <2> HIDE DEF y
  <2> QED
      BY <2>1, <2>2, LcMoves DEF NoneAgain
<1>9. CASE PlaceFails("lc")
  <2>1. th' = [ th EXCEPT !["lc"] = Idle ]
        BY <1>9 DEF PlaceFails, AfterFailure, NoneAgain, lc
  <2> QED
      BY <1>2, <2>1, LcMoves DEF NoneAgain
<1>10. CASE PlacePlan("lc") \/ PlaceMark("lc")
  <2>1. PICK B, n, d : /\ B = Plan[lc.doc.req] /\ n = attempt'
                       /\ d = [ lc.doc EXCEPT !.status = "UNDER_PROVISIONING" ]
        OBVIOUS
  <2>2. PICK y : y = IF PlacePlan("lc") THEN [ lc EXCEPT !.pc = "mark", !.brk = B, !.id = n ]
                     ELSE [ lc EXCEPT !.pc = "publish", !.doc = d ]
        OBVIOUS
  <2>3. th' = [ th EXCEPT !["lc"] = y ]
    <3>1. CASE PlacePlan("lc")
          BY <1>1, <2>1, <2>2, <3>1 DEF PlacePlan, lc
    <3>2. CASE PlaceMark("lc") /\ ~ PlacePlan("lc")
      <4>1. th' = [ th EXCEPT !["lc"] =
                      [ th["lc"] EXCEPT !.pc = "publish", !.doc.status = "UNDER_PROVISIONING" ] ]
            BY <1>1, <3>2 DEF PlaceMark
      <4>2. [ lc EXCEPT !.pc = "publish", !.doc.status = "UNDER_PROVISIONING" ]
              = [ lc EXCEPT !.pc = "publish", !.doc = [ lc.doc EXCEPT !.status = "UNDER_PROVISIONING" ] ]
            BY <1>1 DEF ThreadState
      <4> QED
          BY <2>1, <2>2, <3>2, <4>1, <4>2 DEF lc
    <3> QED
        BY <1>10, <3>1, <3>2
  <2>4. y.pc \in { "mark", "publish" } /\ y.job = lc.job
        BY <1>1, <2>2 DEF ThreadState
  <2> QED
      BY <2>3, <2>4, LcMoves DEF NoneAgain
<1>11. CASE PlacePublish("lc") \/ PlaceBroken("lc")
  <2>1. th' = [ th EXCEPT !["lc"] = Idle ]
        BY <1>11 DEF PlacePublish, PlaceBroken, AfterFailure, NoneAgain, lc
  <2> QED
      BY <1>2, <2>1, LcMoves DEF NoneAgain
<1>12. CASE RemoveRead("lc") \/ RemoveSend("lc") \/ RemoveBroken("lc") \/ RemoveDrop("lc") \/ LcAgain
      BY <1>12, Threads DEF NoneAgain, RemoveRead, RemoveSend, RemoveBroken, RemoveDrop, LcAgain, lc
<1> QED
    BY <1>3, <1>4, <1>5, <1>6, <1>7, <1>8, <1>9, <1>10, <1>11, <1>12 DEF LcStep, PlaceStep

\* PATCH stores its request, and places it while nothing is under way.
LEMMA ResetPlacesNew ==
    ASSUME TypeOK, PatchReset, Quiet
    PROVE  PlacesNew'
<1> DEFINE c == Patched(http.doc)
           y == [ http EXCEPT !.pc = "plan", !.doc = c ]
<1>1. http \in ThreadState /\ http.doc \in Conn /\ "http" \in Thread /\ patches \in Request
      BY Threads DEF Thread, TypeOK
<1>2. Quiet /\ conn' = c /\ UNCHANGED << toLC, inbox, patches >>
      BY DEF PatchReset, DbAdd, wires, counters, http
<1>3. c \in Conn /\ c.status = "REQUESTED" /\ c.count = 0 /\ c.evc = NoIds
      BY <1>1, PatchedType, PatchedFields
<1>4. c.req = patches /\ ~ c.performed
      BY <1>1 DEF Patched, Conn
<1>5. th' = [ th EXCEPT !["http"] = y ]
      BY <1>1 DEF PatchReset, TypeOK, ThreadState, http
<1>6. y.pc = "plan" /\ y.doc = c
      BY <1>1 DEF ThreadState
<1> HIDE DEF c, y
<1>7. http' = y /\ lc' = lc
      BY <1>5, HttpLocal
<1>8. Quiet'
      BY <1>2, <1>7, QuietSame
<1> QED
    BY <1>2, <1>3, <1>4, <1>6, <1>7, <1>8, PatchAssumption DEF PlacesNew, Present

LEMMA PlacesNewKept ==
    ASSUME TypeOK, PlacesNew, PlacePlan("http") \/ PlaceMark("http")
    PROVE  PlacesNew'
<1>1. http \in ThreadState /\ http.doc \in Conn /\ "http" \in Thread /\ conn = http.doc
      BY Threads DEF Thread, PlacesNew
<1>2. lc' = lc /\ UNCHANGED << toLC, inbox, patches >>
      BY HttpOnly DEF PlacePlan, PlaceMark, PatchStep, PlaceStep, wires, counters
<1>3. Quiet'
      BY <1>2, QuietSame DEF PlacesNew
<1>4. CASE PlacePlan("http")
  <2> DEFINE y == [ http EXCEPT !.pc = "mark", !.brk = Plan[http.doc.req], !.id = attempt' ]
  <2>1. http.doc.req \in Request /\ Plan[http.doc.req] # {} /\ http.doc.req = patches
        BY <1>1, ConnShape, PatchAssumption DEF PlacesNew
  <2>2. th' = [ th EXCEPT !["http"] = y ]
        BY <1>1, <1>4 DEF PlacePlan, http
  <2>3. y.pc = "mark" /\ y.doc = http.doc /\ y.brk = Plan[http.doc.req] /\ y.id = attempt'
        BY <1>1 DEF ThreadState
  <2> HIDE DEF y
  <2>4. http' = y
        BY <2>2, HttpLocal
  <2>5. attempt' = attempt + 1 /\ attempt \in Nat /\ attempt' > 0
        BY <1>4 DEF PlacePlan, TypeOK
  <2>6. request'[attempt'] = http.doc.req
        BY <1>4, <2>1, <2>5, AppendProperties DEF PlacePlan, TypeOK, http
  <2>7. conn' = conn /\ breakdown' = Plan[http.doc.req]
        BY <1>4 DEF PlacePlan, http
  <2> QED
      BY <1>1, <1>2, <1>3, <2>1, <2>3, <2>4, <2>5, <2>6, <2>7 DEF PlacesNew, OfLastPatch, Present
<1>5. CASE PlaceMark("http")
  <2> DEFINE c == [ conn EXCEPT !.status = "UNDER_PROVISIONING" ]
             y == [ http EXCEPT !.pc = "publish", !.doc.status = "UNDER_PROVISIONING" ]
  <2>1. conn' = c /\ http.pc = "mark"
        BY <1>5, Threads DEF PlaceMark, DbSetStatus, DbUpdate, PlacesNew
  <2>2. th' = [ th EXCEPT !["http"] = y ]
        BY <1>1, <1>5 DEF PlaceMark, TypeOK, http
  <2>3. y.pc = "publish" /\ y.doc = c /\ y.brk = http.brk /\ y.id = http.id
        BY <1>1 DEF ThreadState
  <2>4. /\ c \in Conn /\ c.status = "UNDER_PROVISIONING" /\ c.req = conn.req
        /\ c.performed = conn.performed /\ c.count = conn.count /\ c.evc = conn.evc
        BY <1>1, ConnFields, StatusNames DEF Conn
  <2> HIDE DEF c, y
  <2>5. http' = y
        BY <2>2, HttpLocal
  <2>6. UNCHANGED << breakdown, attempt, request >>
        BY <1>5 DEF PlaceMark, counters
  <2> QED
      BY <1>1, <1>2, <1>3, <2>1, <2>3, <2>4, <2>5, <2>6, PatchAssumption
         DEF PlacesNew, OfLastPatch, Present
<1> QED
    BY <1>4, <1>5

\* From the publication on, the creates of the new placement are all that is
\* under way.
LEMMA PublishCounts ==
    ASSUME TypeOK, PlacesNew, PlacePublish("http")
    PROVE  Counted'
<1>1. http.pc = "publish" /\ Quiet /\ OfLastPatch /\ http.brk = breakdown /\ http.id = attempt
      BY Threads DEF PlacesNew, PlacePublish
<1>2. PICK c : c = conn
      OBVIOUS
<1>3. c.count = 0 /\ c.evc = NoIds /\ c.status # "UP" /\ conn' = c
      BY <1>2 DEF PlacesNew, PlacePublish
<1>4. attempt \in Nat /\ attempt > 0 /\ attempt # 0 /\ breakdown \in SUBSET Segment
      BY <1>1 DEF OfLastPatch, TypeOK
<1>5. UNCHANGED << conn, breakdown, inbox, evcs, attempt, request, patches >>
      BY DEF PlacePublish, counters
<1>6. toLC' = Publish("post", breakdown, [ g \in Segment |-> attempt ])
      BY <1>1 DEF PlacePublish, Creates, http
<1>7. \A g \in Segment : toLC[g] = << >> /\ inbox = << >>
      BY <1>1 DEF Quiet, NoneUnderWay
<1>8. \A g \in Segment :
          /\ Asked(g) = {} /\ Removals(g) = {}
          /\ Replies("post", g)' = {} /\ Replies("delete", g)' = {}
      BY <1>5, <1>7, EmptyQueue DEF Asked, Removals, Replies
<1>9. \A g \in Segment :
          /\ Removals(g)' = {} /\ Once(toLC'[g], OrdersTo("post"))
          /\ \A o \in Asked(g)' : g \in breakdown /\ o.id = attempt
  <2>1. PICK n \in Id : n = attempt
        BY <1>4 DEF Id
  <2>2. toLC' = Publish("post", breakdown, [ g \in Segment |-> n ])
        BY <1>6, <2>1
  <2> SUFFICES ASSUME NEW g \in Segment
               PROVE  /\ Removals(g)' = {} /\ Once(toLC'[g], OrdersTo("post"))
                      /\ \A o \in Asked(g)' : g \in breakdown /\ o.id = n
      BY <2>1
  <2> QED
      BY <1>4, <1>8, <2>2, CreatesPublished
<1>10. \A g \in Segment : c.evc[g] = 0
       BY <1>3 DEF NoIds
<1>11. Provisioned(c)' = {}
       BY <1>4, <1>5, <1>10 DEF Provisioned
<1>12. \A g \in Segment : Pends(g, c)'
  <2>1. \A g \in Segment : Once(inbox', AnswersOf("post", g))
        BY <1>5, <1>7, EmptyQueue
  <2> QED
      BY <1>5, <1>8, <1>9, <1>10, <2>1 DEF Pends, AwaitedOnce, Awaited
<1>13. \A g \in Segment : AllThere(g, c)'
       BY <1>8, <1>9, <1>10 DEF AllThere
<1>14. Counts(c)'
       BY <1>3, <1>10, <1>11, <1>12, <1>13, FS_EmptySet DEF Counts
<1>15. lc' = Idle
  <2>1. lc = Idle /\ lc' = lc
        BY <1>1, HttpOnly DEF Quiet, NoneUnderWay, lc, PatchStep, PlaceStep
  <2> QED
      BY <2>1
<1> QED
    BY <1>1, <1>2, <1>3, <1>5, <1>14, <1>15, CountedIgnores

\* No other step of PATCH begins or ends the placement of its request.
LEMMA HttpElse ==
    ASSUME TypeOK,
           \/ PatchModify \/ PatchExpires \/ PatchUndo \/ PatchWaitOld \/ PatchReject
           \/ RemoveRead("http") \/ RemoveSend("http") \/ RemoveBroken("http") \/ RemoveDrop("http")
           \/ PlaceFails("http") \/ PlaceBroken("http")
    PROVE  /\ http'.job = "new" => http'.pc \notin { "plan", "mark", "publish", "wait" }
           /\ reply' = "up" => reply = "up"
<1>1. http \in ThreadState /\ "http" \in Thread /\ th \in [ Thread -> ThreadState ]
      BY Threads DEF Thread, TypeOK
<1>2. Idle.pc = "idle" /\ Idle.job = "none"
      BY DEF Idle
<1>3. CASE PatchModify \/ RemoveSend("http") \/ RemoveDrop("http")
  <2>1. PICK pc \in { "remove", "drop", "reset" } : Goto("http", pc) /\ reply' = reply
        BY <1>3 DEF PatchModify, RemoveSend, RemoveDrop
  <2>2. http'.pc = pc
        BY <1>1, <2>1 DEF Goto, http, ThreadState
  <2> QED
      BY <2>1, <2>2
<1>4. CASE RemoveRead("http")
  <2>1. http'.pc = "send" /\ reply' = reply
        BY <1>1, <1>4 DEF RemoveRead, http, ThreadState
  <2> QED
      BY <2>1
<1>5. CASE PatchExpires \/ PatchWaitOld \/ PatchReject \/ RemoveBroken("http")
  <2>1. \/ http' = Idle /\ reply' \in { "provisioning", "undone", "failed" }
        \/ http'.pc = "reset" /\ reply' = reply
        BY <1>1, <1>5 DEF PatchExpires, PatchWaitOld, PatchReject, RemoveBroken, Answered, http,
                          ThreadState
  <2> QED
      BY <1>2, <2>1
<1>6. CASE PatchUndo
  <2>1. http'.job = "old" /\ reply' = reply
        BY <1>1, <1>6 DEF PatchUndo, http, ThreadState
  <2> QED
      BY <2>1
<1>7. CASE PlaceFails("http") \/ PlaceBroken("http")
  <2>1. http' = AfterFailure("http") /\ reply' = reply
        BY <1>1, <1>7 DEF PlaceFails, PlaceBroken, http
  <2>2. AfterFailure("http").job # "new"
        BY <1>1, <1>2 DEF AfterFailure, http, ThreadState
  <2> QED
      BY <2>1, <2>2
<1> QED
    BY <1>3, <1>4, <1>5, <1>6, <1>7

\* PATCH is answered "up" when its own request, and not the previous one, is up.
LEMMA WaitAnswers ==
    ASSUME TypeOK, Counted \/ Undoing \/ Undone, PatchWait
    PROVE  /\ http'.job = "new" => http'.pc \notin { "plan", "mark", "publish", "wait" }
           /\ reply' = "up" => reply = "up" \/ (http' = Idle /\ Counted' /\ conn'.status = "UP")
<1>1. http \in ThreadState /\ "http" \in Thread /\ th \in [ Thread -> ThreadState ]
      BY Threads DEF Thread, TypeOK
<1>2. Idle.pc = "idle" /\ Idle.job = "none"
      BY DEF Idle
<1>3. CASE Present /\ conn.status = "UP"
  <2>1. http' = Idle /\ reply' = IF conn.performed THEN "undone" ELSE "up"
        BY <1>1, <1>3 DEF PatchWait, Answered, http
  <2>2. ~ conn.performed => Counted
        BY <1>3 DEF Undoing, Undone
  <2>3. lc' = lc /\ UNCHANGED << conn, breakdown, wires, attempt, request, patches >>
        BY HttpOnly DEF PatchStep, PatchWait, counters
  <2>4. ~ conn.performed => Counted'
        BY <2>2, <2>3, CountedSame
  <2> QED
      BY <1>2, <1>3, <2>1, <2>3, <2>4
<1>4. CASE ~ (Present /\ conn.status = "UP")
  <2>1. http'.pc = "reset" /\ reply' = reply
        BY <1>1, <1>4 DEF PatchWait, http, ThreadState
  <2> QED
      BY <2>1
<1> QED
    BY <1>3, <1>4

\* A placement of PATCH goes on with the same request.
LEMMA HttpPlacing ==
    ASSUME TypeOK, PlacePlan("http") \/ PlaceMark("http") \/ PlacePublish("http")
    PROVE  /\ http'.job = http.job /\ reply' = reply /\ http.pc \in { "plan", "mark", "publish" }
           /\ PlacePlan("http") => http'.pc = "mark"
           /\ PlaceMark("http") => http'.pc = "publish"
           /\ PlacePublish("http") => http.pc = "publish" /\ http'.pc = "wait"
<1>1. http \in ThreadState /\ "http" \in Thread /\ th \in [ Thread -> ThreadState ]
      BY Threads DEF Thread, TypeOK
<1>2. CASE PlacePlan("http")
      BY <1>1, <1>2 DEF PlacePlan, PlaceMark, PlacePublish, At, http, ThreadState
<1>3. CASE PlaceMark("http")
      BY <1>1, <1>3 DEF PlacePlan, PlaceMark, PlacePublish, At, http, ThreadState
<1>4. CASE PlacePublish("http")
      BY <1>1, <1>4 DEF PlacePlan, PlaceMark, PlacePublish, At, http, ThreadState
<1> QED
    BY <1>2, <1>3, <1>4

LEMMA SticksNext ==
    ASSUME TypeOK, SticksInv, [Next]_vars
    PROVE  SticksInv'
<1> SUFFICES ASSUME Unhurt({"stuck", "hasty", "lost"})'
             PROVE  SticksInv'
    BY DEF SticksInv
<1>1. /\ NoneAgain
      /\ http.job = "new" /\ http.pc \in { "plan", "mark", "publish" } => PlacesNew
      /\ http.job = "new" /\ http.pc = "wait" => Counted \/ Undoing \/ Undone
      /\ reply = "up" => http = Idle /\ Counted /\ conn.status = "UP"
      BY HurtStays DEF SticksInv, Unhurt
<1>2. Idle.pc = "idle" /\ Idle.job = "none"
      BY DEF Idle
<1>3. reply = "up" => Quiet
      BY <1>1 DEF Counted
<1>4. CASE PatchRead
  <2>1. lc' = lc /\ NoneAgain'
        BY <1>1, <1>4, HttpOnly DEF NoneAgain
  <2>2. reply' = "none"
        BY <1>4 DEF PatchRead
  <2>3. http'.pc = "modify"
    <3>1. PICK y : y = [ Idle EXCEPT !.pc = "modify", !.job = "new", !.doc = conn ]
          OBVIOUS
    <3>2. th' = [ th EXCEPT !["http"] = y ] /\ y.pc = "modify"
          BY <1>4, <3>1 DEF PatchRead, Idle
    <3> QED
        BY <3>2, HttpLocal
  <2> QED
      BY <2>1, <2>2, <2>3 DEF SticksInv
<1>5. CASE PatchStep
  <2>1. lc' = lc /\ NoneAgain'
        BY <1>1, <1>5, HttpOnly DEF NoneAgain
  <2>2. http.pc # "idle"
        BY <1>5, Threads DEF PatchStep, PlaceStep, PatchModify, PatchReset, PatchWait, PatchExpires,
           PatchUndo, PatchWaitOld, PatchReject, RemoveRead, RemoveSend, RemoveBroken, RemoveDrop,
           PlaceFails, PlacePlan, PlaceMark, PlacePublish, PlaceBroken
  <2>3. reply # "up"
        BY <1>1, <1>2, <2>2
  <2>4. CASE PatchReset
    <3>1. PlacesNew' /\ http'.pc = "plan" /\ reply' = reply
      <4>1. http'.pc = "plan"
            BY <2>4, Threads DEF PatchReset, Thread, TypeOK, ThreadState, http
      <4>2. Quiet
        <5>1. Unhurt({"stuck", "hasty"})'
              BY DEF Unhurt
        <5> QED
            BY <2>4, <5>1, ResetQuiet
      <4> QED
          BY <2>4, <4>1, <4>2, ResetPlacesNew DEF PatchReset
    <3> QED
        BY <2>1, <2>3, <3>1 DEF SticksInv
  <2>5. CASE PatchWait
    <3>1. Counted \/ Undoing \/ Undone
          BY <1>1, <2>5, Threads DEF PatchWait, http
    <3> QED
        BY <2>1, <2>3, <2>5, <3>1, WaitAnswers DEF SticksInv
  <2>6. CASE PlacePlan("http") \/ PlaceMark("http")
    <3>1. http'.job = http.job /\ reply' = reply /\ http.pc \in { "plan", "mark", "publish" }
          /\ http'.pc # "wait"
          BY <2>6, HttpPlacing
    <3>2. http'.job = "new" => PlacesNew'
          BY <1>1, <2>6, <3>1, PlacesNewKept
    <3> QED
        BY <2>1, <2>3, <3>1, <3>2 DEF SticksInv
  <2>7. CASE PlacePublish("http")
    <3>1. http'.job = http.job /\ reply' = reply /\ http.pc = "publish" /\ http'.pc = "wait"
          BY <2>7, HttpPlacing
    <3>2. http'.job = "new" => Counted'
          BY <1>1, <2>7, <3>1, PublishCounts
    <3> QED
        BY <2>1, <2>3, <3>1, <3>2 DEF SticksInv
  <2>8. CASE \/ PatchModify \/ PatchExpires \/ PatchUndo \/ PatchWaitOld \/ PatchReject
             \/ RemoveRead("http") \/ RemoveSend("http") \/ RemoveBroken("http") \/ RemoveDrop("http")
             \/ PlaceFails("http") \/ PlaceBroken("http")
        BY <2>1, <2>3, <2>8, HttpElse DEF SticksInv
  <2> QED
      BY <1>5, <2>4, <2>5, <2>6, <2>7, <2>8 DEF PatchStep, PlaceStep
<1>6. CASE LcStep
  <2>1. http' = http /\ UNCHANGED << patches, reply >> /\ NoneAgain'
        BY <1>1, <1>6, LcOnly, NoneAgainKept
  <2>2. ~ Quiet
        BY <1>6, QuietIdles
  <2>3. ASSUME Counted
        PROVE  Counted' \/ Undoing'
    <3>1. lc.pc \in { "idle", "cleanup", "late", "save" } /\ lc.job = "none"
          BY <2>3 DEF Counted, Busy
    <3>2. LcReceive \/ LcCleanup \/ LcLate \/ LcBroken \/ LcSave
          BY <1>6, <3>1, Threads DEF LcStep, PlaceStep, LcBegin, LcUndo, LcAgain, LcGiveUp,
             RemoveRead, RemoveSend, RemoveBroken, RemoveDrop, PlaceFails, PlacePlan, PlaceMark,
             PlacePublish, PlaceBroken
    <3> QED
        BY <2>3, <3>2, CountedReceives, CountedCleans, CountedBroken, CountedSaved
  <2>4. http.job = "new" /\ http.pc = "wait" => Counted' \/ Undoing' \/ Undone'
        BY <1>1, <1>6, <2>3, UndoingKept
  <2> QED
      BY <1>1, <1>3, <2>1, <2>2, <2>4 DEF SticksInv, PlacesNew
<1>7. CASE LcLost
      BY <1>7 DEF LcLost, Unhurt
<1>8. CASE \E g \in Segment : OxpServe(g)
  <2>1. PICK h \in Segment : OxpServe(h)
        BY <1>8
  <2>2. UNCHANGED << conn, th, reply >>
        BY <2>1 DEF OxpServe
  <2>3. http' = http /\ lc' = lc
        BY <2>2 DEF http, lc
  <2>4. ~ Quiet
        BY <2>1, QuietIdles
  <2>5. Counted => Counted'
        BY <2>1, CountedServed
  <2>6. (Undoing => Undoing') /\ (Undone => Undone') /\ NoneAgain'
        BY <1>1, <2>2, <2>3 DEF Undoing, Undone, NoneAgain, Present
  <2> QED
      BY <1>1, <1>3, <2>2, <2>3, <2>4, <2>5, <2>6 DEF SticksInv, PlacesNew
<1>9. CASE UNCHANGED vars
  <2>1. UNCHANGED << conn, breakdown, wires, attempt, request, patches, th, reply >>
        BY <1>9 DEF vars, wires
  <2>2. http' = http /\ lc' = lc
        BY <2>1 DEF http, lc
  <2>3. Counted => Counted'
        BY <2>1, <2>2, CountedSame
  <2>4. PlacesNew => PlacesNew'
    <3>1. Quiet => Quiet'
          BY <2>1, <2>2, QuietSame DEF wires
    <3> QED
        BY <2>1, <2>2, <3>1 DEF PlacesNew, OfLastPatch, Present
  <2>5. (Undoing => Undoing') /\ (Undone => Undone') /\ NoneAgain'
        BY <1>1, <2>1, <2>2 DEF Undoing, Undone, NoneAgain, Present
  <2> QED
      BY <1>1, <2>1, <2>2, <2>3, <2>4, <2>5 DEF SticksInv
<1> QED
    BY <1>4, <1>5, <1>6, <1>7, <1>8, <1>9 DEF Next

LEMMA SticksInit ==
    ASSUME Init
    PROVE  SticksInv
<1>1. http = Idle /\ lc = Idle /\ reply = "none"
      BY DEF Init, http, lc, Thread
<1> QED
    BY <1>1 DEF SticksInv, NoneAgain, Idle

\* What PATCH has been told is true.
LEMMA SticksShows ==
    ASSUME TypeOK, SticksInv
    PROVE  PatchSticks
<1> SUFFICES ASSUME reply = "up", Unhurt({"stuck", "hasty", "lost"})
             PROVE  /\ Shows("UP") /\ conn.req = patches
                    /\ \A g \in breakdown : /\ << g, conn.evc[g] >> \in evcs
                                            /\ request[conn.evc[g]] = patches
    BY DEF PatchSticks
<1>1. Counted /\ conn.status = "UP"
      BY DEF SticksInv
<1>2. Quiet /\ OfLastPatch /\ Doc = conn
  <2>1. Quiet /\ OfLastPatch
        BY <1>1 DEF Counted
  <2> QED
      BY <2>1, IdleType DEF Quiet, NoneUnderWay, Doc, Busy, lc
<1>3. PICK k : k = conn
      OBVIOUS
<1>4. Counts(k) /\ Provisioned(k) = breakdown
      BY <1>1, <1>2, <1>3 DEF Counted
<1>5. attempt > 0 /\ attempt \in Nat /\ breakdown \in SUBSET Segment
      BY <1>2 DEF OfLastPatch, TypeOK
<1>6. \A g \in breakdown : k.evc[g] = attempt
      BY <1>4 DEF Provisioned
<1>7. \A g \in Segment : AllThere(g, k)
      BY <1>4, <1>6 DEF Counts, Promising
<1>8. \A g \in breakdown : << g, attempt >> \in evcs
      BY <1>5, <1>6, <1>7 DEF AllThere
<1> QED
    BY <1>1, <1>2, <1>3, <1>6, <1>8 DEF Shows, OfLastPatch

\* A PATCH answered "up" has provisioned its request in every segment
\* (l2vpn_controller:34-35), and the connection stays so until the next PATCH
\* or the loss of a link, wherever publishing has raised and whoever has rolled
\* back before: provided that no new request was stored while the removal of the
\* old provisioning was still under way.
THEOREM PatchSticksCorrect == Spec => []PatchSticks
<1>1. Init => SticksInv
      BY SticksInit
<1>2. TypeOK /\ SticksInv /\ [Next]_vars => SticksInv'
      BY SticksNext
<1>3. TypeOK /\ SticksInv => PatchSticks
      BY SticksShows
<1> QED
    BY <1>1, <1>2, <1>3, TypeCorrect, PTL DEF Spec

(***************************************************************************)
(* PATCH is a transaction.  The copies of the document agree with it on    *)
(* the request to go back to, whichever thread takes the PATCH back; and   *)
(* until it has been decided the document is of the last PATCH, and that   *)
(* request an earlier one.                                                 *)
(***************************************************************************)
\* The old request is being removed.
Replacing == http.doc.req < patches /\ (Present => conn.req = http.doc.req)

\* The document is of the last PATCH, or the PATCH has been taken back.
ReqKept ==
    /\ Present
    /\ conn.onFail => conn.req = patches /\ conn.back < patches
    /\ conn.performed => ~ conn.onFail /\ conn.req < patches

HttpBack ==
    /\ http.job = "new" /\ http.pc \in { "plan", "mark", "publish", "wait" } /\ conn.onFail
           => http.doc.back = conn.back
    /\ http.pc = "reset" => conn.onFail /\ conn.status # "UP" /\ http.doc.back = conn.back
    /\ http.job = "old" /\ http.pc \in { "plan", "mark", "publish", "wait", "reject" }
           => conn.performed

LcBack ==
    /\ Busy \/ lc.pc \in { "begin", "reset" } =>
           lc.doc.back = conn.back /\ lc.doc.onFail = conn.onFail
    /\ lc.pc \in { "begin", "reset" } => conn.onFail

Agrees ==
    /\ Present => conn.req <= patches
    /\ Removes => Replacing
    /\ ~ Removes => ReqKept /\ HttpBack /\ LcBack

AgreedInv == Unhurt(Excused) => Agrees

(***************************************************************************)
(* The steps of the transaction.                                           *)
(***************************************************************************)
TNext == [Transaction!Next]_(Transaction!vars)

Unbroken == Unhurt(Excused) /\ Unhurt(Excused)'

LEMMA Stutters ==
    ASSUME Unbroken, Open' <=> Open, UNCHANGED << Agreed, Shown, patches, reply >>
    PROVE  TNext
<1>1. Open \in BOOLEAN /\ Open' \in BOOLEAN
      BY DEF Open, Removes, Undecided
<1>2. Open' = Open
      BY <1>1
<1>3. Unhurt({"publish", "stuck", "hasty", "expired", "raced", "lost"}) = TRUE
      /\ Unhurt({"publish", "stuck", "hasty", "expired", "raced", "lost"})' = TRUE
      BY DEF Unbroken, Excused, Unhurt
<1> QED
    BY <1>2, <1>3 DEF TNext, Transaction!vars

LEMMA TAsk ==
    ASSUME Unbroken, ~ Open, Shown = {Agreed}, patches' = patches + 1, Open', reply' = "none",
           UNCHANGED << Agreed, Shown >>
    PROVE  TNext
<1>1. Open' = TRUE /\ Unhurt({"publish", "stuck", "hasty", "expired", "raced", "lost"})
      /\ Unhurt({"publish", "stuck", "hasty", "expired", "raced", "lost"})'
      BY DEF Open, Removes, Undecided, Unbroken, Excused, Unhurt
<1> QED
    BY <1>1 DEF TNext, Transaction!Next, Transaction!Ask

LEMMA THide ==
    ASSUME Unbroken, Open, Open', Shown' = {}, UNCHANGED << Agreed, patches, reply >>
    PROVE  TNext
<1>1. Open = TRUE /\ Open' = TRUE /\ Unhurt({"publish", "stuck", "hasty", "expired", "raced", "lost"})
      /\ Unhurt({"publish", "stuck", "hasty", "expired", "raced", "lost"})'
      BY DEF Open, Removes, Undecided, Unbroken, Excused, Unhurt
<1> QED
    BY <1>1 DEF TNext, Transaction!Next, Transaction!Hide

LEMMA TShow ==
    ASSUME Unbroken, Open' <=> Open, Shown = {}, Shown' = {Agreed},
           UNCHANGED << Agreed, patches, reply >>
    PROVE  TNext
<1>1. Open \in BOOLEAN /\ Open' \in BOOLEAN
      BY DEF Open, Removes, Undecided
<1>2. Open' = Open /\ Unhurt({"publish", "stuck", "hasty", "expired", "raced", "lost"})
      /\ Unhurt({"publish", "stuck", "hasty", "expired", "raced", "lost"})'
      BY <1>1 DEF Unbroken, Excused, Unhurt
<1> QED
    BY <1>2 DEF TNext, Transaction!Next, Transaction!Show

LEMMA TCommit ==
    ASSUME Unbroken, Open, ~ Open', Shown = {}, Agreed' = patches, Shown' = {patches},
           UNCHANGED << patches, reply >>
    PROVE  TNext
<1>1. Open = TRUE /\ Open' = FALSE /\ Unhurt({"publish", "stuck", "hasty", "expired", "raced", "lost"})
      /\ Unhurt({"publish", "stuck", "hasty", "expired", "raced", "lost"})'
      BY DEF Open, Removes, Undecided, Unbroken, Excused, Unhurt
<1> QED
    BY <1>1 DEF TNext, Transaction!Next, Transaction!Commit

LEMMA TAbort ==
    ASSUME Unbroken, Open, ~ Open', Shown = {}, UNCHANGED << Agreed, Shown, patches, reply >>
    PROVE  TNext
<1>1. Open = TRUE /\ Open' = FALSE /\ Unhurt({"publish", "stuck", "hasty", "expired", "raced", "lost"})
      /\ Unhurt({"publish", "stuck", "hasty", "expired", "raced", "lost"})'
      BY DEF Open, Removes, Undecided, Unbroken, Excused, Unhurt
<1> QED
    BY <1>1 DEF TNext, Transaction!Next, Transaction!Abort

LEMMA TTell ==
    ASSUME Unbroken, Open' <=> Open, UNCHANGED << Agreed, Shown, patches >>,
           \/ reply' = "up" /\ ~ Open /\ Agreed = patches /\ Shown = {patches}
           \/ reply' = "undone" /\ ~ Open /\ Agreed # patches /\ Shown = {Agreed}
           \/ reply' = "failed" /\ ~ Open /\ Agreed # patches
           \/ reply' = "provisioning" /\ Shown = {}
    PROVE  TNext
<1>1. Open \in BOOLEAN /\ Open' \in BOOLEAN
      BY DEF Open, Removes, Undecided
<1>2. Open' = Open /\ Unhurt({"publish", "stuck", "hasty", "expired", "raced", "lost"})
      /\ Unhurt({"publish", "stuck", "hasty", "expired", "raced", "lost"})'
      BY <1>1 DEF Unbroken, Excused, Unhurt
<1> QED
    BY <1>2 DEF TNext, Transaction!Next, Transaction!Tell

LEMMA TFails ==
    ASSUME ~ Unhurt(Excused)'
    PROVE  TNext
<1>1. ~ Unhurt({"publish", "stuck", "hasty", "expired", "raced", "lost"})'
      BY DEF Excused, Unhurt
<1> QED
    BY <1>1 DEF TNext, Transaction!Next, Transaction!Fail

\* While PATCH removes the connection, the LC thread only handles answers.
LEMMA RemovesMode ==
    ASSUME TypeOK, LostInv, Mode, Removes
    PROVE  /\ http.job = "new" /\ lc.job = "none" /\ (lc.pc = "idle" \/ Busy)
           /\ Present => http.pc # "reset" /\ conn.status \in { "UP", "MODIFYING" }
           /\ http.pc \in { "modify", "remove", "send", "drop" } => Present
<1>1. http.job = "new"
      BY Threads DEF LostInv, Removes, http
<1>2. Serving \/ Removed
      BY <1>1, HttpMode DEF Removes, http
<1>3. lc.job = "none" /\ (lc.pc = "idle" \/ Busy)
      BY <1>2 DEF Serving, LcServes, Removed, Busy
<1>4. CASE Removed
      BY <1>1, <1>3, <1>4 DEF Removed, Removes, http
<1>5. CASE Serving
      BY <1>1, <1>3, <1>5 DEF Serving, HttpServes, Whole, Removes, http
<1> QED
    BY <1>2, <1>4, <1>5

\* A step of the LC thread or of an OXP that writes nothing of what the
\* transaction is about.
LEMMA HttpKept ==
    ASSUME Agrees, Unbroken, http' = http, UNCHANGED << patches, reply >>,
           Present' <=> Present,
           Present => /\ conn'.req = conn.req /\ conn'.back = conn.back
                      /\ conn'.onFail = conn.onFail /\ conn'.performed = conn.performed
                      /\ conn'.status = "UP" <=> conn.status = "UP"
    PROVE  /\ TNext
           /\ Present' => conn'.req <= patches'
           /\ Removes' <=> Removes
           /\ Removes' => Replacing'
           /\ ~ Removes' => ReqKept' /\ HttpBack'
<1>1. Removes' <=> Removes
      BY DEF Removes, http
<1>2. Undecided' <=> Undecided
      BY <1>1 DEF Undecided
<1>3. Open' <=> Open
      BY <1>1, <1>2 DEF Open
<1>4. Shown' = Shown
      BY DEF Shown, Shows
<1>5. Agreed' = Agreed
      BY <1>1, <1>2 DEF Agreed, Agrees, ReqKept, http
<1>6. TNext
      BY <1>3, <1>4, <1>5, Stutters
<1> QED
    BY <1>1, <1>6 DEF Agrees, Replacing, ReqKept, HttpBack

LEMMA AgreesIntro ==
    ASSUME Present' => conn'.req <= patches', Removes' => Replacing',
           ~ Removes' => ReqKept' /\ HttpBack' /\ LcBack'
    PROVE  Agrees'
BY DEF Agrees

\* The LC thread goes where it no longer needs its copy.
LEMMA LcBackLeft ==
    ASSUME lc'.pc \notin { "cleanup", "late", "save", "begin", "reset" }
    PROVE  LcBack'
BY DEF LcBack, Busy

LEMMA RecordedBack ==
    ASSUME NEW c \in Conn, NEW m \in Answer
    PROVE  Recorded(c, m).back = c.back /\ Recorded(c, m).onFail = c.onFail
BY DEF Recorded, Conn

\* The copies the LC thread works on.
LEMMA TakesBack ==
    ASSUME TypeOK, LcReceive
    PROVE  \/ th' = th
           \/ /\ Present /\ http' = http /\ lc'.pc \in { "cleanup", "late", "save" }
              /\ lc'.doc.back = conn.back /\ lc'.doc.onFail = conn.onFail
<1>1. PICK m \in Answer : m = Head(inbox)
      BY DEF LcReceive, TypeOK
<1>2. CASE LcIgnore(m)
      BY <1>2 DEF LcIgnore
<1>3. ASSUME Known
      PROVE  conn \in Conn /\ Present
      BY <1>3 DEF Known, Present, TypeOK
<1> DEFINE d == Recorded(conn, m)
<1>4. Known => d \in Conn /\ d.back = conn.back /\ d.onFail = conn.onFail
      BY <1>3, RecordedBack, RecordedType
<1>5. ASSUME Known, NEW pc \in { "cleanup", "late", "save" }, NEW c, NEW G, Handle(pc, c, G),
             c.back = conn.back, c.onFail = conn.onFail
      PROVE  /\ Present /\ http' = http /\ lc'.pc \in { "cleanup", "late", "save" }
             /\ lc'.doc.back = conn.back /\ lc'.doc.onFail = conn.onFail
      BY <1>3, <1>5, HandleIs
<1>6. CASE LcCreated(m)
  <2> DEFINE e == [ d EXCEPT !.count = d.count + 1 ]
             f == [ e EXCEPT !.status = "UP" ]
  <2>1. Known /\ (Handle("save", e, {}) \/ Handle("save", f, {}) \/ UNCHANGED th)
        BY <1>6 DEF LcCreated
  <2> HIDE DEF d
  <2>2. e.back = conn.back /\ e.onFail = conn.onFail
        BY <1>4, <2>1 DEF Conn
  <2>3. f.back = conn.back /\ f.onFail = conn.onFail
    <3>1. e \in Conn
          BY <1>4, <2>1, ConnFields
    <3> HIDE DEF e
    <3> QED
        BY <2>2, <3>1 DEF Conn
  <2> HIDE DEF e, f
  <2> QED
      BY <1>5, <2>1, <2>2, <2>3
<1>7. CASE LcCreatedLate(m) \/ LcDeleted(m)
  <2>1. Known /\ \E pc \in { "late", "save" } : \E G : Handle(pc, d, G)
        BY <1>7 DEF LcCreatedLate, LcDeleted
  <2> HIDE DEF d
  <2> QED
      BY <1>4, <1>5, <2>1
<1>8. CASE LcFailed(m)
  <2> DEFINE st == IF d.status \in { "MODIFYING", "UNDER_PROVISIONING" } THEN "DOWN" ELSE d.status
             e == [ d EXCEPT !.status = st ]
             f == [ e EXCEPT !.partial = TRUE ]
  <2>1. Known /\ (Handle("cleanup", f, {}) \/ Handle("save", e, {}))
        BY <1>8 DEF LcFailed
  <2>2. st \in Status
        BY <1>4, <2>1, ConnShape, StatusNames
  <2> HIDE DEF d, st
  <2>3. e \in Conn /\ e.back = conn.back /\ e.onFail = conn.onFail
        BY <1>4, <2>1, <2>2, ConnFields DEF Conn
  <2> HIDE DEF e
  <2>4. f.back = conn.back /\ f.onFail = conn.onFail
        BY <2>3 DEF Conn
  <2> HIDE DEF f
  <2> QED
      BY <1>5, <2>1, <2>3, <2>4
<1> QED
    BY <1>1, <1>2, <1>6, <1>7, <1>8 DEF LcReceive

\* A step that only moves the LC thread, or writes nothing of the above.
LEMMA LcKept ==
    ASSUME Agrees, Unbroken, http' = http, UNCHANGED << patches, reply >>,
           Present' <=> Present,
           Present => /\ conn'.req = conn.req /\ conn'.back = conn.back
                      /\ conn'.onFail = conn.onFail /\ conn'.performed = conn.performed
                      /\ conn'.status = "UP" <=> conn.status = "UP",
           ~ Removes' => LcBack'
    PROVE  TNext /\ Agrees'
BY HttpKept, AgreesIntro

LEMMA LcRests ==
    ASSUME Agrees, Unbroken, http' = http, UNCHANGED << conn, patches, reply >>,
           ~ Removes' => LcBack'
    PROVE  TNext /\ Agrees'
<1>1. Present' <=> Present
      BY DEF Present
<1> QED
    BY <1>1, LcKept

LEMMA CleansBack ==
    ASSUME TypeOK, LcCleanup \/ LcLate
    PROVE  lc'.doc.back = lc.doc.back /\ lc'.doc.onFail = lc.doc.onFail
<1>1. lc \in ThreadState /\ lc.doc \in Conn /\ "lc" \in Thread
      BY Threads DEF Thread
<1>2. CASE LcCleanup
  <2>1. th' = [ th EXCEPT !["lc"] = [ lc EXCEPT !.pc = "save" ] ]
        BY <1>2 DEF LcCleanup, Goto, lc
  <2>2. lc' = [ lc EXCEPT !.pc = "save" ]
        BY <2>1, LcMoves
  <2> QED
      BY <1>1, <2>2 DEF ThreadState
<1>3. CASE LcLate
  <2>1. th' = [ th EXCEPT !["lc"] =
                  [ lc EXCEPT !.pc = "save", !.doc.late = lc.doc.late \cup lc.seg ] ]
        BY <1>1, <1>3 DEF LcLate, TypeOK, lc
  <2>2. lc' = [ lc EXCEPT !.pc = "save", !.doc.late = lc.doc.late \cup lc.seg ]
        BY <2>1, LcMoves
  <2> QED
      BY <1>1, <2>2 DEF ThreadState, Conn
<1> QED
    BY <1>2, <1>3

LEMMA AnswerSteps ==
    ASSUME TypeOK, Agrees, Unbroken, LcReceive \/ LcCleanup \/ LcLate
    PROVE  TNext /\ Agrees'
<1>1. Removes' <=> Removes
  <2>1. http' = http
        BY LcOnly DEF LcStep
  <2> QED
      BY <2>1 DEF Removes, http
<1>2. http' = http /\ UNCHANGED << conn, patches, reply >>
      BY LcOnly DEF LcStep, LcReceive, LcCleanup, LcLate
<1>3. CASE LcReceive
  <2>1. CASE th' = th
    <3>1. ~ Removes' => LcBack'
          BY <1>1, <1>2, <2>1 DEF Agrees, LcBack, Busy, lc
    <3> QED
        BY <1>2, <3>1, LcRests
  <2>2. CASE /\ lc'.pc \in { "cleanup", "late", "save" }
             /\ lc'.doc.back = conn.back /\ lc'.doc.onFail = conn.onFail
    <3>1. LcBack'
          BY <1>2, <2>2 DEF LcBack
    <3> QED
        BY <1>2, <3>1, LcRests
  <2> QED
      BY <1>3, <2>1, <2>2, TakesBack
<1>4. CASE LcCleanup \/ LcLate
  <2>1. /\ lc.pc \in { "cleanup", "late" } /\ lc'.pc = "save"
        /\ lc'.doc.back = lc.doc.back /\ lc'.doc.onFail = lc.doc.onFail
        BY <1>4, CleansIs, CleansBack
  <2>2. ~ Removes' => LcBack'
        BY <1>1, <1>2, <2>1 DEF Agrees, LcBack, Busy
  <2> QED
      BY <1>2, <2>2, LcRests
<1> QED
    BY <1>3, <1>4

LEMMA BeginStep ==
    ASSUME TypeOK, Mode, Agrees, Unbroken, LcBegin
    PROVE  TNext /\ Agrees'
<1> DEFINE y == [ lc EXCEPT !.pc = "reset" ]
<1>1. /\ lc.pc = "begin" /\ lc \in ThreadState
      /\ http' = http /\ UNCHANGED << patches, reply >> /\ lc' = y
      BY Threads, LcMoves DEF LcBegin, Goto, counters, lc, At
<1>2. y.pc = "reset" /\ y.doc = lc.doc
      BY <1>1 DEF ThreadState
<1>3. LcPlaces
      BY <1>1, LcMode
<1>4. PICK k : k = conn
      OBVIOUS
<1>5. conn \in Conn /\ conn' = [ k EXCEPT !.inProgress = TRUE ] /\ Present
      BY <1>3, <1>4 DEF LcPlaces, LcBegin, DbUpdate, Present, TypeOK
<1>6. /\ conn'.req = conn.req /\ conn'.back = conn.back
      /\ conn'.onFail = conn.onFail /\ conn'.performed = conn.performed
      /\ conn'.status = conn.status /\ conn' \in Conn
      BY <1>4, <1>5 DEF Conn
<1>7. Present'
      BY <1>6, PatchAssumption DEF Present
<1>8. ~ Removes
      BY <1>3 DEF LcPlaces, Removes, http
<1> HIDE DEF y
<1>9. LcBack'
      BY <1>1, <1>2, <1>6, <1>8 DEF Agrees, LcBack, Busy
<1> QED
    BY <1>1, <1>5, <1>6, <1>7, <1>9, LcKept

LEMMA LcPlaceSteps ==
    ASSUME TypeOK, LostInv, Mode, Deleting, Agrees, Unbroken,
           PlaceFails("lc") \/ PlacePlan("lc") \/ PlaceMark("lc") \/ PlacePublish("lc")
    PROVE  TNext /\ Agrees'
<1>1. http' = http /\ UNCHANGED << patches, reply >>
      BY LcOnly DEF LcStep, PlaceStep
<1>2. lc.pc \in { "plan", "mark", "publish" } /\ "lc" \in Thread
      BY Threads DEF PlaceFails, PlacePlan, PlaceMark, PlacePublish, Thread
<1>3. LcPlaces /\ Placing("lc") /\ Present
      BY <1>2, LcMode DEF LcPlaces
<1>4. CASE PlaceFails("lc")
  <2>1. lc' = Idle
        BY <1>3, <1>4, LcMoves DEF PlaceFails, AfterFailure, LcPlaces, lc
  <2>2. LcBack'
        BY <2>1, IdleType, LcBackLeft
  <2> QED
      BY <1>1, <1>4, <2>2, LcRests DEF PlaceFails
<1>5. CASE PlacePlan("lc")
  <2>1. lc'.pc = "mark" /\ conn' = conn
        BY <1>2, <1>3, <1>5, PlanPlaces, LcMoves
  <2> QED
      BY <1>1, <2>1, LcBackLeft, LcRests
<1>6. CASE PlaceMark("lc")
  <2>1. lc'.pc = "publish" /\ Present'
        BY <1>2, <1>3, <1>6, MarkPlaces, LcMoves
  <2>2. PICK k : k = conn
        OBVIOUS
  <2>3. lc.pc = "mark" /\ conn \in Conn /\ conn' = [ k EXCEPT !.status = "UNDER_PROVISIONING" ]
        BY <1>3, <1>6, <2>2, Threads DEF PlaceMark, DbSetStatus, DbUpdate, Present, TypeOK
  <2>4. /\ conn'.req = conn.req /\ conn'.back = conn.back
        /\ conn'.onFail = conn.onFail /\ conn'.performed = conn.performed
        /\ conn'.status = "UNDER_PROVISIONING"
        BY <2>2, <2>3 DEF Conn
  <2>5. conn.status = "REQUESTED"
        BY <1>3, <2>3 DEF Placing, lc
  <2> QED
      BY <1>1, <1>3, <2>1, <2>4, <2>5, LcBackLeft, LcKept
<1>7. CASE PlacePublish("lc")
  <2>1. lc' = Idle /\ conn' = conn
        BY <1>7, LcMoves DEF PlacePublish
  <2> QED
      BY <1>1, <2>1, IdleType, LcBackLeft, LcRests
<1> QED
    BY <1>4, <1>5, <1>6, <1>7

LEMMA QuietSteps ==
    ASSUME TypeOK, Agrees, Unbroken, UNCHANGED vars \/ \E g \in Segment : OxpServe(g)
    PROVE  TNext /\ Agrees'
<1>1. UNCHANGED << th, conn, patches, reply >>
      BY DEF vars, OxpServe, counters
<1>2. http' = http /\ lc' = lc
      BY <1>1 DEF http, lc
<1>3. ~ Removes' => LcBack'
      BY <1>1, <1>2 DEF Removes, Agrees, LcBack, Busy, lc
<1> QED
    BY <1>1, <1>2, <1>3, LcRests

LEMMA SavedBack ==
    ASSUME NEW c \in Conn, conn \in Conn
    PROVE  Saved(c).back = c.back
<1>1. PICK k : k = conn
      OBVIOUS
<1> QED
    BY <1>1 DEF Saved, Conn

\* What is saved while PATCH removes the connection hides it or shows it.
LEMMA SaveRemoves ==
    ASSUME TypeOK, Agrees, Unbroken, Removes, Present, LcSave
    PROVE  TNext /\ Agrees'
<1>1. /\ lc.doc \in Conn /\ conn \in Conn /\ conn' = Saved(lc.doc) /\ Present' /\ http' = http
      /\ UNCHANGED << patches, reply >>
      BY SaveIs DEF LcSave, counters
<1>2. conn'.req = conn.req /\ conn.req = http.doc.req /\ http.doc.req < patches
      BY <1>1, SavedFields DEF Agrees, Replacing
<1>3. Removes' /\ Open /\ Open' /\ Agreed = conn.req /\ Agreed' = Agreed
      BY <1>1, <1>2 DEF Removes, Open, Agreed, http
<1>4. Agrees'
      BY <1>1, <1>2, <1>3 DEF Agrees, Replacing
<1>5. Shown \in { {}, {Agreed} } /\ Shown' \in { {}, {Agreed} }
      BY <1>2, <1>3 DEF Shown
<1>6. TNext
      BY <1>1, <1>3, <1>5, Stutters, THide, TShow
<1> QED
    BY <1>4, <1>6

\* What is saved when no PATCH removes it may decide the last one.
LEMMA SaveDecides ==
    ASSUME TypeOK, LostInv, Mode, Agrees, Unbroken, ~ Removes, LcSave
    PROVE  TNext /\ Agrees'
<1>1. /\ lc.pc = "save" /\ lc.doc \in Conn /\ conn \in Conn /\ Present /\ Present'
      /\ conn' = Saved(lc.doc) /\ http' = http /\ UNCHANGED << patches, reply >>
      BY SaveIs DEF LcSave, counters, Agrees, ReqKept
<1>2. lc.doc.back = conn.back /\ lc.doc.onFail = conn.onFail
      BY <1>1 DEF Agrees, LcBack, Busy
<1>3. /\ conn'.req = conn.req /\ conn'.performed = conn.performed /\ conn'.status = lc.doc.status
      /\ conn'.back = conn.back /\ conn'.onFail = conn.onFail
      BY <1>1, <1>2, SavedFields, SavedBack
<1>4. Serving \/ Ended
      BY <1>1, LcMode DEF Removed, Removes, http
<1>5. http.pc # "reset" /\ ~ Between
      BY <1>4 DEF Serving, HttpServes, Ended, Removes, Between, http
<1>6. ~ Removes'
      BY <1>1 DEF Removes, http
<1>7. LcBack'
  <2>1. CASE CleanedUp(lc.doc, lc.brk)
    <3>1. lc.doc.onFail /\ lc'.pc = "begin" /\ lc'.doc = lc.doc
          BY <2>1, SaveIs DEF CleanedUp
    <3> QED
        BY <1>2, <1>3, <3>1 DEF LcBack
  <2>2. CASE ~ CleanedUp(lc.doc, lc.brk)
        BY <2>2, SaveIs, IdleType, LcBackLeft
  <2> QED
      BY <2>1, <2>2
<1>8. CASE conn'.status = "UP" <=> conn.status = "UP"
      BY <1>1, <1>3, <1>7, <1>8, LcKept
<1>9. Agrees'
  <2>1. ReqKept' /\ HttpBack'
        BY <1>1, <1>3, <1>5 DEF Agrees, ReqKept, HttpBack
  <2> QED
      BY <1>1, <1>3, <1>6, <1>7, <2>1, AgreesIntro DEF Agrees
<1>10. CASE conn.status = "UP" /\ conn'.status # "UP"
  <2>1. Serving /\ lc.doc.status \in { "UP", "MODIFYING" }
        BY <1>1, <1>3, <1>4, <1>10
           DEF Serving, Coherent, Whole, Coming, Failed, Doc, Busy, Ended, Unplaced
  <2>2. ~ Modifying
        BY <1>5 DEF LostInv, Unbroken, Unhurt, Excused
  <2> QED
      BY <1>3, <1>10, <2>1, <2>2 DEF Modifying, lc
<1>11. CASE conn.status # "UP" /\ conn'.status = "UP"
  <2>1. Shown = {} /\ Shown' = {conn.req} /\ ~ Open'
        BY <1>1, <1>3, <1>6, <1>11 DEF Shown, Shows, Open, Undecided
  <2>2. Agreed' = conn.req
        BY <1>3, <1>6, <1>11 DEF Agreed, Undecided
  <2>3. CASE conn.onFail
    <3>1. Open /\ conn.req = patches
          BY <1>1, <1>11, <2>3 DEF Open, Undecided, Agrees, ReqKept
    <3> QED
        BY <1>1, <1>9, <2>1, <2>2, <3>1, TCommit
  <2>4. CASE ~ conn.onFail
    <3>1. ~ Open /\ Agreed = conn.req
          BY <2>4 DEF Open, Undecided, Agreed
    <3> QED
        BY <1>1, <1>9, <2>1, <2>2, <3>1, TShow
  <2> QED
      BY <2>3, <2>4
<1> QED
    BY <1>8, <1>10, <1>11

LEMMA SaveStep ==
    ASSUME TypeOK, LostInv, Mode, Agrees, Unbroken, LcSave
    PROVE  TNext /\ Agrees'
<1>1. CASE Removes /\ ~ Present
  <2>1. UNCHANGED << conn, patches, reply >> /\ http' = http
        BY <1>1, SaveIs DEF LcSave, DbUpdate, counters
  <2>2. Removes'
        BY <1>1, <2>1 DEF Removes, http
  <2> QED
      BY <2>1, <2>2, LcRests
<1> QED
    BY <1>1, SaveRemoves, SaveDecides

\* The LC thread rolls the PATCH back.
LEMMA UndoStep ==
    ASSUME TypeOK, Mode, Agrees, Unbroken, LcUndo
    PROVE  TNext /\ Agrees'
<1> DEFINE c == Restored(lc.doc.back)
           y == [ lc EXCEPT !.pc = "plan", !.doc = c ]
<1>1. /\ lc.pc = "reset" /\ lc \in ThreadState
      /\ http' = http /\ UNCHANGED << patches, reply >> /\ lc' = y /\ conn' = c
  <2>1. lc.pc = "reset" /\ lc \in ThreadState /\ UNCHANGED << patches, reply >> /\ conn' = c
        BY Threads DEF LcUndo, counters, lc, DbAdd
  <2>2. th' = [ th EXCEPT !["lc"].pc = "plan", !["lc"].doc = c ] /\ "lc" \in Thread
        BY DEF LcUndo, lc, Thread
  <2>3. th' = [ th EXCEPT !["lc"] = y ]
        BY <2>2 DEF TypeOK, lc
  <2> QED
      BY <2>1, <2>3, LcMoves
<1>2. y.pc = "plan"
      BY <1>1 DEF ThreadState
<1>3. LcPlaces
      BY <1>1, LcMode
<1>4. ~ Removes /\ ~ Removes' /\ http.pc \in { "idle", "wait" }
      BY <1>1, <1>3 DEF LcPlaces, Removes, http
<1>5. /\ Present /\ conn.status = "DOWN" /\ conn.onFail
      /\ lc.doc.back = conn.back /\ conn.back < patches /\ conn.back \in Request
      BY <1>1, <1>3, <1>4, Threads, ConnShape DEF LcPlaces, Agrees, LcBack, ReqKept
<1>6. /\ conn' \in Conn /\ conn'.status = "REQUESTED" /\ ~ conn'.onFail /\ conn'.performed
      /\ conn'.req = conn.back
      BY <1>1, <1>5, RestoredType, RestoredFields DEF Restored
<1>7. Present'
      BY <1>6, PatchAssumption DEF Present
<1> HIDE DEF c, y
<1>8. Open /\ ~ Open' /\ Shown = {} /\ Shown' = {} /\ Agreed = conn.back /\ Agreed' = conn.back
      BY <1>4, <1>5, <1>6 DEF Open, Undecided, Shown, Shows, Agreed
<1>9. TNext
      BY <1>1, <1>8, TAbort
<1>10. conn'.req <= patches'
      BY <1>1, <1>5, <1>6 DEF Request, TypeOK
<1>11. ReqKept' /\ HttpBack'
      BY <1>1, <1>4, <1>5, <1>6, <1>7 DEF ReqKept, HttpBack
<1> QED
    BY <1>1, <1>2, <1>4, <1>9, <1>10, <1>11, LcBackLeft, AgreesIntro

(***************************************************************************)
(* The steps of PATCH.                                                     *)
(***************************************************************************)
LEMMA HttpLeaves ==
    ASSUME Agrees, UNCHANGED << conn, patches >>, lc' = lc, ~ Removes, ~ Removes', HttpBack'
    PROVE  Agrees' /\ (Open' <=> Open) /\ UNCHANGED << Agreed, Shown >>
<1>1. Present' <=> Present
      BY DEF Present
<1>2. ReqKept' /\ LcBack'
      BY <1>1 DEF Agrees, ReqKept, LcBack, Busy
<1>3. Agrees'
      BY <1>1, <1>2, AgreesIntro DEF Agrees
<1>4. (Open' <=> Open) /\ UNCHANGED << Agreed, Shown >>
      BY <1>1 DEF Open, Undecided, Agreed, Shown, Shows
<1> QED
    BY <1>3, <1>4

LEMMA HttpStays ==
    ASSUME Agrees, Unbroken, UNCHANGED << conn, patches, reply >>, lc' = lc,
           ~ Removes, ~ Removes', HttpBack'
    PROVE  TNext /\ Agrees'
BY HttpLeaves, Stutters

LEMMA RemoveRests ==
    ASSUME Agrees, Unbroken, UNCHANGED << conn, patches, reply >>,
           Removes, Removes', http'.doc.req = http.doc.req
    PROVE  TNext /\ Agrees'
<1>1. Agrees'
      BY DEF Agrees, Replacing, Present
<1>2. Open /\ Open' /\ UNCHANGED << Agreed, Shown >>
      BY DEF Open, Agreed, Shown, Shows, Present, http
<1> QED
    BY <1>1, <1>2, Stutters

LEMMA ReadStep ==
    ASSUME TypeOK, OnlyUpModifies, Agrees, Unbroken, PatchRead
    PROVE  TNext /\ Agrees'
<1> DEFINE y == [ Idle EXCEPT !.pc = "modify", !.job = "new", !.doc = conn ]
<1>1. /\ http = Idle /\ http' = y /\ Present /\ conn' = conn /\ patches' = patches + 1
      /\ reply' = "none"
      BY HttpLocal DEF PatchRead, http
<1>2. conn \in Conn /\ conn.status = "UP"
      BY <1>1, ConnShape DEF PatchRead, TypeOK, Present, OnlyUpModifies
<1>3. y.pc = "modify" /\ y.doc = conn
      BY DEF Idle
<1> HIDE DEF y
<1>4. ~ Removes /\ Removes'
      BY <1>1, <1>3, IdleType DEF Removes, http
<1>5. conn.req <= patches /\ conn.req \in Nat /\ patches \in Nat
      BY <1>1, <1>2, ConnShape, PatchAssumption DEF Agrees, TypeOK, Request
<1>6. Agrees'
      BY <1>1, <1>3, <1>4, <1>5 DEF Agrees, Replacing
<1>7. ~ Open /\ Open' /\ Agreed = conn.req /\ Agreed' = conn.req
      BY <1>1, <1>2, <1>3, <1>4 DEF Open, Undecided, Agreed, http
<1>8. Shown = {conn.req} /\ Shown' = Shown
      BY <1>1, <1>2 DEF Shown, Shows, Present
<1> QED
    BY <1>1, <1>6, <1>7, <1>8, TAsk

\* The old provisioning is removed.
LEMMA RemoveSteps ==
    ASSUME TypeOK, LostInv, Mode, Agrees, Unbroken,
           PatchModify \/ RemoveRead("http") \/ RemoveSend("http") \/ RemoveDrop("http")
    PROVE  TNext /\ Agrees'
<1>1. Removes /\ http.pc \in { "modify", "remove", "send", "drop" } /\ "http" \in Thread
      BY Threads DEF PatchModify, RemoveRead, RemoveSend, RemoveDrop, Removes, Thread, http, At
<1>2. http.job = "new" /\ http \in ThreadState /\ http.doc \in Conn
      /\ Present /\ conn.status \in { "UP", "MODIFYING" }
      BY <1>1, RemovesMode, Threads
<1>3. UNCHANGED << patches, reply >>
      BY DEF PatchModify, RemoveRead, RemoveSend, RemoveDrop, counters
<1>4. CASE PatchModify
  <2> DEFINE y == [ http EXCEPT !.pc = "remove" ]
  <2>1. http' = y
        BY <1>4, HttpLocal DEF PatchModify, Goto, http
  <2>2. http'.pc = "remove" /\ http'.doc = http.doc
        BY <1>2, <2>1 DEF ThreadState
  <2>3. PICK k : k = conn
        OBVIOUS
  <2>4. conn \in Conn /\ conn' = [ k EXCEPT !.status = "MODIFYING" ]
        BY <1>2, <1>4, <2>3 DEF PatchModify, DbSetStatus, DbUpdate, Present, TypeOK
  <2>5. conn'.req = conn.req /\ conn'.status = "MODIFYING"
        BY <2>3, <2>4 DEF Conn
  <2>6. Removes' /\ Open /\ Open' /\ Agreed = http.doc.req /\ Agreed' = Agreed
        BY <1>1, <2>2 DEF Removes, Open, Agreed, http
  <2>7. Agrees'
        BY <1>1, <1>2, <1>3, <2>2, <2>5, <2>6 DEF Agrees, Replacing
  <2>8. Shown' = {}
        BY <2>5 DEF Shown, Shows
  <2> QED
      BY <1>3, <2>6, <2>7, <2>8, THide
<1>5. CASE RemoveRead("http") \/ RemoveSend("http")
  <2>1. http'.pc \in { "send", "drop" } /\ http'.doc.req = http.doc.req
    <3>1. CASE RemoveSend("http")
      <4>1. http' = [ http EXCEPT !.pc = "drop" ]
            BY <3>1, HttpLocal DEF RemoveSend, Goto, http
      <4> QED
          BY <1>2, <4>1 DEF ThreadState
    <3>2. CASE RemoveRead("http")
      <4>1. th' = [ th EXCEPT !["http"] =
                      [ http EXCEPT !.pc = "send", !.brk = breakdown, !.doc.evc = conn.evc ] ]
            BY <1>1, <3>2 DEF RemoveRead, TypeOK, http
      <4>2. http' = [ http EXCEPT !.pc = "send", !.brk = breakdown, !.doc.evc = conn.evc ]
            BY <4>1, HttpLocal
      <4> QED
          BY <1>2, <4>2 DEF ThreadState, Conn
    <3> QED
        BY <1>5, <3>1, <3>2
  <2>2. Removes' /\ conn' = conn
        BY <1>5, <2>1 DEF Removes, RemoveRead, RemoveSend, http
  <2> QED
      BY <1>1, <1>3, <2>1, <2>2, RemoveRests
<1>6. CASE RemoveDrop("http")
  <2>1. http' = [ http EXCEPT !.pc = "reset" ] /\ conn' = NoConn
        BY <1>6, HttpLocal DEF RemoveDrop, Goto, http
  <2>2. http'.pc = "reset" /\ http'.job = "new" /\ http'.doc = http.doc /\ ~ Present'
        BY <1>2, <2>1 DEF ThreadState, Present
  <2>3. Removes' /\ Open /\ Open' /\ Agreed = http.doc.req /\ Agreed' = Agreed /\ Shown' = {}
        BY <1>1, <2>2 DEF Removes, Open, Agreed, http, Shown, Shows
  <2>4. Agrees'
        BY <1>1, <1>3, <2>2, <2>3 DEF Agrees, Replacing
  <2> QED
      BY <1>3, <2>3, <2>4, THide
<1> QED
    BY <1>4, <1>5, <1>6

LEMMA PatchedBack ==
    ASSUME NEW c \in Conn
    PROVE  Patched(c).req = patches /\ Patched(c).back = c.req /\ ~ Patched(c).performed
BY DEF Patched, Conn

LEMMA ResetStep ==
    ASSUME TypeOK, Mode, Agrees, Unbroken, PatchReset
    PROVE  TNext /\ Agrees'
<1> DEFINE c == Patched(http.doc)
           y == [ http EXCEPT !.pc = "plan", !.doc = c ]
<1>1. /\ http.pc = "reset" /\ http.job = "new" /\ http \in ThreadState /\ http.doc \in Conn
      /\ UNCHANGED << patches, reply >> /\ conn' = c /\ Quiet
  <2>1. Quiet
    <3>1. Unhurt({"stuck", "hasty"})'
          BY DEF Unhurt, Unbroken, Excused
    <3> QED
        BY <3>1, ResetQuiet
  <2> QED
      BY <2>1, Threads DEF PatchReset, counters, http, DbAdd
<1>2. http' = y /\ lc' = lc
  <2>1. th' = [ th EXCEPT !["http"].pc = "plan", !["http"].doc = c ] /\ "http" \in Thread
        BY DEF PatchReset, http, Thread, TypeOK
  <2>2. th' = [ th EXCEPT !["http"] = y ]
        BY <2>1 DEF TypeOK, http
  <2> QED
      BY <2>2, HttpLocal
<1>3. y.pc = "plan" /\ y.job = "new" /\ y.doc = c
      BY <1>1 DEF ThreadState
<1>4. Removes /\ ~ Removes'
      BY <1>1, <1>2, <1>3 DEF Removes, http
<1>5. /\ c.req = patches /\ c.back = http.doc.req /\ ~ c.performed /\ c.onFail
      /\ c.status = "REQUESTED" /\ c \in Conn
      BY <1>1, PatchedFields, PatchedBack, PatchedType
<1>6. Present' /\ ~ Present
      BY <1>1, <1>5, PatchAssumption, HttpMode DEF Present, Removed
<1>7. http.doc.req < patches /\ patches \in Nat
      BY <1>4, PatchAssumption DEF Agrees, Replacing, TypeOK, Request
<1> HIDE DEF c, y
<1>8. Open /\ Open' /\ Agreed = http.doc.req /\ Agreed' = http.doc.req
      BY <1>1, <1>4, <1>5, <1>6 DEF Open, Undecided, Agreed, http
<1>9. Shown = {} /\ Shown' = {}
      BY <1>1, <1>5, <1>6 DEF Shown, Shows
<1>10. TNext
      BY <1>1, <1>8, <1>9, Stutters
<1>11. LcBack'
      BY <1>1, <1>2, IdleType, LcBackLeft DEF Quiet, NoneUnderWay, lc
<1>12. ReqKept' /\ HttpBack'
      BY <1>1, <1>2, <1>3, <1>5, <1>6, <1>7 DEF ReqKept, HttpBack
<1> QED
    BY <1>1, <1>4, <1>5, <1>7, <1>10, <1>11, <1>12, AgreesIntro

LEMMA HttpPlaceSteps ==
    ASSUME TypeOK, Mode, Deleting, Agrees, Unbroken,
           PlaceFails("http") \/ PlacePlan("http") \/ PlaceMark("http") \/ PlacePublish("http")
    PROVE  TNext /\ Agrees'
<1>1. /\ http.pc \in { "plan", "mark", "publish" } /\ "http" \in Thread
      /\ http \in ThreadState /\ http.doc \in Conn /\ lc' = lc
      BY Threads, HttpOnly
         DEF PlaceFails, PlacePlan, PlaceMark, PlacePublish, Thread, PatchStep, PlaceStep
<1>2. UNCHANGED << patches, reply >>
      BY DEF PlaceFails, PlacePlan, PlaceMark, PlacePublish, counters
<1>3. Placing("http") /\ http.job \in { "new", "old" } /\ conn = http.doc
      BY <1>1, HttpMode DEF PatchPlaces, Placing, http
<1>4. ~ Removes
      BY <1>1 DEF Removes, http
<1>5. CASE PlaceFails("http")
  <2>1. http' = AfterFailure("http") /\ conn' = conn
        BY <1>5, HttpLocal DEF PlaceFails
  <2>2. CASE http.job = "new"
    <3>1. http' = [ http EXCEPT !.pc = "reset", !.job = "old" ]
          BY <2>1, <2>2 DEF AfterFailure, http
    <3>2. http'.pc = "reset" /\ http'.job = "old" /\ http'.doc = http.doc
          BY <1>1, <3>1 DEF ThreadState
    <3>3. conn.onFail /\ conn.status # "UP"
          BY <1>1, <1>3, <2>2 DEF Placing, http
    <3>4. ~ Removes' /\ HttpBack'
          BY <1>3, <2>1, <3>2, <3>3 DEF Removes, HttpBack, http
    <3> QED
        BY <1>1, <1>2, <1>4, <2>1, <3>4, HttpStays
  <2>3. CASE http.job = "old"
    <3>1. http' = [ http EXCEPT !.pc = "reject" ]
          BY <2>1, <2>3 DEF AfterFailure, http
    <3>2. http'.pc = "reject" /\ http'.job = "old"
          BY <1>1, <2>3, <3>1 DEF ThreadState
    <3>3. ~ Removes' /\ HttpBack'
          BY <1>1, <1>4, <2>1, <2>3, <3>2 DEF Removes, Agrees, HttpBack, http
    <3> QED
        BY <1>1, <1>2, <1>4, <2>1, <3>3, HttpStays
  <2> QED
      BY <1>3, <2>2, <2>3
<1>6. CASE PlacePlan("http") \/ PlacePublish("http")
  <2>1. /\ http'.pc \in { "mark", "wait" } /\ http'.job = http.job /\ http'.doc = http.doc
        /\ conn' = conn
    <3>1. CASE PlacePlan("http")
      <4>1. PICK n : n = attempt'
            OBVIOUS
      <4>2. th' = [ th EXCEPT !["http"] =
                      [ http EXCEPT !.pc = "mark", !.brk = Plan[http.doc.req], !.id = n ] ]
            BY <1>1, <3>1, <4>1 DEF PlacePlan, TypeOK, http
      <4>3. http' = [ http EXCEPT !.pc = "mark", !.brk = Plan[http.doc.req], !.id = n ]
            BY <4>2, HttpLocal
      <4> QED
          BY <1>1, <3>1, <4>3 DEF ThreadState, PlacePlan
    <3>2. CASE PlacePublish("http")
      <4>1. th' = [ th EXCEPT !["http"] = [ http EXCEPT !.pc = "wait" ] ]
            BY <1>1, <3>2 DEF PlacePublish, TypeOK, http
      <4>2. http' = [ http EXCEPT !.pc = "wait" ]
            BY <4>1, HttpLocal
      <4> QED
          BY <1>1, <3>2, <4>2 DEF ThreadState, PlacePublish
    <3> QED
        BY <1>6, <3>1, <3>2
  <2>2. ~ Removes' /\ HttpBack'
        BY <1>1, <1>4, <2>1 DEF Removes, Agrees, HttpBack, http
  <2> QED
      BY <1>1, <1>2, <1>4, <2>1, <2>2, HttpStays
<1>7. CASE PlaceMark("http")
  <2>1. /\ http'.pc = "publish" /\ http'.job = http.job /\ Present' /\ Placing("http")'
        /\ conn'.onFail = conn.onFail /\ conn'.performed = conn.performed
        BY <1>1, <1>3, <1>7, MarkPlaces, HttpLocal DEF http
  <2>2. PICK k : k = conn
        OBVIOUS
  <2>3. /\ conn \in Conn /\ Present /\ http.pc = "mark"
        /\ conn' = [ k EXCEPT !.status = "UNDER_PROVISIONING" ]
        BY <1>1, <1>3, <1>7, <2>2, PatchAssumption, Threads
           DEF PlaceMark, DbSetStatus, DbUpdate, Present
  <2>4. /\ conn'.req = conn.req /\ conn'.back = conn.back
        /\ conn'.status = "UNDER_PROVISIONING" /\ conn.status = "REQUESTED"
    <3>1. conn.status = "REQUESTED"
          BY <1>3, <2>3 DEF Placing, http
    <3> QED
        BY <2>2, <2>3, <3>1 DEF Conn
  <2>5. ~ Removes' /\ http'.doc = conn'
        BY <2>1 DEF Removes, Placing, http
  <2>6. ReqKept' /\ HttpBack'
    <3>1. ReqKept /\ HttpBack
          BY <1>4 DEF Agrees
    <3>2. ReqKept'
          BY <1>2, <2>1, <2>4, <3>1 DEF ReqKept
    <3>3. HttpBack'
          BY <1>1, <2>1, <2>5, <3>1 DEF HttpBack
    <3> QED
        BY <3>2, <3>3
  <2>7. LcBack'
    <3>1. lc.pc = "idle"
          BY <1>1, HttpMode, IdleType DEF PatchPlaces, Quiet, NoneUnderWay, lc
    <3> QED
        BY <1>1, <3>1, LcBackLeft
  <2>8. conn'.req <= patches'
        BY <1>2, <2>3, <2>4 DEF Agrees
  <2>9. Agrees'
        BY <2>5, <2>6, <2>7, <2>8, AgreesIntro
  <2>10. (Open' <=> Open) /\ Agreed' = Agreed
        BY <1>4, <2>1, <2>3, <2>4, <2>5 DEF Open, Undecided, Agreed
  <2>11. Shown = {} /\ Shown' = {}
        BY <2>4 DEF Shown, Shows
  <2> QED
      BY <1>2, <2>9, <2>10, <2>11, Stutters
<1> QED
    BY <1>5, <1>6, <1>7

\* PATCH tells what has become of its request, or goes back to the old one.
LEMMA WaitStep ==
    ASSUME TypeOK, WaitsFor, Agrees, Unbroken, PatchWait \/ PatchExpires
    PROVE  TNext /\ Agrees'
<1>1. /\ http.pc = "wait" /\ http.job = "new" /\ http \in ThreadState /\ lc' = lc
      /\ UNCHANGED << conn, patches >>
      BY Threads, HttpOnly DEF PatchWait, PatchExpires, http, PatchStep, counters
<1>2. ~ Removes /\ ReqKept /\ HttpBack /\ (conn.onFail \/ conn.performed)
      BY <1>1 DEF Removes, Agrees, WaitsFor, http
<1>3. /\ Present /\ conn \in Conn /\ conn.req \in Nat /\ patches \in Nat
      /\ conn.performed \in BOOLEAN
  <2>1. Present /\ conn \in Conn
        BY <1>2 DEF ReqKept, TypeOK, Present
  <2> QED
      BY <2>1, ConnShape, PatchAssumption DEF Request, TypeOK
<1>4. CASE http' = Idle
  <2>1. ~ Removes' /\ HttpBack'
        BY <1>4, IdleType DEF Removes, HttpBack, http
  <2>2. Agrees' /\ (Open' <=> Open) /\ UNCHANGED << Agreed, Shown >>
        BY <1>1, <1>2, <2>1, HttpLeaves
  <2>3. CASE PatchWait /\ conn.status = "UP"
    <3>1. reply' = IF conn.performed THEN "undone" ELSE "up"
          BY <1>3, <2>3 DEF PatchWait, Answered
    <3>2. ~ Open /\ Agreed = conn.req /\ Shown = {conn.req}
          BY <1>2, <1>3, <2>3 DEF Open, Undecided, Agreed, Shown, Shows
    <3>3. conn.performed => conn.req # patches
          BY <1>2, <1>3 DEF ReqKept
    <3>4. ~ conn.performed => conn.req = patches
          BY <1>2 DEF ReqKept
    <3> QED
        BY <1>1, <2>2, <3>1, <3>2, <3>3, <3>4, TTell
  <2>4. CASE PatchExpires /\ conn.status = "UNDER_PROVISIONING"
    <3>1. reply' = "provisioning" /\ Shown = {}
          BY <2>4 DEF PatchExpires, Answered, Shown, Shows
    <3> QED
        BY <1>1, <2>2, <3>1, TTell
  <2>5. CASE UNCHANGED reply
        BY <1>1, <2>2, <2>5, Stutters
  <2> QED
      BY <1>3, <2>3, <2>4, <2>5 DEF PatchWait, PatchExpires
<1>5. CASE http' # Idle
  <2>1. /\ th' = [ th EXCEPT !["http"].pc = "reset", !["http"].job = "old" ] /\ UNCHANGED reply
        /\ PatchWait /\ conn.status # "UP" /\ ~ conn.performed
    <3>1. "raced" \notin hurt' /\ "expired" \notin hurt'
          BY DEF Unbroken, Unhurt, Excused
    <3>2. CASE PatchWait
      <4>1. conn.status # "UP"
            BY <1>3, <1>5, <3>2, HttpLocal DEF PatchWait, Answered
      <4> QED
          BY <1>3, <3>1, <3>2, <4>1 DEF PatchWait, LcUndoes
    <3>3. CASE PatchExpires
          BY <1>5, <3>1, <3>3, HttpLocal DEF PatchExpires, Answered
    <3> QED
        BY <3>2, <3>3
  <2>2. th' = [ th EXCEPT !["http"] = [ http EXCEPT !.pc = "reset", !.job = "old" ] ]
        BY <2>1 DEF TypeOK, http, Thread
  <2>3. http' = [ http EXCEPT !.pc = "reset", !.job = "old" ]
        BY <2>2, HttpLocal
  <2>4. http'.pc = "reset" /\ http'.job = "old" /\ http'.doc = http.doc
        BY <1>1, <2>3 DEF ThreadState
  <2>5. http.doc.back = conn.back /\ conn.onFail
        BY <1>1, <1>2, <2>1 DEF HttpBack
  <2>6. ~ Removes' /\ HttpBack'
        BY <1>1, <2>1, <2>4, <2>5 DEF Removes, HttpBack, http
  <2> QED
      BY <1>1, <1>2, <2>1, <2>6, HttpStays
<1> QED
    BY <1>4, <1>5

LEMMA BackStep ==
    ASSUME TypeOK, Mode, Agrees, Unbroken, PatchUndo
    PROVE  TNext /\ Agrees'
<1> DEFINE c == Restored(http.doc.back)
           y == [ http EXCEPT !.pc = "plan", !.doc = c ]
<1>1. /\ http.pc = "reset" /\ http.job = "old" /\ http \in ThreadState
      /\ UNCHANGED << patches, reply >> /\ conn' = c
      BY Threads DEF PatchUndo, counters, http, DbAdd
<1>2. http' = y /\ lc' = lc
  <2>1. th' = [ th EXCEPT !["http"].pc = "plan", !["http"].doc = c ] /\ "http" \in Thread
        BY DEF PatchUndo, http, Thread
  <2>2. th' = [ th EXCEPT !["http"] = y ]
        BY <2>1 DEF TypeOK, http
  <2> QED
      BY <2>2, HttpLocal
<1>3. y.pc = "plan" /\ y.job = "old"
      BY <1>1 DEF ThreadState
<1>4. ~ Removes /\ ~ Removes'
      BY <1>1, <1>2, <1>3 DEF Removes, http
<1>5. /\ Present /\ conn.status # "UP" /\ conn.onFail
      /\ http.doc.back = conn.back /\ conn.back < patches /\ conn.back \in Request
      BY <1>1, <1>4, Threads, ConnShape DEF Agrees, HttpBack, ReqKept
<1>6. /\ conn' \in Conn /\ conn'.status = "REQUESTED" /\ ~ conn'.onFail /\ conn'.performed
      /\ conn'.req = conn.back
      BY <1>1, <1>5, RestoredType, RestoredFields DEF Restored
<1>7. Present'
      BY <1>6, PatchAssumption DEF Present
<1>8. PatchPlaces
      BY <1>1, HttpMode
<1> HIDE DEF c, y
<1>9. Open /\ ~ Open' /\ Shown = {} /\ Shown' = {} /\ Agreed = conn.back /\ Agreed' = conn.back
      BY <1>4, <1>5, <1>6 DEF Open, Undecided, Shown, Shows, Agreed
<1>10. TNext
      BY <1>1, <1>9, TAbort
<1>11. conn'.req <= patches'
      BY <1>1, <1>5, <1>6 DEF Request, TypeOK
<1>12. LcBack'
      BY <1>2, <1>8, IdleType, LcBackLeft DEF PatchPlaces, Quiet, NoneUnderWay, lc
<1>13. ReqKept' /\ HttpBack'
      BY <1>1, <1>2, <1>3, <1>5, <1>6, <1>7 DEF ReqKept, HttpBack
<1> QED
    BY <1>4, <1>10, <1>11, <1>12, <1>13, AgreesIntro

\* The answers of a PATCH that has gone back to the old request.
LEMMA OldSteps ==
    ASSUME TypeOK, Mode, Agrees, Unbroken, PatchWaitOld \/ PatchReject
    PROVE  TNext /\ Agrees'
<1>1. /\ http.pc \in { "wait", "reject" } /\ http.job = "old" /\ lc' = lc /\ http' = Idle
      /\ UNCHANGED patches
  <2>1. CASE PatchWaitOld
        BY <2>1, HttpLocal DEF PatchWaitOld, Answered, counters, http, At
  <2>2. CASE PatchReject
    <3>1. http.pc = "reject" /\ lc' = lc /\ http' = Idle /\ UNCHANGED patches
          BY <2>2, HttpLocal DEF PatchReject, Answered, counters, http, At
    <3> QED
        BY <3>1, HttpMode DEF PatchPlaces, Placing
  <2> QED
      BY <2>1, <2>2
<1>2. ~ Removes /\ ~ Removes' /\ HttpBack'
      BY <1>1, IdleType DEF Removes, HttpBack, http
<1>3. /\ Present /\ conn \in Conn /\ conn.req \in Nat /\ patches \in Nat
      /\ ~ conn.onFail /\ conn.performed /\ conn.req < patches
  <2>1. ReqKept /\ HttpBack
        BY <1>2 DEF Agrees
  <2>2. /\ Present /\ conn \in Conn /\ ~ conn.onFail /\ conn.req < patches /\ conn.performed
        BY <1>1, <2>1 DEF ReqKept, HttpBack, TypeOK, Present
  <2> QED
      BY <2>2, ConnShape, PatchAssumption DEF Request, TypeOK
<1>4. ~ Open /\ Agreed = conn.req /\ Agreed # patches
      BY <1>2, <1>3 DEF Open, Undecided, Agreed
<1>5. CASE PatchWaitOld
  <2>1. UNCHANGED conn /\ reply' \in { "undone", "failed" }
        /\ (reply' = "undone" => conn.status = "UP")
        BY <1>5 DEF PatchWaitOld, Answered
  <2>2. Agrees' /\ (Open' <=> Open) /\ UNCHANGED << Agreed, Shown >>
        BY <1>1, <1>2, <2>1, HttpLeaves
  <2>3. reply' = "undone" => Shown = {Agreed}
        BY <1>3, <1>4, <2>1 DEF Shown, Shows
  <2> QED
      BY <1>1, <1>4, <2>1, <2>2, <2>3, TTell
<1>6. CASE PatchReject
  <2>1. PICK k : k = conn
        OBVIOUS
  <2>2. conn' = [ k EXCEPT !.status = "REJECTED" ] /\ reply' = "failed" /\ http.pc = "reject"
        BY <1>3, <1>6, <2>1 DEF PatchReject, Answered, DbSetStatus, DbUpdate, http, At
  <2>3. PatchPlaces /\ conn.status # "UP"
        BY <2>2, HttpMode DEF PatchPlaces, Unplaced
  <2>4. /\ conn' \in Conn /\ conn'.req = conn.req /\ conn'.onFail = conn.onFail
        /\ conn'.performed = conn.performed /\ conn'.status = "REJECTED"
        BY <1>3, <2>1, <2>2, ConnFields, StatusNames DEF Conn
  <2>5. Present'
        BY <2>4, PatchAssumption DEF Present
  <2>6. LcBack'
        BY <1>1, <2>3, IdleType, LcBackLeft DEF PatchPlaces, Quiet, NoneUnderWay, lc
  <2>7. ReqKept'
        BY <1>1, <1>3, <2>4, <2>5 DEF ReqKept
  <2>8. Agrees'
        BY <1>1, <1>2, <1>3, <2>4, <2>6, <2>7, AgreesIntro
  <2>9. ~ Open' /\ Agreed' = Agreed /\ Shown = {} /\ Shown' = {}
        BY <1>2, <1>3, <1>4, <2>3, <2>4 DEF Open, Undecided, Agreed, Shown, Shows
  <2> QED
      BY <1>1, <1>4, <2>2, <2>8, <2>9, TTell
<1> QED
    BY <1>5, <1>6

(***************************************************************************)
(* PATCH implements the transaction.                                       *)
(***************************************************************************)
LEMMA AgreesNext ==
    ASSUME TypeOK, LostInv, OnlyUpModifies, MatchInv, AgreedInv, [Next]_vars
    PROVE  TNext /\ AgreedInv'
<1>1. CASE ~ Unhurt(Excused)'
      BY <1>1, TFails DEF AgreedInv
<1>2. CASE Unhurt(Excused)'
  <2>1. Unbroken /\ Deleting /\ WaitsFor /\ Mode /\ Agrees
        BY <1>2, HurtStays DEF Unbroken, Unhurt, MatchInv, AgreedInv
  <2>2. TNext /\ Agrees'
    <3>1. CASE UNCHANGED vars \/ \E g \in Segment : OxpServe(g)
          BY <2>1, <3>1, QuietSteps
    <3>2. CASE PatchRead
          BY <2>1, <3>2, ReadStep
    <3>3. CASE PatchStep
      <4>1. CASE \/ PatchModify \/ PatchReset \/ PatchWait \/ PatchExpires \/ PatchUndo
                 \/ PatchWaitOld \/ PatchReject
            BY <2>1, <4>1, RemoveSteps, ResetStep, WaitStep, BackStep, OldSteps
      <4>2. CASE PlaceStep("http")
            BY <1>2, <2>1, <4>2, Hurts, RemoveSteps, HttpPlaceSteps DEF PlaceStep
      <4> QED
          BY <3>3, <4>1, <4>2 DEF PatchStep
    <3>4. CASE LcStep
      <4>1. CASE LcReceive \/ LcCleanup \/ LcLate \/ LcSave \/ LcBegin \/ LcUndo
            BY <2>1, <4>1, AnswerSteps, SaveStep, BeginStep, UndoStep
      <4>2. CASE PlaceStep("lc")
            BY <1>2, <2>1, <4>2, Hurts, LcIdleSteps, LcPlaceSteps DEF PlaceStep
      <4> QED
          BY <1>2, <2>1, <3>4, <4>1, <4>2, Hurts, LcIdleSteps DEF LcStep
    <3>5. CASE LcLost
          BY <1>2, <3>5, Hurts
    <3> QED
        BY <3>1, <3>2, <3>3, <3>4, <3>5 DEF Next
  <2> QED
      BY <2>2 DEF AgreedInv
<1> QED
    BY <1>1, <1>2

LEMMA AgreesInit ==
    ASSUME Init
    PROVE  Transaction!Init /\ AgreedInv
<1>1. PICK k : k = conn
      OBVIOUS
<1>2. conn \in Conn
      BY InitConn
<1>3. /\ k.status = "UP" /\ k.req = 0 /\ ~ k.onFail /\ ~ k.performed
      BY <1>1 DEF Init, Blank
<1>4. Present /\ patches = 0 /\ reply = "none" /\ hurt = {}
      BY <1>2, PatchAssumption DEF Init, Present
<1>5. http = Idle /\ lc = Idle
      BY DEF Init, http, lc, Thread
<1>6. ~ Removes
      BY <1>5, IdleType DEF Removes, http
<1>7. Shown = {0} /\ ~ Open /\ Agreed = 0
      BY <1>1, <1>3, <1>4, <1>6 DEF Shown, Shows, Open, Undecided, Agreed
<1>8. Transaction!Init
      BY <1>4, <1>7 DEF Transaction!Init, Unhurt
<1>9. ReqKept /\ HttpBack /\ LcBack
      BY <1>1, <1>3, <1>4, <1>5, IdleType DEF ReqKept, HttpBack, LcBack, Busy
<1>10. AgreedInv
      BY <1>1, <1>3, <1>4, <1>6, <1>9 DEF AgreedInv, Agrees
<1> QED
    BY <1>8, <1>10

\* PATCH is a transaction ("Rolling back to old connection",
\* l2vpn_controller:453): while none of the weaknesses the abstract
\* specification gives up on has struck, every step of the two threads and of
\* the OXPs is a step of it, or changes nothing it speaks of.
THEOREM TransactionCorrect ==
    ASSUME OnlyUpModifies
    PROVE  Spec => ImplementsTransaction
<1>1. Init => Transaction!Init /\ AgreedInv
      BY AgreesInit
<1>2. TypeOK /\ LostInv /\ MatchInv /\ AgreedInv /\ [Next]_vars => TNext /\ AgreedInv'
      BY AgreesNext
<1>3. Init => LostInv
      BY LostInit
<1>4. TypeOK /\ LostInv /\ [Next]_vars => LostInv'
      BY NextKeeps
<1>5. Spec => [](TypeOK /\ MatchInv)
      BY MatchCorrect
<1> QED
    BY <1>1, <1>2, <1>3, <1>4, <1>5, PTL
       DEF Spec, TNext, ImplementsTransaction, Transaction!Spec
=============================================================================
