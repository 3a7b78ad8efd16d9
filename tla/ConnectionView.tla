--------------------------- MODULE ConnectionView ---------------------------
(***************************************************************************)
(* What GET /l2vpn/1.0/{service_id} answers (get_connection_status), as a  *)
(* function of the request and the breakdown stored for the connection.    *)
(*                                                                         *)
(* A request is a record [ form, a, z ]: the specification it is written   *)
(* in and the UNI ports it asks for.  A breakdown is a list of segments,   *)
(* records [ dom, a, z, vlan ].                                            *)
(***************************************************************************)
EXTENDS Naturals, Sequences

\* parse_conn_status
ParseStatus(status) ==
    CASE status = "UP" -> "up"
      [] status \in { "UNDER_PROVISIONING", "MODIFYING" } -> "under provisioning"
      [] status \in { "DOWN", "ERROR", "RECOVERING" } -> "down"
      [] OTHER -> "error"

\* The ports looked for.  Those of a request of specification 1.0.0 are not
\* found: its branch asks for the ids it is to set (:1002, :1005).
RequestPorts(request) ==
    IF request.form = "2.0.0" THEN { request.a, request.z } ELSE {}

EndsOf(segment) ==
    << [ port |-> segment.a, vlan |-> segment.vlan ],
       [ port |-> segment.z, vlan |-> segment.vlan ] >>

\* current_path: both ends of every segment, in the breakdown's order.
CurrentPath(breakdown) ==
    [ i \in 1 .. 2 * Len(breakdown) |-> EndsOf(breakdown[(i + 1) \div 2])[2 - (i % 2)] ]

\* Mutant of Endpoints: the first end of each segment only.
MutEndpoints(request, breakdown) ==
    { EndsOf(breakdown[i])[1] : i \in { j \in DOMAIN breakdown : breakdown[j].a \in RequestPorts(request) } }

\* endpoints, of which none is listed twice.
Endpoints(request, breakdown) ==
    { e \in { CurrentPath(breakdown)[i] : i \in DOMAIN CurrentPath(breakdown) } :
          e.port \in RequestPorts(request) }

NotFound == [ status |-> "not found" ]

\* A rejected connection is answered as if there were none; one without a
\* breakdown has a status only.
View(status, request, breakdown) ==
    CASE status \in { "none", "REJECTED" } -> NotFound
      [] status \notin { "none", "REJECTED" } /\ breakdown = << >> ->
            [ status |-> ParseStatus(status) ]
      [] OTHER ->
            [ status |-> ParseStatus(status),
              endpoints |-> Endpoints(request, breakdown),
              path |-> CurrentPath(breakdown) ]
=============================================================================
