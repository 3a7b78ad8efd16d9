----------------------------- MODULE VlanRange ------------------------------
(***************************************************************************)
(* The VLAN ranges an OXP's topology gives its ports, as LcMessageHandler  *)
(* reads and checks them (_is_valid_vlan_range, _sanitize_vlan_ranges).    *)
(*                                                                         *)
(* A range is a list of items: a number, a pair of numbers, a text of      *)
(* parts with hyphens between them, or anything else.                      *)
(***************************************************************************)
EXTENDS Integers, Sequences

MaxVlan == 4095

Number(n) == [ kind |-> "number", of |-> << n >> ]
Pair(a, b) == [ kind |-> "list", of |-> << a, b >> ]
Text(parts) == [ kind |-> "text", of |-> parts ]
Word == -1      \* a part of a text that is not a number
Other == [ kind |-> "other", of |-> << >> ]

IsItem(i) ==
    /\ i.kind \in { "number", "list", "text", "other" } /\ i.of \in Seq(Int)
    /\ i.kind = "number" => Len(i.of) = 1

\* A text is read as the parts of it that are numbers: one is a number, and
\* any more, or none, a list.
ReadText(parts) ==
    LET numbers == SelectSeq(parts, LAMBDA p : p # Word)
    IN  [ kind |-> IF Len(numbers) = 1 THEN "number" ELSE "list", of |-> numbers ]

Read(item) == IF item.kind = "text" THEN ReadText(item.of) ELSE item

\* Mutant of ValidItem: one VLAN too many.
MutValidItem(item) ==
    LET r == Read(item) IN
    \/ r.kind = "number" /\ r.of[1] \in 0 .. MaxVlan + 1
    \/ /\ r.kind = "list" /\ Len(r.of) = 2
       /\ r.of[1] \in 0 .. MaxVlan + 1 /\ r.of[2] \in 0 .. MaxVlan + 1
       /\ r.of[1] <= r.of[2]

ValidItem(item) ==
    LET r == Read(item) IN
    \/ r.kind = "number" /\ r.of[1] \in 0 .. MaxVlan
    \/ /\ r.kind = "list" /\ Len(r.of) = 2
       /\ r.of[1] \in 0 .. MaxVlan /\ r.of[2] \in 0 .. MaxVlan
       /\ r.of[1] <= r.of[2]

Valid(range) == range # << >> /\ \A i \in DOMAIN range : ValidItem(range[i])

\* The range that is stored and given to the TE manager for the range that was
\* announced, when that of the port at start-up was `previous`, if any.
Sanitised(range, previous) ==
    CASE Valid(range) -> range
      [] ~ Valid(range) /\ previous # << >> -> previous
      [] OTHER -> << Pair(1, MaxVlan) >>

\* The VLANs of an item, and of a range, each between two bounds.
Low(item) == Read(item).of[1]
High(item) == Read(item).of[Len(Read(item).of)]

Offers(range, vlan) ==
    \E i \in DOMAIN range : Low(range[i]) <= vlan /\ vlan <= High(range[i])

\* A range a TE manager can use: each item is an interval of VLANs.
Usable(range) ==
    /\ range # << >>
    /\ \A i \in DOMAIN range :
           0 <= Low(range[i]) /\ Low(range[i]) <= High(range[i]) /\ High(range[i]) <= MaxVlan
=============================================================================
