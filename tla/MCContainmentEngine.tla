------------------------- MODULE MCContainmentEngine -------------------------
(***************************************************************************)
(* Small instances of ContainmentEngine: two resources a and b, one        *)
(* dependency from a to b, a fault on each of them.                        *)
(***************************************************************************)
EXTENDS ContainmentEngine

CONSTANTS a, b, e, fa, fb

MCFrom == [d \in Dependencies |-> a]
MCTo   == [d \in Dependencies |-> b]
MCSubjectOf == [f \in Faults |-> IF f = fa THEN a ELSE b]

(* A fault on a reaches b over a hard edge, which fences b, or over a      *)
(* conditional one, which drains it; a fault on b stays at b.              *)
MCRadii == [r \in Resources |->
    IF r = a
      THEN {[mandatory |-> {a, b}, precautionary |-> {}, paths |-> Dependencies],
            [mandatory |-> {a}, precautionary |-> {b}, paths |-> Dependencies]}
      ELSE {[mandatory |-> {b}, precautionary |-> {}, paths |-> {}]}]

MCHardRadii == [r \in Resources |->
    {[mandatory |-> IF r = a THEN {a, b} ELSE {b}, precautionary |-> {},
      paths |-> IF r = a THEN Dependencies ELSE {}]}]

(* Behaviours that start with the whole topology registered.               *)
WholeTopologyInit == Init /\ Registered = Resources /\ edges = Dependencies
WholeTopologySpec == WholeTopologyInit /\ [][Next]_vars
=============================================================================
