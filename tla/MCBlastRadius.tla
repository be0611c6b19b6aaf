--------------------------- MODULE MCBlastRadius ---------------------------
(***************************************************************************)
(* Instances of BlastRadius: four resources and a fifth identity that a    *)
(* domain may still list after the resource has gone.  The edges form a    *)
(* chain 1-2-3-4 closed by 4-2, each link absent or in one of the shapes   *)
(* that classify_propagation tells apart, 3-4 also doubled.                *)
(***************************************************************************)
EXTENDS BlastRadius

Edge(id, from, to, kind, sufficient, conditional) ==
    [id |-> id, source |-> from, destination |-> to, kind |-> kind,
     sufficient |-> sufficient, conditional |-> conditional]

Shapes(id, from, to) ==
    {{}, {Edge(id, from, to, "propagating", TRUE, FALSE)},
     {Edge(id, from, to, "propagating", TRUE, TRUE)},
     {Edge(id, from, to, "unlisted", FALSE, FALSE)}}

Graphs ==
    {a \cup b \cup c \cup d :
        a \in Shapes(1, 1, 2) \cup {{Edge(1, 1, 2, "unlisted", TRUE, FALSE)},
                                    {Edge(1, 1, 2, "non_propagating", TRUE, FALSE),
                                     Edge(6, 1, 5, "propagating", TRUE, FALSE)}},
        b \in Shapes(2, 2, 3),
        c \in Shapes(3, 3, 4) \cup {{Edge(3, 3, 4, "propagating", FALSE, FALSE),
                                     Edge(5, 3, 4, "propagating", TRUE, FALSE)}},
        d \in {{}, {Edge(4, 4, 2, "propagating", TRUE, FALSE)}}}

Rule(propagation, uncertainty, closed, exposure, isolate) ==
    [propagation |-> propagation, uncertainty |-> uncertainty, fail_closed |-> closed,
     max_tolerated_exposure |-> exposure, action_budget |-> 2,
     isolate_isolation |-> isolate, isolate_failure |-> FALSE, co_isolate |-> isolate,
     allow_protected |-> closed, preferred |-> IF isolate THEN "FENCE_WORKER" ELSE "OBSERVE"]

Rules ==
    {Rule("HARD", u, closed, exposure, FALSE) :
        u \in {"CONTAIN_PREEMPTIVELY", "BOUNDED_EXPOSURE", "OBSERVE_ONLY"},
        closed \in BOOLEAN, exposure \in 0..1}
    \cup {Rule(p, "CONTAIN_PREEMPTIVELY", TRUE, 0, TRUE) : p \in {"HARD", "CONDITIONAL", "NONE"}}

\* Which resources are stale, contained, gone, and how the subject's domains are populated.
Situation(known, stale, contained, isolation, failure, authority) ==
    [known |-> known, stale |-> stale, contained |-> contained, isolation |-> isolation,
     failure |-> failure, authority |-> authority]

Situations ==
    {Situation(1..4, stale, {}, isolation, {}, FALSE) :
        stale \in {{}, {3}, {4}}, isolation \in {{1, 3}, {1, 4}}}
    \cup {Situation(1..4, {}, {3}, {1}, {}, FALSE), Situation(1..4, {2}, {}, {1, 3, 5}, {1, 2, 4}, FALSE),
          Situation(1..4, {}, {}, {1, 5}, {}, TRUE)}

InputOf(s, edges, rule) ==
    [subject |-> 1, known |-> s.known, edges |-> edges, authority_fault |-> s.authority,
     owner_boot |-> [r \in Resources |-> IF s.authority /\ r \in {1, 4} THEN "boot" ELSE NoOwner],
     owner_worker |-> [r \in Resources |-> IF r \in {1, 3, 4} THEN "worker" ELSE NoOwner],
     isolation |-> s.isolation, failure |-> s.failure, co_isolated |-> {1, 2},
     containment_domain |-> [r \in Resources |-> IF r <= 2 THEN 1 ELSE IF r = 3 THEN 2 ELSE 0],
     fresh |-> s.known \ s.stale, contained |-> s.contained, protected |-> {4},
     worker_bound |-> {2}, attempts |-> {3}, devices |-> {1}, rule |-> rule]

MCInputs ==
    {InputOf(s, g, rule) : s \in Situations, g \in Graphs, rule \in Rules}
    \cup {[InputOf(Situation(2..4, {}, {}, {1, 3}, {}, FALSE), {}, rule) EXCEPT !.subject = 1] :
             rule \in Rules}
    \* an authority fault on a subject known by its worker only
    \cup {[InputOf(Situation(1..4, {}, {}, {1}, {}, FALSE), {}, rule) EXCEPT !.authority_fault = TRUE] :
             rule \in Rules}

=============================================================================
