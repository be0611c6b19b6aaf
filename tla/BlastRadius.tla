---------------------------- MODULE BlastRadius ----------------------------
(***************************************************************************)
(* compute_blast_radius (src/src/blast_radius.cpp): which resources one    *)
(* fault condemns (mandatory), endangers (precautionary), leaves unproven  *)
(* (unresolved) or provably spares (unaffected).  The function runs under  *)
(* the engine's lock on an immutable input, so the only state is its own:  *)
(* the loop over the frontier and the phases after it, one action each.    *)
(*                                                                         *)
(* The input is a record.  An edge keeps what classify_propagation tells   *)
(* apart: its end points, whether the rule lists its kind as propagating,  *)
(* as non propagating or not at all, whether its evidence is FRESH and     *)
(* VERIFIED, and whether it is conditional.  POSSIBLE, LIKELY and          *)
(* CONFIRMED (the confidence label) take the same branch of the traversal  *)
(* and are one outcome here, PROPAGATES.  The text of the explanation is   *)
(* left out.                                                               *)
(***************************************************************************)
EXTENDS Naturals, FiniteSets

CONSTANTS Resources,   \* resource identities, ordered as ResourceId is
          Owners,      \* worker incarnations (boots) and logical workers
          NoOwner,     \* the invalid WorkerBootId / WorkerId
          Inputs       \* the BlastRadiusInputs the function is called with

Edges == [id: Nat, source: Resources, destination: Resources,
          kind: {"propagating", "non_propagating", "unlisted"},
          sufficient: BOOLEAN, conditional: BOOLEAN]

FaultRules == [propagation: {"HARD", "CONDITIONAL", "NONE"},
               uncertainty: {"CONTAIN_PREEMPTIVELY", "BOUNDED_EXPOSURE", "OBSERVE_ONLY"},
               fail_closed: BOOLEAN, max_tolerated_exposure: Nat, action_budget: Nat,
               isolate_isolation: BOOLEAN, isolate_failure: BOOLEAN, co_isolate: BOOLEAN,
               allow_protected: BOOLEAN, preferred: STRING]

(* Everything the function reads of topology, policy and fault.  A domain may list a
   member that is not a resource of the topology: after a restart the replayed domain
   record can be older than the removal of a member (see Catalog). *)
BlastRadiusInput ==
    [subject: Resources, known: SUBSET Resources, edges: SUBSET Edges,
     authority_fault: BOOLEAN, owner_boot: [Resources -> Owners \cup {NoOwner}],
     owner_worker: [Resources -> Owners \cup {NoOwner}],
     isolation: SUBSET Resources, failure: SUBSET Resources, co_isolated: SUBSET Resources,
     containment_domain: [Resources -> Nat],
     fresh: SUBSET Resources, contained: SUBSET Resources, protected: SUBSET Resources,
     worker_bound: SUBSET Resources, attempts: SUBSET Resources, devices: SUBSET Resources,
     rule: FaultRules]

ASSUME ResourcesAssumption == Resources \subseteq Nat /\ IsFiniteSet(Resources)
ASSUME InputsAssumption == \A in \in Inputs : in \in BlastRadiusInput

VARIABLES input,          \* chosen once
          pc,             \* the phase of the function
          mandatory,      \* mandatory_set, equal to the entries with has_inclusion
          precautionary,  \* precautionary_set
          unresolved,     \* the entries of the accumulator with has_unresolved
          visited, frontier,
          radius          \* the buckets and the selected action of the returned BlastRadius

vars == <<input, pc, mandatory, precautionary, unresolved, visited, frontier, radius>>

ActionKinds ==
    {"QUARANTINE_RESOURCE", "FENCE_RESOURCE_SET", "REVOKE_AUTHORITY", "DISABLE_ADMISSION",
     "REQUIRE_REVALIDATION", "FENCE_WORKER", "FENCE_PROCESS", "FENCE_ATTEMPT", "FENCE_DEVICE",
     "ESCALATE_CONTAINMENT", "FULL_DOMAIN_ISOLATION", "OBSERVE", "NO_ACTION_REQUIRED"}

EmptyRadius == [mandatory |-> {}, precautionary |-> {}, unresolved |-> {}, unaffected |-> {},
                recommended |-> "NO_ACTION_REQUIRED", legal |-> {}, illegal |-> {},
                hard_constraints_satisfied |-> TRUE]

-----------------------------------------------------------------------------
(* Propagation over one edge *)

rule_propagates_over(rule, kind) ==
    \/ kind = "propagating" /\ rule.propagation # "NONE"
    \/ kind = "unlisted" /\ rule.propagation = "HARD"

Conditional(in, e) == e.conditional \/ in.rule.propagation = "CONDITIONAL"

classify_propagation(in, e) ==
    IF \/ e.source = e.destination
       \/ ~rule_propagates_over(in.rule, e.kind)
    THEN "IMPOSSIBLE"
    ELSE IF e.destination \in in.contained THEN "BLOCKED"
    ELSE IF ~e.sufficient THEN "UNKNOWN"
    ELSE IF in.rule.propagation = "NONE" THEN "IMPOSSIBLE"
    ELSE "PROPAGATES"

(* outgoing_of.  An edge to a resource that has gone (a crash can separate the removal of a
   resource from that of its edges) only marks its source, which is mandatory already. *)
OutgoingOf(in, r) == {e \in in.edges : e.source = r /\ e.destination \in in.known}

HardEdges(in, r) ==
    {e \in OutgoingOf(in, r) : classify_propagation(in, e) = "PROPAGATES" /\ ~Conditional(in, e)}
ConditionalEdges(in, r) ==
    {e \in OutgoingOf(in, r) : classify_propagation(in, e) = "PROPAGATES" /\ Conditional(in, e)}
UnknownEdges(in, r) == {e \in OutgoingOf(in, r) : classify_propagation(in, e) = "UNKNOWN"}

Destinations(edges) == {e.destination : e \in edges}

\* Mutation of MarkedUnresolved: an edge with weak evidence is passed over in silence.
MarkedNothing(in, r, included) == {}

(* mark_unresolved while the edges of r are visited in identity order: it does nothing to a
   destination that was mandatory before or that an earlier edge of r has included. *)
MarkedUnresolved(in, r, included) ==
    Destinations({e \in UnknownEdges(in, r) :
                     /\ e.destination \notin included
                     /\ \A h \in HardEdges(in, r) : h.destination = e.destination => e.id < h.id})

-----------------------------------------------------------------------------
(* Mandatory inclusions from structural co-membership *)

SharedAuthority(in) ==
    IF ~in.authority_fault THEN {}
    ELSE IF in.owner_boot[in.subject] # NoOwner
         THEN {r \in in.known : in.owner_boot[r] = in.owner_boot[in.subject]}
    ELSE IF in.owner_worker[in.subject] # NoOwner
         THEN {r \in in.known : in.owner_worker[r] = in.owner_worker[in.subject]}
    ELSE {}

\* Mutation of Seeds: a domain member that left the topology is included.
SeedsUnfiltered(in) ==
    {in.subject} \cup SharedAuthority(in)
    \cup (IF in.rule.isolate_isolation THEN in.isolation ELSE {})

Seeds(in) ==
    {in.subject} \cup SharedAuthority(in)
    \cup (IF in.rule.isolate_isolation THEN in.isolation \cap in.known ELSE {})
    \cup (IF in.rule.isolate_failure THEN in.failure \cap in.known ELSE {})
    \cup (IF in.rule.co_isolate THEN in.co_isolated \cap in.known ELSE {})

-----------------------------------------------------------------------------
Init ==
    /\ input \in Inputs
    /\ pc = "start"
    /\ mandatory = {} /\ precautionary = {} /\ unresolved = {}
    /\ visited = {} /\ frontier = {}
    /\ radius = EmptyRadius

(* The subject left the topology: UNKNOWN_RESOURCE, no radius. *)
Reject ==
    /\ pc = "start"
    /\ input.subject \notin input.known
    /\ pc' = "rejected"
    /\ UNCHANGED <<input, mandatory, precautionary, unresolved, visited, frontier, radius>>

Seed ==
    /\ pc = "start"
    /\ input.subject \in input.known
    /\ mandatory' = Seeds(input)
    /\ frontier' = Seeds(input)
    /\ pc' = "traverse"
    /\ UNCHANGED <<input, precautionary, unresolved, visited, radius>>

\* Mutation of Popped: the front is read and not erased.
NotPopped(current) == frontier

Popped(current) == frontier \ {current}

\* Mutation of Follow: a new mandatory resource is not pushed on the frontier.
FollowWithoutPush(current) ==
    /\ mandatory' = mandatory \cup Destinations(HardEdges(input, current))
    /\ frontier' = Popped(current)
    /\ precautionary' = precautionary \cup Destinations(ConditionalEdges(input, current))
    /\ unresolved' = unresolved \cup MarkedUnresolved(input, current, mandatory)

(* The edges out of a resource that has not been visited: what is reached over a hard edge is
   mandatory, and pushed if it was not. *)
Follow(current) ==
    /\ LET reached == Destinations(HardEdges(input, current))
       IN  /\ mandatory' = mandatory \cup reached
           /\ frontier' = Popped(current) \cup (reached \ mandatory)
    /\ precautionary' = precautionary \cup Destinations(ConditionalEdges(input, current))
    /\ unresolved' = unresolved \cup MarkedUnresolved(input, current, mandatory)

Skip(current) ==
    /\ frontier' = Popped(current)
    /\ UNCHANGED <<mandatory, precautionary, unresolved>>

(* One turn of the fixpoint loop: the smallest identity of the frontier. *)
Visit ==
    /\ pc = "traverse"
    /\ \E current \in frontier :
        /\ \A r \in frontier : current <= r
        /\ visited' = visited \cup {current}
        /\ IF current \in visited THEN Skip(current) ELSE Follow(current)
    /\ UNCHANGED <<input, pc, radius>>

StaleMembers(in) == ((in.isolation \cup in.failure) \cap in.known) \ in.fresh

(* The frontier is empty; members of the subject's isolation and failure domains
   without fresh evidence are unresolved. *)
NoteUnresolvedMembers ==
    /\ pc = "traverse"
    /\ frontier = {}
    /\ unresolved' = unresolved \cup (StaleMembers(input) \ mandatory)
    /\ pc' = "escalate"
    /\ UNCHANGED <<input, mandatory, precautionary, visited, frontier, radius>>

\* Mutation of Escalate: the precautionary set replaces the mandatory one for both behaviours.
EscalateAsPrecaution ==
    /\ pc = "escalate"
    /\ LET applies == unresolved # {} /\ input.rule.fail_closed
                      /\ input.rule.uncertainty # "OBSERVE_ONLY"
       IN  /\ precautionary' = IF applies THEN precautionary \cup unresolved ELSE precautionary
           /\ unresolved' = IF applies THEN {} ELSE unresolved
    /\ pc' = "expose"
    /\ UNCHANGED <<input, mandatory, visited, frontier, radius>>

(* Fail-closed escalation of what is unresolved so far.  The included resources are not
   traversed. *)
Escalate ==
    /\ pc = "escalate"
    /\ LET applies(behaviour) == /\ unresolved # {}
                                 /\ input.rule.fail_closed
                                 /\ input.rule.uncertainty = behaviour
           preemptive == applies("CONTAIN_PREEMPTIVELY")
           bounded == applies("BOUNDED_EXPOSURE")
       IN  /\ mandatory' = IF preemptive THEN mandatory \cup unresolved ELSE mandatory
           /\ precautionary' = IF bounded THEN precautionary \cup unresolved ELSE precautionary
           /\ unresolved' = IF preemptive \/ bounded THEN {} ELSE unresolved
    /\ pc' = "expose"
    /\ UNCHANGED <<input, visited, frontier, radius>>

\* Mutation of LimitExposure: the limit is compared one too late.
LimitExposureLate ==
    /\ pc = "expose"
    /\ mandatory' = IF Cardinality(input.isolation \ mandatory)
                           > input.rule.max_tolerated_exposure + 1
                    THEN mandatory \cup (input.isolation \cap input.known)
                    ELSE mandatory
    /\ pc' = "classify"
    /\ UNCHANGED <<input, precautionary, unresolved, visited, frontier, radius>>

(* Too many members of the isolation domain would stay active: all of them become
   mandatory.  Members that left the topology are counted but cannot be included. *)
LimitExposure ==
    /\ pc = "expose"
    /\ mandatory' = IF Cardinality(input.isolation \ mandatory)
                           > input.rule.max_tolerated_exposure
                    THEN mandatory \cup (input.isolation \cap input.known)
                    ELSE mandatory
    /\ pc' = "classify"
    /\ UNCHANGED <<input, precautionary, unresolved, visited, frontier, radius>>

BudgetExhausted == Cardinality(mandatory) > input.rule.action_budget

\* Mutation of Classify: the precautionary bucket keeps what also became mandatory.
ClassifyTwice ==
    /\ pc = "classify"
    /\ LET open == input.known \ (mandatory \cup precautionary)
           unproven == (unresolved \cap open) \cup (open \ input.fresh)
       IN  radius' = [EmptyRadius EXCEPT
                         !.mandatory = mandatory,
                         !.precautionary = precautionary,
                         !.unresolved = unproven,
                         !.unaffected = open \ unproven,
                         !.hard_constraints_satisfied = ~BudgetExhausted]
    /\ pc' = "select"
    /\ UNCHANGED <<input, mandatory, precautionary, unresolved, visited, frontier>>

(* The unaffected set and the four buckets: a resource in no other set is unaffected when
   its own evidence is fresh and unresolved otherwise. *)
Classify ==
    /\ pc = "classify"
    /\ LET open == input.known \ (mandatory \cup precautionary)
           unproven == (unresolved \cap open) \cup (open \ input.fresh)
       IN  radius' = [EmptyRadius EXCEPT
                         !.mandatory = mandatory,
                         !.precautionary = precautionary \ mandatory,
                         !.unresolved = unproven,
                         !.unaffected = open \ unproven,
                         !.hard_constraints_satisfied = ~BudgetExhausted]
    /\ pc' = "select"
    /\ UNCHANGED <<input, mandatory, precautionary, unresolved, visited, frontier>>

-----------------------------------------------------------------------------
(* Legal and illegal action selection *)

ProtectedBlocked == mandatory \cap input.protected # {} /\ ~input.rule.allow_protected

LegalActions ==
    {"QUARANTINE_RESOURCE", "FENCE_RESOURCE_SET", "REVOKE_AUTHORITY", "DISABLE_ADMISSION",
     "REQUIRE_REVALIDATION"}
    \cup (IF mandatory \cap input.worker_bound # {} THEN {"FENCE_WORKER", "FENCE_PROCESS"} ELSE {})
    \cup (IF mandatory \cap input.attempts # {} THEN {"FENCE_ATTEMPT"} ELSE {})
    \cup (IF mandatory \cap input.devices # {} THEN {"FENCE_DEVICE"} ELSE {})
    \cup (IF radius.unresolved # {} /\ input.rule.uncertainty # "OBSERVE_ONLY"
          THEN {"ESCALATE_CONTAINMENT"} ELSE {})
    \cup (IF ProtectedBlocked THEN {"ESCALATE_CONTAINMENT", "FULL_DOMAIN_ISOLATION"} ELSE {})

\* distinct_domains > 1; 0 is the invalid ContainmentDomainId.
SpansDomains == \E r, s \in mandatory : /\ input.containment_domain[r] # 0
                                         /\ input.containment_domain[s] # 0
                                         /\ input.containment_domain[r] # input.containment_domain[s]

IllegalActions ==
    (IF ProtectedBlocked THEN {"FENCE_PROCESS", "FENCE_WORKER", "FENCE_DEVICE"}
     ELSE IF SpansDomains THEN {"FULL_DOMAIN_ISOLATION"} ELSE {})
    \cup (IF BudgetExhausted THEN {"FULL_DOMAIN_ISOLATION"} ELSE {})

\* Mutation of Recommended: the rule's preference is taken without asking if it is legal.
RecommendedUnchecked ==
    IF ProtectedBlocked THEN "ESCALATE_CONTAINMENT" ELSE input.rule.preferred

Recommended ==
    IF ProtectedBlocked THEN "ESCALATE_CONTAINMENT"
    ELSE IF input.rule.preferred \in LegalActions THEN input.rule.preferred
    ELSE "QUARANTINE_RESOURCE"

(* The subject is always mandatory, so the two branches for an empty mandatory set
   (NO_ACTION_REQUIRED and OBSERVE) cannot be taken. *)
Select ==
    /\ pc = "select"
    /\ radius' = [radius EXCEPT
                     !.legal = LegalActions,
                     !.illegal = IllegalActions,
                     !.recommended = Recommended,
                     !.hard_constraints_satisfied = @ /\ ~ProtectedBlocked]
    /\ pc' = "done"
    /\ UNCHANGED <<input, mandatory, precautionary, unresolved, visited, frontier>>

Next == \/ Reject \/ Seed \/ Visit \/ NoteUnresolvedMembers
        \/ Escalate \/ LimitExposure \/ Classify \/ Select

(* The function runs to completion in the caller's thread. *)
Spec == Init /\ [][Next]_vars /\ WF_vars(Next)

-----------------------------------------------------------------------------
TypeOK ==
    /\ input \in BlastRadiusInput
    /\ pc \in {"start", "traverse", "escalate", "expose", "classify", "select", "done", "rejected"}
    /\ mandatory \subseteq input.known
    /\ precautionary \subseteq input.known
    /\ unresolved \subseteq input.known
    /\ visited \subseteq mandatory
    /\ frontier \subseteq mandatory
    /\ radius \in [mandatory: SUBSET input.known, precautionary: SUBSET input.known,
                   unresolved: SUBSET input.known, unaffected: SUBSET input.known,
                   recommended: ActionKinds, legal: SUBSET ActionKinds,
                   illegal: SUBSET ActionKinds, hard_constraints_satisfied: BOOLEAN]

Closed(in, S) == \A r \in S : Destinations(HardEdges(in, r)) \subseteq S

Traversed == pc \notin {"start", "traverse", "rejected"}

(* The frontier loop computes the least fixpoint: what it visited contains the subject and
   its co-members, nothing propagates out of it over a hard edge, and every other such set
   contains it - whatever the cycles, diamonds and the order of identities ("smallest
   correct authoritative blast radius"). *)
RadiusIsLeast ==
    Traversed =>
        /\ Seeds(input) \subseteq visited
        /\ Closed(input, visited)
        /\ \A S \in SUBSET Resources :
               Seeds(input) \subseteq S /\ Closed(input, S) => visited \subseteq S

Doubtful == StaleMembers(input) \cup UNION {Destinations(UnknownEdges(input, r)) : r \in visited}

(* What may become mandatory after the traversal: doubtful resources under a fail-closed rule
   that contains preemptively, and the isolation domain when it is exposed too much. *)
AddedLater ==
    (IF input.rule.fail_closed /\ input.rule.uncertainty = "CONTAIN_PREEMPTIVELY"
       THEN Doubtful ELSE {})
    \cup (IF Cardinality(input.isolation \ visited) > input.rule.max_tolerated_exposure
            THEN input.isolation ELSE {})

(* A resource reported unaffected has fresh evidence of its own, and no edge leads to it from
   the contained set over which the fault propagates or may propagate, conditional edges and
   edges with weak evidence included ("no propagation path from the contained set") - but for
   the edges of members that were added after the traversal, which nothing follows. *)
UnaffectedIsSealed ==
    pc = "done" =>
        \A u \in radius.unaffected :
            /\ u \in input.fresh
            /\ \A r \in radius.mandatory :
                  \/ r \in AddedLater \ visited
                  \/ \A e \in OutgoingOf(input, r) :
                        e.destination = u =>
                            classify_propagation(input, e) \in {"IMPOSSIBLE", "BLOCKED"}

(* The four buckets divide the topology: no resource is dropped, none is in two of them, the
   subject is mandatory.  authorize_containment relies on it: it fences the mandatory bucket
   and records the precautionary one (ContainmentEngine assumes it of Radius). *)
BucketsPartition ==
    pc = "done" =>
        /\ input.subject \in radius.mandatory
        /\ input.known = radius.mandatory \cup radius.precautionary
                             \cup radius.unresolved \cup radius.unaffected
        /\ radius.mandatory \cap radius.precautionary = {}
        /\ radius.mandatory \cap (radius.unresolved \cup radius.unaffected) = {}
        /\ radius.precautionary \cap (radius.unresolved \cup radius.unaffected) = {}
        /\ radius.unresolved \cap radius.unaffected = {}

(* No more members of the subject's isolation domain than the rule tolerates stay outside
   the mandatory set (of those that still exist). *)
ExposureIsBounded ==
    pc = "done" =>
        Cardinality((input.isolation \cap input.known) \ radius.mandatory)
            <= input.rule.max_tolerated_exposure

(* Under a fail-closed rule that contains preemptively, whatever the traversed set may reach
   over an edge with weak evidence, and every member of the subject's domains without fresh
   evidence, ends up mandatory; with bounded exposure at least precautionary. *)
UnknownIsNotSafe ==
    pc = "done" /\ input.rule.fail_closed =>
        /\ input.rule.uncertainty = "CONTAIN_PREEMPTIVELY" => Doubtful \subseteq radius.mandatory
        /\ input.rule.uncertainty = "BOUNDED_EXPOSURE" =>
               Doubtful \subseteq radius.mandatory \cup radius.precautionary

(* The recommended action is on the list of legal actions and not on the list of illegal
   ones, whatever the rule prefers and whichever constraint was violated. *)
RecommendedIsLegal ==
    pc = "done" => radius.recommended \in radius.legal \ radius.illegal

(* Every evaluation returns: the frontier loop ends on every graph, cyclic ones included. *)
Terminates == <>(pc \in {"done", "rejected"})

=============================================================================
