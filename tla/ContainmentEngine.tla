-------------------------- MODULE ContainmentEngine --------------------------
(***************************************************************************)
(* The containment lifecycle of the engine (src/engine.cpp): resources and *)
(* their fencing, faults, committed containments, the actions handed to an *)
(* executor outside the state lock, verification, release, and the epoch   *)
(* advance of a coordinator restart.  Every operation runs under the       *)
(* exclusive state lock and is one action; only dispatch_containment drops *)
(* the lock in the middle and is three.                                    *)
(*                                                                         *)
(* Generations only advance and are only compared with the value copied    *)
(* into a plan, so a containment carries which of them have moved since    *)
(* its plan was made instead of the numbers: "epoch", "policy",            *)
(* "topology" (all the actions of a containment copy the same ones).       *)
(* Every change of a resource generation also advances the topology        *)
(* generation, and a fault generation advances only when the fault stops   *)
(* being current; those comparisons are subsumed.                          *)
(* Owners are left out: an owner changes only in a topology update, which  *)
(* the topology comparison already refuses, and an answer refused for its  *)
(* worker's authority is one that is not recorded.                         *)
(* The blast radius is a parameter.                                        *)
(***************************************************************************)
EXTENDS Integers, FiniteSets

CONSTANTS
    Resources,        \* resource identities
    Dependencies,     \* dependency identities ...
    From, To,         \* ... and their endpoints: [Dependencies -> Resources]
    Faults,           \* distinct observations (evidence digests)
    SubjectOf,        \* [Faults -> Resources]
    Mandatory,        \* faults whose rule says mandatory_containment
    Releasable,       \* faults whose rule says allow_release
    Radii,            \* [Resources -> set of radii]: what compute_blast_radius may return
    ActionBudget,     \* policy.max_actions_per_containment
    Dispatchers,      \* threads that may be inside dispatch_containment
    Reports,          \* what executors may report: a subset of BOOLEAN
    NamesAnyContainment, \* TRUE: a release may name any containment generation
    MaxUpdates,       \* bound: topology, ownership and evidence updates
    MaxContainments,  \* bound: containments committed
    Bindings,         \* the sets of resources one worker incarnation may be bound to
    MaxLosses,        \* bound: authority losses
    MaxRestarts,      \* bound: coordinator restarts
    MaxPolicies       \* bound: policy replacements

Gens == 1..MaxContainments
Radius == [mandatory : SUBSET Resources, precautionary : SUBSET Resources,
           paths : SUBSET Dependencies]

ASSUME GraphAssumption == /\ From \in [Dependencies -> Resources]
                          /\ To \in [Dependencies -> Resources]
ASSUME FaultAssumption == /\ SubjectOf \in [Faults -> Resources]
                          /\ Mandatory \subseteq Faults /\ Releasable \subseteq Faults
ASSUME RadiusAssumption == /\ Radii \in [Resources -> SUBSET Radius]
                           /\ \A s \in Resources : \A rad \in Radii[s] :
                                 /\ s \in rad.mandatory
                                 /\ rad.mandatory \cap rad.precautionary = {}
ASSUME BindingAssumption == Bindings \subseteq SUBSET Resources
ASSUME BoundAssumption == /\ {ActionBudget, MaxUpdates, MaxContainments, MaxLosses, MaxRestarts,
                              MaxPolicies} \subseteq Nat
                          /\ NamesAnyContainment \in BOOLEAN /\ Reports \subseteq BOOLEAN

VARIABLES
    resources,    \* state.topology.resources
    edges,        \* dependencies present, with fresh evidence
    faults,       \* state.faults
    containments, \* state.containments; generations are 1, 2, ...
    actions,      \* state.actions, by containment and target
    calls,        \* per dispatcher: the call it has in progress outside the lock
    restarts,     \* coordinator restarts so far: the epoch
    policies,     \* policy replacements so far
    updates,      \* topology, ownership and evidence updates so far
    losses        \* authority losses so far

counters == <<restarts, policies, updates, losses>>
vars == <<resources, edges, faults, containments, actions, calls, restarts, policies,
          updates, losses>>

-----------------------------------------------------------------------------
\* FENCED stands for FENCED and QUARANTINED, which no decision of the engine tells apart.
ResourceStates == {"UNKNOWN", "ACTIVE", "DRAINING", "FENCED"}
\* seized: fenced by an authority loss and not released since, kept by the model only
Resource == [registered : BOOLEAN, state : ResourceStates, quarantined : BOOLEAN, fresh : BOOLEAN,
             seized : BOOLEAN]
Unregistered == [registered |-> FALSE, state |-> "UNKNOWN", quarantined |-> FALSE, fresh |-> FALSE,
                 seized |-> FALSE]
Healthy == [Unregistered EXCEPT !.registered = TRUE, !.state = "ACTIVE", !.fresh = TRUE]

FaultStates == {"OBSERVED", "SUSPECTED", "CONFIRMED", "CONTAINMENT_REQUIRED",
                "CONTAINMENT_IN_PROGRESS", "CONTAINED", "CONTAINMENT_PARTIAL",
                "CONTAINMENT_FAILED", "REVALIDATION_REQUIRED", "CLEARED", "SUPERSEDED"}
Fault == [state : FaultStates \cup {"UNPUBLISHED"}, containment : 0..MaxContainments]

Generations == {"epoch", "policy", "topology"}
ContainmentStates == {"COMMITTED", "ENFORCING", "VERIFIED_CONTAINED", "PARTIAL", "FAILED", "RELEASED"}
Outcomes == {"CONTAINED", "PARTIALLY_CONTAINED", "NOT_CONTAINED", "CONTAINMENT_BREACHED",
             "SECONDARY_FAILURE_CREATED", "DEGRADED_MODE_INVALID", "OUTCOME_UNKNOWN"}
Containment == [fault : Faults, status : ContainmentStates, mandatory : SUBSET Resources,
                precautionary : SUBSET Resources, paths : SUBSET Dependencies,
                since : SUBSET Faults,  \* faults on it first seen no earlier than the commit
                outcome : Outcomes \cup {"UNVERIFIED"}, moved : SUBSET Generations]
NoContainment == [status |-> "NONE"]

ActionStates == {"PLANNED", "AUTHORIZED", "DISPATCHED", "REJECTED_INFEASIBLE", "ACKNOWLEDGED",
                 "RESULT_RECORDED", "AMBIGUOUS", "SUPERSEDED"}
\* success: what the executor reported, kept by the model only
Action == [status : ActionStates, success : BOOLEAN]
NoAction == [status |-> "NONE"]

Call == [containment : Gens, todo : SUBSET Resources, sent : SUBSET Resources,
         refused : SUBSET Resources]
Idle == [containment |-> 0]


-----------------------------------------------------------------------------
(* is_legal_fault_transition *)
Successors == [
    UNPUBLISHED             |-> {},
    OBSERVED                |-> {"SUSPECTED", "CONFIRMED", "CONTAINMENT_REQUIRED", "SUPERSEDED",
                                 "CLEARED", "REVALIDATION_REQUIRED"},
    SUSPECTED               |-> {"CONFIRMED", "CONTAINMENT_REQUIRED", "CLEARED", "SUPERSEDED",
                                 "REVALIDATION_REQUIRED"},
    CONFIRMED               |-> {"CONTAINMENT_REQUIRED", "CONTAINMENT_IN_PROGRESS", "CLEARED",
                                 "SUPERSEDED", "REVALIDATION_REQUIRED"},
    CONTAINMENT_REQUIRED    |-> {"CONTAINMENT_IN_PROGRESS", "CONTAINED", "CONTAINMENT_PARTIAL",
                                 "CONTAINMENT_FAILED", "REVALIDATION_REQUIRED", "SUPERSEDED"},
    CONTAINMENT_IN_PROGRESS |-> {"CONTAINED", "CONTAINMENT_PARTIAL", "CONTAINMENT_FAILED",
                                 "REVALIDATION_REQUIRED", "SUPERSEDED"},
    CONTAINED               |-> {"CONTAINMENT_PARTIAL", "CONTAINMENT_FAILED",
                                 "REVALIDATION_REQUIRED", "CLEARED", "SUPERSEDED"},
    CONTAINMENT_PARTIAL     |-> {"CONTAINED", "CONTAINMENT_FAILED", "CONTAINMENT_IN_PROGRESS",
                                 "REVALIDATION_REQUIRED", "SUPERSEDED"},
    CONTAINMENT_FAILED      |-> {"CONTAINMENT_IN_PROGRESS", "CONTAINMENT_REQUIRED",
                                 "REVALIDATION_REQUIRED", "SUPERSEDED"},
    REVALIDATION_REQUIRED   |-> {"CONFIRMED", "CONTAINMENT_REQUIRED", "CONTAINED", "CLEARED",
                                 "SUPERSEDED"},
    CLEARED                 |-> {"SUPERSEDED"},
    SUPERSEDED              |-> {} ]

Legal(from, to) == from = to \/ to \in Successors[from]
Current(f) == faults[f].state \notin {"UNPUBLISHED", "CLEARED", "SUPERSEDED"}
Moved(f, to) == IF Legal(faults[f].state, to) THEN [faults EXCEPT ![f].state = to] ELSE faults

Registered == {r \in Resources : resources[r].registered}
Committed == {g \in Gens : containments[g].status # "NONE"}
IsLive(c) == c.status \notin {"NONE", "RELEASED"}
Live == {g \in Gens : IsLive(containments[g])}
IsNextGen(g) == g \in Gens \ Committed /\ 1..(g - 1) \subseteq Committed

IsContained(rec) == rec.state = "FENCED" \/ rec.quarantined        \* resource_is_contained
IsOperable(rec) == rec.state \in {"ACTIVE", "DRAINING"}            \* is_operable

(* Advancing a generation outdates every plan made before.                 *)
OutdatedBy(what) ==
    [g \in Gens |-> IF g \in Committed
                      THEN [containments[g] EXCEPT !.moved = @ \cup {what}]
                      ELSE containments[g]]

-----------------------------------------------------------------------------
(* Any topology of healthy resources, before the first fault.              *)
Init ==
    /\ resources \in [Resources -> {Healthy, Unregistered}]
    /\ edges \in SUBSET {d \in Dependencies : {From[d], To[d]} \subseteq Registered}
    /\ faults = [f \in Faults |-> [state |-> "UNPUBLISHED", containment |-> 0]]
    /\ containments = [g \in Gens |-> NoContainment]
    /\ actions = [g \in Gens |-> [r \in Resources |-> NoAction]]
    /\ calls = [d \in Dispatchers |-> Idle]
    /\ restarts = 0 /\ policies = 0 /\ updates = 0 /\ losses = 0

(* --- Topology and evidence --------------------------------------------- *)

(* What every update of the topology does to the plans made before it.     *)
TopologyMoves ==
    /\ updates < MaxUpdates /\ updates' = updates + 1
    /\ containments' = OutdatedBy("topology")
    /\ UNCHANGED losses

(* register_resource, as the coordinator's register-resource command calls it. *)
RegisterResource(r) ==
    /\ r \notin Registered
    /\ resources' = [resources EXCEPT ![r] = [Unregistered EXCEPT !.registered = TRUE]]
    /\ TopologyMoves
    /\ UNCHANGED <<edges, faults, actions, calls, restarts, policies>>

(* remove_resource: refused for a mandatory member of a live containment;  *)
(* takes the dependencies that touch the resource with it.                 *)
RemoveResource(r) ==
    /\ r \in Registered
    /\ \A g \in Live : r \notin containments[g].mandatory
    /\ resources' = [resources EXCEPT ![r] = Unregistered]
    /\ edges' = {d \in edges : From[d] # r /\ To[d] # r}
    /\ TopologyMoves
    /\ UNCHANGED <<faults, actions, calls, restarts, policies>>

(* update_resource, as set-resource-owner calls it: the record comes back  *)
(* ACTIVE and FRESH, the quarantine flag as it was read.  Reading the      *)
(* record and writing it back is one step: update_resource refuses a       *)
(* record whose generation is no longer the expected one.                  *)
SetResourceOwner(r) ==
    /\ r \in Registered
    /\ resources' = [resources EXCEPT ![r].state = "ACTIVE", ![r].fresh = TRUE]
    /\ TopologyMoves
    /\ UNCHANGED <<edges, faults, actions, calls, restarts, policies>>

(* publish_resource_evidence: fresh or withdrawn evidence.  It never lifts *)
(* a quarantine; an UNKNOWN resource outside quarantine becomes ACTIVE.    *)
PublishEvidence(r, fresh) ==
    /\ r \in Registered
    /\ resources' = [resources EXCEPT
          ![r].fresh = fresh,
          ![r].state = IF fresh /\ @ = "UNKNOWN" /\ ~resources[r].quarantined
                         THEN "ACTIVE" ELSE @]
    /\ TopologyMoves
    /\ UNCHANGED <<edges, faults, actions, calls, restarts, policies>>

(* register_dependency and remove_dependency *)
RegisterDependency(d) ==
    /\ d \notin edges /\ {From[d], To[d]} \subseteq Registered
    /\ edges' = edges \cup {d}
    /\ TopologyMoves
    /\ UNCHANGED <<resources, faults, actions, calls, restarts, policies>>

RemoveDependency(d) ==
    /\ d \in edges
    /\ edges' = edges \ {d}
    /\ TopologyMoves
    /\ UNCHANGED <<resources, faults, actions, calls, restarts, policies>>

(* worker_authority_lost, its first critical section: the resources bound  *)
(* to the lost incarnation are fenced and quarantined on the spot.  Its    *)
(* fault and its containment follow as separate calls (PublishFault,       *)
(* AuthorizeContainment), which may be refused; nothing is undone then.    *)
AuthorityLost(bound) ==
    /\ bound # {} /\ bound \subseteq Registered
    /\ losses < MaxLosses /\ losses' = losses + 1
    /\ resources' = [r \in Resources |->
          IF r \in bound
            THEN [resources[r] EXCEPT !.state = "FENCED", !.quarantined = TRUE, !.fresh = FALSE,
                                      !.seized = TRUE]
            ELSE resources[r]]
    /\ containments' = OutdatedBy("topology")
    /\ UNCHANGED <<edges, faults, actions, calls, restarts, policies, updates>>

(* set_policy: the rules of Mandatory and Releasable are kept, the policy  *)
(* generation advances.                                                    *)
SetPolicy ==
    /\ policies < MaxPolicies
    /\ policies' = policies + 1
    /\ containments' = OutdatedBy("policy")
    /\ UNCHANGED <<resources, edges, faults, actions, calls, restarts, updates, losses>>

(* --- Faults ------------------------------------------------------------ *)

(* The containments a new fault would count against, as a secondary one.   *)
Concerned(f) == {g \in Live : SubjectOf[f] \in containments[g].mandatory}

(* publish_fault: an identical observation is a duplicate and changes no   *)
(* decision; a new one needs a registered subject.                         *)
PublishFault(f) ==
    /\ faults[f].state = "UNPUBLISHED"
    /\ SubjectOf[f] \in Registered
    /\ faults' = [faults EXCEPT ![f].state =
                     IF f \in Mandatory THEN "CONTAINMENT_REQUIRED" ELSE "OBSERVED"]
    /\ containments' = [g \in Gens |->
          IF g \in Concerned(f)
            THEN [containments[g] EXCEPT !.since = @ \cup {f}]
            ELSE containments[g]]
    /\ UNCHANGED <<resources, edges, actions, calls, counters>>

(* supersede_fault: whatever containment the fault has is left as it is.   *)
SupersedeFault(f) ==
    /\ Current(f) /\ Legal(faults[f].state, "SUPERSEDED")
    /\ faults' = [faults EXCEPT ![f].state = "SUPERSEDED"]
    /\ UNCHANGED <<resources, edges, containments, actions, calls, counters>>

(* --- Authorization ----------------------------------------------------- *)

(* Mutation of HasLiveContainment: only an unverified containment counts.  *)
HasCommittedContainment(f) ==
    faults[f].containment # 0 /\ containments[faults[f].containment].status = "COMMITTED"

HasLiveContainment(f) ==
    faults[f].containment # 0 /\ IsLive(containments[faults[f].containment])

CanAuthorize(f) ==
    /\ Current(f) /\ ~HasLiveContainment(f)
    /\ SubjectOf[f] \in Registered
    /\ Legal(faults[f].state, "CONTAINMENT_IN_PROGRESS")

(* The radius is fenced and quarantined, its precautionary part drained.   *)
Fenced(mandatory, precautionary) ==
    [r \in Resources |->
        IF r \in mandatory
          THEN [resources[r] EXCEPT !.state = "FENCED", !.quarantined = TRUE]
        ELSE IF r \in precautionary /\ IsOperable(resources[r])
          THEN [resources[r] EXCEPT !.state = "DRAINING"]
        ELSE resources[r]]

(* authorize_containment: commits the radius and plans one action per      *)
(* mandatory resource, up to the action budget.  committed_at_ms and       *)
(* first_seen_ms have millisecond resolution: faults already known may or  *)
(* may not share the commit's millisecond.  Only faults on what the        *)
(* containment requires are ever compared with it.                         *)
AuthorizeContainment(f) ==
    /\ CanAuthorize(f)
    /\ \E gen \in Gens, rad \in Radii[SubjectOf[f]] :
       LET mandatory == rad.mandatory \cap Registered
           precautionary == rad.precautionary \cap Registered
           known == {q \in Faults \ {f} : /\ faults[q].state # "UNPUBLISHED"
                                          /\ SubjectOf[q] \in mandatory}
       IN \E targets \in SUBSET mandatory, tied \in SUBSET known :
          /\ IsNextGen(gen)
          /\ Cardinality(targets) = IF Cardinality(mandatory) < ActionBudget
                                      THEN Cardinality(mandatory) ELSE ActionBudget
          /\ resources' = Fenced(mandatory, precautionary)
          /\ containments' = [OutdatedBy("topology") EXCEPT ![gen] =
                [fault |-> f, status |-> "COMMITTED", mandatory |-> mandatory,
                 precautionary |-> precautionary, paths |-> rad.paths \cap edges,
                 since |-> tied, outcome |-> "UNVERIFIED", moved |-> {}]]
          /\ actions' = [actions EXCEPT ![gen] =
                [r \in Resources |->
                    IF r \in targets
                      THEN [status |-> "PLANNED", success |-> FALSE]
                      ELSE NoAction]]
          /\ faults' = [faults EXCEPT ![f] =
                [state |-> "CONTAINMENT_IN_PROGRESS", containment |-> gen]]
    /\ UNCHANGED <<edges, calls, counters>>

(* --- Dispatch, acknowledgment, result ----------------------------------- *)

Targets(g) == {r \in Resources : actions[g][r].status # "NONE"}
InStates(g, states) == {r \in Targets(g) : actions[g][r].status \in states}
SetStatus(acts, g, targets, status) ==
    [acts EXCEPT ![g] = [r \in Resources |->
        IF r \in targets THEN [acts[g][r] EXCEPT !.status = status] ELSE acts[g][r]]]

(* Mutation of Revalidated: the pinned generations are not compared.       *)
RevalidatedUnpinned(g, r) == r \in Registered /\ Current(containments[g].fault)

(* revalidate_action *)
Revalidated(g, r) ==
    /\ containments[g].moved = {}
    /\ r \in Registered
    /\ Current(containments[g].fault)

(* dispatch_containment, under the lock: each pending action is either     *)
(* authorised or superseded for good; then the lock is released.           *)
BeginDispatch(d, g) ==
    /\ calls[d].containment = 0 /\ g \in Live
    /\ LET pending == InStates(g, {"PLANNED", "AUTHORIZED"})
           valid == {r \in pending : Revalidated(g, r)}
       IN /\ actions' = SetStatus(SetStatus(actions, g, pending \ valid, "SUPERSEDED"),
                                  g, valid, "AUTHORIZED")
          /\ calls' = [calls EXCEPT ![d] = [containment |-> g, todo |-> valid,
                                            sent |-> {}, refused |-> {}]]
    /\ UNCHANGED <<resources, edges, faults, containments, counters>>

(* The executor is handed one action with no lock held; it accepts or      *)
(* refuses it.                                                             *)
HandToExecutor(d, r) ==
    /\ calls[d].containment # 0 /\ r \in calls[d].todo
    /\ LET handed == [calls[d] EXCEPT !.todo = @ \ {r}]
       IN \/ calls' = [calls EXCEPT ![d] = [handed EXCEPT !.sent = @ \cup {r}]]
          \/ calls' = [calls EXCEPT ![d] = [handed EXCEPT !.refused = @ \cup {r}]]
    /\ UNCHANGED <<resources, edges, faults, containments, actions, counters>>

(* Mutation of FinishDispatch: the answer is applied whatever the action   *)
(* has become meanwhile.                                                   *)
FinishDispatchUnchecked(d) ==
    /\ calls[d].containment # 0 /\ calls[d].todo = {}
    /\ LET g == calls[d].containment
       IN actions' = SetStatus(SetStatus(actions, g, calls[d].sent, "DISPATCHED"),
                               g, calls[d].refused, "REJECTED_INFEASIBLE")
    /\ calls' = [calls EXCEPT ![d] = Idle]
    /\ UNCHANGED <<resources, edges, faults, containments, counters>>

(* Mutation of FinishDispatch: a refusal of the executor is not recorded.  *)
FinishDispatchAccepted(d) ==
    /\ calls[d].containment # 0 /\ calls[d].todo = {}
    /\ LET g == calls[d].containment
       IN actions' = SetStatus(actions, g, InStates(g, {"AUTHORIZED"}) \cap calls[d].sent,
                               "DISPATCHED")
    /\ calls' = [calls EXCEPT ![d] = Idle]
    /\ UNCHANGED <<resources, edges, faults, containments, counters>>

(* dispatch_containment, under the lock again: what is still AUTHORIZED    *)
(* takes the executor's answer.                                            *)
FinishDispatch(d) ==
    /\ calls[d].containment # 0 /\ calls[d].todo = {}
    /\ LET g == calls[d].containment
           open == InStates(g, {"AUTHORIZED"})
       IN actions' = SetStatus(SetStatus(actions, g, open \cap calls[d].sent, "DISPATCHED"),
                               g, open \cap calls[d].refused, "REJECTED_INFEASIBLE")
    /\ calls' = [calls EXCEPT ![d] = Idle]
    /\ UNCHANGED <<resources, edges, faults, containments, counters>>

(* record_action_ack: only a dispatched action; duplicates change nothing. *)
(* An answer that quotes an older epoch is refused: its action is AMBIGUOUS*)
(* by then.                                                                *)
RecordActionAck(g, r) ==
    /\ r \in InStates(g, {"DISPATCHED"})
    /\ actions' = SetStatus(actions, g, {r}, "ACKNOWLEDGED")
    /\ UNCHANGED <<resources, edges, faults, containments, calls, counters>>

(* record_action_result: success and failure are recorded alike; success   *)
(* advances the generations of a target that is still registered.          *)
RecordActionResult(g, r, success) ==
    /\ r \in InStates(g, {"DISPATCHED", "ACKNOWLEDGED"})
    /\ actions' = [actions EXCEPT ![g][r].status = "RESULT_RECORDED", ![g][r].success = success]
    /\ containments' = IF success /\ r \in Registered THEN OutdatedBy("topology")
                       ELSE containments
    /\ UNCHANGED <<resources, edges, faults, calls, counters>>

(* --- Verification ------------------------------------------------------- *)

(* assess_degraded_mode without a contract: what work may use and may not. *)
Permitted == {r \in Registered : /\ resources[r].fresh /\ ~IsContained(resources[r])
                                 /\ IsOperable(resources[r])}
Prohibited ==
    {r \in Registered : IsContained(resources[r])}
      \cup UNION {containments[g].mandatory \cup containments[g].precautionary : g \in Live}

PropagationContinued(g) ==
    \E d \in containments[g].paths \cap edges :
        To[d] \in Registered /\ ~IsContained(resources[To[d]])

SecondaryFailure(g) ==
    \E f \in containments[g].since \ {containments[g].fault} :
        Current(f) /\ SubjectOf[f] \in containments[g].mandatory

(* Mutation of AllEvidenced: an acknowledgment counts as evidence.         *)
AllAcknowledged(g) == InStates(g, {"ACKNOWLEDGED", "RESULT_RECORDED"}) = Targets(g)

AllEvidenced(g) == InStates(g, {"RESULT_RECORDED"}) = Targets(g)

ProvenContained(g) ==
    {r \in containments[g].mandatory \cap Registered :
        resources[r].state = "FENCED" /\ resources[r].quarantined}

Outcome(g) ==
    IF containments[g].moved \cap {"epoch", "policy"} # {} THEN "OUTCOME_UNKNOWN"
    ELSE IF SecondaryFailure(g) THEN "SECONDARY_FAILURE_CREATED"
    ELSE IF Permitted \cap Prohibited # {} THEN "DEGRADED_MODE_INVALID"
    ELSE IF PropagationContinued(g) THEN "CONTAINMENT_BREACHED"
    ELSE IF ~AllEvidenced(g) THEN "OUTCOME_UNKNOWN"
    ELSE IF ProvenContained(g) = containments[g].mandatory THEN "CONTAINED"
    ELSE IF ProvenContained(g) = {} THEN "NOT_CONTAINED"
    ELSE "PARTIALLY_CONTAINED"

(* Mutation of StatusFor: the outcome's own name is stored as the status.  *)
StatusIsOutcome == [o \in Outcomes |-> o]

StatusFor == [
    CONTAINED                 |-> "VERIFIED_CONTAINED",
    PARTIALLY_CONTAINED       |-> "PARTIAL",
    NOT_CONTAINED             |-> "FAILED",
    CONTAINMENT_BREACHED      |-> "FAILED",
    SECONDARY_FAILURE_CREATED |-> "FAILED",
    DEGRADED_MODE_INVALID     |-> "ENFORCING",
    OUTCOME_UNKNOWN           |-> "ENFORCING" ]

FaultStateFor == [
    CONTAINED                 |-> "CONTAINED",
    PARTIALLY_CONTAINED       |-> "CONTAINMENT_PARTIAL",
    NOT_CONTAINED             |-> "CONTAINMENT_FAILED",
    CONTAINMENT_BREACHED      |-> "CONTAINMENT_FAILED",
    SECONDARY_FAILURE_CREATED |-> "CONTAINMENT_FAILED",
    DEGRADED_MODE_INVALID     |-> "CONTAINED",
    OUTCOME_UNKNOWN           |-> "REVALIDATION_REQUIRED" ]

(* verify_containment *)
VerifyContainment(g) ==
    /\ g \in Live
    /\ containments' = [containments EXCEPT ![g].outcome = Outcome(g),
                                            ![g].status = StatusFor[Outcome(g)]]
    /\ faults' = Moved(containments[g].fault, FaultStateFor[Outcome(g)])
    /\ UNCHANGED <<resources, edges, actions, calls, counters>>

(* --- Release ------------------------------------------------------------ *)

(* The containment a release is judged against: a live one that covers the *)
(* resource (the first such one, or the one the request names); a request  *)
(* that names a generation may also name one that covers nothing of it.    *)
Covering(r) == {g \in Live : r \in containments[g].mandatory \cup containments[g].precautionary}
JudgedBy(r, g) == g \in Covering(r) \/ (NamesAnyContainment /\ g \in Committed)

(* Mutation of ReleaseGranted: overlapping containments are not consulted. *)
ReleaseGrantedAlone(r, g) ==
    /\ r \in Registered
    /\ containments[g].outcome = "CONTAINED"
    /\ resources[r].fresh
    /\ containments[g].fault \in Releasable

(* assess_release *)
ReleaseGranted(r, g) ==
    /\ r \in Registered
    /\ containments[g].outcome = "CONTAINED"
    /\ resources[r].fresh
    /\ containments[g].fault \in Releasable
    /\ \A h \in Live \ {g} : r \notin containments[h].mandatory

(* Mutation of AuthorizeRelease: the first release clears the fault.       *)
ReleaseClearsEarly(r, g) ==
    /\ g \in Committed /\ JudgedBy(r, g) /\ ReleaseGranted(r, g)
    /\ LET left == containments[g].mandatory \ {r}
       IN containments' = [OutdatedBy("topology") EXCEPT
             ![g].mandatory = left,
             ![g].precautionary = @ \ {r},
             ![g].status = IF left = {} THEN "RELEASED" ELSE @]
    /\ faults' = Moved(containments[g].fault, "CLEARED")
    /\ resources' = [resources EXCEPT ![r].state = "ACTIVE", ![r].quarantined = FALSE,
                                      ![r].seized = FALSE]
    /\ UNCHANGED <<edges, actions, calls, counters>>

(* authorize_release: the resource is ACTIVE again; when the last mandatory*)
(* member leaves, the containment is RELEASED and its fault CLEARED.       *)
AuthorizeRelease(r, g) ==
    /\ g \in Committed /\ JudgedBy(r, g) /\ ReleaseGranted(r, g)
    /\ LET left == containments[g].mandatory \ {r}
       IN /\ containments' = [OutdatedBy("topology") EXCEPT
                ![g].mandatory = left,
                ![g].precautionary = @ \ {r},
                ![g].status = IF left = {} THEN "RELEASED" ELSE @]
          /\ faults' = IF left = {} THEN Moved(containments[g].fault, "CLEARED") ELSE faults
    /\ resources' = [resources EXCEPT ![r].state = "ACTIVE", ![r].quarantined = FALSE,
                                      ![r].seized = FALSE]
    /\ UNCHANGED <<edges, actions, calls, counters>>

(* --- Restart ------------------------------------------------------------ *)

(* Mutation of Restart: an action that was only AUTHORIZED keeps its state.*)
RestartKeepsAuthorized ==
    /\ restarts < MaxRestarts
    /\ restarts' = restarts + 1
    /\ calls' = [d \in Dispatchers |-> Idle]
    /\ containments' = OutdatedBy("epoch")
    /\ resources' = [r \in Resources |-> [resources[r] EXCEPT !.fresh = FALSE]]
    /\ actions' = [g \in Gens |-> [r \in Resources |->
          IF r \in InStates(g, {"DISPATCHED", "ACKNOWLEDGED"})
            THEN [actions[g][r] EXCEPT !.status = "AMBIGUOUS"]
            ELSE actions[g][r]]]
    /\ UNCHANGED <<edges, faults, policies, updates, losses>>

(* The process dies with its dispatch calls; recover_from_store rebuilds   *)
(* the state and begin_epoch advances the epoch, withdraws every resource's*)
(* freshness and makes actions in flight AMBIGUOUS.                        *)
Restart ==
    /\ restarts < MaxRestarts
    /\ restarts' = restarts + 1
    /\ calls' = [d \in Dispatchers |-> Idle]
    /\ containments' = OutdatedBy("epoch")
    /\ resources' = [r \in Resources |-> [resources[r] EXCEPT !.fresh = FALSE]]
    /\ actions' = [g \in Gens |-> [r \in Resources |->
          IF r \in InStates(g, {"AUTHORIZED", "DISPATCHED", "ACKNOWLEDGED"})
            THEN [actions[g][r] EXCEPT !.status = "AMBIGUOUS"]
            ELSE actions[g][r]]]
    /\ UNCHANGED <<edges, faults, policies, updates, losses>>

TopologyNext ==
    \/ \E r \in Resources : RegisterResource(r) \/ RemoveResource(r) \/ SetResourceOwner(r)
    \/ \E r \in Resources, fresh \in BOOLEAN : PublishEvidence(r, fresh)
    \/ \E d \in Dependencies : RegisterDependency(d) \/ RemoveDependency(d)
    \/ \E bound \in Bindings : AuthorityLost(bound)
    \/ SetPolicy

FaultNext == \E f \in Faults : PublishFault(f) \/ SupersedeFault(f) \/ AuthorizeContainment(f)

DispatchNext ==
    \/ \E d \in Dispatchers : \/ \E g \in Gens : BeginDispatch(d, g)
                              \/ \E r \in Resources : HandToExecutor(d, r)
                              \/ FinishDispatch(d)
    \/ \E g \in Gens, r \in Resources :
          \/ RecordActionAck(g, r)
          \/ \E success \in Reports : RecordActionResult(g, r, success)

Next ==
    \/ TopologyNext \/ FaultNext \/ DispatchNext \/ Restart
    \/ \E g \in Gens : VerifyContainment(g)
    \/ \E g \in Gens, r \in Resources : AuthorizeRelease(r, g)

Spec == Init /\ [][Next]_vars

(* A dispatch call goes on: the executor answers and the call returns.     *)
FairSpec ==
    /\ Spec
    /\ \A d \in Dispatchers : /\ WF_vars(\E r \in Resources : HandToExecutor(d, r))
                              /\ WF_vars(FinishDispatch(d))

-----------------------------------------------------------------------------
(* Type correctness of the engine's state and of the calls in progress.    *)
TypeOK ==
    /\ resources \in [Resources -> Resource]
    /\ edges \subseteq Dependencies
    /\ faults \in [Faults -> Fault]
    /\ containments \in [Gens -> Containment \cup {NoContainment}]
    /\ actions \in [Gens -> [Resources -> Action \cup {NoAction}]]
    /\ calls \in [Dispatchers -> Call \cup {Idle}]
    /\ restarts \in Nat /\ policies \in Nat /\ updates \in Nat /\ losses \in Nat

(* Quarantine and containment agree, over every interleaving of overlapping*)
(* containments, authority losses, releases, evidence, removals and        *)
(* restarts: a resource is quarantined exactly while a live containment    *)
(* requires it fenced or an authority loss has seized it, and only an      *)
(* explicit release or its removal ends that (engine.cpp: "a contained     *)
(* resource stays contained until an explicit release is authorised").     *)
QuarantineMatchesContainments ==
    \A r \in Resources :
        resources[r].quarantined <=>
            \/ resources[r].seized
            \/ \E g \in Live : r \in containments[g].mandatory

(* A fault is never contained twice at once, however often it is           *)
(* re-authorised after a failed or released containment.                   *)
OneLiveContainmentPerFault ==
    \A g, h \in Live : containments[g].fault = containments[h].fault => g = h

(* "ACKNOWLEDGED is not CONTAINED" (verification.hpp): a containment that  *)
(* was verified CONTAINED, or released on that verdict, has a recorded     *)
(* result for every action it planned, and keeps it.                       *)
ContainedIsEvidenced ==
    \A g \in Committed :
        containments[g].outcome = "CONTAINED" \/ containments[g].status = "RELEASED"
            => InStates(g, {"RESULT_RECORDED"}) = Targets(g)

(* A cleared fault has no live containment left: nothing still fenced for  *)
(* it is forgotten.                                                        *)
ClearedIsReleased ==
    \A g \in Live : faults[containments[g].fault].state # "CLEARED"

(* An AUTHORIZED action is in the hands of a dispatch call that will       *)
(* settle it; none is left behind by a call that returned or by a restart. *)
AuthorizedIsInHand ==
    \A g \in Gens : \A r \in InStates(g, {"AUTHORIZED"}) :
        \E d \in Dispatchers :
            calls[d].containment = g /\ r \in calls[d].todo \cup calls[d].sent \cup calls[d].refused

(* What an executor handed over in this step: the actions newly sent.      *)
HandedOver(d) ==
    IF calls[d].containment = 0 \/ calls'[d].containment = 0 THEN {}
    ELSE calls'[d].sent \ calls[d].sent

(* In-flight actions "are never blindly redispatched" after a restart      *)
(* (README, Stale authority): nothing planned in an earlier epoch reaches  *)
(* an executor, and an AMBIGUOUS, refused or superseded action stays so.   *)
NeverRedispatched ==
    [][/\ \A d \in Dispatchers : HandedOver(d) # {} =>
             "epoch" \notin containments[calls[d].containment].moved
       /\ \A g \in Gens, r \in Resources :
             actions[g][r].status \in {"AMBIGUOUS", "SUPERSEDED", "REJECTED_INFEASIBLE"}
                => actions'[g][r] = actions[g][r]]_vars

(* Every AUTHORIZED action is settled eventually, whatever other callers   *)
(* dispatch the same containment meanwhile.                                *)
DispatchSettles ==
    \A g \in Gens, r \in Resources :
        actions[g][r].status = "AUTHORIZED" ~> actions[g][r].status # "AUTHORIZED"

=============================================================================
