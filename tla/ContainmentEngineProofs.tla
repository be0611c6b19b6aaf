----------------------- MODULE ContainmentEngineProofs -----------------------
(***************************************************************************)
(* Theorems about ContainmentEngine, for every topology, set of faults,    *)
(* set of dispatchers, blast radius and bound.                             *)
(***************************************************************************)
EXTENDS ContainmentEngine, TLAPS

(* What a step that only outdates plans leaves of the containments.        *)
OnlyOutdated ==
    /\ containments' \in [Gens -> Containment \cup {NoContainment}]
    /\ \A g \in Gens :
          /\ containments'[g].status = containments[g].status
          /\ g \in Committed =>
                /\ containments'[g].fault = containments[g].fault
                /\ containments'[g].mandatory = containments[g].mandatory
                /\ containments'[g].outcome = containments[g].outcome
                /\ containments[g].moved \subseteq containments'[g].moved

(* A generation is committed exactly when it holds a containment record.   *)
LEMMA CommittedType ==
    ASSUME TypeOK
    PROVE  /\ \A g \in Committed : g \in Gens /\ containments[g] \in Containment
           /\ \A g \in Gens \ Committed : containments[g] = NoContainment
           /\ Live \subseteq Committed
BY DEF TypeOK, Committed, Live, IsLive, Containment, ContainmentStates, NoContainment

LEMMA OutdatedType ==
    ASSUME TypeOK, NEW what \in Generations
    PROVE  /\ OutdatedBy(what) \in [Gens -> Containment \cup {NoContainment}]
           /\ \A g \in Gens :
                 /\ OutdatedBy(what)[g].status = containments[g].status
                 /\ g \in Committed =>
                       /\ OutdatedBy(what)[g] \in Containment
                       /\ OutdatedBy(what)[g].fault = containments[g].fault
                       /\ OutdatedBy(what)[g].mandatory = containments[g].mandatory
                       /\ OutdatedBy(what)[g].precautionary = containments[g].precautionary
                       /\ OutdatedBy(what)[g].outcome = containments[g].outcome
                       /\ OutdatedBy(what)[g].moved = containments[g].moved \cup {what}
<1> DEFINE new(g) == [containments[g] EXCEPT !.moved = @ \cup {what}]
<1>1. ASSUME NEW g \in Committed
      PROVE  /\ new(g) \in Containment /\ new(g).status = containments[g].status
             /\ new(g).fault = containments[g].fault
             /\ new(g).mandatory = containments[g].mandatory
             /\ new(g).precautionary = containments[g].precautionary
             /\ new(g).outcome = containments[g].outcome
             /\ new(g).moved = containments[g].moved \cup {what}
  <2>1. containments[g] \in Containment
    BY CommittedType
  <2> QED BY <2>1 DEF Containment
<1> HIDE DEF new
<1>2. \A g \in Gens : OutdatedBy(what)[g] = IF g \in Committed THEN new(g) ELSE containments[g]
  BY DEF OutdatedBy, new
<1>3. OutdatedBy(what) \in [Gens -> Containment \cup {NoContainment}]
  <2>1. OutdatedBy(what) = [g \in Gens |-> IF g \in Committed THEN new(g) ELSE containments[g]]
    BY DEF OutdatedBy, new
  <2> QED BY <1>1, <2>1 DEF TypeOK
<1> QED BY <1>1, <1>2, <1>3

(* A fault moves to a state or stays where it is.                          *)
LEMMA MovedType ==
    ASSUME TypeOK, NEW f \in Faults, NEW to \in FaultStates
    PROVE  /\ Moved(f, to) \in [Faults -> Fault]
           /\ \A q \in Faults : /\ Moved(f, to)[q].containment = faults[q].containment
                                /\ Moved(f, to)[q].state \in {faults[q].state, to}
                                /\ q # f => Moved(f, to)[q].state = faults[q].state
BY DEF Moved, TypeOK, Fault

(* The verdict of verify_containment is one of the outcomes, and keeps the *)
(* containment live.                                                       *)
LEMMA OutcomeType ==
    ASSUME NEW g
    PROVE  /\ Outcome(g) \in Outcomes
           /\ StatusFor[Outcome(g)] \in ContainmentStates \ {"RELEASED"}
           /\ FaultStateFor[Outcome(g)] \in FaultStates \ {"CLEARED"}
           /\ Outcome(g) = "CONTAINED" => AllEvidenced(g)
<1>1. Outcome(g) \in Outcomes /\ (Outcome(g) = "CONTAINED" => AllEvidenced(g))
  BY DEF Outcome, Outcomes
<1>2. \A o \in Outcomes : /\ StatusFor[o] \in ContainmentStates \ {"RELEASED"}
                          /\ FaultStateFor[o] \in FaultStates \ {"CLEARED"}
  BY DEF Outcomes, StatusFor, FaultStateFor, ContainmentStates, FaultStates
<1> QED BY <1>1, <1>2

(* Setting the status of some of a containment's actions.                  *)
LEMMA SetStatusType ==
    ASSUME NEW acts \in [Gens -> [Resources -> Action \cup {NoAction}]], NEW g \in Gens,
           NEW targets, \A r \in targets : r \in Resources /\ acts[g][r].status # "NONE",
           NEW status \in ActionStates
    PROVE  /\ SetStatus(acts, g, targets, status) \in [Gens -> [Resources -> Action \cup {NoAction}]]
           /\ \A h \in Gens, r \in Resources :
                 SetStatus(acts, g, targets, status)[h][r].status =
                    IF h = g /\ r \in targets THEN status ELSE acts[h][r].status
           /\ \A h \in Gens, r \in Resources : ~(h = g /\ r \in targets) =>
                 SetStatus(acts, g, targets, status)[h][r] = acts[h][r]
<1> DEFINE new(r) == IF r \in targets THEN [acts[g][r] EXCEPT !.status = status] ELSE acts[g][r]
<1>1. ASSUME NEW r \in Resources
      PROVE  /\ new(r) \in Action \cup {NoAction}
             /\ r \in targets => new(r).status = status
             /\ r \notin targets => new(r) = acts[g][r]
  BY DEF Action, NoAction
<1> HIDE DEF new
<1>2. SetStatus(acts, g, targets, status) = [acts EXCEPT ![g] = [r \in Resources |-> new(r)]]
  BY DEF SetStatus, new
<1> QED BY <1>1, <1>2

(* The actions of a containment that are in a dispatch call's hands exist. *)
LEMMA InStatesType ==
    ASSUME NEW g, NEW states
    PROVE  /\ InStates(g, states) \subseteq Resources
           /\ \A r \in InStates(g, states) : /\ actions[g][r].status # "NONE"
                                             /\ actions[g][r].status \in states
BY DEF InStates, Targets

(* dispatch_containment, first phase, as a change of statuses.             *)
Begun(d, g, valid) ==
    /\ actions' \in [Gens -> [Resources -> Action \cup {NoAction}]]
    /\ \A h \in Gens, r \in Resources :
          \/ actions'[h][r] = actions[h][r] /\ (actions[h][r].status = "AUTHORIZED" => h # g)
          \/ /\ h = g /\ actions[h][r].status \in {"PLANNED", "AUTHORIZED"}
             /\ actions'[h][r].status = IF r \in valid THEN "AUTHORIZED" ELSE "SUPERSEDED"
    /\ calls' = [calls EXCEPT ![d] = [containment |-> g, todo |-> valid,
                                      sent |-> {}, refused |-> {}]]
    /\ valid # {} => containments[g].moved = {}

LEMMA BeginDispatchEffect ==
    ASSUME TypeOK, NEW d \in Dispatchers, NEW g \in Gens, BeginDispatch(d, g)
    PROVE  \E valid \in SUBSET Resources : Begun(d, g, valid)
<1> DEFINE pending == InStates(g, {"PLANNED", "AUTHORIZED"})
           valid == {r \in pending : Revalidated(g, r)}
           stale == pending \ valid
           first == SetStatus(actions, g, stale, "SUPERSEDED")
<1>1. /\ pending \subseteq Resources /\ valid \subseteq pending /\ stale = pending \ valid
      /\ \A r \in pending : /\ actions[g][r].status # "NONE"
                            /\ actions[g][r].status \in {"PLANNED", "AUTHORIZED"}
      /\ \A r \in Resources : actions[g][r].status = "AUTHORIZED" => r \in pending
  BY InStatesType DEF InStates, Targets
<1>2. /\ actions' = SetStatus(first, g, valid, "AUTHORIZED")
      /\ calls' = [calls EXCEPT ![d] = [containment |-> g, todo |-> valid,
                                        sent |-> {}, refused |-> {}]]
  BY DEF BeginDispatch
<1>3. valid # {} => containments[g].moved = {}
  BY DEF Revalidated
<1>4. actions \in [Gens -> [Resources -> Action \cup {NoAction}]]
  BY DEF TypeOK
<1> HIDE DEF pending, valid, stale
<1>5. /\ first \in [Gens -> [Resources -> Action \cup {NoAction}]]
      /\ \A h \in Gens, r \in Resources :
            /\ first[h][r].status = IF h = g /\ r \in stale
                                      THEN "SUPERSEDED" ELSE actions[h][r].status
            /\ ~(h = g /\ r \in stale) => first[h][r] = actions[h][r]
  <2>1. \A r \in stale : r \in Resources /\ actions[g][r].status # "NONE"
    BY <1>1
  <2> QED BY <1>4, <2>1, SetStatusType DEF ActionStates
<1> HIDE DEF first
<1>6. /\ actions' \in [Gens -> [Resources -> Action \cup {NoAction}]]
      /\ \A h \in Gens, r \in Resources :
            /\ actions'[h][r].status = IF h = g /\ r \in valid
                                         THEN "AUTHORIZED" ELSE first[h][r].status
            /\ ~(h = g /\ r \in valid) => actions'[h][r] = first[h][r]
  <2>1. \A r \in valid : r \in Resources /\ first[g][r].status # "NONE"
    BY <1>1, <1>5
  <2> QED BY <1>2, <1>5, <2>1, SetStatusType DEF ActionStates
<1>7. ASSUME NEW h \in Gens, NEW r \in Resources
      PROVE  \/ actions'[h][r] = actions[h][r] /\ (actions[h][r].status = "AUTHORIZED" => h # g)
             \/ /\ h = g /\ actions[h][r].status \in {"PLANNED", "AUTHORIZED"}
                /\ actions'[h][r].status = IF r \in valid THEN "AUTHORIZED" ELSE "SUPERSEDED"
  BY <1>1, <1>5, <1>6
<1>8. valid \in SUBSET Resources
  BY <1>1
<1>9. Begun(d, g, valid)
  BY <1>2, <1>3, <1>6, <1>7 DEF Begun
<1> QED BY <1>8, <1>9

(* dispatch_containment, second phase.                                     *)
LEMMA FinishDispatchEffect ==
    ASSUME TypeOK, NEW d \in Dispatchers, FinishDispatch(d)
    PROVE  /\ calls[d] \in Call /\ calls[d].todo = {}
           /\ actions' \in [Gens -> [Resources -> Action \cup {NoAction}]]
           /\ \A h \in Gens, r \in Resources :
                 \/ /\ actions'[h][r] = actions[h][r]
                    /\ \/ h # calls[d].containment
                       \/ actions[h][r].status # "AUTHORIZED"
                       \/ r \notin calls[d].sent \cup calls[d].refused
                 \/ /\ actions[h][r].status = "AUTHORIZED"
                    /\ actions'[h][r].status \in {"DISPATCHED", "REJECTED_INFEASIBLE"}
           /\ calls' = [calls EXCEPT ![d] = Idle]
<1> DEFINE g == calls[d].containment
           open == InStates(g, {"AUTHORIZED"})
           sent == open \cap calls[d].sent
           refused == open \cap calls[d].refused
           first == SetStatus(actions, g, sent, "DISPATCHED")
<1>1. /\ calls[d] \in Call /\ calls[d].todo = {} /\ g \in Gens
      /\ calls' = [calls EXCEPT ![d] = Idle]
  BY DEF FinishDispatch, TypeOK, Idle, Call
<1>2. actions' = SetStatus(first, g, refused, "REJECTED_INFEASIBLE")
  BY DEF FinishDispatch
<1>3. /\ open \subseteq Resources /\ sent \subseteq open /\ refused \subseteq open
      /\ \A r \in open : /\ actions[g][r].status # "NONE"
                         /\ actions[g][r].status = "AUTHORIZED"
      /\ \A r \in Resources : actions[g][r].status = "AUTHORIZED" => r \in open
      /\ open \cap (calls[d].sent \cup calls[d].refused) = sent \cup refused
  BY InStatesType DEF InStates, Targets
<1>4. actions \in [Gens -> [Resources -> Action \cup {NoAction}]]
  BY DEF TypeOK
<1> HIDE DEF g, open, sent, refused
<1>5. /\ first \in [Gens -> [Resources -> Action \cup {NoAction}]]
      /\ \A h \in Gens, r \in Resources :
            /\ first[h][r].status = IF h = g /\ r \in sent
                                      THEN "DISPATCHED" ELSE actions[h][r].status
            /\ ~(h = g /\ r \in sent) => first[h][r] = actions[h][r]
  BY <1>1, <1>3, <1>4, SetStatusType DEF ActionStates
<1> HIDE DEF first
<1>6. /\ actions' \in [Gens -> [Resources -> Action \cup {NoAction}]]
      /\ \A h \in Gens, r \in Resources :
            /\ actions'[h][r].status = IF h = g /\ r \in refused
                                         THEN "REJECTED_INFEASIBLE" ELSE first[h][r].status
            /\ ~(h = g /\ r \in refused) => actions'[h][r] = first[h][r]
  <2>1. \A r \in refused : r \in Resources /\ first[g][r].status # "NONE"
    BY <1>1, <1>3, <1>5
  <2> QED BY <1>1, <1>2, <1>5, <2>1, SetStatusType DEF ActionStates
<1>7. ASSUME NEW h \in Gens, NEW r \in Resources
      PROVE  \/ /\ actions'[h][r] = actions[h][r]
                /\ \/ h # g
                   \/ actions[h][r].status # "AUTHORIZED"
                   \/ r \notin calls[d].sent \cup calls[d].refused
             \/ /\ actions[h][r].status = "AUTHORIZED"
                /\ actions'[h][r].status \in {"DISPATCHED", "REJECTED_INFEASIBLE"}
  BY <1>3, <1>5, <1>6
<1> QED BY <1>1, <1>6, <1>7 DEF g

-----------------------------------------------------------------------------
LEMMA TypeInit == Init => TypeOK
<1> SUFFICES ASSUME Init PROVE TypeOK
  OBVIOUS
<1>1. resources \in [Resources -> Resource]
  <2>1. Healthy \in Resource
    BY DEF Healthy, Unregistered, Resource, ResourceStates
  <2>2. Unregistered \in Resource
    BY DEF Unregistered, Resource, ResourceStates
  <2> QED BY <2>1, <2>2 DEF Init
<1>2. faults \in [Faults -> Fault]
  BY BoundAssumption DEF Init, Fault
<1> QED BY <1>1, <1>2 DEF Init, TypeOK

(* Every update of the topology only outdates the containments.            *)
LEMMA TopologyMovesType ==
    ASSUME TypeOK, TopologyMoves
    PROVE  updates' \in Nat /\ OnlyOutdated /\ UNCHANGED losses
BY OutdatedType DEF TopologyMoves, TypeOK, OnlyOutdated, Generations

(* The effect of authorize_containment, with the generation and the fenced *)
(* set it chose.                                                           *)
Authorized(f, gen, mandatory) ==
    /\ CanAuthorize(f)
    /\ resources' \in [Resources -> Resource]
    /\ \A r \in Resources :
          /\ resources'[r].registered = resources[r].registered
          /\ ~resources[r].registered => resources'[r] = resources[r]
          /\ resources'[r].seized = resources[r].seized
          /\ resources'[r].quarantined = (r \in mandatory \/ resources[r].quarantined)
    /\ containments' \in [Gens -> Containment \cup {NoContainment}]
    /\ \A g \in Gens \ {gen} :
          /\ containments'[g].status = containments[g].status
          /\ g \in Committed =>
                /\ containments'[g].fault = containments[g].fault
                /\ containments'[g].mandatory = containments[g].mandatory
                /\ containments'[g].outcome = containments[g].outcome
                /\ containments[g].moved \subseteq containments'[g].moved
                /\ containments'[g].moved \subseteq containments[g].moved \cup {"topology"}
    /\ containments'[gen].status = "COMMITTED" /\ containments'[gen].fault = f
    /\ containments'[gen].mandatory = mandatory
    /\ containments'[gen].outcome = "UNVERIFIED"
    /\ actions' \in [Gens -> [Resources -> Action \cup {NoAction}]]
    /\ \A g \in Gens \ {gen} : actions'[g] = actions[g]
    /\ \A r \in Resources : actions'[gen][r].status \in {"NONE", "PLANNED"}
    /\ faults' = [faults EXCEPT ![f] =
                     [state |-> "CONTAINMENT_IN_PROGRESS", containment |-> gen]]

LEMMA AuthorizeEffect ==
    ASSUME TypeOK, NEW f \in Faults, AuthorizeContainment(f)
    PROVE  \E gen \in Gens \ Committed, mandatory \in SUBSET Registered :
              Authorized(f, gen, mandatory)
<1>1. PICK gen \in Gens, rad \in Radii[SubjectOf[f]], tied \in SUBSET Faults,
           targets \in SUBSET Resources :
        /\ CanAuthorize(f) /\ IsNextGen(gen)
        /\ resources' = Fenced(rad.mandatory \cap Registered, rad.precautionary \cap Registered)
        /\ containments' = [OutdatedBy("topology") EXCEPT ![gen] =
              [fault |-> f, status |-> "COMMITTED", mandatory |-> rad.mandatory \cap Registered,
               precautionary |-> rad.precautionary \cap Registered,
               paths |-> rad.paths \cap edges,
               since |-> tied, outcome |-> "UNVERIFIED", moved |-> {}]]
        /\ actions' = [actions EXCEPT ![gen] =
              [r \in Resources |->
                  IF r \in targets THEN [status |-> "PLANNED", success |-> FALSE] ELSE NoAction]]
        /\ faults' = [faults EXCEPT ![f] =
              [state |-> "CONTAINMENT_IN_PROGRESS", containment |-> gen]]
  BY DEF AuthorizeContainment, Registered
<1> DEFINE mandatory == rad.mandatory \cap Registered
           precautionary == rad.precautionary \cap Registered
           new == [fault |-> f, status |-> "COMMITTED", mandatory |-> mandatory,
                   precautionary |-> precautionary, paths |-> rad.paths \cap edges,
                   since |-> tied, outcome |-> "UNVERIFIED", moved |-> {}]
<1>2. gen \in Gens \ Committed /\ mandatory \in SUBSET Registered
      /\ precautionary \in SUBSET Registered /\ Registered \subseteq Resources
      /\ edges \subseteq Dependencies
  BY <1>1 DEF IsNextGen, Registered, TypeOK
<1>3. new \in Containment /\ new.status = "COMMITTED" /\ new.fault = f
      /\ new.mandatory = mandatory /\ new.outcome = "UNVERIFIED"
  <2>1. rad.paths \cap edges \in SUBSET Dependencies /\ tied \in SUBSET Faults
    BY <1>2
  <2> HIDE DEF mandatory, precautionary
  <2> QED BY <1>2, <2>1 DEF Containment, ContainmentStates, Outcomes, Generations
<1> HIDE DEF mandatory, precautionary, new
<1>4. containments' = [OutdatedBy("topology") EXCEPT ![gen] = new]
  BY <1>1 DEF new, mandatory, precautionary
<1>5. /\ containments' \in [Gens -> Containment \cup {NoContainment}]
      /\ containments'[gen] = new
      /\ \A g \in Gens \ {gen} : containments'[g] = OutdatedBy("topology")[g]
  BY <1>2, <1>3, <1>4, OutdatedType DEF Generations
<1>6. \A g \in Gens \ {gen} :
         /\ containments'[g].status = containments[g].status
         /\ g \in Committed =>
               /\ containments'[g].fault = containments[g].fault
               /\ containments'[g].mandatory = containments[g].mandatory
               /\ containments'[g].outcome = containments[g].outcome
               /\ containments[g].moved \subseteq containments'[g].moved
               /\ containments'[g].moved \subseteq containments[g].moved \cup {"topology"}
  BY <1>5, OutdatedType DEF Generations
<1>7. /\ resources' \in [Resources -> Resource]
      /\ \A r \in Resources :
            /\ resources'[r].registered = resources[r].registered
            /\ ~resources[r].registered => resources'[r] = resources[r]
            /\ resources'[r].seized = resources[r].seized
            /\ resources'[r].quarantined = (r \in mandatory \/ resources[r].quarantined)
  <2>1. resources' = Fenced(mandatory, precautionary)
    BY <1>1 DEF mandatory, precautionary
  <2>2. ASSUME NEW r \in Resources
        PROVE  /\ Fenced(mandatory, precautionary)[r] \in Resource
               /\ Fenced(mandatory, precautionary)[r].registered = resources[r].registered
               /\ ~resources[r].registered => Fenced(mandatory, precautionary)[r] = resources[r]
               /\ Fenced(mandatory, precautionary)[r].seized = resources[r].seized
               /\ Fenced(mandatory, precautionary)[r].quarantined =
                     (r \in mandatory \/ resources[r].quarantined)
    <3>1. resources[r] \in Resource
      BY DEF TypeOK
    <3>2. ~resources[r].registered => r \notin mandatory /\ r \notin precautionary
      BY <1>2 DEF Registered
    <3> QED BY <3>1, <3>2 DEF Fenced, Resource, ResourceStates
  <2>3. Fenced(mandatory, precautionary) \in [Resources -> Resource]
    <3>1. Fenced(mandatory, precautionary) =
             [r \in Resources |-> Fenced(mandatory, precautionary)[r]]
      BY DEF Fenced
    <3> QED BY <2>2, <3>1
  <2> QED BY <2>1, <2>2, <2>3
<1>8. /\ actions' \in [Gens -> [Resources -> Action \cup {NoAction}]]
      /\ \A g \in Gens \ {gen} : actions'[g] = actions[g]
      /\ \A r \in Resources : actions'[gen][r].status \in {"NONE", "PLANNED"}
  <2>1. [status |-> "PLANNED", success |-> FALSE] \in Action
    BY DEF Action, ActionStates
  <2> QED BY <1>1, <2>1 DEF TypeOK, NoAction
<1>9. /\ containments'[gen].status = "COMMITTED" /\ containments'[gen].fault = f
      /\ containments'[gen].mandatory = mandatory /\ containments'[gen].outcome = "UNVERIFIED"
  BY <1>3, <1>5
<1>10. Authorized(f, gen, mandatory)
  BY <1>1, <1>5, <1>6, <1>7, <1>8, <1>9 DEF Authorized
<1> QED BY <1>2, <1>10

(* The effect of authorize_release.                                        *)
Released(r, g) ==
    /\ resources' \in [Resources -> Resource]
    /\ resources'[r].registered /\ resources'[r].quarantined = FALSE /\ resources'[r].seized = FALSE
    /\ \A q \in Resources \ {r} : resources'[q] = resources[q]
    /\ containments' \in [Gens -> Containment \cup {NoContainment}]
    /\ \A h \in Gens \ {g} : containments'[h].status = containments[h].status
    /\ \A h \in Committed \ {g} : containments'[h].mandatory = containments[h].mandatory
    /\ \A h \in Committed : /\ containments'[h].fault = containments[h].fault
                            /\ containments'[h].outcome = containments[h].outcome
                            /\ containments'[h].moved = containments[h].moved \cup {"topology"}
    /\ containments'[g].mandatory = containments[g].mandatory \ {r}
    /\ containments'[g].status = IF containments[g].mandatory \ {r} = {}
                                   THEN "RELEASED" ELSE containments[g].status
    /\ faults' \in [Faults -> Fault]
    /\ \A f \in Faults :
          /\ faults'[f].containment = faults[f].containment
          /\ faults'[f].state = faults[f].state
               \/ (f = containments[g].fault /\ containments[g].mandatory \ {r} = {})

LEMMA ReleaseEffect ==
    ASSUME TypeOK, NEW r \in Resources, NEW g \in Gens, AuthorizeRelease(r, g)
    PROVE  Released(r, g)
<1> DEFINE left == containments[g].mandatory \ {r}
           out == OutdatedBy("topology")
           new == [out[g] EXCEPT !.mandatory = left,
                                 !.precautionary = out[g].precautionary \ {r},
                                 !.status = IF left = {} THEN "RELEASED" ELSE out[g].status]
<1>1. /\ g \in Committed /\ r \in Registered
      /\ containments' = [out EXCEPT ![g] = new]
      /\ faults' = IF left = {} THEN Moved(containments[g].fault, "CLEARED") ELSE faults
      /\ resources' = [resources EXCEPT ![r].state = "ACTIVE", ![r].quarantined = FALSE,
                                        ![r].seized = FALSE]
  <2>1. /\ g \in Committed /\ r \in Registered
        /\ faults' = IF left = {} THEN Moved(containments[g].fault, "CLEARED") ELSE faults
        /\ resources' = [resources EXCEPT ![r].state = "ACTIVE", ![r].quarantined = FALSE,
                                          ![r].seized = FALSE]
    BY DEF AuthorizeRelease, ReleaseGranted
  <2>2. out \in [Gens -> Containment \cup {NoContainment}]
    BY OutdatedType DEF Generations
  <2>3. containments' = [out EXCEPT ![g] = new]
    BY <2>2 DEF AuthorizeRelease
  <2> QED BY <2>1, <2>3
<1>2. containments[g] \in Containment /\ out[g] \in Containment
      /\ out \in [Gens -> Containment \cup {NoContainment}]
      /\ out[g].status = containments[g].status /\ out[g].fault = containments[g].fault
      /\ out[g].outcome = containments[g].outcome
      /\ out[g].moved = containments[g].moved \cup {"topology"}
  BY <1>1, OutdatedType, CommittedType DEF Generations
<1>3. new \in Containment /\ new.mandatory = left /\ new.fault = out[g].fault
      /\ new.outcome = out[g].outcome /\ new.moved = out[g].moved
      /\ new.status = IF left = {} THEN "RELEASED" ELSE out[g].status
  <2> HIDE DEF out
  <2>1. left \in SUBSET Resources
    BY <1>2 DEF Containment
  <2> HIDE DEF left
  <2> QED BY <1>2, <2>1 DEF Containment, ContainmentStates
<1>4. \A h \in Gens : /\ out[h].status = containments[h].status
                      /\ h \in Committed => /\ out[h].fault = containments[h].fault
                                            /\ out[h].mandatory = containments[h].mandatory
                                            /\ out[h].outcome = containments[h].outcome
                                            /\ out[h].moved = containments[h].moved \cup {"topology"}
  BY OutdatedType DEF Generations
<1> HIDE DEF new, out, left
<1>5. /\ containments' \in [Gens -> Containment \cup {NoContainment}]
      /\ containments'[g] = new /\ \A h \in Gens \ {g} : containments'[h] = out[h]
  BY <1>1, <1>2, <1>3
<1>6. /\ \A h \in Gens \ {g} : containments'[h].status = containments[h].status
      /\ \A h \in Committed \ {g} : containments'[h].mandatory = containments[h].mandatory
      /\ \A h \in Committed : /\ containments'[h].fault = containments[h].fault
                              /\ containments'[h].outcome = containments[h].outcome
                              /\ containments'[h].moved = containments[h].moved \cup {"topology"}
  BY <1>2, <1>3, <1>4, <1>5, CommittedType
<1>7. /\ resources' \in [Resources -> Resource]
      /\ resources'[r].registered /\ resources'[r].quarantined = FALSE /\ resources'[r].seized = FALSE
      /\ \A q \in Resources \ {r} : resources'[q] = resources[q]
  <2>1. resources \in [Resources -> Resource] /\ resources[r].registered
    BY <1>1 DEF TypeOK, Registered
  <2> DEFINE res == [resources[r] EXCEPT !.state = "ACTIVE", !.quarantined = FALSE,
                                               !.seized = FALSE]
  <2>2. res \in Resource /\ res.registered = resources[r].registered /\ res.quarantined = FALSE
        /\ res.seized = FALSE
    BY <2>1 DEF Resource, ResourceStates
  <2>3. resources' = [resources EXCEPT ![r] = res]
    BY <1>1, <2>1
  <2> HIDE DEF res
  <2> QED BY <2>1, <2>2, <2>3
<1>8. /\ faults' \in [Faults -> Fault]
      /\ \A f \in Faults :
            /\ faults'[f].containment = faults[f].containment
            /\ faults'[f].state = faults[f].state \/ (f = containments[g].fault /\ left = {})
  <2>1. containments[g].fault \in Faults /\ "CLEARED" \in FaultStates
    BY <1>2 DEF Containment, FaultStates
  <2> QED BY <1>1, <2>1, MovedType DEF TypeOK
<1>9. /\ containments'[g].mandatory = left
      /\ containments'[g].status = IF left = {} THEN "RELEASED" ELSE containments[g].status
  BY <1>2, <1>3, <1>5
<1> QED BY <1>5, <1>6, <1>7, <1>8, <1>9 DEF Released, left

(* The effect of verify_containment.                                       *)
Verified(g) ==
    /\ containments' \in [Gens -> Containment \cup {NoContainment}]
    /\ \A h \in Gens \ {g} : containments'[h] = containments[h]
    /\ containments'[g].status \in ContainmentStates \ {"RELEASED"}
    /\ containments'[g].fault = containments[g].fault
    /\ containments'[g].mandatory = containments[g].mandatory
    /\ containments'[g].moved = containments[g].moved
    /\ containments'[g].outcome = Outcome(g)
    /\ faults' \in [Faults -> Fault]
    /\ \A f \in Faults : /\ faults'[f].containment = faults[f].containment
                         /\ faults'[f].state = "CLEARED" => faults[f].state = "CLEARED"

LEMMA VerifyEffect ==
    ASSUME TypeOK, NEW g \in Gens, VerifyContainment(g)
    PROVE  Verified(g)
<1> DEFINE new == [containments[g] EXCEPT !.outcome = Outcome(g), !.status = StatusFor[Outcome(g)]]
<1>1. containments[g] \in Containment
  BY CommittedType DEF VerifyContainment
<1>2. /\ Outcome(g) \in Outcomes /\ StatusFor[Outcome(g)] \in ContainmentStates \ {"RELEASED"}
      /\ FaultStateFor[Outcome(g)] \in FaultStates \ {"CLEARED"}
  BY OutcomeType
<1>3. /\ new \in Containment /\ new.status \in ContainmentStates \ {"RELEASED"}
      /\ new.fault = containments[g].fault /\ new.mandatory = containments[g].mandatory
      /\ new.moved = containments[g].moved /\ new.outcome = Outcome(g)
  BY <1>1, <1>2 DEF Containment
<1>4. containments' = [containments EXCEPT ![g] = new]
  BY DEF VerifyContainment, TypeOK
<1> HIDE DEF new
<1>5. /\ faults' \in [Faults -> Fault]
      /\ \A f \in Faults : /\ faults'[f].containment = faults[f].containment
                           /\ faults'[f].state = "CLEARED" => faults[f].state = "CLEARED"
  <2>1. containments[g].fault \in Faults
    BY <1>1 DEF Containment
  <2>2. faults' = Moved(containments[g].fault, FaultStateFor[Outcome(g)])
    BY DEF VerifyContainment
  <2> QED BY <1>2, <2>1, <2>2, MovedType
<1> QED BY <1>3, <1>4, <1>5 DEF Verified, TypeOK

(* The effect of publish_fault: the containments only learn of the fault.  *)
LEMMA PublishFaultEffect ==
    ASSUME TypeOK, NEW f \in Faults, PublishFault(f)
    PROVE  /\ OnlyOutdated
           /\ faults' \in [Faults -> Fault]
           /\ \A q \in Faults : /\ faults'[q].containment = faults[q].containment
                                /\ faults'[q].state = "CLEARED" => faults[q].state = "CLEARED"
<1> DEFINE new(g) == [containments[g] EXCEPT !.since = containments[g].since \cup {f}]
<1>1. ASSUME NEW g \in Committed
      PROVE  /\ new(g) \in Containment /\ new(g).status = containments[g].status
             /\ new(g).fault = containments[g].fault
             /\ new(g).mandatory = containments[g].mandatory
             /\ new(g).outcome = containments[g].outcome
             /\ new(g).moved = containments[g].moved
  BY CommittedType DEF Containment
<1>2. /\ containments' = [g \in Gens |-> IF g \in Concerned(f) THEN new(g) ELSE containments[g]]
      /\ Concerned(f) \subseteq Committed
  BY DEF PublishFault, Concerned, Live, IsLive, Committed
<1> HIDE DEF new
<1>3. OnlyOutdated
  BY <1>1, <1>2 DEF OnlyOutdated, TypeOK
<1>4. /\ faults' \in [Faults -> Fault]
      /\ \A q \in Faults : /\ faults'[q].containment = faults[q].containment
                           /\ faults'[q].state = "CLEARED" => faults[q].state = "CLEARED"
  BY DEF PublishFault, TypeOK, Fault, FaultStates
<1> QED BY <1>3, <1>4

(* What the steps outside authorization, verification and release leave    *)
(* alone: the lifecycle of every containment, the fault it is for, and     *)
(* the quarantine of every resource that a live containment requires; an   *)
(* authority loss only adds to it.                                         *)
FaultsKept ==
    /\ faults' \in [Faults -> Fault]
    /\ \A f \in Faults : /\ faults'[f].containment = faults[f].containment
                         /\ faults'[f].state = "CLEARED" => faults[f].state = "CLEARED"

QuarantineKept ==
    /\ resources' \in [Resources -> Resource]
    /\ \A r \in Resources :
          \/ /\ resources'[r].quarantined = resources[r].quarantined
             /\ resources'[r].registered = resources[r].registered
             /\ resources'[r].seized = resources[r].seized
          \/ resources'[r].registered /\ resources'[r].quarantined /\ resources'[r].seized
          \/ /\ resources'[r].quarantined = FALSE /\ resources'[r].seized = FALSE
             /\ ~resources[r].registered \/ \A g \in Live : r \notin containments[g].mandatory

Quiet == OnlyOutdated /\ FaultsKept /\ QuarantineKept

(* A step that leaves one of the three alone altogether.                   *)
LEMMA NothingMoves ==
    ASSUME TypeOK
    PROVE  /\ UNCHANGED containments => OnlyOutdated
           /\ UNCHANGED faults => FaultsKept
           /\ UNCHANGED resources => QuarantineKept
BY DEF TypeOK, OnlyOutdated, FaultsKept, QuarantineKept

(* The topology, ownership, evidence and policy updates.                   *)
LEMMA TopologyQuiet ==
    ASSUME TypeOK, TopologyNext
    PROVE  TypeOK' /\ Quiet /\ UNCHANGED <<actions, calls>>
<1> USE NothingMoves
<1> DEFINE Goal == TypeOK' /\ Quiet /\ UNCHANGED <<actions, calls>>
<1>1. ASSUME NEW r \in Resources, RegisterResource(r) PROVE Goal
  <2>1. [Unregistered EXCEPT !.registered = TRUE] \in Resource
        /\ [Unregistered EXCEPT !.registered = TRUE].quarantined = FALSE
        /\ [Unregistered EXCEPT !.registered = TRUE].seized = FALSE
    BY DEF Unregistered, Resource, ResourceStates
  <2>2. QuarantineKept
    BY <1>1, <2>1 DEF RegisterResource, Registered, QuarantineKept, TypeOK
  <2> QED BY <1>1, <2>2, TopologyMovesType
      DEF RegisterResource, Quiet, TypeOK, OnlyOutdated, QuarantineKept
<1>2. ASSUME NEW r \in Resources, RemoveResource(r) PROVE Goal
  <2>1. Unregistered \in Resource /\ Unregistered.quarantined = FALSE /\ Unregistered.seized = FALSE
    BY DEF Unregistered, Resource, ResourceStates
  <2>2. QuarantineKept
    BY <1>2, <2>1 DEF RemoveResource, QuarantineKept, TypeOK
  <2> QED BY <1>2, <2>2, TopologyMovesType
      DEF RemoveResource, Quiet, TypeOK, OnlyOutdated, QuarantineKept
<1>3. ASSUME NEW r \in Resources, SetResourceOwner(r) PROVE Goal
  <2>1. QuarantineKept
    <3> DEFINE new == [resources[r] EXCEPT !.state = "ACTIVE", !.fresh = TRUE]
    <3>1. resources \in [Resources -> Resource]
      BY DEF TypeOK
    <3>2. /\ new \in Resource /\ new.quarantined = resources[r].quarantined
          /\ new.registered = resources[r].registered /\ new.seized = resources[r].seized
      BY <3>1 DEF Resource, ResourceStates
    <3>3. resources' = [resources EXCEPT ![r] = new]
      BY <1>3, <3>1 DEF SetResourceOwner
    <3> HIDE DEF new
    <3> QED BY <3>1, <3>2, <3>3 DEF QuarantineKept
  <2> QED BY <1>3, <2>1, TopologyMovesType
      DEF SetResourceOwner, Quiet, TypeOK, OnlyOutdated, QuarantineKept
<1>4. ASSUME NEW r \in Resources, NEW fresh \in BOOLEAN, PublishEvidence(r, fresh) PROVE Goal
  <2>1. QuarantineKept
    <3> DEFINE state == IF fresh /\ resources[r].state = "UNKNOWN" /\ ~resources[r].quarantined
                          THEN "ACTIVE" ELSE resources[r].state
               new == [resources[r] EXCEPT !.fresh = fresh, !.state = state]
    <3>1. resources \in [Resources -> Resource]
      BY DEF TypeOK
    <3>2. state \in ResourceStates
      BY <3>1 DEF Resource, ResourceStates
    <3>3. resources' = [resources EXCEPT ![r] = new]
      BY <1>4, <3>1 DEF PublishEvidence
    <3> HIDE DEF state
    <3>4. /\ new \in Resource /\ new.quarantined = resources[r].quarantined
          /\ new.registered = resources[r].registered /\ new.seized = resources[r].seized
      BY <3>1, <3>2 DEF Resource
    <3> HIDE DEF new
    <3> QED BY <3>1, <3>3, <3>4 DEF QuarantineKept
  <2> QED BY <1>4, <2>1, TopologyMovesType
      DEF PublishEvidence, Quiet, TypeOK, OnlyOutdated, QuarantineKept
<1>5. ASSUME NEW d \in Dependencies, RegisterDependency(d) PROVE Goal
  BY <1>5, TopologyMovesType DEF RegisterDependency, Quiet, TypeOK, OnlyOutdated
<1>6. ASSUME NEW d \in Dependencies, RemoveDependency(d) PROVE Goal
  BY <1>6, TopologyMovesType DEF RemoveDependency, Quiet, TypeOK, OnlyOutdated
<1>7. ASSUME SetPolicy PROVE Goal
  <2>1. OnlyOutdated
    BY <1>7, OutdatedType DEF SetPolicy, OnlyOutdated, Generations
  <2> QED BY <1>7, <2>1 DEF SetPolicy, Quiet, TypeOK, OnlyOutdated
<1>8. ASSUME NEW bound \in Bindings, AuthorityLost(bound) PROVE Goal
  <2>1. OnlyOutdated
    BY <1>8, OutdatedType DEF AuthorityLost, OnlyOutdated, Generations
  <2>2. QuarantineKept
    <3> DEFINE lost(r) == [resources[r] EXCEPT !.state = "FENCED", !.quarantined = TRUE,
                                               !.fresh = FALSE, !.seized = TRUE]
    <3>1. resources \in [Resources -> Resource]
      BY DEF TypeOK
    <3>2. ASSUME NEW r \in Resources
          PROVE  /\ lost(r) \in Resource /\ lost(r).registered = resources[r].registered
                 /\ lost(r).quarantined /\ lost(r).seized
      BY <3>1 DEF Resource, ResourceStates
    <3>3. /\ resources' = [r \in Resources |-> IF r \in bound THEN lost(r) ELSE resources[r]]
          /\ \A r \in bound : resources[r].registered
      BY <1>8 DEF AuthorityLost, Registered
    <3> HIDE DEF lost
    <3> QED BY <3>1, <3>2, <3>3 DEF QuarantineKept
  <2>3. losses \in Nat
    BY DEF TypeOK
  <2>4. losses' = losses + 1
    BY <1>8 DEF AuthorityLost
  <2>5. losses' \in Nat
    BY <2>3, <2>4
  <2>6. UNCHANGED <<edges, faults, actions, calls, restarts, policies, updates>>
    BY <1>8 DEF AuthorityLost
  <2> QED BY <2>1, <2>2, <2>5, <2>6 DEF Quiet, TypeOK, OnlyOutdated, QuarantineKept
<1> QED BY <1>1, <1>2, <1>3, <1>4, <1>5, <1>6, <1>7, <1>8 DEF TopologyNext

(* publish_fault and supersede_fault.                                      *)
LEMMA FaultQuiet ==
    ASSUME TypeOK, NEW f \in Faults, PublishFault(f) \/ SupersedeFault(f)
    PROVE  TypeOK' /\ Quiet /\ UNCHANGED <<actions, calls>>
<1> USE NothingMoves
<1>1. CASE PublishFault(f)
  <2>1. OnlyOutdated /\ FaultsKept
    BY <1>1, PublishFaultEffect DEF FaultsKept
  <2> QED BY <1>1, <2>1 DEF PublishFault, Quiet, TypeOK, OnlyOutdated, FaultsKept, counters
<1>2. CASE SupersedeFault(f)
  <2>1. FaultsKept
    BY <1>2 DEF SupersedeFault, FaultsKept, TypeOK, Fault, FaultStates
  <2> QED BY <1>2, <2>1 DEF SupersedeFault, Quiet, TypeOK, FaultsKept, counters
<1> QED BY <1>1, <1>2

(* The effect of handing an action to the executor.                        *)
LEMMA HandEffect ==
    ASSUME TypeOK, NEW d \in Dispatchers, NEW r \in Resources, HandToExecutor(d, r)
    PROVE  /\ calls[d] \in Call /\ r \in calls[d].todo
           /\ calls' \in [Dispatchers -> Call \cup {Idle}]
           /\ \A e \in Dispatchers \ {d} : calls'[e] = calls[e]
           /\ calls'[d] \in Call
           /\ calls'[d].containment = calls[d].containment
           /\ calls'[d].todo \subseteq calls[d].todo
           /\ calls'[d].todo \cup calls'[d].sent \cup calls'[d].refused =
              calls[d].todo \cup calls[d].sent \cup calls[d].refused
<1> DEFINE sent == [calls[d] EXCEPT !.todo = calls[d].todo \ {r}, !.sent = calls[d].sent \cup {r}]
           refused == [calls[d] EXCEPT !.todo = calls[d].todo \ {r},
                                       !.refused = calls[d].refused \cup {r}]
<1>1. calls[d] \in Call /\ r \in calls[d].todo
  BY DEF HandToExecutor, TypeOK, Idle
<1>2. calls' = [calls EXCEPT ![d] = sent] \/ calls' = [calls EXCEPT ![d] = refused]
  BY <1>1 DEF HandToExecutor, Call
<1>3. /\ sent \in Call /\ sent.containment = calls[d].containment
      /\ sent.todo = calls[d].todo \ {r} /\ sent.sent = calls[d].sent \cup {r}
      /\ sent.refused = calls[d].refused
  BY <1>1 DEF Call
<1>4. /\ refused \in Call /\ refused.containment = calls[d].containment
      /\ refused.todo = calls[d].todo \ {r} /\ refused.sent = calls[d].sent
      /\ refused.refused = calls[d].refused \cup {r}
  BY <1>1 DEF Call
<1> HIDE DEF sent, refused
<1>5. CASE calls' = [calls EXCEPT ![d] = sent]
  BY <1>1, <1>3, <1>5 DEF TypeOK
<1>6. CASE calls' = [calls EXCEPT ![d] = refused]
  BY <1>1, <1>4, <1>6 DEF TypeOK
<1> QED BY <1>1, <1>2, <1>5, <1>6

(* The effect of record_action_ack and record_action_result on an action.  *)
LEMMA AnswerEffect ==
    ASSUME TypeOK, NEW g \in Gens, NEW r \in Resources, NEW success \in BOOLEAN,
           RecordActionAck(g, r) \/ RecordActionResult(g, r, success)
    PROVE  /\ actions' \in [Gens -> [Resources -> Action \cup {NoAction}]]
           /\ actions[g][r].status \in {"DISPATCHED", "ACKNOWLEDGED"}
           /\ actions'[g][r].status \in {"ACKNOWLEDGED", "RESULT_RECORDED"}
           /\ \A h \in Gens, q \in Resources : ~(h = g /\ q = r) => actions'[h][q] = actions[h][q]
<1>1. actions \in [Gens -> [Resources -> Action \cup {NoAction}]]
  BY DEF TypeOK
<1>2. CASE RecordActionAck(g, r)
  <2>1. /\ r \in InStates(g, {"DISPATCHED"}) /\ actions' = SetStatus(actions, g, {r}, "ACKNOWLEDGED")
    BY <1>2 DEF RecordActionAck
  <2>2. actions[g][r].status = "DISPATCHED"
    BY <2>1, InStatesType
  <2> DEFINE one == {r}
             new == SetStatus(actions, g, one, "ACKNOWLEDGED")
  <2>3. \A q \in one : q \in Resources /\ actions[g][q].status # "NONE"
    BY <2>2
  <2>4. (\A q \in Resources : q \in one <=> q = r) /\ actions' = new
    BY <2>1
  <2> HIDE DEF one
  <2>5. /\ new \in [Gens -> [Resources -> Action \cup {NoAction}]]
        /\ \A h \in Gens, q \in Resources :
              /\ new[h][q].status =
                    IF h = g /\ q \in one THEN "ACKNOWLEDGED" ELSE actions[h][q].status
              /\ ~(h = g /\ q \in one) => new[h][q] = actions[h][q]
    BY <1>1, <2>3, SetStatusType DEF ActionStates
  <2> QED BY <2>2, <2>4, <2>5
<1>3. CASE RecordActionResult(g, r, success)
  <2> DEFINE new == [actions[g][r] EXCEPT !.status = "RESULT_RECORDED", !.success = success]
  <2>1. /\ r \in InStates(g, {"DISPATCHED", "ACKNOWLEDGED"})
        /\ actions' = [actions EXCEPT ![g][r].status = "RESULT_RECORDED", ![g][r].success = success]
    BY <1>3 DEF RecordActionResult
  <2>2. actions[g][r].status \in {"DISPATCHED", "ACKNOWLEDGED"}
    BY <2>1, InStatesType
  <2>3. actions[g][r] \in Action
    BY <1>1, <2>2 DEF NoAction
  <2>4. new \in Action /\ new.status = "RESULT_RECORDED"
    BY <2>3 DEF Action, ActionStates
  <2>5. actions' = [actions EXCEPT ![g] = [actions[g] EXCEPT ![r] = new]]
    BY <1>1, <2>1
  <2> HIDE DEF new
  <2> QED BY <1>1, <2>2, <2>4, <2>5
<1> QED BY <1>2, <1>3

(* The effect of a restart on the actions.                                 *)
LEMMA RestartEffect ==
    ASSUME TypeOK, Restart
    PROVE  /\ actions' \in [Gens -> [Resources -> Action \cup {NoAction}]]
           /\ \A g \in Gens, r \in Resources :
                 IF actions[g][r].status \in {"AUTHORIZED", "DISPATCHED", "ACKNOWLEDGED"}
                   THEN actions'[g][r].status = "AMBIGUOUS"
                   ELSE actions'[g][r] = actions[g][r]
<1> DEFINE new(g, r) == IF r \in InStates(g, {"AUTHORIZED", "DISPATCHED", "ACKNOWLEDGED"})
                          THEN [actions[g][r] EXCEPT !.status = "AMBIGUOUS"]
                          ELSE actions[g][r]
<1>1. ASSUME NEW g \in Gens, NEW r \in Resources
      PROVE  /\ new(g, r) \in Action \cup {NoAction}
             /\ IF actions[g][r].status \in {"AUTHORIZED", "DISPATCHED", "ACKNOWLEDGED"}
                  THEN new(g, r).status = "AMBIGUOUS" ELSE new(g, r) = actions[g][r]
  <2>1. actions[g][r] \in Action \cup {NoAction}
    BY DEF TypeOK
  <2>2. r \in InStates(g, {"AUTHORIZED", "DISPATCHED", "ACKNOWLEDGED"})
          <=> actions[g][r].status \in {"AUTHORIZED", "DISPATCHED", "ACKNOWLEDGED"}
    BY DEF InStates, Targets
  <2>3. CASE actions[g][r].status \in {"AUTHORIZED", "DISPATCHED", "ACKNOWLEDGED"}
    <3>1. actions[g][r] \in Action
      BY <2>1, <2>3 DEF NoAction
    <3> QED BY <2>2, <2>3, <3>1 DEF Action, ActionStates
  <2>4. CASE ~(actions[g][r].status \in {"AUTHORIZED", "DISPATCHED", "ACKNOWLEDGED"})
    BY <2>1, <2>2, <2>4
  <2> QED BY <2>3, <2>4
<1>2. actions' = [g \in Gens |-> [r \in Resources |-> new(g, r)]]
  BY DEF Restart
<1> HIDE DEF new
<1> QED BY <1>1, <1>2

(* Dispatch, answers and restart.                                          *)
LEMMA DispatchQuiet ==
    ASSUME TypeOK, DispatchNext \/ Restart
    PROVE  TypeOK' /\ Quiet
<1> USE NothingMoves
<1>1. ASSUME NEW d \in Dispatchers, NEW g \in Gens, BeginDispatch(d, g) PROVE TypeOK' /\ Quiet
  <2>1. PICK valid \in SUBSET Resources : Begun(d, g, valid)
    BY <1>1, BeginDispatchEffect
  <2>2. [containment |-> g, todo |-> valid, sent |-> {}, refused |-> {}] \in Call
    BY DEF Call
  <2>3. /\ actions' \in [Gens -> [Resources -> Action \cup {NoAction}]]
        /\ calls' \in [Dispatchers -> Call \cup {Idle}]
    BY <2>1, <2>2 DEF Begun, TypeOK
  <2>4. UNCHANGED <<resources, edges, faults, containments, restarts, policies, updates, losses>>
    BY <1>1 DEF BeginDispatch, counters
  <2> QED BY <2>3, <2>4 DEF Quiet, TypeOK
<1>2. ASSUME NEW d \in Dispatchers, NEW r \in Resources, HandToExecutor(d, r) PROVE TypeOK' /\ Quiet
  BY <1>2, HandEffect DEF HandToExecutor, Quiet, TypeOK, counters
<1>3. ASSUME NEW d \in Dispatchers, FinishDispatch(d) PROVE TypeOK' /\ Quiet
  BY <1>3, FinishDispatchEffect DEF FinishDispatch, Quiet, TypeOK, counters
<1>4. ASSUME NEW g \in Gens, NEW r \in Resources, RecordActionAck(g, r) PROVE TypeOK' /\ Quiet
  BY <1>4, AnswerEffect DEF RecordActionAck, Quiet, TypeOK, counters
<1>5. ASSUME NEW g \in Gens, NEW r \in Resources, NEW success \in Reports,
             RecordActionResult(g, r, success)
      PROVE  TypeOK' /\ Quiet
  <2>1. success \in BOOLEAN
    BY BoundAssumption
  <2>2. OnlyOutdated
    BY <1>5, OutdatedType DEF RecordActionResult, OnlyOutdated, Generations
  <2> QED BY <1>5, <2>1, <2>2, AnswerEffect
      DEF RecordActionResult, Quiet, TypeOK, OnlyOutdated, counters
<1>6. ASSUME Restart PROVE TypeOK' /\ Quiet
  <2>1. OnlyOutdated
    BY <1>6, OutdatedType DEF Restart, OnlyOutdated, Generations
  <2>2. QuarantineKept
    <3> DEFINE new(r) == [resources[r] EXCEPT !.fresh = FALSE]
    <3>1. ASSUME NEW r \in Resources
          PROVE  /\ new(r) \in Resource /\ new(r).registered = resources[r].registered
                 /\ new(r).quarantined = resources[r].quarantined
                 /\ new(r).seized = resources[r].seized
      BY DEF TypeOK, Resource
    <3>2. resources' = [r \in Resources |-> new(r)]
      BY <1>6 DEF Restart
    <3> HIDE DEF new
    <3> QED BY <3>1, <3>2 DEF QuarantineKept
  <2>3. calls' \in [Dispatchers -> Call \cup {Idle}] /\ restarts' \in Nat
    BY <1>6 DEF Restart, TypeOK
  <2>4. UNCHANGED <<edges, faults, policies, updates, losses>>
    BY <1>6 DEF Restart
  <2>5. actions' \in [Gens -> [Resources -> Action \cup {NoAction}]]
    BY <1>6, RestartEffect
  <2> QED BY <2>1, <2>2, <2>3, <2>4, <2>5 DEF Quiet, TypeOK, OnlyOutdated, QuarantineKept
<1> QED BY <1>1, <1>2, <1>3, <1>4, <1>5, <1>6 DEF DispatchNext

(* Every step is quiet, or authorizes, verifies or releases a containment. *)
LEMMA StepKinds ==
    ASSUME TypeOK, [Next]_vars
    PROVE  /\ TypeOK'
           /\ \/ Quiet
              \/ \E f \in Faults, gen \in Gens \ Committed, mandatory \in SUBSET Registered :
                    Authorized(f, gen, mandatory) /\ UNCHANGED calls
              \/ \E g \in Live : Verified(g) /\ UNCHANGED <<resources, actions, calls>>
              \/ \E g \in Gens, r \in Resources :
                    Released(r, g) /\ AuthorizeRelease(r, g) /\ UNCHANGED <<actions, calls>>
<1>1. CASE TopologyNext
  BY <1>1, TopologyQuiet
<1>2. ASSUME NEW f \in Faults, PublishFault(f) \/ SupersedeFault(f) PROVE TypeOK' /\ Quiet
  BY <1>2, FaultQuiet
<1>3. ASSUME NEW f \in Faults, AuthorizeContainment(f)
      PROVE  TypeOK' /\ UNCHANGED calls
             /\ \E gen \in Gens \ Committed, mandatory \in SUBSET Registered :
                   Authorized(f, gen, mandatory)
  <2>1. PICK gen \in Gens \ Committed, mandatory \in SUBSET Registered :
           Authorized(f, gen, mandatory)
    BY <1>3, AuthorizeEffect
  <2>2. UNCHANGED <<edges, calls, restarts, policies, updates, losses>>
    BY <1>3 DEF AuthorizeContainment, counters
  <2>3. faults' \in [Faults -> Fault]
    <3>1. [state |-> "CONTAINMENT_IN_PROGRESS", containment |-> gen] \in Fault
      BY BoundAssumption DEF Fault, FaultStates, Gens
    <3> QED BY <2>1, <3>1 DEF Authorized, TypeOK
  <2>4. TypeOK'
    BY <2>1, <2>2, <2>3 DEF Authorized, TypeOK
  <2> QED BY <2>1, <2>2, <2>4
<1>4. CASE DispatchNext \/ Restart
  BY <1>4, DispatchQuiet
<1>5. ASSUME NEW g \in Gens, VerifyContainment(g)
      PROVE  TypeOK' /\ g \in Live /\ Verified(g) /\ UNCHANGED <<resources, actions, calls>>
  BY <1>5, VerifyEffect DEF VerifyContainment, Verified, TypeOK, counters
<1>6. ASSUME NEW g \in Gens, NEW r \in Resources, AuthorizeRelease(r, g)
      PROVE  TypeOK' /\ Released(r, g) /\ UNCHANGED <<actions, calls>>
  BY <1>6, ReleaseEffect DEF AuthorizeRelease, Released, TypeOK, counters
<1>7. CASE UNCHANGED vars
  <2>1. TypeOK' /\ UNCHANGED <<containments, faults, resources>>
    BY <1>7 DEF vars, TypeOK
  <2> QED BY <2>1, NothingMoves DEF Quiet
<1> QED BY <1>1, <1>2, <1>3, <1>4, <1>5, <1>6, <1>7 DEF Next, FaultNext

(* Type correctness of the engine, for every topology, radius and number   *)
(* of faults, containments and concurrent dispatch calls.                  *)
THEOREM TypeCorrect == Spec => []TypeOK
<1>1. TypeOK /\ [Next]_vars => TypeOK'
  BY StepKinds
<1> QED BY <1>1, TypeInit, PTL DEF Spec

-----------------------------------------------------------------------------
(* The inductive invariant behind the two lifecycle theorems: a resource   *)
(* that was removed left no quarantine behind, quarantine and containments *)
(* agree, and every live containment is the current one of its fault.      *)
LifecycleInv ==
    /\ \A r \in Resources : ~resources[r].registered => ~resources[r].quarantined
    /\ QuarantineMatchesContainments
    /\ \A g \in Live : faults[containments[g].fault].containment = g

LEMMA LifecycleInit == Init => LifecycleInv
<1> SUFFICES ASSUME Init PROVE LifecycleInv
  OBVIOUS
<1>1. Live = {}
  BY DEF Init, Live, IsLive, NoContainment
<1>2. /\ Unregistered.quarantined = FALSE /\ Unregistered.seized = FALSE
      /\ Healthy.quarantined = FALSE /\ Healthy.seized = FALSE
  BY DEF Unregistered, Healthy
<1>3. \A r \in Resources : resources[r] \in {Unregistered, Healthy}
  BY DEF Init
<1>4. \A r \in Resources : ~resources[r].quarantined /\ ~resources[r].seized
  BY <1>2, <1>3
<1> QED BY <1>1, <1>4 DEF LifecycleInv, QuarantineMatchesContainments

LEMMA QuietLifecycle ==
    ASSUME TypeOK, TypeOK', LifecycleInv, Quiet
    PROVE  LifecycleInv'
<1>1. /\ Live' = Live /\ Live \subseteq Committed /\ Live \subseteq Gens
      /\ \A g \in Live : /\ containments'[g].fault = containments[g].fault
                         /\ containments'[g].mandatory = containments[g].mandatory
                         /\ containments[g].fault \in Faults
  BY CommittedType DEF Quiet, OnlyOutdated, Live, IsLive, Containment
<1>2. \A g \in Live' : faults'[containments'[g].fault].containment = g
  BY <1>1 DEF Quiet, FaultsKept, LifecycleInv
<1>3. \A r \in Resources : ~resources'[r].registered => ~resources'[r].quarantined
  BY DEF Quiet, QuarantineKept, LifecycleInv
<1>4. QuarantineMatchesContainments'
  <2> SUFFICES ASSUME NEW r \in Resources
               PROVE  resources'[r].quarantined <=>
                         resources'[r].seized \/ \E g \in Live' : r \in containments'[g].mandatory
    BY DEF QuarantineMatchesContainments
  <2>1. resources[r].quarantined <=>
           resources[r].seized \/ \E g \in Live : r \in containments[g].mandatory
    BY DEF LifecycleInv, QuarantineMatchesContainments
  <2>2. CASE /\ resources'[r].quarantined = resources[r].quarantined
             /\ resources'[r].seized = resources[r].seized
    BY <1>1, <2>1, <2>2
  <2>3. CASE resources'[r].quarantined /\ resources'[r].seized
    BY <2>3
  <2>4. CASE /\ resources'[r].quarantined = FALSE /\ resources'[r].seized = FALSE
             /\ ~resources[r].registered \/ \A g \in Live : r \notin containments[g].mandatory
    BY <1>1, <2>1, <2>4 DEF LifecycleInv
  <2> QED BY <2>2, <2>3, <2>4 DEF Quiet, QuarantineKept
<1> QED BY <1>2, <1>3, <1>4 DEF LifecycleInv

LEMMA AuthorizeLifecycle ==
    ASSUME TypeOK, TypeOK', LifecycleInv, NEW f \in Faults, NEW gen \in Gens \ Committed,
           NEW mandatory \in SUBSET Registered, Authorized(f, gen, mandatory)
    PROVE  LifecycleInv'
<1>1. /\ Live' = Live \cup {gen} /\ gen \notin Live /\ Live \subseteq Committed /\ Live \subseteq Gens
      /\ \A g \in Live : /\ containments'[g].fault = containments[g].fault
                         /\ containments'[g].mandatory = containments[g].mandatory
                         /\ containments[g].fault \in Faults
      /\ containments'[gen].fault = f /\ containments'[gen].mandatory = mandatory
  BY CommittedType DEF Authorized, Live, IsLive, Containment
<1>2. \A g \in Live' : faults'[containments'[g].fault].containment = g
  <2>1. faults' = [faults EXCEPT ![f] = [state |-> "CONTAINMENT_IN_PROGRESS", containment |-> gen]]
    BY DEF Authorized
  <2>2. \A g \in Live : containments[g].fault # f
    <3> SUFFICES ASSUME NEW g \in Live, containments[g].fault = f PROVE FALSE
      OBVIOUS
    <3>1. faults[f].containment = g
      BY DEF LifecycleInv
    <3>2. g # 0
      <4>1. g \in Gens
        BY <1>1
      <4> QED BY <4>1, BoundAssumption DEF Gens
    <3>3. HasLiveContainment(f)
      BY <3>1, <3>2 DEF HasLiveContainment, Live
    <3> QED BY <3>3 DEF Authorized, CanAuthorize
  <2>3. \A g \in Live : faults'[containments'[g].fault].containment = g
    BY <1>1, <2>1, <2>2 DEF LifecycleInv, TypeOK
  <2>4. faults'[f].containment = gen
    BY <2>1 DEF TypeOK
  <2> QED BY <1>1, <2>3, <2>4
<1>3. \A r \in Resources : ~resources'[r].registered => ~resources'[r].quarantined
  BY DEF Authorized, LifecycleInv
<1>4. QuarantineMatchesContainments'
  <2> SUFFICES ASSUME NEW r \in Resources
               PROVE  resources'[r].quarantined <=>
                         resources'[r].seized \/ \E g \in Live' : r \in containments'[g].mandatory
    BY DEF QuarantineMatchesContainments
  <2>1. resources[r].quarantined <=>
           resources[r].seized \/ \E g \in Live : r \in containments[g].mandatory
    BY DEF LifecycleInv, QuarantineMatchesContainments
  <2>2. /\ resources'[r].quarantined <=> (r \in mandatory \/ resources[r].quarantined)
        /\ resources'[r].seized = resources[r].seized
    BY DEF Authorized
  <2> QED BY <1>1, <2>1, <2>2
<1> QED BY <1>2, <1>3, <1>4 DEF LifecycleInv

LEMMA VerifyLifecycle ==
    ASSUME TypeOK, TypeOK', LifecycleInv, NEW g \in Live, Verified(g), UNCHANGED resources
    PROVE  LifecycleInv'
<1>1. /\ Live' = Live /\ Live \subseteq Gens
      /\ \A h \in Live : /\ containments'[h].fault = containments[h].fault
                         /\ containments'[h].mandatory = containments[h].mandatory
                         /\ containments[h].fault \in Faults
  BY CommittedType DEF Verified, Live, IsLive, Containment, ContainmentStates
<1> QED BY <1>1 DEF LifecycleInv, QuarantineMatchesContainments, Verified

LEMMA ReleaseLifecycle ==
    ASSUME TypeOK, TypeOK', LifecycleInv, NEW r \in Resources, NEW g \in Gens,
           Released(r, g), AuthorizeRelease(r, g)
    PROVE  LifecycleInv'
<1> DEFINE left == containments[g].mandatory \ {r}
<1>1. /\ Live' = Live \ (IF left = {} THEN {g} ELSE {}) /\ Live \subseteq Committed
      /\ \A h \in Live : /\ containments'[h].fault = containments[h].fault
                         /\ containments[h].fault \in Faults
                         /\ h # g => containments'[h].mandatory = containments[h].mandatory
      /\ containments'[g].mandatory = left
  BY CommittedType DEF Released, Live, IsLive, Containment
<1>2. \A h \in Live' : faults'[containments'[h].fault].containment = h
  BY <1>1 DEF Released, LifecycleInv
<1>3. \A q \in Resources : ~resources'[q].registered => ~resources'[q].quarantined
  BY DEF Released, LifecycleInv
<1>4. QuarantineMatchesContainments'
  <2> SUFFICES ASSUME NEW q \in Resources
               PROVE  resources'[q].quarantined <=>
                         resources'[q].seized \/ \E h \in Live' : q \in containments'[h].mandatory
    BY DEF QuarantineMatchesContainments
  <2>1. resources[q].quarantined <=>
           resources[q].seized \/ \E h \in Live : q \in containments[h].mandatory
    BY DEF LifecycleInv, QuarantineMatchesContainments
  <2>2. CASE q = r
    <3>1. \A h \in Live \ {g} : r \notin containments[h].mandatory
      BY DEF AuthorizeRelease, ReleaseGranted
    <3> QED BY <1>1, <2>2, <3>1 DEF Released
  <2>3. CASE q # r
    <3>1. resources'[q] = resources[q]
      BY <2>3 DEF Released
    <3> QED BY <1>1, <2>1, <2>3, <3>1
  <2> QED BY <2>2, <2>3
<1> QED BY <1>2, <1>3, <1>4 DEF LifecycleInv

LEMMA LifecycleStep == TypeOK /\ LifecycleInv /\ [Next]_vars => LifecycleInv'
BY StepKinds, QuietLifecycle, AuthorizeLifecycle, VerifyLifecycle, ReleaseLifecycle

(* A resource is quarantined exactly while a live containment requires it  *)
(* fenced or an authority loss has seized it, whatever the interleaving of *)
(* overlapping containments, losses whose containment is refused, releases,*)
(* removals, registrations and restarts.                                   *)
THEOREM QuarantineAgrees == Spec => []QuarantineMatchesContainments
<1>1. TypeOK /\ [Next]_vars => TypeOK'
  BY StepKinds
<1>2. LifecycleInv => QuarantineMatchesContainments
  BY DEF LifecycleInv
<1> QED BY <1>1, <1>2, TypeInit, LifecycleInit, LifecycleStep, PTL DEF Spec

(* No fault has two live containments.                                     *)
THEOREM OneLiveContainment == Spec => []OneLiveContainmentPerFault
<1>1. TypeOK /\ [Next]_vars => TypeOK'
  BY StepKinds
<1>2. LifecycleInv => OneLiveContainmentPerFault
  BY DEF LifecycleInv, OneLiveContainmentPerFault
<1> QED BY <1>1, <1>2, TypeInit, LifecycleInit, LifecycleStep, PTL DEF Spec

-----------------------------------------------------------------------------
(* A release that is judged by a containment which covers the resource     *)
(* clears a fault only together with its last live containment.            *)
LEMMA ClearedStep ==
    ASSUME ~NamesAnyContainment
    PROVE  TypeOK /\ LifecycleInv /\ ClearedIsReleased /\ [Next]_vars => ClearedIsReleased'
<1> SUFFICES ASSUME TypeOK, LifecycleInv, ClearedIsReleased, [Next]_vars,
                    NEW h \in Live'
             PROVE  faults'[containments'[h].fault].state # "CLEARED"
  BY DEF ClearedIsReleased
<1>1. CASE Quiet
  <2>1. h \in Live /\ containments'[h].fault = containments[h].fault
        /\ containments[h].fault \in Faults
    BY <1>1, CommittedType DEF Quiet, OnlyOutdated, Live, IsLive, Containment
  <2> QED BY <1>1, <2>1 DEF Quiet, FaultsKept, ClearedIsReleased
<1>2. ASSUME NEW f \in Faults, NEW gen \in Gens \ Committed, NEW mandatory \in SUBSET Registered,
             Authorized(f, gen, mandatory)
      PROVE  faults'[containments'[h].fault].state # "CLEARED"
  <2>1. faults' = [faults EXCEPT ![f] = [state |-> "CONTAINMENT_IN_PROGRESS", containment |-> gen]]
        /\ containments'[gen].fault = f
    BY <1>2 DEF Authorized
  <2>2. CASE h = gen
    BY <2>1, <2>2 DEF TypeOK
  <2>3. CASE h # gen
    <3>1. h \in Live /\ containments'[h].fault = containments[h].fault
          /\ containments[h].fault \in Faults
      BY <1>2, <2>3, CommittedType DEF Authorized, Live, IsLive, Containment
    <3> QED BY <2>1, <3>1 DEF ClearedIsReleased, TypeOK
  <2> QED BY <2>2, <2>3
<1>3. ASSUME NEW g \in Live, Verified(g) PROVE faults'[containments'[h].fault].state # "CLEARED"
  <2>1. h \in Live /\ containments'[h].fault = containments[h].fault
        /\ containments[h].fault \in Faults
    BY <1>3, CommittedType DEF Verified, Live, IsLive, Containment
  <2> QED BY <1>3, <2>1 DEF Verified, ClearedIsReleased
<1>4. ASSUME NEW g \in Gens, NEW r \in Resources, Released(r, g), AuthorizeRelease(r, g)
      PROVE  faults'[containments'[h].fault].state # "CLEARED"
  <2>1. g \in Live
    BY <1>4 DEF AuthorizeRelease, JudgedBy, Covering
  <2>2. h \in Live /\ containments'[h].fault = containments[h].fault
        /\ containments[h].fault \in Faults
    BY <1>4, CommittedType DEF Released, Live, IsLive, Containment
  <2>3. containments[g].mandatory \ {r} = {} => h # g
    BY <1>4 DEF Released, Live, IsLive
  <2>4. h # g => containments[h].fault # containments[g].fault
    BY <2>1, <2>2 DEF LifecycleInv
  <2>5. faults'[containments[h].fault].state = faults[containments[h].fault].state
    BY <1>4, <2>2, <2>3, <2>4 DEF Released
  <2> QED BY <2>2, <2>5 DEF ClearedIsReleased
<1> QED BY <1>1, <1>2, <1>3, <1>4, StepKinds

(* A cleared fault has no live containment left, provided every release is *)
(* judged by a containment that covers the resource it releases; without   *)
(* that, MCContainmentEngine_stale_release refutes it.                     *)
THEOREM ClearedOnlyWhenReleased ==
    ASSUME ~NamesAnyContainment
    PROVE  Spec => []ClearedIsReleased
<1>1. TypeOK /\ [Next]_vars => TypeOK'
  BY StepKinds
<1>2. Init => ClearedIsReleased
  BY DEF Init, ClearedIsReleased, Live, IsLive, NoContainment
<1> QED BY <1>1, <1>2, TypeInit, LifecycleInit, LifecycleStep, ClearedStep, PTL DEF Spec

-----------------------------------------------------------------------------
(* The inductive invariant behind the theorems on dispatch and evidence:   *)
(* an uncommitted generation has planned nothing; a call that still has    *)
(* something to hand over was begun in this epoch; a verdict CONTAINED, on *)
(* which alone a containment is released, found every action settled with  *)
(* a recorded result.                                                      *)
DispatchInv ==
    /\ \A g \in Gens \ Committed, r \in Resources : actions[g][r].status = "NONE"
    /\ \A d \in Dispatchers : calls[d].containment # 0 /\ calls[d].todo # {} =>
          /\ calls[d].containment \in Committed
          /\ "epoch" \notin containments[calls[d].containment].moved
    /\ \A g \in Committed : containments[g].status = "RELEASED" => containments[g].outcome = "CONTAINED"
    /\ \A g \in Committed : containments[g].outcome = "CONTAINED" =>
          \A r \in Resources : actions[g][r].status \in {"NONE", "RESULT_RECORDED"}

SettledStates == {"NONE", "RESULT_RECORDED", "AMBIGUOUS", "SUPERSEDED", "REJECTED_INFEASIBLE"}

(* What a step does to the actions and to the calls in progress.           *)
LEMMA ActionSteps ==
    ASSUME TypeOK, [Next]_vars
    PROVE  \/ UNCHANGED <<actions, calls>>
           \/ \E f \in Faults, gen \in Gens \ Committed, mandatory \in SUBSET Registered :
                 Authorized(f, gen, mandatory) /\ UNCHANGED calls
           \/ \E d \in Dispatchers, g \in Gens : BeginDispatch(d, g)
           \/ \E d \in Dispatchers, r \in Resources : HandToExecutor(d, r)
           \/ \E d \in Dispatchers : FinishDispatch(d)
           \/ \E g \in Gens, r \in Resources, success \in BOOLEAN :
                 (RecordActionAck(g, r) \/ RecordActionResult(g, r, success)) /\ UNCHANGED calls
           \/ Restart
<1>1. CASE TopologyNext
  BY <1>1, TopologyQuiet
<1>2. ASSUME NEW f \in Faults, PublishFault(f) \/ SupersedeFault(f) PROVE UNCHANGED <<actions, calls>>
  BY <1>2, FaultQuiet
<1>3. ASSUME NEW f \in Faults, AuthorizeContainment(f)
      PROVE  UNCHANGED calls /\ \E gen \in Gens \ Committed, mandatory \in SUBSET Registered :
                Authorized(f, gen, mandatory)
  BY <1>3, AuthorizeEffect DEF AuthorizeContainment
<1>4. ASSUME NEW g \in Gens, VerifyContainment(g) PROVE UNCHANGED <<actions, calls>>
  BY <1>4 DEF VerifyContainment
<1>5. ASSUME NEW g \in Gens, NEW r \in Resources, AuthorizeRelease(r, g)
      PROVE  UNCHANGED <<actions, calls>>
  BY <1>5 DEF AuthorizeRelease
<1>6. CASE DispatchNext
  <2>1. ASSUME NEW g \in Gens, NEW r \in Resources, RecordActionAck(g, r) PROVE UNCHANGED calls
    BY <2>1 DEF RecordActionAck
  <2>2. ASSUME NEW g \in Gens, NEW r \in Resources, NEW success \in Reports,
               RecordActionResult(g, r, success)
        PROVE  UNCHANGED calls /\ success \in BOOLEAN
    BY <2>2, BoundAssumption DEF RecordActionResult
  <2> QED BY <1>6, <2>1, <2>2 DEF DispatchNext
<1>7. CASE UNCHANGED vars
  BY <1>7 DEF vars
<1> QED BY <1>1, <1>2, <1>3, <1>4, <1>5, <1>6, <1>7 DEF Next, FaultNext

(* Nothing of a committed containment leaves a settled state: a recorded   *)
(* result, a refusal, a superseded and an AMBIGUOUS action stay as they    *)
(* are.                                                                    *)
LEMMA SettledStays ==
    ASSUME TypeOK, DispatchInv, [Next]_vars, NEW g \in Gens, NEW r \in Resources,
           actions[g][r].status \in SettledStates, actions[g][r].status = "NONE" => g \in Committed
    PROVE  actions'[g][r] = actions[g][r]
<1>1. ASSUME NEW f \in Faults, NEW gen \in Gens \ Committed, NEW mandatory \in SUBSET Registered,
             Authorized(f, gen, mandatory)
      PROVE  actions'[g][r] = actions[g][r]
  <2>1. g # gen
    BY DEF DispatchInv
  <2> QED BY <1>1, <2>1 DEF Authorized
<1>2. ASSUME NEW d \in Dispatchers, NEW h \in Gens, BeginDispatch(d, h)
      PROVE  actions'[g][r] = actions[g][r]
  <2>1. PICK valid \in SUBSET Resources : Begun(d, h, valid)
    BY <1>2, BeginDispatchEffect
  <2> QED BY <2>1 DEF Begun, SettledStates
<1>3. ASSUME NEW d \in Dispatchers, NEW q \in Resources, HandToExecutor(d, q)
      PROVE  actions'[g][r] = actions[g][r]
  BY <1>3 DEF HandToExecutor
<1>4. ASSUME NEW d \in Dispatchers, FinishDispatch(d) PROVE actions'[g][r] = actions[g][r]
  BY <1>4, FinishDispatchEffect DEF SettledStates
<1>5. ASSUME NEW h \in Gens, NEW q \in Resources, NEW success \in BOOLEAN,
             RecordActionAck(h, q) \/ RecordActionResult(h, q, success)
      PROVE  actions'[g][r] = actions[g][r]
  BY <1>5, AnswerEffect DEF SettledStates
<1>6. CASE Restart
  BY <1>6, RestartEffect DEF SettledStates
<1> QED BY <1>1, <1>2, <1>3, <1>4, <1>5, <1>6, ActionSteps

(* Only a restart outdates a plan's epoch, and a generation stays          *)
(* committed.                                                              *)
LEMMA EpochKept ==
    ASSUME TypeOK, [Next]_vars
    PROVE  /\ Committed \subseteq Committed'
           /\ ~Restart => \A g \in Committed :
                 "epoch" \in containments'[g].moved => "epoch" \in containments[g].moved
<1> DEFINE Kept == \A g \in Committed :
                     "epoch" \in containments'[g].moved => "epoch" \in containments[g].moved
<1>1. Committed \subseteq Committed'
  <2>1. CASE Quiet
    BY <2>1 DEF Quiet, OnlyOutdated, Committed
  <2>2. ASSUME NEW f \in Faults, NEW gen \in Gens \ Committed, NEW mandatory \in SUBSET Registered,
               Authorized(f, gen, mandatory)
        PROVE  Committed \subseteq Committed'
    BY <2>2 DEF Authorized, Committed
  <2>3. ASSUME NEW g \in Live, Verified(g) PROVE Committed \subseteq Committed'
    BY <2>3 DEF Verified, Committed, ContainmentStates
  <2>4. ASSUME NEW g \in Gens, NEW r \in Resources, Released(r, g) PROVE Committed \subseteq Committed'
    BY <2>4 DEF Released, Committed
  <2> QED BY <2>1, <2>2, <2>3, <2>4, StepKinds
<1>2. ASSUME containments' = OutdatedBy("topology") \/ containments' = OutdatedBy("policy")
      PROVE  Kept
  <2>1. /\ \A g \in Committed : OutdatedBy("topology")[g].moved = containments[g].moved \cup {"topology"}
        /\ \A g \in Committed : OutdatedBy("policy")[g].moved = containments[g].moved \cup {"policy"}
    BY OutdatedType, CommittedType DEF Generations
  <2> QED BY <1>2, <2>1
<1>3. ASSUME UNCHANGED containments PROVE Kept
  BY <1>3
<1>4. CASE TopologyNext
  <2>1. containments' = OutdatedBy("topology") \/ containments' = OutdatedBy("policy")
    BY <1>4 DEF TopologyNext, RegisterResource, RemoveResource, SetResourceOwner, PublishEvidence,
                RegisterDependency, RemoveDependency, SetPolicy, TopologyMoves, AuthorityLost
  <2> QED BY <1>1, <1>2, <2>1
<1>5. ASSUME NEW f \in Faults, PublishFault(f) PROVE Kept
  <2> SUFFICES ASSUME NEW g \in Committed PROVE containments'[g].moved = containments[g].moved
    OBVIOUS
  <2>1. containments[g] \in Containment /\ g \in Gens
    BY CommittedType
  <2>2. \/ containments'[g] = [containments[g] EXCEPT !.since = @ \cup {f}]
        \/ containments'[g] = containments[g]
    BY <1>5, <2>1 DEF PublishFault
  <2> QED BY <2>1, <2>2 DEF Containment
<1>6. ASSUME NEW f \in Faults, SupersedeFault(f) PROVE UNCHANGED containments
  BY <1>6 DEF SupersedeFault
<1>7. ASSUME NEW f \in Faults, AuthorizeContainment(f) PROVE Kept
  <2>1. PICK gen \in Gens \ Committed, mandatory \in SUBSET Registered :
           Authorized(f, gen, mandatory)
    BY <1>7, AuthorizeEffect
  <2>2. \A g \in Committed : g \in Gens \ {gen}
    BY CommittedType
  <2> QED BY <2>1, <2>2 DEF Authorized
<1>8. CASE DispatchNext
  <2>1. UNCHANGED containments \/ containments' = OutdatedBy("topology")
    BY <1>8 DEF DispatchNext, BeginDispatch, HandToExecutor, FinishDispatch, RecordActionAck,
                RecordActionResult
  <2> QED BY <1>1, <1>2, <1>3, <2>1
<1>9. ASSUME NEW g \in Gens, VerifyContainment(g) PROVE Kept
  <2>1. Verified(g)
    BY <1>9, VerifyEffect
  <2> QED BY <2>1, CommittedType DEF Verified
<1>10. ASSUME NEW g \in Gens, NEW r \in Resources, AuthorizeRelease(r, g) PROVE Kept
  <2>1. Released(r, g)
    BY <1>10, ReleaseEffect
  <2>2. \A h \in Committed : containments'[h].moved = containments[h].moved \cup {"topology"}
    BY <2>1 DEF Released
  <2> QED BY <2>2
<1>11. CASE UNCHANGED vars
  BY <1>1, <1>3, <1>11 DEF vars
<1> QED BY <1>1, <1>3, <1>4, <1>5, <1>6, <1>7, <1>8, <1>9, <1>10, <1>11 DEF Next, FaultNext

LEMMA DispatchInit == Init => DispatchInv
<1> SUFFICES ASSUME Init PROVE DispatchInv
  OBVIOUS
<1>1. Committed = {}
  BY DEF Init, Committed, NoContainment
<1>2. \A d \in Dispatchers : calls[d].containment = 0
  BY DEF Init, Idle
<1>3. \A g \in Gens, r \in Resources : actions[g][r].status = "NONE"
  BY DEF Init, NoAction
<1> QED BY <1>1, <1>2, <1>3 DEF DispatchInv

(* What verify_containment finds when its verdict is CONTAINED.            *)
LEMMA EvidencedStatuses ==
    ASSUME NEW g
    PROVE  (InStates(g, {"RESULT_RECORDED"}) = Targets(g))
              <=> \A r \in Resources : actions[g][r].status \in {"NONE", "RESULT_RECORDED"}
BY DEF InStates, Targets

LEMMA DispatchStep == TypeOK /\ DispatchInv /\ [Next]_vars => DispatchInv'
<1> SUFFICES ASSUME TypeOK, DispatchInv, [Next]_vars PROVE DispatchInv'
  OBVIOUS
<1>0. TypeOK' /\ Committed \subseteq Committed'
  BY StepKinds, EpochKept
<1>1. ASSUME NEW g \in Gens \ Committed', NEW r \in Resources
      PROVE  actions'[g][r].status = "NONE"
  <2>1. g \in Gens \ Committed /\ actions[g][r].status = "NONE"
    BY <1>0, <1>1 DEF DispatchInv
  <2>2. g \notin Live
    BY <2>1, CommittedType
  <2>3. ASSUME NEW f \in Faults, NEW gen \in Gens \ Committed, NEW mandatory \in SUBSET Registered,
               Authorized(f, gen, mandatory)
        PROVE  actions'[g][r] = actions[g][r]
    <3>1. gen \in Committed'
      BY <2>3 DEF Authorized, Committed
    <3> QED BY <1>1, <2>1, <2>3, <3>1 DEF Authorized
  <2>4. ASSUME NEW d \in Dispatchers, NEW h \in Gens, BeginDispatch(d, h)
        PROVE  actions'[g][r] = actions[g][r]
    <3>1. PICK valid \in SUBSET Resources : Begun(d, h, valid)
      BY <2>4, BeginDispatchEffect
    <3> QED BY <2>1, <3>1 DEF Begun
  <2>5. ASSUME NEW d \in Dispatchers, NEW q \in Resources, HandToExecutor(d, q)
        PROVE  actions'[g][r] = actions[g][r]
    BY <2>5 DEF HandToExecutor
  <2>6. ASSUME NEW d \in Dispatchers, FinishDispatch(d) PROVE actions'[g][r] = actions[g][r]
    BY <2>1, <2>6, FinishDispatchEffect
  <2>7. ASSUME NEW h \in Gens, NEW q \in Resources, NEW success \in BOOLEAN,
               RecordActionAck(h, q) \/ RecordActionResult(h, q, success)
        PROVE  actions'[g][r] = actions[g][r]
    BY <2>1, <2>7, AnswerEffect
  <2>8. CASE Restart
    BY <2>1, <2>8, RestartEffect
  <2> QED BY <2>1, <2>3, <2>4, <2>5, <2>6, <2>7, <2>8, ActionSteps
<1>2. ASSUME NEW d \in Dispatchers, calls'[d].containment # 0, calls'[d].todo # {}
      PROVE  /\ calls'[d].containment \in Committed'
             /\ "epoch" \notin containments'[calls'[d].containment].moved
  <2> DEFINE Pinned(g) == g \in Committed /\ "epoch" \notin containments[g].moved
  <2>1. ASSUME NEW g, Pinned(g), ~Restart, calls'[d].containment = g
        PROVE  /\ calls'[d].containment \in Committed'
               /\ "epoch" \notin containments'[calls'[d].containment].moved
    BY <1>0, <2>1, EpochKept
  <2>2. ASSUME NEW e \in Dispatchers, NEW g \in Gens, BeginDispatch(e, g)
        PROVE  Pinned(calls'[d].containment)
    <3>1. PICK valid \in SUBSET Resources : Begun(e, g, valid)
      BY <2>2, BeginDispatchEffect
    <3>2. calls' = [calls EXCEPT ![e] = [containment |-> g, todo |-> valid,
                                         sent |-> {}, refused |-> {}]]
      BY <3>1 DEF Begun
    <3>3. CASE d = e
      <4>1. calls'[d].containment = g /\ calls'[d].todo = valid
        BY <3>2, <3>3 DEF TypeOK
      <4>2. g \in Committed
        BY <2>2, CommittedType DEF BeginDispatch
      <4> QED BY <1>2, <3>1, <4>1, <4>2 DEF Begun
    <3>4. CASE d # e
      BY <1>2, <3>2, <3>4 DEF DispatchInv, TypeOK
    <3> QED BY <3>3, <3>4
  <2>3. ASSUME NEW e \in Dispatchers, NEW q \in Resources, HandToExecutor(e, q)
        PROVE  Pinned(calls'[d].containment)
    <3>1. /\ calls'[d].containment = calls[d].containment
          /\ calls'[d].todo \subseteq calls[d].todo
      BY <2>3, HandEffect
    <3> QED BY <1>2, <3>1 DEF DispatchInv
  <2>4. ASSUME NEW e \in Dispatchers, FinishDispatch(e) PROVE Pinned(calls'[d].containment)
    BY <1>2, <2>4, FinishDispatchEffect DEF DispatchInv, TypeOK, Idle
  <2>5. ASSUME UNCHANGED calls PROVE Pinned(calls'[d].containment)
    BY <1>2, <2>5 DEF DispatchInv
  <2>6. CASE Restart
    BY <1>2, <2>6 DEF Restart, Idle
  <2> QED BY <2>1, <2>2, <2>3, <2>4, <2>5, <2>6, ActionSteps
<1>3. ASSUME NEW g \in Committed'
      PROVE  /\ containments'[g].status = "RELEASED" => containments'[g].outcome = "CONTAINED"
             /\ containments'[g].outcome = "CONTAINED" =>
                   \A r \in Resources : actions'[g][r].status \in {"NONE", "RESULT_RECORDED"}
  <2> DEFINE Judged == /\ containments'[g].status = "RELEASED" => containments'[g].outcome = "CONTAINED"
                       /\ containments'[g].outcome = "CONTAINED" =>
                             \A r \in Resources : actions[g][r].status \in {"NONE", "RESULT_RECORDED"}
             New == containments'[g].status = "COMMITTED" /\ containments'[g].outcome = "UNVERIFIED"
  <2>0. g \in Gens
    BY <1>3 DEF Committed
  <2>1. CASE g \in Committed
    <3>1. Judged
      <4>1. CASE Quiet
        BY <2>0, <2>1, <4>1 DEF Quiet, OnlyOutdated, DispatchInv
      <4>2. ASSUME NEW f \in Faults, NEW gen \in Gens \ Committed, NEW mandatory \in SUBSET Registered,
                   Authorized(f, gen, mandatory)
            PROVE  Judged
        BY <2>0, <2>1, <4>2 DEF Authorized, DispatchInv
      <4>3. ASSUME NEW h \in Live, Verified(h) PROVE Judged
        <5>1. CASE g = h
          <6>1. Outcome(g) = "CONTAINED" =>
                   \A r \in Resources : actions[g][r].status \in {"NONE", "RESULT_RECORDED"}
            BY OutcomeType, EvidencedStatuses DEF AllEvidenced
          <6> QED BY <4>3, <5>1, <6>1 DEF Verified
        <5>2. CASE g # h
          BY <2>0, <2>1, <4>3, <5>2 DEF Verified, DispatchInv
        <5> QED BY <5>1, <5>2
      <4>4. ASSUME NEW h \in Gens, NEW r \in Resources, Released(r, h), AuthorizeRelease(r, h)
            PROVE  Judged
        <5>1. containments[h].outcome = "CONTAINED"
          BY <4>4 DEF AuthorizeRelease, ReleaseGranted
        <5> QED BY <2>0, <2>1, <4>4, <5>1 DEF Released, DispatchInv
      <4> QED BY <4>1, <4>2, <4>3, <4>4, StepKinds
    <3>2. \A r \in Resources : actions[g][r].status \in {"NONE", "RESULT_RECORDED"}
             => actions'[g][r] = actions[g][r]
      BY <2>0, <2>1, SettledStays DEF SettledStates
    <3> QED BY <3>1, <3>2
  <2>2. CASE g \notin Committed
    <3>1. containments[g].status = "NONE" /\ containments'[g].status # "NONE"
      BY <1>3, <2>0, <2>2 DEF Committed
    <3>2. CASE Quiet
      BY <2>0, <3>1, <3>2 DEF Quiet, OnlyOutdated
    <3>3. ASSUME NEW f \in Faults, NEW gen \in Gens \ Committed, NEW mandatory \in SUBSET Registered,
                 Authorized(f, gen, mandatory)
          PROVE  New
      BY <2>0, <3>1, <3>3 DEF Authorized
    <3>4. ASSUME NEW h \in Live, Verified(h) PROVE FALSE
      BY <2>0, <2>2, <3>1, <3>4, CommittedType DEF Verified
    <3>5. ASSUME NEW h \in Gens, NEW r \in Resources, Released(r, h), AuthorizeRelease(r, h)
          PROVE  FALSE
      BY <2>0, <2>2, <3>1, <3>5 DEF Released, AuthorizeRelease
    <3> QED BY <3>2, <3>3, <3>4, <3>5, StepKinds
  <2> QED BY <2>1, <2>2
<1> QED BY <1>1, <1>2, <1>3 DEF DispatchInv

(* "ACKNOWLEDGED is not CONTAINED": a containment verified CONTAINED, or   *)
(* released, has a recorded result for every action it planned, whatever   *)
(* is dispatched, answered or restarted afterwards.                        *)
THEOREM ContainedHasEvidence == Spec => []ContainedIsEvidenced
<1>1. TypeOK /\ [Next]_vars => TypeOK'
  BY StepKinds
<1>2. DispatchInv => ContainedIsEvidenced
  BY EvidencedStatuses DEF DispatchInv, ContainedIsEvidenced
<1> QED BY <1>1, <1>2, TypeInit, DispatchInit, DispatchStep, PTL DEF Spec

-----------------------------------------------------------------------------
(* An AUTHORIZED action stays in the hands of a call until a call or a     *)
(* restart settles it.                                                     *)
LEMMA InHandStep == TypeOK /\ AuthorizedIsInHand /\ [Next]_vars => AuthorizedIsInHand'
<1> DEFINE Holds(d, g, r) == /\ calls[d].containment = g
                             /\ r \in calls[d].todo \cup calls[d].sent \cup calls[d].refused
           HoldsNext(d, g, r) == /\ calls'[d].containment = g
                                 /\ r \in calls'[d].todo \cup calls'[d].sent \cup calls'[d].refused
<1> SUFFICES ASSUME TypeOK, AuthorizedIsInHand, [Next]_vars,
                    NEW g \in Gens, NEW r \in Resources, actions'[g][r].status = "AUTHORIZED"
             PROVE  \E d \in Dispatchers : HoldsNext(d, g, r)
  BY DEF AuthorizedIsInHand, InStates, Targets
<1>1. ASSUME actions[g][r].status = "AUTHORIZED" PROVE \E d \in Dispatchers : Holds(d, g, r)
  BY <1>1 DEF AuthorizedIsInHand, InStates, Targets
<1>2. CASE UNCHANGED <<actions, calls>>
  BY <1>1, <1>2
<1>3. ASSUME NEW f \in Faults, NEW gen \in Gens \ Committed, NEW mandatory \in SUBSET Registered,
             Authorized(f, gen, mandatory), UNCHANGED calls
      PROVE  \E d \in Dispatchers : HoldsNext(d, g, r)
  <2>1. actions'[g][r] = actions[g][r]
    BY <1>3 DEF Authorized
  <2> QED BY <1>1, <1>3, <2>1
<1>4. ASSUME NEW d \in Dispatchers, NEW h \in Gens, BeginDispatch(d, h)
      PROVE  \E e \in Dispatchers : HoldsNext(e, g, r)
  <2>1. PICK valid \in SUBSET Resources : Begun(d, h, valid)
    BY <1>4, BeginDispatchEffect
  <2>2. calls' = [calls EXCEPT ![d] = [containment |-> h, todo |-> valid, sent |-> {}, refused |-> {}]]
        /\ calls[d].containment = 0
    BY <1>4, <2>1 DEF Begun, BeginDispatch
  <2>3. CASE g = h
    <3>1. r \in valid
      BY <2>1, <2>3 DEF Begun
    <3>2. calls'[d].containment = g /\ calls'[d].todo = valid
      BY <2>2, <2>3 DEF TypeOK
    <3> QED BY <3>1, <3>2
  <2>4. CASE g # h
    <3>1. actions[g][r].status = "AUTHORIZED"
      BY <2>1, <2>4 DEF Begun
    <3>2. PICK e \in Dispatchers : Holds(e, g, r)
      BY <1>1, <3>1
    <3>3. e # d
      BY <2>2, <3>2, BoundAssumption DEF Gens
    <3>4. calls'[e] = calls[e]
      BY <2>2, <3>3 DEF TypeOK
    <3> QED BY <3>2, <3>4
  <2> QED BY <2>3, <2>4
<1>5. ASSUME NEW d \in Dispatchers, NEW q \in Resources, HandToExecutor(d, q)
      PROVE  \E e \in Dispatchers : HoldsNext(e, g, r)
  <2>1. actions' = actions
    BY <1>5 DEF HandToExecutor
  <2>2. PICK e \in Dispatchers : Holds(e, g, r)
    BY <1>1, <2>1
  <2>3. HoldsNext(e, g, r)
    BY <1>5, <2>2, HandEffect
  <2> QED BY <2>3
<1>6. ASSUME NEW d \in Dispatchers, FinishDispatch(d)
      PROVE  \E e \in Dispatchers : HoldsNext(e, g, r)
  <2>1. /\ actions[g][r].status = "AUTHORIZED"
        /\ g # calls[d].containment \/ r \notin calls[d].sent \cup calls[d].refused
        /\ calls[d].todo = {} /\ calls' = [calls EXCEPT ![d] = Idle]
    BY <1>6, FinishDispatchEffect
  <2>2. PICK e \in Dispatchers : Holds(e, g, r)
    BY <1>1, <2>1
  <2>3. e # d
    BY <2>1, <2>2
  <2>4. calls'[e] = calls[e]
    BY <2>1, <2>3 DEF TypeOK
  <2> QED BY <2>2, <2>4
<1>7. ASSUME NEW h \in Gens, NEW q \in Resources, NEW success \in BOOLEAN,
             RecordActionAck(h, q) \/ RecordActionResult(h, q, success), UNCHANGED calls
      PROVE  \E d \in Dispatchers : HoldsNext(d, g, r)
  <2>1. actions[g][r].status = "AUTHORIZED"
    BY <1>7, AnswerEffect
  <2> QED BY <1>1, <1>7, <2>1
<1>8. CASE Restart
  BY <1>8, RestartEffect
<1> QED BY <1>2, <1>3, <1>4, <1>5, <1>6, <1>7, <1>8, ActionSteps

(* No AUTHORIZED action is left behind by a dispatch call that returned,   *)
(* by a second call for the same containment or by a restart.              *)
THEOREM AuthorizedAlwaysInHand == Spec => []AuthorizedIsInHand
<1>1. TypeOK /\ [Next]_vars => TypeOK'
  BY StepKinds
<1>2. Init => AuthorizedIsInHand
  <2>1. ASSUME Init, NEW g \in Gens, NEW r \in Resources PROVE actions[g][r].status = "NONE"
    BY <2>1 DEF Init, NoAction
  <2> QED BY <2>1 DEF AuthorizedIsInHand, InStates, Targets
<1> QED BY <1>1, <1>2, TypeInit, InHandStep, PTL DEF Spec

(* Nothing planned in an earlier epoch reaches an executor, and what became*)
(* AMBIGUOUS, was refused or was superseded is never dispatched again.     *)
THEOREM NeverRedispatchedAfterRestart == Spec => NeverRedispatched
<1> DEFINE Step == /\ \A d \in Dispatchers : HandedOver(d) # {} =>
                         "epoch" \notin containments[calls[d].containment].moved
                   /\ \A g \in Gens, r \in Resources :
                         actions[g][r].status \in {"AMBIGUOUS", "SUPERSEDED", "REJECTED_INFEASIBLE"}
                            => actions'[g][r] = actions[g][r]
<1>1. TypeOK /\ [Next]_vars => TypeOK'
  BY StepKinds
<1>2. TypeOK /\ DispatchInv /\ [Next]_vars => Step
  <2> SUFFICES ASSUME TypeOK, DispatchInv, [Next]_vars PROVE Step
    OBVIOUS
  <2>1. ASSUME NEW d \in Dispatchers, HandedOver(d) # {}
        PROVE  "epoch" \notin containments[calls[d].containment].moved
    <3>1. calls[d].containment # 0 /\ calls'[d].containment # 0 /\ calls'[d].sent \ calls[d].sent # {}
      BY <2>1 DEF HandedOver
    <3>2. ASSUME NEW e \in Dispatchers, NEW g \in Gens, BeginDispatch(e, g) PROVE FALSE
      <4>1. PICK valid \in SUBSET Resources : Begun(e, g, valid)
        BY <3>2, BeginDispatchEffect
      <4> QED BY <3>1, <3>2, <4>1 DEF Begun, BeginDispatch, TypeOK
    <3>3. ASSUME NEW e \in Dispatchers, NEW q \in Resources, HandToExecutor(e, q)
          PROVE  calls[d].todo # {}
      BY <3>1, <3>3, HandEffect
    <3>4. ASSUME NEW e \in Dispatchers, FinishDispatch(e) PROVE FALSE
      BY <3>1, <3>4, FinishDispatchEffect DEF TypeOK, Idle
    <3>5. ~Restart
      BY <3>1 DEF Restart, Idle
    <3>6. calls' # calls
      BY <3>1
    <3>7. calls[d].todo # {}
      BY <3>2, <3>3, <3>4, <3>5, <3>6, ActionSteps
    <3> QED BY <3>1, <3>7 DEF DispatchInv
  <2>2. ASSUME NEW g \in Gens, NEW r \in Resources,
               actions[g][r].status \in {"AMBIGUOUS", "SUPERSEDED", "REJECTED_INFEASIBLE"}
        PROVE  actions'[g][r] = actions[g][r]
    BY <2>2, SettledStays DEF SettledStates
  <2> QED BY <2>1, <2>2
<1>3. NeverRedispatched <=> [][Step]_vars
  BY DEF NeverRedispatched
<1> HIDE DEF Step
<1> QED BY <1>1, <1>2, <1>3, TypeInit, DispatchInit, DispatchStep, PTL DEF Spec

=============================================================================
