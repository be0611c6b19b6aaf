------------------------- MODULE BlastRadiusProofs -------------------------
(***************************************************************************)
(* The radius computation for every topology, rule and fault.              *)
(***************************************************************************)
EXTENDS BlastRadius, FiniteSetTheorems, TLAPS

-----------------------------------------------------------------------------
(* The inductive invariant *)

Untouched == pc = "start" => mandatory = {} /\ visited = {} /\ precautionary = {} /\ unresolved = {}

Begun == pc \notin {"start", "rejected"} =>
            input.subject \in input.known /\ Seeds(input) \subseteq mandatory

(* What is mandatory while the loop runs has been visited or waits on the frontier, and
   lies in every closed set that holds the seeds. *)
Looping == pc = "traverse" =>
            /\ mandatory = visited \cup frontier
            /\ \A S \in SUBSET Resources :
                  Seeds(input) \subseteq S /\ Closed(input, S) => mandatory \subseteq S

(* Every edge out of a visited resource has left its mark. *)
Followed == \A r \in visited :
            /\ Destinations(HardEdges(input, r)) \subseteq mandatory
            /\ Destinations(ConditionalEdges(input, r)) \subseteq precautionary
            /\ Destinations(UnknownEdges(input, r)) \subseteq mandatory \cup precautionary \cup unresolved

Pending == pc \in {"traverse", "escalate"} =>
            \A r \in visited : Destinations(UnknownEdges(input, r)) \subseteq mandatory \cup unresolved

Noted == pc = "escalate" => StaleMembers(input) \subseteq mandatory \cup unresolved

Escalated == pc \in {"expose", "classify", "select", "done"} /\ input.rule.fail_closed =>
            /\ input.rule.uncertainty = "CONTAIN_PREEMPTIVELY" => Doubtful \subseteq mandatory
            /\ input.rule.uncertainty = "BOUNDED_EXPOSURE" =>
                  Doubtful \subseteq mandatory \cup precautionary

Exposed == pc \in {"classify", "select", "done"} =>
            Cardinality((input.isolation \cap input.known) \ mandatory)
                <= input.rule.max_tolerated_exposure

Sorted == pc \in {"select", "done"} =>
            /\ radius.mandatory = mandatory
            /\ radius.precautionary = precautionary \ mandatory
            /\ radius.unresolved \cup radius.unaffected
                   = input.known \ (mandatory \cup precautionary)
            /\ radius.unresolved \cap radius.unaffected = {}
            /\ radius.unaffected \cap unresolved = {}
            /\ radius.unaffected \subseteq input.fresh

(* While the loop runs, and until the escalation, only doubtful resources are unresolved. *)
Marked == pc \in {"traverse", "escalate"} => unresolved \subseteq Doubtful

(* A mandatory resource that was not traversed was added by the escalation or the widening. *)
Accounted == pc \in {"escalate", "expose", "classify", "select", "done"} =>
            mandatory \subseteq visited \cup AddedLater

IInv == /\ TypeOK /\ Untouched /\ Begun /\ Looping /\ Followed /\ Pending /\ Noted
        /\ Marked /\ Accounted
        /\ Escalated /\ Exposed /\ Sorted /\ RadiusIsLeast /\ RecommendedIsLegal

-----------------------------------------------------------------------------
(* Edges lead to known resources, and an edge with weak evidence marks its destination
   unless that is or becomes mandatory. *)
LEMMA EdgeFacts ==
    ASSUME NEW in, NEW r, NEW I
    PROVE  /\ Destinations(HardEdges(in, r)) \subseteq in.known
           /\ Destinations(ConditionalEdges(in, r)) \subseteq in.known
           /\ MarkedUnresolved(in, r, I) \subseteq in.known
           /\ MarkedUnresolved(in, r, I) \subseteq Destinations(UnknownEdges(in, r))
           /\ Destinations(UnknownEdges(in, r))
                 \subseteq MarkedUnresolved(in, r, I) \cup I \cup Destinations(HardEdges(in, r))
BY DEF Destinations, HardEdges, ConditionalEdges, UnknownEdges, OutgoingOf, MarkedUnresolved

(* Seeds of an input whose subject is known are known. *)
LEMMA SeedsKnown ==
    ASSUME NEW in, in.subject \in in.known
    PROVE  Seeds(in) \subseteq in.known
BY DEF Seeds, SharedAuthority

(* The fields of a well typed input that the arguments below use. *)
LEMMA InputFacts ==
    ASSUME NEW in \in BlastRadiusInput
    PROVE  /\ in.known \subseteq Resources
           /\ in.isolation \subseteq Resources
           /\ in.rule.max_tolerated_exposure \in Nat
           /\ in.rule.fail_closed \in BOOLEAN
BY DEF BlastRadiusInput, FaultRules

(* Whatever the rule prefers, the recommended action is legal and not illegal. *)
LEMMA RecommendedFacts == Recommended \in LegalActions \ IllegalActions
BY DEF Recommended, LegalActions, IllegalActions

LEMMA ActionFacts == /\ LegalActions \in SUBSET ActionKinds
                     /\ IllegalActions \in SUBSET ActionKinds
BY DEF LegalActions, IllegalActions, ActionKinds

-----------------------------------------------------------------------------
LEMMA InitIInv == Init => IInv
<1> SUFFICES ASSUME Init PROVE IInv
    OBVIOUS
<1>1. input \in BlastRadiusInput
    BY InputsAssumption DEF Init
<1>2. TypeOK
    BY <1>1 DEF Init, TypeOK, EmptyRadius, ActionKinds
<1> QED
    BY <1>2 DEF Init, IInv, Untouched, Begun, Looping, Followed, Pending, Noted, Escalated,
                Exposed, Sorted, RadiusIsLeast, Traversed, RecommendedIsLegal, Marked, Accounted

LEMMA NextIInv == IInv /\ [Next]_vars => IInv'
<1> SUFFICES ASSUME IInv, [Next]_vars PROVE IInv'
    OBVIOUS
<1> USE DEF IInv
<1>a. /\ input.known \subseteq Resources
      /\ input.isolation \subseteq Resources
      /\ input.rule.max_tolerated_exposure \in Nat
      /\ input.rule.fail_closed \in BOOLEAN
    BY InputFacts DEF TypeOK
<1>b. \A r, I : /\ Destinations(HardEdges(input, r)) \subseteq input.known
                /\ Destinations(ConditionalEdges(input, r)) \subseteq input.known
                /\ MarkedUnresolved(input, r, I) \subseteq input.known
                /\ MarkedUnresolved(input, r, I) \subseteq Destinations(UnknownEdges(input, r))
                /\ Destinations(UnknownEdges(input, r))
                      \subseteq MarkedUnresolved(input, r, I) \cup I \cup Destinations(HardEdges(input, r))
    BY EdgeFacts
<1>1. CASE Reject
    BY <1>1 DEF Reject, TypeOK, Untouched, Begun, Looping, Followed, Pending, Noted, Escalated,
                Exposed, Sorted, RadiusIsLeast, Traversed, RecommendedIsLegal, Marked, Accounted
<1>2. CASE Seed
  <2>1. Seeds(input) \subseteq input.known
      BY <1>2, SeedsKnown DEF Seed
  <2>2. TypeOK'
      BY <1>2, <2>1 DEF Seed, TypeOK, Untouched
  <2>3. Looping'
      BY <1>2 DEF Seed, Looping, Untouched
  <2> QED
      BY <1>2, <2>2, <2>3
      DEF Seed, Untouched, Begun, Followed, Pending, Noted, Escalated, Exposed, Sorted,
          RadiusIsLeast, Traversed, RecommendedIsLegal, Marked, Accounted
<1>3. CASE Visit
  <2>0. PICK current \in frontier :
           /\ visited' = visited \cup {current}
           /\ IF current \in visited THEN Skip(current) ELSE Follow(current)
      BY <1>3 DEF Visit
  <2>2. pc = "traverse" /\ pc' = pc /\ input' = input /\ radius' = radius
      BY <1>3 DEF Visit
  <2>s. CASE current \in visited
    <3>1. /\ frontier' = frontier \ {current} /\ visited' = visited
          /\ UNCHANGED <<mandatory, precautionary, unresolved>>
        BY <2>0, <2>s DEF Skip, Popped
    <3>2. TypeOK' /\ Looping' /\ Followed' /\ Pending' /\ Begun'
        BY <2>s, <2>2, <3>1 DEF TypeOK, Looping, Followed, Pending, Begun
    <3>3. Marked'
        BY <2>2, <3>1 DEF Marked, Doubtful
    <3> QED
        BY <2>2, <3>2, <3>3 DEF Untouched, Noted, Escalated, Exposed, Sorted, RadiusIsLeast, Traversed,
            RecommendedIsLegal, Accounted
  <2> SUFFICES ASSUME current \notin visited PROVE IInv'
      BY <2>s
  <2>1. /\ visited' = visited \cup {current}
           /\ mandatory' = mandatory \cup Destinations(HardEdges(input, current))
           /\ frontier' = (frontier \ {current})
                             \cup (Destinations(HardEdges(input, current)) \ mandatory)
           /\ precautionary' = precautionary \cup Destinations(ConditionalEdges(input, current))
           /\ unresolved' = unresolved \cup MarkedUnresolved(input, current, mandatory)
      BY <2>0 DEF Follow, Popped
  <2>3. TypeOK'
      BY <1>b, <2>1, <2>2 DEF TypeOK
  <2>4. Looping'
    <3>1. mandatory' = visited' \cup frontier'
        BY <2>1, <2>2 DEF Looping
    <3>2. ASSUME NEW S \in SUBSET Resources, Seeds(input) \subseteq S, Closed(input, S)
          PROVE  mandatory' \subseteq S
      <4>1. mandatory \subseteq S
          BY <3>2, <2>2 DEF Looping
      <4>2. current \in S
          BY <4>1, <2>1 DEF TypeOK
      <4> QED
          BY <4>1, <4>2, <3>2, <2>1 DEF Closed
    <3> QED
        BY <3>1, <3>2, <2>2 DEF Looping
  <2>5. Followed'
      BY <1>b, <2>1, <2>2 DEF Followed
  <2>6. Pending'
      BY <1>b, <2>1, <2>2 DEF Pending
  <2>7. Begun'
      BY <2>1, <2>2 DEF Begun
  <2>8. Marked'
    <3>1. Doubtful' = Doubtful \cup Destinations(UnknownEdges(input, current))
        BY <2>1, <2>2 DEF Doubtful
    <3> QED
        BY <1>b, <2>1, <2>2, <3>1 DEF Marked
  <2> QED
      BY <2>2, <2>3, <2>4, <2>5, <2>6, <2>7, <2>8
      DEF Accounted, Untouched, Noted, Escalated, Exposed, Sorted, RadiusIsLeast, Traversed, RecommendedIsLegal
<1>4. CASE NoteUnresolvedMembers
  <2> USE <1>4 DEF NoteUnresolvedMembers
  <2>1. TypeOK'
      BY DEF TypeOK, StaleMembers
  <2>2. visited = mandatory
      BY DEF Looping
  <2>3. RadiusIsLeast'
      BY <2>2 DEF RadiusIsLeast, Looping, Begun, Followed, Closed
  <2>4. Followed' /\ Pending' /\ Noted' /\ Begun'
      BY DEF Followed, Pending, Noted, Begun
  <2>5. Marked'
    <3>1. Doubtful' = Doubtful
        BY DEF Doubtful
    <3> QED
        BY <3>1 DEF Marked, Doubtful
  <2>6. Accounted'
      BY <2>2 DEF Accounted
  <2> QED
      BY <2>1, <2>3, <2>4, <2>5, <2>6 DEF Untouched, Looping, Escalated, Exposed, Sorted, RecommendedIsLegal
<1>5. CASE Escalate
  <2> USE <1>5 DEF Escalate
  <2>1. TypeOK'
      BY DEF TypeOK
  <2>2. Begun' /\ Followed' /\ RadiusIsLeast'
      BY DEF Begun, Followed, RadiusIsLeast, Traversed
  <2>3. Doubtful \subseteq mandatory \cup unresolved
      BY DEF Doubtful, Pending, Noted
  <2>4. Doubtful' = Doubtful
      BY DEF Doubtful
  <2>5. Escalated'
      BY <2>3, <2>4 DEF Escalated
  <2>6. Accounted'
    <3>1. AddedLater' = AddedLater /\ visited' = visited
        BY <2>4 DEF AddedLater
    <3>2. mandatory' \subseteq mandatory \cup AddedLater
        BY DEF Marked, AddedLater
    <3> QED
        BY <3>1, <3>2 DEF Accounted
  <2> QED
      BY <2>1, <2>2, <2>5, <2>6 DEF Marked, Untouched, Looping, Pending, Noted, Exposed, Sorted, RecommendedIsLegal
<1>6. CASE LimitExposure
  <2> USE <1>6 DEF LimitExposure
  <2>1. TypeOK'
      BY DEF TypeOK
  <2>2. Begun' /\ Followed' /\ RadiusIsLeast'
      BY DEF Begun, Followed, RadiusIsLeast, Traversed
  <2>3. Doubtful' = Doubtful
      BY DEF Doubtful
  <2>4. Escalated'
      BY <2>3 DEF Escalated
  <2>5. Cardinality((input.isolation \cap input.known) \ mandatory') <= input.rule.max_tolerated_exposure
    <3>1. CASE Cardinality(input.isolation \ mandatory) > input.rule.max_tolerated_exposure
      <4>1. (input.isolation \cap input.known) \ mandatory' = {}
          BY <3>1
      <4> QED
          BY <4>1, <1>a, FS_EmptySet
    <3>2. CASE ~(Cardinality(input.isolation \ mandatory) > input.rule.max_tolerated_exposure)
      <4>1. mandatory' = mandatory
          BY <3>2
      <4>2. IsFiniteSet(input.isolation \ mandatory)
          BY <1>a, ResourcesAssumption, FS_Subset
      <4>3. /\ Cardinality((input.isolation \cap input.known) \ mandatory)
                  <= Cardinality(input.isolation \ mandatory)
            /\ IsFiniteSet((input.isolation \cap input.known) \ mandatory)
          BY <4>2, FS_Subset
      <4>4. /\ Cardinality(input.isolation \ mandatory) \in Nat
            /\ Cardinality((input.isolation \cap input.known) \ mandatory) \in Nat
          BY <4>2, <4>3, FS_CardinalityType
      <4> QED
          BY <4>1, <4>3, <4>4, <3>2, <1>a
    <3> QED
        BY <3>1, <3>2
  <2>6. Exposed'
      BY <2>5 DEF Exposed
  <2>7. Accounted'
    <3>1. AddedLater' = AddedLater /\ visited' = visited
        BY <2>3 DEF AddedLater
    <3>2. Cardinality(input.isolation \ mandatory) > input.rule.max_tolerated_exposure
              => Cardinality(input.isolation \ visited) > input.rule.max_tolerated_exposure
      <4>1. input.isolation \ mandatory \subseteq input.isolation \ visited
          BY DEF TypeOK
      <4>2. IsFiniteSet(input.isolation \ visited)
          BY <1>a, ResourcesAssumption, FS_Subset
      <4>3. /\ Cardinality(input.isolation \ mandatory) <= Cardinality(input.isolation \ visited)
            /\ IsFiniteSet(input.isolation \ mandatory)
          BY <4>1, <4>2, FS_Subset
      <4>4. /\ Cardinality(input.isolation \ mandatory) \in Nat
            /\ Cardinality(input.isolation \ visited) \in Nat
          BY <4>2, <4>3, FS_CardinalityType
      <4> QED
          BY <4>3, <4>4, <1>a
    <3>3. mandatory' \subseteq mandatory \cup AddedLater
        BY <3>2 DEF AddedLater
    <3> QED
        BY <3>1, <3>3 DEF Accounted
  <2> QED
      BY <2>1, <2>2, <2>4, <2>6, <2>7 DEF Marked, Untouched, Looping, Pending, Noted, Sorted, RecommendedIsLegal
<1>7. CASE Classify
  <2> USE <1>7 DEF Classify
  <2>1. /\ radius'.mandatory = mandatory
        /\ radius'.precautionary = precautionary \ mandatory
        /\ radius'.unresolved = (unresolved \cap (input.known \ (mandatory \cup precautionary)))
              \cup ((input.known \ (mandatory \cup precautionary)) \ input.fresh)
        /\ radius'.unaffected = (input.known \ (mandatory \cup precautionary)) \ radius'.unresolved
      BY DEF EmptyRadius
  <2>2. TypeOK'
      BY DEF TypeOK, EmptyRadius, ActionKinds
  <2>3. Begun' /\ Followed' /\ RadiusIsLeast' /\ Exposed'
      BY DEF Begun, Followed, RadiusIsLeast, Traversed, Exposed
  <2>4. Doubtful' = Doubtful
      BY DEF Doubtful
  <2>5. Escalated'
      BY <2>4 DEF Escalated
  <2>6. Sorted'
      BY <2>1 DEF Sorted
  <2>7. Accounted'
      BY <2>4 DEF Accounted, AddedLater
  <2> QED
      BY <2>2, <2>3, <2>5, <2>6, <2>7 DEF Marked, Untouched, Looping, Pending, Noted, RecommendedIsLegal
<1>8. CASE Select
  <2> USE <1>8 DEF Select
  <2>1. /\ radius'.mandatory = radius.mandatory
        /\ radius'.precautionary = radius.precautionary
        /\ radius'.unresolved = radius.unresolved
        /\ radius'.unaffected = radius.unaffected
        /\ radius'.legal = LegalActions
        /\ radius'.illegal = IllegalActions
        /\ radius'.recommended = Recommended
      BY DEF TypeOK
  <2>2. Recommended \in ActionKinds
      BY RecommendedFacts, ActionFacts
  <2>3. (radius.hard_constraints_satisfied /\ ~ProtectedBlocked) \in BOOLEAN
      OBVIOUS
  <2>4. TypeOK'
      BY <2>2, <2>3, ActionFacts DEF TypeOK
  <2>5. Begun' /\ Followed' /\ RadiusIsLeast' /\ Exposed'
      BY DEF Begun, Followed, RadiusIsLeast, Traversed, Exposed
  <2>6. Doubtful' = Doubtful
      BY DEF Doubtful
  <2>7. Escalated'
      BY <2>6 DEF Escalated
  <2>8. Sorted'
      BY <2>1 DEF Sorted
  <2>9. RecommendedIsLegal'
      BY <2>1, RecommendedFacts DEF RecommendedIsLegal
  <2>10. Accounted'
      BY <2>6 DEF Accounted, AddedLater
  <2> QED
      BY <2>4, <2>5, <2>7, <2>8, <2>9, <2>10 DEF Marked, Untouched, Looping, Pending, Noted
<1>9. CASE UNCHANGED vars
  <2>1. Doubtful' = Doubtful
      BY <1>9 DEF vars, Doubtful
  <2> QED
      BY <1>9, <2>1 DEF vars, Marked, Accounted, AddedLater, TypeOK, Untouched, Begun, Looping, Followed, Pending, Noted,
          Escalated, Exposed, Sorted, RadiusIsLeast, Traversed, RecommendedIsLegal
<1> QED
    BY <1>1, <1>2, <1>3, <1>4, <1>5, <1>6, <1>7, <1>8, <1>9 DEF Next

LEMMA InvariantHolds == Spec => []IInv
BY InitIInv, NextIInv, PTL DEF Spec

-----------------------------------------------------------------------------
(* Every state of the computation is well typed: in particular every resource it names is
   in the topology it was given, also when a domain still lists a removed member. *)
THEOREM TypeCorrect == Spec => []TypeOK
<1>1. IInv => TypeOK
    BY DEF IInv
<1> QED
    BY <1>1, InvariantHolds, PTL

(* The traversal ends with the least set that holds the subject and its co-members and is
   closed under propagation over hard edges, for every graph and every order of identities. *)
THEOREM RadiusLeast == Spec => []RadiusIsLeast
<1>1. IInv => RadiusIsLeast
    BY DEF IInv
<1> QED
    BY <1>1, InvariantHolds, PTL

(* An unaffected resource is fresh and sealed off from the contained set, but for the edges
   of members that were added after the traversal. *)
THEOREM UnaffectedSealed == Spec => []UnaffectedIsSealed
<1>1. IInv => UnaffectedIsSealed
  <2> SUFFICES ASSUME IInv, pc = "done", NEW u \in radius.unaffected
               PROVE  /\ u \in input.fresh
                      /\ \A r \in radius.mandatory :
                            \/ r \in AddedLater \ visited
                            \/ \A e \in OutgoingOf(input, r) :
                                  e.destination = u =>
                                      classify_propagation(input, e) \in {"IMPOSSIBLE", "BLOCKED"}
      BY DEF UnaffectedIsSealed
  <2>1. u \in input.fresh /\ u \notin mandatory \cup precautionary \cup unresolved
      BY DEF IInv, Sorted
  <2>2. ASSUME NEW r \in visited, NEW e \in OutgoingOf(input, r), e.destination = u
        PROVE  classify_propagation(input, e) \in {"IMPOSSIBLE", "BLOCKED"}
    <3>1. /\ u \notin Destinations(HardEdges(input, r))
          /\ u \notin Destinations(ConditionalEdges(input, r))
          /\ u \notin Destinations(UnknownEdges(input, r))
        BY <2>1, <2>2 DEF IInv, Followed
    <3>2. classify_propagation(input, e) \notin {"PROPAGATES", "UNKNOWN"}
        BY <2>2, <3>1 DEF Destinations, HardEdges, ConditionalEdges, UnknownEdges
    <3> QED
        BY <3>2 DEF classify_propagation
  <2>3. radius.mandatory \subseteq visited \cup AddedLater
      BY DEF IInv, Sorted, Accounted
  <2> QED
      BY <2>1, <2>2, <2>3
<1> QED
    BY <1>1, InvariantHolds, PTL

(* The buckets of the result divide the topology and the subject is mandatory. *)
THEOREM BucketsArePartition == Spec => []BucketsPartition
<1>1. IInv => BucketsPartition
  <2> SUFFICES ASSUME IInv, pc = "done" PROVE BucketsPartition
      BY DEF BucketsPartition
  <2>1. input.subject \in mandatory
      BY DEF IInv, Begun, Seeds
  <2>2. mandatory \subseteq input.known /\ precautionary \subseteq input.known
      BY DEF IInv, TypeOK
  <2> QED
      BY <2>1, <2>2 DEF IInv, Sorted, BucketsPartition
<1> QED
    BY <1>1, InvariantHolds, PTL

(* No more members of the isolation domain stay active than the rule tolerates. *)
THEOREM ExposureBounded == Spec => []ExposureIsBounded
<1>1. IInv => ExposureIsBounded
    BY DEF IInv, Exposed, Sorted, ExposureIsBounded
<1> QED
    BY <1>1, InvariantHolds, PTL

(* A fail-closed rule leaves nothing doubtful outside the radius it asks for. *)
THEOREM UnknownNotSafe == Spec => []UnknownIsNotSafe
<1>1. IInv => UnknownIsNotSafe
  <2> SUFFICES ASSUME IInv, pc = "done", input.rule.fail_closed PROVE UnknownIsNotSafe
      BY DEF UnknownIsNotSafe
  <2>1. radius.mandatory = mandatory /\ radius.precautionary = precautionary \ mandatory
      BY DEF IInv, Sorted
  <2> QED
      BY <2>1 DEF IInv, Escalated, UnknownIsNotSafe
<1> QED
    BY <1>1, InvariantHolds, PTL

(* The recommended action is legal, whatever the rule prefers. *)
THEOREM RecommendationLegal == Spec => []RecommendedIsLegal
<1>1. IInv => RecommendedIsLegal
    BY DEF IInv
<1> QED
    BY <1>1, InvariantHolds, PTL

=============================================================================
