---------------------------- MODULE CatalogProofs ----------------------------
(***************************************************************************)
(* Theorems about Catalog, for every set of resources, domains and         *)
(* dependencies and every bound.                                           *)
(***************************************************************************)
EXTENDS Catalog, TLAPS, FiniteSetTheorems, SequenceTheorems

(* A topology: a record with its four parts.                               *)
Fields == {"resources", "domains", "edges", "generation"}
IsTopology(cat) == DOMAIN cat = Fields /\ IsCatalog(cat)

IsResourceMap(map) ==
    /\ DOMAIN map \subseteq Resources
    /\ \A r \in DOMAIN map : map[r] \in ResourceRecord
IsDomainMap(map) ==
    /\ DOMAIN map \subseteq Domains
    /\ \A d \in DOMAIN map : map[d] \in DomainRecord

(* The generation a map holds for a key; a phantom has the one of a key    *)
(* that is absent.                                                         *)
Gen(map, x) == IF x \in DOMAIN map THEN map[x].generation ELSE 0

LEMMA KindFacts ==
    /\ \A k \in Kinds : NoDomain \notin DomainsOf[k] /\ DomainsOf[k] \subseteq Domains
    /\ \A k, j \in Kinds : k # j => DomainsOf[k] \cap DomainsOf[j] = {}
    /\ \A d \in Domains : \E k \in Kinds : d \in DomainsOf[k]
    /\ NoDomain \notin Domains
    /\ MaxGeneration \in Nat \ {0}
BY CatalogAssumption DEF Domains

LEMMA PlacementFacts ==
    ASSUME NEW at \in Placements
    PROVE  /\ at \in [Kinds -> Domains \cup {NoDomain}]
           /\ \A k \in Kinds : at[k] \in DomainsOf[k] \cup {NoDomain}
           /\ \A k \in Kinds : \A d \in DomainsOf[k] \cup {NoDomain} :
                 /\ [at EXCEPT ![k] = d] \in Placements
                 /\ [at EXCEPT ![k] = d][k] = d
                 /\ \A j \in Kinds : j # k => [at EXCEPT ![k] = d][j] = at[j]
BY KindFacts DEF Placements

(* Placing a record elsewhere changes nothing but that placement.          *)
LEMMA RecordPlaced ==
    ASSUME NEW rec \in ResourceRecord, NEW k \in Kinds, NEW d \in DomainsOf[k] \cup {NoDomain}
    PROVE  /\ [rec EXCEPT !.at[k] = d] \in ResourceRecord
           /\ [rec EXCEPT !.at[k] = d].generation = rec.generation
           /\ [rec EXCEPT !.at[k] = d].at[k] = d
           /\ \A j \in Kinds : j # k => [rec EXCEPT !.at[k] = d].at[j] = rec.at[j]
<1> DEFINE at == [rec.at EXCEPT ![k] = d]
<1>1. rec.at \in Placements
  BY DEF ResourceRecord
<1>2. at \in Placements /\ at[k] = d /\ \A j \in Kinds : j # k => at[j] = rec.at[j]
  BY <1>1, PlacementFacts
<1>3. [rec EXCEPT !.at[k] = d] = [rec EXCEPT !.at = at]
  OBVIOUS
<1> HIDE DEF at
<1> QED BY <1>2, <1>3 DEF ResourceRecord

LEMMA PlacedEffect ==
    ASSUME NEW map, IsResourceMap(map), NEW who, NEW k \in Kinds, NEW d \in DomainsOf[k]
    PROVE  /\ IsResourceMap(Placed(map, who, k, d))
           /\ DOMAIN Placed(map, who, k, d) = DOMAIN map
           /\ \A x \in DOMAIN map : Placed(map, who, k, d)[x].generation = map[x].generation
BY RecordPlaced DEF Placed, IsResourceMap

LEMMA PlacedAt ==
    ASSUME NEW map, IsResourceMap(map), NEW who, NEW k \in Kinds, NEW d \in DomainsOf[k],
           NEW x \in DOMAIN map, NEW j \in Kinds
    PROVE  Placed(map, who, k, d)[x].at[j] = IF x \in who /\ j = k THEN d ELSE map[x].at[j]
<1>1. Placed(map, who, k, d)[x] = IF x \in who THEN [map[x] EXCEPT !.at[k] = d] ELSE map[x]
  BY DEF Placed
<1>2. map[x] \in ResourceRecord
  BY DEF IsResourceMap
<1> QED BY <1>1, <1>2, RecordPlaced

LEMMA GenPlaced ==
    ASSUME NEW map, IsResourceMap(map), NEW who, NEW k \in Kinds, NEW d \in DomainsOf[k], NEW x
    PROVE  Gen(Placed(map, who, k, d), x) = Gen(map, x)
BY PlacedEffect DEF Gen

LEMMA PhantomType == Phantom \in ResourceRecord /\ Phantom.generation = 0
                     /\ \A k \in Kinds : Phantom.at[k] = NoDomain
BY KindFacts DEF Phantom, Nowhere, ResourceRecord, Placements

(* std::map::operator[] on the keys of a set adds phantoms.                *)
LEMMA TouchedEffect ==
    ASSUME NEW map, IsResourceMap(map), NEW who \in SUBSET Resources
    PROVE  /\ IsResourceMap(Touched(map, who)) /\ DOMAIN Touched(map, who) = DOMAIN map \cup who
           /\ \A x \in DOMAIN map : Touched(map, who)[x] = map[x]
           /\ \A x \in who \ DOMAIN map : Touched(map, who)[x] = Phantom
BY PhantomType DEF Touched, IsResourceMap

LEMMA DisplacedRecord ==
    ASSUME NEW map, IsResourceMap(map), NEW who \in SUBSET Resources,
           NEW k \in Kinds, NEW d \in DomainsOf[k],
           NEW x \in DOMAIN map \cup who
    PROVE  LET old == Touched(map, who)[x]
               new == Displaced(map, who, k, d)[x]
           IN  /\ new \in ResourceRecord /\ new.generation = old.generation
               /\ \A j \in Kinds : new.at[j] = IF x \in who /\ j = k /\ old.at[k] = d
                                                THEN NoDomain ELSE old.at[j]
<1> DEFINE old == Touched(map, who)[x]
<1>1. old \in ResourceRecord
  BY TouchedEffect DEF IsResourceMap
<1>2. Displaced(map, who, k, d)[x] =
         IF x \in who /\ old.at[k] = d THEN [old EXCEPT !.at[k] = NoDomain] ELSE old
  BY TouchedEffect DEF Displaced
<1> HIDE DEF old
<1> QED BY <1>1, <1>2, RecordPlaced DEF old

LEMMA DisplacedEffect ==
    ASSUME NEW map, IsResourceMap(map), NEW who \in SUBSET Resources,
           NEW k \in Kinds, NEW d \in DomainsOf[k]
    PROVE  /\ IsResourceMap(Displaced(map, who, k, d))
           /\ DOMAIN Displaced(map, who, k, d) = DOMAIN map \cup who
           /\ \A x \in DOMAIN map : Displaced(map, who, k, d)[x].generation = map[x].generation
<1>1. DOMAIN Displaced(map, who, k, d) = DOMAIN map \cup who
  BY TouchedEffect DEF Displaced
<1>2. \A x \in DOMAIN map \cup who : Displaced(map, who, k, d)[x] \in ResourceRecord
  BY DisplacedRecord
<1>3. ASSUME NEW x \in DOMAIN map
      PROVE  Displaced(map, who, k, d)[x].generation = map[x].generation
  <2>1. Touched(map, who)[x] = map[x]
    BY TouchedEffect
  <2> QED BY <2>1, DisplacedRecord
<1> QED BY <1>1, <1>2, <1>3 DEF IsResourceMap

LEMMA DisplacedAt ==
    ASSUME NEW map, IsResourceMap(map), NEW who \in SUBSET Resources,
           NEW k \in Kinds, NEW d \in DomainsOf[k],
           NEW x \in DOMAIN map, NEW j \in Kinds
    PROVE  Displaced(map, who, k, d)[x].at[j] =
              IF x \in who /\ j = k /\ map[x].at[k] = d THEN NoDomain ELSE map[x].at[j]
<1>1. Touched(map, who)[x] = map[x]
  BY TouchedEffect
<1> QED BY <1>1, DisplacedRecord

LEMMA GenDisplaced ==
    ASSUME NEW map, IsResourceMap(map), NEW who \in SUBSET Resources,
           NEW k \in Kinds, NEW d \in DomainsOf[k],
           NEW x
    PROVE  Gen(Displaced(map, who, k, d), x) = Gen(map, x)
<1>0. DOMAIN Displaced(map, who, k, d) = DOMAIN map \cup who
  BY DisplacedEffect
<1>1. CASE x \in who \ DOMAIN map
  <2>1. Touched(map, who)[x] = Phantom
    BY <1>1, TouchedEffect
  <2>2. Displaced(map, who, k, d)[x].generation = 0
    BY <1>1, <2>1, DisplacedRecord, PhantomType
  <2> QED BY <1>0, <1>1, <2>2 DEF Gen
<1>2. CASE x \in DOMAIN map
  <2>1. Displaced(map, who, k, d)[x].generation = map[x].generation
    BY <1>2, DisplacedEffect
  <2> QED BY <1>0, <1>2, <2>1 DEF Gen
<1>3. CASE x \notin DOMAIN map \cup who
  BY <1>0, <1>3 DEF Gen
<1> QED BY <1>1, <1>2, <1>3

(* A resource that joins or leaves the domains of a placement.             *)
LEMMA JoinEffect ==
    ASSUME NEW map, IsDomainMap(map), NEW r \in Resources, NEW at \in Placements
    PROVE  /\ IsDomainMap(Join(map, r, at)) /\ DOMAIN Join(map, r, at) = DOMAIN map
           /\ \A d \in DOMAIN map : Join(map, r, at)[d].generation = map[d].generation
BY DEF Join, IsDomainMap, DomainRecord

LEMMA JoinMembers ==
    ASSUME NEW map, IsDomainMap(map), NEW r \in Resources, NEW at \in Placements,
           NEW k \in Kinds, NEW d \in DomainsOf[k] \cap DOMAIN map
    PROVE  Join(map, r, at)[d].members = IF at[k] = d THEN map[d].members \cup {r} ELSE map[d].members
<1> DEFINE named == {at[j] : j \in Kinds}
           new == [map[d] EXCEPT !.members = @ \cup {r}]
<1>1. d \in named <=> at[k] = d
  BY PlacementFacts, KindFacts
<1>2. new.members = map[d].members \cup {r}
  BY DEF IsDomainMap, DomainRecord
<1>3. Join(map, r, at)[d] = IF d \in named THEN new ELSE map[d]
  BY DEF Join
<1> HIDE DEF named, new
<1> QED BY <1>1, <1>2, <1>3

LEMMA GenJoin ==
    ASSUME NEW map, IsDomainMap(map), NEW r \in Resources, NEW at \in Placements, NEW x
    PROVE  Gen(Join(map, r, at), x) = Gen(map, x)
BY JoinEffect DEF Gen

LEMMA LeaveEffect ==
    ASSUME NEW map, IsDomainMap(map), NEW r \in Resources, NEW at \in Placements
    PROVE  /\ IsDomainMap(Leave(map, r, at)) /\ DOMAIN Leave(map, r, at) = DOMAIN map
           /\ \A d \in DOMAIN map : Leave(map, r, at)[d].generation = map[d].generation
BY DEF Leave, IsDomainMap, DomainRecord

LEMMA LeaveMembers ==
    ASSUME NEW map, IsDomainMap(map), NEW r \in Resources, NEW at \in Placements,
           NEW k \in Kinds, NEW d \in DomainsOf[k] \cap DOMAIN map
    PROVE  Leave(map, r, at)[d].members = IF at[k] = d THEN map[d].members \ {r} ELSE map[d].members
<1> DEFINE named == {at[j] : j \in Kinds}
           new == [map[d] EXCEPT !.members = @ \ {r}]
<1>1. d \in named <=> at[k] = d
  BY PlacementFacts, KindFacts
<1>2. new.members = map[d].members \ {r}
  BY DEF IsDomainMap, DomainRecord
<1>3. Leave(map, r, at)[d] = IF d \in named THEN new ELSE map[d]
  BY DEF Leave
<1> HIDE DEF named, new
<1> QED BY <1>1, <1>2, <1>3

LEMMA GenLeave ==
    ASSUME NEW map, IsDomainMap(map), NEW r \in Resources, NEW at \in Placements, NEW x
    PROVE  Gen(Leave(map, r, at), x) = Gen(map, x)
BY LeaveEffect DEF Gen

(* Storing and erasing one key.                                            *)
LEMMA WithEffect ==
    ASSUME NEW map, NEW key, NEW value
    PROVE  /\ DOMAIN With(map, key, value) = DOMAIN map \cup {key}
           /\ With(map, key, value)[key] = value
           /\ \A x \in DOMAIN map : x # key => With(map, key, value)[x] = map[x]
BY DEF With

LEMMA GenWith ==
    ASSUME NEW map, NEW key, NEW value, NEW x
    PROVE  Gen(With(map, key, value), x) = IF x = key THEN value.generation ELSE Gen(map, x)
BY DEF With, Gen

LEMMA WithResource ==
    ASSUME NEW map, IsResourceMap(map), NEW key \in Resources, NEW value \in ResourceRecord
    PROVE  IsResourceMap(With(map, key, value))
BY DEF With, IsResourceMap

LEMMA WithDomain ==
    ASSUME NEW map, IsDomainMap(map), NEW key \in Domains, NEW value \in DomainRecord
    PROVE  IsDomainMap(With(map, key, value))
BY DEF With, IsDomainMap

LEMMA WithoutEffect ==
    ASSUME NEW map, NEW key
    PROVE  /\ DOMAIN Without(map, key) = DOMAIN map \ {key}
           /\ \A x \in DOMAIN map : x # key => Without(map, key)[x] = map[x]
           /\ IsResourceMap(map) => IsResourceMap(Without(map, key))
           /\ IsDomainMap(map) => IsDomainMap(Without(map, key))
BY DEF Without, IsResourceMap, IsDomainMap

LEMMA GenWithout ==
    ASSUME NEW map, NEW key, NEW x
    PROVE  Gen(Without(map, key), x) = IF x = key THEN 0 ELSE Gen(map, x)
BY DEF Without, Gen

(* An element of a concatenation.                                          *)
LEMMA ConcatAt ==
    ASSUME NEW S, NEW s \in Seq(S), NEW t \in Seq(S), NEW i \in 1..Len(s) + Len(t)
    PROVE  (s \o t)[i] = IF i <= Len(s) THEN s[i] ELSE t[i - Len(s)]
BY ConcatProperties

(* A walk over a finite set is a sequence that meets every element.        *)
LEMMA WalkFacts ==
    ASSUME NEW S, IsFiniteSet(S), NEW s \in SetToSeqs(S)
    PROVE  s \in Seq(S) /\ DOMAIN s = 1..Len(s) /\ \A x \in S : \E i \in 1..Len(s) : s[i] = x
<1> DEFINE n == Cardinality(S)
           image == {s[i] : i \in 1..n}
<1>1. n \in Nat
  BY FS_CardinalityType
<1>2. s \in [1..n -> S] /\ \A i, j \in 1..n : i # j => s[i] # s[j]
  BY DEF SetToSeqs
<1>3. s \in Seq(S) /\ Len(s) = n /\ DOMAIN s = 1..Len(s)
  BY <1>1, <1>2
<1>4. image \subseteq S
  BY <1>2
<1>5. s \in Bijection(1..n, image)
  BY <1>2 DEF Bijection, Injection, Surjection, IsInjective
<1>6. IsFiniteSet(1..n) /\ Cardinality(1..n) = n
  BY <1>1, FS_Interval
<1>7. IsFiniteSet(image) /\ Cardinality(image) = n
  BY <1>5, <1>6, FS_Bijection DEF ExistsBijection
<1>8. image = S
  BY <1>4, <1>7, FS_Subset
<1> QED BY <1>3, <1>8

-----------------------------------------------------------------------------
(* Journal records.                                                        *)
ResourceEvents == {"RESOURCE_UPSERT", "RESOURCE_REMOVE"}
DomainEvents == {"DOMAIN_UPSERT", "DOMAIN_REMOVE"}
EdgeEvents == {"DEPENDENCY_UPSERT", "DEPENDENCY_REMOVE"}
Event ==
    [kind : {"RESOURCE_UPSERT"}, id : Resources, value : ResourceRecord]
      \cup [kind : {"DOMAIN_UPSERT"}, id : Domains, value : DomainRecord]
      \cup [kind : {"RESOURCE_REMOVE"}, id : Resources]
      \cup [kind : {"DOMAIN_REMOVE"}, id : Domains]
      \cup [kind : EdgeEvents, id : Edges]
      \cup [kind : {"COUNTERS"}, generation : 1..MaxGeneration]

(* A record says of its subject what the topology it was staged for says.  *)
Agrees(event, cat) ==
    /\ event.kind = "RESOURCE_UPSERT" => event.value.generation = Gen(cat.resources, event.id)
    /\ event.kind = "RESOURCE_REMOVE" => Gen(cat.resources, event.id) = 0
    /\ event.kind = "DOMAIN_UPSERT" => event.value.generation = Gen(cat.domains, event.id)
    /\ event.kind = "DOMAIN_REMOVE" => Gen(cat.domains, event.id) = 0
    /\ event.kind = "DEPENDENCY_UPSERT" => event.id \in cat.edges
    /\ event.kind = "DEPENDENCY_REMOVE" => event.id \notin cat.edges
    /\ event.kind = "COUNTERS" => event.generation = cat.generation

Concerns(event, kinds, x) == event.kind \in kinds /\ event.id = x

(* Replaying a record brings its subject up to date and leaves the rest.   *)
LEMMA AppliedEffect ==
    ASSUME NEW cat, NEW goal, IsTopology(cat), NEW event \in Event, Agrees(event, goal)
    PROVE  /\ IsTopology(Applied(cat, event))
           /\ \A r : Gen(Applied(cat, event).resources, r) =
                        IF Concerns(event, ResourceEvents, r) THEN Gen(goal.resources, r)
                        ELSE Gen(cat.resources, r)
           /\ \A d : Gen(Applied(cat, event).domains, d) =
                        IF Concerns(event, DomainEvents, d) THEN Gen(goal.domains, d)
                        ELSE Gen(cat.domains, d)
           /\ \A e : e \in Applied(cat, event).edges <=>
                        IF Concerns(event, EdgeEvents, e) THEN e \in goal.edges ELSE e \in cat.edges
           /\ Applied(cat, event).generation =
                 IF event.kind = "COUNTERS" THEN goal.generation ELSE cat.generation
<1> DEFINE new == Applied(cat, event)
           R == cat.resources
           D == cat.domains
<1>0. IsResourceMap(R) /\ IsDomainMap(D) /\ DOMAIN cat = Fields
      /\ cat.edges \subseteq Edges /\ cat.generation \in 1..MaxGeneration
  BY DEF IsTopology, IsCatalog, IsResourceMap, IsDomainMap
<1>1. SUFFICES /\ DOMAIN new = Fields /\ IsResourceMap(new.resources) /\ IsDomainMap(new.domains)
               /\ new.edges \subseteq Edges /\ new.generation \in 1..MaxGeneration
               /\ \A r : Gen(new.resources, r) =
                            IF Concerns(event, ResourceEvents, r) THEN Gen(goal.resources, r)
                            ELSE Gen(R, r)
               /\ \A d : Gen(new.domains, d) =
                            IF Concerns(event, DomainEvents, d) THEN Gen(goal.domains, d)
                            ELSE Gen(D, d)
               /\ \A e : e \in new.edges <=>
                            IF Concerns(event, EdgeEvents, e) THEN e \in goal.edges
                            ELSE e \in cat.edges
               /\ new.generation = IF event.kind = "COUNTERS" THEN goal.generation
                                   ELSE cat.generation
  BY DEF IsTopology, IsCatalog, IsResourceMap, IsDomainMap
<1>2. CASE event.kind = "RESOURCE_UPSERT"
  <2>1. event.id \in Resources /\ event.value \in ResourceRecord
    BY <1>2 DEF Event, EdgeEvents
  <2>2. /\ new.resources = With(R, event.id, event.value) /\ new.domains = D
        /\ new.edges = cat.edges /\ new.generation = cat.generation /\ DOMAIN new = Fields
    BY <1>0, <1>2 DEF Applied, Fields
  <2> HIDE DEF new, R, D
  <2>3. /\ IsResourceMap(With(R, event.id, event.value))
        /\ \A x : Gen(With(R, event.id, event.value), x) =
                     IF x = event.id THEN event.value.generation ELSE Gen(R, x)
    <3>1. IsResourceMap(With(R, event.id, event.value))
      BY <1>0, <2>1, WithResource
    <3> QED BY <3>1, GenWith
  <2> QED BY <1>0, <1>2, <2>1, <2>2, <2>3
      DEF Agrees, Concerns, ResourceEvents, DomainEvents, EdgeEvents
<1>3. CASE event.kind = "RESOURCE_REMOVE"
  <2>1. /\ new.resources = Without(R, event.id) /\ new.domains = D
        /\ new.edges = cat.edges /\ new.generation = cat.generation /\ DOMAIN new = Fields
    BY <1>0, <1>3 DEF Applied, Fields
  <2> HIDE DEF new, R, D
  <2>2. /\ IsResourceMap(Without(R, event.id))
        /\ \A x : Gen(Without(R, event.id), x) = IF x = event.id THEN 0 ELSE Gen(R, x)
    BY <1>0, WithoutEffect, GenWithout
  <2> QED BY <1>0, <1>3, <2>1, <2>2
      DEF Agrees, Concerns, ResourceEvents, DomainEvents, EdgeEvents
<1>4. CASE event.kind = "DOMAIN_UPSERT"
  <2>1. event.id \in Domains /\ event.value \in DomainRecord
    BY <1>4 DEF Event, EdgeEvents
  <2>2. /\ new.domains = With(D, event.id, event.value) /\ new.resources = R
        /\ new.edges = cat.edges /\ new.generation = cat.generation /\ DOMAIN new = Fields
    BY <1>0, <1>4 DEF Applied, Fields
  <2> HIDE DEF new, R, D
  <2>3. /\ IsDomainMap(With(D, event.id, event.value))
        /\ \A x : Gen(With(D, event.id, event.value), x) =
                     IF x = event.id THEN event.value.generation ELSE Gen(D, x)
    <3>1. IsDomainMap(With(D, event.id, event.value))
      BY <1>0, <2>1, WithDomain
    <3> QED BY <3>1, GenWith
  <2> QED BY <1>0, <1>4, <2>1, <2>2, <2>3
      DEF Agrees, Concerns, ResourceEvents, DomainEvents, EdgeEvents
<1>5. CASE event.kind = "DOMAIN_REMOVE"
  <2>1. /\ new.domains = Without(D, event.id) /\ new.resources = R
        /\ new.edges = cat.edges /\ new.generation = cat.generation /\ DOMAIN new = Fields
    BY <1>0, <1>5 DEF Applied, Fields
  <2> HIDE DEF new, R, D
  <2>2. /\ IsDomainMap(Without(D, event.id))
        /\ \A x : Gen(Without(D, event.id), x) = IF x = event.id THEN 0 ELSE Gen(D, x)
    BY <1>0, WithoutEffect, GenWithout
  <2> QED BY <1>0, <1>5, <2>1, <2>2
      DEF Agrees, Concerns, ResourceEvents, DomainEvents, EdgeEvents
<1>6. CASE event.kind \in EdgeEvents
  <2>1. event.id \in Edges
    BY <1>6 DEF Event, EdgeEvents
  <2>2. /\ new.resources = R /\ new.domains = D /\ new.generation = cat.generation
        /\ DOMAIN new = Fields
        /\ new.edges = IF event.kind = "DEPENDENCY_UPSERT" THEN cat.edges \cup {event.id}
                       ELSE cat.edges \ {event.id}
    BY <1>0, <1>6 DEF Applied, Fields, EdgeEvents
  <2> HIDE DEF new, R, D
  <2> QED BY <1>0, <1>6, <2>1, <2>2
      DEF Agrees, Concerns, ResourceEvents, DomainEvents, EdgeEvents
<1>7. CASE event.kind = "COUNTERS"
  <2>1. event.generation \in 1..MaxGeneration
    BY <1>7 DEF Event, EdgeEvents
  <2>2. /\ new.resources = R /\ new.domains = D /\ new.edges = cat.edges
        /\ new.generation = event.generation /\ DOMAIN new = Fields
    BY <1>0, <1>7 DEF Applied, Fields
  <2> HIDE DEF new, R, D
  <2> QED BY <1>0, <1>7, <2>1, <2>2
      DEF Agrees, Concerns, ResourceEvents, DomainEvents, EdgeEvents
<1>8. \/ event.kind \in ResourceEvents \cup DomainEvents \cup EdgeEvents
      \/ event.kind = "COUNTERS"
  BY DEF Event, ResourceEvents, DomainEvents, EdgeEvents
<1> QED BY <1>2, <1>3, <1>4, <1>5, <1>6, <1>7, <1>8 DEF ResourceEvents, DomainEvents

-----------------------------------------------------------------------------
(* What every operation that commits does: the maps it stores, and the     *)
(* records it stages before the COUNTERS record.                           *)
Stored(resources, domains, edges, events) ==
    /\ memory'.resources = resources /\ memory'.domains = domains /\ memory'.edges = edges
    /\ memory'.generation = memory.generation + 1 /\ DOMAIN memory' = Fields
    /\ pending' = events \o <<Counters(memory.generation + 1)>>
    /\ UNCHANGED <<phase, durable, disk, journalled, cut, crashes>>
    /\ pristine' \in BOOLEAN /\ (pristine' => pristine)

(* What the ghost remembers of how careful the caller was.                 *)
Remembers(careful) == pristine' = (pristine /\ careful)

Domain(members) == [generation |-> memory.generation + 1, members |-> members]

LEMMA RegisterDomainStores ==
    ASSUME DOMAIN memory = Fields, NEW d, NEW members, RegisterDomain(d, members)
    PROVE  /\ Idle /\ d \notin DOMAIN memory.domains
           /\ Conflicts(d, members) = {} /\ Remembers(Known(members))
           /\ \E order \in InOrder(members \cap DOMAIN memory.resources) :
                 LET placed == Placed(memory.resources, members \cap DOMAIN memory.resources,
                                      "containment", d)
                 IN  Stored(placed, With(memory.domains, d, Domain(members)), memory.edges,
                            [i \in DOMAIN order |-> ResourceUpsert(order[i], placed[order[i]])]
                               \o <<DomainUpsert(d, Domain(members))>>)
BY DEF RegisterDomain, Commit, Stored, Remembers, Fields, Domain

LEMMA DeclareDomainStores ==
    ASSUME DOMAIN memory = Fields, NEW k, NEW d, NEW members, DeclareDomain(k, d, members)
    PROVE  /\ Idle /\ d \notin DOMAIN memory.domains
           /\ Remembers(Known(members) /\ Unplaced(k, d, members))
           /\ Stored(Placed(memory.resources, members, k, d),
                     With(memory.domains, d, Domain(members)), memory.edges,
                     <<DomainUpsert(d, Domain(members))>>)
BY DEF DeclareDomain, Commit, Stored, Remembers, Fields, Domain

LEMMA UpdateDomainStores ==
    ASSUME DOMAIN memory = Fields, NEW d, NEW members, UpdateDomain(d, members)
    PROVE  /\ Idle /\ d \in DOMAIN memory.domains /\ members \subseteq DOMAIN memory.resources
           /\ Remembers(Unplaced("containment", d, members))
           /\ Stored(Displaced(Placed(memory.resources, members, "containment", d),
                               memory.domains[d].members \ members, "containment", d),
                     With(memory.domains, d, Domain(members)), memory.edges,
                     <<DomainUpsert(d, Domain(members))>>)
BY DEF UpdateDomain, Commit, Stored, Remembers, Fields, Domain

LEMMA RemoveDomainStores ==
    ASSUME DOMAIN memory = Fields, NEW k, NEW d, RemoveDomain(k, d)
    PROVE  /\ Idle /\ d \in DOMAIN memory.domains /\ Remembers(TRUE)
           /\ Stored(Displaced(memory.resources, memory.domains[d].members, k, d),
                     Without(memory.domains, d), memory.edges, <<DomainRemove(d)>>)
BY DEF RemoveDomain, Commit, Stored, Remembers, Fields

LEMMA RegisterResourceStores ==
    ASSUME DOMAIN memory = Fields, NEW r, NEW at, RegisterResource(r, at)
    PROVE  /\ Idle /\ r \notin DOMAIN memory.resources
           /\ Found(at) /\ Remembers(TRUE)
           /\ Stored(With(memory.resources, r, [generation |-> 1, at |-> at]),
                     Join(memory.domains, r, at), memory.edges,
                     <<ResourceUpsert(r, [generation |-> 1, at |-> at])>>)
BY DEF RegisterResource, Commit, Stored, Remembers, Fields

(* The domains a placement leaves when it is replaced.                     *)
Moved(old, at) == [k \in Kinds |-> IF old[k] = at[k] THEN NoDomain ELSE old[k]]

LEMMA UpdateResourceStores ==
    ASSUME DOMAIN memory = Fields, NEW r, NEW at, UpdateResource(r, at)
    PROVE  LET next == [generation |-> memory.resources[r].generation + 1, at |-> at]
           IN  /\ Idle /\ r \in DOMAIN memory.resources /\ ~IsPhantom(memory.resources[r])
               /\ memory.resources[r].generation < MaxGeneration
               /\ Remembers(Found(at))
               /\ Stored(With(memory.resources, r, next),
                         Join(Leave(memory.domains, r, Moved(memory.resources[r].at, at)), r, at),
                         memory.edges, <<ResourceUpsert(r, next)>>)
BY DEF UpdateResource, Commit, Stored, Remembers, Fields, Moved

LEMMA RemoveResourceStores ==
    ASSUME DOMAIN memory = Fields, NEW r, RemoveResource(r)
    PROVE  /\ Idle /\ r \in DOMAIN memory.resources /\ Remembers(TRUE)
           /\ \E gone \in SetToSeqs(EdgesOf(r)) :
                 Stored(Without(memory.resources, r),
                        Leave(memory.domains, r, memory.resources[r].at),
                        memory.edges \ EdgesOf(r),
                        <<ResourceRemove(r)>> \o [i \in DOMAIN gone |-> DependencyRemove(gone[i])])
BY DEF RemoveResource, Commit, Stored, Remembers, Fields

LEMMA RegisterDependencyStores ==
    ASSUME DOMAIN memory = Fields, NEW e, RegisterDependency(e)
    PROVE  /\ Idle /\ {e[1], e[2]} \subseteq DOMAIN memory.resources /\ Remembers(TRUE)
           /\ Stored(memory.resources, memory.domains, memory.edges \cup {e},
                     <<DependencyUpsert(e)>>)
BY DEF RegisterDependency, Commit, Stored, Remembers, Fields

LEMMA RemoveDependencyStores ==
    ASSUME DOMAIN memory = Fields, NEW e, RemoveDependency(e)
    PROVE  /\ Idle /\ Remembers(TRUE)
           /\ Stored(memory.resources, memory.domains, memory.edges \ {e}, <<DependencyRemove(e)>>)
BY DEF RemoveDependency, Commit, Stored, Remembers, Fields

-----------------------------------------------------------------------------
(* Type correctness, with the records in flight.                           *)
TypeInv ==
    /\ phase \in {"up", "down", "refused"} /\ disk \in {"intact", "corrupt"}
    /\ IsTopology(memory) /\ IsTopology(durable)
    /\ {journalled, pristine, cut} \subseteq BOOLEAN
    /\ pending \in Seq(Event)

(* What an operation stages: records that agree with the topology it       *)
(* leaves, for everything of it whose generation or presence changed.      *)
Covered(events) ==
    /\ \A r \in Resources :
          \/ Gen(memory'.resources, r) = Gen(memory.resources, r)
          \/ \E i \in 1..Len(events) : Concerns(events[i], ResourceEvents, r)
    /\ \A d \in Domains :
          \/ Gen(memory'.domains, d) = Gen(memory.domains, d)
          \/ \E i \in 1..Len(events) : Concerns(events[i], DomainEvents, d)
    /\ \A e \in Edges :
          \/ e \in memory'.edges <=> e \in memory.edges
          \/ \E i \in 1..Len(events) : Concerns(events[i], EdgeEvents, e)

Staged(events) ==
    /\ phase = "up" /\ pending = <<>>
    /\ IsTopology(memory') /\ memory'.generation = memory.generation + 1
    /\ events \in Seq(Event)
    /\ \A i \in 1..Len(events) : Agrees(events[i], memory')
    /\ Covered(events)
    /\ pending' = events \o <<Counters(memory.generation + 1)>>
    /\ UNCHANGED <<phase, durable, disk, journalled, cut, crashes>>
    /\ pristine' \in BOOLEAN /\ (pristine' => pristine)
    /\ \A d \in Domains : Gen(memory'.domains, d) \in {Gen(memory.domains, d), 0, memory.generation + 1}

(* What is left to show of an operation, given what it stores.             *)
LEMMA StagedBy ==
    ASSUME TypeInv, Idle, NEW R, NEW D, NEW E, NEW events, Stored(R, D, E, events),
           IsResourceMap(R), IsDomainMap(D), E \subseteq Edges, events \in Seq(Event),
           \A i \in 1..Len(events) : Agrees(events[i], memory'),
           Covered(events),
           \A d \in Domains : Gen(D, d) \in {Gen(memory.domains, d), 0, memory.generation + 1}
    PROVE  Staged(events)
<1>1. memory.generation + 1 \in 1..MaxGeneration
  BY KindFacts DEF TypeInv, IsTopology, IsCatalog, Idle
<1> QED BY <1>1 DEF Staged, Stored, Idle, IsTopology, IsCatalog, IsResourceMap, IsDomainMap

(* A single record is staged.                                              *)
LEMMA OneStaged ==
    ASSUME TypeInv, Idle, NEW R, NEW D, NEW E, NEW event \in Event, Stored(R, D, E, <<event>>),
           IsResourceMap(R), IsDomainMap(D), E \subseteq Edges, Agrees(event, memory'),
           \A r \in Resources : Gen(R, r) = Gen(memory.resources, r)
                                   \/ Concerns(event, ResourceEvents, r),
           \A d \in Domains : Gen(D, d) = Gen(memory.domains, d) \/ Concerns(event, DomainEvents, d),
           \A e \in Edges : (e \in E <=> e \in memory.edges) \/ Concerns(event, EdgeEvents, e),
           \A d \in Domains : Gen(D, d) \in {Gen(memory.domains, d), 0, memory.generation + 1}
    PROVE  Staged(<<event>>)
<1> DEFINE events == <<event>>
<1>1. events \in Seq(Event) /\ Len(events) = 1 /\ events[1] = event
  OBVIOUS
<1>2. Stored(R, D, E, events)
  OBVIOUS
<1> HIDE DEF events
<1>3. \A i \in 1..Len(events) : i = 1
  BY <1>1
<1>4. memory'.resources = R /\ memory'.domains = D /\ memory'.edges = E
  BY <1>2 DEF Stored
<1>5. Covered(events)
  BY <1>1, <1>4 DEF Covered
<1>6. Staged(events)
  BY <1>1, <1>2, <1>3, <1>5, StagedBy
<1> QED BY <1>6 DEF events

LEMMA MapFacts ==
    ASSUME TypeInv
    PROVE  /\ DOMAIN memory = Fields
           /\ IsResourceMap(memory.resources) /\ IsDomainMap(memory.domains)
           /\ memory.edges \subseteq Edges /\ memory.generation \in Nat
           /\ \A d \in DOMAIN memory.domains : memory.domains[d].members \in SUBSET Resources
BY DEF TypeInv, IsTopology, IsCatalog, IsResourceMap, IsDomainMap, DomainRecord

(* The domain record an operation writes.                                  *)
LEMMA NewDomain ==
    ASSUME TypeInv, Idle, NEW members \in SUBSET Resources
    PROVE  /\ Domain(members) \in DomainRecord
           /\ Domain(members).generation = memory.generation + 1
           /\ Domain(members).members = members
BY KindFacts DEF TypeInv, IsTopology, IsCatalog, Idle, Domain, DomainRecord

(* A domain is declared, redefined or removed, and only that is journalled.*)
LEMMA DomainStored ==
    ASSUME TypeInv, Idle, NEW R, IsResourceMap(R),
           \A r \in Resources : Gen(R, r) = Gen(memory.resources, r),
           NEW d \in Domains, NEW members \in SUBSET Resources,
           Stored(R, With(memory.domains, d, Domain(members)), memory.edges,
                  <<DomainUpsert(d, Domain(members))>>)
    PROVE  Staged(<<DomainUpsert(d, Domain(members))>>)
<1> DEFINE event == DomainUpsert(d, Domain(members))
           D == With(memory.domains, d, Domain(members))
<1>1. /\ Domain(members) \in DomainRecord /\ Domain(members).generation = memory.generation + 1
  BY NewDomain
<1>2. /\ event \in Event /\ event.kind = "DOMAIN_UPSERT" /\ event.id = d
      /\ event.value = Domain(members)
  BY <1>1 DEF Event, DomainUpsert
<1>3. IsDomainMap(D)
  BY <1>1, MapFacts, WithDomain
<1>4. ASSUME NEW x PROVE Gen(D, x) = IF x = d THEN memory.generation + 1 ELSE Gen(memory.domains, x)
  BY <1>1, GenWith
<1>5. Stored(R, D, memory.edges, <<event>>)
  OBVIOUS
<1> HIDE DEF event, D
<1>6. memory'.domains = D
  BY <1>5 DEF Stored
<1>7. Agrees(event, memory')
  BY <1>1, <1>2, <1>4, <1>6 DEF Agrees
<1>8. Staged(<<event>>)
  <2>1. memory.edges \subseteq Edges
    BY MapFacts
  <2>2. \A x \in Domains : Gen(D, x) = Gen(memory.domains, x) \/ Concerns(event, DomainEvents, x)
    BY <1>2, <1>4 DEF Concerns, DomainEvents
  <2>3. \A x \in Domains : Gen(D, x) \in {Gen(memory.domains, x), 0, memory.generation + 1}
    BY <1>4
  <2> QED BY <1>2, <1>3, <1>5, <1>7, <2>1, <2>2, <2>3, OneStaged
<1> QED BY <1>8 DEF event

LEMMA DeclareDomainStaged ==
    ASSUME TypeInv, NEW k \in Kinds, NEW d \in DomainsOf[k], NEW members \in SUBSET Resources,
           DeclareDomain(k, d, members)
    PROVE  \E events : Staged(events)
<1> DEFINE R == Placed(memory.resources, members, k, d)
<1>1. d \in Domains /\ DOMAIN memory = Fields /\ IsResourceMap(memory.resources)
  BY KindFacts, MapFacts
<1>2. IsResourceMap(R) /\ \A r \in Resources : Gen(R, r) = Gen(memory.resources, r)
  BY <1>1, PlacedEffect, GenPlaced
<1>3. Idle /\ Stored(R, With(memory.domains, d, Domain(members)), memory.edges,
                     <<DomainUpsert(d, Domain(members))>>)
  BY <1>1, DeclareDomainStores
<1> HIDE DEF R
<1> QED BY <1>1, <1>2, <1>3, DomainStored

LEMMA UpdateDomainStaged ==
    ASSUME TypeInv, NEW d \in DomainsOf["containment"], NEW members \in SUBSET Resources,
           UpdateDomain(d, members)
    PROVE  \E events : Staged(events)
<1> DEFINE P == Placed(memory.resources, members, "containment", d)
           left == memory.domains[d].members \ members
           R == Displaced(P, left, "containment", d)
<1>0. "containment" \in Kinds
  BY DEF Kinds
<1>1. d \in Domains /\ DOMAIN memory = Fields /\ IsResourceMap(memory.resources)
  BY <1>0, KindFacts, MapFacts
<1>2. IsResourceMap(P) /\ \A r \in Resources : Gen(P, r) = Gen(memory.resources, r)
  BY <1>0, <1>1, PlacedEffect, GenPlaced
<1>3. Idle /\ d \in DOMAIN memory.domains
      /\ Stored(R, With(memory.domains, d, Domain(members)), memory.edges,
                <<DomainUpsert(d, Domain(members))>>)
  BY <1>1, UpdateDomainStores
<1>4. left \in SUBSET Resources
  BY <1>3, MapFacts
<1> HIDE DEF P, left
<1>5. IsResourceMap(R) /\ \A r \in Resources : Gen(R, r) = Gen(P, r)
  BY <1>0, <1>2, <1>4, DisplacedEffect, GenDisplaced
<1> HIDE DEF R
<1> QED BY <1>1, <1>2, <1>3, <1>5, DomainStored

LEMMA RemoveDomainStaged ==
    ASSUME TypeInv, NEW k \in Kinds, NEW d \in DomainsOf[k], RemoveDomain(k, d)
    PROVE  \E events : Staged(events)
<1> DEFINE R == Displaced(memory.resources, memory.domains[d].members, k, d)
           D == Without(memory.domains, d)
           event == DomainRemove(d)
<1>1. /\ d \in Domains /\ DOMAIN memory = Fields /\ IsResourceMap(memory.resources)
      /\ IsDomainMap(memory.domains) /\ memory.edges \subseteq Edges
  BY KindFacts, MapFacts
<1>2. Idle /\ d \in DOMAIN memory.domains /\ Stored(R, D, memory.edges, <<event>>)
  BY <1>1, RemoveDomainStores
<1>3. memory.domains[d].members \in SUBSET Resources
  BY <1>2, MapFacts
<1>4. IsResourceMap(R) /\ \A r \in Resources : Gen(R, r) = Gen(memory.resources, r)
  BY <1>1, <1>3, DisplacedEffect, GenDisplaced
<1>5. IsDomainMap(D) /\ \A x \in Domains : Gen(D, x) = IF x = d THEN 0 ELSE Gen(memory.domains, x)
  <2>1. IsDomainMap(D)
    BY <1>1, WithoutEffect
  <2> QED BY <2>1, GenWithout
<1>6. event \in Event /\ event.kind = "DOMAIN_REMOVE" /\ event.id = d
  BY <1>1 DEF Event, DomainRemove
<1> HIDE DEF R, D, event
<1>7. Agrees(event, memory')
  BY <1>1, <1>2, <1>5, <1>6 DEF Agrees, Stored
<1>8. \A x \in Domains : Gen(D, x) = Gen(memory.domains, x) \/ Concerns(event, DomainEvents, x)
  BY <1>5, <1>6 DEF Concerns, DomainEvents
<1>9. \A x \in Domains : Gen(D, x) \in {Gen(memory.domains, x), 0, memory.generation + 1}
  BY <1>5
<1> QED BY <1>1, <1>2, <1>4, <1>5, <1>6, <1>7, <1>8, <1>9, OneStaged

(* A resource is registered or updated, and only that is journalled.       *)
LEMMA ResourceStored ==
    ASSUME TypeInv, Idle, NEW r \in Resources, NEW rec \in ResourceRecord, NEW D, IsDomainMap(D),
           \A d \in Domains : Gen(D, d) = Gen(memory.domains, d),
           Stored(With(memory.resources, r, rec), D, memory.edges, <<ResourceUpsert(r, rec)>>)
    PROVE  Staged(<<ResourceUpsert(r, rec)>>)
<1> DEFINE event == ResourceUpsert(r, rec)
           R == With(memory.resources, r, rec)
<1>1. event \in Event /\ event.kind = "RESOURCE_UPSERT" /\ event.id = r /\ event.value = rec
  BY DEF Event, ResourceUpsert
<1>2. IsResourceMap(R)
  BY MapFacts, WithResource
<1>3. ASSUME NEW x PROVE Gen(R, x) = IF x = r THEN rec.generation ELSE Gen(memory.resources, x)
  BY GenWith
<1>4. Stored(R, D, memory.edges, <<event>>)
  OBVIOUS
<1> HIDE DEF event, R
<1>5. memory'.resources = R
  BY <1>4 DEF Stored
<1>6. Agrees(event, memory')
  BY <1>1, <1>3, <1>5 DEF Agrees
<1>7. memory.edges \subseteq Edges
  BY MapFacts
<1>8. \A x \in Resources : Gen(R, x) = Gen(memory.resources, x) \/ Concerns(event, ResourceEvents, x)
  BY <1>1, <1>3 DEF Concerns, ResourceEvents
<1>9. Staged(<<event>>)
  BY <1>1, <1>2, <1>4, <1>6, <1>7, <1>8, OneStaged
<1> QED BY <1>9 DEF event

LEMMA RegisterResourceStaged ==
    ASSUME TypeInv, NEW r \in Resources, NEW at \in Placements, RegisterResource(r, at)
    PROVE  \E events : Staged(events)
<1> DEFINE D == Join(memory.domains, r, at)
           rec == [generation |-> 1, at |-> at]
<1>1. DOMAIN memory = Fields /\ IsDomainMap(memory.domains)
  BY MapFacts
<1>2. Idle /\ Stored(With(memory.resources, r, rec), D, memory.edges, <<ResourceUpsert(r, rec)>>)
  BY <1>1, RegisterResourceStores
<1>3. rec \in ResourceRecord
  BY <1>2, KindFacts, MapFacts DEF ResourceRecord, Idle
<1>4. IsDomainMap(D)
  BY <1>1, JoinEffect
<1>5. \A d \in Domains : Gen(D, d) = Gen(memory.domains, d)
  BY <1>1, GenJoin
<1> HIDE DEF D, rec
<1> QED BY <1>2, <1>3, <1>4, <1>5, ResourceStored

LEMMA MovedType ==
    ASSUME NEW old \in Placements, NEW at \in Placements
    PROVE  /\ Moved(old, at) \in Placements
           /\ \A k \in Kinds : Moved(old, at)[k] = IF old[k] = at[k] THEN NoDomain ELSE old[k]
BY PlacementFacts DEF Moved, Placements

LEMMA UpdateResourceStaged ==
    ASSUME TypeInv, NEW r \in Resources, NEW at \in Placements, UpdateResource(r, at)
    PROVE  \E events : Staged(events)
<1> DEFINE left == Leave(memory.domains, r, Moved(memory.resources[r].at, at))
           D == Join(left, r, at)
           rec == [generation |-> memory.resources[r].generation + 1, at |-> at]
<1>1. DOMAIN memory = Fields /\ IsDomainMap(memory.domains)
  BY MapFacts
<1>2. /\ Idle /\ r \in DOMAIN memory.resources /\ memory.resources[r].generation < MaxGeneration
      /\ Stored(With(memory.resources, r, rec), D, memory.edges, <<ResourceUpsert(r, rec)>>)
  BY <1>1, UpdateResourceStores
<1>3. memory.resources[r] \in ResourceRecord
  BY <1>2, MapFacts DEF IsResourceMap
<1>4. rec \in ResourceRecord /\ Moved(memory.resources[r].at, at) \in Placements
  BY <1>2, <1>3, KindFacts, MovedType DEF ResourceRecord
<1>5. IsDomainMap(left) /\ \A d \in Domains : Gen(left, d) = Gen(memory.domains, d)
  BY <1>1, <1>4, LeaveEffect, GenLeave
<1> HIDE DEF left, rec
<1>6. IsDomainMap(D)
  BY <1>5, JoinEffect
<1>7. \A d \in Domains : Gen(D, d) = Gen(left, d)
  BY <1>5, GenJoin
<1> HIDE DEF D
<1> QED BY <1>2, <1>4, <1>5, <1>6, <1>7, ResourceStored

LEMMA DependencyStaged ==
    ASSUME TypeInv, NEW e \in Edges, RegisterDependency(e) \/ RemoveDependency(e)
    PROVE  \E events : Staged(events)
<1>0. /\ DOMAIN memory = Fields /\ IsResourceMap(memory.resources) /\ IsDomainMap(memory.domains)
      /\ memory.edges \subseteq Edges
  BY MapFacts
<1>1. CASE RegisterDependency(e)
  <2> DEFINE event == DependencyUpsert(e)
  <2>1. Idle /\ Stored(memory.resources, memory.domains, memory.edges \cup {e}, <<event>>)
    BY <1>0, <1>1, RegisterDependencyStores
  <2>2. event \in Event /\ event.kind = "DEPENDENCY_UPSERT" /\ event.id = e
    BY DEF Event, EdgeEvents, DependencyUpsert
  <2> HIDE DEF event
  <2>3. Agrees(event, memory')
    BY <2>1, <2>2 DEF Agrees, Stored
  <2>4. \A x \in Edges : (x \in memory.edges \cup {e} <=> x \in memory.edges)
                            \/ Concerns(event, EdgeEvents, x)
    BY <2>2 DEF Concerns, EdgeEvents
  <2> QED BY <1>0, <2>1, <2>2, <2>3, <2>4, OneStaged
<1>2. CASE RemoveDependency(e)
  <2> DEFINE event == DependencyRemove(e)
  <2>1. Idle /\ Stored(memory.resources, memory.domains, memory.edges \ {e}, <<event>>)
    BY <1>0, <1>2, RemoveDependencyStores
  <2>2. event \in Event /\ event.kind = "DEPENDENCY_REMOVE" /\ event.id = e
    BY DEF Event, EdgeEvents, DependencyRemove
  <2> HIDE DEF event
  <2>3. Agrees(event, memory')
    BY <2>1, <2>2 DEF Agrees, Stored
  <2>4. \A x \in Edges : (x \in memory.edges \ {e} <=> x \in memory.edges)
                            \/ Concerns(event, EdgeEvents, x)
    BY <2>2 DEF Concerns, EdgeEvents
  <2>5. memory.edges \ {e} \subseteq Edges
    BY <1>0
  <2> QED BY <1>0, <2>1, <2>2, <2>3, <2>4, <2>5, OneStaged
<1> QED BY <1>1, <1>2

(* remove_resource stages the removal of every dependency it takes along.  *)
LEMMA RemoveResourceStaged ==
    ASSUME TypeInv, NEW r \in Resources, RemoveResource(r)
    PROVE  \E events : Staged(events)
<1>0. /\ DOMAIN memory = Fields /\ IsResourceMap(memory.resources) /\ IsDomainMap(memory.domains)
      /\ memory.edges \subseteq Edges
  BY MapFacts
<1>1. /\ Idle /\ r \in DOMAIN memory.resources
      /\ \E gone \in SetToSeqs(EdgesOf(r)) :
            Stored(Without(memory.resources, r),
                   Leave(memory.domains, r, memory.resources[r].at), memory.edges \ EdgesOf(r),
                   <<ResourceRemove(r)>> \o [i \in DOMAIN gone |-> DependencyRemove(gone[i])])
  BY <1>0, RemoveResourceStores
<1>2. PICK gone \in SetToSeqs(EdgesOf(r)) :
            Stored(Without(memory.resources, r),
                   Leave(memory.domains, r, memory.resources[r].at), memory.edges \ EdgesOf(r),
                   <<ResourceRemove(r)>> \o [i \in DOMAIN gone |-> DependencyRemove(gone[i])])
  BY <1>1
<1> DEFINE R == Without(memory.resources, r)
           D == Leave(memory.domains, r, memory.resources[r].at)
           E == memory.edges \ EdgesOf(r)
           first == <<ResourceRemove(r)>>
           rest == [i \in DOMAIN gone |-> DependencyRemove(gone[i])]
           events == first \o rest
<1>3. EdgesOf(r) \subseteq memory.edges /\ EdgesOf(r) \subseteq Edges /\ IsFiniteSet(EdgesOf(r))
  <2>1. EdgesOf(r) \in SUBSET Edges /\ EdgesOf(r) \subseteq memory.edges
    BY <1>0 DEF EdgesOf
  <2> QED BY <2>1, FS_Subset, CatalogAssumption
<1>4. /\ gone \in Seq(EdgesOf(r)) /\ DOMAIN gone = 1..Len(gone)
      /\ \A e \in EdgesOf(r) : \E i \in 1..Len(gone) : gone[i] = e
  BY <1>3, WalkFacts
<1>5. /\ ResourceRemove(r) \in Event /\ ResourceRemove(r).kind = "RESOURCE_REMOVE"
      /\ ResourceRemove(r).id = r
  BY DEF Event, ResourceRemove
<1>6. ASSUME NEW e \in Edges
      PROVE  /\ DependencyRemove(e) \in Event /\ DependencyRemove(e).kind = "DEPENDENCY_REMOVE"
             /\ DependencyRemove(e).id = e
  BY DEF Event, EdgeEvents, DependencyRemove
<1>7. /\ rest \in Seq(Event) /\ Len(rest) = Len(gone)
      /\ \A i \in 1..Len(gone) : rest[i] = DependencyRemove(gone[i]) /\ gone[i] \in EdgesOf(r)
  <2>1. Len(gone) \in Nat /\ \A i \in 1..Len(gone) : gone[i] \in EdgesOf(r)
    BY <1>4
  <2>2. rest \in [1..Len(gone) -> Event]
    BY <1>3, <1>4, <1>6, <2>1
  <2>3. rest \in Seq(Event) /\ Len(rest) = Len(gone)
    BY <2>1, <2>2
  <2> QED BY <1>4, <2>1, <2>3
<1>8. first \in Seq(Event) /\ Len(first) = 1 /\ first[1] = ResourceRemove(r)
  BY <1>5
<1> HIDE DEF first, rest
<1>9. /\ events \in Seq(Event) /\ Len(events) = Len(gone) + 1 /\ events[1] = ResourceRemove(r)
      /\ \A i \in 1..Len(gone) : events[i + 1] = DependencyRemove(gone[i])
  <2>1. Len(gone) \in Nat
    BY <1>4
  <2>2. events \in Seq(Event) /\ Len(events) = Len(first) + Len(rest)
    BY <1>7, <1>8, ConcatProperties
  <2>3. Len(events) = Len(gone) + 1 /\ events[1] = ResourceRemove(r)
    <3>1. 1 \in 1..Len(first) + Len(rest) /\ 1 <= Len(first)
      BY <1>7, <1>8, <2>1
    <3>2. events[1] = first[1]
      BY <1>7, <1>8, <3>1, ConcatAt
    <3> QED BY <1>7, <1>8, <2>1, <2>2, <3>2
  <2>4. ASSUME NEW i \in 1..Len(gone) PROVE events[i + 1] = DependencyRemove(gone[i])
    <3> DEFINE j == i + 1
    <3>1. j \in 1..Len(first) + Len(rest) /\ ~(j <= Len(first)) /\ j - Len(first) = i
      BY <1>7, <1>8, <2>1
    <3> HIDE DEF j
    <3>2. events[j] = IF j <= Len(first) THEN first[j] ELSE rest[j - Len(first)]
      BY <1>7, <1>8, <3>1, ConcatAt
    <3>3. events[j] = rest[i]
      BY <3>1, <3>2
    <3> QED BY <1>7, <3>3 DEF j
  <2> QED BY <2>2, <2>3, <2>4
<1>10. Stored(R, D, E, events)
  BY <1>2 DEF first, rest
<1>11. IsResourceMap(R)
  BY <1>0, WithoutEffect
<1>12. ASSUME NEW x PROVE Gen(R, x) = IF x = r THEN 0 ELSE Gen(memory.resources, x)
  BY GenWithout
<1>13. IsDomainMap(D) /\ \A d \in Domains : Gen(D, d) = Gen(memory.domains, d)
  <2>1. memory.resources[r].at \in Placements
    BY <1>0, <1>1 DEF IsResourceMap, ResourceRecord
  <2> QED BY <1>0, <2>1, LeaveEffect, GenLeave
<1>14. E \subseteq Edges /\ (\A e \in EdgesOf(r) : e \notin E)
       /\ \A e \in Edges \ EdgesOf(r) : e \in E <=> e \in memory.edges
  BY <1>0
<1> HIDE DEF R, D, E, events
<1>15. memory'.resources = R /\ memory'.domains = D /\ memory'.edges = E
  BY <1>10 DEF Stored
<1>16. \A i \in 1..Len(events) : Agrees(events[i], memory')
  <2> SUFFICES ASSUME NEW i \in 1..Len(events) PROVE Agrees(events[i], memory')
    OBVIOUS
  <2>1. CASE i = 1
    BY <1>5, <1>9, <1>12, <1>15, <2>1 DEF Agrees
  <2>2. CASE i # 1
    <3>1. Len(gone) \in Nat
      BY <1>4
    <3>2. i - 1 \in 1..Len(gone) /\ i = (i - 1) + 1
      BY <1>9, <2>2, <3>1
    <3>3. events[i] = DependencyRemove(gone[i - 1]) /\ gone[i - 1] \in EdgesOf(r)
      BY <1>7, <1>9, <3>2
    <3>4. gone[i - 1] \in Edges /\ gone[i - 1] \notin memory'.edges
      BY <1>3, <1>14, <1>15, <3>3
    <3> QED BY <1>6, <3>3, <3>4 DEF Agrees
  <2> QED BY <2>1, <2>2
<1>17. Covered(events)
  <2>0. Len(gone) \in Nat /\ 1 \in 1..Len(events)
    BY <1>4, <1>9
  <2>1. ASSUME NEW x \in Resources, Gen(R, x) # Gen(memory.resources, x)
        PROVE  Concerns(events[1], ResourceEvents, x)
    BY <1>5, <1>9, <1>12, <2>1 DEF Concerns, ResourceEvents
  <2>2. ASSUME NEW e \in EdgesOf(r)
        PROVE  \E i \in 1..Len(events) : Concerns(events[i], EdgeEvents, e)
    <3>1. PICK i \in 1..Len(gone) : gone[i] = e
      BY <1>4
    <3>2. i + 1 \in 1..Len(events) /\ events[i + 1] = DependencyRemove(e)
      BY <1>9, <2>0, <3>1
    <3> QED BY <1>3, <1>6, <3>2 DEF Concerns, EdgeEvents
  <2>3. \A x \in Resources :
           \/ Gen(memory'.resources, x) = Gen(memory.resources, x)
           \/ \E i \in 1..Len(events) : Concerns(events[i], ResourceEvents, x)
    BY <1>15, <2>0, <2>1
  <2>4. \A e \in Edges :
           \/ e \in memory'.edges <=> e \in memory.edges
           \/ \E i \in 1..Len(events) : Concerns(events[i], EdgeEvents, e)
    <3> SUFFICES ASSUME NEW e \in Edges, e \notin EdgesOf(r)
                 PROVE  e \in memory'.edges <=> e \in memory.edges
      BY <2>2
    <3> QED BY <1>14, <1>15
  <2> QED BY <1>13, <1>15, <2>3, <2>4 DEF Covered
<1>18. Staged(events)
  BY <1>1, <1>9, <1>10, <1>11, <1>13, <1>14, <1>16, <1>17, StagedBy
<1> QED BY <1>18

(* register_domain stages the members it places and the domain.            *)
LEMMA RegisterDomainStaged ==
    ASSUME TypeInv, NEW d \in DomainsOf["containment"], NEW members \in SUBSET Resources,
           RegisterDomain(d, members)
    PROVE  \E events : Staged(events)
<1> DEFINE known == members \cap DOMAIN memory.resources
           R == Placed(memory.resources, known, "containment", d)
           D == With(memory.domains, d, Domain(members))
<1>0. /\ DOMAIN memory = Fields /\ IsResourceMap(memory.resources) /\ IsDomainMap(memory.domains)
      /\ memory.edges \subseteq Edges
      /\ "containment" \in Kinds /\ d \in Domains
  BY MapFacts, KindFacts DEF Kinds
<1>1. /\ Idle
      /\ \E order \in InOrder(known) :
            Stored(R, D, memory.edges,
                   [i \in DOMAIN order |-> ResourceUpsert(order[i], R[order[i]])]
                      \o <<DomainUpsert(d, Domain(members))>>)
  BY <1>0, RegisterDomainStores
<1>2. PICK order \in InOrder(known) :
            Stored(R, D, memory.edges,
                   [i \in DOMAIN order |-> ResourceUpsert(order[i], R[order[i]])]
                      \o <<DomainUpsert(d, Domain(members))>>)
  BY <1>1
<1> DEFINE rest == [i \in DOMAIN order |-> ResourceUpsert(order[i], R[order[i]])]
           event == DomainUpsert(d, Domain(members))
           last == <<event>>
           events == rest \o last
<1>3. known \in SUBSET Resources /\ known \subseteq DOMAIN memory.resources /\ IsFiniteSet(known)
  <2>1. known \in SUBSET Resources /\ known \subseteq DOMAIN memory.resources
    OBVIOUS
  <2> QED BY <2>1, FS_Subset, CatalogAssumption
<1>4. order \in Seq(known) /\ DOMAIN order = 1..Len(order)
  BY <1>3, WalkFacts DEF InOrder
<1>5. /\ Domain(members) \in DomainRecord /\ Domain(members).generation = memory.generation + 1
  BY <1>1, NewDomain
<1>6. /\ event \in Event /\ event.kind = "DOMAIN_UPSERT" /\ event.id = d
      /\ event.value = Domain(members)
  BY <1>0, <1>5 DEF Event, DomainUpsert
<1>7. IsResourceMap(R) /\ DOMAIN R = DOMAIN memory.resources
      /\ \A r \in Resources : Gen(R, r) = Gen(memory.resources, r)
  BY <1>0, PlacedEffect, GenPlaced
<1>8. IsDomainMap(D)
  BY <1>0, <1>5, WithDomain
<1>9. ASSUME NEW x PROVE Gen(D, x) = IF x = d THEN memory.generation + 1 ELSE Gen(memory.domains, x)
  BY <1>5, GenWith
<1> HIDE DEF known, R, D, event
<1>10. ASSUME NEW r \in known
       PROVE  /\ ResourceUpsert(r, R[r]) \in Event /\ ResourceUpsert(r, R[r]).kind = "RESOURCE_UPSERT"
              /\ ResourceUpsert(r, R[r]).id = r /\ ResourceUpsert(r, R[r]).value = R[r]
              /\ R[r].generation = Gen(R, r)
  <2>1. r \in DOMAIN R /\ r \in Resources /\ R[r] \in ResourceRecord
    BY <1>3, <1>7 DEF IsResourceMap
  <2> QED BY <2>1 DEF Event, ResourceUpsert, Gen
<1>11. /\ rest \in Seq(Event) /\ Len(rest) = Len(order) /\ Len(order) \in Nat
       /\ \A i \in 1..Len(order) : rest[i] = ResourceUpsert(order[i], R[order[i]])
                                   /\ order[i] \in known
  <2>1. Len(order) \in Nat /\ \A i \in 1..Len(order) : order[i] \in known
    BY <1>4
  <2>2. rest \in [1..Len(order) -> Event]
    BY <1>4, <1>10, <2>1
  <2>3. rest \in Seq(Event) /\ Len(rest) = Len(order)
    BY <2>1, <2>2
  <2> QED BY <1>4, <2>1, <2>3
<1>12. last \in Seq(Event) /\ Len(last) = 1 /\ last[1] = event
  BY <1>6
<1> HIDE DEF rest, last
<1>13. /\ events \in Seq(Event) /\ Len(events) = Len(order) + 1
       /\ \A i \in 1..Len(order) : events[i] = rest[i]
       /\ events[Len(order) + 1] = event
  <2>1. events \in Seq(Event) /\ Len(events) = Len(order) + 1
    BY <1>11, <1>12, ConcatProperties
  <2>2. ASSUME NEW i \in 1..Len(order) PROVE events[i] = rest[i]
    <3>1. i \in 1..Len(rest) + Len(last) /\ i <= Len(rest)
      BY <1>11, <1>12
    <3> QED BY <1>11, <1>12, <3>1, ConcatAt
  <2>3. events[Len(order) + 1] = last[1]
    <3>1. /\ Len(order) + 1 \in 1..Len(rest) + Len(last) /\ ~(Len(order) + 1 <= Len(rest))
          /\ (Len(order) + 1) - Len(rest) = 1
      BY <1>11, <1>12
    <3> QED BY <1>11, <1>12, <3>1, ConcatAt
  <2> QED BY <1>12, <2>1, <2>2, <2>3
<1>14. Stored(R, D, memory.edges, events)
  BY <1>2 DEF rest, last, event
<1> HIDE DEF events
<1>15. memory'.resources = R /\ memory'.domains = D /\ memory'.edges = memory.edges
  BY <1>14 DEF Stored
<1>16. \A i \in 1..Len(events) : Agrees(events[i], memory')
  <2> SUFFICES ASSUME NEW i \in 1..Len(events) PROVE Agrees(events[i], memory')
    OBVIOUS
  <2>1. CASE i = Len(order) + 1
    BY <1>5, <1>6, <1>9, <1>13, <1>15, <2>1 DEF Agrees
  <2>2. CASE i # Len(order) + 1
    <3>1. i \in 1..Len(order)
      BY <1>11, <1>13, <2>2
    <3>2. events[i] = ResourceUpsert(order[i], R[order[i]]) /\ order[i] \in known
      BY <1>11, <1>13, <3>1
    <3> QED BY <1>10, <1>15, <3>2 DEF Agrees
  <2> QED BY <2>1, <2>2
<1>17. Covered(events)
  <2>1. Len(order) + 1 \in 1..Len(events)
    BY <1>11, <1>13
  <2>2. ASSUME NEW x \in Domains, Gen(D, x) # Gen(memory.domains, x)
        PROVE  Concerns(events[Len(order) + 1], DomainEvents, x)
    BY <1>6, <1>9, <1>13, <2>2 DEF Concerns, DomainEvents
  <2>3. \A x \in Domains :
           \/ Gen(memory'.domains, x) = Gen(memory.domains, x)
           \/ \E i \in 1..Len(events) : Concerns(events[i], DomainEvents, x)
    BY <1>15, <2>1, <2>2
  <2> QED BY <1>7, <1>15, <2>3 DEF Covered
<1>18. \A x \in Domains : Gen(D, x) \in {Gen(memory.domains, x), 0, memory.generation + 1}
  BY <1>9
<1>19. Staged(events)
  BY <1>0, <1>1, <1>7, <1>8, <1>13, <1>14, <1>16, <1>17, <1>18, StagedBy
<1> QED BY <1>19

(* register_domain, when it is refused half-way: placements and the        *)
(* generation change in memory, nothing is staged.                         *)
Halfway(before, d) ==
    /\ Idle /\ IsTopology(memory') /\ memory'.generation = memory.generation + 1
    /\ memory'.resources = Placed(memory.resources, before, "containment", d)
    /\ memory'.domains = memory.domains /\ memory'.edges = memory.edges
    /\ pristine' = (pristine /\ before = {})
    /\ UNCHANGED <<phase, pending, durable, disk, journalled, cut, crashes>>

LEMMA RefuseDomainEffect ==
    ASSUME TypeInv, NEW d \in DomainsOf["containment"], NEW members \in SUBSET Resources,
           RefuseDomain(d, members)
    PROVE  \E before \in SUBSET Resources : Halfway(before, d)
<1> DEFINE before == {r \in members \cap DOMAIN memory.resources :
                         \A c \in Conflicts(d, members) : r < c}
<1>0. /\ DOMAIN memory = Fields /\ IsResourceMap(memory.resources) /\ IsDomainMap(memory.domains)
      /\ memory.edges \subseteq Edges /\ "containment" \in Kinds
  BY MapFacts DEF Kinds
<1>1. before \in SUBSET Resources
  OBVIOUS
<1>2. /\ Idle
      /\ memory' = [memory EXCEPT
                       !.resources = Placed(memory.resources, before, "containment", d),
                       !.generation = memory.generation + 1]
      /\ pristine' = (pristine /\ before = {})
      /\ UNCHANGED <<phase, pending, durable, disk, journalled, cut, crashes>>
  BY <1>0 DEF RefuseDomain, Fields
<1> HIDE DEF before
<1>3. /\ DOMAIN memory' = Fields /\ memory'.generation = memory.generation + 1
      /\ memory'.resources = Placed(memory.resources, before, "containment", d)
      /\ memory'.domains = memory.domains /\ memory'.edges = memory.edges
  BY <1>0, <1>2 DEF Fields
<1>4. IsResourceMap(memory'.resources)
  BY <1>0, <1>3, PlacedEffect
<1>5. memory.generation + 1 \in 1..MaxGeneration
  BY <1>2, KindFacts DEF TypeInv, IsTopology, IsCatalog, Idle
<1>6. IsTopology(memory')
  BY <1>0, <1>3, <1>4, <1>5 DEF IsTopology, IsCatalog, IsResourceMap, IsDomainMap
<1> QED BY <1>1, <1>2, <1>3, <1>6 DEF Halfway

LEMMA CatalogSteps ==
    ASSUME TypeInv, [Next]_vars
    PROVE  \/ \E events : Staged(events)
           \/ \E d \in DomainsOf["containment"], before \in SUBSET Resources : Halfway(before, d)
           \/ Flush \/ Crash \/ Shutdown \/ Recover \/ RefuseStore \/ UNCHANGED vars
<1>1. CASE Operation
  <2>1. ASSUME NEW members \in SUBSET Resources, NEW d \in DomainsOf["containment"],
               RegisterDomain(d, members) \/ UpdateDomain(d, members)
        PROVE  \E events : Staged(events)
    BY <2>1, RegisterDomainStaged, UpdateDomainStaged
  <2>2. ASSUME NEW members \in SUBSET Resources, NEW d \in DomainsOf["containment"],
               RefuseDomain(d, members)
        PROVE  \E before \in SUBSET Resources : Halfway(before, d)
    BY <2>2, RefuseDomainEffect
  <2>3. ASSUME NEW members \in SUBSET Resources, NEW k \in Kinds, NEW d \in DomainsOf[k],
               DeclareDomain(k, d, members)
        PROVE  \E events : Staged(events)
    BY <2>3, DeclareDomainStaged
  <2>4. ASSUME NEW k \in Kinds, NEW d \in DomainsOf[k], RemoveDomain(k, d)
        PROVE  \E events : Staged(events)
    BY <2>4, RemoveDomainStaged
  <2>5. ASSUME NEW r \in Resources, NEW at \in Placements,
               RegisterResource(r, at) \/ UpdateResource(r, at)
        PROVE  \E events : Staged(events)
    BY <2>5, RegisterResourceStaged, UpdateResourceStaged
  <2>6. ASSUME NEW r \in Resources, RemoveResource(r) PROVE \E events : Staged(events)
    BY <2>6, RemoveResourceStaged
  <2>7. ASSUME NEW e \in Edges, RegisterDependency(e) \/ RemoveDependency(e)
        PROVE  \E events : Staged(events)
    BY <2>7, DependencyStaged
  <2> QED BY <1>1, <2>1, <2>2, <2>3, <2>4, <2>5, <2>6, <2>7 DEF Operation
<1> QED BY <1>1 DEF Next

-----------------------------------------------------------------------------
(* Replay, as an inductive invariant: every record still to be flushed     *)
(* agrees with memory, and whatever none of them concerns is on disk as it *)
(* is in memory.                                                           *)
Pending(kinds, x) == \E i \in 1..Len(pending) : Concerns(pending[i], kinds, x)

ReplayInv ==
    /\ phase # "up" => pending = <<>>
    /\ phase = "up" =>
          /\ \A i \in 1..Len(pending) : Agrees(pending[i], memory)
          /\ \A r \in Resources : \/ Pending(ResourceEvents, r)
                                  \/ Gen(durable.resources, r) = Gen(memory.resources, r)
          /\ \A d \in Domains : \/ Pending(DomainEvents, d)
                                \/ Gen(durable.domains, d) = Gen(memory.domains, d)
          /\ \A e \in Edges : \/ Pending(EdgeEvents, e)
                              \/ (e \in durable.edges <=> e \in memory.edges)
          /\ durable.generation <= memory.generation

LEMMA EmptyType == IsTopology(Empty)
BY KindFacts DEF IsTopology, IsCatalog, Empty, Fields

LEMMA CatalogInit == Init => TypeInv /\ ReplayInv
<1> SUFFICES ASSUME Init PROVE TypeInv /\ ReplayInv
  OBVIOUS
<1>1. pending \in Seq(Event)
  BY DEF Init
<1>2. TypeInv
  BY <1>1, EmptyType DEF Init, TypeInv
<1> QED BY <1>2 DEF Init, ReplayInv

(* Everything is on disk once nothing is left to flush.                    *)
LEMMA NothingPending ==
    ASSUME ReplayInv, phase = "up", pending = <<>>
    PROVE  /\ \A r \in Resources : Gen(durable.resources, r) = Gen(memory.resources, r)
           /\ \A d \in Domains : Gen(durable.domains, d) = Gen(memory.domains, d)
           /\ \A e \in Edges : e \in durable.edges <=> e \in memory.edges
           /\ durable.generation <= memory.generation
<1>1. \A kinds, x : ~Pending(kinds, x)
  BY DEF Pending
<1> QED BY <1>1 DEF ReplayInv

(* A batch: the records of the operation, then COUNTERS.                   *)
LEMMA BatchFacts ==
    ASSUME TypeInv, NEW events, Staged(events)
    PROVE  /\ pending' \in Seq(Event) /\ Len(pending') = Len(events) + 1 /\ Len(events) \in Nat
           /\ \A i \in 1..Len(events) : pending'[i] = events[i]
           /\ pending'[Len(events) + 1].kind = "COUNTERS"
           /\ pending'[Len(events) + 1].generation = memory'.generation
<1> DEFINE counters == Counters(memory.generation + 1)
           last == <<counters>>
<1>1. memory'.generation = memory.generation + 1 /\ memory'.generation \in 1..MaxGeneration
  BY DEF Staged, IsTopology, IsCatalog
<1>2. counters \in Event /\ counters.kind = "COUNTERS" /\ counters.generation = memory'.generation
  BY <1>1 DEF Event, Counters
<1> HIDE DEF counters
<1>3. last \in Seq(Event) /\ Len(last) = 1 /\ last[1] = counters
  BY <1>2
<1>4. events \in Seq(Event) /\ pending' = events \o last
  BY DEF Staged, counters
<1> HIDE DEF last
<1>5. pending' \in Seq(Event) /\ Len(pending') = Len(events) + 1 /\ Len(events) \in Nat
  <2>1. events \o last \in Seq(Event) /\ Len(events \o last) = Len(events) + Len(last)
    BY <1>3, <1>4, ConcatProperties
  <2>2. Len(events) \in Nat
    BY <1>4
  <2> QED BY <1>3, <1>4, <2>1, <2>2
<1>6. ASSUME NEW i \in 1..Len(events) PROVE pending'[i] = events[i]
  <2>1. i \in 1..Len(events) + Len(last) /\ i <= Len(events)
    BY <1>3, <1>5
  <2> QED BY <1>3, <1>4, <2>1, ConcatAt
<1>7. pending'[Len(events) + 1] = last[1]
  <2>1. /\ Len(events) + 1 \in 1..Len(events) + Len(last) /\ ~(Len(events) + 1 <= Len(events))
        /\ (Len(events) + 1) - Len(events) = 1
    BY <1>3, <1>5
  <2> QED BY <1>3, <1>4, <2>1, ConcatAt
<1> QED BY <1>2, <1>3, <1>5, <1>6, <1>7

LEMMA StagedReplay ==
    ASSUME TypeInv, ReplayInv, NEW events, Staged(events)
    PROVE  TypeInv' /\ ReplayInv'
<1>1. /\ pending' \in Seq(Event) /\ Len(pending') = Len(events) + 1 /\ Len(events) \in Nat
      /\ \A i \in 1..Len(events) : pending'[i] = events[i]
      /\ pending'[Len(events) + 1].kind = "COUNTERS"
      /\ pending'[Len(events) + 1].generation = memory'.generation
  BY BatchFacts
<1>2. phase = "up" /\ pending = <<>> /\ durable' = durable /\ phase' = "up"
  BY DEF Staged
<1>3. TypeInv'
  BY <1>1, <1>2 DEF Staged, TypeInv
<1>4. ASSUME NEW kinds, NEW x, \E i \in 1..Len(events) : Concerns(events[i], kinds, x)
      PROVE  Pending(kinds, x)'
  <2>1. PICK i \in 1..Len(events) : Concerns(events[i], kinds, x)
    BY <1>4
  <2>2. i \in 1..Len(pending') /\ pending'[i] = events[i]
    BY <1>1
  <2> QED BY <2>1, <2>2 DEF Pending, Concerns
<1>5. /\ \A r \in Resources : Gen(durable.resources, r) = Gen(memory.resources, r)
      /\ \A d \in Domains : Gen(durable.domains, d) = Gen(memory.domains, d)
      /\ \A e \in Edges : e \in durable.edges <=> e \in memory.edges
      /\ durable.generation <= memory.generation
  BY <1>2, NothingPending
<1>6. \A i \in 1..Len(pending') : Agrees(pending'[i], memory')
  <2> SUFFICES ASSUME NEW i \in 1..Len(pending') PROVE Agrees(pending'[i], memory')
    OBVIOUS
  <2>1. CASE i = Len(events) + 1
    BY <1>1, <2>1 DEF Agrees
  <2>2. CASE i # Len(events) + 1
    <3>1. i \in 1..Len(events)
      BY <1>1, <2>2
    <3> QED BY <1>1, <3>1 DEF Staged
  <2> QED BY <2>1, <2>2
<1>7. /\ \A r \in Resources : \/ Pending(ResourceEvents, r)'
                               \/ Gen(durable.resources, r) = Gen(memory'.resources, r)
      /\ \A d \in Domains : \/ Pending(DomainEvents, d)'
                             \/ Gen(durable.domains, d) = Gen(memory'.domains, d)
      /\ \A e \in Edges : \/ Pending(EdgeEvents, e)'
                           \/ (e \in durable.edges <=> e \in memory'.edges)
  <2>1. Covered(events)
    BY DEF Staged
  <2>2. ASSUME NEW r \in Resources
        PROVE  Pending(ResourceEvents, r)' \/ Gen(durable.resources, r) = Gen(memory'.resources, r)
    BY <1>4, <1>5, <2>1 DEF Covered
  <2>3. ASSUME NEW d \in Domains
        PROVE  Pending(DomainEvents, d)' \/ Gen(durable.domains, d) = Gen(memory'.domains, d)
    BY <1>4, <1>5, <2>1 DEF Covered
  <2>4. ASSUME NEW e \in Edges
        PROVE  Pending(EdgeEvents, e)' \/ (e \in durable.edges <=> e \in memory'.edges)
    BY <1>4, <1>5, <2>1 DEF Covered
  <2> QED BY <2>2, <2>3, <2>4
<1>8. durable.generation <= memory'.generation
  BY <1>5 DEF Staged, TypeInv, IsTopology, IsCatalog
<1> QED BY <1>2, <1>3, <1>6, <1>7, <1>8 DEF ReplayInv, Gen

LEMMA FlushFacts ==
    ASSUME TypeInv, Flush
    PROVE  /\ Len(pending) \in Nat /\ Len(pending) >= 1 /\ pending[1] \in Event
           /\ Head(pending) = pending[1]
           /\ pending' \in Seq(Event) /\ Len(pending') = Len(pending) - 1
           /\ \A i \in 1..(Len(pending) - 1) : pending'[i] = pending[i + 1]
           /\ durable' = Applied(durable, pending[1])
           /\ phase = "up" /\ phase' = "up" /\ UNCHANGED <<memory, pristine, cut, crashes>>
<1>1. pending \in Seq(Event) /\ pending # <<>> /\ pending' = Tail(pending)
  BY DEF Flush, TypeInv
<1>2. /\ Len(pending) \in Nat /\ Len(pending) >= 1 /\ Head(pending) = pending[1]
      /\ pending[1] \in Event
  BY <1>1
<1>3. /\ Tail(pending) \in Seq(Event) /\ Len(Tail(pending)) = Len(pending) - 1
      /\ \A i \in 1..(Len(pending) - 1) : Tail(pending)[i] = pending[i + 1]
  BY <1>1, <1>2
<1> QED BY <1>1, <1>2, <1>3 DEF Flush

LEMMA FlushReplay ==
    ASSUME TypeInv, ReplayInv, Flush
    PROVE  TypeInv' /\ ReplayInv'
<1> DEFINE head == pending[1]
<1>1. /\ Len(pending) \in Nat /\ Len(pending) >= 1 /\ head \in Event
      /\ pending' \in Seq(Event) /\ Len(pending') = Len(pending) - 1
      /\ \A i \in 1..(Len(pending) - 1) : pending'[i] = pending[i + 1]
      /\ durable' = Applied(durable, head)
      /\ phase = "up" /\ phase' = "up" /\ UNCHANGED <<memory, pristine, cut, crashes>>
  BY FlushFacts
<1>2. \A i \in 1..Len(pending) : Agrees(pending[i], memory)
  BY <1>1 DEF ReplayInv
<1>3. Agrees(head, memory)
  BY <1>1, <1>2
<1> HIDE DEF head
<1>4. IsTopology(durable')
      /\ durable'.generation = IF head.kind = "COUNTERS" THEN memory.generation ELSE durable.generation
  BY <1>1, <1>3, AppliedEffect DEF TypeInv
<1>5. TypeInv'
  BY <1>1, <1>4 DEF Flush, TypeInv
<1>6. \A i \in 1..Len(pending') : Agrees(pending'[i], memory')
  <2> SUFFICES ASSUME NEW i \in 1..Len(pending') PROVE Agrees(pending'[i], memory')
    OBVIOUS
  <2>1. i \in 1..(Len(pending) - 1) /\ i + 1 \in 1..Len(pending)
    BY <1>1
  <2>2. pending'[i] = pending[i + 1] /\ memory' = memory
    BY <1>1, <2>1
  <2> QED BY <1>2, <2>1, <2>2
<1>7. ASSUME NEW kinds, NEW x, Pending(kinds, x), ~Concerns(head, kinds, x)
      PROVE  Pending(kinds, x)'
  <2>1. PICK i \in 1..Len(pending) : Concerns(pending[i], kinds, x)
    BY <1>7 DEF Pending
  <2>2. i # 1
    BY <1>7, <2>1 DEF head
  <2>3. i - 1 \in 1..(Len(pending) - 1) /\ (i - 1) + 1 = i /\ i - 1 \in 1..Len(pending')
    BY <1>1, <2>1, <2>2
  <2>4. pending'[i - 1] = pending[i]
    BY <1>1, <2>3
  <2> QED BY <2>1, <2>3, <2>4 DEF Pending, Concerns
<1>8. ASSUME NEW r \in Resources
      PROVE  Pending(ResourceEvents, r)' \/ Gen(durable'.resources, r) = Gen(memory'.resources, r)
  <2>1. Gen(durable'.resources, r) = IF Concerns(head, ResourceEvents, r)
                                       THEN Gen(memory.resources, r) ELSE Gen(durable.resources, r)
    BY <1>1, <1>3, AppliedEffect DEF TypeInv
  <2>2. Pending(ResourceEvents, r) \/ Gen(durable.resources, r) = Gen(memory.resources, r)
    BY <1>1 DEF ReplayInv
  <2> QED BY <1>1, <1>7, <2>1, <2>2
<1>9. ASSUME NEW d \in Domains
      PROVE  Pending(DomainEvents, d)' \/ Gen(durable'.domains, d) = Gen(memory'.domains, d)
  <2>1. Gen(durable'.domains, d) = IF Concerns(head, DomainEvents, d)
                                     THEN Gen(memory.domains, d) ELSE Gen(durable.domains, d)
    BY <1>1, <1>3, AppliedEffect DEF TypeInv
  <2>2. Pending(DomainEvents, d) \/ Gen(durable.domains, d) = Gen(memory.domains, d)
    BY <1>1 DEF ReplayInv
  <2> QED BY <1>1, <1>7, <2>1, <2>2
<1>10. ASSUME NEW e \in Edges
       PROVE  Pending(EdgeEvents, e)' \/ (e \in durable'.edges <=> e \in memory'.edges)
  <2>1. e \in durable'.edges <=> IF Concerns(head, EdgeEvents, e)
                                   THEN e \in memory.edges ELSE e \in durable.edges
    BY <1>1, <1>3, AppliedEffect DEF TypeInv
  <2>2. Pending(EdgeEvents, e) \/ (e \in durable.edges <=> e \in memory.edges)
    BY <1>1 DEF ReplayInv
  <2> QED BY <1>1, <1>7, <2>1, <2>2
<1>11. durable'.generation <= memory'.generation
  BY <1>1, <1>4 DEF ReplayInv, TypeInv, IsTopology, IsCatalog
<1> QED BY <1>1, <1>5, <1>6, <1>8, <1>9, <1>10, <1>11 DEF ReplayInv

(* A refused register_domain changes no generation that is on disk.        *)
LEMMA HalfwayReplay ==
    ASSUME TypeInv, ReplayInv, NEW d \in DomainsOf["containment"],
           NEW before \in SUBSET Resources, Halfway(before, d)
    PROVE  TypeInv' /\ ReplayInv'
<1>1. /\ phase = "up" /\ pending = <<>> /\ phase' = "up" /\ pending' = <<>> /\ durable' = durable
      /\ IsTopology(memory') /\ memory'.generation = memory.generation + 1
      /\ memory'.resources = Placed(memory.resources, before, "containment", d)
      /\ memory'.domains = memory.domains /\ memory'.edges = memory.edges
  BY DEF Halfway, Idle
<1>2. TypeInv'
  <2>1. pristine' \in BOOLEAN
    BY DEF Halfway, TypeInv
  <2> QED BY <1>1, <2>1 DEF Halfway, TypeInv
<1>3. \A r \in Resources : Gen(memory'.resources, r) = Gen(memory.resources, r)
  <2>1. "containment" \in Kinds /\ IsResourceMap(memory.resources)
    BY MapFacts DEF Kinds
  <2> QED BY <1>1, <2>1, GenPlaced
<1>4. /\ \A r \in Resources : Gen(durable.resources, r) = Gen(memory.resources, r)
      /\ \A x \in Domains : Gen(durable.domains, x) = Gen(memory.domains, x)
      /\ \A e \in Edges : e \in durable.edges <=> e \in memory.edges
      /\ durable.generation <= memory.generation
  BY <1>1, NothingPending
<1>5. durable.generation <= memory'.generation
  BY <1>1, <1>4 DEF TypeInv, IsTopology, IsCatalog
<1> QED BY <1>1, <1>2, <1>3, <1>4, <1>5 DEF ReplayInv

LEMMA CatalogStep == TypeInv /\ ReplayInv /\ [Next]_vars => TypeInv' /\ ReplayInv'
<1> SUFFICES ASSUME TypeInv, ReplayInv, [Next]_vars PROVE TypeInv' /\ ReplayInv'
  OBVIOUS
<1>1. ASSUME Crash PROVE TypeInv' /\ ReplayInv'
  <2>1. /\ phase' = "down" /\ pending' = <<>> /\ IsTopology(memory') /\ cut' \in BOOLEAN
        /\ UNCHANGED <<durable, disk, journalled, pristine>>
    BY <1>1, EmptyType DEF Crash, TypeInv
  <2>2. pending' \in Seq(Event)
    BY <2>1
  <2> QED BY <2>1, <2>2 DEF TypeInv, ReplayInv
<1>2. ASSUME Shutdown PROVE TypeInv' /\ ReplayInv'
  <2>1. /\ phase' = "down" /\ pending = <<>> /\ IsTopology(memory') /\ durable' = memory
        /\ disk' \in {"intact", "corrupt"} /\ journalled' = FALSE
        /\ UNCHANGED <<pending, pristine, cut, crashes>>
    BY <1>2, EmptyType DEF Shutdown
  <2> QED BY <2>1 DEF TypeInv, ReplayInv
<1>3. ASSUME Recover PROVE TypeInv' /\ ReplayInv'
  <2>1. /\ phase = "down" /\ phase' = "up" /\ memory' = durable /\ pristine' \in BOOLEAN
        /\ UNCHANGED <<pending, durable, disk, journalled, cut, crashes>>
    BY <1>3 DEF Recover, TypeInv
  <2>2. pending' = <<>> /\ durable' = durable
    BY <2>1 DEF ReplayInv
  <2>3. TypeInv'
    BY <2>1 DEF TypeInv
  <2>4. durable'.generation <= memory'.generation
    BY <2>1 DEF TypeInv, IsTopology, IsCatalog
  <2> QED BY <2>1, <2>2, <2>3, <2>4 DEF ReplayInv
<1>4. ASSUME RefuseStore \/ UNCHANGED vars PROVE TypeInv' /\ ReplayInv'
  <2>1. CASE RefuseStore
    BY <2>1 DEF RefuseStore, TypeInv, ReplayInv
  <2>2. CASE UNCHANGED vars
    BY <2>2 DEF vars, TypeInv, ReplayInv, Pending
  <2> QED BY <1>4, <2>1, <2>2
<1> QED BY <1>1, <1>2, <1>3, <1>4, CatalogSteps, StagedReplay, FlushReplay, HalfwayReplay

(* Type correctness: a domain of one kind never becomes the placement of   *)
(* another, whatever is declared, moved, removed or replayed.              *)
THEOREM CatalogTypeCorrect == Spec => []TypeOK
<1>1. TypeInv => TypeOK
  BY DEF TypeInv, TypeOK, IsTopology
<1> QED BY <1>1, CatalogInit, CatalogStep, PTL DEF Spec

(* Snapshot and journal decode to what memory holds once an operation has  *)
(* flushed, across crashes at every record and restarts.                   *)
THEOREM ReplayAlwaysAgrees == Spec => []ReplayAgrees
<1>1. TypeInv /\ ReplayInv => ReplayAgrees
  <2> SUFFICES ASSUME TypeInv, ReplayInv, phase = "up", pending = <<>> PROVE ReplayAgrees
    BY DEF ReplayAgrees
  <2>1. /\ \A r \in Resources : Gen(durable.resources, r) = Gen(memory.resources, r)
        /\ \A d \in Domains : Gen(durable.domains, d) = Gen(memory.domains, d)
        /\ \A e \in Edges : e \in durable.edges <=> e \in memory.edges
        /\ durable.generation <= memory.generation
    BY NothingPending
  <2>2. ASSUME NEW cat, IsTopology(cat)
        PROVE  /\ \A r \in Resources : r \in Registered(cat) <=> Gen(cat.resources, r) # 0
               /\ \A d \in Domains : d \in DOMAIN cat.domains <=> Gen(cat.domains, d) # 0
               /\ Registered(cat) \subseteq Resources /\ DOMAIN cat.domains \subseteq Domains
               /\ cat.edges \subseteq Edges
    BY <2>2 DEF IsTopology, IsCatalog, Registered, IsPhantom, Gen, DomainRecord
  <2>3. IsTopology(memory) /\ IsTopology(durable)
    BY DEF TypeInv
  <2>4. Registered(durable) = Registered(memory)
    BY <2>1, <2>2, <2>3
  <2>5. DOMAIN durable.domains = DOMAIN memory.domains
    <3>1. \A d \in Domains : d \in DOMAIN durable.domains <=> Gen(durable.domains, d) # 0
      BY <2>2, <2>3
    <3>2. \A d \in Domains : d \in DOMAIN memory.domains <=> Gen(memory.domains, d) # 0
      BY <2>2, <2>3
    <3>3. DOMAIN durable.domains \subseteq Domains /\ DOMAIN memory.domains \subseteq Domains
      BY <2>2, <2>3
    <3>4. \A d \in Domains : d \in DOMAIN durable.domains <=> d \in DOMAIN memory.domains
      BY <2>1, <3>1, <3>2
    <3> QED BY <3>3, <3>4
  <2>6. durable.edges = memory.edges
    BY <2>1, <2>2, <2>3
  <2>7. \A r \in Registered(memory) :
           durable.resources[r].generation = memory.resources[r].generation
    BY <2>1, <2>2, <2>3, <2>4 DEF Registered, Gen
  <2>8. \A d \in DOMAIN memory.domains :
           durable.domains[d].generation = memory.domains[d].generation
    BY <2>1, <2>2, <2>3, <2>5 DEF Gen
  <2> QED BY <2>1, <2>4, <2>5, <2>6, <2>7, <2>8 DEF ReplayAgrees
<1> QED BY <1>1, CatalogInit, CatalogStep, PTL DEF Spec

-----------------------------------------------------------------------------
(* Generations: COUNTERS is the last record of every batch, so unless a    *)
(* crash has cut one, the topology generation on disk is as far as that of *)
(* every domain whenever memory may be rebuilt from it.                    *)
CountInv ==
    /\ pending # <<>> => pending[Len(pending)].kind = "COUNTERS"
    /\ ~cut => /\ phase = "up" =>
                     \A d \in Domains : Gen(memory.domains, d) <= memory.generation
               /\ pending = <<>> =>
                     \A d \in Domains : Gen(durable.domains, d) <= durable.generation

LEMMA GenIsNat ==
    ASSUME NEW cat, IsTopology(cat), NEW d
    PROVE  Gen(cat.domains, d) \in Nat /\ cat.generation \in Nat
BY KindFacts DEF IsTopology, IsCatalog, Gen, DomainRecord

LEMMA StagedCount ==
    ASSUME TypeInv, CountInv, NEW events, Staged(events)
    PROVE  CountInv'
<1>1. /\ Len(pending') = Len(events) + 1 /\ Len(events) \in Nat
      /\ pending'[Len(events) + 1].kind = "COUNTERS" /\ pending' \in Seq(Event)
  BY BatchFacts
<1>2. pending' # <<>> /\ pending'[Len(pending')].kind = "COUNTERS"
  BY <1>1
<1>3. phase = "up" /\ cut' = cut /\ memory'.generation = memory.generation + 1
  BY DEF Staged
<1>4. ASSUME ~cut, NEW d \in Domains PROVE Gen(memory'.domains, d) <= memory'.generation
  <2>1. Gen(memory.domains, d) <= memory.generation
    BY <1>3, <1>4 DEF CountInv
  <2>2. Gen(memory'.domains, d) \in {Gen(memory.domains, d), 0, memory.generation + 1}
    BY DEF Staged
  <2>3. Gen(memory.domains, d) \in Nat /\ memory.generation \in Nat
    BY GenIsNat DEF TypeInv
  <2> QED BY <1>3, <2>1, <2>2, <2>3
<1> QED BY <1>2, <1>3, <1>4 DEF CountInv

LEMMA FlushCount ==
    ASSUME TypeInv, ReplayInv, CountInv, Flush
    PROVE  CountInv'
<1> DEFINE head == pending[1]
<1>1. /\ Len(pending) \in Nat /\ Len(pending) >= 1 /\ head \in Event
      /\ pending' \in Seq(Event) /\ Len(pending') = Len(pending) - 1
      /\ \A i \in 1..(Len(pending) - 1) : pending'[i] = pending[i + 1]
      /\ durable' = Applied(durable, head)
      /\ phase = "up" /\ phase' = "up" /\ UNCHANGED <<memory, pristine, cut, crashes>>
  BY FlushFacts
<1>2. pending[Len(pending)].kind = "COUNTERS"
  BY DEF CountInv, Flush
<1>3. ASSUME pending' # <<>> PROVE pending'[Len(pending')].kind = "COUNTERS"
  <2>1. Len(pending') >= 1
    BY <1>1, <1>3
  <2>2. Len(pending') \in 1..(Len(pending) - 1) /\ Len(pending') + 1 = Len(pending)
    BY <1>1, <2>1
  <2>3. pending'[Len(pending')] = pending[Len(pending)]
    BY <1>1, <2>2
  <2> QED BY <1>2, <2>3
<1>4. ASSUME ~cut, pending' = <<>>, NEW d \in Domains
      PROVE  Gen(durable'.domains, d) <= durable'.generation
  <2>1. Len(pending') = 0
    BY <1>4
  <2>2. Len(pending) = 1
    BY <1>1, <2>1
  <2>3. head.kind = "COUNTERS" /\ Agrees(head, memory)
    BY <1>1, <1>2, <2>2 DEF ReplayInv
  <2> HIDE DEF head
  <2>4. durable'.generation = memory.generation
    BY <1>1, <2>3, AppliedEffect DEF TypeInv
  <2>5. ReplayInv' /\ phase' = "up" /\ pending' = <<>>
    BY <1>1, <1>4, FlushReplay
  <2>6. Pending(DomainEvents, d)' \/ Gen(durable'.domains, d) = Gen(memory'.domains, d)
    BY <2>5 DEF ReplayInv
  <2>7. ~Pending(DomainEvents, d)'
    BY <2>1 DEF Pending
  <2> QED BY <1>1, <1>4, <2>4, <2>6, <2>7 DEF CountInv
<1> QED BY <1>1, <1>3, <1>4 DEF CountInv

LEMMA CountStep == TypeInv /\ ReplayInv /\ CountInv /\ [Next]_vars => CountInv'
<1> SUFFICES ASSUME TypeInv, ReplayInv, CountInv, [Next]_vars PROVE CountInv'
  OBVIOUS
<1>1. ASSUME NEW d \in DomainsOf["containment"], NEW before \in SUBSET Resources,
             Halfway(before, d)
      PROVE  CountInv'
  <2>1. /\ phase = "up" /\ phase' = "up" /\ pending = <<>> /\ pending' = <<>>
        /\ durable' = durable /\ memory'.domains = memory.domains /\ cut' = cut
        /\ memory'.generation = memory.generation + 1
    BY <1>1 DEF Halfway, Idle
  <2>2. ASSUME ~cut, NEW x \in Domains PROVE Gen(memory'.domains, x) <= memory'.generation
    <3>1. Gen(memory.domains, x) <= memory.generation
      BY <2>1, <2>2 DEF CountInv
    <3>2. Gen(memory.domains, x) \in Nat /\ memory.generation \in Nat
      BY GenIsNat DEF TypeInv
    <3> QED BY <2>1, <3>1, <3>2
  <2> QED BY <2>1, <2>2 DEF CountInv
<1>2. ASSUME Crash PROVE CountInv'
  BY <1>2 DEF Crash, CountInv
<1>3. ASSUME Shutdown PROVE CountInv'
  BY <1>3 DEF Shutdown, CountInv
<1>4. ASSUME Recover PROVE CountInv'
  <2>1. pending = <<>>
    BY <1>4 DEF Recover, ReplayInv
  <2> QED BY <1>4, <2>1 DEF Recover, CountInv
<1>5. ASSUME RefuseStore \/ UNCHANGED vars PROVE CountInv'
  <2>1. CASE RefuseStore
    BY <2>1 DEF RefuseStore, CountInv
  <2>2. CASE UNCHANGED vars
    BY <2>2 DEF vars, CountInv
  <2> QED BY <1>5, <2>1, <2>2
<1> QED BY <1>1, <1>2, <1>3, <1>4, <1>5, CatalogSteps, StagedCount, FlushCount

(* The generation the next domain update takes has never been used for the *)
(* domain, whatever was refused half-way and however often the coordinator *)
(* was restarted, unless a crash has lost the end of a batch.              *)
THEOREM NextGenerationAlwaysNew == Spec => []NextGenerationIsNew
<1>1. Init => CountInv
  <2> SUFFICES ASSUME Init PROVE CountInv
    OBVIOUS
  <2>1. phase = "down" /\ pending = <<>> /\ durable = Empty
    BY DEF Init
  <2>2. \A d : Gen(Empty.domains, d) = 0 /\ Empty.generation = 1
    BY DEF Empty, Gen
  <2> QED BY <2>1, <2>2 DEF CountInv
<1>2. TypeInv /\ CountInv => NextGenerationIsNew
  <2> SUFFICES ASSUME TypeInv, CountInv, phase = "up", ~cut, NEW d \in DOMAIN memory.domains
               PROVE  memory.domains[d].generation <= memory.generation
    BY DEF NextGenerationIsNew
  <2>1. d \in Domains
    BY DEF TypeInv, IsTopology, IsCatalog
  <2>2. Gen(memory.domains, d) <= memory.generation
    BY <2>1 DEF CountInv
  <2> QED BY <2>2 DEF Gen
<1> QED BY <1>1, <1>2, CatalogInit, CatalogStep, CountStep, PTL DEF Spec

-----------------------------------------------------------------------------
(* Membership and placement say the same, and every reference resolves.    *)
Members(R, D, k, d) == \A r : r \in D[d].members <=> r \in DOMAIN R /\ R[r].at[k] = d

Sound(R, D, E) ==
    /\ \A r \in DOMAIN R : R[r].generation # 0
    /\ \A r \in DOMAIN R : \A k \in Kinds : R[r].at[k] \in DOMAIN D \cup {NoDomain}
    /\ \A k \in Kinds : \A d \in DomainsOf[k] \cap DOMAIN D : Members(R, D, k, d)
    /\ \A e \in E : e[1] \in DOMAIN R /\ e[2] \in DOMAIN R

LEMMA PlacementKind ==
    ASSUME NEW R, IsResourceMap(R), NEW r \in DOMAIN R, NEW k \in Kinds, NEW j \in Kinds,
           NEW d \in DomainsOf[k], R[r].at[j] = d
    PROVE  j = k
<1>1. R[r].at \in Placements
  BY DEF IsResourceMap, ResourceRecord
<1> QED BY <1>1, KindFacts, PlacementFacts

LEMMA MembersAreRegistered ==
    ASSUME NEW R, NEW D, NEW E, Sound(R, D, E), IsDomainMap(D), NEW d \in DOMAIN D
    PROVE  D[d].members \subseteq DOMAIN R
<1>1. PICK k \in Kinds : d \in DomainsOf[k]
  BY KindFacts DEF IsDomainMap
<1>2. Members(R, D, k, d)
  BY <1>1 DEF Sound
<1> QED BY <1>2 DEF Members

(* A new domain takes members that are in no other domain of its kind.     *)
LEMMA NewDomainSound ==
    ASSUME NEW R, NEW D, NEW E, IsResourceMap(R), Sound(R, D, E),
           NEW k \in Kinds, NEW d \in DomainsOf[k], d \notin DOMAIN D,
           NEW who, who \subseteq DOMAIN R, \A r \in who : R[r].at[k] \in {NoDomain, d},
           NEW value, value.members = who
    PROVE  Sound(Placed(R, who, k, d), With(D, d, value), E)
<1> DEFINE P == Placed(R, who, k, d)
           W == With(D, d, value)
<1>1. DOMAIN P = DOMAIN R /\ \A r \in DOMAIN R : P[r].generation = R[r].generation
  BY PlacedEffect
<1>2. ASSUME NEW r \in DOMAIN R, NEW j \in Kinds
      PROVE  P[r].at[j] = IF r \in who /\ j = k THEN d ELSE R[r].at[j]
  BY PlacedAt
<1>3. DOMAIN W = DOMAIN D \cup {d} /\ W[d] = value /\ \A x \in DOMAIN D : x # d => W[x] = D[x]
  BY DEF With
<1> HIDE DEF P, W
<1>4. \A r \in DOMAIN P : P[r].generation # 0
  BY <1>1 DEF Sound
<1>5. ASSUME NEW r \in DOMAIN P, NEW j \in Kinds PROVE P[r].at[j] \in DOMAIN W \cup {NoDomain}
  BY <1>1, <1>2, <1>3 DEF Sound
<1>6. ASSUME NEW j \in Kinds, NEW x \in DomainsOf[j] \cap DOMAIN W PROVE Members(P, W, j, x)
  <2>1. CASE x = d
    <3>1. j = k
      BY <2>1, KindFacts
    <3>2. ASSUME NEW r \in DOMAIN R, P[r].at[k] = d PROVE r \in who
      <4>1. R[r].at[k] # d
        BY KindFacts DEF Sound
      <4> QED BY <1>2, <3>2, <4>1
    <3> QED BY <1>1, <1>2, <1>3, <2>1, <3>1, <3>2 DEF Members
  <2>2. CASE x # d
    <3>1. x \in DomainsOf[j] \cap DOMAIN D /\ W[x] = D[x]
      BY <1>3, <2>2
    <3>2. Members(R, D, j, x)
      BY <3>1 DEF Sound
    <3>3. ASSUME NEW r \in DOMAIN R PROVE P[r].at[j] = x <=> R[r].at[j] = x
      <4>1. CASE r \in who /\ j = k
        <5>1. x # NoDomain
          BY KindFacts
        <5> QED BY <1>2, <2>2, <4>1, <5>1
      <4>2. CASE ~(r \in who /\ j = k)
        BY <1>2, <4>2
      <4> QED BY <4>1, <4>2
    <3> QED BY <1>1, <3>1, <3>2, <3>3 DEF Members
  <2> QED BY <2>1, <2>2
<1>7. \A e \in E : e[1] \in DOMAIN P /\ e[2] \in DOMAIN P
  BY <1>1 DEF Sound
<1>8. Sound(P, W, E)
  BY <1>4, <1>5, <1>6, <1>7 DEF Sound
<1> QED BY <1>8 DEF P, W

(* A domain is redefined: its new members are placed, those that left are  *)
(* displaced.                                                              *)
LEMMA RedefinedSound ==
    ASSUME NEW R, NEW D, NEW E, IsResourceMap(R), IsDomainMap(D), Sound(R, D, E),
           NEW k \in Kinds, NEW d \in DomainsOf[k], d \in DOMAIN D,
           NEW who, who \subseteq DOMAIN R, \A r \in who : R[r].at[k] \in {NoDomain, d},
           NEW value, value.members = who
    PROVE  Sound(Displaced(Placed(R, who, k, d), D[d].members \ who, k, d), With(D, d, value), E)
<1> DEFINE P == Placed(R, who, k, d)
           left == D[d].members \ who
           Q == Displaced(P, left, k, d)
           W == With(D, d, value)
<1>0. left \subseteq DOMAIN R /\ left \in SUBSET Resources
  BY MembersAreRegistered DEF IsDomainMap, DomainRecord
<1>1. DOMAIN P = DOMAIN R /\ IsResourceMap(P)
      /\ \A r \in DOMAIN R : P[r].generation = R[r].generation
  BY PlacedEffect
<1>2. ASSUME NEW r \in DOMAIN R, NEW j \in Kinds
      PROVE  P[r].at[j] = IF r \in who /\ j = k THEN d ELSE R[r].at[j]
  BY PlacedAt
<1>3. DOMAIN W = DOMAIN D \cup {d} /\ W[d] = value /\ \A x \in DOMAIN D : x # d => W[x] = D[x]
  BY DEF With
<1>4. Members(R, D, k, d)
  BY DEF Sound
<1>5. ASSUME NEW r \in left PROVE r \in D[d].members /\ r \notin who
  OBVIOUS
<1>6. ASSUME NEW r \in D[d].members, r \notin who PROVE r \in left
  BY <1>6
<1> HIDE DEF P, left, W
<1>7. DOMAIN Q = DOMAIN P \cup left /\ \A r \in DOMAIN P : Q[r].generation = P[r].generation
  <2>1. left \in SUBSET Resources /\ IsResourceMap(P)
    BY <1>0, <1>1
  <2> QED BY ONLY <2>1, DisplacedEffect
<1>8. DOMAIN Q = DOMAIN R
  BY <1>0, <1>1, <1>7
<1>9. ASSUME NEW r \in DOMAIN R, NEW j \in Kinds
      PROVE  Q[r].at[j] = IF r \in left /\ j = k /\ P[r].at[k] = d THEN NoDomain ELSE P[r].at[j]
  BY <1>0, <1>1, DisplacedAt
<1> HIDE DEF Q
<1>10. ASSUME NEW r \in DOMAIN R, NEW j \in Kinds, j # k PROVE Q[r].at[j] = R[r].at[j]
  BY <1>2, <1>9, <1>10
<1>11. ASSUME NEW r \in DOMAIN R, r \in who PROVE Q[r].at[k] = d
  BY <1>2, <1>5, <1>9, <1>11
<1>12. ASSUME NEW r \in DOMAIN R, r \in left PROVE Q[r].at[k] = NoDomain
  <2>1. R[r].at[k] = d
    BY <1>4, <1>5, <1>12 DEF Members
  <2>2. P[r].at[k] = d
    BY <1>2, <2>1
  <2> QED BY <1>9, <1>12, <2>2
<1>13. ASSUME NEW r \in DOMAIN R, r \notin who, r \notin left
       PROVE  Q[r].at[k] = R[r].at[k] /\ R[r].at[k] # d
  <2>1. r \notin D[d].members
    BY <1>6, <1>13
  <2> QED BY <1>2, <1>4, <1>9, <1>13, <2>1 DEF Members
<1>14. \A r \in DOMAIN Q : Q[r].generation # 0
  BY <1>1, <1>7, <1>8 DEF Sound
<1>15. ASSUME NEW r \in DOMAIN Q, NEW j \in Kinds PROVE Q[r].at[j] \in DOMAIN W \cup {NoDomain}
  <2>1. R[r].at[j] \in DOMAIN D \cup {NoDomain} /\ r \in DOMAIN R
    BY <1>8 DEF Sound
  <2> QED BY <1>3, <1>10, <1>11, <1>12, <1>13, <2>1
<1>16. ASSUME NEW j \in Kinds, NEW x \in DomainsOf[j] \cap DOMAIN W PROVE Members(Q, W, j, x)
  <2>0. x # NoDomain /\ d # NoDomain
    BY KindFacts
  <2>1. CASE x = d
    <3>1. j = k
      BY <2>1, KindFacts
    <3>2. ASSUME NEW r \in DOMAIN R PROVE r \in who <=> Q[r].at[k] = d
      BY <1>11, <1>12, <1>13, <2>0
    <3> QED BY <1>3, <1>8, <2>1, <3>1, <3>2 DEF Members
  <2>2. CASE x # d
    <3>1. x \in DomainsOf[j] \cap DOMAIN D /\ W[x] = D[x]
      BY <1>3, <2>2
    <3>2. Members(R, D, j, x)
      BY <3>1 DEF Sound
    <3>3. ASSUME NEW r \in DOMAIN R PROVE Q[r].at[j] = x <=> R[r].at[j] = x
      <4>1. CASE j # k
        BY <1>10, <4>1
      <4>2. CASE j = k /\ r \in who
        BY <1>11, <2>0, <2>2, <4>2
      <4>3. CASE j = k /\ r \in left
        <5>1. R[r].at[k] = d
          BY <1>4, <1>5, <4>3 DEF Members
        <5> QED BY <1>12, <2>0, <2>2, <4>3, <5>1
      <4>4. CASE j = k /\ r \notin who /\ r \notin left
        BY <1>13, <4>4
      <4> QED BY <4>1, <4>2, <4>3, <4>4
    <3> QED BY <1>8, <3>1, <3>2, <3>3 DEF Members
  <2> QED BY <2>1, <2>2
<1>17. \A e \in E : e[1] \in DOMAIN Q /\ e[2] \in DOMAIN Q
  BY <1>8 DEF Sound
<1>18. Sound(Q, W, E)
  BY <1>14, <1>15, <1>16, <1>17 DEF Sound
<1> QED BY <1>18 DEF P, left, Q, W

(* A domain goes, and nobody stays placed in it.                           *)
LEMMA RemovedDomainSound ==
    ASSUME NEW R, NEW D, NEW E, IsResourceMap(R), IsDomainMap(D), Sound(R, D, E),
           NEW k \in Kinds, NEW d \in DomainsOf[k], d \in DOMAIN D
    PROVE  Sound(Displaced(R, D[d].members, k, d), Without(D, d), E)
<1> DEFINE who == D[d].members
           Q == Displaced(R, who, k, d)
           W == Without(D, d)
<1>0. who \subseteq DOMAIN R /\ who \in SUBSET Resources
  BY MembersAreRegistered DEF IsDomainMap, DomainRecord
<1>1. Members(R, D, k, d)
  BY DEF Sound
<1>2. DOMAIN W = DOMAIN D \ {d} /\ \A x \in DOMAIN D : x # d => W[x] = D[x]
  BY WithoutEffect
<1>3. \A r : r \in who <=> r \in DOMAIN R /\ R[r].at[k] = d
  BY <1>1 DEF Members
<1> HIDE DEF who, W
<1>4. DOMAIN Q = DOMAIN R \cup who /\ \A r \in DOMAIN R : Q[r].generation = R[r].generation
  BY <1>0, DisplacedEffect
<1>5. DOMAIN Q = DOMAIN R
  BY <1>0, <1>4
<1>6. ASSUME NEW r \in DOMAIN R, NEW j \in Kinds
      PROVE  Q[r].at[j] = IF j = k /\ R[r].at[k] = d THEN NoDomain ELSE R[r].at[j]
  BY <1>0, <1>3, DisplacedAt
<1> HIDE DEF Q
<1>7. \A r \in DOMAIN Q : Q[r].generation # 0
  BY <1>4, <1>5 DEF Sound
<1>8. ASSUME NEW r \in DOMAIN Q, NEW j \in Kinds PROVE Q[r].at[j] \in DOMAIN W \cup {NoDomain}
  <2>1. R[r].at[j] \in DOMAIN D \cup {NoDomain} /\ r \in DOMAIN R
    BY <1>5 DEF Sound
  <2>2. R[r].at[j] = d => j = k
    BY <2>1, PlacementKind
  <2> QED BY <1>2, <1>6, <2>1, <2>2
<1>9. ASSUME NEW j \in Kinds, NEW x \in DomainsOf[j] \cap DOMAIN W PROVE Members(Q, W, j, x)
  <2>1. x \in DomainsOf[j] \cap DOMAIN D /\ x # d /\ W[x] = D[x] /\ x # NoDomain
    BY <1>2, KindFacts
  <2>2. Members(R, D, j, x)
    BY <2>1 DEF Sound
  <2>3. ASSUME NEW r \in DOMAIN R PROVE Q[r].at[j] = x <=> R[r].at[j] = x
    BY <1>6, <2>1
  <2> QED BY <1>5, <2>1, <2>2, <2>3 DEF Members
<1>10. \A e \in E : e[1] \in DOMAIN Q /\ e[2] \in DOMAIN Q
  BY <1>5 DEF Sound
<1>11. Sound(Q, W, E)
  BY <1>7, <1>8, <1>9, <1>10 DEF Sound
<1> QED BY <1>11 DEF who, Q, W

(* A resource is registered into the domains it names.                     *)
LEMMA NewResourceSound ==
    ASSUME NEW R, NEW D, NEW E, IsResourceMap(R), IsDomainMap(D), Sound(R, D, E),
           NEW r \in Resources, r \notin DOMAIN R, NEW at \in Placements,
           \A k \in Kinds : at[k] \in DOMAIN D \cup {NoDomain},
           NEW rec, rec.generation # 0, rec.at = at
    PROVE  Sound(With(R, r, rec), Join(D, r, at), E)
<1> DEFINE Q == With(R, r, rec)
           W == Join(D, r, at)
<1>1. DOMAIN Q = DOMAIN R \cup {r} /\ Q[r] = rec /\ \A x \in DOMAIN R : Q[x] = R[x]
  BY DEF With
<1>2. DOMAIN W = DOMAIN D
  BY JoinEffect
<1>3. ASSUME NEW k \in Kinds, NEW d \in DomainsOf[k] \cap DOMAIN D
      PROVE  W[d].members = IF at[k] = d THEN D[d].members \cup {r} ELSE D[d].members
  BY JoinMembers
<1> HIDE DEF Q, W
<1>4. \A x \in DOMAIN Q : Q[x].generation # 0
  BY <1>1 DEF Sound
<1>5. ASSUME NEW x \in DOMAIN Q, NEW k \in Kinds PROVE Q[x].at[k] \in DOMAIN W \cup {NoDomain}
  BY <1>1, <1>2 DEF Sound
<1>6. ASSUME NEW k \in Kinds, NEW d \in DomainsOf[k] \cap DOMAIN W PROVE Members(Q, W, k, d)
  <2>1. Members(R, D, k, d)
    BY <1>2 DEF Sound
  <2>2. W[d].members = IF at[k] = d THEN D[d].members \cup {r} ELSE D[d].members
    BY <1>2, <1>3
  <2> QED BY <1>1, <2>1, <2>2 DEF Members
<1>7. \A e \in E : e[1] \in DOMAIN Q /\ e[2] \in DOMAIN Q
  BY <1>1 DEF Sound
<1>8. Sound(Q, W, E)
  BY <1>4, <1>5, <1>6, <1>7 DEF Sound
<1> QED BY <1>8 DEF Q, W

(* A resource moves: it leaves the domains it no longer names.             *)
LEMMA MovedSound ==
    ASSUME NEW R, NEW D, NEW E, IsResourceMap(R), IsDomainMap(D), Sound(R, D, E),
           NEW r \in DOMAIN R, NEW at \in Placements,
           \A k \in Kinds : at[k] \in DOMAIN D \cup {NoDomain},
           NEW rec, rec.generation # 0, rec.at = at
    PROVE  Sound(With(R, r, rec), Join(Leave(D, r, Moved(R[r].at, at)), r, at), E)
<1> DEFINE Q == With(R, r, rec)
           old == R[r].at
           moved == Moved(old, at)
           L == Leave(D, r, moved)
           W == Join(L, r, at)
<1>0. r \in Resources /\ old \in Placements
  BY DEF IsResourceMap, ResourceRecord
<1>1. DOMAIN Q = DOMAIN R /\ Q[r] = rec /\ \A x \in DOMAIN R : x # r => Q[x] = R[x]
  BY DEF With
<1> HIDE DEF Q, old
<1>2. moved \in Placements /\ \A k \in Kinds : moved[k] = IF old[k] = at[k] THEN NoDomain ELSE old[k]
  BY <1>0, MovedType
<1> HIDE DEF moved
<1>3. IsDomainMap(L) /\ DOMAIN L = DOMAIN D
  BY <1>0, <1>2, LeaveEffect
<1>4. ASSUME NEW k \in Kinds, NEW d \in DomainsOf[k] \cap DOMAIN D
      PROVE  L[d].members = IF moved[k] = d THEN D[d].members \ {r} ELSE D[d].members
  BY <1>0, <1>2, LeaveMembers
<1> HIDE DEF L
<1>5. DOMAIN W = DOMAIN D
  BY <1>0, <1>3, JoinEffect
<1>6. ASSUME NEW k \in Kinds, NEW d \in DomainsOf[k] \cap DOMAIN D
      PROVE  W[d].members = IF at[k] = d THEN L[d].members \cup {r} ELSE L[d].members
  <2>1. d \in DomainsOf[k] \cap DOMAIN L
    BY <1>3
  <2>2. IsDomainMap(L) /\ r \in Resources /\ at \in Placements /\ k \in Kinds
    BY <1>0, <1>3
  <2> QED BY ONLY <2>1, <2>2, JoinMembers
<1> HIDE DEF W
<1>7. \A x \in DOMAIN Q : Q[x].generation # 0
  BY <1>1 DEF Sound
<1>8. ASSUME NEW x \in DOMAIN Q, NEW k \in Kinds PROVE Q[x].at[k] \in DOMAIN W \cup {NoDomain}
  BY <1>1, <1>5 DEF Sound
<1>9. ASSUME NEW k \in Kinds, NEW d \in DomainsOf[k] \cap DOMAIN W PROVE Members(Q, W, k, d)
  <2>1. Members(R, D, k, d) /\ d # NoDomain /\ old = R[r].at
    BY <1>5, KindFacts DEF Sound, old
  <2>2. W[d].members = IF at[k] = d THEN L[d].members \cup {r} ELSE L[d].members
    BY <1>5, <1>6
  <2>3. L[d].members = IF moved[k] = d THEN D[d].members \ {r} ELSE D[d].members
    BY <1>4, <1>5
  <2>4. moved[k] = IF old[k] = at[k] THEN NoDomain ELSE old[k]
    BY <1>2
  <2>5. ASSUME NEW x, x # r PROVE x \in W[d].members <=> x \in DOMAIN Q /\ Q[x].at[k] = d
    <3>1. x \in W[d].members <=> x \in D[d].members
      BY <2>2, <2>3, <2>5
    <3> QED BY <1>1, <2>1, <2>5, <3>1 DEF Members
  <2>6. r \in W[d].members <=> at[k] = d
    <3>1. r \in D[d].members <=> old[k] = d
      BY <2>1 DEF Members
    <3> QED BY <2>1, <2>2, <2>3, <2>4, <3>1
  <2> QED BY <1>1, <2>5, <2>6 DEF Members
<1>10. \A e \in E : e[1] \in DOMAIN Q /\ e[2] \in DOMAIN Q
  BY <1>1 DEF Sound
<1>11. Sound(Q, W, E)
  BY <1>7, <1>8, <1>9, <1>10 DEF Sound
<1> QED BY <1>11 DEF Q, old, moved, L, W

(* A resource goes, from its domains and with its edges.                   *)
LEMMA RemovedResourceSound ==
    ASSUME NEW R, NEW D, NEW E, IsResourceMap(R), IsDomainMap(D), Sound(R, D, E),
           NEW r \in DOMAIN R, NEW F, F \subseteq E, \A e \in F : r # e[1] /\ r # e[2]
    PROVE  Sound(Without(R, r), Leave(D, r, R[r].at), F)
<1> DEFINE Q == Without(R, r)
           at == R[r].at
           W == Leave(D, r, at)
<1>0. r \in Resources /\ at \in Placements
  BY DEF IsResourceMap, ResourceRecord
<1>1. DOMAIN Q = DOMAIN R \ {r} /\ \A x \in DOMAIN R : x # r => Q[x] = R[x]
  BY DEF Without
<1> HIDE DEF Q, at
<1>2. DOMAIN W = DOMAIN D
  BY <1>0, LeaveEffect
<1>3. ASSUME NEW k \in Kinds, NEW d \in DomainsOf[k] \cap DOMAIN D
      PROVE  W[d].members = IF at[k] = d THEN D[d].members \ {r} ELSE D[d].members
  BY <1>0, LeaveMembers
<1> HIDE DEF W
<1>4. \A x \in DOMAIN Q : Q[x].generation # 0
  BY <1>1 DEF Sound
<1>5. ASSUME NEW x \in DOMAIN Q, NEW k \in Kinds PROVE Q[x].at[k] \in DOMAIN W \cup {NoDomain}
  BY <1>1, <1>2 DEF Sound
<1>6. ASSUME NEW k \in Kinds, NEW d \in DomainsOf[k] \cap DOMAIN W PROVE Members(Q, W, k, d)
  <2>1. Members(R, D, k, d) /\ at = R[r].at
    BY <1>2 DEF Sound, at
  <2>2. W[d].members = IF at[k] = d THEN D[d].members \ {r} ELSE D[d].members
    BY <1>2, <1>3
  <2> QED BY <1>1, <2>1, <2>2 DEF Members
<1>7. \A e \in F : e[1] \in DOMAIN Q /\ e[2] \in DOMAIN Q
  BY <1>1 DEF Sound
<1>8. Sound(Q, W, F)
  BY <1>4, <1>5, <1>6, <1>7 DEF Sound
<1> QED BY <1>8 DEF Q, at, W

-----------------------------------------------------------------------------
(* Whatever has not been through a replay, or a refusal half-way, is sound:*)
(* memory, and the snapshot until something is appended to the journal.    *)
SoundCatalog(cat) == Sound(cat.resources, cat.domains, cat.edges)

SoundInv ==
    /\ phase = "up" /\ pristine => SoundCatalog(memory)
    /\ pristine /\ ~journalled => SoundCatalog(durable)

(* The members a careful caller declares.                                  *)
LEMMA CarefulMembers ==
    ASSUME NEW k \in Kinds, NEW d, NEW members, Known(members),
           Unplaced(k, d, members) \/ (k = "containment" /\ Conflicts(d, members) = {})
    PROVE  /\ members \subseteq DOMAIN memory.resources
           /\ \A r \in members : memory.resources[r].at[k] \in {NoDomain, d}
BY DEF Known, Unplaced, Conflicts

LEMMA DomainOperationSound ==
    ASSUME TypeInv, SoundCatalog(memory), pristine',
           NEW k \in Kinds, NEW d \in DomainsOf[k], NEW members \in SUBSET Resources,
           \/ k = "containment" /\ RegisterDomain(d, members)
           \/ k = "containment" /\ UpdateDomain(d, members)
           \/ DeclareDomain(k, d, members)
    PROVE  SoundCatalog(memory')
<1> DEFINE R == memory.resources
           D == memory.domains
           E == memory.edges
<1>0. DOMAIN memory = Fields /\ IsResourceMap(R) /\ IsDomainMap(D) /\ Sound(R, D, E)
  BY MapFacts DEF SoundCatalog
<1>1. Domain(members).members = members
  BY DEF Domain
<1>2. CASE k = "containment" /\ RegisterDomain(d, members)
  <2>1. /\ d \notin DOMAIN D /\ Remembers(Known(members)) /\ Conflicts(d, members) = {}
        /\ memory'.resources = Placed(R, members \cap DOMAIN R, "containment", d)
        /\ memory'.domains = With(D, d, Domain(members)) /\ memory'.edges = E
    BY <1>0, <1>2, RegisterDomainStores DEF Stored
  <2>2. members \subseteq DOMAIN R /\ \A r \in members : R[r].at[k] \in {NoDomain, d}
    BY <1>2, <2>1, CarefulMembers DEF Remembers
  <2>3. members \cap DOMAIN R = members
    BY <2>2
  <2> QED BY <1>0, <1>1, <1>2, <2>1, <2>2, <2>3, NewDomainSound DEF SoundCatalog
<1>3. CASE k = "containment" /\ UpdateDomain(d, members)
  <2>1. /\ d \in DOMAIN D /\ members \subseteq DOMAIN R
        /\ Remembers(Unplaced("containment", d, members))
        /\ memory'.resources = Displaced(Placed(R, members, "containment", d),
                                         D[d].members \ members, "containment", d)
        /\ memory'.domains = With(D, d, Domain(members)) /\ memory'.edges = E
    BY <1>0, <1>3, UpdateDomainStores DEF Stored
  <2>2. \A r \in members : R[r].at[k] \in {NoDomain, d}
    BY <1>3, <2>1 DEF Remembers, Unplaced
  <2> QED BY <1>0, <1>1, <1>3, <2>1, <2>2, RedefinedSound DEF SoundCatalog
<1>4. CASE DeclareDomain(k, d, members)
  <2>1. /\ d \notin DOMAIN D /\ Remembers(Known(members) /\ Unplaced(k, d, members))
        /\ memory'.resources = Placed(R, members, k, d)
        /\ memory'.domains = With(D, d, Domain(members)) /\ memory'.edges = E
    BY <1>0, <1>4, DeclareDomainStores DEF Stored
  <2>2. members \subseteq DOMAIN R /\ \A r \in members : R[r].at[k] \in {NoDomain, d}
    BY <2>1, CarefulMembers DEF Remembers
  <2> QED BY <1>0, <1>1, <2>1, <2>2, NewDomainSound DEF SoundCatalog
<1> QED BY <1>2, <1>3, <1>4

LEMMA RemoveDomainKeepsSound ==
    ASSUME TypeInv, SoundCatalog(memory), NEW k \in Kinds, NEW d \in DomainsOf[k],
           RemoveDomain(k, d)
    PROVE  SoundCatalog(memory')
<1>0. /\ DOMAIN memory = Fields /\ IsResourceMap(memory.resources) /\ IsDomainMap(memory.domains)
      /\ Sound(memory.resources, memory.domains, memory.edges)
  BY MapFacts DEF SoundCatalog
<1>1. /\ d \in DOMAIN memory.domains
      /\ memory'.resources = Displaced(memory.resources, memory.domains[d].members, k, d)
      /\ memory'.domains = Without(memory.domains, d) /\ memory'.edges = memory.edges
  BY <1>0, RemoveDomainStores DEF Stored
<1> QED BY <1>0, <1>1, RemovedDomainSound DEF SoundCatalog

LEMMA RegisterResourceSound ==
    ASSUME TypeInv, SoundCatalog(memory), NEW r \in Resources, NEW at \in Placements,
           RegisterResource(r, at)
    PROVE  SoundCatalog(memory')
<1> DEFINE rec == [generation |-> 1, at |-> at]
<1>0. /\ DOMAIN memory = Fields /\ IsResourceMap(memory.resources) /\ IsDomainMap(memory.domains)
      /\ Sound(memory.resources, memory.domains, memory.edges)
  BY MapFacts DEF SoundCatalog
<1>1. /\ r \notin DOMAIN memory.resources
      /\ \A k \in Kinds : at[k] \in DOMAIN memory.domains \cup {NoDomain}
      /\ memory'.resources = With(memory.resources, r, rec)
      /\ memory'.domains = Join(memory.domains, r, at) /\ memory'.edges = memory.edges
  BY <1>0, RegisterResourceStores DEF Stored, Found
<1>2. rec.generation # 0 /\ rec.at = at
  OBVIOUS
<1> HIDE DEF rec
<1> QED BY <1>0, <1>1, <1>2, NewResourceSound DEF SoundCatalog

LEMMA UpdateResourceSound ==
    ASSUME TypeInv, SoundCatalog(memory), NEW r \in Resources, NEW at \in Placements,
           UpdateResource(r, at), pristine'
    PROVE  SoundCatalog(memory')
<1> DEFINE rec == [generation |-> memory.resources[r].generation + 1, at |-> at]
<1>0. /\ DOMAIN memory = Fields /\ IsResourceMap(memory.resources) /\ IsDomainMap(memory.domains)
      /\ Sound(memory.resources, memory.domains, memory.edges)
  BY MapFacts DEF SoundCatalog
<1>1. /\ r \in DOMAIN memory.resources
      /\ \A k \in Kinds : at[k] \in DOMAIN memory.domains \cup {NoDomain}
      /\ memory'.resources = With(memory.resources, r, rec)
      /\ memory'.domains = Join(Leave(memory.domains, r, Moved(memory.resources[r].at, at)), r, at)
      /\ memory'.edges = memory.edges
  BY <1>0, UpdateResourceStores DEF Stored, Remembers, Found
<1>2. rec.generation # 0 /\ rec.at = at
  <2>1. memory.resources[r].generation \in Nat
    BY <1>0, <1>1, KindFacts DEF IsResourceMap, ResourceRecord
  <2> QED BY <2>1
<1> HIDE DEF rec
<1> QED BY <1>0, <1>1, <1>2, MovedSound DEF SoundCatalog

LEMMA RemoveResourceKeepsSound ==
    ASSUME TypeInv, SoundCatalog(memory), NEW r \in Resources, RemoveResource(r)
    PROVE  SoundCatalog(memory')
<1> DEFINE F == memory.edges \ EdgesOf(r)
<1>0. /\ DOMAIN memory = Fields /\ IsResourceMap(memory.resources) /\ IsDomainMap(memory.domains)
      /\ Sound(memory.resources, memory.domains, memory.edges)
  BY MapFacts DEF SoundCatalog
<1>1. /\ r \in DOMAIN memory.resources
      /\ memory'.resources = Without(memory.resources, r)
      /\ memory'.domains = Leave(memory.domains, r, memory.resources[r].at)
      /\ memory'.edges = F
  BY <1>0, RemoveResourceStores DEF Stored
<1>2. F \subseteq memory.edges /\ \A e \in F : r # e[1] /\ r # e[2]
  BY DEF EdgesOf
<1> HIDE DEF F
<1> QED BY <1>0, <1>1, <1>2, RemovedResourceSound DEF SoundCatalog

LEMMA DependencySound ==
    ASSUME TypeInv, SoundCatalog(memory), NEW e \in Edges,
           RegisterDependency(e) \/ RemoveDependency(e)
    PROVE  SoundCatalog(memory')
<1>0. DOMAIN memory = Fields
  BY MapFacts
<1>1. CASE RegisterDependency(e)
  <2>1. /\ e[1] \in DOMAIN memory.resources /\ e[2] \in DOMAIN memory.resources
        /\ memory'.resources = memory.resources /\ memory'.domains = memory.domains
        /\ memory'.edges = memory.edges \cup {e}
    BY <1>0, <1>1, RegisterDependencyStores DEF Stored
  <2> QED BY <2>1 DEF SoundCatalog, Sound
<1>2. CASE RemoveDependency(e)
  <2>1. /\ memory'.resources = memory.resources /\ memory'.domains = memory.domains
        /\ memory'.edges = memory.edges \ {e}
    BY <1>0, <1>2, RemoveDependencyStores DEF Stored
  <2> QED BY <2>1 DEF SoundCatalog, Sound
<1> QED BY <1>1, <1>2

(* Any operation that commits.                                             *)
LEMMA CommitSound ==
    ASSUME SoundInv, NEW events, Staged(events),
           pristine' /\ SoundCatalog(memory) => SoundCatalog(memory')
    PROVE  SoundInv'
BY DEF SoundInv, Staged, SoundCatalog

LEMMA HalfwaySound ==
    ASSUME TypeInv, SoundInv, NEW d \in DomainsOf["containment"], NEW before,
           Halfway(before, d)
    PROVE  SoundInv'
<1>1. /\ phase = "up" /\ pristine' = (pristine /\ before = {}) /\ journalled' = journalled
      /\ durable' = durable /\ memory'.domains = memory.domains /\ memory'.edges = memory.edges
      /\ memory'.resources = Placed(memory.resources, before, "containment", d)
  BY DEF Halfway, Idle
<1>2. ASSUME pristine, before = {} PROVE SoundCatalog(memory')
  <2> DEFINE R == memory.resources
             P == Placed(R, before, "containment", d)
  <2>1. DOMAIN P = DOMAIN R /\ \A x \in DOMAIN R : P[x] = R[x]
    BY <1>2 DEF Placed
  <2>2. Sound(R, memory.domains, memory.edges)
    BY <1>1, <1>2 DEF SoundInv, SoundCatalog
  <2> HIDE DEF R, P
  <2>3. Sound(P, memory.domains, memory.edges)
    BY <2>1, <2>2 DEF Sound, Members
  <2> QED BY <1>1, <2>3 DEF SoundCatalog, P, R
<1> QED BY <1>1, <1>2 DEF SoundInv, TypeInv, SoundCatalog

LEMMA OperationSound ==
    ASSUME TypeInv, SoundInv, Operation
    PROVE  SoundInv'
<1>1. ASSUME NEW members \in SUBSET Resources, NEW d \in DomainsOf["containment"],
             RegisterDomain(d, members) \/ UpdateDomain(d, members)
      PROVE  SoundInv'
  <2>1. "containment" \in Kinds
    BY DEF Kinds
  <2>2. pristine' /\ SoundCatalog(memory) => SoundCatalog(memory')
    BY <1>1, <2>1, DomainOperationSound
  <2>3. \E events : Staged(events)
    BY <1>1, RegisterDomainStaged, UpdateDomainStaged
  <2> QED BY <2>2, <2>3, CommitSound
<1>2. ASSUME NEW members \in SUBSET Resources, NEW d \in DomainsOf["containment"],
             RefuseDomain(d, members)
      PROVE  SoundInv'
  BY <1>2, RefuseDomainEffect, HalfwaySound
<1>3. ASSUME NEW members \in SUBSET Resources, NEW k \in Kinds, NEW d \in DomainsOf[k],
             DeclareDomain(k, d, members)
      PROVE  SoundInv'
  <2>1. pristine' /\ SoundCatalog(memory) => SoundCatalog(memory')
    BY <1>3, DomainOperationSound
  <2> QED BY <1>3, <2>1, DeclareDomainStaged, CommitSound
<1>4. ASSUME NEW k \in Kinds, NEW d \in DomainsOf[k], RemoveDomain(k, d) PROVE SoundInv'
  <2>1. pristine' /\ SoundCatalog(memory) => SoundCatalog(memory')
    BY <1>4, RemoveDomainKeepsSound
  <2> QED BY <1>4, <2>1, RemoveDomainStaged, CommitSound
<1>5. ASSUME NEW r \in Resources, NEW at \in Placements,
             RegisterResource(r, at) \/ UpdateResource(r, at)
      PROVE  SoundInv'
  <2>1. pristine' /\ SoundCatalog(memory) => SoundCatalog(memory')
    BY <1>5, RegisterResourceSound, UpdateResourceSound
  <2>2. \E events : Staged(events)
    BY <1>5, RegisterResourceStaged, UpdateResourceStaged
  <2> QED BY <2>1, <2>2, CommitSound
<1>6. ASSUME NEW r \in Resources, RemoveResource(r) PROVE SoundInv'
  <2>1. pristine' /\ SoundCatalog(memory) => SoundCatalog(memory')
    BY <1>6, RemoveResourceKeepsSound
  <2> QED BY <1>6, <2>1, RemoveResourceStaged, CommitSound
<1>7. ASSUME NEW e \in Edges, RegisterDependency(e) \/ RemoveDependency(e) PROVE SoundInv'
  <2>1. pristine' /\ SoundCatalog(memory) => SoundCatalog(memory')
    BY <1>7, DependencySound
  <2> QED BY <1>7, <2>1, DependencyStaged, CommitSound
<1> QED BY <1>1, <1>2, <1>3, <1>4, <1>5, <1>6, <1>7 DEF Operation

LEMMA SoundStep == TypeInv /\ SoundInv /\ [Next]_vars => SoundInv'
<1> SUFFICES ASSUME TypeInv, SoundInv, [Next]_vars PROVE SoundInv'
  OBVIOUS
<1>1. CASE Flush
  BY <1>1 DEF Flush, SoundInv, SoundCatalog
<1>2. CASE Crash
  BY <1>2 DEF Crash, SoundInv, SoundCatalog
<1>3. CASE Shutdown
  BY <1>3 DEF Shutdown, SoundInv, SoundCatalog
<1>4. CASE Recover
  BY <1>4 DEF Recover, SoundInv, SoundCatalog, TypeInv
<1>5. CASE RefuseStore
  BY <1>5 DEF RefuseStore, SoundInv, SoundCatalog
<1>6. CASE UNCHANGED vars
  BY <1>6 DEF vars, SoundInv, SoundCatalog
<1> QED BY <1>1, <1>2, <1>3, <1>4, <1>5, <1>6, OperationSound DEF Next

LEMMA SoundInit == Init => SoundInv
<1> SUFFICES ASSUME Init PROVE SoundInv
  OBVIOUS
<1>1. DOMAIN Empty.resources = {} /\ DOMAIN Empty.domains = {} /\ Empty.edges = {}
  BY DEF Empty
<1>2. SoundCatalog(Empty)
  BY <1>1 DEF SoundCatalog, Sound
<1> QED BY <1>2 DEF Init, SoundInv

(* Membership and placement never drift apart, over register, update and   *)
(* remove of resources and of domains of all three kinds, except by the    *)
(* four events that `pristine' remembers: a declaration the code accepts   *)
(* although it names what is not there or belongs elsewhere (of a member,  *)
(* or of a resource's domain), a register_domain that refuses half-way,    *)
(* and a replay of the journal.                                            *)
THEOREM MembershipAlwaysMutual == Spec => []MembershipIsMutual
<1>1. TypeInv /\ SoundInv => MembershipIsMutual
  <2> SUFFICES ASSUME TypeInv, SoundInv, phase = "up", pristine, NEW k \in Kinds,
                      NEW d \in DomainsOf[k] \cap DOMAIN memory.domains
               PROVE  memory.domains[d].members =
                         {r \in DOMAIN memory.resources : memory.resources[r].at[k] = d}
    BY DEF MembershipIsMutual
  <2>1. Members(memory.resources, memory.domains, k, d)
    BY DEF SoundInv, SoundCatalog, Sound
  <2> QED BY <2>1 DEF Members
<1> QED BY <1>1, CatalogInit, CatalogStep, SoundInit, SoundStep, PTL DEF Spec

(* Until then the snapshot a coordinator writes at shutdown passes the     *)
(* checks of read_topology at the next start: no record without identity,  *)
(* and every domain, member and endpoint it names is in the document.      *)
THEOREM ShutdownAlwaysReadable == Spec => []ShutdownIsReadable
<1>1. TypeInv /\ SoundInv => ShutdownIsReadable
  <2> SUFFICES ASSUME TypeInv, SoundInv, phase = "up", pristine PROVE Resolvable(memory)
    BY DEF ShutdownIsReadable
  <2>1. Sound(memory.resources, memory.domains, memory.edges) /\ IsDomainMap(memory.domains)
    BY MapFacts DEF SoundInv, SoundCatalog
  <2>2. \A d \in DOMAIN memory.domains : memory.domains[d].members \subseteq DOMAIN memory.resources
    BY <2>1, MembersAreRegistered
  <2> QED BY <2>1, <2>2 DEF Resolvable, Sound, IsPhantom
<1> QED BY <1>1, CatalogInit, CatalogStep, SoundInit, SoundStep, PTL DEF Spec

=============================================================================
