------------------------------ MODULE Catalog ------------------------------
(***************************************************************************)
(* The topology the engine keeps (resources, the containment, isolation    *)
(* and failure domains they are placed in, and dependency edges), the      *)
(* records each operation stages for it, and what a restart rebuilds from  *)
(* snapshot and journal.  Sources: src/engine.cpp (register_*, update_*,   *)
(* remove_*, persist_snapshot, recover_from_store), src/state_codec.cpp    *)
(* (the record codecs and the checks of read_topology).                    *)
(*                                                                         *)
(* The bytes on disk are reduced to what they decode to: `durable' is the  *)
(* topology that applying the snapshot and then the journal yields.  How   *)
(* records reach the journal, and in which order when several threads      *)
(* write, is DurableJournal's subject: operations here run one at a time,  *)
(* and a crash loses a suffix of the records the last one staged.          *)
(***************************************************************************)
EXTENDS Naturals, Sequences, SequencesExt, FiniteSets

CONSTANTS
    Resources,      \* resource identities
    DomainsOf,      \* per kind, the domain identities of that kind
    Edges,          \* the dependencies, as <<source, destination>>
    NoDomain,       \* the invalid domain identity
    MaxGeneration,  \* bound: topology and resource generations
    MaxCrashes      \* bound: crashes

Kinds == {"containment", "isolation", "failure"}

ASSUME CatalogAssumption ==
    /\ Resources \subseteq Nat /\ IsFiniteSet(Resources) /\ IsFiniteSet(Edges)
    /\ Edges \subseteq {e \in Resources \X Resources : e[1] # e[2]}
    /\ DOMAIN DomainsOf = Kinds
    /\ \A k, j \in Kinds : k # j => DomainsOf[k] \cap DomainsOf[j] = {}
    /\ \A k \in Kinds : NoDomain \notin DomainsOf[k]
    /\ MaxGeneration \in Nat \ {0} /\ MaxCrashes \in Nat

VARIABLES
    phase,      \* of the coordinator: "up", "down" or "refused"
    memory,     \* Impl::state.topology and its generation
    pending,    \* the records the last operation staged and has yet to flush
    durable,    \* what snapshot and journal decode to
    disk,       \* would recover accept them: "intact" or "corrupt"
    journalled, \* has a record been appended since the snapshot?
    pristine,   \* ghost: memory came neither out of a journal replay nor
                \* out of an operation that failed half-way, and every
                \* declaration so far was careful (see Known, Unplaced, Found)
    cut,        \* ghost: a crash has lost part of a batch
    crashes     \* number of crashes so far

vars == <<phase, memory, pending, durable, disk, journalled, pristine, cut, crashes>>

Domains == UNION {DomainsOf[k] : k \in Kinds}
Nowhere == [k \in Kinds |-> NoDomain]
Placements == {at \in [Kinds -> Domains \cup {NoDomain}] :
                  \A k \in Kinds : at[k] \in DomainsOf[k] \cup {NoDomain}}

Empty == [resources |-> <<>>, domains |-> <<>>, edges |-> {}, generation |-> 1]

(* What resources[id] creates for an identity that is not in the map: a    *)
(* record without identity, generation or placement.                       *)
Phantom == [generation |-> 0, at |-> Nowhere]
IsPhantom(record) == record.generation = 0

-----------------------------------------------------------------------------
(* Finite maps.                                                            *)
With(map, key, value) == [x \in DOMAIN map \cup {key} |-> IF x = key THEN value ELSE map[x]]
Without(map, key) == [x \in DOMAIN map \ {key} |-> map[x]]

(* std::map::operator[] on every key of a set.                             *)
Touched(map, keys) ==
    [x \in DOMAIN map \cup keys |-> IF x \in DOMAIN map THEN map[x] ELSE Phantom]

(* Mutation of Placed: the containment placement, whatever the kind.       *)
PlacedAsContainment(map, who, k, d) ==
    [x \in DOMAIN map |-> IF x \in who THEN [map[x] EXCEPT !.at["containment"] = d] ELSE map[x]]

(* The members among `who' are placed in domain d of kind k.               *)
Placed(map, who, k, d) ==
    [x \in DOMAIN map |-> IF x \in who THEN [map[x] EXCEPT !.at[k] = d] ELSE map[x]]

(* The members among `who' leave domain d, if that is where they are.      *)
Displaced(map, who, k, d) ==
    LET all == Touched(map, who)
    IN  [x \in DOMAIN all |->
            IF x \in who /\ all[x].at[k] = d THEN [all[x] EXCEPT !.at[k] = NoDomain]
            ELSE all[x]]

Join(domains, r, at) ==
    [d \in DOMAIN domains |->
        IF d \in {at[k] : k \in Kinds}
        THEN [domains[d] EXCEPT !.members = @ \cup {r}] ELSE domains[d]]

Leave(domains, r, at) ==
    [d \in DOMAIN domains |->
        IF d \in {at[k] : k \in Kinds}
        THEN [domains[d] EXCEPT !.members = @ \ {r}] ELSE domains[d]]

-----------------------------------------------------------------------------
(* Journal records, and what replaying one does to a topology.             *)
ResourceUpsert(r, record) == [kind |-> "RESOURCE_UPSERT", id |-> r, value |-> record]
ResourceRemove(r) == [kind |-> "RESOURCE_REMOVE", id |-> r]
DomainUpsert(d, domain) == [kind |-> "DOMAIN_UPSERT", id |-> d, value |-> domain]
DomainRemove(d) == [kind |-> "DOMAIN_REMOVE", id |-> d]
DependencyUpsert(e) == [kind |-> "DEPENDENCY_UPSERT", id |-> e]
DependencyRemove(e) == [kind |-> "DEPENDENCY_REMOVE", id |-> e]
Counters(n) == [kind |-> "COUNTERS", generation |-> n]

Applied(cat, event) ==
    CASE event.kind = "RESOURCE_UPSERT" ->
            [cat EXCEPT !.resources = With(@, event.id, event.value)]
      [] event.kind = "RESOURCE_REMOVE" -> [cat EXCEPT !.resources = Without(@, event.id)]
      [] event.kind = "DOMAIN_UPSERT" ->
            [cat EXCEPT !.domains = With(@, event.id, event.value)]
      [] event.kind = "DOMAIN_REMOVE" -> [cat EXCEPT !.domains = Without(@, event.id)]
      [] event.kind = "DEPENDENCY_UPSERT" -> [cat EXCEPT !.edges = @ \cup {event.id}]
      [] event.kind = "DEPENDENCY_REMOVE" -> [cat EXCEPT !.edges = @ \ {event.id}]
      [] event.kind = "COUNTERS" -> [cat EXCEPT !.generation = event.generation]

(* A record without an identity does not decode.                           *)
Decodes(event) == event.kind = "RESOURCE_UPSERT" => ~IsPhantom(event.value)

(* read_topology: every record has its identity, and every reference in    *)
(* the document resolves within the document.                              *)
Resolvable(cat) ==
    /\ \A r \in DOMAIN cat.resources :
          /\ ~IsPhantom(cat.resources[r])
          /\ \A k \in Kinds : cat.resources[r].at[k] \in DOMAIN cat.domains \cup {NoDomain}
    /\ \A d \in DOMAIN cat.domains : cat.domains[d].members \subseteq DOMAIN cat.resources
    /\ \A e \in cat.edges : {e[1], e[2]} \subseteq DOMAIN cat.resources

-----------------------------------------------------------------------------
Init ==
    /\ phase = "down" /\ memory = Empty /\ pending = <<>>
    /\ durable = Empty /\ disk = "intact"
    /\ journalled = FALSE /\ pristine = TRUE /\ cut = FALSE /\ crashes = 0

(* Operations run one at a time, up to the bound on generations.           *)
Idle == phase = "up" /\ pending = <<>> /\ memory.generation < MaxGeneration

(* Mutation of Commit: the COUNTERS record is not staged.                  *)
CommitUncounted(cat, events, careful) ==
    /\ memory' = [cat EXCEPT !.generation = memory.generation + 1]
    /\ pending' = events
    /\ pristine' = (pristine /\ careful)
    /\ UNCHANGED <<phase, durable, disk, journalled, cut, crashes>>

(* An operation changes memory and stages its records under the lock; the  *)
(* COUNTERS record is always the last one.  `careful' says whether the     *)
(* caller declared only what is there.                                     *)
Commit(cat, events, careful) ==
    /\ memory' = [cat EXCEPT !.generation = memory.generation + 1]
    /\ pending' = events \o <<Counters(memory.generation + 1)>>
    /\ pristine' = (pristine /\ careful)
    /\ UNCHANGED <<phase, durable, disk, journalled, cut, crashes>>

(* The order in which a std::set of resources is walked.                   *)
InOrder(resources) ==
    {order \in SetToSeqs(resources) : \A i, j \in DOMAIN order : i < j => order[i] < order[j]}

(* A careful caller declares members that are registered and are not       *)
(* placed in another domain of that kind, and places a resource in domains *)
(* that are registered.  The code accepts other declarations as well.      *)
Known(members) == members \subseteq DOMAIN memory.resources

Unplaced(k, d, members) ==
    \A r \in members \cap DOMAIN memory.resources :
       memory.resources[r].at[k] \in {NoDomain, d}

Found(at) == \A k \in Kinds : at[k] \in DOMAIN memory.domains \cup {NoDomain}

(* The members register_domain finds in another containment domain.        *)
Conflicts(d, members) ==
    {r \in members \cap DOMAIN memory.resources :
        memory.resources[r].at["containment"] \notin {NoDomain, d}}

(* register_domain: registered members are placed and journalled with the  *)
(* domain.                                                                 *)
RegisterDomain(d, members) ==
    /\ Idle /\ d \notin DOMAIN memory.domains /\ Conflicts(d, members) = {}
    /\ LET known  == members \cap DOMAIN memory.resources
           placed == Placed(memory.resources, known, "containment", d)
           domain == [generation |-> memory.generation + 1, members |-> members]
       IN  \E order \in InOrder(known) :
              Commit([memory EXCEPT !.resources = placed,
                                    !.domains = With(memory.domains, d, domain)],
                     [i \in DOMAIN order |-> ResourceUpsert(order[i], placed[order[i]])]
                        \o <<DomainUpsert(d, domain)>>,
                     Known(members))

(* ... and refused at the first member of another domain, when the members *)
(* before it are already placed and the generation is already taken.       *)
RefuseDomain(d, members) ==
    /\ Idle /\ d \notin DOMAIN memory.domains /\ Conflicts(d, members) # {}
    /\ LET before == {r \in members \cap DOMAIN memory.resources :
                         \A c \in Conflicts(d, members) : r < c}
       IN  /\ memory' = [memory EXCEPT
                            !.resources = Placed(@, before, "containment", d),
                            !.generation = @ + 1]
           /\ pristine' = (pristine /\ before = {})
    /\ UNCHANGED <<phase, pending, durable, disk, journalled, cut, crashes>>

(* register_isolation_domain, register_failure_domain: registered members  *)
(* are placed wherever they were before, and only the domain is journalled.*)
DeclareDomain(k, d, members) ==
    /\ Idle /\ d \notin DOMAIN memory.domains
    /\ LET domain == [generation |-> memory.generation + 1, members |-> members]
       IN  Commit([memory EXCEPT !.resources = Placed(@, members, k, d),
                                 !.domains = With(memory.domains, d, domain)],
                  <<DomainUpsert(d, domain)>>, Known(members) /\ Unplaced(k, d, members))

(* Mutation of UpdateDomain: members that leave keep their placement.      *)
UpdateDomainInPart(d, members) ==
    /\ Idle /\ d \in DOMAIN memory.domains
    /\ members \subseteq DOMAIN memory.resources
    /\ LET domain == [generation |-> memory.generation + 1, members |-> members]
       IN  Commit([memory EXCEPT !.domains = With(memory.domains, d, domain),
                                 !.resources = Placed(@, members, "containment", d)],
                  <<DomainUpsert(d, domain)>>, Unplaced("containment", d, members))

(* update_domain (only containment domains have one).                      *)
UpdateDomain(d, members) ==
    /\ Idle /\ d \in DOMAIN memory.domains
    /\ members \subseteq DOMAIN memory.resources
    /\ LET domain == [generation |-> memory.generation + 1, members |-> members]
           left == memory.domains[d].members \ members
       IN  Commit([memory EXCEPT
                      !.domains = With(memory.domains, d, domain),
                      !.resources = Displaced(Placed(@, members, "containment", d),
                                              left, "containment", d)],
                  <<DomainUpsert(d, domain)>>, Unplaced("containment", d, members))

(* remove_domain, remove_isolation_domain, remove_failure_domain: the      *)
(* members' placement is cleared in memory only.                           *)
RemoveDomain(k, d) ==
    /\ Idle /\ d \in DOMAIN memory.domains
    /\ Commit([memory EXCEPT !.domains = Without(@, d),
                             !.resources = Displaced(@, memory.domains[d].members, k, d)],
              <<DomainRemove(d)>>, TRUE)

RegisterResource(r, at) ==
    /\ Idle /\ r \notin DOMAIN memory.resources /\ Found(at)
    /\ LET record == [generation |-> 1, at |-> at]
       IN  Commit([memory EXCEPT !.resources = With(@, r, record),
                                 !.domains = Join(@, r, at)],
                  <<ResourceUpsert(r, record)>>, TRUE)

(* update_resource takes the placement as given: it looks no domain up.    *)
UpdateResource(r, at) ==
    /\ Idle /\ r \in DOMAIN memory.resources /\ ~IsPhantom(memory.resources[r])
    /\ memory.resources[r].generation < MaxGeneration
    /\ LET old == memory.resources[r].at
           record == [generation |-> memory.resources[r].generation + 1, at |-> at]
           moved == [k \in Kinds |-> IF old[k] = at[k] THEN NoDomain ELSE old[k]]
       IN  Commit([memory EXCEPT !.resources = With(@, r, record),
                                 !.domains = Join(Leave(@, r, moved), r, at)],
                  <<ResourceUpsert(r, record)>>, Found(at))

EdgesOf(r) == {e \in memory.edges : r \in {e[1], e[2]}}

(* Mutation of RemoveResource: the edges go in memory, not in the journal. *)
RemoveResourceQuietly(r) ==
    /\ Idle /\ r \in DOMAIN memory.resources /\ ~IsPhantom(memory.resources[r])
    /\ Commit([memory EXCEPT !.resources = Without(@, r), !.edges = @ \ EdgesOf(r),
                             !.domains = Leave(@, r, memory.resources[r].at)],
              <<ResourceRemove(r)>>, TRUE)

(* remove_resource, once no live containment holds the resource: its edges *)
(* go with it, and it leaves the domains it names.                         *)
RemoveResource(r) ==
    /\ Idle /\ r \in DOMAIN memory.resources /\ ~IsPhantom(memory.resources[r])
    /\ \E gone \in SetToSeqs(EdgesOf(r)) :
          Commit([memory EXCEPT !.resources = Without(@, r), !.edges = @ \ EdgesOf(r),
                                !.domains = Leave(@, r, memory.resources[r].at)],
                 <<ResourceRemove(r)>> \o [i \in DOMAIN gone |-> DependencyRemove(gone[i])],
                 TRUE)

(* Mutation of RegisterDependency: the endpoints are not looked up.        *)
RegisterAnyDependency(e) ==
    /\ Idle /\ e \notin memory.edges
    /\ Commit([memory EXCEPT !.edges = @ \cup {e}], <<DependencyUpsert(e)>>, TRUE)

RegisterDependency(e) ==
    /\ Idle /\ e \notin memory.edges
    /\ {e[1], e[2]} \subseteq DOMAIN memory.resources
    /\ Commit([memory EXCEPT !.edges = @ \cup {e}], <<DependencyUpsert(e)>>, TRUE)

RemoveDependency(e) ==
    /\ Idle /\ e \in memory.edges
    /\ Commit([memory EXCEPT !.edges = @ \ {e}], <<DependencyRemove(e)>>, TRUE)

-----------------------------------------------------------------------------
(* flush: one staged record reaches the journal.                           *)
Flush ==
    /\ phase = "up" /\ pending # <<>>
    /\ durable' = Applied(durable, Head(pending))
    /\ disk' = IF Decodes(Head(pending)) THEN disk ELSE "corrupt"
    /\ pending' = Tail(pending)
    /\ journalled' = TRUE
    /\ UNCHANGED <<phase, memory, pristine, cut, crashes>>

Crash ==
    /\ phase = "up" /\ crashes < MaxCrashes
    /\ crashes' = crashes + 1
    /\ phase' = "down" /\ memory' = Empty /\ pending' = <<>>
    /\ cut' = (cut \/ pending # <<>>)
    /\ UNCHANGED <<durable, disk, journalled, pristine>>

(* Engine::shutdown with persist_snapshot: the snapshot replaces the       *)
(* journal, and is checked only when it is read.                           *)
Shutdown ==
    /\ phase = "up" /\ pending = <<>>
    /\ durable' = memory
    /\ disk' = IF Resolvable(memory) THEN "intact" ELSE "corrupt"
    /\ journalled' = FALSE
    /\ phase' = "down" /\ memory' = Empty
    /\ UNCHANGED <<pending, pristine, cut, crashes>>

(* recover_from_store.                                                     *)
Recover ==
    /\ phase = "down" /\ disk = "intact"
    /\ phase' = "up" /\ memory' = durable
    /\ pristine' = (pristine /\ ~journalled)
    /\ UNCHANGED <<pending, durable, disk, journalled, cut, crashes>>

RefuseStore ==
    /\ phase = "down" /\ disk = "corrupt"
    /\ phase' = "refused"
    /\ UNCHANGED <<memory, pending, durable, disk, journalled, pristine, cut, crashes>>

Operation ==
    \/ \E members \in SUBSET Resources :
          \/ \E d \in DomainsOf["containment"] :
                RegisterDomain(d, members) \/ RefuseDomain(d, members) \/ UpdateDomain(d, members)
          \/ \E k \in Kinds \ {"containment"} : \E d \in DomainsOf[k] :
                DeclareDomain(k, d, members)
    \/ \E k \in Kinds : \E d \in DomainsOf[k] : RemoveDomain(k, d)
    \/ \E r \in Resources : \/ \E at \in Placements : RegisterResource(r, at) \/ UpdateResource(r, at)
                            \/ RemoveResource(r)
    \/ \E e \in Edges : RegisterDependency(e) \/ RemoveDependency(e)

Next == Operation \/ Flush \/ Crash \/ Shutdown \/ Recover \/ RefuseStore

Spec == Init /\ [][Next]_vars
-----------------------------------------------------------------------------
(* Type correctness.  A domain of one kind never becomes the placement of  *)
(* another kind.                                                           *)
ResourceRecord == [generation : 0..MaxGeneration, at : Placements]
DomainRecord == [generation : 1..MaxGeneration, members : SUBSET Resources]

IsCatalog(cat) ==
    /\ DOMAIN cat.resources \subseteq Resources /\ DOMAIN cat.domains \subseteq Domains
    /\ \A r \in DOMAIN cat.resources : cat.resources[r] \in ResourceRecord
    /\ \A d \in DOMAIN cat.domains : cat.domains[d] \in DomainRecord
    /\ cat.edges \subseteq Edges /\ cat.generation \in 1..MaxGeneration

TypeOK ==
    /\ phase \in {"up", "down", "refused"} /\ disk \in {"intact", "corrupt"}
    /\ IsCatalog(memory) /\ IsCatalog(durable)
    /\ {journalled, pristine, cut} \subseteq BOOLEAN

Registered(cat) == {r \in DOMAIN cat.resources : ~IsPhantom(cat.resources[r])}

(* Nothing that was flushed is forgotten or resurrected: once an operation *)
(* has flushed its records, snapshot and journal decode to the resources,  *)
(* domains and edges that memory holds, under the same generations         *)
(* (README, Persistence).  Placement and membership are not part of this:  *)
(* the operations do not journal every change of them.                     *)
ReplayAgrees ==
    phase = "up" /\ pending = <<>> =>
        /\ Registered(durable) = Registered(memory)
        /\ \A r \in Registered(memory) :
              durable.resources[r].generation = memory.resources[r].generation
        /\ DOMAIN durable.domains = DOMAIN memory.domains
        /\ \A d \in DOMAIN memory.domains :
              durable.domains[d].generation = memory.domains[d].generation
        /\ durable.edges = memory.edges
        /\ durable.generation <= memory.generation

(* A resource is a member of exactly the domains it is placed in (README,  *)
(* Domain model: "A resource joins every domain it references, so domain   *)
(* membership and resource placement cannot drift apart"), until one of    *)
(* the four events happens after which the code lets them drift: a member  *)
(* is declared before it is registered or while another domain has it, a   *)
(* resource is moved to a domain that is not there, register_domain        *)
(* refuses a member after placing others, or the journal is replayed.      *)
MembershipIsMutual ==
    phase = "up" /\ pristine =>
        \A k \in Kinds : \A d \in DomainsOf[k] \cap DOMAIN memory.domains :
           memory.domains[d].members =
              {r \in DOMAIN memory.resources : memory.resources[r].at[k] = d}

(* Until then a shutdown writes a snapshot that the next start accepts:    *)
(* nothing in memory refers to what is not there.                          *)
ShutdownIsReadable == phase = "up" /\ pristine => Resolvable(memory)

(* The generation a domain update takes is new: it is above the one the    *)
(* domain has, so a second caller with the old one is refused ("domain     *)
(* generation has advanced").  A crash that loses the COUNTERS record of a *)
(* batch breaks this: recover_from_store does not derive the topology      *)
(* generation from the domains it recovered.                               *)
NextGenerationIsNew ==
    phase = "up" /\ ~cut =>
        \A d \in DOMAIN memory.domains : memory.domains[d].generation <= memory.generation

(* What the comment on forward declaration promises ("A boundary may be    *)
(* declared before the resources that will live inside it"): a coordinator *)
(* that was stopped, whatever its callers declared, starts again.          *)
StoppedCanStart == disk = "intact"
=============================================================================
