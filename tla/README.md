# A TLA+ model of the Fault Containment Fabric

The Fault Containment Fabric is a C++ library and a coordinator process. It
records resources and their dependencies, accepts fault observations, computes
what a fault can reach, commits *containments* (fence everything in that
radius), has executors enforce them, verifies the result from evidence and
releases resources again. Worker processes own resources; a worker that dies is
a fault. The state survives crashes through a snapshot and a write-ahead journal.

This directory models the durability protocol, the containment lifecycle, the
blast radius, the coordinator with its worker registry, the topology with its
replay, and the conversation with a worker. TLC checks them on small instances,
TLAPS proves every safety property the runs check for every instance. Paths
below are relative to the repository.

## 1. Inventory

| Component | State | Operations | Meets |
|---|---|---|---|
| Durability (`src/persistence.cpp`, `stage`/`flush`/`persist_snapshot`/`recover_from_store`/`begin_epoch` of `src/engine.cpp`) | `durable_sequence`, staged records per call, `state.fcfsnap`, `journal.fcf`, `durability_healthy` | stage, append, snapshot, truncate, recover, advance the epoch | every mutating call stages under the state lock and flushes after it |
| Containment lifecycle (`src/engine.cpp`) | resources, dependencies, faults, containments, actions, generations | topology updates, `publish_fault`, `supersede_fault`, `authorize_containment`, `dispatch_containment`, `record_action_ack`, `record_action_result`, `verify_containment`, `authorize_release` | calls the blast radius and the policy; calls executors without the lock |
| Fault state machine (`include/fcf/fault.hpp`) | `FaultRecord::state` | the transitions | moved by authorise, verify, release, supersede |
| Blast radius (`src/blast_radius.cpp`) | none of its own between calls | `compute_blast_radius` | called by authorise and verify on topology, policy and fault |
| Worker registry (`src/engine.cpp`, `src/worker_registry.cpp`) | incarnations, current boot per worker, `authority_loss_faults` | `register_worker`, `retire_worker`, `worker_authority_lost` | owns resources; a loss raises a fault and a containment |
| Coordinator (`src/coordinator.cpp`, `src/net.cpp`) | live sockets, connection count, peer table, acceptor | start, stop, one handler per frame and command | recovers the engine, is its executor |
| Topology (`src/engine.cpp` 378-898, `src/state_codec.cpp`) | resources, three kinds of domains and their members, edges | register, update, remove, snapshot, replay | read by the blast radius and by the action envelopes |
| Worker (`apps/fcf-worker/main.cpp`) and protocol | the generations and grants it knows | hello, evidence, answer a poll, enforce an action | one FIFO connection to the coordinator |
| Degraded mode (`src/engine.cpp` 1400-1511, 2397-2570) | contracts and assessments | authorise, revalidate | read by verification |
| Policy (`src/policy.cpp`) | the rules, `policy_generation` | `set_policy`, validation | read everywhere |

What is hard in this code, and hard to test:

* the flush runs outside the state lock, so the records of two calls reach the
  file in any order, and any of them may fail, be torn or be cut off by a crash;
* a snapshot is a copy used after the lock is released;
* `dispatch_containment` revalidates under the lock, calls executors without it
  and applies their answers under it again, possibly in two threads at once;
* containments overlap, are partly released, re-authorised and verified in any
  order, while evidence, ownership and topology change;
* an evidence handler judges a resource in one critical section and writes it in
  later ones; `worker_authority_lost` is two critical sections too; handshakes,
  retirements, losses, fences and `stop` come in between;
* a restart finds the effects of actions unknown, and rebuilds the topology from
  records that do not journal every change;
* worker and coordinator both send without reading.

`PROJECT.json` lists these as hazards, each at its line, with the property that
watches it.

## 2. Modules

| Module | Subject | Composed with |
|---|---|---|
| `DurableJournal`, `DurableLog` | the store, one process after another; the abstract log it implements | `Log` in DurableJournal instantiates DurableLog |
| `ContainmentEngine` | faults, containments, actions | takes a radius from `Radii`, which BlastRadius justifies |
| `BlastRadius` | one evaluation of the radius | |
| `Coordinator` | acceptor, connection threads, worker registry, stop and restart in one state | |
| `Catalog` | topology, journal records, replay | |
| `WorkerSession` | worker process, connection thread, dispatcher and poller over two channels | |

The `MC` modules hold the constants of the instances, the `Proofs` modules the
theorems of section 6.

### DurableJournal and DurableLog

One coordinator process after another on one store. A record is its sequence
number, the run that staged it (two runs may reuse a number, the records differ)
and, if it is a COUNTERS record, the epoch it carries. The engine's state is the
set of records it reflects (`document`).

| Model | Code |
|---|---|
| `Mutate`, `StageBy` | any mutating call: state change and `stage` under the state lock |
| `StageAndDrop` | `worker_authority_lost` for a boot that owns nothing: stages a record, takes its number, returns without a flush |
| `AppendRecord`, `AppendFails`, `Partial` | one turn of the loop in `flush`, `append_record`; a failed write may leave nothing, the whole record or a torn one |
| `Acknowledge` | `flush` returned, the call answers its caller |
| `CopyDocument`, `ReplaceSnapshot`, `TruncateJournal`, `SnapshotFails` | `persist_snapshot`, `save_snapshot`, `truncate_journal_locked`; the store mutex is `StoreFree` |
| `Crash` | the process dies or exits; an append in progress may be torn |
| `Recover`, `BeginEpoch`, `StartServing` | `Coordinator::start`: `recover`, replay, recovery mark, `begin_epoch`, serve |
| `Readable`, `Gap`, `TornFilled`, `Recovered`, `LastSequence` | what `DurableStore::recover` accepts and returns |

A torn record declares its full length. `torn` says how many later records fill
that length, any number in `TornUnits`: until then the reader takes everything
from the tear on for torn bytes and discards it; once filled, the checksum fails
and the store is refused. `behind` holds the records appended behind the tear.
Three history variables say where records went: `dropped` (staged and not
written), `swallowed` (a start left them behind a tear) and `overwritten` (a
snapshot or its truncation took them off the disk although newer than it).

`Engine::shutdown` takes a snapshot and exits; that is `CopyDocument`,
`ReplaceSnapshot`, `TruncateJournal`, `Crash`. A store that was refused stays
refused, as the code never repairs one.

`DurableLog` has no journal, snapshot, batch or thread: a state that grows while
the process is up, a part of it that was promised, which every later start holds
but for what is in `lost` (a start may add to it, and `Forget` while the process
serves), and epochs above all earlier ones as long as nothing was lost. That each
loss has a named cause is `LossHasCause`; the log only says that what is not lost
is there. The refinement maps
`document` to what is held, the acknowledged records to what is promised, the
swallowed and overwritten ones to what is lost.

### ContainmentEngine

Every engine operation holds the exclusive lock for its whole state change and
is one action; `dispatch_containment` is `BeginDispatch`, one `HandToExecutor`
per action, `FinishDispatch`. Generations only advance and are only compared for
equality with a copy in a plan; a containment therefore records *which*
generations have moved since its plan was made (`moved`) instead of numbers. The
comparison of resource generations is subsumed, because every change of one also
advances the topology generation; so is the fault generation, which advances
only in `supersede_fault`.

Abstractions: FENCED stands for FENCED and QUARANTINED (no decision tells them
apart); owners are left out, because an owner changes only in a topology update,
which the topology comparison already refuses (`Bindings` lists the resources
one incarnation may own when it is lost), and an answer refused for its
worker's authority is one that is not recorded (Coordinator and WorkerSession
model owners); set-resource-owner's read and update are one step, because a
record whose generation moved in between is refused; the blast radius is the
constant `Radii`, a set of possible results per subject, each containing its
subject and with disjoint buckets, which is `BlastRadius!BucketsPartition`; the
result of `rule_propagates_over` and the hop outcomes are part of `paths`;
millisecond ties between a fault and a commit are a free choice (`tied`); an
identical fault observation is a duplicate and not a step; refused requests
change nothing but the history log and are not steps; a dispatch after
`shutdown` is refused and not modelled. `Restart` takes the state from memory:
what of it is durable at that moment is the business of DurableJournal.

`AuthorityLost` is the first critical section of `worker_authority_lost`, which
fences and quarantines on the spot. Its fault and its containment are the
ordinary `PublishFault` and `AuthorizeContainment`, which may come later or
never. `seized`, kept by the model only, marks such a resource until a release
or its removal; if its containment was refused, the code has no containment to
release it by except one that a request names.

`success` of an action is remembered by the model only: the code stores a failed
result like a successful one.

### BlastRadius

`compute_blast_radius` reads an immutable input under the lock; its state is its
own loop and accumulators. `Seed`, one `Visit` per turn of the frontier loop
(the smallest identity first, as the sorted frontier gives it; `Skip` if it was
visited, else `Follow`),
`NoteUnresolvedMembers`, `Escalate`, `LimitExposure`, `Classify` and `Select` are
its phases, `Reject` its early return. An edge keeps what `classify_propagation`
tells apart. The order of the phases matters and is kept: escalated and widened
members join the radius after the traversal and are not traversed themselves.

### Coordinator

| Model | Code |
|---|---|
| `Admit`, `TurnAway`, `AcceptorExits` | the acceptor thread of `Coordinator::start`; `accept()` and the admission under `connection_mutex` are one step, as nothing is shared in between |
| `Hello`, `RegisterFresh`, `RegisterAgain`, `EnterPeer` | the HELLO handler: `register_worker` under the engine's lock, the peer table under `connection_mutex`; a connection may send any number of them, for any boot |
| `ReceiveEvidence`, `RecordEvidence`, `UpdateOwner`, `GrantAuthority`, `RefuseEvidence` | the WORKER_EVIDENCE handler: a read, then up to two locked calls, each of which may refuse (`STALE_RESOURCE_GENERATION`, `STALE_EVIDENCE`) |
| `Unregister` | the end of `serve`: the receive that failed and what follows under `connection_mutex`, with nothing in between |
| `ReportLoss`, `LossIgnored`, `RevokeUnbound`, `RevokeBound`, `PublishLoss`, `RecordLoss`, `AuthorizeLoss`, `LossRefused` | `worker_authority_lost`, called by a connection thread or by an operator: revoke and fence, publish the fault, enter it in `authority_loss_faults`, authorise; the second and the last may be refused |
| `Retire` | `retire_worker` |
| `Fence`, `Release` | containments and releases of other origin |
| `StopRequested`, `CloseListener`, `CloseSockets`, `ShutDown`, `Restart` | `stop`, then `start` on the same store |

`abandoned`, kept by the model only, holds the boots whose connection went on to
a HELLO for another boot; the next handshake for such a boot takes it out again.

`unstaged` and `hole` model the revocation that `worker_authority_lost` stages
and drops when the worker owns nothing: it is in memory only, and its sequence
number is missing from the journal. A restart brings the record back as it was;
once a later record follows the hole, recovery refuses the store.

### Catalog

`memory` is the topology the engine holds, `durable` what snapshot and journal
decode to, `pending` the staged records; every operation stages exactly the
records the code stages, and a crash cuts the batch anywhere. Callers may declare
whatever the code accepts; `Known`, `Unplaced` and `Found` say whether a
declaration names only what is registered and not placed elsewhere, and
`pristine`, kept by the model only, whether all of them did and memory came
neither out of a replay nor out of an operation refused half-way. A `Phantom` is the empty record that
`resources[id]` creates for an identity that is not there. Containment domains
have an update and refuse conflicting members after having placed the earlier
ones; isolation and failure domains take members from wherever they are. The
records of a batch follow the order of the code's containers: the members of a
registered domain ascending (`InOrder`), the edges of a removed resource in the
order of identities the model does not have, hence in any order.

### WorkerSession

The worker's loop reads one frame, handles it and sends its answers without
reading in between; the connection thread does the same on the other side; a
dispatcher (after another worker's loss) and a poller write to the same socket.
Channels are FIFO and hold `Buffer` frames; a sender waits while its channel is
full. The worker's state is what the program keeps: whether it knows the epoch,
the generation it last heard per resource, its grants and the frames it has yet
to send. As in the code an evidence acknowledgment names no resource: generation
and grant are written for every resource of the worker.

## 3. Runs

| Run | Expect | What it shows |
|---|---|---|
| `journal` | pass | two threads that mutate, drop, snapshot and fail, tears of three lengths, crashes, three runs: every loss, repeated epoch or unreadable store has one of the named causes, every start is decided, the journal implements the abstract log |
| `journal_torn_tail` | violation | acknowledged records behind a long tear are discarded without a word |
| `journal_snapshot_race` | violation | a mutation acknowledged during a snapshot is lost |
| `engine_lifecycle` | pass | two overlapping faults and a lost worker through the whole lifecycle |
| `engine_dispatch` | pass | two dispatchers of one containment, failing executors, restart, policy change, releases naming any containment; every dispatch settles |
| `engine_stale_release` | violation | a fault is cleared while a containment of it is live |
| `radius` | pass | the radius of 240 graphs under 15 rules in 9 situations |
| `coordinator` | pass | two incarnations, two connections, repeated handshakes, an operator, stop and restart |
| `catalog` | pass | any callers, a crash at any record, clean stops and replays |
| `catalog_forward` | violation | a forward declared member makes the snapshot of a clean stop unreadable |
| `session` | pass | polls and dispatches are answered, overtaken grants are refused |
| `session_work` | violation | the worker works on after reporting that it stopped |

The five violations are disagreements between the code and its documentation;
`findings` in `PROJECT.json` quotes both sides.

Bounds. Journal: `MaxSequence = 6` allows one or two mutations beyond the four
records each start appends, `MaxRuns = 3` a crash during recovery and another
start after it, `MaxFailures = 2` a failure after a failure, `MaxBatch = 2` a
batch cut in the middle; a tear is filled by the next record, by the next two,
or by no start that follows (5). Engine: two resources and an edge suffice for overlap
(a fault on a fences b as well), for a drained neighbour and for a partly
released containment; `ActionBudget = 1` in the lifecycle run makes the budget
smaller than the radius; two containments allow re-authorisation and overlap;
one update lets evidence, ownership or topology change at any point, one lost
incarnation seizes the fresh or the contained resource. Radius:
a chain of four resources closed to a cycle, each link absent or in one of the
shapes that `classify_propagation` tells apart, one link doubled, an edge and a
domain that name a fifth identity that is gone; the theorems cover every other
graph and rule. Coordinator: one worker with two boots gives
supersession, two connections a boot that reconnects before its old connection
ends and a node at its limit, `MaxEpoch = 2` a restart with a reattachment,
`MaxInputs = 2` two frames, retirements, reports, fences or repeated handshakes
beyond the first handshake of each boot, in any combination. Catalog: two
resources, two interchangeable containment domains (`SYMMETRY`; nothing orders
domain identities) and an isolation domain; one crash, as a second adds nothing
to what is on disk; five generations suffice to place, move and remove a member
and to restart. Session: one resource, three polls and two
containments, so that a second containment meets the consequences of the first;
`Buffer = 4`.

Deadlock is not checked: bounded instances end when their counters are used up,
a computation ends, and a coordinator that refused its store stays stopped.

Fairness. `DurableJournal!FairSpec`: a thread inside `flush` keeps running, the
main thread goes on recovering, a process that is down is started again by its
supervisor. Nothing is assumed about new mutations, snapshots or failures.
`ContainmentEngine!FairSpec`: an executor call returns and so does the dispatch
call around it; nothing obliges anyone to begin a dispatch, acknowledge, report,
verify or release. `BlastRadius`: the function runs on. `Coordinator`: the
operating system schedules every thread, and a thread blocked in `recv` or
`accept` returns when its socket is closed; that is what `closesocket` does on
Windows, the platform the repository is validated on, and is not promised by
POSIX `close`. No worker is obliged to send or to die. `WorkerSession`: worker,
connection thread and dispatcher are scheduled; nobody is obliged to poll, fence
or release.

## 4. Properties

* `NoSilentLoss`: a coordinator that is up reflects every acknowledged record;
  documented, and violated in two ways.
* `LossHasCause`: what it lacks was swallowed behind a torn record or overwritten
  by an older snapshot; no failure, crash or interleaving loses anything else.
* `EpochRepeatHasCause`: a later run serves a later epoch, unless the record of
  the earlier one was swallowed behind a torn record.
* `HealthyStoreIsReadable`: while durability is reported healthy the store could
  be recovered at once, but for a torn record that has been filled, or a number
  of this run that is in flight, dropped or overwritten below a durable one.
* `StartsAreDecided`: every start ends in service or refusal.
* `ImplementsLog`: the journal implements DurableLog.
* `QuarantineMatchesContainments`: a resource is quarantined exactly while a live
  containment has it as a mandatory member or an authority loss has seized it.
* `OneLiveContainmentPerFault`, `ClearedIsReleased`.
* `ContainedIsEvidenced`: CONTAINED, and RELEASED after it, rest on a recorded
  result for every planned action.
* `AuthorizedIsInHand`, `DispatchSettles`: no action is left AUTHORIZED.
* `NeverRedispatched`: nothing planned in an earlier epoch is handed to an
  executor; AMBIGUOUS, SUPERSEDED and REJECTED_INFEASIBLE are final.
* `RadiusIsLeast`: the traversal ends with the least set that contains the seeds
  and is closed under propagating edges.
* `UnaffectedIsSealed`, `UnknownIsNotSafe`: what is reported unaffected is fresh
  and cannot be reached from the mandatory set, not even over weak evidence, but
  for the edges of members added after the traversal; under a fail-closed rule
  what is doubtful is contained.
* `BucketsPartition`, `ExposureIsBounded`, `RecommendedIsLegal`, `Terminates`.
* `LiveIsCurrent`: only a worker's current boot holds live authority.
* `AuthorityIsServed`: an incarnation with live authority has a connection thread
  that serves it or is about to report its loss, unless it is abandoned.
* `PeerIsServed`, `ConnectionsAreCounted`: the peer table (but for abandoned
  boots) and the count under `connection_mutex` agree with the threads that exist.
* `FenceHolds`: a fenced resource leaves containment only by a release, even if
  an evidence handler judged it before the fence.
* `StopReturns`: `stop` ends, whatever the other threads are doing.
* `ReplayAgrees`: flushed, the store decodes to the resources, domains, edges and
  generations in memory.
* `MembershipIsMutual`, `ShutdownIsReadable`: until one of four events happens
  (a member declared that is not registered or placed elsewhere, a resource moved
  to a domain that is not there, a declaration refused half-way, a replay of the
  journal) membership agrees in both directions and a clean stop leaves a
  readable snapshot.
* `NextGenerationIsNew`: while no crash has cut a batch, an update takes a
  generation above the domain's own.
* `StaleGrantIsDetectable`: a grant overtaken by a containment carries an old
  generation, so that its next use is refused. For a worker with one resource:
  with several, the acknowledgment of one overwrites the generation of all.
* `RequestsAreAnswered`: every poll and every dispatched action is answered, but
  for results that arrive before the dispatcher has the lock again.
* `StoppedCanStart`, `WorkStopsWhenReported`: documented, and violated.

Each property of a passing run has a mutation of a mapped definition (named
"Mutation of ..." in the modules) that breaks it.

## 5. Limits of the properties

What the code does not keep, found while the properties were made precise and
not kept as runs of their own:

* Two mutators may append in the opposite order of their sequence numbers; a
  crash in between leaves a gap that `recover` refuses although nothing failed
  (`src/persistence.cpp:645`; the comment at 629 expects concurrent appends).
  `worker_authority_lost` leaves one with a single mutator: it takes a number and
  drops the record (`src/engine.cpp:3052`). `HealthyStoreIsReadable` names both.
* A torn record that is longer than what the next run appends hides that run's
  records (`src/persistence.cpp:604`; `journal_torn_tail`), its epoch included,
  so that an epoch can be served twice. `LossHasCause`, `EpochRepeatHasCause` and
  `ImplementsLog` name it; tears of any length are modelled.
* `persist_snapshot` may take records off the disk that it does not contain
  (`journal_snapshot_race`); `LossHasCause` names that too.
* `worker_authority_lost` fences and quarantines before its fault is published
  and its containment authorised (`src/engine.cpp:3068`); both may be refused, and
  then the resource stays quarantined without a containment that covers it. A
  release must name some containment, or the resource be removed.
* `UnaffectedIsSealed` excepts escalated and widened members
  (`src/blast_radius.cpp:365`, 409): they join the mandatory set after the
  traversal and their edges are not followed, although the proof attached to
  every unaffected resource is "no propagation path from the contained set"
  (`src/blast_radius.cpp:456-458`).
* A second HELLO on a connection, for another boot, is accepted
  (`src/coordinator.cpp:888-904`). The boot spoken for before keeps its live
  authority, and its entry in the peer table outlives the socket; when the
  connection closes only the last boot is reported lost, although
  `src/coordinator.cpp:1123` says "A closed connection without a graceful
  retirement is an observed authority loss for that exact incarnation".
  `AuthorityIsServed` and `PeerIsServed` except such a boot until a handshake for
  it follows.
* The plan handed to an executor may be stale by then: revalidation is under the
  lock, the hand-over is not (`src/engine.cpp:1912`; `README.md:160-161`).
* A failed result is recorded like a successful one, and the containment can be
  verified CONTAINED (`src/engine.cpp:2067`; `README.md:184`).
* "A resource joins every domain it references, so domain membership and resource
  placement cannot drift apart" (`README.md:140-141`) does not hold when a domain
  is declared with a member that is not registered (`src/engine.cpp:389`) or that
  another domain has (`src/engine.cpp:455`, 524), when a resource is moved to a
  domain that is not there (`src/engine.cpp:713`), or after a replay, because
  `register_resource` and the removals journal one side only (`src/engine.cpp:684`).
  `MembershipIsMutual` is claimed up to the first such event.
* A crash that loses a COUNTERS record leaves a topology generation below that of
  a recovered domain (`src/engine.cpp:3367`).
* `register_domain` refuses a conflicting member after it has placed
  the ones before it (`src/engine.cpp:401`).
* With `Buffer = 3` TLC finds worker and connection thread both blocked in a
  send; with 4 the modelled traffic fits. Real buffers are larger, and so can the
  number of outstanding frames be.
* The thread count reaches zero in `serve` before `worker_authority_lost` runs,
  so `stop` may shut the engine down under a loss being reported
  (`src/coordinator.cpp:1118`; `include/fcf/coordinator.hpp:49` says that handlers
  are drained). The model allows it; no property depends on the order.
* A raw pointer from the peer table is used after the lock is released
  (`src/coordinator.cpp:757`), and two threads may send on one socket
  (`src/net.cpp:162`). Frames are sent whole in the model.

## 6. Proofs

For all values of the constants, from the ASSUMEs of the modules:

* `DurableJournalProofs!TypeCorrect`: `Spec => []TypeOK`. Inductive with
  `Bounded`: no record in memory or on disk is beyond the sequence reached, nor a
  record of a snapshot beyond the snapshot's own.
* `LossAlwaysHasCause`: `Spec => []LossHasCause`, without hypotheses. It is not
  inductive: it says nothing about the disk a later run starts from. `LossInv`
  says that an acknowledged record is in the snapshot, in the readable journal,
  behind the tear, swallowed or overwritten, and so is what a flush in progress
  has already written. Under it lies `DiskInv`: what is on disk is in memory
  (behind a tear: or swallowed), and the snapshot and each copy of the document
  are complete up to the sequence they carry.
* `EpochRepeatAlwaysHasCause`: `Spec => []EpochRepeatHasCause`. `EpochInv`: epochs
  grow with sequence numbers in the state, and every epoch served is witnessed by
  a COUNTERS record that is on disk, or swallowed; an overtaken snapshot never
  lacks it, since a snapshot is only copied by a run that serves already. So the
  next run reads at least that epoch back and serves a larger one.
* `JournalImplementsLog`: `Spec => ImplementsLog`, step by step: the initial
  states map to initial states of DurableLog, and with these invariants every
  step maps to a step of the log or a stutter.
* `HealthyStoreAlwaysReadable`: `Spec => []HealthyStoreIsReadable`, without
  hypotheses. Readability alone is not inductive, as it does not say which
  numbers are missing. `ReadInv` accounts for every number up to the counter:
  the document has one record for each, later runs above earlier ones
  (`Numbered`), and a record above the snapshot's sequence is in the readable
  journal or, if of this run, in flight, dropped, overwritten or behind a tear
  (`Located`). For a restart the converse is needed
  (`ReadableContiguous`): whatever passes the gap check of `recover` is contiguous
  up to the sequence it returns.
* `ContainmentEngineProofs!TypeCorrect`: `Spec => []TypeOK`.
* `QuarantineAgrees`, `OneLiveContainment`: by `LifecycleInv`, which adds to the
  agreement itself that an unregistered resource is neither quarantined nor
  seized (a removed one comes back unfenced) and that a live containment is the one its fault
  names (so re-authorisation, which looks only at that one, cannot make a second).
* `ClearedOnlyWhenReleased`: `[]ClearedIsReleased` when releases are judged by a
  live covering containment (`~NamesAnyContainment`); `engine_stale_release`
  shows that the hypothesis is needed.
* `ContainedHasEvidence`, `NeverRedispatchedAfterRestart`: by `DispatchInv`. An
  uncommitted generation has planned nothing, a call that still has something to
  hand over was begun in the current epoch (a restart ends every call), a release
  follows a verdict CONTAINED, and that verdict leaves no action in a state from
  which anything but a recorded result can follow. The second is an action
  property: every step is shown to hand over nothing stale and to leave the final
  states alone.
* `AuthorizedAlwaysInHand`: `AuthorizedIsInHand` is inductive with type
  correctness: only `BeginDispatch` makes an action AUTHORIZED, into its own
  `todo`; it leaves a call's hands only when `FinishDispatch` or `Restart` settles
  it, whichever other dispatcher holds the same containment.
* `BlastRadiusProofs`: every invariant of BlastRadius, for every finite topology,
  rule and input. `IInv` follows the function: in the loop, everything reached is
  visited or in the frontier and within every closed set that holds the seeds
  (`Looping`, from which leastness follows when the frontier is empty); what a
  visited resource may reach is mandatory, precautionary or unresolved
  (`Followed`), and whoever is mandatory without having been visited was added
  for one of the two reasons of `AddedLater`; each phase leaves its result to the next (`Pending`, `Noted`,
  `Escalated`, `Exposed`, `Sorted`).
* `CoordinatorProofs`: every safety property of Coordinator, for any workers,
  boots, connections and limits. `IInv` adds to them that a thread's position
  agrees with its call and its connection (`CallsMatch`), that a revoked or
  reported incarnation cannot become active again (`LossIsFinal`), that a handler
  whose expected generation is still current has judged the resource as it is
  (`JudgementIsCurrent`, the step behind `FenceHolds`), that an incarnation that
  may reattach is the current one (`CandidateIsCurrent`, without which a restart
  could bring two back), and that a revocation that was never journalled is that
  of a current boot unless the store is unreadable (`UnstagedIsCurrent`).
* `CatalogProofs`: every invariant of Catalog, for any resources, domains, edges
  and callers (`catalog_forward` shows that a forward declaration has to be one of
  the events after which `MembershipAlwaysMutual` and `ShutdownAlwaysReadable` say
  nothing).
  `ReplayInv`: every record still to be flushed agrees with memory, and what none
  of them concerns is on disk as it is in memory; one lemma per operation shows
  that the records it stages cover all it changed. `CountInv`: COUNTERS ends
  every batch, so unless a batch was cut the disk's topology generation is as
  far as its domains'. `SoundInv`: while `pristine` holds memory is mutual and
  resolvable, and so is the snapshot until something is appended to the journal, which is what a restart
  after a clean stop reads. The proofs assume finitely many resources and edges
  (the order of a batch is a permutation) and room for one generation.
* `WorkerSessionProofs`: both invariants of WorkerSession, for any resource list,
  buffer, polls and containments. `PollInv` counts: polls sent are polls answered
  plus the polls and answers in the two channels and in the worker's hand, from
  which `answered <= polls` follows. `GrantInv`: a grant carries an older
  generation than a contained resource not only where the worker believes in it
  but already on the wire and in the reply the connection thread is about to
  send; without those the worker's next read would not preserve it.

Only model-checked: liveness (`StartsAreDecided`, `DispatchSettles`, `Terminates`,
`StopReturns`, `RequestsAreAnswered`), which is out of the prover's reach, and the
violations, which are counterexamples.

## 7. Not modelled

Byte layout, framing checksums, hashing and malformed input; the codec of
faults, containments, actions and contracts, which is field-by-field
serialisation; explanations, rendering and the history log; command-line
programs other than the worker's loop; the CUDA probe. Degraded-mode contracts
and the validation of a policy are decisions on one request without interleaving
or later state; they are the next candidates.

## 8. What is left

1. Degraded-mode contracts: authorisation and revalidation against the topology,
   then in place of `Permitted` and `Prohibited`.
2. What can still be said of membership and of generations after a replay or a
   cut batch: `MembershipIsMutual` is claimed up to the first replay,
   `NextGenerationIsNew` only without a cut batch.
3. A worker with several resources, once the acknowledgment names the resource:
   `StaleGrantIsDetectable` is then a statement about each of them.
