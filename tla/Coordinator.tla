---------------------------- MODULE Coordinator ----------------------------
(***************************************************************************)
(* The coordinator node (src/src/coordinator.cpp) over the engine's worker *)
(* registry (src/src/engine.cpp): the acceptor, one detached thread per    *)
(* connection, the owner thread in stop(), and an operator who reports the *)
(* loss of a worker.  A step is one critical section of the engine's lock  *)
(* or of connection_mutex; between two of them anything may happen.        *)
(*                                                                         *)
(* Workers are the environment: HELLO and evidence frames in any order and *)
(* number, also a second HELLO for another boot on one connection; a       *)
(* connection may break at any time, and frames it sent before are still   *)
(* delivered.  A boot identity may connect again (fcf-worker --boot)       *)
(* before its old connection is seen to break.                             *)
(* A resource keeps what authority depends on: owner_boot, whether it is   *)
(* contained (quarantined or in a contained state), whether its evidence   *)
(* is FRESH, and its generation.  Containment and release by other means   *)
(* (ContainmentEngine) are the actions Fence and Release.  The journal     *)
(* write of a critical section is counted with it: what a crash between    *)
(* the two loses is the subject of DurableJournal and Catalog.             *)
(***************************************************************************)
EXTENDS Naturals, FiniteSets

CONSTANTS Workers, Boots, WorkerOf,
          Resources,
          Connections,      \* connection threads that may exist at once, finished ones included
          NoBoot, NoConnection, NoResource,
          Operator,         \* the thread of the worker-lost control command
          MaxConnections,   \* config.max_connections
          MaxWorkers,       \* config.max_workers
          MaxEpoch,         \* bound: coordinator epochs
          MaxInputs         \* bound: frames, retirements, reports and fences; the HELLO of a new
                            \* boot on a new connection is not counted

ASSUME WorkersAssumption ==
    /\ WorkerOf \in [Boots -> Workers]
    /\ NoBoot \notin Boots /\ NoConnection \notin Connections /\ NoResource \notin Resources
    /\ Operator \notin Connections
ASSUME BoundsAssumption ==
    /\ IsFiniteSet(Connections) /\ IsFiniteSet(Boots)
    /\ MaxConnections \in Nat /\ MaxWorkers \in Nat
    /\ MaxEpoch \in Nat /\ MaxInputs \in Nat

VARIABLES epoch,
          incarnations,  \* boot -> [state, epoch]; state NONE: never registered
          current,       \* current_boot per worker
          live_authority,\* boot -> resources recorded with the incarnation
          unstaged,      \* boots whose revocation is in memory only
          hole,          \* a sequence number taken and never written: none, at the tail, inside
          losses,        \* boots whose fault in authority_loss_faults has a containment
          resources,     \* [owner, state, freshness, generation]
          pc, boot, seen,\* per connection thread: where it is, its boot, the evidence in hand
          live, active,  \* live_sockets, active_connections
          peers,         \* peer_sockets: boot -> connection
          abandoned,     \* model only: boots a connection left with a HELLO for another one
          closed,        \* sockets closed by stop()
          calls,         \* worker_authority_lost in progress: thread -> boot
          acceptor, stop,
          inputs         \* inputs used so far

journal == <<unstaged, hole>>
registry == <<incarnations, current, live_authority, journal, losses>>
threads == <<pc, boot, seen>>
sockets == <<live, active, peers, abandoned, closed>>
node == <<acceptor, stop>>
vars == <<epoch, registry, resources, threads, sockets, calls, node, inputs>>

Reporters == Connections \cup {Operator}

HoldsLiveAuthority(b) == incarnations[b].state = "ACTIVE"
BootIsCurrent(b) == current[WorkerOf[b]] = b
OwnedBy(b) == {r \in Resources : resources[r].owner = b}

Idle == [resource |-> NoResource, generation |-> 0, freshness |-> "REVALIDATION_REQUIRED"]
NoCall == [step |-> "idle", boot |-> NoBoot, subject |-> NoResource, named |-> FALSE]
CallFor(b) == [step |-> "revoke", boot |-> b, subject |-> NoResource, named |-> FALSE]
Registration == [state |-> "ACTIVE", epoch |-> epoch]

Freshness == {"FRESH", "REVALIDATION_REQUIRED"}

(* Every write of a resource advances its generation. *)
Advanced(record, state, freshness) ==
    [owner |-> record.owner, state |-> state, freshness |-> freshness,
     generation |-> record.generation + 1]

IsContained(r) == resources[r].state = "FENCED"
IsFresh(r) == resources[r].freshness = "FRESH"

Arrives == inputs < MaxInputs /\ inputs' = inputs + 1

(* stage and flush: a record written after a hole puts the hole inside the journal. *)
Journalled == hole' = IF hole = "tail" THEN "inside" ELSE hole

-----------------------------------------------------------------------------
Init ==
    /\ epoch = 1
    /\ incarnations = [b \in Boots |-> [state |-> "NONE", epoch |-> 0]]
    /\ current = [w \in Workers |-> NoBoot]
    /\ live_authority = [b \in Boots |-> {}]
    /\ unstaged = {} /\ hole = "none" /\ losses = {}
    /\ resources = [r \in Resources |->
                      [owner |-> NoBoot, state |-> "ACTIVE", freshness |-> "REVALIDATION_REQUIRED",
                       generation |-> 1]]
    /\ pc = [c \in Connections |-> "free"]
    /\ boot = [c \in Connections |-> NoBoot]
    /\ seen = [c \in Connections |-> Idle]
    /\ live = {} /\ active = 0
    /\ peers = [b \in Boots |-> NoConnection]
    /\ abandoned = {} /\ closed = {}
    /\ calls = [x \in Reporters |-> NoCall]
    /\ acceptor = "accept" /\ stop = "running" /\ inputs = 0

-----------------------------------------------------------------------------
(* The acceptor.  The return of accept() commutes with every other step up to the admission
   under connection_mutex, so the two are one step; a socket that was accepted before stop()
   closed the listener may be looked at in any phase of stop(). *)

(* Threads have no identity of their own: a new one takes a fixed free place. *)
Slot == CHOOSE c \in Connections : pc[c] = "free"

(* The socket is counted and registered, its thread started. *)
Serve(c) ==
    /\ pc[c] = "free" /\ c = Slot
    /\ pc' = [pc EXCEPT ![c] = "receive"]
    /\ live' = live \cup {c}
    /\ active' = active + 1
    /\ UNCHANGED <<epoch, registry, resources, boot, seen, peers, abandoned, closed, calls, node, inputs>>

\* Mutation of Admit: stop() is not looked at.
AdmitWhileStopping(c) ==
    /\ acceptor = "accept" /\ active < MaxConnections
    /\ Serve(c)

Admit(c) ==
    /\ acceptor = "accept" /\ stop = "running" /\ active < MaxConnections
    /\ Serve(c)

\* Mutation of TurnAway: the refused socket is uncounted although it was never counted.
TurnAwayUncounted ==
    /\ acceptor = "accept"
    /\ stop # "running" \/ active >= MaxConnections
    /\ active' = active - 1
    /\ UNCHANGED <<epoch, registry, resources, threads, live, peers, abandoned, closed, calls, node,
                   inputs>>

(* The refused socket is closed without a trace. *)
TurnAway ==
    /\ acceptor = "accept"
    /\ stop # "running" \/ active >= MaxConnections
    /\ UNCHANGED <<epoch, registry, resources, threads, sockets, calls, node, inputs>>

(* accept() fails once the listener is closed. *)
AcceptorExits ==
    /\ acceptor = "accept" /\ stop \notin {"running", "stopping"}
    /\ acceptor' = "exited"
    /\ UNCHANGED <<epoch, registry, resources, threads, sockets, calls, stop, inputs>>

-----------------------------------------------------------------------------
(* HELLO and register_worker *)

Receiving(c) == pc[c] = "receive" /\ c \notin closed

Registered == {b \in Boots : incarnations[b].state # "NONE"}

(* The incarnation a fresh boot supersedes. *)
Previous(b) == {p \in Registered : current[WorkerOf[b]] = p /\ p # b}

(* There is room for one more incarnation.  The connection speaks for this boot from now on;
   nothing is done about the one it spoke for before. *)
Hello(c, b) ==
    /\ Receiving(c)
    /\ Cardinality(Registered) < MaxWorkers
    /\ boot' = [boot EXCEPT ![c] = b]
    /\ abandoned' = abandoned \cup ({boot[c]} \ {b, NoBoot})
    /\ IF boot[c] = NoBoot /\ b \notin Registered THEN UNCHANGED inputs ELSE Arrives
    /\ pc' = [pc EXCEPT ![c] = "hello"]
    /\ UNCHANGED <<epoch, unstaged, losses, seen, live, active, peers, closed, calls, node>>

\* Mutation of RegisterFresh: the previous incarnation is left as it is.
RegisterBesides(c, b) ==
    /\ Hello(c, b) /\ b \notin Registered
    /\ incarnations' = [incarnations EXCEPT ![b] = Registration]
    /\ current' = [current EXCEPT ![WorkerOf[b]] = b]
    /\ live_authority' = [live_authority EXCEPT ![b] = OwnedBy(b)]
    /\ Journalled
    /\ UNCHANGED resources

(* A boot identity seen for the first time: the worker's previous incarnation loses its
   authority, the resources recorded with it their freshness; the new one is current. *)
RegisterFresh(c, b) ==
    /\ Hello(c, b) /\ b \notin Registered
    /\ incarnations' = [p \in Boots |->
          IF p = b THEN Registration
          ELSE IF p \in Previous(b) THEN [incarnations[p] EXCEPT !.state = "AUTHORITY_REVOKED"]
          ELSE incarnations[p]]
    /\ resources' = [r \in Resources |->
          IF \E p \in Previous(b) : r \in live_authority[p]
            THEN [resources[r] EXCEPT !.freshness = "REVALIDATION_REQUIRED"] ELSE resources[r]]
    /\ current' = [current EXCEPT ![WorkerOf[b]] = b]
    /\ live_authority' = [live_authority EXCEPT ![b] = OwnedBy(b)]
    /\ Journalled

(* A SUSPECT incarnation of an earlier epoch survived the coordinator. *)
Reattaches(b) == incarnations[b].state = "SUSPECT" /\ incarnations[b].epoch # epoch

(* A known boot is ACTIVE again if it reattaches; any other is answered with its record as
   it is, a revoked or retired one included. *)
RegisterAgain(c, b) ==
    /\ Hello(c, b) /\ b \in Registered
    /\ \/ /\ Reattaches(b)
          /\ incarnations' = [incarnations EXCEPT ![b] = Registration]
          /\ Journalled
       \/ ~Reattaches(b) /\ UNCHANGED <<incarnations, hole>>
    /\ UNCHANGED <<current, live_authority, resources>>

(* The peer entry is written under connection_mutex after the registration. *)
EnterPeer(c) ==
    /\ pc[c] = "hello"
    /\ peers' = [peers EXCEPT ![boot[c]] = c]
    /\ abandoned' = abandoned \ {boot[c]}
    /\ pc' = [pc EXCEPT ![c] = "receive"]
    /\ UNCHANGED <<epoch, registry, resources, boot, seen, live, active, closed, calls, node, inputs>>

(* Engine::retire_worker, in any state. *)
Retire(b) ==
    /\ stop = "running" /\ Arrives
    /\ b \in Registered /\ incarnations[b].state # "RETIRED"
    /\ incarnations' = [incarnations EXCEPT ![b].state = "RETIRED"]
    /\ live_authority' = [live_authority EXCEPT ![b] = {}]
    /\ Journalled
    /\ UNCHANGED <<epoch, current, unstaged, losses, resources, threads, sockets, calls, node>>

-----------------------------------------------------------------------------
(* WORKER_EVIDENCE: a snapshot is judged, then update_resource and
   publish_resource_evidence run with the generations read from it *)

ReceiveEvidence(c, r) ==
    /\ Receiving(c) /\ boot[c] # NoBoot /\ Arrives
    /\ seen' = [seen EXCEPT ![c] = [resource |-> r, generation |-> resources[r].generation,
                                    freshness |-> resources[r].freshness]]
    /\ pc' = [pc EXCEPT ![c] = IF IsContained(r) THEN "record" ELSE "update"]
    /\ UNCHANGED <<epoch, registry, resources, boot, sockets, calls, node>>

Finished(c) == /\ pc' = [pc EXCEPT ![c] = "receive"]
               /\ seen' = [seen EXCEPT ![c] = Idle]

(* The resource was contained: its evidence is recorded with the freshness the worker
   claims, no authority granted. *)
RecordEvidence(c) ==
    /\ pc[c] = "record"
    /\ \E claimed \in Freshness :
          resources' = [resources EXCEPT ![seen[c].resource] = Advanced(@, @.state, claimed)]
    /\ Journalled /\ Finished(c)
    /\ UNCHANGED <<epoch, incarnations, current, live_authority, unstaged, losses, boot, sockets,
                   calls, node, inputs>>

\* Mutation of IsExpected: the expected generation is not compared.
IsAlwaysExpected(c) == TRUE

IsExpected(c) == resources[seen[c].resource].generation = seen[c].generation

(* update_resource writes back the whole record of the snapshot with a new owner. *)
UpdateOwner(c) ==
    /\ pc[c] = "update" /\ IsExpected(c)
    /\ LET r == seen[c].resource
       IN  /\ resources' = [resources EXCEPT
                 ![r] = [owner |-> boot[c], state |-> "ACTIVE", freshness |-> seen[c].freshness,
                         generation |-> seen[c].generation + 1]]
           /\ seen' = [seen EXCEPT ![c].generation = @ + 1]
    /\ pc' = [pc EXCEPT ![c] = "publish"]
    /\ Journalled
    /\ UNCHANGED <<epoch, incarnations, current, live_authority, unstaged, losses, boot, sockets,
                   calls, node, inputs>>

GrantAuthority(c) ==
    /\ pc[c] = "publish" /\ IsExpected(c)
    /\ resources' = [resources EXCEPT ![seen[c].resource] = Advanced(@, @.state, "FRESH")]
    /\ Journalled /\ Finished(c)
    /\ UNCHANGED <<epoch, incarnations, current, live_authority, unstaged, losses, boot, sockets,
                   calls, node, inputs>>

(* STALE_RESOURCE_GENERATION from either call, or STALE_EVIDENCE from the publication: the
   frame carries an older sequence number than the evidence the resource has.  Sequence
   numbers are the worker's, so any publication may meet it; the owner stays written. *)
RefuseEvidence(c) ==
    /\ \/ pc[c] \in {"update", "publish"} /\ ~IsExpected(c)
       \/ pc[c] \in {"record", "publish"}
    /\ Finished(c)
    /\ UNCHANGED <<epoch, registry, resources, boot, sockets, calls, node, inputs>>

-----------------------------------------------------------------------------
(* The end of a connection *)

\* Mutation of ForgetPeer: the entry is not erased.
KeepPeer(c) == UNCHANGED peers

(* The peer entry of the boot goes, also when a newer connection of that boot wrote it. *)
ForgetPeer(c) ==
    peers' = IF boot[c] = NoBoot THEN peers ELSE [peers EXCEPT ![boot[c]] = NoConnection]

\* Mutation of Uncount: only a connection that had a HELLO is uncounted.
UncountPeer(c) == active' = IF boot[c] = NoBoot THEN active ELSE active - 1

Uncount(c) == active' = active - 1

(* receive_frame failed: the peer is gone, or stop() closed the socket.  Nothing happens between
   that and the lock, so the two are one step.  Under connection_mutex the peer entry and the
   socket are forgotten, the count drops - and only then, for a connection that had a HELLO, is
   the loss reported. *)
Unregister(c) ==
    /\ pc[c] = "receive"
    /\ ForgetPeer(c)
    /\ live' = live \ {c}
    /\ Uncount(c)
    /\ closed' = closed \ {c}
    /\ abandoned' = abandoned \ {boot[c]}
    /\ \/ /\ boot[c] = NoBoot
          /\ pc' = [pc EXCEPT ![c] = "free"]
          /\ UNCHANGED calls
       \/ /\ boot[c] # NoBoot
          /\ pc' = [pc EXCEPT ![c] = "lost"]
          /\ calls' = [calls EXCEPT ![c] = CallFor(boot[c])]
    /\ UNCHANGED <<epoch, registry, resources, boot, seen, node, inputs>>

-----------------------------------------------------------------------------
(* worker_authority_lost, by a connection thread or by the operator *)

ReportLoss(b) ==
    /\ stop = "running" /\ Arrives
    /\ calls[Operator].step = "idle"
    /\ calls' = [calls EXCEPT ![Operator] = CallFor(b)]
    /\ UNCHANGED <<epoch, registry, resources, threads, sockets, node>>

Returns(x) ==
    /\ calls' = [calls EXCEPT ![x] = NoCall]
    /\ pc' = [c \in Connections |-> IF c = x THEN "free" ELSE pc[c]]
    /\ boot' = [c \in Connections |-> IF c = x THEN NoBoot ELSE boot[c]]

(* The incarnation is current and its loss has no containment yet. *)
IsNews(b) == b \in Registered /\ BootIsCurrent(b) /\ b \notin losses

LossIgnored(x) ==
    /\ calls[x].step = "revoke" /\ ~IsNews(calls[x].boot)
    /\ Returns(x)
    /\ UNCHANGED <<epoch, registry, resources, seen, sockets, node, inputs>>

\* Mutation of Revoked: the state is left to the next epoch.
NotRevoked(b) == UNCHANGED incarnations

Revoked(b) == incarnations' = [incarnations EXCEPT ![b].state = "AUTHORITY_REVOKED"]

(* No resource is bound to the incarnation: it is revoked in memory, the staged record of
   it is dropped with the error, its sequence number is not used again. *)
RevokeUnbound(x) ==
    /\ calls[x].step = "revoke"
    /\ LET b == calls[x].boot
       IN  /\ IsNews(b) /\ OwnedBy(b) = {}
           /\ Revoked(b)
           /\ unstaged' = IF incarnations[b].state # "AUTHORITY_REVOKED"
                            THEN unstaged \cup {b} ELSE unstaged
    /\ hole' = IF hole = "none" THEN "tail" ELSE hole
    /\ Returns(x)
    /\ UNCHANGED <<epoch, current, live_authority, losses, resources, seen, sockets, node, inputs>>

Fenced(rs) ==
    resources' = [r \in Resources |->
        IF r \in rs THEN Advanced(resources[r], "FENCED", resources[r].freshness) ELSE resources[r]]

FencedAsDead(rs) ==
    resources' = [r \in Resources |->
        IF r \in rs THEN Advanced(resources[r], "FENCED", "REVALIDATION_REQUIRED") ELSE resources[r]]

(* First critical section: revoke, fence what the incarnation owns, choose a subject. *)
RevokeBound(x) ==
    /\ calls[x].step = "revoke"
    /\ LET b == calls[x].boot
       IN  /\ IsNews(b)
           /\ Revoked(b)
           /\ FencedAsDead(OwnedBy(b))
           /\ \E s \in OwnedBy(b) :
                 calls' = [calls EXCEPT ![x] = [step |-> "publish", boot |-> b, subject |-> s,
                                                named |-> FALSE]]
    /\ Journalled
    /\ UNCHANGED <<epoch, current, live_authority, unstaged, losses, threads, sockets, node, inputs>>

(* publish_fault for the subject. *)
PublishLoss(x) ==
    /\ calls[x].step = "publish"
    /\ calls' = [calls EXCEPT ![x].step = "record"]
    /\ Journalled
    /\ UNCHANGED <<epoch, incarnations, current, live_authority, unstaged, losses, resources, threads,
                   sockets, node, inputs>>

(* authority_loss_faults[key]: the entry names the fault of this call, no longer that of
   another call, and this fault has no containment yet. *)
RecordLoss(x) ==
    /\ calls[x].step = "record"
    /\ calls' = [y \in Reporters |->
          IF y = x THEN [calls[y] EXCEPT !.step = "authorize", !.named = TRUE]
          ELSE IF calls[y].boot = calls[x].boot THEN [calls[y] EXCEPT !.named = FALSE]
          ELSE calls[y]]
    /\ losses' = losses \ {calls[x].boot}
    /\ UNCHANGED <<epoch, incarnations, current, live_authority, journal, resources, threads,
                   sockets, node, inputs>>

(* authorize_containment.  The radius follows the subject's owner of this moment; an operator
   may have reported a kind of fault that does not condemn what shares an owner. *)
AuthorizeLoss(x) ==
    /\ calls[x].step = "authorize"
    /\ LET s == calls[x].subject
           shared == OwnedBy(resources[s].owner)
       IN  \E radius \in {shared} \cup (IF x = Operator THEN {{s}} ELSE {}) : Fenced(radius)
    /\ losses' = IF calls[x].named THEN losses \cup {calls[x].boot} ELSE losses
    /\ Journalled /\ Returns(x)
    /\ UNCHANGED <<epoch, incarnations, current, live_authority, unstaged, seen, sockets, node, inputs>>

(* publish_fault refuses (the ceiling of faults, a subject that was removed), or
   authorize_containment does although the fault is published (it was superseded or
   authorised by another thread, the budget is exceeded): what is fenced stays fenced. *)
LossRefused(x) ==
    /\ calls[x].step \in {"publish", "authorize"}
    /\ Returns(x)
    /\ UNCHANGED <<epoch, registry, resources, seen, sockets, node, inputs>>

-----------------------------------------------------------------------------
(* The rest of the engine, on a resource *)

Fence(r) ==
    /\ stop = "running" /\ Arrives /\ ~IsContained(r)
    /\ Fenced({r})
    /\ Journalled
    /\ UNCHANGED <<epoch, incarnations, current, live_authority, unstaged, losses, threads,
                   sockets, calls, node>>

(* Each release ends a containment, so it needs no bound of its own. *)
Release(r) ==
    /\ stop = "running"
    /\ IsContained(r) /\ IsFresh(r)
    /\ resources' = [resources EXCEPT ![r] = Advanced(@, "ACTIVE", @.freshness)]
    /\ Journalled
    /\ UNCHANGED <<epoch, incarnations, current, live_authority, unstaged, losses, threads,
                   sockets, calls, node, inputs>>

-----------------------------------------------------------------------------
(* stop() *)

StopRequested ==
    /\ stop = "running"
    /\ stop' = "stopping"
    /\ UNCHANGED <<epoch, registry, resources, threads, sockets, calls, acceptor, inputs>>

CloseListener ==
    /\ stop = "stopping"
    /\ stop' = "closing"
    /\ UNCHANGED <<epoch, registry, resources, threads, sockets, calls, acceptor, inputs>>

CloseSockets ==
    /\ stop = "closing"
    /\ closed' = live
    /\ stop' = "draining"
    /\ UNCHANGED <<epoch, registry, resources, threads, live, active, peers, abandoned, calls, acceptor,
                   inputs>>

(* No connection is counted and the acceptor has been joined: engine->shutdown() writes a
   snapshot of memory, the journal starts anew. *)
ShutDown ==
    /\ stop = "draining"
    /\ active = 0
    /\ acceptor = "exited"
    /\ stop' = "down"
    /\ unstaged' = {} /\ hole' = "none"
    /\ UNCHANGED <<epoch, incarnations, current, live_authority, losses, resources, threads,
                   sockets, calls, acceptor, inputs>>

(* The process ends, in good order or not, and a new one recovers the durable state (it
   refuses a journal with a hole inside): begin_epoch suspects what was ACTIVE and
   withdraws all freshness. *)
Restart ==
    /\ epoch < MaxEpoch /\ hole # "inside"
    /\ epoch' = epoch + 1
    /\ incarnations' = [b \in Boots |->
          IF HoldsLiveAuthority(b) \/ b \in unstaged
            THEN [incarnations[b] EXCEPT !.state = "SUSPECT"] ELSE incarnations[b]]
    /\ unstaged' = {} /\ hole' = "none" /\ losses' = {}
    /\ resources' = [r \in Resources |-> [resources[r] EXCEPT !.freshness = "REVALIDATION_REQUIRED"]]
    /\ pc' = [c \in Connections |-> "free"]
    /\ boot' = [c \in Connections |-> NoBoot]
    /\ seen' = [c \in Connections |-> Idle]
    /\ live' = {} /\ active' = 0
    /\ peers' = [b \in Boots |-> NoConnection]
    /\ abandoned' = {} /\ closed' = {}
    /\ calls' = [x \in Reporters |-> NoCall]
    /\ acceptor' = "accept" /\ stop' = "running"
    /\ UNCHANGED <<current, live_authority, inputs>>

-----------------------------------------------------------------------------
Handler(c) == EnterPeer(c) \/ RecordEvidence(c) \/ UpdateOwner(c) \/ GrantAuthority(c)
              \/ RefuseEvidence(c)
LossCall(x) == LossIgnored(x) \/ RevokeUnbound(x) \/ RevokeBound(x) \/ PublishLoss(x)
               \/ RecordLoss(x) \/ AuthorizeLoss(x) \/ LossRefused(x)

Next ==
    \/ TurnAway \/ AcceptorExits
    \/ \E c \in Connections : Admit(c) \/ Handler(c) \/ Unregister(c)
    \/ \E c \in Connections, b \in Boots : RegisterFresh(c, b) \/ RegisterAgain(c, b)
    \/ \E c \in Connections, r \in Resources : ReceiveEvidence(c, r)
    \/ \E b \in Boots : ReportLoss(b) \/ Retire(b)
    \/ \E x \in Reporters : LossCall(x)
    \/ \E r \in Resources : Fence(r) \/ Release(r)
    \/ StopRequested \/ CloseListener \/ CloseSockets \/ ShutDown \/ Restart

(* What each thread does next by itself: a connection thread runs its handler on, and its
   receive fails on a closed socket; the acceptor and stop() proceed.  That a thread blocked
   in recv or accept returns when another one closes the socket is what closesocket does on
   Windows, the validated platform; POSIX close (net.cpp:59) promises no such thing. *)
Thread(c) == Handler(c) \/ (c \in closed /\ Unregister(c)) \/ LossCall(c)
Stopper == CloseListener \/ CloseSockets \/ ShutDown

(* The operating system schedules every thread; of the connection threads it is enough that
   one that can go on does.  Nothing forces a worker to send or to die, an operator to stop
   the node, or the process to restart. *)
Fairness == /\ WF_vars(\E c \in Connections : Thread(c))
            /\ WF_vars(AcceptorExits) /\ WF_vars(Stopper)

Spec == Init /\ [][Next]_vars /\ Fairness

-----------------------------------------------------------------------------
Incarnation == [state: {"NONE", "ACTIVE", "SUSPECT", "AUTHORITY_REVOKED", "RETIRED"}, epoch: Nat]
ResourceRecord == [owner: Boots \cup {NoBoot}, state: {"ACTIVE", "FENCED"},
                   freshness: Freshness, generation: Nat]
Evidence == [resource: Resources \cup {NoResource}, generation: Nat, freshness: Freshness]
Call == [step: {"idle", "revoke", "publish", "record", "authorize"}, boot: Boots \cup {NoBoot},
         subject: Resources \cup {NoResource}, named: BOOLEAN]

(* Types.  active is unsigned, so it must not be decremented below zero, and stop() closes
   only sockets that are registered. *)
TypeOK ==
    /\ epoch \in Nat /\ inputs \in Nat
    /\ incarnations \in [Boots -> Incarnation]
    /\ current \in [Workers -> Boots \cup {NoBoot}]
    /\ live_authority \in [Boots -> SUBSET Resources]
    /\ unstaged \subseteq Boots /\ hole \in {"none", "tail", "inside"} /\ losses \subseteq Boots
    /\ resources \in [Resources -> ResourceRecord]
    /\ pc \in [Connections -> {"free", "receive", "hello", "record", "update", "publish", "lost"}]
    /\ boot \in [Connections -> Boots \cup {NoBoot}]
    /\ seen \in [Connections -> Evidence]
    /\ live \subseteq Connections /\ active \in Nat
    /\ peers \in [Boots -> Connections \cup {NoConnection}]
    /\ abandoned \subseteq Boots /\ closed \subseteq live
    /\ calls \in [Reporters -> Call]
    /\ acceptor \in {"accept", "exited"}
    /\ stop \in {"running", "stopping", "closing", "draining", "down"}

(* Only the boot recorded as current can hold live authority, so a worker has at most one
   live incarnation ("the previous incarnation's authority is revoked before the new one
   may act"), through supersession, loss, restart and reattachment. *)
LiveIsCurrent == \A b \in Boots : HoldsLiveAuthority(b) => BootIsCurrent(b)

(* A fenced resource leaves containment by a release and in no other way: an evidence
   handler that judged the resource before the fence cannot write its stale record back. *)
FenceHolds ==
    [][\A r \in Resources :
          IsContained(r) /\ ~IsContained(r)' => Release(r)]_vars

(* Every entry of peer_sockets points at a registered socket that is served for that boot -
   the dispatcher never finds a finished connection - except the entry of a boot whose
   connection went on to a HELLO for another boot. *)
PeerIsServed ==
    \A b \in Boots \ abandoned :
        peers[b] # NoConnection => peers[b] \in live /\ boot[peers[b]] = b

(* active_connections counts the registered sockets, which are those of the threads that
   have not left their loop, and stays within the limit. *)
ConnectionsAreCounted ==
    /\ active = Cardinality(live)
    /\ active <= MaxConnections
    /\ live = {c \in Connections : pc[c] \notin {"free", "lost"}}

(* stop() returns: whatever the threads and the acceptor are doing when it is called, the
   count reaches zero and the acceptor can be joined. *)
StopReturns == stop # "running" ~> stop = "down" \/ (stop = "running" /\ epoch > 1)

(* An incarnation holds live authority only while a connection thread speaks for it: one
   that is served, or one that is about to report its loss.  Death is never forgotten,
   whatever supersedes, retires, fences or reports the incarnation meanwhile - unless its
   connection went on to a HELLO for another boot and no handshake followed for this one. *)
AuthorityIsServed ==
    \A b \in Boots : HoldsLiveAuthority(b) => b \in abandoned \/ \E c \in Connections : boot[c] = b

=============================================================================
