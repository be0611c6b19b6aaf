--------------------------- MODULE WorkerSession ---------------------------
(***************************************************************************)
(* The conversation of one worker process (src/apps/fcf-worker/main.cpp)   *)
(* with the coordinator over one connection, and the threads that write to *)
(* that connection: its own handler thread (handle_frame in                *)
(* src/src/coordinator.cpp), the thread that dispatches a containment      *)
(* after another worker's death (dispatch_and_settle) and the control      *)
(* thread that polls the workers.  Frames (src/src/protocol.cpp,           *)
(* src/src/net.cpp) travel in order in each direction through buffers of   *)
(* Buffer frames; a sender blocks while the buffer is full.                *)
(*                                                                         *)
(* The connection does not break and the coordinator does not restart:     *)
(* Coordinator models both.  Resources are registered and not yet owned.   *)
(* A resource has one live containment at a time and one action for it;    *)
(* overlapping containments are in ContainmentEngine.  A step of the       *)
(* handler or of the dispatcher is one critical section of the engine's    *)
(* lock, or one frame sent.                                                *)
(***************************************************************************)
EXTENDS Naturals, Sequences, FiniteSets

CONSTANTS Resources,       \* the worker's --resources
          ResourceList,    \* the same, in the order given
          Buffer,          \* frames a direction of the connection holds
          MaxPolls,        \* bound: poll-workers commands
          MaxContainments  \* bound: containments that fence a resource of this worker

ASSUME ListAssumption == /\ ResourceList \in Seq(Resources)
                         /\ {ResourceList[i] : i \in DOMAIN ResourceList} = Resources
ASSUME BoundsAssumption == Buffer \in Nat \ {0} /\ MaxPolls \in Nat /\ MaxContainments \in Nat

VARIABLES record,       \* resource -> [generation, freshness, contained, owned]
          topology,     \* topology_generation: every write of a resource advances it
          action,       \* resource -> [status, topology, remote]
          toWorker, toCoordinator,
          handler,      \* the connection thread: [step, resource, expected, reply]
          peer,         \* the boot is in peer_sockets
          dispatcher,   \* a thread in dispatch_and_settle: [step, resource]
          epoch,        \* the worker knows the coordinator's epoch (ack_epoch)
          generations, authorized, outgoing,  \* the worker's maps, and the frames it is sending
          polls, containments,                \* inputs used
          answered,     \* QUERY_RESPONSE frames that reached the coordinator
          stopped,      \* resources the worker has reported stopped, and not been granted since
          early         \* resources whose result came before the dispatcher finished

engine == <<record, topology, action>>
coordinator == <<handler, peer, dispatcher>>
worker == <<epoch, generations, authorized, outgoing>>
history == <<polls, containments, answered, stopped, early>>
vars == <<engine, toWorker, toCoordinator, coordinator, worker, history>>

-----------------------------------------------------------------------------
(* Frames *)

Hello == [kind |-> "HELLO"]
HelloAck == [kind |-> "HELLO_ACK"]
Query == [kind |-> "QUERY_REQUEST"]
QueryResponse == [kind |-> "QUERY_RESPONSE"]
Evidence(r) == [kind |-> "WORKER_EVIDENCE", epoch |-> epoch, resource |-> r, generation |-> generations[r]]
EvidenceAck(granted, generation) ==
    [kind |-> "WORKER_EVIDENCE_ACK", granted |-> granted, generation |-> generation]
ActionDispatch(r) == [kind |-> "ACTION_DISPATCH", resource |-> r]
ActionAck(r) == [kind |-> "ACTION_ACK", resource |-> r]
ActionResult(r) == [kind |-> "ACTION_RESULT", resource |-> r]
RejectFrame == [kind |-> "REJECT"]

FrameKinds == {"HELLO", "HELLO_ACK", "QUERY_REQUEST", "QUERY_RESPONSE", "WORKER_EVIDENCE",
               "WORKER_EVIDENCE_ACK", "ACTION_DISPATCH", "ACTION_ACK", "ACTION_RESULT", "REJECT"}

HasRoom(channel) == Len(channel) < Buffer
Arrived(channel, kind) == channel # <<>> /\ Head(channel).kind = kind

Waiting == [step |-> "receive", resource |-> Head(ResourceList), expected |-> 0, reply |-> RejectFrame]
Replying(frame) == [Waiting EXCEPT !.step = "reply", !.reply = frame]
NoDispatch == [step |-> "idle", resource |-> Head(ResourceList)]

-----------------------------------------------------------------------------
Init ==
    /\ record = [r \in Resources |->
                   [generation |-> 1, freshness |-> "UNKNOWN", contained |-> FALSE, owned |-> FALSE]]
    /\ topology = 1
    /\ action = [r \in Resources |-> [status |-> "NONE", topology |-> 0, remote |-> FALSE]]
    /\ toWorker = <<>> /\ toCoordinator = <<>>
    /\ handler = Waiting /\ peer = FALSE /\ dispatcher = NoDispatch
    /\ epoch = FALSE
    /\ generations = [r \in Resources |-> 0]
    /\ authorized = [r \in Resources |-> FALSE]
    /\ outgoing = <<Hello>>
    /\ polls = 0 /\ containments = 0 /\ answered = 0 /\ stopped = {} /\ early = {}

(* Every write of a resource advances its generation and the topology's. *)
Written(r, new) ==
    /\ record' = [record EXCEPT ![r] = [new EXCEPT !.generation = record[r].generation + 1]]
    /\ topology' = topology + 1

-----------------------------------------------------------------------------
(* The worker process: one thread that sends what it has to send, then receives. *)

WorkerSends ==
    /\ outgoing # <<>> /\ HasRoom(toCoordinator)
    /\ toCoordinator' = Append(toCoordinator, Head(outgoing))
    /\ outgoing' = Tail(outgoing)
    /\ UNCHANGED <<engine, toWorker, coordinator, epoch, generations, authorized, history>>

WorkerReceives(kind) ==
    /\ outgoing = <<>> /\ Arrived(toWorker, kind)
    /\ toWorker' = Tail(toWorker)
    /\ UNCHANGED <<engine, toCoordinator, coordinator, polls, containments, answered, early>>

ReceiveHelloAck ==
    /\ WorkerReceives("HELLO_ACK")
    /\ epoch' = TRUE
    /\ UNCHANGED <<generations, authorized, outgoing, stopped>>

\* Mutation of ReceiveQuery: evidence is the only answer.
ReceiveQueryUnanswered ==
    /\ WorkerReceives("QUERY_REQUEST")
    /\ outgoing' = [i \in DOMAIN ResourceList |-> Evidence(ResourceList[i])]
    /\ UNCHANGED <<epoch, generations, authorized, stopped>>

(* Evidence for every resource, then the response; then work, if authorised[r] holds for some r. *)
ReceiveQuery ==
    /\ WorkerReceives("QUERY_REQUEST")
    /\ outgoing' = Append([i \in DOMAIN ResourceList |-> Evidence(ResourceList[i])], QueryResponse)
    /\ UNCHANGED <<epoch, generations, authorized, stopped>>

\* Mutation of ReceiveEvidenceAck: an acknowledgment without a grant leaves an earlier one in force.
ReceiveEvidenceAckKeepsGrant ==
    /\ WorkerReceives("WORKER_EVIDENCE_ACK")
    /\ LET ack == Head(toWorker) IN
         /\ generations' = [r \in Resources |-> ack.generation]
         /\ authorized' = [r \in Resources |-> authorized[r] \/ ack.granted]
         /\ stopped' = IF ack.granted THEN {} ELSE stopped
    /\ UNCHANGED <<epoch, outgoing>>

(* The acknowledgment names no resource: it is taken for every one. *)
ReceiveEvidenceAck ==
    /\ WorkerReceives("WORKER_EVIDENCE_ACK")
    /\ LET ack == Head(toWorker) IN
         /\ generations' = [r \in Resources |-> ack.generation]
         /\ authorized' = [r \in Resources |-> ack.granted]
         /\ stopped' = IF ack.granted THEN {} ELSE stopped
    /\ UNCHANGED <<epoch, outgoing>>

ReceiveDispatch ==
    /\ WorkerReceives("ACTION_DISPATCH")
    /\ LET r == Head(toWorker).resource IN
         /\ outgoing' = <<ActionAck(r), ActionResult(r)>>
         /\ stopped' = stopped \cup {r}
    /\ UNCHANGED <<epoch, generations, authorized>>

ReceiveReject ==
    /\ WorkerReceives("REJECT")
    /\ UNCHANGED <<worker, stopped>>

Worker == WorkerSends \/ ReceiveHelloAck \/ ReceiveQuery \/ ReceiveEvidenceAck
            \/ ReceiveDispatch \/ ReceiveReject

-----------------------------------------------------------------------------
(* The connection thread *)

Takes(kind) ==
    /\ handler.step = "receive" /\ Arrived(toCoordinator, kind)
    /\ toCoordinator' = Tail(toCoordinator)
    /\ UNCHANGED <<toWorker, dispatcher, worker, polls, containments, stopped>>

(* The boot enters peer_sockets before its HELLO_ACK is sent. *)
HandleHello ==
    /\ Takes("HELLO")
    /\ peer' = TRUE
    /\ handler' = Replying(HelloAck)
    /\ UNCHANGED <<engine, answered, early>>

IsSuperseded(evidence) ==
    evidence.generation # 0 /\ evidence.generation # record[evidence.resource].generation

(* The record is read here and written in the next critical sections. *)
HandleEvidence ==
    /\ Takes("WORKER_EVIDENCE")
    /\ LET evidence == Head(toCoordinator)
           current == record[evidence.resource]
           Go(step) == [Waiting EXCEPT !.step = step, !.resource = evidence.resource,
                                       !.expected = current.generation]
       IN handler' = IF ~evidence.epoch \/ IsSuperseded(evidence) THEN Replying(RejectFrame)
                     ELSE Go(IF current.contained THEN "publish_fenced" ELSE "update")
    /\ UNCHANGED <<engine, peer, answered, early>>

Elsewhere == UNCHANGED <<action, toWorker, toCoordinator, peer, dispatcher, worker, history>>

(* A contained resource: evidence is recorded, whatever its generation, and nothing granted. *)
PublishFenced ==
    /\ handler.step = "publish_fenced"
    /\ Written(handler.resource, [record[handler.resource] EXCEPT !.freshness = "FRESH"])
    /\ handler' = Replying(EvidenceAck(FALSE, record[handler.resource].generation + 1))
    /\ Elsewhere

IsExpected == record[handler.resource].generation = handler.expected

UpdateOwner ==
    /\ handler.step = "update" /\ IsExpected
    /\ Written(handler.resource, [record[handler.resource] EXCEPT !.owned = TRUE, !.contained = FALSE])
    /\ handler' = [handler EXCEPT !.step = "publish", !.expected = handler.expected + 1]
    /\ Elsewhere

PublishOwned ==
    /\ handler.step = "publish" /\ IsExpected
    /\ Written(handler.resource, [record[handler.resource] EXCEPT !.freshness = "FRESH"])
    /\ handler' = Replying(EvidenceAck(TRUE, handler.expected + 1))
    /\ Elsewhere

RefuseEvidence ==
    /\ handler.step \in {"update", "publish"} /\ ~IsExpected
    /\ handler' = Replying(RejectFrame)
    /\ UNCHANGED <<record, topology>>
    /\ Elsewhere

(* record_action_ack and record_action_result, called by either thread. *)
Acknowledged(r) ==
    /\ action' = [action EXCEPT ![r].status = "ACKNOWLEDGED"]
    /\ UNCHANGED <<record, topology>>

ResultRecorded(r) ==
    /\ action' = [action EXCEPT ![r].status = "RESULT_RECORDED"]
    /\ Written(r, record[r])

\* Mutation of HandleAck: the status of the action is not looked at.
HandleAckUnchecked ==
    /\ Takes("ACTION_ACK")
    /\ Acknowledged(Head(toCoordinator).resource) /\ handler' = Waiting
    /\ UNCHANGED <<peer, answered, early>>

HandleAck ==
    /\ Takes("ACTION_ACK")
    /\ LET r == Head(toCoordinator).resource IN
         \/ action[r].status = "DISPATCHED" /\ Acknowledged(r) /\ handler' = Waiting
         \/ action[r].status # "DISPATCHED" /\ UNCHANGED engine /\ handler' = Replying(RejectFrame)
    /\ UNCHANGED <<peer, answered, early>>

HandleResult ==
    /\ Takes("ACTION_RESULT")
    /\ LET r == Head(toCoordinator).resource IN
         \/ /\ action[r].status \in {"DISPATCHED", "ACKNOWLEDGED"}
            /\ ResultRecorded(r) /\ handler' = Waiting /\ UNCHANGED early
         \/ /\ action[r].status \notin {"DISPATCHED", "ACKNOWLEDGED"}
            /\ UNCHANGED engine /\ handler' = Replying(RejectFrame) /\ early' = early \cup {r}
    /\ UNCHANGED <<peer, answered>>

(* No kind the coordinator expects: the answer to a poll is refused, and the worker logs that. *)
HandleQueryResponse ==
    /\ Takes("QUERY_RESPONSE")
    /\ answered' = answered + 1
    /\ handler' = Replying(RejectFrame)
    /\ UNCHANGED <<engine, peer, early>>

SendReply ==
    /\ handler.step = "reply" /\ HasRoom(toWorker)
    /\ toWorker' = Append(toWorker, handler.reply)
    /\ handler' = Waiting
    /\ UNCHANGED <<engine, toCoordinator, peer, dispatcher, worker, history>>

Handler == HandleHello \/ HandleEvidence \/ PublishFenced \/ UpdateOwner \/ PublishOwned
             \/ RefuseEvidence \/ HandleAck \/ HandleResult \/ HandleQueryResponse \/ SendReply

-----------------------------------------------------------------------------
(* Containment: by the contain command, which dispatches nothing, or after a peer's death. *)

Fence(r) == Written(r, [record[r] EXCEPT !.contained = TRUE])

Contain(r) ==
    /\ ~record[r].contained /\ containments < MaxContainments
    /\ Fence(r)
    /\ action' = [action EXCEPT ![r] = [status |-> "PLANNED", topology |-> topology + 1,
                                        remote |-> record[r].owned]]
    /\ containments' = containments + 1
    /\ early' = early \ {r}
    /\ UNCHANGED <<toWorker, toCoordinator, handler, peer, worker, polls, answered, stopped>>

OperatorContains(r) == Contain(r) /\ UNCHANGED dispatcher

ContainPeerLoss(r) ==
    /\ dispatcher.step = "idle"
    /\ Contain(r)
    /\ dispatcher' = [step |-> "begin", resource |-> r]

Settled(status) == action' = [action EXCEPT ![dispatcher.resource].status = status]
Beyond == UNCHANGED <<toCoordinator, handler, peer, worker, history>>

(* revalidate_action: any write of any resource since the plan supersedes it. *)
BeginDispatch ==
    /\ dispatcher.step = "begin"
    /\ \/ /\ action[dispatcher.resource].topology = topology
          /\ Settled("AUTHORIZED") /\ dispatcher' = [dispatcher EXCEPT !.step = "send"]
       \/ /\ action[dispatcher.resource].topology # topology
          /\ Settled("SUPERSEDED") /\ dispatcher' = NoDispatch
    /\ UNCHANGED <<record, topology, toWorker>>
    /\ Beyond

(* SocketExecutor: to the owner's connection, or enforced by the coordinator itself. *)
SendDispatch ==
    /\ dispatcher.step = "send"
    /\ \/ /\ action[dispatcher.resource].remote /\ HasRoom(toWorker)
          /\ toWorker' = Append(toWorker, ActionDispatch(dispatcher.resource))
       \/ ~action[dispatcher.resource].remote /\ UNCHANGED toWorker
    /\ dispatcher' = [dispatcher EXCEPT !.step = "finish"]
    /\ UNCHANGED engine
    /\ Beyond

(* The lock again: only now is the action one that may be acknowledged. *)
FinishDispatch ==
    /\ dispatcher.step = "finish"
    /\ Settled("DISPATCHED")
    /\ dispatcher' = IF action[dispatcher.resource].remote THEN NoDispatch
                     ELSE [dispatcher EXCEPT !.step = "acknowledge"]
    /\ UNCHANGED <<record, topology, toWorker>>
    /\ Beyond

AcknowledgeLocally ==
    /\ dispatcher.step = "acknowledge"
    /\ Acknowledged(dispatcher.resource)
    /\ dispatcher' = [dispatcher EXCEPT !.step = "report"]
    /\ UNCHANGED toWorker
    /\ Beyond

ReportLocally ==
    /\ dispatcher.step = "report"
    /\ ResultRecorded(dispatcher.resource)
    /\ dispatcher' = NoDispatch
    /\ UNCHANGED toWorker
    /\ Beyond

Dispatcher == BeginDispatch \/ SendDispatch \/ FinishDispatch \/ AcknowledgeLocally \/ ReportLocally

(* verify and release by an operator: granted once the action has a result. *)
Release(r) ==
    /\ record[r].contained /\ action[r].status = "RESULT_RECORDED" /\ record[r].freshness = "FRESH"
    /\ Written(r, [record[r] EXCEPT !.contained = FALSE])
    /\ UNCHANGED <<action, toWorker, toCoordinator, coordinator, worker, history>>

PollWorkers ==
    /\ peer /\ polls < MaxPolls /\ HasRoom(toWorker)
    /\ toWorker' = Append(toWorker, Query)
    /\ polls' = polls + 1
    /\ UNCHANGED <<engine, toCoordinator, coordinator, worker, containments, answered, stopped, early>>

-----------------------------------------------------------------------------
Next ==
    \/ Worker \/ Handler \/ Dispatcher \/ PollWorkers
    \/ \E r \in Resources : OperatorContains(r) \/ ContainPeerLoss(r) \/ Release(r)

(* Each thread runs on; operators and deaths are up to the environment. *)
Spec == Init /\ [][Next]_vars /\ WF_vars(Worker) /\ WF_vars(Handler) /\ WF_vars(Dispatcher)

-----------------------------------------------------------------------------
(* Properties *)

(* What each variable holds; no more polls are answered than were sent, and *)
(* an action stays AUTHORIZED while the dispatcher is at the executor       *)
(* (dispatch_containment), whatever answers arrive meanwhile.               *)
TypeOK ==
    /\ \A r \in Resources :
         /\ record[r].generation \in Nat \ {0} /\ record[r].freshness \in {"UNKNOWN", "FRESH"}
         /\ record[r].contained \in BOOLEAN /\ record[r].owned \in BOOLEAN
         /\ action[r].status \in {"NONE", "PLANNED", "AUTHORIZED", "DISPATCHED", "ACKNOWLEDGED",
                                  "RESULT_RECORDED", "SUPERSEDED"}
         /\ action[r].topology <= topology
         /\ generations[r] <= topology
    /\ \A channel \in {toWorker, toCoordinator} :
         /\ Len(channel) <= Buffer
         /\ \A i \in DOMAIN channel : channel[i].kind \in FrameKinds
    /\ handler.step \in {"receive", "reply", "publish_fenced", "update", "publish"}
    /\ handler.expected <= topology
    /\ dispatcher.step \in {"idle", "begin", "send", "finish", "acknowledge", "report"}
    /\ dispatcher.step \in {"send", "finish"} => action[dispatcher.resource].status = "AUTHORIZED"
    /\ peer \in BOOLEAN /\ epoch \in BOOLEAN
    /\ DOMAIN authorized = Resources
    /\ polls <= MaxPolls /\ containments <= MaxContainments /\ answered <= polls
    /\ stopped \subseteq Resources /\ early \subseteq Resources

(* A worker with one resource may believe in a grant that a containment has *)
(* overtaken, in the engine or on the wire, but then its generation is not  *)
(* the current one: its next evidence is refused as superseded instead of   *)
(* being recorded as that of a fenced resource (handle_frame, the           *)
(* generation check before the containment check).                          *)
StaleGrantIsDetectable ==
    \A r \in Resources :
      Resources = {r} /\ authorized[r] /\ record[r].contained
        => generations[r] \notin {0, record[r].generation}

(* Every poll is answered, and a worker to which an action was dispatched   *)
(* settles it, unless its result arrived before the dispatcher had the lock *)
(* again and was refused (record_action_result).  The worker does not read  *)
(* while it sends, nor does the connection thread while it replies: this is *)
(* so only while what is outstanding fits into the buffers.                 *)
RequestsAreAnswered ==
    /\ \A n \in 1..MaxPolls : polls = n ~> answered >= n
    /\ \A r \in Resources :
         action[r].status = "DISPATCHED" ~> action[r].status = "RESULT_RECORDED" \/ r \in early

(* A worker that has reported that it stopped issuing work for a resource   *)
(* does not run the workload for it until a new grant arrives               *)
(* (fcf-worker, ACTION_DISPATCH and QUERY_REQUEST).                         *)
WorkStopsWhenReported ==
    [][\A r \in Resources : ReceiveQuery /\ r \in stopped => ~authorized[r]]_vars

=============================================================================
