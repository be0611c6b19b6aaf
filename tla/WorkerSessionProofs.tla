------------------------- MODULE WorkerSessionProofs -------------------------
(***************************************************************************)
(* Theorems about WorkerSession, for every list of resources, every buffer *)
(* size and every bound on polls and containments.                         *)
(***************************************************************************)
EXTENDS WorkerSession, TLAPS, FiniteSetTheorems, SequenceTheorems

(* What the coordinator answers and dispatches, what travels to the        *)
(* worker, and what the worker sends.                                      *)
Reply ==
    [kind : {"HELLO_ACK", "REJECT"}]
      \cup [kind : {"WORKER_EVIDENCE_ACK"}, granted : BOOLEAN, generation : Nat]
      \cup [kind : {"ACTION_DISPATCH"}, resource : Resources]
Sent == Reply \cup {Query}
Report ==
    [kind : {"HELLO", "QUERY_RESPONSE"}]
      \cup [kind : {"WORKER_EVIDENCE"}, epoch : BOOLEAN, resource : Resources, generation : Nat]
      \cup [kind : {"ACTION_ACK", "ACTION_RESULT"}, resource : Resources]

Record == [generation : Nat \ {0}, freshness : {"UNKNOWN", "FRESH"},
           contained : BOOLEAN, owned : BOOLEAN]
Statuses == {"NONE", "PLANNED", "AUTHORIZED", "DISPATCHED", "ACKNOWLEDGED",
             "RESULT_RECORDED", "SUPERSEDED"}
Action == [status : Statuses, topology : Nat, remote : BOOLEAN]

EngineInv ==
    /\ record \in [Resources -> Record] /\ topology \in Nat /\ action \in [Resources -> Action]
    /\ \A r \in Resources : record[r].generation <= topology
    /\ \A r \in Resources : action[r].topology <= topology

(* An acknowledgment carries a generation some resource has had.           *)
InTime(frame) == frame.kind = "WORKER_EVIDENCE_ACK" => frame.generation <= topology

WireInv ==
    /\ toWorker \in Seq(Sent) /\ toCoordinator \in Seq(Report) /\ outgoing \in Seq(Report)
    /\ Len(toWorker) <= Buffer /\ Len(toCoordinator) <= Buffer
    /\ \A i \in 1..Len(toWorker) : InTime(toWorker[i])

(* The handler has seen its resource uncontained at the generation it      *)
(* expects, and every write since has advanced that generation.            *)
HandlerInv ==
    /\ DOMAIN handler = {"step", "resource", "expected", "reply"}
    /\ handler.step \in {"receive", "reply", "publish_fenced", "update", "publish"}
    /\ handler.expected \in Nat /\ handler.expected <= topology
    /\ handler.reply \in Reply /\ InTime(handler.reply)
    /\ handler.step \in {"publish_fenced", "update", "publish"} => handler.resource \in Resources
    /\ handler.step \in {"update", "publish"} =>
          /\ handler.expected <= record[handler.resource].generation
          /\ handler.expected = record[handler.resource].generation
                => ~record[handler.resource].contained

(* Until the dispatcher is back from the executor the resource stays       *)
(* fenced, so that nobody plans another action for it.                     *)
DispatcherInv ==
    /\ DOMAIN dispatcher = {"step", "resource"}
    /\ dispatcher.step \in {"idle", "begin", "send", "finish", "acknowledge", "report"}
    /\ dispatcher.step # "idle" => dispatcher.resource \in Resources
    /\ dispatcher.step = "begin" => action[dispatcher.resource].status = "PLANNED"
    /\ dispatcher.step \in {"send", "finish"} => action[dispatcher.resource].status = "AUTHORIZED"
    /\ dispatcher.step \in {"begin", "send", "finish"} => record[dispatcher.resource].contained

WorkerInv ==
    /\ epoch \in BOOLEAN /\ authorized \in [Resources -> BOOLEAN]
    /\ generations \in [Resources -> Nat] /\ \A r \in Resources : generations[r] <= topology

HistoryInv ==
    /\ peer \in BOOLEAN
    /\ polls \in Nat /\ polls <= MaxPolls /\ containments \in Nat /\ containments <= MaxContainments
    /\ answered \in Nat /\ stopped \subseteq Resources /\ early \subseteq Resources

TypeInv == EngineInv /\ WireInv /\ HandlerInv /\ DispatcherInv /\ WorkerInv /\ HistoryInv

-----------------------------------------------------------------------------
(* Frames and queues.                                                      *)
LEMMA SentTypes ==
    /\ Query \in Sent /\ InTime(Query)
    /\ \A frame \in Reply : frame \in Sent /\ frame.kind # "QUERY_REQUEST"
    /\ \A r \in Resources : ActionDispatch(r) \in Reply /\ InTime(ActionDispatch(r))
BY DEF Sent, Reply, InTime, Query, ActionDispatch

LEMMA ReportTypes ==
    ASSUME WorkerInv, NEW r \in Resources
    PROVE  /\ Hello \in Report /\ QueryResponse \in Report /\ Evidence(r) \in Report
           /\ ActionAck(r) \in Report /\ ActionResult(r) \in Report
BY DEF Report, Hello, QueryResponse, Evidence, ActionAck, ActionResult, WorkerInv

LEMMA AppendFacts ==
    ASSUME NEW S, NEW s \in Seq(S), NEW x \in S
    PROVE  /\ Append(s, x) \in Seq(S) /\ Len(Append(s, x)) = Len(s) + 1 /\ Len(s) \in Nat
           /\ \A i \in 1..Len(s) : Append(s, x)[i] = s[i]
           /\ Append(s, x)[Len(s) + 1] = x
OBVIOUS

LEMMA TailFacts ==
    ASSUME NEW S, NEW s \in Seq(S), s # <<>>
    PROVE  /\ Tail(s) \in Seq(S) /\ Len(s) \in Nat /\ Len(s) >= 1 /\ Len(Tail(s)) = Len(s) - 1
           /\ Head(s) = s[1] /\ s[1] \in S
           /\ \A i \in 1..(Len(s) - 1) : Tail(s)[i] = s[i + 1]
OBVIOUS

-----------------------------------------------------------------------------
(* Every write of a resource advances its generation and the topology's.   *)
Grows ==
    /\ topology' \in Nat /\ topology <= topology'
    /\ \A r \in Resources : \/ record'[r] = record[r]
                            \/ record'[r].generation = record[r].generation + 1

LEMMA WrittenEffect ==
    ASSUME EngineInv, NEW r \in Resources, NEW new \in Record, Written(r, new)
    PROVE  /\ record' \in [Resources -> Record] /\ topology' = topology + 1 /\ Grows
           /\ \A x \in Resources : record'[x].generation <= topology'
           /\ record'[r].generation = record[r].generation + 1
           /\ record'[r].contained = new.contained
           /\ \A x \in Resources : x # r => record'[x] = record[x]
<1> DEFINE rec == [new EXCEPT !.generation = record[r].generation + 1]
<1>1. record[r].generation \in Nat /\ topology \in Nat
  BY DEF EngineInv, Record
<1>2. /\ rec \in Record /\ rec.generation = record[r].generation + 1
      /\ rec.contained = new.contained
  BY <1>1 DEF Record
<1>3. record' = [record EXCEPT ![r] = rec] /\ topology' = topology + 1
  BY DEF Written
<1> HIDE DEF rec
<1>4. /\ record' \in [Resources -> Record] /\ record'[r] = rec
      /\ \A x \in Resources : x # r => record'[x] = record[x]
  BY <1>2, <1>3 DEF EngineInv
<1>5. \A x \in Resources : record[x].generation \in Nat /\ record[x].generation <= topology
  BY DEF EngineInv, Record
<1>6. \A x \in Resources : record'[x].generation <= topology'
  BY <1>1, <1>2, <1>3, <1>4, <1>5
<1>7. Grows
  BY <1>1, <1>2, <1>3, <1>4 DEF Grows
<1> QED BY <1>1, <1>2, <1>3, <1>4, <1>6, <1>7

LEMMA StatusEffect ==
    ASSUME action \in [Resources -> Action], NEW r \in Resources, NEW status \in Statuses,
           action' = [action EXCEPT ![r].status = status]
    PROVE  /\ action' \in [Resources -> Action] /\ action'[r].status = status
           /\ \A x \in Resources : action'[x].topology = action[x].topology
           /\ \A x \in Resources : x # r => action'[x] = action[x]
<1> DEFINE a == [action[r] EXCEPT !.status = status]
<1>1. a \in Action /\ a.status = status /\ a.topology = action[r].topology
  BY DEF Action
<1>2. action' = [action EXCEPT ![r] = a]
  OBVIOUS
<1> HIDE DEF a
<1> QED BY <1>1, <1>2

(* The three ways the engine changes: a resource is written, the status of *)
(* an action changes, or a containment is created.                         *)
LEMMA WriteKeepsEngine ==
    ASSUME EngineInv, NEW r \in Resources, NEW new \in Record, Written(r, new), UNCHANGED action
    PROVE  EngineInv'
<1>1. \A x \in Resources : action[x].topology \in Nat /\ action[x].topology <= topology
  BY DEF EngineInv, Action
<1>2. topology \in Nat
  BY DEF EngineInv
<1>3. /\ record' \in [Resources -> Record] /\ topology' = topology + 1
      /\ \A x \in Resources : record'[x].generation <= topology'
  BY WrittenEffect
<1> QED BY <1>1, <1>2, <1>3 DEF EngineInv

LEMMA StatusKeepsEngine ==
    ASSUME EngineInv, NEW r \in Resources, NEW status \in Statuses,
           action' = [action EXCEPT ![r].status = status],
           \/ UNCHANGED <<record, topology>>
           \/ Written(r, record[r])
    PROVE  EngineInv' /\ Grows
<1>1. \A x \in Resources : action[x].topology \in Nat /\ action[x].topology <= topology
  BY DEF EngineInv, Action
<1>2. topology \in Nat /\ action \in [Resources -> Action] /\ record[r] \in Record
  BY DEF EngineInv
<1>3. /\ action' \in [Resources -> Action]
      /\ \A x \in Resources : action'[x].topology = action[x].topology
  BY <1>2, StatusEffect
<1>4. CASE UNCHANGED <<record, topology>>
  BY <1>1, <1>2, <1>3, <1>4 DEF EngineInv, Grows
<1>5. CASE Written(r, record[r])
  <2>1. /\ record' \in [Resources -> Record] /\ topology' = topology + 1 /\ Grows
        /\ \A x \in Resources : record'[x].generation <= topology'
    BY <1>2, <1>5, WrittenEffect
  <2> QED BY <1>1, <1>2, <1>3, <2>1 DEF EngineInv
<1> QED BY <1>4, <1>5

LEMMA ContainEffect ==
    ASSUME EngineInv, NEW r \in Resources, Contain(r)
    PROVE  /\ EngineInv' /\ Grows
           /\ record'[r].contained /\ action'[r].status = "PLANNED"
           /\ record'[r].generation = record[r].generation + 1
           /\ \A x \in Resources : x # r => record'[x] = record[x] /\ action'[x] = action[x]
<1> DEFINE new == [record[r] EXCEPT !.contained = TRUE]
           plan == [status |-> "PLANNED", topology |-> topology + 1, remote |-> record[r].owned]
<1>1. \A x \in Resources : action[x].topology \in Nat /\ action[x].topology <= topology
  BY DEF EngineInv, Action
<1>2. topology \in Nat /\ action \in [Resources -> Action] /\ record[r] \in Record
  BY DEF EngineInv
<1>3. new \in Record /\ new.contained
  BY <1>2 DEF Record
<1>4. plan \in Action /\ plan.status = "PLANNED" /\ plan.topology = topology + 1
  BY <1>2 DEF Action, Statuses, Record
<1>5. Written(r, new) /\ action' = [action EXCEPT ![r] = plan]
  BY DEF Contain, Fence
<1> HIDE DEF new, plan
<1>6. /\ record' \in [Resources -> Record] /\ topology' = topology + 1 /\ Grows
      /\ \A x \in Resources : record'[x].generation <= topology'
      /\ record'[r].generation = record[r].generation + 1
      /\ record'[r].contained = new.contained
      /\ \A x \in Resources : x # r => record'[x] = record[x]
  BY <1>3, <1>5, WrittenEffect
<1>7. /\ action' \in [Resources -> Action] /\ action'[r] = plan
      /\ \A x \in Resources : x # r => action'[x] = action[x]
  BY <1>2, <1>4, <1>5
<1>8. \A x \in Resources : action'[x].topology <= topology'
  BY <1>1, <1>2, <1>4, <1>6, <1>7
<1>9. EngineInv'
  BY <1>2, <1>6, <1>7, <1>8 DEF EngineInv
<1> QED BY <1>3, <1>4, <1>6, <1>7, <1>9

-----------------------------------------------------------------------------
LEMMA ArrivedFacts ==
    ASSUME WireInv, NEW kind
    PROVE  /\ Arrived(toCoordinator, kind) =>
                 /\ toCoordinator # <<>> /\ Head(toCoordinator) \in Report
                 /\ Head(toCoordinator).kind = kind
           /\ Arrived(toWorker, kind) =>
                 /\ toWorker # <<>> /\ Head(toWorker) \in Sent /\ InTime(Head(toWorker))
                 /\ Head(toWorker).kind = kind
<1>1. ASSUME Arrived(toCoordinator, kind)
      PROVE  /\ toCoordinator # <<>> /\ Head(toCoordinator) \in Report
             /\ Head(toCoordinator).kind = kind
  BY <1>1, TailFacts DEF Arrived, WireInv
<1>2. ASSUME Arrived(toWorker, kind)
      PROVE  /\ toWorker # <<>> /\ Head(toWorker) \in Sent /\ InTime(Head(toWorker))
             /\ Head(toWorker).kind = kind
  <2>1. toWorker \in Seq(Sent) /\ toWorker # <<>> /\ Head(toWorker).kind = kind
    BY <1>2 DEF Arrived, WireInv
  <2>2. Head(toWorker) = toWorker[1] /\ toWorker[1] \in Sent /\ 1 \in 1..Len(toWorker)
    BY <2>1, TailFacts
  <2> QED BY <2>1, <2>2 DEF WireInv
<1> QED BY <1>1, <1>2

(* The steps that leave the engine alone.                                  *)
Quiet ==
    \/ Worker \/ HandleHello \/ HandleEvidence \/ RefuseEvidence \/ HandleQueryResponse
    \/ SendReply \/ SendDispatch \/ PollWorkers \/ UNCHANGED vars

LEMMA QuietEngine == Quiet => UNCHANGED engine
<1>1. Worker => UNCHANGED engine
  BY DEF Worker, WorkerSends, WorkerReceives, ReceiveHelloAck, ReceiveQuery, ReceiveEvidenceAck,
         ReceiveDispatch, ReceiveReject
<1>2. SendDispatch \/ PollWorkers \/ UNCHANGED vars => UNCHANGED engine
  BY DEF SendDispatch, PollWorkers, vars
<1>3. HandleHello \/ HandleEvidence \/ HandleQueryResponse \/ SendReply => UNCHANGED engine
  BY DEF HandleHello, HandleEvidence, HandleQueryResponse, SendReply
<1>4. RefuseEvidence => UNCHANGED engine
  BY DEF RefuseEvidence, Elsewhere, engine
<1> QED BY <1>1, <1>2, <1>3, <1>4 DEF Quiet

(* What the remaining steps do to the engine.                              *)
LEMMA HandlerWrites ==
    ASSUME TypeInv, PublishFenced \/ UpdateOwner \/ PublishOwned
    PROVE  \E new \in Record :
              /\ handler.resource \in Resources /\ Written(handler.resource, new)
              /\ new.contained => record[handler.resource].contained
              /\ UpdateOwner \/ (new.contained <=> record[handler.resource].contained)
              /\ UNCHANGED action
<1>1. handler.resource \in Resources
  BY DEF TypeInv, HandlerInv, PublishFenced, UpdateOwner, PublishOwned
<1>2. record[handler.resource] \in Record
  BY <1>1 DEF TypeInv, EngineInv
<1>3. CASE PublishFenced \/ PublishOwned
  <2> DEFINE new == [record[handler.resource] EXCEPT !.freshness = "FRESH"]
  <2>1. new \in Record /\ new.contained = record[handler.resource].contained
    BY <1>2 DEF Record
  <2>2. Written(handler.resource, new) /\ UNCHANGED action
    BY <1>3 DEF PublishFenced, PublishOwned, Elsewhere
  <2> HIDE DEF new
  <2> QED BY <1>1, <2>1, <2>2
<1>4. CASE UpdateOwner
  <2> DEFINE new == [record[handler.resource] EXCEPT !.owned = TRUE, !.contained = FALSE]
  <2>1. new \in Record /\ ~new.contained
    BY <1>2 DEF Record
  <2>2. Written(handler.resource, new) /\ UNCHANGED action
    BY <1>4 DEF UpdateOwner, Elsewhere
  <2> HIDE DEF new
  <2> QED BY <1>1, <1>4, <2>1, <2>2
<1> QED BY <1>3, <1>4

LEMMA ReleaseWrites ==
    ASSUME TypeInv, NEW r \in Resources, Release(r)
    PROVE  \E new \in Record : Written(r, new) /\ UNCHANGED action
<1> DEFINE new == [record[r] EXCEPT !.contained = FALSE]
<1>1. record[r] \in Record
  BY DEF TypeInv, EngineInv
<1>2. new \in Record
  BY <1>1 DEF Record
<1>3. Written(r, new) /\ UNCHANGED action
  BY DEF Release
<1> QED BY <1>2, <1>3

(* record_action_ack and record_action_result, by the handler.             *)
LEMMA AnswerRecorded ==
    ASSUME TypeInv, HandleAck \/ HandleResult
    PROVE  \/ UNCHANGED engine
           \/ \E r \in Resources, status \in Statuses :
                 /\ action[r].status \in {"DISPATCHED", "ACKNOWLEDGED"}
                 /\ action' = [action EXCEPT ![r].status = status]
                 /\ UNCHANGED <<record, topology>> \/ Written(r, record[r])
<1> DEFINE r == Head(toCoordinator).resource
<1>1. CASE HandleAck
  <2>1. Arrived(toCoordinator, "ACTION_ACK")
    BY <1>1 DEF HandleAck, Takes
  <2>2. r \in Resources
    BY <2>1, ArrivedFacts DEF TypeInv, Report
  <2>3. \/ UNCHANGED engine
        \/ action[r].status = "DISPATCHED" /\ Acknowledged(r)
    BY <1>1 DEF HandleAck
  <2> HIDE DEF r
  <2> QED BY <2>2, <2>3 DEF Acknowledged, Statuses
<1>2. CASE HandleResult
  <2>1. Arrived(toCoordinator, "ACTION_RESULT")
    BY <1>2 DEF HandleResult, Takes
  <2>2. r \in Resources
    BY <2>1, ArrivedFacts DEF TypeInv, Report
  <2>3. \/ UNCHANGED engine
        \/ action[r].status \in {"DISPATCHED", "ACKNOWLEDGED"} /\ ResultRecorded(r)
    BY <1>2 DEF HandleResult
  <2> HIDE DEF r
  <2> QED BY <2>2, <2>3 DEF ResultRecorded, Statuses
<1> QED BY <1>1, <1>2

LEMMA DispatcherRecords ==
    ASSUME TypeInv, BeginDispatch \/ FinishDispatch \/ AcknowledgeLocally \/ ReportLocally
    PROVE  /\ dispatcher.resource \in Resources
           /\ \E status \in Statuses :
                 /\ action' = [action EXCEPT ![dispatcher.resource].status = status]
                 /\ \/ UNCHANGED <<record, topology>>
                    \/ Written(dispatcher.resource, record[dispatcher.resource])
<1>1. dispatcher.resource \in Resources
  BY DEF TypeInv, DispatcherInv, BeginDispatch, FinishDispatch, AcknowledgeLocally, ReportLocally
<1>2. CASE BeginDispatch
  BY <1>1, <1>2 DEF BeginDispatch, Settled, Statuses
<1>3. CASE FinishDispatch
  BY <1>1, <1>3 DEF FinishDispatch, Settled, Statuses
<1>4. CASE AcknowledgeLocally
  BY <1>1, <1>4 DEF AcknowledgeLocally, Acknowledged, Statuses
<1>5. CASE ReportLocally
  BY <1>1, <1>5 DEF ReportLocally, ResultRecorded, Statuses
<1> QED BY <1>2, <1>3, <1>4, <1>5

LEMMA SessionSteps ==
    ASSUME [Next]_vars
    PROVE  \/ Quiet
           \/ PublishFenced \/ UpdateOwner \/ PublishOwned
           \/ HandleAck \/ HandleResult
           \/ BeginDispatch \/ FinishDispatch \/ AcknowledgeLocally \/ ReportLocally
           \/ \E r \in Resources : OperatorContains(r) \/ ContainPeerLoss(r) \/ Release(r)
BY DEF Next, Handler, Dispatcher, Quiet

LEMMA EngineStep == TypeInv /\ [Next]_vars => EngineInv' /\ Grows
<1> SUFFICES ASSUME TypeInv, [Next]_vars PROVE EngineInv' /\ Grows
  OBVIOUS
<1>0. EngineInv
  BY DEF TypeInv
<1>1. ASSUME UNCHANGED engine PROVE EngineInv' /\ Grows
  BY <1>0, <1>1 DEF EngineInv, Grows, engine
<1>2. ASSUME PublishFenced \/ UpdateOwner \/ PublishOwned PROVE EngineInv' /\ Grows
  BY <1>0, <1>2, HandlerWrites, WriteKeepsEngine, WrittenEffect
<1>3. ASSUME HandleAck \/ HandleResult PROVE EngineInv' /\ Grows
  BY <1>0, <1>1, <1>3, AnswerRecorded, StatusKeepsEngine
<1>4. ASSUME BeginDispatch \/ FinishDispatch \/ AcknowledgeLocally \/ ReportLocally
      PROVE  EngineInv' /\ Grows
  BY <1>0, <1>4, DispatcherRecords, StatusKeepsEngine
<1>5. ASSUME NEW r \in Resources, OperatorContains(r) \/ ContainPeerLoss(r)
      PROVE  EngineInv' /\ Grows
  BY <1>0, <1>5, ContainEffect DEF OperatorContains, ContainPeerLoss
<1>6. ASSUME NEW r \in Resources, Release(r) PROVE EngineInv' /\ Grows
  BY <1>0, <1>6, ReleaseWrites, WriteKeepsEngine, WrittenEffect
<1> QED BY <1>1, <1>2, <1>3, <1>4, <1>5, <1>6, QuietEngine, SessionSteps

-----------------------------------------------------------------------------
(* The connection thread.                                                  *)
LEMMA HandlerKept ==
    ASSUME TypeInv, Grows, UNCHANGED handler
    PROVE  HandlerInv'
<1> DEFINE r == handler.resource
<1>1. HandlerInv /\ topology \in Nat /\ topology' \in Nat /\ topology <= topology'
  BY DEF TypeInv, EngineInv, Grows
<1>2. InTime(handler.reply)'
  <2>1. handler.reply.kind = "WORKER_EVIDENCE_ACK" => handler.reply.generation \in Nat
    BY <1>1 DEF HandlerInv, Reply
  <2> QED BY <1>1, <2>1 DEF HandlerInv, InTime
<1>3. ASSUME handler.step \in {"update", "publish"}
      PROVE  /\ handler.expected <= record'[r].generation
             /\ handler.expected = record'[r].generation => ~record'[r].contained
  <2>1. /\ r \in Resources /\ handler.expected \in Nat
        /\ handler.expected <= record[r].generation
        /\ handler.expected = record[r].generation => ~record[r].contained
    BY <1>1, <1>3 DEF HandlerInv
  <2>2. record[r].generation \in Nat
    BY <2>1 DEF TypeInv, EngineInv, Record
  <2>3. record'[r] = record[r] \/ record'[r].generation = record[r].generation + 1
    BY <2>1 DEF Grows
  <2> QED BY <2>1, <2>2, <2>3
<1>4. handler.expected <= topology'
  BY <1>1 DEF HandlerInv
<1> QED BY <1>1, <1>2, <1>3, <1>4 DEF HandlerInv

LEMMA WaitingFacts ==
    /\ DOMAIN Waiting = {"step", "resource", "expected", "reply"} /\ Waiting.step = "receive"
    /\ Waiting.expected = 0 /\ Waiting.reply = RejectFrame
BY DEF Waiting

LEMMA HandlerWaits ==
    ASSUME topology' \in Nat, handler' = Waiting
    PROVE  HandlerInv'
<1>1. RejectFrame \in Reply /\ RejectFrame.kind = "REJECT"
  BY DEF RejectFrame, Reply
<1> QED BY <1>1, WaitingFacts DEF HandlerInv, InTime

LEMMA HandlerReplies ==
    ASSUME topology' \in Nat, NEW frame \in Reply, handler' = Replying(frame),
           frame.kind = "WORKER_EVIDENCE_ACK" => frame.generation <= topology'
    PROVE  HandlerInv'
<1>1. /\ DOMAIN Replying(frame) = {"step", "resource", "expected", "reply"}
      /\ Replying(frame).step = "reply" /\ Replying(frame).expected = 0
      /\ Replying(frame).reply = frame
  BY WaitingFacts DEF Replying
<1> QED BY <1>1 DEF HandlerInv, InTime

LEMMA RejectFacts == RejectFrame \in Reply /\ RejectFrame.kind = "REJECT"
                     /\ HelloAck \in Reply /\ HelloAck.kind = "HELLO_ACK"
BY DEF Reply, RejectFrame, HelloAck

(* Evidence is taken for the resource as it is now.                        *)
LEMMA HandleEvidenceKeeps ==
    ASSUME TypeInv, HandleEvidence
    PROVE  HandlerInv'
<1> DEFINE evidence == Head(toCoordinator)
           r == evidence.resource
           step == IF record[r].contained THEN "publish_fenced" ELSE "update"
           next == [Waiting EXCEPT !.step = step, !.resource = r, !.expected = record[r].generation]
<1>1. /\ Arrived(toCoordinator, "WORKER_EVIDENCE") /\ UNCHANGED engine
      /\ handler' = Replying(RejectFrame) \/ handler' = next
  BY DEF HandleEvidence, Takes
<1>2. r \in Resources
  BY <1>1, ArrivedFacts DEF TypeInv, Report
<1>3. /\ topology \in Nat /\ topology' = topology /\ record' = record
      /\ record[r].generation \in Nat /\ record[r].generation <= topology
  BY <1>1, <1>2 DEF engine, TypeInv, EngineInv, Record
<1>4. CASE handler' = Replying(RejectFrame)
  BY <1>3, <1>4, RejectFacts, HandlerReplies
<1>5. CASE handler' = next
  <2>1. /\ DOMAIN next = {"step", "resource", "expected", "reply"}
        /\ next.step = step /\ next.resource = r /\ next.expected = record[r].generation
        /\ next.reply = RejectFrame
    BY WaitingFacts
  <2>2. step \in {"publish_fenced", "update"} /\ (step = "update" => ~record[r].contained)
    OBVIOUS
  <2> HIDE DEF next, step, r
  <2> QED BY <1>2, <1>3, <1>5, <2>1, <2>2, RejectFacts DEF HandlerInv, InTime
<1> QED BY <1>1, <1>4, <1>5

LEMMA HandlerPublishes ==
    ASSUME TypeInv, PublishFenced \/ UpdateOwner \/ PublishOwned
    PROVE  HandlerInv'
<1> DEFINE r == handler.resource
           g == record[r].generation
<1>1. PICK new \in Record :
         /\ r \in Resources /\ Written(r, new) /\ UNCHANGED action
  BY HandlerWrites
<1>2. /\ record' \in [Resources -> Record] /\ topology' = topology + 1
      /\ \A x \in Resources : record'[x].generation <= topology'
      /\ record'[r].generation = g + 1
      /\ record'[r].contained = new.contained
  BY <1>1, WrittenEffect DEF TypeInv
<1>3. topology \in Nat /\ g \in Nat /\ topology' \in Nat
  BY <1>1, <1>2 DEF TypeInv, EngineInv, Record
<1>4. g + 1 <= topology'
  BY <1>1, <1>2
<1>5. ASSUME NEW granted \in BOOLEAN, handler' = Replying(EvidenceAck(granted, g + 1))
      PROVE  HandlerInv'
  <2>1. /\ EvidenceAck(granted, g + 1) \in Reply
        /\ EvidenceAck(granted, g + 1).generation = g + 1
    BY <1>3 DEF EvidenceAck, Reply
  <2> QED BY <1>3, <1>4, <1>5, <2>1, HandlerReplies
<1>6. CASE PublishFenced
  <2>1. handler' = Replying(EvidenceAck(FALSE, g + 1))
    BY <1>6 DEF PublishFenced
  <2> QED BY <1>5, <2>1
<1>7. CASE PublishOwned
  <2>1. handler.expected = g /\ handler' = Replying(EvidenceAck(TRUE, handler.expected + 1))
    BY <1>7 DEF PublishOwned, IsExpected
  <2> QED BY <1>5, <2>1
<1>8. CASE UpdateOwner
  <2>1. /\ handler.expected = g
        /\ handler' = [handler EXCEPT !.step = "publish", !.expected = handler.expected + 1]
        /\ Written(r, [record[r] EXCEPT !.owned = TRUE, !.contained = FALSE])
    BY <1>8 DEF UpdateOwner, IsExpected
  <2>2. record[r] \in Record
    BY <1>1 DEF TypeInv, EngineInv
  <2>3. [record[r] EXCEPT !.owned = TRUE, !.contained = FALSE] \in Record
        /\ ~[record[r] EXCEPT !.owned = TRUE, !.contained = FALSE].contained
    BY <2>2 DEF Record
  <2>4. ~record'[r].contained
    BY <1>1, <2>1, <2>3, WrittenEffect DEF TypeInv
  <2>5. HandlerInv
    BY DEF TypeInv
  <2>6. /\ DOMAIN handler' = {"step", "resource", "expected", "reply"}
        /\ handler'.step = "publish" /\ handler'.resource = r /\ handler'.expected = g + 1
        /\ handler'.reply = handler.reply
    BY <2>1, <2>5 DEF HandlerInv
  <2>7. InTime(handler.reply)'
    <3>1. handler.reply \in Reply /\ InTime(handler.reply)
      BY <2>5 DEF HandlerInv
    <3>2. handler.reply.kind = "WORKER_EVIDENCE_ACK" => handler.reply.generation \in Nat
      BY <3>1 DEF Reply
    <3> QED BY <1>2, <1>3, <2>6, <3>1, <3>2 DEF InTime
  <2> QED BY <1>1, <1>2, <1>3, <1>4, <2>4, <2>5, <2>6, <2>7 DEF HandlerInv
<1> QED BY <1>6, <1>7, <1>8

LEMMA HandlerStep == TypeInv /\ [Next]_vars => HandlerInv'
<1> SUFFICES ASSUME TypeInv, [Next]_vars PROVE HandlerInv'
  OBVIOUS
<1>0. EngineInv' /\ Grows /\ topology' \in Nat
  BY EngineStep DEF Grows
<1>1. ASSUME UNCHANGED handler PROVE HandlerInv'
  BY <1>0, <1>1, HandlerKept
<1>2. ASSUME handler' = Waiting \/ handler' = Replying(RejectFrame) \/ handler' = Replying(HelloAck)
      PROVE  HandlerInv'
  BY <1>0, <1>2, RejectFacts, HandlerWaits, HandlerReplies
<1>3. ASSUME Worker \/ PollWorkers \/ UNCHANGED vars PROVE UNCHANGED handler
  BY <1>3 DEF Worker, WorkerSends, WorkerReceives, ReceiveHelloAck, ReceiveQuery,
              ReceiveEvidenceAck, ReceiveDispatch, ReceiveReject, PollWorkers, coordinator, vars
<1>4. ASSUME Dispatcher PROVE UNCHANGED handler
  BY <1>4 DEF Dispatcher, BeginDispatch, SendDispatch, FinishDispatch, AcknowledgeLocally,
              ReportLocally, Beyond
<1>5. ASSUME NEW r \in Resources, OperatorContains(r) \/ ContainPeerLoss(r) \/ Release(r)
      PROVE  UNCHANGED handler
  BY <1>5 DEF OperatorContains, ContainPeerLoss, Contain, Release, coordinator
<1>6. CASE HandleHello \/ RefuseEvidence \/ HandleAck \/ HandleResult \/ HandleQueryResponse
           \/ SendReply
  BY <1>2, <1>6 DEF HandleHello, RefuseEvidence, HandleAck, HandleResult, HandleQueryResponse,
                    SendReply
<1> QED BY <1>1, <1>3, <1>4, <1>5, <1>6, HandleEvidenceKeeps, HandlerPublishes DEF Next, Handler

-----------------------------------------------------------------------------
(* The dispatcher.                                                         *)
AtWork == dispatcher.step \in {"begin", "send", "finish"}

LEMMA DispatcherKept ==
    ASSUME TypeInv, UNCHANGED dispatcher,
           AtWork => /\ action'[dispatcher.resource].status = action[dispatcher.resource].status
                     /\ record'[dispatcher.resource].contained
    PROVE  DispatcherInv'
BY DEF TypeInv, DispatcherInv, AtWork

LEMMA HandlerLeavesDispatcher ==
    ASSUME TypeInv, PublishFenced \/ UpdateOwner \/ PublishOwned
    PROVE  DispatcherInv'
<1> DEFINE r == handler.resource
           d == dispatcher.resource
<1>1. UNCHANGED <<action, dispatcher>>
  BY DEF PublishFenced, UpdateOwner, PublishOwned, Elsewhere
<1>2. PICK new \in Record :
         /\ r \in Resources /\ Written(r, new)
         /\ UpdateOwner \/ (new.contained <=> record[r].contained)
  BY HandlerWrites
<1>3. /\ record'[r].contained = new.contained
      /\ \A x \in Resources : x # r => record'[x] = record[x]
  BY <1>2, WrittenEffect DEF TypeInv
<1>4. ASSUME AtWork PROVE record'[d].contained
  <2>1. d \in Resources /\ record[d].contained
    BY <1>4 DEF AtWork, TypeInv, DispatcherInv
  <2>2. UpdateOwner => r # d
    BY <2>1 DEF UpdateOwner, IsExpected, TypeInv, HandlerInv
  <2> QED BY <1>2, <1>3, <2>1, <2>2
<1> QED BY <1>1, <1>4, DispatcherKept

LEMMA AnswersLeaveDispatcher ==
    ASSUME TypeInv, HandleAck \/ HandleResult
    PROVE  DispatcherInv'
<1> DEFINE d == dispatcher.resource
<1>1. UNCHANGED dispatcher
  BY DEF HandleAck, HandleResult, Takes
<1>2. CASE UNCHANGED engine
  <2>1. AtWork => record[d].contained
    BY DEF AtWork, TypeInv, DispatcherInv
  <2> QED BY <1>1, <1>2, <2>1, DispatcherKept DEF engine
<1>3. CASE \E r \in Resources, status \in Statuses :
              /\ action[r].status \in {"DISPATCHED", "ACKNOWLEDGED"}
              /\ action' = [action EXCEPT ![r].status = status]
              /\ UNCHANGED <<record, topology>> \/ Written(r, record[r])
  <2>1. PICK r \in Resources, status \in Statuses :
              /\ action[r].status \in {"DISPATCHED", "ACKNOWLEDGED"}
              /\ action' = [action EXCEPT ![r].status = status]
              /\ UNCHANGED <<record, topology>> \/ Written(r, record[r])
    BY <1>3
  <2>2. \A x \in Resources : x # r => action'[x] = action[x]
    BY <2>1, StatusEffect DEF TypeInv, EngineInv
  <2>3. \A x \in Resources : record'[x].contained = record[x].contained
    <3>1. CASE UNCHANGED <<record, topology>>
      BY <3>1
    <3>2. CASE Written(r, record[r])
      BY <3>2, WrittenEffect DEF TypeInv, EngineInv
    <3> QED BY <2>1, <3>1, <3>2
  <2>4. ASSUME AtWork PROVE action'[d].status = action[d].status /\ record'[d].contained
    <3>1. d \in Resources /\ record[d].contained /\ d # r
      BY <2>1, <2>4 DEF AtWork, TypeInv, DispatcherInv
    <3> QED BY <2>2, <2>3, <3>1
  <2> QED BY <1>1, <2>4, DispatcherKept
<1> QED BY <1>2, <1>3, AnswerRecorded

LEMMA DispatcherMoves ==
    ASSUME TypeInv, Dispatcher
    PROVE  DispatcherInv'
<1> DEFINE d == dispatcher.resource
<1>0. DispatcherInv /\ action \in [Resources -> Action]
  BY DEF TypeInv, EngineInv
<1>1. NoDispatch.step = "idle" /\ DOMAIN NoDispatch = {"step", "resource"}
  BY DEF NoDispatch
<1>2. ASSUME dispatcher' = NoDispatch PROVE DispatcherInv'
  BY <1>1, <1>2 DEF DispatcherInv
<1>3. ASSUME NEW step, dispatcher' = [dispatcher EXCEPT !.step = step]
      PROVE  /\ DOMAIN dispatcher' = {"step", "resource"} /\ dispatcher'.step = step
             /\ dispatcher'.resource = d
  BY <1>0, <1>3 DEF DispatcherInv
<1>4. CASE BeginDispatch
  <2>1. d \in Resources /\ record[d].contained /\ record' = record
    BY <1>0, <1>4 DEF BeginDispatch, DispatcherInv
  <2>2. CASE dispatcher' = NoDispatch
    BY <1>2, <2>2
  <2>3. CASE Settled("AUTHORIZED") /\ dispatcher' = [dispatcher EXCEPT !.step = "send"]
    <3>1. action'[d].status = "AUTHORIZED"
      BY <1>0, <2>1, <2>3, StatusEffect DEF Settled, Statuses
    <3> QED BY <1>3, <2>1, <2>3, <3>1 DEF DispatcherInv
  <2> QED BY <1>4, <2>2, <2>3 DEF BeginDispatch
<1>5. CASE SendDispatch
  <2>1. /\ d \in Resources /\ record[d].contained /\ action[d].status = "AUTHORIZED"
        /\ UNCHANGED <<record, action>> /\ dispatcher' = [dispatcher EXCEPT !.step = "finish"]
    BY <1>0, <1>5 DEF SendDispatch, DispatcherInv, engine
  <2> QED BY <1>3, <2>1 DEF DispatcherInv
<1>6. CASE FinishDispatch
  <2>1. d \in Resources
    BY <1>0, <1>6 DEF FinishDispatch, DispatcherInv
  <2>2. dispatcher' = NoDispatch \/ dispatcher' = [dispatcher EXCEPT !.step = "acknowledge"]
    BY <1>6 DEF FinishDispatch
  <2> QED BY <1>2, <1>3, <2>1, <2>2 DEF DispatcherInv
<1>7. CASE AcknowledgeLocally
  <2>1. d \in Resources /\ dispatcher' = [dispatcher EXCEPT !.step = "report"]
    BY <1>0, <1>7 DEF AcknowledgeLocally, DispatcherInv
  <2> QED BY <1>3, <2>1 DEF DispatcherInv
<1>8. CASE ReportLocally
  BY <1>2, <1>8 DEF ReportLocally
<1> QED BY <1>4, <1>5, <1>6, <1>7, <1>8 DEF Dispatcher

LEMMA DispatcherStep == TypeInv /\ [Next]_vars => DispatcherInv'
<1> SUFFICES ASSUME TypeInv, [Next]_vars PROVE DispatcherInv'
  OBVIOUS
<1> DEFINE d == dispatcher.resource
<1>0. AtWork => d \in Resources /\ record[d].contained /\ action[d].status \in {"PLANNED", "AUTHORIZED"}
  BY DEF AtWork, TypeInv, DispatcherInv
<1>1. ASSUME UNCHANGED <<engine, dispatcher>> PROVE DispatcherInv'
  BY <1>0, <1>1, DispatcherKept DEF engine
<1>2. CASE Worker \/ PollWorkers \/ UNCHANGED vars
  BY <1>1, <1>2 DEF Worker, WorkerSends, WorkerReceives, ReceiveHelloAck, ReceiveQuery,
              ReceiveEvidenceAck, ReceiveDispatch, ReceiveReject, PollWorkers, coordinator, vars
<1>3. CASE HandleHello \/ HandleEvidence \/ RefuseEvidence \/ HandleQueryResponse \/ SendReply
  <2>1. UNCHANGED dispatcher
    BY <1>3 DEF HandleHello, HandleEvidence, RefuseEvidence, HandleQueryResponse, SendReply,
                Takes, Elsewhere
  <2> QED BY <1>1, <1>3, <2>1, QuietEngine DEF Quiet
<1>4. ASSUME NEW r \in Resources, OperatorContains(r) PROVE DispatcherInv'
  <2>1. Contain(r) /\ UNCHANGED dispatcher /\ ~record[r].contained
    BY <1>4 DEF OperatorContains, Contain
  <2>2. \A x \in Resources : x # r => record'[x] = record[x] /\ action'[x] = action[x]
    BY <2>1, ContainEffect DEF TypeInv
  <2> QED BY <1>0, <2>1, <2>2, DispatcherKept
<1>5. ASSUME NEW r \in Resources, ContainPeerLoss(r) PROVE DispatcherInv'
  <2>1. Contain(r) /\ dispatcher' = [step |-> "begin", resource |-> r]
    BY <1>5 DEF ContainPeerLoss
  <2>2. record'[r].contained /\ action'[r].status = "PLANNED"
    BY <2>1, ContainEffect DEF TypeInv
  <2>3. DOMAIN dispatcher' = {"step", "resource"} /\ dispatcher'.step = "begin"
        /\ dispatcher'.resource = r
    BY <2>1
  <2> QED BY <2>2, <2>3 DEF DispatcherInv
<1>6. ASSUME NEW r \in Resources, Release(r) PROVE DispatcherInv'
  <2>1. UNCHANGED <<action, dispatcher>> /\ action[r].status = "RESULT_RECORDED"
    BY <1>6 DEF Release, coordinator
  <2>2. \A x \in Resources : x # r => record'[x] = record[x]
    BY <1>6, ReleaseWrites, WrittenEffect DEF TypeInv
  <2> QED BY <1>0, <2>1, <2>2, DispatcherKept
<1> QED BY <1>2, <1>3, <1>4, <1>5, <1>6, HandlerLeavesDispatcher, AnswersLeaveDispatcher,
           DispatcherMoves DEF Next, Handler

-----------------------------------------------------------------------------
(* The two directions of the connection, and the frames the worker has yet *)
(* to send: how each step moves frames, and which of them are polls and    *)
(* answers to polls.                                                       *)
IsPoll(frame) == frame.kind = "QUERY_REQUEST"
IsAnswer(frame) == frame.kind = "QUERY_RESPONSE"

NothingMoves == UNCHANGED <<toWorker, toCoordinator, outgoing, polls, answered>>

ReportLeaves ==
    /\ outgoing # <<>> /\ Len(toCoordinator) < Buffer
    /\ toCoordinator' = Append(toCoordinator, Head(outgoing)) /\ outgoing' = Tail(outgoing)
    /\ UNCHANGED <<toWorker, polls, answered>>

FrameTakenByWorker ==
    /\ toWorker # <<>> /\ outgoing = <<>> /\ toWorker' = Tail(toWorker)
    /\ outgoing' \in Seq(Report)
    /\ \/ ~IsPoll(Head(toWorker)) /\ \A i \in 1..Len(outgoing') : ~IsAnswer(outgoing'[i])
       \/ /\ IsPoll(Head(toWorker))
          /\ \E reports \in Seq(Report) :
                /\ outgoing' = Append(reports, QueryResponse)
                /\ \A i \in 1..Len(reports) : ~IsAnswer(reports[i])
    /\ UNCHANGED <<toCoordinator, polls, answered>>

ReportTaken ==
    /\ toCoordinator # <<>> /\ toCoordinator' = Tail(toCoordinator)
    /\ IF IsAnswer(Head(toCoordinator)) THEN answered' = answered + 1 ELSE answered' = answered
    /\ UNCHANGED <<toWorker, outgoing, polls>>

FrameSent ==
    /\ Len(toWorker) < Buffer
    /\ \E frame \in Sent :
          /\ toWorker' = Append(toWorker, frame) /\ InTime(frame)
          /\ IF IsPoll(frame) THEN polls' = polls + 1 ELSE polls' = polls
    /\ UNCHANGED <<toCoordinator, outgoing, answered>>

LEMMA EvidenceList ==
    ASSUME TypeInv
    PROVE  LET reports == [i \in DOMAIN ResourceList |-> Evidence(ResourceList[i])]
           IN  reports \in Seq(Report) /\ \A i \in 1..Len(reports) : ~IsAnswer(reports[i])
<1> DEFINE reports == [i \in DOMAIN ResourceList |-> Evidence(ResourceList[i])]
<1>1. /\ DOMAIN ResourceList = 1..Len(ResourceList) /\ Len(ResourceList) \in Nat
      /\ \A i \in 1..Len(ResourceList) : ResourceList[i] \in Resources
  BY ListAssumption
<1>2. ASSUME NEW r \in Resources PROVE Evidence(r) \in Report /\ ~IsAnswer(Evidence(r))
  BY ReportTypes DEF TypeInv, IsAnswer, Evidence
<1>3. reports \in [1..Len(ResourceList) -> Report]
  BY <1>1, <1>2
<1>4. reports \in Seq(Report) /\ Len(reports) = Len(ResourceList)
  BY <1>1, <1>3
<1>5. \A i \in 1..Len(ResourceList) : reports[i] = Evidence(ResourceList[i])
  BY <1>1
<1> QED BY <1>1, <1>2, <1>4, <1>5

LEMMA WorkerMoves ==
    ASSUME TypeInv, Worker
    PROVE  ReportLeaves \/ FrameTakenByWorker
<1>1. CASE WorkerSends
  BY <1>1 DEF WorkerSends, HasRoom, ReportLeaves, history
<1>2. ASSUME NEW kind, WorkerReceives(kind)
      PROVE  /\ toWorker # <<>> /\ outgoing = <<>> /\ toWorker' = Tail(toWorker)
             /\ Head(toWorker).kind = kind /\ Head(toWorker) \in Sent
             /\ UNCHANGED <<toCoordinator, polls, answered>>
  BY <1>2, ArrivedFacts DEF WorkerReceives, TypeInv
<1>3. \A i \in 1..Len(<<>>) : ~IsAnswer(<<>>[i])
  OBVIOUS
<1>4. ASSUME UNCHANGED outgoing, outgoing = <<>>
      PROVE  outgoing' \in Seq(Report) /\ \A i \in 1..Len(outgoing') : ~IsAnswer(outgoing'[i])
  BY <1>3, <1>4
<1>5. CASE ReceiveHelloAck
  <2>1. WorkerReceives("HELLO_ACK") /\ UNCHANGED outgoing
    BY <1>5 DEF ReceiveHelloAck
  <2> QED BY <1>2, <1>4, <2>1 DEF FrameTakenByWorker, IsPoll
<1>6. CASE ReceiveEvidenceAck
  <2>1. WorkerReceives("WORKER_EVIDENCE_ACK") /\ UNCHANGED outgoing
    BY <1>6 DEF ReceiveEvidenceAck
  <2> QED BY <1>2, <1>4, <2>1 DEF FrameTakenByWorker, IsPoll
<1>7. CASE ReceiveReject
  <2>1. WorkerReceives("REJECT") /\ UNCHANGED outgoing
    BY <1>7 DEF ReceiveReject, worker
  <2> QED BY <1>2, <1>4, <2>1 DEF FrameTakenByWorker, IsPoll
<1>8. CASE ReceiveDispatch
  <2> DEFINE r == Head(toWorker).resource
             out == <<ActionAck(r), ActionResult(r)>>
  <2>1. WorkerReceives("ACTION_DISPATCH") /\ outgoing' = out
    BY <1>8 DEF ReceiveDispatch
  <2>2. r \in Resources
    BY <1>2, <2>1 DEF Sent, Reply, Query
  <2>3. /\ ActionAck(r) \in Report /\ ActionResult(r) \in Report
        /\ ~IsAnswer(ActionAck(r)) /\ ~IsAnswer(ActionResult(r))
    BY <2>2, ReportTypes DEF TypeInv, ActionAck, ActionResult, IsAnswer
  <2> HIDE DEF r
  <2>4. out \in Seq(Report) /\ Len(out) = 2 /\ out[1] = ActionAck(r) /\ out[2] = ActionResult(r)
    BY <2>3
  <2> HIDE DEF out
  <2>5. \A i \in 1..Len(out) : ~IsAnswer(out[i])
    <3>1. \A i \in 1..Len(out) : i = 1 \/ i = 2
      BY <2>4
    <3> QED BY <2>3, <2>4, <3>1
  <2> QED BY <1>2, <2>1, <2>4, <2>5 DEF FrameTakenByWorker, IsPoll
<1>9. CASE ReceiveQuery
  <2> DEFINE reports == [i \in DOMAIN ResourceList |-> Evidence(ResourceList[i])]
  <2>1. WorkerReceives("QUERY_REQUEST") /\ outgoing' = Append(reports, QueryResponse)
    BY <1>9 DEF ReceiveQuery
  <2>2. reports \in Seq(Report) /\ \A i \in 1..Len(reports) : ~IsAnswer(reports[i])
    BY EvidenceList
  <2> HIDE DEF reports
  <2>3. QueryResponse \in Report
    BY DEF QueryResponse, Report
  <2>4. outgoing' \in Seq(Report)
    BY <2>1, <2>2, <2>3, AppendFacts
  <2> QED BY <1>2, <2>1, <2>2, <2>4 DEF FrameTakenByWorker, IsPoll
<1> QED BY <1>1, <1>5, <1>6, <1>7, <1>8, <1>9 DEF Worker

LEMMA HandlerMoves ==
    ASSUME TypeInv, Handler
    PROVE  ReportTaken \/ FrameSent \/ NothingMoves
<1>1. ASSUME NEW kind, Takes(kind)
      PROVE  /\ toCoordinator # <<>> /\ toCoordinator' = Tail(toCoordinator)
             /\ Head(toCoordinator).kind = kind
             /\ UNCHANGED <<toWorker, outgoing, polls>>
  BY <1>1, ArrivedFacts DEF Takes, TypeInv, worker
<1>2. CASE HandleHello
  <2>1. Takes("HELLO") /\ UNCHANGED answered
    BY <1>2 DEF HandleHello
  <2> QED BY <1>1, <2>1 DEF ReportTaken, IsAnswer
<1>3. CASE HandleEvidence
  <2>1. Takes("WORKER_EVIDENCE") /\ UNCHANGED answered
    BY <1>3 DEF HandleEvidence
  <2> QED BY <1>1, <2>1 DEF ReportTaken, IsAnswer
<1>4. CASE HandleAck
  <2>1. Takes("ACTION_ACK") /\ UNCHANGED answered
    BY <1>4 DEF HandleAck
  <2> QED BY <1>1, <2>1 DEF ReportTaken, IsAnswer
<1>5. CASE HandleResult
  <2>1. Takes("ACTION_RESULT") /\ UNCHANGED answered
    BY <1>5 DEF HandleResult
  <2> QED BY <1>1, <2>1 DEF ReportTaken, IsAnswer
<1>6. CASE HandleQueryResponse
  <2>1. Takes("QUERY_RESPONSE") /\ answered' = answered + 1
    BY <1>6 DEF HandleQueryResponse
  <2> QED BY <1>1, <2>1 DEF ReportTaken, IsAnswer
<1>7. CASE PublishFenced \/ UpdateOwner \/ PublishOwned \/ RefuseEvidence
  BY <1>7 DEF PublishFenced, UpdateOwner, PublishOwned, RefuseEvidence, Elsewhere, worker, history,
              NothingMoves
<1>8. CASE SendReply
  <2>1. /\ Len(toWorker) < Buffer /\ toWorker' = Append(toWorker, handler.reply)
        /\ UNCHANGED <<toCoordinator, outgoing, polls, answered>>
    BY <1>8 DEF SendReply, HasRoom, worker, history
  <2>2. handler.reply \in Sent /\ ~IsPoll(handler.reply) /\ InTime(handler.reply)
    BY SentTypes DEF TypeInv, HandlerInv, IsPoll
  <2> QED BY <2>1, <2>2 DEF FrameSent
<1> QED BY <1>2, <1>3, <1>4, <1>5, <1>6, <1>7, <1>8 DEF Handler

LEMMA OtherMoves ==
    ASSUME TypeInv,
           \/ Dispatcher \/ PollWorkers \/ UNCHANGED vars
           \/ \E r \in Resources : OperatorContains(r) \/ ContainPeerLoss(r) \/ Release(r)
    PROVE  FrameSent \/ NothingMoves
<1>1. CASE PollWorkers
  <2>1. /\ Len(toWorker) < Buffer /\ toWorker' = Append(toWorker, Query) /\ polls' = polls + 1
        /\ UNCHANGED <<toCoordinator, outgoing, answered>>
    BY <1>1 DEF PollWorkers, HasRoom, worker
  <2>2. Query \in Sent /\ InTime(Query) /\ IsPoll(Query)
    BY SentTypes DEF IsPoll, Query
  <2> QED BY <2>1, <2>2 DEF FrameSent
<1>2. CASE SendDispatch
  <2> DEFINE frame == ActionDispatch(dispatcher.resource)
  <2>1. /\ UNCHANGED <<toCoordinator, outgoing, polls, answered>>
        /\ \/ Len(toWorker) < Buffer /\ toWorker' = Append(toWorker, frame)
           \/ UNCHANGED toWorker
    BY <1>2 DEF SendDispatch, Beyond, HasRoom, worker, history
  <2>2. dispatcher.resource \in Resources
    BY <1>2 DEF SendDispatch, TypeInv, DispatcherInv
  <2>3. frame \in Sent /\ InTime(frame) /\ ~IsPoll(frame)
    BY <2>2, SentTypes DEF IsPoll
  <2> HIDE DEF frame
  <2> QED BY <2>1, <2>3 DEF FrameSent, NothingMoves
<1>3. CASE BeginDispatch \/ FinishDispatch \/ AcknowledgeLocally \/ ReportLocally
  BY <1>3 DEF BeginDispatch, FinishDispatch, AcknowledgeLocally, ReportLocally, Beyond, worker,
              history, NothingMoves
<1>4. ASSUME NEW r \in Resources, OperatorContains(r) \/ ContainPeerLoss(r) \/ Release(r)
      PROVE  NothingMoves
  BY <1>4 DEF OperatorContains, ContainPeerLoss, Contain, Release, worker, history, NothingMoves
<1>5. CASE UNCHANGED vars
  BY <1>5 DEF vars, worker, history, NothingMoves
<1> QED BY <1>1, <1>2, <1>3, <1>4, <1>5 DEF Dispatcher

LEMMA Moves ==
    ASSUME TypeInv, [Next]_vars
    PROVE  ReportLeaves \/ FrameTakenByWorker \/ ReportTaken \/ FrameSent \/ NothingMoves
BY WorkerMoves, HandlerMoves, OtherMoves DEF Next

LEMMA WireStep == TypeInv /\ [Next]_vars => WireInv'
<1> SUFFICES ASSUME TypeInv, [Next]_vars PROVE WireInv'
  OBVIOUS
<1>0. /\ toWorker \in Seq(Sent) /\ toCoordinator \in Seq(Report) /\ outgoing \in Seq(Report)
      /\ Len(toWorker) <= Buffer /\ Len(toCoordinator) <= Buffer
      /\ Buffer \in Nat /\ topology \in Nat /\ topology' \in Nat /\ topology <= topology'
  BY BoundsAssumption, EngineStep DEF TypeInv, WireInv, EngineInv, Grows
<1>1. ASSUME NEW frame \in Sent, InTime(frame)
      PROVE  frame.kind = "WORKER_EVIDENCE_ACK" => frame.generation <= topology'
  <2>1. frame.kind = "WORKER_EVIDENCE_ACK" => frame.generation \in Nat
    BY <1>1 DEF Sent, Reply, Query
  <2> QED BY <1>0, <1>1, <2>1 DEF InTime
<1>2. ASSUME NEW i \in 1..Len(toWorker)
      PROVE  toWorker[i].kind = "WORKER_EVIDENCE_ACK" => toWorker[i].generation <= topology'
  <2>1. toWorker[i] \in Sent /\ InTime(toWorker[i])
    BY <1>0 DEF TypeInv, WireInv
  <2> QED BY <1>1, <2>1
<1>3. ASSUME UNCHANGED toWorker
      PROVE  /\ toWorker' \in Seq(Sent) /\ Len(toWorker') <= Buffer
             /\ \A i \in 1..Len(toWorker') : InTime(toWorker[i])'
  BY <1>0, <1>2, <1>3 DEF InTime
<1>4. CASE NothingMoves
  BY <1>0, <1>3, <1>4 DEF NothingMoves, WireInv
<1>5. CASE ReportLeaves
  <2>1. /\ outgoing # <<>> /\ Len(toCoordinator) < Buffer /\ UNCHANGED toWorker
        /\ toCoordinator' = Append(toCoordinator, Head(outgoing)) /\ outgoing' = Tail(outgoing)
    BY <1>5 DEF ReportLeaves
  <2>2. outgoing' \in Seq(Report) /\ Head(outgoing) \in Report
    BY <1>0, <2>1, TailFacts
  <2>3. toCoordinator' \in Seq(Report) /\ Len(toCoordinator') = Len(toCoordinator) + 1
        /\ Len(toCoordinator) \in Nat
    BY <1>0, <2>1, <2>2, AppendFacts
  <2>4. Len(toCoordinator') <= Buffer
    BY <1>0, <2>1, <2>3
  <2> QED BY <1>3, <2>1, <2>2, <2>3, <2>4 DEF WireInv
<1>6. CASE FrameTakenByWorker
  <2>1. /\ toWorker # <<>> /\ toWorker' = Tail(toWorker) /\ outgoing' \in Seq(Report)
        /\ UNCHANGED toCoordinator
    BY <1>6 DEF FrameTakenByWorker
  <2>2. /\ toWorker' \in Seq(Sent) /\ Len(toWorker) \in Nat /\ Len(toWorker') = Len(toWorker) - 1
        /\ \A i \in 1..(Len(toWorker) - 1) : toWorker'[i] = toWorker[i + 1]
    BY <1>0, <2>1, TailFacts
  <2>3. Len(toWorker') <= Buffer
    BY <1>0, <2>2
  <2>4. ASSUME NEW i \in 1..Len(toWorker') PROVE InTime(toWorker[i])'
    <3>1. i + 1 \in 1..Len(toWorker) /\ toWorker'[i] = toWorker[i + 1]
      BY <2>2
    <3> QED BY <1>2, <3>1 DEF InTime
  <2> QED BY <1>0, <2>1, <2>2, <2>3, <2>4 DEF WireInv
<1>7. CASE ReportTaken
  <2>1. /\ toCoordinator # <<>> /\ toCoordinator' = Tail(toCoordinator)
        /\ UNCHANGED <<toWorker, outgoing>>
    BY <1>7 DEF ReportTaken
  <2>2. /\ toCoordinator' \in Seq(Report) /\ Len(toCoordinator) \in Nat
        /\ Len(toCoordinator') = Len(toCoordinator) - 1
    BY <1>0, <2>1, TailFacts
  <2>3. Len(toCoordinator') <= Buffer
    BY <1>0, <2>2
  <2> QED BY <1>0, <1>3, <2>1, <2>2, <2>3 DEF WireInv
<1>8. CASE FrameSent
  <2>1. PICK frame \in Sent : toWorker' = Append(toWorker, frame) /\ InTime(frame)
    BY <1>8 DEF FrameSent
  <2>2. Len(toWorker) < Buffer /\ UNCHANGED <<toCoordinator, outgoing>>
    BY <1>8 DEF FrameSent
  <2>3. /\ toWorker' \in Seq(Sent) /\ Len(toWorker) \in Nat /\ Len(toWorker') = Len(toWorker) + 1
        /\ \A i \in 1..Len(toWorker) : toWorker'[i] = toWorker[i]
        /\ toWorker'[Len(toWorker) + 1] = frame
    BY <1>0, <2>1, AppendFacts
  <2>4. Len(toWorker') <= Buffer
    BY <1>0, <2>2, <2>3
  <2>5. ASSUME NEW i \in 1..Len(toWorker') PROVE InTime(toWorker[i])'
    <3>1. CASE i = Len(toWorker) + 1
      BY <1>1, <2>1, <2>3, <3>1 DEF InTime
    <3>2. CASE i # Len(toWorker) + 1
      <4>1. i \in 1..Len(toWorker)
        BY <2>3, <3>2
      <4> QED BY <1>2, <2>3, <4>1 DEF InTime
    <3> QED BY <3>1, <3>2
  <2> QED BY <1>0, <2>2, <2>3, <2>4, <2>5 DEF WireInv
<1> QED BY <1>4, <1>5, <1>6, <1>7, <1>8, Moves

-----------------------------------------------------------------------------
(* The worker's own maps, and the inputs.                                  *)
LEMMA WorkerStep == TypeInv /\ [Next]_vars => WorkerInv'
<1> SUFFICES ASSUME TypeInv, [Next]_vars PROVE WorkerInv'
  OBVIOUS
<1>0. /\ WorkerInv /\ topology \in Nat /\ topology' \in Nat /\ topology <= topology'
  BY EngineStep DEF TypeInv, EngineInv, Grows
<1>1. ASSUME UNCHANGED <<authorized, generations>>, epoch' \in BOOLEAN PROVE WorkerInv'
  <2>1. \A r \in Resources : generations[r] \in Nat /\ generations[r] <= topology
    BY <1>0 DEF WorkerInv
  <2> QED BY <1>0, <1>1, <2>1 DEF WorkerInv
<1>2. epoch \in BOOLEAN
  BY <1>0 DEF WorkerInv
<1>3. CASE WorkerSends \/ ReceiveHelloAck \/ ReceiveQuery \/ ReceiveDispatch \/ ReceiveReject
  BY <1>1, <1>2, <1>3 DEF WorkerSends, ReceiveHelloAck, ReceiveQuery, ReceiveDispatch,
                          ReceiveReject, worker
<1>4. CASE ReceiveEvidenceAck
  <2> DEFINE ack == Head(toWorker)
  <2>1. /\ Arrived(toWorker, "WORKER_EVIDENCE_ACK") /\ UNCHANGED <<epoch, engine>>
        /\ generations' = [r \in Resources |-> ack.generation]
        /\ authorized' = [r \in Resources |-> ack.granted]
    BY <1>4 DEF ReceiveEvidenceAck, WorkerReceives
  <2>2. ack \in Sent /\ ack.kind = "WORKER_EVIDENCE_ACK" /\ InTime(ack)
    BY <2>1, ArrivedFacts DEF TypeInv
  <2>3. ack.granted \in BOOLEAN /\ ack.generation \in Nat /\ ack.generation <= topology
    BY <2>2 DEF Sent, Reply, Query, InTime
  <2> HIDE DEF ack
  <2> QED BY <1>0, <1>2, <2>1, <2>3 DEF WorkerInv, engine
<1>5. CASE Handler
  <2>1. UNCHANGED worker
    BY <1>5 DEF Handler, HandleHello, HandleEvidence, PublishFenced, UpdateOwner, PublishOwned,
                RefuseEvidence, HandleAck, HandleResult, HandleQueryResponse, SendReply, Takes,
                Elsewhere
  <2> QED BY <1>1, <1>2, <2>1 DEF worker
<1>6. CASE Dispatcher \/ PollWorkers \/ UNCHANGED vars
  <2>1. UNCHANGED worker
    BY <1>6 DEF Dispatcher, BeginDispatch, SendDispatch, FinishDispatch, AcknowledgeLocally,
                ReportLocally, Beyond, PollWorkers, vars
  <2> QED BY <1>1, <1>2, <2>1 DEF worker
<1>7. ASSUME NEW r \in Resources, OperatorContains(r) \/ ContainPeerLoss(r) \/ Release(r)
      PROVE  WorkerInv'
  <2>1. UNCHANGED worker
    BY <1>7 DEF OperatorContains, ContainPeerLoss, Contain, Release
  <2> QED BY <1>1, <1>2, <2>1 DEF worker
<1> QED BY <1>3, <1>4, <1>5, <1>6, <1>7 DEF Next, Worker

LEMMA HistoryStep == TypeInv /\ [Next]_vars => HistoryInv'
<1> SUFFICES ASSUME TypeInv, [Next]_vars PROVE HistoryInv'
  OBVIOUS
<1>0. HistoryInv /\ MaxPolls \in Nat /\ MaxContainments \in Nat
  BY BoundsAssumption DEF TypeInv
<1>1. CASE Worker
  <2>1. UNCHANGED <<peer, polls, containments, answered, early>>
    BY <1>1 DEF Worker, WorkerSends, WorkerReceives, ReceiveHelloAck, ReceiveQuery,
                ReceiveEvidenceAck, ReceiveDispatch, ReceiveReject, coordinator, history
  <2>2. CASE ReceiveDispatch
    <3>1. Arrived(toWorker, "ACTION_DISPATCH") /\ stopped' = stopped \cup {Head(toWorker).resource}
      BY <2>2 DEF ReceiveDispatch, WorkerReceives
    <3>2. Head(toWorker) \in Sent /\ Head(toWorker).kind = "ACTION_DISPATCH"
      BY <3>1, ArrivedFacts DEF TypeInv
    <3>3. Head(toWorker).resource \in Resources
      BY <3>2 DEF Sent, Reply, Query
    <3> QED BY <1>0, <2>1, <3>1, <3>3 DEF HistoryInv
  <2>3. CASE ReceiveEvidenceAck
    <3>1. stopped' \in {stopped, {}}
      BY <2>3 DEF ReceiveEvidenceAck
    <3> QED BY <1>0, <2>1, <3>1 DEF HistoryInv
  <2>4. CASE WorkerSends \/ ReceiveHelloAck \/ ReceiveQuery \/ ReceiveReject
    <3>1. UNCHANGED stopped
      BY <2>4 DEF WorkerSends, ReceiveHelloAck, ReceiveQuery, ReceiveReject, history
    <3> QED BY <1>0, <2>1, <3>1 DEF HistoryInv
  <2> QED BY <1>1, <2>2, <2>3, <2>4 DEF Worker
<1>2. CASE HandleHello \/ HandleEvidence \/ HandleAck \/ HandleQueryResponse
  <2>1. /\ UNCHANGED <<polls, containments, stopped, early>>
        /\ (peer' = peer \/ peer' = TRUE) /\ answered' \in {answered, answered + 1}
    BY <1>2 DEF HandleHello, HandleEvidence, HandleAck, HandleQueryResponse, Takes
  <2>2. peer' \in BOOLEAN
    BY <1>0, <2>1 DEF HistoryInv
  <2> QED BY <1>0, <2>1, <2>2 DEF HistoryInv
<1>3. CASE HandleResult
  <2>1. /\ UNCHANGED <<peer, polls, containments, answered, stopped>>
        /\ Arrived(toCoordinator, "ACTION_RESULT")
        /\ early' \in {early, early \cup {Head(toCoordinator).resource}}
    BY <1>3 DEF HandleResult, Takes
  <2>2. Head(toCoordinator).resource \in Resources
    BY <2>1, ArrivedFacts DEF TypeInv, Report
  <2> QED BY <1>0, <2>1, <2>2 DEF HistoryInv
<1>4. CASE PublishFenced \/ UpdateOwner \/ PublishOwned \/ RefuseEvidence \/ SendReply
  <2>1. UNCHANGED <<peer, history>>
    BY <1>4 DEF PublishFenced, UpdateOwner, PublishOwned, RefuseEvidence, SendReply, Elsewhere
  <2> QED BY <1>0, <2>1 DEF HistoryInv, history
<1>5. CASE Dispatcher \/ UNCHANGED vars
  <2>1. UNCHANGED <<peer, history>>
    BY <1>5 DEF Dispatcher, BeginDispatch, SendDispatch, FinishDispatch, AcknowledgeLocally,
                ReportLocally, Beyond, vars, coordinator
  <2> QED BY <1>0, <2>1 DEF HistoryInv, history
<1>6. CASE PollWorkers
  <2>1. /\ UNCHANGED <<peer, containments, answered, stopped, early>>
        /\ polls < MaxPolls /\ polls' = polls + 1
    BY <1>6 DEF PollWorkers, coordinator
  <2> QED BY <1>0, <2>1 DEF HistoryInv
<1>7. ASSUME NEW r \in Resources, OperatorContains(r) \/ ContainPeerLoss(r)
      PROVE  HistoryInv'
  <2>1. /\ UNCHANGED <<peer, polls, answered, stopped>>
        /\ containments < MaxContainments /\ containments' = containments + 1
        /\ early' = early \ {r}
    BY <1>7 DEF OperatorContains, ContainPeerLoss, Contain
  <2> QED BY <1>0, <2>1 DEF HistoryInv
<1>8. ASSUME NEW r \in Resources, Release(r) PROVE HistoryInv'
  <2>1. UNCHANGED <<peer, history>>
    BY <1>8 DEF Release, coordinator
  <2> QED BY <1>0, <2>1 DEF HistoryInv, history
<1> QED BY <1>1, <1>2, <1>3, <1>4, <1>5, <1>6, <1>7, <1>8 DEF Next, Handler

LEMMA SessionStep == TypeInv /\ [Next]_vars => TypeInv'
BY EngineStep, WireStep, HandlerStep, DispatcherStep, WorkerStep, HistoryStep DEF TypeInv

LEMMA SessionInit == Init => TypeInv
<1> SUFFICES ASSUME Init PROVE TypeInv
  OBVIOUS
<1>1. EngineInv
  BY DEF Init, EngineInv, Record, Action, Statuses
<1>2. WireInv
  <2>1. <<Hello>> \in Seq(Report)
    <3>1. Hello \in Report
      BY DEF Hello, Report
    <3> QED BY <3>1
  <2> QED BY <2>1, BoundsAssumption DEF Init, WireInv
<1>3. HandlerInv
  BY WaitingFacts, RejectFacts DEF Init, HandlerInv, InTime
<1>4. DispatcherInv
  BY DEF Init, DispatcherInv, NoDispatch
<1>5. WorkerInv
  <2>1. epoch \in BOOLEAN /\ authorized \in [Resources -> BOOLEAN]
    BY DEF Init
  <2>2. generations = [r \in Resources |-> 0] /\ topology = 1
    BY DEF Init
  <2> QED BY <2>1, <2>2 DEF WorkerInv
<1>6. HistoryInv
  <2>1. peer \in BOOLEAN
    BY DEF Init
  <2>2. polls = 0 /\ containments = 0 /\ answered = 0 /\ stopped = {} /\ early = {}
    BY DEF Init
  <2> QED BY <2>1, <2>2, BoundsAssumption DEF HistoryInv
<1> QED BY <1>1, <1>2, <1>3, <1>4, <1>5, <1>6 DEF TypeInv

-----------------------------------------------------------------------------
(* How many frames of a kind a queue holds.                                *)
Occurrences(kind, s) == {i \in 1..Len(s) : s[i].kind = kind}
Count(kind, s) == Cardinality(Occurrences(kind, s))

LEMMA CountType ==
    ASSUME NEW S, NEW s \in Seq(S), NEW kind
    PROVE  IsFiniteSet(Occurrences(kind, s)) /\ Count(kind, s) \in Nat
<1>1. Len(s) \in Nat /\ IsFiniteSet(1..Len(s))
  BY FS_Interval
<1>2. Occurrences(kind, s) \in SUBSET (1..Len(s))
  BY DEF Occurrences
<1> QED BY <1>1, <1>2, FS_Subset, FS_CardinalityType DEF Count

LEMMA CountNone ==
    ASSUME NEW S, NEW s \in Seq(S), NEW kind, \A i \in 1..Len(s) : s[i].kind # kind
    PROVE  Count(kind, s) = 0
<1>1. Occurrences(kind, s) = {}
  BY DEF Occurrences
<1> QED BY <1>1, FS_EmptySet DEF Count

LEMMA CountAppend ==
    ASSUME NEW S, NEW s \in Seq(S), NEW x \in S, NEW kind
    PROVE  Count(kind, Append(s, x)) = IF x.kind = kind THEN Count(kind, s) + 1 ELSE Count(kind, s)
<1> DEFINE A == Occurrences(kind, s)
           t == Append(s, x)
           B == Occurrences(kind, t)
           n == Len(s) + 1
<1>1. /\ Len(t) = n /\ Len(s) \in Nat /\ \A i \in 1..Len(s) : t[i] = s[i]
      /\ t[n] = x
  BY AppendFacts
<1>2. IsFiniteSet(A)
  BY CountType
<1> HIDE DEF t
<1>3. \A i : i \in 1..Len(t) <=> i \in 1..Len(s) \/ i = n
  BY <1>1
<1>4. n \notin A
  BY <1>1 DEF Occurrences
<1>5. B = IF x.kind = kind THEN A \cup {n} ELSE A
  BY <1>1, <1>3 DEF Occurrences
<1> HIDE DEF n, A, B
<1>6. Cardinality(B) = IF x.kind = kind THEN Cardinality(A) + 1 ELSE Cardinality(A)
  BY <1>2, <1>4, <1>5, FS_AddElement
<1> QED BY <1>6 DEF Count, A, B, t

LEMMA CountTail ==
    ASSUME NEW S, NEW s \in Seq(S), s # <<>>, NEW kind
    PROVE  Count(kind, s) =
              IF Head(s).kind = kind THEN Count(kind, Tail(s)) + 1 ELSE Count(kind, Tail(s))
<1> DEFINE t == Tail(s)
           A == Occurrences(kind, t)
           B == Occurrences(kind, s)
           C == B \ {1}
           next == [i \in A |-> i + 1]
<1>1. /\ t \in Seq(S) /\ Len(s) \in Nat /\ Len(s) >= 1 /\ Len(t) = Len(s) - 1 /\ Head(s) = s[1]
      /\ \A i \in 1..(Len(s) - 1) : t[i] = s[i + 1]
  BY TailFacts
<1>2. IsFiniteSet(B)
  BY CountType
<1> HIDE DEF t
<1>3. IsFiniteSet(A) /\ Cardinality(A) \in Nat
  BY <1>1, CountType DEF Count
<1>4. ASSUME NEW i \in A PROVE i \in Nat /\ i + 1 \in C
  <2>1. i \in 1..(Len(s) - 1) /\ t[i].kind = kind
    BY <1>1 DEF Occurrences
  <2>2. i + 1 \in 1..Len(s) /\ i + 1 # 1 /\ s[i + 1].kind = kind
    BY <1>1, <2>1
  <2> QED BY <2>1, <2>2 DEF Occurrences
<1>5. ASSUME NEW j \in C PROVE \E i \in A : i + 1 = j
  <2>1. j \in 1..Len(s) /\ j # 1 /\ s[j].kind = kind
    BY DEF Occurrences
  <2>2. j - 1 \in 1..(Len(s) - 1) /\ (j - 1) + 1 = j
    BY <1>1, <2>1
  <2>3. t[j - 1].kind = kind
    BY <1>1, <2>1, <2>2
  <2> QED BY <1>1, <2>2, <2>3 DEF Occurrences
<1> HIDE DEF A, B, C
<1>6. next \in [A -> C]
  BY <1>4
<1>7. \A i, j \in A : next[i] = next[j] => i = j
  BY <1>4
<1>8. \A j \in C : \E i \in A : next[i] = j
  BY <1>5
<1>9. ExistsBijection(A, C)
  BY <1>6, <1>7, <1>8 DEF ExistsBijection, Bijection, Injection, Surjection, IsInjective
<1>10. IsFiniteSet(C) /\ Cardinality(C) = Cardinality(A)
  BY <1>3, <1>9, FS_Bijection
<1>11. 1 \in B <=> s[1].kind = kind
  BY <1>1 DEF B, Occurrences
<1>12. Cardinality(B) = IF s[1].kind = kind THEN Cardinality(A) + 1 ELSE Cardinality(A)
  <2>1. CASE 1 \in B
    <3>1. IsFiniteSet(C) /\ 1 \notin C /\ C \cup {1} = B
      BY <1>10, <2>1 DEF C
    <3>2. Cardinality(C \cup {1}) = Cardinality(C) + 1
      BY <3>1, FS_AddElement
    <3> QED BY <1>10, <1>11, <2>1, <3>1, <3>2
  <2>2. CASE 1 \notin B
    <3>1. C = B
      BY <2>2 DEF C
    <3> QED BY <1>10, <1>11, <2>2, <3>1
  <2> QED BY <2>1, <2>2
<1> QED BY <1>1, <1>12 DEF Count, A, B, t

-----------------------------------------------------------------------------
(* A poll is on its way to the worker, its answer is about to be sent, is  *)
(* on its way back, or has arrived.                                        *)
PollInv ==
    polls = answered + Count("QUERY_REQUEST", toWorker) + Count("QUERY_RESPONSE", outgoing)
               + Count("QUERY_RESPONSE", toCoordinator)

LEMMA PollStep == TypeInv /\ PollInv /\ [Next]_vars => PollInv'
<1> SUFFICES ASSUME TypeInv, PollInv, [Next]_vars PROVE PollInv'
  OBVIOUS
<1> DEFINE asked == Count("QUERY_REQUEST", toWorker)
           ready == Count("QUERY_RESPONSE", outgoing)
           back == Count("QUERY_RESPONSE", toCoordinator)
           asked2 == Count("QUERY_REQUEST", toWorker')
           ready2 == Count("QUERY_RESPONSE", outgoing')
           back2 == Count("QUERY_RESPONSE", toCoordinator')
<1>0. /\ toWorker \in Seq(Sent) /\ toCoordinator \in Seq(Report) /\ outgoing \in Seq(Report)
      /\ polls \in Nat /\ answered \in Nat
  BY DEF TypeInv, WireInv, HistoryInv
<1>1. /\ toWorker' \in Seq(Sent) /\ toCoordinator' \in Seq(Report) /\ outgoing' \in Seq(Report)
  BY WireStep DEF WireInv
<1>2. asked \in Nat /\ ready \in Nat /\ back \in Nat
  BY <1>0, CountType
<1>3. asked2 \in Nat /\ ready2 \in Nat
      /\ back2 \in Nat
  BY <1>1, CountType
<1>4. CASE NothingMoves
  BY <1>4 DEF NothingMoves, PollInv
<1>5. CASE ReportLeaves
  <2>1. /\ outgoing # <<>> /\ toCoordinator' = Append(toCoordinator, Head(outgoing))
        /\ outgoing' = Tail(outgoing) /\ UNCHANGED <<toWorker, polls, answered>>
    BY <1>5 DEF ReportLeaves
  <2>2. Head(outgoing) \in Report
    BY <1>0, <2>1, TailFacts
  <2>3. ready = IF Head(outgoing).kind = "QUERY_RESPONSE" THEN ready2 + 1
                ELSE ready2
    BY <1>0, <2>1, CountTail
  <2>4. back2 =
           IF Head(outgoing).kind = "QUERY_RESPONSE" THEN back + 1 ELSE back
    BY <1>0, <2>1, <2>2, CountAppend
  <2> HIDE DEF asked, ready, back, asked2, ready2, back2
  <2>5. ready + back = ready2 + back2
    BY <1>2, <1>3, <2>3, <2>4
  <2>6. polls = answered + asked + ready + back
    BY DEF PollInv, asked, ready, back
  <2>7. polls' = answered' + asked + ready2
                   + back2
    BY <1>0, <1>2, <1>3, <2>1, <2>5, <2>6
  <2> QED BY <2>1, <2>7 DEF PollInv, asked, ready2, back2
<1>6. CASE FrameTakenByWorker
  <2>1. /\ toWorker # <<>> /\ outgoing = <<>> /\ toWorker' = Tail(toWorker)
        /\ UNCHANGED <<toCoordinator, polls, answered>>
    BY <1>6 DEF FrameTakenByWorker
  <2>2. asked = IF IsPoll(Head(toWorker)) THEN asked2 + 1
                ELSE asked2
    BY <1>0, <2>1, CountTail DEF IsPoll
  <2>3. ready = 0
    <3>1. \A i \in 1..Len(outgoing) : outgoing[i].kind # "QUERY_RESPONSE"
      BY <2>1
    <3> QED BY <1>0, <3>1, CountNone
  <2>4. ready2 = IF IsPoll(Head(toWorker)) THEN 1 ELSE 0
    <3>1. CASE ~IsPoll(Head(toWorker))
      <4>1. \A i \in 1..Len(outgoing') : outgoing'[i].kind # "QUERY_RESPONSE"
        BY <1>6, <3>1 DEF FrameTakenByWorker, IsAnswer
      <4> QED BY <1>1, <3>1, <4>1, CountNone
    <3>2. CASE IsPoll(Head(toWorker))
      <4>1. PICK reports \in Seq(Report) :
                /\ outgoing' = Append(reports, QueryResponse)
                /\ \A i \in 1..Len(reports) : ~IsAnswer(reports[i])
        BY <1>6, <3>2 DEF FrameTakenByWorker
      <4>2. QueryResponse \in Report /\ QueryResponse.kind = "QUERY_RESPONSE"
        BY DEF QueryResponse, Report
      <4>3. Count("QUERY_RESPONSE", reports) = 0
        BY <4>1, CountNone DEF IsAnswer
      <4>4. ready2 = Count("QUERY_RESPONSE", reports) + 1
        BY <4>1, <4>2, CountAppend
      <4> QED BY <3>2, <4>3, <4>4
    <3> QED BY <3>1, <3>2
  <2> HIDE DEF asked, ready, back, asked2, ready2, back2
  <2>5. polls = answered + asked + ready + back
    BY DEF PollInv, asked, ready, back
  <2>6. polls' = answered' + asked2 + ready2
                   + back
    BY <1>0, <1>2, <1>3, <2>1, <2>2, <2>3, <2>4, <2>5
  <2> QED BY <2>1, <2>6 DEF PollInv, back, asked2, ready2
<1>7. CASE ReportTaken
  <2>1. /\ toCoordinator # <<>> /\ toCoordinator' = Tail(toCoordinator)
        /\ answered' = IF IsAnswer(Head(toCoordinator)) THEN answered + 1 ELSE answered
        /\ UNCHANGED <<toWorker, outgoing, polls>>
    BY <1>7 DEF ReportTaken
  <2>2. back = IF IsAnswer(Head(toCoordinator)) THEN back2 + 1
               ELSE back2
    BY <1>0, <2>1, CountTail DEF IsAnswer
  <2> HIDE DEF asked, ready, back, asked2, ready2, back2
  <2>3. polls = answered + asked + ready + back
    BY DEF PollInv, asked, ready, back
  <2>4. polls' = answered' + asked + ready + back2
    BY <1>0, <1>2, <1>3, <2>1, <2>2, <2>3
  <2> QED BY <2>1, <2>4 DEF PollInv, asked, ready, back2
<1>8. CASE FrameSent
  <2>1. PICK frame \in Sent :
           /\ toWorker' = Append(toWorker, frame)
           /\ polls' = IF IsPoll(frame) THEN polls + 1 ELSE polls
    BY <1>8 DEF FrameSent
  <2>2. UNCHANGED <<toCoordinator, outgoing, answered>>
    BY <1>8 DEF FrameSent
  <2>3. asked2 = IF IsPoll(frame) THEN asked + 1 ELSE asked
    BY <1>0, <2>1, CountAppend DEF IsPoll
  <2> HIDE DEF asked, ready, back, asked2, ready2, back2
  <2>4. polls = answered + asked + ready + back
    BY DEF PollInv, asked, ready, back
  <2>5. polls' = answered' + asked2 + ready + back
    BY <1>0, <1>2, <1>3, <2>1, <2>2, <2>3, <2>4
  <2> QED BY <2>2, <2>5 DEF PollInv, ready, back, asked2
<1> QED BY <1>4, <1>5, <1>6, <1>7, <1>8, Moves

LEMMA PollInit == Init => PollInv
<1> SUFFICES ASSUME Init PROVE PollInv
  OBVIOUS
<1>1. polls = 0 /\ answered = 0 /\ toWorker = <<>> /\ toCoordinator = <<>> /\ outgoing = <<Hello>>
  BY DEF Init
<1>2. Count("QUERY_REQUEST", toWorker) = 0 /\ Count("QUERY_RESPONSE", toCoordinator) = 0
  <2>1. <<>> \in Seq(Sent) /\ \A kind : \A i \in 1..Len(<<>>) : <<>>[i].kind # kind
    OBVIOUS
  <2> QED BY <1>1, <2>1, CountNone
<1>3. Count("QUERY_RESPONSE", outgoing) = 0
  <2>1. Hello \in Report /\ Hello.kind # "QUERY_RESPONSE"
    BY DEF Hello, Report
  <2>2. outgoing \in Seq(Report) /\ Len(outgoing) = 1 /\ outgoing[1] = Hello
    BY <1>1, <2>1
  <2>3. \A i \in 1..Len(outgoing) : outgoing[i].kind # "QUERY_RESPONSE"
    BY <2>1, <2>2
  <2> QED BY <2>2, <2>3, CountNone
<1> QED BY <1>1, <1>2, <1>3 DEF PollInv

(* Type correctness of the session: no poll is answered twice, no frame is *)
(* sent to a full buffer, and an action that is at the executor stays      *)
(* AUTHORIZED whatever the worker, the handler and operators do meanwhile. *)
THEOREM SessionTypeCorrect == Spec => []TypeOK
<1>1. TypeInv /\ PollInv => TypeOK
  <2> SUFFICES ASSUME TypeInv, PollInv PROVE TypeOK
    OBVIOUS
  <2>1. /\ toWorker \in Seq(Sent) /\ toCoordinator \in Seq(Report) /\ outgoing \in Seq(Report)
        /\ polls \in Nat /\ answered \in Nat
    BY DEF TypeInv, WireInv, HistoryInv
  <2>2. answered <= polls
    <3>1. /\ Count("QUERY_REQUEST", toWorker) \in Nat /\ Count("QUERY_RESPONSE", outgoing) \in Nat
          /\ Count("QUERY_RESPONSE", toCoordinator) \in Nat
      BY <2>1, CountType
    <3> QED BY <2>1, <3>1 DEF PollInv
  <2>3. \A frame \in Sent \cup Report : frame.kind \in FrameKinds
    BY DEF Sent, Reply, Report, Query, FrameKinds
  <2>4. \A channel \in {toWorker, toCoordinator} :
           /\ Len(channel) <= Buffer
           /\ \A i \in DOMAIN channel : channel[i].kind \in FrameKinds
    <3>1. \A i \in DOMAIN toWorker : toWorker[i] \in Sent
      BY <2>1
    <3>2. \A i \in DOMAIN toCoordinator : toCoordinator[i] \in Report
      BY <2>1
    <3> QED BY <2>3, <3>1, <3>2 DEF TypeInv, WireInv
  <2>5. \A r \in Resources :
           /\ record[r].generation \in Nat \ {0} /\ record[r].freshness \in {"UNKNOWN", "FRESH"}
           /\ record[r].contained \in BOOLEAN /\ record[r].owned \in BOOLEAN
           /\ action[r].status \in Statuses
           /\ action[r].topology <= topology /\ generations[r] <= topology
    BY DEF TypeInv, EngineInv, WorkerInv, Record, Action
  <2>6. /\ handler.step \in {"receive", "reply", "publish_fenced", "update", "publish"}
        /\ handler.expected <= topology
        /\ dispatcher.step \in {"idle", "begin", "send", "finish", "acknowledge", "report"}
        /\ dispatcher.step \in {"send", "finish"} =>
              action[dispatcher.resource].status = "AUTHORIZED"
    BY DEF TypeInv, HandlerInv, DispatcherInv
  <2>7. /\ peer \in BOOLEAN /\ epoch \in BOOLEAN /\ DOMAIN authorized = Resources
        /\ polls <= MaxPolls /\ containments <= MaxContainments
        /\ stopped \subseteq Resources /\ early \subseteq Resources
    BY DEF TypeInv, WorkerInv, HistoryInv
  <2> QED BY <2>2, <2>4, <2>5, <2>6, <2>7 DEF TypeOK, Statuses
<1> QED BY <1>1, SessionInit, SessionStep, PollInit, PollStep, PTL DEF Spec

-----------------------------------------------------------------------------
(* Grants.  One that the worker holds, that is on its way to it or that    *)
(* the handler is about to send carries a generation that the resource has *)
(* had, and no longer has once it is contained.                            *)
Overtaken(rec, g) ==
    /\ g # 0 /\ g <= rec.generation
    /\ rec.contained => g # rec.generation

IsGrant(frame) == frame.kind = "WORKER_EVIDENCE_ACK" /\ frame.granted

GrantsOf(r) ==
    /\ authorized[r] => Overtaken(record[r], generations[r])
    /\ \A i \in 1..Len(toWorker) : IsGrant(toWorker[i]) => Overtaken(record[r], toWorker[i].generation)
    /\ IsGrant(handler.reply) => Overtaken(record[r], handler.reply.generation)

GrantInv == \A r \in Resources : Resources = {r} => GrantsOf(r)

LEMMA OvertakenStays ==
    ASSUME EngineInv, Grows, NEW r \in Resources, NEW g \in Nat, Overtaken(record[r], g)
    PROVE  Overtaken(record'[r], g)
<1>1. record[r].generation \in Nat
  BY DEF EngineInv, Record
<1>2. record'[r] = record[r] \/ record'[r].generation = record[r].generation + 1
  BY DEF Grows
<1> QED BY <1>1, <1>2 DEF Overtaken

(* What the handler is about to send stays, or is replaced by no grant, or *)
(* by one for a resource just published, which is not contained.           *)
LEMMA HandlerGrants ==
    ASSUME TypeInv, [Next]_vars, NEW r \in Resources, Resources = {r}
    PROVE  \/ handler'.reply = handler.reply
           \/ ~IsGrant(handler'.reply)
           \/ handler'.reply.generation \in Nat /\ Overtaken(record'[r], handler'.reply.generation)
<1>0. HandlerInv
  BY DEF TypeInv
<1>1. ASSUME NEW frame, handler' = Replying(frame) PROVE handler'.reply = frame
  BY <1>1, WaitingFacts DEF Replying
<1>2. ~IsGrant(RejectFrame) /\ ~IsGrant(HelloAck) /\ Waiting.reply = RejectFrame
  BY RejectFacts, WaitingFacts DEF IsGrant
<1>3. ASSUME UNCHANGED handler PROVE handler'.reply = handler.reply
  BY <1>3
<1>4. CASE Worker \/ PollWorkers \/ UNCHANGED vars
  BY <1>4 DEF Worker, WorkerSends, WorkerReceives, ReceiveHelloAck, ReceiveQuery,
              ReceiveEvidenceAck, ReceiveDispatch, ReceiveReject, PollWorkers, coordinator, vars
<1>5. CASE Dispatcher
  BY <1>5 DEF Dispatcher, BeginDispatch, SendDispatch, FinishDispatch, AcknowledgeLocally,
              ReportLocally, Beyond
<1>6. ASSUME NEW x \in Resources, OperatorContains(x) \/ ContainPeerLoss(x) \/ Release(x)
      PROVE  handler'.reply = handler.reply
  BY <1>6 DEF OperatorContains, ContainPeerLoss, Contain, Release, coordinator
<1>7. CASE HandleHello \/ RefuseEvidence \/ HandleAck \/ HandleResult \/ HandleQueryResponse
           \/ SendReply
  <2>1. handler' = Waiting \/ handler' = Replying(RejectFrame) \/ handler' = Replying(HelloAck)
    BY <1>7 DEF HandleHello, RefuseEvidence, HandleAck, HandleResult, HandleQueryResponse, SendReply
  <2> QED BY <1>1, <1>2, <2>1
<1>8. CASE HandleEvidence
  <2>1. \/ handler' = Replying(RejectFrame)
        \/ \E step, x, g : handler' = [Waiting EXCEPT !.step = step, !.resource = x, !.expected = g]
    BY <1>8 DEF HandleEvidence
  <2>2. ASSUME NEW step, NEW x, NEW g,
               handler' = [Waiting EXCEPT !.step = step, !.resource = x, !.expected = g]
        PROVE  handler'.reply = RejectFrame
    BY <2>2, WaitingFacts
  <2> QED BY <1>1, <1>2, <2>1, <2>2
<1>9. CASE PublishFenced
  <2> DEFINE ack == EvidenceAck(FALSE, record[handler.resource].generation + 1)
  <2>1. handler' = Replying(ack)
    BY <1>9 DEF PublishFenced
  <2>2. ~ack.granted
    BY DEF EvidenceAck
  <2> HIDE DEF ack
  <2> QED BY <1>1, <2>1, <2>2 DEF IsGrant
<1>10. CASE UpdateOwner
  BY <1>0, <1>10 DEF UpdateOwner, HandlerInv
<1>11. CASE PublishOwned
  <2> DEFINE g == record[r].generation
             ack == EvidenceAck(TRUE, g + 1)
  <2>1. handler.resource = r
    BY <1>0, <1>11 DEF PublishOwned, HandlerInv
  <2>2. /\ handler.expected = g /\ ~record[r].contained
        /\ handler' = Replying(EvidenceAck(TRUE, handler.expected + 1))
    BY <1>0, <1>11, <2>1 DEF PublishOwned, IsExpected, HandlerInv
  <2>3. handler' = Replying(ack)
    BY <2>2
  <2>4. ack.generation = g + 1
    BY DEF EvidenceAck
  <2> HIDE DEF ack
  <2>5. g \in Nat
    BY DEF TypeInv, EngineInv, Record
  <2>6. PICK new \in Record :
           Written(r, new) /\ (UpdateOwner \/ (new.contained <=> record[r].contained))
    BY <1>11, <2>1, HandlerWrites
  <2>7. ~UpdateOwner
    BY <1>11 DEF PublishOwned, UpdateOwner
  <2>8. record'[r].generation = g + 1 /\ record'[r].contained = new.contained
    BY <2>6, WrittenEffect DEF TypeInv
  <2>9. ~record'[r].contained
    BY <2>2, <2>6, <2>7, <2>8
  <2>10. handler'.reply.generation = g + 1
    BY <1>1, <2>3, <2>4
  <2>11. g + 1 \in Nat /\ g + 1 # 0 /\ g + 1 <= record'[r].generation
    BY <2>5, <2>8
  <2> HIDE DEF g
  <2> QED BY <2>9, <2>10, <2>11 DEF Overtaken
<1> QED BY <1>4, <1>5, <1>6, <1>7, <1>8, <1>9, <1>10, <1>11 DEF Next, Handler

(* The worker takes grants only from acknowledgments.                      *)
LEMMA WorkerGrants ==
    ASSUME TypeInv, [Next]_vars
    PROVE  \/ UNCHANGED <<authorized, generations>>
           \/ /\ toWorker # <<>> /\ Head(toWorker).kind = "WORKER_EVIDENCE_ACK"
              /\ \A r \in Resources : authorized'[r] = Head(toWorker).granted
              /\ \A r \in Resources : generations'[r] = Head(toWorker).generation
<1>1. CASE Worker
  <2>1. CASE ReceiveEvidenceAck
    BY <2>1, ArrivedFacts DEF ReceiveEvidenceAck, WorkerReceives, TypeInv
  <2>2. CASE WorkerSends \/ ReceiveHelloAck \/ ReceiveQuery \/ ReceiveDispatch \/ ReceiveReject
    BY <2>2 DEF WorkerSends, ReceiveHelloAck, ReceiveQuery, ReceiveDispatch, ReceiveReject, worker
  <2> QED BY <1>1, <2>1, <2>2 DEF Worker
<1>2. CASE Handler
  BY <1>2 DEF Handler, HandleHello, HandleEvidence, PublishFenced, UpdateOwner, PublishOwned,
              RefuseEvidence, HandleAck, HandleResult, HandleQueryResponse, SendReply, Takes,
              Elsewhere, worker
<1>3. CASE Dispatcher \/ PollWorkers \/ UNCHANGED vars
  BY <1>3 DEF Dispatcher, BeginDispatch, SendDispatch, FinishDispatch, AcknowledgeLocally,
              ReportLocally, Beyond, PollWorkers, vars, worker
<1>4. ASSUME NEW r \in Resources, OperatorContains(r) \/ ContainPeerLoss(r) \/ Release(r)
      PROVE  UNCHANGED <<authorized, generations>>
  BY <1>4 DEF OperatorContains, ContainPeerLoss, Contain, Release, worker
<1> QED BY <1>1, <1>2, <1>3, <1>4 DEF Next

(* Where the frames in the buffer come from.                               *)
LEMMA SentFrames ==
    ASSUME TypeInv, [Next]_vars, NEW i \in 1..Len(toWorker')
    PROVE  \/ \E j \in 1..Len(toWorker) : toWorker'[i] = toWorker[j]
           \/ toWorker'[i] = handler.reply
           \/ ~IsGrant(toWorker'[i])
<1>0. toWorker \in Seq(Sent)
  BY DEF TypeInv, WireInv
<1>1. CASE UNCHANGED toWorker
  BY <1>1
<1>2. CASE Worker /\ toWorker' = Tail(toWorker) /\ toWorker # <<>>
  <2>1. /\ Len(toWorker) \in Nat /\ Len(toWorker') = Len(toWorker) - 1
        /\ \A j \in 1..(Len(toWorker) - 1) : toWorker'[j] = toWorker[j + 1]
    BY <1>0, <1>2, TailFacts
  <2>2. i + 1 \in 1..Len(toWorker) /\ toWorker'[i] = toWorker[i + 1]
    BY <2>1
  <2> QED BY <2>2
<1>3. ASSUME NEW frame \in Sent, toWorker' = Append(toWorker, frame),
             frame = handler.reply \/ ~IsGrant(frame)
      PROVE  \/ \E j \in 1..Len(toWorker) : toWorker'[i] = toWorker[j]
             \/ toWorker'[i] = handler.reply
             \/ ~IsGrant(toWorker'[i])
  <2>1. /\ Len(toWorker) \in Nat /\ Len(toWorker') = Len(toWorker) + 1
        /\ \A j \in 1..Len(toWorker) : toWorker'[j] = toWorker[j]
        /\ toWorker'[Len(toWorker) + 1] = frame
    BY <1>0, <1>3, AppendFacts
  <2>2. CASE i = Len(toWorker) + 1
    BY <1>3, <2>1, <2>2
  <2>3. CASE i # Len(toWorker) + 1
    <3>1. i \in 1..Len(toWorker)
      BY <2>1, <2>3
    <3> QED BY <2>1, <3>1
  <2> QED BY <2>2, <2>3
<1>4. CASE Worker
  <2>1. UNCHANGED toWorker \/ (toWorker' = Tail(toWorker) /\ toWorker # <<>>)
    BY <1>4, WorkerMoves DEF ReportLeaves, FrameTakenByWorker
  <2> QED BY <1>1, <1>2, <1>4, <2>1
<1>5. CASE SendReply
  <2>1. toWorker' = Append(toWorker, handler.reply)
    BY <1>5 DEF SendReply
  <2>2. handler.reply \in Sent
    BY SentTypes DEF TypeInv, HandlerInv
  <2> QED BY <1>3, <2>1, <2>2
<1>6. CASE PollWorkers
  <2>1. toWorker' = Append(toWorker, Query)
    BY <1>6 DEF PollWorkers
  <2>2. Query \in Sent /\ ~IsGrant(Query)
    BY SentTypes DEF IsGrant, Query
  <2> QED BY <1>3, <2>1, <2>2
<1>7. CASE SendDispatch
  <2>1. UNCHANGED toWorker \/ toWorker' = Append(toWorker, ActionDispatch(dispatcher.resource))
    BY <1>7 DEF SendDispatch
  <2>2. dispatcher.resource \in Resources
    BY <1>7 DEF SendDispatch, TypeInv, DispatcherInv
  <2>3. ActionDispatch(dispatcher.resource) \in Sent /\ ~IsGrant(ActionDispatch(dispatcher.resource))
    BY <2>2, SentTypes DEF IsGrant, ActionDispatch
  <2> QED BY <1>1, <1>3, <2>1, <2>3
<1>8. CASE BeginDispatch \/ FinishDispatch \/ AcknowledgeLocally \/ ReportLocally \/ UNCHANGED vars
  BY <1>1, <1>8 DEF BeginDispatch, FinishDispatch, AcknowledgeLocally, ReportLocally, vars
<1>9. CASE Handler /\ ~SendReply
  BY <1>1, <1>9 DEF Handler, HandleHello, HandleEvidence, PublishFenced, UpdateOwner, PublishOwned,
              RefuseEvidence, HandleAck, HandleResult, HandleQueryResponse, Takes, Elsewhere
<1>10. ASSUME NEW r \in Resources, OperatorContains(r) \/ ContainPeerLoss(r) \/ Release(r)
       PROVE  UNCHANGED toWorker
  BY <1>10 DEF OperatorContains, ContainPeerLoss, Contain, Release
<1> QED BY <1>1, <1>4, <1>5, <1>6, <1>7, <1>8, <1>9, <1>10 DEF Next, Dispatcher

LEMMA GrantStep == TypeInv /\ GrantInv /\ [Next]_vars => GrantInv'
<1> SUFFICES ASSUME TypeInv, GrantInv, [Next]_vars, NEW r \in Resources, Resources = {r}
             PROVE  GrantsOf(r)'
  BY DEF GrantInv
<1>0. /\ EngineInv /\ Grows /\ GrantsOf(r) /\ HandlerInv /\ WorkerInv /\ toWorker \in Seq(Sent)
  BY EngineStep DEF TypeInv, GrantInv, WireInv
<1>1. ASSUME NEW frame \in Sent, IsGrant(frame) PROVE frame.generation \in Nat
  BY <1>1 DEF Sent, Reply, Query, IsGrant
<1>2. handler.reply \in Sent
  BY <1>0, SentTypes DEF HandlerInv
<1>3. ASSUME NEW i \in 1..Len(toWorker)
      PROVE  toWorker[i] \in Sent /\ (IsGrant(toWorker[i]) => Overtaken(record'[r], toWorker[i].generation))
  BY <1>0, <1>1, OvertakenStays DEF GrantsOf
<1>4. IsGrant(handler.reply) => Overtaken(record'[r], handler.reply.generation)
  BY <1>0, <1>1, <1>2, OvertakenStays DEF GrantsOf
<1>5. authorized'[r] => Overtaken(record'[r], generations'[r])
  <2>1. CASE UNCHANGED <<authorized, generations>>
    <3>1. generations[r] \in Nat
      BY <1>0 DEF WorkerInv
    <3>2. authorized[r] => Overtaken(record[r], generations[r])
      BY <1>0 DEF GrantsOf
    <3> QED BY <1>0, <2>1, <3>1, <3>2, OvertakenStays
  <2>2. CASE /\ toWorker # <<>> /\ Head(toWorker).kind = "WORKER_EVIDENCE_ACK"
             /\ \A x \in Resources : authorized'[x] = Head(toWorker).granted
             /\ \A x \in Resources : generations'[x] = Head(toWorker).generation
    <3>1. Head(toWorker) = toWorker[1] /\ 1 \in 1..Len(toWorker)
      BY <1>0, <2>2, TailFacts
    <3>2. authorized'[r] => IsGrant(toWorker[1])
      BY <2>2, <3>1 DEF IsGrant
    <3>3. generations'[r] = toWorker[1].generation
      BY <2>2, <3>1
    <3> QED BY <1>3, <3>1, <3>2, <3>3
  <2> QED BY <2>1, <2>2, WorkerGrants
<1>6. ASSUME NEW i \in 1..Len(toWorker'), IsGrant(toWorker'[i])
      PROVE  Overtaken(record'[r], toWorker'[i].generation)
  <2>1. \/ \E j \in 1..Len(toWorker) : toWorker'[i] = toWorker[j]
        \/ toWorker'[i] = handler.reply
    BY <1>6, SentFrames
  <2>2. CASE toWorker'[i] = handler.reply
    BY <1>4, <1>6, <2>2
  <2>3. ASSUME NEW j \in 1..Len(toWorker), toWorker'[i] = toWorker[j]
        PROVE  Overtaken(record'[r], toWorker'[i].generation)
    BY <1>3, <1>6, <2>3
  <2> QED BY <2>1, <2>2, <2>3
<1>7. IsGrant(handler'.reply) => Overtaken(record'[r], handler'.reply.generation)
  BY <1>4, HandlerGrants
<1> QED BY <1>5, <1>6, <1>7 DEF GrantsOf, IsGrant

(* A worker with one resource that believes in a grant a containment has   *)
(* overtaken sends a generation that is not the current one, whatever      *)
(* acknowledgments, containments, releases and publications crossed.       *)
THEOREM StaleGrantAlwaysDetectable == Spec => []StaleGrantIsDetectable
<1>1. Init => GrantInv
  <2> SUFFICES ASSUME Init, NEW r \in Resources PROVE GrantsOf(r)
    BY DEF GrantInv
  <2>1. toWorker = <<>> /\ handler = Waiting /\ ~authorized[r]
    BY DEF Init
  <2>2. ~IsGrant(handler.reply)
    BY <2>1, RejectFacts, WaitingFacts DEF IsGrant
  <2> QED BY <2>1, <2>2 DEF GrantsOf
<1>2. TypeInv /\ GrantInv => StaleGrantIsDetectable
  BY DEF GrantInv, GrantsOf, Overtaken, StaleGrantIsDetectable
<1> QED BY <1>1, <1>2, SessionInit, SessionStep, GrantStep, PTL DEF Spec

=============================================================================
