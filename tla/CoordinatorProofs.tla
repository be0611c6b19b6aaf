------------------------- MODULE CoordinatorProofs -------------------------
(* Proofs about Coordinator, for any workers, boots, resources and connections. *)
EXTENDS Coordinator, FiniteSetTheorems, TLAPS

Gone(b) == incarnations[b].state \in {"AUTHORITY_REVOKED", "RETIRED"}

(* A thread and its call of worker_authority_lost: the call is there exactly while the
   thread is past its loop, for the boot of its handshake. *)
CallsMatch ==
    \A c \in Connections :
        /\ pc[c] = "lost" <=> calls[c].step # "idle"
        /\ pc[c] = "lost" => boot[c] \in Boots /\ calls[c].boot = boot[c]
        /\ pc[c] = "free" => boot[c] = NoBoot
        /\ pc[c] = "hello" => boot[c] \in Boots
        /\ pc[c] \in {"record", "update", "publish"} => boot[c] \in Boots /\ seen[c].resource \in Resources

(* A call that has revoked, and a loss that is contained, are about an incarnation that
   cannot hold authority again. *)
LossIsFinal ==
    /\ \A x \in Reporters : calls[x].step # "idle" => calls[x].boot \in Boots
    /\ \A x \in Reporters : calls[x].step \in {"publish", "record", "authorize"} =>
          Gone(calls[x].boot) /\ calls[x].subject \in Resources
    /\ \A b \in losses : Gone(b)

(* An evidence handler whose expected generation is still the resource's has judged the
   resource as it is. *)
JudgementIsCurrent ==
    \A c \in Connections : pc[c] = "update" =>
        /\ seen[c].generation <= resources[seen[c].resource].generation
        /\ seen[c].generation = resources[seen[c].resource].generation
              => ~IsContained(seen[c].resource)

(* An incarnation that can be ACTIVE again is current too. *)
CandidateIsCurrent ==
    \A b \in Boots : incarnations[b].state \in {"ACTIVE", "SUSPECT"} => BootIsCurrent(b)

(* A revocation that was not written is that of a current boot, or a later record follows
   the hole it left. *)
UnstagedIsCurrent ==
    /\ unstaged # {} => hole # "none"
    /\ hole # "inside" => \A b \in unstaged : BootIsCurrent(b)

IInv == /\ CandidateIsCurrent /\ UnstagedIsCurrent
        /\ TypeOK /\ CallsMatch /\ LossIsFinal /\ JudgementIsCurrent
        /\ LiveIsCurrent /\ AuthorityIsServed /\ PeerIsServed /\ ConnectionsAreCounted

-----------------------------------------------------------------------------
(* The steps of Next, grouped by what they touch. *)
NodeStep == TurnAway \/ AcceptorExits \/ StopRequested \/ CloseListener
            \/ CloseSockets \/ ShutDown
HelloStep(c, b) == RegisterFresh(c, b) \/ RegisterAgain(c, b)

LEMMA NextCases ==
    ASSUME Next
    PROVE  \/ NodeStep
           \/ \E c \in Connections : Admit(c) \/ EnterPeer(c) \/ Unregister(c)
           \/ \E c \in Connections : RecordEvidence(c) \/ UpdateOwner(c) \/ GrantAuthority(c)
                                     \/ RefuseEvidence(c)
           \/ \E c \in Connections, b \in Boots : HelloStep(c, b)
           \/ \E c \in Connections, r \in Resources : ReceiveEvidence(c, r)
           \/ \E b \in Boots : ReportLoss(b) \/ Retire(b)
           \/ \E x \in Reporters : LossCall(x)
           \/ \E r \in Resources : Fence(r) \/ Release(r)
           \/ Restart
BY DEF Next, NodeStep, HelloStep, Handler

LEMMA InitIInv == Init => IInv
<1> SUFFICES ASSUME Init PROVE IInv OBVIOUS
<1> USE WorkersAssumption, BoundsAssumption
<1>1. TypeOK /\ CallsMatch
  BY DEF Init, TypeOK, CallsMatch, Idle, NoCall, Reporters, Incarnation, ResourceRecord, Freshness,
     Evidence, Call
<1>2. LossIsFinal /\ JudgementIsCurrent
  BY DEF Init, LossIsFinal, JudgementIsCurrent, NoCall, Reporters
<1>3. LiveIsCurrent /\ AuthorityIsServed /\ PeerIsServed
  BY DEF Init, LiveIsCurrent, AuthorityIsServed, PeerIsServed, HoldsLiveAuthority
<1>5. CandidateIsCurrent /\ UnstagedIsCurrent
  BY DEF Init, CandidateIsCurrent, UnstagedIsCurrent
<1>4. ConnectionsAreCounted
  BY FS_EmptySet DEF Init, ConnectionsAreCounted
<1> QED BY <1>1, <1>2, <1>3, <1>4, <1>5 DEF IInv

-----------------------------------------------------------------------------
(* The values the steps write have their types. *)
LEMMA WrittenTypes ==
    /\ Idle \in Evidence /\ NoCall \in Call
    /\ \A b \in Boots : CallFor(b) \in Call
    /\ epoch \in Nat => Registration \in Incarnation
BY DEF Idle, NoCall, CallFor, Registration, Evidence, Freshness, Call, Incarnation

LEMMA StateTypes ==
    ASSUME NEW i \in Incarnation, NEW st \in {"AUTHORITY_REVOKED", "SUSPECT", "RETIRED"}
    PROVE  [i EXCEPT !.state = st] \in Incarnation
BY DEF Incarnation

LEMMA ResourceTypes ==
    ASSUME NEW r \in ResourceRecord
    PROVE  /\ r.state \in {"ACTIVE", "FENCED"} /\ r.freshness \in Freshness
           /\ [r EXCEPT !.freshness = "REVALIDATION_REQUIRED"] \in ResourceRecord
           /\ \A st \in {"ACTIVE", "FENCED"}, fr \in Freshness : Advanced(r, st, fr) \in ResourceRecord
           /\ "FRESH" \in Freshness /\ "REVALIDATION_REQUIRED" \in Freshness
BY DEF ResourceRecord, Freshness, Advanced

(* A call that goes on, or whose fault is or is no longer the recorded one. *)
LEMMA CallTypes ==
    ASSUME NEW call \in Call, NEW st \in {"record", "authorize"}, NEW n \in BOOLEAN
    PROVE  /\ [call EXCEPT !.step = st] \in Call
           /\ [call EXCEPT !.named = n] \in Call
           /\ [call EXCEPT !.step = st, !.named = n] \in Call
BY DEF Call

LEMMA CallFields ==
    ASSUME NEW call \in Call, NEW st, NEW n
    PROVE  /\ [call EXCEPT !.step = st].boot = call.boot
           /\ [call EXCEPT !.step = st].subject = call.subject
           /\ [call EXCEPT !.step = st].step = st
           /\ [call EXCEPT !.named = n].boot = call.boot
           /\ [call EXCEPT !.named = n].subject = call.subject
           /\ [call EXCEPT !.named = n].step = call.step
           /\ [call EXCEPT !.step = st, !.named = n].boot = call.boot
           /\ [call EXCEPT !.step = st, !.named = n].subject = call.subject
           /\ [call EXCEPT !.step = st, !.named = n].step = st
BY DEF Call

(* What PublishLoss and RecordLoss do to the calls. *)
LEMMA CallGoesOn ==
    ASSUME TypeOK, NEW x \in Reporters, PublishLoss(x) \/ RecordLoss(x), NEW y \in Reporters
    PROVE  /\ calls'[y].boot = calls[y].boot
           /\ calls'[y].subject = calls[y].subject
           /\ \/ calls'[y].step = calls[y].step
              \/ /\ calls[y].step \in {"publish", "record"}
                 /\ calls'[y].step \in {"record", "authorize"}
<1>1. calls[y] \in Call /\ calls \in [Reporters -> Call] BY DEF TypeOK
<1>2. CASE PublishLoss(x)
  <2>1. y = x => calls'[y] = [calls[y] EXCEPT !.step = "record"] /\ calls[y].step = "publish"
    BY <1>1, <1>2 DEF PublishLoss
  <2>2. y # x => calls'[y] = calls[y] BY <1>1, <1>2 DEF PublishLoss
  <2>3. CASE y = x
    <3> DEFINE next == [calls[y] EXCEPT !.step = "record"]
    <3>1. next.boot = calls[y].boot /\ next.subject = calls[y].subject /\ next.step = "record"
      BY <1>1, CallFields
    <3>2. calls'[y] = next /\ calls[y].step = "publish" BY <2>1, <2>3
    <3> HIDE DEF next
    <3> QED BY <3>1, <3>2
  <2> QED BY <2>2, <2>3
<1>3. CASE RecordLoss(x)
  <2>1. y = x => /\ calls'[y] = [calls[y] EXCEPT !.step = "authorize", !.named = TRUE]
                 /\ calls[y].step = "record"
    BY <1>3 DEF RecordLoss
  <2>2. y # x => calls'[y] = calls[y] \/ calls'[y] = [calls[y] EXCEPT !.named = FALSE]
    BY <1>3 DEF RecordLoss
  <2>3. CASE y = x
    <3> DEFINE next == [calls[y] EXCEPT !.step = "authorize", !.named = TRUE]
    <3>1. next.boot = calls[y].boot /\ next.subject = calls[y].subject /\ next.step = "authorize"
      BY <1>1, CallFields
    <3>2. calls'[y] = next /\ calls[y].step = "record" BY <2>1, <2>3
    <3> HIDE DEF next
    <3> QED BY <3>1, <3>2
  <2>4. CASE y # x
    <3> DEFINE next == [calls[y] EXCEPT !.named = FALSE]
    <3>1. next.boot = calls[y].boot /\ next.subject = calls[y].subject /\ next.step = calls[y].step
      BY <1>1, CallFields
    <3>2. calls'[y] = calls[y] \/ calls'[y] = next BY <2>2, <2>4
    <3> HIDE DEF next
    <3> QED BY <3>1, <3>2
  <2> QED BY <2>3, <2>4
<1> QED BY <1>2, <1>3

LEMMA FencedType ==
    ASSUME TypeOK, NEW rs, Fenced(rs) \/ FencedAsDead(rs)
    PROVE  resources' \in [Resources -> ResourceRecord]
<1>1. CASE Fenced(rs) BY <1>1, ResourceTypes DEF TypeOK, Fenced
<1>2. CASE FencedAsDead(rs) BY <1>2, ResourceTypes DEF TypeOK, FencedAsDead
<1> QED BY <1>1, <1>2

LEMMA RevokedType ==
    ASSUME TypeOK, NEW b, Revoked(b)
    PROVE  incarnations' \in [Boots -> Incarnation]
BY StateTypes DEF TypeOK, Revoked

LEMMA ReturnsType ==
    ASSUME TypeOK, NEW x, Returns(x)
    PROVE  /\ calls' \in [Reporters -> Call]
           /\ pc' \in [Connections -> {"free", "receive", "hello", "record", "update", "publish", "lost"}]
           /\ boot' \in [Connections -> Boots \cup {NoBoot}]
BY WrittenTypes DEF TypeOK, Returns

LEMMA JournalledType ==
    ASSUME TypeOK, Journalled
    PROVE  hole' \in {"none", "tail", "inside"}
BY DEF TypeOK, Journalled

LEMMA ActiveCounts ==
    ASSUME IInv, NEW c \in Connections, pc[c] = "receive"
    PROVE  active - 1 \in Nat
<1>1. c \in live /\ active = Cardinality(live) /\ live \subseteq Connections /\ active \in Nat
  BY DEF IInv, TypeOK, ConnectionsAreCounted
<1>2. IsFiniteSet(live) BY <1>1, BoundsAssumption, FS_Subset
<1>3. active # 0 BY <1>1, <1>2, FS_EmptySet
<1> QED BY <1>1, <1>3

LEMMA TypeStep == ASSUME IInv, Next PROVE TypeOK'
<1>0. TypeOK /\ CallsMatch /\ LossIsFinal BY DEF IInv
<1>a. \A x \in Reporters : x \in Connections \/ x = Operator BY DEF Reporters
<1>1. CASE NodeStep
  BY <1>0, <1>1 DEF NodeStep, TurnAway, AcceptorExits, StopRequested,
     CloseListener, CloseSockets, ShutDown, TypeOK, registry, journal, threads, sockets, node
<1>2. ASSUME NEW c \in Connections, Admit(c) PROVE TypeOK'
  BY <1>0, <1>2 DEF Admit, Serve, TypeOK, registry, journal, node
<1>3. ASSUME NEW c \in Connections, EnterPeer(c) PROVE TypeOK'
  BY <1>0, <1>3 DEF EnterPeer, TypeOK, CallsMatch, registry, journal, node
<1>5. ASSUME NEW c \in Connections, Unregister(c) PROVE TypeOK'
  <2>1. active - 1 \in Nat BY <1>5, ActiveCounts DEF Unregister
  <2>2. calls' \in [Reporters -> Call]
    BY <1>0, <1>5, <1>a, WrittenTypes DEF Unregister, TypeOK
  <2>3. peers' \in [Boots -> Connections \cup {NoConnection}]
    BY <1>0, <1>5 DEF Unregister, ForgetPeer, TypeOK
  <2>4. abandoned' \subseteq Boots BY <1>0, <1>5 DEF Unregister, TypeOK
  <2> QED BY <1>0, <1>5, <2>1, <2>2, <2>3, <2>4
          DEF Unregister, Uncount, TypeOK, registry, journal, node
<1>6. ASSUME NEW c \in Connections, RecordEvidence(c) \/ GrantAuthority(c) PROVE TypeOK'
  <2>1. resources' \in [Resources -> ResourceRecord]
    <3>1. seen[c].resource \in Resources BY <1>0, <1>6 DEF RecordEvidence, GrantAuthority, CallsMatch
    <3>2. PICK fr \in Freshness :
             resources' = [resources EXCEPT ![seen[c].resource] = Advanced(@, @.state, fr)]
      BY <1>6 DEF RecordEvidence, GrantAuthority, Freshness
    <3> QED BY <1>0, <3>1, <3>2, ResourceTypes DEF TypeOK
  <2> QED BY <1>0, <1>6, <2>1, JournalledType, WrittenTypes DEF RecordEvidence, GrantAuthority, Finished, TypeOK,
             sockets, node
<1>7. ASSUME NEW c \in Connections, UpdateOwner(c) PROVE TypeOK'
  <2>1. seen[c] \in Evidence /\ seen[c].resource \in Resources /\ boot[c] \in Boots
    BY <1>0, <1>7 DEF TypeOK, CallsMatch, UpdateOwner
  <2>2. resources' \in [Resources -> ResourceRecord]
    BY <1>0, <1>7, <2>1 DEF UpdateOwner, TypeOK, ResourceRecord, Freshness, Evidence
  <2>3. seen' \in [Connections -> Evidence]
    BY <1>0, <1>7, <2>1 DEF UpdateOwner, TypeOK, Evidence
  <2> QED BY <1>0, <1>7, <2>2, <2>3, JournalledType DEF UpdateOwner, TypeOK, sockets, node
<1>8. ASSUME NEW c \in Connections, RefuseEvidence(c) PROVE TypeOK'
  BY <1>0, <1>8, WrittenTypes DEF RefuseEvidence, Finished, TypeOK, registry, journal, sockets, node
<1>9. ASSUME NEW c \in Connections, NEW b \in Boots, HelloStep(c, b) PROVE TypeOK'
  <2>1. hole' \in {"none", "tail", "inside"} /\ inputs' \in Nat
    BY <1>0, <1>9, JournalledType DEF HelloStep, RegisterFresh, RegisterAgain, Hello, Arrives, TypeOK
  <2>2. incarnations' \in [Boots -> Incarnation]
    <3>1. CASE RegisterFresh(c, b)
      BY <1>0, <3>1, WrittenTypes, StateTypes DEF RegisterFresh, TypeOK
    <3>2. CASE RegisterAgain(c, b) BY <1>0, <3>2, WrittenTypes DEF RegisterAgain, TypeOK
    <3> QED BY <1>9, <3>1, <3>2 DEF HelloStep
  <2>3. resources' \in [Resources -> ResourceRecord]
    <3>1. CASE RegisterFresh(c, b) BY <1>0, <3>1, ResourceTypes DEF RegisterFresh, TypeOK
    <3>2. CASE RegisterAgain(c, b) BY <1>0, <3>2 DEF RegisterAgain, TypeOK
    <3> QED BY <1>9, <3>1, <3>2 DEF HelloStep
  <2>4. /\ current' \in [Workers -> Boots \cup {NoBoot}]
        /\ live_authority' \in [Boots -> SUBSET Resources]
    BY <1>0, <1>9 DEF HelloStep, RegisterFresh, RegisterAgain, TypeOK, OwnedBy
  <2>5. Hello(c, b) BY <1>9 DEF HelloStep, RegisterFresh, RegisterAgain
  <2>6. abandoned' \subseteq Boots BY <1>0, <2>5 DEF Hello, TypeOK
  <2> QED BY <1>0, <2>1, <2>2, <2>3, <2>4, <2>5, <2>6 DEF Hello, TypeOK, node
<1>10. ASSUME NEW c \in Connections, NEW r \in Resources, ReceiveEvidence(c, r) PROVE TypeOK'
  <2>1. seen' \in [Connections -> Evidence]
    BY <1>0, <1>10 DEF ReceiveEvidence, TypeOK, Evidence, ResourceRecord, Freshness
  <2> QED BY <1>0, <1>10, <2>1 DEF ReceiveEvidence, Arrives, TypeOK, registry, journal, sockets, node
<1>11. ASSUME NEW b \in Boots, ReportLoss(b) PROVE TypeOK'
  <2>1. calls' \in [Reporters -> Call]
    BY <1>0, <1>11, WrittenTypes DEF ReportLoss, TypeOK, Reporters
  <2> QED BY <1>0, <1>11, <2>1 DEF ReportLoss, Arrives, TypeOK, registry, journal, threads, sockets, node
<1>12. ASSUME NEW b \in Boots, Retire(b) PROVE TypeOK'
  <2>1. incarnations' \in [Boots -> Incarnation]
    BY <1>0, <1>12, StateTypes DEF Retire, TypeOK
  <2> QED BY <1>0, <1>12, <2>1, JournalledType DEF Retire, Arrives, TypeOK, threads, sockets, node
<1>13. ASSUME NEW x \in Reporters, LossCall(x) PROVE TypeOK'
  <2>1. CASE LossIgnored(x) \/ LossRefused(x)
    BY <1>0, <2>1, ReturnsType DEF LossIgnored, LossRefused, TypeOK, registry, journal,
       sockets, node
  <2>2. CASE RevokeUnbound(x)
    <3>1. unstaged' \subseteq Boots
      BY <1>0, <2>2 DEF RevokeUnbound, TypeOK, LossIsFinal
    <3> QED BY <1>0, <2>2, <3>1, ReturnsType, RevokedType DEF RevokeUnbound, TypeOK, sockets, node
  <2>3. CASE RevokeBound(x)
    <3>1. PICK s \in OwnedBy(calls[x].boot) :
             calls' = [calls EXCEPT ![x] = [step |-> "publish", boot |-> calls[x].boot,
                                            subject |-> s, named |-> FALSE]]
      BY <2>3 DEF RevokeBound
    <3>2. s \in Resources
      BY <3>1 DEF OwnedBy
    <3>3. calls' \in [Reporters -> Call]
      <4>1. [step |-> "publish", boot |-> calls[x].boot, subject |-> s, named |-> FALSE] \in Call
        BY <1>0, <2>3, <3>2 DEF LossIsFinal, RevokeBound, Call
      <4> QED BY <1>0, <3>1, <4>1 DEF TypeOK
    <3> QED BY <1>0, <2>3, <3>3, FencedType, RevokedType, JournalledType
            DEF RevokeBound, TypeOK, threads, sockets, node
  <2>4. CASE AuthorizeLoss(x)
    <3>1. losses' \subseteq Boots
      BY <1>0, <2>4 DEF AuthorizeLoss, TypeOK, LossIsFinal
    <3> QED BY <1>0, <2>4, <3>1, FencedType, ReturnsType, JournalledType
            DEF AuthorizeLoss, TypeOK, sockets, node
  <2>5. CASE PublishLoss(x)
    <3>1. calls' \in [Reporters -> Call] BY <1>0, <2>5, CallTypes DEF PublishLoss, TypeOK
    <3> QED BY <1>0, <2>5, <3>1, JournalledType DEF PublishLoss, TypeOK, threads, sockets, node
  <2>6. CASE RecordLoss(x)
    <3>1. calls' \in [Reporters -> Call] BY <1>0, <2>6, CallTypes DEF RecordLoss, TypeOK
    <3>2. losses' \subseteq Boots BY <1>0, <2>6 DEF RecordLoss, TypeOK
    <3> QED BY <1>0, <2>6, <3>1, <3>2 DEF RecordLoss, TypeOK, journal, threads, sockets, node
  <2> QED BY <1>13, <2>1, <2>2, <2>3, <2>4, <2>5, <2>6 DEF LossCall
<1>14. ASSUME NEW r \in Resources, Fence(r) PROVE TypeOK'
  BY <1>0, <1>14, FencedType, JournalledType DEF Fence, Arrives, TypeOK, threads, sockets, node
<1>15. ASSUME NEW r \in Resources, Release(r) PROVE TypeOK'
  <2>1. resources' \in [Resources -> ResourceRecord]
    BY <1>0, <1>15, ResourceTypes DEF Release, TypeOK
  <2> QED BY <1>0, <1>15, <2>1, JournalledType DEF Release, Arrives, TypeOK, threads, sockets, node
<1>16. CASE Restart
  <2>1. incarnations' \in [Boots -> Incarnation] BY <1>0, <1>16, StateTypes DEF Restart, TypeOK
  <2>2. resources' \in [Resources -> ResourceRecord]
    BY <1>0, <1>16, ResourceTypes DEF Restart, TypeOK
  <2>3. calls' \in [Reporters -> Call] /\ seen' \in [Connections -> Evidence]
    BY <1>16, WrittenTypes DEF Restart
  <2>4. /\ pc' \in [Connections -> {"free", "receive", "hello", "record", "update", "publish", "lost"}]
        /\ boot' \in [Connections -> Boots \cup {NoBoot}]
        /\ peers' \in [Boots -> Connections \cup {NoConnection}]
    BY <1>16 DEF Restart
  <2>5. live' \subseteq Connections /\ abandoned' \subseteq Boots /\ closed' \subseteq live'
    BY <1>16 DEF Restart
  <2>6. /\ epoch' \in Nat /\ inputs' \in Nat /\ active' \in Nat
        /\ current' \in [Workers -> Boots \cup {NoBoot}]
        /\ live_authority' \in [Boots -> SUBSET Resources]
    BY <1>0, <1>16 DEF Restart, TypeOK
  <2>7. /\ unstaged' \subseteq Boots /\ hole' \in {"none", "tail", "inside"} /\ losses' \subseteq Boots
        /\ acceptor' \in {"accept", "exited"}
        /\ stop' \in {"running", "stopping", "closing", "draining", "down"}
    BY <1>16 DEF Restart
  <2> QED BY <2>1, <2>2, <2>3, <2>4, <2>5, <2>6, <2>7 DEF TypeOK
<1> QED BY NextCases, <1>1, <1>2, <1>3, <1>5, <1>6, <1>7, <1>8, <1>9, <1>10, <1>11, <1>12,
           <1>13, <1>14, <1>15, <1>16

-----------------------------------------------------------------------------
LEMMA CallsMatchStep == ASSUME IInv, Next PROVE CallsMatch'
<1> USE WorkersAssumption
<1>0. TypeOK /\ CallsMatch /\ LossIsFinal BY DEF IInv
<1>1. CASE NodeStep
  BY <1>0, <1>1 DEF NodeStep, TurnAway, AcceptorExits, StopRequested,
     CloseListener, CloseSockets, ShutDown, CallsMatch, threads
<1>2. ASSUME NEW c \in Connections, Admit(c) \/ EnterPeer(c) PROVE CallsMatch'
  BY <1>0, <1>2 DEF Admit, Serve, EnterPeer, TypeOK, CallsMatch
<1>3. ASSUME NEW c \in Connections, Unregister(c) PROVE CallsMatch'
  BY <1>0, <1>3 DEF Unregister, CallFor, TypeOK, CallsMatch, Reporters
<1>4. ASSUME NEW c \in Connections, RecordEvidence(c) \/ GrantAuthority(c) \/ RefuseEvidence(c)
      PROVE  CallsMatch'
  BY <1>0, <1>4 DEF RecordEvidence, GrantAuthority, RefuseEvidence, Finished, TypeOK, CallsMatch
<1>5. ASSUME NEW c \in Connections, UpdateOwner(c) PROVE CallsMatch'
  <2>1. seen'[c].resource = seen[c].resource BY <1>0, <1>5 DEF UpdateOwner, TypeOK, Evidence
  <2> QED BY <1>0, <1>5, <2>1 DEF UpdateOwner, TypeOK, CallsMatch
<1>6. ASSUME NEW c \in Connections, NEW b \in Boots, HelloStep(c, b) PROVE CallsMatch'
  BY <1>0, <1>6 DEF HelloStep, RegisterFresh, RegisterAgain, Hello, Receiving, TypeOK, CallsMatch
<1>7. ASSUME NEW c \in Connections, NEW r \in Resources, ReceiveEvidence(c, r) PROVE CallsMatch'
  BY <1>0, <1>7 DEF ReceiveEvidence, Receiving, TypeOK, CallsMatch
<1>8. ASSUME NEW b \in Boots, ReportLoss(b) \/ Retire(b) PROVE CallsMatch'
  <2>1. \A c \in Connections : calls'[c] = calls[c]
    BY <1>0, <1>8 DEF ReportLoss, Retire, TypeOK, Reporters
  <2> QED BY <1>0, <1>8, <2>1 DEF ReportLoss, Retire, CallsMatch, threads
<1>9. ASSUME NEW x \in Reporters, LossCall(x) PROVE CallsMatch'
  <2>1. CASE LossIgnored(x) \/ LossRefused(x) \/ RevokeUnbound(x) \/ AuthorizeLoss(x)
    BY <1>0, <2>1 DEF LossIgnored, LossRefused, RevokeUnbound, AuthorizeLoss, Returns, NoCall,
       TypeOK, CallsMatch, Reporters
  <2>2. CASE RevokeBound(x)
    BY <1>0, <2>2 DEF RevokeBound, TypeOK, CallsMatch, Reporters, threads
  <2>3. CASE PublishLoss(x) \/ RecordLoss(x)
    <3>1. \A c \in Connections : /\ calls'[c].boot = calls[c].boot
                                 /\ calls'[c].step # "idle" <=> calls[c].step # "idle"
      BY <1>0, <2>3, CallGoesOn DEF Reporters
    <3> QED BY <1>0, <2>3, <3>1 DEF PublishLoss, RecordLoss, CallsMatch, threads
  <2> QED BY <1>9, <2>1, <2>2, <2>3 DEF LossCall
<1>10. ASSUME NEW r \in Resources, Fence(r) \/ Release(r) PROVE CallsMatch'
  BY <1>0, <1>10 DEF Fence, Release, CallsMatch, threads
<1>11. CASE Restart
  BY <1>0, <1>11 DEF Restart, NoCall, Reporters, CallsMatch
<1> QED BY NextCases, <1>1, <1>2, <1>3, <1>4, <1>5, <1>6, <1>7, <1>8, <1>9, <1>10, <1>11

LEMMA LossIsFinalStep == ASSUME IInv, Next PROVE LossIsFinal'
<1> USE WorkersAssumption DEF Gone
<1>0. TypeOK /\ CallsMatch /\ LossIsFinal BY DEF IInv
<1>1. CASE NodeStep
  BY <1>0, <1>1 DEF NodeStep, TurnAway, AcceptorExits, StopRequested,
     CloseListener, CloseSockets, ShutDown, LossIsFinal, registry
<1>2. ASSUME NEW c \in Connections, Admit(c) \/ EnterPeer(c) PROVE LossIsFinal'
  BY <1>0, <1>2 DEF Admit, Serve, EnterPeer, LossIsFinal, registry
<1>3. ASSUME NEW c \in Connections, Unregister(c) PROVE LossIsFinal'
  BY <1>0, <1>3 DEF Unregister, CallFor, TypeOK, LossIsFinal, Reporters, registry
<1>4. ASSUME NEW c \in Connections, RecordEvidence(c) \/ GrantAuthority(c) \/ RefuseEvidence(c) \/ UpdateOwner(c)
      PROVE  LossIsFinal'
  BY <1>0, <1>4 DEF RecordEvidence, GrantAuthority, RefuseEvidence, UpdateOwner, LossIsFinal, registry
<1>6. ASSUME NEW c \in Connections, NEW b \in Boots, HelloStep(c, b) PROVE LossIsFinal'
  <2>1. \A p \in Boots : Gone(p) => Gone(p)'
    <3>1. CASE RegisterFresh(c, b)
      BY <1>0, <3>1 DEF RegisterFresh, Registered, TypeOK, Incarnation
    <3>2. CASE RegisterAgain(c, b)
      BY <1>0, <3>2 DEF RegisterAgain, Reattaches, TypeOK, Incarnation
    <3> QED BY <1>6, <3>1, <3>2 DEF HelloStep
  <2>2. UNCHANGED <<calls, losses>> BY <1>6 DEF HelloStep, RegisterFresh, RegisterAgain, Hello
  <2> QED BY <1>0, <2>1, <2>2 DEF LossIsFinal, TypeOK
<1>7. ASSUME NEW c \in Connections, NEW r \in Resources, ReceiveEvidence(c, r) PROVE LossIsFinal'
  BY <1>0, <1>7 DEF ReceiveEvidence, LossIsFinal, registry
<1>8. ASSUME NEW b \in Boots, ReportLoss(b) PROVE LossIsFinal'
  BY <1>0, <1>8 DEF ReportLoss, CallFor, TypeOK, LossIsFinal, registry
<1>9. ASSUME NEW b \in Boots, Retire(b) PROVE LossIsFinal'
  <2>1. \A p \in Boots : Gone(p) => Gone(p)' BY <1>0, <1>9 DEF Retire, TypeOK, Incarnation
  <2> QED BY <1>0, <1>9, <2>1 DEF Retire, TypeOK, LossIsFinal
<1>10. ASSUME NEW x \in Reporters, LossCall(x) PROVE LossIsFinal'
  <2>1. CASE LossIgnored(x) \/ LossRefused(x)
    BY <1>0, <2>1 DEF LossIgnored, LossRefused, Returns, NoCall, TypeOK, LossIsFinal, registry
  <2>2. CASE RevokeUnbound(x)
    <3>1. \A p \in Boots : Gone(p) => Gone(p)' BY <1>0, <2>2 DEF RevokeUnbound, Revoked, TypeOK, Incarnation
    <3> QED BY <1>0, <2>2, <3>1 DEF RevokeUnbound, Returns, NoCall, TypeOK, LossIsFinal
  <2>3. CASE RevokeBound(x)
    <3>1. \A p \in Boots : Gone(p) => Gone(p)' BY <1>0, <2>3 DEF RevokeBound, Revoked, TypeOK, Incarnation
    <3>2. calls[x].boot \in Boots /\ Gone(calls[x].boot)'
      BY <1>0, <2>3 DEF RevokeBound, Revoked, TypeOK, Incarnation, LossIsFinal
    <3>3. PICK s \in OwnedBy(calls[x].boot) :
             calls' = [calls EXCEPT ![x] = [step |-> "publish", boot |-> calls[x].boot,
                                            subject |-> s, named |-> FALSE]]
      BY <2>3 DEF RevokeBound
    <3>4. s \in Resources BY <3>3 DEF OwnedBy
    <3>5. losses' = losses BY <2>3 DEF RevokeBound
    <3> QED BY <1>0, <3>1, <3>2, <3>3, <3>4, <3>5 DEF TypeOK, LossIsFinal
  <2>4. CASE AuthorizeLoss(x)
    BY <1>0, <2>4 DEF AuthorizeLoss, Returns, NoCall, TypeOK, LossIsFinal
  <2>5. CASE PublishLoss(x) \/ RecordLoss(x)
    <3>2. losses' \subseteq losses /\ UNCHANGED incarnations
      BY <2>5 DEF PublishLoss, RecordLoss
    <3>1.    \A y \in Reporters : /\ calls'[y].boot = calls[y].boot
                                  /\ calls'[y].subject = calls[y].subject
                                  /\ \/ calls'[y].step = calls[y].step
                                     \/ calls[y].step \in {"publish", "record"}
      BY <1>0, <2>5, CallGoesOn
    <3> QED BY <1>0, <3>1, <3>2 DEF LossIsFinal
  <2> QED BY <1>10, <2>1, <2>2, <2>3, <2>4, <2>5 DEF LossCall
<1>11. ASSUME NEW r \in Resources, Fence(r) \/ Release(r) PROVE LossIsFinal'
  BY <1>0, <1>11 DEF Fence, Release, LossIsFinal
<1>12. CASE Restart
  BY <1>0, <1>12 DEF Restart, NoCall, LossIsFinal
<1> QED BY NextCases, <1>1, <1>2, <1>3, <1>4, <1>6, <1>7, <1>8, <1>9, <1>10, <1>11, <1>12

-----------------------------------------------------------------------------
(* Resources only move forward: a step leaves the state alone or advances the generation. *)
Forward == \A r \in Resources : \/ resources'[r].generation = resources[r].generation + 1
                                \/ /\ resources'[r].generation = resources[r].generation
                                   /\ resources'[r].state = resources[r].state

(* A step that starts no judgement keeps those that are under way. *)
LEMMA JudgementKept ==
    ASSUME IInv, Forward,
           \A c \in Connections : pc'[c] = "update" => pc[c] = "update" /\ seen'[c] = seen[c]
    PROVE  JudgementIsCurrent'
<1> SUFFICES ASSUME NEW c \in Connections, pc'[c] = "update"
             PROVE  /\ seen[c].generation <= resources'[seen[c].resource].generation
                    /\ seen[c].generation = resources'[seen[c].resource].generation
                          => resources'[seen[c].resource].state # "FENCED"
  BY DEF JudgementIsCurrent, IsContained
<1>1. seen[c].resource \in Resources /\ seen[c].generation \in Nat /\ pc[c] = "update"
  BY DEF IInv, TypeOK, CallsMatch, Evidence
<1>2. \A r \in Resources : resources[r].generation \in Nat
  BY DEF IInv, TypeOK, ResourceRecord
<1>3. /\ seen[c].generation <= resources[seen[c].resource].generation
      /\ seen[c].generation = resources[seen[c].resource].generation
            => resources[seen[c].resource].state # "FENCED"
  BY <1>1 DEF IInv, JudgementIsCurrent, IsContained
<1> QED BY <1>1, <1>2, <1>3 DEF Forward

LEMMA FencedForward ==
    ASSUME IInv, NEW rs, Fenced(rs) \/ FencedAsDead(rs)
    PROVE  Forward
<1>1. CASE Fenced(rs) BY <1>1 DEF Fenced, Advanced, Forward
<1>2. CASE FencedAsDead(rs) BY <1>2 DEF FencedAsDead, Advanced, Forward
<1> QED BY <1>1, <1>2

(* The steps that write resources. *)
LEMMA WritersOfResources ==
    ASSUME Next
    PROVE
    \/ \E c \in Connections : RecordEvidence(c) \/ GrantAuthority(c) \/ UpdateOwner(c)
    \/ \E c \in Connections, b \in Boots : RegisterFresh(c, b)
    \/ \E x \in Reporters : RevokeBound(x) \/ AuthorizeLoss(x)
    \/ \E r \in Resources : Fence(r) \/ Release(r)
    \/ Restart
    \/ UNCHANGED resources
BY NextCases DEF NodeStep, TurnAway, AcceptorExits, StopRequested,
     CloseListener, CloseSockets, ShutDown, Admit, Serve, EnterPeer, Unregister,
     RefuseEvidence, HelloStep, RegisterAgain, ReceiveEvidence, ReportLoss, Retire, LossCall,
     LossIgnored, RevokeUnbound, PublishLoss, RecordLoss, LossRefused

LEMMA AlwaysForward == ASSUME IInv, Next PROVE Forward
<1>0. TypeOK /\ CallsMatch BY DEF IInv
<1>1. CASE UNCHANGED resources BY <1>1 DEF Forward
<1>2. ASSUME NEW c \in Connections, RecordEvidence(c) \/ GrantAuthority(c) PROVE Forward
  <2>1. seen[c].resource \in Resources BY <1>0, <1>2 DEF RecordEvidence, GrantAuthority, CallsMatch
  <2>2. PICK fr \in Freshness :
           resources' = [resources EXCEPT ![seen[c].resource] = Advanced(@, @.state, fr)]
    BY <1>2 DEF RecordEvidence, GrantAuthority, Freshness
  <2> QED BY <1>0, <2>1, <2>2 DEF Advanced, TypeOK, Forward
<1>3. ASSUME NEW c \in Connections, UpdateOwner(c) PROVE Forward
  <2>1. seen[c].resource \in Resources BY <1>0, <1>3 DEF UpdateOwner, CallsMatch
  <2> QED BY <1>0, <1>3, <2>1 DEF UpdateOwner, IsExpected, TypeOK, Forward
<1>4. ASSUME NEW c \in Connections, NEW b \in Boots, RegisterFresh(c, b) PROVE Forward
  BY <1>0, <1>4 DEF RegisterFresh, TypeOK, ResourceRecord, Forward
<1>5. ASSUME NEW x \in Reporters, RevokeBound(x) \/ AuthorizeLoss(x) PROVE Forward
  BY <1>5, FencedForward DEF RevokeBound, AuthorizeLoss
<1>6. ASSUME NEW r \in Resources, Fence(r) PROVE Forward
  BY <1>6, FencedForward DEF Fence
<1>7. ASSUME NEW r \in Resources, Release(r) PROVE Forward
  BY <1>0, <1>7 DEF Release, Advanced, TypeOK, Forward
<1>8. CASE Restart
  BY <1>0, <1>8 DEF Restart, TypeOK, ResourceRecord, Forward
<1> QED BY <1>1, <1>2, <1>3, <1>4, <1>5, <1>6, <1>7, <1>8, WritersOfResources

LEMMA JudgementStep == ASSUME IInv, Next PROVE JudgementIsCurrent'
<1>0. TypeOK /\ CallsMatch /\ Forward BY AlwaysForward DEF IInv
<1>1. ASSUME NEW c \in Connections, NEW r \in Resources, ReceiveEvidence(c, r)
      PROVE  JudgementIsCurrent'
  <2> SUFFICES ASSUME NEW d \in Connections, pc'[d] = "update"
               PROVE  /\ seen'[d].generation <= resources[seen'[d].resource].generation
                      /\ seen'[d].generation = resources[seen'[d].resource].generation
                            => resources[seen'[d].resource].state # "FENCED"
    BY <1>1 DEF JudgementIsCurrent, IsContained, ReceiveEvidence
  <2>1. CASE d = c
    BY <1>0, <1>1, <2>1 DEF ReceiveEvidence, IsContained, TypeOK, ResourceRecord
  <2>2. CASE d # c
    BY <1>0, <1>1, <2>2 DEF ReceiveEvidence, TypeOK, IInv, JudgementIsCurrent, IsContained
  <2> QED BY <2>1, <2>2
<1>2. CASE \A c \in Connections, r \in Resources : ~ReceiveEvidence(c, r)
  <2> DEFINE Kept == \A d \in Connections : pc'[d] = "update" => pc[d] = "update" /\ seen'[d] = seen[d]
  <2>1. ASSUME NodeStep PROVE Kept
    BY <2>1 DEF NodeStep, TurnAway, AcceptorExits, StopRequested,
       CloseListener, CloseSockets, ShutDown, threads
  <2>2. ASSUME NEW c \in Connections, Admit(c) \/ EnterPeer(c) \/ Unregister(c)
        PROVE  Kept
    BY <1>0, <2>2 DEF Admit, Serve, EnterPeer, Unregister, TypeOK
  <2>3. ASSUME NEW c \in Connections,
               RecordEvidence(c) \/ UpdateOwner(c) \/ GrantAuthority(c) \/ RefuseEvidence(c)
        PROVE  Kept
    BY <1>0, <2>3 DEF RecordEvidence, UpdateOwner, GrantAuthority, RefuseEvidence, Finished, TypeOK
  <2>4. ASSUME NEW c \in Connections, NEW b \in Boots, HelloStep(c, b) PROVE Kept
    BY <1>0, <2>4 DEF HelloStep, RegisterFresh, RegisterAgain, Hello, TypeOK
  <2>5. ASSUME NEW b \in Boots, ReportLoss(b) \/ Retire(b) PROVE Kept
    BY <2>5 DEF ReportLoss, Retire, threads
  <2>6. ASSUME NEW x \in Reporters, LossCall(x) PROVE Kept
    BY <1>0, <2>6 DEF LossCall, LossIgnored, RevokeUnbound, RevokeBound, PublishLoss, RecordLoss,
       AuthorizeLoss, LossRefused, Returns, TypeOK, threads
  <2>7. ASSUME NEW r \in Resources, Fence(r) \/ Release(r) PROVE Kept
    BY <2>7 DEF Fence, Release, threads
  <2>8. ASSUME Restart PROVE Kept
    BY <2>8 DEF Restart
  <2>9. Kept BY <1>2, NextCases, <2>1, <2>2, <2>3, <2>4, <2>5, <2>6, <2>7, <2>8
  <2> QED BY <1>0, <2>9, JudgementKept
<1> QED BY <1>1, <1>2

-----------------------------------------------------------------------------
(* Most steps leave the registry alone, or only revoke or retire. *)
NoRegistration == /\ \A b \in Boots : \/ incarnations'[b].state = incarnations[b].state
                                      \/ incarnations'[b].state \in {"AUTHORITY_REVOKED", "RETIRED"}
                  /\ UNCHANGED current

JournalGoesOn == unstaged' = {} \/ (unstaged' = unstaged /\ (Journalled \/ UNCHANGED hole))

LEMMA RegistrySteps ==
    ASSUME IInv, Next
    PROVE  \/ \E c \in Connections, b \in Boots : HelloStep(c, b)
           \/ Restart
           \/ NoRegistration /\ JournalGoesOn
           \/ NoRegistration /\ \E x \in Reporters : RevokeUnbound(x)
<1>0. TypeOK /\ LossIsFinal BY DEF IInv
<1> USE DEF NoRegistration, JournalGoesOn
<1>1. ASSUME NodeStep PROVE NoRegistration /\ JournalGoesOn
  <2>1. CASE ShutDown
    <3>1. incarnations' = incarnations /\ current' = current /\ unstaged' = {} BY <2>1 DEF ShutDown
    <3>2. NoRegistration BY <3>1
    <3>3. JournalGoesOn BY <3>1
    <3> QED BY <3>2, <3>3
  <2>2. CASE UNCHANGED registry BY <2>2 DEF registry, journal
  <2> QED BY <1>1, <2>1, <2>2 DEF NodeStep, TurnAway, AcceptorExits,
             StopRequested, CloseListener, CloseSockets
<1>2. ASSUME NEW c \in Connections, Admit(c) \/ EnterPeer(c) \/ Unregister(c)
      PROVE  NoRegistration /\ JournalGoesOn
  BY <1>2 DEF Admit, Serve, EnterPeer, Unregister, registry, journal
<1>3. ASSUME NEW c \in Connections, RecordEvidence(c) \/ UpdateOwner(c) \/ GrantAuthority(c)
      PROVE  NoRegistration /\ JournalGoesOn
  BY <1>3 DEF RecordEvidence, UpdateOwner, GrantAuthority
<1>4. ASSUME NEW c \in Connections, RefuseEvidence(c) PROVE NoRegistration /\ JournalGoesOn
  BY <1>4 DEF RefuseEvidence, registry, journal
<1>5. ASSUME NEW c \in Connections, NEW r \in Resources, ReceiveEvidence(c, r)
      PROVE  NoRegistration /\ JournalGoesOn
  BY <1>5 DEF ReceiveEvidence, registry, journal
<1>6. ASSUME NEW b \in Boots, ReportLoss(b) PROVE NoRegistration /\ JournalGoesOn
  BY <1>6 DEF ReportLoss, registry, journal
<1>7. ASSUME NEW b \in Boots, Retire(b) PROVE NoRegistration /\ JournalGoesOn
  BY <1>0, <1>7 DEF Retire, TypeOK, Incarnation
<1>8. ASSUME NEW x \in Reporters, LossIgnored(x) \/ LossRefused(x)
      PROVE  NoRegistration /\ JournalGoesOn
  BY <1>8 DEF LossIgnored, LossRefused, registry, journal
<1>9. ASSUME NEW x \in Reporters, RevokeUnbound(x) \/ RevokeBound(x) PROVE NoRegistration
  <2>1. UNCHANGED current /\ Revoked(calls[x].boot) BY <1>9 DEF RevokeUnbound, RevokeBound
  <2> QED BY <1>0, <2>1 DEF Revoked, TypeOK, Incarnation
<1>10. ASSUME NEW x \in Reporters,
              RevokeBound(x) \/ PublishLoss(x) \/ RecordLoss(x) \/ AuthorizeLoss(x)
       PROVE  JournalGoesOn
  BY <1>10 DEF RevokeBound, PublishLoss, RecordLoss, AuthorizeLoss, journal
<1>11. ASSUME NEW x \in Reporters, PublishLoss(x) \/ RecordLoss(x) \/ AuthorizeLoss(x)
       PROVE  NoRegistration
  BY <1>11 DEF PublishLoss, RecordLoss, AuthorizeLoss
<1>12. ASSUME NEW r \in Resources, Fence(r) \/ Release(r)
       PROVE  NoRegistration /\ JournalGoesOn
  BY <1>12 DEF Fence, Release
<1> HIDE DEF NoRegistration, JournalGoesOn
<1> QED BY NextCases, <1>1, <1>2, <1>3, <1>4, <1>5, <1>6, <1>7, <1>8, <1>9, <1>10, <1>11, <1>12
        DEF LossCall

LEMMA CandidateStep == ASSUME IInv, Next PROVE CandidateIsCurrent' /\ UnstagedIsCurrent'
<1> USE WorkersAssumption DEF CandidateIsCurrent, UnstagedIsCurrent, BootIsCurrent
<1>0. TypeOK /\ CandidateIsCurrent /\ UnstagedIsCurrent /\ LossIsFinal BY DEF IInv
<1>1. ASSUME NEW c \in Connections, NEW b \in Boots, RegisterFresh(c, b)
      PROVE  CandidateIsCurrent' /\ UnstagedIsCurrent'
  <2>1. ASSUME NEW p \in Boots, incarnations'[p].state \in {"ACTIVE", "SUSPECT"}
        PROVE  current'[WorkerOf[p]] = p
    <3>1. WorkerOf[p] \in Workers /\ WorkerOf[b] \in Workers OBVIOUS
    <3>2. CASE p = b BY <1>0, <1>1, <3>1, <3>2 DEF RegisterFresh, TypeOK
    <3>3. CASE p # b
      <4>1. p \notin Previous(b) /\ incarnations[p].state \in {"ACTIVE", "SUSPECT"}
        BY <1>0, <1>1, <2>1, <3>3 DEF RegisterFresh, TypeOK, Incarnation
      <4>2. p \in Registered /\ current[WorkerOf[p]] = p
        BY <1>0, <4>1 DEF Registered
      <4>3. WorkerOf[p] # WorkerOf[b] BY <3>3, <4>1, <4>2 DEF Previous
      <4> QED BY <1>0, <1>1, <3>1, <4>2, <4>3 DEF RegisterFresh, TypeOK
    <3> QED BY <3>2, <3>3
  <2>2. unstaged' = unstaged /\ hole' # "tail"
    BY <1>0, <1>1 DEF RegisterFresh, Hello, Journalled
  <2>3. unstaged # {} => hole' = "inside"
    BY <1>0, <1>1 DEF RegisterFresh, Journalled, TypeOK
  <2> QED BY <2>1, <2>2, <2>3
<1>2. ASSUME NEW c \in Connections, NEW b \in Boots, RegisterAgain(c, b)
      PROVE  CandidateIsCurrent' /\ UnstagedIsCurrent'
  <2>1. UNCHANGED <<current, unstaged>> /\ (Journalled \/ UNCHANGED hole)
    BY <1>2 DEF RegisterAgain, Hello
  <2>2. \A p \in Boots : incarnations'[p].state = incarnations[p].state \/ incarnations[p].state = "SUSPECT"
    BY <1>0, <1>2 DEF RegisterAgain, Reattaches, TypeOK
  <2> QED BY <1>0, <2>1, <2>2 DEF Journalled
<1>3. ASSUME NoRegistration, JournalGoesOn
      PROVE  CandidateIsCurrent' /\ UnstagedIsCurrent'
  BY <1>0, <1>3 DEF NoRegistration, JournalGoesOn, Journalled
<1>4. ASSUME NoRegistration, NEW x \in Reporters, RevokeUnbound(x)
      PROVE  CandidateIsCurrent' /\ UnstagedIsCurrent'
  <2>1. CandidateIsCurrent' BY <1>0, <1>4 DEF NoRegistration
  <2>2. calls[x].boot \in Boots /\ BootIsCurrent(calls[x].boot) /\ hole' # "none"
    BY <1>0, <1>4 DEF RevokeUnbound, IsNews, LossIsFinal
  <2>3. unstaged' \subseteq unstaged \cup {calls[x].boot} /\ (hole' = "inside" => hole = "inside")
    BY <1>4 DEF RevokeUnbound
  <2>4. hole = "inside" => hole' = "inside" BY <1>4 DEF RevokeUnbound
  <2> QED BY <1>0, <1>4, <2>1, <2>2, <2>3, <2>4 DEF NoRegistration
<1>5. CASE Restart
  <2>1. UNCHANGED current /\ unstaged' = {} BY <1>5 DEF Restart
  <2>2. \A p \in Boots : incarnations'[p].state \in {"ACTIVE", "SUSPECT"} => BootIsCurrent(p)
    BY <1>0, <1>5 DEF Restart, HoldsLiveAuthority, TypeOK, Incarnation
  <2> QED BY <2>1, <2>2
<1> QED BY RegistrySteps, <1>1, <1>2, <1>3, <1>4, <1>5 DEF HelloStep

-----------------------------------------------------------------------------
(* Only the end of worker_authority_lost takes a boot from a thread. *)
LEMMA ServedStep == ASSUME IInv, Next PROVE AuthorityIsServed'
<1> USE DEF AuthorityIsServed, HoldsLiveAuthority
<1>0. TypeOK /\ CallsMatch /\ LossIsFinal /\ AuthorityIsServed /\ LiveIsCurrent BY DEF IInv
<1>1. ASSUME NEW c \in Connections, NEW b \in Boots, HelloStep(c, b) PROVE AuthorityIsServed'
  <2> SUFFICES ASSUME NEW p \in Boots, incarnations'[p].state = "ACTIVE"
               PROVE  p \in abandoned' \/ \E d \in Connections : boot'[d] = p
    OBVIOUS
  <2>1. /\ boot' = [boot EXCEPT ![c] = b]
        /\ abandoned' = abandoned \cup ({boot[c]} \ {b, NoBoot})
    BY <1>1 DEF HelloStep, RegisterFresh, RegisterAgain, Hello
  <2>2. CASE p = b BY <1>0, <2>1, <2>2 DEF TypeOK
  <2>3. CASE p # b
    <3>1. incarnations[p].state = "ACTIVE"
      BY <1>0, <1>1, <2>3 DEF HelloStep, RegisterFresh, RegisterAgain, TypeOK, Incarnation
    <3>2. CASE p \in abandoned BY <2>1, <3>2
    <3>3. CASE p \notin abandoned
      <4>1. PICK d \in Connections : boot[d] = p BY <1>0, <3>1, <3>3
      <4>2. CASE d = c BY <2>1, <2>3, <4>1, <4>2, WorkersAssumption
      <4>3. CASE d # c BY <1>0, <2>1, <4>1, <4>3 DEF TypeOK
      <4> QED BY <4>2, <4>3
    <3> QED BY <3>2, <3>3
  <2> QED BY <2>2, <2>3
<1>2. ASSUME NEW x \in Reporters, Returns(x), NoRegistration, UNCHANGED sockets,
             calls[x].step # "idle" => incarnations'[calls[x].boot].state # "ACTIVE",
             calls[x].step # "idle"
      PROVE  AuthorityIsServed'
  <2> SUFFICES ASSUME NEW p \in Boots, incarnations'[p].state = "ACTIVE"
               PROVE  p \in abandoned' \/ \E d \in Connections : boot'[d] = p
    OBVIOUS
  <2>1. incarnations[p].state = "ACTIVE" /\ abandoned' = abandoned BY <1>2 DEF NoRegistration, sockets
  <2>5. CASE p \in abandoned BY <2>1, <2>5
  <2> SUFFICES ASSUME p \notin abandoned PROVE \E d \in Connections : boot'[d] = p
    BY <2>5
  <2>2. PICK d \in Connections : boot[d] = p BY <1>0, <2>1
  <2>3. CASE d = x
    BY <1>0, <1>2, <2>2, <2>3 DEF CallsMatch
  <2>4. CASE d # x BY <1>2, <2>2, <2>4 DEF Returns
  <2> QED BY <2>3, <2>4
<1>3. ASSUME NEW x \in Reporters, LossIgnored(x) PROVE AuthorityIsServed'
  <2>1. calls[x].boot \in Boots BY <1>0, <1>3 DEF LossIsFinal, LossIgnored
  <2>2. incarnations[calls[x].boot].state # "ACTIVE"
    BY <1>0, <1>3, <2>1 DEF LossIgnored, IsNews, Registered, LiveIsCurrent, LossIsFinal, Gone
  <2> QED BY <1>2, <1>3, <2>2 DEF LossIgnored, registry, NoRegistration
<1>4. ASSUME NEW x \in Reporters, RevokeUnbound(x) PROVE AuthorityIsServed'
  <2>1. calls[x].boot \in Boots BY <1>0, <1>4 DEF LossIsFinal, RevokeUnbound
  <2>2. /\ incarnations'[calls[x].boot].state # "ACTIVE"
        /\ \A b \in Boots : \/ incarnations'[b].state = incarnations[b].state
                            \/ incarnations'[b].state \in {"AUTHORITY_REVOKED", "RETIRED"}
    BY <1>0, <1>4, <2>1 DEF RevokeUnbound, Revoked, TypeOK, Incarnation
  <2> QED BY <1>2, <1>4, <2>2 DEF RevokeUnbound, NoRegistration
<1>5. ASSUME NEW x \in Reporters, AuthorizeLoss(x) \/ LossRefused(x) PROVE AuthorityIsServed'
  <2>1. incarnations[calls[x].boot].state # "ACTIVE" /\ calls[x].step # "idle"
    BY <1>0, <1>5 DEF LossIsFinal, AuthorizeLoss, LossRefused, Gone
  <2>2. Returns(x) /\ UNCHANGED <<incarnations, current, sockets>>
    BY <1>5 DEF AuthorizeLoss, LossRefused, registry
  <2> QED BY <1>2, <2>1, <2>2 DEF NoRegistration
<1>6. ASSUME UNCHANGED <<boot, abandoned>>, \A b \in Boots : incarnations'[b].state = "ACTIVE" => incarnations[b].state = "ACTIVE"
      PROVE  AuthorityIsServed'
  BY <1>0, <1>6
<1>7. ASSUME NEW x \in Reporters, RevokeBound(x) PROVE AuthorityIsServed'
  BY <1>0, <1>6, <1>7 DEF RevokeBound, Revoked, TypeOK, Incarnation, threads, sockets
<1>8. CASE Restart
  BY <1>0, <1>8 DEF Restart, TypeOK, Incarnation
<1>9. ASSUME NEW b \in Boots, Retire(b) PROVE AuthorityIsServed'
  BY <1>0, <1>6, <1>9 DEF Retire, TypeOK, Incarnation, threads, sockets
<1>12. ASSUME NEW c \in Connections, EnterPeer(c) \/ Unregister(c) PROVE AuthorityIsServed'
  <2>1. UNCHANGED <<boot, incarnations>> /\ abandoned' = abandoned \ {boot[c]}
    BY <1>12 DEF EnterPeer, Unregister, registry
  <2> QED BY <1>0, <2>1
<1>13. ASSUME NEW x \in Reporters, PublishLoss(x) \/ RecordLoss(x) PROVE AuthorityIsServed'
  BY <1>6, <1>13 DEF PublishLoss, RecordLoss, threads, sockets
<1>10. CASE UNCHANGED <<boot, abandoned, incarnations>>
  BY <1>6, <1>10
<1>11. \/ UNCHANGED <<boot, abandoned, incarnations>>
       \/ \E c \in Connections : EnterPeer(c) \/ Unregister(c)
       \/ \E c \in Connections, b \in Boots : HelloStep(c, b)
       \/ \E x \in Reporters : LossCall(x)
       \/ \E b \in Boots : Retire(b)
       \/ Restart
  BY NextCases DEF NodeStep, TurnAway, AcceptorExits, StopRequested,
     CloseListener, CloseSockets, ShutDown, Admit, Serve,
     RecordEvidence, UpdateOwner, GrantAuthority, RefuseEvidence, ReceiveEvidence, ReportLoss,
     Fence, Release, registry, threads, sockets
<1> QED BY <1>1, <1>3, <1>4, <1>5, <1>7, <1>8, <1>9, <1>10, <1>11, <1>12, <1>13 DEF LossCall

-----------------------------------------------------------------------------
(* Sockets *)
LEMMA SocketStep == ASSUME IInv, Next PROVE PeerIsServed' /\ ConnectionsAreCounted'
<1> DEFINE Good == PeerIsServed /\ ConnectionsAreCounted
<1>0. TypeOK /\ CallsMatch /\ PeerIsServed /\ ConnectionsAreCounted /\ LossIsFinal BY DEF IInv
<1>a. IsFiniteSet(live) BY <1>0, BoundsAssumption, FS_Subset DEF TypeOK
<1>1. ASSUME NEW c \in Connections, Admit(c) PROVE Good'
  <2>1. c \notin live BY <1>0, <1>1 DEF Admit, Serve, ConnectionsAreCounted
  <2>2. Cardinality(live \cup {c}) = Cardinality(live) + 1 BY <1>a, <2>1, FS_AddElement
  <2>3. PeerIsServed' BY <1>0, <1>1 DEF Admit, Serve, PeerIsServed
  <2>4. live' = {d \in Connections : pc'[d] \notin {"free", "lost"}}
    BY <1>0, <1>1 DEF Admit, Serve, ConnectionsAreCounted, TypeOK
  <2>5. active' <= MaxConnections
    BY <1>0, <1>1, BoundsAssumption DEF Admit, Serve, TypeOK
  <2> QED BY <1>0, <1>1, <2>2, <2>3, <2>4, <2>5 DEF Admit, Serve, ConnectionsAreCounted
<1>2. ASSUME NEW c \in Connections, Unregister(c) PROVE Good'
  <2>1. c \in live BY <1>0, <1>2 DEF Unregister, ConnectionsAreCounted
  <2>2. Cardinality(live \ {c}) = Cardinality(live) - 1 BY <1>a, <2>1, FS_RemoveElement
  <2>3. PeerIsServed'
    BY <1>0, <1>2, WorkersAssumption DEF Unregister, ForgetPeer, PeerIsServed, TypeOK
  <2>4. live' = {d \in Connections : pc'[d] \notin {"free", "lost"}}
    BY <1>0, <1>2 DEF Unregister, ConnectionsAreCounted, TypeOK
  <2>5. active' <= MaxConnections
    <3>1. active <= MaxConnections /\ active \in Nat BY <1>0 DEF ConnectionsAreCounted, TypeOK
    <3>2. active' = active - 1 BY <1>2 DEF Unregister, Uncount
    <3> QED BY <3>1, <3>2, BoundsAssumption
  <2> QED BY <1>0, <1>2, <2>2, <2>3, <2>4, <2>5 DEF Unregister, Uncount, ConnectionsAreCounted
<1>3. ASSUME NEW c \in Connections, EnterPeer(c) PROVE Good'
  BY <1>0, <1>3 DEF EnterPeer, PeerIsServed, ConnectionsAreCounted, CallsMatch, TypeOK
<1>5. ASSUME NEW c \in Connections,
             RecordEvidence(c) \/ UpdateOwner(c) \/ GrantAuthority(c) \/ RefuseEvidence(c)
      PROVE  Good'
  BY <1>0, <1>5 DEF RecordEvidence, UpdateOwner, GrantAuthority, RefuseEvidence, Finished,
     PeerIsServed, ConnectionsAreCounted, TypeOK, sockets
<1>6. ASSUME NEW c \in Connections, NEW r \in Resources, ReceiveEvidence(c, r) PROVE Good'
  BY <1>0, <1>6 DEF ReceiveEvidence, Receiving, PeerIsServed, ConnectionsAreCounted, TypeOK, sockets
<1>7. ASSUME NEW c \in Connections, NEW b \in Boots, HelloStep(c, b) PROVE Good'
  <2>1. Hello(c, b) BY <1>7 DEF HelloStep, RegisterFresh, RegisterAgain
  <2>2. /\ UNCHANGED <<live, active, peers>>
        /\ boot' = [boot EXCEPT ![c] = b]
        /\ abandoned' = abandoned \cup ({boot[c]} \ {b, NoBoot})
        /\ pc[c] = "receive" /\ pc' = [pc EXCEPT ![c] = "hello"]
    BY <2>1 DEF Hello, Receiving
  <2>3. PeerIsServed' BY <1>0, <2>2, WorkersAssumption DEF PeerIsServed, TypeOK
  <2> QED BY <1>0, <2>2, <2>3 DEF ConnectionsAreCounted, TypeOK
<1>8. ASSUME NEW x \in Reporters, calls[x].step # "idle", Returns(x), UNCHANGED sockets PROVE Good'
  <2>1. x \in Connections => pc[x] = "lost" /\ x \notin live
    BY <1>0, <1>8 DEF CallsMatch, ConnectionsAreCounted
  <2>2. UNCHANGED <<live, active, peers, abandoned>> BY <1>8 DEF sockets
  <2>3. PeerIsServed' BY <1>0, <1>8, <2>1, <2>2 DEF Returns, PeerIsServed, TypeOK
  <2>4. ConnectionsAreCounted'
    BY <1>0, <1>8, <2>1, <2>2 DEF Returns, ConnectionsAreCounted, TypeOK
  <2> QED BY <2>3, <2>4
<1>9. ASSUME UNCHANGED <<pc, boot, live, active, peers, abandoned>> PROVE Good'
  BY <1>0, <1>9 DEF PeerIsServed, ConnectionsAreCounted
<1>10. ASSUME NEW x \in Reporters, LossCall(x) PROVE Good'
  <2>1. CASE RevokeBound(x) \/ PublishLoss(x) \/ RecordLoss(x)
    BY <1>9, <2>1 DEF RevokeBound, PublishLoss, RecordLoss, threads, sockets
  <2>2. CASE ~(RevokeBound(x) \/ PublishLoss(x) \/ RecordLoss(x))
    BY <1>8, <1>10, <2>2 DEF LossCall, LossIgnored, RevokeUnbound, AuthorizeLoss, LossRefused
  <2> QED BY <2>1, <2>2
<1>11. CASE Restart
  BY <1>11, FS_EmptySet, BoundsAssumption DEF Restart, PeerIsServed, ConnectionsAreCounted
<1>12. ASSUME NodeStep \/ (\E b \in Boots : ReportLoss(b) \/ Retire(b))
              \/ \E r \in Resources : Fence(r) \/ Release(r)
       PROVE  UNCHANGED <<pc, boot, live, active, peers, abandoned>>
  BY <1>12 DEF NodeStep, TurnAway, AcceptorExits, StopRequested,
     CloseListener, CloseSockets, ShutDown, ReportLoss, Retire, Fence, Release, threads, sockets
<1> QED BY NextCases, <1>1, <1>2, <1>3, <1>5, <1>6, <1>7, <1>9, <1>10, <1>11, <1>12

-----------------------------------------------------------------------------
LEMMA IInvStep == IInv /\ [Next]_vars => IInv'
<1>1. ASSUME IInv, Next PROVE IInv'
  <2>1. LiveIsCurrent'
    BY <1>1, CandidateStep DEF CandidateIsCurrent, LiveIsCurrent, HoldsLiveAuthority
  <2> QED BY <1>1, <2>1, TypeStep, CallsMatchStep, LossIsFinalStep, JudgementStep, CandidateStep,
             ServedStep, SocketStep DEF IInv
<1>2. ASSUME IInv, UNCHANGED vars PROVE IInv'
  <2> USE <1>2 DEF vars, registry, journal, threads, sockets, node, IInv
  <2>1. TypeOK' BY DEF TypeOK
  <2>2. CallsMatch' /\ LossIsFinal' BY DEF CallsMatch, LossIsFinal, Gone
  <2>3. JudgementIsCurrent' BY DEF JudgementIsCurrent, IsContained
  <2>4. CandidateIsCurrent' /\ UnstagedIsCurrent'
    BY DEF CandidateIsCurrent, UnstagedIsCurrent, BootIsCurrent
  <2>5. LiveIsCurrent' /\ AuthorityIsServed'
    BY DEF LiveIsCurrent, HoldsLiveAuthority, BootIsCurrent, AuthorityIsServed
  <2>6. PeerIsServed' /\ ConnectionsAreCounted' BY DEF PeerIsServed, ConnectionsAreCounted
  <2> QED BY <2>1, <2>2, <2>3, <2>4, <2>5, <2>6
<1> QED BY <1>1, <1>2

LEMMA Invariance == Spec => []IInv
BY InitIInv, IInvStep, PTL DEF Spec

(* A fenced resource is written ACTIVE only by authorize_release, or by an evidence handler
   whose judgement is current, and that one has not seen a fenced resource. *)
LEMMA FenceStep ==
    ASSUME IInv, [Next]_vars, NEW r \in Resources, IsContained(r), ~IsContained(r)'
    PROVE  Release(r)
<1>0. TypeOK /\ CallsMatch /\ JudgementIsCurrent BY DEF IInv
<1>1. resources[r].state = "FENCED" /\ resources'[r].state # "FENCED" BY DEF IsContained
<1>2. Next BY <1>1 DEF vars
<1>3. ASSUME NEW c \in Connections, RecordEvidence(c) \/ GrantAuthority(c) PROVE FALSE
  <2>1. seen[c].resource \in Resources BY <1>0, <1>3 DEF RecordEvidence, GrantAuthority, CallsMatch
  <2>2. PICK fr \in Freshness :
           resources' = [resources EXCEPT ![seen[c].resource] = Advanced(@, @.state, fr)]
    BY <1>3 DEF RecordEvidence, GrantAuthority, Freshness
  <2> QED BY <1>0, <1>1, <2>1, <2>2 DEF Advanced, TypeOK
<1>4. ASSUME NEW c \in Connections, UpdateOwner(c) PROVE FALSE
  <2>1. seen[c].resource \in Resources /\ resources[seen[c].resource].state # "FENCED"
    BY <1>0, <1>4 DEF UpdateOwner, IsExpected, CallsMatch, JudgementIsCurrent, IsContained
  <2> QED BY <1>0, <1>1, <1>4, <2>1 DEF UpdateOwner, TypeOK
<1>5. ASSUME NEW c \in Connections, NEW b \in Boots, RegisterFresh(c, b) PROVE FALSE
  BY <1>0, <1>1, <1>5 DEF RegisterFresh, TypeOK, ResourceRecord
<1>6. ASSUME NEW x \in Reporters, RevokeBound(x) \/ AuthorizeLoss(x) PROVE FALSE
  BY <1>1, <1>6 DEF RevokeBound, AuthorizeLoss, Fenced, FencedAsDead, Advanced
<1>7. ASSUME NEW s \in Resources, Fence(s) PROVE FALSE
  BY <1>1, <1>7 DEF Fence, Fenced, Advanced
<1>8. ASSUME NEW s \in Resources, Release(s), s # r PROVE FALSE
  BY <1>0, <1>1, <1>8 DEF Release, TypeOK
<1>9. ASSUME Restart PROVE FALSE
  BY <1>0, <1>1, <1>9 DEF Restart, TypeOK, ResourceRecord
<1>10. \/ \E c \in Connections : RecordEvidence(c) \/ GrantAuthority(c) \/ UpdateOwner(c)
       \/ \E c \in Connections, b \in Boots : RegisterFresh(c, b)
       \/ \E x \in Reporters : RevokeBound(x) \/ AuthorizeLoss(x)
       \/ \E s \in Resources : Fence(s) \/ Release(s)
       \/ Restart
       \/ UNCHANGED resources
  BY <1>2, WritersOfResources
<1> QED BY <1>1, <1>3, <1>4, <1>5, <1>6, <1>7, <1>8, <1>9, <1>10

-----------------------------------------------------------------------------
(* The types of every variable, for any number of workers, connections and resources. *)
THEOREM TypeCorrect == Spec => []TypeOK
BY Invariance, PTL DEF IInv

(* register_worker, worker_authority_lost, retire_worker and begin_epoch together never
   leave a worker with two incarnations that hold live authority. *)
THEOREM OneLiveIncarnation == Spec => []LiveIsCurrent
BY Invariance, PTL DEF IInv

(* No incarnation keeps its authority once no thread speaks for it, but one whose connection
   went on to a HELLO for another boot. *)
THEOREM DeathIsNoticed == Spec => []AuthorityIsServed
BY Invariance, PTL DEF IInv

(* SocketExecutor and poll-workers find only registered sockets of the right boot, but for a
   boot whose connection went on to a HELLO for another one. *)
THEOREM PeersAreServed == Spec => []PeerIsServed
BY Invariance, PTL DEF IInv

(* active_connections is the number of registered sockets and within the limit. *)
THEOREM ConnectionsCounted == Spec => []ConnectionsAreCounted
BY Invariance, PTL DEF IInv

(* The optimistic generation check of update_resource is enough to keep a fence. *)
THEOREM FencesHold == Spec => FenceHolds
<1>1. IInv /\ [Next]_vars => [\A r \in Resources : IsContained(r) /\ ~IsContained(r)' => Release(r)]_vars
  BY FenceStep
<1> QED BY <1>1, Invariance, PTL DEF Spec, FenceHolds

=============================================================================
