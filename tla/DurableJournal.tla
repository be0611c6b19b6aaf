--------------------------- MODULE DurableJournal ---------------------------
(***************************************************************************)
(* The durability protocol of the coordinator: how a mutation is staged    *)
(* under the engine's state lock, appended and flushed to the write-ahead  *)
(* journal outside that lock, how a snapshot replaces the journal, and how *)
(* a restart rebuilds the state and advances the coordinator epoch.        *)
(* Sources: src/engine.cpp (stage, flush, persist_snapshot,                *)
(* recover_from_store, begin_epoch) and src/persistence.cpp (DurableStore).*)
(*                                                                         *)
(* A journal record is reduced to its sequence number, the process run     *)
(* that staged it (so that two records which reuse one sequence number are *)
(* told apart) and, for a COUNTERS record, the coordinator epoch it        *)
(* carries.  The engine's state is the set of records it reflects.         *)
(*                                                                         *)
(* Durable records are given up in two ways: a start that takes a torn     *)
(* record for the end of the journal swallows those behind it, and a       *)
(* snapshot that is older than what it replaces overwrites the rest.  The  *)
(* history variables swallowed and overwritten collect them.               *)
(***************************************************************************)
EXTENDS Integers, FiniteSets

CONSTANTS
    Threads,          \* threads that mutate the engine (connection handlers)
    Main,             \* the thread that recovers the store before serving
    SnapshotThreads,  \* threads that may call persist_snapshot
    MaxSequence,      \* bound: no mutation is staged beyond this sequence
    MaxBatch,         \* bound: records staged by one mutation
    MaxFailures,      \* bound: journal or snapshot writes that fail
    MaxRuns,          \* bound: times the coordinator process starts
    TornUnits         \* how many later records a torn record may swallow
                      \* before its declared length is filled; {} = no tearing

ASSUME ThreadAssumption == /\ Main \in Threads
                           /\ SnapshotThreads \subseteq Threads
ASSUME BoundAssumption  == /\ {MaxSequence, MaxFailures, MaxRuns} \subseteq Nat
                           /\ MaxBatch \in Nat \ {0}
                           /\ TornUnits \subseteq Nat \ {0}

VARIABLES
    phase,      \* of the process: "down", "marking", "epoch", "running", "refused"
    run,        \* number of the current (or last) process run
    sequence,   \* Impl::durable_sequence
    document,   \* the records Impl::state reflects
    pc,         \* per thread: what it is doing
    pending,    \* per thread: staged records not yet appended
    batch,      \* per thread: all the records of the mutation being flushed
    copied,     \* per thread: the document persist_snapshot copied
    snapshot,   \* state.fcfsnap on disk
    journal,    \* the readable records of journal.fcf
    torn,       \* 0, or how many records fill the torn record in journal.fcf
    behind,     \* the records appended after the torn record
    acked,      \* records of mutations acknowledged to a caller
    healthy,    \* Impl::durability_healthy
    served,     \* the <<run, epoch>> pairs this store has been served under
    failures,   \* number of failed writes so far
    dropped,    \* records this run staged and never tried to append
    swallowed,  \* records a start left behind a torn record
    overwritten \* records a snapshot or its truncation took off the disk

memory == <<phase, run, sequence, document, healthy>>
flushes == <<pc, pending, batch, copied>>
disk == <<snapshot, journal, torn, behind>>
losses == <<swallowed, overwritten>>
ghosts == <<acked, served, failures, dropped, losses>>
vars == <<phase, run, sequence, document, healthy, pc, pending, batch, copied,
          snapshot, journal, torn, behind, acked, served, failures, dropped,
          swallowed, overwritten>>

InitialEpoch == 1
NoEpoch == 0
Record == [seq : Nat \ {0}, run : Nat, epoch : Nat]
Snapshot == [sequence : Nat, document : SUBSET Record]
NoSnapshot == [sequence |-> 0, document |-> {}]
Phases == {"down", "marking", "epoch", "running", "refused"}
ThreadStates == {"idle", "flushing", "copied", "truncating"}

-----------------------------------------------------------------------------
(* Mutation of EpochOf: the oldest COUNTERS record wins.                    *)
EpochOfOldest(doc) ==
    LET counters == {r \in doc : r.epoch # NoEpoch}
    IN  IF counters = {} THEN InitialEpoch
        ELSE (CHOOSE r \in counters : \A q \in counters : r.seq <= q.seq).epoch

(* The epoch a state carries: the one in its latest COUNTERS record.       *)
EpochOf(doc) ==
    LET counters == {r \in doc : r.epoch # NoEpoch}
    IN  IF counters = {} THEN InitialEpoch
        ELSE (CHOOSE r \in counters : \A q \in counters : q.seq <= r.seq).epoch

(* stage(): n records take the next n sequence numbers, the last of them   *)
(* the COUNTERS record with the epoch in force.                            *)
Staged(n, from, owner, epoch) ==
    {[seq |-> from + i, run |-> owner, epoch |-> IF i = n THEN epoch ELSE NoEpoch] :
        i \in 1..n}

StageBy(t, n, from, owner, base, epoch) ==
    LET records == Staged(n, from, owner, epoch)
    IN  /\ sequence' = from + n
        /\ document' = base \cup records
        /\ pending'  = [pending EXCEPT ![t] = records]
        /\ batch'    = [batch EXCEPT ![t] = records]
        /\ pc'       = [pc EXCEPT ![t] = "flushing"]

(* flush() walks the staged records in sequence order.                     *)
NextWrite(t) == CHOOSE r \in pending[t] : \A q \in pending[t] : r.seq <= q.seq

(* DurableStore::mutex_: save_snapshot holds it from the replacement of    *)
(* the snapshot to the truncation of the journal.                          *)
StoreFree == \A u \in Threads : pc[u] # "truncating"

(* Mutation of Ready: the main thread never flushes its epoch record.      *)
ReadyBeforeEpoch(t) == phase = "running" \/ (t = Main /\ phase = "marking")

Ready(t) == phase = "running" \/ (t = Main /\ phase \in {"marking", "epoch"})

-----------------------------------------------------------------------------
(* What DurableStore::recover reads back.                                  *)
Replayed == {r \in journal : r.seq > snapshot.sequence}

(* A torn record whose declared length is filled by later bytes fails its  *)
(* checksum.                                                               *)
TornFilled == torn # 0 /\ Cardinality(behind) >= torn

(* The gap check: each replayed sequence is the successor of the previous  *)
(* one, which starts as the snapshot's sequence; a previous sequence of 0  *)
(* is not compared, so a journal without snapshot may start anywhere.      *)
Gap == \E r \in Replayed :
          \/ \E q \in Replayed : q # r /\ q.seq = r.seq
          \/ /\ \A q \in Replayed : q.seq # r.seq - 1
             /\ \/ \E q \in Replayed : q.seq < r.seq
                \/ snapshot.sequence \notin {0, r.seq - 1}

Readable == ~TornFilled /\ ~Gap

Recovered == snapshot.document \cup Replayed

(* Mutation of LastSequence: only the snapshot's sequence is restored.     *)
LastSequenceOfSnapshot == snapshot.sequence

LastSequence ==
    IF Replayed = {} THEN snapshot.sequence
    ELSE CHOOSE n \in {r.seq : r \in Replayed} : \A r \in Replayed : r.seq <= n

-----------------------------------------------------------------------------
Init ==
    /\ phase = "down" /\ run = 0 /\ sequence = 0 /\ document = {} /\ healthy = TRUE
    /\ pc = [t \in Threads |-> "idle"]
    /\ pending = [t \in Threads |-> {}]
    /\ batch = [t \in Threads |-> {}]
    /\ copied = [t \in Threads |-> NoSnapshot]
    /\ snapshot = NoSnapshot /\ journal = {} /\ torn = 0 /\ behind = {}
    /\ acked = {} /\ served = {} /\ failures = 0
    /\ dropped = {} /\ swallowed = {} /\ overwritten = {}

(* A mutating call: the state changes and its records are staged under the *)
(* exclusive state lock; the flush follows after the lock is released.     *)
Mutate(t) ==
    /\ phase = "running" /\ pc[t] = "idle"
    /\ \E n \in 1..MaxBatch :
          /\ sequence + n <= MaxSequence
          /\ StageBy(t, n, sequence, run, document, EpochOf(document))
    /\ UNCHANGED <<phase, run, healthy, copied, disk, ghosts>>

(* worker_authority_lost for a boot that owns no resource: the revoked     *)
(* worker is staged, and the call returns an error without a flush.        *)
StageAndDrop(t) ==
    /\ phase = "running" /\ pc[t] = "idle" /\ sequence < MaxSequence
    /\ LET records == Staged(1, sequence, run, NoEpoch)
       IN  /\ document' = document \cup records
           /\ dropped' = dropped \cup records
    /\ sequence' = sequence + 1
    /\ UNCHANGED <<phase, run, healthy, flushes, disk, acked, served, failures, losses>>

(* append_record: written and flushed under the store mutex.  Behind a     *)
(* torn record it is no longer a record of its own to the reader.          *)
AppendRecord(t) ==
    /\ Ready(t) /\ pc[t] = "flushing" /\ pending[t] # {} /\ StoreFree
    /\ IF torn = 0
         THEN journal' = journal \cup {NextWrite(t)} /\ UNCHANGED behind
         ELSE behind' = behind \cup {NextWrite(t)} /\ UNCHANGED journal
    /\ pending' = [pending EXCEPT ![t] = @ \ {NextWrite(t)}]
    /\ UNCHANGED <<memory, pc, batch, copied, snapshot, torn, ghosts>>

(* What a write that does not complete may leave in the file: nothing, the *)
(* whole record (only its flush failed), or a torn one.                    *)
Partial(r) ==
    \/ UNCHANGED <<journal, torn, behind>>
    \/ torn = 0 /\ journal' = journal \cup {r} /\ UNCHANGED <<torn, behind>>
    \/ torn = 0 /\ torn' \in TornUnits /\ UNCHANGED <<journal, behind>>
    \/ torn # 0 /\ behind' = behind \cup {r} /\ UNCHANGED <<journal, torn>>

ThreadsReset ==
    /\ pc' = [t \in Threads |-> "idle"]
    /\ pending' = [t \in Threads |-> {}]
    /\ batch' = [t \in Threads |-> {}]
    /\ copied' = [t \in Threads |-> NoSnapshot]

(* A failed append: flush drops the rest of the batch, records that        *)
(* durability is unhealthy and returns the error.  While recovering, that  *)
(* error ends the process: the coordinator does not start.                 *)
AppendFails(t) ==
    /\ Ready(t) /\ pc[t] = "flushing" /\ pending[t] # {} /\ StoreFree
    /\ failures < MaxFailures
    /\ failures' = failures + 1
    /\ healthy' = FALSE
    /\ Partial(NextWrite(t))
    /\ IF phase = "running"
         THEN /\ pc' = [pc EXCEPT ![t] = "idle"]
              /\ pending' = [pending EXCEPT ![t] = {}]
              /\ batch' = [batch EXCEPT ![t] = {}]
              /\ UNCHANGED <<phase, copied>>
         ELSE /\ phase' = "down"
              /\ ThreadsReset
    /\ UNCHANGED <<run, sequence, document, snapshot, acked, served, dropped, losses>>

(* Mutation of Flushed: the flush is not waited for.                       *)
FlushStarted(t) == Ready(t) /\ pc[t] = "flushing"

Flushed(t) == Ready(t) /\ pc[t] = "flushing" /\ pending[t] = {}

(* Mutation of Acknowledge: the pending list is not reset.                 *)
AcknowledgeKeepsBatch(t) ==
    /\ Flushed(t) /\ phase = "running"
    /\ acked' = acked \cup batch[t]
    /\ pc' = [pc EXCEPT ![t] = "idle"]
    /\ UNCHANGED <<memory, pending, batch, copied, disk, served, failures, dropped, losses>>

(* flush returned: the mutation is acknowledged to its caller.             *)
Acknowledge(t) ==
    /\ Flushed(t) /\ phase = "running"
    /\ acked' = acked \cup batch[t]
    /\ pc' = [pc EXCEPT ![t] = "idle"]
    /\ batch' = [batch EXCEPT ![t] = {}]
    /\ UNCHANGED <<memory, pending, copied, disk, served, failures, dropped, losses>>

(* Mutation of BeginEpoch: the epoch is recorded but not advanced.         *)
BeginSameEpoch ==
    /\ Flushed(Main) /\ phase = "marking"
    /\ acked' = acked \cup batch[Main]
    /\ StageBy(Main, 2, sequence, run, document, EpochOf(document))
    /\ phase' = "epoch"
    /\ UNCHANGED <<run, healthy, copied, disk, served, failures, dropped, losses>>

(* The recovery mark is durable: begin_epoch advances the epoch and stages *)
(* its history event and counters.                                         *)
BeginEpoch ==
    /\ Flushed(Main) /\ phase = "marking"
    /\ acked' = acked \cup batch[Main]
    /\ StageBy(Main, 2, sequence, run, document, EpochOf(document) + 1)
    /\ phase' = "epoch"
    /\ UNCHANGED <<run, healthy, copied, disk, served, failures, dropped, losses>>

(* The new epoch is durable: recover_from_store returns it and the         *)
(* coordinator starts to serve.                                            *)
StartServing ==
    /\ Flushed(Main) /\ phase = "epoch"
    /\ acked' = acked \cup batch[Main]
    /\ served' = served \cup {<<run, EpochOf(document)>>}
    /\ phase' = "running"
    /\ pc' = [pc EXCEPT ![Main] = "idle"]
    /\ batch' = [batch EXCEPT ![Main] = {}]
    /\ UNCHANGED <<run, sequence, document, healthy, pending, copied, disk, failures,
                   dropped, losses>>

(* persist_snapshot, first half: the state and the sequence are copied     *)
(* under the shared state lock, which is then released.                    *)
CopyDocument(t) ==
    /\ phase = "running" /\ t \in SnapshotThreads /\ pc[t] = "idle"
    /\ copied' = [copied EXCEPT ![t] = [sequence |-> sequence, document |-> document]]
    /\ pc' = [pc EXCEPT ![t] = "copied"]
    /\ UNCHANGED <<memory, pending, batch, disk, ghosts>>

After(records, n) == {r \in records : r.seq > n}

(* save_snapshot: the copy atomically replaces the snapshot file, whichever*)
(* of the two is newer ...                                                 *)
ReplaceSnapshot(t) ==
    /\ phase = "running" /\ pc[t] = "copied" /\ StoreFree
    /\ snapshot' = copied[t]
    /\ overwritten' = overwritten \cup After(snapshot.document, copied[t].sequence)
    /\ pc' = [pc EXCEPT ![t] = "truncating"]
    /\ copied' = [copied EXCEPT ![t] = NoSnapshot]
    /\ UNCHANGED <<memory, pending, batch, journal, torn, behind, acked, served, failures,
                   dropped, swallowed>>

(* ... and the whole journal is then truncated, under the same mutex.      *)
TruncateJournal(t) ==
    /\ phase = "running" /\ pc[t] = "truncating"
    /\ journal' = {} /\ torn' = 0 /\ behind' = {}
    /\ overwritten' = overwritten \cup After(journal \cup behind, snapshot.sequence)
    /\ pc' = [pc EXCEPT ![t] = "idle"]
    /\ UNCHANGED <<memory, pending, batch, copied, snapshot, acked, served, failures,
                   dropped, swallowed>>

(* Either half may fail; the error is returned, nothing is undone.         *)
SnapshotFails(t) ==
    /\ phase = "running"
    /\ \/ pc[t] = "copied" /\ StoreFree
       \/ pc[t] = "truncating"
    /\ failures < MaxFailures
    /\ failures' = failures + 1
    /\ pc' = [pc EXCEPT ![t] = "idle"]
    /\ copied' = [copied EXCEPT ![t] = NoSnapshot]
    /\ UNCHANGED <<memory, pending, batch, disk, acked, served, dropped, losses>>

(* The process dies, or exits after Engine::shutdown; an append in progress*)
(* may be cut short.                                                       *)
Crash ==
    /\ phase \in {"marking", "epoch", "running"}
    /\ \/ UNCHANGED <<journal, torn, behind>>
       \/ \E t \in Threads :
             /\ pc[t] = "flushing" /\ pending[t] # {} /\ StoreFree
             /\ torn = 0 /\ torn' \in TornUnits /\ UNCHANGED <<journal, behind>>
    /\ phase' = "down"
    /\ ThreadsReset
    /\ UNCHANGED <<run, sequence, document, healthy, snapshot, ghosts>>

(* Coordinator start: recover the store, replay it, and stage the recovery *)
(* mark with the recovered counters; a store that cannot be read is        *)
(* refused.  A torn record that nothing fills yet reads as the end of the  *)
(* journal: what stands behind it is swallowed.                            *)
Recover ==
    /\ phase = "down" /\ run < MaxRuns
    /\ run' = run + 1
    /\ healthy' = TRUE
    /\ dropped' = {}
    /\ IF Readable
         THEN /\ phase' = "marking"
              /\ StageBy(Main, 2, LastSequence, run + 1, Recovered, EpochOf(Recovered))
              /\ swallowed' = swallowed \cup (behind \ Recovered)
         ELSE /\ phase' = "refused"
              /\ UNCHANGED <<sequence, document, pc, pending, batch, swallowed>>
    /\ UNCHANGED <<copied, disk, acked, served, failures, overwritten>>

Next ==
    \/ \E t \in Threads : \/ Mutate(t) \/ StageAndDrop(t) \/ AppendRecord(t) \/ AppendFails(t)
                          \/ Acknowledge(t) \/ CopyDocument(t) \/ ReplaceSnapshot(t)
                          \/ TruncateJournal(t) \/ SnapshotFails(t)
    \/ BeginEpoch \/ StartServing \/ Crash \/ Recover

Spec == Init /\ [][Next]_vars

(* Threads run: a flush in progress goes on, and a process that is down is *)
(* started again by its supervisor.                                        *)
FairSpec ==
    /\ Spec
    /\ \A t \in Threads : WF_vars(AppendRecord(t)) /\ WF_vars(Acknowledge(t))
                          /\ WF_vars(TruncateJournal(t))
    /\ WF_vars(BeginEpoch) /\ WF_vars(StartServing) /\ WF_vars(Recover)

-----------------------------------------------------------------------------
(* Type correctness, with the bookkeeping a flush relies on: what is still *)
(* to be written is part of the batch, and a thread that is not flushing   *)
(* has none.                                                               *)
TypeOK ==
    /\ phase \in Phases /\ run \in Nat /\ sequence \in Nat
    /\ document \in SUBSET Record /\ healthy \in BOOLEAN
    /\ pc \in [Threads -> ThreadStates]
    /\ pending \in [Threads -> SUBSET Record]
    /\ batch \in [Threads -> SUBSET Record]
    /\ copied \in [Threads -> Snapshot]
    /\ snapshot \in Snapshot /\ journal \in SUBSET Record
    /\ torn \in TornUnits \cup {0} /\ behind \in SUBSET Record
    /\ acked \in SUBSET Record /\ served \in SUBSET (Nat \X Nat)
    /\ failures \in Nat
    /\ dropped \in SUBSET Record
    /\ swallowed \in SUBSET Record /\ overwritten \in SUBSET Record
    /\ \A t \in Threads : /\ pending[t] \subseteq batch[t]
                          /\ pc[t] # "flushing" => batch[t] = {}

Up == phase \in {"marking", "epoch", "running"}

(* No silent loss: whatever the store acknowledged, a coordinator that     *)
(* comes up on that store reflects (README, Persistence: "A mutation is    *)
(* appended and flushed past the durability boundary before it is          *)
(* acknowledged", and what cannot be read is reported as corruption).      *)
(* The code keeps this only as far as LossHasCause says.                   *)
NoSilentLoss == Up => acked \subseteq document

(* The part of it the code keeps, whatever fails, tears or interleaves: an *)
(* acknowledged record that a coordinator comes up without stood behind a  *)
(* torn record that a start took for the end of the journal (recover), or  *)
(* was taken off the disk by a snapshot older than it (persist_snapshot).  *)
LossHasCause == Up => acked \subseteq document \cup swallowed \cup overwritten

(* A later run serves a later epoch: traffic of an earlier run can always  *)
(* be told from current traffic (README, Stale authority: "A coordinator   *)
(* restart advances CoordinatorEpoch").  An epoch comes back only when the *)
(* record that made it durable was swallowed behind a torn one: no crash   *)
(* between two writes, failed write or snapshot brings one back.           *)
EpochRepeatHasCause ==
    \A a, b \in served : a[1] < b[1] /\ b[2] <= a[2] =>
        \E r \in swallowed : r.run = a[1] /\ r.epoch = a[2]

InFlight == UNION {pending[t] : t \in Threads}

(* A coordinator that reports healthy durability has a store it could be   *)
(* restarted from right now, but for a torn record of an earlier run that  *)
(* has been filled, or a sequence number of this run missing below one     *)
(* that is durable: still in flight on another thread, dropped by a lost   *)
(* authority, or overwritten by a snapshot.  A flush that fails is always  *)
(* reported, and recovery never sets the counter so that a gap arises.     *)
HealthyStoreIsReadable ==
    phase = "running" /\ healthy /\ ~Readable =>
        \/ TornFilled
        \/ \E r \in (InFlight \cup dropped \cup overwritten) \ Replayed, q \in Replayed :
               r.run = run /\ snapshot.sequence < r.seq /\ r.seq < q.seq

(* Every start ends in service or in an explicit refusal, however often    *)
(* the process dies on the way (up to the bounded number of runs).         *)
StartsAreDecided ==
    []<>(phase \in {"running", "refused"} \/ (phase = "down" /\ run = MaxRuns))

-----------------------------------------------------------------------------
(* The log a caller of the engine sees: the process is starting until the  *)
(* new epoch is durable, and its state exists only while it is up.         *)
LogStatus == CASE phase \in {"marking", "epoch"} -> "starting"
               [] phase = "running" -> "serving"
               [] OTHER -> phase

Log == INSTANCE DurableLog WITH
           status   <- LogStatus,
           held     <- IF Up THEN document ELSE {},
           promised <- acked,
           lost     <- swallowed \cup overwritten,
           epochs   <- {s[2] : s \in served}

(* The journal, its snapshots and its recovery implement the log: every    *)
(* step of a flush, a snapshot, a crash or a recovery is a step of the     *)
(* abstract log or invisible to it (README, Persistence and Recovery).     *)
ImplementsLog == Log!Spec
=============================================================================
