------------------------ MODULE DurableJournalProofs ------------------------
(***************************************************************************)
(* Theorems about DurableJournal, for every set of threads and every bound.*)
(***************************************************************************)
EXTENDS DurableJournal, FiniteSetTheorems, WellFoundedInduction, TLAPS

(* A nonempty set of naturals has a least element: the record flush()      *)
(* writes next is well defined.                                            *)
LEMMA LeastNatural ==
    ASSUME NEW S \in SUBSET Nat, S # {}
    PROVE  \E m \in S : \A n \in S : m <= n
<1> DEFINE Less == {ij \in Nat \X Nat : ij[1] < ij[2]}
<1>1. IsWellFoundedOn(OpToRel(<, Nat), Nat)
  BY NatLessThanWellFounded, Zenon
<1>2. IsWellFoundedOn(Less, Nat)
  BY <1>1, Zenon DEF OpToRel
<1>3. PICK m \in S : \A n \in S : ~(<<n, m>> \in Less)
  <2> HIDE DEF Less
  <2> QED BY <1>2, WFMin
<1>4. \A n \in S : ~(n < m)
  BY <1>3
<1> QED BY <1>4

(* A nonempty bounded set of naturals has a greatest element: the last     *)
(* sequence recover() reports is well defined.                             *)
LEMMA GreatestNatural ==
    ASSUME NEW S \in SUBSET Nat, S # {}, NEW b \in Nat, \A n \in S : n <= b
    PROVE  \E m \in S : \A n \in S : n <= m
<1> DEFINE Bounds == {c \in Nat : \A n \in S : n <= c}
<1>1. Bounds \in SUBSET Nat /\ b \in Bounds
  OBVIOUS
<1>2. PICK m \in Bounds : \A c \in Bounds : m <= c
  BY <1>1, LeastNatural
<1>3. m \in S
  <2>1. SUFFICES ASSUME m \notin S PROVE FALSE
    OBVIOUS
  <2>2. PICK k \in S : TRUE
    OBVIOUS
  <2>3. \A n \in S : n <= m - 1
    BY <1>2, <2>1
  <2>4. m - 1 \in Bounds
    BY <2>2, <2>3, <1>2
  <2> QED BY <1>2, <2>4
<1> QED BY <1>2, <1>3

(* The same two facts for sets of journal records.                         *)
LEMMA FirstRecord ==
    ASSUME NEW R \in SUBSET Record, R # {}
    PROVE  \E r \in R : \A q \in R : r.seq <= q.seq
<1> DEFINE S == {r.seq : r \in R}
<1>1. S \in SUBSET Nat /\ S # {}
  BY DEF Record
<1>2. PICK m \in S : \A n \in S : m <= n
  BY <1>1, LeastNatural
<1> QED BY <1>2

LEMMA LatestRecord ==
    ASSUME NEW R \in SUBSET Record, R # {}, NEW b \in Nat, \A r \in R : r.seq <= b
    PROVE  \E r \in R : \A q \in R : q.seq <= r.seq
<1> DEFINE S == {r.seq : r \in R}
<1>1. S \in SUBSET Nat /\ S # {} /\ \A n \in S : n <= b
  BY DEF Record
<1> HIDE DEF S
<1>2. PICK m \in S : \A n \in S : n <= m
  BY <1>1, GreatestNatural
<1> QED BY <1>2 DEF S

-----------------------------------------------------------------------------
(* What stays below the durable sequence counter, and who may be busy: the *)
(* strengthening type correctness rests on, since an epoch or a last       *)
(* sequence is a maximum and only a bounded set has one.                   *)
Below(records, n) == \A r \in records : r.seq <= n

Bounded ==
    /\ Below(document, sequence)
    /\ Below(journal, sequence)
    /\ snapshot.sequence <= sequence
    /\ Below(snapshot.document, snapshot.sequence)
    /\ \A t \in Threads : /\ batch[t] \subseteq document
                          /\ pc[t] = "copied" =>
                                /\ copied[t].sequence <= sequence
                                /\ Below(copied[t].document, copied[t].sequence)
    /\ ~Up => \A t \in Threads : pc[t] = "idle"

TypeInv == TypeOK /\ Bounded

(* The epoch of a bounded document is a positive number.                   *)
LEMMA EpochType ==
    ASSUME NEW doc \in SUBSET Record, NEW b \in Nat, Below(doc, b)
    PROVE  EpochOf(doc) \in Nat \ {0}
<1> DEFINE counters == {r \in doc : r.epoch # NoEpoch}
<1>1. CASE counters = {}
  BY <1>1 DEF EpochOf, InitialEpoch
<1>2. CASE counters # {}
  <2>1. counters \in SUBSET Record /\ \A r \in counters : r.seq <= b
    BY DEF Below
  <2>2. \E r \in counters : \A q \in counters : q.seq <= r.seq
    <3> HIDE DEF counters
    <3> QED BY <1>2, <2>1, LatestRecord
  <2>3. (CHOOSE r \in counters : \A q \in counters : q.seq <= r.seq) \in counters
    <3> HIDE DEF counters
    <3> QED BY <2>2
  <2>4. (CHOOSE r \in counters : \A q \in counters : q.seq <= r.seq).epoch \in Nat \ {0}
    BY <2>1, <2>3 DEF Record, NoEpoch
  <2> QED BY <1>2, <2>4 DEF EpochOf
<1> QED BY <1>1, <1>2

(* stage() takes the sequence numbers just above the counter.              *)
LEMMA StagedType ==
    ASSUME NEW n \in Nat, NEW from \in Nat, NEW owner \in Nat, NEW epoch \in Nat
    PROVE  /\ Staged(n, from, owner, epoch) \in SUBSET Record
           /\ \A r \in Staged(n, from, owner, epoch) : from < r.seq /\ r.seq <= from + n
BY DEF Staged, Record, NoEpoch

(* What recover() returns: a document bounded by the last sequence, which  *)
(* is no smaller than anything on disk.                                    *)
LEMMA RecoveredType ==
    ASSUME TypeOK, Bounded
    PROVE  /\ Recovered \in SUBSET Record
           /\ LastSequence \in Nat
           /\ Below(Recovered, LastSequence)
           /\ Below(journal, LastSequence)
           /\ snapshot.sequence <= LastSequence
<1> USE DEF Below
<1>1. /\ snapshot.sequence \in Nat /\ snapshot.document \in SUBSET Record
      /\ journal \in SUBSET Record /\ sequence \in Nat
  BY DEF TypeOK, Snapshot
<1>2. Replayed \in SUBSET Record /\ \A r \in journal : r.seq \in Nat
  BY <1>1 DEF Replayed, Record
<1>3. CASE Replayed = {}
  <2>1. \A r \in journal : r.seq <= snapshot.sequence
    BY <1>1, <1>2, <1>3 DEF Replayed
  <2> QED BY <1>1, <1>3, <2>1 DEF LastSequence, Recovered, Bounded
<1>4. CASE Replayed # {}
  <2>1. \A r \in Replayed : r.seq <= sequence
    BY DEF Replayed, Bounded
  <2>2. \E r \in Replayed : \A q \in Replayed : q.seq <= r.seq
    BY <1>1, <1>2, <1>4, <2>1, LatestRecord
  <2>3. \E n \in {r.seq : r \in Replayed} : \A r \in Replayed : r.seq <= n
    BY <2>2
  <2>4. /\ LastSequence \in {r.seq : r \in Replayed}
        /\ \A r \in Replayed : r.seq <= LastSequence
    BY <1>4, <2>3 DEF LastSequence
  <2>5. LastSequence \in Nat /\ snapshot.sequence < LastSequence
    BY <1>1, <1>2, <2>4 DEF Replayed
  <2>6. \A r \in snapshot.document : r.seq <= LastSequence
    BY <1>1, <2>5 DEF Bounded, Record
  <2>7. \A r \in journal : r.seq <= LastSequence
    BY <1>1, <1>2, <2>4, <2>5 DEF Replayed
  <2> QED BY <1>1, <1>2, <2>4, <2>5, <2>6, <2>7 DEF Recovered
<1> QED BY <1>3, <1>4

(* The record flush() writes next is one it has not written yet.           *)
LEMMA NextWritePending ==
    ASSUME TypeOK, NEW t \in Threads, pending[t] # {}
    PROVE  NextWrite(t) \in pending[t]
<1>1. \E r \in pending[t] : \A q \in pending[t] : r.seq <= q.seq
  BY FirstRecord DEF TypeOK
<1> QED BY <1>1 DEF NextWrite

(* Staging keeps the types: everything staged is a record above the old    *)
(* counter and at most the new one, and belongs to one thread's batch.     *)
StageEffect(t, from, n, base) ==
    /\ sequence' \in Nat /\ sequence' = from + n
    /\ document' \in SUBSET Record /\ base \subseteq document'
    /\ Below(document', sequence')
    /\ pc' \in [Threads -> ThreadStates]
    /\ pending' \in [Threads -> SUBSET Record]
    /\ batch' \in [Threads -> SUBSET Record]
    /\ pc'[t] = "flushing" /\ batch'[t] = pending'[t] /\ batch'[t] \subseteq document'
    /\ \A r \in batch'[t] : from < r.seq
    /\ \A u \in Threads \ {t} : /\ pc'[u] = pc[u]
                                /\ pending'[u] = pending[u]
                                /\ batch'[u] = batch[u]

LEMMA StageType ==
    ASSUME TypeOK, NEW t \in Threads, NEW n \in Nat, NEW from \in Nat, NEW owner \in Nat,
           NEW base \in SUBSET Record, NEW epoch \in Nat, Below(base, from),
           StageBy(t, n, from, owner, base, epoch)
    PROVE  StageEffect(t, from, n, base)
<1> DEFINE records == Staged(n, from, owner, epoch)
<1>1. /\ records \in SUBSET Record
      /\ \A r \in records : from < r.seq /\ r.seq <= from + n
  BY StagedType
<1>2. /\ sequence' = from + n /\ document' = base \cup records
      /\ pending' = [pending EXCEPT ![t] = records]
      /\ batch' = [batch EXCEPT ![t] = records]
      /\ pc' = [pc EXCEPT ![t] = "flushing"]
  BY DEF StageBy
<1> HIDE DEF records
<1>3. \A r \in base : r.seq \in Nat /\ r.seq <= from
  BY DEF Below, Record
<1>4. Below(document', sequence')
  BY <1>1, <1>2, <1>3 DEF Below
<1> QED BY <1>1, <1>2, <1>4 DEF TypeOK, ThreadStates, StageEffect

(* TypeInv is inductive.                                                   *)
LEMMA TypeInit == Init => TypeInv
BY BoundAssumption DEF Init, TypeInv, TypeOK, Bounded, Below, Phases, ThreadStates, Snapshot,
    NoSnapshot, Up

LEMMA TypeStep == TypeInv /\ [Next]_vars => TypeInv'
<1> SUFFICES ASSUME TypeOK, Bounded, [Next]_vars PROVE TypeOK' /\ Bounded'
  BY DEF TypeInv
<1> USE ThreadAssumption, BoundAssumption
<1>1. ASSUME NEW t \in Threads, Mutate(t) PROVE TypeOK' /\ Bounded'
  <2>1. PICK n \in 1..MaxBatch :
           StageBy(t, n, sequence, run, document, EpochOf(document))
    BY <1>1 DEF Mutate
  <2>2. EpochOf(document) \in Nat
    BY EpochType DEF TypeOK, Bounded
  <2>3. StageBy(t, n, sequence, run, document, EpochOf(document)) /\ n \in Nat
        /\ document \in SUBSET Record /\ Below(document, sequence) /\ run \in Nat /\ sequence \in Nat
    BY <2>1 DEF TypeOK, Bounded
  <2>4. UNCHANGED <<phase, run, healthy, copied, snapshot, journal, torn, behind, acked, served,
                    failures, dropped, swallowed, overwritten>> /\ phase = "running"
    BY <1>1 DEF Mutate, disk, ghosts, losses
  <2>5. StageEffect(t, sequence, n, document)
    BY <2>2, <2>3, StageType
  <2>6. TypeOK'
    BY <2>4, <2>5 DEF TypeOK, StageEffect
  <2>7. \A m \in Nat : m <= sequence => m <= sequence'
    BY <2>3, <2>5 DEF StageEffect
  <2>8. Bounded'
    BY <2>4, <2>5, <2>7 DEF TypeOK, Bounded, Below, Up, StageEffect, Snapshot, Record
  <2> QED BY <2>6, <2>8
<1>2. ASSUME NEW t \in Threads, AppendRecord(t) PROVE TypeOK' /\ Bounded'
  <2>1. NextWrite(t) \in pending[t] /\ pending[t] \subseteq batch[t] /\ batch[t] \subseteq document
    BY <1>2, NextWritePending DEF AppendRecord, TypeOK, Bounded
  <2> QED BY <1>2, <2>1 DEF AppendRecord, TypeOK, Bounded, Below, Up, memory, ghosts, losses
<1>3. ASSUME NEW t \in Threads, AppendFails(t) PROVE TypeOK' /\ Bounded'
  <2>1. NextWrite(t) \in pending[t] /\ pending[t] \subseteq batch[t] /\ batch[t] \subseteq document
    BY <1>3, NextWritePending DEF AppendFails, TypeOK, Bounded
  <2>2. /\ journal' \in SUBSET Record /\ behind' \in SUBSET Record
        /\ torn' \in TornUnits \cup {0} /\ Below(journal', sequence)
    BY <1>3, <2>1 DEF AppendFails, Partial, TypeOK, Bounded, Below
  <2>3. /\ UNCHANGED <<run, sequence, document, snapshot, acked, served, dropped, swallowed,
                      overwritten>>
        /\ healthy' \in BOOLEAN /\ failures' \in Nat
    <3>1. healthy' \in BOOLEAN
      BY <1>3, Zenon DEF AppendFails
    <3>2. failures' \in Nat
      BY <1>3, SMT DEF AppendFails, TypeOK
    <3>3. UNCHANGED <<run, sequence, document, snapshot, acked, served, dropped, swallowed,
                      overwritten>>
      BY <1>3 DEF AppendFails, losses
    <3> QED BY <3>1, <3>2, <3>3, Zenon
  <2>4. CASE phase = "running"
    <3>1. /\ pc' = [pc EXCEPT ![t] = "idle"]
          /\ pending' = [pending EXCEPT ![t] = {}]
          /\ batch' = [batch EXCEPT ![t] = {}]
          /\ UNCHANGED <<phase, copied>>
      BY <1>3, <2>4 DEF AppendFails
    <3>2. TypeOK'
      BY <2>2, <2>3, <3>1 DEF TypeOK, ThreadStates
    <3>3. Bounded'
      BY <2>2, <2>3, <2>4, <3>1 DEF TypeOK, Bounded, Below, Up
    <3> QED BY <3>2, <3>3
  <2>5. CASE phase # "running"
    <3>1. phase' = "down" /\ ThreadsReset
      BY <1>3, <2>5 DEF AppendFails
    <3>2. TypeOK'
      BY <2>2, <2>3, <3>1 DEF TypeOK, ThreadsReset, ThreadStates, Phases, NoSnapshot, Snapshot
    <3>3. Bounded'
      BY <2>2, <2>3, <3>1 DEF TypeOK, Bounded, ThreadsReset, Below, Up
    <3> QED BY <3>2, <3>3
  <2> QED BY <2>4, <2>5
<1>4. ASSUME NEW t \in Threads, Acknowledge(t) PROVE TypeOK' /\ Bounded'
  BY <1>4 DEF Acknowledge, Flushed, TypeOK, Bounded, Up, ThreadStates, memory, disk, losses
<1>5. ASSUME NEW t \in Threads, CopyDocument(t) PROVE TypeOK' /\ Bounded'
  BY <1>5 DEF CopyDocument, TypeOK, Bounded, Below, Up, ThreadStates, Snapshot, memory, disk,
      ghosts, losses
<1>6. ASSUME NEW t \in Threads, ReplaceSnapshot(t) PROVE TypeOK' /\ Bounded'
  BY <1>6 DEF ReplaceSnapshot, After, TypeOK, Bounded, Below, Up, ThreadStates, Snapshot, NoSnapshot,
      memory
<1>7. ASSUME NEW t \in Threads, TruncateJournal(t) PROVE TypeOK' /\ Bounded'
  BY <1>7 DEF TruncateJournal, After, TypeOK, Bounded, Below, Up, ThreadStates, memory
<1>8. ASSUME NEW t \in Threads, SnapshotFails(t) PROVE TypeOK' /\ Bounded'
  BY <1>8 DEF SnapshotFails, TypeOK, Bounded, Up, ThreadStates, Snapshot, NoSnapshot, memory, disk,
      losses
<1>9. CASE BeginEpoch
  <2>1. EpochOf(document) + 1 \in Nat
    BY EpochType DEF TypeOK, Bounded
  <2>2. StageBy(Main, 2, sequence, run, document, EpochOf(document) + 1)
        /\ document \in SUBSET Record /\ Below(document, sequence) /\ run \in Nat /\ sequence \in Nat
    BY <1>9 DEF BeginEpoch, TypeOK, Bounded
  <2>3. /\ UNCHANGED <<run, healthy, copied, snapshot, journal, torn, behind, served, failures,
                      dropped, swallowed, overwritten>>
        /\ phase = "marking" /\ phase' = "epoch" /\ acked' = acked \cup batch[Main]
    BY <1>9 DEF BeginEpoch, disk, losses
  <2>4. StageEffect(Main, sequence, 2, document)
    BY <2>1, <2>2, StageType
  <2>5. TypeOK'
    BY <2>3, <2>4 DEF TypeOK, StageEffect, Phases
  <2>6. Bounded'
    BY <2>2, <2>3, <2>4 DEF TypeOK, Bounded, Below, Up, StageEffect, Snapshot, Record
  <2> QED BY <2>5, <2>6
<1>10. CASE StartServing
  <2>1. EpochOf(document) \in Nat
    BY EpochType DEF TypeOK, Bounded
  <2> QED BY <1>10, <2>1 DEF StartServing, Flushed, TypeOK, Bounded, Up, ThreadStates, Phases, disk,
      losses
<1>11. CASE Crash
  BY <1>11 DEF Crash, ThreadsReset, TypeOK, Bounded, Below, Up, ThreadStates, Phases, Snapshot,
      NoSnapshot, ghosts, losses
<1>12. CASE Recover
  <2>1. /\ UNCHANGED <<copied, snapshot, journal, torn, behind, acked, served, failures,
                      overwritten>>
        /\ phase = "down" /\ run' = run + 1 /\ healthy' = TRUE
        /\ dropped' \in SUBSET Record /\ swallowed' \in SUBSET Record
    BY <1>12 DEF Recover, disk, TypeOK
  <2>2. CASE Readable
    <3>1. /\ Recovered \in SUBSET Record /\ LastSequence \in Nat
          /\ Below(Recovered, LastSequence) /\ Below(journal, LastSequence)
          /\ snapshot.sequence <= LastSequence
      BY RecoveredType
    <3>2. EpochOf(Recovered) \in Nat /\ run + 1 \in Nat
      BY <3>1, EpochType DEF TypeOK
    <3>3. StageBy(Main, 2, LastSequence, run + 1, Recovered, EpochOf(Recovered))
          /\ phase' = "marking"
      BY <1>12, <2>2 DEF Recover
    <3>4. \A u \in Threads : pc[u] = "idle" /\ batch[u] = {}
      BY <2>1 DEF Bounded, TypeOK, Up
    <3>5. StageEffect(Main, LastSequence, 2, Recovered)
      BY <3>1, <3>2, <3>3, StageType
    <3>6. TypeOK'
      BY <2>1, <3>2, <3>3, <3>5 DEF TypeOK, StageEffect, Phases
    <3>7. Bounded'
      BY <2>1, <3>1, <3>3, <3>4, <3>5 DEF TypeOK, Bounded, Below, Up, StageEffect, Snapshot, Record
    <3> QED BY <3>6, <3>7
  <2>3. CASE ~Readable
    BY <1>12, <2>1, <2>3 DEF Recover, TypeOK, Bounded, Up, Phases
  <2> QED BY <2>2, <2>3
<1>13. ASSUME NEW t \in Threads, StageAndDrop(t) PROVE TypeOK' /\ Bounded'
  <2> DEFINE records == Staged(1, sequence, run, NoEpoch)
  <2>1. /\ UNCHANGED <<phase, run, healthy, pc, pending, batch, copied, snapshot, journal, torn,
                      behind, acked, served, failures, swallowed, overwritten>>
        /\ sequence' = sequence + 1 /\ document' = document \cup records
        /\ dropped' = dropped \cup records /\ phase = "running"
    BY <1>13 DEF StageAndDrop, flushes, disk, losses
  <2>2. /\ records \in SUBSET Record /\ sequence \in Nat
        /\ \A r \in records : sequence < r.seq /\ r.seq <= sequence + 1
    BY StagedType DEF TypeOK, NoEpoch
  <2> HIDE DEF records
  <2>3. TypeOK'
    BY <2>1, <2>2 DEF TypeOK
  <2>4. \A m \in Nat : m <= sequence => m <= sequence'
    BY <2>1, <2>2
  <2>5. Below(document', sequence')
    BY <2>1, <2>2, <2>4 DEF TypeOK, Bounded, Below, Record
  <2>6. Below(journal', sequence')
    BY <2>1, <2>4 DEF TypeOK, Bounded, Below, Record
  <2> QED BY <2>1, <2>3, <2>4, <2>5, <2>6 DEF TypeOK, Bounded, Up, Snapshot
<1>14. CASE UNCHANGED vars
  BY <1>14 DEF vars, TypeOK, Bounded, Below, Up
<1> QED BY <1>1, <1>2, <1>3, <1>4, <1>5, <1>6, <1>7, <1>8, <1>9, <1>10, <1>11, <1>12, <1>13, <1>14
    DEF Next

(* Type correctness of the durability protocol, for any number of threads, *)
(* failures, crashes and torn records.                                     *)
THEOREM TypeCorrect == Spec => []TypeOK
<1>1. TypeInv => TypeOK
  BY DEF TypeInv
<1> QED BY <1>1, TypeInit, TypeStep, PTL DEF Spec

-----------------------------------------------------------------------------
(* What the files and the copies in memory have of the document: nothing   *)
(* but its records, and a snapshot or a copy of it every record up to its  *)
(* sequence.  This is what survives a truncation under concurrent          *)
(* mutations and an older snapshot replacing a newer one.                  *)
Complete(copy, n) == \A r \in document : r.seq <= n => r \in copy

DiskInv ==
    /\ journal \subseteq document
    /\ behind \subseteq document \cup swallowed
    /\ snapshot.document \subseteq document
    /\ Complete(snapshot.document, snapshot.sequence)
    /\ \A t \in Threads : pc[t] = "copied" =>
          /\ copied[t].document \subseteq document
          /\ Complete(copied[t].document, copied[t].sequence)

(* The document only grows while the process is up, above its counter.     *)
Grows == /\ document \subseteq document'
         /\ \A r \in document' \ document : r.seq \in Nat /\ sequence < r.seq

LEMMA StagedGrows ==
    ASSUME TypeOK, NEW n \in Nat, NEW owner \in Nat, NEW epoch \in Nat,
           document' = document \cup Staged(n, sequence, owner, epoch)
    PROVE  Grows
<1>1. /\ Staged(n, sequence, owner, epoch) \in SUBSET Record
      /\ \A r \in Staged(n, sequence, owner, epoch) : sequence < r.seq
  BY StagedType DEF TypeOK
<1> QED BY <1>1 DEF Grows, Record

(* Growth leaves complete copies complete.                                 *)
LEMMA GrowthKeepsComplete ==
    ASSUME TypeOK, Bounded, DiskInv, Grows, UNCHANGED <<snapshot, journal, behind, swallowed>>,
           \A t \in Threads : pc'[t] = "copied" => pc[t] = "copied" /\ copied'[t] = copied[t]
    PROVE  DiskInv'
<1>1. \A r \in document' : r.seq <= sequence => r \in document
  <2> SUFFICES ASSUME NEW r \in document', r.seq <= sequence, r \notin document PROVE FALSE
    OBVIOUS
  <2>1. r.seq \in Nat /\ sequence < r.seq
    BY DEF Grows
  <2> QED BY <2>1 DEF TypeOK
<1>2. Complete(snapshot.document, snapshot.sequence)'
  <2>1. snapshot.sequence \in Nat /\ snapshot.sequence <= sequence
    BY DEF TypeOK, Bounded, Snapshot
  <2>2. Complete(snapshot.document, snapshot.sequence)
    BY DEF DiskInv
  <2> QED BY <1>1, <2>1, <2>2 DEF Complete, Grows, TypeOK, Record
<1>3. ASSUME NEW t \in Threads, pc'[t] = "copied"
      PROVE  /\ copied'[t].document \subseteq document'
             /\ Complete(copied[t].document, copied[t].sequence)'
  <2>1. pc[t] = "copied" /\ copied'[t] = copied[t]
    BY <1>3
  <2>2. copied[t].sequence \in Nat /\ copied[t].sequence <= sequence
    BY <2>1 DEF TypeOK, Bounded, Snapshot
  <2>3. Complete(copied[t].document, copied[t].sequence)
    BY <2>1 DEF DiskInv
  <2>4. \A r \in document' : r.seq <= copied[t].sequence => r \in copied[t].document
    BY <1>1, <2>2, <2>3 DEF Complete, Grows, TypeOK, Record
  <2> QED BY <2>1, <2>4 DEF Complete, DiskInv, Grows
<1> QED BY <1>2, <1>3 DEF DiskInv, Grows

LEMMA DiskInit == Init => DiskInv
BY DEF Init, DiskInv, Complete, NoSnapshot

(* A record of the document that reaches a file changes nothing.           *)
LEMMA WriteKeepsDisk ==
    ASSUME DiskInv, NEW r \in document, UNCHANGED <<document, snapshot, swallowed>>,
           journal' \subseteq journal \cup {r}, behind' \subseteq behind \cup {r},
           \A t \in Threads : pc'[t] = "copied" => pc[t] = "copied" /\ copied'[t] = copied[t]
    PROVE  DiskInv'
BY DEF DiskInv, Complete

LEMMA DiskStep == TypeInv /\ TypeInv' /\ DiskInv /\ [Next]_vars => DiskInv'
<1> SUFFICES ASSUME TypeOK, Bounded, TypeOK', DiskInv, [Next]_vars PROVE DiskInv'
  BY DEF TypeInv
<1> USE ThreadAssumption, BoundAssumption
<1>0. ASSUME UNCHANGED <<document, snapshot, swallowed, journal, behind>>,
             \A t \in Threads : pc'[t] = "copied" => pc[t] = "copied" /\ copied'[t] = copied[t]
      PROVE  DiskInv'
  BY <1>0 DEF DiskInv, Complete
<1>1. ASSUME NEW t \in Threads, Mutate(t) PROVE DiskInv'
  <2>1. PICK n \in 1..MaxBatch : StageBy(t, n, sequence, run, document, EpochOf(document))
    BY <1>1 DEF Mutate
  <2>2. EpochOf(document) \in Nat /\ n \in Nat /\ run \in Nat
    BY EpochType DEF TypeOK, Bounded
  <2>3. document' = document \cup Staged(n, sequence, run, EpochOf(document))
    BY <2>1 DEF StageBy
  <2>4. Grows
    BY <2>2, <2>3, StagedGrows
  <2>5. UNCHANGED <<copied, snapshot, journal, behind, swallowed>>
    BY <1>1 DEF Mutate, disk, ghosts, losses
  <2>6. \A u \in Threads : pc'[u] = "copied" => pc[u] = "copied"
    BY <2>1 DEF StageBy, TypeOK
  <2> QED BY <2>4, <2>5, <2>6, GrowthKeepsComplete
<1>2. ASSUME NEW t \in Threads, StageAndDrop(t) PROVE DiskInv'
  <2>1. document' = document \cup Staged(1, sequence, run, NoEpoch)
    BY <1>2 DEF StageAndDrop
  <2>2. Grows
    BY <2>1, StagedGrows DEF TypeOK, NoEpoch
  <2>3. UNCHANGED <<pc, copied, snapshot, journal, behind, swallowed>>
    BY <1>2 DEF StageAndDrop, disk, flushes, losses
  <2> QED BY <2>2, <2>3, GrowthKeepsComplete
<1>3. ASSUME NEW t \in Threads, AppendRecord(t) PROVE DiskInv'
  <2>1. NextWrite(t) \in document
    BY <1>3, NextWritePending DEF AppendRecord, TypeOK, Bounded
  <2>2. /\ UNCHANGED <<document, pc, copied, snapshot, swallowed>>
        /\ journal' \subseteq journal \cup {NextWrite(t)}
        /\ behind' \subseteq behind \cup {NextWrite(t)}
    BY <1>3 DEF AppendRecord, memory, ghosts, losses
  <2> QED BY <2>1, <2>2, WriteKeepsDisk
<1>4. ASSUME NEW t \in Threads, AppendFails(t) PROVE DiskInv'
  <2>1. NextWrite(t) \in document
    BY <1>4, NextWritePending DEF AppendFails, TypeOK, Bounded
  <2>2. UNCHANGED <<document, snapshot, swallowed>> /\ Partial(NextWrite(t))
    BY <1>4 DEF AppendFails, losses
  <2>3. /\ journal' \subseteq journal \cup {NextWrite(t)}
        /\ behind' \subseteq behind \cup {NextWrite(t)}
    BY <2>2 DEF Partial
  <2>4. \A u \in Threads : pc'[u] = "copied" => pc[u] = "copied" /\ copied'[u] = copied[u]
    BY <1>4 DEF AppendFails, ThreadsReset, TypeOK
  <2> QED BY <2>1, <2>2, <2>3, <2>4, WriteKeepsDisk
<1>5. ASSUME NEW t \in Threads, Acknowledge(t) PROVE DiskInv'
  BY <1>0, <1>5 DEF Acknowledge, memory, disk, losses, TypeOK
<1>6. ASSUME NEW t \in Threads, CopyDocument(t) PROVE DiskInv'
  <2>1. /\ UNCHANGED <<document, snapshot, journal, behind, swallowed>>
        /\ copied' = [copied EXCEPT ![t] = [sequence |-> sequence, document |-> document]]
        /\ pc' = [pc EXCEPT ![t] = "copied"]
    BY <1>6 DEF CopyDocument, memory, disk, ghosts, losses
  <2> QED BY <2>1 DEF DiskInv, Complete, TypeOK
<1>7. ASSUME NEW t \in Threads, ReplaceSnapshot(t) PROVE DiskInv'
  <2>1. /\ UNCHANGED <<document, journal, behind, swallowed>>
        /\ pc[t] = "copied" /\ snapshot' = copied[t]
        /\ pc' = [pc EXCEPT ![t] = "truncating"]
        /\ copied' = [copied EXCEPT ![t] = NoSnapshot]
    BY <1>7 DEF ReplaceSnapshot, memory
  <2> QED BY <2>1 DEF DiskInv, Complete, TypeOK
<1>8. ASSUME NEW t \in Threads, TruncateJournal(t) PROVE DiskInv'
  BY <1>8 DEF TruncateJournal, memory, DiskInv, Complete, TypeOK
<1>9. ASSUME NEW t \in Threads, SnapshotFails(t) PROVE DiskInv'
  BY <1>0, <1>9 DEF SnapshotFails, memory, disk, losses, TypeOK
<1>10. CASE BeginEpoch
  <2>1. StageBy(Main, 2, sequence, run, document, EpochOf(document) + 1)
    BY <1>10 DEF BeginEpoch
  <2>2. EpochOf(document) + 1 \in Nat /\ run \in Nat
    BY EpochType DEF TypeOK, Bounded
  <2>3. document' = document \cup Staged(2, sequence, run, EpochOf(document) + 1)
    BY <2>1 DEF StageBy
  <2>4. Grows
    BY <2>2, <2>3, StagedGrows
  <2>5. UNCHANGED <<copied, snapshot, journal, behind, swallowed>>
    BY <1>10 DEF BeginEpoch, disk, losses
  <2>6. \A u \in Threads : pc'[u] = "copied" => pc[u] = "copied"
    BY <2>1 DEF StageBy, TypeOK
  <2> QED BY <2>4, <2>5, <2>6, GrowthKeepsComplete
<1>11. CASE StartServing
  BY <1>0, <1>11 DEF StartServing, disk, losses, TypeOK
<1>12. CASE Crash
  BY <1>0, <1>12 DEF Crash, ThreadsReset, ghosts, losses
<1>13. CASE Recover
  <2>1. UNCHANGED <<copied, snapshot, journal, behind>> /\ phase = "down"
    BY <1>13 DEF Recover, disk
  <2>2. CASE Readable
    <3> DEFINE marks == Staged(2, LastSequence, run + 1, EpochOf(Recovered))
    <3>1. /\ StageBy(Main, 2, LastSequence, run + 1, Recovered, EpochOf(Recovered))
          /\ swallowed' = swallowed \cup (behind \ Recovered)
      BY <1>13, <2>2 DEF Recover
    <3>2. /\ LastSequence \in Nat /\ run + 1 \in Nat
          /\ snapshot.sequence <= LastSequence /\ snapshot.sequence \in Nat
      BY RecoveredType DEF TypeOK, Snapshot
    <3>10. EpochOf(Recovered) \in Nat
      BY RecoveredType, EpochType
    <3>3. document' = Recovered \cup marks
      BY <3>1 DEF StageBy
    <3>4. \A r \in marks : r.seq \in Nat /\ snapshot.sequence < r.seq
      <4>1. marks \in SUBSET Record /\ \A r \in marks : LastSequence < r.seq
        BY <3>2, <3>10, StagedType
      <4> HIDE DEF marks
      <4> QED BY <3>2, <4>1 DEF Record
    <3> HIDE DEF marks
    <3>5. journal \subseteq Recovered
      BY DEF Recovered, Replayed, DiskInv, Complete, TypeOK, Snapshot, Record
    <3>6. \A r \in Recovered : r.seq <= snapshot.sequence => r \in snapshot.document
      BY <3>2 DEF Recovered, Replayed, TypeOK, Record
    <3>7. \A r \in document' : r.seq <= snapshot.sequence => r \in snapshot.document
      BY <3>2, <3>3, <3>4, <3>6
    <3>8. \A u \in Threads : pc'[u] # "copied"
      BY <2>1, <3>1 DEF StageBy, Bounded, TypeOK, Up
    <3>9. snapshot.document \subseteq Recovered
      BY DEF Recovered
    <3> QED BY <2>1, <3>1, <3>3, <3>5, <3>7, <3>8, <3>9 DEF DiskInv, Complete
  <2>3. CASE ~Readable
    BY <1>0, <1>13, <2>1, <2>3 DEF Recover
  <2> QED BY <2>2, <2>3
<1>14. CASE UNCHANGED vars
  BY <1>0, <1>14 DEF vars
<1> QED BY <1>1, <1>2, <1>3, <1>4, <1>5, <1>6, <1>7, <1>8, <1>9, <1>10, <1>11, <1>12, <1>13, <1>14
    DEF Next

-----------------------------------------------------------------------------
(* The inductive invariant behind LossHasCause: what has been written stays*)
(* in one of the files or among the losses.                                *)
OnDisk == snapshot.document \cup journal \cup behind
Kept == OnDisk \cup swallowed \cup overwritten

LossInv ==
    /\ acked \subseteq Kept
    /\ \A t \in Threads : batch[t] \ pending[t] \subseteq Kept

LEMMA LossInit == Init => LossInv
BY DEF Init, LossInv

(* Writing keeps what is kept, and keeps what it writes.                   *)
LEMMA WriteKeeps ==
    ASSUME UNCHANGED <<snapshot, losses>>, journal \subseteq journal', behind \subseteq behind'
    PROVE  Kept \subseteq Kept'
BY DEF Kept, OnDisk, losses

LEMMA LossStep == TypeInv /\ TypeInv' /\ DiskInv /\ LossInv /\ [Next]_vars => LossInv'
<1> SUFFICES ASSUME TypeOK, Bounded, DiskInv, LossInv, [Next]_vars PROVE LossInv'
  BY DEF TypeInv
<1> USE ThreadAssumption, BoundAssumption
<1>0. ASSUME Kept \subseteq Kept', acked' = acked,
             \A t \in Threads : \/ batch'[t] \ pending'[t] = {}
                                \/ batch'[t] = batch[t] /\ pending'[t] = pending[t]
      PROVE  LossInv'
  BY <1>0 DEF LossInv
<1>1. ASSUME NEW t \in Threads, Mutate(t) PROVE LossInv'
  <2>1. PICK n \in 1..MaxBatch : StageBy(t, n, sequence, run, document, EpochOf(document))
    BY <1>1 DEF Mutate
  <2>2. UNCHANGED <<snapshot, journal, behind, acked, losses>>
    BY <1>1 DEF Mutate, disk, ghosts
  <2> QED BY <1>0, <2>1, <2>2, WriteKeeps DEF StageBy, TypeOK
<1>2. ASSUME NEW t \in Threads, StageAndDrop(t) PROVE LossInv'
  <2>1. UNCHANGED <<snapshot, journal, behind, acked, losses, batch, pending>>
    BY <1>2 DEF StageAndDrop, disk, flushes
  <2> QED BY <1>0, <2>1, WriteKeeps
<1>3. ASSUME NEW t \in Threads, AppendRecord(t) PROVE LossInv'
  <2> DEFINE r == NextWrite(t)
  <2>1. /\ UNCHANGED <<batch, snapshot, acked, losses>>
        /\ pending' = [pending EXCEPT ![t] = @ \ {r}]
        /\ journal \subseteq journal' /\ behind \subseteq behind'
        /\ r \in journal' \cup behind'
    BY <1>3 DEF AppendRecord, ghosts
  <2> HIDE DEF r
  <2>2. Kept \subseteq Kept'
    BY <2>1, WriteKeeps
  <2>3. r \in Kept'
    BY <2>1 DEF Kept, OnDisk
  <2>4. \A u \in Threads : batch[u] \ pending'[u] \subseteq (batch[u] \ pending[u]) \cup {r}
    BY <2>1 DEF TypeOK
  <2> QED BY <2>1, <2>2, <2>3, <2>4 DEF LossInv
<1>4. ASSUME NEW t \in Threads, AppendFails(t) PROVE LossInv'
  <2>1. UNCHANGED <<snapshot, acked, losses>> /\ Partial(NextWrite(t))
    BY <1>4 DEF AppendFails
  <2>2. journal \subseteq journal' /\ behind \subseteq behind'
    BY <2>1 DEF Partial
  <2>3. \A u \in Threads : \/ batch'[u] \ pending'[u] = {}
                           \/ batch'[u] = batch[u] /\ pending'[u] = pending[u]
    BY <1>4 DEF AppendFails, ThreadsReset, TypeOK
  <2>4. Kept \subseteq Kept'
    BY <2>1, <2>2, WriteKeeps
  <2> QED BY <1>0, <2>1, <2>3, <2>4
<1>5. ASSUME NEW t \in Threads, Flushed(t), acked' = acked \cup batch[t],
             UNCHANGED <<snapshot, journal, behind, losses>>,
             \A u \in Threads : \/ batch'[u] \ pending'[u] = {}
                                \/ batch'[u] = batch[u] /\ pending'[u] = pending[u]
      PROVE  LossInv'
  <2>1. Kept \subseteq Kept' /\ batch[t] \subseteq Kept
    BY <1>5, WriteKeeps DEF LossInv, Flushed
  <2> QED BY <1>5, <2>1 DEF LossInv
<1>6. ASSUME NEW t \in Threads, Acknowledge(t) PROVE LossInv'
  BY <1>5, <1>6 DEF Acknowledge, disk, TypeOK
<1>7. ASSUME NEW t \in Threads, CopyDocument(t) \/ SnapshotFails(t) PROVE LossInv'
  <2>1. UNCHANGED <<snapshot, journal, behind, acked, losses, batch, pending>>
    BY <1>7 DEF CopyDocument, SnapshotFails, disk, ghosts
  <2> QED BY <1>0, <2>1, WriteKeeps
<1>8. ASSUME NEW t \in Threads, ReplaceSnapshot(t) PROVE LossInv'
  <2>1. /\ UNCHANGED <<pending, batch, journal, behind, acked, swallowed>>
        /\ pc[t] = "copied" /\ snapshot' = copied[t]
        /\ overwritten' = overwritten \cup After(snapshot.document, copied[t].sequence)
    BY <1>8 DEF ReplaceSnapshot
  <2>2. snapshot.document \subseteq snapshot'.document \cup overwritten'
    <3> SUFFICES ASSUME NEW r \in snapshot.document, ~(r.seq > copied[t].sequence)
                 PROVE  r \in copied[t].document
      BY <2>1 DEF After
    <3>1. r \in document /\ r.seq \in Nat /\ copied[t].sequence \in Nat
      BY DEF DiskInv, TypeOK, Record, Snapshot
    <3> QED BY <2>1, <3>1 DEF DiskInv, Complete
  <2>3. Kept \subseteq Kept'
    BY <2>1, <2>2 DEF Kept, OnDisk
  <2> QED BY <1>0, <2>1, <2>3
<1>9. ASSUME NEW t \in Threads, TruncateJournal(t) PROVE LossInv'
  <2>1. /\ UNCHANGED <<pending, batch, snapshot, acked, swallowed>>
        /\ journal' = {} /\ behind' = {}
        /\ overwritten' = overwritten \cup After(journal \cup behind, snapshot.sequence)
    BY <1>9 DEF TruncateJournal
  <2>2. journal \cup behind \subseteq snapshot.document \cup swallowed \cup overwritten'
    <3> SUFFICES ASSUME NEW r \in journal \cup behind, ~(r.seq > snapshot.sequence)
                 PROVE  r \in snapshot.document \cup swallowed
      BY <2>1 DEF After
    <3>1. r \in document \cup swallowed /\ r.seq \in Nat /\ snapshot.sequence \in Nat
      BY DEF DiskInv, TypeOK, Record, Snapshot
    <3> QED BY <3>1 DEF DiskInv, Complete
  <2>3. Kept \subseteq Kept'
    BY <2>1, <2>2 DEF Kept, OnDisk
  <2> QED BY <1>0, <2>1, <2>3
<1>10. CASE BeginEpoch
  <2>1. StageBy(Main, 2, sequence, run, document, EpochOf(document) + 1)
    BY <1>10 DEF BeginEpoch
  <2>2. \A u \in Threads : \/ batch'[u] \ pending'[u] = {}
                           \/ batch'[u] = batch[u] /\ pending'[u] = pending[u]
    BY <2>1 DEF StageBy, TypeOK
  <2> QED BY <1>5, <1>10, <2>2 DEF BeginEpoch, disk
<1>11. CASE StartServing
  BY <1>5, <1>11 DEF StartServing, disk, TypeOK
<1>12. CASE Crash
  <2>1. UNCHANGED <<snapshot, journal, behind, acked, losses>> /\ ThreadsReset
    BY <1>12 DEF Crash, ghosts
  <2> QED BY <1>0, <2>1, WriteKeeps DEF ThreadsReset
<1>13. CASE Recover
  <2>1. UNCHANGED <<snapshot, journal, behind, acked, overwritten>> /\ swallowed \subseteq swallowed'
    BY <1>13 DEF Recover, disk
  <2>2. Kept \subseteq Kept'
    BY <2>1 DEF Kept, OnDisk
  <2>3. \A u \in Threads : \/ batch'[u] \ pending'[u] = {}
                           \/ batch'[u] = batch[u] /\ pending'[u] = pending[u]
    BY <1>13 DEF Recover, StageBy, TypeOK
  <2> QED BY <1>0, <2>1, <2>2, <2>3
<1>14. CASE UNCHANGED vars
  BY <1>0, <1>14 DEF vars, Kept, OnDisk
<1> QED BY <1>1, <1>2, <1>3, <1>4, <1>6, <1>7, <1>8, <1>9, <1>10, <1>11, <1>12, <1>13, <1>14
    DEF Next

(* What was acknowledged is in memory, or lost by one of the two causes.   *)
LEMMA KeptOrLost == DiskInv /\ LossInv => acked \subseteq document \cup swallowed \cup overwritten
BY DEF DiskInv, LossInv, Kept, OnDisk

(* For any number of mutating and snapshotting threads, write failures,    *)
(* tears of any length, crashes and restarts, a coordinator comes up       *)
(* without a record it acknowledged only if the record was swallowed behind*)
(* a torn one or overwritten by an older snapshot.                         *)
THEOREM LossAlwaysHasCause == Spec => []LossHasCause
<1>1. DiskInv /\ LossInv => LossHasCause
  BY KeptOrLost DEF LossHasCause
<1> QED BY <1>1, TypeInit, TypeStep, DiskInit, DiskStep, LossInit, LossStep, PTL DEF Spec

-----------------------------------------------------------------------------
(* The inductive invariant behind EpochRepeatHasCause: epochs grow with the*)
(* sequence in the document, and the record that made a served epoch       *)
(* durable is swallowed, or on disk and in every copy that could take its  *)
(* place.                                                                  *)
MonotoneEpochs(doc) ==
    \A r, q \in doc : r.epoch # NoEpoch /\ q.epoch # NoEpoch /\ r.seq <= q.seq
                         => r.epoch <= q.epoch

Secured(r) ==
    /\ r \in document /\ r \in OnDisk
    /\ \A t \in Threads : /\ pc[t] = "copied" => r \in copied[t].document
                          /\ pc[t] = "truncating" => r \in snapshot.document

Witnessed(s) == \E r \in Record : /\ r.run = s[1] /\ r.epoch = s[2]
                                  /\ r \in swallowed \/ Secured(r)

Repeatable(s) == \E r \in swallowed : r.run = s[1] /\ r.epoch = s[2]

EpochInv ==
    /\ MonotoneEpochs(document)
    /\ \A s \in served : s[1] <= run /\ Witnessed(s)
    /\ phase \in {"marking", "epoch"} =>
          /\ \A s \in served : s[1] < run
          /\ \A t \in Threads : pc[t] \notin {"copied", "truncating"}
          /\ batch[Main] \ pending[Main] \subseteq OnDisk
    /\ phase = "epoch" =>
          /\ \A s \in served : Repeatable(s) \/ s[2] < EpochOf(document)
          /\ \E r \in batch[Main] : r.run = run /\ r.epoch = EpochOf(document)
    /\ EpochRepeatHasCause

(* In a monotone document the epoch in force is the largest one in it.     *)
LEMMA EpochIsLargest ==
    ASSUME NEW doc \in SUBSET Record, NEW b \in Nat, Below(doc, b), MonotoneEpochs(doc)
    PROVE  \A r \in doc : r.epoch <= EpochOf(doc)
<1> DEFINE counters == {r \in doc : r.epoch # NoEpoch}
<1>1. CASE counters = {}
  BY <1>1 DEF EpochOf, InitialEpoch, NoEpoch
<1>2. CASE counters # {}
  <2> DEFINE latest == CHOOSE r \in counters : \A q \in counters : q.seq <= r.seq
  <2>1. counters \in SUBSET Record /\ \A r \in counters : r.seq <= b
    BY DEF Below
  <2>2. \E r \in counters : \A q \in counters : q.seq <= r.seq
    <3> HIDE DEF counters
    <3> QED BY <1>2, <2>1, LatestRecord
  <2>3. latest \in counters /\ \A q \in counters : q.seq <= latest.seq
    <3> HIDE DEF counters
    <3> QED BY <2>2
  <2>4. EpochOf(doc) = latest.epoch
    BY <1>2 DEF EpochOf
  <2> HIDE DEF latest
  <2>5. \A q \in counters : q.epoch <= latest.epoch
    BY <2>3 DEF MonotoneEpochs
  <2>6. latest.epoch \in Nat
    BY <2>1, <2>3 DEF Record
  <2> QED BY <2>4, <2>5, <2>6 DEF NoEpoch
<1> QED BY <1>1, <1>2

(* Staging a COUNTERS record with an epoch no smaller than the one in force*)
(* puts that epoch in force.                                               *)
LEMMA EpochStaged ==
    ASSUME NEW base \in SUBSET Record, NEW from \in Nat, Below(base, from), MonotoneEpochs(base),
           NEW n \in Nat \ {0}, NEW owner \in Nat, NEW epoch \in Nat \ {0},
           EpochOf(base) <= epoch
    PROVE  /\ MonotoneEpochs(base \cup Staged(n, from, owner, epoch))
           /\ EpochOf(base \cup Staged(n, from, owner, epoch)) = epoch
<1> DEFINE records == Staged(n, from, owner, epoch)
           counter == [seq |-> from + n, run |-> owner, epoch |-> epoch]
           doc == base \cup records
<1>1. /\ counter \in records
      /\ \A r \in records : r.epoch # NoEpoch => r = counter
      /\ records \in SUBSET Record
      /\ \A r \in records : from < r.seq /\ r.seq <= from + n
  BY DEF Staged, Record, NoEpoch
<1>2. EpochOf(base) \in Nat /\ \A r \in base : r.epoch <= EpochOf(base)
  BY EpochType, EpochIsLargest
<1>3. \A r \in base : r.epoch \in Nat /\ r.epoch <= epoch /\ r.seq \in Nat /\ r.seq <= from
  BY <1>2 DEF Below, Record
<1> HIDE DEF records
<1>4. MonotoneEpochs(doc)
  BY <1>1, <1>3 DEF MonotoneEpochs
<1>5. counter.epoch # NoEpoch /\ counter \in doc
  BY <1>1 DEF NoEpoch
<1>6. \A q \in doc : q.epoch # NoEpoch => q.seq <= counter.seq /\ (q = counter \/ q.seq < counter.seq)
  BY <1>1, <1>3
<1>7. EpochOf(doc) = epoch
  <2> DEFINE counters == {r \in doc : r.epoch # NoEpoch}
  <2>1. counter \in counters /\ \A q \in counters : q.seq <= counter.seq
    BY <1>5, <1>6
  <2>2. \A r \in counters : (\A q \in counters : q.seq <= r.seq) => r = counter
    BY <1>1, <1>3, <1>6, <2>1
  <2>3. EpochOf(doc) = (CHOOSE r \in counters : \A q \in counters : q.seq <= r.seq).epoch
    BY <2>1 DEF EpochOf
  <2> HIDE DEF counters
  <2>4. (CHOOSE r \in counters : \A q \in counters : q.seq <= r.seq) = counter
    BY <2>1, <2>2
  <2>5. counter.epoch = epoch
    OBVIOUS
  <2> HIDE DEF counter, doc
  <2> QED BY <2>3, <2>4, <2>5
<1> QED BY <1>4, <1>7 DEF records

LEMMA EpochInit == Init => EpochInv
BY DEF Init, EpochInv, EpochRepeatHasCause, MonotoneEpochs

(* What a witness needs to stay one: nothing it stands on is taken away.   *)
LEMMA WitnessStays ==
    ASSUME TypeOK, \A s \in served : Witnessed(s), swallowed \subseteq swallowed',
           document \subseteq document', OnDisk \subseteq OnDisk',
           \A t \in Threads : \/ pc'[t] \notin {"copied", "truncating"}
                              \/ pc'[t] = pc[t] /\ copied'[t] = copied[t]
                                 /\ snapshot' = snapshot
    PROVE  \A s \in served : Witnessed(s)'
<1> SUFFICES ASSUME NEW s \in served PROVE Witnessed(s)'
  OBVIOUS
<1>1. PICK r \in Record : r.run = s[1] /\ r.epoch = s[2] /\ (r \in swallowed \/ Secured(r))
  BY DEF Witnessed
<1>2. Secured(r) => Secured(r)'
  BY DEF Secured
<1> QED BY <1>1, <1>2 DEF Witnessed

(* Steps that neither serve nor begin an epoch.                            *)
LEMMA EpochFrame ==
    ASSUME EpochInv, UNCHANGED <<run, served>>, swallowed \subseteq swallowed',
           MonotoneEpochs(document'),
           \A s \in served : Witnessed(s)', phase' \notin {"marking", "epoch"}
    PROVE  EpochInv'
BY DEF EpochInv, EpochRepeatHasCause

LEMMA EpochStep == TypeInv /\ TypeInv' /\ DiskInv /\ EpochInv /\ [Next]_vars => EpochInv'
<1> SUFFICES ASSUME TypeOK, Bounded, DiskInv, EpochInv, [Next]_vars PROVE EpochInv'
  BY DEF TypeInv
<1> USE ThreadAssumption, BoundAssumption
<1>a. /\ document \in SUBSET Record /\ sequence \in Nat /\ run \in Nat
      /\ Below(document, sequence) /\ MonotoneEpochs(document)
      /\ \A s \in served : Witnessed(s)
  BY DEF TypeOK, Bounded, EpochInv
<1>b. EpochOf(document) \in Nat \ {0}
  BY <1>a, EpochType
<1>1. ASSUME NEW t \in Threads, Mutate(t) PROVE EpochInv'
  <2>1. PICK n \in 1..MaxBatch : StageBy(t, n, sequence, run, document, EpochOf(document))
    BY <1>1 DEF Mutate
  <2>2. /\ document' = document \cup Staged(n, sequence, run, EpochOf(document))
        /\ \A u \in Threads : pc'[u] \notin {"copied", "truncating"} \/ pc'[u] = pc[u]
    BY <2>1 DEF StageBy, TypeOK
  <2>3. n \in Nat \ {0} /\ EpochOf(document) <= EpochOf(document)
    BY <1>b
  <2>4. MonotoneEpochs(document \cup Staged(n, sequence, run, EpochOf(document)))
    BY <1>a, <1>b, <2>3, EpochStaged
  <2>5. UNCHANGED <<phase, run, served, copied, snapshot, journal, behind, swallowed>>
        /\ phase = "running"
    BY <1>1 DEF Mutate, disk, ghosts, losses
  <2>6. \A s \in served : Witnessed(s)'
    BY <1>a, <2>2, <2>5, WitnessStays DEF OnDisk
  <2> QED BY <2>2, <2>4, <2>5, <2>6, EpochFrame
<1>2. ASSUME NEW t \in Threads, StageAndDrop(t) PROVE EpochInv'
  <2>1. /\ document' = document \cup Staged(1, sequence, run, NoEpoch)
        /\ UNCHANGED <<phase, run, served, pc, copied, snapshot, journal, behind, swallowed>>
        /\ phase = "running"
    BY <1>2 DEF StageAndDrop, flushes, disk, losses
  <2>2. \A r \in Staged(1, sequence, run, NoEpoch) : r.epoch = NoEpoch
    BY DEF Staged
  <2>3. MonotoneEpochs(document')
    BY <1>a, <2>1, <2>2 DEF MonotoneEpochs
  <2>4. \A s \in served : Witnessed(s)'
    BY <1>a, <2>1, WitnessStays DEF OnDisk
  <2> QED BY <2>1, <2>3, <2>4, EpochFrame
<1>3. ASSUME NEW t \in Threads, AppendRecord(t) PROVE EpochInv'
  <2> DEFINE r == NextWrite(t)
  <2>1. /\ UNCHANGED <<phase, run, document, served, pc, batch, copied, snapshot, swallowed>>
        /\ pending' = [pending EXCEPT ![t] = @ \ {r}]
        /\ journal \subseteq journal' /\ behind \subseteq behind'
        /\ r \in journal' \cup behind'
    BY <1>3 DEF AppendRecord, memory, ghosts, losses
  <2> HIDE DEF r
  <2>2. OnDisk \subseteq OnDisk' /\ r \in OnDisk'
    BY <2>1 DEF OnDisk
  <2>3. \A s \in served : Witnessed(s)'
    BY <1>a, <2>1, <2>2, WitnessStays
  <2>4. batch[Main] \ pending'[Main] \subseteq (batch[Main] \ pending[Main]) \cup {r}
    BY <2>1 DEF TypeOK
  <2>5. \A s \in served : Repeatable(s)' = Repeatable(s)
    BY <2>1 DEF Repeatable
  <2> QED BY <2>1, <2>2, <2>3, <2>4, <2>5 DEF EpochInv, EpochRepeatHasCause
<1>4. ASSUME NEW t \in Threads, AppendFails(t) PROVE EpochInv'
  <2>1. UNCHANGED <<run, document, snapshot, served, swallowed>> /\ Partial(NextWrite(t))
    BY <1>4 DEF AppendFails, losses
  <2>2. OnDisk \subseteq OnDisk'
    BY <2>1 DEF Partial, OnDisk
  <2>3. /\ phase' \in {"running", "down"}
        /\ \A u \in Threads : \/ pc'[u] \notin {"copied", "truncating"}
                              \/ pc'[u] = pc[u] /\ copied'[u] = copied[u]
    BY <1>4 DEF AppendFails, ThreadsReset, TypeOK
  <2>4. \A s \in served : Witnessed(s)'
    BY <1>a, <2>1, <2>2, <2>3, WitnessStays
  <2> QED BY <1>a, <2>1, <2>3, <2>4, EpochFrame
<1>5. ASSUME NEW t \in Threads, Acknowledge(t) PROVE EpochInv'
  <2>1. /\ UNCHANGED <<phase, run, document, served, copied, snapshot, journal, behind, swallowed>>
        /\ phase = "running" /\ pc' = [pc EXCEPT ![t] = "idle"]
    BY <1>5 DEF Acknowledge, memory, disk, losses
  <2>2. \A s \in served : Witnessed(s)'
    BY <1>a, <2>1, WitnessStays DEF OnDisk, TypeOK
  <2> QED BY <1>a, <2>1, <2>2, EpochFrame
<1>6. ASSUME NEW t \in Threads, CopyDocument(t) PROVE EpochInv'
  <2>1. /\ UNCHANGED <<phase, run, document, served, snapshot, journal, behind, swallowed>>
        /\ copied' = [copied EXCEPT ![t] = [sequence |-> sequence, document |-> document]]
        /\ pc' = [pc EXCEPT ![t] = "copied"] /\ phase = "running"
    BY <1>6 DEF CopyDocument, memory, disk, ghosts, losses
  <2>2. ASSUME NEW s \in served PROVE Witnessed(s)'
    <3>1. PICK r \in Record : r.run = s[1] /\ r.epoch = s[2] /\ (r \in swallowed \/ Secured(r))
      BY <1>a DEF Witnessed
    <3>2. Secured(r) => Secured(r)'
      BY <2>1 DEF Secured, OnDisk, TypeOK
    <3> QED BY <2>1, <3>1, <3>2 DEF Witnessed
  <2> QED BY <1>a, <2>1, <2>2, EpochFrame
<1>7. ASSUME NEW t \in Threads, ReplaceSnapshot(t) PROVE EpochInv'
  <2>1. /\ UNCHANGED <<phase, run, document, served, journal, behind, swallowed>>
        /\ pc[t] = "copied" /\ snapshot' = copied[t] /\ phase = "running"
        /\ pc' = [pc EXCEPT ![t] = "truncating"]
        /\ copied' = [copied EXCEPT ![t] = NoSnapshot]
        /\ \A u \in Threads : pc[u] # "truncating"
    BY <1>7 DEF ReplaceSnapshot, memory, StoreFree
  <2>2. ASSUME NEW s \in served PROVE Witnessed(s)'
    <3>1. PICK r \in Record : r.run = s[1] /\ r.epoch = s[2] /\ (r \in swallowed \/ Secured(r))
      BY <1>a DEF Witnessed
    <3>2. Secured(r) => Secured(r)'
      BY <2>1 DEF Secured, OnDisk, TypeOK
    <3> QED BY <2>1, <3>1, <3>2 DEF Witnessed
  <2> QED BY <1>a, <2>1, <2>2, EpochFrame
<1>8. ASSUME NEW t \in Threads, TruncateJournal(t) PROVE EpochInv'
  <2>1. /\ UNCHANGED <<phase, run, document, served, copied, snapshot, swallowed>>
        /\ pc[t] = "truncating" /\ phase = "running"
        /\ pc' = [pc EXCEPT ![t] = "idle"]
    BY <1>8 DEF TruncateJournal, memory
  <2>2. ASSUME NEW s \in served PROVE Witnessed(s)'
    <3>1. PICK r \in Record : r.run = s[1] /\ r.epoch = s[2] /\ (r \in swallowed \/ Secured(r))
      BY <1>a DEF Witnessed
    <3>2. Secured(r) => Secured(r)'
      BY <2>1 DEF Secured, OnDisk, TypeOK
    <3> QED BY <2>1, <3>1, <3>2 DEF Witnessed
  <2> QED BY <1>a, <2>1, <2>2, EpochFrame
<1>9. ASSUME NEW t \in Threads, SnapshotFails(t) PROVE EpochInv'
  <2>1. /\ UNCHANGED <<phase, run, document, served, snapshot, journal, behind, swallowed>>
        /\ phase = "running" /\ pc' = [pc EXCEPT ![t] = "idle"]
        /\ copied' = [copied EXCEPT ![t] = NoSnapshot]
    BY <1>9 DEF SnapshotFails, memory, disk, losses
  <2>2. \A s \in served : Witnessed(s)'
    BY <1>a, <2>1, WitnessStays DEF OnDisk, TypeOK
  <2> QED BY <1>a, <2>1, <2>2, EpochFrame
<1>10. CASE BeginEpoch
  <2>0. PICK next \in Nat \ {0} : next = EpochOf(document) + 1
    BY <1>b
  <2>1. /\ StageBy(Main, 2, sequence, run, document, next)
        /\ UNCHANGED <<run, copied, snapshot, journal, behind, served, swallowed>>
        /\ phase = "marking" /\ phase' = "epoch"
    BY <1>10, <2>0 DEF BeginEpoch, disk, losses
  <2>2. EpochOf(document) \in Nat /\ EpochOf(document) < next /\ EpochOf(document) <= next
    BY <1>b, <2>0
  <2>3. /\ document' = document \cup Staged(2, sequence, run, next)
        /\ batch'[Main] = Staged(2, sequence, run, next)
        /\ batch'[Main] \ pending'[Main] = {}
        /\ \A u \in Threads : pc'[u] \notin {"copied", "truncating"}
    BY <2>1 DEF StageBy, TypeOK, EpochInv
  <2>4. \A s \in served : Repeatable(s)' \/ s[2] < next
    <3> SUFFICES ASSUME NEW s \in served PROVE Repeatable(s)' \/ s[2] < next
      OBVIOUS
    <3>1. PICK r \in Record : r.run = s[1] /\ r.epoch = s[2] /\ (r \in swallowed \/ Secured(r))
      BY <1>a DEF Witnessed
    <3>2. CASE r \in swallowed
      BY <2>1, <3>1, <3>2 DEF Repeatable
    <3>3. CASE r \in document
      <4>1. r.epoch <= EpochOf(document) /\ r.epoch \in Nat
        BY <1>a, <3>3, EpochIsLargest DEF Record
      <4> QED BY <2>2, <3>1, <4>1
    <3> QED BY <3>1, <3>2, <3>3 DEF Secured
  <2>5. /\ MonotoneEpochs(document') /\ EpochOf(document') = next
        /\ \E r \in batch'[Main] : r.run = run /\ r.epoch = next
    <3>1. MonotoneEpochs(document \cup Staged(2, sequence, run, next))
      BY <1>a, <2>2, EpochStaged
    <3>2. EpochOf(document \cup Staged(2, sequence, run, next)) = next
      BY <1>a, <2>2, EpochStaged
    <3>3. \E r \in Staged(2, sequence, run, next) : r.run = run /\ r.epoch = next
      <4> DEFINE last == [seq |-> sequence + 2, run |-> run, epoch |-> next]
      <4>1. 2 \in 1..2
        OBVIOUS
      <4>2. last \in Staged(2, sequence, run, next)
        BY <4>1 DEF Staged
      <4>3. last.run = run /\ last.epoch = next
        OBVIOUS
      <4> QED BY <4>2, <4>3
    <3> QED BY <2>3, <3>1, <3>2, <3>3
  <2>6. \A s \in served : Witnessed(s)'
    BY <1>a, <2>1, <2>3, WitnessStays DEF OnDisk
  <2> QED BY <2>1, <2>3, <2>4, <2>5, <2>6 DEF EpochInv, EpochRepeatHasCause
<1>11. CASE StartServing
  <2> DEFINE e == EpochOf(document)
  <2>1. /\ UNCHANGED <<run, document, copied, snapshot, journal, behind, swallowed>>
        /\ phase = "epoch" /\ phase' = "running" /\ pending[Main] = {}
        /\ served' = served \cup {<<run, e>>}
        /\ pc' = [pc EXCEPT ![Main] = "idle"]
    BY <1>11 DEF StartServing, Flushed, disk, losses
  <2>2. \A s \in served : Witnessed(s)'
    BY <1>a, <2>1, WitnessStays DEF OnDisk, TypeOK
  <2>3. \A u \in Threads : pc'[u] \notin {"copied", "truncating"}
    BY <2>1 DEF EpochInv, TypeOK
  <2>4. ASSUME NEW s, s = <<run, e>> PROVE Witnessed(s)'
    <3>1. PICK r \in batch[Main] : r.run = run /\ r.epoch = e
      BY <2>1 DEF EpochInv
    <3>2. r \in document /\ r \in OnDisk /\ r \in Record
      BY <2>1 DEF EpochInv, Bounded, TypeOK
    <3>3. Secured(r)'
      BY <2>1, <2>3, <3>2 DEF Secured, OnDisk
    <3>4. s[1] = run /\ s[2] = e
      BY <2>4
    <3> HIDE DEF e
    <3> QED BY <3>1, <3>2, <3>3, <3>4 DEF Witnessed
  <2>5. \A s \in served : s[1] < run /\ s[1] <= run /\ (Repeatable(s) \/ s[2] < e)
    BY <2>1 DEF EpochInv
  <2>6. e \in Nat /\ \A s \in served : s[2] \in Nat /\ s[1] \in Nat
    BY <1>b DEF TypeOK
  <2>7. <<run, e>>[1] = run /\ <<run, e>>[2] = e
    OBVIOUS
  <2> HIDE DEF e
  <2>8. EpochRepeatHasCause'
    <3> SUFFICES ASSUME NEW a \in served', NEW b \in served', a[1] < b[1], b[2] <= a[2]
                 PROVE  Repeatable(a)
      BY <2>1 DEF EpochRepeatHasCause, Repeatable
    <3>1. CASE a \in served /\ b \in served
      BY <3>1 DEF EpochInv, EpochRepeatHasCause, Repeatable
    <3>2. CASE a \in served /\ b = <<run, e>>
      BY <2>5, <2>6, <2>7, <3>2
    <3>3. CASE a = <<run, e>>
      BY <1>a, <2>1, <2>5, <2>6, <2>7, <3>3
    <3> QED BY <2>1, <3>1, <3>2, <3>3
  <2>9. MonotoneEpochs(document)'
    BY <1>a, <2>1
  <2>10. ASSUME NEW s \in served' PROVE s[1] <= run' /\ Witnessed(s)'
    <3>1. CASE s \in served
      BY <2>1, <2>2, <2>5, <3>1
    <3>2. CASE s = <<run, e>>
      BY <1>a, <2>1, <2>4, <2>7, <3>2
    <3> QED BY <2>1, <3>1, <3>2
  <2> QED BY <2>1, <2>8, <2>9, <2>10 DEF EpochInv
<1>12. CASE Crash
  <2>1. /\ UNCHANGED <<run, document, snapshot, journal, behind, served, swallowed>>
        /\ phase' = "down" /\ ThreadsReset
    BY <1>12 DEF Crash, ghosts, losses
  <2>2. \A s \in served : Witnessed(s)'
    BY <1>a, <2>1, WitnessStays DEF OnDisk, ThreadsReset
  <2> QED BY <1>a, <2>1, <2>2, EpochFrame
<1>13. CASE Recover
  <2>1. /\ UNCHANGED <<copied, snapshot, journal, behind, served>>
        /\ phase = "down" /\ run' = run + 1
    BY <1>13 DEF Recover, disk
  <2>2. \A s \in served : s[1] < run' /\ s[1] <= run'
    BY <2>1 DEF EpochInv, TypeOK
  <2>3. \A u \in Threads : pc[u] = "idle"
    BY <2>1 DEF Bounded, Up
  <2>4. CASE Readable
    <3>1. /\ StageBy(Main, 2, LastSequence, run + 1, Recovered, EpochOf(Recovered))
          /\ phase' = "marking" /\ swallowed' = swallowed \cup (behind \ Recovered)
      BY <1>13, <2>4 DEF Recover
    <3>2. /\ Recovered \in SUBSET Record /\ LastSequence \in Nat
          /\ Below(Recovered, LastSequence) /\ run + 1 \in Nat
      BY RecoveredType DEF TypeOK
    <3>3. EpochOf(Recovered) \in Nat \ {0} /\ EpochOf(Recovered) <= EpochOf(Recovered)
      BY <3>2, EpochType
    <3>4. Recovered \subseteq document
      BY DEF Recovered, Replayed, DiskInv
    <3>5. MonotoneEpochs(Recovered)
      BY <1>a, <3>4 DEF MonotoneEpochs
    <3>6. /\ document' = Recovered \cup Staged(2, LastSequence, run + 1, EpochOf(Recovered))
          /\ batch'[Main] \ pending'[Main] = {}
          /\ \A u \in Threads : pc'[u] \notin {"copied", "truncating"}
      BY <2>3, <3>1 DEF StageBy, TypeOK
    <3>7. MonotoneEpochs(Recovered \cup Staged(2, LastSequence, run + 1, EpochOf(Recovered)))
      BY <3>2, <3>3, <3>5, EpochStaged
    <3>8. snapshot.document \cup journal \subseteq Recovered
      BY DEF Recovered, Replayed, DiskInv, Complete, TypeOK, Snapshot, Record
    <3>9. ASSUME NEW s \in served PROVE Witnessed(s)'
      <4>1. PICK r \in Record : r.run = s[1] /\ r.epoch = s[2] /\ (r \in swallowed \/ Secured(r))
        BY <1>a DEF Witnessed
      <4>2. r \in swallowed' \/ r \in Recovered
        BY <3>1, <3>8, <4>1 DEF Secured, OnDisk
      <4>3. r \in Recovered => r \in swallowed' \/ Secured(r)'
        BY <2>1, <3>1, <3>6, <3>8, <4>1 DEF Secured, OnDisk
      <4> QED BY <4>1, <4>2, <4>3 DEF Witnessed
    <3>10. EpochRepeatHasCause'
      BY <2>1, <3>1 DEF EpochInv, EpochRepeatHasCause
    <3> QED BY <2>1, <2>2, <3>1, <3>6, <3>7, <3>9, <3>10 DEF EpochInv
  <2>5. CASE ~Readable
    <3>1. UNCHANGED <<document, pc, swallowed>> /\ phase' = "refused"
      BY <1>13, <2>5 DEF Recover
    <3>2. \A s \in served : Witnessed(s)'
      BY <1>a, <2>1, <3>1, WitnessStays DEF OnDisk
    <3> QED BY <1>a, <2>1, <2>2, <3>1, <3>2 DEF EpochInv, EpochRepeatHasCause
  <2> QED BY <2>4, <2>5
<1>14. CASE UNCHANGED vars
  <2>1. \A s \in served : Witnessed(s)'
    BY <1>a, <1>14, WitnessStays DEF vars, OnDisk
  <2>2. \A s \in served : Repeatable(s)' = Repeatable(s)
    BY <1>14 DEF Repeatable, vars
  <2> QED BY <1>14, <2>1, <2>2 DEF vars, EpochInv, EpochRepeatHasCause, OnDisk
<1> QED BY <1>1, <1>2, <1>3, <1>4, <1>5, <1>6, <1>7, <1>8, <1>9, <1>10, <1>11, <1>12, <1>13, <1>14
    DEF Next

(* A later run serves a later epoch unless the record of the earlier epoch *)
(* was swallowed behind a torn one: the record is on disk before the epoch *)
(* is served, and no snapshot ever lacks it.                               *)
THEOREM EpochRepeatAlwaysHasCause == Spec => []EpochRepeatHasCause
<1>1. EpochInv => EpochRepeatHasCause
  BY DEF EpochInv
<1> QED BY <1>1, TypeInit, TypeStep, DiskInit, DiskStep, EpochInit, EpochStep, PTL DEF Spec

-----------------------------------------------------------------------------
(* The inductive invariant behind HealthyStoreIsReadable.  In memory each  *)
(* sequence number has one record, and later runs use later numbers.  While*)
(* every failure would have been reported, a record above the snapshot is  *)
(* in the journal or belongs to this run and is missing for a known cause. *)
(* R has exactly one record for each sequence number in lo+1 .. hi.        *)
Covers(R, lo, hi) ==
    /\ lo <= hi
    /\ \A r \in R : lo < r.seq /\ r.seq <= hi
    /\ \A r, q \in R : r.seq = q.seq => r = q
    /\ \A n \in Nat : lo < n /\ n <= hi => \E r \in R : r.seq = n

(* What is replayed starts right above the snapshot, or anywhere when there*)
(* is none (recover does not compare a previous sequence of 0).            *)
Contiguous(R, base, hi) == \E lo \in Nat : base \in {0, lo} /\ Covers(R, lo, hi)

Missing == behind \cup InFlight \cup dropped \cup overwritten

Located == \A r \in document : snapshot.sequence < r.seq =>
               r \in journal \/ (r.run = run /\ r \in Missing)

EarlierBelow(n) == \A r \in document : r.run < run => r.seq <= n

Numbered ==
    /\ Covers(document, 0, sequence)
    /\ \A r \in document : r.run <= run
    /\ \A r, q \in document : r.run < q.run => r.seq < q.seq

ReadInv ==
    /\ Numbered
    /\ behind # {} => torn # 0
    /\ Up => 0 < sequence
    /\ Up /\ healthy /\ torn # 0 => \A r \in journal : r.run < run
    /\ Up /\ healthy => Located
    /\ \A t \in Threads :
          /\ \A r \in batch[t] : r.run = run
          /\ pc[t] = "copied" => 0 < copied[t].sequence /\ EarlierBelow(copied[t].sequence)
          /\ pc[t] = "truncating" => 0 < snapshot.sequence /\ EarlierBelow(snapshot.sequence)
    /\ phase = "marking" => \A t \in Threads \ {Main} : pc[t] = "idle"
    /\ snapshot.sequence = 0 /\ journal # {} => \E q \in journal : q.seq = 1
    /\ Up /\ snapshot.sequence = 0 /\ torn = 0 /\ journal = {} =>
          phase = "marking" /\ \E q \in pending[Main] : q.seq = 1

LEMMA CoversNone == ASSUME NEW n \in Nat PROVE Covers({}, n, n)
BY DEF Covers

LEMMA CoversStaged ==
    ASSUME NEW n \in Nat, NEW from \in Nat, NEW owner \in Nat, NEW epoch \in Nat
    PROVE  Covers(Staged(n, from, owner, epoch), from, from + n)
<1> DEFINE rec(i) == [seq |-> from + i, run |-> owner,
                      epoch |-> IF i = n THEN epoch ELSE NoEpoch]
           records == Staged(n, from, owner, epoch)
<1>1. \A r \in records : \E i \in 1..n : r = rec(i) /\ r.seq = from + i
  BY DEF Staged
<1>2. \A i \in 1..n : rec(i) \in records /\ rec(i).seq = from + i
  BY DEF Staged
<1> HIDE DEF rec, records
<1>3. \A r \in records : from < r.seq /\ r.seq <= from + n
  BY <1>1
<1>4. \A r, q \in records : r.seq = q.seq => r = q
  BY <1>1
<1>5. ASSUME NEW m \in Nat, from < m, m <= from + n PROVE \E r \in records : r.seq = m
  <2>1. m - from \in 1..n /\ from + (m - from) = m
    BY <1>5
  <2> QED BY <1>2, <2>1
<1>6. Covers(records, from, from + n)
  BY <1>3, <1>4, <1>5 DEF Covers
<1> QED BY <1>6 DEF records

(* Conversely, what passes the gap check is contiguous up to the last      *)
(* sequence recover() reports: the smallest record above a missing number  *)
(* would have shown the gap.                                               *)
LEMMA ReadableContiguous ==
    ASSUME TypeOK, Bounded, Readable
    PROVE  Contiguous(Replayed, snapshot.sequence, LastSequence)
<1>1. /\ snapshot.sequence \in Nat /\ Replayed \in SUBSET Record /\ LastSequence \in Nat
      /\ \A r \in Replayed : r.seq \in Nat /\ r.seq <= LastSequence
  <2>1. Replayed \subseteq journal /\ journal \in SUBSET Record /\ snapshot.sequence \in Nat
    BY DEF TypeOK, Snapshot, Replayed
  <2> QED BY <2>1, RecoveredType DEF Below, Record
<1>2. CASE Replayed = {}
  BY <1>1, <1>2, CoversNone DEF Contiguous, LastSequence
<1>3. CASE Replayed # {}
  <2>1. PICK m \in Replayed : \A q \in Replayed : m.seq <= q.seq
    BY <1>1, <1>3, FirstRecord
  <2>2. \E z \in Replayed : z.seq = LastSequence
    <3>1. \E r \in Replayed : \A q \in Replayed : q.seq <= r.seq
      BY <1>1, <1>3, LatestRecord
    <3>2. \E n \in {r.seq : r \in Replayed} : \A r \in Replayed : r.seq <= n
      BY <3>1
    <3>3. LastSequence \in {r.seq : r \in Replayed}
      BY <1>3, <3>2 DEF LastSequence
    <3> QED BY <3>3
  <2>3. PICK z \in Replayed : z.seq = LastSequence
    BY <2>2
  <2>4. m.seq \in Nat \ {0} /\ m.seq <= LastSequence
    BY <1>1 DEF Record
  <2> DEFINE lo == m.seq - 1
  <2>5. lo \in Nat /\ lo < LastSequence /\ \A q \in Replayed : q.seq > lo
    BY <1>1, <2>1, <2>4
  <2>6. ASSUME NEW r \in Replayed, NEW q \in Replayed, r.seq = q.seq PROVE r = q
    BY <2>6 DEF Readable, Gap
  <2>7. snapshot.sequence \in {0, lo}
    <3>1. \A q \in Replayed : q.seq # m.seq - 1
      BY <1>1, <2>1, <2>4
    <3> QED BY <3>1 DEF Readable, Gap
  <2>8. ASSUME NEW n \in Nat, lo < n, n <= LastSequence, \A r \in Replayed : r.seq # n
        PROVE  FALSE
    <3> DEFINE above == {r \in Replayed : r.seq > n}
    <3>1. above \in SUBSET Record /\ z \in above
      BY <1>1, <2>3, <2>8
    <3>2. PICK g \in above : \A q \in above : g.seq <= q.seq
      <4> HIDE DEF above
      <4> QED BY <3>1, FirstRecord
    <3>3. g \in Replayed /\ g.seq \in Nat /\ n < g.seq
      BY <1>1, <3>2
    <3>4. ASSUME NEW q \in Replayed, q.seq = g.seq - 1 PROVE FALSE
      <4>1. q.seq \in Nat /\ q.seq # n
        BY <1>1, <2>8
      <4>2. q \in above
        BY <3>3, <3>4, <4>1
      <4> QED BY <3>2, <3>3, <3>4, <4>2
    <3>5. m.seq < g.seq
      BY <2>4, <2>8, <3>3
    <3> QED BY <3>3, <3>4, <3>5 DEF Readable, Gap
  <2>9. Covers(Replayed, lo, LastSequence)
    <3> HIDE DEF lo
    <3> QED BY <1>1, <2>5, <2>6, <2>8 DEF Covers
  <2> HIDE DEF lo
  <2> QED BY <2>5, <2>7, <2>9 DEF Contiguous
<1> QED BY <1>2, <1>3

(* Two adjacent stretches make one.                                        *)
LEMMA CoversJoin ==
    ASSUME NEW R \in SUBSET Record, NEW Q \in SUBSET Record, NEW lo \in Nat, NEW mid \in Nat,
           NEW hi \in Nat, Covers(R, lo, mid), Covers(Q, mid, hi)
    PROVE  Covers(R \cup Q, lo, hi)
<1>1. /\ \A r \in R : r.seq \in Nat /\ lo < r.seq /\ r.seq <= mid
      /\ \A q \in Q : q.seq \in Nat /\ mid < q.seq /\ q.seq <= hi
      /\ lo <= mid /\ mid <= hi
  BY DEF Covers, Record
<1>2. \A r, q \in R \cup Q : r.seq = q.seq => r = q
  BY <1>1 DEF Covers
<1>3. \A n \in Nat : lo < n /\ n <= hi => \E r \in R \cup Q : r.seq = n
  <2> TAKE n \in Nat
  <2>1. n <= mid \/ mid < n
    BY SMT
  <2> QED BY <2>1 DEF Covers
<1>4. \A r \in R \cup Q : lo < r.seq /\ r.seq <= hi
  BY <1>1
<1>5. lo <= hi
  BY <1>1
<1> QED BY <1>2, <1>3, <1>4, <1>5 DEF Covers

(* Staging on top of the document numbers on.                              *)
LEMMA NumberedStaged ==
    ASSUME TypeOK, Numbered, NEW n \in Nat, NEW epoch \in Nat,
           document' = document \cup Staged(n, sequence, run, epoch),
           sequence' = sequence + n, run' = run
    PROVE  Numbered'
<1> DEFINE records == Staged(n, sequence, run, epoch)
<1>1. /\ sequence \in Nat /\ run \in Nat /\ document \in SUBSET Record
      /\ records \in SUBSET Record
      /\ \A r \in records : sequence < r.seq
  BY StagedType DEF TypeOK
<1>2. Covers(records, sequence, sequence + n)
  BY <1>1, CoversStaged
<1>3. \A r \in records : r.run = run
  BY DEF Staged
<1>4. document' = document \cup records
  OBVIOUS
<1> HIDE DEF records
<1>5. Covers(document \cup records, 0, sequence + n)
  BY <1>1, <1>2, CoversJoin DEF Numbered
<1>6. \A r \in document : r.seq \in Nat /\ r.seq <= sequence /\ r.run \in Nat /\ r.run <= run
  BY <1>1 DEF Numbered, Covers, Record
<1>7. \A r \in records : r.seq \in Nat
  BY <1>1 DEF Record
<1>8. \A r, q \in document \cup records : r.run < q.run => r.seq < q.seq
  <2> SUFFICES ASSUME NEW r \in document \cup records, NEW q \in document \cup records,
                      r.run < q.run
               PROVE  r.seq < q.seq
    OBVIOUS
  <2>1. CASE r \in document /\ q \in document
    BY <2>1 DEF Numbered
  <2>2. CASE r \in document /\ q \in records
    BY <1>1, <1>6, <1>7, <2>2
  <2>3. CASE r \in records
    BY <1>1, <1>3, <1>6, <2>3
  <2> QED BY <2>1, <2>2, <2>3
<1>9. \A r \in document \cup records : r.run <= run
  BY <1>1, <1>3, <1>6
<1> QED BY <1>4, <1>5, <1>8, <1>9 DEF Numbered

(* What a restart recovers is numbered without a hole, and so is the mark  *)
(* it stages on top, in the name of a new run.                             *)
LEMMA NumberedRecovered ==
    ASSUME TypeOK, Bounded, DiskInv, ReadInv, Readable, NEW epoch \in Nat,
           document' = Recovered \cup Staged(2, LastSequence, run + 1, epoch),
           sequence' = LastSequence + 2, run' = run + 1
    PROVE  Numbered'
<1> DEFINE marks == Staged(2, LastSequence, run + 1, epoch)
<1>1. /\ LastSequence \in Nat /\ Below(Recovered, LastSequence) /\ Recovered \in SUBSET Record
      /\ snapshot.sequence <= LastSequence /\ snapshot.sequence \in Nat /\ run + 1 \in Nat
      /\ run \in Nat /\ sequence \in Nat
  BY RecoveredType DEF TypeOK, Snapshot
<1>2. /\ marks \in SUBSET Record /\ \A r \in marks : LastSequence < r.seq
      /\ Covers(marks, LastSequence, LastSequence + 2)
  BY <1>1, StagedType, CoversStaged
<1>3. \A r \in marks : r.run = run + 1
  BY DEF Staged
<1>4. document' = Recovered \cup marks
  OBVIOUS
<1> HIDE DEF marks
<1>5. Recovered \subseteq document
  BY DEF Recovered, Replayed, DiskInv
<1>6. PICK lo \in Nat : snapshot.sequence \in {0, lo} /\ Covers(Replayed, lo, LastSequence)
  BY ReadableContiguous DEF Contiguous
<1>7. ASSUME NEW n \in Nat, 0 < n, n <= snapshot.sequence PROVE \E r \in Recovered : r.seq = n
  <2>1. n <= sequence
    BY <1>1, <1>7 DEF Bounded
  <2>2. PICK r \in document : r.seq = n
    BY <1>7, <2>1 DEF ReadInv, Numbered, Covers
  <2> QED BY <1>7, <2>2 DEF DiskInv, Complete, Recovered
<1>8. ASSUME NEW n \in Nat, snapshot.sequence < n, n <= LastSequence
      PROVE  \E r \in Recovered : r.seq = n
  <2>1. lo = snapshot.sequence \/ (snapshot.sequence = 0 /\ Replayed # {})
    <3>1. Replayed = {} => LastSequence = snapshot.sequence
      BY DEF LastSequence
    <3> QED BY <1>1, <1>6, <1>8, <3>1
  <2>2. lo < n
    <3>1. CASE lo = snapshot.sequence
      BY <1>8, <3>1
    <3>2. CASE snapshot.sequence = 0 /\ Replayed # {}
      <4>1. PICK q \in journal : q.seq = 1
        BY <3>2 DEF ReadInv, Replayed
      <4>2. q \in Replayed
        BY <3>2, <4>1 DEF Replayed
      <4>3. lo < 1
        BY <1>6, <4>1, <4>2 DEF Covers
      <4> QED BY <1>8, <3>2, <4>3
    <3> QED BY <2>1, <3>1, <3>2
  <2>3. PICK r \in Replayed : r.seq = n
    BY <1>6, <1>8, <2>2 DEF Covers
  <2> QED BY <2>3 DEF Recovered
<1>9. \A r \in Recovered : r.seq \in Nat /\ 0 < r.seq /\ r.seq <= LastSequence
  BY <1>1 DEF Below, Record
<1>10. \A r, q \in Recovered : r.seq = q.seq => r = q
  BY <1>5 DEF ReadInv, Numbered, Covers
<1>11. \A n \in Nat : 0 < n /\ n <= LastSequence => \E r \in Recovered : r.seq = n
  BY <1>1, <1>7, <1>8
<1>12. Covers(Recovered, 0, LastSequence)
  BY <1>1, <1>9, <1>10, <1>11 DEF Covers
<1>13. Covers(Recovered \cup marks, 0, LastSequence + 2)
  BY <1>1, <1>2, <1>12, CoversJoin
<1>14. \A r \in Recovered : r.run \in Nat /\ r.run <= run
  BY <1>1, <1>5 DEF ReadInv, Numbered, Record
<1>15. \A r \in marks : r.seq \in Nat
  BY <1>2 DEF Record
<1>16. ASSUME NEW r \in Recovered \cup marks, NEW q \in Recovered \cup marks, r.run < q.run
       PROVE  r.seq < q.seq
  <2>1. CASE r \in Recovered /\ q \in Recovered
    BY <1>5, <1>16, <2>1 DEF ReadInv, Numbered
  <2>2. CASE r \in Recovered /\ q \in marks
    BY <1>1, <1>2, <1>9, <1>15, <2>2
  <2>3. CASE r \in marks
    BY <1>1, <1>3, <1>14, <1>16, <2>3
  <2> QED BY <2>1, <2>2, <2>3
<1>17. \A r \in Recovered \cup marks : r.run <= run + 1
  BY <1>1, <1>3, <1>14
<1> QED BY <1>4, <1>13, <1>16, <1>17 DEF Numbered

LEMMA ReadInit == Init => ReadInv
<1>1. Covers({}, 0, 0)
  BY CoversNone
<1> QED BY <1>1 DEF Init, ReadInv, Numbered, Up

(* Staging by a thread that has nothing in flight: the new records are in  *)
(* flight, everything else is where it was.                                *)
LEMMA StagedLocated ==
    ASSUME TypeOK, Bounded, Located, NEW fresh,
           document' = document \cup fresh, UNCHANGED <<snapshot, journal, run>>,
           Missing \subseteq Missing', fresh \subseteq Missing', \A r \in fresh : r.run = run
    PROVE  Located'
BY DEF Located

(* A thread's batch has nothing in flight when it is idle or flushed.      *)
LEMMA InFlightGrows ==
    ASSUME TypeOK, NEW t \in Threads, pending[t] = {}, NEW fresh,
           pending' = [pending EXCEPT ![t] = fresh]
    PROVE  InFlight \subseteq InFlight' /\ fresh \subseteq InFlight'
<1>1. pending'[t] = fresh /\ \A u \in Threads : pending[u] \subseteq pending'[u]
  BY DEF TypeOK
<1> QED BY <1>1 DEF InFlight

(* Earlier runs stay below while this run numbers on.                      *)
LEMMA EarlierStays ==
    ASSUME NEW n, NEW fresh, EarlierBelow(n), document' = document \cup fresh, UNCHANGED run,
           run \in Nat, \A r \in fresh : r.run = run
    PROVE  EarlierBelow(n)'
BY DEF EarlierBelow

LEMMA ReadStep ==
    TypeInv /\ TypeInv' /\ DiskInv /\ ReadInv /\ [Next]_vars => ReadInv'
<1> SUFFICES ASSUME TypeOK, Bounded, TypeOK', Bounded', DiskInv, ReadInv, [Next]_vars
             PROVE  ReadInv'
  BY DEF TypeInv
<1> USE ThreadAssumption, BoundAssumption
<1>a. sequence \in Nat /\ run \in Nat /\ document \in SUBSET Record /\ Below(document, sequence)
  BY DEF TypeOK, Bounded
<1>b. EpochOf(document) \in Nat /\ EpochOf(document) + 1 \in Nat
  BY <1>a, EpochType
<1>c. EarlierBelow(sequence)
  BY <1>a DEF EarlierBelow, Below
<1>1. ASSUME NEW t \in Threads, Mutate(t) PROVE ReadInv'
  <2>1. PICK n \in 1..MaxBatch : StageBy(t, n, sequence, run, document, EpochOf(document))
    BY <1>1 DEF Mutate
  <2> DEFINE fresh == Staged(n, sequence, run, EpochOf(document))
  <2>2. /\ document' = document \cup fresh /\ sequence' = sequence + n
        /\ pending' = [pending EXCEPT ![t] = fresh] /\ batch' = [batch EXCEPT ![t] = fresh]
        /\ pc' = [pc EXCEPT ![t] = "flushing"]
    BY <2>1 DEF StageBy
  <2>3. /\ UNCHANGED <<phase, run, healthy, copied, snapshot, journal, torn, behind, dropped,
                      overwritten>>
        /\ phase = "running" /\ pc[t] = "idle"
    BY <1>1 DEF Mutate, disk, ghosts, losses
  <2>4. \A r \in fresh : r.run = run
    BY DEF Staged
  <2>5. Numbered'
    BY <1>a, <1>b, <2>2, <2>3, NumberedStaged DEF ReadInv
  <2> HIDE DEF fresh
  <2>6. pending[t] = {}
    BY <2>3 DEF TypeOK
  <2>7. InFlight \subseteq InFlight' /\ fresh \subseteq InFlight'
    BY <2>2, <2>6, InFlightGrows
  <2>8. Missing \subseteq Missing' /\ fresh \subseteq Missing'
    BY <2>3, <2>7 DEF Missing
  <2>9. Up' /\ healthy' => Located'
    BY <2>2, <2>3, <2>4, <2>8, StagedLocated DEF ReadInv, Up
  <2>10. \A m : EarlierBelow(m) => EarlierBelow(m)'
    BY <1>a, <2>2, <2>3, <2>4 DEF EarlierBelow
  <2>11. 0 < sequence'
    BY <1>a, <2>1, <2>2
  <2>12. \A u \in Threads :
           /\ \A r \in batch'[u] : r.run = run'
           /\ pc'[u] = "copied" => 0 < copied'[u].sequence /\ EarlierBelow(copied[u].sequence)'
           /\ pc'[u] = "truncating" => 0 < snapshot'.sequence /\ EarlierBelow(snapshot.sequence)'
    BY <2>2, <2>3, <2>4, <2>10 DEF ReadInv, TypeOK
  <2> QED BY <2>3, <2>5, <2>9, <2>11, <2>12 DEF ReadInv, Up
<1>2. ASSUME NEW t \in Threads, StageAndDrop(t) PROVE ReadInv'
  <2> DEFINE fresh == Staged(1, sequence, run, NoEpoch)
  <2>1. /\ UNCHANGED <<phase, run, healthy, pc, pending, batch, copied, snapshot, journal, torn,
                      behind, overwritten>>
        /\ sequence' = sequence + 1 /\ document' = document \cup fresh
        /\ dropped' = dropped \cup fresh /\ phase = "running"
    BY <1>2 DEF StageAndDrop, flushes, disk, losses
  <2>2. \A r \in fresh : r.run = run
    BY DEF Staged
  <2>3. Numbered'
    BY <1>a, <2>1, NumberedStaged DEF ReadInv, NoEpoch
  <2> HIDE DEF fresh
  <2>4. Missing \subseteq Missing' /\ fresh \subseteq Missing'
    BY <2>1 DEF Missing, InFlight
  <2>5. Up' /\ healthy' => Located'
    BY <2>1, <2>2, <2>4, StagedLocated DEF ReadInv, Up
  <2>6. \A m : EarlierBelow(m) => EarlierBelow(m)'
    BY <1>a, <2>1, <2>2 DEF EarlierBelow
  <2>7. 0 < sequence'
    BY <1>a, <2>1
  <2>8. \A u \in Threads :
           /\ \A r \in batch'[u] : r.run = run'
           /\ pc'[u] = "copied" => 0 < copied'[u].sequence /\ EarlierBelow(copied[u].sequence)'
           /\ pc'[u] = "truncating" => 0 < snapshot'.sequence /\ EarlierBelow(snapshot.sequence)'
    BY <2>1, <2>6 DEF ReadInv
  <2> QED BY <2>1, <2>3, <2>5, <2>7, <2>8 DEF ReadInv, Up
<1>3. ASSUME NEW t \in Threads, AppendRecord(t) PROVE ReadInv'
  <2> DEFINE r == NextWrite(t)
  <2>1. /\ UNCHANGED <<phase, run, sequence, document, healthy, pc, batch, copied, snapshot, torn,
                      dropped, overwritten>>
        /\ pending' = [pending EXCEPT ![t] = @ \ {r}]
        /\ \/ torn = 0 /\ journal' = journal \cup {r} /\ UNCHANGED behind
           \/ torn # 0 /\ behind' = behind \cup {r} /\ UNCHANGED journal
        /\ pending[t] # {} /\ Ready(t) /\ pc[t] = "flushing"
    BY <1>3 DEF AppendRecord, memory, ghosts, losses
  <2>2. r \in pending[t] /\ r \in batch[t] /\ r.run = run /\ \A q \in pending[t] : r.seq <= q.seq
    <3>1. \E m \in pending[t] : \A q \in pending[t] : m.seq <= q.seq
      BY <2>1, FirstRecord DEF TypeOK
    <3>2. r \in pending[t] /\ \A q \in pending[t] : r.seq <= q.seq
      BY <3>1 DEF NextWrite
    <3> QED BY <3>2 DEF TypeOK, ReadInv
  <2> HIDE DEF r
  <2>3. Numbered'
    BY <2>1 DEF ReadInv, Numbered
  <2>4. Missing \subseteq Missing' \cup {r} /\ (r \in journal' \/ r \in Missing')
    <3>1. InFlight \subseteq InFlight' \cup {r}
      BY <2>1 DEF InFlight, TypeOK
    <3> QED BY <2>1, <3>1 DEF Missing
  <2>5. Up' /\ healthy' => Located'
    <3> SUFFICES ASSUME Located PROVE Located'
      BY <2>1 DEF ReadInv, Up
    <3> SUFFICES ASSUME NEW q \in document, snapshot.sequence < q.seq
                 PROVE  q \in journal' \/ (q.run = run /\ q \in Missing')
      BY <2>1 DEF Located
    <3>1. q \in journal \/ (q.run = run /\ q \in Missing)
      BY DEF Located
    <3> QED BY <2>1, <2>2, <2>4, <3>1
  <2>6. snapshot.sequence = 0 /\ journal' # {} => \E q \in journal' : q.seq = 1
    <3> SUFFICES ASSUME snapshot.sequence = 0, journal = {}, torn = 0
                 PROVE  \E q \in journal' : q.seq = 1
      BY <2>1 DEF ReadInv
    <3>1. Up
      BY <2>1 DEF Ready, Up
    <3>2. phase = "marking" /\ \E q \in pending[Main] : q.seq = 1
      BY <3>1 DEF ReadInv
    <3>3. t = Main
      BY <2>1, <3>2 DEF Ready
    <3>4. r.seq \in Nat \ {0} /\ r.seq <= 1
      BY <2>2, <3>2, <3>3 DEF TypeOK, Record
    <3> QED BY <2>1, <3>4
  <2>7. \A u \in Threads :
           /\ \A q \in batch'[u] : q.run = run'
           /\ pc'[u] = "copied" => 0 < copied'[u].sequence /\ EarlierBelow(copied[u].sequence)'
           /\ pc'[u] = "truncating" => 0 < snapshot'.sequence /\ EarlierBelow(snapshot.sequence)'
    BY <2>1 DEF ReadInv, EarlierBelow
  <2>8. behind' # {} => torn' # 0
    BY <2>1 DEF ReadInv
  <2>9. Up' /\ healthy' /\ torn' # 0 => \A q \in journal' : q.run < run'
    BY <2>1 DEF ReadInv, Up
  <2>10. Up' /\ snapshot'.sequence = 0 /\ torn' = 0 /\ journal' = {} =>
            phase' = "marking" /\ \E q \in pending'[Main] : q.seq = 1
    BY <2>1
  <2>11. /\ Up' => 0 < sequence'
         /\ phase' = "marking" => \A u \in Threads \ {Main} : pc'[u] = "idle"
    BY <2>1 DEF ReadInv, Up
  <2>12. snapshot'.sequence = snapshot.sequence
    BY <2>1
  <2> QED BY <2>3, <2>5, <2>6, <2>7, <2>8, <2>9, <2>10, <2>11, <2>12 DEF ReadInv
<1>4. ASSUME NEW t \in Threads, AppendFails(t) PROVE ReadInv'
  <2> DEFINE r == NextWrite(t)
  <2>1. /\ UNCHANGED <<run, sequence, document, snapshot, dropped, overwritten>>
        /\ Partial(r) /\ pending[t] # {} /\ Ready(t)
        /\ phase' \in {"running", "down"} /\ (phase' = "running" => phase = "running")
    BY <1>4 DEF AppendFails, losses
  <2>2. ~healthy'
    BY <1>4, Zenon DEF AppendFails
  <2>3. r \in pending[t] /\ \A q \in pending[t] : r.seq <= q.seq
    <3>1. \E m \in pending[t] : \A q \in pending[t] : m.seq <= q.seq
      BY <2>1, FirstRecord DEF TypeOK
    <3> QED BY <3>1 DEF NextWrite
  <2> HIDE DEF r
  <2>4. \A u \in Threads :
           /\ batch'[u] \subseteq batch[u]
           /\ pc'[u] \in {"copied", "truncating"} => pc'[u] = pc[u] /\ copied'[u] = copied[u]
    BY <1>4 DEF AppendFails, ThreadsReset, TypeOK
  <2>5. snapshot.sequence = 0 /\ journal' # {} => \E q \in journal' : q.seq = 1
    <3> SUFFICES ASSUME snapshot.sequence = 0, journal = {}, torn = 0, r \in journal'
                 PROVE  \E q \in journal' : q.seq = 1
      BY <2>1 DEF ReadInv, Partial
    <3>1. Up
      BY <2>1 DEF Ready, Up
    <3>2. phase = "marking" /\ \E q \in pending[Main] : q.seq = 1
      BY <3>1 DEF ReadInv
    <3>3. t = Main
      BY <2>1, <3>2 DEF Ready
    <3>4. r.seq \in Nat \ {0} /\ r.seq <= 1
      BY <2>3, <3>2, <3>3 DEF TypeOK, Record
    <3> QED BY <3>4
  <2>6. Numbered'
    BY <2>1 DEF ReadInv, Numbered
  <2>7. \A u \in Threads :
           /\ \A q \in batch'[u] : q.run = run'
           /\ pc'[u] = "copied" => 0 < copied'[u].sequence /\ EarlierBelow(copied[u].sequence)'
           /\ pc'[u] = "truncating" => 0 < snapshot'.sequence /\ EarlierBelow(snapshot.sequence)'
    BY <2>1, <2>4 DEF ReadInv, EarlierBelow
  <2>8. behind' # {} => torn' # 0
    BY <2>1 DEF ReadInv, Partial
  <2>9. Up' /\ snapshot'.sequence = 0 /\ torn' = 0 /\ journal' = {} =>
            phase' = "marking" /\ \E q \in pending'[Main] : q.seq = 1
    <3> SUFFICES ASSUME Up', snapshot.sequence = 0, torn' = 0, journal' = {} PROVE FALSE
      BY <2>1
    <3>1. phase = "running" /\ torn = 0 /\ journal = {}
      BY <2>1 DEF Up, Partial
    <3> QED BY <3>1 DEF ReadInv, Up
  <2>10. Up' => 0 < sequence'
    BY <2>1 DEF ReadInv, Up
  <2>11. snapshot'.sequence = snapshot.sequence /\ phase' # "marking"
    BY <2>1
  <2> QED BY <2>2, <2>5, <2>6, <2>7, <2>8, <2>9, <2>10, <2>11 DEF ReadInv
<1>5. ASSUME UNCHANGED <<run, sequence, document, healthy, pending, snapshot, journal, torn, behind,
                        dropped, overwritten>>,
             Up, phase' \in {phase, "running"},
             \A u \in Threads :
                /\ batch'[u] \subseteq batch[u]
                /\ pc'[u] = "copied" => \/ pc[u] = "copied" /\ copied'[u] = copied[u]
                                        \/ copied'[u].sequence = sequence
                /\ pc'[u] = "truncating" => pc[u] = "truncating"
                /\ phase' = "marking" /\ u # Main => pc'[u] = pc[u],
             phase = "marking" => pending[Main] = {}
      PROVE  ReadInv'
  <2>1. Numbered' /\ (healthy' => Located') /\ Up'
    BY <1>5 DEF ReadInv, Numbered, Located, Missing, InFlight, Up
  <2>2. \A m : EarlierBelow(m) => EarlierBelow(m)'
    BY <1>5 DEF EarlierBelow
  <2>3. 0 < sequence
    BY <1>5 DEF ReadInv
  <2>4. \A u \in Threads :
           /\ \A q \in batch'[u] : q.run = run'
           /\ pc'[u] = "copied" => 0 < copied'[u].sequence /\ EarlierBelow(copied[u].sequence)'
           /\ pc'[u] = "truncating" => 0 < snapshot'.sequence /\ EarlierBelow(snapshot.sequence)'
    BY <1>5, <1>c, <2>2, <2>3 DEF ReadInv
  <2>5. ~(snapshot'.sequence = 0 /\ torn' = 0 /\ journal' = {})
    BY <1>5 DEF ReadInv
  <2>6. phase' = "marking" => \A u \in Threads \ {Main} : pc'[u] = "idle"
    BY <1>5 DEF ReadInv
  <2>7. healthy' /\ torn' # 0 => \A q \in journal' : q.run < run'
    BY <1>5 DEF ReadInv
  <2>8. /\ snapshot'.sequence = 0 /\ journal' # {} => \E q \in journal' : q.seq = 1
        /\ behind' # {} => torn' # 0
    BY <1>5 DEF ReadInv
  <2> QED BY <1>5, <2>1, <2>3, <2>4, <2>5, <2>6, <2>7, <2>8 DEF ReadInv
<1>6. ASSUME NEW t \in Threads, Acknowledge(t) PROVE ReadInv'
  BY <1>5, <1>6 DEF Acknowledge, memory, disk, losses, TypeOK, Up
<1>7. ASSUME NEW t \in Threads, CopyDocument(t) PROVE ReadInv'
  BY <1>5, <1>7 DEF CopyDocument, memory, disk, ghosts, losses, TypeOK, Up
<1>8. ASSUME NEW t \in Threads, SnapshotFails(t) PROVE ReadInv'
  BY <1>5, <1>8 DEF SnapshotFails, memory, disk, losses, TypeOK, Up
<1>9. CASE StartServing
  BY <1>5, <1>9 DEF StartServing, disk, losses, TypeOK, Up
<1>10. ASSUME NEW t \in Threads, ReplaceSnapshot(t) PROVE ReadInv'
  <2>1. /\ UNCHANGED <<phase, run, sequence, document, healthy, pending, batch, journal, torn,
                      behind, dropped>>
        /\ phase = "running" /\ pc[t] = "copied" /\ snapshot' = copied[t]
        /\ pc' = [pc EXCEPT ![t] = "truncating"]
        /\ copied' = [copied EXCEPT ![t] = NoSnapshot]
        /\ overwritten' = overwritten \cup After(snapshot.document, copied[t].sequence)
        /\ \A u \in Threads : pc[u] # "truncating"
    BY <1>10 DEF ReplaceSnapshot, memory, StoreFree
  <2>2. /\ copied[t].sequence \in Nat /\ 0 < copied[t].sequence
        /\ EarlierBelow(copied[t].sequence) /\ snapshot.sequence \in Nat
    BY <2>1 DEF ReadInv, TypeOK, Snapshot
  <2>3. \A m : EarlierBelow(m) => EarlierBelow(m)'
    BY <2>1 DEF EarlierBelow
  <2>4. Up' /\ healthy' => Located'
    <3> SUFFICES ASSUME Located, NEW q \in document, copied[t].sequence < q.seq
                 PROVE  q \in journal \/ (q.run = run /\ q \in Missing')
      BY <2>1 DEF Located, ReadInv, Up
    <3>1. Missing \subseteq Missing'
      BY <2>1 DEF Missing, InFlight
    <3>2. CASE snapshot.sequence < q.seq
      BY <3>1, <3>2 DEF Located
    <3>3. CASE ~(snapshot.sequence < q.seq)
      <4>1. q.seq \in Nat /\ q.run \in Nat
        BY <1>a DEF Record
      <4>2. q \in snapshot.document
        BY <2>2, <3>3, <4>1 DEF DiskInv, Complete
      <4>3. q \in overwritten'
        BY <2>1, <2>2, <4>1, <4>2 DEF After
      <4>4. q.run = run
        BY <1>a, <2>2, <4>1 DEF EarlierBelow, ReadInv, Numbered
      <4> QED BY <4>3, <4>4 DEF Missing
    <3> QED BY <3>2, <3>3
  <2>5. Numbered'
    BY <2>1 DEF ReadInv, Numbered
  <2>6. snapshot'.sequence # 0 /\ 0 < snapshot'.sequence /\ EarlierBelow(snapshot.sequence)'
    <3>1. snapshot'.sequence = copied[t].sequence
      BY <2>1
    <3>2. snapshot'.sequence # 0 /\ 0 < snapshot'.sequence
      BY <2>2, <3>1
    <3>3. \A q \in document : q.run < run => q.seq <= copied[t].sequence
      BY <2>2 DEF EarlierBelow
    <3>4. EarlierBelow(snapshot.sequence)'
      BY <2>1, <3>1, <3>3 DEF EarlierBelow
    <3> QED BY <3>2, <3>4
  <2>7. \A u \in Threads :
           /\ \A q \in batch'[u] : q.run = run'
           /\ pc'[u] = "copied" => 0 < copied'[u].sequence /\ EarlierBelow(copied[u].sequence)'
    <3> SUFFICES ASSUME NEW u \in Threads
                 PROVE  /\ \A q \in batch'[u] : q.run = run'
                        /\ pc'[u] = "copied" => /\ 0 < copied'[u].sequence
                                                /\ EarlierBelow(copied[u].sequence)'
      OBVIOUS
    <3>1. pc'[u] = "copied" => pc[u] = "copied" /\ copied'[u] = copied[u]
      BY <2>1 DEF TypeOK
    <3> QED BY <2>1, <3>1 DEF ReadInv, EarlierBelow
  <2>8. /\ behind' # {} => torn' # 0
        /\ Up' => 0 < sequence'
        /\ Up' /\ healthy' /\ torn' # 0 => \A q \in journal' : q.run < run'
        /\ phase' # "marking"
    BY <2>1 DEF ReadInv, Up
  <2> QED BY <2>4, <2>5, <2>6, <2>7, <2>8 DEF ReadInv
<1>11. ASSUME NEW t \in Threads, TruncateJournal(t) PROVE ReadInv'
  <2>1. /\ UNCHANGED <<phase, run, sequence, document, healthy, pending, batch, copied, snapshot,
                      dropped>>
        /\ phase = "running" /\ pc[t] = "truncating"
        /\ pc' = [pc EXCEPT ![t] = "idle"]
        /\ journal' = {} /\ torn' = 0 /\ behind' = {}
        /\ overwritten' = overwritten \cup After(journal \cup behind, snapshot.sequence)
    BY <1>11 DEF TruncateJournal, memory
  <2>2. /\ snapshot.sequence \in Nat /\ 0 < snapshot.sequence
        /\ EarlierBelow(snapshot.sequence)
    BY <2>1 DEF ReadInv, TypeOK, Snapshot
  <2>3. \A m : EarlierBelow(m) => EarlierBelow(m)'
    BY <2>1 DEF EarlierBelow
  <2>4. Up' /\ healthy' => Located'
    <3> SUFFICES ASSUME Located, NEW q \in document, snapshot.sequence < q.seq
                 PROVE  q.run = run /\ q \in Missing'
      BY <2>1 DEF Located, ReadInv, Up
    <3>1. q \in journal \/ q \in Missing
      BY DEF Located
    <3>2. Missing \cup journal \subseteq Missing' \cup journal \cup behind
      BY <2>1 DEF Missing, InFlight
    <3>3. q.seq \in Nat /\ q.run \in Nat
      BY <1>a DEF Record
    <3>4. q \in journal \cup behind => q \in Missing'
      BY <2>1, <2>2, <3>3 DEF After, Missing
    <3>5. q.run = run
      BY <1>a, <2>2, <3>3 DEF EarlierBelow, ReadInv, Numbered
    <3> QED BY <3>1, <3>2, <3>4, <3>5
  <2>5. Numbered'
    BY <2>1 DEF ReadInv, Numbered
  <2>6. \A u \in Threads :
           /\ \A q \in batch'[u] : q.run = run'
           /\ pc'[u] = "copied" => 0 < copied'[u].sequence /\ EarlierBelow(copied[u].sequence)'
           /\ pc'[u] = "truncating" => 0 < snapshot'.sequence /\ EarlierBelow(snapshot.sequence)'
    BY <2>1, <2>3 DEF ReadInv, TypeOK
  <2>7. snapshot'.sequence # 0
    BY <2>1, <2>2
  <2> QED BY <2>1, <2>4, <2>5, <2>6, <2>7 DEF ReadInv, Up
<1>12. CASE BeginEpoch
  <2> DEFINE fresh == Staged(2, sequence, run, EpochOf(document) + 1)
  <2>1. /\ document' = document \cup fresh /\ sequence' = sequence + 2
        /\ pending' = [pending EXCEPT ![Main] = fresh] /\ batch' = [batch EXCEPT ![Main] = fresh]
        /\ pc' = [pc EXCEPT ![Main] = "flushing"]
        /\ UNCHANGED <<run, healthy, copied, snapshot, journal, torn, behind, dropped, overwritten>>
        /\ phase = "marking" /\ phase' = "epoch" /\ pending[Main] = {}
    BY <1>12 DEF BeginEpoch, StageBy, Flushed, disk, losses
  <2>2. \A r \in fresh : r.run = run
    BY DEF Staged
  <2>3. Numbered'
    BY <1>a, <1>b, <2>1, NumberedStaged DEF ReadInv
  <2> HIDE DEF fresh
  <2>4. InFlight \subseteq InFlight' /\ fresh \subseteq InFlight'
    BY <2>1, InFlightGrows
  <2>5. Missing \subseteq Missing' /\ fresh \subseteq Missing'
    BY <2>1, <2>4 DEF Missing
  <2>6. Up' /\ healthy' => Located'
    BY <2>1, <2>2, <2>5, StagedLocated DEF ReadInv, Up
  <2>7. \A m : EarlierBelow(m) => EarlierBelow(m)'
    BY <1>a, <2>1, <2>2 DEF EarlierBelow
  <2>8. 0 < sequence'
    BY <1>a, <2>1
  <2>9. \A u \in Threads :
           /\ \A r \in batch'[u] : r.run = run'
           /\ pc'[u] = "copied" => 0 < copied'[u].sequence /\ EarlierBelow(copied[u].sequence)'
           /\ pc'[u] = "truncating" => 0 < snapshot'.sequence /\ EarlierBelow(snapshot.sequence)'
    BY <2>1, <2>2, <2>7 DEF ReadInv, TypeOK
  <2>10. ~(snapshot'.sequence = 0 /\ torn' = 0 /\ journal' = {})
    BY <2>1 DEF ReadInv, Up
  <2> QED BY <2>1, <2>3, <2>6, <2>8, <2>9, <2>10 DEF ReadInv, Up
<1>13. CASE Crash
  <2>1. /\ UNCHANGED <<run, sequence, document, snapshot, journal, behind>>
        /\ phase' = "down" /\ ThreadsReset /\ (torn # 0 => torn' = torn)
    BY <1>13 DEF Crash
  <2>2. Numbered'
    BY <2>1 DEF ReadInv, Numbered
  <2> QED BY <2>1, <2>2 DEF ReadInv, ThreadsReset, Up
<1>14. CASE Recover
  <2>1. /\ UNCHANGED <<copied, snapshot, journal, torn, behind>> /\ phase = "down"
        /\ run' = run + 1
    BY <1>14 DEF Recover, disk
  <2>2. \A u \in Threads : pc[u] = "idle" /\ batch[u] = {} /\ pending[u] = {}
    BY <2>1 DEF Bounded, TypeOK, Up
  <2>3. CASE Readable
    <3> DEFINE fresh == Staged(2, LastSequence, run + 1, EpochOf(Recovered))
    <3>1. /\ document' = Recovered \cup fresh /\ sequence' = LastSequence + 2
          /\ pending' = [pending EXCEPT ![Main] = fresh] /\ batch' = [batch EXCEPT ![Main] = fresh]
          /\ pc' = [pc EXCEPT ![Main] = "flushing"] /\ phase' = "marking"
      BY <1>14, <2>3 DEF Recover, StageBy
    <3>2. EpochOf(Recovered) \in Nat /\ LastSequence \in Nat
      BY RecoveredType, EpochType
    <3>3. Numbered'
      BY <2>1, <2>3, <3>1, <3>2, NumberedRecovered
    <3>4. \A r \in fresh : r.run = run + 1
      BY DEF Staged
    <3>5. LastSequence = 0 => \E r \in fresh : r.seq = 1
      <4> DEFINE first == [seq |-> LastSequence + 1, run |-> run + 1, epoch |-> NoEpoch]
      <4>1. 1 \in 1..2 /\ 1 # 2
        OBVIOUS
      <4>2. first \in fresh
        BY <4>1 DEF Staged
      <4>3. first.seq = LastSequence + 1
        OBVIOUS
      <4> HIDE DEF fresh, first
      <4> QED BY <4>2, <4>3
    <3> HIDE DEF fresh
    <3>6. fresh \subseteq Missing'
      BY <2>2, <3>1, InFlightGrows DEF Missing
    <3>7. Located'
      <4> SUFFICES ASSUME NEW q \in Recovered \cup fresh, snapshot.sequence < q.seq
                   PROVE  q \in journal \/ (q.run = run + 1 /\ q \in Missing')
        BY <2>1, <3>1 DEF Located
      <4>1. CASE q \in fresh
        BY <3>4, <3>6, <4>1
      <4>2. CASE q \in snapshot.document
        <5>1. q.seq <= snapshot.sequence /\ q.seq \in Nat /\ snapshot.sequence \in Nat
          BY <4>2 DEF Bounded, Below, TypeOK, Snapshot, Record
        <5> QED BY <5>1
      <4>3. CASE q \in Replayed
        BY <4>3 DEF Replayed
      <4> QED BY <4>1, <4>2, <4>3 DEF Recovered
    <3>8. \A r \in journal : r.run < run'
      <4>1. \A r \in journal : r.run \in Nat /\ r.run <= run
        BY <1>a DEF DiskInv, ReadInv, Numbered, Record
      <4> QED BY <1>a, <2>1, <4>1
    <3>9. \A u \in Threads : /\ \A r \in batch'[u] : r.run = run'
                             /\ pc'[u] \notin {"copied", "truncating"}
                             /\ u # Main => pc'[u] = "idle"
      BY <2>1, <2>2, <3>1, <3>4 DEF TypeOK
    <3>10. snapshot.sequence = 0 /\ journal = {} => \E q \in pending'[Main] : q.seq = 1
      <4>1. journal = {} => LastSequence = snapshot.sequence
        BY DEF LastSequence, Replayed
      <4>2. pending'[Main] = fresh
        BY <3>1 DEF TypeOK
      <4> QED BY <3>5, <4>1, <4>2
    <3>11. 0 < sequence'
      BY <3>1, <3>2
    <3>12. /\ behind' # {} => torn' # 0
           /\ snapshot'.sequence = 0 /\ journal' # {} => \E q \in journal' : q.seq = 1
           /\ snapshot'.sequence = snapshot.sequence
      BY <2>1 DEF ReadInv
    <3> QED BY <2>1, <3>1, <3>3, <3>7, <3>8, <3>9, <3>10, <3>11, <3>12 DEF ReadInv
  <2>4. CASE ~Readable
    <3>1. UNCHANGED <<sequence, document, pc, pending, batch>> /\ phase' = "refused"
      BY <1>14, <2>4 DEF Recover
    <3>2. Numbered'
      <4>1. \A r \in document : r.run \in Nat /\ r.run <= run
        BY <1>a DEF ReadInv, Numbered, Record
      <4>2. \A r \in document : r.run <= run + 1
        BY <1>a, <4>1
      <4> QED BY <2>1, <3>1, <4>2 DEF ReadInv, Numbered
    <3> QED BY <2>1, <2>2, <3>1, <3>2 DEF ReadInv, Up
  <2> QED BY <2>3, <2>4
<1>15. CASE UNCHANGED vars
  <2>1. Numbered' = Numbered /\ Located' = Located
    BY <1>15 DEF vars, Numbered, Located, Missing, InFlight
  <2> QED BY <1>15, <2>1 DEF vars, ReadInv, EarlierBelow, Up
<1> QED BY <1>1, <1>2, <1>3, <1>4, <1>6, <1>7, <1>8, <1>9, <1>10, <1>11, <1>12, <1>13, <1>14, <1>15
    DEF Next

(* A sequence number missing below a replayed one has a cause.             *)
LEMMA GapHasCause ==
    ASSUME TypeOK, DiskInv, ReadInv, Up, healthy, Gap
    PROVE  \E r \in (InFlight \cup dropped \cup overwritten) \ Replayed, q \in Replayed :
               r.run = run /\ snapshot.sequence < r.seq /\ r.seq < q.seq
<1>1. /\ Replayed \subseteq journal /\ journal \subseteq document /\ document \in SUBSET Record
      /\ snapshot.sequence \in Nat /\ sequence \in Nat /\ run \in Nat
  BY DEF Replayed, DiskInv, TypeOK, Snapshot
<1>2. \A r \in document : r.seq \in Nat \ {0} /\ r.run \in Nat /\ r.seq <= sequence
  BY <1>1 DEF ReadInv, Numbered, Covers, Record
<1>3. PICK q \in Replayed :
         \/ \E p \in Replayed : p # q /\ p.seq = q.seq
         \/ /\ \A p \in Replayed : p.seq # q.seq - 1
            /\ \/ \E p \in Replayed : p.seq < q.seq
               \/ snapshot.sequence \notin {0, q.seq - 1}
  BY DEF Gap
<1>4. q \in document /\ snapshot.sequence < q.seq
  BY <1>1, <1>3 DEF Replayed
<1>5. /\ \A p \in Replayed : p.seq # q.seq - 1
      /\ \/ \E p \in Replayed : p.seq < q.seq
         \/ snapshot.sequence # q.seq - 1
  <2>1. \A p \in Replayed : p.seq = q.seq => p = q
    BY <1>1, <1>4 DEF ReadInv, Numbered, Covers
  <2> QED BY <1>3, <2>1
<1> DEFINE n == q.seq - 1
<1>6. n \in Nat /\ snapshot.sequence < n /\ n <= sequence /\ 0 < n /\ n < q.seq
  <2>1. CASE snapshot.sequence # q.seq - 1
    BY <1>1, <1>2, <1>4, <2>1
  <2>2. CASE \E p \in Replayed : p.seq < q.seq
    <3>1. PICK p \in Replayed : p.seq < q.seq
      BY <2>2
    <3>2. p.seq \in Nat /\ snapshot.sequence < p.seq
      BY <1>1, <1>2 DEF Replayed
    <3> QED BY <1>1, <1>2, <1>4, <3>1, <3>2
  <2> QED BY <1>5, <2>1, <2>2
<1>7. \A p \in Replayed : p.seq # n
  BY <1>5
<1> HIDE DEF n
<1>8. PICK r \in document : r.seq = n
  BY <1>6 DEF ReadInv, Numbered, Covers
<1>9. r \notin Replayed
  BY <1>7, <1>8
<1>10. r.run = run /\ r \in Missing
  BY <1>1, <1>6, <1>8, <1>9 DEF ReadInv, Located, Replayed
<1>11. r \notin behind
  <2> SUFFICES ASSUME r \in behind PROVE FALSE
    OBVIOUS
  <2>1. q.run < run
    BY <1>1, <1>3 DEF ReadInv
  <2>2. q.seq < r.seq
    BY <1>4, <1>10, <2>1 DEF ReadInv, Numbered
  <2> QED BY <1>2, <1>4, <1>6, <1>8, <2>2
<1>12. r \in (InFlight \cup dropped \cup overwritten) \ Replayed
  BY <1>9, <1>10, <1>11 DEF Missing
<1> QED BY <1>3, <1>6, <1>8, <1>10, <1>12

(* A coordinator that reports healthy durability has a store recover()     *)
(* accepts, or one of the named causes: for any threads, interleaving of   *)
(* flushes, snapshots and drops, tears of any length and restarts.         *)
THEOREM HealthyStoreAlwaysReadable == Spec => []HealthyStoreIsReadable
<1>1. TypeInv /\ DiskInv /\ ReadInv => HealthyStoreIsReadable
  BY GapHasCause DEF TypeInv, HealthyStoreIsReadable, Readable, Up
<1> QED BY <1>1, TypeInit, TypeStep, DiskInit, DiskStep, ReadInit, ReadStep, PTL DEF Spec

-----------------------------------------------------------------------------
(* The journal implements the abstract log.  A process that is not up has  *)
(* no state; everything else changes the log only by committing, by losing *)
(* a durable copy, or by one of the four changes of status.                *)
LEMMA LogInit == Init => Log!Init
BY DEF Init, Log!Init, LogStatus, Up

(* While the process stays up, growing the document and acknowledging part *)
(* of it commits.                                                          *)
LEMMA GrowthCommits ==
    ASSUME Up, UNCHANGED <<phase, served, losses>>, document \subseteq document',
           acked \subseteq acked', acked' \subseteq acked \cup document'
    PROVE  Log!Commit
BY DEF Up, Log!Commit, LogStatus, losses

(* A process that ends leaves what it acknowledged and served.             *)
LEMMA EndStops ==
    ASSUME Up, phase' = "down", UNCHANGED <<acked, served, losses>>
    PROVE  Log!Stop
BY DEF Up, Log!Stop, LogStatus, losses

LEMMA LogStep ==
    ASSUME TypeInv, EpochInv, DiskInv', LossInv', [Next]_vars
    PROVE  [Log!Next]_(Log!logVars)
<1> USE ThreadAssumption DEF TypeInv
<1>1. ASSUME Up, UNCHANGED <<phase, served, losses>>, document \subseteq document',
             acked \subseteq acked', acked' \subseteq acked \cup document'
      PROVE  Log!Next
  BY <1>1, GrowthCommits DEF Log!Next
<1>2. ASSUME NEW t \in Threads, Mutate(t) PROVE Log!Next
  <2>1. document \subseteq document' /\ UNCHANGED <<phase, served, acked, losses>> /\ Up
    BY <1>2 DEF Mutate, StageBy, ghosts, Up
  <2> QED BY <1>1, <2>1
<1>3. ASSUME NEW t \in Threads, StageAndDrop(t) PROVE Log!Next
  <2>1. document \subseteq document' /\ UNCHANGED <<phase, served, acked, losses>> /\ Up
    BY <1>3 DEF StageAndDrop, Up
  <2> QED BY <1>1, <2>1
<1>4. ASSUME NEW t \in Threads, AppendRecord(t) PROVE Log!Next
  BY <1>1, <1>4 DEF AppendRecord, Ready, memory, ghosts, Up
<1>5. ASSUME NEW t \in Threads, AppendFails(t) PROVE Log!Next
  <2>1. UNCHANGED <<document, acked, served, losses>> /\ Up /\ phase' \in {phase, "down"}
    BY <1>5 DEF AppendFails, Ready, Up
  <2>2. CASE phase' = "down"
    BY <2>1, <2>2, EndStops DEF Log!Next
  <2>3. CASE phase' = phase
    BY <1>1, <2>1, <2>3
  <2> QED BY <2>1, <2>2, <2>3
<1>6. Up => \A t \in Threads : batch[t] \subseteq document
  BY DEF Bounded
<1>7. ASSUME NEW t \in Threads, Acknowledge(t) PROVE Log!Next
  BY <1>1, <1>6, <1>7 DEF Acknowledge, memory, Up
<1>8. ASSUME NEW t \in Threads, CopyDocument(t) \/ SnapshotFails(t) PROVE Log!Next
  BY <1>1, <1>8 DEF CopyDocument, SnapshotFails, memory, ghosts, Up
<1>9. ASSUME NEW t \in Threads, ReplaceSnapshot(t) \/ TruncateJournal(t) PROVE Log!Next
  <2>1. /\ phase = "running" /\ UNCHANGED <<phase, document, acked, served, swallowed>>
        /\ overwritten \subseteq overwritten'
    BY <1>9 DEF ReplaceSnapshot, TruncateJournal, memory
  <2> QED BY <2>1 DEF Log!Next, Log!Forget, LogStatus, Up
<1>10. CASE BeginEpoch
  <2>1. /\ phase = "marking" /\ phase' = "epoch" /\ UNCHANGED <<served, losses>>
        /\ document \subseteq document' /\ acked' = acked \cup batch[Main]
    BY <1>10 DEF BeginEpoch, StageBy
  <2>2. acked \subseteq acked' /\ acked' \subseteq acked \cup document'
    BY <1>6, <2>1 DEF Up
  <2> QED BY <2>1, <2>2 DEF Log!Next, Log!Commit, LogStatus, Up, losses
<1>11. CASE StartServing
  <2> DEFINE e == EpochOf(document)
  <2>1. /\ phase = "epoch" /\ phase' = "running" /\ UNCHANGED <<document, losses>>
        /\ acked' = acked \cup batch[Main] /\ served' = served \cup {<<run, e>>}
    BY <1>11 DEF StartServing
  <2>2. acked \subseteq acked' /\ acked' \subseteq acked \cup document
    BY <1>6, <2>1 DEF Up
  <2>3. swallowed = {} => \A s \in served : s[2] < e
    BY <2>1 DEF EpochInv, Repeatable, Up
  <2> HIDE DEF e
  <2>4. {s[2] : s \in served}' = {s[2] : s \in served} \cup {e}
    <3>1. {s[2] : s \in served}' = {s[2] : s \in served \cup {<<run, e>>}}
      BY <2>1
    <3>2. <<run, e>>[2] = e
      OBVIOUS
    <3> QED BY <3>1, <3>2, Zenon
  <2>5. swallowed \cup overwritten = {} => \A d \in {s[2] : s \in served} : d < e
    BY <2>3
  <2> QED BY <2>1, <2>2, <2>4, <2>5 DEF Log!Next, Log!Serve, LogStatus, Up, losses
<1>12. CASE Crash
  BY <1>12, EndStops DEF Crash, ghosts, Up, Log!Next
<1>13. CASE Recover
  <2>1. CASE Readable
    <3>1. /\ phase = "down" /\ phase' = "marking" /\ UNCHANGED <<acked, served, overwritten>>
          /\ swallowed \subseteq swallowed'
      BY <1>13, <2>1 DEF Recover
    <3>2. acked' \subseteq document' \cup swallowed' \cup overwritten'
      BY DEF DiskInv, LossInv, Kept, OnDisk
    <3> QED BY <3>1, <3>2 DEF Log!Next, Log!Start, LogStatus, Up
  <2>2. CASE ~Readable
    <3>1. phase = "down" /\ phase' = "refused" /\ UNCHANGED <<acked, served, swallowed, overwritten>>
      BY <1>13, <2>2 DEF Recover
    <3> QED BY <3>1 DEF Log!Next, Log!Refuse, LogStatus, Up
  <2> QED BY <2>1, <2>2
<1>14. CASE UNCHANGED vars
  BY <1>14 DEF vars, Log!logVars, LogStatus, Up
<1> QED BY <1>2, <1>3, <1>4, <1>5, <1>7, <1>8, <1>9, <1>10, <1>11, <1>12, <1>13, <1>14 DEF Next

(* Refinement: the journal with its snapshots, failures, crashes and       *)
(* restarts implements the abstract log for every set of threads, every    *)
(* length a torn record may have and every interleaving                    *)
(* (recover_from_store, begin_epoch, flush, save_snapshot).                *)
THEOREM JournalImplementsLog == Spec => ImplementsLog
<1>1. TypeInv /\ EpochInv /\ DiskInv' /\ LossInv' /\ [Next]_vars => [Log!Next]_(Log!logVars)
  BY LogStep
<1> QED BY <1>1, LogInit, TypeInit, TypeStep, DiskInit, DiskStep, LossInit, LossStep,
           EpochInit, EpochStep, PTL
    DEF Spec, ImplementsLog, Log!Spec

=============================================================================
