---------------------- MODULE DatasetPublicationProofs ----------------------
(***************************************************************************)
(* Proofs about DatasetPublication for any set of versions and writers,    *)
(* any retention the code allows and any number of crashes and faults; and *)
(* about MetaMatrixRun, whose matrix is published, for any slices,         *)
(* periods, attempts, deadline and number of faults.                       *)
(***************************************************************************)
EXTENDS DatasetPublication, FiniteSetTheorems, TLAPS

USE VersionAssumption, WriterAssumption, BoundAssumption

\* A history is a non-empty sequence of at most Retention distinct versions.
LEMMA HistoryFacts ==
  ASSUME NEW h \in Histories
  PROVE  /\ h \in Seq(Versions)
         /\ Len(h) \in 1 .. Retention
         /\ DOMAIN h = 1 .. Len(h)
         /\ \A i, j \in 1 .. Len(h) : h[i] = h[j] => i = j
         /\ Entries(h) \subseteq Versions
<1>1. PICK n \in 1 .. Retention : h \in [1 .. n -> Versions]
  BY DEF Histories
<1>2. h \in Seq(Versions) /\ Len(h) = n
  BY <1>1
<1>3. \A i, j \in DOMAIN h : h[i] = h[j] => i = j
  BY DEF Histories
<1> QED BY <1>1, <1>2, <1>3 DEF Entries

\* The type invariant holds in every reachable state: in particular the
\* manifest keeps at most Retention distinct versions.
THEOREM TypeCorrect == Spec => []TypeOK
<1>1. Init => TypeOK
  BY DEF Init, TypeOK, FileStates, Steps
<1>2. TypeOK /\ [Next]_vars => TypeOK'
  <2> SUFFICES ASSUME TypeOK, [Next]_vars PROVE TypeOK'
    OBVIOUS
  <2> USE DEF TypeOK, FileStates, Steps, attemptVars, manifestVars, syncVars,
              localVars, boundVars
  <2>1. ASSUME NEW w \in Writers, Start(w) PROVE TypeOK'
    <3>0. NextGeneration \in Nat
      BY DEF NextGeneration, LastKnown, MaxOf
    <3>1. CASE \E v \in Versions : BeginRefresh(w, v)
      BY <3>0, <3>1 DEF BeginRefresh, Allocate
    <3>2. CASE ChooseRecovery(w)
      BY <3>2 DEF ChooseRecovery, Freshest
    <3>3. CASE BeginRollback(w)
      <4>1. Entries(history) \subseteq Versions
        BY <3>3, HistoryFacts DEF BeginRollback
      <4> QED BY <3>0, <3>3, <4>1 DEF BeginRollback, Allocate
    <3>4. CASE RefuseRollback(w)
      BY <3>0, <3>4 DEF RefuseRollback, Allocate
    <3> QED BY <2>1, <3>1, <3>2, <3>3, <3>4 DEF Start
  <2>2. ASSUME NEW w \in Writers, Acquire(w) PROVE TypeOK'
    <3>1. CASE BeginRecovery(w)
      BY <3>1 DEF BeginRecovery, Allocate, NextGeneration, LastKnown, MaxOf
    <3>2. CASE AcceptCandidate(w)
      BY <3>2 DEF AcceptCandidate
    <3>3. CASE RejectCandidate(w)
      BY <3>3 DEF RejectCandidate, AfterDecision
    <3>4. CASE SaveCache(w)
      BY <3>4, HistoryFacts DEF SaveCache, CurrentReadable, Current
    <3>5. CASE RecordColdStatus(w)
      BY <3>5 DEF RecordColdStatus
    <3> QED BY <2>2, <3>1, <3>2, <3>3, <3>4, <3>5 DEF Acquire
  <2>3. ASSUME NEW w \in Writers, Proceed(w) PROVE TypeOK'
    <3>1. CASE WriteVersion(w)
      BY <3>1 DEF WriteVersion
    <3>2. CASE CommitManifest(w)
      BY <3>2 DEF CommitManifest
    <3>3. CASE PruneVersions(w)
      BY <3>3 DEF PruneVersions, AfterDecision
    <3>4. CASE SaveStatus(w)
      <4>1. Current \in Versions
        BY <3>4, HistoryFacts DEF SaveStatus, Current
      <4>2. ReconciledStatus(w, pc[w] = "cached") \in
              [gen : Nat, version : Versions \union {NoVersion},
               state : {"none", "fresh", "cached", "failed"}]
        BY <4>1 DEF ReconciledStatus, KnownGeneration, MaxOf
      <4> QED BY <3>4, <4>2 DEF SaveStatus
    <3> QED BY <2>3, <3>1, <3>2, <3>3, <3>4 DEF Proceed
  <2>4. ASSUME NEW w \in Writers,
               FetchFails(w) \/ SaveCacheFails(w) \/ SaveStatusFails(w)
                 \/ Crash(w)
        PROVE  TypeOK'
    <3>1. CASE FetchFails(w)
      BY <3>1 DEF FetchFails
    <3>2. CASE SaveCacheFails(w)
      BY <3>2 DEF SaveCacheFails
    <3>3. CASE SaveStatusFails(w)
      BY <3>3 DEF SaveStatusFails
    <3>4. CASE Crash(w)
      BY <3>4 DEF Crash
    <3> QED BY <2>4, <3>1, <3>2, <3>3, <3>4
  <2>5. CASE Fault
    <3>1. /\ faults' \in 0 .. MaxFaults
          /\ UNCHANGED <<lastGeneration, clock, history, syncVars, lock, pc,
                         localVars, crashes>>
      BY <2>5, BoundAssumption DEF Fault
    <3>2. CASE stateFile' \in {"missing", "corrupt"}
               /\ UNCHANGED <<manifestFile, files>>
      BY <3>1, <3>2
    <3>3. CASE /\ manifestFile = "ok" /\ manifestFile' \in {"missing", "corrupt"}
               /\ UNCHANGED <<stateFile, files>>
      BY <3>1, <3>3
    <3>4. CASE /\ \E v \in Versions : files' = [files EXCEPT ![v] = "damaged"]
               /\ UNCHANGED <<stateFile, manifestFile>>
      BY <3>1, <3>4
    <3> QED BY <2>5, <3>2, <3>3, <3>4 DEF Fault
  <2>6. CASE UNCHANGED vars
    BY <2>6 DEF vars
  <2> QED BY <2>1, <2>2, <2>3, <2>4, <2>5, <2>6 DEF Next
<1> QED BY <1>1, <1>2, PTL DEF Spec

-----------------------------------------------------------------------------
\* Every step is one of these: the case split of the proofs below.
LEMMA StepCases ==
  ASSUME [Next]_vars
  PROVE  \/ \E w \in Writers :
              \/ \E v \in Versions : BeginRefresh(w, v)
              \/ ChooseRecovery(w) \/ BeginRollback(w) \/ RefuseRollback(w)
              \/ BeginRecovery(w) \/ AcceptCandidate(w) \/ RejectCandidate(w)
              \/ SaveCache(w) \/ RecordColdStatus(w) \/ WriteVersion(w)
              \/ CommitManifest(w) \/ PruneVersions(w) \/ SaveStatus(w)
              \/ FetchFails(w) \/ SaveCacheFails(w) \/ SaveStatusFails(w)
              \/ Crash(w)
         \/ Fault
         \/ UNCHANGED vars
BY DEF Next, Start, Acquire, Proceed

\* A writer is inside a transaction only while it holds the lock.
LEMMA LockStep ==
  ASSUME TypeOK, LockInv, [Next]_vars
  PROVE  LockInv'
<1> USE DEF LockInv, Held, TypeOK
<1>1. ASSUME NEW w \in Writers, NEW v \in Versions, BeginRefresh(w, v)
      PROVE  LockInv'
  BY <1>1 DEF BeginRefresh, Allocate
<1>2. ASSUME NEW w \in Writers, ChooseRecovery(w) PROVE LockInv'
  BY <1>2 DEF ChooseRecovery
<1>3. ASSUME NEW w \in Writers, BeginRollback(w) PROVE LockInv'
  BY <1>3 DEF BeginRollback, Allocate
<1>4. ASSUME NEW w \in Writers, RefuseRollback(w) PROVE LockInv'
  BY <1>4 DEF RefuseRollback, Allocate
<1>5. ASSUME NEW w \in Writers, BeginRecovery(w) PROVE LockInv'
  BY <1>5 DEF BeginRecovery, Allocate
<1>6. ASSUME NEW w \in Writers, AcceptCandidate(w) PROVE LockInv'
  BY <1>6 DEF AcceptCandidate
<1>7. ASSUME NEW w \in Writers, RejectCandidate(w) PROVE LockInv'
  BY <1>7 DEF RejectCandidate, AfterDecision
<1>8. ASSUME NEW w \in Writers, SaveCache(w) PROVE LockInv'
  BY <1>8 DEF SaveCache
<1>9. ASSUME NEW w \in Writers, RecordColdStatus(w) PROVE LockInv'
  BY <1>9 DEF RecordColdStatus
<1>10. ASSUME NEW w \in Writers, WriteVersion(w) PROVE LockInv'
  BY <1>10 DEF WriteVersion
<1>11. ASSUME NEW w \in Writers, CommitManifest(w) PROVE LockInv'
  BY <1>11 DEF CommitManifest
<1>12. ASSUME NEW w \in Writers, PruneVersions(w) PROVE LockInv'
  BY <1>12 DEF PruneVersions, AfterDecision
<1>13. ASSUME NEW w \in Writers, SaveStatus(w) PROVE LockInv'
  BY <1>13 DEF SaveStatus
<1>14. ASSUME NEW w \in Writers, FetchFails(w) PROVE LockInv'
  BY <1>14 DEF FetchFails
<1>15. ASSUME NEW w \in Writers, SaveCacheFails(w) PROVE LockInv'
  BY <1>15 DEF SaveCacheFails
<1>16. ASSUME NEW w \in Writers, SaveStatusFails(w) PROVE LockInv'
  BY <1>16 DEF SaveStatusFails
<1>17. ASSUME NEW w \in Writers, Crash(w) PROVE LockInv'
  BY <1>17 DEF Crash
<1>18. CASE Fault
  BY <1>18 DEF Fault
<1>19. CASE UNCHANGED vars
  BY <1>19 DEF vars
<1> QED
  BY StepCases, <1>1, <1>2, <1>3, <1>4, <1>5, <1>6, <1>7, <1>8, <1>9, <1>10, <1>11, <1>12, <1>13, <1>14, <1>15, <1>16, <1>17, <1>18, <1>19

\* The manifest names only records that are on disk: a crash between any two
\* writes included.
LEMMA BackedStep ==
  ASSUME TypeOK, LockInv, PublishInv, ManifestBacked, [Next]_vars
  PROVE  ManifestBacked'
<1>1. ASSUME UNCHANGED <<files, manifestFile, history>> PROVE ManifestBacked'
  BY <1>1 DEF ManifestBacked
<1>2. ASSUME NEW w \in Writers, WriteVersion(w) PROVE ManifestBacked'
  BY <1>2, HistoryFacts DEF WriteVersion, ManifestBacked, manifestVars, TypeOK
<1>3. ASSUME NEW w \in Writers, CommitManifest(w) PROVE ManifestBacked'
  <2>1. PICK h \in Histories, older \in Sources(w) :
          IsHistory(h, ver[w], older) /\ history' = h
    BY <1>3 DEF CommitManifest
  <2>2. Readable(ver[w])
    BY <1>3 DEF CommitManifest, PublishInv, Prepared
  <2>3. \A v \in Entries(h) : Readable(v)
    BY <2>1, <2>2 DEF IsHistory
  <2>4. files' = files
    BY <1>3 DEF CommitManifest
  <2> QED BY <2>1, <2>3, <2>4 DEF ManifestBacked, Entries, Readable
<1>4. ASSUME NEW w \in Writers, PruneVersions(w) PROVE ManifestBacked'
  <2>1. PICK gone \in SUBSET (Versions \ Entries(history)) :
          files' = [v \in Versions |-> IF v \in gone THEN "absent"
                                       ELSE files[v]]
    BY <1>4 DEF PruneVersions, Unlinkable
  <2>2. UNCHANGED <<manifestFile, history>>
    BY <1>4 DEF PruneVersions, manifestVars
  <2>3. ASSUME manifestFile = "ok", NEW i \in DOMAIN history
        PROVE  files'[history[i]] # "absent"
    <3>1. history[i] \in Versions /\ history[i] \in Entries(history)
      BY <2>3, HistoryFacts DEF Entries, TypeOK
    <3> QED BY <2>1, <2>3, <3>1 DEF ManifestBacked
  <2> QED BY <2>2, <2>3 DEF ManifestBacked
<1>5. ASSUME Fault PROVE ManifestBacked'
  BY <1>5, HistoryFacts DEF Fault, ManifestBacked, TypeOK, Readable
<1>6. ASSUME UNCHANGED vars PROVE ManifestBacked'
  BY <1>1, <1>6 DEF vars, manifestVars
<1> QED
  BY StepCases, <1>1, <1>2, <1>3, <1>4, <1>5, <1>6
  DEF BeginRefresh, ChooseRecovery, BeginRollback, RefuseRollback,
      BeginRecovery, AcceptCandidate, RejectCandidate, SaveCache,
      RecordColdStatus, SaveStatus, FetchFails, SaveCacheFails,
      SaveStatusFails, Crash, manifestVars

-----------------------------------------------------------------------------
\* What a writer established under the lock is not disturbed by the others.
LEMMA PublishStep ==
  ASSUME TypeOK, LockInv, PublishInv, ManifestBacked, [Next]_vars,
         NEW u \in Writers
  PROVE  Prepared(u)'
<1> DEFINE SameWriter == /\ pc'[u] = pc[u] /\ ver'[u] = ver[u]
                         /\ gen'[u] = gen[u] /\ role'[u] = role[u]
<1>0. Prepared(u)
  BY DEF PublishInv
<1>1. ASSUME pc'[u] \in {"idle", "reconciling", "committed", "cached",
                         "uncached"}
      PROVE  Prepared(u)'
  BY <1>1 DEF Prepared
<1>2. ASSUME SameWriter, pc[u] \notin Held
      PROVE  Prepared(u)'
  BY <1>0, <1>2 DEF Prepared, Held
<1>3. ASSUME SameWriter, UNCHANGED <<attemptVars, files, manifestVars>>
      PROVE  Prepared(u)'
  BY <1>0, <1>3
  DEF Prepared, attemptVars, manifestVars, Readable, CurrentReadable, Current
\* Steps that need a free lock leave the others outside of a transaction.
<1>4. lock = Nobody => pc[u] \notin Held
  BY DEF LockInv
<1>5. \A w \in Writers : (lock = w \/ pc[w] \in Held) /\ u # w
        => pc[u] \notin Held
  BY DEF LockInv
<1> HIDE DEF SameWriter
<1>6. ASSUME NEW w \in Writers, NEW v \in Versions, BeginRefresh(w, v)
      PROVE  Prepared(u)'
  <2>1. NextGeneration > 0
    BY DEF NextGeneration, LastKnown, MaxOf, TypeOK
  <2>2. CASE u = w
    BY <1>6, <2>1, <2>2 DEF BeginRefresh, Allocate, Prepared, TypeOK
  <2>3. CASE u # w
    BY <1>2, <1>4, <1>6, <2>3
    DEF BeginRefresh, Allocate, SameWriter, TypeOK
  <2> QED BY <2>2, <2>3
<1>7. ASSUME NEW w \in Writers, ChooseRecovery(w) PROVE Prepared(u)'
  <2>1. ver'[w] \in Versions
    BY <1>7 DEF ChooseRecovery, Freshest, TypeOK
  <2>2. CASE u = w
    BY <1>7, <2>1, <2>2 DEF ChooseRecovery, Prepared, TypeOK
  <2>3. CASE u # w
    BY <1>2, <1>4, <1>7, <2>3
    DEF ChooseRecovery, SameWriter, localVars, TypeOK
  <2> QED BY <2>2, <2>3
<1>8. ASSUME NEW w \in Writers, BeginRollback(w) PROVE Prepared(u)'
  <2>1. NextGeneration > 0
    BY DEF NextGeneration, LastKnown, MaxOf, TypeOK
  <2>2. ver'[w] \in Versions /\ Readable(ver'[w])
    BY <1>8, HistoryFacts DEF BeginRollback, TypeOK
  <2>3. CASE u = w
    BY <1>8, <2>1, <2>2, <2>3
    DEF BeginRollback, Allocate, Prepared, Readable, TypeOK
  <2>4. CASE u # w
    BY <1>2, <1>4, <1>8, <2>4
    DEF BeginRollback, Allocate, SameWriter, TypeOK
  <2> QED BY <2>3, <2>4
<1>9. ASSUME NEW w \in Writers, RefuseRollback(w) PROVE Prepared(u)'
  <2>1. CASE u = w
    BY <1>1, <1>9, <2>1 DEF RefuseRollback
  <2>2. CASE u # w
    BY <1>2, <1>4, <1>9, <2>2
    DEF RefuseRollback, Allocate, SameWriter, TypeOK
  <2> QED BY <2>1, <2>2
<1>10. ASSUME NEW w \in Writers, BeginRecovery(w) PROVE Prepared(u)'
  <2>1. NextGeneration > 0
    BY DEF NextGeneration, LastKnown, MaxOf, TypeOK
  <2>2. CASE u = w
    BY <1>0, <1>10, <2>1, <2>2 DEF BeginRecovery, Allocate, Prepared, TypeOK
  <2>3. CASE u # w
    BY <1>2, <1>4, <1>10, <2>3
    DEF BeginRecovery, Allocate, SameWriter, TypeOK
  <2> QED BY <2>2, <2>3
<1>11. ASSUME NEW w \in Writers, AcceptCandidate(w) PROVE Prepared(u)'
  <2>1. CASE u = w
    <3>1. /\ ver[u] \in Versions /\ gen[u] > 0
          /\ NewestAttempt(u) /\ files[ver[u]] # "damaged"
      BY <1>0, <1>11, <2>1 DEF AcceptCandidate, CanPublish, Prepared
    <3>2. role[u] = "refresh" /\ CurrentReadable
            => FetchedAt[ver[u]] > FetchedAt[Current]
      <4> SUFFICES ASSUME role[u] = "refresh", CurrentReadable
                   PROVE  FetchedAt[ver[u]] > FetchedAt[Current]
        OBVIOUS
      <4>1. Current \in Versions
        BY HistoryFacts DEF CurrentReadable, Current, TypeOK
      <4>2. ~Obsolete(u, Current)
        BY <1>11, <2>1 DEF AcceptCandidate, CanPublish, Baselines
      <4> QED BY <3>1, <4>1, <4>2 DEF Obsolete, ExactRepair, CurrentReadable
    <3> QED
      BY <1>11, <2>1, <3>1, <3>2
      DEF AcceptCandidate, NewestAttempt, Prepared, attemptVars,
          manifestVars, localVars, CurrentReadable, Current, Readable, TypeOK
  <2>2. CASE u # w
    BY <1>2, <1>4, <1>11, <2>2
    DEF AcceptCandidate, SameWriter, localVars, TypeOK
  <2> QED BY <2>1, <2>2
<1>12. ASSUME NEW w \in Writers,
              \/ RejectCandidate(w) \/ SaveCache(w) \/ RecordColdStatus(w)
              \/ SaveStatus(w) \/ SaveCacheFails(w) \/ SaveStatusFails(w)
              \/ CommitManifest(w) \/ PruneVersions(w)
       PROVE  Prepared(u)'
  <2>1. CASE u = w
    BY <1>1, <1>12, <2>1
    DEF RejectCandidate, SaveCache, RecordColdStatus, SaveStatus,
        SaveCacheFails, SaveStatusFails, CommitManifest, PruneVersions,
        AfterDecision, TypeOK
  <2>2. CASE u # w
    <3>1. SameWriter
      BY <1>12, <2>2
      DEF RejectCandidate, SaveCache, RecordColdStatus, SaveStatus,
          SaveCacheFails, SaveStatusFails, CommitManifest, PruneVersions,
          AfterDecision, localVars, SameWriter, TypeOK
    <3>2. pc[u] \notin Held
      BY <1>4, <1>5, <1>12, <2>2
      DEF RejectCandidate, SaveCache, RecordColdStatus, SaveStatus,
          SaveCacheFails, SaveStatusFails, CommitManifest, PruneVersions, Held
    <3> QED BY <1>2, <3>1, <3>2
  <2> QED BY <2>1, <2>2
<1>13. ASSUME NEW w \in Writers, WriteVersion(w) PROVE Prepared(u)'
  <2>1. CASE u = w
    <3>1. ver[u] \in Versions /\ files[ver[u]] # "damaged"
      BY <1>0, <1>13, <2>1 DEF WriteVersion, Prepared
    \* The record just written cannot be the served one coming back.
    <3>2. CurrentReadable' => CurrentReadable
      BY <1>13, <2>1, <3>1, HistoryFacts
      DEF WriteVersion, CurrentReadable, Current, Readable, ManifestBacked,
          manifestVars, FileStates, TypeOK
    <3> QED
      BY <1>0, <1>13, <2>1, <3>1, <3>2
      DEF WriteVersion, Prepared, Readable, Current, attemptVars,
          manifestVars, localVars, TypeOK
  <2>2. CASE u # w
    BY <1>2, <1>5, <1>13, <2>2
    DEF WriteVersion, SameWriter, Held, localVars, TypeOK
  <2> QED BY <2>1, <2>2
<1>14. ASSUME NEW w \in Writers, FetchFails(w) \/ Crash(w) PROVE Prepared(u)'
  <2>1. CASE u = w
    BY <1>1, <1>14, <2>1 DEF FetchFails, Crash, TypeOK
  <2>2. CASE u # w
    BY <1>3, <1>14, <2>2 DEF FetchFails, Crash, SameWriter, localVars, TypeOK
  <2> QED BY <2>1, <2>2
<1>15. ASSUME Fault PROVE Prepared(u)'
  BY <1>2, <1>4, <1>15 DEF Fault, SameWriter, localVars
<1>16. ASSUME UNCHANGED vars PROVE Prepared(u)'
  BY <1>3, <1>16 DEF vars, SameWriter, localVars
<1> QED
  BY StepCases, <1>6, <1>7, <1>8, <1>9, <1>10, <1>11, <1>12, <1>13, <1>14,
     <1>15, <1>16

-----------------------------------------------------------------------------
\* While no file is lost, a new attempt gets a number nobody has had.
LEMMA NumberStep ==
  ASSUME TypeOK, NumberInv, [Next]_vars
  PROVE  NumberInv'
<1>1. ASSUME UNCHANGED <<stateFile, lastGeneration, gen, faults>>
      PROVE  NumberInv'
  BY <1>1 DEF NumberInv
<1>2. ASSUME NEW w \in Writers, Allocate(w), faults' = faults
      PROVE  NumberInv'
  <2> SUFFICES ASSUME faults = 0 PROVE NumberInv'
    BY <1>2 DEF NumberInv
  <2>1. \A u \in Writers : gen[u] < NextGeneration
    BY DEF NumberInv, NextGeneration, LastKnown, MaxOf, TypeOK
  <2>2. NextGeneration \in Nat
    BY DEF NextGeneration, LastKnown, MaxOf, TypeOK
  <2> QED BY <1>2, <2>1, <2>2 DEF NumberInv, Allocate, TypeOK
<1>3. ASSUME Fault PROVE NumberInv'
  BY <1>3 DEF Fault, NumberInv, TypeOK
<1>4. ASSUME UNCHANGED vars PROVE NumberInv'
  BY <1>1, <1>4 DEF vars, attemptVars, localVars, boundVars
<1>5. ASSUME NEW w \in Writers, SaveCacheFails(w) \/ SaveStatusFails(w)
      PROVE  NumberInv'
  BY <1>5 DEF SaveCacheFails, SaveStatusFails, NumberInv, TypeOK
<1>6. ASSUME NEW w \in Writers,
             \/ \E v \in Versions : BeginRefresh(w, v)
             \/ BeginRollback(w) \/ RefuseRollback(w) \/ BeginRecovery(w)
      PROVE  NumberInv'
  BY <1>2, <1>6
  DEF BeginRefresh, BeginRollback, RefuseRollback, BeginRecovery, boundVars
<1> QED
  BY StepCases, <1>1, <1>3, <1>4, <1>5, <1>6
  DEF ChooseRecovery, AcceptCandidate, RejectCandidate, SaveCache,
      RecordColdStatus, WriteVersion, CommitManifest, PruneVersions,
      SaveStatus, FetchFails, Crash, attemptVars, localVars, boundVars

\* The inductive invariant behind the safety theorems.
THEOREM InvHolds == Spec => []Inv
<1>1. Init => Inv
  BY DEF Init, Inv, LockInv, Held, PublishInv, Prepared, NumberInv,
         ManifestBacked
<1>2. TypeOK /\ Inv /\ [Next]_vars => Inv'
  <2> SUFFICES ASSUME TypeOK, Inv, [Next]_vars PROVE Inv'
    OBVIOUS
  <2>1. LockInv /\ PublishInv /\ NumberInv /\ ManifestBacked
    BY DEF Inv
  <2>2. LockInv'
    BY <2>1, LockStep
  <2>3. ManifestBacked'
    BY <2>1, BackedStep
  <2>4. \A u \in Writers : Prepared(u)'
    BY <2>1, PublishStep
  <2>5. NumberInv'
    BY <2>1, NumberStep
  <2> QED BY <2>2, <2>3, <2>4, <2>5 DEF Inv, PublishInv
<1> QED BY <1>1, <1>2, TypeCorrect, PTL DEF Spec

\* Whatever crashes, and whichever files are damaged from outside, the program
\* itself never leaves a manifest that names a record it has not written or
\* has already unlinked.
THEOREM ManifestIsBacked == Spec => []ManifestBacked
<1>1. Inv => ManifestBacked
  BY DEF Inv
<1> QED BY <1>1, InvHolds, PTL

-----------------------------------------------------------------------------
\* The manifest changes hands only in CommitManifest.
LEMMA OnlyCommits ==
  ASSUME TypeOK, [Next]_vars, NEW w \in Writers, Commits(w)
  PROVE  CommitManifest(w)
BY StepCases
DEF Commits, TypeOK, BeginRefresh, ChooseRecovery, BeginRollback,
    RefuseRollback, BeginRecovery, AcceptCandidate, RejectCandidate,
    SaveCache, RecordColdStatus, WriteVersion, CommitManifest, PruneVersions,
    SaveStatus, FetchFails, SaveCacheFails, SaveStatusFails, Crash, Fault,
    vars

\* No refresh undoes a rollback or a publication that began after it.
THEOREM NewestPublishes == Spec => NewestAttemptPublishes
<1>1. TypeOK /\ Inv /\ [Next]_vars
        => \A w \in Writers :
             Commits(w) /\ faults = 0
               => \A u \in Writers \ {w} : gen[u] < gen[w]
  <2> SUFFICES ASSUME TypeOK, Inv, NEW w \in Writers, Commits(w), faults = 0,
                      NEW u \in Writers \ {w}
               PROVE  gen[u] < gen[w]
    OBVIOUS
  <2>1. gen[w] > 0 /\ gen[w] = lastGeneration
    BY DEF Commits, Inv, PublishInv, Prepared
  <2>2. gen[u] <= lastGeneration /\ gen[u] # gen[w]
    BY <2>1 DEF Inv, NumberInv
  <2> QED BY <2>1, <2>2 DEF TypeOK
<1> QED BY <1>1, TypeCorrect, InvHolds, PTL DEF Spec, NewestAttemptPublishes

\* A refresh never moves the served dataset backwards in time.
THEOREM ForwardOnly == Spec => PublishesForward
<1>1. Inv =>
        \A w \in Writers :
          Commits(w) /\ role[w] = "refresh" /\ CurrentReadable
            => FetchedAt[ver[w]] > FetchedAt[Current]
  BY DEF Inv, PublishInv, Prepared, Commits
<1> QED BY <1>1, InvHolds, PTL DEF PublishesForward

\* The replaced snapshot is always retained, whatever the retention setting.
THEOREM RollbackPossible == Spec => RollbackStaysPossible
<1>1. TypeOK /\ [Next]_vars
        => \A w \in Writers :
             Commits(w) /\ CurrentReadable
               => \E i \in DOMAIN history' :
                    history'[i] = Current /\ files'[Current] = "valid"
  <2> SUFFICES ASSUME TypeOK, [Next]_vars,
                      NEW w \in Writers, Commits(w), CurrentReadable
               PROVE  \E i \in DOMAIN history' :
                        history'[i] = Current /\ files'[Current] = "valid"
    OBVIOUS
  <2>1. CommitManifest(w)
    BY OnlyCommits
  <2>2. PICK h \in Histories : IsHistory(h, ver[w], history) /\ history' = h
    BY <2>1 DEF CommitManifest, Sources
  <2>3. files' = files /\ files[Current] = "valid"
    BY <2>1 DEF CommitManifest, CurrentReadable, Readable
  <2>4. /\ Current \in Entries(history)
        /\ \A a : ~Precedes(history, a, Current)
    BY HistoryFacts DEF CurrentReadable, Current, Entries, Precedes, TypeOK
  <2>5. Current \in Entries(h)
    <3> SUFFICES ASSUME Current \notin Entries(h) PROVE FALSE
      OBVIOUS
    <3>1. Len(h) = Retention /\ \A i \in 2 .. Len(h) :
            Precedes(history, h[i], Current)
      BY <2>2, <2>3, <2>4, HistoryFacts DEF IsHistory, Readable, Entries
    <3> QED BY <2>4, <3>1
  <2> QED BY <2>2, <2>3, <2>5 DEF Entries
<1> QED BY <1>1, TypeCorrect, PTL DEF Spec, RollbackStaysPossible

\* The generation CAS of the status: late reports never win.
THEOREM StatusMonotone == Spec => StatusGenerationMonotone
<1>1. TypeOK /\ [Next]_vars => status'.gen >= status.gen
  <2> SUFFICES ASSUME TypeOK, [Next]_vars PROVE status'.gen >= status.gen
    OBVIOUS
  <2>1. status' = status => status'.gen >= status.gen
    BY DEF TypeOK
  <2>2. ASSUME NEW w \in Writers, SaveStatus(w)
        PROVE  status'.gen >= status.gen
    BY <2>2
    DEF SaveStatus, ReconciledStatus, KeepsWinner, Superseded,
        KnownGeneration, MaxOf, TypeOK
  <2>3. ASSUME NEW w \in Writers, RecordColdStatus(w)
        PROVE  status'.gen >= status.gen
    BY <2>3 DEF RecordColdStatus, KnownGeneration, MaxOf, TypeOK
  <2> QED
    BY StepCases, <2>1, <2>2, <2>3
    DEF BeginRefresh, ChooseRecovery, BeginRollback, RefuseRollback,
        BeginRecovery, AcceptCandidate, RejectCandidate, SaveCache,
        WriteVersion, CommitManifest, PruneVersions, FetchFails,
        SaveCacheFails, SaveStatusFails, Crash, Fault, vars, syncVars
<1> QED BY <1>1, TypeCorrect, PTL DEF Spec, StatusGenerationMonotone

-----------------------------------------------------------------------------
\* A history has as many entries as versions, the served one included.
LEMMA HistoryCount ==
  ASSUME NEW h \in Histories
  PROVE  /\ IsFiniteSet(Entries(h) \ {h[1]})
         /\ Cardinality(Entries(h) \ {h[1]}) = Len(h) - 1
<1>1. /\ Len(h) \in 1 .. Retention
      /\ DOMAIN h = 1 .. Len(h)
      /\ \A i, j \in 1 .. Len(h) : h[i] = h[j] => i = j
  BY HistoryFacts
<1>2. Len(h) \in Nat
  BY <1>1
<1>3. h \in [1 .. Len(h) -> Entries(h)]
  BY <1>1, HistoryFacts DEF Entries
<1>4. h \in Bijection(1 .. Len(h), Entries(h))
  BY <1>1, <1>3 DEF Bijection, Injection, Surjection, IsInjective, Entries
<1>5. ExistsBijection(1 .. Len(h), Entries(h))
  BY <1>4 DEF ExistsBijection
<1>6. IsFiniteSet(Entries(h)) /\ Cardinality(Entries(h)) = Len(h)
  BY <1>2, <1>5, FS_NatBijection, FS_CountingElements
<1>7. h[1] \in Entries(h)
  BY <1>1 DEF Entries
<1> QED BY <1>6, <1>7, FS_RemoveElement

\* A writer that is about to commit is a refresh or a repair that passed the
\* gates or a rollback to a retained version.
LEMMA CommitStep ==
  ASSUME TypeOK, LockInv, CommitInv, [Next]_vars, NEW u \in Writers
  PROVE  Committing(u)'
<1> DEFINE SameWriter == /\ pc'[u] = pc[u] /\ ver'[u] = ver[u]
                         /\ role'[u] = role[u]
<1>0. Committing(u)
  BY DEF CommitInv
<1>1. lock = Nobody => pc[u] \notin Held
  BY DEF LockInv
<1>2. \A w \in Writers : (lock = w \/ pc[w] \in Held) /\ u # w
        => pc[u] \notin Held
  BY DEF LockInv
<1>3. ASSUME SameWriter, UNCHANGED manifestVars PROVE Committing(u)'
  BY <1>0, <1>3 DEF Committing, manifestVars, Current
<1>4. ASSUME SameWriter, pc[u] \notin Held PROVE Committing(u)'
  BY <1>0, <1>4 DEF Committing, Held
<1>5. ASSUME NEW w \in Writers, NEW v \in Versions, BeginRefresh(w, v)
      PROVE  Committing(u)'
  BY <1>0, <1>5
  DEF BeginRefresh, Committing, TypeOK, manifestVars, Current
<1>6. ASSUME NEW w \in Writers, ChooseRecovery(w) PROVE Committing(u)'
  <2>1. CASE u = w
    BY <1>6, <2>1 DEF ChooseRecovery, Committing, TypeOK
  <2>2. CASE u # w
    BY <1>3, <1>6, <2>2
    DEF ChooseRecovery, SameWriter, manifestVars, TypeOK
  <2> QED BY <2>1, <2>2
<1>7. ASSUME NEW w \in Writers, BeginRollback(w) PROVE Committing(u)'
  BY <1>0, <1>7, HistoryFacts
  DEF BeginRollback, Committing, TypeOK, manifestVars, Current
<1>8. ASSUME NEW w \in Writers, BeginRecovery(w) PROVE Committing(u)'
  BY <1>0, <1>8
  DEF BeginRecovery, Committing, TypeOK, manifestVars, Current
<1>9. ASSUME NEW w \in Writers, AcceptCandidate(w) PROVE Committing(u)'
  BY <1>0, <1>9
  DEF AcceptCandidate, Committing, TypeOK, manifestVars, localVars, Current
<1>10. ASSUME NEW w \in Writers, WriteVersion(w) PROVE Committing(u)'
  BY <1>0, <1>10
  DEF WriteVersion, Committing, TypeOK, manifestVars, localVars, Current
<1>11. ASSUME NEW w \in Writers, CommitManifest(w) PROVE Committing(u)'
  <2>1. CASE u = w
    BY <1>11, <2>1 DEF CommitManifest, Committing, TypeOK
  <2>2. CASE u # w
    BY <1>2, <1>4, <1>11, <2>2
    DEF CommitManifest, SameWriter, localVars, Held, TypeOK
  <2> QED BY <2>1, <2>2
<1>12. ASSUME NEW w \in Writers,
              \/ RejectCandidate(w) \/ SaveCache(w) \/ RecordColdStatus(w)
              \/ SaveStatus(w) \/ SaveCacheFails(w) \/ SaveStatusFails(w)
              \/ FetchFails(w) \/ PruneVersions(w) \/ Crash(w)
              \/ RefuseRollback(w)
       PROVE  Committing(u)'
  <2>1. CASE u = w
    BY <1>12, <2>1
    DEF RejectCandidate, SaveCache, RecordColdStatus, SaveStatus, FetchFails,
        SaveCacheFails, SaveStatusFails, PruneVersions, Crash, RefuseRollback,
        AfterDecision, Committing, TypeOK
  <2>2. CASE u # w
    BY <1>3, <1>12, <2>2
    DEF RejectCandidate, SaveCache, RecordColdStatus, SaveStatus, FetchFails,
        SaveCacheFails, SaveStatusFails, PruneVersions, Crash, RefuseRollback,
        SameWriter, localVars, manifestVars, TypeOK
  <2> QED BY <2>1, <2>2
<1>13. ASSUME Fault PROVE Committing(u)'
  BY <1>1, <1>4, <1>13 DEF Fault, SameWriter, localVars
<1>14. ASSUME UNCHANGED vars PROVE Committing(u)'
  BY <1>3, <1>14 DEF vars, SameWriter, localVars
<1> QED
  BY StepCases, <1>5, <1>6, <1>7, <1>8, <1>9, <1>10, <1>11, <1>12, <1>13,
     <1>14

LEMMA CommitInvHolds == Spec => []CommitInv
<1>1. Init => CommitInv
  BY DEF Init, CommitInv, Committing
<1>2. TypeOK /\ Inv /\ CommitInv /\ [Next]_vars => CommitInv'
  BY CommitStep DEF Inv, CommitInv
<1> QED BY <1>1, <1>2, TypeCorrect, InvHolds, PTL DEF Spec

-----------------------------------------------------------------------------
\* The instance counts with the same operator.
LEMMA SameCardinality == \A S : Channel!Cardinality(S) = Cardinality(S)
BY DEF Channel!Cardinality, Cardinality

\* The commit of a manifest is the one step that readers see.
LEMMA CommitImplements ==
  ASSUME TypeOK, Inv, CommitInv, NEW w \in Writers, CommitManifest(w)
  PROVE  Channel!Next
<1>1. PICK h \in Histories, older \in Sources(w) :
        IsHistory(h, ver[w], older) /\ history' = h
  BY DEF CommitManifest
<1>2. /\ files' = files /\ cache' = cache /\ manifestFile' = "ok"
      /\ faults' = faults
      /\ ver[w] \in Versions /\ Readable(ver[w])
  BY DEF CommitManifest, syncVars, boundVars, Inv, PublishInv, Prepared
<1>3. \A v \in Entries(h) : Readable(v)
  BY <1>1, <1>2 DEF IsHistory
<1>4. h[1] = ver[w] /\ h[1] \in Entries(h) /\ Entries(h) \subseteq Versions
  BY <1>1, HistoryFacts DEF IsHistory, Entries
<1>5. /\ ServedVersion' = ver[w]
      /\ Retained' = Entries(h) \ {ver[w]}
  BY <1>1, <1>2, <1>3, <1>4
  DEF ServedVersion, Retained, CurrentReadable, Current, Readable
<1>6. /\ Cardinality(Retained') = Len(h) - 1
      /\ Len(h) \in 1 .. Retention
  BY <1>4, <1>5, HistoryCount, HistoryFacts
<1>7. Cardinality(Retained') < Retention
  BY <1>6
<1>8. ASSUME CurrentReadable
      PROVE  /\ ServedVersion = Current /\ Current # NoVersion
             /\ Current \in Entries(history)
             /\ Retained = {v \in Entries(history) : Readable(v)} \ {Current}
  BY <1>8, HistoryFacts
  DEF ServedVersion, Retained, CurrentReadable, Current, Entries, TypeOK
<1>9. ASSUME older = history, manifestFile = "ok"
      PROVE  Channel!Keep(ver[w])
  <2> DEFINE pool == (Retained \union {ServedVersion}) \ {ver[w], NoVersion}
             readable == {v \in Entries(history) : Readable(v)} \ {ver[w]}
  <2>1. history \in Histories
    BY <1>9 DEF TypeOK
  <2>2. Current \in Entries(history) /\ NoVersion \notin Entries(history)
    BY <2>1, HistoryFacts DEF Current, Entries
  <2>3. pool = readable
    BY <1>9, <2>2 DEF Retained, ServedVersion, CurrentReadable
  <2>4. Retained' \subseteq readable
    BY <1>1, <1>5, <1>9 DEF IsHistory
  <2>5. Retained' # readable => Cardinality(Retained') = Retention - 1
    BY <1>1, <1>5, <1>6, <1>9, <2>4 DEF IsHistory
  <2>6. ServedVersion \notin {ver[w], NoVersion} => ServedVersion \in Retained'
    <3> SUFFICES ASSUME CurrentReadable, ver[w] # Current
                 PROVE  Current \in Retained'
      BY DEF ServedVersion
    <3>1. \A a : ~Precedes(history, a, Current)
      BY <2>1, HistoryFacts DEF Current, Precedes
    <3>2. Current \in Entries(h)
      <4> SUFFICES ASSUME Current \notin Entries(h) PROVE FALSE
        OBVIOUS
      <4>1. Len(h) = Retention /\ \A i \in 2 .. Len(h) :
              Precedes(history, h[i], Current)
        BY <1>1, <1>8, <1>9, <2>2, HistoryFacts
        DEF IsHistory, Entries, CurrentReadable
      <4> QED BY <3>1, <4>1
    <3> QED BY <1>5, <1>9, <3>2
  <2> QED BY <1>7, <2>3, <2>4, <2>5, <2>6, SameCardinality DEF Channel!Keep
<1>10. CASE pc[w] = "rollback"
  <2>1. /\ role[w] = "rollback" /\ manifestFile = "ok"
        /\ ver[w] \in Entries(history) \ {Current}
    BY <1>10 DEF CommitInv, Committing
  <2>2. older = history
    BY <2>1, <1>1 DEF Sources
  <2>3. ver[w] \in Retained
    BY <1>2, <2>1 DEF Retained
  <2>4. Channel!Rollback(ver[w])
    BY <1>2, <1>5, <1>9, <2>1, <2>2, <2>3 DEF Channel!Rollback
  <2> QED BY <1>2, <2>4 DEF Channel!Next
<1>11. CASE pc[w] = "versioned" /\ CurrentReadable
  <2>1. \/ role[w] = "refresh"
        \/ role[w] = "bootstrap" /\ "bootstrap" \in Roles
    BY <1>11 DEF CommitInv, Committing
  <2>2. older = history /\ manifestFile = "ok"
    BY <1>1, <1>11, <2>1 DEF Sources, CurrentReadable
  <2>3. CASE role[w] = "refresh"
    <3>1. FetchedAt[ver[w]] > FetchedAt[Current]
      BY <1>11, <2>3 DEF Inv, PublishInv, Prepared
    <3>2. Channel!Publish(ver[w])
      BY <1>2, <1>5, <1>8, <1>9, <1>11, <2>2, <3>1 DEF Channel!Publish
    <3> QED BY <1>2, <3>2 DEF Channel!Next
  <2>4. CASE role[w] = "bootstrap" /\ "bootstrap" \in Roles
    <3>1. Channel!Repair(ver[w])
      BY <1>2, <1>5, <1>8, <1>9, <1>11, <2>2, <2>4 DEF Channel!Repair
    <3> QED BY <1>2, <3>1 DEF Channel!Next
  <2> QED BY <2>1, <2>3, <2>4
<1>12. CASE pc[w] = "versioned" /\ ~CurrentReadable
  <2>1. ServedVersion = NoVersion
    BY <1>12 DEF ServedVersion
  <2>2. Channel!Restore(ver[w])
    BY <1>2, <1>4, <1>5, <1>7, <2>1, SameCardinality DEF Channel!Restore
  <2> QED BY <1>2, <2>2 DEF Channel!Next
<1> QED BY <1>10, <1>11, <1>12 DEF CommitManifest

\* Every other step changes nothing for a reader, refreshes the copy or loses
\* a file.
LEMMA StepImplements ==
  ASSUME TypeOK, Inv, CommitInv, [Next]_vars
  PROVE  [Channel!Next]_(Channel!vars)
<1>1. ASSUME UNCHANGED <<files, manifestFile, history, cache, faults>>
      PROVE  UNCHANGED Channel!vars
  BY <1>1
  DEF Channel!vars, ServedVersion, Retained, CurrentReadable, Current,
      Readable
<1>2. ASSUME NEW w \in Writers, WriteVersion(w) PROVE UNCHANGED Channel!vars
  <2>1. /\ ver[w] \in Versions
        /\ files' = [files EXCEPT ![ver[w]] = "valid"]
        /\ files[ver[w]] # "damaged"
        /\ UNCHANGED <<manifestFile, history, cache, faults>>
    BY <1>2
    DEF WriteVersion, Inv, PublishInv, Prepared, manifestVars, syncVars,
        boundVars
  <2>2. manifestFile = "ok" =>
          \A v \in Entries(history) : Readable(v)' = Readable(v)
    BY <2>1, HistoryFacts
    DEF Inv, ManifestBacked, Readable, Entries, FileStates, TypeOK
  <2>3. manifestFile = "ok" => Current \in Entries(history)
    BY HistoryFacts DEF Current, Entries, TypeOK
  <2>4. ServedVersion' = ServedVersion
    BY <2>1, <2>2, <2>3 DEF ServedVersion, CurrentReadable, Current
  <2>5. Retained' = Retained
    BY <2>1, <2>2 DEF Retained, Current, Entries
  <2> QED BY <2>1, <2>4, <2>5 DEF Channel!vars
<1>3. ASSUME NEW w \in Writers, PruneVersions(w) PROVE UNCHANGED Channel!vars
  <2>1. PICK gone \in SUBSET (Versions \ Entries(history)) :
          files' = [v \in Versions |-> IF v \in gone THEN "absent"
                                       ELSE files[v]]
    BY <1>3 DEF PruneVersions, Unlinkable
  <2>2. UNCHANGED <<manifestFile, history, cache, faults>>
    BY <1>3 DEF PruneVersions, manifestVars, syncVars, boundVars
  <2>3. manifestFile = "ok" =>
          /\ Current \in Entries(history)
          /\ \A v \in Entries(history) : Readable(v)' = Readable(v)
    BY <2>1, HistoryFacts DEF Readable, Current, Entries, TypeOK
  <2>4. ServedVersion' = ServedVersion
    BY <2>2, <2>3 DEF ServedVersion, CurrentReadable, Current
  <2>5. Retained' = Retained
    BY <2>2, <2>3 DEF Retained, Current, Entries
  <2> QED BY <2>2, <2>4, <2>5 DEF Channel!vars
<1>4. ASSUME NEW w \in Writers, SaveCache(w) PROVE Channel!Next
  <2>1. /\ CurrentReadable /\ cache' = Current
        /\ UNCHANGED <<files, manifestFile, history, faults>>
    BY <1>4 DEF SaveCache, manifestVars, boundVars
  <2>2. ServedVersion = Current /\ Current # NoVersion
    BY <2>1, HistoryFacts DEF ServedVersion, CurrentReadable, Current, TypeOK
  <2>3. UNCHANGED <<ServedVersion, Retained>>
    BY <2>1
    DEF ServedVersion, Retained, CurrentReadable, Current, Readable
  <2>4. Channel!Reconcile
    BY <2>1, <2>2, <2>3 DEF Channel!Reconcile
  <2> QED BY <2>4 DEF Channel!Next
<1>5. ASSUME Fault PROVE Channel!Next
  <2>1. history' = history /\ cache' = cache /\ faults' = faults + 1
    BY <1>5 DEF Fault, syncVars
  <2>2. manifestFile' = "ok" => manifestFile = "ok"
    BY <1>5 DEF Fault
  <2>3. \A v \in Versions : Readable(v)' => Readable(v)
    BY <1>5 DEF Fault, Readable, TypeOK
  <2>4. manifestFile = "ok" =>
          Current \in Versions /\ Entries(history) \subseteq Versions
    BY HistoryFacts DEF Current, Entries, TypeOK
  <2>5. ServedVersion' \in {ServedVersion, NoVersion}
    BY <2>1, <2>2, <2>3, <2>4
    DEF ServedVersion, CurrentReadable, Current
  <2>6. Retained' \in SUBSET Retained
    BY <2>1, <2>2, <2>3, <2>4 DEF Retained, Current, Entries
  <2>7. Channel!Lose
    BY <2>1, <2>5, <2>6 DEF Channel!Lose
  <2> QED BY <2>7 DEF Channel!Next
<1>6. CASE UNCHANGED vars
  BY <1>1, <1>6 DEF vars, manifestVars, syncVars, boundVars
<1>7. ASSUME NEW w \in Writers, SaveCacheFails(w) \/ SaveStatusFails(w)
      PROVE  Channel!Next
  <2>1. /\ UNCHANGED <<files, manifestFile, history, cache>>
        /\ faults' = faults + 1
    BY <1>7 DEF SaveCacheFails, SaveStatusFails, manifestVars, syncVars
  <2>2. UNCHANGED <<ServedVersion, Retained>>
    BY <2>1
    DEF ServedVersion, Retained, CurrentReadable, Current, Readable
  <2>3. Channel!Lose
    BY <2>1, <2>2 DEF Channel!Lose
  <2> QED BY <2>3 DEF Channel!Next
<1>8. ASSUME NEW w \in Writers,
             \/ \E v \in Versions : BeginRefresh(w, v)
             \/ ChooseRecovery(w) \/ BeginRollback(w) \/ RefuseRollback(w)
             \/ BeginRecovery(w) \/ AcceptCandidate(w) \/ RejectCandidate(w)
             \/ RecordColdStatus(w) \/ SaveStatus(w) \/ FetchFails(w)
             \/ Crash(w)
      PROVE  UNCHANGED Channel!vars
  BY <1>1, <1>8
  DEF BeginRefresh, ChooseRecovery, BeginRollback, RefuseRollback,
      BeginRecovery, AcceptCandidate, RejectCandidate, RecordColdStatus,
      SaveStatus, FetchFails, Crash, manifestVars, syncVars, boundVars
<1> QED
  BY StepCases, CommitImplements, <1>2, <1>3, <1>4, <1>5, <1>6, <1>7, <1>8

\* The channel, with its files, lock and crashes, implements the abstract one
\* for every set of versions and writers.
THEOREM ChannelImplements == Spec => ImplementsPublished
<1>1. Init => Channel!Init
  BY DEF Init, Channel!Init, ServedVersion, Retained, CurrentReadable
<1>2. TypeOK /\ Inv /\ CommitInv /\ [Next]_vars
        => [Channel!Next]_(Channel!vars)
  BY StepImplements
<1> QED
  BY <1>1, <1>2, TypeCorrect, InvHolds, CommitInvHolds, PTL
  DEF Spec, Channel!Spec, ImplementsPublished

-----------------------------------------------------------------------------
\* Without the start-up repair every writer that decides also reconciles, and
\* the copies follow what is served.
LEMMA SettleStep ==
  ASSUME "bootstrap" \notin Roles, TypeOK, LockInv, ManifestBacked, SettleInv,
         [Next]_vars
  PROVE  SettleInv'
<1> USE DEF SettleInv, TypeOK
<1>1. ASSUME crashes' # 0 \/ faults' # 0, role' = role
      PROVE  SettleInv'
  BY <1>1
\* Steps that leave the files, the manifest and the copies as they are.
<1>2. ASSUME UNCHANGED <<files, manifestVars, syncVars, boundVars>>,
             NEW w \in Writers,
             \A u \in Writers : u # w => pc'[u] = pc[u],
             \A u \in Writers : role'[u] # "bootstrap",
             WillReconcile(w) => WillReconcile(w)',
             pc'[w] # "uncached", pc'[w] = "cached" => pc[w] = "cached"
      PROVE  SettleInv'
  <2> SUFFICES ASSUME crashes = 0, faults = 0
               PROVE  (NothingLost /\ CopiesFollow)'
    BY <1>2 DEF boundVars
  <2>1. NothingLost /\ CopiesFollow
    OBVIOUS
  <2>2. NothingLost'
    BY <1>2, <2>1 DEF NothingLost, manifestVars, syncVars, Current
  <2>3. CopiesFollow'
    BY <1>2, <2>1
       DEF CopiesFollow, WillReconcile, manifestVars, syncVars, Current
  <2> QED BY <2>2, <2>3
<1>3. ASSUME NEW w \in Writers, NEW v \in Versions, BeginRefresh(w, v)
      PROVE  SettleInv'
  BY <1>2, <1>3 DEF BeginRefresh, Allocate, WillReconcile
<1>4. ASSUME NEW w \in Writers, ChooseRecovery(w) PROVE SettleInv'
  BY <1>4 DEF ChooseRecovery
<1>5. ASSUME NEW w \in Writers, BeginRollback(w) PROVE SettleInv'
  BY <1>2, <1>5 DEF BeginRollback, Allocate, WillReconcile
<1>6. ASSUME NEW w \in Writers, RefuseRollback(w) PROVE SettleInv'
  BY <1>2, <1>6 DEF RefuseRollback, Allocate, WillReconcile
<1>7. ASSUME NEW w \in Writers, BeginRecovery(w) PROVE SettleInv'
  BY <1>2, <1>7 DEF BeginRecovery, Allocate, WillReconcile
<1>8. ASSUME NEW w \in Writers, AcceptCandidate(w) PROVE SettleInv'
  BY <1>2, <1>8 DEF AcceptCandidate, WillReconcile, localVars
<1>9. ASSUME NEW w \in Writers, RejectCandidate(w) PROVE SettleInv'
  BY <1>2, <1>9 DEF RejectCandidate, AfterDecision, WillReconcile
<1>10. ASSUME NEW w \in Writers, FetchFails(w) PROVE SettleInv'
  BY <1>2, <1>10 DEF FetchFails, WillReconcile
<1>11. ASSUME NEW w \in Writers, WriteVersion(w) PROVE SettleInv'
  <2>1. /\ role' = role /\ UNCHANGED <<manifestVars, syncVars, boundVars>>
        /\ \A v \in Versions : files[v] # "damaged" => files'[v] # "damaged"
        /\ pc' = [pc EXCEPT ![w] = "versioned"] /\ pc[w] = "accepted"
    BY <1>11 DEF WriteVersion, localVars
  <2>2. NothingLost => NothingLost'
    BY <2>1 DEF NothingLost, manifestVars, syncVars, Current
  <2>3. CopiesFollow => CopiesFollow'
    BY <2>1 DEF CopiesFollow, WillReconcile, manifestVars, syncVars, Current
  <2> QED BY <2>1, <2>2, <2>3 DEF boundVars
<1>12. ASSUME NEW w \in Writers, CommitManifest(w) PROVE SettleInv'
  <2>1. /\ role' = role /\ UNCHANGED <<files, boundVars>>
        /\ pc' = [pc EXCEPT ![w] = "committed"]
        /\ pc[w] \in {"versioned", "rollback"}
    BY <1>12 DEF CommitManifest, localVars
  <2>2. \A u \in Writers : u # w => pc[u] \notin Held
    BY <2>1 DEF LockInv, Held
  <2>3. NothingLost => NothingLost'
    BY <2>1, <2>2 DEF NothingLost, Held
  <2>4. CopiesFollow'
    BY <2>1 DEF CopiesFollow, WillReconcile
  <2> QED BY <2>1, <2>3, <2>4 DEF boundVars
<1>13. ASSUME NEW w \in Writers, PruneVersions(w) PROVE SettleInv'
  <2>1. /\ role' = role /\ UNCHANGED <<manifestVars, syncVars, boundVars>>
        /\ \A v \in Versions : files[v] # "damaged" => files'[v] # "damaged"
        /\ pc' = [pc EXCEPT ![w] = "reconciling"]
    <3>1. AfterDecision(w) = "reconciling"
      BY DEF AfterDecision
    <3>2. \A v \in Versions : files'[v] = "absent" \/ files'[v] = files[v]
      BY <1>13 DEF PruneVersions
    <3> QED BY <1>13, <3>1, <3>2 DEF PruneVersions
  <2>2. NothingLost => NothingLost'
    BY <2>1 DEF NothingLost, manifestVars, syncVars, Current
  <2>3. CopiesFollow'
    BY <2>1 DEF CopiesFollow, WillReconcile
  <2> QED BY <2>1, <2>2, <2>3 DEF boundVars
<1>14. ASSUME NEW w \in Writers, SaveCache(w) PROVE SettleInv'
  <2>1. /\ role' = role /\ UNCHANGED <<files, manifestVars, boundVars>>
        /\ cache' = Current /\ manifestFile = "ok"
        /\ pc' = [pc EXCEPT ![w] = "cached"]
    BY <1>14 DEF SaveCache, CurrentReadable, localVars
  <2>2. NothingLost => NothingLost'
    BY <2>1 DEF NothingLost, manifestVars, Current
  <2>3. CopiesFollow'
    BY <2>1 DEF CopiesFollow, WillReconcile
  <2> QED BY <2>1, <2>2, <2>3 DEF boundVars
<1>15. ASSUME NEW w \in Writers, SaveStatus(w) PROVE SettleInv'
  <2>1. /\ role' = role /\ UNCHANGED <<files, manifestVars, cache, boundVars>>
        /\ status'.version = Current
        /\ pc' = [pc EXCEPT ![w] = "idle"] /\ pc[w] \in {"cached", "uncached"}
    BY <1>15 DEF SaveStatus, ReconciledStatus, localVars
  <2>2. NothingLost => NothingLost'
    BY <2>1 DEF NothingLost, manifestVars, Current
  <2>3. NothingLost => CopiesFollow'
    BY <2>1 DEF NothingLost, CopiesFollow, manifestVars, Current
  <2> QED BY <2>1, <2>2, <2>3 DEF boundVars
<1>16. ASSUME NEW w \in Writers, RecordColdStatus(w) PROVE SettleInv'
  <2>1. /\ role' = role /\ UNCHANGED <<files, manifestVars, cache, boundVars>>
        /\ pc' = [pc EXCEPT ![w] = "idle"] /\ ~CurrentReadable
    BY <1>16 DEF RecordColdStatus, localVars
  <2>2. NothingLost => manifestFile # "ok"
    <3> SUFFICES ASSUME NothingLost, manifestFile = "ok" PROVE FALSE
      OBVIOUS
    <3>1. Current \in Versions /\ 1 \in DOMAIN history
      BY HistoryFacts DEF Current
    <3>2. files[Current] \notin {"absent", "damaged"}
      BY <3>1 DEF NothingLost, ManifestBacked, Current
    <3> QED BY <2>1, <3>1, <3>2 DEF CurrentReadable, Readable, FileStates
  <2>3. NothingLost => NothingLost'
    BY <2>1 DEF NothingLost, manifestVars, Current
  <2>4. NothingLost => CopiesFollow'
    BY <2>1, <2>2 DEF CopiesFollow, manifestVars
  <2> QED BY <2>1, <2>3, <2>4 DEF boundVars
<1>17. ASSUME NEW w \in Writers,
              SaveCacheFails(w) \/ SaveStatusFails(w) \/ Crash(w)
       PROVE  SettleInv'
  BY <1>1, <1>17 DEF SaveCacheFails, SaveStatusFails, Crash, localVars
<1>18. CASE Fault
  BY <1>1, <1>18 DEF Fault, localVars
<1>19. CASE UNCHANGED vars
  BY <1>19
     DEF vars, NothingLost, CopiesFollow, WillReconcile, manifestVars,
         syncVars, localVars, boundVars, Current
<1> QED
  BY StepCases, <1>3, <1>4, <1>5, <1>6, <1>7, <1>8, <1>9, <1>10, <1>11,
     <1>12, <1>13, <1>14, <1>15, <1>16, <1>17, <1>18, <1>19

\* When refreshes and rollbacks have ended without a crash or a fault, the
\* cache and the status describe the served dataset.  The start-up repair is
\* left out: it publishes without reconciling.
THEOREM CopiesSettle ==
  ASSUME "bootstrap" \notin Roles
  PROVE  Spec => []Settled
<1>1. Init => SettleInv
  BY DEF Init, SettleInv, NothingLost, CopiesFollow
<1>2. TypeOK /\ Inv /\ SettleInv /\ [Next]_vars => SettleInv'
  BY SettleStep DEF Inv
<1>3. SettleInv => Settled
  BY DEF SettleInv, CopiesFollow, WillReconcile, Settled
<1> QED BY <1>1, <1>2, <1>3, TypeCorrect, InvHolds, PTL DEF Spec
-----------------------------------------------------------------------------
(* The refresh of the HSGuru matrix (MetaMatrixRun).                        *)

HIDE VersionAssumption
HIDE WriterAssumption
HIDE BoundAssumption

CONSTANTS Matrix, Catalog, Periods, DefaultPeriod, Attempts, Concurrency, Deadline, TTL, Cap

VARIABLES run, slice, count, checkpoint, dataset, lastStatus, join, failures

Meta == INSTANCE MetaMatrixRun WITH status <- lastStatus, faults <- failures

Begun == run.pc \in {"matrix", "catalog", "publish", "close", "report"}

\* A batch of slices fetched for the period p since the start given, or an empty one.
BatchFits(b, p, start) ==
  IF b.have = {} THEN b = Meta!NoBatch ELSE b.periods = {p} /\ b.oldest <= start

RunFits ==
  /\ run.pc = "idle" => run = Meta!NoRun
  /\ run.pc = "discover" => run.batch = Meta!NoBatch
  /\ BatchFits(run.batch, run.period, run.start)
  /\ run.pc = "publish" => Meta!Publishable(run)
  /\ \A s \in Meta!Slices : slice[s].st = "retry" => slice[s].try < Attempts

\* The deck join has the dataset that is published, and no run is under way beside it.
JoinFits == join.pc = "loaded" => run.pc = "idle" /\ join.loaded = dataset

CheckpointFits ==
  /\ BatchFits(checkpoint.batch, checkpoint.period, checkpoint.start)
  /\ checkpoint.saved <= checkpoint.start

MatrixSound ==
  Meta!TypeOK /\ RunFits /\ JoinFits /\ CheckpointFits /\ Meta!PublishedIsWhole

LEMMA MatrixConstants ==
  ASSUME Meta!MatrixAssumption
  PROVE  /\ IsFiniteSet(Meta!Slices) /\ DefaultPeriod \in Periods
         /\ Attempts \in Nat /\ Attempts > 0
         /\ Concurrency \in Nat /\ Deadline \in Nat /\ TTL \in Nat /\ Cap \in Nat
         /\ MaxFaults \in Nat
<1>1. IsFiniteSet(Matrix) /\ IsFiniteSet(Catalog)
  BY Zenon DEF Meta!MatrixAssumption, Meta!IsFiniteSet, IsFiniteSet
<1>2. IsFiniteSet(Meta!Slices)
  BY <1>1, FS_Union DEF Meta!Slices
<1> QED BY <1>2 DEF Meta!MatrixAssumption

LEMMA CardinalityIsTheSame ==
  \A S : Meta!Cardinality(S) = Cardinality(S)
BY Zenon DEF Meta!Cardinality, Cardinality

\* An age goes up by at most one, and keeps its place among the others.
LEMMA OlderFacts ==
  ASSUME Meta!MatrixAssumption, NEW a \in Meta!Ages
  PROVE  /\ Meta!Older(a) \in Meta!Ages /\ a <= Meta!Older(a) /\ Meta!Older(a) <= a + 1
         /\ \A b \in Meta!Ages : a <= b => Meta!Older(a) <= Meta!Older(b)
<1>1. Cap \in Nat /\ a \in Nat /\ a <= Cap /\ \A b \in Meta!Ages : b \in Nat /\ b <= Cap
  BY MatrixConstants DEF Meta!Ages
<1>2. /\ Meta!Older(a) = IF a < Cap THEN a + 1 ELSE Cap
      /\ \A b \in Meta!Ages : Meta!Older(b) = IF b < Cap THEN b + 1 ELSE Cap
  BY DEF Meta!Older
<1>3. Meta!Older(a) \in Meta!Ages /\ a <= Meta!Older(a) /\ Meta!Older(a) <= a + 1
  BY <1>1, <1>2 DEF Meta!Ages
<1>4. ASSUME NEW b \in Meta!Ages, a <= b
      PROVE  Meta!Older(a) <= Meta!Older(b)
  BY <1>1, <1>2, <1>4
<1> QED BY <1>3, <1>4

LEMMA OlderBatchFacts ==
  ASSUME Meta!MatrixAssumption, NEW b \in Meta!Batches
  PROVE  /\ Meta!OlderBatch(b) \in Meta!Batches
         /\ Meta!OlderBatch(b).have = b.have /\ Meta!OlderBatch(b).periods = b.periods
         /\ b.have = {} => Meta!OlderBatch(b) = b
         /\ b.have # {} => Meta!OlderBatch(b).oldest = Meta!Older(b.oldest)
BY OlderFacts DEF Meta!OlderBatch, Meta!Batches

LEMMA OlderFits ==
  ASSUME Meta!MatrixAssumption, NEW b \in Meta!Batches, NEW p, NEW start \in Meta!Ages,
         BatchFits(b, p, start)
  PROVE  BatchFits(Meta!OlderBatch(b), p, Meta!Older(start))
<1>1. b.oldest \in Meta!Ages
  BY DEF Meta!Batches
<1> QED BY <1>1, OlderBatchFacts, OlderFacts DEF BatchFits

LEMMA WithFacts ==
  ASSUME NEW b \in Meta!Batches, NEW s \in Meta!Slices, NEW p \in Periods
  PROVE  /\ Meta!With(b, s, p) \in Meta!Batches
         /\ Meta!With(b, s, p).have = b.have \union {s}
         /\ Meta!With(b, s, p).periods = b.periods \union {p}
         /\ Meta!With(b, s, p).oldest = b.oldest
BY DEF Meta!With, Meta!Batches

LEMMA WithFits ==
  ASSUME Meta!MatrixAssumption, NEW b \in Meta!Batches, NEW s \in Meta!Slices,
         NEW p \in Periods, NEW start \in Meta!Ages, BatchFits(b, p, start)
  PROVE  BatchFits(Meta!With(b, s, p), p, start)
<1>1. 0 <= start
  BY MatrixConstants DEF Meta!Ages
<1> QED BY <1>1, WithFacts DEF BatchFits, Meta!NoBatch

\* The records the run is made of.
Runs == [pc : {"idle", "discover", "matrix", "catalog", "publish", "close", "report"},
         period : Periods, batch : Meta!Batches, start : Meta!Ages, age : Meta!Ages,
         errors : BOOLEAN, late : BOOLEAN, saving : BOOLEAN]
Checkpoints == [state : {"none", "in_progress", "complete"}, period : Periods,
                batch : Meta!Batches, start : Meta!Ages, saved : Meta!Ages]
Datasets == [period : Periods, batch : Meta!Batches, start : Meta!Ages]

LEMMA NothingFacts ==
  ASSUME Meta!MatrixAssumption
  PROVE  /\ Meta!NoBatch \in Meta!Batches /\ Meta!NoBatch.have = {}
         /\ Meta!NoRun \in Runs /\ Meta!NoRun.pc = "idle" /\ Meta!NoRun.batch = Meta!NoBatch
         /\ Meta!NoRun.age = 0 /\ Meta!NoRun.start = 0 /\ Meta!NoRun.saving
         /\ Meta!NoCheckpoint \in Checkpoints /\ Meta!NoCheckpoint.batch = Meta!NoBatch
         /\ Meta!NoCheckpoint.state = "none" /\ Meta!NoCheckpoint.saved = 0
         /\ Meta!NoCheckpoint.start = 0
         /\ Meta!NoDataset \in Datasets /\ Meta!NoDataset.batch = Meta!NoBatch
         /\ Meta!NoDataset.start = Cap
         /\ Meta!NoJoin.pc = "idle" /\ Meta!NoJoin \in [pc : {"idle", "loaded"}, loaded : Datasets]
<1>1. 0 \in Meta!Ages /\ Cap \in Meta!Ages /\ DefaultPeriod \in Periods
  BY MatrixConstants DEF Meta!Ages
<1>2. Meta!NoBatch \in Meta!Batches /\ Meta!NoBatch.have = {}
  BY <1>1 DEF Meta!NoBatch, Meta!Batches
<1>3. Meta!NoDataset \in Datasets
  BY <1>1, <1>2 DEF Meta!NoDataset, Datasets
<1> QED BY <1>1, <1>2, <1>3
           DEF Meta!NoRun, Meta!NoCheckpoint, Meta!NoDataset, Meta!NoJoin, Runs, Checkpoints

\* A run that saves writes what it has, or does not write again.
LEMMA SaveFacts ==
  ASSUME Meta!MatrixAssumption, Meta!TypeOK, NEW r \in Runs,
         NEW state \in {"in_progress", "complete"}, Meta!Save(r, state)
  PROVE  /\ run' \in Runs /\ checkpoint' \in Checkpoints /\ failures' \in 0 .. MaxFaults
         /\ run'.pc = r.pc /\ run'.period = r.period /\ run'.batch = r.batch
         /\ run'.start = r.start /\ run'.age = r.age /\ run'.errors = r.errors
         /\ run'.late = r.late /\ (run'.saving => r.saving)
         /\ \/ /\ checkpoint'.state = state /\ checkpoint'.period = r.period
               /\ checkpoint'.batch = r.batch /\ checkpoint'.start = r.start
               /\ checkpoint'.saved = 0
            \/ checkpoint' = checkpoint /\ ~run'.saving
<1>1. 0 \in Meta!Ages /\ failures \in 0 .. MaxFaults /\ MaxFaults \in Nat
      /\ checkpoint \in Checkpoints
  BY MatrixConstants DEF Meta!Ages, Meta!TypeOK, Checkpoints
<1> DEFINE file == Meta!Saved(r, state)
<1>2. /\ file \in Checkpoints /\ file.state = state /\ file.period = r.period
      /\ file.batch = r.batch /\ file.start = r.start /\ file.saved = 0
  BY <1>1 DEF Meta!Saved, Runs, Checkpoints
<1> HIDE DEF file
<1>3. CASE r.saving /\ run' = r /\ checkpoint' = file /\ failures' = failures
  BY <1>1, <1>2, <1>3
<1>4. CASE /\ r.saving /\ failures < MaxFaults /\ run' = [r EXCEPT !.saving = FALSE]
           /\ failures' = failures + 1 /\ checkpoint' = checkpoint
  <2>1. /\ run' \in Runs /\ run'.saving = FALSE
        /\ run'.pc = r.pc /\ run'.period = r.period /\ run'.batch = r.batch
        /\ run'.start = r.start /\ run'.age = r.age /\ run'.errors = r.errors
        /\ run'.late = r.late
    BY <1>4 DEF Runs
  <2>2. checkpoint' \in Checkpoints /\ failures' \in 0 .. MaxFaults
    BY <1>1, <1>4
  <2> QED BY <1>4, <2>1, <2>2
<1>5. CASE ~r.saving /\ run' = r /\ checkpoint' = checkpoint /\ failures' = failures
  BY <1>1, <1>5
<1> QED BY <1>3, <1>4, <1>5 DEF Meta!Save, file

LEMMA ResumedFacts ==
  ASSUME Meta!MatrixAssumption, Meta!TypeOK, NEW p \in Periods, NEW failed \in BOOLEAN
  PROVE  LET r == Meta!Resumed(p, failed)
         IN  /\ r \in Runs /\ r.pc = "matrix" /\ r.period = p /\ r.age = run.age
             /\ r.saving = run.saving
             /\ Meta!Fits(p) => r.batch = checkpoint.batch /\ r.start = checkpoint.start
             /\ ~Meta!Fits(p) => r.batch = Meta!NoBatch /\ r.start = run.age
<1>1. run \in Runs /\ checkpoint \in Checkpoints
  BY DEF Meta!TypeOK, Runs, Checkpoints
<1>2. Meta!Fits(p) \in BOOLEAN
  BY DEF Meta!Fits
<1> DEFINE b == IF Meta!Fits(p) THEN checkpoint.batch ELSE Meta!NoBatch
           t == IF Meta!Fits(p) THEN checkpoint.start ELSE run.age
<1>3. b \in Meta!Batches /\ t \in Meta!Ages
  BY <1>1, <1>2, NothingFacts DEF Runs, Checkpoints
<1>4. Meta!Resumed(p, failed) = [run EXCEPT !.pc = "matrix", !.period = p, !.errors = failed,
                                            !.batch = b, !.start = t]
  BY DEF Meta!Resumed
<1> HIDE DEF b, t
<1>5. LET r == Meta!Resumed(p, failed)
      IN  /\ r \in Runs /\ r.pc = "matrix" /\ r.period = p /\ r.age = run.age
          /\ r.saving = run.saving /\ r.batch = b /\ r.start = t
  BY <1>1, <1>3, <1>4 DEF Runs
<1> QED BY <1>2, <1>5 DEF b, t

SliceStates == [st : {"waiting", "fetching", "retry", "done", "failed", "skipped"},
                try : 0 .. Attempts]
Counts == [total : Nat, started : Nat, succeeded : Nat, failed : Nat, skipped : Nat]

LEMMA MatrixTypes ==
  Meta!TypeOK <=>
    /\ run \in Runs
    /\ slice \in [Meta!Slices -> SliceStates]
    /\ count \in Counts
    /\ checkpoint \in Checkpoints
    /\ dataset \in Datasets
    /\ lastStatus \in [window : Meta!Ages, late : BOOLEAN]
    /\ join \in [pc : {"idle", "loaded"}, loaded : Datasets]
    /\ failures \in 0 .. MaxFaults
BY DEF Meta!TypeOK, Runs, SliceStates, Counts, Checkpoints, Datasets

\* A step that moves nothing but slices of a run, its counters and its errors.
LEMMA FetchingSound ==
  ASSUME Meta!MatrixAssumption, MatrixSound, Begun, run.pc # "publish", run' \in Runs,
         run'.pc = run.pc, run'.period = run.period, run'.batch = run.batch,
         run'.start = run.start,
         slice' \in [Meta!Slices -> SliceStates], count' \in Counts,
         \A s \in Meta!Slices : slice'[s].st = "retry" => slice'[s].try < Attempts,
         UNCHANGED <<checkpoint, dataset, lastStatus, join, failures>>
  PROVE  MatrixSound'
<1>1. Meta!TypeOK'
  BY MatrixTypes DEF MatrixSound, Meta!TypeOK, Runs, SliceStates, Counts, Checkpoints, Datasets
<1>2. RunFits'
  BY DEF MatrixSound, RunFits, BatchFits, Begun
<1>3. JoinFits' /\ CheckpointFits' /\ Meta!PublishedIsWhole'
  BY DEF MatrixSound, JoinFits, CheckpointFits, BatchFits, Meta!PublishedIsWhole, Begun
<1> QED BY <1>1, <1>2, <1>3 DEF MatrixSound

LEMMA SliceStepSound ==
  ASSUME Meta!MatrixAssumption, MatrixSound, NEW s \in Meta!Slices,
         \/ Meta!StartSlice(s) \/ Meta!Retry(s) \/ Meta!GiveUp(s) \/ Meta!Pause(s)
  PROVE  MatrixSound'
<1>1. /\ run \in Runs /\ slice \in [Meta!Slices -> SliceStates] /\ count \in Counts
      /\ Attempts \in Nat /\ Attempts > 0
      /\ \A z \in Meta!Slices : slice[z].st = "retry" => slice[z].try < Attempts
  BY MatrixTypes, MatrixConstants DEF MatrixSound, RunFits
<1>2. Begun /\ run.pc # "publish" /\ Meta!Late \in BOOLEAN
  BY DEF Meta!StartSlice, Meta!Retry, Meta!GiveUp, Meta!Pause, Meta!Working, Begun, Meta!Late
<1>3. run' \in Runs /\ run'.pc = run.pc /\ run'.period = run.period /\ run'.batch = run.batch
      /\ run'.start = run.start
  BY <1>1, <1>2 DEF Meta!StartSlice, Meta!Retry, Meta!GiveUp, Meta!Pause, Runs
<1>4. count' \in Counts
  BY <1>1 DEF Meta!StartSlice, Meta!Retry, Meta!GiveUp, Meta!Pause, Counts
<1>5. PICK new \in SliceStates :
        slice' = [slice EXCEPT ![s] = new] /\ (new.st = "retry" => new.try < Attempts)
  <2>1. /\ slice[s] \in SliceStates
        /\ [slice[s] EXCEPT !.st = "skipped"] \in SliceStates
        /\ [slice[s] EXCEPT !.st = "failed"] \in SliceStates
        /\ [slice[s] EXCEPT !.st = "retry"] \in SliceStates
    BY <1>1 DEF SliceStates
  <2>2. CASE Meta!StartSlice(s)
    <3>1. CASE slice' = [slice EXCEPT ![s].st = "skipped"]
      <4>1. [slice[s] EXCEPT !.st = "skipped"] \in SliceStates
        BY <2>1
      <4> WITNESS [slice[s] EXCEPT !.st = "skipped"] \in SliceStates
      <4> QED BY <2>1, <3>1 DEF SliceStates
    <3>2. CASE slice' = [slice EXCEPT ![s] = [st |-> "fetching", try |-> 1]]
      <4>1. [st |-> "fetching", try |-> 1] \in SliceStates
        BY <1>1 DEF SliceStates
      <4> WITNESS [st |-> "fetching", try |-> 1] \in SliceStates
      <4> QED BY <3>2
    <3> QED BY <2>2, <3>1, <3>2 DEF Meta!StartSlice
  <2>3. CASE Meta!Retry(s)
    <3>1. CASE slice' = [slice EXCEPT ![s].st = "failed"]
      <4>1. [slice[s] EXCEPT !.st = "failed"] \in SliceStates
        BY <2>1
      <4> WITNESS [slice[s] EXCEPT !.st = "failed"] \in SliceStates
      <4> QED BY <2>1, <3>1 DEF SliceStates
    <3>2. CASE slice' = [slice EXCEPT ![s] = [st |-> "fetching", try |-> slice[s].try + 1]]
      <4>1. [st |-> "fetching", try |-> slice[s].try + 1] \in SliceStates
        BY <1>1, <2>1, <2>3 DEF SliceStates, Meta!Retry
      <4> WITNESS [st |-> "fetching", try |-> slice[s].try + 1] \in SliceStates
      <4> QED BY <3>2
    <3> QED BY <2>3, <3>1, <3>2 DEF Meta!Retry
  <2>4. CASE Meta!GiveUp(s)
    <3>1. [slice[s] EXCEPT !.st = "failed"] \in SliceStates
      BY <2>1
    <3> WITNESS [slice[s] EXCEPT !.st = "failed"] \in SliceStates
    <3> QED BY <2>1, <2>4 DEF SliceStates, Meta!GiveUp
  <2>5. CASE Meta!Pause(s)
    <3>1. [slice[s] EXCEPT !.st = "retry"] \in SliceStates
      BY <2>1
    <3> WITNESS [slice[s] EXCEPT !.st = "retry"] \in SliceStates
    <3> QED BY <2>1, <2>5 DEF SliceStates, Meta!Pause
  <2> QED BY <2>2, <2>3, <2>4, <2>5
<1>6. /\ slice' \in [Meta!Slices -> SliceStates]
      /\ \A z \in Meta!Slices : slice'[z].st = "retry" => slice'[z].try < Attempts
  BY <1>1, <1>5
<1>7. UNCHANGED <<checkpoint, dataset, lastStatus, join, failures>>
  BY DEF Meta!StartSlice, Meta!Retry, Meta!GiveUp, Meta!Pause
<1> QED BY <1>2, <1>3, <1>4, <1>6, <1>7, FetchingSound

\* A run that has begun and saves what fits is sound, whether or not the save works.
LEMMA SavingSound ==
  ASSUME Meta!MatrixAssumption, MatrixSound, run.pc # "idle", NEW r \in Runs,
         NEW state \in {"in_progress", "complete"},
         r.pc \in {"matrix", "catalog", "report"},
         Meta!Save(r, state), BatchFits(r.batch, r.period, r.start),
         slice' \in [Meta!Slices -> SliceStates], count' \in Counts,
         \A s \in Meta!Slices : slice'[s].st = "retry" => slice'[s].try < Attempts,
         UNCHANGED <<dataset, lastStatus, join>>
  PROVE  MatrixSound'
<1>1. Meta!TypeOK
  BY DEF MatrixSound
<1>2. /\ run' \in Runs /\ checkpoint' \in Checkpoints /\ failures' \in 0 .. MaxFaults
      /\ run'.pc = r.pc /\ run'.period = r.period /\ run'.batch = r.batch
      /\ run'.start = r.start
      /\ \/ /\ checkpoint'.period = r.period /\ checkpoint'.batch = r.batch
            /\ checkpoint'.start = r.start /\ checkpoint'.saved = 0
         \/ checkpoint' = checkpoint
  BY <1>1, SaveFacts
<1>3. Meta!TypeOK'
  BY <1>1, <1>2, MatrixTypes DEF Meta!TypeOK, Runs, SliceStates, Counts, Checkpoints, Datasets
<1>4. RunFits'
  BY <1>2 DEF RunFits, BatchFits
<1>5. JoinFits' /\ Meta!PublishedIsWhole'
  BY <1>2 DEF MatrixSound, JoinFits, Meta!PublishedIsWhole
<1>6. CheckpointFits'
  <2>1. r.start >= 0
    BY MatrixConstants DEF Runs, Meta!Ages
  <2> QED BY <1>2, <2>1 DEF MatrixSound, CheckpointFits, BatchFits
<1> QED BY <1>3, <1>4, <1>5, <1>6 DEF MatrixSound

LEMMA DiscoverSound ==
  ASSUME Meta!MatrixAssumption, MatrixSound, NEW p \in Periods, NEW failed \in BOOLEAN,
         Meta!Discover(p, failed)
  PROVE  MatrixSound'
<1> DEFINE r == Meta!Resumed(p, failed)
<1>1. Meta!TypeOK /\ slice \in [Meta!Slices -> SliceStates] /\ count \in Counts
  BY MatrixTypes DEF MatrixSound
<1>2. /\ r \in Runs /\ r.pc = "matrix" /\ r.period = p
      /\ Meta!Fits(p) => r.batch = checkpoint.batch /\ r.start = checkpoint.start
      /\ ~Meta!Fits(p) => r.batch = Meta!NoBatch
  BY <1>1, ResumedFacts
<1>3. /\ count' = [count EXCEPT !.total = Meta!Cardinality(Meta!Slices \ r.batch.have)]
      /\ slice' = [s \in Meta!Slices |-> IF s \in r.batch.have
                                         THEN [slice[s] EXCEPT !.st = "done"] ELSE slice[s]]
      /\ Meta!Save(r, "in_progress")
      /\ UNCHANGED <<dataset, lastStatus, join>>
      /\ run.pc = "discover"
  BY DEF Meta!Discover
<1>4. BatchFits(r.batch, r.period, r.start)
  <2>1. CASE Meta!Fits(p)
    BY <1>2, <2>1 DEF Meta!Fits, MatrixSound, CheckpointFits
  <2>2. CASE ~Meta!Fits(p)
    BY <1>2, <2>2, NothingFacts DEF BatchFits
  <2> QED BY <2>1, <2>2
<1>5. Meta!Cardinality(Meta!Slices \ r.batch.have) \in Nat
  BY MatrixConstants, FS_Subset, FS_CardinalityType, CardinalityIsTheSame
<1> HIDE DEF r
<1>6. count' \in Counts
  BY <1>1, <1>3, <1>5 DEF Counts
<1>7. /\ slice' \in [Meta!Slices -> SliceStates]
      /\ \A s \in Meta!Slices : slice'[s].st = "retry" => slice'[s].try < Attempts
  <2>1. \A s \in Meta!Slices : slice[s].st = "retry" => slice[s].try < Attempts
    BY DEF MatrixSound, RunFits
  <2>2. ASSUME NEW s \in Meta!Slices
        PROVE  /\ slice'[s] \in SliceStates
               /\ slice'[s].st = "retry" => slice'[s].try < Attempts
    <3>1. slice[s] \in SliceStates
      BY <1>1
    <3>2. CASE slice'[s] = [slice[s] EXCEPT !.st = "done"]
      BY <3>1, <3>2 DEF SliceStates
    <3>3. CASE slice'[s] = slice[s]
      BY <2>1, <3>1, <3>3
    <3> QED BY <1>3, <3>2, <3>3
  <2> QED BY <1>3, <2>2
<1> QED BY <1>2, <1>3, <1>4, <1>6, <1>7, SavingSound

LEMMA SucceedSound ==
  ASSUME Meta!MatrixAssumption, MatrixSound, NEW s \in Meta!Slices, Meta!Succeed(s)
  PROVE  MatrixSound'
<1> DEFINE r == [run EXCEPT !.batch = Meta!With(@, s, run.period), !.late = @ \/ Meta!Late]
<1>1. /\ run \in Runs /\ slice \in [Meta!Slices -> SliceStates] /\ count \in Counts
      /\ BatchFits(run.batch, run.period, run.start)
  BY MatrixTypes DEF MatrixSound, RunFits
<1>2. /\ run.pc \in {"matrix", "catalog"} /\ Meta!Late \in BOOLEAN
      /\ slice' = [slice EXCEPT ![s].st = "done"]
      /\ count' = [count EXCEPT !.succeeded = @ + 1]
      /\ Meta!Save(r, "in_progress") /\ UNCHANGED <<dataset, lastStatus, join>>
  BY DEF Meta!Succeed, Meta!Working, Meta!Late
<1>3. Meta!With(run.batch, s, run.period) \in Meta!Batches
      /\ BatchFits(Meta!With(run.batch, s, run.period), run.period, run.start)
  BY <1>1, WithFacts, WithFits DEF Runs
<1>4. /\ r \in Runs /\ r.pc \in {"matrix", "catalog"}
      /\ r.batch = Meta!With(run.batch, s, run.period)
      /\ r.period = run.period /\ r.start = run.start
  BY <1>1, <1>2, <1>3 DEF Runs
<1> HIDE DEF r
<1>5. count' \in Counts
  BY <1>1, <1>2 DEF Counts
<1>6. /\ slice' \in [Meta!Slices -> SliceStates]
      /\ \A z \in Meta!Slices : slice'[z].st = "retry" => slice'[z].try < Attempts
  <2>1. \A z \in Meta!Slices : slice[z].st = "retry" => slice[z].try < Attempts
    BY DEF MatrixSound, RunFits
  <2>2. [slice[s] EXCEPT !.st = "done"] \in SliceStates
        /\ [slice[s] EXCEPT !.st = "done"].st = "done"
    BY <1>1 DEF SliceStates
  <2> QED BY <1>1, <1>2, <2>1, <2>2
<1> QED BY <1>1, <1>2, <1>3, <1>4, <1>5, <1>6, SavingSound

LEMMA EndsSound ==
  ASSUME Meta!MatrixAssumption, MatrixSound, Meta!Ends
  PROVE  MatrixSound'
<1>1. /\ Meta!TypeOK /\ run \in Runs /\ dataset \in Datasets
      /\ BatchFits(run.batch, run.period, run.start)
      /\ \A s \in Meta!Slices : slice[s].st = "retry" => slice[s].try < Attempts
      /\ Meta!Late \in BOOLEAN
  BY MatrixTypes DEF MatrixSound, RunFits, Meta!Late
<1>2. CASE Meta!EndMatrix
  <2>1. /\ run' \in Runs /\ run'.pc = "catalog" /\ run'.period = run.period
        /\ run'.batch = run.batch /\ run'.start = run.start
    BY <1>1, <1>2 DEF Meta!EndMatrix, Runs
  <2>2. Meta!TypeOK'
    BY <1>1, <1>2, <2>1, MatrixTypes DEF Meta!EndMatrix, Meta!TypeOK, Runs, Datasets
  <2> QED BY <1>1, <1>2, <2>1, <2>2
          DEF MatrixSound, RunFits, JoinFits, CheckpointFits, BatchFits, Meta!PublishedIsWhole,
              Meta!EndMatrix
<1>3. CASE Meta!EndCatalog
  <2> DEFINE r == [run EXCEPT !.late = @ \/ Meta!Late]
  <2>1. r \in Runs /\ Meta!Publishable(r) \in BOOLEAN
    BY <1>1 DEF Runs, Meta!Publishable
  <2>2. /\ run.pc = "catalog"
        /\ run' = [r EXCEPT !.pc = IF Meta!Publishable(r) THEN "publish" ELSE "close"]
        /\ UNCHANGED <<slice, count, checkpoint, dataset, lastStatus, join, failures>>
    BY <1>3 DEF Meta!EndCatalog
  <2>3. /\ r.batch = run.batch /\ r.period = run.period /\ r.start = run.start
    BY <1>1 DEF Runs
  <2> HIDE DEF r
  <2>4. /\ run' \in Runs /\ run'.pc \in {"publish", "close"}
        /\ run'.batch = r.batch /\ run'.period = r.period /\ run'.start = r.start
        /\ run'.errors = r.errors /\ run'.late = r.late
        /\ run'.pc = "publish" => Meta!Publishable(r)
    BY <2>1, <2>2 DEF Runs
  <2>5. Meta!TypeOK'
    BY <1>1, <2>2, <2>4, MatrixTypes DEF Meta!TypeOK, Runs, Datasets
  <2> QED BY <1>1, <2>2, <2>3, <2>4, <2>5
          DEF MatrixSound, RunFits, JoinFits, CheckpointFits, BatchFits, Meta!PublishedIsWhole,
              Meta!Publishable
<1>4. CASE Meta!Publish
  <2>1. /\ run.pc = "publish" /\ run' = [run EXCEPT !.pc = "close"]
        /\ dataset' = [period |-> run.period, batch |-> run.batch, start |-> run.start]
        /\ UNCHANGED <<slice, count, checkpoint, lastStatus, join, failures>>
    BY <1>4 DEF Meta!Publish
  <2>2. /\ run' \in Runs /\ run'.pc = "close" /\ run'.period = run.period
        /\ run'.batch = run.batch /\ run'.start = run.start
    BY <1>1, <2>1 DEF Runs
  <2>3. /\ dataset' \in Datasets /\ dataset'.period = run.period
        /\ dataset'.batch = run.batch /\ dataset'.start = run.start
    BY <1>1, <2>1 DEF Runs, Datasets
  <2>4. Meta!TypeOK'
    BY <1>1, <2>1, <2>2, <2>3, MatrixTypes DEF Meta!TypeOK, Runs, Datasets
  <2>5. Meta!PublishedIsWhole'
    BY <1>1, <2>1, <2>3 DEF MatrixSound, RunFits, BatchFits, Meta!PublishedIsWhole,
                            Meta!Publishable
  <2> QED BY <1>1, <2>1, <2>2, <2>4, <2>5
          DEF MatrixSound, RunFits, JoinFits, CheckpointFits, BatchFits
<1>5. CASE Meta!Close
  <2> DEFINE r == [run EXCEPT !.pc = "report"]
             state == IF Meta!Publishable(run) THEN "complete" ELSE "in_progress"
  <2>1. /\ r \in Runs /\ r.pc = "report" /\ r.period = run.period /\ r.batch = run.batch
        /\ r.start = run.start
    BY <1>1 DEF Runs
  <2>2. Meta!Save(r, state) /\ UNCHANGED <<slice, count, dataset, lastStatus, join>>
        /\ run.pc = "close"
    BY <1>5 DEF Meta!Close
  <2>3. state \in {"in_progress", "complete"}
    OBVIOUS
  <2> HIDE DEF r, state
  <2>4. slice' \in [Meta!Slices -> SliceStates] /\ count' \in Counts
    BY <1>1, <2>2, MatrixTypes
  <2> QED BY <1>1, <2>1, <2>2, <2>3, <2>4, SavingSound
<1>6. CASE Meta!Report
  <2>1. /\ run.pc = "report" /\ run' = Meta!NoRun
        /\ lastStatus' = [window |-> run.start, late |-> run.late]
        /\ UNCHANGED <<slice, count, checkpoint, dataset, join, failures>>
    BY <1>6 DEF Meta!Report
  <2>2. lastStatus' \in [window : Meta!Ages, late : BOOLEAN]
    BY <1>1, <2>1 DEF Runs
  <2>3. Meta!TypeOK'
    BY <1>1, <2>1, <2>2, NothingFacts, MatrixTypes DEF Meta!TypeOK, Runs, Datasets
  <2> QED BY <1>1, <2>1, <2>3, NothingFacts
          DEF MatrixSound, RunFits, JoinFits, CheckpointFits, BatchFits, Meta!PublishedIsWhole
<1> QED BY <1>2, <1>3, <1>4, <1>5, <1>6 DEF Meta!Ends

\* A run starts, or ends before its time.
LEMMA RunsComeAndGo ==
  ASSUME Meta!MatrixAssumption, MatrixSound,
         \/ Meta!Start \/ Meta!HardTimeout \/ Meta!Crash \/ Meta!JoinLoad \/ Meta!JoinSave
  PROVE  MatrixSound'
<1>1. /\ Meta!TypeOK /\ run \in Runs /\ dataset \in Datasets /\ checkpoint \in Checkpoints
      /\ \A s \in Meta!Slices : slice[s].st = "retry" => slice[s].try < Attempts
      /\ failures \in 0 .. MaxFaults /\ MaxFaults \in Nat
  BY MatrixTypes, MatrixConstants DEF MatrixSound, RunFits
<1>2. CASE Meta!Start
  <2>1. /\ run.pc = "idle" /\ join.pc = "idle"
        /\ run' = [Meta!NoRun EXCEPT !.pc = "discover"] /\ count' = Meta!NoCount
        /\ slice' = [s \in Meta!Slices |-> [st |-> "waiting", try |-> 0]]
        /\ UNCHANGED <<checkpoint, dataset, lastStatus, join, failures>>
    BY <1>2 DEF Meta!Start, Meta!Unlocked
  <2>2. run' \in Runs /\ run'.pc = "discover" /\ run'.batch = Meta!NoBatch
    BY <2>1, NothingFacts DEF Runs
  <2>3. /\ slice' \in [Meta!Slices -> SliceStates]
        /\ \A s \in Meta!Slices : slice'[s].st # "retry"
    BY <2>1, MatrixConstants DEF SliceStates
  <2>4. count' \in Counts
    BY <2>1 DEF Meta!NoCount, Counts
  <2>5. Meta!TypeOK'
    BY <1>1, <2>1, <2>2, <2>3, <2>4, MatrixTypes
       DEF Meta!TypeOK, Runs, SliceStates, Counts, Datasets
  <2> QED BY <1>1, <2>1, <2>2, <2>3, <2>5, NothingFacts
          DEF MatrixSound, RunFits, JoinFits, CheckpointFits, BatchFits, Meta!PublishedIsWhole
<1>3. CASE Meta!HardTimeout
  <2>1. /\ run.pc # "idle" /\ run' = Meta!NoRun
        /\ lastStatus' = [window |-> Meta!TimeoutWindow, late |-> TRUE]
        /\ UNCHANGED <<slice, count, checkpoint, dataset, join, failures>>
    BY <1>3 DEF Meta!HardTimeout, Meta!Awaiting
  <2>2. lastStatus' \in [window : Meta!Ages, late : BOOLEAN]
    BY <1>1, <2>1 DEF Meta!TimeoutWindow, Runs, Checkpoints
  <2>3. Meta!TypeOK'
    BY <1>1, <2>1, <2>2, NothingFacts, MatrixTypes DEF Meta!TypeOK, Runs, Datasets
  <2> QED BY <1>1, <2>1, <2>3, NothingFacts
          DEF MatrixSound, RunFits, JoinFits, CheckpointFits, BatchFits, Meta!PublishedIsWhole
<1>4. CASE Meta!Crash
  <2>1. /\ failures < MaxFaults /\ run' = Meta!NoRun /\ join' = Meta!NoJoin
        /\ failures' = failures + 1
        /\ UNCHANGED <<slice, count, checkpoint, dataset, lastStatus>>
    BY <1>4 DEF Meta!Crash
  <2>2. failures' \in 0 .. MaxFaults
    BY <1>1, <2>1
  <2>3. Meta!TypeOK'
    BY <1>1, <2>1, <2>2, NothingFacts, MatrixTypes DEF Meta!TypeOK, Runs, Datasets
  <2> QED BY <1>1, <2>1, <2>3, NothingFacts
          DEF MatrixSound, RunFits, JoinFits, CheckpointFits, BatchFits, Meta!PublishedIsWhole
<1>5. CASE Meta!JoinLoad
  <2>1. /\ run.pc = "idle" /\ join' = [pc |-> "loaded", loaded |-> dataset]
        /\ UNCHANGED <<run, slice, count, checkpoint, dataset, lastStatus, failures>>
    BY <1>5 DEF Meta!JoinLoad, Meta!Unlocked
  <2>2. join' \in [pc : {"idle", "loaded"}, loaded : Datasets] /\ join'.loaded = dataset
    BY <1>1, <2>1
  <2>3. Meta!TypeOK'
    BY <1>1, <2>1, <2>2, MatrixTypes DEF Meta!TypeOK, Runs, Datasets
  <2> QED BY <1>1, <2>1, <2>2, <2>3
          DEF MatrixSound, RunFits, JoinFits, CheckpointFits, BatchFits, Meta!PublishedIsWhole,
              Meta!Publishable
<1>6. CASE Meta!JoinSave
  <2>1. /\ join.pc = "loaded" /\ dataset' = join.loaded /\ join' = Meta!NoJoin
        /\ UNCHANGED <<run, slice, count, checkpoint, lastStatus, failures>>
    BY <1>6 DEF Meta!JoinSave
  <2>2. dataset' = dataset
    BY <2>1 DEF MatrixSound, JoinFits
  <2>3. Meta!TypeOK'
    BY <1>1, <2>1, <2>2, NothingFacts, MatrixTypes DEF Meta!TypeOK, Runs, Datasets
  <2> QED BY <1>1, <2>1, <2>2, <2>3, NothingFacts
          DEF MatrixSound, RunFits, JoinFits, CheckpointFits, BatchFits, Meta!PublishedIsWhole,
              Meta!Publishable
<1> QED BY <1>2, <1>3, <1>4, <1>5, <1>6

\* What a tick does to each record.
LEMMA TickFacts ==
  ASSUME Meta!MatrixAssumption, Meta!TypeOK, Meta!Tick
  PROVE  /\ run.pc \in {"idle", "discover", "matrix", "catalog"}
         /\ Meta!Awaiting => run.age <= Deadline
         /\ run' \in Runs /\ run'.pc = run.pc /\ run'.period = run.period
         /\ run'.saving = run.saving
         /\ run.pc = "idle" => run' = run
         /\ run.pc # "idle" => /\ run'.age = Meta!Older(run.age)
                               /\ run'.batch = Meta!OlderBatch(run.batch)
         /\ run.pc = "discover" => run'.start = run.start
         /\ run.pc \in {"matrix", "catalog"} => run'.start = Meta!Older(run.start)
         /\ checkpoint' \in Checkpoints /\ checkpoint'.state = checkpoint.state
         /\ checkpoint'.period = checkpoint.period
         /\ checkpoint.state = "none" => checkpoint' = checkpoint
         /\ checkpoint.state # "none" =>
              /\ checkpoint'.start = Meta!Older(checkpoint.start)
              /\ checkpoint'.saved = Meta!Older(checkpoint.saved)
              /\ checkpoint'.batch = Meta!OlderBatch(checkpoint.batch)
         /\ dataset' \in Datasets /\ dataset' = Meta!OlderDataset(dataset)
         /\ dataset'.period = dataset.period
         /\ dataset'.start = Meta!Older(dataset.start)
         /\ dataset'.batch = Meta!OlderBatch(dataset.batch)
         /\ lastStatus' \in [window : Meta!Ages, late : BOOLEAN]
         /\ join' \in [pc : {"idle", "loaded"}, loaded : Datasets] /\ join'.pc = join.pc
         /\ join.pc = "loaded" => join'.loaded = Meta!OlderDataset(join.loaded)
         /\ UNCHANGED <<slice, count, failures>>
<1>1. /\ run \in Runs /\ checkpoint \in Checkpoints /\ dataset \in Datasets
      /\ lastStatus \in [window : Meta!Ages, late : BOOLEAN]
      /\ join \in [pc : {"idle", "loaded"}, loaded : Datasets]
  BY MatrixTypes
<1>2. \A a \in Meta!Ages : Meta!Older(a) \in Meta!Ages
  BY OlderFacts
<1>3. \A b \in Meta!Batches : Meta!OlderBatch(b) \in Meta!Batches
  BY OlderBatchFacts
<1>4. /\ run.pc \in {"idle", "discover", "matrix", "catalog"}
      /\ Meta!Awaiting => run.age <= Deadline
  BY <1>1 DEF Meta!Tick, Runs
<1>5. /\ run' \in Runs /\ run'.pc = run.pc /\ run'.period = run.period
      /\ run'.saving = run.saving
      /\ run.pc = "idle" => run' = run
      /\ run.pc # "idle" => /\ run'.age = Meta!Older(run.age)
                            /\ run'.batch = Meta!OlderBatch(run.batch)
      /\ run.pc = "discover" => run'.start = run.start
      /\ run.pc \in {"matrix", "catalog"} => run'.start = Meta!Older(run.start)
  BY <1>1, <1>2, <1>3 DEF Meta!Tick, Runs
<1>6. /\ checkpoint' \in Checkpoints /\ checkpoint'.state = checkpoint.state
      /\ checkpoint'.period = checkpoint.period
      /\ checkpoint.state = "none" => checkpoint' = checkpoint
      /\ checkpoint.state # "none" =>
           /\ checkpoint'.start = Meta!Older(checkpoint.start)
           /\ checkpoint'.saved = Meta!Older(checkpoint.saved)
           /\ checkpoint'.batch = Meta!OlderBatch(checkpoint.batch)
  BY <1>1, <1>2, <1>3 DEF Meta!Tick, Checkpoints
<1>7. ASSUME NEW d \in Datasets
      PROVE  /\ Meta!OlderDataset(d) \in Datasets
             /\ Meta!OlderDataset(d).period = d.period
             /\ Meta!OlderDataset(d).start = Meta!Older(d.start)
             /\ Meta!OlderDataset(d).batch = Meta!OlderBatch(d.batch)
  BY <1>2, <1>3 DEF Meta!OlderDataset, Datasets
<1>8. dataset' = Meta!OlderDataset(dataset)
  BY DEF Meta!Tick
<1>9. lastStatus' \in [window : Meta!Ages, late : BOOLEAN]
  BY <1>1, <1>2 DEF Meta!Tick
<1>10. /\ join' \in [pc : {"idle", "loaded"}, loaded : Datasets] /\ join'.pc = join.pc
       /\ join.pc = "loaded" => join'.loaded = Meta!OlderDataset(join.loaded)
  <2>1. Meta!OlderDataset(join.loaded) \in Datasets
    BY <1>1, <1>7
  <2> QED BY <1>1, <2>1 DEF Meta!Tick
<1>11. UNCHANGED <<slice, count, failures>>
  BY DEF Meta!Tick
<1>12. /\ dataset' \in Datasets /\ dataset'.period = dataset.period
       /\ dataset'.start = Meta!Older(dataset.start)
       /\ dataset'.batch = Meta!OlderBatch(dataset.batch)
  BY <1>1, <1>7, <1>8
<1> QED BY <1>4, <1>5, <1>6, <1>8, <1>9, <1>10, <1>11, <1>12

LEMMA TickSound ==
  ASSUME Meta!MatrixAssumption, MatrixSound, Meta!Tick
  PROVE  MatrixSound'
<1>1. /\ Meta!TypeOK /\ run \in Runs /\ dataset \in Datasets /\ checkpoint \in Checkpoints
      /\ slice \in [Meta!Slices -> SliceStates] /\ count \in Counts
      /\ failures \in 0 .. MaxFaults
  BY MatrixTypes DEF MatrixSound
<1>2. Meta!TypeOK'
  BY <1>1, TickFacts, MatrixTypes
     DEF Meta!TypeOK, Runs, SliceStates, Counts, Checkpoints, Datasets
<1>3. RunFits'
  <2>1. BatchFits(run'.batch, run'.period, run'.start)
    <3>1. CASE run.pc \in {"matrix", "catalog"}
      <4>1. run.batch \in Meta!Batches /\ run.start \in Meta!Ages
            /\ BatchFits(run.batch, run.period, run.start)
        BY <1>1 DEF MatrixSound, RunFits, Runs
      <4> QED BY <1>1, <3>1, <4>1, OlderFits, TickFacts
    <3>2. CASE run.pc = "discover"
      BY <1>1, <3>2, NothingFacts, OlderBatchFacts, TickFacts
         DEF MatrixSound, RunFits, BatchFits
    <3>3. CASE run.pc = "idle"
      BY <1>1, <3>3, TickFacts DEF MatrixSound, RunFits
    <3> QED BY <1>1, <3>1, <3>2, <3>3, TickFacts
  <2>2. run'.pc = "discover" => run'.batch = Meta!NoBatch
    BY <1>1, NothingFacts, OlderBatchFacts, TickFacts DEF MatrixSound, RunFits
  <2> QED BY <1>1, <2>1, <2>2, TickFacts DEF MatrixSound, RunFits
<1>4. JoinFits'
  BY <1>1, TickFacts DEF MatrixSound, JoinFits
<1>5. CheckpointFits'
  <2>1. checkpoint.batch \in Meta!Batches /\ checkpoint.start \in Meta!Ages
        /\ checkpoint.saved \in Meta!Ages
    BY <1>1 DEF Checkpoints
  <2>2. CASE checkpoint.state = "none"
    BY <1>1, <2>2, TickFacts DEF MatrixSound, CheckpointFits
  <2>3. CASE checkpoint.state # "none"
    BY <1>1, <2>1, <2>3, TickFacts, OlderFits, OlderFacts DEF MatrixSound, CheckpointFits
  <2> QED BY <2>2, <2>3
<1>6. Meta!PublishedIsWhole'
  <2>1. dataset.batch \in Meta!Batches /\ dataset.start \in Meta!Ages
        /\ dataset.batch.oldest \in Meta!Ages
    BY <1>1 DEF Datasets, Meta!Batches
  <2> QED BY <1>1, <2>1, TickFacts, OlderBatchFacts, OlderFacts
          DEF MatrixSound, Meta!PublishedIsWhole
<1> QED BY <1>2, <1>3, <1>4, <1>5, <1>6 DEF MatrixSound

LEMMA MatrixInductive ==
  ASSUME Meta!MatrixAssumption
  PROVE  Meta!Spec => []MatrixSound
<1>1. Meta!Init => MatrixSound
  <2> SUFFICES ASSUME Meta!Init PROVE MatrixSound
    OBVIOUS
  <2>1. slice \in [Meta!Slices -> SliceStates] /\ \A s \in Meta!Slices : slice[s].st # "retry"
    BY MatrixConstants DEF Meta!Init, SliceStates
  <2>2. count \in Counts
    BY DEF Meta!Init, Meta!NoCount, Counts
  <2>3. lastStatus \in [window : Meta!Ages, late : BOOLEAN] /\ failures \in 0 .. MaxFaults
    BY MatrixConstants DEF Meta!Init, Meta!Ages
  <2>4. Meta!TypeOK
    BY <2>1, <2>2, <2>3, NothingFacts, MatrixTypes DEF Meta!Init
  <2> QED BY <2>1, <2>4, NothingFacts
          DEF Meta!Init, MatrixSound, RunFits, JoinFits, CheckpointFits, BatchFits,
              Meta!PublishedIsWhole
<1>2. MatrixSound /\ [Meta!Next]_Meta!vars => MatrixSound'
  <2> SUFFICES ASSUME MatrixSound, [Meta!Next]_Meta!vars PROVE MatrixSound'
    OBVIOUS
  <2>1. CASE Meta!Start \/ Meta!HardTimeout \/ Meta!Crash \/ Meta!JoinLoad \/ Meta!JoinSave
    BY <2>1, RunsComeAndGo
  <2>2. ASSUME NEW p \in Periods, NEW failed \in BOOLEAN, Meta!Discover(p, failed)
        PROVE  MatrixSound'
    BY <2>2, DiscoverSound
  <2>3. CASE Meta!Fetches
    BY <2>3, SliceStepSound, SucceedSound DEF Meta!Fetches
  <2>4. CASE Meta!Ends
    BY <2>4, EndsSound
  <2>5. CASE Meta!Tick
    BY <2>5, TickSound
  <2>6. CASE UNCHANGED Meta!vars
    BY <2>6 DEF Meta!vars, MatrixSound, RunFits, JoinFits, CheckpointFits, BatchFits,
                Meta!PublishedIsWhole, Meta!TypeOK, Meta!Publishable
  <2> QED BY <2>1, <2>2, <2>3, <2>4, <2>5, <2>6 DEF Meta!Next
<1> QED BY <1>1, <1>2, PTL DEF Meta!Spec

\* A slice that waits or is given up leaves the run's period, batch and start alone.
LEMMA FetchFrame ==
  ASSUME Meta!MatrixAssumption, MatrixSound, NEW s \in Meta!Slices,
         \/ Meta!StartSlice(s) \/ Meta!Retry(s) \/ Meta!GiveUp(s) \/ Meta!Pause(s)
  PROVE  /\ run.pc \in {"matrix", "catalog"}
         /\ run'.pc = run.pc /\ run'.period = run.period /\ run'.batch = run.batch
         /\ run'.start = run.start /\ run'.age = run.age /\ run'.saving = run.saving
         /\ UNCHANGED <<checkpoint, dataset, lastStatus, join, failures>>
<1>1. run \in Runs
  BY MatrixTypes DEF MatrixSound
<1>2. run.pc \in {"matrix", "catalog"}
  BY DEF Meta!StartSlice, Meta!Retry, Meta!GiveUp, Meta!Pause, Meta!Working
<1> QED BY <1>1, <1>2 DEF Meta!StartSlice, Meta!Retry, Meta!GiveUp, Meta!Pause, Runs

LEMMA SucceedFrame ==
  ASSUME Meta!MatrixAssumption, MatrixSound, NEW s \in Meta!Slices, Meta!Succeed(s)
  PROVE  /\ run.pc \in {"matrix", "catalog"}
         /\ run'.pc = run.pc /\ run'.period = run.period
         /\ run'.batch.have = run.batch.have \union {s}
         /\ run'.start = run.start /\ run'.age = run.age /\ (run'.saving => run.saving)
         /\ \/ /\ checkpoint'.state = "in_progress" /\ checkpoint'.period = run.period
               /\ checkpoint'.batch = run'.batch /\ checkpoint'.start = run.start
               /\ checkpoint'.saved = 0
            \/ checkpoint' = checkpoint /\ ~run'.saving
         /\ UNCHANGED <<dataset, lastStatus, join>>
<1> DEFINE r == [run EXCEPT !.batch = Meta!With(@, s, run.period), !.late = @ \/ Meta!Late]
<1>1. Meta!TypeOK /\ run \in Runs /\ Meta!Late \in BOOLEAN
  BY MatrixTypes DEF MatrixSound, Meta!Late
<1>2. /\ run.pc \in {"matrix", "catalog"} /\ Meta!Save(r, "in_progress")
      /\ UNCHANGED <<dataset, lastStatus, join>>
  BY DEF Meta!Succeed, Meta!Working
<1>3. /\ Meta!With(run.batch, s, run.period) \in Meta!Batches
      /\ Meta!With(run.batch, s, run.period).have = run.batch.have \union {s}
  BY <1>1, WithFacts DEF Runs
<1>4. /\ r \in Runs /\ r.pc = run.pc /\ r.period = run.period /\ r.start = run.start
      /\ r.age = run.age /\ r.saving = run.saving
      /\ r.batch.have = run.batch.have \union {s}
  BY <1>1, <1>3 DEF Runs
<1> HIDE DEF r
<1> QED BY <1>1, <1>2, <1>4, SaveFacts

LEMMA DiscoverFrame ==
  ASSUME Meta!MatrixAssumption, MatrixSound, NEW p \in Periods, NEW failed \in BOOLEAN,
         Meta!Discover(p, failed)
  PROVE  /\ run.pc = "discover" /\ run'.pc = "matrix" /\ run'.period = p
         /\ run'.age = run.age /\ (run'.saving => run.saving)
         /\ Meta!Fits(p) => run'.batch = checkpoint.batch /\ run'.start = checkpoint.start
         /\ ~Meta!Fits(p) => run'.batch = Meta!NoBatch /\ run'.start = run.age
         /\ \/ /\ checkpoint'.state = "in_progress" /\ checkpoint'.period = p
               /\ checkpoint'.batch = run'.batch /\ checkpoint'.start = run'.start
               /\ checkpoint'.saved = 0
            \/ checkpoint' = checkpoint /\ ~run'.saving
         /\ UNCHANGED <<dataset, lastStatus, join>>
<1> DEFINE r == Meta!Resumed(p, failed)
<1>1. Meta!TypeOK
  BY DEF MatrixSound
<1>2. /\ r \in Runs /\ r.pc = "matrix" /\ r.period = p /\ r.age = run.age
      /\ r.saving = run.saving
      /\ Meta!Fits(p) => r.batch = checkpoint.batch /\ r.start = checkpoint.start
      /\ ~Meta!Fits(p) => r.batch = Meta!NoBatch /\ r.start = run.age
  BY <1>1, ResumedFacts
<1>3. run.pc = "discover" /\ Meta!Save(r, "in_progress")
      /\ UNCHANGED <<dataset, lastStatus, join>>
  BY DEF Meta!Discover
<1> HIDE DEF r
<1> QED BY <1>1, <1>2, <1>3, SaveFacts

LEMMA EndsFrame ==
  ASSUME Meta!MatrixAssumption, MatrixSound, Meta!Ends
  PROVE  /\ Begun
         /\ run'.pc # "idle" =>
              /\ run'.pc \in {"catalog", "publish", "close", "report"}
              /\ run'.pc = "catalog" => run.pc = "matrix" /\ run'.saving = run.saving
              /\ run'.pc = "publish" => run.pc = "catalog"
              /\ run'.period = run.period /\ run'.batch = run.batch
              /\ run'.start = run.start /\ run'.age = run.age
         /\ run'.pc = "idle" => run.pc = "report"
         /\ \/ /\ run.pc = "publish" /\ dataset'.period = run.period
               /\ dataset'.start = run.start /\ run'.pc = "close"
            \/ dataset' = dataset
         /\ \/ checkpoint' = checkpoint
            \/ /\ run'.pc = "report"
               /\ checkpoint'.period = run.period /\ checkpoint'.batch = run.batch
               /\ checkpoint'.start = run.start
<1>1. Meta!TypeOK /\ run \in Runs /\ Meta!Late \in BOOLEAN
  BY MatrixTypes DEF MatrixSound, Meta!Late
<1>2. CASE Meta!EndMatrix
  BY <1>1, <1>2 DEF Meta!EndMatrix, Runs, Begun
<1>3. CASE Meta!EndCatalog
  <2> DEFINE r == [run EXCEPT !.late = @ \/ Meta!Late]
  <2>1. /\ r \in Runs /\ r.batch = run.batch /\ r.period = run.period
        /\ r.start = run.start /\ r.age = run.age
    BY <1>1 DEF Runs
  <2>2. /\ run.pc = "catalog" /\ UNCHANGED <<checkpoint, dataset>>
        /\ run' = [r EXCEPT !.pc = IF Meta!Publishable(r) THEN "publish" ELSE "close"]
    BY <1>3 DEF Meta!EndCatalog
  <2> HIDE DEF r
  <2> QED BY <2>1, <2>2 DEF Runs, Begun
<1>4. CASE Meta!Publish
  BY <1>1, <1>4 DEF Meta!Publish, Runs, Begun
<1>5. CASE Meta!Close
  <2> DEFINE r == [run EXCEPT !.pc = "report"]
             state == IF Meta!Publishable(run) THEN "complete" ELSE "in_progress"
  <2>1. /\ r \in Runs /\ r.pc = "report" /\ r.batch = run.batch /\ r.period = run.period
        /\ r.start = run.start /\ r.age = run.age
    BY <1>1 DEF Runs
  <2>2. run.pc = "close" /\ Meta!Save(r, state) /\ UNCHANGED dataset
    BY <1>5 DEF Meta!Close
  <2>3. state \in {"in_progress", "complete"}
    OBVIOUS
  <2> HIDE DEF r, state
  <2> QED BY <1>1, <2>1, <2>2, <2>3, SaveFacts DEF Begun
<1>6. CASE Meta!Report
  BY <1>6, NothingFacts DEF Meta!Report, Begun
<1> QED BY <1>2, <1>3, <1>4, <1>5, <1>6 DEF Meta!Ends

-----------------------------------------------------------------------------
\* The checkpoint that the next run of its period would take over.
Resumable == checkpoint.state = "in_progress" /\ checkpoint.saved <= TTL

\* A run starts after what is published of its period, and so does what is resumed; it
\* has what its checkpoint has.
Forward ==
  /\ run.pc \in {"discover", "matrix", "catalog", "publish"} => run.age <= dataset.start
  /\ run.pc = "discover" /\ checkpoint.state # "none" => run.age <= checkpoint.saved
  /\ Begun => run.age <= run.start
  /\ Resumable /\ checkpoint.period = dataset.period => checkpoint.start <= dataset.start
  /\ Begun /\ run.period = dataset.period => run.start <= dataset.start
  /\ Begun /\ Resumable /\ checkpoint.period = run.period =>
       checkpoint.start <= run.start /\ checkpoint.batch.have \subseteq run.batch.have

\* A run in time has its own start in its checkpoint, unless a save has failed.
Timely ==
  /\ Meta!Awaiting => run.age <= Deadline + 1
  /\ run.pc \in {"matrix", "catalog"} /\ run.saving =>
       /\ checkpoint.state = "in_progress" /\ checkpoint.start = run.start
       /\ checkpoint.saved <= run.age

LEMMA AgesAreNumbers ==
  ASSUME Meta!MatrixAssumption, MatrixSound
  PROVE  /\ run.age \in Nat /\ run.start \in Nat /\ checkpoint.start \in Nat
         /\ checkpoint.saved \in Nat /\ dataset.start \in Nat
         /\ run.age <= Cap /\ checkpoint.start <= Cap /\ checkpoint.saved <= checkpoint.start
         /\ run.age \in Meta!Ages /\ run.start \in Meta!Ages /\ checkpoint.start \in Meta!Ages
         /\ checkpoint.saved \in Meta!Ages /\ dataset.start \in Meta!Ages
         /\ run.batch \in Meta!Batches /\ checkpoint.batch \in Meta!Batches
         /\ TTL \in Nat /\ Deadline \in Nat
BY MatrixTypes, MatrixConstants
   DEF MatrixSound, CheckpointFits, Runs, Checkpoints, Datasets, Meta!Ages

LEMMA ForwardStep ==
  ASSUME Meta!MatrixAssumption, MatrixSound, Forward, Timely, [Meta!Next]_Meta!vars
  PROVE  Forward' /\ Timely'
<1>1. /\ run.age \in Nat /\ run.start \in Nat /\ checkpoint.start \in Nat
      /\ checkpoint.saved \in Nat /\ dataset.start \in Nat
      /\ checkpoint.saved <= checkpoint.start /\ TTL \in Nat /\ Deadline \in Nat
  BY AgesAreNumbers
<1>2. CASE Meta!Start
  <2>1. /\ UNCHANGED <<checkpoint, dataset>> /\ run' = [Meta!NoRun EXCEPT !.pc = "discover"]
    BY <1>2 DEF Meta!Start
  <2>2. run'.pc = "discover" /\ run'.age = 0
    BY <2>1, NothingFacts DEF Runs
  <2> QED BY <1>1, <2>1, <2>2 DEF Forward, Timely, Begun, Resumable, Meta!Awaiting
<1>3. ASSUME NEW p \in Periods, NEW failed \in BOOLEAN, Meta!Discover(p, failed)
      PROVE  Forward' /\ Timely'
  <2>1. Meta!Fits(p) <=> Resumable /\ checkpoint.period = p
    BY DEF Meta!Fits, Resumable
  <2>2. /\ run.age <= dataset.start /\ run.age <= Deadline + 1
        /\ checkpoint.state # "none" => run.age <= checkpoint.saved
    BY <1>3, DiscoverFrame DEF Forward, Timely, Meta!Awaiting
  <2>3. /\ run'.pc = "matrix" /\ run'.period = p /\ run'.age = run.age
        /\ dataset' = dataset
        /\ \/ /\ checkpoint'.state = "in_progress" /\ checkpoint'.period = p
              /\ checkpoint'.batch = run'.batch /\ checkpoint'.start = run'.start
              /\ checkpoint'.saved = 0
           \/ checkpoint' = checkpoint /\ ~run'.saving
    BY <1>3, DiscoverFrame
  <2>4. CASE Meta!Fits(p)
    <3>1. run'.batch = checkpoint.batch /\ run'.start = checkpoint.start
      BY <1>3, <2>4, DiscoverFrame
    <3> QED BY <1>1, <2>1, <2>2, <2>3, <2>4, <3>1
            DEF Forward, Timely, Begun, Resumable, Meta!Awaiting
  <2>5. CASE ~Meta!Fits(p)
    <3>1. run'.batch.have = {} /\ run'.start = run.age
      BY <1>3, <2>5, DiscoverFrame, NothingFacts
    <3> QED BY <1>1, <2>1, <2>2, <2>3, <2>5, <3>1
            DEF Forward, Timely, Begun, Resumable, Meta!Awaiting
  <2> QED BY <2>4, <2>5
<1>4. ASSUME NEW s \in Meta!Slices,
             Meta!StartSlice(s) \/ Meta!Retry(s) \/ Meta!GiveUp(s) \/ Meta!Pause(s)
      PROVE  Forward' /\ Timely'
  BY <1>4, FetchFrame DEF Forward, Timely, Begun, Resumable, Meta!Awaiting
<1>5. ASSUME NEW s \in Meta!Slices, Meta!Succeed(s)
      PROVE  Forward' /\ Timely'
  BY <1>1, <1>5, SucceedFrame DEF Forward, Timely, Begun, Resumable, Meta!Awaiting
<1>6. CASE Meta!Ends
  <2>1. CASE run'.pc = "idle"
    <3>1. UNCHANGED <<checkpoint, dataset>>
      BY <1>6, <2>1, EndsFrame
    <3> QED BY <2>1, <3>1 DEF Forward, Timely, Begun, Resumable, Meta!Awaiting
  <2>2. CASE run'.pc = "catalog"
    <3>1. /\ run.pc = "matrix" /\ run'.saving = run.saving /\ UNCHANGED <<checkpoint, dataset>>
          /\ run'.period = run.period /\ run'.batch = run.batch
          /\ run'.start = run.start /\ run'.age = run.age
      BY <1>6, <2>2, EndsFrame
    <3> QED BY <2>2, <3>1 DEF Forward, Timely, Begun, Resumable, Meta!Awaiting
  <2>3. CASE run'.pc \in {"publish", "close", "report"}
    <3>1. /\ Begun
          /\ run'.period = run.period /\ run'.batch = run.batch
          /\ run'.start = run.start /\ run'.age = run.age
          /\ run'.pc = "publish" => dataset' = dataset /\ run.pc = "catalog"
      BY <1>6, <2>3, EndsFrame
    <3>2. /\ \/ /\ run'.pc = "close" /\ dataset'.period = run.period
                /\ dataset'.start = run.start
             \/ dataset' = dataset
          /\ \/ checkpoint' = checkpoint
             \/ /\ checkpoint'.period = run.period /\ checkpoint'.batch = run.batch
                /\ checkpoint'.start = run.start
      BY <1>6, EndsFrame
    <3>3. run'.pc = "publish" => run'.age <= dataset'.start
      BY <1>6, <2>3, <3>1, EndsFrame DEF Forward
    <3>4. Timely'
      BY <2>3 DEF Timely, Meta!Awaiting
    <3> QED BY <1>1, <2>3, <3>1, <3>2, <3>3, <3>4 DEF Forward, Begun, Resumable
  <2> QED BY <1>6, <2>1, <2>2, <2>3, EndsFrame
<1>7. CASE Meta!HardTimeout
  <2>1. run'.pc = "idle" /\ UNCHANGED <<checkpoint, dataset>>
    BY <1>7, NothingFacts DEF Meta!HardTimeout
  <2> QED BY <2>1 DEF Forward, Timely, Begun, Resumable, Meta!Awaiting
<1>8. CASE Meta!Crash
  <2>1. run'.pc = "idle" /\ UNCHANGED <<checkpoint, dataset>>
    BY <1>8, NothingFacts DEF Meta!Crash
  <2> QED BY <2>1 DEF Forward, Timely, Begun, Resumable, Meta!Awaiting
<1>9. CASE Meta!JoinLoad \/ Meta!JoinSave
  <2>1. UNCHANGED <<run, checkpoint, dataset>>
    BY <1>9 DEF Meta!JoinLoad, Meta!JoinSave, MatrixSound, JoinFits
  <2> QED BY <2>1 DEF Forward, Timely, Begun, Resumable, Meta!Awaiting
<1>10. CASE Meta!Tick
  <2>1. /\ run.age \in Meta!Ages /\ run.start \in Meta!Ages /\ checkpoint.start \in Meta!Ages
        /\ checkpoint.saved \in Meta!Ages /\ dataset.start \in Meta!Ages
        /\ run.batch \in Meta!Batches /\ checkpoint.batch \in Meta!Batches
    BY AgesAreNumbers
  <2>2. Meta!TypeOK
    BY DEF MatrixSound
  <2>3. \A a, b \in Meta!Ages : a <= b => Meta!Older(a) <= Meta!Older(b)
    BY OlderFacts
  <2>4. \A a \in Meta!Ages : a <= Meta!Older(a) /\ Meta!Older(a) <= a + 1
                             /\ Meta!Older(a) \in Nat
    BY OlderFacts, MatrixConstants DEF Meta!Ages
  <2>5. \A b \in Meta!Batches : Meta!OlderBatch(b).have = b.have
    BY OlderBatchFacts
  <2>6. /\ run.pc \in {"idle", "discover", "matrix", "catalog"}
        /\ run'.pc = run.pc /\ run'.period = run.period /\ run'.saving = run.saving
        /\ run.pc # "idle" => /\ run'.age = Meta!Older(run.age)
                              /\ run'.batch.have = run.batch.have
        /\ run.pc \in {"matrix", "catalog"} => run'.start = Meta!Older(run.start)
        /\ checkpoint'.state = checkpoint.state /\ checkpoint'.period = checkpoint.period
        /\ checkpoint.state # "none" =>
             /\ checkpoint'.start = Meta!Older(checkpoint.start)
             /\ checkpoint'.saved = Meta!Older(checkpoint.saved)
             /\ checkpoint'.batch.have = checkpoint.batch.have
        /\ dataset'.period = dataset.period /\ dataset'.start = Meta!Older(dataset.start)
        /\ Meta!Awaiting => run.age <= Deadline
    BY <1>10, <2>1, <2>2, <2>5, TickFacts
  <2>7. Resumable' => Resumable
    BY <1>1, <2>1, <2>4, <2>6 DEF Resumable
  <2>8. Forward'
    <3>1. run'.pc \in {"discover", "matrix", "catalog", "publish"} => run'.age <= dataset'.start
      BY <2>1, <2>3, <2>6 DEF Forward
    <3>2. run'.pc = "discover" /\ checkpoint'.state # "none" => run'.age <= checkpoint'.saved
      BY <2>1, <2>3, <2>6 DEF Forward
    <3>3. Begun' => run'.age <= run'.start
      BY <2>1, <2>3, <2>6 DEF Forward, Begun
    <3>4. Resumable' /\ checkpoint'.period = dataset'.period =>
            checkpoint'.start <= dataset'.start
      BY <2>1, <2>3, <2>6, <2>7 DEF Forward, Resumable
    <3>5. Begun' /\ run'.period = dataset'.period => run'.start <= dataset'.start
      BY <2>1, <2>3, <2>6 DEF Forward, Begun
    <3>6. Begun' /\ Resumable' /\ checkpoint'.period = run'.period =>
            /\ checkpoint'.start <= run'.start
            /\ checkpoint'.batch.have \subseteq run'.batch.have
      BY <2>1, <2>3, <2>6, <2>7 DEF Forward, Begun, Resumable
    <3> QED BY <3>1, <3>2, <3>3, <3>4, <3>5, <3>6 DEF Forward
  <2>9. Timely'
    <3>1. Meta!Awaiting' => run'.age <= Deadline + 1
      BY <1>1, <2>1, <2>4, <2>6 DEF Meta!Awaiting
    <3>2. run'.pc \in {"matrix", "catalog"} /\ run'.saving =>
            /\ checkpoint'.state = "in_progress" /\ checkpoint'.start = run'.start
            /\ checkpoint'.saved <= run'.age
      BY <2>1, <2>3, <2>6 DEF Timely
    <3> QED BY <3>1, <3>2 DEF Timely
  <2> QED BY <2>8, <2>9
<1>11. CASE UNCHANGED Meta!vars
  BY <1>11 DEF Meta!vars, Forward, Timely, Begun, Resumable, Meta!Awaiting
<1> QED BY <1>2, <1>3, <1>4, <1>5, <1>6, <1>7, <1>8, <1>9, <1>10, <1>11
        DEF Meta!Next, Meta!Fetches

LEMMA MatrixForward ==
  ASSUME Meta!MatrixAssumption
  PROVE  Meta!Spec => [](MatrixSound /\ Forward /\ Timely)
<1>1. Meta!Init => Forward /\ Timely
  <2> SUFFICES ASSUME Meta!Init PROVE Forward /\ Timely
    OBVIOUS
  <2>1. run.pc = "idle" /\ checkpoint.state = "none"
    BY NothingFacts DEF Meta!Init
  <2> QED BY <2>1 DEF Forward, Timely, Begun, Resumable, Meta!Awaiting
<1>2. MatrixSound /\ Forward /\ Timely /\ [Meta!Next]_Meta!vars => (Forward /\ Timely)'
  BY ForwardStep
<1> QED BY <1>1, <1>2, MatrixInductive, PTL DEF Meta!Spec

\* What is published is a whole matrix of one period, no slice of which is older than the
\* time it is published under, however many runs, resumptions, crashes, failed saves and
\* timeouts it took (publishable and the checkpoint's started_at in
\* app/hsguru_meta_matrix.py).
THEOREM MatrixIsWhole ==
  ASSUME Meta!MatrixAssumption
  PROVE  Meta!Spec => [](Meta!TypeOK /\ Meta!PublishedIsWhole)
<1>1. MatrixSound => Meta!TypeOK /\ Meta!PublishedIsWhole
  BY DEF MatrixSound
<1> QED BY <1>1, MatrixInductive, PTL

\* Only a tick, a publication and the deck join touch what is published.
LEMMA DatasetSteps ==
  ASSUME Meta!MatrixAssumption, MatrixSound, [Meta!Next]_Meta!vars
  PROVE  \/ Meta!Tick
         \/ /\ run.pc = "publish" /\ dataset'.period = run.period
            /\ dataset'.start = run.start
         \/ dataset' = dataset
<1>1. CASE Meta!Start \/ Meta!HardTimeout \/ Meta!Crash \/ Meta!JoinLoad \/ Meta!JoinSave
  BY <1>1 DEF Meta!Start, Meta!HardTimeout, Meta!Crash, Meta!JoinLoad, Meta!JoinSave,
              MatrixSound, JoinFits
<1>2. ASSUME NEW p \in Periods, NEW failed \in BOOLEAN, Meta!Discover(p, failed)
      PROVE  dataset' = dataset
  BY <1>2 DEF Meta!Discover
<1>3. CASE Meta!Fetches
  BY <1>3, FetchFrame, SucceedFrame DEF Meta!Fetches
<1>4. CASE Meta!Ends
  BY <1>4, EndsFrame
<1>5. CASE UNCHANGED Meta!vars
  BY <1>5 DEF Meta!vars
<1> QED BY <1>1, <1>2, <1>3, <1>4, <1>5 DEF Meta!Next

\* A matrix is never replaced by an older one of its period.
THEOREM PeriodsGoForward ==
  ASSUME Meta!MatrixAssumption
  PROVE  Meta!Spec => [][dataset'.period = dataset.period
                         => Meta!NoOlderPublicationStep]_Meta!vars
<1>1. MatrixSound /\ Forward /\ [Meta!Next]_Meta!vars =>
        (dataset'.period = dataset.period => Meta!NoOlderPublicationStep)
  <2> SUFFICES ASSUME MatrixSound, Forward, [Meta!Next]_Meta!vars,
                      dataset'.period = dataset.period
               PROVE  dataset'.start <= Meta!Older(dataset.start)
    BY DEF Meta!NoOlderPublicationStep
  <2>1. /\ dataset.start \in Meta!Ages /\ run.start \in Nat /\ dataset.start \in Nat
        /\ Meta!Older(dataset.start) \in Nat /\ dataset.start <= Meta!Older(dataset.start)
    BY AgesAreNumbers, OlderFacts, MatrixConstants DEF Meta!Ages
  <2>2. CASE Meta!Tick
    BY <2>1, <2>2, TickFacts DEF MatrixSound
  <2>3. CASE run.pc = "publish" /\ dataset'.period = run.period /\ dataset'.start = run.start
    BY <2>1, <2>3 DEF Forward, Begun
  <2>4. CASE dataset' = dataset
    BY <2>1, <2>4
  <2> QED BY <2>2, <2>3, <2>4, DatasetSteps
<1> QED BY <1>1, MatrixForward, PTL DEF Meta!Spec

\* A publication never goes back behind the one before it while the site has one period;
\* with two, a run of the other whose saves fail leaves an older checkpoint to be resumed.
THEOREM NoOlderPublication ==
  ASSUME Meta!MatrixAssumption, Periods = {DefaultPeriod}
  PROVE  Meta!Spec => [][Meta!NoOlderPublicationStep]_Meta!vars
<1>1. MatrixSound /\ MatrixSound' => dataset'.period = dataset.period
  <2> SUFFICES ASSUME MatrixSound, MatrixSound' PROVE dataset'.period = dataset.period
    OBVIOUS
  <2>1. dataset.period \in Periods /\ dataset'.period \in Periods
    BY DEF MatrixSound, Meta!TypeOK
  <2> QED BY <2>1
<1> QED BY <1>1, PeriodsGoForward, MatrixInductive, PTL

\* A run loses nothing its checkpoint has while it could be resumed, and one that has
\* published is not resumed (save_progress_checkpoint and _load_refresh_checkpoint).
THEOREM ProgressIsKept ==
  ASSUME Meta!MatrixAssumption
  PROVE  Meta!Spec => [][Meta!ProgressIsKeptStep /\ Meta!CompleteIsNotResumedStep]_Meta!vars
<1>1. MatrixSound /\ Forward /\ [Meta!Next]_Meta!vars =>
        Meta!ProgressIsKeptStep /\ Meta!CompleteIsNotResumedStep
  <2> SUFFICES ASSUME MatrixSound, Forward, [Meta!Next]_Meta!vars
               PROVE  Meta!ProgressIsKeptStep /\ Meta!CompleteIsNotResumedStep
    OBVIOUS
  <2>1. ASSUME checkpoint' = checkpoint PROVE Meta!ProgressIsKeptStep
    BY <2>1 DEF Meta!ProgressIsKeptStep
  <2>2. ASSUME ~(run.pc = "discover" /\ run'.pc = "matrix")
        PROVE  Meta!CompleteIsNotResumedStep
    BY <2>2 DEF Meta!CompleteIsNotResumedStep
  <2>3. CASE Meta!Start \/ Meta!HardTimeout \/ Meta!Crash \/ Meta!JoinLoad \/ Meta!JoinSave
    <3>1. checkpoint' = checkpoint
      BY <2>3 DEF Meta!Start, Meta!HardTimeout, Meta!Crash, Meta!JoinLoad, Meta!JoinSave
    <3>2. run'.pc # "matrix" \/ run' = run
      BY <2>3, NothingFacts
         DEF Meta!Start, Meta!HardTimeout, Meta!Crash, Meta!JoinLoad, Meta!JoinSave, Runs
    <3> QED BY <2>1, <2>2, <3>1, <3>2
  <2>4. ASSUME NEW p \in Periods, NEW failed \in BOOLEAN, Meta!Discover(p, failed)
        PROVE  Meta!ProgressIsKeptStep /\ Meta!CompleteIsNotResumedStep
    <3>1. Meta!CompleteIsNotResumedStep
      BY <2>4, DiscoverFrame, NothingFacts DEF Meta!CompleteIsNotResumedStep, Meta!Fits
    <3>2. Meta!ProgressIsKeptStep
      BY <2>4, DiscoverFrame DEF Meta!ProgressIsKeptStep, Meta!Fits
    <3> QED BY <3>1, <3>2
  <2>5. ASSUME NEW s \in Meta!Slices,
               Meta!StartSlice(s) \/ Meta!Retry(s) \/ Meta!GiveUp(s) \/ Meta!Pause(s)
        PROVE  Meta!ProgressIsKeptStep /\ Meta!CompleteIsNotResumedStep
    BY <2>1, <2>2, <2>5, FetchFrame
  <2>6. ASSUME NEW s \in Meta!Slices, Meta!Succeed(s)
        PROVE  Meta!ProgressIsKeptStep /\ Meta!CompleteIsNotResumedStep
    <3>1. Meta!ProgressIsKeptStep
      BY <2>6, SucceedFrame DEF Meta!ProgressIsKeptStep, Forward, Begun, Resumable
    <3> QED BY <2>2, <2>6, <3>1, SucceedFrame
  <2>7. CASE Meta!Ends
    <3>1. Meta!ProgressIsKeptStep
      BY <2>7, EndsFrame DEF Meta!ProgressIsKeptStep, Forward, Resumable
    <3>2. run.pc # "discover"
      BY <2>7, EndsFrame DEF Begun
    <3> QED BY <2>2, <3>1, <3>2
  <2>8. CASE Meta!Tick
    <3>1. Meta!TypeOK /\ checkpoint.batch \in Meta!Batches
      BY AgesAreNumbers DEF MatrixSound
    <3>2. Meta!ProgressIsKeptStep
      BY <2>8, <3>1, TickFacts, OlderBatchFacts DEF Meta!ProgressIsKeptStep
    <3> QED BY <2>2, <2>8, <3>1, <3>2, TickFacts
  <2>9. CASE UNCHANGED Meta!vars
    BY <2>1, <2>2, <2>9 DEF Meta!vars
  <2> QED BY <2>3, <2>4, <2>5, <2>6, <2>7, <2>8, <2>9 DEF Meta!Next, Meta!Fetches
<1> QED BY <1>1, MatrixForward, PTL DEF Meta!Spec

\* The status of a hard timeout names the window its run would have been published under,
\* if its saves work: a checkpoint can be resumed for longer than a run may last
\* (CHECKPOINT_TTL and DEFAULT_RUN_DEADLINE_SECONDS in app/hsguru_meta_matrix.py).
THEOREM TimeoutsNameTheWindow ==
  ASSUME Meta!MatrixAssumption, Deadline < TTL
  PROVE  Meta!Spec => [][Meta!TimeoutNamesWindowStep]_Meta!vars
<1>1. MatrixSound /\ Timely /\ [Meta!Next]_Meta!vars => Meta!TimeoutNamesWindowStep
  <2> SUFFICES ASSUME MatrixSound, Timely, [Meta!Next]_Meta!vars,
                      run.pc \in {"matrix", "catalog"}, run.saving, run'.pc = "idle",
                      failures' = failures
               PROVE  lastStatus'.window = run.start
    BY DEF Meta!TimeoutNamesWindowStep
  <2>1. Meta!TypeOK /\ failures \in Nat
    BY MatrixConstants DEF MatrixSound, Meta!TypeOK
  <2>2. CASE Meta!HardTimeout
    <3>1. checkpoint.state = "in_progress" /\ checkpoint.start = run.start
          /\ checkpoint.saved <= run.age /\ run.age <= Deadline + 1
      BY DEF Timely, Meta!Awaiting
    <3>2. checkpoint.saved <= TTL
      BY <3>1, AgesAreNumbers
    <3>3. Meta!TimeoutWindow = run.start
      BY <3>1, <3>2 DEF Meta!TimeoutWindow
    <3> QED BY <2>2, <3>3 DEF Meta!HardTimeout
  <2>3. ~Meta!Crash
    BY <2>1 DEF Meta!Crash
  <2>4. ~Meta!Start
    BY DEF Meta!Start, Meta!Unlocked
  <2>5. ~Meta!JoinLoad /\ ~Meta!JoinSave
    BY DEF Meta!JoinLoad, Meta!JoinSave, Meta!Unlocked, MatrixSound, JoinFits
  <2>6. \A p \in Periods, failed \in BOOLEAN : ~Meta!Discover(p, failed)
    BY DEF Meta!Discover
  <2>7. ~Meta!Fetches
    BY FetchFrame, SucceedFrame DEF Meta!Fetches
  <2>8. ~Meta!Ends
    BY EndsFrame
  <2>9. ~Meta!Tick
    BY <2>1, TickFacts
  <2>10. ~(UNCHANGED Meta!vars)
    BY DEF Meta!vars
  <2> QED BY <2>2, <2>3, <2>4, <2>5, <2>6, <2>7, <2>8, <2>9, <2>10 DEF Meta!Next
<1> QED BY <1>1, MatrixForward, PTL DEF Meta!Spec

-----------------------------------------------------------------------------
(* The counters of a run.                                                   *)

In(f, set) == {s \in Meta!Slices : f[s].st \in set}

CountsFit ==
  /\ run.pc = "discover" =>
       count = Meta!NoCount /\ \A s \in Meta!Slices : slice[s].st = "waiting"
  /\ Begun =>
       /\ count.started = count.succeeded + count.failed
                            + Cardinality(In(slice, {"fetching", "retry"}))
       /\ count.started + count.skipped + Cardinality(In(slice, {"waiting"})) = count.total
  /\ run.pc \in {"catalog", "publish", "close", "report"} => Meta!Settled(Matrix)
  /\ run.pc \in {"publish", "close", "report"} => Meta!Settled(Catalog)

\* One slice moves: it leaves a set of states, enters it, or neither.
LEMMA OneMoves ==
  ASSUME Meta!MatrixAssumption, NEW s \in Meta!Slices, NEW new, NEW set, NEW f, NEW g,
         g[s] = new, \A z \in Meta!Slices \ {s} : g[z] = f[z]
  PROVE  /\ Cardinality(In(f, set)) \in Nat /\ Cardinality(In(g, set)) \in Nat
         /\ (f[s].st \in set <=> new.st \in set) =>
              Cardinality(In(g, set)) = Cardinality(In(f, set))
         /\ f[s].st \in set /\ new.st \notin set =>
              Cardinality(In(g, set)) = Cardinality(In(f, set)) - 1
         /\ f[s].st \notin set /\ new.st \in set =>
              Cardinality(In(g, set)) = Cardinality(In(f, set)) + 1
<1>1. IsFiniteSet(In(f, set)) /\ IsFiniteSet(In(g, set))
  BY MatrixConstants, FS_Subset DEF In
<1>2. Cardinality(In(f, set)) \in Nat /\ Cardinality(In(g, set)) \in Nat
  BY <1>1, FS_CardinalityType
<1>3. \A z \in Meta!Slices : g[z] = IF z = s THEN new ELSE f[z]
  OBVIOUS
<1>4. ASSUME f[s].st \in set <=> new.st \in set
      PROVE  Cardinality(In(g, set)) = Cardinality(In(f, set))
  <2>1. In(g, set) = In(f, set)
    BY <1>3, <1>4 DEF In
  <2> QED BY <2>1
<1>5. ASSUME f[s].st \in set, new.st \notin set
      PROVE  Cardinality(In(g, set)) = Cardinality(In(f, set)) - 1
  <2>1. In(g, set) = In(f, set) \ {s} /\ s \in In(f, set)
    BY <1>3, <1>5 DEF In
  <2> QED BY <1>1, <2>1, FS_RemoveElement
<1>6. ASSUME f[s].st \notin set, new.st \in set
      PROVE  Cardinality(In(g, set)) = Cardinality(In(f, set)) + 1
  <2>1. In(g, set) = In(f, set) \union {s} /\ s \notin In(f, set)
    BY <1>3, <1>6 DEF In
  <2> QED BY <1>1, <2>1, FS_AddElement
<1> QED BY <1>2, <1>4, <1>5, <1>6

\* A fetch of one slice and its counters.
LEMMA FetchCounts ==
  ASSUME Meta!MatrixAssumption, MatrixSound, CountsFit, NEW s \in Meta!Slices,
         \/ Meta!StartSlice(s) \/ Meta!Retry(s) \/ Meta!Succeed(s) \/ Meta!GiveUp(s)
         \/ Meta!Pause(s)
  PROVE  CountsFit'
<1>1. slice \in [Meta!Slices -> SliceStates] /\ count \in Counts /\ run \in Runs
  BY MatrixTypes DEF MatrixSound
<1>2. run.pc \in {"matrix", "catalog"} /\ run'.pc = run.pc /\ Begun
  BY FetchFrame, SucceedFrame DEF Begun
<1>3. slice[s].st \in {"waiting", "fetching", "retry"}
  BY DEF Meta!StartSlice, Meta!Retry, Meta!Succeed, Meta!GiveUp, Meta!Pause
<1>4. run.pc = "catalog" => Meta!Settled(Matrix)'
  <2> SUFFICES ASSUME run.pc = "catalog" PROVE Meta!Settled(Matrix)'
    OBVIOUS
  <2>1. Meta!Settled(Matrix) /\ s \notin Matrix
    BY <1>3 DEF CountsFit, Meta!Settled
  <2>2. \A z \in Matrix : slice'[z] = slice[z]
    BY <1>1, <2>1 DEF Meta!StartSlice, Meta!Retry, Meta!Succeed, Meta!GiveUp, Meta!Pause,
                      Meta!Slices
  <2> QED BY <2>1, <2>2 DEF Meta!Settled
<1> DEFINE active == Cardinality(In(slice, {"fetching", "retry"}))
           waiting == Cardinality(In(slice, {"waiting"}))
<1>5. /\ count.started = count.succeeded + count.failed + active
      /\ count.started + count.skipped + waiting = count.total
  BY <1>2 DEF CountsFit
<1>6. ASSUME NEW new, slice' = [slice EXCEPT ![s] = new]
      PROVE  /\ active \in Nat /\ waiting \in Nat
             /\ new.st \in {"fetching", "retry"} =>
                  active' = IF slice[s].st = "waiting" THEN active + 1 ELSE active
             /\ new.st \notin {"fetching", "retry"} =>
                  active' = IF slice[s].st = "waiting" THEN active ELSE active - 1
             /\ new.st # "waiting" =>
                  waiting' = IF slice[s].st = "waiting" THEN waiting - 1 ELSE waiting
  <2>1. slice'[s] = new /\ \A z \in Meta!Slices \ {s} : slice'[z] = slice[z]
    BY <1>1, <1>6
  <2> DEFINE some == {"fetching", "retry"}
             first == {"waiting"}
  <2>2. /\ slice[s].st \in some <=> slice[s].st # "waiting"
        /\ slice[s].st \in first <=> slice[s].st = "waiting"
        /\ new.st \in some <=> new.st \in {"fetching", "retry"}
        /\ new.st \in first <=> new.st = "waiting"
    BY <1>3
  <2>3. /\ active = Cardinality(In(slice, some)) /\ active' = Cardinality(In(slice', some))
        /\ waiting = Cardinality(In(slice, first)) /\ waiting' = Cardinality(In(slice', first))
    OBVIOUS
  <2> HIDE DEF active, waiting, some, first
  <2>4. ASSUME NEW set
        PROVE  /\ Cardinality(In(slice, set)) \in Nat
               /\ (slice[s].st \in set <=> new.st \in set) =>
                    Cardinality(In(slice', set)) = Cardinality(In(slice, set))
               /\ slice[s].st \in set /\ new.st \notin set =>
                    Cardinality(In(slice', set)) = Cardinality(In(slice, set)) - 1
               /\ slice[s].st \notin set /\ new.st \in set =>
                    Cardinality(In(slice', set)) = Cardinality(In(slice, set)) + 1
    BY <2>1, OneMoves
  <2>5. /\ active \in Nat
        /\ (slice[s].st \in some <=> new.st \in some) => active' = active
        /\ slice[s].st \in some /\ new.st \notin some => active' = active - 1
        /\ slice[s].st \notin some /\ new.st \in some => active' = active + 1
    BY Zenon, <2>3, <2>4
  <2>6. /\ waiting \in Nat
        /\ (slice[s].st \in first <=> new.st \in first) => waiting' = waiting
        /\ slice[s].st \in first /\ new.st \notin first => waiting' = waiting - 1
    BY Zenon, <2>3, <2>4
  <2> QED BY <2>2, <2>5, <2>6
<1> HIDE DEF active, waiting
<1>7. /\ count'.started = count'.succeeded + count'.failed + active'
      /\ count'.started + count'.skipped + waiting' = count'.total
  <2>1. CASE Meta!StartSlice(s) /\ Meta!Late
    <3>1. slice' = [slice EXCEPT ![s] = [slice[s] EXCEPT !.st = "skipped"]]
          /\ [slice[s] EXCEPT !.st = "skipped"].st = "skipped"
          /\ count' = [count EXCEPT !.skipped = @ + 1] /\ slice[s].st = "waiting"
      BY <1>1, <2>1 DEF Meta!StartSlice, SliceStates
    <3>2. /\ active \in Nat /\ waiting \in Nat /\ active' = active /\ waiting' = waiting - 1
      BY <1>6, <3>1
    <3> QED BY <1>1, <1>5, <3>1, <3>2 DEF Counts
  <2>2. CASE Meta!StartSlice(s) /\ ~Meta!Late
    <3>1. slice' = [slice EXCEPT ![s] = [st |-> "fetching", try |-> 1]]
          /\ [st |-> "fetching", try |-> 1].st = "fetching"
          /\ count' = [count EXCEPT !.started = @ + 1] /\ slice[s].st = "waiting"
      BY <2>2 DEF Meta!StartSlice
    <3>2. active \in Nat /\ waiting \in Nat /\ active' = active + 1 /\ waiting' = waiting - 1
      BY <1>6, <3>1
    <3> QED BY <1>1, <1>5, <3>1, <3>2 DEF Counts
  <2>3. CASE Meta!Retry(s) /\ Meta!Late
    <3>1. slice' = [slice EXCEPT ![s] = [slice[s] EXCEPT !.st = "failed"]]
          /\ [slice[s] EXCEPT !.st = "failed"].st = "failed"
          /\ count' = [count EXCEPT !.failed = @ + 1] /\ slice[s].st = "retry"
      BY <1>1, <2>3 DEF Meta!Retry, SliceStates
    <3>2. active \in Nat /\ waiting \in Nat /\ active' = active - 1 /\ waiting' = waiting
      BY <1>6, <3>1
    <3> QED BY <1>1, <1>5, <3>1, <3>2 DEF Counts
  <2>4. CASE Meta!Retry(s) /\ ~Meta!Late
    <3>1. slice' = [slice EXCEPT ![s] = [st |-> "fetching", try |-> slice[s].try + 1]]
          /\ [st |-> "fetching", try |-> slice[s].try + 1].st = "fetching"
          /\ count' = count /\ slice[s].st = "retry"
      BY <2>4 DEF Meta!Retry
    <3>2. active \in Nat /\ waiting \in Nat /\ active' = active /\ waiting' = waiting
      BY <1>6, <3>1
    <3> QED BY <1>5, <3>1, <3>2
  <2>5. CASE Meta!Succeed(s)
    <3>1. slice' = [slice EXCEPT ![s] = [slice[s] EXCEPT !.st = "done"]]
          /\ [slice[s] EXCEPT !.st = "done"].st = "done"
          /\ count' = [count EXCEPT !.succeeded = @ + 1] /\ slice[s].st = "fetching"
      BY <1>1, <2>5 DEF Meta!Succeed, SliceStates
    <3>2. active \in Nat /\ waiting \in Nat /\ active' = active - 1 /\ waiting' = waiting
      BY <1>6, <3>1
    <3> QED BY <1>1, <1>5, <3>1, <3>2 DEF Counts
  <2>6. CASE Meta!GiveUp(s)
    <3>1. slice' = [slice EXCEPT ![s] = [slice[s] EXCEPT !.st = "failed"]]
          /\ [slice[s] EXCEPT !.st = "failed"].st = "failed"
          /\ count' = [count EXCEPT !.failed = @ + 1] /\ slice[s].st = "fetching"
      BY <1>1, <2>6 DEF Meta!GiveUp, SliceStates
    <3>2. active \in Nat /\ waiting \in Nat /\ active' = active - 1 /\ waiting' = waiting
      BY <1>6, <3>1
    <3> QED BY <1>1, <1>5, <3>1, <3>2 DEF Counts
  <2>7. CASE Meta!Pause(s)
    <3>1. slice' = [slice EXCEPT ![s] = [slice[s] EXCEPT !.st = "retry"]]
          /\ [slice[s] EXCEPT !.st = "retry"].st = "retry"
          /\ count' = count /\ slice[s].st = "fetching"
      BY <1>1, <2>7 DEF Meta!Pause, SliceStates
    <3>2. active \in Nat /\ waiting \in Nat /\ active' = active /\ waiting' = waiting
      BY <1>6, <3>1
    <3> QED BY <1>5, <3>1, <3>2
  <2> QED BY <2>1, <2>2, <2>3, <2>4, <2>5, <2>6, <2>7
<1> QED BY <1>2, <1>4, <1>7 DEF CountsFit, active, waiting, Begun

\* A run begins with the slices it has taken over done and the others waiting.
LEMMA DiscoverCounts ==
  ASSUME Meta!MatrixAssumption, MatrixSound, CountsFit, NEW p \in Periods,
         NEW failed \in BOOLEAN, Meta!Discover(p, failed)
  PROVE  CountsFit'
<1> DEFINE have == Meta!Resumed(p, failed).batch.have
<1>1. run.pc = "discover" /\ run'.pc = "matrix"
  BY DiscoverFrame
<1>2. count = Meta!NoCount /\ \A s \in Meta!Slices : slice[s].st = "waiting"
  BY <1>1 DEF CountsFit
<1>3. /\ count' = [count EXCEPT !.total = Meta!Cardinality(Meta!Slices \ have)]
      /\ slice' = [s \in Meta!Slices |-> IF s \in have THEN [slice[s] EXCEPT !.st = "done"]
                                                       ELSE slice[s]]
  BY DEF Meta!Discover
<1> HIDE DEF have
<1>4. \A s \in Meta!Slices : slice'[s].st = IF s \in have THEN "done" ELSE "waiting"
  <2> TAKE s \in Meta!Slices
  <2>1. slice[s] \in SliceStates
    BY MatrixTypes DEF MatrixSound
  <2>2. [slice[s] EXCEPT !.st = "done"].st = "done"
    BY <2>1 DEF SliceStates
  <2> QED BY <1>2, <1>3, <2>2
<1> DEFINE active == Cardinality(In(slice, {"fetching", "retry"}))
           waiting == Cardinality(In(slice, {"waiting"}))
<1>5. /\ Cardinality(Meta!Slices \ have) \in Nat
      /\ Meta!Cardinality(Meta!Slices \ have) = Cardinality(Meta!Slices \ have)
  BY MatrixConstants, FS_Subset, FS_CardinalityType, CardinalityIsTheSame
<1>6. active' = 0
  <2>1. In(slice, {"fetching", "retry"})' = {}
    BY <1>4 DEF In
  <2> QED BY <2>1, FS_EmptySet
<1>7. waiting' = Cardinality(Meta!Slices \ have)
  <2>1. In(slice, {"waiting"})' = Meta!Slices \ have
    BY <1>4 DEF In
  <2> QED BY <2>1
<1>8. /\ count'.started = 0 /\ count'.skipped = 0 /\ count'.succeeded = 0 /\ count'.failed = 0
      /\ count'.total = Cardinality(Meta!Slices \ have)
  BY <1>2, <1>3, <1>5 DEF Meta!NoCount
<1> HIDE DEF active, waiting
<1>9. /\ count'.started = count'.succeeded + count'.failed + active'
      /\ count'.started + count'.skipped + waiting' = count'.total
  BY <1>5, <1>6, <1>7, <1>8
<1> QED BY <1>1, <1>9 DEF CountsFit, Begun, active, waiting

LEMMA CountsStep ==
  ASSUME Meta!MatrixAssumption, MatrixSound, CountsFit, [Meta!Next]_Meta!vars
  PROVE  CountsFit'
<1>1. CASE Meta!Start
  <2>1. run'.pc = "discover"
    BY <1>1, NothingFacts DEF Meta!Start, Runs
  <2> QED BY <1>1, <2>1 DEF Meta!Start, CountsFit, Begun
<1>2. ASSUME NEW p \in Periods, NEW failed \in BOOLEAN, Meta!Discover(p, failed)
      PROVE  CountsFit'
  BY <1>2, DiscoverCounts
<1>3. CASE Meta!Fetches
  BY <1>3, FetchCounts DEF Meta!Fetches
<1>4. CASE Meta!Ends
  <2>1. UNCHANGED <<slice, count>>
    BY <1>4 DEF Meta!Ends, Meta!EndMatrix, Meta!EndCatalog, Meta!Publish, Meta!Close,
                Meta!Report
  <2>2. Begun /\ run'.pc \in {"idle", "catalog", "publish", "close", "report"}
    BY <1>4, EndsFrame
  <2>3. run'.pc \in {"catalog", "publish", "close", "report"} => Meta!Settled(Matrix)
    BY <1>4, NothingFacts, MatrixTypes
       DEF Meta!Ends, Meta!EndMatrix, Meta!EndCatalog, Meta!Publish, Meta!Close,
           Meta!Report, CountsFit, Begun
  <2>4. run'.pc \in {"publish", "close", "report"} => Meta!Settled(Catalog)
    <3>1. CASE Meta!EndMatrix
      BY <3>1, MatrixTypes DEF Meta!EndMatrix, MatrixSound, Runs
    <3>2. CASE Meta!EndCatalog
      BY <3>2 DEF Meta!EndCatalog
    <3>3. CASE Meta!Publish \/ Meta!Close
      BY <3>3 DEF Meta!Publish, Meta!Close, CountsFit
    <3>4. CASE Meta!Report
      BY <3>4, NothingFacts DEF Meta!Report
    <3> QED BY <1>4, <3>1, <3>2, <3>3, <3>4 DEF Meta!Ends
  <2> QED BY <2>1, <2>2, <2>3, <2>4 DEF CountsFit, Begun, In, Meta!Settled
<1>5. CASE Meta!HardTimeout \/ Meta!Crash
  <2>1. run'.pc = "idle"
    BY <1>5, NothingFacts DEF Meta!HardTimeout, Meta!Crash
  <2> QED BY <2>1 DEF CountsFit, Begun
<1>6. CASE Meta!JoinLoad \/ Meta!JoinSave
  BY <1>6 DEF Meta!JoinLoad, Meta!JoinSave, CountsFit, Begun, In, Meta!Settled
<1>7. CASE Meta!Tick
  <2>1. run'.pc = run.pc /\ UNCHANGED <<slice, count>>
    BY <1>7, TickFacts DEF MatrixSound
  <2> QED BY <2>1 DEF CountsFit, Begun, In, Meta!Settled
<1>8. CASE UNCHANGED Meta!vars
  BY <1>8 DEF Meta!vars, CountsFit, Begun, In, Meta!Settled
<1> QED BY <1>1, <1>2, <1>3, <1>4, <1>5, <1>6, <1>7, <1>8 DEF Meta!Next

\* The counters of a run agree with its slices: each is started once, however often it is
\* tried, and at the end none is missing (start_slice and finish_slice of app/job_run.py).
THEOREM CountersAddUp ==
  ASSUME Meta!MatrixAssumption
  PROVE  Meta!Spec => []Meta!CountsAddUp
<1>1. Meta!Init => CountsFit
  <2>1. Meta!Init => run.pc = "idle"
    BY NothingFacts DEF Meta!Init
  <2> QED BY <2>1 DEF CountsFit, Begun
<1>2. MatrixSound /\ CountsFit /\ [Meta!Next]_Meta!vars => CountsFit'
  BY CountsStep
<1>3. MatrixSound /\ CountsFit => Meta!CountsAddUp
  <2> SUFFICES ASSUME MatrixSound, CountsFit, run.pc \notin {"idle", "discover"}
               PROVE  /\ count.started = count.succeeded + count.failed
                                         + Cardinality(In(slice, {"fetching", "retry"}))
                      /\ count.started + count.skipped <= count.total
                      /\ run.pc \in {"publish", "close", "report"} =>
                           count.started + count.skipped = count.total
    BY CardinalityIsTheSame DEF Meta!CountsAddUp, In
  <2>1. Begun /\ count \in Counts
    BY MatrixTypes DEF MatrixSound, Begun, Runs
  <2>2. Cardinality(In(slice, {"waiting"})) \in Nat
    BY MatrixConstants, FS_Subset, FS_CardinalityType DEF In
  <2>3. run.pc \in {"publish", "close", "report"} => Cardinality(In(slice, {"waiting"})) = 0
    <3> SUFFICES ASSUME run.pc \in {"publish", "close", "report"}
                 PROVE  In(slice, {"waiting"}) = {}
      BY FS_EmptySet
    <3> QED BY DEF CountsFit, Meta!Settled, Meta!Slices, In
  <2> QED BY <2>1, <2>2, <2>3 DEF CountsFit, Counts
<1> QED BY <1>1, <1>2, <1>3, MatrixInductive, PTL DEF Meta!Spec
=============================================================================
