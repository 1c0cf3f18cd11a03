--------------------------- MODULE RunStoreProofs ---------------------------
(* Theorems about RunStore, for every set of runs, workers and callers. *)
EXTENDS RunStore, TLAPS

USE RunIdsAreOrdered, LeaseSecondsAreDurations, NoneIsNoValue

LEMMA TypeInductive == TypeOK /\ [Next]_storeVars => TypeOK'
<1> SUFFICES ASSUME TypeOK, [Next]_storeVars
             PROVE  TypeOK'
  OBVIOUS
<1> USE DEF TypeOK, RunRecord, RunState, Updated
<1>1. ASSUME NEW r \in RunIds, NEW wf \in Workflows, CreateRun(r, wf)
      PROVE  TypeOK'
  BY <1>1 DEF CreateRun, NewRecord
<1>2. ASSUME NEW r \in RunIds, NEW s \in RunState, NEW g \in Gates \cup {None},
             MarkState(r, s, g)
      PROVE  TypeOK'
  <2>1. runs[r] \in RunRecord
    OBVIOUS
  <2>2. Marked(runs[r], s, g) \in RunRecord
    BY <2>1 DEF Marked
  <2> QED
    BY <1>2, <2>2 DEF MarkState
<1>3. Reclaimed \in [RunIds -> RunRecord]
  BY DEF Reclaimed, Requeued
<1>4. ASSUME NEW w \in Workers, NEW wfs \in SUBSET Workflows,
             NEW n \in LeaseSeconds, NEW r \in RunIds, ClaimRun(w, wfs, n, r)
      PROVE  TypeOK'
  <2>1. Leased(Reclaimed[r], w, n) \in RunRecord
    BY <1>3 DEF Leased
  <2> QED
    BY <1>3, <1>4, <2>1 DEF ClaimRun
<1>5. ASSUME ReclaimExpiredLeases
      PROVE  TypeOK'
  BY <1>3, <1>5 DEF ReclaimExpiredLeases
<1>6. ASSUME NEW r \in RunIds, NEW w \in Workers, NEW n \in LeaseSeconds,
             RenewLease(r, w, n)
      PROVE  TypeOK'
  <2>1. Renewed(runs[r], n) \in RunRecord
    BY DEF Renewed
  <2> QED
    BY <1>6, <2>1 DEF RenewLease
<1>7. ASSUME NEW r \in RunIds, NEW v \in Verdicts, NEW c \in Comments,
             NEW p \in Subjects, AppendDecision(r, v, c, p)
      PROVE  TypeOK'
  <2>1. NewDecision(r, v, c, p) \in DecisionRecord
    BY DEF NewDecision, DecisionRecord
  <2> QED
    BY <1>7, <2>1 DEF AppendDecision
<1>8. ASSUME ExpireRuns
      PROVE  TypeOK'
  BY <1>8 DEF ExpireRuns, Cancelled
<1>9. ASSUME Tick
      PROVE  TypeOK'
  BY <1>9 DEF Tick
<1>10. CASE UNCHANGED storeVars
  BY <1>10 DEF storeVars
<1> QED
  BY <1>1, <1>2, <1>4, <1>5, <1>6, <1>7, <1>8, <1>9, <1>10 DEF Next, ClaimNothing

\* Every record the operations write is a record: states, lease fields and
\* decisions keep their types (memory.py, all operations).
THEOREM TypeCorrect == Spec => []TypeOK
<1>1. Init => TypeOK
  BY DEF Init, TypeOK, NoRecord, RunRecord
<1> QED
  BY <1>1, TypeInductive, PTL DEF Spec

\* What the reclaimer leaves of a record keeps the lease whole.
LEMMA ReclaimingKeepsLeasesWhole ==
    ASSUME TypeOK, LeaseCoversRunningWork, NEW r \in RunIds
    PROVE  /\ (Reclaimed[r].leased_by = None)
                 <=> (Reclaimed[r].lease_expires_at = None)
           /\ Reclaimed[r].leased_by # None => Reclaimed[r].state = "running"
BY DEF Reclaimed, Requeued, Updated, TypeOK, RunRecord, LeaseCoversRunningWork

LEMMA LeaseInductive ==
    TypeOK /\ LeaseCoversRunningWork /\ [Next]_storeVars => LeaseCoversRunningWork'
<1> SUFFICES ASSUME TypeOK, LeaseCoversRunningWork, [Next]_storeVars,
                    NEW q \in RunIds
             PROVE  /\ (runs'[q].leased_by = None)
                          <=> (runs'[q].lease_expires_at = None)
                    /\ runs'[q].leased_by # None => runs'[q].state = "running"
  BY DEF LeaseCoversRunningWork
<1> DEFINE Whole == /\ (runs'[q].leased_by = None)
                          <=> (runs'[q].lease_expires_at = None)
                    /\ runs'[q].leased_by # None => runs'[q].state = "running"
<1> USE DEF TypeOK, RunRecord, Updated, LeaseCoversRunningWork
<1>1. ASSUME NEW r \in RunIds, NEW wf \in Workflows, CreateRun(r, wf)
      PROVE  Whole
  BY <1>1 DEF CreateRun, NewRecord
<1>2. ASSUME NEW r \in RunIds, NEW s \in RunState, NEW g \in Gates \cup {None},
             MarkState(r, s, g)
      PROVE  Whole
  BY <1>2 DEF MarkState, Marked
<1>3. /\ Reclaimed \in [RunIds -> RunRecord]
      /\ (Reclaimed[q].leased_by = None) <=> (Reclaimed[q].lease_expires_at = None)
      /\ Reclaimed[q].leased_by # None => Reclaimed[q].state = "running"
  BY ReclaimingKeepsLeasesWhole DEF Reclaimed, Requeued, RunState
<1>4. ASSUME NEW w \in Workers, NEW wfs \in SUBSET Workflows,
             NEW n \in LeaseSeconds, NEW r \in RunIds, ClaimRun(w, wfs, n, r)
      PROVE  Whole
  <2>1. clock + n # None
    OBVIOUS
  <2> QED
    BY <1>3, <1>4, <2>1 DEF ClaimRun, Leased
<1>5. ASSUME ReclaimExpiredLeases
      PROVE  Whole
  BY <1>3, <1>5 DEF ReclaimExpiredLeases
<1>6. ASSUME NEW r \in RunIds, NEW w \in Workers, NEW n \in LeaseSeconds,
             RenewLease(r, w, n)
      PROVE  Whole
  <2>1. clock + n # None
    OBVIOUS
  <2> QED
    BY <1>6, <2>1 DEF RenewLease, Renewed
<1>7. ASSUME NEW r \in RunIds, NEW v \in Verdicts, NEW c \in Comments,
             NEW p \in Subjects, AppendDecision(r, v, c, p)
      PROVE  Whole
  BY <1>7 DEF AppendDecision
<1>8. ASSUME ExpireRuns
      PROVE  Whole
  BY <1>8 DEF ExpireRuns, IsAbandoned, Cancelled
<1>9. ASSUME Tick
      PROVE  Whole
  BY <1>9 DEF Tick
<1>10. CASE UNCHANGED storeVars
  BY <1>10 DEF storeVars
<1> QED
  BY <1>1, <1>2, <1>4, <1>5, <1>6, <1>7, <1>8, <1>9, <1>10 DEF Next, ClaimNothing

\* The lease invariant under arbitrary callers: whatever is claimed, renewed,
\* reclaimed, marked or expired, in any order, a lease is whole and covers a
\* running run (memory.py:83-86).
THEOREM LeaseSafety == Spec => []LeaseCoversRunningWork
<1>1. Init => LeaseCoversRunningWork
  BY DEF Init, LeaseCoversRunningWork, NoRecord
<1> QED
  BY <1>1, LeaseInductive, TypeCorrect, PTL DEF Spec

\* Whatever the callers do, a claim never takes a run from under a live lease
\* (memory.py:113-117).
THEOREM LeaseExclusion == Spec => LiveLeaseNotStolen
<1>1. ASSUME TypeOK, LeaseCoversRunningWork, [Next]_storeVars, NEW q \in RunIds
      PROVE  HandsOverLapsedLease(q)
  <2> USE DEF TypeOK, RunRecord, Updated, HandsOverLapsedLease
  <2>1. ASSUME NEW r \in RunIds, NEW wf \in Workflows, CreateRun(r, wf)
        PROVE  HandsOverLapsedLease(q)
    BY <1>1, <2>1 DEF CreateRun, NewRecord
  <2>2. ASSUME NEW r \in RunIds, NEW s \in RunState, NEW g \in Gates \cup {None},
               MarkState(r, s, g)
        PROVE  HandsOverLapsedLease(q)
    BY <1>1, <2>2 DEF MarkState, Marked
  <2>3. Reclaimed \in [RunIds -> RunRecord]
    BY <1>1 DEF Reclaimed, Requeued, RunState
  <2>4. Reclaimed[q].leased_by \in {runs[q].leased_by, None}
    BY <1>1 DEF Reclaimed, Requeued
  <2>5. ASSUME NEW w \in Workers, NEW wfs \in SUBSET Workflows,
               NEW n \in LeaseSeconds, NEW r \in RunIds, ClaimRun(w, wfs, n, r)
        PROVE  HandsOverLapsedLease(q)
    <3>1. CASE q # r
      BY <2>3, <2>4, <2>5, <3>1 DEF ClaimRun
    <3>2. CASE q = r /\ IsStranded(q)
      BY <3>2 DEF IsStranded
    <3>3. CASE q = r /\ ~IsStranded(q)
      <4>1. runs[q].state = "queued"
        BY <1>1, <2>5, <3>3 DEF ClaimRun, Claimable, Reclaimed
      <4> QED
        BY <1>1, <4>1 DEF LeaseCoversRunningWork
    <3> QED
      BY <3>1, <3>2, <3>3
  <2>6. ASSUME ReclaimExpiredLeases
        PROVE  HandsOverLapsedLease(q)
    BY <2>4, <2>6 DEF ReclaimExpiredLeases
  <2>7. ASSUME NEW r \in RunIds, NEW w \in Workers, NEW n \in LeaseSeconds,
               RenewLease(r, w, n)
        PROVE  HandsOverLapsedLease(q)
    BY <1>1, <2>7 DEF RenewLease, Renewed
  <2>8. ASSUME NEW r \in RunIds, NEW v \in Verdicts, NEW c \in Comments,
               NEW p \in Subjects, AppendDecision(r, v, c, p)
        PROVE  HandsOverLapsedLease(q)
    BY <2>8 DEF AppendDecision
  <2>9. ASSUME ExpireRuns
        PROVE  HandsOverLapsedLease(q)
    BY <1>1, <2>9 DEF ExpireRuns, Cancelled
  <2>10. ASSUME Tick
        PROVE  HandsOverLapsedLease(q)
    BY <2>10 DEF Tick
  <2>11. CASE UNCHANGED storeVars
    BY <2>11 DEF storeVars
  <2> QED
    BY <1>1, <2>1, <2>2, <2>5, <2>6, <2>7, <2>8, <2>9, <2>10, <2>11
       DEF Next, ClaimNothing
<1>2. TypeOK /\ LeaseCoversRunningWork /\ [Next]_storeVars
         => [HandsOverLapsedLeases]_storeVars
  BY <1>1 DEF HandsOverLapsedLeases
<1> QED
  BY <1>2, TypeCorrect, LeaseSafety, PTL DEF Spec, LiveLeaseNotStolen

\* Nothing older of the same workflow is left waiting by a claim, runs whose
\* lease had lapsed included (memory.py:119-122 and 137-139).
THEOREM QueueOrder == Spec => OldestIsServedFirst
<1>1. ASSUME TypeOK, [Next]_storeVars, NEW q \in RunIds, NEW x \in RunIds
      PROVE  ServedBeforeNoOlder(q, x)
  <2> USE DEF TypeOK, RunRecord, Updated, ServedBeforeNoOlder
  <2>1. ASSUME NEW r \in RunIds, NEW wf \in Workflows, CreateRun(r, wf)
        PROVE  ServedBeforeNoOlder(q, x)
    BY <1>1, <2>1 DEF CreateRun, NewRecord
  <2>2. ASSUME NEW r \in RunIds, NEW s \in RunState, NEW g \in Gates \cup {None},
               MarkState(r, s, g)
        PROVE  ServedBeforeNoOlder(q, x)
    BY <1>1, <2>2 DEF MarkState, Marked
  <2>3. Reclaimed \in [RunIds -> RunRecord]
    BY <1>1 DEF Reclaimed, Requeued, RunState
  <2>4. Reclaimed[q].leased_by \in {runs[q].leased_by, None}
    BY <1>1 DEF Reclaimed, Requeued
  <2>5. ASSUME NEW w \in Workers, NEW wfs \in SUBSET Workflows,
               NEW n \in LeaseSeconds, NEW r \in RunIds, ClaimRun(w, wfs, n, r)
        PROVE  ServedBeforeNoOlder(q, x)
    <3>1. CASE q # r
      BY <2>3, <2>4, <2>5, <3>1 DEF ClaimRun
    <3>2. CASE q = r
      <4> SUFFICES ASSUME runs[x].workflow = runs[r].workflow,
                          runs[x].created_at < runs[r].created_at,
                          runs[x].state = "queued" \/ IsStranded(x)
                   PROVE  FALSE
        BY <3>2
      <4>1. /\ Reclaimed[x].state = "queued"
            /\ Reclaimed[x].workflow = runs[x].workflow
            /\ Reclaimed[r].workflow = runs[r].workflow
        BY <1>1 DEF Reclaimed, Requeued
      <4>2. x \in Claimable(wfs)
        BY <2>5, <4>1 DEF ClaimRun, Claimable
      <4> QED
        BY <2>5, <4>2 DEF ClaimRun, OlderRun
    <3> QED
      BY <3>1, <3>2
  <2>6. ASSUME ReclaimExpiredLeases
        PROVE  ServedBeforeNoOlder(q, x)
    BY <2>4, <2>6 DEF ReclaimExpiredLeases
  <2>7. ASSUME NEW r \in RunIds, NEW w \in Workers, NEW n \in LeaseSeconds,
               RenewLease(r, w, n)
        PROVE  ServedBeforeNoOlder(q, x)
    BY <1>1, <2>7 DEF RenewLease, Renewed
  <2>8. ASSUME NEW r \in RunIds, NEW v \in Verdicts, NEW c \in Comments,
               NEW p \in Subjects, AppendDecision(r, v, c, p)
        PROVE  ServedBeforeNoOlder(q, x)
    BY <2>8 DEF AppendDecision
  <2>9. ASSUME ExpireRuns
        PROVE  ServedBeforeNoOlder(q, x)
    BY <1>1, <2>9 DEF ExpireRuns, Cancelled
  <2>10. ASSUME Tick
        PROVE  ServedBeforeNoOlder(q, x)
    BY <2>10 DEF Tick
  <2>11. CASE UNCHANGED storeVars
    BY <2>11 DEF storeVars
  <2> QED
    BY <1>1, <2>1, <2>2, <2>5, <2>6, <2>7, <2>8, <2>9, <2>10, <2>11
       DEF Next, ClaimNothing
<1>2. TypeOK /\ [Next]_storeVars => [ServesOldest]_storeVars
  BY <1>1 DEF ServesOldest
<1> QED
  BY <1>2, TypeCorrect, PTL DEF Spec, OldestIsServedFirst

\* Positions in a chain are its entries' seq.
ChainNumbered ==
    \A r \in RunIds : \A i \in DOMAIN decisions[r] : decisions[r][i].seq = i

\* Appending at Len + 1 is the only thing a step does to a chain.
LEMMA ChainStep ==
    ASSUME TypeOK, [Next]_storeVars, NEW q \in RunIds
    PROVE  \/ decisions'[q] = decisions[q]
           \/ \E d \in DecisionRecord : /\ d.seq = Len(decisions[q]) + 1
                                       /\ decisions'[q] = Append(decisions[q], d)
<1> USE DEF TypeOK
<1>1. ASSUME NEW r \in RunIds, NEW v \in Verdicts, NEW c \in Comments,
             NEW p \in Subjects, AppendDecision(r, v, c, p)
      PROVE  \/ decisions'[q] = decisions[q]
             \/ \E d \in DecisionRecord : /\ d.seq = Len(decisions[q]) + 1
                                         /\ decisions'[q] = Append(decisions[q], d)
  <2>1. NewDecision(r, v, c, p) \in DecisionRecord
    BY DEF NewDecision, DecisionRecord
  <2>2. NewDecision(r, v, c, p).seq = Len(decisions[r]) + 1
    BY DEF NewDecision
  <2>3. CASE q = r
    BY <1>1, <2>1, <2>2, <2>3 DEF AppendDecision
  <2>4. CASE q # r
    BY <1>1, <2>4 DEF AppendDecision
  <2> QED
    BY <2>3, <2>4
<1>2. CASE UNCHANGED decisions
  BY <1>2
<1> QED
  BY <1>1, <1>2 DEF Next, storeVars, CreateRun, MarkState, ClaimRun, ClaimNothing,
     RenewLease, ReclaimExpiredLeases, ExpireRuns, Tick

LEMMA ChainInductive ==
    TypeOK /\ ChainNumbered /\ [Next]_storeVars
        => ChainNumbered' /\ [ExtendsChains]_storeVars
<1> SUFFICES ASSUME TypeOK, ChainNumbered, [Next]_storeVars, NEW q \in RunIds
             PROVE  ExtendsChain(q)
  BY DEF ChainNumbered, ExtendsChains, ExtendsChain
<1>1. decisions[q] \in Seq(DecisionRecord)
  BY DEF TypeOK
<1>2. CASE decisions'[q] = decisions[q]
  BY <1>1, <1>2 DEF ChainNumbered, ExtendsChain, IsPrefix
<1>3. ASSUME NEW d \in DecisionRecord, d.seq = Len(decisions[q]) + 1,
             decisions'[q] = Append(decisions[q], d)
      PROVE  ExtendsChain(q)
  <2>1. IsPrefix(decisions[q], Append(decisions[q], d))
    BY <1>1 DEF IsPrefix
  <2>2. \A i \in DOMAIN Append(decisions[q], d) : Append(decisions[q], d)[i].seq = i
    BY <1>1, <1>3 DEF ChainNumbered
  <2> QED
    BY <1>3, <2>1, <2>2 DEF ExtendsChain
<1> QED
  BY <1>2, <1>3, ChainStep

\* The decisions of a run are append-only and numbered without gaps, whatever
\* the callers do (models.py:85-86, base.py:128-129).
THEOREM AuditIntegrity == Spec => AuditChainOnlyGrows
<1>1. Init => ChainNumbered
  BY DEF Init, ChainNumbered
<1> QED
  BY <1>1, ChainInductive, TypeCorrect, PTL DEF Spec, AuditChainOnlyGrows
=============================================================================
