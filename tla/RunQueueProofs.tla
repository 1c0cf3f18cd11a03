--------------------------- MODULE RunQueueProofs ---------------------------
(***************************************************************************)
(* The workers over the store, for any number of workers, runs, leases     *)
(* and faults.  Workers and API only call the store, so what RunStoreProofs*)
(* proves of the store under arbitrary callers holds here for free; what is*)
(* added relates the lease in the store to the belief of its holder.       *)
(*                                                                         *)
(* BeliefInv leads to the implementation of WorkQueue as well; PaidInv     *)
(* charges every execution of a run to a cause.                            *)
(***************************************************************************)
EXTENDS RunQueue, RunStoreProofs, FiniteSetTheorems

USE RunIdsAreOrdered, LeaseSecondsAreDurations, NoneIsNoValue,
    CanRunNamesWorkflows, OutcomesLeaveRunning

HoldingTyped ==
    /\ holding \in [Workers -> [run : RunIds \cup {None}, expiry : Int]]
    /\ toQueue \in [RunIds -> Nat]

\* The queue uses the store through its operations only.
LEMMA QueueStepsAreStoreSteps ==
    HoldingTyped /\ [QueueNext]_queueVars => [Next]_storeVars
<1> SUFFICES ASSUME HoldingTyped, [QueueNext]_queueVars
             PROVE  [Next]_storeVars
  OBVIOUS
<1> USE DEF Next
<1>1. ASSUME NEW r \in RunIds, NEW wf \in Workflows, Submit(r, wf)
      PROVE  Next
  BY <1>1 DEF Submit
<1>2. ASSUME NEW r \in RunIds, Enqueue(r)
      PROVE  Next
  BY <1>2 DEF Enqueue, RunState
<1>3. ASSUME NEW r \in RunIds, NEW v \in Verdicts, NEW c \in Comments,
             NEW p \in Subjects, DecideQueued(r, v, c, p)
      PROVE  Next
  BY <1>3 DEF DecideQueued
<1>4. ASSUME NEW w \in Workers, NEW n \in LeaseSeconds, NEW r \in RunIds,
             Claim(w, n, r)
      PROVE  Next
  <2>1. CanRun[w] \in SUBSET Workflows
    OBVIOUS
  <2> QED
    BY <1>4, <2>1 DEF Claim
<1>5. ASSUME NEW w \in Workers, FindNothing(w)
      PROVE  Next
  <2>1. CanRun[w] \in SUBSET Workflows
    OBVIOUS
  <2> QED
    BY <1>5, <2>1 DEF FindNothing
<1>6. ASSUME NEW w \in Workers, NEW n \in LeaseSeconds, Renew(w, n)
      PROVE  Next
  <2>1. holding[w].run \in RunIds
    BY <1>6 DEF HoldingTyped, Renew
  <2> QED
    BY <1>6, <2>1 DEF Renew
<1>7. ASSUME NEW w \in Workers, NEW s \in Outcomes, NEW g \in Gates, Finish(w, s, g)
      PROVE  Next
  <2>1. holding[w].run \in RunIds /\ s \in RunState
    BY <1>7 DEF HoldingTyped, Finish
  <2> QED
    BY <1>7, <2>1 DEF Finish
<1>8. ASSUME Pass
      PROVE  Next
  BY <1>8 DEF Pass
<1>9. ASSUME NEW w \in Workers, RenewRefused(w) \/ Die(w)
      PROVE  UNCHANGED storeVars
  BY <1>9 DEF RenewRefused, Die, storeVars
<1>10. CASE UNCHANGED queueVars
  BY <1>10 DEF queueVars, storeVars
<1> QED
  BY <1>1, <1>2, <1>3, <1>4, <1>5, <1>6, <1>7, <1>8, <1>9, <1>10 DEF QueueNext

LEMMA HoldingInductive ==
    HoldingTyped /\ TypeOK /\ [QueueNext]_queueVars => HoldingTyped'
<1> SUFFICES ASSUME HoldingTyped, TypeOK, [QueueNext]_queueVars
             PROVE  HoldingTyped'
  OBVIOUS
<1> USE DEF HoldingTyped
<1>1. CASE UNCHANGED <<holding, toQueue>>
  BY <1>1
<1>2. ASSUME NEW r \in RunIds, UNCHANGED holding,
             \/ toQueue' = [toQueue EXCEPT ![r] = @ + 1]
             \/ toQueue[r] > 0 /\ toQueue' = [toQueue EXCEPT ![r] = @ - 1]
      PROVE  HoldingTyped'
  BY <1>2
<1>3. ASSUME NEW w \in Workers, UNCHANGED toQueue,
             holding' = [holding EXCEPT ![w] = Idle]
      PROVE  HoldingTyped'
  BY <1>3 DEF Idle
<1>4. ASSUME NEW w \in Workers, NEW n \in LeaseSeconds, NEW r \in RunIds,
             UNCHANGED toQueue,
             holding' = [holding EXCEPT ![w] = [run |-> r, expiry |-> clock + n]]
      PROVE  HoldingTyped'
  <2>1. clock + n \in Int
    BY DEF TypeOK
  <2> QED
    BY <1>4, <2>1
<1>5. ASSUME NEW w \in Workers, NEW n \in LeaseSeconds, Renew(w, n)
      PROVE  HoldingTyped'
  <2>1. holding[w].run \in RunIds
    BY <1>5 DEF Renew
  <2>2. holding' = [holding EXCEPT ![w] = [run |-> holding[w].run, expiry |-> clock + n]]
    BY <1>5 DEF Renew
  <2>3. UNCHANGED toQueue
    BY <1>5 DEF Renew
  <2> QED
    BY <1>4, <2>1, <2>2, <2>3
<1>6. CASE \E r \in RunIds, wf \in Workflows : Submit(r, wf)
  BY <1>2, <1>6 DEF Submit
<1>7. CASE \E r \in RunIds : Enqueue(r)
  BY <1>2, <1>7 DEF Enqueue
<1>8. CASE \E r \in RunIds, v \in Verdicts, c \in Comments, p \in Subjects :
              DecideQueued(r, v, c, p)
  BY <1>2, <1>8 DEF DecideQueued
<1>9. CASE \E w \in Workers, n \in LeaseSeconds, r \in RunIds : Claim(w, n, r)
  BY <1>4, <1>9 DEF Claim
<1>10. CASE \E w \in Workers : FindNothing(w)
  BY <1>1, <1>10 DEF FindNothing, workerVars
<1>11. CASE \E w \in Workers : RenewRefused(w) \/ Die(w)
  BY <1>3, <1>11 DEF RenewRefused, Die
<1>12. CASE \E w \in Workers, s \in Outcomes, g \in Gates : Finish(w, s, g)
  BY <1>3, <1>12 DEF Finish
<1>13. CASE Pass
  BY <1>1, <1>13 DEF Pass
<1>14. CASE UNCHANGED queueVars
  BY <1>1, <1>14 DEF queueVars
<1> QED
  BY <1>5, <1>6, <1>7, <1>8, <1>9, <1>10, <1>11, <1>12, <1>13, <1>14 DEF QueueNext

\* Every behaviour of the workers and the API is one of the store under
\* arbitrary callers, so the store's theorems hold of the queue.
THEOREM QueueRefinesStore == QueueSpec => Spec /\ []HoldingTyped
<1>1. QueueInit => Init /\ HoldingTyped /\ TypeOK
  BY DEF QueueInit, Init, HoldingTyped, Idle, TypeOK, NoRecord, RunRecord
<1> QED
  BY <1>1, QueueStepsAreStoreSteps, HoldingInductive, TypeInductive, PTL
     DEF QueueSpec, Spec

-----------------------------------------------------------------------------
(* A run created and not marked "queued" yet is nobody's; a live belief is  *)
(* either backed by the very lease it came from, or about a finished run.   *)

NoGates == Outcomes \subseteq TERMINAL_STATES

NobodysYet(r) ==
    toQueue[r] > 0 => /\ toQueue[r] = 1
                      /\ runs[r].state = "running"
                      /\ runs[r].leased_by = None
                      /\ \A w \in Workers : ~Believes(w, r)

KnownOnly(r) ==
    /\ runs[r].state = "absent" =>
            toQueue[r] = 0 /\ \A w \in Workers : ~Believes(w, r)
    /\ runs[r].state # "awaiting_decision"

Backed(w, r) ==
    Believes(w, r) /\ HoldsLive(w) =>
        \/ IsTerminal(r)
        \/ /\ runs[r].state = "running"
           /\ runs[r].leased_by = w
           /\ runs[r].lease_expires_at = holding[w].expiry

BeliefInv ==
    /\ \A r \in RunIds : NobodysYet(r) /\ KnownOnly(r)
    /\ \A w \in Workers, r \in RunIds : Backed(w, r)
    /\ HoldersExclusive

\* The clock never goes back, so a belief that lapsed stays lapsed.
LEMMA BeliefUndisturbed ==
    ASSUME HoldingTyped, TypeOK, BeliefInv,
           UNCHANGED <<runs, toQueue>>,
           clock' \in Int, clock <= clock',
           \A w \in Workers : holding'[w] \in {holding[w], Idle}
    PROVE  BeliefInv'
<1> USE DEF HoldingTyped, TypeOK, Believes, HoldsLive, IsTerminal, Idle
<1>1. ASSUME NEW r \in RunIds
      PROVE  NobodysYet(r)' /\ KnownOnly(r)'
  BY DEF BeliefInv, NobodysYet, KnownOnly
<1>2. ASSUME NEW w \in Workers, NEW r \in RunIds
      PROVE  Backed(w, r)'
  <2>1. Backed(w, r)
    BY DEF BeliefInv
  <2>2. CASE holding'[w] = Idle
    BY <2>2 DEF Backed
  <2>3. CASE holding'[w] = holding[w]
    BY <2>1, <2>3 DEF Backed
  <2> QED
    BY <2>2, <2>3
<1>3. ASSUME NEW v \in Workers, NEW w \in Workers
      PROVE  Exclusive(v, w)'
  <2>1. Exclusive(v, w)
    BY DEF BeliefInv, HoldersExclusive
  <2> QED
    BY <2>1 DEF Exclusive
<1> QED
  BY <1>1, <1>2, <1>3 DEF BeliefInv, HoldersExclusive

LEMMA StrandedIsUnheld ==
    ASSUME HoldingTyped, TypeOK, LeaseCoversRunningWork, BeliefInv,
           NEW x \in RunIds, IsStranded(x)
    PROVE  /\ toQueue[x] = 0
           /\ \A w \in Workers : ~(Believes(w, x) /\ HoldsLive(w))
<1>1. toQueue[x] = 0
  <2>1. NobodysYet(x)
    BY DEF BeliefInv
  <2>2. runs[x].leased_by # None
    BY DEF IsStranded, LeaseCoversRunningWork
  <2> QED
    BY <2>1, <2>2 DEF NobodysYet, HoldingTyped
<1>2. ASSUME NEW w \in Workers, Believes(w, x), HoldsLive(w)
      PROVE  FALSE
  <2>1. Backed(w, x)
    BY DEF BeliefInv
  <2> QED
    BY <1>2, <2>1 DEF Backed, IsStranded, IsTerminal, TERMINAL_STATES, HoldsLive,
       HoldingTyped, TypeOK
<1> QED
  BY <1>1, <1>2

LEMMA SubmitKeepsBeliefs ==
    ASSUME HoldingTyped, TypeOK, BeliefInv,
           NEW r \in RunIds, NEW wf \in Workflows, Submit(r, wf)
    PROVE  BeliefInv'
<1> USE DEF HoldingTyped, TypeOK, Submit, CreateRun, NewRecord, Believes, HoldsLive,
            IsTerminal
<1>1. toQueue[r] = 0 /\ \A w \in Workers : ~Believes(w, r)
  BY DEF BeliefInv, KnownOnly, Exists
<1>2. ASSUME NEW x \in RunIds
      PROVE  NobodysYet(x)' /\ KnownOnly(x)'
  <2>1. NobodysYet(x) /\ KnownOnly(x)
    BY DEF BeliefInv
  <2> QED
    BY <1>1, <2>1 DEF NobodysYet, KnownOnly
<1>3. ASSUME NEW w \in Workers, NEW x \in RunIds
      PROVE  Backed(w, x)'
  <2>1. Backed(w, x)
    BY DEF BeliefInv
  <2> QED
    BY <1>1, <2>1 DEF Backed
<1>4. HoldersExclusive'
  BY DEF BeliefInv, HoldersExclusive, Exclusive
<1> QED
  BY <1>2, <1>3, <1>4 DEF BeliefInv

LEMMA EnqueueKeepsBeliefs ==
    ASSUME HoldingTyped, TypeOK, BeliefInv, NEW r \in RunIds, Enqueue(r)
    PROVE  BeliefInv'
<1> USE DEF HoldingTyped, TypeOK, Enqueue, MarkState, Marked, Updated, Believes,
            HoldsLive, IsTerminal
<1>1. toQueue[r] = 1 /\ \A w \in Workers : ~Believes(w, r)
  BY DEF BeliefInv, NobodysYet
<1>2. ASSUME NEW x \in RunIds
      PROVE  NobodysYet(x)' /\ KnownOnly(x)'
  <2>1. NobodysYet(x) /\ KnownOnly(x)
    BY DEF BeliefInv
  <2> QED
    BY <1>1, <2>1 DEF NobodysYet, KnownOnly
<1>3. ASSUME NEW w \in Workers, NEW x \in RunIds
      PROVE  Backed(w, x)'
  <2>1. Backed(w, x)
    BY DEF BeliefInv
  <2> QED
    BY <1>1, <2>1 DEF Backed
<1>4. HoldersExclusive'
  BY DEF BeliefInv, HoldersExclusive, Exclusive
<1> QED
  BY <1>2, <1>3, <1>4 DEF BeliefInv

\* The beliefs survive the reclaiming, which takes only from the unheld.
LEMMA ReclaimKeepsBeliefs ==
    ASSUME HoldingTyped, TypeOK, LeaseCoversRunningWork, BeliefInv,
           runs' = Reclaimed, UNCHANGED <<toQueue, holding, clock>>
    PROVE  BeliefInv'
<1> USE DEF HoldingTyped, TypeOK, Believes, HoldsLive, IsTerminal
<1>1. ASSUME NEW x \in RunIds, ~IsStranded(x)
      PROVE  runs'[x] = runs[x]
  BY <1>1 DEF Reclaimed
<1>2. ASSUME NEW x \in RunIds, IsStranded(x)
      PROVE  runs'[x].state = "queued"
  BY <1>2 DEF Reclaimed, Requeued, Updated
<1>3. ASSUME NEW x \in RunIds
      PROVE  NobodysYet(x)' /\ KnownOnly(x)'
  <2>1. NobodysYet(x) /\ KnownOnly(x)
    BY DEF BeliefInv
  <2>2. CASE IsStranded(x)
    BY <1>2, <2>2, StrandedIsUnheld DEF NobodysYet, KnownOnly
  <2>3. CASE ~IsStranded(x)
    BY <1>1, <2>1, <2>3 DEF NobodysYet, KnownOnly
  <2> QED
    BY <2>2, <2>3
<1>4. ASSUME NEW w \in Workers, NEW x \in RunIds
      PROVE  Backed(w, x)'
  <2>1. Backed(w, x)
    BY DEF BeliefInv
  <2>2. CASE IsStranded(x)
    BY <2>2, StrandedIsUnheld DEF Backed
  <2>3. CASE ~IsStranded(x)
    BY <1>1, <2>1, <2>3 DEF Backed
  <2> QED
    BY <2>2, <2>3
<1>5. HoldersExclusive'
  BY DEF BeliefInv, HoldersExclusive, Exclusive
<1> QED
  BY <1>3, <1>4, <1>5 DEF BeliefInv

\* What a worker may claim is held live by nobody.
LEMMA ClaimableIsUnheld ==
    ASSUME HoldingTyped, TypeOK, LeaseCoversRunningWork, BeliefInv,
           NEW wfs, NEW r \in Claimable(wfs), NEW w \in Workers
    PROVE  /\ r \in RunIds
           /\ toQueue[r] = 0
           /\ ~(Believes(w, r) /\ HoldsLive(w))
<1>1. r \in RunIds /\ (runs[r].state = "queued" \/ IsStranded(r))
  BY DEF Claimable, Reclaimed
<1>2. CASE IsStranded(r)
  BY <1>1, <1>2, StrandedIsUnheld
<1>3. CASE runs[r].state = "queued"
  <2>1. NobodysYet(r) /\ Backed(w, r)
    BY <1>1 DEF BeliefInv
  <2> QED
    BY <1>1, <1>3, <2>1 DEF NobodysYet, Backed, IsTerminal, TERMINAL_STATES, HoldingTyped
<1> QED
  BY <1>1, <1>2, <1>3

LEMMA ClaimKeepsBeliefs ==
    ASSUME HoldingTyped, TypeOK, LeaseCoversRunningWork, BeliefInv,
           NEW w \in Workers, NEW n \in LeaseSeconds, NEW r \in RunIds, Claim(w, n, r)
    PROVE  BeliefInv'
<1> USE DEF HoldingTyped, TypeOK, Believes, HoldsLive, IsTerminal
<1>1. /\ UNCHANGED <<clock, toQueue>>
      /\ holding' = [holding EXCEPT ![w] = [run |-> r, expiry |-> clock + n]]
      /\ runs' = [Reclaimed EXCEPT ![r] = Leased(@, w, n)]
      /\ r \in Claimable(CanRun[w])
  BY DEF Claim, ClaimRun
<1>2. Reclaimed \in [RunIds -> RunRecord]
  BY DEF Reclaimed, Requeued, Updated, RunRecord, RunState
<1>3. /\ runs'[r].state = "running"
      /\ runs'[r].leased_by = w
      /\ runs'[r].lease_expires_at = clock + n
  BY <1>1, <1>2 DEF Leased, Updated
<1>4. /\ toQueue[r] = 0
      /\ \A v \in Workers : ~(Believes(v, r) /\ HoldsLive(v))
  BY <1>1, ClaimableIsUnheld
<1>5. ASSUME NEW x \in RunIds, x # r, ~IsStranded(x)
      PROVE  runs'[x] = runs[x]
  BY <1>1, <1>2, <1>5 DEF Reclaimed
<1>6. ASSUME NEW x \in RunIds, x # r, IsStranded(x)
      PROVE  runs'[x].state = "queued"
  BY <1>1, <1>2, <1>6 DEF Reclaimed, Requeued, Updated
<1>7. ASSUME NEW v \in Workers
      PROVE  IF v = w THEN holding'[v] = [run |-> r, expiry |-> clock + n]
                      ELSE holding'[v] = holding[v]
  BY <1>1
<1>8. ASSUME NEW x \in RunIds
      PROVE  NobodysYet(x)' /\ KnownOnly(x)'
  <2>1. NobodysYet(x) /\ KnownOnly(x)
    BY DEF BeliefInv
  <2>2. CASE x = r
    BY <1>1, <1>3, <1>4, <2>2 DEF NobodysYet, KnownOnly
  <2>3. CASE x # r /\ IsStranded(x)
    <3>1. toQueue[x] = 0
      BY <2>3, StrandedIsUnheld
    <3> QED
      BY <1>1, <1>6, <2>3, <3>1 DEF NobodysYet, KnownOnly
  <2>4. CASE x # r /\ ~IsStranded(x)
    BY <1>1, <1>5, <1>7, <2>1, <2>4 DEF NobodysYet, KnownOnly
  <2> QED
    BY <2>2, <2>3, <2>4
<1>9. ASSUME NEW v \in Workers, NEW x \in RunIds
      PROVE  Backed(v, x)'
  <2>1. Backed(v, x)
    BY DEF BeliefInv
  <2>2. CASE x = r
    BY <1>1, <1>3, <1>4, <1>7, <2>2 DEF Backed
  <2>3. CASE x # r /\ IsStranded(x)
    BY <1>1, <1>7, <2>3, StrandedIsUnheld DEF Backed
  <2>4. CASE x # r /\ ~IsStranded(x)
    BY <1>1, <1>5, <1>7, <2>1, <2>4 DEF Backed
  <2> QED
    BY <2>2, <2>3, <2>4
<1>10. ASSUME NEW u \in Workers, NEW v \in Workers
       PROVE  Exclusive(u, v)'
  <2>1. Exclusive(u, v)
    BY DEF BeliefInv, HoldersExclusive
  <2> QED
    BY <1>1, <1>4, <1>7, <2>1 DEF Exclusive
<1> QED
  BY <1>8, <1>9, <1>10 DEF BeliefInv, HoldersExclusive

LEMMA RenewKeepsBeliefs ==
    ASSUME HoldingTyped, TypeOK, LeaseCoversRunningWork, BeliefInv,
           NEW w \in Workers, NEW n \in LeaseSeconds, Renew(w, n)
    PROVE  BeliefInv'
<1> USE DEF HoldingTyped, TypeOK, Believes, HoldsLive, IsTerminal
<1>1. PICK r \in RunIds : r = holding[w].run
  BY DEF Renew
<1>2. /\ UNCHANGED <<clock, toQueue>>
      /\ holding' = [holding EXCEPT ![w] = [run |-> r, expiry |-> clock + n]]
      /\ runs' = [runs EXCEPT ![r] = Renewed(@, n)]
      /\ runs[r].leased_by = w
      /\ runs[r].state = "running"
  BY <1>1 DEF Renew, RenewLease, LeaseCoversRunningWork
<1>3. /\ runs'[r].state = "running"
      /\ runs'[r].leased_by = w
      /\ runs'[r].lease_expires_at = clock + n
  BY <1>2 DEF Renewed, Updated
<1>4. ASSUME NEW v \in Workers
      PROVE  /\ IF v = w THEN holding'[v] = [run |-> r, expiry |-> clock + n]
                         ELSE holding'[v] = holding[v]
             /\ Believes(v, r) /\ HoldsLive(v) => v = w
  <2>1. Backed(v, r)
    BY DEF BeliefInv
  <2> QED
    BY <1>2, <2>1 DEF Backed, TERMINAL_STATES
<1>5. ASSUME NEW x \in RunIds
      PROVE  NobodysYet(x)' /\ KnownOnly(x)'
  <2>1. NobodysYet(x) /\ KnownOnly(x)
    BY DEF BeliefInv
  <2>2. CASE x = r
    BY <1>1, <1>2, <1>3, <2>1, <2>2 DEF NobodysYet, KnownOnly
  <2>3. CASE x # r
    BY <1>2, <1>4, <2>1, <2>3 DEF NobodysYet, KnownOnly
  <2> QED
    BY <2>2, <2>3
<1>6. ASSUME NEW v \in Workers, NEW x \in RunIds
      PROVE  Backed(v, x)'
  <2>1. Backed(v, x)
    BY DEF BeliefInv
  <2>2. CASE x = r
    BY <1>2, <1>3, <1>4, <2>2 DEF Backed
  <2>3. CASE x # r
    BY <1>2, <1>4, <2>1, <2>3 DEF Backed
  <2> QED
    BY <2>2, <2>3
<1>7. ASSUME NEW u \in Workers, NEW v \in Workers
      PROVE  Exclusive(u, v)'
  <2>1. Exclusive(u, v)
    BY DEF BeliefInv, HoldersExclusive
  <2> QED
    BY <1>1, <1>2, <1>4, <2>1 DEF Exclusive
<1> QED
  BY <1>5, <1>6, <1>7 DEF BeliefInv, HoldersExclusive

LEMMA FinishKeepsBeliefs ==
    ASSUME NoGates, HoldingTyped, TypeOK, BeliefInv,
           NEW w \in Workers, NEW s \in Outcomes, NEW g \in Gates, Finish(w, s, g)
    PROVE  BeliefInv'
<1> USE DEF HoldingTyped, TypeOK, Believes, HoldsLive, IsTerminal, NoGates
<1>1. PICK r \in RunIds : r = holding[w].run
  BY DEF Finish
<1>2. /\ UNCHANGED <<clock, toQueue>>
      /\ holding' = [holding EXCEPT ![w] = Idle]
      /\ runs' = [runs EXCEPT ![r] = Marked(@, s, g)]
  BY <1>1 DEF Finish, MarkState
<1>3. runs'[r].state = s /\ s \in TERMINAL_STATES
  BY <1>2 DEF Marked, Updated
<1>4. ASSUME NEW v \in Workers
      PROVE  IF v = w THEN holding'[v].run = None ELSE holding'[v] = holding[v]
  BY <1>2 DEF Idle
<1>5. toQueue[r] = 0
  <2>1. NobodysYet(r)
    BY DEF BeliefInv
  <2> QED
    BY <1>1, <2>1 DEF NobodysYet
<1>6. ASSUME NEW x \in RunIds
      PROVE  NobodysYet(x)' /\ KnownOnly(x)'
  <2>1. NobodysYet(x) /\ KnownOnly(x)
    BY DEF BeliefInv
  <2>2. CASE x = r
    BY <1>2, <1>3, <1>5, <2>2 DEF NobodysYet, KnownOnly, TERMINAL_STATES
  <2>3. CASE x # r
    BY <1>2, <1>4, <2>1, <2>3 DEF NobodysYet, KnownOnly
  <2> QED
    BY <2>2, <2>3
<1>7. ASSUME NEW v \in Workers, NEW x \in RunIds
      PROVE  Backed(v, x)'
  <2>1. Backed(v, x)
    BY DEF BeliefInv
  <2>2. CASE x = r
    BY <1>3, <2>2 DEF Backed
  <2>3. CASE x # r
    BY <1>2, <1>4, <2>1, <2>3 DEF Backed
  <2> QED
    BY <2>2, <2>3
<1>8. ASSUME NEW u \in Workers, NEW v \in Workers
      PROVE  Exclusive(u, v)'
  <2>1. Exclusive(u, v)
    BY DEF BeliefInv, HoldersExclusive
  <2> QED
    BY <1>2, <1>4, <2>1 DEF Exclusive
<1> QED
  BY <1>6, <1>7, <1>8 DEF BeliefInv, HoldersExclusive

LEMMA BeliefInductive ==
    NoGates /\ HoldingTyped /\ TypeOK /\ LeaseCoversRunningWork /\ BeliefInv
        /\ [QueueNext]_queueVars => BeliefInv'
<1> SUFFICES ASSUME NoGates, HoldingTyped, TypeOK, LeaseCoversRunningWork, BeliefInv,
                    [QueueNext]_queueVars
             PROVE  BeliefInv'
  OBVIOUS
<1>1. CASE \E r \in RunIds, wf \in Workflows : Submit(r, wf)
  BY <1>1, SubmitKeepsBeliefs
<1>2. CASE \E r \in RunIds : Enqueue(r)
  BY <1>2, EnqueueKeepsBeliefs
<1>3. ASSUME NEW r \in RunIds, NEW v \in Verdicts, NEW c \in Comments,
             NEW p \in Subjects, DecideQueued(r, v, c, p)
      PROVE  BeliefInv'
  BY <1>3 DEF BeliefInv, KnownOnly, DecideQueued, AppendDecision
<1>4. CASE \E w \in Workers, n \in LeaseSeconds, r \in RunIds : Claim(w, n, r)
  BY <1>4, ClaimKeepsBeliefs
<1>5. CASE \E w \in Workers : FindNothing(w)
  BY <1>5, ReclaimKeepsBeliefs
     DEF FindNothing, ClaimNothing, ReclaimExpiredLeases, workerVars
<1>6. CASE \E w \in Workers, n \in LeaseSeconds : Renew(w, n)
  BY <1>6, RenewKeepsBeliefs
<1>7. CASE \E w \in Workers, s \in Outcomes, g \in Gates : Finish(w, s, g)
  BY <1>7, FinishKeepsBeliefs
<1>8. ASSUME NEW w \in Workers, RenewRefused(w) \/ Die(w)
      PROVE  BeliefInv'
  <2>1. /\ UNCHANGED <<runs, toQueue, clock>>
        /\ holding' = [holding EXCEPT ![w] = Idle]
    BY <1>8 DEF RenewRefused, Die
  <2>2. \A v \in Workers : holding'[v] \in {holding[v], Idle}
    BY <2>1 DEF HoldingTyped
  <2>3. clock' \in Int /\ clock <= clock'
    BY <2>1 DEF TypeOK
  <2> QED
    BY <2>1, <2>2, <2>3, BeliefUndisturbed
<1>9. CASE Pass
  <2>1. UNCHANGED <<runs, toQueue, holding>> /\ clock' \in Int /\ clock <= clock'
    BY <1>9 DEF Pass, Tick, TypeOK
  <2> QED
    BY <2>1, BeliefUndisturbed
<1>10. CASE UNCHANGED queueVars
  <2>1. UNCHANGED <<runs, toQueue, holding, clock>> /\ clock' \in Int /\ clock <= clock'
    BY <1>10 DEF queueVars, TypeOK
  <2> QED
    BY <2>1, BeliefUndisturbed
<1> QED
  BY <1>1, <1>2, <1>3, <1>4, <1>5, <1>6, <1>7, <1>8, <1>9, <1>10 DEF QueueNext

\* If workers never leave a run at a gate, no two of them hold one run on live
\* leases, for any number of workers, lease durations, stalls, deaths and late
\* writes (memory.py:113-117 and 157-158).
THEOREM WorkerExclusion ==
    ASSUME NoGates
    PROVE  QueueSpec => []HoldersExclusive
<1>1. QueueInit => BeliefInv
  BY DEF QueueInit, Init, BeliefInv, NobodysYet, KnownOnly, Backed, Believes, HoldsLive,
     HoldersExclusive, Exclusive, Idle, NoRecord
<1>2. NoGates
  OBVIOUS
<1>3. HoldingTyped /\ TypeOK /\ LeaseCoversRunningWork /\ BeliefInv
         /\ [QueueNext]_queueVars => BeliefInv'
  BY <1>2, BeliefInductive
<1>4. BeliefInv => HoldersExclusive
  BY DEF BeliefInv
<1> QED
  BY <1>1, <1>3, <1>4, QueueRefinesStore, TypeCorrect, LeaseSafety, PTL DEF QueueSpec

-----------------------------------------------------------------------------
(* Executions are paid for *)

\* A lease that ends no later than it begins is lapsed when it is given, so that a run
\* claimed for no time at all is handed out again with nothing having failed.
PositiveLeases == LeaseSeconds \subseteq Nat \ {0}

\* The worker w holds r, as the store says and for as long as it says.
Holds(w, r) ==
    /\ runs[r].leased_by = w
    /\ holding[w].run = r
    /\ holding[w].expiry = runs[r].lease_expires_at
    /\ holding[w].expiry > clock

\* Somebody may be given r next, and nobody is executing it on a live lease.
IsLoose(r) ==
    \/ runs[r].state = "queued"
    \/ /\ runs[r].state = "running"
       /\ runs[r].leased_by # None
       /\ \A w \in Workers : ~Holds(w, r)

Loose(r) == IF IsLoose(r) THEN 1 ELSE 0

CountersTyped == starts \in [RunIds -> Nat] /\ faults \in Nat

\* Every execution, begun or still to come, has its cause: the creation of the run, a
\* decision, or a fault.
Paid(r) ==
    /\ runs[r].state = "absent" => starts[r] = 0 /\ toQueue[r] = 0
    /\ starts[r] + toQueue[r] + Loose(r) <= 1 + faults + Len(decisions[r])

FewAtWork == IsFiniteSet({w \in Workers : holding[w].run # None})

PaidInv == CountersTyped /\ FewAtWork /\ \A r \in RunIds : Paid(r)

LEMMA LooseIsSmall == \A r : Loose(r) \in {0, 1} /\ (Loose(r) = 1 <=> IsLoose(r))
BY DEF Loose

\* A run that is no looser than before, and whose counters balance, stays paid.
LEMMA StaysPaid ==
    ASSUME HoldingTyped, TypeOK, PaidInv, HoldingTyped', TypeOK', CountersTyped',
           NEW r \in RunIds,
           runs'[r].state = "absent" => starts'[r] = 0 /\ toQueue'[r] = 0,
           NEW more \in Nat, NEW less \in Nat, NEW cause \in Nat,
           starts'[r] + toQueue'[r] + less <= starts[r] + toQueue[r] + more,
           Loose(r)' + more <= Loose(r) + less + cause,
           faults + Len(decisions[r]) + cause <= faults' + Len(decisions'[r])
    PROVE  Paid(r)'
<1>1. starts[r] \in Nat /\ toQueue[r] \in Nat /\ faults \in Nat
  BY DEF HoldingTyped, PaidInv, CountersTyped
<1>2. starts'[r] \in Nat /\ toQueue'[r] \in Nat /\ faults' \in Nat
  BY DEF HoldingTyped, CountersTyped
<1>3. decisions[r] \in Seq(DecisionRecord) /\ decisions'[r] \in Seq(DecisionRecord)
  BY DEF TypeOK
<1>4. Len(decisions[r]) \in Nat /\ Len(decisions'[r]) \in Nat
  BY <1>3
<1>5. Loose(r) \in Nat /\ Loose(r)' \in Nat
  BY DEF Loose
<1>6. starts[r] + toQueue[r] + Loose(r) <= 1 + faults + Len(decisions[r])
  BY DEF PaidInv, Paid
<1>7. starts'[r] + toQueue'[r] + Loose(r)' <= 1 + faults' + Len(decisions'[r])
  <2>1. PICK s \in Nat, q \in Nat, l \in Nat, f \in Nat, d \in Nat :
            /\ s = starts[r] /\ q = toQueue[r] /\ l = Loose(r) /\ f = faults
            /\ d = Len(decisions[r])
    BY <1>1, <1>4, <1>5
  <2>2. PICK s2 \in Nat, q2 \in Nat, l2 \in Nat, f2 \in Nat, d2 \in Nat :
            /\ s2 = starts'[r] /\ q2 = toQueue'[r] /\ l2 = Loose(r)' /\ f2 = faults'
            /\ d2 = Len(decisions'[r])
    BY <1>2, <1>4, <1>5
  <2>3. /\ s + q + l <= 1 + f + d /\ s2 + q2 + less <= s + q + more
        /\ l2 + more <= l + less + cause /\ f + d + cause <= f2 + d2
    BY <1>6, <2>1, <2>2
  <2>4. s2 + q2 + l2 <= 1 + f2 + d2
    BY <2>3
  <2> QED
    BY <2>2, <2>4
<1> QED
  BY <1>7 DEF Paid

\* A run that nothing happened to, except perhaps to those who hold it.
LEMMA UntouchedStaysPaid ==
    ASSUME HoldingTyped, TypeOK, PaidInv, HoldingTyped', TypeOK', CountersTyped',
           NEW r \in RunIds, runs'[r].state = "absent" => runs[r].state = "absent",
           starts'[r] = starts[r], toQueue'[r] = toQueue[r],
           decisions'[r] = decisions[r], faults' = faults, IsLoose(r)' => IsLoose(r)
    PROVE  Paid(r)'
<1>1. Loose(r)' <= Loose(r) /\ Loose(r) \in Nat /\ Loose(r)' \in Nat
  BY DEF Loose
<1>2. starts[r] \in Nat /\ toQueue[r] \in Nat /\ faults \in Nat
  BY DEF HoldingTyped, PaidInv, CountersTyped
<1>3. decisions[r] \in Seq(DecisionRecord)
  BY DEF TypeOK
<1>4. Len(decisions[r]) \in Nat
  BY <1>3
<1>5. runs'[r].state = "absent" => starts'[r] = 0 /\ toQueue'[r] = 0
  BY DEF PaidInv, Paid
<1>6. starts'[r] + toQueue'[r] + 0 <= starts[r] + toQueue[r] + 0
  BY <1>2
<1>7. Loose(r)' + 0 <= Loose(r) + 0 + 0
  <2>1. PICK l \in Nat, m \in Nat : l = Loose(r) /\ m = Loose(r)'
    BY <1>1
  <2> QED
    BY <1>1, <2>1
<1>8. faults + Len(decisions[r]) + 0 <= faults' + Len(decisions'[r])
  <2>1. PICK l \in Nat : l = Len(decisions[r])
    BY <1>4
  <2> QED
    BY <1>2, <2>1
<1> QED
  BY <1>5, <1>6, <1>7, <1>8, StaysPaid

LEMMA FewAtWorkInductive ==
    HoldingTyped /\ FewAtWork /\ [QueueNext]_queueVars => FewAtWork'
<1> SUFFICES ASSUME HoldingTyped, FewAtWork, [QueueNext]_queueVars PROVE FewAtWork'
  OBVIOUS
<1> DEFINE busy == {w \in Workers : holding[w].run # None}
<1>1. ASSUME NEW w \in Workers, \A v \in Workers : v # w => holding'[v] = holding[v]
      PROVE  FewAtWork'
  <2>1. IsFiniteSet(busy \cup {w})
    BY FS_AddElement DEF FewAtWork
  <2>2. {v \in Workers : holding'[v].run # None} \subseteq busy \cup {w}
    BY <1>1
  <2> QED
    BY <2>1, <2>2, FS_Subset DEF FewAtWork
<1>2. CASE UNCHANGED holding
  BY <1>2 DEF FewAtWork
<1>3. ASSUME NEW w \in Workers, NEW h, holding' = [holding EXCEPT ![w] = h]
      PROVE  FewAtWork'
  BY <1>1, <1>3 DEF HoldingTyped
<1>4. \/ UNCHANGED holding
      \/ \E w \in Workers : \E h : holding' = [holding EXCEPT ![w] = h]
  BY DEF QueueNext, Submit, Enqueue, DecideQueued, Claim, FindNothing, workerVars, Renew,
     RenewRefused, Finish, Die, Pass, queueVars
<1> QED
  BY <1>2, <1>3, <1>4

LEMMA LapsingAreCounted ==
    ASSUME FewAtWork
    PROVE  /\ Cardinality(LapsingNext) \in Nat
           /\ LapsingNext # {} => Cardinality(LapsingNext) # 0
<1>1. LapsingNext \subseteq {w \in Workers : holding[w].run # None}
  BY DEF LapsingNext
<1>2. IsFiniteSet(LapsingNext)
  BY <1>1, FS_Subset DEF FewAtWork
<1> QED
  BY <1>2, FS_CardinalityType, FS_EmptySet

LEMMA CountersInductive ==
    CountersTyped /\ FewAtWork /\ [QueueNext]_queueVars => CountersTyped'
<1> SUFFICES ASSUME CountersTyped, FewAtWork, [QueueNext]_queueVars PROVE CountersTyped'
  OBVIOUS
<1> USE DEF CountersTyped
<1>1. CASE UNCHANGED <<starts, faults>>
  BY <1>1
<1>2. ASSUME NEW w \in Workers, NEW n \in LeaseSeconds, NEW r \in RunIds, Claim(w, n, r)
      PROVE  CountersTyped'
  BY <1>2 DEF Claim
<1>3. ASSUME NEW w \in Workers, Die(w)
      PROVE  CountersTyped'
  BY <1>3 DEF Die
<1>4. CASE Pass
  <2>1. Cardinality(LapsingNext) \in Nat
    BY LapsingAreCounted
  <2>2. PICK k \in Nat : k = Cardinality(LapsingNext)
    BY <2>1
  <2>3. faults' = faults + k /\ starts' = starts
    BY <1>4, <2>2 DEF Pass
  <2> QED
    BY <2>3
<1> QED
  BY <1>1, <1>2, <1>3, <1>4 DEF QueueNext, Submit, Enqueue, DecideQueued, FindNothing,
     workerVars, Renew, RenewRefused, Finish, queueVars

\* Reclaiming takes from those who hold on a lapsed lease only, so a run that was
\* stranded was as loose as one that waits.
LEMMA StrandedIsLoose ==
    ASSUME HoldingTyped, TypeOK, LeaseCoversRunningWork, NEW r \in RunIds, IsStranded(r)
    PROVE  IsLoose(r)
<1>1. /\ runs[r].state = "running" /\ runs[r].leased_by # None
      /\ runs[r].lease_expires_at \in Int /\ runs[r].lease_expires_at <= clock
  BY DEF IsStranded, LeaseCoversRunningWork, TypeOK, RunRecord
<1>2. \A w \in Workers : ~Holds(w, r)
  BY <1>1 DEF Holds, TypeOK
<1> QED
  BY <1>1, <1>2 DEF IsLoose

LEMMA ReclaimedIsLoose ==
    ASSUME HoldingTyped, TypeOK, LeaseCoversRunningWork, NEW r \in RunIds,
           runs'[r] = Reclaimed[r], clock' = clock,
           \A w \in Workers : holding[w].run = r => holding'[w] = holding[w],
           IsLoose(r)'
    PROVE  IsLoose(r)
<1>1. CASE IsStranded(r)
  BY <1>1, StrandedIsLoose
<1>2. CASE ~IsStranded(r)
  <2>1. runs'[r] = runs[r]
    BY <1>2 DEF Reclaimed
  <2> QED
    BY <2>1 DEF IsLoose, Holds
<1> QED
  BY <1>1, <1>2

LEMMA PaidSubmit ==
    ASSUME HoldingTyped, TypeOK, PaidInv, HoldingTyped', TypeOK', CountersTyped',
           NEW r \in RunIds, NEW wf \in Workflows, Submit(r, wf), NEW x \in RunIds
    PROVE  Paid(x)'
<1>1. /\ runs[r].state = "absent" /\ runs' = [runs EXCEPT ![r] = NewRecord(wf)]
      /\ toQueue' = [toQueue EXCEPT ![r] = toQueue[r] + 1]
      /\ UNCHANGED <<decisions, clock, holding, starts, faults>>
  BY DEF Submit, CreateRun, Exists
<1>2. CASE x = r
  <2>0. starts[r] = 0 /\ toQueue[r] = 0
    BY <1>1 DEF PaidInv, Paid
  <2>1. starts'[r] = 0 /\ toQueue'[r] = 1
    BY <1>1, <2>0 DEF HoldingTyped
  <2>2. runs'[r].state = "running" /\ runs'[r].leased_by = None
    BY <1>1 DEF TypeOK, NewRecord
  <2>3. Loose(r)' = 0
    BY <2>2 DEF Loose, IsLoose
  <2>4. decisions'[r] \in Seq(DecisionRecord) /\ faults' \in Nat
    BY DEF TypeOK, CountersTyped
  <2>5. PICK d \in Nat : d = Len(decisions'[r])
    BY <2>4
  <2>6. starts'[r] + toQueue'[r] + Loose(r)' <= 1 + faults' + Len(decisions'[r])
    BY <2>1, <2>3, <2>4, <2>5
  <2> QED
    BY <1>2, <2>2, <2>6 DEF Paid
<1>3. CASE x # r
  <2>1. runs'[x] = runs[x] /\ toQueue'[x] = toQueue[x]
    BY <1>1, <1>3 DEF TypeOK, HoldingTyped
  <2>2. IsLoose(x)' => IsLoose(x)
    BY <1>1, <2>1 DEF IsLoose, Holds
  <2> QED
    BY <1>1, <2>1, <2>2, UntouchedStaysPaid
<1> QED
  BY <1>2, <1>3

LEMMA PaidEnqueue ==
    ASSUME HoldingTyped, TypeOK, PaidInv, HoldingTyped', TypeOK', CountersTyped',
           NEW r \in RunIds, Enqueue(r), NEW x \in RunIds
    PROVE  Paid(x)'
<1>1. /\ toQueue[r] > 0 /\ runs' = [runs EXCEPT ![r] = Marked(runs[r], "queued", None)]
      /\ toQueue' = [toQueue EXCEPT ![r] = toQueue[r] - 1]
      /\ UNCHANGED <<decisions, clock, holding, starts, faults>>
  BY DEF Enqueue, MarkState
<1>2. CASE x = r
  <2>1. runs'[r].state = "queued"
    BY <1>1 DEF TypeOK, Marked, Updated
  <2>2. toQueue[r] \in Nat /\ starts[r] \in Nat /\ faults \in Nat
    BY DEF HoldingTyped, PaidInv, CountersTyped
  <2>3. starts'[r] + toQueue'[r] + 1 <= starts[r] + toQueue[r] + 0
    <3>1. PICK s \in Nat, q \in Nat : s = starts[r] /\ q = toQueue[r]
      BY <2>2
    <3>2. toQueue'[r] = q - 1 /\ starts'[r] = s
      BY <1>1, <3>1 DEF HoldingTyped
    <3> QED
      BY <3>1, <3>2
  <2>4. Loose(r)' + 0 <= Loose(r) + 1 + 0
    BY DEF Loose
  <2>5. faults + Len(decisions[r]) + 0 <= faults' + Len(decisions'[r])
    <3>1. decisions[r] \in Seq(DecisionRecord)
      BY DEF TypeOK
    <3>2. PICK l \in Nat : l = Len(decisions[r])
      BY <3>1
    <3> QED
      BY <1>1, <2>2, <3>2
  <2> QED
    BY <1>2, <2>1, <2>3, <2>4, <2>5, StaysPaid
<1>3. CASE x # r
  <2>1. runs'[x] = runs[x] /\ toQueue'[x] = toQueue[x]
    BY <1>1, <1>3 DEF TypeOK, HoldingTyped
  <2>2. IsLoose(x)' => IsLoose(x)
    BY <1>1, <2>1 DEF IsLoose, Holds
  <2> QED
    BY <1>1, <2>1, <2>2, UntouchedStaysPaid
<1> QED
  BY <1>2, <1>3

LEMMA PaidDecide ==
    ASSUME HoldingTyped, TypeOK, PaidInv, HoldingTyped', TypeOK', CountersTyped',
           NEW r \in RunIds, NEW v \in Verdicts, NEW c \in Comments, NEW p \in Subjects,
           DecideQueued(r, v, c, p), NEW x \in RunIds
    PROVE  Paid(x)'
<1>1. /\ runs[r].state = "awaiting_decision"
      /\ decisions' = [decisions EXCEPT
                          ![r] = Append(decisions[r], NewDecision(r, v, c, p))]
      /\ toQueue' = [toQueue EXCEPT ![r] = toQueue[r] + 1]
      /\ UNCHANGED <<runs, clock, holding, starts, faults>>
  BY DEF DecideQueued, AppendDecision
<1>2. IsLoose(x)' <=> IsLoose(x)
  BY <1>1 DEF IsLoose, Holds
<1>3. CASE x = r
  <2>1. toQueue[r] \in Nat /\ starts[r] \in Nat /\ faults \in Nat
    BY DEF HoldingTyped, PaidInv, CountersTyped
  <2>2. starts'[r] + toQueue'[r] + 0 <= starts[r] + toQueue[r] + 1
    <3>1. PICK s \in Nat, q \in Nat : s = starts[r] /\ q = toQueue[r]
      BY <2>1
    <3>2. toQueue'[r] = q + 1 /\ starts'[r] = s
      BY <1>1, <3>1 DEF HoldingTyped
    <3> QED
      BY <3>1, <3>2
  <2>3. Loose(r)' + 1 <= Loose(r) + 0 + 1
    BY <1>2, <1>3 DEF Loose
  <2>4. faults + Len(decisions[r]) + 1 <= faults' + Len(decisions'[r])
    <3>1. decisions[r] \in Seq(DecisionRecord)
      BY DEF TypeOK
    <3>2. PICK l \in Nat : l = Len(decisions[r])
      BY <3>1
    <3> DEFINE d == NewDecision(r, v, c, p)
    <3>3. d.seq = l + 1 /\ d \in [seq : {l + 1}, verdict : Verdicts, comment : Comments,
                                 subject : Subjects]
      BY <3>2 DEF NewDecision
    <3>4. d \in DecisionRecord
      BY <3>3 DEF DecisionRecord
    <3>5. decisions'[r] = Append(decisions[r], d)
      BY <1>1 DEF TypeOK
    <3> HIDE DEF d
    <3>6. Len(decisions'[r]) = Len(decisions[r]) + 1
      BY <3>1, <3>4, <3>5
    <3> QED
      BY <1>1, <2>1, <3>2, <3>6
  <2> QED
    BY <1>1, <1>3, <2>2, <2>3, <2>4, StaysPaid
<1>4. CASE x # r
  <2>1. toQueue'[x] = toQueue[x] /\ decisions'[x] = decisions[x]
    BY <1>1, <1>4 DEF TypeOK, HoldingTyped
  <2> QED
    BY <1>1, <1>2, <2>1, UntouchedStaysPaid
<1> QED
  BY <1>3, <1>4

\* Only what is loose is handed out, and on a lease that is live it is held.
LEMMA PaidClaim ==
    ASSUME PositiveLeases, LeaseCoversRunningWork,
           HoldingTyped, TypeOK, PaidInv, HoldingTyped', TypeOK', CountersTyped',
           NEW w \in Workers, NEW n \in LeaseSeconds, NEW r \in RunIds, Claim(w, n, r),
           NEW x \in RunIds
    PROVE  Paid(x)'
<1>1. /\ holding[w] = Idle /\ r \in Claimable(CanRun[w])
      /\ runs' = [Reclaimed EXCEPT ![r] = Leased(Reclaimed[r], w, n)]
      /\ holding' = [holding EXCEPT ![w] = [run |-> r, expiry |-> clock + n]]
      /\ starts' = [starts EXCEPT ![r] = starts[r] + 1]
      /\ UNCHANGED <<decisions, clock, toQueue, faults>>
  BY DEF Claim, ClaimRun
<1>2. Reclaimed \in [RunIds -> RunRecord]
  BY DEF Reclaimed, Requeued, Updated, RunRecord, RunState, TypeOK
<1>3. CASE x = r
  <2>1. IsLoose(r)
    <3>1. CASE IsStranded(r)
      BY <3>1, StrandedIsLoose
    <3>2. CASE ~IsStranded(r)
      BY <1>1, <3>2 DEF Claimable, Reclaimed, IsLoose
    <3> QED
      BY <3>1, <3>2
  <2>2. PICK e \in Int : e = clock + n /\ e > clock
    BY DEF PositiveLeases, TypeOK
  <2>3. /\ runs'[r].state = "running" /\ runs'[r].leased_by = w
        /\ runs'[r].lease_expires_at = e
    BY <1>1, <1>2, <2>2 DEF Leased, Updated
  <2>4. holding'[w].run = r /\ holding'[w].expiry = e
    BY <1>1, <2>2 DEF HoldingTyped
  <2>5. Holds(w, r)'
    BY <1>1, <2>2, <2>3, <2>4 DEF Holds
  <2>6. ~IsLoose(r)'
    BY <2>3, <2>5 DEF IsLoose
  <2>7. Loose(r)' + 1 <= Loose(r) + 0 + 0
    BY <2>1, <2>6 DEF Loose
  <2>8. toQueue[r] \in Nat /\ starts[r] \in Nat /\ faults \in Nat
    BY DEF HoldingTyped, PaidInv, CountersTyped
  <2>9. starts'[r] + toQueue'[r] + 0 <= starts[r] + toQueue[r] + 1
    <3>1. PICK s \in Nat, q \in Nat : s = starts[r] /\ q = toQueue[r]
      BY <2>8
    <3>2. toQueue'[r] = q /\ starts'[r] = s + 1
      BY <1>1, <3>1 DEF PaidInv, CountersTyped
    <3> QED
      BY <3>1, <3>2
  <2>10. faults + Len(decisions[r]) + 0 <= faults' + Len(decisions'[r])
    <3>1. decisions[r] \in Seq(DecisionRecord)
      BY DEF TypeOK
    <3>2. PICK l \in Nat : l = Len(decisions[r])
      BY <3>1
    <3> QED
      BY <1>1, <2>8, <3>2
  <2> QED
    BY <1>3, <2>3, <2>7, <2>9, <2>10, StaysPaid
<1>4. CASE x # r
  <2>1. runs'[x] = Reclaimed[x] /\ starts'[x] = starts[x]
    BY <1>1, <1>2, <1>4 DEF PaidInv, CountersTyped
  <2>2. \A v \in Workers : holding[v].run = x => holding'[v] = holding[v]
    BY <1>1, NoneIsNoValue DEF HoldingTyped, Idle
  <2>3. IsLoose(x)' => IsLoose(x)
    BY <1>1, <2>1, <2>2, ReclaimedIsLoose
  <2>4. runs'[x].state = "absent" => runs[x].state = "absent"
    BY <2>1 DEF Reclaimed, Requeued, Updated
  <2> QED
    BY <1>1, <2>1, <2>3, <2>4, UntouchedStaysPaid
<1> QED
  BY <1>3, <1>4

LEMMA PaidFindNothing ==
    ASSUME LeaseCoversRunningWork,
           HoldingTyped, TypeOK, PaidInv, HoldingTyped', TypeOK', CountersTyped',
           NEW w \in Workers, FindNothing(w), NEW x \in RunIds
    PROVE  Paid(x)'
<1>1. runs' = Reclaimed /\ UNCHANGED <<decisions, clock, holding, toQueue, starts, faults>>
  BY DEF FindNothing, ClaimNothing, ReclaimExpiredLeases, workerVars
<1>2. IsLoose(x)' => IsLoose(x)
  BY <1>1, ReclaimedIsLoose
<1>3. runs'[x].state = "absent" => runs[x].state = "absent"
  BY <1>1 DEF Reclaimed, Requeued, Updated
<1> QED
  BY <1>1, <1>2, <1>3, UntouchedStaysPaid

LEMMA PaidRenew ==
    ASSUME PositiveLeases,
           HoldingTyped, TypeOK, PaidInv, HoldingTyped', TypeOK', CountersTyped',
           NEW w \in Workers, NEW n \in LeaseSeconds, Renew(w, n), NEW x \in RunIds
    PROVE  Paid(x)'
<1>1. PICK r \in RunIds : r = holding[w].run
  BY DEF Renew, HoldingTyped
<1>2. /\ runs' = [runs EXCEPT ![r] = Renewed(runs[r], n)]
      /\ holding' = [holding EXCEPT ![w] = [run |-> r, expiry |-> clock + n]]
      /\ runs[r].leased_by = w /\ runs[r].state # "absent"
      /\ UNCHANGED <<decisions, clock, toQueue, starts, faults>>
  BY <1>1 DEF Renew, RenewLease, Exists
<1>3. CASE x = r
  <2>1. PICK e \in Int : e = clock + n /\ e > clock
    BY DEF PositiveLeases, TypeOK
  <2>2. /\ runs'[r].leased_by = w /\ runs'[r].lease_expires_at = e
        /\ runs'[r].state = runs[r].state
    BY <1>2, <2>1 DEF Renewed, Updated, TypeOK
  <2>3. holding'[w].run = r /\ holding'[w].expiry = e
    BY <1>2, <2>1 DEF HoldingTyped
  <2>4. Holds(w, r)'
    BY <1>2, <2>1, <2>2, <2>3 DEF Holds
  <2>5. IsLoose(x)' => IsLoose(x)
    BY <1>3, <2>2, <2>4 DEF IsLoose
  <2> QED
    BY <1>2, <1>3, <2>2, <2>5, UntouchedStaysPaid
<1>4. CASE x # r
  <2>1. runs'[x] = runs[x]
    BY <1>2, <1>4 DEF TypeOK
  <2>2. \A v \in Workers : holding[v].run = x => holding'[v] = holding[v]
    BY <1>1, <1>2, <1>4 DEF HoldingTyped
  <2>3. IsLoose(x)' => IsLoose(x)
    BY <1>2, <2>1, <2>2 DEF IsLoose, Holds
  <2> QED
    BY <1>2, <2>1, <2>3, UntouchedStaysPaid
<1> QED
  BY <1>3, <1>4

LEMMA PaidRefused ==
    ASSUME HoldingTyped, TypeOK, PaidInv, HoldingTyped', TypeOK', CountersTyped',
           NEW w \in Workers, RenewRefused(w), NEW x \in RunIds
    PROVE  Paid(x)'
<1>1. /\ runs[holding[w].run].leased_by # w /\ holding' = [holding EXCEPT ![w] = Idle]
      /\ UNCHANGED <<runs, decisions, clock, toQueue, starts, faults>>
  BY DEF RenewRefused
<1>2. \A v \in Workers : Holds(v, x) => holding'[v] = holding[v]
  BY <1>1 DEF Holds, HoldingTyped
<1>3. IsLoose(x)' => IsLoose(x)
  BY <1>1, <1>2 DEF IsLoose, Holds
<1> QED
  BY <1>1, <1>3, UntouchedStaysPaid

LEMMA PaidFinish ==
    ASSUME HoldingTyped, TypeOK, PaidInv, HoldingTyped', TypeOK', CountersTyped',
           NEW w \in Workers, NEW s \in Outcomes, NEW g \in Gates, Finish(w, s, g),
           NEW x \in RunIds
    PROVE  Paid(x)'
<1>1. PICK r \in RunIds : r = holding[w].run
  BY DEF Finish, HoldingTyped
<1>2. /\ runs' = [runs EXCEPT ![r] = Marked(runs[r], s, g)] /\ runs[r].state # "absent"
      /\ holding' = [holding EXCEPT ![w] = Idle]
      /\ UNCHANGED <<decisions, clock, toQueue, starts, faults>>
  BY <1>1 DEF Finish, MarkState, Exists
<1>3. CASE x = r
  <2>1. runs'[x].state = s /\ s \notin {"running", "queued", "absent"}
    BY <1>2, <1>3 DEF Marked, Updated, TypeOK, RunState
  <2>2. ~IsLoose(x)'
    BY <2>1 DEF IsLoose
  <2> QED
    BY <1>2, <2>1, <2>2, UntouchedStaysPaid
<1>4. CASE x # r
  <2>1. runs'[x] = runs[x]
    BY <1>2, <1>4 DEF TypeOK
  <2>2. \A v \in Workers : holding[v].run = x => holding'[v] = holding[v]
    BY <1>1, <1>2, <1>4 DEF HoldingTyped
  <2>3. IsLoose(x)' => IsLoose(x)
    BY <1>2, <2>1, <2>2 DEF IsLoose, Holds
  <2> QED
    BY <1>2, <2>1, <2>3, UntouchedStaysPaid
<1> QED
  BY <1>3, <1>4

\* A death, or a second that passes, is a fault if anybody held the run.
LEMMA PaidFault ==
    ASSUME HoldingTyped, TypeOK, PaidInv, HoldingTyped', TypeOK', CountersTyped',
           NEW x \in RunIds, UNCHANGED <<runs, decisions, toQueue, starts>>,
           NEW k \in Nat, faults' = faults + k, IsLoose(x)' => IsLoose(x) \/ k # 0
    PROVE  Paid(x)'
<1>1. toQueue[x] \in Nat /\ starts[x] \in Nat /\ faults \in Nat
  BY DEF HoldingTyped, PaidInv, CountersTyped
<1>2. starts'[x] + toQueue'[x] + 0 <= starts[x] + toQueue[x] + 0
  BY <1>1
<1>3. Loose(x)' + 0 <= Loose(x) + 0 + k
  BY DEF Loose
<1>4. faults + Len(decisions[x]) + k <= faults' + Len(decisions'[x])
  <2>1. decisions[x] \in Seq(DecisionRecord)
    BY DEF TypeOK
  <2>2. PICK l \in Nat : l = Len(decisions[x])
    BY <2>1
  <2>3. faults + l + k <= faults' + l
    BY <1>1
  <2>4. Len(decisions'[x]) = l
    BY <2>2
  <2> QED
    BY <2>2, <2>3, <2>4
<1>5. runs'[x].state = "absent" => starts'[x] = 0 /\ toQueue'[x] = 0
  BY DEF PaidInv, Paid
<1> QED
  BY <1>2, <1>3, <1>4, <1>5, StaysPaid

LEMMA PaidDie ==
    ASSUME HoldingTyped, TypeOK, PaidInv, HoldingTyped', TypeOK', CountersTyped',
           NEW w \in Workers, Die(w), NEW x \in RunIds
    PROVE  Paid(x)'
<1>1. faults' = faults + 1 /\ UNCHANGED <<runs, decisions, toQueue, starts>>
  BY DEF Die
<1> QED
  BY <1>1, PaidFault

LEMMA PaidPass ==
    ASSUME HoldingTyped, TypeOK, PaidInv, HoldingTyped', TypeOK', CountersTyped', Pass,
           NEW x \in RunIds
    PROVE  Paid(x)'
<1>1. PICK k \in Nat : k = Cardinality(LapsingNext) /\ (LapsingNext # {} => k # 0)
  BY LapsingAreCounted DEF PaidInv
<1>2. /\ faults' = faults + k /\ clock' = clock + 1
      /\ UNCHANGED <<runs, decisions, toQueue, starts, holding>>
  BY <1>1 DEF Pass, Tick
<1>3. ASSUME IsLoose(x)', ~IsLoose(x)
      PROVE  LapsingNext # {}
  <2>1. PICK w \in Workers : Holds(w, x) /\ ~Holds(w, x)'
    BY <1>2, <1>3 DEF IsLoose
  <2>2. holding[w].run = x /\ holding[w].expiry > clock /\ ~(holding[w].expiry > clock + 1)
    BY <1>2, <2>1 DEF Holds
  <2>3. holding[w].expiry \in Int /\ clock \in Int
    BY DEF HoldingTyped, TypeOK
  <2>4. holding[w].expiry = clock + 1
    BY <2>2, <2>3
  <2>5. x # None
    BY NoneIsNoValue
  <2> QED
    BY <2>2, <2>4, <2>5 DEF LapsingNext
<1> QED
  BY <1>1, <1>2, <1>3, PaidFault

LEMMA PaidInductive ==
    PositiveLeases /\ HoldingTyped /\ TypeOK /\ LeaseCoversRunningWork /\ PaidInv
        /\ [QueueNext]_queueVars => PaidInv'
<1> SUFFICES ASSUME PositiveLeases, HoldingTyped, TypeOK, LeaseCoversRunningWork, PaidInv,
                    [QueueNext]_queueVars
             PROVE  PaidInv'
  OBVIOUS
<1>1. HoldingTyped' /\ TypeOK'
  BY HoldingInductive, QueueStepsAreStoreSteps, TypeInductive
<1>2. CountersTyped' /\ FewAtWork'
  BY CountersInductive, FewAtWorkInductive DEF PaidInv
<1>3. ASSUME NEW x \in RunIds PROVE Paid(x)'
  <2>1. CASE UNCHANGED queueVars
    <3>1. IsLoose(x)' => IsLoose(x)
      BY <2>1 DEF IsLoose, Holds, queueVars
    <3>2. UNCHANGED <<runs, decisions, toQueue, starts, faults>>
      BY <2>1 DEF queueVars
    <3> QED
      BY <1>1, <1>2, <3>1, <3>2, UntouchedStaysPaid
  <2>2. CASE QueueNext
    BY <1>1, <1>2, <2>2, PaidSubmit, PaidEnqueue, PaidDecide, PaidClaim, PaidFindNothing,
       PaidRenew, PaidRefused, PaidFinish, PaidDie, PaidPass DEF QueueNext
  <2> QED
    BY <2>1, <2>2
<1> QED
  BY <1>2, <1>3 DEF PaidInv

\* Where leases last at all, a run is handed to a worker at most once more than there
\* were faults and decisions, whatever the outcomes and for any number of workers.
THEOREM EveryRepetitionHasItsCause ==
    ASSUME PositiveLeases
    PROVE  QueueSpec => []RepeatedOnlyWithCause
<1>1. QueueInit => PaidInv
  <2> SUFFICES ASSUME QueueInit PROVE PaidInv
    OBVIOUS
  <2>1. CountersTyped
    BY DEF QueueInit, CountersTyped
  <2>2. {w \in Workers : holding[w].run # None} = {}
    BY DEF QueueInit, Idle
  <2>3. FewAtWork
    BY <2>2, FS_EmptySet DEF FewAtWork
  <2>4. ASSUME NEW r \in RunIds PROVE Paid(r)
    <3>1. starts[r] = 0 /\ toQueue[r] = 0 /\ faults = 0 /\ Len(decisions[r]) = 0
      BY DEF QueueInit, Init
    <3>2. Loose(r) = 0
      BY DEF QueueInit, Init, NoRecord, Loose, IsLoose
    <3>3. starts[r] + toQueue[r] + Loose(r) <= 1 + faults + Len(decisions[r])
      BY <3>1, <3>2
    <3> QED
      BY <3>1, <3>3 DEF Paid
  <2> QED
    BY <2>1, <2>3, <2>4 DEF PaidInv
<1>2. PositiveLeases
  OBVIOUS
<1>3. HoldingTyped /\ TypeOK /\ LeaseCoversRunningWork /\ PaidInv
         /\ [QueueNext]_queueVars => PaidInv'
  BY <1>2, PaidInductive
<1>4. HoldingTyped /\ TypeOK /\ PaidInv => RepeatedOnlyWithCause
  <2> SUFFICES ASSUME HoldingTyped, TypeOK, PaidInv, NEW r \in RunIds
               PROVE  starts[r] <= 1 + faults + Len(decisions[r])
    BY DEF RepeatedOnlyWithCause
  <2>1. starts[r] \in Nat /\ toQueue[r] \in Nat /\ faults \in Nat /\ Loose(r) \in Nat
    BY DEF HoldingTyped, PaidInv, CountersTyped, Loose
  <2>2. decisions[r] \in Seq(DecisionRecord)
    BY DEF TypeOK
  <2>3. PICK s \in Nat, q \in Nat, l \in Nat, d \in Nat :
            s = starts[r] /\ q = toQueue[r] /\ l = Loose(r) /\ d = Len(decisions[r])
    BY <2>1, <2>2
  <2>4. starts[r] + toQueue[r] + Loose(r) <= 1 + faults + Len(decisions[r])
    BY DEF PaidInv, Paid
  <2>5. s + q + l <= 1 + faults + d
    BY <2>3, <2>4
  <2>6. s <= 1 + faults + d
    BY <2>1, <2>5
  <2> QED
    BY <2>3, <2>6
<1> QED
  BY <1>1, <1>3, <1>4, QueueRefinesStore, TypeCorrect, LeaseSafety, PTL DEF QueueSpec

-----------------------------------------------------------------------------
(* The store and its workers are a queue that loses nothing *)

\* A run that runs and is nobody's was created, and its "queued" mark is yet to come.
YetToBeQueued ==
    \A r \in RunIds :
        runs[r].state = "running" /\ runs[r].leased_by = None => toQueue[r] > 0

LEMMA YetToBeQueuedInductive ==
    HoldingTyped /\ TypeOK /\ YetToBeQueued /\ [QueueNext]_queueVars => YetToBeQueued'
<1> SUFFICES ASSUME HoldingTyped, TypeOK, YetToBeQueued, [QueueNext]_queueVars,
                    NEW x \in RunIds, runs'[x].state = "running", runs'[x].leased_by = None
             PROVE  toQueue'[x] > 0
  BY DEF YetToBeQueued
<1> USE DEF HoldingTyped, TypeOK, YetToBeQueued
<1>1. CASE runs'[x] = runs[x] /\ toQueue'[x] = toQueue[x]
  BY <1>1
<1>2. CASE runs'[x] = Reclaimed[x] /\ toQueue'[x] = toQueue[x]
  BY <1>2 DEF Reclaimed, Requeued, Updated
<1>3. ASSUME NEW r \in RunIds, NEW wf \in Workflows, Submit(r, wf)
      PROVE  toQueue'[x] > 0
  BY <1>1, <1>3 DEF Submit, CreateRun
<1>4. ASSUME NEW r \in RunIds, Enqueue(r)
      PROVE  toQueue'[x] > 0
  BY <1>1, <1>4 DEF Enqueue, MarkState, Marked, Updated
<1>5. ASSUME NEW r \in RunIds, NEW v \in Verdicts, NEW c \in Comments, NEW p \in Subjects,
             DecideQueued(r, v, c, p)
      PROVE  toQueue'[x] > 0
  BY <1>5 DEF DecideQueued, AppendDecision
<1>6. ASSUME NEW w \in Workers, NEW n \in LeaseSeconds, NEW r \in RunIds, Claim(w, n, r)
      PROVE  toQueue'[x] > 0
  <2>1. Reclaimed \in [RunIds -> RunRecord]
    BY DEF Reclaimed, Requeued, Updated, RunRecord, RunState
  <2>2. runs' = [Reclaimed EXCEPT ![r] = Leased(Reclaimed[r], w, n)] /\ toQueue' = toQueue
    BY <1>6 DEF Claim, ClaimRun
  <2>3. x # r
    BY <2>1, <2>2 DEF Leased, Updated
  <2> QED
    BY <1>2, <2>1, <2>2, <2>3
<1>7. ASSUME NEW w \in Workers, FindNothing(w)
      PROVE  toQueue'[x] > 0
  BY <1>2, <1>7 DEF FindNothing, ClaimNothing, ReclaimExpiredLeases, workerVars
<1>8. ASSUME NEW w \in Workers, NEW n \in LeaseSeconds, Renew(w, n)
      PROVE  toQueue'[x] > 0
  BY <1>1, <1>8 DEF Renew, RenewLease, Renewed, Updated
<1>9. ASSUME NEW w \in Workers, NEW s \in Outcomes, NEW g \in Gates, Finish(w, s, g)
      PROVE  toQueue'[x] > 0
  BY <1>1, <1>9 DEF Finish, MarkState, Marked, Updated
<1>10. CASE UNCHANGED <<runs, toQueue>>
  BY <1>1, <1>10
<1> QED
  BY <1>3, <1>4, <1>5, <1>6, <1>7, <1>8, <1>9, <1>10
     DEF QueueNext, RenewRefused, Die, Pass, Tick, queueVars

Waits(r) == runs[r].state = "queued" \/ IsStranded(r)

LEMMA AbstractRuns ==
    /\ Waiting = {r \in RunIds : Waits(r)}
    /\ WQ!Owned = {r \in RunIds : Owner[r] # None}
BY DEF Waiting, Waits, WQ!Owned

LEMMA AbstractRunsNext == Waiting' = {r \in RunIds : Waits(r)'}
BY DEF Waiting, Waits

\* The queue is in order: what a step may rely on.
InOrder ==
    HoldingTyped /\ TypeOK /\ LeaseCoversRunningWork /\ BeliefInv /\ YetToBeQueued

SameAbove(r) ==
    /\ Waits(r)' <=> Waits(r)
    /\ Owner'[r] = Owner[r]
    /\ IsTerminal(r)' <=> IsTerminal(r)

\* Nobody sees when a lapsed lease is taken back.
LEMMA ReclaimingIsUnseen ==
    ASSUME InOrder, NEW r \in RunIds, runs'[r] \in {runs[r], Reclaimed[r]}, clock' = clock
    PROVE  SameAbove(r)
<1>1. CASE runs'[r] = runs[r]
  BY <1>1 DEF SameAbove, Waits, Owner, IsStranded, IsTerminal
<1>2. CASE ~IsStranded(r)
  BY <1>1, <1>2 DEF Reclaimed
<1>3. CASE IsStranded(r) /\ runs'[r] = Reclaimed[r]
  <2>1. runs'[r].state = "queued" /\ runs'[r].leased_by = None
    BY <1>3 DEF Reclaimed, Requeued, Updated
  <2>2. Waits(r) /\ Owner[r] = None /\ ~IsTerminal(r)
    BY <1>3 DEF Waits, Owner, IsTerminal, IsStranded, TERMINAL_STATES
  <2> QED
    BY <2>1, <2>2 DEF SameAbove, Waits, Owner, IsStranded, IsTerminal, TERMINAL_STATES
<1> QED
  BY <1>1, <1>2, <1>3

LEMMA UnseenIsStutter ==
    ASSUME \A r \in RunIds : SameAbove(r)
    PROVE  UNCHANGED WQ!vars
BY DEF SameAbove, Waits, Waiting, Owner, Done, WQ!vars

LEMMA EnqueueAdds ==
    ASSUME InOrder, NEW r \in RunIds, Enqueue(r)
    PROVE  WQ!Add(r)
<1>1. toQueue[r] > 0 /\ runs' = [runs EXCEPT ![r] = Marked(runs[r], "queued", None)]
      /\ clock' = clock
  BY DEF Enqueue, MarkState
<1>2. /\ runs[r].state = "running" /\ runs[r].leased_by = None
      /\ runs[r].lease_expires_at = None
  BY <1>1 DEF InOrder, BeliefInv, NobodysYet, LeaseCoversRunningWork
<1>3. ~Waits(r) /\ Owner[r] = None /\ ~IsTerminal(r)
  BY <1>2 DEF Waits, IsStranded, Owner, IsTerminal, TERMINAL_STATES
<1>4. runs'[r].state = "queued" /\ runs'[r].leased_by = None
  BY <1>1 DEF InOrder, TypeOK, Marked, Updated
<1>5. Waits(r)' /\ Owner'[r] = None /\ ~IsTerminal(r)'
  BY <1>4 DEF Waits, IsStranded, Owner, IsTerminal, TERMINAL_STATES
<1>6. \A x \in RunIds : x # r => SameAbove(x)
  BY <1>1, ReclaimingIsUnseen DEF InOrder, TypeOK
<1>7. Waiting' = Waiting \cup {r} /\ r \notin Waiting
  BY <1>3, <1>5, <1>6, AbstractRuns, AbstractRunsNext DEF SameAbove
<1>8. UNCHANGED <<Owner, Done>> /\ r \notin WQ!Owned /\ r \notin Done
  BY <1>3, <1>5, <1>6, AbstractRuns DEF SameAbove, Owner, Done
<1> QED
  BY <1>7, <1>8 DEF WQ!Add

LEMMA ClaimTakes ==
    ASSUME InOrder, NEW w \in Workers, NEW n \in LeaseSeconds, NEW r \in RunIds,
           Claim(w, n, r)
    PROVE  WQ!Take(w, r) \/ UNCHANGED WQ!vars
<1>1. /\ r \in Claimable(CanRun[w]) /\ clock' = clock
      /\ runs' = [Reclaimed EXCEPT ![r] = Leased(Reclaimed[r], w, n)]
  BY DEF Claim, ClaimRun
<1>2. Reclaimed \in [RunIds -> RunRecord]
  BY DEF Reclaimed, Requeued, Updated, RunRecord, RunState, InOrder, TypeOK
<1>3. Waits(r)
  BY <1>1 DEF Claimable, Reclaimed, Waits
<1>4. Owner[r] = None /\ ~IsTerminal(r)
  BY <1>3 DEF Owner, Waits, IsTerminal, IsStranded, TERMINAL_STATES, InOrder,
     LeaseCoversRunningWork
<1>5. \A x \in RunIds : x # r => SameAbove(x)
  BY <1>1, <1>2, ReclaimingIsUnseen
<1>6. runs'[r].state = "running" /\ runs'[r].leased_by = w
  BY <1>1, <1>2 DEF Leased, Updated
<1>7. ~IsTerminal(r)'
  BY <1>6 DEF IsTerminal, TERMINAL_STATES
<1>8. CASE IsStranded(r)'
  <2>1. Waits(r)' /\ Owner'[r] = None
    BY <1>8 DEF Waits, Owner
  <2>2. SameAbove(r)
    BY <1>3, <1>4, <1>7, <2>1 DEF SameAbove
  <2> QED
    BY <1>5, <2>2, UnseenIsStutter
<1>9. CASE ~IsStranded(r)'
  <2>1. ~Waits(r)' /\ Owner'[r] = w
    BY <1>6, <1>9 DEF Waits, Owner
  <2>2. Waiting' = Waiting \ {r} /\ r \in Waiting
    BY <1>3, <1>5, <2>1, AbstractRuns, AbstractRunsNext DEF SameAbove
  <2>3. Owner' = [Owner EXCEPT ![r] = w]
    BY <1>5, <2>1 DEF SameAbove, Owner
  <2>4. Done' = Done
    BY <1>4, <1>5, <1>7 DEF SameAbove, Done
  <2> QED
    BY <2>2, <2>3, <2>4 DEF WQ!Take
<1> QED
  BY <1>8, <1>9

\* Renewing a lease that had lapsed takes the run back; for a time that is no time at
\* all, it gives it up.
LEMMA RenewTakesOrReturns ==
    ASSUME InOrder, NEW w \in Workers, NEW n \in LeaseSeconds, Renew(w, n)
    PROVE  WQ!Next \/ UNCHANGED WQ!vars
<1>1. PICK r \in RunIds : r = holding[w].run
  BY DEF Renew, InOrder, HoldingTyped
<1>2. /\ runs' = [runs EXCEPT ![r] = Renewed(runs[r], n)] /\ clock' = clock
      /\ runs[r].leased_by = w
  BY <1>1 DEF Renew, RenewLease
<1>3. runs[r].state = "running" /\ w # None
  BY <1>2, NoneIsNoValue DEF InOrder, LeaseCoversRunningWork
<1>4. runs'[r].state = "running" /\ runs'[r].leased_by = w
  BY <1>2, <1>3 DEF Renewed, Updated, InOrder, TypeOK
<1>5. \A x \in RunIds : x # r => SameAbove(x)
  BY <1>2, ReclaimingIsUnseen DEF InOrder, TypeOK
<1>6. ~IsTerminal(r) /\ ~IsTerminal(r)'
  BY <1>3, <1>4 DEF IsTerminal, TERMINAL_STATES
<1>7. /\ Waits(r) <=> IsStranded(r)
      /\ Owner[r] = IF IsStranded(r) THEN None ELSE w
  BY <1>2, <1>3 DEF Waits, Owner
<1>8. /\ Waits(r)' <=> IsStranded(r)'
      /\ Owner'[r] = IF IsStranded(r)' THEN None ELSE w
  BY <1>4 DEF Waits, Owner
<1>9. Done' = Done
  BY <1>5, <1>6 DEF SameAbove, Done
<1>10. CASE IsStranded(r) /\ ~IsStranded(r)'
  <2>1. Waiting' = Waiting \ {r} /\ r \in Waiting
    BY <1>5, <1>7, <1>8, <1>10, AbstractRuns, AbstractRunsNext DEF SameAbove
  <2>2. Owner' = [Owner EXCEPT ![r] = w]
    BY <1>5, <1>8, <1>10 DEF SameAbove, Owner
  <2>3. WQ!Take(w, r)
    BY <1>9, <2>1, <2>2 DEF WQ!Take
  <2> QED
    BY <2>3 DEF WQ!Next
<1>11. CASE ~IsStranded(r) /\ IsStranded(r)'
  <2>1. Waiting' = Waiting \cup {r} /\ {r} \subseteq WQ!Owned
    BY <1>3, <1>5, <1>7, <1>8, <1>11, AbstractRuns, AbstractRunsNext DEF SameAbove
  <2>2. Owner' = [j \in RunIds |-> IF j \in {r} THEN None ELSE Owner[j]]
    BY <1>5, <1>8, <1>11 DEF SameAbove, Owner
  <2>3. WQ!Return({r})
    BY <1>9, <2>1, <2>2 DEF WQ!Return
  <2> QED
    BY <2>3 DEF WQ!Next
<1>12. CASE IsStranded(r) <=> IsStranded(r)'
  <2>1. SameAbove(r)
    BY <1>6, <1>7, <1>8, <1>12 DEF SameAbove
  <2> QED
    BY <1>5, <2>1, UnseenIsStutter
<1> QED
  BY <1>10, <1>11, <1>12

LEMMA FinishCompletes ==
    ASSUME NoGates, InOrder, NEW w \in Workers, NEW s \in Outcomes, NEW g \in Gates,
           Finish(w, s, g)
    PROVE  WQ!Next \/ UNCHANGED WQ!vars
<1>1. PICK r \in RunIds : r = holding[w].run
  BY DEF Finish, InOrder, HoldingTyped
<1>2. runs' = [runs EXCEPT ![r] = Marked(runs[r], s, g)] /\ clock' = clock
  BY <1>1 DEF Finish, MarkState
<1>3. runs'[r].state \in TERMINAL_STATES /\ runs'[r].leased_by = None
  BY <1>2 DEF Marked, Updated, InOrder, TypeOK, NoGates, TERMINAL_STATES
<1>4. ~Waits(r)' /\ Owner'[r] = None /\ IsTerminal(r)'
  BY <1>3 DEF Waits, IsStranded, Owner, IsTerminal, TERMINAL_STATES
<1>5. \A x \in RunIds : x # r => SameAbove(x)
  BY <1>2, ReclaimingIsUnseen DEF InOrder, TypeOK
<1>6. CASE IsTerminal(r)
  <2>1. ~Waits(r) /\ Owner[r] = None
    BY <1>6 DEF Waits, IsStranded, Owner, IsTerminal, TERMINAL_STATES, InOrder,
       LeaseCoversRunningWork
  <2>2. SameAbove(r)
    BY <1>4, <1>6, <2>1 DEF SameAbove
  <2> QED
    BY <1>5, <2>2, UnseenIsStutter
<1>7. CASE ~IsTerminal(r)
  <2>1. runs[r].state \in {"queued", "running"}
    <3>1. runs[r].state \in RunState \cup {"absent"}
      BY DEF InOrder, TypeOK, RunRecord
    <3>2. KnownOnly(r) /\ Believes(w, r)
      BY <1>1 DEF InOrder, BeliefInv, Believes
    <3> QED
      BY <1>7, <3>1, <3>2 DEF KnownOnly, RunState, IsTerminal, TERMINAL_STATES
  <2>2. Waits(r) \/ Owner[r] # None
    <3>1. CASE runs[r].state = "running" /\ runs[r].leased_by = None
      <4>1. NobodysYet(r) /\ toQueue[r] > 0 /\ Believes(w, r)
        BY <1>1, <3>1 DEF InOrder, BeliefInv, Believes, YetToBeQueued
      <4> QED
        BY <4>1 DEF NobodysYet
    <3> QED
      BY <2>1, <3>1 DEF Waits, Owner
  <2>3. r \in Waiting \cup WQ!Owned
    BY <2>2, AbstractRuns
  <2>4. Waiting' = Waiting \ {r}
    BY <1>4, <1>5, AbstractRuns, AbstractRunsNext DEF SameAbove
  <2>5. Owner' = [Owner EXCEPT ![r] = None]
    BY <1>4, <1>5 DEF SameAbove, Owner
  <2>6. Done' = Done \cup {r}
    BY <1>4, <1>5 DEF SameAbove, Done
  <2>7. WQ!Complete(r)
    BY <2>3, <2>4, <2>5, <2>6 DEF WQ!Complete
  <2> QED
    BY <2>7 DEF WQ!Next
<1> QED
  BY <1>6, <1>7

\* A second that passes returns what the leases that lapse in it were on.
LEMMA PassReturns ==
    ASSUME InOrder, Pass
    PROVE  WQ!Next
<1> DEFINE S == {r \in RunIds : ~IsStranded(r) /\ IsStranded(r)'}
<1>1. UNCHANGED runs /\ clock' = clock + 1
  BY DEF Pass, Tick
<1>2. \A r \in RunIds : IsStranded(r) => IsStranded(r)'
  BY <1>1 DEF IsStranded, InOrder, TypeOK, RunRecord
<1>3. \A r \in S : Owner[r] # None
  BY <1>1 DEF IsStranded, InOrder, LeaseCoversRunningWork, Owner
<1>4. S \subseteq WQ!Owned
  BY <1>3, AbstractRuns
<1>5. Waiting' = Waiting \cup S
  BY <1>1, <1>2, AbstractRuns, AbstractRunsNext DEF Waits
<1>6. Owner' = [j \in RunIds |-> IF j \in S THEN None ELSE Owner[j]]
  BY <1>1, <1>2 DEF Owner
<1>7. Done' = Done
  BY <1>1 DEF Done, IsTerminal
<1>8. WQ!Return(S) /\ S \in SUBSET RunIds
  BY <1>4, <1>5, <1>6, <1>7 DEF WQ!Return
<1> HIDE DEF S
<1> QED
  BY <1>8 DEF WQ!Next

LEMMA QueueStepIsAbstractStep ==
    NoGates /\ InOrder /\ [QueueNext]_queueVars => [WQ!Next]_(WQ!vars)
<1> SUFFICES ASSUME NoGates, InOrder, [QueueNext]_queueVars
             PROVE  WQ!Next \/ UNCHANGED WQ!vars
  OBVIOUS
<1>1. ASSUME NEW r \in RunIds, NEW wf \in Workflows, Submit(r, wf)
      PROVE  UNCHANGED WQ!vars
  <2>1. /\ runs[r].state = "absent" /\ runs' = [runs EXCEPT ![r] = NewRecord(wf)]
        /\ clock' = clock
    BY <1>1 DEF Submit, CreateRun, Exists
  <2>2. ~Waits(r) /\ Owner[r] = None /\ ~IsTerminal(r)
    BY <2>1 DEF Waits, IsStranded, Owner, IsTerminal, TERMINAL_STATES, InOrder,
       LeaseCoversRunningWork
  <2>3. /\ runs'[r].state = "running" /\ runs'[r].leased_by = None
        /\ runs'[r].lease_expires_at = None
    BY <2>1 DEF InOrder, TypeOK, NewRecord
  <2>4. SameAbove(r)
    BY <2>2, <2>3 DEF SameAbove, Waits, IsStranded, Owner, IsTerminal, TERMINAL_STATES
  <2>5. \A x \in RunIds : x # r => SameAbove(x)
    BY <2>1, ReclaimingIsUnseen DEF InOrder, TypeOK
  <2> QED
    BY <2>4, <2>5, UnseenIsStutter
<1>2. ASSUME NEW r \in RunIds, Enqueue(r)
      PROVE  WQ!Next
  BY <1>2, EnqueueAdds DEF WQ!Next
<1>3. ASSUME NEW r \in RunIds, NEW v \in Verdicts, NEW c \in Comments, NEW p \in Subjects,
             DecideQueued(r, v, c, p)
      PROVE  FALSE
  BY <1>3 DEF DecideQueued, AppendDecision, InOrder, BeliefInv, KnownOnly
<1>4. ASSUME NEW w \in Workers, NEW n \in LeaseSeconds, NEW r \in RunIds, Claim(w, n, r)
      PROVE  WQ!Next \/ UNCHANGED WQ!vars
  BY <1>4, ClaimTakes DEF WQ!Next
<1>5. ASSUME NEW w \in Workers, FindNothing(w)
      PROVE  UNCHANGED WQ!vars
  <2>1. runs' = Reclaimed /\ clock' = clock
    BY <1>5 DEF FindNothing, ClaimNothing, ReclaimExpiredLeases
  <2> QED
    BY <2>1, ReclaimingIsUnseen, UnseenIsStutter
<1>6. ASSUME NEW w \in Workers, NEW n \in LeaseSeconds, Renew(w, n)
      PROVE  WQ!Next \/ UNCHANGED WQ!vars
  BY <1>6, RenewTakesOrReturns
<1>7. ASSUME NEW w \in Workers, NEW s \in Outcomes, NEW g \in Gates, Finish(w, s, g)
      PROVE  WQ!Next \/ UNCHANGED WQ!vars
  BY <1>7, FinishCompletes
<1>8. CASE Pass
  BY <1>8, PassReturns
<1>9. CASE UNCHANGED <<runs, clock>>
  BY <1>9, ReclaimingIsUnseen, UnseenIsStutter
<1> QED
  BY <1>1, <1>2, <1>3, <1>4, <1>5, <1>6, <1>7, <1>8, <1>9
     DEF QueueNext, RenewRefused, Die, queueVars

\* The store with its leases and its clock, and workers that stall, die and write late,
\* lose no run and complete each for good, for any number of both, as long as no
\* workflow stops at a gate (base.py:85-104).
THEOREM QueueImplementsWorkQueue ==
    ASSUME NoGates
    PROVE  QueueSpec => RefinesWorkQueue
<1>1. QueueInit => BeliefInv /\ YetToBeQueued /\ WQ!Init
  <2> SUFFICES ASSUME QueueInit PROVE BeliefInv /\ YetToBeQueued /\ WQ!Init
    OBVIOUS
  <2>1. BeliefInv
    BY DEF QueueInit, Init, BeliefInv, NobodysYet, KnownOnly, Backed, Believes, HoldsLive,
       HoldersExclusive, Exclusive, Idle, NoRecord
  <2>2. YetToBeQueued
    BY DEF QueueInit, Init, YetToBeQueued, NoRecord
  <2>3. WQ!Init
    BY DEF QueueInit, Init, NoRecord, WQ!Init, Waiting, Owner, Done, IsStranded, IsTerminal,
       TERMINAL_STATES
  <2> QED
    BY <2>1, <2>2, <2>3
<1>2. NoGates
  OBVIOUS
<1>3. InOrder /\ [QueueNext]_queueVars => BeliefInv' /\ YetToBeQueued'
  BY <1>2, BeliefInductive, YetToBeQueuedInductive DEF InOrder
<1>4. InOrder /\ [QueueNext]_queueVars => [WQ!Next]_(WQ!vars)
  BY <1>2, QueueStepIsAbstractStep
<1>5. InOrder <=> HoldingTyped /\ TypeOK /\ LeaseCoversRunningWork /\ BeliefInv
                  /\ YetToBeQueued
  BY DEF InOrder
<1> QED
  BY <1>1, <1>3, <1>4, <1>5, QueueRefinesStore, TypeCorrect, LeaseSafety, PTL
     DEF QueueSpec, RefinesWorkQueue, WQ!Spec

=============================================================================
