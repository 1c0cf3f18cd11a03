------------------------------ MODULE RunQueue ------------------------------
(***************************************************************************)
(* Workers that share one RunStore as a queue.                             *)
(*                                                                         *)
(* The store's half is store/memory.py, through RunStore's actions.  The   *)
(* callers' half is outside the package: it follows DESIGN-WRK-001 3.2-3.3 *)
(* and tests/test_run_queue.py.  An API creates a run and marks it         *)
(* "queued"; a worker loops over claim, execute, mark_state; a decision    *)
(* puts a paused run back in the queue.  A worker knows only what claim    *)
(* and renew returned to it (`holding`): it may stall past its lease and   *)
(* still write, or die and come back under the same name.                  *)
(*                                                                         *)
(* A fault is a death, or a lease that lapses under a live worker.  Time   *)
(* moves only while some lease is ahead of it, since nothing else here     *)
(* reads the clock, and so few faults mean few instants.                   *)
(***************************************************************************)
EXTENDS RunStore, FiniteSets

CONSTANTS
    CanRun,         \* worker -> the workflows it can load, {} for all
    Outcomes,       \* states in which a worker leaves the run it executed
    MaxFaults,      \* bound: deaths and lapsed leases
    MaxRenewals     \* bound: renewals

ASSUME CanRunNamesWorkflows == CanRun \in [Workers -> SUBSET Workflows]
ASSUME OutcomesLeaveRunning == Outcomes \subseteq RunState \ {"running", "queued"}

VARIABLES
    holding,        \* worker -> the run it believes it holds, and until when
    toQueue,        \* run id -> "queued" marks an API process is yet to write
    starts,         \* run id -> times a worker was given it (history)
    faults,         \* deaths and lapses so far
    renewals        \* renewals so far

workerVars == <<holding, toQueue, starts, faults, renewals>>
queueVars == <<runs, decisions, clock, holding, toQueue, starts, faults, renewals>>

Idle == [run |-> None, expiry |-> 0]

QueueTypeOK ==
    /\ TypeOK
    /\ holding \in [Workers -> [run : RunIds \cup {None}, expiry : Int]]
    /\ toQueue \in [RunIds -> Nat]
    /\ starts \in [RunIds -> Nat]
    /\ faults \in Nat
    /\ renewals \in Nat

QueueInit ==
    /\ Init
    /\ holding = [w \in Workers |-> Idle]
    /\ toQueue = [r \in RunIds |-> 0]
    /\ starts = [r \in RunIds |-> 0]
    /\ faults = 0
    /\ renewals = 0

Believes(w, r) == holding[w].run = r
HoldsLive(w) == holding[w].run # None /\ holding[w].expiry > clock

-----------------------------------------------------------------------------
(* The API side *)

Submit(r, wf) ==
    /\ CreateRun(r, wf)
    /\ toQueue' = [toQueue EXCEPT ![r] = @ + 1]
    /\ UNCHANGED <<holding, starts, faults, renewals>>

Enqueue(r) ==
    /\ toQueue[r] > 0
    /\ MarkState(r, "queued", None)
    /\ toQueue' = [toQueue EXCEPT ![r] = @ - 1]
    /\ UNCHANGED <<holding, starts, faults, renewals>>

DecideQueued(r, v, c, p) ==
    /\ AppendDecision(r, v, c, p)
    /\ toQueue' = [toQueue EXCEPT ![r] = @ + 1]
    /\ UNCHANGED <<holding, starts, faults, renewals>>

-----------------------------------------------------------------------------
(* The worker loop *)

Claim(w, n, r) ==
    /\ holding[w] = Idle
    /\ ClaimRun(w, CanRun[w], n, r)
    /\ holding' = [holding EXCEPT ![w] = [run |-> r, expiry |-> clock + n]]
    /\ starts' = [starts EXCEPT ![r] = @ + 1]
    /\ UNCHANGED <<toQueue, faults, renewals>>

FindNothing(w) ==
    /\ holding[w] = Idle
    /\ ClaimNothing(CanRun[w])
    /\ UNCHANGED workerVars

Renew(w, n) ==
    /\ renewals < MaxRenewals
    /\ holding[w].run # None
    /\ RenewLease(holding[w].run, w, n)
    /\ holding' = [holding EXCEPT ![w] = [run |-> @.run, expiry |-> clock + n]]
    /\ renewals' = renewals + 1
    /\ UNCHANGED <<toQueue, starts, faults>>

\* renew_lease raised RunConflictError: the worker drops the run.
RenewRefused(w) ==
    /\ holding[w].run # None
    /\ runs[holding[w].run].leased_by # w
    /\ holding' = [holding EXCEPT ![w] = Idle]
    /\ UNCHANGED <<runs, decisions, clock, toQueue, starts, faults, renewals>>

\* mark_state asks neither for the lease nor for the previous state.
Finish(w, s, g) ==
    /\ holding[w].run # None
    /\ MarkState(holding[w].run, s, g)
    /\ holding' = [holding EXCEPT ![w] = Idle]
    /\ UNCHANGED <<toQueue, starts, faults, renewals>>

Die(w) ==
    /\ holding[w].run # None
    /\ faults < MaxFaults
    /\ holding' = [holding EXCEPT ![w] = Idle]
    /\ faults' = faults + 1
    /\ UNCHANGED <<runs, decisions, clock, toQueue, starts, renewals>>

LapsingNext == {w \in Workers : holding[w].run # None /\ holding[w].expiry = clock + 1}

Pass ==
    /\ \E r \in RunIds : /\ runs[r].lease_expires_at # None
                         /\ runs[r].lease_expires_at > clock
    /\ Tick
    /\ faults' = faults + Cardinality(LapsingNext)
    /\ faults' <= MaxFaults
    /\ UNCHANGED <<holding, toQueue, starts, renewals>>

-----------------------------------------------------------------------------
QueueNext ==
    \/ \E r \in RunIds, wf \in Workflows : Submit(r, wf)
    \/ \E r \in RunIds : Enqueue(r)
    \/ \E r \in RunIds, v \in Verdicts, c \in Comments, p \in Subjects :
            DecideQueued(r, v, c, p)
    \/ \E w \in Workers, n \in LeaseSeconds, r \in RunIds : Claim(w, n, r)
    \/ \E w \in Workers : FindNothing(w)
    \/ \E w \in Workers, n \in LeaseSeconds : Renew(w, n)
    \/ \E w \in Workers : RenewRefused(w)
    \/ \E w \in Workers, s \in Outcomes, g \in Gates : Finish(w, s, g)
    \/ \E w \in Workers : Die(w)
    \/ Pass

QueueSpec == QueueInit /\ [][QueueNext]_queueVars

\* Workers poll for ever and finish what they hold unless they die, and time
\* does not stop.  Submitting, renewing and dying are never owed.
QueueFairness ==
    /\ \A w \in Workers :
        /\ WF_queueVars(\E n \in LeaseSeconds, r \in RunIds : Claim(w, n, r))
        /\ WF_queueVars(FindNothing(w))
        /\ WF_queueVars(\E s \in Outcomes, g \in Gates : Finish(w, s, g))
    /\ \A r \in RunIds : WF_queueVars(Enqueue(r))
    /\ WF_queueVars(Pass)

FairQueueSpec == QueueSpec /\ QueueFairness

-----------------------------------------------------------------------------
(* Properties *)

\* Two workers never both hold one run on leases that have not lapsed,
\* whatever stalled or reincarnated worker writes in between ("two workers
\* believing they hold the same run is the thing leases exist to prevent",
\* memory.py:157-158).  It needs Outcomes within TERMINAL_STATES: a
\* stale worker that leaves a run at a gate breaks it.
Exclusive(v, w) ==
    v # w /\ HoldsLive(v) /\ HoldsLive(w) => holding[v].run # holding[w].run

HoldersExclusive == \A v, w \in Workers : Exclusive(v, w)

\* A run is handed to a worker again only because of a fault or a decision:
\* without one, no side effect is executed twice (memory.py:113-117).
RepeatedOnlyWithCause ==
    \A r \in RunIds : starts[r] <= 1 + faults + Len(decisions[r])

\* Every queued run that some worker can load is executed, to its end or to a
\* gate, although workers die and stall: the queue heals itself through the
\* claims of the others (memory.py:119-122).
Loadable(r) ==
    \E w \in Workers : CanRun[w] = {} \/ runs[r].workflow \in CanRun[w]

QueuedRunsAreExecuted ==
    \A r \in RunIds :
        (runs[r].state = "queued" /\ Loadable(r)) ~> runs[r].state \in Outcomes

\* The abstract queue: a lease that has lapsed is a run waiting again.
Waiting == {r \in RunIds : runs[r].state = "queued" \/ IsStranded(r)}
Owner == [r \in RunIds |-> IF IsStranded(r) THEN None ELSE runs[r].leased_by]
Done == {r \in RunIds : IsTerminal(r)}

WQ == INSTANCE WorkQueue WITH
        Jobs <- RunIds, waiting <- Waiting, owner <- Owner, done <- Done

\* The store, with its leases, its clock and workers that fail, is a queue that
\* loses nothing: what WorkQueue says of the jobs is true of the runs.
RefinesWorkQueue == WQ!Spec
=============================================================================
