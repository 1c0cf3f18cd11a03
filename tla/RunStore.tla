------------------------------ MODULE RunStore ------------------------------
(***************************************************************************)
(* The durable record of runs and of the decisions taken on them:          *)
(* InMemoryRunStore (store/memory.py), the implementation of the RunStore  *)
(* protocol (store/base.py).                                               *)
(*                                                                         *)
(* Every operation holds one asyncio.Lock and never suspends inside it, so *)
(* each is one step.  Nothing is assumed about the callers: Next lets any  *)
(* caller apply any operation with any argument, which is what the store   *)
(* itself must stand up to.  RunQueue and RunApi restrict the callers.     *)
(*                                                                         *)
(* Time is the integer `clock`; all the reads of datetime.now within one   *)
(* operation see the same value.  Policy and created_by are left out: the  *)
(* store copies them and never looks at them.                              *)
(***************************************************************************)
EXTENDS Integers, Sequences, SequencesExt

CONSTANTS
    RunIds,         \* names of runs; numbers, for the order that breaks ties
    Workflows,      \* names of workflows
    Workers,        \* names under which queued runs are claimed
    Verdicts,       \* the verdicts callers give
    Subjects,       \* principals that decide
    Comments,       \* comments a decision may carry, None among them
    Gates,          \* payloads a workflow may pass to interrupt()
    LeaseSeconds,   \* durations a lease may be asked for, not only positive
    RetentionAge,   \* age at which an undecided run is abandoned
    None,           \* Python's None
    MaxClock,       \* bound: the last instant explored
    MaxDecisions    \* bound: decisions recorded for one run

ASSUME RunIdsAreOrdered == RunIds \subseteq Int
ASSUME LeaseSecondsAreDurations == LeaseSeconds \subseteq Int
ASSUME VerdictsAreKnown == Verdicts \subseteq {"approve", "reject", "amend"}
ASSUME RetentionIsAnAge == RetentionAge \in Nat
ASSUME NoneIsNoValue == /\ None \notin Workers
                        /\ None \notin Gates
                        /\ None \notin Verdicts
                        /\ None \notin Int
ASSUME BoundsAreNumbers == MaxClock \in Nat /\ MaxDecisions \in Nat

VARIABLES
    runs,           \* run id -> its record; state "absent" when there is none
    decisions,      \* run id -> its decisions, oldest first
    clock           \* datetime.now(UTC)

storeVars == <<runs, decisions, clock>>

RunState == {"queued", "running", "awaiting_decision",
             "completed", "failed", "cancelled"}
TERMINAL_STATES == {"completed", "failed", "cancelled"}

\* models.py's RunRecord and DecisionRecord.
RunRecord ==
    [state            : RunState \cup {"absent"},
     workflow         : Workflows \cup {None},
     gate_payload     : Gates \cup {None},
     leased_by        : Workers \cup {None},
     lease_expires_at : Int \cup {None},
     created_at       : Nat,
     updated_at       : Nat]

DecisionRecord ==
    [seq : Nat \ {0}, verdict : Verdicts, comment : Comments, subject : Subjects]

NoRecord ==
    [state |-> "absent", workflow |-> None, gate_payload |-> None,
     leased_by |-> None, lease_expires_at |-> None,
     created_at |-> 0, updated_at |-> 0]

TypeOK ==
    /\ runs \in [RunIds -> RunRecord]
    /\ decisions \in [RunIds -> Seq(DecisionRecord)]
    /\ clock \in Nat

Init ==
    /\ runs = [r \in RunIds |-> NoRecord]
    /\ decisions = [r \in RunIds |-> <<>>]
    /\ clock = 0

Exists(r) == runs[r].state # "absent"
IsTerminal(r) == runs[r].state \in TERMINAL_STATES

-----------------------------------------------------------------------------
(* Creating a run and moving it between states *)

\* create_run of a known id raises RunConflictError and changes nothing.
NewRecord(wf) ==
    [state |-> "running", workflow |-> wf, gate_payload |-> None,
     leased_by |-> None, lease_expires_at |-> None,
     created_at |-> clock, updated_at |-> clock]

CreateRun(r, wf) ==
    /\ ~Exists(r)
    /\ runs' = [runs EXCEPT ![r] = NewRecord(wf)]
    /\ UNCHANGED <<decisions, clock>>

\* run.model_copy(update = ...): workflow and created_at never change.
Updated(run, s, gate, worker, expiry) ==
    [state |-> s, workflow |-> run.workflow, gate_payload |-> gate,
     leased_by |-> worker, lease_expires_at |-> expiry,
     created_at |-> run.created_at, updated_at |-> clock]

\* Mutants of Marked: the lease is never released; the gate payload is lost.
MarkedKeepingLease(run, s, gate) ==
    Updated(run, s, IF gate # None THEN gate ELSE run.gate_payload,
            run.leased_by, run.lease_expires_at)

MarkedWithoutGate(run, s, gate) ==
    Updated(run, s, run.gate_payload,
            IF s = "running" THEN run.leased_by ELSE None,
            IF s = "running" THEN run.lease_expires_at ELSE None)

\* Any state may follow any other; leaving "running" releases the lease.
Marked(run, s, gate) ==
    Updated(run, s,
            IF gate # None THEN gate ELSE run.gate_payload,
            IF s = "running" THEN run.leased_by ELSE None,
            IF s = "running" THEN run.lease_expires_at ELSE None)

MarkState(r, s, gate) ==
    /\ Exists(r)
    /\ runs' = [runs EXCEPT ![r] = Marked(@, s, gate)]
    /\ UNCHANGED <<decisions, clock>>

-----------------------------------------------------------------------------
(* The queue: leases on queued runs *)

\* Mutants of IsStranded: any lease counts, and a lease ends a second early.
IsLeased(r) == runs[r].state = "running" /\ runs[r].lease_expires_at # None

IsAboutToLapse(r) == IsLeased(r) /\ runs[r].lease_expires_at <= clock + 1

IsStranded(r) ==
    /\ runs[r].state = "running"
    /\ runs[r].lease_expires_at # None
    /\ runs[r].lease_expires_at <= clock

Requeued(run) == Updated(run, "queued", run.gate_payload, None, None)

\* Mutant of Reclaimed: nothing is reclaimed.
NotReclaimed == runs

\* The runs after _reclaim_locked.
Reclaimed ==
    [r \in RunIds |-> IF IsStranded(r) THEN Requeued(runs[r]) ELSE runs[r]]

ReclaimExpiredLeases ==
    /\ runs' = Reclaimed
    /\ UNCHANGED <<decisions, clock>>

\* Mutant of OlderRun: the newest is served first.
NewerRun(q, r) ==
    \/ runs[q].created_at > runs[r].created_at
    \/ runs[q].created_at = runs[r].created_at /\ q > r

\* The sort key (created_at, id).
OlderRun(q, r) ==
    \/ runs[q].created_at < runs[r].created_at
    \/ runs[q].created_at = runs[r].created_at /\ q < r

\* What a claim filtered by the set wfs may take; {} filters nothing.
Claimable(wfs) ==
    {r \in RunIds : /\ Reclaimed[r].state = "queued"
                    /\ wfs = {} \/ Reclaimed[r].workflow \in wfs}

Leased(run, w, seconds) ==
    Updated(run, "running", run.gate_payload, w, clock + seconds)

\* claim_run returns run r to worker w.
ClaimRun(w, wfs, seconds, r) ==
    /\ r \in Claimable(wfs)
    /\ \A q \in Claimable(wfs) : ~OlderRun(q, r)
    /\ runs' = [Reclaimed EXCEPT ![r] = Leased(@, w, seconds)]
    /\ UNCHANGED <<decisions, clock>>

\* claim_run returns None: the reclaiming still happened.
ClaimNothing(wfs) ==
    /\ Claimable(wfs) = {}
    /\ ReclaimExpiredLeases

Renewed(run, seconds) ==
    Updated(run, run.state, run.gate_payload, run.leased_by, clock + seconds)

\* Neither the state nor the expiry is looked at.
RenewLease(r, w, seconds) ==
    /\ Exists(r)
    /\ runs[r].leased_by = w
    /\ runs' = [runs EXCEPT ![r] = Renewed(@, seconds)]
    /\ UNCHANGED <<decisions, clock>>

-----------------------------------------------------------------------------
(* Decisions and retention *)

Matches(d, v, c, p) == d.verdict = v /\ d.comment = c /\ d.subject = p

\* append_decision returns the decision already recorded, and False.
IsRetry(r, v, c, p) ==
    /\ Exists(r)
    /\ runs[r].state # "awaiting_decision"
    /\ decisions[r] # <<>>
    /\ Matches(decisions[r][Len(decisions[r])], v, c, p)

\* append_decision records a decision; the run's state does not change.
NewDecision(r, v, c, p) ==
    [seq |-> Len(decisions[r]) + 1, verdict |-> v, comment |-> c, subject |-> p]

AppendDecision(r, v, c, p) ==
    /\ runs[r].state = "awaiting_decision"
    /\ Len(decisions[r]) < MaxDecisions
    /\ decisions' = [decisions EXCEPT ![r] = Append(@, NewDecision(r, v, c, p))]
    /\ UNCHANGED <<runs, clock>>

IsAbandoned(r) ==
    /\ runs[r].state = "awaiting_decision"
    /\ runs[r].updated_at < clock - RetentionAge

Cancelled(run) ==
    Updated(run, "cancelled", run.gate_payload, run.leased_by, run.lease_expires_at)

ExpireRuns ==
    /\ runs' = [r \in RunIds |->
                    IF IsAbandoned(r) THEN Cancelled(runs[r]) ELSE runs[r]]
    /\ UNCHANGED <<decisions, clock>>

Tick ==
    /\ clock < MaxClock
    /\ clock' = clock + 1
    /\ UNCHANGED <<runs, decisions>>

-----------------------------------------------------------------------------
(* The store under arbitrary callers *)

Next ==
    \/ \E r \in RunIds, wf \in Workflows : CreateRun(r, wf)
    \/ \E r \in RunIds, s \in RunState, g \in Gates \cup {None} :
            MarkState(r, s, g)
    \/ \E w \in Workers, wfs \in SUBSET Workflows, n \in LeaseSeconds,
          r \in RunIds : ClaimRun(w, wfs, n, r)
    \/ \E wfs \in SUBSET Workflows : ClaimNothing(wfs)
    \/ \E r \in RunIds, w \in Workers, n \in LeaseSeconds : RenewLease(r, w, n)
    \/ ReclaimExpiredLeases
    \/ \E r \in RunIds, v \in Verdicts, c \in Comments, p \in Subjects :
            AppendDecision(r, v, c, p)
    \/ ExpireRuns
    \/ Tick

Spec == Init /\ [][Next]_storeVars

-----------------------------------------------------------------------------
(* Properties *)

\* A lease is whole and never outlives the work it covers: holder and expiry
\* are set together, and only a running run carries them, whatever sequence of
\* claims, renewals, reclaims and state changes produced it (memory.py:83-86).
LeaseCoversRunningWork ==
    \A r \in RunIds :
        /\ (runs[r].leased_by = None) <=> (runs[r].lease_expires_at = None)
        /\ runs[r].leased_by # None => runs[r].state = "running"

\* No step gives a run to another worker while the lease on it is live: a run
\* changes hands directly only if the lease has lapsed (memory.py:113-117).
HandsOverLapsedLease(r) ==
    (/\ runs[r].leased_by # None
     /\ runs'[r].leased_by \notin {runs[r].leased_by, None})
        => runs[r].lease_expires_at <= clock

HandsOverLapsedLeases == \A r \in RunIds : HandsOverLapsedLease(r)

LiveLeaseNotStolen == [][HandsOverLapsedLeases]_storeVars

\* A step that gives run r to a worker leaves no older run of the same workflow
\* waiting, and a run whose lease had lapsed was waiting too: the reclaiming
\* comes first (memory.py:119-122 and 137-139).
ServedBeforeNoOlder(r, q) ==
    (/\ runs'[r].leased_by \notin {runs[r].leased_by, None}
     /\ runs[q].workflow = runs[r].workflow
     /\ runs[q].created_at < runs[r].created_at)
        => runs[q].state # "queued" /\ ~IsStranded(q)

ServesOldest == \A r, q \in RunIds : ServedBeforeNoOlder(r, q)

OldestIsServedFirst == [][ServesOldest]_storeVars

\* The decisions of a run are an audit record: each carries its position, and
\* no operation, expiry and reclaiming included, alters or drops one
\* (models.py:85-86, base.py:128-129).
ExtendsChain(r) ==
    /\ IsPrefix(decisions[r], decisions'[r])
    /\ \A i \in DOMAIN decisions'[r] : decisions'[r][i].seq = i

ExtendsChains == \A r \in RunIds : ExtendsChain(r)

AuditChainOnlyGrows == [][ExtendsChains]_storeVars
=============================================================================
