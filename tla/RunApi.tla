------------------------------- MODULE RunApi -------------------------------
(***************************************************************************)
(* The engine behind the HTTP API: Runner (engine/runner.py) driven by     *)
(* POST runs and POST decisions (api/routes.py), over the RunStore, the    *)
(* run log, the output cache and the cost meter.                           *)
(*                                                                         *)
(* Every accepted request is a stream, an async generator that the event   *)
(* loop interleaves with the others.  An action is the code between two    *)
(* points where the generator may be suspended: a yield, an event of the   *)
(* graph, a call of the cache (RedisCache does I/O).  The store and the    *)
(* log hold a lock and never suspend, so their calls belong to the action  *)
(* around them.  A client that goes away cancels the generator wherever it *)
(* is suspended; then only its `finally` runs.                             *)
(*                                                                         *)
(* LangGraph is outside the package: a workflow is a sequence of nodes,    *)
(* and its checkpointer remembers, per run, the node to run next and       *)
(* whether that node is waiting in interrupt().                            *)
(***************************************************************************)
EXTENDS RunStore, FiniteSets

CONSTANTS
    Streams,        \* requests that open a stream
    Payloads,       \* inputs, each with the policy it is run under
    Graph,          \* workflow -> its nodes, each "work" or "gate"
    Checkpointed,   \* workflows that run with a checkpointer
    Idempotent,     \* workflows whose output may be cached
    CacheTtl,       \* cache_ttl_s
    MayDisconnect,  \* whether clients go away
    MayExpire       \* whether the retention job runs

ASSUME GraphsAreNodeSequences ==
    /\ Graph \in [Workflows -> Seq({"work", "gate"})]
    /\ \A wf \in Workflows \ Checkpointed : \A i \in DOMAIN Graph[wf] :
            Graph[wf][i] # "gate"
ASSUME IdempotentWorkflowsHaveNoGate == Idempotent \cap Checkpointed = {}
ASSUME CacheTtlIsADuration == CacheTtl \in Nat
ASSUME NoneIsNoRequest == None \notin Workflows \cup Payloads

VARIABLES
    stream,         \* stream -> where its generator is suspended
    thread,         \* run id -> what the checkpointer holds for it
    cache,          \* (workflow, payload) -> the run whose output is cached
    log,            \* run id -> the run-level rows of the run log
    meter,          \* run id -> entries of the cost meter
    effects         \* run id -> nodes executed, with the verdict they saw

apiVars == <<stream, thread, cache, log, meter, effects>>
runApiVars == <<runs, decisions, clock, stream, thread, cache, log, meter, effects>>

\* "created": the generator exists and was never advanced; "lost": it was
\* cancelled before it settled; "settled": it has yielded its last event.
\* "ended": the graph has no more events; "storing": the cache is written.
Pc == {"free", "created", "lookup", "graph", "node", "ended", "storing",
       "settled", "closed", "lost"}
Suspended == {"lookup", "graph", "node", "ended", "storing"}

StreamRecord ==
    [pc      : Pc,
     run     : RunIds \cup {None},
     wf      : Workflows \cup {None},
     payload : Payloads \cup {None},
     resume  : Verdicts \cup {None},    \* verdict not yet handed to the graph
     verdict : Verdicts \cup {None},    \* verdict in the state of the graph
     pos     : Nat]                     \* node the graph is at, 0 before it runs

ThreadRecord == [at : Nat, waiting : BOOLEAN, verdict : Verdicts \cup {None}]
CacheEntry == [run : RunIds \cup {None}, until : Nat]
Effect == [node : Nat, verdict : Verdicts \cup {None}]

Created(r, wf, p, v) ==
    [pc |-> "created", run |-> r, wf |-> wf, payload |-> p, resume |-> v,
     verdict |-> None, pos |-> 0]
Free == [pc |-> "free", run |-> None, wf |-> None, payload |-> None,
         resume |-> None, verdict |-> None, pos |-> 0]
NoThread == [at |-> 0, waiting |-> FALSE, verdict |-> None]
NoEntry == [run |-> None, until |-> 0]

ApiTypeOK ==
    /\ TypeOK
    /\ stream \in [Streams -> StreamRecord]
    /\ thread \in [RunIds -> ThreadRecord]
    /\ cache \in [Workflows \X Payloads -> CacheEntry]
    /\ log \in [RunIds -> Seq(RunState)]
    /\ meter \in [RunIds -> Nat]
    /\ effects \in [RunIds -> Seq(Effect)]

ApiInit ==
    /\ Init
    /\ stream = [s \in Streams |-> Free]
    /\ thread = [r \in RunIds |-> NoThread]
    /\ cache = [k \in Workflows \X Payloads |-> NoEntry]
    /\ log = [r \in RunIds |-> <<>>]
    /\ meter = [r \in RunIds |-> 0]
    /\ effects = [r \in RunIds |-> <<>>]

Nodes(s) == Graph[stream[s].wf]
PcAt(wf, pos) == IF pos \in DOMAIN Graph[wf] THEN "graph" ELSE "ended"
\* Mutant of Key: the input is not part of it.
KeyWithoutInput(s) == <<stream[s].wf, CHOOSE p \in Payloads : TRUE>>

Key(s) == <<stream[s].wf, stream[s].payload>>

\* _cache_key: only a fresh run of an idempotent workflow has one.
HasKey(s) == stream[s].payload # None /\ stream[s].wf \in Idempotent

\* The generator runs on to its next suspension.
Moved(st, r, pc, pos, verdict, resume) ==
    [pc |-> pc, run |-> r, wf |-> st.wf, payload |-> st.payload,
     resume |-> resume, verdict |-> verdict, pos |-> pos]

Goto(s, pc) ==
    stream' = [stream EXCEPT ![s] =
                    Moved(@, @.run, pc, @.pos, @.verdict, @.resume)]

SaveThread(s, pos, wait, verdict) ==
    thread' = IF stream[s].wf \in Checkpointed
              THEN [thread EXCEPT ![stream[s].run] =
                        [at |-> pos, waiting |-> wait, verdict |-> verdict]]
              ELSE thread

-----------------------------------------------------------------------------
(* Requests *)

\* POST /workflows/{name}/runs: nothing is recorded until the response body is
\* pulled.
PostRun(s, wf, p) ==
    /\ stream[s] = Free
    /\ stream' = [stream EXCEPT ![s] = Created(None, wf, p, None)]
    /\ UNCHANGED <<storeVars, thread, cache, log, meter, effects>>

\* Mutants of PostDecision: the graph is re-entered and nothing recorded;
\* a retry re-enters it as well; the decision is recorded and that is all.
Resumed(s, r, v) ==
    stream' = [stream EXCEPT ![s] = Created(r, runs[r].workflow, None, v)]

ResumeUnrecorded(s, r, v, c, p) ==
    /\ stream[s] = Free
    /\ runs[r].state = "awaiting_decision"
    /\ Resumed(s, r, v)
    /\ UNCHANGED <<storeVars, thread, cache, log, meter, effects>>

ResumeOnRetry(s, r, v, c, p) ==
    /\ stream[s] = Free
    /\ \/ AppendDecision(r, v, c, p)
       \/ IsRetry(r, v, c, p) /\ UNCHANGED storeVars
    /\ Resumed(s, r, v)
    /\ UNCHANGED <<thread, cache, log, meter, effects>>

RecordOnly(s, r, v, c, p) ==
    /\ stream[s] = Free
    /\ AppendDecision(r, v, c, p)
    /\ UNCHANGED apiVars

\* POST .../decisions: the decision is recorded and the generator of the
\* resumption created without a suspension between them.  A retry and a
\* refusal change nothing.
PostDecision(s, r, v, c, p) ==
    /\ stream[s] = Free
    /\ AppendDecision(r, v, c, p)
    /\ Resumed(s, r, v)
    /\ UNCHANGED <<thread, cache, log, meter, effects>>

-----------------------------------------------------------------------------
(* The generator, Runner._stream *)

\* append, InMemoryRunLogStore.
Logged(r, state) == log' = [log EXCEPT ![r] = Append(@, state)]

\* Mutants of Settle: a failure is not logged; the state is not marked.
SettleUnlogged(s, r, state, gate) ==
    /\ MarkState(r, state, gate)
    /\ IF state = "failed" THEN UNCHANGED log ELSE Logged(r, state)
    /\ Goto(s, "settled")
    /\ UNCHANGED meter

SettleUnmarked(s, r, state, gate) ==
    /\ Logged(r, state)
    /\ Goto(s, "settled")
    /\ UNCHANGED <<storeVars, meter>>

\* _mark, _log and the last yield.
Settle(s, r, state, gate) ==
    /\ MarkState(r, state, gate)
    /\ Logged(r, state)
    /\ Goto(s, "settled")
    /\ UNCHANGED meter

\* _open_run; a run without a key goes on to build its graph.
OpenRun(s, r) ==
    /\ stream[s].pc = "created" /\ stream[s].resume = None
    /\ \A q \in RunIds : q < r => Exists(q)
    /\ CreateRun(r, stream[s].wf)
    /\ stream' = [stream EXCEPT ![s] = Moved(@, r, "lookup", 0, None, None)]
    /\ UNCHANGED <<thread, cache, log, meter, effects>>

Live(entry) == entry.run # None /\ entry.until > clock

CacheHit(s) ==
    /\ stream[s].pc = "lookup" /\ HasKey(s) /\ Live(cache[Key(s)])
    /\ Settle(s, stream[s].run, "completed", None)
    /\ UNCHANGED <<thread, cache, effects>>

\* _prepare succeeded: the graph starts, and the checkpointer saves its input.
EnterGraph(s) ==
    /\ stream[s].pc = "lookup" /\ ~(HasKey(s) /\ Live(cache[Key(s)]))
    /\ stream' = [stream EXCEPT ![s] =
                        Moved(@, @.run, PcAt(@.wf, 1), 1, None, None)]
    /\ SaveThread(s, 1, FALSE, None)
    /\ UNCHANGED <<storeVars, cache, log, meter, effects>>

\* Command(resume = ...): the graph continues from the checkpoint.  The verdict
\* answers the gate that the checkpoint stands at, if it still stands at one.
AtGate(wf, pos) == pos \in DOMAIN Graph[wf] /\ Graph[wf][pos] = "gate"

ReenterGraph(s) ==
    /\ stream[s].pc = "created" /\ stream[s].resume # None
    /\ LET t == thread[stream[s].run] IN
        stream' = [stream EXCEPT ![s] =
                        Moved(@, @.run, PcAt(@.wf, t.at), t.at, t.verdict,
                              IF AtGate(@.wf, t.at) THEN @.resume ELSE None)]
    /\ UNCHANGED <<storeVars, thread, cache, log, meter, effects>>

StartNode(s) ==
    /\ stream[s].pc = "graph"
    /\ Goto(s, "node")
    /\ UNCHANGED <<storeVars, thread, cache, log, meter, effects>>

\* The node ran, and the checkpointer saved what follows it.
Advance(s, verdict) ==
    LET next == stream[s].pos + 1 IN
        /\ stream' = [stream EXCEPT ![s] =
                        Moved(@, @.run, PcAt(@.wf, next), next, verdict, None)]
        /\ SaveThread(s, next, FALSE, verdict)

FinishWork(s) ==
    /\ stream[s].pc = "node" /\ Nodes(s)[stream[s].pos] = "work"
    /\ Advance(s, stream[s].verdict)
    /\ effects' = [effects EXCEPT ![stream[s].run] =
                        Append(@, [node |-> stream[s].pos,
                                   verdict |-> stream[s].verdict])]
    /\ UNCHANGED <<storeVars, cache, log, meter>>

PassGate(s) ==
    /\ stream[s].pc = "node" /\ Nodes(s)[stream[s].pos] = "gate"
    /\ stream[s].resume # None
    /\ Advance(s, stream[s].resume)
    /\ UNCHANGED <<storeVars, cache, log, meter, effects>>

\* interrupt() ends the event stream.
Interrupt(s) ==
    /\ stream[s].pc = "node" /\ Nodes(s)[stream[s].pos] = "gate"
    /\ stream[s].resume = None
    /\ SaveThread(s, stream[s].pos, TRUE, stream[s].verdict)
    /\ Goto(s, "ended")
    /\ UNCHANGED <<storeVars, cache, log, meter, effects>>

\* _pending_interrupt asks the checkpoint, whoever's interrupt it holds.
Pause(s, gate) ==
    /\ stream[s].pc = "ended" /\ thread[stream[s].run].waiting
    /\ Settle(s, stream[s].run, "awaiting_decision", gate)
    /\ UNCHANGED <<thread, cache, effects>>

\* validate_output accepted the output; the cache is written first.
ProduceOutput(s) ==
    /\ stream[s].pc = "ended" /\ ~thread[stream[s].run].waiting
    /\ cache' = IF HasKey(s)
                THEN [cache EXCEPT ![Key(s)] =
                        [run |-> stream[s].run, until |-> clock + CacheTtl]]
                ELSE cache
    /\ Goto(s, "storing")
    /\ UNCHANGED <<storeVars, thread, log, meter, effects>>

Complete(s) ==
    /\ stream[s].pc = "storing"
    /\ Settle(s, stream[s].run, "completed", None)
    /\ UNCHANGED <<thread, cache, effects>>

\* An exception of _prepare, of a node, of the graph, of validate_output or
\* of the cache, which may have stored the output nevertheless.
Fail(s) ==
    /\ \/ stream[s].pc \in Suspended
       \/ stream[s].pc = "created" /\ stream[s].resume # None
    /\ Settle(s, stream[s].run, "failed", None)
    /\ UNCHANGED <<thread, cache, effects>>

\* The `finally` of _stream.
Meter(s) == meter' = [meter EXCEPT ![stream[s].run] = @ + 1]

Close(s) ==
    /\ stream[s].pc = "settled"
    /\ Goto(s, "closed")
    /\ Meter(s)
    /\ UNCHANGED <<storeVars, thread, cache, log, effects>>

\* The client goes away.
Disconnect(s) ==
    /\ MayDisconnect
    /\ stream[s].pc \in Suspended
    /\ Goto(s, "lost")
    /\ Meter(s)
    /\ UNCHANGED <<storeVars, thread, cache, log, effects>>

\* ... before the body was pulled: a generator never started runs no finally.
NeverPulled(s) ==
    /\ MayDisconnect
    /\ stream[s].pc = "created"
    /\ Goto(s, "lost")
    /\ UNCHANGED <<storeVars, thread, cache, log, meter, effects>>

-----------------------------------------------------------------------------
\* What a stream does on its own, whatever the outcome of its nodes.
StreamStep(s) ==
    \/ \E r \in RunIds : OpenRun(s, r)
    \/ CacheHit(s)
    \/ EnterGraph(s)
    \/ ReenterGraph(s)
    \/ StartNode(s)
    \/ FinishWork(s)
    \/ PassGate(s)
    \/ Interrupt(s)
    \/ \E g \in Gates : Pause(s, g)
    \/ ProduceOutput(s)
    \/ Complete(s)
    \/ Fail(s)
    \/ Close(s)

RetentionJob == MayExpire /\ ExpireRuns /\ UNCHANGED apiVars
ApiTick == Tick /\ UNCHANGED apiVars

ApiNext ==
    \/ \E s \in Streams, wf \in Workflows, p \in Payloads : PostRun(s, wf, p)
    \/ \E s \in Streams, r \in RunIds, v \in Verdicts, c \in Comments,
          p \in Subjects : PostDecision(s, r, v, c, p)
    \/ \E s \in Streams : StreamStep(s) \/ Disconnect(s) \/ NeverPulled(s)
    \/ RetentionJob
    \/ ApiTick

ApiSpec == ApiInit /\ [][ApiNext]_runApiVars

\* The event loop serves every stream that its client still pulls.
FairApiSpec == ApiSpec /\ \A s \in Streams : WF_runApiVars(StreamStep(s))

-----------------------------------------------------------------------------
(* Properties *)

\* No node behind a gate is executed without a decision on record that says what
\* the node was told: the audit trail precedes its effect, whoever crashes,
\* disconnects or decides at the same time (routes.py:289-291).
BehindGate(wf, n) == \E g \in 1 .. (n - 1) : Graph[wf][g] = "gate"

OnRecord(r, v) == \E i \in DOMAIN decisions[r] : decisions[r][i].verdict = v

EffectsAreDecided ==
    \A r \in RunIds : \A i \in DOMAIN effects[r] :
        BehindGate(runs[r].workflow, effects[r][i].node)
            => OnRecord(r, effects[r][i].verdict)

\* A node is executed at most once per decision taken, and once at all before
\* the first gate, although clients retry decisions and resumptions overlap
\* (routes.py:312-318: a retry must not double the side effects).
TimesExecuted(r, n) == Cardinality({i \in DOMAIN effects[r] : effects[r][i].node = n})

EffectsNotRepeated ==
    \A r \in RunIds : runs[r].workflow # None =>
        \A n \in DOMAIN Graph[runs[r].workflow] :
            TimesExecuted(r, n) <= IF BehindGate(runs[r].workflow, n)
                                   THEN Len(decisions[r]) ELSE 1

\* The console and the API tell the same story: the last run-level row of a
\* run's log is its state.  Retention alone moves a run without a row.
LogTellsTheState ==
    \A r \in RunIds :
        IF log[r] = <<>>
        THEN runs[r].state \in {"absent", "running"}
        ELSE runs[r].state \in {log[r][Len(log[r])], "cancelled"}

\* A run at a gate can be moved on: the checkpoint holds its interrupt, or a
\* decision has been taken and another may continue where that one got lost
\* (runner.py:258-263 and routes.py:289-291).
PausedRunsAreResumable ==
    \A r \in RunIds : runs[r].state = "awaiting_decision" =>
        /\ runs[r].gate_payload # None
        /\ thread[r].at > 0
        /\ thread[r].waiting \/ decisions[r] # <<>>

\* A cached output was computed for the same workflow, input and policy by a
\* run that executed every node; the run it belongs to may have failed since,
\* but never before its output was validated (cache.py:3-6, runner.py:197-200).
ComputedFor(r, k) ==
    /\ runs[r].workflow = k[1]
    /\ \E s \in Streams : /\ stream[s].run = r
                          /\ stream[s].payload = k[2]
                          /\ stream[s].pos > Len(Graph[k[1]])
    /\ \A n \in DOMAIN Graph[k[1]] : TimesExecuted(r, n) = 1

CacheHoldsOwnOutputs ==
    \A k \in DOMAIN cache : cache[k].run # None => ComputedFor(cache[k].run, k)

\* A run that was started settles, at its end, at a failure or at a gate,
\* unless the client of one of its streams went away.
Deserted(r) == \E s \in Streams : stream[s].run = r /\ stream[s].pc = "lost"

StartedRunsSettle ==
    \A r \in RunIds :
        runs[r].state = "running" ~> runs[r].state # "running" \/ Deserted(r)

\* No decision is swallowed: each one that is recorded brings its run to an end
\* or to a gate once more, also when several are taken while the first is still
\* being executed.
DecisionsTakeEffect ==
    \A r \in RunIds, n \in 1 .. MaxDecisions :
        Len(decisions[r]) >= n ~> Len(log[r]) > n \/ Deserted(r)

\* The lifecycle of a run, as the store, its decisions and the nodes executed tell it.
TheState == [r \in RunIds |-> runs[r].state]
TheWorkflow == [r \in RunIds |-> runs[r].workflow]
TheExecuted == [r \in RunIds |-> [i \in DOMAIN effects[r] |-> effects[r][i].node]]
TheDecided == [r \in RunIds |-> Len(decisions[r])]

LC == INSTANCE RunLifecycle WITH
        Runs <- RunIds,
        Cached <- Idempotent,
        state <- TheState,
        workflow <- TheWorkflow,
        executed <- TheExecuted,
        decided <- TheDecided

\* Reviewers who decide one gate at a time: a decision is taken for the gate the run
\* waits at, when every request about the run has stopped and every earlier decision
\* has opened its own gate.
Working(st) == \/ st.pc \in Suspended
               \/ st.pc = "created" /\ st.resume # None

AsksOnce(r) ==
    /\ \A s \in Streams : stream[s].run = r => ~Working(stream[s])
    /\ thread[r].waiting
    /\ LC!GatesUpTo(r, thread[r].at) = Len(decisions[r]) + 1

GateByGateNext ==
    \/ \E s \in Streams, wf \in Workflows, p \in Payloads : PostRun(s, wf, p)
    \/ \E s \in Streams, r \in RunIds, v \in Verdicts, c \in Comments,
          p \in Subjects : AsksOnce(r) /\ PostDecision(s, r, v, c, p)
    \/ \E s \in Streams : StreamStep(s) \/ Disconnect(s) \/ NeverPulled(s)
    \/ RetentionJob
    \/ ApiTick

GateByGateSpec == ApiInit /\ [][GateByGateNext]_runApiVars

\* With decisions taken gate by gate and no retention, the engine is the lifecycle:
\* nodes once and in order, gates that hold, ends that are final, whatever
\* disconnects (runner.py:132-310).
RefinesLifecycle == LC!Spec

\* What the code's own words say, and concurrent decisions break.

\* "Replaying the graph would double side effects" (routes.py:312-315): no node
\* is executed twice in a run.
NoNodeReplayed ==
    \A r \in RunIds : runs[r].workflow # None =>
        \A n \in DOMAIN Graph[runs[r].workflow] : TimesExecuted(r, n) <= 1
=============================================================================
