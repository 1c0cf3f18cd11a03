---------------------------- MODULE RunApiProofs ----------------------------
(***************************************************************************)
(* The engine over the store, for any workflows, requests and clients.     *)
(*                                                                         *)
(*   ApiInv    follows a verdict from the decision to the node that sees   *)
(*             it: through the request that carries it, the state of the   *)
(*             graph, and the checkpoint from which another request may    *)
(*             pick the graph up.                                          *)
(*   StageInv  says how far a request has come: the one that created a run *)
(*             stops at the first gate, those that decisions opened are    *)
(*             at a gate or behind one.                                    *)
(*   CountInv  charges every execution of a node to the request that made  *)
(*             it, and every request behind a gate to its decision.        *)
(*   CacheInv  keeps the request that computed a cached output.            *)
(*   LifeInv   says, when reviewers decide gate by gate, that one request  *)
(*             works on a run, and where: its position, the nodes executed *)
(*             and the decisions agree.                                    *)
(***************************************************************************)
EXTENDS RunApi, RunStoreProofs, FiniteSetTheorems

USE RunIdsAreOrdered, LeaseSecondsAreDurations, NoneIsNoValue,
    CacheTtlIsADuration, NoneIsNoRequest

StreamOK(st) ==
    /\ IF st.pc = "free" THEN st.resume = None ELSE st.wf \in Workflows
    /\ st.pc \in Suspended \cup {"settled"} => st.run # None
    /\ st.run # None => Exists(st.run) /\ runs[st.run].workflow = st.wf
    /\ st.resume # None => st.run # None /\ OnRecord(st.run, st.resume)
    /\ st.verdict # None => st.run # None /\ OnRecord(st.run, st.verdict)
    /\ st.pc # "free" /\ BehindGate(st.wf, st.pos) => st.verdict # None

ThreadOK(r, t) ==
    /\ ~Exists(r) => t.at = 0
    /\ t.verdict # None => OnRecord(r, t.verdict)
    /\ BehindGate(runs[r].workflow, t.at) => t.verdict # None

EffectOK(r, e) ==
    /\ Exists(r)
    /\ BehindGate(runs[r].workflow, e.node) => OnRecord(r, e.verdict)

StreamsOK == \A s \in Streams : StreamOK(stream[s])
ThreadsOK == \A r \in RunIds : ThreadOK(r, thread[r])
EffectsOK == \A r \in RunIds : \A i \in DOMAIN effects[r] : EffectOK(r, effects[r][i])
RunsOK == \A r \in RunIds : Exists(r) => runs[r].workflow \in Workflows

ApiInv == ApiTypeOK /\ StreamsOK /\ ThreadsOK /\ EffectsOK /\ RunsOK

-----------------------------------------------------------------------------
(* What the store keeps: runs, their workflows and the decisions on them. *)

Kept(r) ==
    /\ Exists(r) => Exists(r)' /\ runs'[r].workflow = runs[r].workflow
    /\ Exists(r)' => Exists(r) \/ runs'[r].workflow \in Workflows
    /\ \A v : OnRecord(r, v) => OnRecord(r, v)'

LEMMA StoreKeeps ==
    ASSUME TypeOK, [Next]_storeVars, NEW q \in RunIds
    PROVE  Kept(q)
<1> USE DEF Kept, Exists, OnRecord
<1>1. ASSUME NEW r \in RunIds, NEW wf \in Workflows, CreateRun(r, wf)
      PROVE  Kept(q)
  <2>1. runs'[r].workflow = wf /\ \A p \in RunIds \ {r} : runs'[p] = runs[p]
    BY <1>1 DEF CreateRun, NewRecord, TypeOK
  <2>2. UNCHANGED decisions /\ runs[r].state = "absent"
    BY <1>1 DEF CreateRun
  <2> QED
    BY <2>1, <2>2
<1>2. ASSUME NEW r \in RunIds, NEW s \in RunState, NEW g \in Gates \cup {None},
             MarkState(r, s, g)
      PROVE  Kept(q)
  <2>1. runs'[r].workflow = runs[r].workflow /\ runs'[r].state # "absent"
    BY <1>2 DEF MarkState, Marked, Updated, TypeOK, RunState
  <2>2. UNCHANGED decisions /\ \A p \in RunIds \ {r} : runs'[p] = runs[p]
    BY <1>2 DEF MarkState, TypeOK
  <2>3. runs[r].state # "absent"
    BY <1>2 DEF MarkState
  <2> QED
    BY <2>1, <2>2, <2>3
<1>3. /\ \A p \in RunIds : /\ (runs[p].state = "absent") <=> (Reclaimed[p].state = "absent")
                           /\ Reclaimed[p].workflow = runs[p].workflow
      /\ DOMAIN Reclaimed = RunIds
  <2>1. \A p \in RunIds :
            Reclaimed[p] = IF IsStranded(p) THEN Requeued(runs[p]) ELSE runs[p]
    BY DEF Reclaimed
  <2> QED
    BY <2>1 DEF Reclaimed, Requeued, Updated, IsStranded
<1>4. ASSUME NEW w \in Workers, NEW wfs \in SUBSET Workflows,
             NEW n \in LeaseSeconds, NEW r \in RunIds, ClaimRun(w, wfs, n, r)
      PROVE  Kept(q)
  <2>1. runs'[r].workflow = runs[r].workflow /\ runs'[r].state = "running"
    BY <1>3, <1>4 DEF ClaimRun, Leased, Updated
  <2>2. UNCHANGED decisions /\ \A p \in RunIds \ {r} : runs'[p] = Reclaimed[p]
    BY <1>3, <1>4 DEF ClaimRun
  <2>3. runs[r].state # "absent"
    BY <1>3, <1>4 DEF ClaimRun, Claimable
  <2> QED
    BY <1>3, <2>1, <2>2, <2>3
<1>5. ASSUME ReclaimExpiredLeases
      PROVE  Kept(q)
  BY <1>3, <1>5 DEF ReclaimExpiredLeases
<1>6. ASSUME NEW r \in RunIds, NEW w \in Workers, NEW n \in LeaseSeconds,
             RenewLease(r, w, n)
      PROVE  Kept(q)
  BY <1>6 DEF RenewLease, Renewed, Updated, TypeOK
<1>7. ASSUME NEW r \in RunIds, NEW v \in Verdicts, NEW c \in Comments,
             NEW p \in Subjects, AppendDecision(r, v, c, p)
      PROVE  Kept(q)
  <2>1. decisions[q] \in Seq(DecisionRecord)
    BY DEF TypeOK
  <2>2. CASE q # r
    BY <1>7, <2>2 DEF AppendDecision, TypeOK
  <2>3. CASE q = r
    <3>1. decisions'[q] = Append(decisions[q], NewDecision(r, v, c, p))
      BY <1>7, <2>3 DEF AppendDecision, TypeOK
    <3>2. \A i \in DOMAIN decisions[q] :
              i \in DOMAIN decisions'[q] /\ decisions'[q][i] = decisions[q][i]
      BY <2>1, <3>1
    <3> QED
      BY <1>7, <3>2 DEF AppendDecision
  <2> QED
    BY <2>2, <2>3
<1>8. ASSUME ExpireRuns
      PROVE  Kept(q)
  <2>1. runs'[q] = IF IsAbandoned(q) THEN Cancelled(runs[q]) ELSE runs[q]
    BY <1>8 DEF ExpireRuns
  <2> QED
    BY <1>8, <2>1 DEF ExpireRuns, IsAbandoned, Cancelled, Updated
<1>9. ASSUME Tick
      PROVE  Kept(q)
  BY <1>9 DEF Tick
<1>10. CASE UNCHANGED storeVars
  BY <1>10 DEF storeVars
<1> QED
  BY <1>1, <1>2, <1>4, <1>5, <1>6, <1>7, <1>8, <1>9, <1>10 DEF Next, ClaimNothing

\* The engine uses the store through its operations only.
LEMMA ApiStepsAreStoreSteps ==
    ASSUME ApiInv, [ApiNext]_runApiVars
    PROVE  [Next]_storeVars
<1> USE DEF Next
<1>1. ASSUME NEW s \in Streams, NEW state \in RunState, NEW g \in Gates \cup {None},
             stream[s].run # None, Settle(s, stream[s].run, state, g)
      PROVE  Next
  <2>1. stream[s].run \in RunIds
    BY <1>1 DEF ApiInv, ApiTypeOK, StreamRecord
  <2> QED
    BY <1>1, <2>1 DEF Settle, Logged
<1>2. ASSUME NEW s \in Streams, stream[s].pc \in Suspended \/ stream[s].resume # None
      PROVE  stream[s].run # None
  BY <1>2 DEF ApiInv, StreamsOK, StreamOK
<1>3. ASSUME NEW s \in Streams, CacheHit(s) \/ Complete(s) \/ Fail(s)
      PROVE  Next
  <2>1. stream[s].run # None
    BY <1>2, <1>3 DEF CacheHit, Complete, Fail, Suspended
  <2>2. "completed" \in RunState /\ "failed" \in RunState /\ None \in Gates \cup {None}
    BY DEF RunState
  <2> QED
    BY <1>1, <1>3, <2>1, <2>2 DEF CacheHit, Complete, Fail
<1>4. ASSUME NEW s \in Streams, NEW g \in Gates, Pause(s, g)
      PROVE  Next
  <2>1. stream[s].run # None
    BY <1>2, <1>4 DEF Pause, Suspended
  <2>2. "awaiting_decision" \in RunState /\ g \in Gates \cup {None}
    BY DEF RunState
  <2> QED
    BY <1>1, <1>4, <2>1, <2>2 DEF Pause
<1>5. ASSUME NEW s \in Streams, NEW r \in RunIds, OpenRun(s, r)
      PROVE  Next
  <2>1. stream[s].wf \in Workflows
    BY <1>5 DEF OpenRun, ApiInv, StreamsOK, StreamOK
  <2> QED
    BY <1>5, <2>1 DEF OpenRun
<1>6. ASSUME NEW s \in Streams, StreamStep(s)
      PROVE  Next \/ UNCHANGED storeVars
  BY <1>3, <1>4, <1>5, <1>6
     DEF StreamStep, EnterGraph, ReenterGraph, StartNode, FinishWork, PassGate,
         Interrupt, ProduceOutput, Close
<1>7. ASSUME NEW s \in Streams, NEW r \in RunIds, NEW v \in Verdicts,
             NEW c \in Comments, NEW p \in Subjects, PostDecision(s, r, v, c, p)
      PROVE  Next
  BY <1>7 DEF PostDecision
<1>8. ASSUME NEW s \in Streams, Disconnect(s) \/ NeverPulled(s)
      PROVE  UNCHANGED storeVars
  BY <1>8 DEF Disconnect, NeverPulled
<1>9. ASSUME NEW s \in Streams, NEW wf \in Workflows, NEW p \in Payloads,
             PostRun(s, wf, p)
      PROVE  UNCHANGED storeVars
  BY <1>9 DEF PostRun
<1>10. CASE RetentionJob \/ ApiTick
  BY <1>10 DEF RetentionJob, ApiTick
<1>11. CASE UNCHANGED runApiVars
  BY <1>11 DEF runApiVars, storeVars
<1> QED
  BY <1>6, <1>7, <1>8, <1>9, <1>10, <1>11 DEF ApiNext

-----------------------------------------------------------------------------
(* Steps seen as replacements of one stream, one thread, one list of effects *)

\* A stream that is in order before the store moves is in order after.
LEMMA StreamKept ==
    ASSUME ApiInv, [Next]_storeVars, NEW st \in StreamRecord, StreamOK(st)
    PROVE  StreamOK(st)'
<1>1. st.run # None => st.run \in RunIds /\ Kept(st.run)
  BY StoreKeeps DEF ApiInv, ApiTypeOK, StreamRecord
<1> QED
  BY <1>1 DEF StreamOK, Kept, Exists, OnRecord

LEMMA StreamReplaced ==
    ASSUME ApiInv, [Next]_storeVars, NEW s \in Streams,
           NEW x \in StreamRecord, StreamOK(x)',
           stream' = [stream EXCEPT ![s] = x]
    PROVE  StreamsOK' /\ stream' \in [Streams -> StreamRecord]
<1>1. stream \in [Streams -> StreamRecord]
  BY DEF ApiInv, ApiTypeOK
<1>2. stream' \in [Streams -> StreamRecord]
  BY <1>1
<1>3. ASSUME NEW t \in Streams
      PROVE  StreamOK(stream[t])'
  <2>1. CASE t = s
    <3>1. stream'[t] = x
      BY <1>1, <2>1
    <3> QED
      BY <3>1 DEF StreamOK, Exists, OnRecord
  <2>2. CASE t # s
    <3>1. stream'[t] = stream[t]
      BY <1>1, <2>2
    <3>2. stream[t] \in StreamRecord /\ StreamOK(stream[t])
      BY <1>1 DEF ApiInv, StreamsOK
    <3> DEFINE old == stream[t]
    <3>3. old.run # None => old.run \in RunIds /\ Kept(old.run)
      BY <3>2, StoreKeeps DEF ApiInv, ApiTypeOK, StreamRecord
    <3> QED
      BY <3>1, <3>2, <3>3 DEF StreamOK, Kept, Exists, OnRecord
  <2> QED
    BY <2>1, <2>2
<1> QED
  BY <1>2, <1>3 DEF StreamsOK

\* The common case: the new value is in order already before the step.
LEMMA StreamMoved ==
    ASSUME ApiInv, [Next]_storeVars, NEW s \in Streams,
           NEW x \in StreamRecord, StreamOK(x),
           stream' = [stream EXCEPT ![s] = x]
    PROVE  StreamsOK' /\ stream' \in [Streams -> StreamRecord]
BY StreamKept, StreamReplaced

\* A request whose run is open goes on under the same run and verdicts.
LEMMA GotoKeepsStreams ==
    ASSUME ApiInv, [Next]_storeVars, NEW s \in Streams, NEW pc \in Pc \ {"free"},
           Goto(s, pc), stream[s].pc # "free",
           stream[s].run # None \/ pc \notin Suspended \cup {"settled"}
    PROVE  StreamsOK' /\ stream' \in [Streams -> StreamRecord]
<1> DEFINE st == stream[s]
           x == Moved(st, st.run, pc, st.pos, st.verdict, st.resume)
<1>1. st \in StreamRecord /\ StreamOK(st)
  BY DEF ApiInv, ApiTypeOK, StreamsOK
<1>2. x \in StreamRecord
  BY <1>1 DEF StreamRecord, Moved
<1>3. StreamOK(x)
  BY <1>1 DEF StreamOK, Moved
<1>4. stream' = [stream EXCEPT ![s] = x]
  BY DEF Goto, ApiInv, ApiTypeOK
<1> HIDE DEF x
<1> QED
  BY <1>2, <1>3, <1>4, StreamMoved

LEMMA ThreadsKept ==
    ASSUME ApiInv, [Next]_storeVars, UNCHANGED thread
    PROVE  ThreadsOK' /\ thread' \in [RunIds -> ThreadRecord]
<1> SUFFICES ASSUME NEW r \in RunIds
             PROVE  ThreadOK(r, thread[r])'
  BY DEF ThreadsOK, ApiInv, ApiTypeOK
<1>1. Kept(r) /\ ThreadOK(r, thread[r]) /\ thread[r] \in ThreadRecord
  BY StoreKeeps DEF ApiInv, ApiTypeOK, ThreadsOK
<1>2. CASE Exists(r)
  BY <1>1, <1>2 DEF ThreadOK, Kept, Exists, OnRecord
<1>3. CASE ~Exists(r)
  <2>1. thread[r].at = 0
    BY <1>1, <1>3 DEF ThreadOK
  <2> QED
    BY <1>1, <2>1 DEF ThreadOK, BehindGate, Kept, OnRecord
<1> QED
  BY <1>2, <1>3

LEMMA EffectsKept ==
    ASSUME ApiInv, [Next]_storeVars, UNCHANGED effects
    PROVE  EffectsOK' /\ effects' \in [RunIds -> Seq(Effect)]
<1> SUFFICES ASSUME NEW r \in RunIds, NEW i \in DOMAIN effects[r]
             PROVE  EffectOK(r, effects[r][i])'
  BY DEF EffectsOK, ApiInv, ApiTypeOK
<1>1. Kept(r) /\ EffectOK(r, effects[r][i])
  BY StoreKeeps DEF ApiInv, ApiTypeOK, EffectsOK
<1> QED
  BY <1>1 DEF EffectOK, Kept, Exists, OnRecord

LEMMA RunsKept ==
    ASSUME ApiInv, [Next]_storeVars
    PROVE  RunsOK'
<1> SUFFICES ASSUME NEW r \in RunIds, Exists(r)'
             PROVE  runs'[r].workflow \in Workflows
  BY DEF RunsOK
<1> QED
  BY StoreKeeps DEF ApiInv, ApiTypeOK, RunsOK, Kept

-----------------------------------------------------------------------------
(* The steps, one conjunct of the invariant at a time *)

LEMMA OpenStream ==
    ASSUME ApiInv, NEW s \in Streams,
           stream[s].pc \in Suspended \cup {"settled"} \/ stream[s].resume # None
    PROVE  /\ stream[s].run \in RunIds /\ stream[s].wf \in Workflows
           /\ Exists(stream[s].run) /\ runs[stream[s].run].workflow = stream[s].wf
           /\ stream[s].pc # "free"
<1>1. stream[s] \in StreamRecord /\ StreamOK(stream[s])
  BY DEF ApiInv, ApiTypeOK, StreamsOK
<1>2. stream[s].run # None
  BY <1>1 DEF StreamOK
<1>3. stream[s].run \in RunIds
  BY <1>1, <1>2 DEF StreamRecord
<1>4. Exists(stream[s].run) /\ runs[stream[s].run].workflow = stream[s].wf
  BY <1>1, <1>2 DEF StreamOK
<1>5. stream[s].wf \in Workflows
  BY <1>3, <1>4 DEF ApiInv, RunsOK
<1>6. stream[s].pc # "free"
  BY <1>1 DEF StreamOK, Suspended
<1> QED
  BY <1>3, <1>4, <1>5, <1>6

LEMMA GateBehind ==
    ASSUME NEW wf, NEW n \in Nat
    PROVE  /\ ~BehindGate(wf, 0) /\ ~BehindGate(wf, 1)
           /\ BehindGate(wf, n + 1) => BehindGate(wf, n) \/ Graph[wf][n] = "gate"
BY DEF BehindGate

LEMMA StreamsInductive ==
    ASSUME ApiInv, [ApiNext]_runApiVars
    PROVE  StreamsOK' /\ stream' \in [Streams -> StreamRecord]
<1> DEFINE Goal == StreamsOK' /\ stream' \in [Streams -> StreamRecord]
<1>0. [Next]_storeVars
  BY ApiStepsAreStoreSteps
<1>1. ASSUME NEW s \in Streams
      PROVE  stream[s] \in StreamRecord /\ StreamOK(stream[s])
  BY DEF ApiInv, ApiTypeOK, StreamsOK
<1>2. ASSUME NEW s \in Streams, NEW wf \in Workflows, NEW p \in Payloads,
             PostRun(s, wf, p)
      PROVE  Goal
  <2> DEFINE x == Created(None, wf, p, None)
  <2>1. x \in StreamRecord
    BY DEF Created, StreamRecord, Pc
  <2>2. StreamOK(x)
    BY GateBehind DEF Created, StreamOK, Suspended
  <2>3. stream' = [stream EXCEPT ![s] = x]
    BY <1>2 DEF PostRun
  <2> HIDE DEF x
  <2> QED
    BY <1>0, <2>1, <2>2, <2>3, StreamMoved
<1>3. ASSUME NEW s \in Streams, NEW r \in RunIds, NEW v \in Verdicts,
             NEW c \in Comments, NEW p \in Subjects, PostDecision(s, r, v, c, p)
      PROVE  Goal
  <2>1. Exists(r)
    BY <1>3 DEF PostDecision, AppendDecision, Exists
  <2>2. runs[r].workflow \in Workflows
    BY <2>1 DEF ApiInv, RunsOK
  <2>3. PICK x \in StreamRecord : x = Created(r, runs[r].workflow, None, v)
    BY <2>2 DEF Created, StreamRecord, Pc
  <2>4. decisions'[r] = Append(decisions[r], NewDecision(r, v, c, p))
    BY <1>3 DEF PostDecision, AppendDecision, ApiInv, ApiTypeOK, TypeOK
  <2>5. decisions[r] \in Seq(DecisionRecord)
    BY DEF ApiInv, ApiTypeOK, TypeOK
  <2>6. /\ Len(decisions[r]) + 1 \in DOMAIN decisions'[r]
        /\ decisions'[r][Len(decisions[r]) + 1].verdict = v
    BY <2>4, <2>5 DEF NewDecision
  <2>7. OnRecord(r, v)'
    BY <2>6 DEF OnRecord
  <2>8. UNCHANGED runs
    BY <1>3 DEF PostDecision, AppendDecision
  <2>9. /\ x.pc = "created" /\ x.run = r /\ x.wf = runs[r].workflow
        /\ x.resume = v /\ x.verdict = None /\ x.pos = 0
    BY <2>3 DEF Created
  <2>10. StreamOK(x)'
    BY <2>1, <2>2, <2>7, <2>8, <2>9, GateBehind DEF StreamOK, Suspended, Exists
  <2>11. stream' = [stream EXCEPT ![s] = x]
    BY <1>3, <2>3 DEF PostDecision, Resumed
  <2> QED
    BY <1>0, <2>10, <2>11, StreamReplaced
<1>4. ASSUME NEW s \in Streams, NEW r \in RunIds, OpenRun(s, r)
      PROVE  Goal
  <2>1. stream[s].wf \in Workflows /\ stream[s].payload \in Payloads \cup {None}
    BY <1>1, <1>4 DEF OpenRun, StreamOK, StreamRecord
  <2>2. PICK x \in StreamRecord : x = Moved(stream[s], r, "lookup", 0, None, None)
    BY <2>1 DEF Moved, StreamRecord, Pc
  <2>3. runs'[r] = NewRecord(stream[s].wf)
    BY <1>4 DEF OpenRun, CreateRun, ApiInv, ApiTypeOK, TypeOK
  <2>4. /\ x.pc = "lookup" /\ x.run = r /\ x.wf = stream[s].wf
        /\ x.resume = None /\ x.verdict = None /\ x.pos = 0
    BY <2>2 DEF Moved
  <2>5. runs'[r].workflow = x.wf /\ runs'[r].state # "absent"
    BY <2>3, <2>4 DEF NewRecord
  <2>6. StreamOK(x)'
    BY <2>1, <2>4, <2>5, GateBehind DEF StreamOK, Exists
  <2>7. stream' = [stream EXCEPT ![s] = x]
    BY <1>4, <2>2 DEF OpenRun, ApiInv, ApiTypeOK
  <2> QED
    BY <1>0, <2>6, <2>7, StreamReplaced
<1>5. ASSUME NEW s \in Streams, EnterGraph(s)
      PROVE  Goal
  <2> DEFINE st == stream[s]
             x == Moved(st, st.run, PcAt(st.wf, 1), 1, None, None)
  <2>1. x \in StreamRecord
    BY <1>1 DEF Moved, StreamRecord, PcAt, Pc
  <2>2. StreamOK(x)
    BY <1>1, <1>5, GateBehind DEF EnterGraph, Moved, StreamOK, PcAt, Suspended
  <2>3. stream' = [stream EXCEPT ![s] = x]
    BY <1>5 DEF EnterGraph, ApiInv, ApiTypeOK
  <2> HIDE DEF x
  <2> QED
    BY <1>0, <2>1, <2>2, <2>3, StreamMoved
<1>6. ASSUME NEW s \in Streams, ReenterGraph(s)
      PROVE  Goal
  <2> DEFINE st == stream[s]
             t == thread[st.run]
             x == Moved(st, st.run, PcAt(st.wf, t.at), t.at, t.verdict,
                        IF AtGate(st.wf, t.at) THEN st.resume ELSE None)
  <2>0. /\ st.run \in RunIds /\ st.wf \in Workflows
        /\ Exists(st.run) /\ runs[st.run].workflow = st.wf
    BY <1>6, OpenStream DEF ReenterGraph
  <2>1. t \in ThreadRecord /\ ThreadOK(st.run, t)
    BY <2>0 DEF ApiInv, ApiTypeOK, ThreadsOK
  <2>2. x \in StreamRecord
    BY <1>1, <2>1 DEF Moved, StreamRecord, ThreadRecord, PcAt, Pc
  <2>3. StreamOK(x)
    BY <1>1, <2>0, <2>1 DEF Moved, StreamOK, ThreadOK, PcAt, Suspended
  <2>4. stream' = [stream EXCEPT ![s] = x]
    BY <1>6 DEF ReenterGraph, ApiInv, ApiTypeOK
  <2> HIDE DEF x
  <2> QED
    BY <1>0, <2>2, <2>3, <2>4, StreamMoved
<1>7. ASSUME NEW s \in Streams, NEW v \in Verdicts \cup {None}, Advance(s, v),
             stream[s].pc = "node",
             \/ v = stream[s].verdict /\ Nodes(s)[stream[s].pos] # "gate"
             \/ v = stream[s].resume /\ v # None
      PROVE  Goal
  <2> DEFINE st == stream[s]
             next == st.pos + 1
             x == Moved(st, st.run, PcAt(st.wf, next), next, v, None)
  <2>0. /\ st.run \in RunIds /\ st.wf \in Workflows
        /\ Exists(st.run) /\ runs[st.run].workflow = st.wf
    BY <1>7, OpenStream DEF Suspended
  <2>1. st \in StreamRecord /\ StreamOK(st) /\ st.pos \in Nat
    BY <1>1 DEF StreamRecord
  <2>2. x \in StreamRecord
    BY <2>1 DEF Moved, StreamRecord, PcAt, Pc
  <2>3. BehindGate(st.wf, next) => v # None
    BY <1>7, <2>1, GateBehind DEF StreamOK, Nodes
  <2>4. v # None => OnRecord(st.run, v)
    BY <1>7, <2>1 DEF StreamOK
  <2>5. StreamOK(x)
    BY <2>0, <2>3, <2>4 DEF Moved, StreamOK
  <2>6. stream' = [stream EXCEPT ![s] = x]
    BY <1>7 DEF Advance, ApiInv, ApiTypeOK
  <2> HIDE DEF x
  <2> QED
    BY <1>0, <2>2, <2>5, <2>6, StreamMoved
<1>8. ASSUME NEW s \in Streams, FinishWork(s) \/ PassGate(s)
      PROVE  Goal
  <2>1. stream[s].verdict \in Verdicts \cup {None} /\ stream[s].resume \in Verdicts \cup {None}
    BY <1>1 DEF StreamRecord
  <2> QED
    BY <1>7, <1>8, <2>1 DEF FinishWork, PassGate
<1>9. ASSUME NEW s \in Streams, NEW pc \in Pc \ {"free"}, Goto(s, pc),
             stream[s].pc # "free",
             \/ stream[s].pc \in Suspended \cup {"settled"}
             \/ stream[s].resume # None
             \/ pc \notin Suspended \cup {"settled"}
      PROVE  Goal
  <2>1. stream[s].run # None \/ pc \notin Suspended \cup {"settled"}
    BY <1>9, OpenStream
  <2> QED
    BY <1>0, <1>9, <2>1, GotoKeepsStreams
<1>10. ASSUME NEW s \in Streams,
              \/ CacheHit(s) \/ StartNode(s) \/ Interrupt(s)
              \/ \E g \in Gates : Pause(s, g)
              \/ ProduceOutput(s) \/ Complete(s) \/ Fail(s) \/ Close(s)
              \/ Disconnect(s) \/ NeverPulled(s)
       PROVE  Goal
  <2>1. {"node", "ended", "settled", "storing", "closed", "lost"} \subseteq Pc \ {"free"}
    BY DEF Pc
  <2>2. \E pc \in {"node", "ended", "settled", "storing", "closed", "lost"} : Goto(s, pc)
    BY <1>10 DEF CacheHit, StartNode, Interrupt, Pause, ProduceOutput, Complete,
                 Fail, Close, Disconnect, NeverPulled, Settle, Logged
  <2>3. \/ stream[s].pc \in Suspended \cup {"settled"}
        \/ stream[s].resume # None
        \/ Goto(s, "lost") /\ stream[s].pc # "free"
    BY <1>10 DEF CacheHit, StartNode, Interrupt, Pause, ProduceOutput, Complete,
                 Fail, Close, Disconnect, NeverPulled, Suspended
  <2>4. CASE Goto(s, "lost") /\ stream[s].pc # "free"
    BY <1>9, <2>1, <2>4 DEF Suspended
  <2>5. CASE \/ stream[s].pc \in Suspended \cup {"settled"}
             \/ stream[s].resume # None
    <3>1. stream[s].pc # "free"
      BY <2>5, OpenStream
    <3> QED
      BY <1>9, <2>1, <2>2, <2>5, <3>1
  <2> QED
    BY <2>3, <2>4, <2>5
<1>11. CASE UNCHANGED stream
  <2>1. \A s \in Streams : StreamOK(stream[s])'
    <3> SUFFICES ASSUME NEW s \in Streams
                 PROVE  StreamOK(stream[s])'
      OBVIOUS
    <3> DEFINE st == stream[s]
    <3>1. st.run # None => st.run \in RunIds /\ Kept(st.run)
      BY <1>0, <1>1, StoreKeeps DEF ApiInv, ApiTypeOK, StreamRecord
    <3> QED
      BY <1>1, <1>11, <3>1 DEF StreamOK, Kept, Exists, OnRecord
  <2> QED
    BY <1>11, <2>1 DEF StreamsOK, ApiInv, ApiTypeOK
<1>12. CASE RetentionJob \/ ApiTick \/ UNCHANGED runApiVars
  BY <1>11, <1>12 DEF RetentionJob, ApiTick, apiVars, runApiVars
<1> QED
  BY <1>2, <1>3, <1>4, <1>5, <1>6, <1>8, <1>10, <1>12 DEF ApiNext, StreamStep

LEMMA SaveKeepsThreads ==
    ASSUME ApiInv, [Next]_storeVars, NEW s \in Streams,
           NEW pos \in Nat, NEW wait \in BOOLEAN, NEW v \in Verdicts \cup {None},
           stream[s].pc \in Suspended \/ stream[s].resume # None,
           SaveThread(s, pos, wait, v),
           v # None => OnRecord(stream[s].run, v),
           BehindGate(stream[s].wf, pos) => v # None
    PROVE  ThreadsOK' /\ thread' \in [RunIds -> ThreadRecord]
<1> DEFINE run == stream[s].run
           new == [at |-> pos, waiting |-> wait, verdict |-> v]
<1>1. CASE UNCHANGED thread
  BY <1>1, ThreadsKept
<1>2. CASE thread' = [thread EXCEPT ![run] = new]
  <2>1. run \in RunIds /\ Exists(run) /\ runs[run].workflow = stream[s].wf
    BY OpenStream
  <2>2. thread \in [RunIds -> ThreadRecord] /\ new \in ThreadRecord
    BY DEF ApiInv, ApiTypeOK, ThreadRecord
  <2>3. ASSUME NEW r \in RunIds
        PROVE  ThreadOK(r, thread[r])'
    <3>0. Kept(r) /\ ThreadOK(r, thread[r])
      BY StoreKeeps DEF ApiInv, ApiTypeOK, ThreadsOK
    <3>1. CASE r = run
      <4>1. thread'[r] = new
        BY <1>2, <2>1, <2>2, <3>1
      <4> QED
        BY <2>1, <3>0, <3>1, <4>1 DEF ThreadOK, Kept, Exists, OnRecord
    <3>2. CASE r # run
      <4>1. thread'[r] = thread[r]
        BY <1>2, <2>2, <3>2
      <4>2. CASE Exists(r)
        BY <3>0, <4>1, <4>2 DEF ThreadOK, Kept, Exists, OnRecord
      <4>3. CASE ~Exists(r)
        <5>1. thread[r].at = 0
          BY <3>0, <4>3 DEF ThreadOK
        <5> QED
          BY <3>0, <4>1, <5>1 DEF ThreadOK, BehindGate, Kept, OnRecord
      <4> QED
        BY <4>2, <4>3
    <3> QED
      BY <3>1, <3>2
  <2> QED
    BY <1>2, <2>2, <2>3 DEF ThreadsOK
<1> QED
  BY <1>1, <1>2 DEF SaveThread

LEMMA ThreadsInductive ==
    ASSUME ApiInv, [ApiNext]_runApiVars
    PROVE  ThreadsOK' /\ thread' \in [RunIds -> ThreadRecord]
<1> DEFINE Goal == ThreadsOK' /\ thread' \in [RunIds -> ThreadRecord]
<1>0. [Next]_storeVars
  BY ApiStepsAreStoreSteps
<1>1. ASSUME NEW s \in Streams
      PROVE  stream[s] \in StreamRecord /\ StreamOK(stream[s])
  BY DEF ApiInv, ApiTypeOK, StreamsOK
<1>2. ASSUME UNCHANGED thread
      PROVE  Goal
  BY <1>0, <1>2, ThreadsKept
<1>3. ASSUME NEW s \in Streams, EnterGraph(s)
      PROVE  Goal
  <2>1. SaveThread(s, 1, FALSE, None) /\ stream[s].pc \in Suspended
    BY <1>3 DEF EnterGraph, Suspended
  <2>2. ~BehindGate(stream[s].wf, 1)
    BY DEF BehindGate
  <2> QED
    BY <1>0, <2>1, <2>2, SaveKeepsThreads
<1>4. ASSUME NEW s \in Streams, NEW v \in Verdicts \cup {None}, Advance(s, v),
             stream[s].pc = "node",
             \/ v = stream[s].verdict /\ Nodes(s)[stream[s].pos] # "gate"
             \/ v = stream[s].resume /\ v # None
      PROVE  Goal
  <2>1. stream[s].pos \in Nat /\ StreamOK(stream[s]) /\ stream[s].pc \in Suspended
    BY <1>1, <1>4 DEF StreamRecord, Suspended
  <2>2. stream[s].pc # "free"
    BY <1>4
  <2>3. BehindGate(stream[s].wf, stream[s].pos + 1) => v # None
    BY <1>4, <2>1, <2>2, GateBehind DEF StreamOK, Nodes
  <2>4. v # None => OnRecord(stream[s].run, v)
    BY <1>4, <2>1 DEF StreamOK
  <2>5. SaveThread(s, stream[s].pos + 1, FALSE, v)
    BY <1>4 DEF Advance
  <2>6. PICK n \in Nat : n = stream[s].pos + 1
    BY <2>1
  <2> QED
    BY <1>0, <2>1, <2>3, <2>4, <2>5, <2>6, SaveKeepsThreads
<1>5. ASSUME NEW s \in Streams, FinishWork(s) \/ PassGate(s)
      PROVE  Goal
  <2>1. stream[s].verdict \in Verdicts \cup {None} /\ stream[s].resume \in Verdicts \cup {None}
    BY <1>1 DEF StreamRecord
  <2> QED
    BY <1>4, <1>5, <2>1 DEF FinishWork, PassGate
<1>6. ASSUME NEW s \in Streams, Interrupt(s)
      PROVE  Goal
  <2>1. /\ stream[s].pos \in Nat /\ stream[s].verdict \in Verdicts \cup {None}
        /\ StreamOK(stream[s]) /\ stream[s].pc \in Suspended
    BY <1>1, <1>6 DEF Interrupt, StreamRecord, Suspended
  <2>2. BehindGate(stream[s].wf, stream[s].pos) => stream[s].verdict # None
    BY <1>6, <2>1 DEF Interrupt, StreamOK
  <2>3. stream[s].verdict # None => OnRecord(stream[s].run, stream[s].verdict)
    BY <2>1 DEF StreamOK
  <2>4. SaveThread(s, stream[s].pos, TRUE, stream[s].verdict)
    BY <1>6 DEF Interrupt
  <2> QED
    BY <1>0, <2>1, <2>2, <2>3, <2>4, SaveKeepsThreads
<1>7. ASSUME NEW s \in Streams, StreamStep(s)
      PROVE  Goal
  BY <1>2, <1>3, <1>5, <1>6, <1>7
     DEF StreamStep, OpenRun, CacheHit, ReenterGraph, StartNode, Pause,
         ProduceOutput, Complete, Fail, Close
<1>8. ASSUME NEW s \in Streams, Disconnect(s) \/ NeverPulled(s)
      PROVE  Goal
  BY <1>2, <1>8 DEF Disconnect, NeverPulled
<1>9. ASSUME \/ \E s \in Streams, wf \in Workflows, p \in Payloads : PostRun(s, wf, p)
             \/ \E s \in Streams, r \in RunIds, v \in Verdicts, c \in Comments,
                   p \in Subjects : PostDecision(s, r, v, c, p)
      PROVE  Goal
  BY <1>2, <1>9 DEF PostRun, PostDecision
<1>10. CASE RetentionJob \/ ApiTick \/ UNCHANGED runApiVars
  BY <1>2, <1>10 DEF RetentionJob, ApiTick, apiVars, runApiVars
<1> QED
  BY <1>7, <1>8, <1>9, <1>10 DEF ApiNext

LEMMA EffectsInductive ==
    ASSUME ApiInv, [ApiNext]_runApiVars
    PROVE  EffectsOK' /\ effects' \in [RunIds -> Seq(Effect)]
<1> DEFINE Goal == EffectsOK' /\ effects' \in [RunIds -> Seq(Effect)]
<1>0. [Next]_storeVars
  BY ApiStepsAreStoreSteps
<1>1. ASSUME UNCHANGED effects
      PROVE  Goal
  BY <1>0, <1>1, EffectsKept
<1>2. ASSUME NEW s \in Streams, FinishWork(s)
      PROVE  Goal
  <2> DEFINE st == stream[s]
             new == [node |-> st.pos, verdict |-> st.verdict]
  <2>1. st \in StreamRecord /\ StreamOK(st)
    BY DEF ApiInv, ApiTypeOK, StreamsOK
  <2>2. /\ st.run \in RunIds /\ Exists(st.run) /\ runs[st.run].workflow = st.wf
        /\ st.pc = "node"
    BY <1>2, OpenStream DEF FinishWork, Suspended
  <2>3. BehindGate(st.wf, st.pos) => OnRecord(st.run, st.verdict)
    BY <2>1, <2>2 DEF StreamOK
  <2>4. new \in Effect
    BY <2>1 DEF Effect, StreamRecord
  <2>5. effects \in [RunIds -> Seq(Effect)]
    BY DEF ApiInv, ApiTypeOK
  <2>6. effects' = [effects EXCEPT ![st.run] = Append(effects[st.run], new)]
    BY <1>2 DEF FinishWork
  <2> HIDE DEF new
  <2>7. effects' \in [RunIds -> Seq(Effect)] /\ effects'[st.run] = Append(effects[st.run], new)
    <3>1. effects[st.run] \in Seq(Effect)
      BY <2>2, <2>5
    <3>2. Append(effects[st.run], new) \in Seq(Effect)
      BY <2>4, <3>1
    <3> QED
      BY <2>2, <2>5, <2>6, <3>2
  <2>8. ASSUME NEW r \in RunIds, NEW i \in DOMAIN effects'[r]
        PROVE  EffectOK(r, effects[r][i])'
    <3>1. Kept(r)
      BY <1>0, StoreKeeps DEF ApiInv, ApiTypeOK
    <3>2. CASE r = st.run /\ i = Len(effects[r]) + 1
      <4>1. effects'[r][i] = new
        BY <2>2, <2>5, <2>7, <3>2
      <4>2. effects'[r][i].node = st.pos /\ effects'[r][i].verdict = st.verdict
        BY <4>1 DEF new
      <4>3. Exists(r) /\ runs[r].workflow = st.wf
        BY <2>2, <3>2
      <4>4. runs'[r].workflow = st.wf /\ Exists(r)'
        BY <3>1, <4>3 DEF Kept
      <4>5. BehindGate(st.wf, st.pos) => OnRecord(r, st.verdict)
        BY <2>3, <3>2
      <4> QED
        BY <3>1, <4>2, <4>4, <4>5 DEF EffectOK, Kept, Exists, OnRecord
    <3>3. CASE ~(r = st.run /\ i = Len(effects[r]) + 1)
      <4>1. i \in DOMAIN effects[r] /\ effects'[r][i] = effects[r][i]
        BY <2>2, <2>5, <2>6, <2>7, <3>3
      <4>2. EffectOK(r, effects[r][i])
        BY <4>1 DEF ApiInv, EffectsOK
      <4> QED
        BY <3>1, <4>1, <4>2 DEF EffectOK, Kept, Exists, OnRecord
    <3> QED
      BY <3>2, <3>3
  <2> QED
    BY <2>7, <2>8 DEF EffectsOK
<1>3. ASSUME NEW s \in Streams, StreamStep(s)
      PROVE  Goal
  BY <1>1, <1>2, <1>3
     DEF StreamStep, OpenRun, CacheHit, EnterGraph, ReenterGraph, StartNode,
         PassGate, Interrupt, Pause, ProduceOutput, Complete, Fail, Close
<1>4. ASSUME NEW s \in Streams, Disconnect(s) \/ NeverPulled(s)
      PROVE  Goal
  BY <1>1, <1>4 DEF Disconnect, NeverPulled
<1>5. ASSUME \/ \E s \in Streams, wf \in Workflows, p \in Payloads : PostRun(s, wf, p)
             \/ \E s \in Streams, r \in RunIds, v \in Verdicts, c \in Comments,
                   p \in Subjects : PostDecision(s, r, v, c, p)
      PROVE  Goal
  BY <1>1, <1>5 DEF PostRun, PostDecision
<1>6. CASE RetentionJob \/ ApiTick \/ UNCHANGED runApiVars
  BY <1>1, <1>6 DEF RetentionJob, ApiTick, apiVars, runApiVars
<1> QED
  BY <1>3, <1>4, <1>5, <1>6 DEF ApiNext

LEMMA OthersTyped ==
    ASSUME ApiInv, [ApiNext]_runApiVars
    PROVE  /\ cache' \in [Workflows \X Payloads -> CacheEntry]
           /\ log' \in [RunIds -> Seq(RunState)]
           /\ meter' \in [RunIds -> Nat]
<1> DEFINE Goal == /\ cache' \in [Workflows \X Payloads -> CacheEntry]
                   /\ log' \in [RunIds -> Seq(RunState)]
                   /\ meter' \in [RunIds -> Nat]
<1>1. /\ cache \in [Workflows \X Payloads -> CacheEntry]
      /\ log \in [RunIds -> Seq(RunState)]
      /\ meter \in [RunIds -> Nat]
      /\ clock \in Nat
  BY DEF ApiInv, ApiTypeOK, TypeOK
<1>2. ASSUME UNCHANGED <<cache, log, meter>>
      PROVE  Goal
  BY <1>1, <1>2
<1>3. ASSUME NEW s \in Streams, NEW state \in RunState, NEW g,
             stream[s].run \in RunIds, Settle(s, stream[s].run, state, g),
             UNCHANGED cache
      PROVE  Goal
  <2>0. log[stream[s].run] \in Seq(RunState)
    BY <1>1, <1>3
  <2>1. Append(log[stream[s].run], state) \in Seq(RunState)
    BY <2>0
  <2>2. log' = [log EXCEPT ![stream[s].run] = Append(log[stream[s].run], state)]
    BY <1>3 DEF Settle, Logged
  <2> QED
    BY <1>1, <1>3, <2>1, <2>2 DEF Settle, Logged
<1>4. ASSUME NEW s \in Streams,
             CacheHit(s) \/ (\E g \in Gates : Pause(s, g)) \/ Complete(s) \/ Fail(s)
      PROVE  Goal
  <2>1. stream[s].pc \in Suspended \/ stream[s].resume # None
    BY <1>4 DEF CacheHit, Pause, Complete, Fail, Suspended
  <2>2. stream[s].run \in RunIds
    BY <2>1, OpenStream
  <2>3. {"completed", "failed", "awaiting_decision"} \subseteq RunState
    BY DEF RunState
  <2> QED
    BY <1>3, <1>4, <2>2, <2>3 DEF CacheHit, Pause, Complete, Fail
<1>5. ASSUME NEW s \in Streams, Close(s) \/ Disconnect(s)
      PROVE  Goal
  <2>1. UNCHANGED <<cache, log>> /\ Meter(s)
    BY <1>5 DEF Close, Disconnect
  <2>2. PICK r \in RunIds : r = stream[s].run
    BY <1>5, OpenStream DEF Close, Disconnect
  <2>3. meter' = [meter EXCEPT ![r] = meter[r] + 1] /\ meter[r] + 1 \in Nat
    BY <1>1, <2>1, <2>2 DEF Meter
  <2> QED
    BY <1>1, <2>1, <2>3
<1>6. ASSUME NEW s \in Streams, ProduceOutput(s)
      PROVE  Goal
  <2> DEFINE entry == [run |-> stream[s].run, until |-> clock + CacheTtl]
  <2>1. stream[s].run \in RunIds
    BY <1>6, OpenStream DEF ProduceOutput, Suspended
  <2>2. entry \in CacheEntry
    BY <1>1, <2>1 DEF CacheEntry
  <2>3. UNCHANGED <<log, meter>>
    BY <1>6 DEF ProduceOutput
  <2>4. cache' = [cache EXCEPT ![Key(s)] = entry] \/ UNCHANGED cache
    BY <1>6 DEF ProduceOutput
  <2> HIDE DEF entry
  <2> QED
    BY <1>1, <2>2, <2>3, <2>4
<1>7. ASSUME NEW s \in Streams, StreamStep(s)
      PROVE  Goal
  BY <1>2, <1>4, <1>5, <1>6, <1>7
     DEF StreamStep, OpenRun, EnterGraph, ReenterGraph, StartNode, FinishWork,
         PassGate, Interrupt
<1>8. ASSUME NEW s \in Streams, NeverPulled(s)
      PROVE  Goal
  BY <1>2, <1>8 DEF NeverPulled
<1>9. ASSUME \/ \E s \in Streams, wf \in Workflows, p \in Payloads : PostRun(s, wf, p)
             \/ \E s \in Streams, r \in RunIds, v \in Verdicts, c \in Comments,
                   p \in Subjects : PostDecision(s, r, v, c, p)
      PROVE  Goal
  BY <1>2, <1>9 DEF PostRun, PostDecision
<1>10. CASE RetentionJob \/ ApiTick \/ UNCHANGED runApiVars
  BY <1>2, <1>10 DEF RetentionJob, ApiTick, apiVars, runApiVars
<1> QED
  BY <1>5, <1>7, <1>8, <1>9, <1>10 DEF ApiNext

LEMMA ApiInvInductive == ApiInv /\ [ApiNext]_runApiVars => ApiInv'
<1> SUFFICES ASSUME ApiInv, [ApiNext]_runApiVars
             PROVE  ApiInv'
  OBVIOUS
<1>1. [Next]_storeVars
  BY ApiStepsAreStoreSteps
<1>2. TypeOK'
  BY <1>1, TypeInductive DEF ApiInv, ApiTypeOK
<1>3. RunsOK'
  BY <1>1, RunsKept
<1> QED
  BY <1>2, <1>3, StreamsInductive, ThreadsInductive, EffectsInductive, OthersTyped
     DEF ApiInv, ApiTypeOK

LEMMA ApiInitially == ApiInit => ApiInv /\ Init
<1> SUFFICES ASSUME ApiInit
             PROVE  ApiInv
  BY DEF ApiInit
<1>1. TypeOK
  BY DEF ApiInit, Init, TypeOK, NoRecord, RunRecord
<1>2. Free \in StreamRecord /\ NoThread \in ThreadRecord /\ NoEntry \in CacheEntry
  BY DEF Free, StreamRecord, Pc, NoThread, ThreadRecord, NoEntry, CacheEntry
<1>3. ApiTypeOK
  BY <1>1, <1>2 DEF ApiInit, ApiTypeOK
<1>4. StreamsOK
  BY GateBehind DEF ApiInit, StreamsOK, StreamOK, Free, Suspended
<1>5. ThreadsOK
  BY GateBehind DEF ApiInit, ThreadsOK, ThreadOK, NoThread
<1>6. EffectsOK /\ RunsOK
  BY DEF ApiInit, Init, EffectsOK, RunsOK, Exists, NoRecord
<1> QED
  BY <1>3, <1>4, <1>5, <1>6 DEF ApiInv

-----------------------------------------------------------------------------
\* The engine, whatever its clients do, is a caller of the store like any
\* other: what RunStoreProofs proves holds of the runs behind the API too
\* (runner.py:288-310, routes.py:298-306).
THEOREM ApiRefinesStore == ApiSpec => Spec
<1>1. ApiInv /\ [ApiNext]_runApiVars => [Next]_storeVars
  BY ApiStepsAreStoreSteps
<1> QED
  BY <1>1, ApiInitially, ApiInvInductive, PTL DEF ApiSpec, Spec

\* The audit chain of a run only grows, behind the API as in the store.
THEOREM ApiAuditIntegrity == ApiSpec => AuditChainOnlyGrows
BY ApiRefinesStore, AuditIntegrity, PTL

\* Streams, checkpoints, logs and the cache keep their types.
THEOREM ApiTypeCorrect == ApiSpec => []ApiTypeOK
<1>1. ApiInv => ApiTypeOK
  BY DEF ApiInv
<1> QED
  BY <1>1, ApiInitially, ApiInvInductive, PTL DEF ApiSpec

\* No node behind a gate is executed without a decision on record that says
\* what the node was told (routes.py:289-291).
THEOREM DecisionsPrecedeEffects == ApiSpec => []EffectsAreDecided
<1>1. ApiInv => EffectsAreDecided
  BY DEF ApiInv, EffectsOK, EffectOK, EffectsAreDecided
<1> QED
  BY <1>1, ApiInitially, ApiInvInductive, PTL DEF ApiSpec

-----------------------------------------------------------------------------
(* The log and the state of a run *)

LEMMA SettledRun ==
    ASSUME ApiInv, NEW s \in Streams, NEW r \in RunIds, NEW state \in RunState,
           NEW g \in Gates \cup {None}, Settle(s, r, state, g)
    PROVE  /\ \A q \in RunIds \ {r} : runs'[q] = runs[q] /\ log'[q] = log[q]
           /\ runs'[r].state = state
           /\ g # None => runs'[r].gate_payload = g
           /\ log'[r] = Append(log[r], state) /\ log[r] \in Seq(RunState)
           /\ UNCHANGED decisions
<1>1. runs \in [RunIds -> RunRecord] /\ log \in [RunIds -> Seq(RunState)]
  BY DEF ApiInv, ApiTypeOK, TypeOK
<1>2. /\ runs' = [runs EXCEPT ![r] = Marked(runs[r], state, g)]
      /\ log' = [log EXCEPT ![r] = Append(log[r], state)]
      /\ UNCHANGED decisions
  BY DEF Settle, MarkState, Logged
<1> QED
  BY <1>1, <1>2 DEF Marked, Updated

LEMMA LogInductive == ApiInv /\ LogTellsTheState /\ [ApiNext]_runApiVars => LogTellsTheState'
<1> SUFFICES ASSUME ApiInv, LogTellsTheState, [ApiNext]_runApiVars, NEW q \in RunIds
             PROVE  IF log'[q] = <<>>
                    THEN runs'[q].state \in {"absent", "running"}
                    ELSE runs'[q].state \in {log'[q][Len(log'[q])], "cancelled"}
  BY DEF LogTellsTheState
<1> DEFINE Goal == IF log'[q] = <<>>
                   THEN runs'[q].state \in {"absent", "running"}
                   ELSE runs'[q].state \in {log'[q][Len(log'[q])], "cancelled"}
<1>0. /\ log[q] \in Seq(RunState) /\ runs \in [RunIds -> RunRecord]
      /\ IF log[q] = <<>> THEN runs[q].state \in {"absent", "running"}
                          ELSE runs[q].state \in {log[q][Len(log[q])], "cancelled"}
  BY DEF ApiInv, ApiTypeOK, TypeOK, LogTellsTheState
<1>1. ASSUME UNCHANGED <<runs, log>>
      PROVE  Goal
  BY <1>0, <1>1
<1>2. ASSUME NEW s \in Streams, NEW state \in RunState, NEW g \in Gates \cup {None},
             stream[s].run \in RunIds, Settle(s, stream[s].run, state, g)
      PROVE  Goal
  <2>1. CASE q # stream[s].run
    BY <1>0, <1>2, <2>1, SettledRun
  <2>2. CASE q = stream[s].run
    <3>1. runs'[q].state = state /\ log'[q] = Append(log[q], state)
      BY <1>2, <2>2, SettledRun
    <3>2. log'[q] # <<>> /\ log'[q][Len(log'[q])] = state
      BY <1>0, <3>1
    <3> QED
      BY <3>1, <3>2
  <2> QED
    BY <2>1, <2>2
<1>3. ASSUME NEW s \in Streams,
             CacheHit(s) \/ (\E g \in Gates : Pause(s, g)) \/ Complete(s) \/ Fail(s)
      PROVE  Goal
  <2>1. stream[s].pc \in Suspended \/ stream[s].resume # None
    BY <1>3 DEF CacheHit, Pause, Complete, Fail, Suspended
  <2>2. stream[s].run \in RunIds
    BY <2>1, OpenStream
  <2>3. {"completed", "failed", "awaiting_decision"} \subseteq RunState
    BY DEF RunState
  <2> QED
    BY <1>2, <1>3, <2>2, <2>3 DEF CacheHit, Pause, Complete, Fail
<1>4. ASSUME NEW s \in Streams, NEW r \in RunIds, OpenRun(s, r)
      PROVE  Goal
  <2>1. runs[r].state = "absent" /\ runs' = [runs EXCEPT ![r] = NewRecord(stream[s].wf)]
    BY <1>4 DEF OpenRun, CreateRun, Exists
  <2>2. UNCHANGED log
    BY <1>4 DEF OpenRun
  <2>3. CASE q = r
    <3>1. log[q] = <<>>
      <4> SUFFICES ASSUME log[q] # <<>> PROVE FALSE
        OBVIOUS
      <4>1. log[q][Len(log[q])] \in RunState
        BY <1>0
      <4> QED
        BY <1>0, <2>1, <2>3, <4>1 DEF RunState
    <3>2. runs'[q].state = "running"
      BY <1>0, <2>1, <2>3 DEF NewRecord
    <3> QED
      BY <2>2, <3>1, <3>2
  <2> QED
    BY <1>0, <2>1, <2>2, <2>3
<1>5. ASSUME NEW s \in Streams, StreamStep(s)
      PROVE  Goal
  BY <1>1, <1>3, <1>4, <1>5
     DEF StreamStep, EnterGraph, ReenterGraph, StartNode, FinishWork, PassGate,
         Interrupt, ProduceOutput, Close, storeVars
<1>6. CASE RetentionJob
  <2>1. /\ runs'[q] = IF IsAbandoned(q) THEN Cancelled(runs[q]) ELSE runs[q]
        /\ UNCHANGED log
    BY <1>6 DEF RetentionJob, ExpireRuns, apiVars
  <2> QED
    BY <1>0, <2>1 DEF IsAbandoned, Cancelled, Updated
<1>7. ASSUME NEW s \in Streams, Disconnect(s) \/ NeverPulled(s)
      PROVE  Goal
  BY <1>1, <1>7 DEF Disconnect, NeverPulled, storeVars
<1>8. ASSUME \/ \E s \in Streams, wf \in Workflows, p \in Payloads : PostRun(s, wf, p)
             \/ \E s \in Streams, r \in RunIds, v \in Verdicts, c \in Comments,
                   p \in Subjects : PostDecision(s, r, v, c, p)
      PROVE  Goal
  BY <1>1, <1>8 DEF PostRun, PostDecision, AppendDecision, storeVars
<1>9. CASE ApiTick \/ UNCHANGED runApiVars
  BY <1>1, <1>9 DEF ApiTick, Tick, apiVars, runApiVars
<1> QED
  BY <1>5, <1>6, <1>7, <1>8, <1>9 DEF ApiNext

-----------------------------------------------------------------------------
(* The stage a run has reached.  The request that created it never gets past *)
(* a gate, and has stopped for good once the run was paused; from then on    *)
(* the checkpoint and the requests that decisions opened stand at a gate or  *)
(* behind one.                                                               *)

\* The request that created the run r, and those that a decision on it opened.
Opens(s, r) == stream[s].run = r /\ stream[s].payload # None
Reopens(s, r) == stream[s].run = r /\ stream[s].payload = None

GateBy(wf, n) == BehindGate(wf, n) \/ AtGate(wf, n)
WasPaused(r) == runs[r].state = "awaiting_decision" \/ decisions[r] # <<>>

StreamStage(st) ==
    /\ st.pc = "created" => /\ st.pos = 0
                            /\ IF st.payload = None THEN st.resume # None
                                                    ELSE st.run = None
    /\ st.pc = "lookup" => st.pos = 0 /\ st.payload # None
    /\ st.pc \in {"graph", "node"} => st.pos \in DOMAIN Graph[st.wf]
    /\ st.pc = "ended" => st.pos \notin DOMAIN Graph[st.wf] \/ AtGate(st.wf, st.pos)
    /\ st.pc \in {"ended", "storing"} => st.pos > 0
    /\ st.payload # None => st.resume = None /\ st.verdict = None
    /\ st.payload = None /\ st.run # None =>
            /\ decisions[st.run] # <<>>
            /\ st.pos > 0 => GateBy(st.wf, st.pos)

OneOpener(r) == \A s, t \in Streams : Opens(s, r) /\ Opens(t, r) => s = t

PausedStage(r) ==
    WasPaused(r) =>
        /\ \A s \in Streams : Opens(s, r) => stream[s].pc \notin Suspended
        /\ thread[r].at > 0 /\ GateBy(runs[r].workflow, thread[r].at)

WaitingStage(r) ==
    thread[r].waiting => Exists(r) /\ AtGate(runs[r].workflow, thread[r].at)

AwaitingStage(r) ==
    runs[r].state = "awaiting_decision" =>
        /\ runs[r].gate_payload # None
        /\ thread[r].waiting \/ decisions[r] # <<>>

RunStage(r) == OneOpener(r) /\ PausedStage(r) /\ WaitingStage(r) /\ AwaitingStage(r)

StreamStages == \A s \in Streams : StreamStage(stream[s])
RunStages == \A r \in RunIds : RunStage(r)
StageInv == StreamStages /\ RunStages

\* Decisions are appended on runs that wait for one, and only there.
LEMMA DecisionsGrow ==
    ASSUME ApiInv, [ApiNext]_runApiVars
    PROVE  \/ UNCHANGED decisions
           \/ \E s \in Streams, r \in RunIds, v \in Verdicts, c \in Comments,
                 p \in Subjects : PostDecision(s, r, v, c, p)
<1>1. ASSUME NEW s \in Streams, NEW r, NEW state, NEW g, Settle(s, r, state, g)
      PROVE  UNCHANGED decisions
  BY <1>1 DEF Settle, MarkState
<1>2. ASSUME NEW s \in Streams, StreamStep(s) \/ Disconnect(s) \/ NeverPulled(s)
      PROVE  UNCHANGED decisions
  BY <1>1, <1>2
     DEF StreamStep, OpenRun, CreateRun, CacheHit, EnterGraph, ReenterGraph, StartNode,
         FinishWork, PassGate, Interrupt, Pause, ProduceOutput, Complete, Fail, Close,
         Disconnect, NeverPulled, storeVars
<1>3. ASSUME NEW s \in Streams, NEW wf \in Workflows, NEW p \in Payloads,
             PostRun(s, wf, p)
      PROVE  UNCHANGED decisions
  BY <1>3 DEF PostRun, storeVars
<1>4. CASE RetentionJob \/ ApiTick \/ UNCHANGED runApiVars
  BY <1>4 DEF RetentionJob, ExpireRuns, ApiTick, Tick, runApiVars
<1> QED
  BY <1>2, <1>3, <1>4 DEF ApiNext

LEMMA DecidedStaysDecided ==
    ASSUME ApiInv, [ApiNext]_runApiVars, NEW r \in RunIds
    PROVE  decisions[r] # <<>> => decisions'[r] # <<>>
<1>1. decisions[r] \in Seq(DecisionRecord) /\ decisions \in [RunIds -> Seq(DecisionRecord)]
  BY DEF ApiInv, ApiTypeOK, TypeOK
<1>2. ASSUME NEW s \in Streams, NEW q \in RunIds, NEW v \in Verdicts, NEW c \in Comments,
             NEW p \in Subjects, PostDecision(s, q, v, c, p)
      PROVE  decisions[r] # <<>> => decisions'[r] # <<>>
  <2>1. decisions' = [decisions EXCEPT ![q] = Append(decisions[q], NewDecision(q, v, c, p))]
    BY <1>2 DEF PostDecision, AppendDecision
  <2>2. CASE r = q
    <3>1. decisions'[r] = Append(decisions[r], NewDecision(q, v, c, p))
      BY <1>1, <2>1, <2>2
    <3> HIDE DEF NewDecision
    <3>2. Len(decisions'[r]) = Len(decisions[r]) + 1
      BY <1>1, <3>1
    <3> QED
      BY <1>1, <3>2
  <2> QED
    BY <1>1, <2>1, <2>2
<1> QED
  BY <1>2, DecisionsGrow

LEMMA StagesReplaced ==
    ASSUME ApiInv, StreamStages, [ApiNext]_runApiVars, NEW s \in Streams,
           NEW x \in StreamRecord, StreamStage(x)',
           stream' = [stream EXCEPT ![s] = x]
    PROVE  StreamStages'
<1> SUFFICES ASSUME NEW t \in Streams
             PROVE  StreamStage(stream[t])'
  BY DEF StreamStages
<1>1. stream \in [Streams -> StreamRecord]
  BY DEF ApiInv, ApiTypeOK
<1>2. CASE t = s
  <2>1. stream'[t] = x
    BY <1>1, <1>2
  <2> QED
    BY <2>1 DEF StreamStage
<1>3. CASE t # s
  <2>1. stream'[t] = stream[t] /\ stream[t] \in StreamRecord /\ StreamStage(stream[t])
    BY <1>1, <1>3 DEF StreamStages
  <2>2. stream[t].run # None => stream[t].run \in RunIds
    BY <2>1 DEF StreamRecord
  <2>3. stream[t].run # None /\ decisions[stream[t].run] # <<>>
            => decisions'[stream[t].run] # <<>>
    BY <2>2, DecidedStaysDecided
  <2> QED
    BY <2>1, <2>3 DEF StreamStage
<1> QED
  BY <1>2, <1>3

LEMMA StagesKept ==
    ASSUME ApiInv, StreamStages, [ApiNext]_runApiVars, UNCHANGED stream
    PROVE  StreamStages'
<1> SUFFICES ASSUME NEW t \in Streams
             PROVE  StreamStage(stream[t])'
  BY DEF StreamStages
<1>1. stream[t] \in StreamRecord /\ StreamStage(stream[t])
  BY DEF ApiInv, ApiTypeOK, StreamStages
<1>2. stream[t].run # None => stream[t].run \in RunIds
  BY <1>1 DEF StreamRecord
<1>3. stream[t].run # None /\ decisions[stream[t].run] # <<>>
          => decisions'[stream[t].run] # <<>>
  BY <1>2, DecidedStaysDecided
<1> QED
  BY <1>1, <1>3 DEF StreamStage

LEMMA GotoKeepsStages ==
    ASSUME ApiInv, StreamStages, [ApiNext]_runApiVars, NEW s \in Streams,
           NEW pc \in Pc, Goto(s, pc),
           \/ pc \in {"settled", "closed", "lost"}
           \/ pc = "node" /\ stream[s].pc = "graph"
           \/ pc = "storing" /\ stream[s].pc = "ended"
           \/ /\ pc = "ended" /\ stream[s].pos > 0
              /\ AtGate(stream[s].wf, stream[s].pos)
    PROVE  StreamStages'
<1>1. stream[s] \in StreamRecord /\ StreamStage(stream[s])
  BY DEF ApiInv, ApiTypeOK, StreamStages
<1>2. PICK x : x = Moved(stream[s], stream[s].run, pc, stream[s].pos,
                         stream[s].verdict, stream[s].resume)
  OBVIOUS
<1>3. x \in StreamRecord
  BY <1>1, <1>2 DEF StreamRecord, Moved
<1>4. stream' = [stream EXCEPT ![s] = x]
  BY <1>2 DEF Goto, ApiInv, ApiTypeOK
<1>5. stream[s].run # None => stream[s].run \in RunIds
  BY <1>1 DEF StreamRecord
<1>6. stream[s].run # None /\ decisions[stream[s].run] # <<>>
          => decisions'[stream[s].run] # <<>>
  BY <1>5, DecidedStaysDecided
<1>7. /\ x.pc = pc /\ x.run = stream[s].run /\ x.wf = stream[s].wf
      /\ x.payload = stream[s].payload /\ x.pos = stream[s].pos
      /\ x.verdict = stream[s].verdict /\ x.resume = stream[s].resume
  BY <1>2 DEF Moved
<1>8. StreamStage(x)'
  BY <1>1, <1>6, <1>7 DEF StreamStage
<1> QED
  BY <1>3, <1>4, <1>8, StagesReplaced

\* A node is left for the next one: what that means for a stream's stage.
LEMMA AdvanceKeepsStages ==
    ASSUME ApiInv, StreamStages, [ApiNext]_runApiVars, NEW s \in Streams,
           NEW v \in Verdicts \cup {None}, Advance(s, v), stream[s].pc = "node",
           stream[s].payload # None => v = None
    PROVE  StreamStages'
<1>1. stream[s] \in StreamRecord /\ StreamStage(stream[s]) /\ stream[s].pos \in Nat
  BY DEF ApiInv, ApiTypeOK, StreamStages, StreamRecord
<1>2. PICK n \in Nat : n = stream[s].pos + 1
  BY <1>1
<1>3. PICK x : x = Moved(stream[s], stream[s].run, PcAt(stream[s].wf, n), n, v, None)
  OBVIOUS
<1>4. PcAt(stream[s].wf, n) \in Pc
  BY DEF PcAt, Pc
<1>5. x \in StreamRecord
  BY <1>1, <1>3, <1>4 DEF StreamRecord, Moved
<1>6. stream' = [stream EXCEPT ![s] = x]
  BY <1>2, <1>3 DEF Advance, ApiInv, ApiTypeOK
<1>7. stream[s].run # None => stream[s].run \in RunIds
  BY <1>1 DEF StreamRecord
<1>8. stream[s].run # None /\ decisions[stream[s].run] # <<>>
          => decisions'[stream[s].run] # <<>>
  BY <1>7, DecidedStaysDecided
<1>9. /\ x.pc = PcAt(stream[s].wf, n) /\ x.run = stream[s].run /\ x.wf = stream[s].wf
      /\ x.payload = stream[s].payload /\ x.pos = n /\ x.verdict = v /\ x.resume = None
  BY <1>3 DEF Moved
<1>10. stream[s].pos > 0 /\ GateBy(stream[s].wf, stream[s].pos) => BehindGate(stream[s].wf, n)
  BY <1>1, <1>2 DEF GateBy, BehindGate, AtGate
<1>11. stream[s].pos \in DOMAIN Graph[stream[s].wf] /\ stream[s].pos > 0
  <2>1. stream[s].pos \in DOMAIN Graph[stream[s].wf]
    BY <1>1 DEF StreamStage
  <2>2. stream[s].wf \in Workflows
    BY OpenStream DEF Suspended
  <2>3. Graph[stream[s].wf] \in Seq({"work", "gate"})
    BY <2>2, GraphsAreNodeSequences
  <2> QED
    BY <1>1, <2>1, <2>3
<1>12. StreamStage(x)'
  BY <1>1, <1>2, <1>8, <1>9, <1>10, <1>11 DEF StreamStage, PcAt, GateBy
<1> QED
  BY <1>5, <1>6, <1>12, StagesReplaced

LEMMA StreamStagesInductive ==
    ASSUME ApiInv, StageInv, [ApiNext]_runApiVars
    PROVE  StreamStages'
<1>0. StreamStages /\ stream \in [Streams -> StreamRecord]
  BY DEF StageInv, ApiInv, ApiTypeOK
<1>1. ASSUME NEW s \in Streams
      PROVE  /\ stream[s] \in StreamRecord /\ StreamStage(stream[s]) /\ StreamOK(stream[s])
             /\ stream[s].run # None => stream[s].run \in RunIds
  BY <1>0 DEF StreamStages, ApiInv, StreamsOK, StreamRecord
<1>2. ASSUME NEW s \in Streams, NEW wf \in Workflows, NEW p \in Payloads,
             PostRun(s, wf, p)
      PROVE  StreamStages'
  <2>1. PICK x \in StreamRecord : x = Created(None, wf, p, None)
    BY DEF Created, StreamRecord, Pc
  <2>2. stream' = [stream EXCEPT ![s] = x]
    BY <1>2, <2>1 DEF PostRun
  <2>3. StreamStage(x)'
    BY <2>1 DEF Created, StreamStage
  <2> QED
    BY <1>0, <2>2, <2>3, StagesReplaced
<1>3. ASSUME NEW s \in Streams, NEW r \in RunIds, NEW v \in Verdicts,
             NEW c \in Comments, NEW p \in Subjects, PostDecision(s, r, v, c, p)
      PROVE  StreamStages'
  <2>1. Exists(r)
    BY <1>3 DEF PostDecision, AppendDecision, Exists
  <2>2. runs[r].workflow \in Workflows
    BY <2>1 DEF ApiInv, RunsOK
  <2>3. PICK x \in StreamRecord : x = Created(r, runs[r].workflow, None, v)
    BY <2>2 DEF Created, StreamRecord, Pc
  <2>4. stream' = [stream EXCEPT ![s] = x]
    BY <1>3, <2>3 DEF PostDecision, Resumed
  <2>5. decisions'[r] # <<>>
    <3>1. /\ decisions \in [RunIds -> Seq(DecisionRecord)]
          /\ decisions' = [decisions EXCEPT ![r] = Append(decisions[r], NewDecision(r, v, c, p))]
      BY <1>3 DEF PostDecision, AppendDecision, ApiInv, ApiTypeOK, TypeOK
    <3>2. decisions'[r] = Append(decisions[r], NewDecision(r, v, c, p))
      BY <3>1
    <3>3. decisions[r] \in Seq(DecisionRecord)
      BY <3>1
    <3> HIDE DEF NewDecision
    <3>4. Len(decisions'[r]) = Len(decisions[r]) + 1
      BY <3>2, <3>3
    <3> QED
      BY <3>3, <3>4
  <2>6. /\ x.pc = "created" /\ x.run = r /\ x.payload = None /\ x.resume = v /\ x.pos = 0
    BY <2>3 DEF Created
  <2>7. StreamStage(x)'
    BY <2>5, <2>6 DEF StreamStage
  <2> QED
    BY <1>0, <2>4, <2>7, StagesReplaced
<1>4. ASSUME NEW s \in Streams, NEW r \in RunIds, OpenRun(s, r)
      PROVE  StreamStages'
  <2>1. PICK x : x = Moved(stream[s], r, "lookup", 0, None, None)
    OBVIOUS
  <2>2. x \in StreamRecord
    BY <1>1, <2>1 DEF Moved, StreamRecord, Pc
  <2>3. stream' = [stream EXCEPT ![s] = x]
    BY <1>0, <1>4, <2>1 DEF OpenRun
  <2>4. stream[s].payload # None
    BY <1>1, <1>4 DEF OpenRun, StreamStage
  <2>5. StreamStage(x)'
    BY <2>1, <2>4 DEF Moved, StreamStage
  <2> QED
    BY <1>0, <2>2, <2>3, <2>5, StagesReplaced
<1>5. ASSUME NEW s \in Streams, EnterGraph(s)
      PROVE  StreamStages'
  <2>1. PICK x : x = Moved(stream[s], stream[s].run, PcAt(stream[s].wf, 1), 1, None, None)
    OBVIOUS
  <2>2. x \in StreamRecord
    BY <1>1, <2>1 DEF Moved, StreamRecord, PcAt, Pc
  <2>3. stream' = [stream EXCEPT ![s] = x]
    BY <1>0, <1>5, <2>1 DEF EnterGraph
  <2>4. stream[s].payload # None
    BY <1>1, <1>5 DEF EnterGraph, StreamStage
  <2>5. StreamStage(x)'
    BY <2>1, <2>4 DEF Moved, StreamStage, PcAt
  <2> QED
    BY <1>0, <2>2, <2>3, <2>5, StagesReplaced
<1>6. ASSUME NEW s \in Streams, ReenterGraph(s)
      PROVE  StreamStages'
  <2>1. PICK r \in RunIds : r = stream[s].run
    BY <1>6, OpenStream DEF ReenterGraph
  <2>2. PICK t \in ThreadRecord : t = thread[r]
    BY DEF ApiInv, ApiTypeOK
  <2>3. /\ runs[r].workflow = stream[s].wf /\ stream[s].payload = None
        /\ decisions[r] # <<>>
    BY <1>1, <1>6, <2>1, OpenStream DEF ReenterGraph, StreamStage
  <2>4. t.at > 0 /\ GateBy(stream[s].wf, t.at) /\ t.at \in Nat
    BY <2>2, <2>3 DEF StageInv, RunStages, RunStage, PausedStage, WasPaused, ThreadRecord
  <2>5. PICK v : v = IF AtGate(stream[s].wf, t.at) THEN stream[s].resume ELSE None
    OBVIOUS
  <2>6. PICK x : x = Moved(stream[s], r, PcAt(stream[s].wf, t.at), t.at, t.verdict, v)
    OBVIOUS
  <2>7. x \in StreamRecord
    BY <1>1, <2>2, <2>4, <2>5, <2>6 DEF Moved, StreamRecord, ThreadRecord, PcAt, Pc
  <2>8. stream' = [stream EXCEPT ![s] = x]
    BY <1>0, <1>6, <2>1, <2>2, <2>5, <2>6 DEF ReenterGraph
  <2>9. UNCHANGED decisions
    BY <1>6 DEF ReenterGraph, storeVars
  <2>10. StreamStage(x)'
    BY <2>3, <2>4, <2>6, <2>9 DEF Moved, StreamStage, PcAt
  <2> QED
    BY <1>0, <2>7, <2>8, <2>10, StagesReplaced
<1>7. ASSUME NEW s \in Streams, StartNode(s) \/ ProduceOutput(s) \/ Close(s)
                                  \/ Disconnect(s) \/ NeverPulled(s)
      PROVE  StreamStages'
  BY <1>0, <1>7, GotoKeepsStages
     DEF StartNode, ProduceOutput, Close, Disconnect, NeverPulled, Pc
<1>8. ASSUME NEW s \in Streams,
             CacheHit(s) \/ (\E g \in Gates : Pause(s, g)) \/ Complete(s) \/ Fail(s)
      PROVE  StreamStages'
  <2>1. Goto(s, "settled")
    BY <1>8 DEF CacheHit, Pause, Complete, Fail, Settle
  <2> QED
    BY <1>0, <2>1, GotoKeepsStages DEF Pc
<1>9. ASSUME NEW s \in Streams, Interrupt(s)
      PROVE  StreamStages'
  <2>1. stream[s].pc = "node" /\ Graph[stream[s].wf][stream[s].pos] = "gate" /\ Goto(s, "ended")
    BY <1>9 DEF Interrupt, Nodes
  <2>2. stream[s].pos \in DOMAIN Graph[stream[s].wf]
    BY <1>1, <2>1 DEF StreamStage
  <2>3. stream[s].wf \in Workflows
    BY <2>1, OpenStream DEF Suspended
  <2>4. stream[s].pos > 0
    BY <2>2, <2>3, GraphsAreNodeSequences
  <2> QED
    BY <1>0, <2>1, <2>2, <2>4, GotoKeepsStages DEF AtGate, Pc
<1>10. ASSUME NEW s \in Streams, FinishWork(s) \/ PassGate(s)
       PROVE  StreamStages'
  <2>1. PICK v \in Verdicts \cup {None} : Advance(s, v) /\ (stream[s].payload # None => v = None)
    BY <1>1, <1>10 DEF FinishWork, PassGate, StreamStage, StreamRecord
  <2>2. stream[s].pc = "node"
    BY <1>10 DEF FinishWork, PassGate
  <2> QED
    BY <1>0, <2>1, <2>2, AdvanceKeepsStages
<1>11. ASSUME NEW s \in Streams, StreamStep(s)
       PROVE  StreamStages'
  BY <1>4, <1>5, <1>6, <1>7, <1>8, <1>9, <1>10, <1>11 DEF StreamStep
<1>12. CASE RetentionJob \/ ApiTick \/ UNCHANGED runApiVars
  BY <1>0, <1>12, StagesKept DEF RetentionJob, ApiTick, apiVars, runApiVars
<1> QED
  BY <1>2, <1>3, <1>7, <1>11, <1>12 DEF ApiNext

\* A step that records no checkpoint and pauses no run, opens none and wakes no
\* request that created one.
LEMMA RunStagesKept ==
    ASSUME ApiInv, StageInv, [ApiNext]_runApiVars, NEW r \in RunIds,
           UNCHANGED thread[r],
           \A t \in Streams : Opens(t, r)' =>
                /\ Opens(t, r)
                /\ stream'[t].pc \in Suspended => stream[t].pc \in Suspended,
           runs'[r].state = "awaiting_decision" =>
                /\ runs[r].state = "awaiting_decision"
                /\ runs'[r].gate_payload = runs[r].gate_payload,
           decisions[r] = <<>> /\ decisions'[r] # <<>> => WasPaused(r)
    PROVE  RunStage(r)'
<1>1. RunStage(r)
  BY DEF StageInv, RunStages
<1>2. Kept(r)
  BY StoreKeeps, ApiStepsAreStoreSteps DEF ApiInv, ApiTypeOK
<1>3. decisions[r] # <<>> => decisions'[r] # <<>>
  BY DecidedStaysDecided
<1>4. WasPaused(r)' => WasPaused(r)
  BY <1>3 DEF WasPaused
<1>5. OneOpener(r)'
  BY <1>1 DEF RunStage, OneOpener
<1>6. WasPaused(r) => Exists(r)
  BY <1>1 DEF RunStage, PausedStage, ApiInv, ThreadsOK, ThreadOK
<1>7. PausedStage(r)'
  BY <1>1, <1>2, <1>4, <1>6 DEF RunStage, PausedStage, Kept, GateBy, AtGate, BehindGate
<1>8. WaitingStage(r)'
  BY <1>1, <1>2 DEF RunStage, WaitingStage, Kept, AtGate
<1>9. AwaitingStage(r)'
  BY <1>1, <1>3 DEF RunStage, AwaitingStage
<1> QED
  BY <1>5, <1>7, <1>8, <1>9 DEF RunStage

\* A checkpoint is recorded by a request that is in the graph.
LEMMA CheckpointKeepsStages ==
    ASSUME ApiInv, StageInv, [ApiNext]_runApiVars, NEW s \in Streams,
           stream[s].pc \in Suspended, stream'[s].run = stream[s].run,
           stream'[s].payload = stream[s].payload,
           \A t \in Streams \ {s} : stream'[t] = stream[t],
           UNCHANGED storeVars,
           NEW pos \in Nat, NEW wait \in BOOLEAN, NEW v \in Verdicts \cup {None},
           SaveThread(s, pos, wait, v), pos > 0,
           wait => AtGate(stream[s].wf, pos),
           stream[s].payload = None => GateBy(stream[s].wf, pos),
           NEW r \in RunIds
    PROVE  RunStage(r)'
<1>0. /\ stream[s].run \in RunIds /\ Exists(stream[s].run)
      /\ runs[stream[s].run].workflow = stream[s].wf
  BY OpenStream
<1>1. \A t \in Streams : /\ Opens(t, r)' <=> Opens(t, r)
                         /\ Opens(t, r) /\ stream'[t].pc \in Suspended
                                => stream[t].pc \in Suspended
  BY DEF Opens
<1>2. UNCHANGED <<runs, decisions>>
  BY DEF storeVars
<1>3. CASE UNCHANGED thread[r]
  BY <1>1, <1>2, <1>3, RunStagesKept
<1>4. CASE r = stream[s].run /\ thread'[r] = [at |-> pos, waiting |-> wait, verdict |-> v]
  <2>1. RunStage(r) /\ StreamStage(stream[s])
    BY DEF StageInv, RunStages, StreamStages
  <2>2. WasPaused(r) => stream[s].payload = None
    BY <1>4, <2>1 DEF RunStage, PausedStage, Opens
  <2>3. stream[s].payload = None => decisions[r] # <<>>
    BY <1>0, <1>4, <2>1, NoneIsNoValue, RunIdsAreOrdered DEF StreamStage
  <2>4. WasPaused(r)' <=> WasPaused(r)
    BY <1>2 DEF WasPaused
  <2>5. thread'[r].at = pos /\ thread'[r].waiting = wait
    BY <1>4
  <2>6. OneOpener(r)'
    BY <1>1, <2>1 DEF RunStage, OneOpener
  <2>7. PausedStage(r)'
    BY <1>0, <1>1, <1>2, <1>4, <2>1, <2>2, <2>4, <2>5
       DEF RunStage, PausedStage, GateBy, AtGate, BehindGate
  <2>8. WaitingStage(r)'
    BY <1>0, <1>2, <1>4, <2>5 DEF WaitingStage, AtGate, Exists
  <2>9. AwaitingStage(r)'
    BY <1>2, <2>1, <2>2, <2>3 DEF RunStage, AwaitingStage, WasPaused
  <2> QED
    BY <2>6, <2>7, <2>8, <2>9 DEF RunStage
<1>5. \/ UNCHANGED thread[r]
      \/ r = stream[s].run /\ thread'[r] = [at |-> pos, waiting |-> wait, verdict |-> v]
  BY DEF SaveThread, ApiInv, ApiTypeOK
<1> QED
  BY <1>3, <1>4, <1>5

\* A run settles, for good or at a gate.
LEMMA SettlingKeepsStages ==
    ASSUME ApiInv, StageInv, [ApiNext]_runApiVars, NEW s \in Streams,
           stream[s].pc \in Suspended \/ stream[s].resume # None,
           NEW state \in RunState, NEW g \in Gates \cup {None},
           Settle(s, stream[s].run, state, g), UNCHANGED thread,
           state = "awaiting_decision" =>
                /\ g # None /\ thread[stream[s].run].waiting
                /\ stream[s].pc \in Suspended,
           NEW r \in RunIds
    PROVE  RunStage(r)'
<1>0. stream[s].run \in RunIds
  BY OpenStream
<1>1. stream \in [Streams -> StreamRecord]
  BY DEF ApiInv, ApiTypeOK
<1>2. /\ stream'[s].pc = "settled" /\ stream'[s].run = stream[s].run
      /\ stream'[s].payload = stream[s].payload
      /\ \A t \in Streams \ {s} : stream'[t] = stream[t]
  BY <1>1 DEF Settle, Goto, Moved
<1>3. \A t \in Streams : /\ Opens(t, r)' <=> Opens(t, r)
                         /\ stream'[t].pc \in Suspended => stream[t].pc \in Suspended
  BY <1>2 DEF Opens, Suspended
<1>4. /\ \A q \in RunIds \ {stream[s].run} : runs'[q] = runs[q]
      /\ runs'[stream[s].run].state = state
      /\ g # None => runs'[stream[s].run].gate_payload = g
      /\ UNCHANGED decisions
  <2>1. PICK q \in RunIds : q = stream[s].run
    BY <1>0
  <2>2. Settle(s, q, state, g)
    BY <2>1
  <2> QED
    BY <2>1, <2>2, SettledRun
<1>5. CASE r # stream[s].run \/ state # "awaiting_decision"
  BY <1>3, <1>4, <1>5, RunStagesKept
<1>6. CASE r = stream[s].run /\ state = "awaiting_decision"
  <2>1. RunStage(r) /\ StreamStage(stream[s])
    BY DEF StageInv, RunStages, StreamStages
  <2>2. Exists(r) /\ AtGate(runs[r].workflow, thread[r].at)
    BY <1>6, <2>1 DEF RunStage, WaitingStage
  <2>3. runs'[r].workflow = runs[r].workflow /\ Exists(r)'
    BY <2>2, StoreKeeps, ApiStepsAreStoreSteps DEF ApiInv, ApiTypeOK, Kept
  <2>4. thread[r].at > 0
    <3>1. runs[r].workflow \in Workflows
      BY <2>2 DEF ApiInv, RunsOK
    <3>2. Graph[runs[r].workflow] \in Seq({"work", "gate"})
      BY <3>1, GraphsAreNodeSequences
    <3> QED
      BY <2>2, <3>2 DEF AtGate
  <2>5. ASSUME NEW t \in Streams, Opens(t, r)'
        PROVE  stream'[t].pc \notin Suspended
    <3>1. CASE stream[s].payload = None
      <4>1. WasPaused(r)
        BY <1>0, <1>6, <2>1, <3>1, NoneIsNoValue, RunIdsAreOrdered DEF StreamStage, WasPaused
      <4> QED
        BY <1>3, <2>1, <2>5, <4>1 DEF RunStage, PausedStage
    <3>2. CASE stream[s].payload # None
      <4>1. Opens(s, r) /\ Opens(t, r)
        BY <1>3, <1>6, <2>5, <3>2 DEF Opens
      <4>2. s = t
        BY <2>1, <4>1 DEF RunStage, OneOpener
      <4> QED
        BY <1>2, <4>2 DEF Suspended
    <3> QED
      BY <3>1, <3>2
  <2>6. OneOpener(r)'
    BY <1>3, <2>1 DEF RunStage, OneOpener
  <2>7. PausedStage(r)'
    BY <2>2, <2>3, <2>4, <2>5 DEF PausedStage, GateBy, AtGate, BehindGate
  <2>8. WaitingStage(r)' /\ AwaitingStage(r)'
    BY <1>4, <1>6, <2>2, <2>3 DEF WaitingStage, AwaitingStage, AtGate
  <2> QED
    BY <2>6, <2>7, <2>8 DEF RunStage
<1> QED
  BY <1>5, <1>6

LEMMA RunStagesInductive ==
    ASSUME ApiInv, StageInv, [ApiNext]_runApiVars
    PROVE  RunStages'
<1>0. stream \in [Streams -> StreamRecord] /\ runs \in [RunIds -> RunRecord]
  BY DEF ApiInv, ApiTypeOK, TypeOK
<1>1. ASSUME NEW s \in Streams
      PROVE  /\ StreamStage(stream[s]) /\ StreamOK(stream[s])
             /\ stream[s] \in StreamRecord
  BY <1>0 DEF StageInv, StreamStages, ApiInv, StreamsOK
<1>2. ASSUME UNCHANGED <<thread, decisions, stream>>,
             \A r \in RunIds : runs'[r].state = "awaiting_decision" =>
                /\ runs[r].state = "awaiting_decision"
                /\ runs'[r].gate_payload = runs[r].gate_payload
      PROVE  RunStages'
  <2>1. ASSUME NEW r \in RunIds
        PROVE  RunStage(r)'
    BY <1>2, RunStagesKept DEF Opens
  <2> QED
    BY <2>1 DEF RunStages
<1>3. ASSUME NEW s \in Streams, NEW pc, Goto(s, pc), UNCHANGED <<storeVars, thread>>,
             pc \notin Suspended \/ stream[s].pc \in Suspended
      PROVE  RunStages'
  <2>1. ASSUME NEW t \in Streams
        PROVE  /\ stream'[t].run = stream[t].run /\ stream'[t].payload = stream[t].payload
               /\ stream'[t].pc \in Suspended => stream[t].pc \in Suspended
    BY <1>0, <1>3 DEF Goto, Moved
  <2>2. ASSUME NEW r \in RunIds
        PROVE  RunStage(r)'
    BY <1>3, <2>1, RunStagesKept DEF Opens, storeVars
  <2> QED
    BY <2>2 DEF RunStages
<1>4. ASSUME NEW s \in Streams, StartNode(s) \/ ProduceOutput(s) \/ Close(s)
                                  \/ Disconnect(s) \/ NeverPulled(s)
      PROVE  RunStages'
  BY <1>3, <1>4 DEF StartNode, ProduceOutput, Close, Disconnect, NeverPulled, Suspended
<1>5. ASSUME NEW s \in Streams, NEW wf \in Workflows, NEW p \in Payloads,
             PostRun(s, wf, p)
      PROVE  RunStages'
  <2>1. ASSUME NEW r \in RunIds, NEW t \in Streams, Opens(t, r)'
        PROVE  Opens(t, r) /\ stream'[t] = stream[t]
    BY <1>0, <1>5, <2>1, NoneIsNoValue, RunIdsAreOrdered DEF PostRun, Created, Opens
  <2>2. UNCHANGED <<runs, decisions, thread>>
    BY <1>5 DEF PostRun, storeVars
  <2>3. ASSUME NEW r \in RunIds
        PROVE  RunStage(r)'
    BY <2>1, <2>2, RunStagesKept
  <2> QED
    BY <2>3 DEF RunStages
<1>6. ASSUME NEW s \in Streams, NEW q \in RunIds, NEW v \in Verdicts,
             NEW c \in Comments, NEW p \in Subjects, PostDecision(s, q, v, c, p)
      PROVE  RunStages'
  <2>1. ASSUME NEW r \in RunIds, NEW t \in Streams, Opens(t, r)'
        PROVE  Opens(t, r) /\ stream'[t] = stream[t]
    BY <1>0, <1>6, <2>1 DEF PostDecision, Resumed, Created, Opens
  <2>2. UNCHANGED <<runs, thread>> /\ runs[q].state = "awaiting_decision"
    BY <1>6 DEF PostDecision, AppendDecision
  <2>3. \A r \in RunIds : decisions'[r] = decisions[r] \/ r = q
    BY <1>6 DEF PostDecision, AppendDecision, ApiInv, ApiTypeOK, TypeOK
  <2>4. ASSUME NEW r \in RunIds
        PROVE  RunStage(r)'
    BY <2>1, <2>2, <2>3, RunStagesKept DEF WasPaused
  <2> QED
    BY <2>4 DEF RunStages
<1>7. ASSUME NEW s \in Streams, NEW q \in RunIds, OpenRun(s, q)
      PROVE  RunStages'
  <2>1. /\ ~Exists(q) /\ runs' = [runs EXCEPT ![q] = NewRecord(stream[s].wf)]
        /\ stream' = [stream EXCEPT ![s] = Moved(stream[s], q, "lookup", 0, None, None)]
        /\ UNCHANGED <<thread, decisions>>
    BY <1>7 DEF OpenRun, CreateRun
  <2>2. \A t \in Streams : stream[t].run # q
    BY <1>1, <2>1, NoneIsNoValue, RunIdsAreOrdered DEF StreamOK
  <2>3. \A t \in Streams : t = s \/ stream'[t] = stream[t]
    BY <1>0, <2>1
  <2>4. stream'[s].run = q
    BY <1>0, <2>1 DEF Moved
  <2>5. RunStage(q)'
    <3>1. RunStage(q) /\ thread[q].at = 0
      BY <2>1 DEF StageInv, RunStages, ApiInv, ThreadsOK, ThreadOK
    <3>2. decisions[q] = <<>> /\ ~thread[q].waiting
      BY <2>1, <3>1 DEF RunStage, PausedStage, WaitingStage, WasPaused
    <3>3. runs'[q].state = "running"
      BY <1>0, <2>1 DEF NewRecord
    <3>4. OneOpener(q)'
      BY <2>2, <2>3 DEF OneOpener, Opens
    <3>5. ~WasPaused(q)' /\ ~thread'[q].waiting
      BY <2>1, <3>2, <3>3 DEF WasPaused
    <3> QED
      BY <3>3, <3>4, <3>5 DEF RunStage, PausedStage, WaitingStage, AwaitingStage
  <2>6. ASSUME NEW r \in RunIds \ {q}
        PROVE  RunStage(r)'
    <3>1. runs'[r] = runs[r] /\ UNCHANGED <<thread[r], decisions[r]>>
      BY <1>0, <2>1
    <3>2. \A t \in Streams : Opens(t, r)' => Opens(t, r) /\ stream'[t] = stream[t]
      BY <2>3, <2>4 DEF Opens
    <3> QED
      BY <3>1, <3>2, RunStagesKept
  <2> QED
    BY <2>5, <2>6 DEF RunStages
<1>8. ASSUME NEW s \in Streams, ReenterGraph(s)
      PROVE  RunStages'
  <2>1. UNCHANGED <<runs, decisions, thread>>
    BY <1>8 DEF ReenterGraph, storeVars
  <2>2. \A t \in Streams \ {s} : stream'[t] = stream[t]
    BY <1>0, <1>8 DEF ReenterGraph
  <2>3. stream[s].payload = None /\ stream'[s].payload = None
    BY <1>0, <1>1, <1>8 DEF ReenterGraph, Moved, StreamStage
  <2>4. \A r \in RunIds, t \in Streams : Opens(t, r)' => Opens(t, r) /\ stream'[t] = stream[t]
    BY <2>2, <2>3 DEF Opens
  <2>5. ASSUME NEW r \in RunIds
        PROVE  RunStage(r)'
    BY <2>1, <2>4, RunStagesKept
  <2> QED
    BY <2>5 DEF RunStages
<1>9. ASSUME NEW s \in Streams, stream[s].pc \in Suspended,
             NEW pos \in Nat, NEW wait \in BOOLEAN, NEW v \in Verdicts \cup {None},
             SaveThread(s, pos, wait, v), pos > 0, UNCHANGED storeVars,
             stream'[s].run = stream[s].run, stream'[s].payload = stream[s].payload,
             \A t \in Streams \ {s} : stream'[t] = stream[t],
             wait => AtGate(stream[s].wf, pos),
             stream[s].payload = None => GateBy(stream[s].wf, pos)
      PROVE  RunStages'
  BY <1>9, CheckpointKeepsStages DEF RunStages
<1>10. ASSUME NEW s \in Streams, EnterGraph(s)
       PROVE  RunStages'
  <2>1. stream[s].pc \in Suspended /\ stream[s].payload # None
    BY <1>1, <1>10 DEF EnterGraph, Suspended, StreamStage
  <2>2. SaveThread(s, 1, FALSE, None) /\ UNCHANGED storeVars
    BY <1>10 DEF EnterGraph
  <2>3. /\ stream'[s].run = stream[s].run /\ stream'[s].payload = stream[s].payload
        /\ \A t \in Streams \ {s} : stream'[t] = stream[t]
    BY <1>0, <1>10 DEF EnterGraph, Moved
  <2>4. PICK n \in Nat : n = 1 /\ n > 0
    OBVIOUS
  <2>5. SaveThread(s, n, FALSE, None)
    BY <2>2, <2>4
  <2>6. FALSE \in BOOLEAN /\ None \in Verdicts \cup {None}
    OBVIOUS
  <2> QED
    BY <1>9, <2>1, <2>2, <2>3, <2>4, <2>5, <2>6
<1>11. ASSUME NEW s \in Streams, FinishWork(s) \/ PassGate(s)
       PROVE  RunStages'
  <2>1. PICK v \in Verdicts \cup {None} : Advance(s, v)
    BY <1>1, <1>11 DEF FinishWork, PassGate, StreamRecord
  <2>2. stream[s].pc = "node" /\ UNCHANGED storeVars
    BY <1>11 DEF FinishWork, PassGate
  <2>3. stream[s].pc \in Suspended
    BY <2>2 DEF Suspended
  <2>4. PICK n \in Nat : n = stream[s].pos + 1
    BY <1>1 DEF StreamRecord
  <2>5. /\ SaveThread(s, n, FALSE, v)
        /\ stream'[s].run = stream[s].run /\ stream'[s].payload = stream[s].payload
        /\ \A t \in Streams \ {s} : stream'[t] = stream[t]
    BY <1>0, <2>1, <2>4 DEF Advance, Moved
  <2>6. stream[s].pos \in DOMAIN Graph[stream[s].wf] /\ stream[s].wf \in Workflows
    BY <1>1, <2>2, <2>3, OpenStream DEF StreamStage
  <2>7. stream[s].pos > 0 /\ n > 0
    <3>1. Graph[stream[s].wf] \in Seq({"work", "gate"})
      BY <2>6, GraphsAreNodeSequences
    <3> QED
      BY <2>4, <2>6, <3>1
  <2>8. stream[s].payload = None => GateBy(stream[s].wf, n)
    <3>1. stream[s].payload = None => GateBy(stream[s].wf, stream[s].pos)
      BY <1>1, <2>3, <2>7 DEF StreamStage, StreamOK
    <3>2. PICK m \in Nat : m = stream[s].pos
      BY <1>1 DEF StreamRecord
    <3>3. m > 0 /\ n = m + 1
      BY <2>4, <2>7, <3>2
    <3>4. GateBy(stream[s].wf, m) => BehindGate(stream[s].wf, n)
      BY <3>3 DEF GateBy, BehindGate, AtGate
    <3> QED
      BY <3>1, <3>2, <3>4 DEF GateBy
  <2> QED
    BY <1>9, <2>2, <2>3, <2>5, <2>7, <2>8
<1>12. ASSUME NEW s \in Streams, Interrupt(s)
       PROVE  RunStages'
  <2>1. /\ stream[s].pc = "node" /\ Graph[stream[s].wf][stream[s].pos] = "gate"
        /\ Goto(s, "ended") /\ UNCHANGED storeVars
        /\ SaveThread(s, stream[s].pos, TRUE, stream[s].verdict)
    BY <1>12 DEF Interrupt, Nodes
  <2>2. stream[s].pc \in Suspended
    BY <2>1 DEF Suspended
  <2>3. stream[s].pos \in DOMAIN Graph[stream[s].wf] /\ stream[s].wf \in Workflows
    BY <1>1, <2>1, <2>2, OpenStream DEF StreamStage
  <2>4. stream[s].pos > 0 /\ stream[s].pos \in Nat
    BY <1>1, <2>3, GraphsAreNodeSequences DEF StreamRecord
  <2>5. AtGate(stream[s].wf, stream[s].pos)
    BY <2>1, <2>3 DEF AtGate
  <2>6. /\ stream'[s].run = stream[s].run /\ stream'[s].payload = stream[s].payload
        /\ \A t \in Streams \ {s} : stream'[t] = stream[t]
    BY <1>0, <2>1 DEF Goto, Moved
  <2>7. stream[s].verdict \in Verdicts \cup {None} /\ GateBy(stream[s].wf, stream[s].pos)
    BY <1>1, <2>5 DEF StreamRecord, GateBy
  <2> QED
    BY <1>9, <2>1, <2>2, <2>4, <2>5, <2>6, <2>7
<1>13. ASSUME NEW s \in Streams,
              CacheHit(s) \/ (\E g \in Gates : Pause(s, g)) \/ Complete(s) \/ Fail(s)
       PROVE  RunStages'
  <2>1. stream[s].pc \in Suspended \/ stream[s].resume # None
    BY <1>13 DEF CacheHit, Pause, Complete, Fail, Suspended
  <2>2. PICK state \in RunState, g \in Gates \cup {None} :
            /\ Settle(s, stream[s].run, state, g)
            /\ UNCHANGED thread
            /\ state = "awaiting_decision" => /\ g # None
                                              /\ thread[stream[s].run].waiting
                                              /\ stream[s].pc \in Suspended
    <3>1. {"completed", "failed", "awaiting_decision"} \subseteq RunState
      BY DEF RunState
    <3>2. CASE CacheHit(s) \/ Complete(s)
      BY <3>1, <3>2 DEF CacheHit, Complete
    <3>3. CASE Fail(s)
      BY <3>1, <3>3 DEF Fail
    <3>4. ASSUME NEW g \in Gates, Pause(s, g)
          PROVE  /\ Settle(s, stream[s].run, "awaiting_decision", g)
                 /\ UNCHANGED thread /\ thread[stream[s].run].waiting
                 /\ stream[s].pc \in Suspended /\ g # None
      BY <3>4, NoneIsNoValue DEF Pause, Suspended
    <3> QED
      BY <1>13, <3>1, <3>2, <3>3, <3>4
  <2>3. ASSUME NEW r \in RunIds
        PROVE  RunStage(r)'
    BY <2>1, <2>2, SettlingKeepsStages
  <2> QED
    BY <2>3 DEF RunStages
<1>14. ASSUME NEW s \in Streams, StreamStep(s)
       PROVE  RunStages'
  BY <1>4, <1>7, <1>8, <1>10, <1>11, <1>12, <1>13, <1>14 DEF StreamStep
<1>15. CASE RetentionJob
  <2>1. \A r \in RunIds :
            runs'[r] = IF IsAbandoned(r) THEN Cancelled(runs[r]) ELSE runs[r]
    BY <1>15 DEF RetentionJob, ExpireRuns
  <2>2. UNCHANGED <<decisions, thread, stream>>
    BY <1>15 DEF RetentionJob, ExpireRuns, apiVars
  <2>3. ASSUME NEW r \in RunIds, runs'[r].state = "awaiting_decision"
        PROVE  runs'[r] = runs[r]
    <3>1. runs'[r] = runs[r] \/ runs'[r] = Cancelled(runs[r])
      BY <2>1
    <3>2. Cancelled(runs[r]).state = "cancelled"
      BY DEF Cancelled, Updated
    <3> HIDE DEF Cancelled
    <3> QED
      BY <2>3, <3>1, <3>2
  <2>4. \A r \in RunIds : runs'[r].state = "awaiting_decision" =>
            /\ runs[r].state = "awaiting_decision"
            /\ runs'[r].gate_payload = runs[r].gate_payload
    BY <2>3
  <2> QED
    BY <1>2, <2>2, <2>4
<1>16. CASE ApiTick \/ UNCHANGED runApiVars
  BY <1>2, <1>16 DEF ApiTick, Tick, apiVars, runApiVars
<1> QED
  BY <1>4, <1>5, <1>6, <1>14, <1>15, <1>16 DEF ApiNext

LEMMA StageInvInductive == ApiInv /\ StageInv /\ [ApiNext]_runApiVars => StageInv'
BY StreamStagesInductive, RunStagesInductive DEF StageInv

LEMMA StagesInitially == ApiInit => StageInv
<1> SUFFICES ASSUME ApiInit
             PROVE  StageInv
  OBVIOUS
<1>1. StreamStages
  BY DEF ApiInit, StreamStages, StreamStage, Free
<1>2. ASSUME NEW r \in RunIds
      PROVE  RunStage(r)
  BY DEF ApiInit, Init, RunStage, OneOpener, PausedStage, WaitingStage, AwaitingStage,
         Opens, WasPaused, Free, NoThread, NoRecord
<1> QED
  BY <1>1, <1>2 DEF StageInv, RunStages

-----------------------------------------------------------------------------
(* How often a node is executed.  The request that created the run executes  *)
(* each node up to the first gate once; a node behind a gate is executed     *)
(* once, at most, by each request that a decision opened.                    *)

Made == {s \in Streams : stream[s] # Free}
Decided(r) == {s \in Streams : Reopens(s, r)}
PastNode(r, n) == {s \in Streams : Reopens(s, r) /\ stream[s].pos > n}

Uncounted(r, n) ==
    TimesExecuted(r, n) <= Cardinality(PastNode(r, n))

CountedOnce(r, n) ==
    /\ TimesExecuted(r, n) <= 1
    /\ \A s \in Streams : Opens(s, r) =>
        /\ n >= stream[s].pos => TimesExecuted(r, n) = 0
        /\ n < stream[s].pos /\ Graph[runs[r].workflow][n] = "work"
                => TimesExecuted(r, n) = 1

Counted(r) ==
    /\ Cardinality(Decided(r)) <= Len(decisions[r])
    /\ runs[r].workflow # None => \A n \in DOMAIN Graph[runs[r].workflow] :
            IF BehindGate(runs[r].workflow, n) THEN Uncounted(r, n) ELSE CountedOnce(r, n)

CountInv == IsFiniteSet(Made) /\ \A r \in RunIds : Counted(r)

\* A request, once made, keeps its input and its run, and goes forward.
GoesOn(s) ==
    /\ stream'[s].payload = stream[s].payload
    /\ stream[s].run # None => stream'[s].run = stream[s].run
    /\ stream'[s].pos >= stream[s].pos

LEMMA RequestsGoOn ==
    ASSUME ApiInv, StageInv, [ApiNext]_runApiVars
    PROVE  \/ UNCHANGED stream
           \/ \E s \in Streams : /\ \A t \in Streams \ {s} : stream'[t] = stream[t]
                                 /\ GoesOn(s) \/ stream[s] = Free
<1> DEFINE Goal == \E s \in Streams : /\ \A t \in Streams \ {s} : stream'[t] = stream[t]
                                      /\ GoesOn(s) \/ stream[s] = Free
<1>0. stream \in [Streams -> StreamRecord]
  BY DEF ApiInv, ApiTypeOK
<1>1. ASSUME NEW s \in Streams
      PROVE  stream[s] \in StreamRecord /\ StreamStage(stream[s]) /\ stream[s].pos \in Nat
  BY <1>0 DEF StageInv, StreamStages, StreamRecord
<1>2. ASSUME NEW s \in Streams, NEW x, stream' = [stream EXCEPT ![s] = x],
             \/ stream[s] = Free
             \/ /\ x.payload = stream[s].payload
                /\ stream[s].run # None => x.run = stream[s].run
                /\ x.pos >= stream[s].pos
      PROVE  Goal
  <2>1. stream'[s] = x /\ \A t \in Streams \ {s} : stream'[t] = stream[t]
    BY <1>0, <1>2
  <2>2. GoesOn(s) \/ stream[s] = Free
    BY <1>2, <2>1 DEF GoesOn
  <2> QED
    BY <2>1, <2>2
<1>3. ASSUME NEW s \in Streams, NEW pc, Goto(s, pc)
      PROVE  Goal
  <2>1. PICK x : x = Moved(stream[s], stream[s].run, pc, stream[s].pos,
                           stream[s].verdict, stream[s].resume)
    OBVIOUS
  <2>2. stream' = [stream EXCEPT ![s] = x]
    BY <1>0, <1>3, <2>1 DEF Goto
  <2>3. x.payload = stream[s].payload /\ x.run = stream[s].run /\ x.pos = stream[s].pos
    BY <2>1 DEF Moved
  <2>4. x.pos >= stream[s].pos
    BY <1>1, <2>3
  <2> QED
    BY <1>2, <2>2, <2>3, <2>4
<1>4. ASSUME NEW s \in Streams, NEW wf \in Workflows, NEW p \in Payloads,
             PostRun(s, wf, p)
      PROVE  Goal
  BY <1>2, <1>4 DEF PostRun
<1>5. ASSUME NEW s \in Streams, NEW r \in RunIds, NEW v \in Verdicts,
             NEW c \in Comments, NEW p \in Subjects, PostDecision(s, r, v, c, p)
      PROVE  Goal
  BY <1>2, <1>5 DEF PostDecision, Resumed
<1>6. ASSUME NEW s \in Streams, NEW r \in RunIds, OpenRun(s, r)
      PROVE  Goal
  <2>1. PICK x : x = Moved(stream[s], r, "lookup", 0, None, None)
    OBVIOUS
  <2>2. stream' = [stream EXCEPT ![s] = x]
    BY <1>0, <1>6, <2>1 DEF OpenRun
  <2>3. x.payload = stream[s].payload /\ x.pos = 0
    BY <2>1 DEF Moved
  <2>4. stream[s].pos = 0 /\ stream[s].run = None
    BY <1>1, <1>6 DEF OpenRun, StreamStage
  <2>5. x.pos >= stream[s].pos
    BY <2>3, <2>4
  <2> QED
    BY <1>2, <2>2, <2>3, <2>4, <2>5
<1>7. ASSUME NEW s \in Streams, NEW pc, NEW pos, NEW v, NEW w,
             stream' = [stream EXCEPT ![s] = Moved(stream[s], stream[s].run, pc, pos, v, w)],
             pos >= stream[s].pos
      PROVE  Goal
  <2>1. PICK x : x = Moved(stream[s], stream[s].run, pc, pos, v, w)
    OBVIOUS
  <2>2. x.payload = stream[s].payload /\ x.run = stream[s].run /\ x.pos = pos
    BY <2>1 DEF Moved
  <2> QED
    BY <1>2, <1>7, <2>1, <2>2
<1>8. ASSUME NEW s \in Streams, EnterGraph(s)
      PROVE  Goal
  <2>1. stream[s].pos = 0
    BY <1>1, <1>8 DEF EnterGraph, StreamStage
  <2>2. PICK n \in Nat : n = 1
    OBVIOUS
  <2>3. n >= stream[s].pos
    BY <2>1, <2>2
  <2>4. stream' = [stream EXCEPT ![s] =
                    Moved(stream[s], stream[s].run, PcAt(stream[s].wf, n), n, None, None)]
    BY <1>0, <1>8, <2>2 DEF EnterGraph
  <2> QED
    BY <1>7, <2>3, <2>4
<1>9. ASSUME NEW s \in Streams, ReenterGraph(s)
      PROVE  Goal
  <2>1. stream[s].pos = 0
    BY <1>1, <1>9 DEF ReenterGraph, StreamStage
  <2>2. PICK t \in ThreadRecord : t = thread[stream[s].run]
    BY <1>9, OpenStream DEF ReenterGraph, ApiInv, ApiTypeOK
  <2>3. t.at >= stream[s].pos
    BY <2>1, <2>2 DEF ThreadRecord
  <2>4. stream' = [stream EXCEPT ![s] =
                    Moved(stream[s], stream[s].run, PcAt(stream[s].wf, t.at), t.at, t.verdict,
                          IF AtGate(stream[s].wf, t.at) THEN stream[s].resume ELSE None)]
    BY <1>0, <1>9, <2>2 DEF ReenterGraph
  <2> QED
    BY <1>7, <2>3, <2>4
<1>10. ASSUME NEW s \in Streams, NEW v, Advance(s, v)
       PROVE  Goal
  <2>1. PICK n \in Nat : n = stream[s].pos + 1
    BY <1>1
  <2>2. n >= stream[s].pos
    BY <1>1, <2>1
  <2>3. stream' = [stream EXCEPT ![s] =
                    Moved(stream[s], stream[s].run, PcAt(stream[s].wf, n), n, v, None)]
    BY <1>0, <1>10, <2>1 DEF Advance
  <2> QED
    BY <1>7, <2>2, <2>3
<1>11. ASSUME NEW s \in Streams, StreamStep(s)
       PROVE  Goal
  <2>1. CASE CacheHit(s) \/ (\E g \in Gates : Pause(s, g)) \/ Complete(s) \/ Fail(s)
    BY <1>3, <2>1 DEF CacheHit, Pause, Complete, Fail, Settle
  <2>2. CASE StartNode(s) \/ Interrupt(s) \/ ProduceOutput(s) \/ Close(s)
    BY <1>3, <2>2 DEF StartNode, Interrupt, ProduceOutput, Close
  <2>3. CASE FinishWork(s) \/ PassGate(s)
    BY <1>10, <2>3 DEF FinishWork, PassGate
  <2> QED
    BY <1>6, <1>8, <1>9, <1>11, <2>1, <2>2, <2>3 DEF StreamStep
<1>12. ASSUME NEW s \in Streams, Disconnect(s) \/ NeverPulled(s)
       PROVE  Goal
  BY <1>3, <1>12 DEF Disconnect, NeverPulled
<1>13. CASE RetentionJob \/ ApiTick \/ UNCHANGED runApiVars
  BY <1>13 DEF RetentionJob, ApiTick, apiVars, runApiVars
<1> QED
  BY <1>4, <1>5, <1>11, <1>12, <1>13 DEF ApiNext

LEMMA MadeStaysFinite ==
    ASSUME ApiInv, StageInv, [ApiNext]_runApiVars, IsFiniteSet(Made)
    PROVE  IsFiniteSet(Made')
<1>1. CASE UNCHANGED stream
  BY <1>1 DEF Made
<1>2. ASSUME NEW s \in Streams, \A t \in Streams \ {s} : stream'[t] = stream[t]
      PROVE  IsFiniteSet(Made')
  <2>1. Made' \subseteq Made \cup {s}
    BY <1>2 DEF Made
  <2>2. IsFiniteSet(Made \cup {s})
    BY FS_AddElement
  <2> QED
    BY <2>1, <2>2, FS_Subset
<1> QED
  BY <1>1, <1>2, RequestsGoOn

\* A request that was made stays with its run, and goes forward.
LEMMA MadeGoesOn ==
    ASSUME ApiInv, StageInv, [ApiNext]_runApiVars, NEW s \in Streams,
           NEW r \in RunIds, stream[s].run = r
    PROVE  GoesOn(s) /\ stream'[s].run = r
<1>1. stream[s] # Free /\ stream[s].run # None /\ stream[s].pos \in Nat
  BY NoneIsNoValue, RunIdsAreOrdered DEF Free, ApiInv, ApiTypeOK, StreamRecord
<1>2. CASE stream'[s] = stream[s]
  BY <1>1, <1>2 DEF GoesOn
<1> QED
  BY <1>1, <1>2, RequestsGoOn DEF GoesOn

LEMMA FewerRequests ==
    ASSUME IsFiniteSet(Made), NEW r \in RunIds
    PROVE  /\ IsFiniteSet(Decided(r)) /\ Cardinality(Decided(r)) \in Nat
           /\ \A n : /\ IsFiniteSet(PastNode(r, n)) /\ Cardinality(PastNode(r, n)) \in Nat
                     /\ Cardinality(PastNode(r, n)) <= Cardinality(Decided(r))
<1>1. Decided(r) \subseteq Made
  BY NoneIsNoValue, RunIdsAreOrdered DEF Decided, Made, Reopens, Free
<1>2. IsFiniteSet(Decided(r)) /\ Cardinality(Decided(r)) \in Nat
  BY <1>1, FS_Subset, FS_CardinalityType
<1>3. ASSUME NEW n
      PROVE  /\ IsFiniteSet(PastNode(r, n)) /\ Cardinality(PastNode(r, n)) \in Nat
             /\ Cardinality(PastNode(r, n)) <= Cardinality(Decided(r))
  <2>1. PastNode(r, n) \subseteq Decided(r)
    BY DEF PastNode, Decided
  <2> QED
    BY <1>2, <2>1, FS_Subset, FS_CardinalityType
<1> QED
  BY <1>2, <1>3

\* What an execution adds to the count of a node.
Executions(q, n) == {i \in DOMAIN q : q[i].node = n}

LEMMA ExecutionsCounted ==
    ASSUME NEW q \in Seq(Effect), NEW n
    PROVE  /\ Cardinality(Executions(q, n)) \in Nat
           /\ \A e \in Effect :
                Cardinality(Executions(Append(q, e), n))
                    = Cardinality(Executions(q, n)) + (IF e.node = n THEN 1 ELSE 0)
<1> DEFINE At(s) == {i \in DOMAIN s : s[i].node = n}
<1>1. IsFiniteSet(At(q)) /\ Cardinality(At(q)) \in Nat
  <2>1. DOMAIN q = 1 .. Len(q) /\ Len(q) \in Nat
    OBVIOUS
  <2>2. IsFiniteSet(1 .. Len(q))
    BY <2>1, FS_Interval
  <2>3. At(q) \subseteq 1 .. Len(q)
    BY <2>1
  <2> QED
    BY <2>2, <2>3, FS_Subset, FS_CardinalityType
<1>2. ASSUME NEW e \in Effect
      PROVE  Cardinality(At(Append(q, e))) = Cardinality(At(q)) + (IF e.node = n THEN 1 ELSE 0)
  <2> DEFINE new == Append(q, e)
  <2>1. PICK m \in Nat : m = Len(q)
    OBVIOUS
  <2>2. /\ DOMAIN q = 1 .. m /\ DOMAIN new = 1 .. (m + 1)
        /\ \A i \in 1 .. m : new[i] = q[i]
        /\ new[m + 1] = e
    BY <2>1
  <2> HIDE DEF new
  <2>3. CASE e.node # n
    <3>1. At(new) = At(q)
      BY <2>2, <2>3
    <3>2. PICK c \in Nat : c = Cardinality(At(q))
      BY <1>1
    <3>3. c = c + (IF e.node = n THEN 1 ELSE 0)
      BY <2>3
    <3>4. Cardinality(At(new)) = c
      BY <3>1, <3>2
    <3> HIDE DEF At
    <3> QED
      BY <3>2, <3>3, <3>4 DEF new
  <2>4. CASE e.node = n
    <3>1. At(new) = At(q) \cup {m + 1} /\ m + 1 \notin At(q)
      BY <2>2, <2>4
    <3>2. Cardinality(At(new)) = Cardinality(At(q)) + 1
      BY <1>1, <3>1, FS_AddElement
    <3> QED
      BY <2>4, <3>2 DEF new
  <2> QED
    BY <2>3, <2>4
<1> QED
  BY <1>1, <1>2 DEF Executions

LEMMA TimesAreNumbers ==
    ASSUME ApiInv, NEW r \in RunIds, NEW n
    PROVE  TimesExecuted(r, n) \in Nat /\ TimesExecuted(r, n) = Cardinality(Executions(effects[r], n))
<1>1. effects[r] \in Seq(Effect)
  BY DEF ApiInv, ApiTypeOK
<1>2. TimesExecuted(r, n) = Cardinality(Executions(effects[r], n))
  BY DEF TimesExecuted, Executions
<1> QED
  BY <1>1, <1>2, ExecutionsCounted

LEMMA FewerRequestsNext ==
    ASSUME IsFiniteSet(Made'), NEW r \in RunIds
    PROVE  /\ IsFiniteSet(Decided(r)') /\ Cardinality(Decided(r)') \in Nat
           /\ \A n : IsFiniteSet(PastNode(r, n)') /\ Cardinality(PastNode(r, n)') \in Nat
<1>1. Decided(r)' \subseteq Made' /\ \A n : PastNode(r, n)' \subseteq Made'
  BY NoneIsNoValue, RunIdsAreOrdered DEF Decided, PastNode, Made, Reopens, Free
<1> QED
  BY <1>1, FS_Subset, FS_CardinalityType

LEMMA NodesAreNumbers ==
    ASSUME ApiInv, NEW r \in RunIds, runs[r].workflow # None,
           NEW n \in DOMAIN Graph[runs[r].workflow]
    PROVE  /\ n \in Nat /\ n >= 1
           /\ runs[r].workflow \in Workflows
           /\ Graph[runs[r].workflow][n] \in {"work", "gate"}
<1>1. runs[r].workflow \in Workflows
  BY DEF ApiInv, ApiTypeOK, TypeOK, RunRecord
<1>2. Graph[runs[r].workflow] \in Seq({"work", "gate"})
  BY <1>1, GraphsAreNodeSequences
<1> QED
  BY <1>1, <1>2

\* A step that executes nothing and opens nothing for the run r.
LEMMA CountKept ==
    ASSUME ApiInv, StageInv, CountInv, [ApiNext]_runApiVars, NEW r \in RunIds,
           UNCHANGED <<effects[r], decisions[r]>>,
           runs'[r].workflow = runs[r].workflow,
           \A t \in Streams : stream'[t].run = r => stream[t].run = r,
           \A t \in Streams : Opens(t, r) =>
                \/ stream'[t].pos = stream[t].pos
                \/ stream[t].pos = 0 /\ stream'[t].pos = 1
    PROVE  Counted(r)'
<1> DEFINE wf == runs[r].workflow
<1>1. Counted(r) /\ IsFiniteSet(Made)
  BY DEF CountInv
<1>2. IsFiniteSet(Made)'
  BY <1>1, MadeStaysFinite
<1>3. ASSUME NEW t \in Streams, stream[t].run = r \/ stream'[t].run = r
      PROVE  GoesOn(t) /\ stream'[t].run = r /\ stream[t].run = r
  BY <1>3, MadeGoesOn
<1>4. ASSUME NEW t \in Streams
      PROVE  /\ Opens(t, r)' <=> Opens(t, r)
             /\ Reopens(t, r)' <=> Reopens(t, r)
             /\ Reopens(t, r) => stream'[t].pos >= stream[t].pos
             /\ stream[t].pos \in Nat /\ stream'[t].pos \in Nat
  <2>1. stream[t] \in StreamRecord /\ stream'[t] \in StreamRecord
    BY StreamsInductive DEF ApiInv, ApiTypeOK
  <2> QED
    BY <1>3, <2>1 DEF Opens, Reopens, GoesOn, StreamRecord
<1>5. Decided(r)' = Decided(r)
  BY <1>4 DEF Decided
<1>6. ASSUME NEW n \in DOMAIN Graph[wf], wf # None
      PROVE  IF BehindGate(wf, n) THEN Uncounted(r, n)' ELSE CountedOnce(r, n)'
  <2>0. n \in Nat /\ n >= 1
    BY <1>6, NodesAreNumbers
  <2>1. TimesExecuted(r, n)' = TimesExecuted(r, n)
    BY DEF TimesExecuted
  <2>2. CASE BehindGate(wf, n)
    <3>1. Uncounted(r, n)
      BY <1>1, <1>6, <2>2 DEF Counted
    <3>2. PastNode(r, n) \subseteq PastNode(r, n)'
      <4>1. ASSUME NEW t \in Streams, Reopens(t, r), stream[t].pos > n
            PROVE  Reopens(t, r)' /\ stream'[t].pos > n
        BY <1>4, <2>0, <4>1
      <4> QED
        BY <4>1 DEF PastNode
    <3>3. IsFiniteSet(PastNode(r, n)') /\ Cardinality(PastNode(r, n)') \in Nat
      BY <1>2, FewerRequestsNext
    <3>4. PICK c \in Nat : c = TimesExecuted(r, n)
      BY TimesAreNumbers
    <3>5. PICK k \in Nat : k = Cardinality(PastNode(r, n))
      BY <1>1, FewerRequests
    <3>6. PICK j \in Nat : j = Cardinality(PastNode(r, n)')
      BY <3>3
    <3>7. c <= k /\ k <= j
      BY <3>1, <3>2, <3>3, <3>4, <3>5, <3>6, FS_Subset DEF Uncounted
    <3>8. c <= j
      BY <3>7
    <3>9. Uncounted(r, n)'
      BY <2>1, <3>4, <3>6, <3>8 DEF Uncounted
    <3> QED
      BY <2>2, <3>9
  <2>3. CASE ~BehindGate(wf, n)
    <3>1. CountedOnce(r, n)
      BY <1>1, <1>6, <2>3 DEF Counted
    <3>2. ASSUME NEW t \in Streams, Opens(t, r)
          PROVE  /\ n >= stream'[t].pos => n >= stream[t].pos
                 /\ n < stream'[t].pos => n < stream[t].pos
      BY <1>4, <2>0, <3>2
    <3>3. TimesExecuted(r, n)' <= 1
      BY <2>1, <3>1 DEF CountedOnce
    <3>4. ASSUME NEW t \in Streams, Opens(t, r)'
          PROVE  /\ n >= stream'[t].pos => TimesExecuted(r, n)' = 0
                 /\ n < stream'[t].pos /\ Graph[runs'[r].workflow][n] = "work"
                        => TimesExecuted(r, n)' = 1
      <4>1. Opens(t, r)
        BY <1>4, <3>4
      <4> QED
        BY <2>1, <3>1, <3>2, <4>1 DEF CountedOnce
    <3>5. CountedOnce(r, n)'
      BY <3>3, <3>4 DEF CountedOnce
    <3> QED
      BY <2>3, <3>5
  <2> QED
    BY <2>2, <2>3
<1>7. Cardinality(Decided(r)') <= Len(decisions'[r])
  BY <1>1, <1>5 DEF Counted
<1> QED
  BY <1>6, <1>7 DEF Counted, BehindGate

\* A run that is opened has executed nothing and was decided by nobody.
LEMMA CountOpened ==
    ASSUME ApiInv, StageInv, CountInv, [ApiNext]_runApiVars, NEW s \in Streams,
           NEW r \in RunIds, OpenRun(s, r)
    PROVE  Counted(r)'
<1>1. /\ ~Exists(r) /\ UNCHANGED <<effects, decisions>>
      /\ stream' = [stream EXCEPT ![s] = Moved(stream[s], r, "lookup", 0, None, None)]
      /\ stream[s].pc = "created" /\ stream[s].resume = None
  BY DEF OpenRun, CreateRun
<1>2. \A t \in Streams : stream[t].run # r
  BY <1>1, NoneIsNoValue, RunIdsAreOrdered DEF ApiInv, StreamsOK, StreamOK
<1>3. /\ \A t \in Streams \ {s} : stream'[t] = stream[t]
      /\ stream'[s].pos = 0 /\ stream'[s].payload = stream[s].payload
  BY <1>1 DEF Moved, ApiInv, ApiTypeOK
<1>4. stream[s].payload # None
  BY <1>1 DEF StageInv, StreamStages, StreamStage
<1>5. effects[r] \in Seq(Effect) /\ DOMAIN effects[r] = {}
  BY <1>1 DEF ApiInv, ApiTypeOK, EffectsOK, EffectOK
<1>6. \A n : TimesExecuted(r, n)' = 0
  BY <1>1, <1>5, FS_EmptySet DEF TimesExecuted
<1>7. Decided(r)' = {}
  BY <1>2, <1>3, <1>4 DEF Decided, Reopens
<1>8. Cardinality(Decided(r)') <= Len(decisions'[r])
  <2>1. decisions[r] \in Seq(DecisionRecord)
    BY DEF ApiInv, ApiTypeOK, TypeOK
  <2>2. Cardinality(Decided(r)') = 0 /\ Len(decisions[r]) \in Nat
    BY <1>7, <2>1, FS_EmptySet
  <2> QED
    BY <1>1, <2>2
<1>9. \A n : Uncounted(r, n)'
  <2>1. IsFiniteSet(Made')
    BY MadeStaysFinite DEF CountInv
  <2> QED
    BY <1>6, <2>1, FewerRequestsNext DEF Uncounted
<1>10. ASSUME NEW n \in Nat, n >= 1
       PROVE  CountedOnce(r, n)'
  <2>1. \A t \in Streams : Opens(t, r)' => stream'[t].pos = 0
    BY <1>2, <1>3 DEF Opens
  <2> QED
    BY <1>6, <1>10, <2>1 DEF CountedOnce
<1>11. ASSUME runs'[r].workflow # None, NEW n \in DOMAIN Graph[runs'[r].workflow]
       PROVE  n \in Nat /\ n >= 1
  <2>1. runs'[r].workflow \in Workflows
    BY <1>11, ApiInvInductive DEF ApiInv, ApiTypeOK, TypeOK, RunRecord
  <2>2. Graph[runs'[r].workflow] \in Seq({"work", "gate"})
    BY <2>1, GraphsAreNodeSequences
  <2> QED
    BY <1>11, <2>2
<1> QED
  BY <1>8, <1>9, <1>10, <1>11 DEF Counted, BehindGate

\* A decision is recorded, and one request is there to act on it.
LEMMA CountDecided ==
    ASSUME ApiInv, StageInv, CountInv, [ApiNext]_runApiVars, NEW s \in Streams,
           NEW r \in RunIds, NEW v \in Verdicts, NEW c \in Comments, NEW p \in Subjects,
           PostDecision(s, r, v, c, p)
    PROVE  Counted(r)'
<1>1. stream[s] = Free /\ UNCHANGED <<runs, effects>>
  BY DEF PostDecision, AppendDecision
<1>2. \A t \in Streams \ {s} : stream'[t] = stream[t]
  BY DEF PostDecision, Resumed, ApiInv, ApiTypeOK
<1>3. stream'[s].run = r /\ stream'[s].payload = None /\ stream'[s].pos = 0
  BY DEF PostDecision, Resumed, Created, ApiInv, ApiTypeOK
<1>4. stream[s].run # r
  BY <1>1, NoneIsNoValue, RunIdsAreOrdered DEF Free
<1>5. Decided(r)' = Decided(r) \cup {s}
  BY <1>2, <1>3, <1>4 DEF Decided, Reopens
<1>6. \A n \in Nat : PastNode(r, n)' = PastNode(r, n)
  BY <1>2, <1>3, <1>4 DEF PastNode, Reopens
<1>7. \A t \in Streams : Opens(t, r)' <=> Opens(t, r) /\ t # s
  BY <1>2, <1>3, <1>4 DEF Opens
<1>8. Cardinality(Decided(r)') <= Len(decisions'[r])
  <2>1. /\ decisions \in [RunIds -> Seq(DecisionRecord)]
        /\ decisions' = [decisions EXCEPT ![r] = Append(decisions[r], NewDecision(r, v, c, p))]
    BY DEF PostDecision, AppendDecision, ApiInv, ApiTypeOK, TypeOK
  <2>2. decisions'[r] = Append(decisions[r], NewDecision(r, v, c, p))
    BY <2>1
  <2>3. PICK n \in Nat : n = Len(decisions[r]) /\ Len(decisions'[r]) = n + 1
    <3>1. decisions[r] \in Seq(DecisionRecord)
      BY <2>1
    <3> HIDE DEF NewDecision
    <3> QED
      BY <2>2, <3>1
  <2>4. PICK m \in Nat : m = Cardinality(Decided(r))
    BY FewerRequests DEF CountInv
  <2>5. m <= n
    BY <2>3, <2>4 DEF CountInv, Counted
  <2>6. Cardinality(Decided(r)') \in {m, m + 1}
    BY <1>5, <2>4, FewerRequests, FS_AddElement DEF CountInv
  <2>7. m <= n + 1 /\ m + 1 <= n + 1
    BY <2>5
  <2> QED
    BY <2>3, <2>6, <2>7
<1>9. ASSUME runs[r].workflow # None, NEW n \in DOMAIN Graph[runs[r].workflow]
      PROVE  IF BehindGate(runs[r].workflow, n) THEN Uncounted(r, n)' ELSE CountedOnce(r, n)'
  <2>1. IF BehindGate(runs[r].workflow, n) THEN Uncounted(r, n) ELSE CountedOnce(r, n)
    BY <1>9 DEF CountInv, Counted
  <2>2. n \in Nat
    BY <1>9, NodesAreNumbers
  <2>3. TimesExecuted(r, n)' = TimesExecuted(r, n)
    BY <1>1 DEF TimesExecuted
  <2>4. Uncounted(r, n) => Uncounted(r, n)'
    BY <1>6, <2>2, <2>3 DEF Uncounted
  <2>5. CountedOnce(r, n) => CountedOnce(r, n)'
    BY <1>1, <1>2, <1>7, <2>3 DEF CountedOnce
  <2> QED
    BY <2>1, <2>4, <2>5
<1> QED
  BY <1>1, <1>8, <1>9 DEF Counted, BehindGate

\* A node is executed: by the request that created the run, before any gate, or
\* by one that a decision opened, behind a gate.
LEMMA CountExecuted ==
    ASSUME ApiInv, StageInv, CountInv, [ApiNext]_runApiVars, NEW s \in Streams,
           NEW r \in RunIds, FinishWork(s), stream[s].run = r
    PROVE  Counted(r)'
<1> DEFINE wf == runs[r].workflow
           done == [node |-> stream[s].pos, verdict |-> stream[s].verdict]
<1>0. /\ stream[s].pc = "node" /\ Graph[stream[s].wf][stream[s].pos] = "work"
      /\ UNCHANGED <<runs, decisions>>
      /\ effects' = [effects EXCEPT ![stream[s].run] = Append(effects[stream[s].run], done)]
  BY DEF FinishWork, Nodes, storeVars
<1>1. PICK m \in Nat : m = stream[s].pos
  BY DEF ApiInv, ApiTypeOK, StreamRecord
<1>2. wf = stream[s].wf /\ wf \in Workflows /\ wf # None
  BY <1>0, OpenStream, NoneIsNoRequest DEF Suspended
<1>3. StreamStage(stream[s]) /\ StreamOK(stream[s])
  BY DEF StageInv, StreamStages, ApiInv, StreamsOK
<1>4. m \in DOMAIN Graph[wf] /\ m >= 1 /\ Graph[wf][m] = "work"
  BY <1>0, <1>1, <1>2, <1>3, NodesAreNumbers DEF StreamStage
<1>5. /\ \A t \in Streams \ {s} : stream'[t] = stream[t]
      /\ stream'[s].run = r /\ stream'[s].payload = stream[s].payload
      /\ stream'[s].pos = m + 1
  BY <1>1 DEF FinishWork, Advance, Moved, ApiInv, ApiTypeOK
<1>6. done \in Effect /\ done.node = m /\ effects'[r] = Append(effects[r], done)
      /\ effects[r] \in Seq(Effect)
  BY <1>0, <1>1 DEF Effect, ApiInv, ApiTypeOK, StreamRecord
<1> HIDE DEF done
<1>7. \A n : /\ TimesExecuted(r, n) \in Nat
             /\ TimesExecuted(r, n)' = TimesExecuted(r, n) + (IF m = n THEN 1 ELSE 0)
  <2> SUFFICES ASSUME NEW n
               PROVE  /\ TimesExecuted(r, n) \in Nat
                      /\ TimesExecuted(r, n)' =
                            TimesExecuted(r, n) + (IF m = n THEN 1 ELSE 0)
    OBVIOUS
  <2>1. TimesExecuted(r, n)' = Cardinality(Executions(Append(effects[r], done), n))
    BY <1>6 DEF TimesExecuted, Executions
  <2>2. Cardinality(Executions(Append(effects[r], done), n))
            = Cardinality(Executions(effects[r], n)) + (IF done.node = n THEN 1 ELSE 0)
    BY <1>6, ExecutionsCounted
  <2> QED
    BY <1>6, <2>1, <2>2, TimesAreNumbers
<1>8. \A t \in Streams : /\ Opens(t, r)' <=> Opens(t, r)
                         /\ Reopens(t, r)' <=> Reopens(t, r)
                         /\ stream[t].pos \in Nat
  BY <1>5 DEF Opens, Reopens, ApiInv, ApiTypeOK, StreamRecord
<1>9. Decided(r)' = Decided(r)
  BY <1>8 DEF Decided
<1>10. IsFiniteSet(Made) /\ IsFiniteSet(Made')
  BY MadeStaysFinite DEF CountInv
\* Who executes it.
<1>11. Opens(s, r) => ~BehindGate(wf, m)
  BY <1>0, <1>1, <1>2, <1>3 DEF Opens, StreamStage, StreamOK
<1>12. Reopens(s, r) => BehindGate(wf, m)
  <2> SUFFICES ASSUME Reopens(s, r)
               PROVE  BehindGate(wf, m)
    OBVIOUS
  <2>1. stream[s].run # None /\ stream[s].payload = None /\ m > 0
    BY <1>4, NoneIsNoValue, RunIdsAreOrdered DEF Reopens
  <2>2. GateBy(wf, m)
    BY <1>1, <1>2, <1>3, <2>1 DEF StreamStage
  <2>3. ~AtGate(wf, m)
    BY <1>4 DEF AtGate
  <2> QED
    BY <2>2, <2>3 DEF GateBy
<1>13. ASSUME NEW n \in DOMAIN Graph[wf], BehindGate(wf, n)
       PROVE  Uncounted(r, n)'
  <2>0. n \in Nat
    BY <1>2, <1>13, NodesAreNumbers
  <2>1. PICK c \in Nat : c = TimesExecuted(r, n)
    BY <1>7
  <2>2. PICK k \in Nat : k = Cardinality(PastNode(r, n))
    BY <1>10, FewerRequests
  <2>3. PICK j \in Nat : j = Cardinality(PastNode(r, n)')
    BY <1>10, FewerRequestsNext
  <2>4. c <= k
    BY <1>2, <1>13, <2>1, <2>2 DEF CountInv, Counted, Uncounted
  <2>5. IsFiniteSet(PastNode(r, n)) /\ IsFiniteSet(PastNode(r, n)')
    BY <1>10, FewerRequests, FewerRequestsNext
  <2>6. \A t \in Streams : Reopens(t, r) /\ stream[t].pos > n => stream'[t].pos > n
    BY <1>1, <1>5, <1>8, <2>0
  <2>7. PastNode(r, n) \subseteq PastNode(r, n)'
    BY <1>8, <2>6 DEF PastNode
  <2>8. CASE m # n
    <3>1. TimesExecuted(r, n)' = c
      BY <1>7, <2>1, <2>8
    <3>2. k <= j
      BY <2>2, <2>3, <2>5, <2>7, FS_Subset
    <3>3. c <= j
      BY <2>4, <3>2
    <3> QED
      BY <2>3, <3>1, <3>3 DEF Uncounted
  <2>9. CASE m = n
    <3>1. TimesExecuted(r, n)' = c + 1
      BY <1>7, <2>1, <2>9
    <3>2. Reopens(s, r)
      BY <1>11, <1>13, <2>9 DEF Opens, Reopens
    <3>3. s \in PastNode(r, n)' /\ s \notin PastNode(r, n)
      <4>1. m + 1 > n /\ ~(m > n)
        BY <2>9
      <4> QED
        BY <1>1, <1>5, <1>8, <3>2, <4>1 DEF PastNode
    <3>4. Cardinality(PastNode(r, n) \cup {s}) = k + 1
      BY <2>2, <2>5, <3>3, FS_AddElement
    <3>5. k + 1 <= j
      <4>1. PastNode(r, n) \cup {s} \subseteq PastNode(r, n)'
        BY <2>7, <3>3
      <4> QED
        BY <2>3, <2>5, <3>4, <4>1, FS_Subset
    <3>6. c + 1 <= j
      BY <2>4, <3>5
    <3> QED
      BY <2>3, <3>1, <3>6 DEF Uncounted
  <2> QED
    BY <2>8, <2>9
<1>14. ASSUME NEW n \in DOMAIN Graph[wf], ~BehindGate(wf, n)
       PROVE  CountedOnce(r, n)'
  <2>0. n \in Nat
    BY <1>2, <1>14, NodesAreNumbers
  <2>1. CountedOnce(r, n)
    BY <1>2, <1>14 DEF CountInv, Counted
  <2>2. CASE Reopens(s, r)
    <3>1. m # n
      BY <1>12, <1>14, <2>2
    <3>2. TimesExecuted(r, n)' = TimesExecuted(r, n)
      BY <1>7, <3>1
    <3>3. \A t \in Streams : Opens(t, r)' => Opens(t, r) /\ stream'[t] = stream[t]
      BY <1>5, <1>8, <2>2 DEF Opens, Reopens
    <3> QED
      BY <1>0, <2>1, <3>2, <3>3 DEF CountedOnce
  <2>3. CASE Opens(s, r)
    <3>1. \A t \in Streams : Opens(t, r)' => t = s
      BY <1>8, <2>3 DEF StageInv, RunStages, RunStage, OneOpener
    <3>2. n >= m => TimesExecuted(r, n) = 0
      BY <1>1, <2>1, <2>3 DEF CountedOnce
    <3>3. n < m /\ Graph[wf][n] = "work" => TimesExecuted(r, n) = 1
      BY <1>1, <2>1, <2>3 DEF CountedOnce
    <3>4. CASE m = n
      <4>1. TimesExecuted(r, n) = 0
        BY <3>2, <3>4
      <4>2. TimesExecuted(r, n)' = 1
        BY <1>7, <3>4, <4>1
      <4>3. ~(n >= m + 1)
        BY <3>4
      <4> QED
        BY <1>5, <3>1, <4>2, <4>3 DEF CountedOnce
    <3>5. CASE m # n
      <4>1. TimesExecuted(r, n)' = TimesExecuted(r, n)
        BY <1>7, <3>5
      <4>2. (n >= m + 1 => n >= m) /\ (n < m + 1 => n < m)
        BY <2>0, <3>5
      <4> QED
        BY <1>0, <1>5, <2>1, <3>1, <3>2, <3>3, <4>1, <4>2 DEF CountedOnce
    <3> QED
      BY <3>4, <3>5
  <2> QED
    BY <2>2, <2>3 DEF Opens, Reopens
<1>15. Cardinality(Decided(r)') <= Len(decisions'[r])
  BY <1>0, <1>9 DEF CountInv, Counted
<1> QED
  BY <1>0, <1>13, <1>14, <1>15 DEF Counted, BehindGate

LEMMA CountInvInductive ==
    ApiInv /\ StageInv /\ CountInv /\ [ApiNext]_runApiVars => CountInv'
<1> SUFFICES ASSUME ApiInv, StageInv, CountInv, [ApiNext]_runApiVars
             PROVE  \A r \in RunIds : Counted(r)'
  BY MadeStaysFinite DEF CountInv
<1> DEFINE Goal == \A r \in RunIds : Counted(r)'
<1>0. stream \in [Streams -> StreamRecord] /\ runs \in [RunIds -> RunRecord]
  BY DEF ApiInv, ApiTypeOK, TypeOK
<1>1. ASSUME NEW s \in Streams
      PROVE  /\ StreamStage(stream[s]) /\ stream[s] \in StreamRecord
             /\ stream[s].pos \in Nat
  BY <1>0 DEF StageInv, StreamStages, StreamRecord
<1>2. ASSUME NEW s \in Streams, \A t \in Streams \ {s} : stream'[t] = stream[t],
             UNCHANGED <<effects, decisions>>,
             \A r \in RunIds : runs'[r].workflow = runs[r].workflow,
             stream'[s].run \in {stream[s].run, None},
             stream[s].payload # None =>
                \/ stream'[s].pos = stream[s].pos
                \/ stream[s].pos = 0 /\ stream'[s].pos = 1
      PROVE  Goal
  <2> SUFFICES ASSUME NEW r \in RunIds PROVE Counted(r)'
    OBVIOUS
  <2>1. \A t \in Streams : stream'[t].run = r => stream[t].run = r
    BY <1>2, NoneIsNoValue, RunIdsAreOrdered
  <2>2. \A t \in Streams : Opens(t, r) =>
            \/ stream'[t].pos = stream[t].pos
            \/ stream[t].pos = 0 /\ stream'[t].pos = 1
    BY <1>2 DEF Opens
  <2> QED
    BY <1>2, <2>1, <2>2, CountKept
<1>3. ASSUME NEW s \in Streams, NEW pc, Goto(s, pc), UNCHANGED <<effects, decisions>>,
             \A r \in RunIds : runs'[r].workflow = runs[r].workflow
      PROVE  Goal
  <2>1. /\ \A t \in Streams \ {s} : stream'[t] = stream[t]
        /\ stream'[s].run = stream[s].run /\ stream'[s].pos = stream[s].pos
    BY <1>0, <1>3 DEF Goto, Moved
  <2> QED
    BY <1>2, <1>3, <2>1
<1>4. ASSUME NEW s \in Streams,
             CacheHit(s) \/ (\E g \in Gates : Pause(s, g)) \/ Complete(s) \/ Fail(s)
      PROVE  Goal
  <2>1. PICK r, state, g : Settle(s, r, state, g) /\ UNCHANGED effects
    BY <1>4 DEF CacheHit, Pause, Complete, Fail
  <2>2. \A q \in RunIds : runs'[q].workflow = runs[q].workflow
    BY <1>0, <2>1 DEF Settle, MarkState, Marked, Updated
  <2> QED
    BY <1>3, <2>1, <2>2 DEF Settle, MarkState
<1>5. ASSUME NEW s \in Streams, StartNode(s) \/ Interrupt(s) \/ ProduceOutput(s)
                                  \/ Close(s) \/ Disconnect(s) \/ NeverPulled(s)
      PROVE  Goal
  BY <1>3, <1>5
     DEF StartNode, Interrupt, ProduceOutput, Close, Disconnect, NeverPulled, storeVars
<1>6. ASSUME NEW s \in Streams, NEW wf \in Workflows, NEW p \in Payloads,
             PostRun(s, wf, p)
      PROVE  Goal
  <2>1. /\ \A t \in Streams \ {s} : stream'[t] = stream[t]
        /\ stream'[s].run = None /\ stream[s].payload = None
        /\ UNCHANGED <<runs, effects, decisions>>
    BY <1>0, <1>6 DEF PostRun, Created, Free, storeVars
  <2> QED
    BY <1>2, <2>1
<1>7. ASSUME NEW s \in Streams, NEW q \in RunIds, NEW v \in Verdicts,
             NEW c \in Comments, NEW p \in Subjects, PostDecision(s, q, v, c, p)
      PROVE  Goal
  <2>1. Counted(q)'
    BY <1>7, CountDecided
  <2>2. ASSUME NEW r \in RunIds \ {q}
        PROVE  Counted(r)'
    <3>1. UNCHANGED <<runs, effects, decisions[r]>> /\ stream[s] = Free
      BY <1>7 DEF PostDecision, AppendDecision, ApiInv, ApiTypeOK, TypeOK
    <3>2. /\ \A t \in Streams \ {s} : stream'[t] = stream[t]
          /\ stream'[s].run = q /\ stream[s].payload = None
      BY <1>0, <1>7 DEF PostDecision, Resumed, Created, Free
    <3>3. \A t \in Streams : stream'[t].run = r => stream[t].run = r
      BY <3>2
    <3>4. \A t \in Streams : Opens(t, r) => stream'[t].pos = stream[t].pos
      BY <3>2 DEF Opens
    <3> QED
      BY <3>1, <3>3, <3>4, CountKept
  <2> QED
    BY <2>1, <2>2
<1>8. ASSUME NEW s \in Streams, NEW q \in RunIds, OpenRun(s, q)
      PROVE  Goal
  <2>1. Counted(q)'
    BY <1>8, CountOpened
  <2>2. ASSUME NEW r \in RunIds \ {q}
        PROVE  Counted(r)'
    <3>1. UNCHANGED <<runs[r], effects, decisions>>
      BY <1>0, <1>8 DEF OpenRun, CreateRun
    <3>2. /\ \A t \in Streams \ {s} : stream'[t] = stream[t]
          /\ stream'[s].run = q /\ stream'[s].pos = 0
      BY <1>0, <1>8 DEF OpenRun, Moved
    <3>3. \A t \in Streams : stream'[t].run = r => stream[t].run = r
      BY <3>2
    <3>4. stream[s].pos = 0
      BY <1>1, <1>8 DEF OpenRun, StreamStage
    <3>5. \A t \in Streams : Opens(t, r) => stream'[t].pos = stream[t].pos
      BY <3>2, <3>4
    <3> QED
      BY <3>1, <3>3, <3>5, CountKept
  <2> QED
    BY <2>1, <2>2
<1>9. ASSUME NEW s \in Streams, EnterGraph(s)
      PROVE  Goal
  <2>1. /\ \A t \in Streams \ {s} : stream'[t] = stream[t]
        /\ stream'[s].run = stream[s].run /\ stream'[s].pos = 1
        /\ UNCHANGED <<runs, effects, decisions>>
    BY <1>0, <1>9 DEF EnterGraph, Moved, storeVars
  <2>2. stream[s].pos = 0
    BY <1>1, <1>9 DEF EnterGraph, StreamStage
  <2> QED
    BY <1>2, <2>1, <2>2
<1>10. ASSUME NEW s \in Streams, ReenterGraph(s) \/ PassGate(s)
       PROVE  Goal
  <2>1. /\ \A t \in Streams \ {s} : stream'[t] = stream[t]
        /\ stream'[s].run = stream[s].run
        /\ UNCHANGED <<runs, effects, decisions>>
    <3>1. CASE ReenterGraph(s)
      BY <1>0, <3>1 DEF ReenterGraph, Moved, storeVars
    <3>2. CASE PassGate(s)
      BY <1>0, <3>2 DEF PassGate, Advance, Moved, storeVars
    <3> QED
      BY <1>10, <3>1, <3>2
  <2>2. stream[s].payload = None
    BY <1>1, <1>10 DEF ReenterGraph, PassGate, StreamStage
  <2> QED
    BY <1>2, <2>1, <2>2
<1>11. ASSUME NEW s \in Streams, FinishWork(s)
       PROVE  Goal
  <2>1. stream[s].run \in RunIds
    BY <1>11, OpenStream DEF FinishWork, Suspended
  <2>2. /\ \A t \in Streams \ {s} : stream'[t] = stream[t]
        /\ stream'[s].run = stream[s].run
        /\ UNCHANGED <<runs, decisions>>
        /\ \A r \in RunIds \ {stream[s].run} : effects'[r] = effects[r]
    BY <1>0, <1>11 DEF FinishWork, Advance, Moved, storeVars, ApiInv, ApiTypeOK
  <2>3. ASSUME NEW r \in RunIds
        PROVE  Counted(r)'
    <3>1. CASE r = stream[s].run
      BY <1>11, <3>1, CountExecuted
    <3>2. CASE r # stream[s].run
      <4>1. \A t \in Streams : stream'[t].run = r => stream[t].run = r
        BY <2>2
      <4>2. \A t \in Streams : Opens(t, r) => stream'[t].pos = stream[t].pos
        BY <2>2, <3>2 DEF Opens
      <4> QED
        BY <2>2, <3>2, <4>1, <4>2, CountKept
    <3> QED
      BY <3>1, <3>2
  <2> QED
    BY <2>3
<1>12. ASSUME NEW s \in Streams, StreamStep(s)
       PROVE  Goal
  BY <1>4, <1>5, <1>8, <1>9, <1>10, <1>11, <1>12 DEF StreamStep
<1>13. ASSUME UNCHANGED <<stream, effects, decisions>>,
              \A r \in RunIds : runs'[r].workflow = runs[r].workflow
       PROVE  Goal
  BY <1>13, CountKept
<1>14. CASE RetentionJob
  <2>1. \A r \in RunIds :
            runs'[r] = IF IsAbandoned(r) THEN Cancelled(runs[r]) ELSE runs[r]
    BY <1>14 DEF RetentionJob, ExpireRuns
  <2>2. \A r \in RunIds : runs'[r].workflow = runs[r].workflow
    <3>1. \A r \in RunIds : Cancelled(runs[r]).workflow = runs[r].workflow
      BY DEF Cancelled, Updated
    <3>2. \A r \in RunIds : runs'[r] = runs[r] \/ runs'[r] = Cancelled(runs[r])
      BY <2>1
    <3> HIDE DEF Cancelled
    <3> QED
      BY <3>1, <3>2
  <2> QED
    BY <1>13, <1>14, <2>2 DEF RetentionJob, ExpireRuns, apiVars
<1>15. CASE ApiTick \/ UNCHANGED runApiVars
  BY <1>13, <1>15 DEF ApiTick, Tick, apiVars, runApiVars
<1> QED
  BY <1>5, <1>6, <1>7, <1>12, <1>14, <1>15 DEF ApiNext

LEMMA CountsInitially == ApiInit => CountInv
<1> SUFFICES ASSUME ApiInit
             PROVE  CountInv
  OBVIOUS
<1>1. Made = {}
  BY DEF ApiInit, Made
<1>2. ASSUME NEW r \in RunIds
      PROVE  Counted(r)
  <2>1. Decided(r) = {} /\ decisions[r] = <<>>
    BY NoneIsNoValue, RunIdsAreOrdered DEF ApiInit, Init, Decided, Reopens, Free
  <2>2. runs[r].workflow = None
    BY DEF ApiInit, Init, NoRecord
  <2> QED
    BY <2>1, <2>2, FS_EmptySet DEF Counted
<1> QED
  BY <1>1, <1>2, FS_EmptySet DEF CountInv

-----------------------------------------------------------------------------
(* What is in the cache was computed by the request that created its run. *)

CachedBy(k, r) ==
    /\ k[1] \in Idempotent
    /\ runs[r].workflow = k[1]
    /\ \E s \in Streams : /\ Opens(s, r)
                          /\ stream[s].payload = k[2]
                          /\ stream[s].pos > Len(Graph[k[1]])

CacheInv == \A k \in Workflows \X Payloads : cache[k].run # None => CachedBy(k, cache[k].run)

LEMMA CacheInvInductive ==
    ApiInv /\ StageInv /\ CacheInv /\ [ApiNext]_runApiVars => CacheInv'
<1> SUFFICES ASSUME ApiInv, StageInv, CacheInv, [ApiNext]_runApiVars,
                    NEW k \in Workflows \X Payloads, cache'[k].run # None
             PROVE  CachedBy(k, cache[k].run)'
  BY DEF CacheInv
<1>0. cache \in [Workflows \X Payloads -> CacheEntry] /\ k[1] \in Workflows
  BY DEF ApiInv, ApiTypeOK
<1>1. PICK len \in Nat : len = Len(Graph[k[1]])
  BY <1>0, GraphsAreNodeSequences
<1>2. ASSUME cache'[k] = cache[k]
      PROVE  CachedBy(k, cache[k].run)'
  <2>1. PICK r \in RunIds : r = cache[k].run
    BY <1>0, <1>2 DEF CacheEntry
  <2>2. CachedBy(k, r)
    BY <1>2, <2>1 DEF CacheInv
  <2>3. PICK s \in Streams : /\ Opens(s, r) /\ stream[s].payload = k[2]
                             /\ stream[s].pos > len
    BY <1>1, <2>2 DEF CachedBy
  <2>4. GoesOn(s) /\ stream'[s].run = r
    BY <2>3, MadeGoesOn DEF Opens
  <2>5. stream[s].pos \in Nat /\ stream'[s].pos \in Nat
    BY StreamsInductive DEF ApiInv, ApiTypeOK, StreamRecord
  <2>6. stream'[s].pos > len
    BY <2>3, <2>4, <2>5 DEF GoesOn
  <2>7. runs[r].workflow # None
    BY <1>0, <2>2, NoneIsNoRequest DEF CachedBy
  <2>8. runs'[r].workflow = runs[r].workflow
    <3>1. Exists(r)
      BY <2>3, NoneIsNoValue, RunIdsAreOrdered DEF Opens, ApiInv, StreamsOK, StreamOK
    <3> QED
      BY <3>1, StoreKeeps, ApiStepsAreStoreSteps DEF ApiInv, ApiTypeOK, Kept
  <2> QED
    BY <1>1, <1>2, <2>1, <2>2, <2>3, <2>4, <2>6, <2>8 DEF CachedBy, Opens, GoesOn
<1>3. ASSUME NEW s \in Streams, ProduceOutput(s), cache'[k] # cache[k]
      PROVE  CachedBy(k, cache[k].run)'
  <2>1. /\ HasKey(s) /\ stream[s].pc = "ended" /\ Goto(s, "storing") /\ UNCHANGED runs
        /\ cache' = [cache EXCEPT ![Key(s)] =
                        [run |-> stream[s].run, until |-> clock + CacheTtl]]
    BY <1>3 DEF ProduceOutput, storeVars
  <2>2. k = Key(s) /\ cache'[k].run = stream[s].run
    BY <1>0, <1>3, <2>1
  <2>3. /\ k[1] = stream[s].wf /\ k[2] = stream[s].payload
        /\ stream[s].payload # None /\ k[1] \in Idempotent
    BY <2>1, <2>2 DEF Key, HasKey
  <2>4. /\ stream[s].run \in RunIds /\ runs[stream[s].run].workflow = stream[s].wf
    BY <2>1, OpenStream DEF Suspended
  <2>5. stream[s].pos \in Nat /\ StreamStage(stream[s])
    BY DEF ApiInv, ApiTypeOK, StreamRecord, StageInv, StreamStages
  <2>6. stream[s].pos > 0 /\ stream[s].pos \notin DOMAIN Graph[k[1]]
    <3>1. ~AtGate(k[1], stream[s].pos)
      BY <1>0, <2>3, GraphsAreNodeSequences, IdempotentWorkflowsHaveNoGate DEF AtGate
    <3> QED
      BY <2>1, <2>3, <2>5, <3>1 DEF StreamStage
  <2>7. stream[s].pos > len
    <3>1. DOMAIN Graph[k[1]] = 1 .. len
      BY <1>0, <1>1, GraphsAreNodeSequences
    <3> QED
      BY <2>5, <2>6, <3>1
  <2>8. /\ stream'[s].run = stream[s].run /\ stream'[s].payload = stream[s].payload
        /\ stream'[s].pos = stream[s].pos
    BY <2>1 DEF Goto, Moved, ApiInv, ApiTypeOK
  <2> QED
    BY <1>1, <2>1, <2>2, <2>3, <2>4, <2>7, <2>8 DEF CachedBy, Opens
<1>4. ASSUME NEW s \in Streams, StreamStep(s), ~ProduceOutput(s)
      PROVE  UNCHANGED cache
  BY <1>4 DEF StreamStep, OpenRun, CacheHit, EnterGraph, ReenterGraph, StartNode,
              FinishWork, PassGate, Interrupt, Pause, Complete, Fail, Close
<1>5. ASSUME NEW s \in Streams, Disconnect(s) \/ NeverPulled(s)
      PROVE  UNCHANGED cache
  BY <1>5 DEF Disconnect, NeverPulled
<1>6. ASSUME \/ \E s \in Streams, wf \in Workflows, p \in Payloads : PostRun(s, wf, p)
             \/ \E s \in Streams, r \in RunIds, v \in Verdicts, c \in Comments,
                   p \in Subjects : PostDecision(s, r, v, c, p)
      PROVE  UNCHANGED cache
  BY <1>6 DEF PostRun, PostDecision
<1>7. CASE RetentionJob \/ ApiTick \/ UNCHANGED runApiVars
  BY <1>2, <1>7 DEF RetentionJob, ApiTick, apiVars, runApiVars
<1> QED
  BY <1>2, <1>3, <1>4, <1>5, <1>6, <1>7 DEF ApiNext

LEMMA CacheInitially == ApiInit => CacheInv
BY DEF ApiInit, CacheInv, NoEntry

-----------------------------------------------------------------------------
\* The log and the store tell the same story of every run: its last run-level
\* row is its state, unless retention cancelled it (runner.py:288-310).
THEOREM LogAgreesWithStore == ApiSpec => []LogTellsTheState
<1>1. ApiInit => LogTellsTheState
  BY DEF ApiInit, Init, NoRecord, LogTellsTheState
<1> QED
  BY <1>1, ApiInitially, ApiInvInductive, LogInductive, PTL DEF ApiSpec

\* A run that waits for a decision can be moved on: it says what it waits for,
\* and its checkpoint holds the interrupt or a decision was taken on it already
\* (runner.py:258-263 and routes.py:289-291).
THEOREM GatesCanBeLeft == ApiSpec => []PausedRunsAreResumable
<1>1. StageInv => PausedRunsAreResumable
  BY DEF StageInv, RunStages, RunStage, PausedStage, WasPaused, AwaitingStage,
         PausedRunsAreResumable
<1> QED
  BY <1>1, ApiInitially, ApiInvInductive, StagesInitially, StageInvInductive, PTL
     DEF ApiSpec

LEMMA CountsBoundEffects == ApiInv /\ CountInv => EffectsNotRepeated
<1> SUFFICES ASSUME ApiInv, CountInv, NEW r \in RunIds, runs[r].workflow # None,
                    NEW n \in DOMAIN Graph[runs[r].workflow]
             PROVE  TimesExecuted(r, n) <= IF BehindGate(runs[r].workflow, n)
                                           THEN Len(decisions[r]) ELSE 1
  BY DEF EffectsNotRepeated
<1>1. CASE ~BehindGate(runs[r].workflow, n)
  BY <1>1 DEF CountInv, Counted, CountedOnce
<1>2. CASE BehindGate(runs[r].workflow, n)
  <2>1. PICK c \in Nat : c = TimesExecuted(r, n)
    BY TimesAreNumbers
  <2>2. PICK k \in Nat : k = Cardinality(PastNode(r, n))
    BY FewerRequests DEF CountInv
  <2>3. PICK j \in Nat : j = Cardinality(Decided(r))
    BY FewerRequests DEF CountInv
  <2>4. PICK l \in Nat : l = Len(decisions[r])
    <3>1. decisions[r] \in Seq(DecisionRecord)
      BY DEF ApiInv, ApiTypeOK, TypeOK
    <3> QED
      BY <3>1
  <2>5. c <= k /\ j <= l
    BY <1>2, <2>1, <2>2, <2>3, <2>4 DEF CountInv, Counted, Uncounted
  <2>6. k <= j
    BY <2>2, <2>3, FewerRequests DEF CountInv
  <2>7. c <= l
    BY <2>5, <2>6
  <2> QED
    BY <1>2, <2>1, <2>4, <2>7
<1> QED
  BY <1>1, <1>2

\* A node is executed once before the first gate, and behind it at most once
\* for each decision on record: a client that posts a decision again re-enters
\* nothing (routes.py:312-318).
THEOREM ExecutionsAreDecided == ApiSpec => []EffectsNotRepeated
<1> QED
  BY CountsBoundEffects, ApiInitially, ApiInvInductive, StagesInitially,
     StageInvInductive, CountsInitially, CountInvInductive, PTL DEF ApiSpec

LEMMA CachedWasComputed == ApiInv /\ CountInv /\ CacheInv => CacheHoldsOwnOutputs
<1> SUFFICES ASSUME ApiInv, CountInv, CacheInv, NEW k \in Workflows \X Payloads,
                    cache[k].run # None
             PROVE  ComputedFor(cache[k].run, k)
  BY DEF CacheHoldsOwnOutputs, ApiInv, ApiTypeOK
<1>1. PICK r \in RunIds : r = cache[k].run
  BY DEF ApiInv, ApiTypeOK, CacheEntry
<1>2. CachedBy(k, r) /\ k[1] \in Workflows
  BY <1>1 DEF CacheInv
<1>3. PICK s \in Streams : /\ Opens(s, r) /\ stream[s].payload = k[2]
                           /\ stream[s].pos > Len(Graph[k[1]])
  BY <1>2 DEF CachedBy
<1>4. runs[r].workflow = k[1] /\ k[1] \in Idempotent /\ k[1] # None
  BY <1>2, NoneIsNoRequest DEF CachedBy
<1>5. Graph[k[1]] \in Seq({"work", "gate"}) /\ \A i \in DOMAIN Graph[k[1]] : Graph[k[1]][i] # "gate"
  BY <1>2, <1>4, GraphsAreNodeSequences, IdempotentWorkflowsHaveNoGate
<1>6. ASSUME NEW n \in DOMAIN Graph[k[1]]
      PROVE  TimesExecuted(r, n) = 1
  <2>1. n \in Nat /\ n <= Len(Graph[k[1]]) /\ n >= 1 /\ Graph[k[1]][n] = "work"
    BY <1>5
  <2>2. ~BehindGate(k[1], n)
    <3>1. ASSUME NEW g \in 1 .. (n - 1)
          PROVE  g \in DOMAIN Graph[k[1]]
      BY <1>5, <2>1
    <3> QED
      BY <1>5, <3>1 DEF BehindGate
  <2>3. n < stream[s].pos
    <3>1. stream[s].pos \in Nat /\ Len(Graph[k[1]]) \in Nat
      BY <1>5 DEF ApiInv, ApiTypeOK, StreamRecord
    <3> QED
      BY <1>3, <2>1, <3>1
  <2>4. CountedOnce(r, n)
    BY <1>4, <2>2 DEF CountInv, Counted
  <2> QED
    BY <1>3, <1>4, <2>1, <2>3, <2>4 DEF CountedOnce
<1> QED
  BY <1>1, <1>3, <1>4, <1>6 DEF ComputedFor, Opens

\* A cached output was computed for its workflow and its input, by a run of its
\* own that executed every node once (cache.py:3-6, runner.py:197-200).
THEOREM CachedOutputsWereComputed == ApiSpec => []CacheHoldsOwnOutputs
<1> QED
  BY CachedWasComputed, ApiInitially, ApiInvInductive, StagesInitially, StageInvInductive,
     CountsInitially, CountInvInductive, CacheInitially, CacheInvInductive, PTL
     DEF ApiSpec

-----------------------------------------------------------------------------
(* The lifecycle.  When reviewers decide one gate at a time, one request at a *)
(* time works on a run.  Its position, the nodes executed and the decisions   *)
(* taken agree: what lies between the last node executed and the position are *)
(* gates, and the gates before it are as many as the decisions it has used.   *)

GateCount(wf, n) == Cardinality({m \in 1 .. n : Graph[wf][m] = "gate"})
LastDone(r) == IF effects[r] = <<>> THEN 0 ELSE effects[r][Len(effects[r])].node

OnlyGatesTo(r, n) ==
    /\ LastDone(r) < n
    /\ \A m \in (LastDone(r) + 1) .. (n - 1) : Graph[runs[r].workflow][m] = "gate"

\* A verdict that is still to be handed to the graph.
InHand(st) == IF st.resume # None THEN 1 ELSE 0

InGraph(st) ==
    /\ st.pos <= Len(Graph[st.wf]) + 1
    /\ OnlyGatesTo(st.run, st.pos)
    /\ GateCount(st.wf, st.pos - 1) + InHand(st) = Len(decisions[st.run])
    /\ st.resume # None => st.pc \in {"graph", "node"} /\ AtGate(st.wf, st.pos)
    /\ st.pc = "ended" => (thread[st.run].waiting <=> st.pos \in DOMAIN Graph[st.wf])
    /\ st.pc = "ended" /\ thread[st.run].waiting => thread[st.run].at = st.pos
    /\ st.pc = "storing" => st.pos \notin DOMAIN Graph[st.wf]

Living(st) ==
    Working(st) =>
        /\ IF st.payload # None
           THEN runs[st.run].state = "running" /\ decisions[st.run] = <<>>
           ELSE runs[st.run].state = "awaiting_decision" /\ decisions[st.run] # <<>>
        /\ st.pc = "lookup" => effects[st.run] = <<>>
        /\ st.pc = "created" =>
                /\ AtGate(st.wf, thread[st.run].at)
                /\ OnlyGatesTo(st.run, thread[st.run].at)
                /\ GateCount(st.wf, thread[st.run].at) = Len(decisions[st.run])
        /\ st.pc \in {"graph", "node", "ended", "storing"} => InGraph(st)

OneWorks ==
    \A s, t \in Streams :
        Working(stream[s]) /\ Working(stream[t]) /\ stream[s].run = stream[t].run => s = t

\* The gate a checkpoint waits at is the next to be decided, or has just been.
WaitsAt(r) ==
    thread[r].waiting =>
        /\ OnlyGatesTo(r, thread[r].at)
        /\ GateCount(runs[r].workflow, thread[r].at)
                \in {Len(decisions[r]), Len(decisions[r]) + 1}

LifeInv ==
    /\ \A s \in Streams : Living(stream[s])
    /\ \A r \in RunIds : WaitsAt(r)
    /\ OneWorks

LEMMA GatesCounted ==
    ASSUME NEW wf, NEW n \in Nat
    PROVE  /\ GateCount(wf, n) \in Nat /\ GateCount(wf, 0) = 0
           /\ GateCount(wf, n + 1) = IF Graph[wf][n + 1] = "gate"
                                     THEN GateCount(wf, n) + 1 ELSE GateCount(wf, n)
<1> DEFINE G(k) == {m \in 1 .. k : Graph[wf][m] = "gate"}
<1>1. IsFiniteSet(G(n))
  <2>1. IsFiniteSet(1 .. n) /\ G(n) \in SUBSET (1 .. n)
    BY FS_Interval
  <2> HIDE DEF G
  <2> QED
    BY <2>1, FS_Subset
<1>2. G(0) = {}
  OBVIOUS
<1>3. G(n + 1) = IF Graph[wf][n + 1] = "gate" THEN G(n) \cup {n + 1} ELSE G(n)
  <2>1. 1 .. (n + 1) = (1 .. n) \cup {n + 1}
    OBVIOUS
  <2> QED
    BY <2>1
<1>4. n + 1 \notin G(n)
  OBVIOUS
<1>5. Cardinality(G(n)) \in Nat
  BY <1>1, FS_CardinalityType
<1>6. Cardinality(G(n) \cup {n + 1}) = Cardinality(G(n)) + 1
  <2> HIDE DEF G
  <2> QED
    BY <1>1, <1>4, FS_AddElement
<1>7. GateCount(wf, n) = Cardinality(G(n)) /\ GateCount(wf, n + 1) = Cardinality(G(n + 1))
      /\ GateCount(wf, 0) = Cardinality(G(0))
  BY DEF GateCount
<1> HIDE DEF G
<1> QED
  BY <1>2, <1>3, <1>5, <1>6, <1>7, FS_EmptySet

\* What a working request works on.
LEMMA WorkingFacts ==
    ASSUME ApiInv, StageInv, NEW s \in Streams, Working(stream[s])
    PROVE  /\ stream[s].run \in RunIds /\ stream[s].wf \in Workflows
           /\ Exists(stream[s].run) /\ runs[stream[s].run].workflow = stream[s].wf
           /\ Graph[stream[s].wf] \in Seq({"work", "gate"})
           /\ decisions[stream[s].run] \in Seq(DecisionRecord)
           /\ Len(decisions[stream[s].run]) \in Nat
           /\ stream[s].pos \in Nat /\ thread[stream[s].run].at \in Nat
           /\ stream[s].pc \in {"graph", "node", "ended", "storing"} => stream[s].pos > 0
           /\ effects[stream[s].run] \in Seq(Effect)
           /\ LastDone(stream[s].run) \in Nat
<1>1. /\ stream[s].run \in RunIds /\ stream[s].wf \in Workflows
      /\ Exists(stream[s].run) /\ runs[stream[s].run].workflow = stream[s].wf
  BY OpenStream DEF Working
<1>2. /\ Graph[stream[s].wf] \in Seq({"work", "gate"})
      /\ decisions[stream[s].run] \in Seq(DecisionRecord)
      /\ stream[s] \in StreamRecord /\ thread[stream[s].run] \in ThreadRecord
      /\ effects[stream[s].run] \in Seq(Effect)
  BY <1>1, GraphsAreNodeSequences DEF ApiInv, ApiTypeOK, TypeOK
<1>3. Len(decisions[stream[s].run]) \in Nat
  BY <1>2
<1>4. stream[s].pos \in Nat /\ thread[stream[s].run].at \in Nat
  BY <1>2 DEF StreamRecord, ThreadRecord
<1>5. stream[s].pc \in {"graph", "node", "ended", "storing"} => stream[s].pos > 0
  BY <1>2 DEF StageInv, StreamStages, StreamStage
<1>6. LastDone(stream[s].run) \in Nat
  <2> DEFINE e == effects[stream[s].run]
  <2>1. e \in Seq(Effect)
    BY <1>2
  <2>2. e # <<>> => e[Len(e)] \in Effect
    BY <2>1
  <2> QED
    BY <2>2 DEF LastDone, Effect
<1> QED
  BY <1>1, <1>2, <1>3, <1>4, <1>5, <1>6

Untouched(q) ==
    /\ runs'[q].state = runs[q].state /\ runs'[q].workflow = runs[q].workflow
    /\ decisions'[q] = decisions[q] /\ thread'[q] = thread[q] /\ effects'[q] = effects[q]

LEMMA LivingKept ==
    ASSUME NEW t \in Streams, stream'[t] = stream[t], Living(stream[t]),
           Working(stream[t]) => Untouched(stream[t].run)
    PROVE  Living(stream[t])'
BY DEF Living, Working, InGraph, OnlyGatesTo, LastDone, InHand, Untouched

LEMMA WaitsKept ==
    ASSUME NEW r \in RunIds, Untouched(r), WaitsAt(r)
    PROVE  WaitsAt(r)'
BY DEF WaitsAt, OnlyGatesTo, LastDone, Untouched

LEMMA LifeKept ==
    ASSUME LifeInv, ApiInv, StageInv, \A q \in RunIds : Untouched(q),
           \A t \in Streams : Working(stream'[t]) => stream'[t] = stream[t]
    PROVE  LifeInv'
<1>1. ASSUME NEW t \in Streams
      PROVE  Living(stream[t])'
  <2>1. CASE Working(stream'[t])
    BY <2>1, WorkingFacts, LivingKept DEF LifeInv
  <2>2. CASE ~Working(stream'[t])
    BY <2>2 DEF Living, Working
  <2> QED
    BY <2>1, <2>2
<1>2. OneWorks'
  <2> SUFFICES ASSUME NEW s \in Streams, NEW t \in Streams,
                      Working(stream'[s]), Working(stream'[t]),
                      stream'[s].run = stream'[t].run
               PROVE  s = t
    BY DEF OneWorks, Working
  <2> QED
    BY DEF LifeInv, OneWorks
<1> QED
  BY <1>1, <1>2, WaitsKept DEF LifeInv

\* A request works on a run that no other works on.
LEMMA LifeReplaced ==
    ASSUME LifeInv, ApiInv, StageInv, NEW s \in Streams, NEW r \in RunIds,
           \A t \in Streams \ {s} : /\ stream'[t] = stream[t]
                                    /\ Working(stream[t]) => stream[t].run # r,
           \A q \in RunIds \ {r} : Untouched(q),
           Working(stream'[s]) => stream'[s].run = r,
           Living(stream[s])', WaitsAt(r)'
    PROVE  LifeInv'
<1>1. ASSUME NEW t \in Streams \ {s}
      PROVE  Living(stream[t])'
  BY WorkingFacts, LivingKept DEF LifeInv
<1>2. OneWorks'
  <2> SUFFICES ASSUME NEW t \in Streams, NEW u \in Streams,
                      Working(stream'[t]), Working(stream'[u]),
                      stream'[t].run = stream'[u].run
               PROVE  t = u
    BY DEF OneWorks, Working
  <2> QED
    BY DEF LifeInv, OneWorks
<1>3. \A q \in RunIds : WaitsAt(q)'
  BY WaitsKept DEF LifeInv
<1> QED
  BY <1>1, <1>2, <1>3 DEF LifeInv

\* The other requests about the run that s works on.
LEMMA OthersRest ==
    ASSUME LifeInv, NEW s \in Streams, Working(stream[s]), NEW t \in Streams \ {s}
    PROVE  Working(stream[t]) => stream[t].run # stream[s].run
BY DEF LifeInv, OneWorks

LEMMA LifeSettles ==
    ASSUME LifeInv, ApiInv, StageInv, NEW s \in Streams, Working(stream[s]),
           NEW state \in RunState, NEW g \in Gates \cup {None},
           Settle(s, stream[s].run, state, g), UNCHANGED <<thread, effects>>
    PROVE  LifeInv'
<1>1. PICK r \in RunIds : r = stream[s].run
  BY WorkingFacts
<1>2. Settle(s, r, state, g)
  BY <1>1
<1>3. /\ \A q \in RunIds \ {r} : runs'[q] = runs[q]
      /\ runs'[r].workflow = runs[r].workflow /\ UNCHANGED decisions
  <2>1. runs \in [RunIds -> RunRecord] /\ runs' = [runs EXCEPT ![r] = Marked(runs[r], state, g)]
    BY <1>2 DEF Settle, MarkState, ApiInv, ApiTypeOK, TypeOK
  <2> QED
    BY <1>2, <2>1 DEF Settle, MarkState, Marked, Updated
<1>4. stream \in [Streams -> StreamRecord]
  BY DEF ApiInv, ApiTypeOK
<1>5. /\ \A t \in Streams \ {s} : stream'[t] = stream[t]
      /\ stream'[s].pc = "settled"
  BY <1>2, <1>4 DEF Settle, Goto, Moved
<1>6. ~Working(stream'[s])
  BY <1>5 DEF Working, Suspended
<1>7. Living(stream[s])'
  BY <1>6 DEF Living, Working
<1>8. WaitsAt(r)'
  BY <1>3 DEF LifeInv, WaitsAt, OnlyGatesTo, LastDone
<1>9. \A q \in RunIds \ {r} : Untouched(q)
  BY <1>3 DEF Untouched
<1> QED
  BY <1>1, <1>5, <1>6, <1>7, <1>8, <1>9, OthersRest, LifeReplaced

\* What a request in the graph knows.
LEMMA InGraphFacts ==
    ASSUME LifeInv, NEW s \in Streams,
           stream[s].pc \in {"graph", "node", "ended", "storing"}
    PROVE  Working(stream[s]) /\ Living(stream[s]) /\ InGraph(stream[s])
<1>1. Working(stream[s]) /\ Living(stream[s])
  BY DEF Working, Suspended, LifeInv
<1> QED
  BY <1>1 DEF Living

\* A request goes on with nothing recorded.
LEMMA LifeGoesOn ==
    ASSUME LifeInv, ApiInv, StageInv, NEW s \in Streams, StartNode(s) \/ ProduceOutput(s)
    PROVE  LifeInv'
<1> DEFINE st == stream[s]
<1>0. stream \in [Streams -> StreamRecord]
  BY DEF ApiInv, ApiTypeOK
<1>1. /\ Working(st) /\ Living(st) /\ InGraph(st)
      /\ st.run \in RunIds
  BY InGraphFacts, WorkingFacts DEF StartNode, ProduceOutput
<1>2. PICK pc \in {"node", "storing"} : Goto(s, pc)
  BY DEF StartNode, ProduceOutput
<1>3. PICK x : x = Moved(st, st.run, pc, st.pos, st.verdict, st.resume)
  OBVIOUS
<1>4. stream' = [stream EXCEPT ![s] = x]
  BY <1>2, <1>3 DEF Goto
<1>5. /\ x.pc = pc /\ x.run = st.run /\ x.wf = st.wf /\ x.payload = st.payload
      /\ x.pos = st.pos /\ x.resume = st.resume
  BY <1>3 DEF Moved
<1>6. stream'[s] = x /\ \A t \in Streams \ {s} : stream'[t] = stream[t]
  BY <1>0, <1>4
<1>7. UNCHANGED <<runs, decisions, thread, effects>>
  BY DEF StartNode, ProduceOutput, storeVars
<1>8. \A q \in RunIds : Untouched(q)
  BY <1>7 DEF Untouched
<1>9. \/ pc = "node" /\ st.pc = "graph"
      \/ pc = "storing" /\ st.pc = "ended" /\ ~thread[st.run].waiting
  <2>1. ASSUME NEW c, Goto(s, c)
        PROVE  stream'[s].pc = c
    BY <1>0, <2>1 DEF Goto, Moved
  <2>2. CASE StartNode(s)
    <3>1. st.pc = "graph" /\ Goto(s, "node")
      BY <2>2 DEF StartNode
    <3>2. stream'[s].pc = "node"
      BY <2>1, <3>1
    <3> QED
      BY <1>5, <1>6, <3>1, <3>2
  <2>3. CASE ProduceOutput(s)
    <3>1. st.pc = "ended" /\ ~thread[st.run].waiting /\ Goto(s, "storing")
      BY <2>3 DEF ProduceOutput
    <3>2. stream'[s].pc = "storing"
      BY <2>1, <3>1
    <3> QED
      BY <1>5, <1>6, <3>1, <3>2
  <2> QED
    BY <2>2, <2>3
<1>10. InGraph(x)'
  BY <1>1, <1>5, <1>7, <1>9 DEF InGraph, OnlyGatesTo, LastDone, InHand
<1>11. Living(x)'
  <2>1. IF st.payload # None
        THEN runs[st.run].state = "running" /\ decisions[st.run] = <<>>
        ELSE runs[st.run].state = "awaiting_decision" /\ decisions[st.run] # <<>>
    BY <1>1 DEF Living
  <2> QED
    BY <1>5, <1>7, <1>10, <2>1 DEF Living
<1>12. Living(stream[s])'
  BY <1>6, <1>11 DEF Living, Working, InGraph, OnlyGatesTo, LastDone, InHand
<1>13. PICK r \in RunIds : r = st.run
  BY <1>1
<1>14. WaitsAt(r)'
  BY <1>8, WaitsKept DEF LifeInv
<1> QED
  BY <1>1, <1>5, <1>6, <1>8, <1>12, <1>13, <1>14, OthersRest, LifeReplaced

LEMMA LifeOpens ==
    ASSUME LifeInv, ApiInv, StageInv, NEW s \in Streams, NEW r \in RunIds, OpenRun(s, r)
    PROVE  LifeInv'
<1>0. stream \in [Streams -> StreamRecord] /\ runs \in [RunIds -> RunRecord]
  BY DEF ApiInv, ApiTypeOK, TypeOK
<1>1. /\ ~Exists(r) /\ runs' = [runs EXCEPT ![r] = NewRecord(stream[s].wf)]
      /\ stream' = [stream EXCEPT ![s] = Moved(stream[s], r, "lookup", 0, None, None)]
      /\ UNCHANGED <<thread, decisions, effects>>
      /\ stream[s].pc = "created" /\ stream[s].resume = None
  BY DEF OpenRun, CreateRun
<1>2. stream[s] \in StreamRecord /\ StreamStage(stream[s]) /\ RunStage(r)
  BY <1>0 DEF StageInv, StreamStages, RunStages
<1>3. stream[s].payload # None
  BY <1>1, <1>2 DEF StreamStage
<1>4. PICK x : x = Moved(stream[s], r, "lookup", 0, None, None)
  OBVIOUS
<1>5. x.pc = "lookup" /\ x.run = r /\ x.payload = stream[s].payload /\ x.resume = None
  BY <1>4 DEF Moved
<1>6. stream'[s] = x /\ \A t \in Streams \ {s} : stream'[t] = stream[t]
  BY <1>0, <1>1, <1>4
<1>7. thread[r].at = 0
  BY <1>1 DEF ApiInv, ThreadsOK, ThreadOK
<1>8. decisions[r] = <<>> /\ ~thread[r].waiting
  BY <1>1, <1>2, <1>7 DEF RunStage, PausedStage, WaitingStage, WasPaused
<1>9. effects[r] = <<>>
  <2>1. effects[r] \in Seq(Effect) /\ 1 \notin DOMAIN effects[r]
    BY <1>1 DEF ApiInv, ApiTypeOK, EffectsOK, EffectOK
  <2> QED
    BY <2>1
<1>10. runs'[r].state = "running" /\ \A q \in RunIds \ {r} : runs'[q] = runs[q]
  BY <1>0, <1>1 DEF NewRecord
<1>11. Living(x)'
  BY <1>1, <1>3, <1>5, <1>8, <1>9, <1>10 DEF Living
<1>12. Living(stream[s])'
  BY <1>6, <1>11 DEF Living, Working, InGraph, OnlyGatesTo, LastDone, InHand
<1>13. WaitsAt(r)'
  BY <1>1, <1>8 DEF WaitsAt
<1>14. \A t \in Streams : Working(stream[t]) => stream[t].run # r
  BY <1>1, WorkingFacts
<1>15. \A q \in RunIds \ {r} : Untouched(q)
  BY <1>1, <1>10 DEF Untouched
<1> QED
  BY <1>5, <1>6, <1>12, <1>13, <1>14, <1>15, LifeReplaced

\* Who has no checkpointer does not wait.
LEMMA WaitsWhereCheckpointed ==
    ASSUME ApiInv, StageInv, NEW r \in RunIds, thread[r].waiting
    PROVE  /\ AtGate(runs[r].workflow, thread[r].at)
           /\ runs[r].workflow \in Workflows /\ runs[r].workflow \in Checkpointed
<1>1. Exists(r) /\ AtGate(runs[r].workflow, thread[r].at)
  BY DEF StageInv, RunStages, RunStage, WaitingStage
<1>2. runs[r].workflow \in Workflows
  BY <1>1 DEF ApiInv, RunsOK
<1> QED
  BY <1>1, <1>2, GraphsAreNodeSequences DEF AtGate

LEMMA GateHasPosition ==
    ASSUME NEW wf \in Workflows, NEW n, AtGate(wf, n)
    PROVE  n \in Nat /\ n > 0 /\ n <= Len(Graph[wf]) /\ wf \in Checkpointed
<1>1. Graph[wf] \in Seq({"work", "gate"})
  BY GraphsAreNodeSequences
<1> QED
  BY <1>1, GraphsAreNodeSequences DEF AtGate

\* A request reaches the node n, and the checkpoint with it.
LEMMA LifeAdvances ==
    ASSUME LifeInv, ApiInv, StageInv, NEW s \in Streams, Working(stream[s]),
           NEW r \in RunIds, r = stream[s].run,
           NEW n \in Nat, n > 0, NEW v,
           stream' = [stream EXCEPT ![s] =
                        Moved(@, @.run, PcAt(@.wf, n), n, v, None)],
           SaveThread(s, n, FALSE, v), UNCHANGED storeVars,
           \A q \in RunIds \ {r} : effects'[q] = effects[q],
           n <= Len(Graph[stream[s].wf]) + 1,
           OnlyGatesTo(r, n)',
           GateCount(stream[s].wf, n - 1) = Len(decisions[r])
    PROVE  LifeInv'
<1> DEFINE st == stream[s]
<1>0. /\ stream \in [Streams -> StreamRecord] /\ thread \in [RunIds -> ThreadRecord]
      /\ runs[r].workflow = st.wf
  BY WorkingFacts DEF ApiInv, ApiTypeOK
<1>1. PICK x : x = Moved(st, r, PcAt(st.wf, n), n, v, None)
  OBVIOUS
<1>2. stream'[s] = x /\ \A t \in Streams \ {s} : stream'[t] = stream[t]
  BY <1>0, <1>1
<1>3. /\ x.pc = PcAt(st.wf, n) /\ x.run = r /\ x.wf = st.wf /\ x.payload = st.payload
      /\ x.pos = n /\ x.resume = None
  BY <1>1 DEF Moved
<1>4. UNCHANGED <<runs, decisions>>
  BY DEF storeVars
<1>5. \A q \in RunIds \ {r} : thread'[q] = thread[q]
  BY <1>0 DEF SaveThread
<1>6. ~thread'[r].waiting
  <2>1. CASE st.wf \in Checkpointed
    BY <1>0, <2>1 DEF SaveThread
  <2>2. CASE st.wf \notin Checkpointed
    BY <1>0, <2>2, WaitsWhereCheckpointed DEF SaveThread
  <2> QED
    BY <2>1, <2>2
<1>7. GateCount(st.wf, n - 1) + InHand(x) = Len(decisions[r])
  <2>1. InHand(x) = 0
    BY <1>3 DEF InHand
  <2>2. Len(decisions[r]) \in Nat
    BY WorkingFacts
  <2> QED
    BY <2>1, <2>2
<1>8. \/ x.pc = "graph" /\ n \in DOMAIN Graph[st.wf]
      \/ x.pc = "ended" /\ n \notin DOMAIN Graph[st.wf]
  BY <1>3 DEF PcAt
<1>9. InGraph(x)'
  BY <1>3, <1>4, <1>6, <1>7, <1>8 DEF InGraph, InHand
<1>10. Living(x)'
  <2>1. IF st.payload # None
        THEN runs[r].state = "running" /\ decisions[r] = <<>>
        ELSE runs[r].state = "awaiting_decision" /\ decisions[r] # <<>>
    BY DEF LifeInv, Living
  <2> QED
    BY <1>3, <1>4, <1>8, <1>9, <2>1 DEF Living
<1>11. Living(stream[s])'
  BY <1>2, <1>10 DEF Living, Working, InGraph, OnlyGatesTo, LastDone, InHand
<1>12. WaitsAt(r)'
  BY <1>6 DEF WaitsAt
<1>13. \A q \in RunIds \ {r} : Untouched(q)
  BY <1>4, <1>5 DEF Untouched
<1> QED
  BY <1>2, <1>3, <1>11, <1>12, <1>13, OthersRest, LifeReplaced

LEMMA LifeEnters ==
    ASSUME LifeInv, ApiInv, StageInv, NEW s \in Streams, EnterGraph(s)
    PROVE  LifeInv'
<1>1. /\ stream[s].pc = "lookup" /\ Working(stream[s]) /\ stream[s].payload # None
      /\ StreamStage(stream[s]) /\ Living(stream[s])
  BY DEF EnterGraph, Working, Suspended, StageInv, StreamStages, StreamStage, LifeInv
<1>2. PICK r \in RunIds : r = stream[s].run
  BY <1>1, WorkingFacts
<1>3. decisions[r] = <<>> /\ effects[r] = <<>>
  BY <1>1, <1>2 DEF Living
<1>4. PICK n \in Nat : n = 1
  OBVIOUS
<1>5. /\ stream' = [stream EXCEPT ![s] = Moved(@, @.run, PcAt(@.wf, n), n, None, None)]
      /\ SaveThread(s, n, FALSE, None) /\ UNCHANGED <<storeVars, effects>>
  BY <1>4 DEF EnterGraph
<1>6. OnlyGatesTo(r, n)'
  <2>1. LastDone(r)' = 0
    BY <1>3, <1>5 DEF LastDone
  <2> QED
    BY <1>4, <2>1 DEF OnlyGatesTo
<1>7. GateCount(stream[s].wf, n - 1) = Len(decisions[r])
  BY <1>3, <1>4, GatesCounted
<1>8. n <= Len(Graph[stream[s].wf]) + 1 /\ n > 0
  <2>1. Graph[stream[s].wf] \in Seq({"work", "gate"})
    BY <1>1, WorkingFacts
  <2>2. Len(Graph[stream[s].wf]) \in Nat
    BY <2>1
  <2> QED
    BY <1>4, <2>2
<1> QED
  BY <1>1, <1>2, <1>5, <1>6, <1>7, <1>8, LifeAdvances

\* What it means to be in a node.
LEMMA NodeFactsHere ==
    ASSUME LifeInv, ApiInv, StageInv, NEW s \in Streams, stream[s].pc = "node"
    PROVE  /\ Working(stream[s]) /\ InGraph(stream[s])
           /\ stream[s].pos \in DOMAIN Graph[stream[s].wf]
           /\ stream[s].pos > 0 /\ stream[s].pos \in Nat
           /\ stream[s].pos + 1 <= Len(Graph[stream[s].wf]) + 1
           /\ GateCount(stream[s].wf, stream[s].pos) =
                IF Graph[stream[s].wf][stream[s].pos] = "gate"
                THEN GateCount(stream[s].wf, stream[s].pos - 1) + 1
                ELSE GateCount(stream[s].wf, stream[s].pos - 1)
           /\ GateCount(stream[s].wf, stream[s].pos - 1) \in Nat
<1>1. Working(stream[s]) /\ InGraph(stream[s])
  BY InGraphFacts
<1>2. stream[s].pos \in DOMAIN Graph[stream[s].wf]
  BY DEF StageInv, StreamStages, StreamStage
<1>3. /\ stream[s].pos \in Nat /\ stream[s].pos > 0
      /\ Graph[stream[s].wf] \in Seq({"work", "gate"})
  BY <1>1, WorkingFacts
<1>4. stream[s].pos + 1 <= Len(Graph[stream[s].wf]) + 1
  BY <1>2, <1>3
<1>5. PICK n \in Nat : stream[s].pos = n + 1 /\ n = stream[s].pos - 1
  BY <1>3
<1>6. GateCount(stream[s].wf, n) \in Nat
      /\ GateCount(stream[s].wf, n + 1) = IF Graph[stream[s].wf][n + 1] = "gate"
                                          THEN GateCount(stream[s].wf, n) + 1
                                          ELSE GateCount(stream[s].wf, n)
  BY GatesCounted
<1> QED
  BY <1>1, <1>2, <1>3, <1>4, <1>5, <1>6

LEMMA LifeFinishes ==
    ASSUME LifeInv, ApiInv, StageInv, NEW s \in Streams, FinishWork(s)
    PROVE  LifeInv'
<1>1. /\ stream[s].pc = "node" /\ Graph[stream[s].wf][stream[s].pos] = "work"
      /\ Advance(s, stream[s].verdict) /\ UNCHANGED storeVars
      /\ effects' = [effects EXCEPT ![stream[s].run] =
                        Append(@, [node |-> stream[s].pos, verdict |-> stream[s].verdict])]
  BY DEF FinishWork, Nodes
<1>2. PICK r \in RunIds : r = stream[s].run
  BY <1>1, NodeFactsHere, WorkingFacts
<1>3. /\ InGraph(stream[s]) /\ Working(stream[s])
      /\ stream[s].pos \in Nat /\ stream[s].pos + 1 <= Len(Graph[stream[s].wf]) + 1
      /\ GateCount(stream[s].wf, stream[s].pos) = GateCount(stream[s].wf, stream[s].pos - 1)
      /\ GateCount(stream[s].wf, stream[s].pos - 1) \in Nat
  BY <1>1, NodeFactsHere
<1>4. stream[s].resume = None
  BY <1>1, <1>3 DEF InGraph, AtGate
<1>5. GateCount(stream[s].wf, stream[s].pos) = Len(decisions[r])
  BY <1>2, <1>3, <1>4 DEF InGraph, InHand
<1>6. PICK n \in Nat : n = stream[s].pos + 1 /\ n - 1 = stream[s].pos /\ n > 0
  BY <1>3
<1>7. /\ stream' = [stream EXCEPT ![s] =
                        Moved(@, @.run, PcAt(@.wf, n), n, stream[s].verdict, None)]
      /\ SaveThread(s, n, FALSE, stream[s].verdict)
  BY <1>1, <1>6 DEF Advance
<1>8. PICK e : e = [node |-> stream[s].pos, verdict |-> stream[s].verdict]
  OBVIOUS
<1>9. effects \in [RunIds -> Seq(Effect)] /\ e \in Effect /\ e.node = stream[s].pos
  BY <1>8 DEF ApiInv, ApiTypeOK, StreamRecord, Effect
<1>10. /\ effects'[r] = Append(effects[r], e) /\ effects[r] \in Seq(Effect)
       /\ \A q \in RunIds \ {r} : effects'[q] = effects[q]
  BY <1>1, <1>2, <1>8, <1>9
<1>11. OnlyGatesTo(r, n)'
  <2>1. effects'[r] # <<>> /\ effects'[r][Len(effects'[r])] = e
    BY <1>9, <1>10
  <2>2. LastDone(r)' = stream[s].pos
    BY <1>9, <2>1 DEF LastDone
  <2> QED
    BY <1>3, <1>6, <2>2 DEF OnlyGatesTo
<1> QED
  BY <1>1, <1>2, <1>3, <1>5, <1>6, <1>7, <1>10, <1>11, LifeAdvances

LEMMA LifePasses ==
    ASSUME LifeInv, ApiInv, StageInv, NEW s \in Streams, PassGate(s)
    PROVE  LifeInv'
<1>1. /\ stream[s].pc = "node" /\ Graph[stream[s].wf][stream[s].pos] = "gate"
      /\ stream[s].resume # None
      /\ Advance(s, stream[s].resume) /\ UNCHANGED <<storeVars, effects>>
  BY DEF PassGate, Nodes
<1>2. PICK r \in RunIds : r = stream[s].run
  BY <1>1, NodeFactsHere, WorkingFacts
<1>3. /\ InGraph(stream[s]) /\ Working(stream[s])
      /\ stream[s].pos \in Nat /\ stream[s].pos + 1 <= Len(Graph[stream[s].wf]) + 1
      /\ GateCount(stream[s].wf, stream[s].pos) = GateCount(stream[s].wf, stream[s].pos - 1) + 1
      /\ GateCount(stream[s].wf, stream[s].pos - 1) \in Nat
      /\ LastDone(r) \in Nat /\ runs[r].workflow = stream[s].wf
  BY <1>1, <1>2, NodeFactsHere, WorkingFacts
<1>4. GateCount(stream[s].wf, stream[s].pos) = Len(decisions[r])
  BY <1>1, <1>2, <1>3 DEF InGraph, InHand
<1>5. PICK n \in Nat : n = stream[s].pos + 1 /\ n - 1 = stream[s].pos /\ n > 0
  BY <1>3
<1>6. /\ stream' = [stream EXCEPT ![s] =
                        Moved(@, @.run, PcAt(@.wf, n), n, stream[s].resume, None)]
      /\ SaveThread(s, n, FALSE, stream[s].resume)
  BY <1>1, <1>5 DEF Advance
<1>7. OnlyGatesTo(r, stream[s].pos)
  BY <1>2, <1>3 DEF InGraph
<1>8. OnlyGatesTo(r, n)
  BY <1>1, <1>3, <1>5, <1>7 DEF OnlyGatesTo
<1>9. OnlyGatesTo(r, n)'
  BY <1>1, <1>8 DEF OnlyGatesTo, LastDone, storeVars
<1> QED
  BY <1>1, <1>2, <1>3, <1>4, <1>5, <1>6, <1>9, LifeAdvances

LEMMA LifeInterrupted ==
    ASSUME LifeInv, ApiInv, StageInv, NEW s \in Streams, Interrupt(s)
    PROVE  LifeInv'
<1> DEFINE st == stream[s]
<1>1. /\ st.pc = "node" /\ Graph[st.wf][st.pos] = "gate" /\ st.resume = None
      /\ SaveThread(s, st.pos, TRUE, st.verdict) /\ Goto(s, "ended")
      /\ UNCHANGED <<runs, decisions, effects>>
  BY DEF Interrupt, Nodes, storeVars
<1>2. PICK r \in RunIds : r = st.run
  BY <1>1, NodeFactsHere, WorkingFacts
<1>3. /\ InGraph(st) /\ Working(st) /\ Living(st) /\ st.pos \in Nat
      /\ st.pos \in DOMAIN Graph[st.wf]
      /\ GateCount(st.wf, st.pos) = GateCount(st.wf, st.pos - 1) + 1
      /\ GateCount(st.wf, st.pos - 1) \in Nat
      /\ st.wf \in Workflows /\ runs[r].workflow = st.wf
  BY <1>1, <1>2, NodeFactsHere, WorkingFacts, InGraphFacts
<1>4. GateCount(st.wf, st.pos - 1) = Len(decisions[r])
  BY <1>1, <1>2, <1>3 DEF InGraph, InHand
<1>5. /\ stream \in [Streams -> StreamRecord] /\ thread \in [RunIds -> ThreadRecord]
      /\ st.wf \in Checkpointed
  BY <1>1, <1>3, GateHasPosition DEF ApiInv, ApiTypeOK, AtGate
<1>6. PICK x : x = Moved(st, st.run, "ended", st.pos, st.verdict, st.resume)
  OBVIOUS
<1>7. stream'[s] = x /\ \A t \in Streams \ {s} : stream'[t] = stream[t]
  BY <1>1, <1>5, <1>6 DEF Goto
<1>8. /\ x.pc = "ended" /\ x.run = r /\ x.wf = st.wf /\ x.payload = st.payload
      /\ x.pos = st.pos /\ x.resume = None
  BY <1>1, <1>2, <1>6 DEF Moved
<1>9. /\ thread'[r].waiting /\ thread'[r].at = st.pos
      /\ \A q \in RunIds \ {r} : thread'[q] = thread[q]
  BY <1>1, <1>2, <1>5 DEF SaveThread
<1>10. OnlyGatesTo(r, x.pos) /\ x.pos <= Len(Graph[x.wf]) + 1
  BY <1>2, <1>3, <1>8 DEF InGraph
<1>11. GateCount(x.wf, x.pos - 1) + InHand(x) = Len(decisions[r])
  <2>1. InHand(x) = 0
    BY <1>8 DEF InHand
  <2> QED
    BY <1>3, <1>4, <1>8, <2>1
<1>12. OnlyGatesTo(r, x.pos)'
  BY <1>1, <1>10 DEF OnlyGatesTo, LastDone
<1>13. InGraph(x)'
  BY <1>1, <1>3, <1>8, <1>9, <1>10, <1>11, <1>12 DEF InGraph, InHand
<1>14. Living(x)'
  <2>1. IF st.payload # None
        THEN runs[r].state = "running" /\ decisions[r] = <<>>
        ELSE runs[r].state = "awaiting_decision" /\ decisions[r] # <<>>
    BY <1>2, <1>3 DEF Living
  <2> QED
    BY <1>1, <1>8, <1>13, <2>1 DEF Living
<1>15. Living(stream[s])'
  BY <1>7, <1>14 DEF Living, Working, InGraph, OnlyGatesTo, LastDone, InHand
<1>16. WaitsAt(r)'
  BY <1>1, <1>3, <1>4, <1>8, <1>9, <1>10, <1>12 DEF WaitsAt, OnlyGatesTo, LastDone
<1>17. \A q \in RunIds \ {r} : Untouched(q)
  BY <1>1, <1>9 DEF Untouched
<1> QED
  BY <1>2, <1>3, <1>7, <1>8, <1>15, <1>16, <1>17, OthersRest, LifeReplaced

LEMMA LifeReenters ==
    ASSUME LifeInv, ApiInv, StageInv, NEW s \in Streams, ReenterGraph(s)
    PROVE  LifeInv'
<1> DEFINE st == stream[s]
<1>1. /\ st.pc = "created" /\ st.resume # None /\ Working(st) /\ Living(st)
      /\ UNCHANGED <<runs, decisions, thread, effects>>
  BY DEF ReenterGraph, storeVars, Working, LifeInv
<1>2. PICK r \in RunIds : r = st.run
  BY <1>1, WorkingFacts
<1>3. PICK n : n = thread[r].at
  OBVIOUS
<1>4. /\ AtGate(st.wf, n) /\ OnlyGatesTo(r, n)
      /\ GateCount(st.wf, n) = Len(decisions[r])
      /\ IF st.payload # None
         THEN runs[r].state = "running" /\ decisions[r] = <<>>
         ELSE runs[r].state = "awaiting_decision" /\ decisions[r] # <<>>
  BY <1>1, <1>2, <1>3 DEF Living
<1>5. /\ st.wf \in Workflows /\ stream \in [Streams -> StreamRecord]
      /\ n \in Nat /\ n > 0 /\ n <= Len(Graph[st.wf])
      /\ Graph[st.wf] \in Seq({"work", "gate"})
  BY <1>1, <1>4, WorkingFacts, GateHasPosition DEF ApiInv, ApiTypeOK
<1>6. GateCount(st.wf, n - 1) + 1 = Len(decisions[r])
  <2>1. PICK m \in Nat : n = m + 1 /\ m = n - 1
    BY <1>5
  <2>2. Graph[st.wf][m + 1] = "gate"
    BY <1>4, <2>1 DEF AtGate
  <2>3. GateCount(st.wf, m + 1) = GateCount(st.wf, m) + 1
    BY <2>2, GatesCounted
  <2> QED
    BY <1>4, <2>1, <2>3
<1>7. PICK x : x = Moved(st, st.run, PcAt(st.wf, n), n, thread[r].verdict, st.resume)
  OBVIOUS
<1>8. stream' = [stream EXCEPT ![s] = x]
  BY <1>2, <1>3, <1>4, <1>7 DEF ReenterGraph
<1>9. stream'[s] = x /\ \A t \in Streams \ {s} : stream'[t] = stream[t]
  BY <1>5, <1>8
<1>10. /\ x.pc = "graph" /\ x.run = r /\ x.wf = st.wf /\ x.payload = st.payload
       /\ x.pos = n /\ x.resume # None
  BY <1>1, <1>2, <1>4, <1>7 DEF Moved, PcAt, AtGate
<1>11. InHand(x) = 1 /\ n <= Len(Graph[st.wf]) + 1
  BY <1>5, <1>10 DEF InHand
<1>12. OnlyGatesTo(r, n)'
  BY <1>1, <1>4 DEF OnlyGatesTo, LastDone
<1>13. InGraph(x)'
  BY <1>1, <1>4, <1>6, <1>10, <1>11, <1>12 DEF InGraph, InHand
<1>14. Living(x)'
  BY <1>1, <1>4, <1>10, <1>13 DEF Living
<1>15. Living(stream[s])'
  BY <1>9, <1>14 DEF Living, Working, InGraph, OnlyGatesTo, LastDone, InHand
<1>16. \A q \in RunIds : Untouched(q)
  BY <1>1 DEF Untouched
<1>17. WaitsAt(r)'
  BY <1>16, WaitsKept DEF LifeInv
<1> QED
  BY <1>1, <1>2, <1>9, <1>10, <1>15, <1>16, <1>17, OthersRest, LifeReplaced

LEMMA GatesUpToIsCount ==
    ASSUME NEW r \in RunIds, NEW n
    PROVE  LC!GatesUpTo(r, n) = GateCount(runs[r].workflow, n)
<1>1. TheWorkflow[r] = runs[r].workflow
  BY DEF TheWorkflow
<1>2. {m \in 1 .. n : LC!Nodes(r)[m] = "gate"}
            = {m \in 1 .. n : Graph[runs[r].workflow][m] = "gate"}
  BY <1>1 DEF LC!Nodes
<1> QED
  BY <1>2 DEF LC!GatesUpTo, GateCount, LC!Cardinality, Cardinality

LEMMA LifeDecided ==
    ASSUME LifeInv, ApiInv, StageInv, NEW s \in Streams, NEW r \in RunIds, AsksOnce(r),
           NEW v \in Verdicts, NEW c \in Comments, NEW p \in Subjects,
           PostDecision(s, r, v, c, p)
    PROVE  LifeInv'
<1> DEFINE d == NewDecision(r, v, c, p)
<1>1. /\ runs[r].state = "awaiting_decision"
      /\ decisions' = [decisions EXCEPT ![r] = Append(decisions[r], d)]
      /\ stream' = [stream EXCEPT ![s] = Created(r, runs[r].workflow, None, v)]
      /\ UNCHANGED <<runs, thread, effects>>
  BY DEF PostDecision, AppendDecision, Resumed
<1>2. /\ decisions \in [RunIds -> Seq(DecisionRecord)]
      /\ stream \in [Streams -> StreamRecord] /\ thread[r].at \in Nat
  BY DEF ApiInv, ApiTypeOK, TypeOK, ThreadRecord
<1>3. /\ decisions'[r] = Append(decisions[r], d)
      /\ \A q \in RunIds \ {r} : decisions'[q] = decisions[q]
  BY <1>1, <1>2
<1>4. Len(decisions'[r]) = Len(decisions[r]) + 1 /\ Len(decisions[r]) \in Nat
      /\ decisions'[r] # decisions[r] /\ decisions'[r] # <<>>
  <2> HIDE DEF d
  <2>1. Len(decisions'[r]) = Len(decisions[r]) + 1 /\ Len(decisions[r]) \in Nat
    BY <1>2, <1>3
  <2> QED
    BY <2>1
<1>5. /\ \A t \in Streams : stream[t].run = r => ~Working(stream[t])
      /\ thread[r].waiting
      /\ GateCount(runs[r].workflow, thread[r].at) = Len(decisions'[r])
  BY <1>4, GatesUpToIsCount DEF AsksOnce
<1>6. AtGate(runs[r].workflow, thread[r].at) /\ OnlyGatesTo(r, thread[r].at)
  BY <1>5, WaitsWhereCheckpointed DEF LifeInv, WaitsAt
<1>7. PICK x : x = Created(r, runs[r].workflow, None, v)
  OBVIOUS
<1>8. stream'[s] = x /\ \A t \in Streams \ {s} : stream'[t] = stream[t]
  BY <1>1, <1>2, <1>7
<1>9. x.pc = "created" /\ x.run = r /\ x.wf = runs[r].workflow /\ x.payload = None
  BY <1>7 DEF Created
<1>10. OnlyGatesTo(r, thread[r].at)'
  BY <1>1, <1>6 DEF OnlyGatesTo, LastDone
<1>11. Living(x)'
  BY <1>1, <1>4, <1>5, <1>6, <1>9, <1>10 DEF Living
<1>12. Living(stream[s])'
  BY <1>8, <1>11 DEF Living, Working, InGraph, OnlyGatesTo, LastDone, InHand
<1>13. WaitsAt(r)'
  BY <1>1, <1>5, <1>10 DEF WaitsAt
<1>14. \A q \in RunIds \ {r} : Untouched(q)
  BY <1>1, <1>3 DEF Untouched
<1> QED
  BY <1>5, <1>8, <1>9, <1>12, <1>13, <1>14, LifeReplaced

LEMMA Settlements ==
    ASSUME NEW s \in Streams,
           CacheHit(s) \/ (\E g \in Gates : Pause(s, g)) \/ Complete(s) \/ Fail(s)
    PROVE  /\ Working(stream[s]) /\ UNCHANGED <<thread, effects>>
           /\ \E state \in RunState, g \in Gates \cup {None} :
                    Settle(s, stream[s].run, state, g)
<1>1. {"completed", "failed", "awaiting_decision"} \subseteq RunState
  BY DEF RunState
<1>2. CASE CacheHit(s) \/ Complete(s)
  BY <1>1, <1>2 DEF CacheHit, Complete, Working, Suspended
<1>3. CASE Fail(s)
  BY <1>1, <1>3 DEF Fail, Working
<1>4. CASE \E g \in Gates : Pause(s, g)
  BY <1>1, <1>4 DEF Pause, Working, Suspended
<1> QED
  BY <1>2, <1>3, <1>4

LEMMA LifeRests ==
    ASSUME LifeInv, ApiInv, StageInv, UNCHANGED <<runs, decisions, thread, effects>>,
           NEW s \in Streams, \A t \in Streams \ {s} : stream'[t] = stream[t],
           ~Working(stream'[s])
    PROVE  LifeInv'
BY LifeKept DEF Untouched

LEMMA LifeInvInductive ==
    ASSUME LifeInv, ApiInv, StageInv, ~MayExpire, [GateByGateNext]_runApiVars
    PROVE  LifeInv'
<1>0. stream \in [Streams -> StreamRecord]
  BY DEF ApiInv, ApiTypeOK
<1>1. ASSUME NEW s \in Streams,
             CacheHit(s) \/ (\E g \in Gates : Pause(s, g)) \/ Complete(s) \/ Fail(s)
      PROVE  LifeInv'
  BY <1>1, Settlements, LifeSettles
<1>2. ASSUME NEW s \in Streams, NEW pc \in {"closed", "lost"}, Goto(s, pc),
             UNCHANGED <<storeVars, thread, effects>>
      PROVE  LifeInv'
  <2>1. stream'[s].pc = pc /\ \A t \in Streams \ {s} : stream'[t] = stream[t]
    BY <1>0, <1>2 DEF Goto, Moved
  <2>2. ~Working(stream'[s])
    BY <2>1 DEF Working, Suspended
  <2> QED
    BY <1>2, <2>1, <2>2, LifeRests DEF storeVars
<1>3. ASSUME NEW s \in Streams, NEW wf \in Workflows, NEW p \in Payloads, PostRun(s, wf, p)
      PROVE  LifeInv'
  <2>1. /\ stream'[s] = Created(None, wf, p, None)
        /\ \A t \in Streams \ {s} : stream'[t] = stream[t]
    BY <1>0, <1>3 DEF PostRun
  <2>2. ~Working(stream'[s])
    BY <2>1 DEF Working, Suspended, Created
  <2> QED
    BY <1>3, <2>1, <2>2, LifeRests DEF PostRun, storeVars
<1>4. ASSUME NEW s \in Streams, Close(s) \/ Disconnect(s) \/ NeverPulled(s)
      PROVE  LifeInv'
  BY <1>2, <1>4 DEF Close, Disconnect, NeverPulled
<1>5. ASSUME NEW s \in Streams, StreamStep(s)
      PROVE  LifeInv'
  BY <1>1, <1>4, <1>5, LifeOpens, LifeEnters, LifeReenters, LifeGoesOn, LifeFinishes,
     LifePasses, LifeInterrupted DEF StreamStep
<1>6. CASE ApiTick \/ UNCHANGED runApiVars
  BY <1>6, LifeKept DEF ApiTick, Tick, apiVars, runApiVars, Untouched
<1>7. ASSUME NEW s \in Streams, NEW r \in RunIds, NEW v \in Verdicts,
             NEW c \in Comments, NEW p \in Subjects, PostDecision(s, r, v, c, p), AsksOnce(r)
      PROVE  LifeInv'
  BY <1>7, LifeDecided
<1> QED
  BY <1>3, <1>4, <1>5, <1>6, <1>7 DEF GateByGateNext, RetentionJob

LEMMA LifeInitially == ApiInit => LifeInv
BY DEF ApiInit, LifeInv, Living, Working, Suspended, Free, OneWorks, WaitsAt, NoThread

\* The lifecycle as it is mapped: a sequence of nodes for a sequence of effects.
LEMMA MappedRun ==
    ASSUME ApiInv, NEW r \in RunIds
    PROVE  /\ TheState[r] = runs[r].state /\ TheWorkflow[r] = runs[r].workflow
           /\ TheDecided[r] = Len(decisions[r]) /\ TheDecided[r] \in Nat
           /\ TheExecuted[r] \in Seq(Nat) /\ Len(TheExecuted[r]) = Len(effects[r])
           /\ \A i \in 1 .. Len(effects[r]) : TheExecuted[r][i] = effects[r][i].node
           /\ LC!Nodes(r) = Graph[runs[r].workflow]
           /\ LC!LastExecuted(r) = LastDone(r)
           /\ \A n : LC!Reached(r, n) <=> OnlyGatesTo(r, n)
<1>1. effects[r] \in Seq(Effect) /\ Len(decisions[r]) \in Nat
  BY DEF ApiInv, ApiTypeOK, TypeOK
<1>2. TheState[r] = runs[r].state /\ TheWorkflow[r] = runs[r].workflow
      /\ TheDecided[r] = Len(decisions[r])
  BY DEF TheState, TheWorkflow, TheDecided
<1>3. TheExecuted[r] = [i \in 1 .. Len(effects[r]) |-> effects[r][i].node]
  BY <1>1 DEF TheExecuted
<1>4. \A i \in 1 .. Len(effects[r]) : effects[r][i].node \in Nat
  <2>1. \A i \in 1 .. Len(effects[r]) : effects[r][i] \in Effect
    BY <1>1
  <2> QED
    BY <2>1 DEF Effect
<1>5. TheExecuted[r] \in Seq(Nat) /\ Len(TheExecuted[r]) = Len(effects[r])
      /\ \A i \in 1 .. Len(effects[r]) : TheExecuted[r][i] = effects[r][i].node
  <2>1. Len(effects[r]) \in Nat
    BY <1>1
  <2> QED
    BY <1>3, <1>4, <2>1
<1>6. LC!Nodes(r) = Graph[runs[r].workflow]
  BY <1>2 DEF LC!Nodes
<1>7. LC!LastExecuted(r) = LastDone(r)
  <2>1. TheExecuted[r] = <<>> <=> effects[r] = <<>>
    BY <1>1, <1>5
  <2>2. effects[r] # <<>> => Len(effects[r]) \in 1 .. Len(effects[r])
    BY <1>1
  <2> QED
    BY <1>5, <2>1, <2>2 DEF LC!LastExecuted, LastDone
<1>8. \A n : LC!Reached(r, n) <=> OnlyGatesTo(r, n)
  BY <1>6, <1>7 DEF LC!Reached, OnlyGatesTo
<1> QED
  BY <1>1, <1>2, <1>5, <1>6, <1>7, <1>8

\* A step that changes one run changes the lifecycle of that run.
LEMMA MappedChange ==
    ASSUME NEW r \in RunIds,
           \A q \in RunIds \ {r} :
                /\ runs'[q].state = runs[q].state /\ runs'[q].workflow = runs[q].workflow
                /\ decisions'[q] = decisions[q] /\ effects'[q] = effects[q]
    PROVE  /\ TheState' = [TheState EXCEPT ![r] = runs'[r].state]
           /\ TheWorkflow' = [TheWorkflow EXCEPT ![r] = runs'[r].workflow]
           /\ TheDecided' = [TheDecided EXCEPT ![r] = Len(decisions'[r])]
           /\ TheExecuted' = [TheExecuted EXCEPT ![r] =
                                [i \in DOMAIN effects'[r] |-> effects'[r][i].node]]
<1>1. TheState' = [TheState EXCEPT ![r] = runs'[r].state]
  BY DEF TheState
<1>2. TheWorkflow' = [TheWorkflow EXCEPT ![r] = runs'[r].workflow]
  BY DEF TheWorkflow
<1>3. TheDecided' = [TheDecided EXCEPT ![r] = Len(decisions'[r])]
  BY DEF TheDecided
<1>4. TheExecuted' = [TheExecuted EXCEPT ![r] =
                        [i \in DOMAIN effects'[r] |-> effects'[r][i].node]]
  BY DEF TheExecuted
<1> QED
  BY <1>1, <1>2, <1>3, <1>4

LEMMA MappedSame ==
    ASSUME NEW r \in RunIds,
           runs'[r].workflow = runs[r].workflow, decisions'[r] = decisions[r],
           effects'[r] = effects[r]
    PROVE  /\ [TheWorkflow EXCEPT ![r] = runs'[r].workflow] = TheWorkflow
           /\ [TheDecided EXCEPT ![r] = Len(decisions'[r])] = TheDecided
           /\ [TheExecuted EXCEPT ![r] = [i \in DOMAIN effects'[r] |-> effects'[r][i].node]]
                = TheExecuted
<1>1. [TheWorkflow EXCEPT ![r] = runs'[r].workflow] = TheWorkflow
  BY DEF TheWorkflow
<1>2. [TheDecided EXCEPT ![r] = Len(decisions'[r])] = TheDecided
  BY DEF TheDecided
<1>3. [TheExecuted EXCEPT ![r] = [i \in DOMAIN effects'[r] |-> effects'[r][i].node]]
            = TheExecuted
  BY DEF TheExecuted
<1> QED
  BY <1>1, <1>2, <1>3

LEMMA MappedStutter ==
    ASSUME UNCHANGED <<runs, decisions, effects>>
    PROVE  UNCHANGED LC!vars
BY DEF LC!vars, TheState, TheWorkflow, TheExecuted, TheDecided

LEMMA WorkingIsActive ==
    ASSUME LifeInv, ApiInv, StageInv, NEW s \in Streams, Working(stream[s])
    PROVE  LC!Active(stream[s].run)
<1>1. PICK r \in RunIds : r = stream[s].run
  BY WorkingFacts
<1>2. \/ runs[r].state = "running"
      \/ runs[r].state = "awaiting_decision" /\ decisions[r] # <<>>
  BY <1>1 DEF LifeInv, Living
<1>3. decisions[r] # <<>> => Len(decisions[r]) > 0
  BY DEF ApiInv, ApiTypeOK, TypeOK
<1>4. LC!Active(r)
  BY <1>2, <1>3, MappedRun DEF LC!Active
<1> QED
  BY <1>1, <1>4

\* A run settles.
LEMMA MappedSettle ==
    ASSUME ApiInv, NEW s \in Streams, NEW r \in RunIds, NEW state \in RunState,
           NEW g \in Gates \cup {None}, Settle(s, r, state, g), UNCHANGED effects
    PROVE  LC!Become(r, state)
<1>1. runs \in [RunIds -> RunRecord] /\ runs' = [runs EXCEPT ![r] = Marked(runs[r], state, g)]
      /\ UNCHANGED decisions
  BY DEF Settle, MarkState, ApiInv, ApiTypeOK, TypeOK
<1>2. /\ \A q \in RunIds \ {r} : runs'[q] = runs[q]
      /\ runs'[r].state = state /\ runs'[r].workflow = runs[r].workflow
  BY <1>1 DEF Marked, Updated
<1>3. /\ TheState' = [TheState EXCEPT ![r] = state]
      /\ TheWorkflow' = [TheWorkflow EXCEPT ![r] = runs'[r].workflow]
      /\ TheDecided' = [TheDecided EXCEPT ![r] = Len(decisions'[r])]
      /\ TheExecuted' = [TheExecuted EXCEPT ![r] =
                                [i \in DOMAIN effects'[r] |-> effects'[r][i].node]]
  BY <1>1, <1>2, MappedChange
<1>4. UNCHANGED <<TheWorkflow, TheDecided, TheExecuted>>
  BY <1>1, <1>2, <1>3, MappedSame
<1> QED
  BY <1>3, <1>4 DEF LC!Become

LEMMA MappedSettlements ==
    ASSUME LifeInv, ApiInv, StageInv, NEW s \in Streams,
           CacheHit(s) \/ (\E g \in Gates : Pause(s, g)) \/ Complete(s) \/ Fail(s)
    PROVE  LC!Next
<1> DEFINE st == stream[s]
<1>1. Working(st) /\ UNCHANGED effects
  BY Settlements
<1>2. PICK r \in RunIds : r = st.run
  BY <1>1, WorkingFacts
<1>3. LC!Active(r) /\ Living(st) /\ runs[r].workflow = st.wf
  BY <1>1, <1>2, WorkingIsActive, WorkingFacts DEF LifeInv
<1>4. ASSUME NEW state \in {"completed", "failed", "awaiting_decision"},
             NEW g \in Gates \cup {None}, Settle(s, r, state, g)
      PROVE  LC!Become(r, state)
  BY <1>1, <1>4, MappedSettle DEF RunState
<1>5. CASE CacheHit(s)
  <2>1. /\ st.pc = "lookup" /\ st.wf \in Idempotent /\ Settle(s, r, "completed", None)
    BY <1>2, <1>5 DEF CacheHit, HasKey
  <2>2. LC!Become(r, "completed")
    BY <1>4, <2>1
  <2>3. effects[r] = <<>>
    BY <1>1, <1>2, <1>3, <2>1 DEF Living
  <2>4. TheExecuted[r] = <<>>
    BY <2>3, MappedRun
  <2>5. TheWorkflow[r] \in Idempotent
    BY <1>3, <2>1, MappedRun
  <2> QED
    BY <1>3, <2>2, <2>4, <2>5 DEF LC!Next, LC!Complete
<1>6. ASSUME NEW g \in Gates, Pause(s, g)
      PROVE  LC!Next
  <2>1. /\ st.pc = "ended" /\ thread[r].waiting /\ Settle(s, r, "awaiting_decision", g)
    BY <1>2, <1>6 DEF Pause
  <2>2. LC!Become(r, "awaiting_decision")
    BY <1>4, <2>1
  <2>3. InGraph(st) /\ st.pos \in DOMAIN Graph[st.wf] /\ st.resume = None
    BY <1>1, <1>2, <1>3, <2>1 DEF Living, InGraph
  <2>4. AtGate(st.wf, st.pos)
    BY <2>1, <2>3 DEF StageInv, StreamStages, StreamStage
  <2>5. st.wf \in Workflows /\ Len(decisions[r]) \in Nat
    BY <1>1, <1>2, WorkingFacts
  <2>6. PICK m \in Nat : st.pos = m + 1 /\ m = st.pos - 1
    BY <2>4, <2>5, GateHasPosition
  <2>7. GateCount(st.wf, m) = Len(decisions[r])
    <3>1. InHand(st) = 0
      BY <2>3 DEF InHand
    <3>2. GateCount(st.wf, m) + 0 = Len(decisions[r]) /\ GateCount(st.wf, m) \in Nat
      BY <1>2, <2>3, <2>6, <3>1, GatesCounted DEF InGraph
    <3> QED
      BY <3>2
  <2>8. GateCount(st.wf, m + 1) = Len(decisions[r]) + 1
    BY <2>4, <2>6, <2>7, GatesCounted DEF AtGate
  <2>9. LC!GatesUpTo(r, m + 1) = TheDecided[r] + 1
    BY <1>3, <2>8, GatesUpToIsCount, MappedRun
  <2>10. LC!Reached(r, m + 1)
    BY <1>2, <2>3, <2>6, MappedRun DEF InGraph
  <2>11. /\ LC!Nodes(r)[m + 1] = "gate" /\ m + 1 \in DOMAIN LC!Nodes(r)
    BY <1>3, <2>4, <2>6, MappedRun DEF AtGate
  <2>12. TheWorkflow[r] # None
    BY <1>3, <2>5, MappedRun, NoneIsNoRequest
  <2>13. LC!Pause(r, m + 1)
    BY <1>3, <2>2, <2>9, <2>10, <2>11 DEF LC!Pause
  <2> QED
    BY <2>11, <2>12, <2>13 DEF LC!Next
<1>7. CASE Complete(s)
  <2>1. st.pc = "storing" /\ Settle(s, r, "completed", None)
    BY <1>2, <1>7 DEF Complete
  <2>2. LC!Become(r, "completed")
    BY <1>4, <2>1
  <2>3. /\ InGraph(st) /\ st.pos \notin DOMAIN Graph[st.wf] /\ st.resume = None
    BY <1>1, <1>3, <2>1 DEF Living, InGraph
  <2>4. /\ Graph[st.wf] \in Seq({"work", "gate"}) /\ st.pos \in Nat /\ st.pos > 0
        /\ Len(decisions[r]) \in Nat
    BY <1>1, <1>2, <2>1, WorkingFacts
  <2>5. PICK k \in Nat : k = Len(Graph[st.wf])
    BY <2>4
  <2>6. st.pos = k + 1 /\ st.pos - 1 = k
    BY <2>3, <2>4, <2>5 DEF InGraph
  <2>7. GateCount(st.wf, k) = Len(decisions[r])
    <3>1. InHand(st) = 0
      BY <2>3 DEF InHand
    <3>2. GateCount(st.wf, k) + 0 = Len(decisions[r]) /\ GateCount(st.wf, k) \in Nat
      BY <1>2, <2>3, <2>6, <3>1, GatesCounted DEF InGraph
    <3> QED
      BY <3>2
  <2>8. LC!GatesUpTo(r, k) = TheDecided[r] /\ Len(LC!Nodes(r)) = k
    <3>1. GateCount(runs[r].workflow, k) = Len(decisions[r])
      BY <1>3, <2>7
    <3>2. LC!GatesUpTo(r, k) = TheDecided[r]
      BY <3>1, GatesUpToIsCount, MappedRun
    <3>3. LC!Nodes(r) = Graph[st.wf]
      BY <1>3, MappedRun
    <3> QED
      BY <2>5, <3>2, <3>3
  <2>9. LC!Reached(r, k + 1)
    BY <1>2, <2>3, <2>6, MappedRun DEF InGraph
  <2> QED
    BY <1>3, <2>2, <2>8, <2>9 DEF LC!Next, LC!Complete
<1>8. CASE Fail(s)
  <2>1. LC!Become(r, "failed")
    BY <1>2, <1>4, <1>8 DEF Fail
  <2> QED
    BY <1>3, <2>1 DEF LC!Next, LC!Fail
<1> QED
  BY <1>5, <1>6, <1>7, <1>8

LEMMA MappedOpen ==
    ASSUME ApiInv, NEW s \in Streams, NEW r \in RunIds, OpenRun(s, r)
    PROVE  LC!Next
<1>1. /\ runs[r].state = "absent" /\ runs' = [runs EXCEPT ![r] = NewRecord(stream[s].wf)]
      /\ UNCHANGED <<decisions, effects>> /\ stream[s].pc = "created"
  BY DEF OpenRun, CreateRun, Exists
<1>2. runs \in [RunIds -> RunRecord] /\ stream[s].wf \in Workflows
  BY <1>1 DEF ApiInv, ApiTypeOK, TypeOK, StreamsOK, StreamOK
<1>3. /\ \A q \in RunIds \ {r} : runs'[q] = runs[q]
      /\ runs'[r].state = "running" /\ runs'[r].workflow = stream[s].wf
  BY <1>1, <1>2 DEF NewRecord
<1>4. /\ TheState' = [TheState EXCEPT ![r] = "running"]
      /\ TheWorkflow' = [TheWorkflow EXCEPT ![r] = stream[s].wf]
  BY <1>1, <1>3, MappedChange
<1>5. UNCHANGED <<TheDecided, TheExecuted>>
  BY <1>1 DEF TheDecided, TheExecuted
<1>6. TheState[r] = "absent"
  BY <1>1, MappedRun
<1>7. LC!Start(r, stream[s].wf)
  BY <1>4, <1>5, <1>6 DEF LC!Start
<1> QED
  BY <1>2, <1>7 DEF LC!Next

LEMMA AppendIsFunction ==
    ASSUME NEW q \in Seq(Nat), NEW n \in Nat
    PROVE  Append(q, n) = [i \in 1 .. (Len(q) + 1) |-> IF i = Len(q) + 1 THEN n ELSE q[i]]
<1>1. PICK k \in Nat : k = Len(q)
  OBVIOUS
<1>2. PICK f \in Seq(Nat) : f = Append(q, n)
  <2>1. Append(q, n) \in Seq(Nat)
    OBVIOUS
  <2> QED
    BY <2>1, Zenon
<1>3. /\ Len(f) = k + 1 /\ f[k + 1] = n
      /\ \A i \in 1 .. k : f[i] = q[i]
  BY <1>1, <1>2
<1>4. f = [i \in 1 .. (k + 1) |-> f[i]]
  BY <1>3
<1>5. \A i \in 1 .. (k + 1) : f[i] = IF i = k + 1 THEN n ELSE q[i]
  BY <1>3
<1>6. f = [i \in 1 .. (k + 1) |-> IF i = k + 1 THEN n ELSE q[i]]
  BY <1>4, <1>5
<1> QED
  BY <1>1, <1>2, <1>6

LEMMA MappedWork ==
    ASSUME LifeInv, ApiInv, StageInv, NEW s \in Streams, FinishWork(s)
    PROVE  LC!Next
<1> DEFINE st == stream[s]
<1>1. /\ st.pc = "node" /\ Graph[st.wf][st.pos] = "work" /\ UNCHANGED <<runs, decisions>>
      /\ effects' = [effects EXCEPT ![st.run] =
                        Append(@, [node |-> st.pos, verdict |-> st.verdict])]
  BY DEF FinishWork, Nodes, storeVars
<1>2. /\ InGraph(st) /\ Working(st)
      /\ st.pos \in Nat /\ st.pos \in DOMAIN Graph[st.wf]
      /\ GateCount(st.wf, st.pos) = GateCount(st.wf, st.pos - 1)
      /\ GateCount(st.wf, st.pos - 1) \in Nat
  BY <1>1, NodeFactsHere
<1>3. PICK r \in RunIds : r = st.run
  BY <1>2, WorkingFacts
<1>4. PICK n \in Nat : n = st.pos
  BY <1>2
<1>5. /\ st.wf \in Workflows /\ runs[r].workflow = st.wf /\ Len(decisions[r]) \in Nat
      /\ LC!Active(r)
  BY <1>2, <1>3, WorkingFacts, WorkingIsActive
<1>6. st.resume = None
  BY <1>1, <1>2 DEF InGraph, AtGate
<1>7. LC!GatesUpTo(r, n) = TheDecided[r] /\ TheDecided[r] \in Nat
  <2>1. InHand(st) = 0
    BY <1>6 DEF InHand
  <2>2. GateCount(st.wf, n) + 0 = Len(decisions[r]) /\ GateCount(st.wf, n) \in Nat
    BY <1>2, <1>3, <1>4, <2>1 DEF InGraph
  <2> QED
    BY <1>5, <2>2, GatesUpToIsCount, MappedRun
<1>8. LC!Reached(r, n) /\ LC!Nodes(r)[n] = "work" /\ n \in DOMAIN LC!Nodes(r)
  BY <1>1, <1>2, <1>3, <1>4, <1>5, MappedRun DEF InGraph
<1>9. TheWorkflow[r] # None
  BY <1>5, MappedRun, NoneIsNoRequest
<1>10. PICK e : e = [node |-> st.pos, verdict |-> st.verdict]
  OBVIOUS
<1>11. effects \in [RunIds -> Seq(Effect)] /\ e \in Effect /\ e.node = n
  BY <1>4, <1>10 DEF ApiInv, ApiTypeOK, StreamRecord, Effect
<1>12. /\ effects'[r] = Append(effects[r], e) /\ effects[r] \in Seq(Effect)
       /\ \A q \in RunIds \ {r} : effects'[q] = effects[q]
  BY <1>1, <1>3, <1>10, <1>11
<1>13. [i \in DOMAIN effects'[r] |-> effects'[r][i].node] = Append(TheExecuted[r], n)
  <2>1. DOMAIN effects'[r] = 1 .. (Len(effects[r]) + 1) /\ Len(effects[r]) \in Nat
    BY <1>11, <1>12
  <2>2. \A i \in 1 .. Len(effects[r]) : effects'[r][i] = effects[r][i]
    BY <1>11, <1>12
  <2>3. effects'[r][Len(effects[r]) + 1] = e
    BY <1>11, <1>12
  <2>4. /\ TheExecuted[r] \in Seq(Nat) /\ Len(TheExecuted[r]) = Len(effects[r])
        /\ \A i \in 1 .. Len(effects[r]) : TheExecuted[r][i] = effects[r][i].node
    BY MappedRun
  <2>5. PICK q \in Seq(Nat) : q = TheExecuted[r]
    BY <2>4
  <2>6. PICK k \in Nat : k = Len(effects[r])
    BY <2>1
  <2>7. Append(q, n) = [i \in 1 .. (k + 1) |-> IF i = k + 1 THEN n ELSE q[i]]
    <3>1. k = Len(q)
      BY <2>4, <2>5, <2>6
    <3> QED
      BY <3>1, AppendIsFunction
  <2>8. \A i \in 1 .. (k + 1) :
            effects'[r][i].node = IF i = k + 1 THEN n ELSE q[i]
    BY <1>11, <2>2, <2>3, <2>4, <2>5, <2>6
  <2>9. [i \in 1 .. (k + 1) |-> effects'[r][i].node]
            = [i \in 1 .. (k + 1) |-> IF i = k + 1 THEN n ELSE q[i]]
    BY <2>8
  <2> QED
    BY <2>1, <2>5, <2>6, <2>7, <2>9
<1>14. TheExecuted' = [TheExecuted EXCEPT ![r] = Append(TheExecuted[r], n)]
  <2>1. TheExecuted' = [TheExecuted EXCEPT ![r] =
                            [i \in DOMAIN effects'[r] |-> effects'[r][i].node]]
    BY <1>1, <1>12, MappedChange
  <2> QED
    BY <1>13, <2>1
<1>15. UNCHANGED <<TheState, TheWorkflow, TheDecided>>
  BY <1>1 DEF TheState, TheWorkflow, TheDecided
<1>16. LC!Execute(r, n)
  BY <1>5, <1>7, <1>8, <1>14, <1>15 DEF LC!Execute
<1> QED
  BY <1>8, <1>9, <1>16 DEF LC!Next

LEMMA MappedDecision ==
    ASSUME ApiInv, NEW s \in Streams, NEW r \in RunIds, NEW v \in Verdicts,
           NEW c \in Comments, NEW p \in Subjects, PostDecision(s, r, v, c, p)
    PROVE  LC!Next
<1> DEFINE d == NewDecision(r, v, c, p)
<1>1. /\ runs[r].state = "awaiting_decision"
      /\ decisions' = [decisions EXCEPT ![r] = Append(decisions[r], d)]
      /\ UNCHANGED <<runs, effects>>
  BY DEF PostDecision, AppendDecision
<1>2. decisions \in [RunIds -> Seq(DecisionRecord)]
  BY DEF ApiInv, ApiTypeOK, TypeOK
<1>3. /\ decisions'[r] = Append(decisions[r], d)
      /\ \A q \in RunIds \ {r} : decisions'[q] = decisions[q]
  BY <1>1, <1>2
<1> HIDE DEF d
<1>4. Len(decisions'[r]) = TheDecided[r] + 1
  <2>1. Len(decisions'[r]) = Len(decisions[r]) + 1
    BY <1>2, <1>3
  <2> QED
    BY <2>1, MappedRun
<1>5. TheDecided' = [TheDecided EXCEPT ![r] = TheDecided[r] + 1]
  BY <1>1, <1>3, <1>4, MappedChange
<1>6. UNCHANGED <<TheState, TheWorkflow, TheExecuted>>
  BY <1>1 DEF TheState, TheWorkflow, TheExecuted
<1>7. TheState[r] = "awaiting_decision"
  BY <1>1, MappedRun
<1>8. LC!Decide(r)
  BY <1>5, <1>6, <1>7 DEF LC!Decide
<1> QED
  BY <1>8 DEF LC!Next

LEMMA LifecycleSteps ==
    ASSUME LifeInv, ApiInv, StageInv, ~MayExpire, [ApiNext]_runApiVars
    PROVE  [LC!Next]_LC!vars
<1>1. ASSUME NEW s \in Streams, StreamStep(s)
      PROVE  LC!Next \/ UNCHANGED LC!vars
  BY <1>1, MappedSettlements, MappedOpen, MappedWork, MappedStutter
     DEF StreamStep, EnterGraph, ReenterGraph, StartNode, PassGate, Interrupt,
         ProduceOutput, Close, storeVars
<1>2. ASSUME NEW s \in Streams, Disconnect(s) \/ NeverPulled(s)
      PROVE  UNCHANGED LC!vars
  BY <1>2, MappedStutter DEF Disconnect, NeverPulled, storeVars
<1>3. ASSUME NEW s \in Streams, NEW wf \in Workflows, NEW p \in Payloads, PostRun(s, wf, p)
      PROVE  UNCHANGED LC!vars
  BY <1>3, MappedStutter DEF PostRun, storeVars
<1>4. CASE ApiTick \/ UNCHANGED runApiVars
  BY <1>4, MappedStutter DEF ApiTick, Tick, apiVars, runApiVars
<1> QED
  BY <1>1, <1>2, <1>3, <1>4, MappedDecision DEF ApiNext, RetentionJob

LEMMA LifecycleInitially == ApiInit => LC!Init
BY DEF ApiInit, Init, NoRecord, LC!Init, TheState, TheWorkflow, TheExecuted, TheDecided

\* A run that is decided once is decided gate by gate.
LEMMA OneDecisionIsGateByGate ==
    ASSUME LifeInv, ApiInv, StageInv, MaxDecisions <= 1, NEW s \in Streams,
           NEW r \in RunIds, NEW v \in Verdicts, NEW c \in Comments, NEW p \in Subjects,
           PostDecision(s, r, v, c, p)
    PROVE  AsksOnce(r)
<1>1. decisions \in [RunIds -> Seq(DecisionRecord)] /\ MaxDecisions \in Nat
  BY BoundsAreNumbers DEF ApiInv, ApiTypeOK, TypeOK
<1>2. runs[r].state = "awaiting_decision" /\ Len(decisions[r]) < MaxDecisions
  BY DEF PostDecision, AppendDecision
<1>3. Len(decisions[r]) = 0 /\ decisions[r] = <<>>
  <2>1. Len(decisions[r]) \in Nat /\ Len(decisions[r]) < MaxDecisions
    BY <1>1, <1>2
  <2>2. Len(decisions[r]) = 0
    BY <1>1, <2>1
  <2> QED
    BY <1>1, <2>2
<1>4. thread[r].waiting
  BY <1>2, <1>3
     DEF StageInv, RunStages, RunStage, PausedStage, WasPaused, AwaitingStage
<1>5. ASSUME NEW t \in Streams, stream[t].run = r, Working(stream[t])
      PROVE  FALSE
  BY <1>2, <1>3, <1>5 DEF LifeInv, Living
<1>6. GateCount(runs[r].workflow, thread[r].at) = 1
  <2>1. AtGate(runs[r].workflow, thread[r].at) /\ runs[r].workflow \in Workflows
    BY <1>4, WaitsWhereCheckpointed
  <2>2. PICK m \in Nat : thread[r].at = m + 1
    <3>1. thread[r].at \in Nat /\ thread[r].at > 0
      BY <2>1, GateHasPosition
    <3>2. thread[r].at = (thread[r].at - 1) + 1 /\ thread[r].at - 1 \in Nat
      BY <3>1
    <3> QED
      BY <3>2
  <2>3. PICK k \in Nat : k = GateCount(runs[r].workflow, m)
    BY GatesCounted
  <2>4. GateCount(runs[r].workflow, thread[r].at) = k + 1
    BY <2>1, <2>2, <2>3, GatesCounted DEF AtGate
  <2>5. GateCount(runs[r].workflow, thread[r].at) \in {0, 1}
    <3>1. GateCount(runs[r].workflow, thread[r].at)
                \in {Len(decisions[r]), Len(decisions[r]) + 1}
      BY <1>4 DEF LifeInv, WaitsAt
    <3>2. Len(decisions[r]) = 0 /\ Len(decisions[r]) + 1 = 1
      BY <1>3
    <3> QED
      BY <3>1, <3>2
  <2> QED
    BY <2>3, <2>4, <2>5
<1>7. LC!GatesUpTo(r, thread[r].at) = Len(decisions[r]) + 1
  BY <1>3, <1>6, GatesUpToIsCount
<1> QED
  BY <1>4, <1>5, <1>7 DEF AsksOnce

\* Reviewers who decide one gate at a time see the lifecycle: every node is
\* executed once and in order, a gate holds the run until it is decided, and
\* ends are final, whoever disconnects (runner.py:132-310, routes.py:262-318).
THEOREM GateByGateIsTheLifecycle ==
    ASSUME ~MayExpire
    PROVE  GateByGateSpec => RefinesLifecycle
<1>1. ApiInit => ApiInv /\ StageInv /\ LifeInv /\ LC!Init
  BY ApiInitially, StagesInitially, LifeInitially, LifecycleInitially
<1>2. [GateByGateNext]_runApiVars => [ApiNext]_runApiVars
  BY DEF GateByGateNext, ApiNext
<1>3. /\ ApiInv /\ StageInv /\ LifeInv
      /\ [GateByGateNext]_runApiVars
      => (ApiInv /\ StageInv /\ LifeInv)' /\ [LC!Next]_LC!vars
  BY <1>2, ApiInvInductive, StageInvInductive, LifeInvInductive, LifecycleSteps
<1> QED
  BY <1>1, <1>3, PTL DEF GateByGateSpec, RefinesLifecycle, LC!Spec

\* A run that is decided at most once follows the lifecycle whenever and however
\* often clients ask: the second decision is what it takes to leave it.
THEOREM OneDecisionIsTheLifecycle ==
    ASSUME MaxDecisions <= 1, ~MayExpire
    PROVE  ApiSpec => RefinesLifecycle
<1>1. ApiInit => ApiInv /\ StageInv /\ LifeInv /\ LC!Init
  BY ApiInitially, StagesInitially, LifeInitially, LifecycleInitially
<1>2. ASSUME ApiInv, StageInv, LifeInv, [ApiNext]_runApiVars
      PROVE  [GateByGateNext]_runApiVars
  BY <1>2, OneDecisionIsGateByGate DEF ApiNext, GateByGateNext
<1>3. ApiInv /\ StageInv /\ LifeInv /\ [ApiNext]_runApiVars
      => (ApiInv /\ StageInv /\ LifeInv)' /\ [LC!Next]_LC!vars
  BY <1>2, ApiInvInductive, StageInvInductive, LifeInvInductive, LifecycleSteps
<1> QED
  BY <1>1, <1>3, PTL DEF ApiSpec, RefinesLifecycle, LC!Spec
=============================================================================
