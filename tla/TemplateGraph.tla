---------------------------- MODULE TemplateGraph ----------------------------
(***************************************************************************)
(* A run of a template through LangGraph (sdk/graph.py): steps, human      *)
(* gates and judges, in one process until a gate, then in another after a  *)
(* decision (sdk/cli.py run and decide), over a shared checkpoint file and *)
(* an append-only event log.                                               *)
(*                                                                         *)
(* A leg is one process working on the run: the one that started it, or    *)
(* one that `decide` started, from its first row in the log.  Nothing      *)
(* stops two legs from working on the run at once, and a process may be    *)
(* killed anywhere, in its first row too.  An action is the code between   *)
(* two effects that others can see: a row of the log, a checkpoint, the    *)
(* call of a hook or a model.                                              *)
(*                                                                         *)
(* LangGraph is outside the package.  It runs one node after another,      *)
(* saves a checkpoint after each in the background, so that the process    *)
(* may run ahead of its checkpoint but not leave the graph before it is    *)
(* saved; a decision continues from the latest checkpoint, and answers the *)
(* gate that checkpoint stands at.                                         *)
(***************************************************************************)
EXTENDS TemplateSteps, FiniteSets

CONSTANTS
    Legs,           \* processes
    Starter,        \* the one of `run`; each other is one of `decide`
    Overlap,        \* a decision may be taken while a process works on the run
    MaxCrashes,     \* processes that are killed
    MayTear         \* a killed process may leave a row cut short

ASSUME StarterIsALeg == Starter \in Legs
ASSUME CrashesBounded == MaxCrashes \in Nat

VARIABLES
    leg,            \* leg -> what the process holds
    thread,         \* the latest checkpoint of the run
    log,            \* the event log of the run
    given,          \* leg -> the decision it was started with
    invoked,        \* node -> times its hook or model was called
    approved,       \* judges whose model has answered "pass"
    crashes         \* processes killed so far

graphVars == <<leg, thread, log, given, invoked, approved, crashes>>

LegPc == {"free", "preflight", "entering", "loading", "node", "working",
          "waiting", "closing", "leaving", "ended", "unbound", "collided", "stranded",
          "crashed"}
Stopped == {"free", "ended", "unbound", "collided", "stranded", "crashed"}

\* notes: in the state of the graph.  ctx, before: ctx.notes of this process, and
\* its length when the node began.  resume: a verdict nobody has taken yet.
\* saved: the process has nothing to save.
LegRecord ==
    [pc : LegPc, pos : 1 .. (Len(Plan) + 1), pool : [Keys -> Values],
     notes : Seq(Nodes), ctx : Seq(Nodes), before : Nat, asks : {0, 1},
     resume : Verdicts \cup {None}, saved : BOOLEAN,
     closing : TERMINAL \cup {"awaiting_human", None}]

\* next: the node to run, 0 before the first checkpoint.  by: the leg that saved.
ThreadRecord ==
    [next : 0 .. (Len(Plan) + 1), waiting : BOOLEAN, pool : [Keys -> Values],
     notes : Seq(Nodes), by : Legs \cup {None}]

Fresh == [pc |-> "free", pos |-> 1, pool |-> PoolOf({}), notes |-> <<>>,
          ctx |-> <<>>, before |-> 0, asks |-> 0, resume |-> None,
          saved |-> TRUE, closing |-> None]

NoCheckpoint == [next |-> 0, waiting |-> FALSE, pool |-> PoolOf({}),
                 notes |-> <<>>, by |-> None]

GraphTypeOK ==
    /\ leg \in [Legs -> LegRecord]
    /\ thread \in ThreadRecord
    /\ log \in EventLogs(Legs)
    /\ given \in [Legs -> Verdicts \cup {None}]
    /\ invoked \in [Nodes -> Nat]
    /\ approved \subseteq Nodes
    /\ crashes \in 0 .. MaxCrashes

Init ==
    /\ leg = [l \in Legs |-> Fresh]
    /\ thread = NoCheckpoint
    /\ log = NoLog
    /\ given = [l \in Legs |-> None]
    /\ invoked = [n \in Nodes |-> 0]
    /\ approved = {}
    /\ crashes = 0

At(l, pc) == leg[l].pc = pc
Here(l) == Plan[leg[l].pos]
AtNode(l, kinds) == At(l, "node") /\ leg[l].pos \in Nodes /\ Here(l).kind \in kinds
Working(l, kinds) == At(l, "working") /\ Here(l).kind \in kinds

Tell(l, step, status) == log' = Told(log, Row(l, step, status))
Called(l) == invoked' = [invoked EXCEPT ![leg[l].pos] = @ + 1]
Goto(l, pc) == leg' = [leg EXCEPT ![l].pc = pc]
ToClose(l, status) ==
    leg' = [leg EXCEPT ![l].pc = "closing", ![l].closing = status]

-----------------------------------------------------------------------------
(* Starting and deciding *)

\* `run`: the run id is new.
Start(l, supplied) ==
    /\ l = Starter
    /\ log = NoLog /\ \A k \in Legs : At(k, "free")
    /\ Tell(l, "run", "started")
    /\ leg' = [leg EXCEPT ![l].pc = "preflight", ![l].pool = PoolOf(supplied)]
    /\ UNCHANGED <<thread, given, invoked, approved, crashes>>

PreflightOk(l) ==
    /\ At(l, "preflight")
    /\ IF Declared THEN Tell(l, "preflight", "ok") ELSE UNCHANGED log
    /\ Goto(l, "entering")
    /\ UNCHANGED <<thread, given, invoked, approved, crashes>>

PreflightBlocked(l) ==
    /\ At(l, "preflight") /\ Requires # {}
    /\ Tell(l, "preflight", "blocked")
    /\ ToClose(l, "blocked")
    /\ UNCHANGED <<thread, given, invoked, approved, crashes>>

\* ainvoke: the graph is compiled and its input saved.
Enter(l) ==
    /\ At(l, "entering")
    /\ leg' = [leg EXCEPT ![l].pc = "node", ![l].saved = FALSE]
    /\ UNCHANGED <<thread, log, given, invoked, approved, crashes>>

\* `decide`: nothing asks whether the run is paused, or was ever started.
Live == \E l \in Legs : ~(leg[l].pc \in Stopped)

Decide(l, v) ==
    /\ l # Starter /\ At(l, "free")
    /\ log # NoLog
    /\ Overlap \/ ~Live
    /\ Tell(l, "run", "resumed")
    /\ leg' = [leg EXCEPT ![l].pc = "loading", ![l].resume = v]
    /\ given' = [given EXCEPT ![l] = v]
    /\ UNCHANGED <<thread, invoked, approved, crashes>>

AtGate(pos) == pos \in Nodes /\ Plan[pos].kind = "gate"

Loaded(l, pos, resume) ==
    /\ At(l, "loading") /\ thread.next # 0
    /\ leg' = [leg EXCEPT ![l] =
                [@ EXCEPT !.pc = "node", !.pos = pos, !.pool = thread.pool,
                          !.notes = thread.notes, !.saved = TRUE, !.resume = resume]]
    /\ UNCHANGED <<thread, log, given, invoked, approved, crashes>>

\* Mutants of Load: from the top; without the decision.
LoadFromTop(l) == Loaded(l, 1, leg[l].resume)
LoadUndecided(l) == Loaded(l, thread.next, None)

Load(l) ==
    Loaded(l, thread.next, IF AtGate(thread.next) THEN leg[l].resume ELSE None)

\* There is no checkpoint to continue from.
Strand(l) ==
    /\ At(l, "loading") /\ thread.next = 0
    /\ Goto(l, "stranded")
    /\ UNCHANGED <<thread, log, given, invoked, approved, crashes>>

-----------------------------------------------------------------------------
(* Nodes *)

\* _merge_pool: the pool with what the node produced.
Pooled(l, value) == [leg[l].pool EXCEPT ![Here(l).produces] = value]

\* Mutants of Merged: products replace each other; a decision stays for the next
\* gate.
MergedAlone(l, value, ctx, notes) ==
    leg' = [leg EXCEPT ![l] =
            [leg[l] EXCEPT !.pc = "node", !.pos = leg[l].pos + 1, !.saved = FALSE,
                      !.pool = [PoolOf({}) EXCEPT ![Here(l).produces] = value],
                      !.ctx = ctx, !.notes = leg[l].notes \o notes, !.resume = None]]
MergedDecided(l, value, ctx, notes) ==
    leg' = [leg EXCEPT ![l] =
            [leg[l] EXCEPT !.pc = "node", !.pos = leg[l].pos + 1, !.saved = FALSE,
                      !.pool = Pooled(l, value),
                      !.ctx = ctx, !.notes = leg[l].notes \o notes]]

\* What a node returns, merged by the reducers: later products are added, and of
\* the notes those that the node added.
Merged(l, value, ctx, notes) ==
    leg' = [leg EXCEPT ![l] =
            [leg[l] EXCEPT !.pc = "node", !.pos = leg[l].pos + 1, !.saved = FALSE,
                      !.pool = Pooled(l, value),
                      !.ctx = ctx, !.notes = leg[l].notes \o notes, !.resume = None]]

\* Mutant of Returned: a node contributes all notes of its process.
ReturnedWhole(l, value, ctx) == Merged(l, value, ctx, ctx)

Returned(l, value, ctx) ==
    Merged(l, value, ctx, SubSeq(ctx, leg[l].before + 1, Len(ctx)))

Noted(l) == Append(leg[l].ctx, leg[l].pos)

\* The background save of the latest state.
Save(l) ==
    /\ leg[l].pc \in {"node", "working", "closing", "leaving"} /\ ~leg[l].saved
    /\ thread' = [next |-> leg[l].pos, waiting |-> FALSE, pool |-> leg[l].pool,
                  notes |-> leg[l].notes, by |-> l]
    /\ leg' = [leg EXCEPT ![l].saved = TRUE]
    /\ UNCHANGED <<log, given, invoked, approved, crashes>>

SkipGate(l) ==
    /\ AtNode(l, {"gate"}) /\ ~GateRequired(Here(l), leg[l].pool)
    /\ Merged(l, "not_required", leg[l].ctx, <<>>)
    /\ UNCHANGED <<thread, log, given, invoked, approved, crashes>>

PassGate(l) ==
    /\ AtNode(l, {"gate"}) /\ GateRequired(Here(l), leg[l].pool)
    /\ leg[l].resume # None
    /\ Merged(l, leg[l].resume, leg[l].ctx, <<>>)
    /\ UNCHANGED <<thread, log, given, invoked, approved, crashes>>

\* interrupt(): it becomes part of the checkpoint this leg has saved, which is the
\* run's latest unless another leg has saved since.
Interrupt(l) ==
    /\ AtNode(l, {"gate"}) /\ GateRequired(Here(l), leg[l].pool)
    /\ leg[l].resume = None /\ leg[l].saved
    /\ thread' = IF thread.by = l THEN [thread EXCEPT !.waiting = TRUE] ELSE thread
    /\ Goto(l, "waiting")
    /\ UNCHANGED <<log, given, invoked, approved, crashes>>

\* _finish records the pause, for the gate and for the run.
TellPause(l) ==
    /\ At(l, "waiting")
    /\ Tell(l, Here(l).name, "awaiting_human")
    /\ ToClose(l, "awaiting_human")
    /\ UNCHANGED <<thread, given, invoked, approved, crashes>>

Unbound(l) ==
    /\ AtNode(l, {"hook", "agent"}) /\ ~Bound(Here(l), leg[l].pool) /\ leg[l].saved
    /\ Goto(l, "unbound")
    /\ UNCHANGED <<thread, log, given, invoked, approved, crashes>>

Begin(l) ==
    /\ Tell(l, Here(l).name, "started")
    /\ Called(l)
    /\ leg' = [leg EXCEPT ![l].pc = "working", ![l].asks = 0,
                          ![l].before = Len(leg[l].ctx)]
    /\ UNCHANGED <<thread, given, approved, crashes>>

StartStep(l) == AtNode(l, {"hook", "agent"}) /\ Bound(Here(l), leg[l].pool) /\ Begin(l)
StartJudge(l) == AtNode(l, {"judge"}) /\ Begin(l)

\* A second call: of an agent whose output does not validate, or of a model
\* whose verdict cannot be read.
Again(l) ==
    /\ leg[l].asks = 0
    /\ Called(l)
    /\ leg' = [leg EXCEPT ![l].asks = 1, ![l].ctx = Noted(l)]
    /\ UNCHANGED <<thread, log, given, approved, crashes>>

RetryAgent(l) == Working(l, {"agent"}) /\ Again(l)
AskAgain(l) == Working(l, {"judge"}) /\ Visible(Here(l), leg[l].pool) /\ Again(l)

\* Mutant of Succeed: a step that skipped has no row.
SkipSilently(l, value, status) ==
    /\ Working(l, {"hook", "agent"}) /\ value \in Here(l).values
    /\ IF status = "ok" THEN Tell(l, Here(l).name, status) ELSE UNCHANGED log
    /\ Returned(l, value, Noted(l))
    /\ UNCHANGED <<thread, given, invoked, approved, crashes>>

Succeed(l, value, status) ==
    /\ Working(l, {"hook", "agent"}) /\ value \in Here(l).values
    /\ Tell(l, Here(l).name, status)
    /\ Returned(l, value, Noted(l))
    /\ UNCHANGED <<thread, given, invoked, approved, crashes>>

Collide(l) ==
    /\ Working(l, {"hook", "agent"}) /\ Here(l).collides /\ leg[l].saved
    /\ Goto(l, "collided")
    /\ UNCHANGED <<thread, log, given, invoked, approved, crashes>>

Fail(l, status) ==
    /\ Working(l, {"hook", "agent"})
    /\ Tell(l, Here(l).name, status)
    /\ ToClose(l, status)
    /\ UNCHANGED <<thread, given, invoked, approved, crashes>>

\* build_prompt does not find an input: an error of the step, not a refusal.
JudgeBlind(l) ==
    /\ Working(l, {"judge"}) /\ ~Visible(Here(l), leg[l].pool)
    /\ Tell(l, Here(l).name, "failed")
    /\ ToClose(l, "failed")
    /\ UNCHANGED <<thread, given, invoked, approved, crashes>>

\* The model answers, or no verdict can be had: an error, or two unreadable
\* answers.
Judged(l, verdict) ==
    /\ Working(l, {"judge"}) /\ Visible(Here(l), leg[l].pool)
    /\ approved' = IF verdict = "pass" THEN approved \cup {leg[l].pos} ELSE approved
    /\ UNCHANGED <<thread, given, invoked, crashes>>

JudgePass(l) ==
    /\ Judged(l, "pass")
    /\ Tell(l, Here(l).name, "ok")
    /\ Returned(l, "pass", Noted(l))

\* A verdict of "fail", and none, are told apart by their notes alone.
JudgeWarn(l, verdict) ==
    /\ Judged(l, verdict) /\ Here(l).warn
    /\ Tell(l, Here(l).name, "ok")
    /\ Returned(l, "fail", Noted(l))

\* Mutant of JudgeBlock: a judge that could not be asked lets the run pass.
ApproveWhenBroken(l, verdict) ==
    /\ Judged(l, verdict) /\ ~Here(l).warn
    /\ Tell(l, Here(l).name, IF verdict = "none" THEN "ok" ELSE "blocked")
    /\ IF verdict = "none" THEN Returned(l, "pass", Noted(l)) ELSE ToClose(l, "blocked")

JudgeBlock(l, verdict) ==
    /\ Judged(l, verdict) /\ ~Here(l).warn
    /\ Tell(l, Here(l).name, "blocked")
    /\ ToClose(l, "blocked")

-----------------------------------------------------------------------------
(* The end of a leg *)

\* The run's own row: behind the row of the step that ended it, inside the node, or
\* behind that of a gate, when all is saved.
Close(l) ==
    /\ At(l, "closing")
    /\ Tell(l, "run", leg[l].closing)
    /\ Goto(l, IF leg[l].saved THEN "ended" ELSE "leaving")
    /\ UNCHANGED <<thread, given, invoked, approved, crashes>>

\* LangGraph waits for its saves before it lets an exception out.
Leave(l) ==
    /\ At(l, "leaving") /\ leg[l].saved
    /\ Goto(l, "ended")
    /\ UNCHANGED <<thread, log, given, invoked, approved, crashes>>

Finish(l) ==
    /\ At(l, "node") /\ leg[l].pos = Len(Plan) + 1 /\ leg[l].saved
    /\ Tell(l, "run", "ok")
    /\ leg' = [leg EXCEPT ![l].pc = "ended", ![l].closing = "ok"]
    /\ UNCHANGED <<thread, given, invoked, approved, crashes>>

\* Where a process may be in the middle of a row.
Telling == {"preflight", "node", "working", "waiting", "closing"}

Crash(l) ==
    /\ crashes < MaxCrashes
    /\ ~(leg[l].pc \in Stopped)
    /\ crashes' = crashes + 1
    /\ Goto(l, "crashed")
    /\ \/ UNCHANGED log
       \/ MayTear /\ leg[l].pc \in Telling /\ log' = [log EXCEPT !.torn = TRUE]
    /\ UNCHANGED <<thread, given, invoked, approved>>

\* A process that is killed in its first row, of a start or of a decision, was never
\* a leg: it has done nothing, and leaves the row cut short.
CutFirst ==
    /\ Overlap \/ ~Live
    /\ crashes < MaxCrashes /\ MayTear
    /\ crashes' = crashes + 1
    /\ log' = [log EXCEPT !.torn = TRUE]
    /\ UNCHANGED <<leg, thread, given, invoked, approved>>

LegStep(l) ==
    \/ PreflightOk(l)
    \/ PreflightBlocked(l)
    \/ Enter(l)
    \/ Load(l)
    \/ Strand(l)
    \/ Save(l)
    \/ SkipGate(l)
    \/ PassGate(l)
    \/ Interrupt(l)
    \/ TellPause(l)
    \/ Unbound(l)
    \/ StartStep(l)
    \/ StartJudge(l)
    \/ RetryAgent(l)
    \/ AskAgain(l)
    \/ \E value \in Products, status \in Done : Succeed(l, value, status)
    \/ Collide(l)
    \/ \E status \in {"blocked", "failed"} : Fail(l, status)
    \/ JudgeBlind(l)
    \/ JudgePass(l)
    \/ \E verdict \in {"fail", "none"} : JudgeWarn(l, verdict) \/ JudgeBlock(l, verdict)
    \/ Close(l)
    \/ Leave(l)
    \/ Finish(l)

Next ==
    \/ \E l \in Legs :
        \/ \E supplied \in SUBSET Params : Start(l, supplied)
        \/ \E v \in Verdicts : Decide(l, v)
        \/ LegStep(l)
        \/ Crash(l)
    \/ CutFirst

Spec == Init /\ [][Next]_graphVars

\* A process that is not killed goes on.
FairSpec == Spec /\ \A l \in Legs : WF_graphVars(LegStep(l))

-----------------------------------------------------------------------------
(* Properties *)

\* A step is begun only behind gates that a decision on this run has opened, or
\* that were not material: whatever is killed, repeated or decided at once, no
\* path leads around a person (graph.py:95-113).
Taken == {given[l] : l \in Legs} \ {None}

Opened(gate, pool) ==
    \/ pool[gate.produces] \in Taken
    \/ pool[gate.produces] = "not_required" /\ gate.when # None /\ pool[gate.when] = "falsy"

GatesHold ==
    \A l \in Legs : At(l, "working") =>
        \A g \in 1 .. (leg[l].pos - 1) :
            Plan[g].kind = "gate" => Opened(Plan[g], leg[l].pool)

\* One decision opens one gate: a run is never further than the decisions taken
\* on it allow, in no process and in no checkpoint.
OpenedByHand(pool) ==
    {g \in Nodes : Plan[g].kind = "gate" /\ pool[Plan[g].produces] \in Verdicts}
Decisions == {l \in Legs : given[l] # None}

OneDecisionOpensOneGate ==
    \A pool \in {thread.pool} \cup {leg[l].pool : l \in Legs} :
        Cardinality(OpenedByHand(pool)) <= Cardinality(Decisions)

\* Failure is not a pass: behind a blocking judge nothing is begun until its
\* model has answered "pass", although runs that it blocked, or that were killed
\* while it was asked, may be decided and continued (judge.py:22-25 and 328-330).
JudgesGuard ==
    \A l \in Legs : At(l, "working") =>
        \A j \in 1 .. (leg[l].pos - 1) :
            Plan[j].kind = "judge" /\ ~Plan[j].warn
                => j \in approved /\ leg[l].pool[Plan[j].produces] = "pass"

\* Every step that is started ends in exactly one terminal row, written by the
\* same process right after, and no terminal row stands alone; a process that was
\* killed, or ended in an unrecorded exception, may owe the last one
\* (events.py:24-31).  A row that is cut short makes the next unreadable, and as
\* long as one process works on the run at a time that is always the row with which
\* a decision resumed it, never one of a step (events.py:163).
Resumed(l) == \E i \in DOMAIN log.rows : log.rows[i] = Row(l, "run", "resumed")
Unheard == {l \in Legs : given[l] # None /\ ~Resumed(l)}

OfOne(i, j) == log.rows[i].process = log.rows[j].process
Follows(i, j) ==
    i < j /\ OfOne(i, j) /\ \A k \in (i + 1) .. (j - 1) : ~OfOne(i, k)
Last(i) == \A j \in DOMAIN log.rows : OfOne(i, j) => j <= i

AboutStep(row) == row.step \notin {"run", "preflight"}
Begins(i) == AboutStep(log.rows[i]) /\ log.rows[i].status = "started"
Ends(i) == AboutStep(log.rows[i]) /\ log.rows[i].status \in TERMINAL

StartedThenOne ==
    /\ \A i, j \in DOMAIN log.rows : (Begins(i) \/ Ends(j)) /\ Follows(i, j) =>
            Begins(i) /\ Ends(j) /\ log.rows[i].step = log.rows[j].step
    /\ \A j \in DOMAIN log.rows : Ends(j) => \E i \in DOMAIN log.rows : Follows(i, j)
    /\ \A i \in DOMAIN log.rows : Begins(i) /\ Last(i) =>
            leg[log.rows[i].process].pc \in {"working", "crashed", "collided"}
    /\ \A l \in Unheard : log.lost > 0
    /\ log.lost <= Cardinality(Unheard)

\* A note is kept once per call, in the order of the steps, across pauses, killed
\* processes and resumptions with a fresh ctx (graph.py:229-231 and 462-465).
Noting(n) == Plan[n].kind # "gate"

NotesOf(n, notes) == {i \in DOMAIN notes : notes[i] = n}

NotesInStepOrder(notes, next) ==
    /\ \A i \in 1 .. (Len(notes) - 1) : notes[i] <= notes[i + 1]
    /\ \A n \in Nodes :
            IF n < next /\ Noting(n)
            THEN Cardinality(NotesOf(n, notes)) \in
                    1 .. (IF Plan[n].kind = "hook" THEN 1 ELSE 2)
            ELSE NotesOf(n, notes) = {}

NotesKeptOnce ==
    /\ thread.next # 0 => NotesInStepOrder(thread.notes, thread.next)
    /\ \A l \in Legs : leg[l].pc \in {"node", "working"} =>
            NotesInStepOrder(leg[l].notes, leg[l].pos)

\* `show` joins the latest row of a gate, which lists the keys of its payload, with
\* the latest checkpoint, which has their values now.
Payload(gate, pool) == [k \in {k \in gate.needs : pool[k] # "absent"} |-> pool[k]]

GateRows == {i \in DOMAIN log.rows : /\ log.rows[i].status = "awaiting_human"
                                     /\ log.rows[i].step # "run"}
LatestGateRow == log.rows[CHOOSE i \in GateRows : \A j \in GateRows : j <= i]
NodeNamed(name) == CHOOSE n \in Nodes : Plan[n].name = name

Asked(row) == Payload(Plan[NodeNamed(row.step)], leg[row.process].pool)
Shown(row) ==
    [k \in {k \in DOMAIN Asked(row) : thread.pool[k] # "absent"} |-> thread.pool[k]]

\* The list knows nothing of a process that has no row about the run.
Listed(l) == \E i \in DOMAIN log.rows : /\ log.rows[i].process = l
                                       /\ log.rows[i].step = "run"

\* As long as one process works on the run at a time, the log does not lie: a run
\* listed as waiting waits in its checkpoint, at the gate of its latest row, and
\* shows "exactly" what that gate asked (cli.py:451); and a run listed as ok is at
\* its end with every step begun (cli.py:403-423 and 440-443).  The first excepts
\* checkpoints of a process whose row "resumed" was glued to that of a decision
\* killed in its first row, until the process has told of the run itself: such a
\* run is listed as waiting while it is past the gate.
ListedStatusIsTrue ==
    /\ RunStatus(log.rows) = "awaiting_human" /\ Listed(thread.by) =>
            /\ thread.waiting /\ GateRows # {}
            /\ LatestGateRow.step = Plan[thread.next].name
            /\ Shown(LatestGateRow) = Asked(LatestGateRow)
    /\ RunStatus(log.rows) = "ok" =>
            /\ thread.next = Len(Plan) + 1
            /\ \A n \in Nodes : Noting(n) => invoked[n] > 0

\* What the checkpoint is past is never executed again, neither by a resumption
\* nor by a decision given to a run that has ended or failed.
StaysDone == \A n \in Nodes : n < thread.next => invoked'[n] = invoked[n]

CheckpointedNotRepeated == [][StaysDone]_graphVars

\* A decision taken at a gate gets the run past it, unless the process that
\* carries it is killed.
DecisionsOpenTheirGate ==
    \A l \in Legs \ {Starter} :
        At(l, "loading") /\ thread.waiting
            ~> \/ \E g \in OpenedByHand(thread.pool) :
                        thread.pool[Plan[g].produces] = given[l]
               \/ At(l, "crashed")

\* Without gates and judges, and with one process that is not killed, the graph
\* runner produces what the sequential runner produces: the same rows, calls,
\* pool and notes (graph.py:1-30).
TheLeg == CHOOSE l \in Legs : TRUE

ThePc ==
    CASE At(TheLeg, "free") -> "idle"
      [] At(TheLeg, "entering") -> "node"
      [] At(TheLeg, "leaving") -> "ended"
      [] OTHER -> leg[TheLeg].pc
TheClosing == IF leg[TheLeg].closing = "ok" THEN None ELSE leg[TheLeg].closing
TheResult ==
    IF leg[TheLeg].closing = "ok"
    THEN [pool |-> thread.pool, notes |-> thread.notes] ELSE None

Sequential == INSTANCE TemplateRunner WITH
    Process <- TheLeg,
    pc <- ThePc,
    pos <- leg[TheLeg].pos,
    pool <- leg[TheLeg].pool,
    notes <- leg[TheLeg].ctx,
    asks <- leg[TheLeg].asks,
    closing <- TheClosing,
    result <- TheResult

SameAsSequential == Sequential!Spec
=============================================================================
