---------------------------- MODULE TemplateSteps ----------------------------
(***************************************************************************)
(* What the two runners of the SDK share: the nodes of a compiled template *)
(* (sdk/graph.py build_graph, sdk/templates.py), the pool that threads the *)
(* products through them, and the event log of a run (store/events.py).    *)
(*                                                                         *)
(* A product matters to the runners in three ways: whether its key is in   *)
(* the pool, whether the path a gate's `when` or a judge's input walks is  *)
(* in the product, and whether the value there is truthy.                  *)
(***************************************************************************)
EXTENDS Naturals, Sequences

CONSTANTS
    Plan,           \* the nodes of the graph, in order
    Params,         \* the parameters of the template
    Requires,       \* what it needs of the environment, see Needs
    Verdicts,       \* what a person may answer at a gate
    None            \* Python's None, and the empty string of a Step field

\* "hook" stands for every step that is called once: local hooks, shell,
\* service and validate; "agent" for an agent step with an output_schema.
Kinds == {"hook", "agent", "gate", "judge"}

\* Variables that the template names, and credentials of the backends it calls.
Needs == {"variable", "credential"}

\* "bare": the product is there, the path into it is not.
Products == {"truthy", "falsy", "bare"}
Values == Products \cup Verdicts \cup {"absent", "not_required", "pass", "fail"}

\* needs: parameters without a default, or the inputs of a judge.  collides:
\* summary_keys names a key that is also a parameter of the recorder, and the
\* product may have that key.
Node == [name : STRING, kind : Kinds, produces : STRING, needs : SUBSET STRING,
         when : STRING \cup {None}, values : SUBSET Products, warn : BOOLEAN,
         collides : BOOLEAN]

ASSUME PlanHasNodes == Plan \in Seq(Node)

ASSUME NodesHaveOwnNames ==
    /\ \A i \in DOMAIN Plan : Plan[i].name \notin {"run", "preflight"}
    /\ \A i, j \in DOMAIN Plan : Plan[i].name = Plan[j].name => i = j

ASSUME RequiresNeeds == Requires \subseteq Needs

Nodes == 1 .. Len(Plan)

Keys == (Params \cup UNION {{Plan[i].produces, Plan[i].when} \cup Plan[i].needs
                                : i \in Nodes}) \ {None}

\* backend_requirements names missing credentials only, so that a check which
\* passes is recorded for variables alone.
Declared == "variable" \in Requires

\* dict(ctx.params): what the caller supplied, which nobody compares with Params.
PoolOf(supplied) == [k \in Keys |-> IF k \in supplied THEN "truthy" ELSE "absent"]

\* Mutant of GateRequired: a path that leads nowhere skips the gate.
FailsOpen(node, pool) == IF node.when = None THEN TRUE ELSE pool[node.when] = "truthy"

\* gate_is_required: fails closed when the path leads nowhere.
GateRequired(node, pool) == IF node.when = None THEN TRUE ELSE pool[node.when] # "falsy"

\* bind_kwargs finds every parameter that has no default.
Bound(node, pool) == \A k \in node.needs : pool[k] # "absent"

\* render_inputs finds every path.
Visible(node, pool) == \A k \in node.needs : pool[k] \notin {"absent", "bare"}

-----------------------------------------------------------------------------
(* build_graph: judges around the steps they are attached to *)

Attached(judges, where, name) ==
    SelectSeq(judges, LAMBDA j : name \in j[where])

JudgeNode(j) ==
    [name |-> "judge-" \o j.id, kind |-> "judge", produces |-> "verdict_" \o j.id,
     needs |-> j.inputs, when |-> None, values |-> {}, warn |-> j.warn,
     collides |-> FALSE]

JudgeNodes(judges, where, name) ==
    LET found == Attached(judges, where, name)
    IN  [i \in DOMAIN found |-> JudgeNode(found[i])]

BuildGraph(steps, judges) ==
    LET upTo[n \in 0 .. Len(steps)] ==
            IF n = 0 THEN <<>>
            ELSE upTo[n - 1] \o JudgeNodes(judges, "before", steps[n].name)
                             \o <<steps[n]>>
                             \o JudgeNodes(judges, "after", steps[n].name)
    IN  upTo[Len(steps)]

-----------------------------------------------------------------------------
(* The event log *)

\* `skipped` is an `ok` that did no work.
Done == {"ok", "skipped"}
TERMINAL == Done \cup {"failed", "blocked"}
EventStatus == TERMINAL \cup {"started", "awaiting_human", "resumed"}

\* approve, reject and revise are not what products and judges put in the pool.
\* (A status is a string, so that the last part follows from the first.)
ASSUME VerdictsAreTheirOwn ==
    /\ None \notin STRING \cup Verdicts
    /\ Verdicts \cap (Products \cup {"absent", "not_required", "pass", "fail"}) = {}
    /\ None \notin EventStatus

Row(process, step, status) == [process |-> process, step |-> step, status |-> status]

StepNames == {"run", "preflight"} \cup {Plan[i].name : i \in Nodes}

EventLogs(processes) ==
    [rows : Seq([process : processes, step : StepNames, status : EventStatus]),
     torn : BOOLEAN, lost : Nat]

\* A file of lines.  torn: the last line was cut short and has no newline, so
\* the next row is glued to it and cannot be read; lost counts such rows.
NoLog == [rows |-> <<>>, torn |-> FALSE, lost |-> 0]

Told(log, row) ==
    IF log.torn
    THEN [log EXCEPT !.torn = FALSE, !.lost = @ + 1]
    ELSE [log EXCEPT !.rows = Append(@, row)]

\* _run_status: the last row about the run that is not `started`.
RunRows(rows) == {i \in DOMAIN rows : rows[i].step = "run" /\ rows[i].status # "started"}

\* Mutant of RunStatus: the first such row.
FirstStatus(rows) ==
    IF RunRows(rows) = {} THEN "running"
    ELSE rows[CHOOSE i \in RunRows(rows) : \A j \in RunRows(rows) : i <= j].status

RunStatus(rows) ==
    IF RunRows(rows) = {} THEN "running"
    ELSE rows[CHOOSE i \in RunRows(rows) : \A j \in RunRows(rows) : j <= i].status
=============================================================================
