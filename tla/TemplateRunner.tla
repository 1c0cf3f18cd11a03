---------------------------- MODULE TemplateRunner ----------------------------
(***************************************************************************)
(* run_template (sdk/runner.py): the steps of a template in order, in one  *)
(* process that nothing interleaves with.  An action ends where a row is   *)
(* written or a hook returns.  This is also what the graph runner promises *)
(* to equal when a template has no gate and no judge (see TemplateGraph).  *)
(***************************************************************************)
EXTENDS TemplateSteps

CONSTANT Process        \* the process that runs the template

VARIABLES
    pc,         \* where run_template is; "unbound" and "collided" are ends in an
                \* exception that nothing records
    pos,        \* the step it is at
    pool,       \* pool
    notes,      \* ctx.notes: the steps whose hooks added one
    asks,       \* failed attempts of an agent step
    closing,    \* the status to close the run with
    log,        \* the event log
    invoked,    \* step -> times its hook was called
    result      \* the RunResult, None while there is none

runnerVars == <<pc, pos, pool, notes, asks, closing, log, invoked, result>>

Init ==
    /\ pc = "idle"
    /\ pos = 1
    /\ pool = PoolOf({})
    /\ notes = <<>>
    /\ asks = 0
    /\ closing = None
    /\ log = NoLog
    /\ invoked = [n \in Nodes |-> 0]
    /\ result = None

Tell(step, status) == log' = Told(log, Row(Process, step, status))

Called == invoked' = [invoked EXCEPT ![pos] = @ + 1]

-----------------------------------------------------------------------------
Start(supplied) ==
    /\ pc = "idle"
    /\ Tell("run", "started")
    /\ pool' = PoolOf(supplied)
    /\ pc' = "preflight"
    /\ UNCHANGED <<pos, notes, asks, closing, invoked, result>>

\* The environment has what the template and its backends require, or not.
PreflightOk ==
    /\ pc = "preflight"
    /\ IF Declared THEN Tell("preflight", "ok") ELSE UNCHANGED log
    /\ pc' = "node"
    /\ UNCHANGED <<pos, pool, notes, asks, closing, invoked, result>>

PreflightBlocked ==
    /\ pc = "preflight" /\ Requires # {}
    /\ Tell("preflight", "blocked")
    /\ pc' = "closing" /\ closing' = "blocked"
    /\ UNCHANGED <<pos, pool, notes, asks, invoked, result>>

\* BindingError: raised outside the try of the step.
Unbound ==
    /\ pc = "node" /\ pos \in Nodes /\ ~Bound(Plan[pos], pool)
    /\ pc' = "unbound"
    /\ UNCHANGED <<pos, pool, notes, asks, closing, log, invoked, result>>

StartStep ==
    /\ pc = "node" /\ pos \in Nodes /\ Bound(Plan[pos], pool)
    /\ Tell(Plan[pos].name, "started")
    /\ Called
    /\ pc' = "working"
    /\ asks' = 0
    /\ UNCHANGED <<pos, pool, notes, closing, result>>

\* call_step_hook asks an agent once more when its output does not validate.
RetryAgent ==
    /\ pc = "working" /\ Plan[pos].kind = "agent" /\ asks = 0
    /\ Called
    /\ notes' = Append(notes, pos)
    /\ asks' = 1
    /\ UNCHANGED <<pc, pos, pool, closing, log, result>>

Succeed(value, status) ==
    /\ pc = "working" /\ value \in Plan[pos].values
    /\ Tell(Plan[pos].name, status)
    /\ pool' = [pool EXCEPT ![Plan[pos].produces] = value]
    /\ notes' = Append(notes, pos)
    /\ pos' = pos + 1
    /\ pc' = "node"
    /\ UNCHANGED <<asks, closing, invoked, result>>

\* The product has a key that the recorder takes as a parameter: a TypeError.
Collide ==
    /\ pc = "working" /\ Plan[pos].collides
    /\ pc' = "collided"
    /\ UNCHANGED <<pos, pool, notes, asks, closing, log, invoked, result>>

\* Blocked, or any other exception, of the hook.
Fail(status) ==
    /\ pc = "working"
    /\ Tell(Plan[pos].name, status)
    /\ pc' = "closing" /\ closing' = status
    /\ UNCHANGED <<pos, pool, notes, asks, invoked, result>>

Close ==
    /\ pc = "closing"
    /\ Tell("run", closing)
    /\ pc' = "ended"
    /\ UNCHANGED <<pos, pool, notes, asks, closing, invoked, result>>

Finish ==
    /\ pc = "node" /\ pos = Len(Plan) + 1
    /\ Tell("run", "ok")
    /\ result' = [pool |-> pool, notes |-> notes]
    /\ pc' = "ended"
    /\ UNCHANGED <<pos, pool, notes, asks, closing, invoked>>

Next ==
    \/ \E supplied \in SUBSET Params : Start(supplied)
    \/ PreflightOk
    \/ PreflightBlocked
    \/ Unbound
    \/ StartStep
    \/ RetryAgent
    \/ \E value \in Products, status \in Done : Succeed(value, status)
    \/ Collide
    \/ \E status \in {"blocked", "failed"} : Fail(status)
    \/ Close
    \/ Finish

Spec == Init /\ [][Next]_runnerVars
=============================================================================
