---------------------------- MODULE RunLifecycle ----------------------------
(***************************************************************************)
(* What the engine promises about a run, without requests, checkpoints or  *)
(* a store: its nodes are executed in order and once each, a gate holds it *)
(* until a decision is taken, and an end is final.  SPEC-AIP-003 states it *)
(* through features/hitl-runs.feature and hitl-resume.feature.             *)
(***************************************************************************)
EXTENDS Integers, Sequences, FiniteSets

CONSTANTS Runs, Workflows, Graph, Cached, None

VARIABLES
    state,          \* run -> its state
    workflow,       \* run -> its workflow
    executed,       \* run -> the work nodes executed, in order
    decided         \* run -> decisions taken

vars == <<state, workflow, executed, decided>>

Init ==
    /\ state = [r \in Runs |-> "absent"]
    /\ workflow = [r \in Runs |-> None]
    /\ executed = [r \in Runs |-> <<>>]
    /\ decided = [r \in Runs |-> 0]

Nodes(r) == Graph[workflow[r]]
GatesUpTo(r, n) == Cardinality({m \in 1 .. n : Nodes(r)[m] = "gate"})
LastExecuted(r) == IF executed[r] = <<>> THEN 0 ELSE executed[r][Len(executed[r])]

\* The nodes between the last one executed and n are gates.
Reached(r, n) ==
    /\ LastExecuted(r) < n
    /\ \A m \in (LastExecuted(r) + 1) .. (n - 1) : Nodes(r)[m] = "gate"

\* A run is worked on from its start to its first gate, then on a decision.
Active(r) == \/ state[r] = "running"
             \/ state[r] = "awaiting_decision" /\ decided[r] > 0

Become(r, s) ==
    /\ state' = [state EXCEPT ![r] = s]
    /\ UNCHANGED <<workflow, executed, decided>>

Start(r, wf) ==
    /\ state[r] = "absent"
    /\ state' = [state EXCEPT ![r] = "running"]
    /\ workflow' = [workflow EXCEPT ![r] = wf]
    /\ UNCHANGED <<executed, decided>>

Execute(r, n) ==
    /\ Active(r)
    /\ Reached(r, n) /\ Nodes(r)[n] = "work"
    /\ GatesUpTo(r, n) <= decided[r]
    /\ executed' = [executed EXCEPT ![r] = Append(@, n)]
    /\ UNCHANGED <<state, workflow, decided>>

Pause(r, n) ==
    /\ Active(r)
    /\ Reached(r, n) /\ Nodes(r)[n] = "gate"
    /\ GatesUpTo(r, n) = decided[r] + 1
    /\ Become(r, "awaiting_decision")

Decide(r) ==
    /\ state[r] = "awaiting_decision"
    /\ decided' = [decided EXCEPT ![r] = @ + 1]
    /\ UNCHANGED <<state, workflow, executed>>

Complete(r) ==
    /\ Active(r)
    /\ \/ /\ Reached(r, Len(Nodes(r)) + 1)
          /\ GatesUpTo(r, Len(Nodes(r))) = decided[r]
       \/ workflow[r] \in Cached /\ executed[r] = <<>>
    /\ Become(r, "completed")

Fail(r) == Active(r) /\ Become(r, "failed")

Next ==
    \E r \in Runs :
        \/ \E wf \in Workflows : Start(r, wf)
        \/ workflow[r] # None
           /\ \E n \in DOMAIN Nodes(r) : Execute(r, n) \/ Pause(r, n)
        \/ Decide(r)
        \/ Complete(r)
        \/ Fail(r)

Spec == Init /\ [][Next]_vars
=============================================================================
