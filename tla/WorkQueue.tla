------------------------------ MODULE WorkQueue ------------------------------
(***************************************************************************)
(* What a queue of runs promises its users, without leases or clocks.  A   *)
(* job waits, or belongs to one worker, or is done for good; a worker that *)
(* is lost gives its job back.  Base.py:85-104 and 117-124 promise it.     *)
(***************************************************************************)
CONSTANTS Jobs, Workers, None

VARIABLES waiting, owner, done

vars == <<waiting, owner, done>>

Owned == {j \in Jobs : owner[j] # None}

Init ==
    /\ waiting = {}
    /\ owner = [j \in Jobs |-> None]
    /\ done = {}

Add(j) ==
    /\ j \notin waiting \cup Owned \cup done
    /\ waiting' = waiting \cup {j}
    /\ UNCHANGED <<owner, done>>

\* The workers of the jobs S are lost.
Return(S) ==
    /\ S \subseteq Owned
    /\ waiting' = waiting \cup S
    /\ owner' = [j \in Jobs |-> IF j \in S THEN None ELSE owner[j]]
    /\ UNCHANGED done

Take(w, j) ==
    /\ j \in waiting
    /\ waiting' = waiting \ {j}
    /\ owner' = [owner EXCEPT ![j] = w]
    /\ UNCHANGED done

\* A worker taken for lost may still complete its job.
Complete(j) ==
    /\ j \in waiting \cup Owned
    /\ waiting' = waiting \ {j}
    /\ owner' = [owner EXCEPT ![j] = None]
    /\ done' = done \cup {j}

Next ==
    \/ \E j \in Jobs : Add(j)
    \/ \E S \in SUBSET Jobs : Return(S)
    \/ \E w \in Workers, j \in Jobs : Take(w, j)
    \/ \E j \in Jobs : Complete(j)

Spec == Init /\ [][Next]_vars
=============================================================================
