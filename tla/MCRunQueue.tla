----------------------------- MODULE MCRunQueue -----------------------------
(* RunQueue with two workers, one of which can load a single workflow. *)
EXTENDS RunQueue, TLC

CONSTANTS w1, w2, priya

MCWorkers == {w1, w2}
MCSubjects == {priya}
MCComments == {None}
MCGates == {"proposal"}
MCCanRun == w1 :> {} @@ w2 :> {"beta"}
=============================================================================
