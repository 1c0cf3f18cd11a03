------------------------------ MODULE MCRunApi ------------------------------
(* RunApi on small graphs: approval is the package's reference workflow    *)
(* (propose, gate, decide), review one with two gates, echo is cached.     *)
EXTENDS RunApi, TLC

CONSTANTS s1, s2, s3, priya

MCNoWorkers == {}
MCGates == {"proposal"}
MCComments == {None}
MCPriya == {priya}
MCThreeStreams == {s1, s2, s3}
MCSymmetry == Permutations(Streams)
MCGraph ==
    [wf \in Workflows |->
        CASE wf = "approval" -> <<"work", "gate", "work">>
          [] wf = "review"   -> <<"work", "gate", "gate", "work">>
          [] wf = "echo"     -> <<"work">>]
MCCheckpointed == Workflows \ {"echo"}
MCIdempotent == Workflows \cap {"echo"}
=============================================================================
