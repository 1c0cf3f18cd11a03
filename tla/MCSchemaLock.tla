---------------------------- MODULE MCSchemaLock ----------------------------
(* SchemaLock for a service that changed one operation, moved another and  *)
(* may take the change back.                                               *)
EXTENDS SchemaLock, TLC

CONSTANTS p1, p2, submission, review, create, amend, v1, v2, s1, s2

MCProcs == {p1, p2}
MCNames == {submission, review}
MCSymmetry == Permutations(MCProcs)

\* v2 changes what create takes, and drops amend, which took the same as create.
MCSchemaOf ==
    [x \in {v1, v2} \X {create, amend} |->
        CASE x = <<v2, amend>> -> None
          [] x = <<v2, create>> -> s2
          [] OTHER -> s1]
=============================================================================
