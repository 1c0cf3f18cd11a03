----------------------------- MODULE MCServiceCall -----------------------------
(* ServiceCall for a template that reads a public record, if there is one, and *)
(* submits a document that names it.                                           *)
EXTENDS ServiceCall

MCCalls == <<
    [method |-> "GET", backend |-> "records", optional_404 |-> TRUE, public |-> TRUE,
     kwargs |-> {}, refs |-> {}],
    [method |-> "POST", backend |-> "records", optional_404 |-> FALSE, public |-> FALSE,
     kwargs |-> {1}, refs |-> {[root |-> 1, dotted |-> TRUE]}] >>
=============================================================================
