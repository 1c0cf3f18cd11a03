--------------------------- MODULE MCTemplateGraph ---------------------------
(* TemplateGraph on a template that decides a client, in several sizes. *)
EXTENDS TemplateGraph, TLC

CONSTANTS p1, p2, p3

MCOneLeg == {p1}
MCTwoLegs == {p1, p2}
MCThreeLegs == {p1, p2, p3}
MCOneVerdict == {"approve"}
MCSymmetry == Permutations(MCThreeLegs \ {p1})

Step(name, kind, produces, needs, when, values, collides) ==
    [name |-> name, kind |-> kind, produces |-> produces, needs |-> needs,
     when |-> when, values |-> values, warn |-> FALSE, collides |-> collides]

Screen(kind, values) == Step("screen", kind, "pep", {"client"}, None, values, FALSE)
Review == Step("review", "gate", "decision", {"client", "pep"}, "pep", {}, FALSE)
Approve == Step("approve", "gate", "decision", {}, None, {}, FALSE)
Sign == Step("sign", "gate", "signature", {}, None, {}, FALSE)
Publish == Step("publish", "hook", "record", {"client"}, None, {"truthy"}, FALSE)
Tally == Step("tally", "hook", "status", {"pep"}, None, {"truthy"}, TRUE)

Judge(id, before, after, inputs, warn) ==
    [id |-> id, before |-> before, after |-> after, inputs |-> inputs, warn |-> warn]

Sanctions == Judge("sanctions", {"publish", "store"}, {}, {"pep"}, FALSE)
Tone == Judge("tone", {}, {"publish"}, {"record"}, TRUE)

\* A screening, a gate it may ask for, a judge before the record is published, and
\* one after it that only warns.
MCGated == BuildGraph(<<Screen("hook", Products), Review, Publish>>, <<Sanctions, Tone>>)

MCTwoGates == <<Approve, Publish, Sign>>

\* No gate and no judge; the tally collides with the recorder's parameters.
MCPlain == <<Screen("agent", {"truthy", "falsy"}), Tally, Publish>>
=============================================================================
