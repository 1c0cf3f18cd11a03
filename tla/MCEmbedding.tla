----------------------------- MODULE MCEmbedding -----------------------------
(* Embedding for a project that screens clients, in many shapes, beside another *)
(* project that keeps to itself, or has the same file or function names.        *)
EXTENDS Embedding, TLC

CONSTANTS t1, t2

MCTasks == {t1, t2}
MCSymmetry == Permutations(MCTasks)
MCBatches == {<<{"client"}, {"client"}>>, <<{}>>}
MCImpls == {"kyc.screen", "kyc.store", "crm.store"}
MCNeedsOf == [n \in MCImpls |-> IF n = "kyc.screen" THEN {"client"} ELSE {"risk"}]

Plain(name, executor, produces, kwargs, needs) ==
    [name |-> name, executor |-> executor, produces |-> produces, kwargs |-> kwargs,
     sets |-> {}, uses |-> None, resource |-> None, needs |-> needs]

Uses(step, impl) == [step EXCEPT !.uses = impl]
Sets(step, sets, resource) == [step EXCEPT !.sets = sets, !.resource = resource]

Screen == Plain("screen", "agent", "risk", {"client"}, {})
Review == Sets(Plain("review", "gate", "decision", {}, {"risk"}), {"when"}, None)
Contract == Sets(Plain("check", "validate", "valid", {}, {"risk"}), {"schema", "input"}, "contract")
Publish == Sets(Plain("publish", "service", "record", {"risk"}, {"risk"}),
                {"call", "backend"}, "ledger")
Store == Plain("store", "local", "record", {"risk"}, {"risk"})

StepSeqs == { <<Uses(Screen, "kyc.screen"), Review, Contract>>,
              <<Screen, Publish>>,
              <<Uses(Screen, "kyc.screen"), Uses(Store, "crm.store")>>,
              <<Sets(Store, {"default"}, None)>> }

NoHook == [name \in {} |-> 0]
Asks(needs, takes, var) == [needs |-> needs, takes |-> takes, var |-> var]
HookSets == { NoHook, [screen |-> Asks({"client"}, {}, FALSE)],
              [screen |-> Asks({"country"}, {}, TRUE)],
              [scren |-> Asks({}, {"client"}, FALSE)] }

Made(stem, registers, steps, document, hooks, resources, raises) ==
    [stem |-> stem, registers |-> registers, name |-> "kyc", steps |-> steps,
     document |-> document, flow |-> TRUE, hooks |-> hooks,
     resources |-> resources, faulty |-> raises]

Own == <<"kyc.screen", "kyc.store">>

MCKyc == {Made("kyc", Own, steps, document, hooks, resources, FALSE) :
            steps \in StepSeqs, document \in BOOLEAN, hooks \in HookSets,
            resources \in {{}, {"ledger", "contract"}}}

Simple == <<Uses(Screen, "kyc.screen")>>
MCOthers == { Made("crm", <<"crm.store">>, <<Uses(Store, "crm.store")>>, TRUE, NoHook, {}, FALSE),
              Made("kyc", <<"crm.store">>, <<Uses(Store, "crm.store")>>, TRUE, NoHook, {}, FALSE),
              Made("crm", <<"crm.store", "kyc.screen">>, Simple, TRUE, NoHook, {}, FALSE),
              Made("crm", <<"crm.store">>, Simple, TRUE, NoHook, {}, TRUE) }
MCHoldings == {("here" :> p) @@ ("there" :> q) : p \in MCKyc, q \in MCOthers}
=============================================================================
