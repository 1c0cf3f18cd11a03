# Navigator Orchestrator: a TLA+ model

Navigator Orchestrator runs workflows (graphs of LLM calls, service calls and
human gates), over HTTP, from a command line, from code and, by design, from a
pool of workers. This directory models the parts that keep state between two
steps of that work, checks them with TLC and proves their central properties with
TLAPS.

Paths below are relative to `src/src/navigator_orchestrator/` unless they start
with `docs/`, `features/` or `tests/`.

## The system

| Component | Its state | Its operations | Hard part |
| --- | --- | --- | --- |
| run store (`store/memory.py`, `models.py`, `base.py`) | runs with a state and a lease; decisions per run | create, mark_state, claim, renew, reclaim, append_decision, expire | any caller may call anything at any time |
| run queue (`docs/DESIGN-WRK-001-the-worker.md`, `tests/test_run_queue.py`) | what each worker believes it holds | submit, claim, execute, renew, finish | workers die, stall past their lease, come back |
| engine runner (`engine/runner.py`) | one async generator per request | open, cache lookup, graph, gate, output, failure, `finally` | requests interleave at every await; clients go away |
| runs API (`api/routes.py`) | none of its own | POST runs, POST decisions | a decision is recorded, then the graph re-entered |
| run log, output cache, cost meter (`store/run_log.py`, `engine/cache.py`, `engine/observability.py`) | rows, entries with a time to live, entries | append, get/set, record | written separately from the store |
| checkpointer (LangGraph) | per run, the next node and whether it waits | external | shared by overlapping requests for one run |
| template graph runner, gates, judges (`sdk/graph.py`, `judge.py`) | pool and notes in the graph's state, notes in the process | run, resume | one run continues in several processes, any of which may be killed |
| event log (`store/events.py`) | a file of rows per run | append, read | two processes append; a row may be cut short |
| sequential runner (`sdk/runner.py`, `execution.py`) | pool, notes | run_template | must not drift from the graph runner |
| embedding and batches (`sdk/run.py`), templates, documents, registry, checks (`sdk/project.py`, `registry.py`, `document.py`, `loader.py`, `check.py`, `binding.py`) | imported modules and registered functions, per process and for ever | run_batch, arun_workflow, load, check, resolve | every run loads its project again, beside runs of other projects |
| service calls (`sdk/service.py`) | attempts of a call, the pool it names products of, tokens in the environment | preflight, interpolate, call, retry | answers get lost, requests arrive late, products lack what is named |
| schema sync (`sdk/schema_sources.py`) | snapshot files, the lock file, a temporary lock file | sync, load | processes share the files and are killed between two system calls |
| command line (`sdk/cli.py`) | none | run, runs, show, decide, schema sync | each command is a process of its own |
| KYC template (`workflows/kyc/templates/kyc_onboarding.py`) | the pool of a run; files of its data directory | eight steps and two conditional gates, with rules on countries, lists and means | files change and agents answer anew between two steps; a run is decided in any state, while a process works on it too |
| prompts, policy, model adapters, settings, authentication | none | pure, or wiring | not modelled |

Interactions. The API and the engine runner call the store and the log under
their locks; the runner drives LangGraph, which calls the checkpointer under the
run's id; a decision reaches the graph as the value of `Command(resume=...)`;
workers and the API share nothing but the store. On the SDK side a command is a
process that loads the project, checks the workflow, and runs the template's
graph, whose nodes call hooks, models, commands and services; processes meet in
three places only: the checkpoint file, the event log and the files of the
project.

What makes each part correct:

- store: a lease is whole and covers running work only; a live lease is not
  taken away; the oldest run is served first; audit chains only grow.
- queue: no run is executed by two workers at once, nor again without cause;
  whatever is queued is executed although workers die.
- engine: no node behind a gate runs without a decision on record; nodes are not
  repeated beyond what decisions ask for; log and store agree; a paused run can
  be moved on; every decision takes effect; a cached answer is the answer.
- template runs: no step begins behind a material gate nobody opened, or behind a
  blocking judge that did not pass; one decision opens one gate; every started
  row has one terminal row; what the checkpoint is past is not executed again;
  notes are kept once; the listed status is true, and what a reviewer is shown is
  what the gate asked.
- embedding: a step runs the function its own project registered; what `check`
  accepts resolves when it runs; an exception does not take the outcomes of a
  batch with it.
- service calls: a POST is not repeated; success means that the service did it;
  a call is made only with what it needs; every call ends.
- schema sync: the lock is replaced as a whole, its entries are true, and what a
  sync returns is the schema of the document the service answered about.
- KYC: who must be refused is given no tier; a match is a person's decision, one
  for each gate; the outcome reports what the reviewer was shown, as long as nobody
  decides a run that is still worked on; owning more does not lower the tier.

`PROJECT.json` lists the hazards behind these, each at its line.

## Modules

| Part | State machine | Abstract specification | Theorems | For TLC |
| --- | --- | --- | --- | --- |
| store | `RunStore` | | `RunStoreProofs` | (through the next two) |
| queue | `RunQueue` (extends `RunStore`) | `WorkQueue` | `RunQueueProofs` | `MCRunQueue` |
| engine, API, log, cache | `RunApi` (extends `RunStore`) | `RunLifecycle` | `RunApiProofs` | `MCRunApi` |
| template runs, judges, event log | `TemplateGraph` (extends `TemplateSteps`) | `TemplateRunner`, itself the sequential runner | `TemplateGraphProofs` | `MCTemplateGraph` |
| embedding, loading, checks | `Embedding` | | `EmbeddingProofs` | `MCEmbedding` |
| service calls | `ServiceCall` | | `ServiceCallProofs` | `MCServiceCall` |
| schema sync | `SchemaLock` | | `SchemaLockProofs` | `MCSchemaLock` |
| KYC template | `KycOnboarding` | | `KycOnboardingProofs` | `MCKycOnboarding` |

Operators that a comment calls a mutant are variants of the definition after
them, as a plausible bug would leave it; `PROJECT.json` pairs each with the
property that catches it. Nothing else uses them.

### RunStore

`runs` is `_runs`, with the state `"absent"` for an id that is not in the
dictionary; `decisions` is `_decisions`; `clock` is the time that `datetime.now`
returns. Every operation holds one `asyncio.Lock` and never suspends inside it,
so every operation is one action. `Next` lets anybody call anything: the store
checks neither who calls nor, in `mark_state`, which state the run is in. A claim
is `ClaimRun` (it returns a run) or `ClaimNothing`; both reclaim first. Policy
and `created_by` are left out; the store copies them.

### RunQueue and WorkQueue

The workers. No worker is in the package: the callers follow the design document
and the tests. `holding` is what a worker knows, that is what `claim_run` and
`renew_lease` returned to it; it differs from the lease in the store as soon as
the lease lapses. `starts`, `faults` and `renewals` are history and bounds.
`WorkQueue` is the abstract queue: jobs that wait, belong to a worker or are
done.

### RunApi and RunLifecycle

A request is a stream, and an action is the code between two points where its
generator may be suspended:

| pc | the generator is suspended | leaves by |
| --- | --- | --- |
| `created` | not started: the body was not pulled yet | `OpenRun`, `ReenterGraph` |
| `lookup` | in the cache lookup | `CacheHit`, `EnterGraph` |
| `graph`, `node` | between two nodes, in a node | `StartNode`, `FinishWork`, `PassGate`, `Interrupt` |
| `ended` | after the last event of the graph | `Pause`, `ProduceOutput` |
| `storing` | in the cache write | `Complete` |
| `settled` | at its last yield | `Close` |

`Fail` leaves every one of the suspensions before `settled`; `Disconnect` leaves
all of them (a cancelled generator runs only its `finally`), and `NeverPulled`
leaves `created`, where not even that runs. A workflow is a sequence of work
nodes and gates; the checkpointer keeps, per run, the next node, whether it
waits in `interrupt()`, and the verdict in the state of the graph. `effects` is
the history of nodes executed. A work node and the checkpoint after it are one
step: what LangGraph does between them is not in this repository. All state is in
the process or behind the store, so a crash of the process is the loss of every
stream, which `Disconnect` and `NeverPulled` produce one stream at a time.
`RunLifecycle` is what a run goes through, without requests.

### TemplateSteps, TemplateRunner, TemplateGraph

`TemplateSteps` holds what both runners of a template share: nodes in the order that
`build_graph` gives them, each judge attached before or after every step that it names
(the plan of a run is one such order); the pool as a function from keys to what a gate
can tell apart (missing, falsy, truthy, a decision); the materiality of a gate; the
rows of the event log and the status that `runs` lists.

`TemplateGraph` is a run in several processes. A leg is one process: the one that
started the run (`Starter`), or one started by `decide`. An action is the code between
two effects that others can see: a row, a checkpoint, the call of a hook or a model.
LangGraph is external, and the model takes from it what the code relies on: nodes run
one after another; after each a checkpoint is saved in the background, so a process
may run ahead of its checkpoint but does not leave the graph before it is saved;
`Command(resume=...)` continues from the latest checkpoint and answers the gate it
stands at. A step that fails or blocks writes its row and that of the run inside its
node (`Close`), and the process leaves the graph when the rest is saved (`Leave`).
`Crash` kills a process anywhere, and may leave a row cut short where `MayTear` says
so. `CutFirst` is a process killed in its very first row, that of a start or a
decision: it has done nothing else and was never a leg, so a run with two legs has
three processes. That row swallows the first row of the next process. `decide` asks
neither whether the run is paused nor whether somebody else is working on it, and
`Decide` does not either; `Overlap` turns the second freedom on and off. `given`,
`invoked`, `approved` and `crashes` are history and bounds.

`TemplateRunner` is `run_template`. The graph runner's first sentence is that it
changes nothing else, and `SameAsSequential` says so: without gates and judges,
`TemplateGraph` implements `TemplateRunner` (`INSTANCE TemplateRunner WITH ...`).

### Embedding

Calls of `run_batch` and `arun_workflow` in one process. `modules` and
`implementations` are `sys.modules` and `_IMPLEMENTATIONS`; they belong to the
process. A project is a record of what its directory holds: a template module
with the functions it registers, a template (in the module or as a document), its
steps with the fields that are set, a workflow file with its hooks, backends and
locked schemas. A service step that names a backend the manifest does not have is met by the
preflight (`PreflightRaises`), and the `ProjectError` leaves the call; one that names
none fails at the step. `Resolve` is `_resolve`, which does not suspend; the graph runs
without a checkpointer, without judges and without a log, and another call may go
on while a hook is awaited. `StepValid`, `TemplateValid` and `CheckFile` are the
pure checks; the model runs also what they refuse, for `run_batch` does not call
`check`.

### ServiceCall

The service steps of a template over a network. A request that was sent is in
`inFlight` until the service sees it, which may be long after the process has
stopped waiting, or never; `committed` is what the service carried out. `Answers`
are classes of status and body that the code tells apart, redirections with and
without a body among them (`Moved`); a body that has what
later calls select is `"mapping"`. A process is killed anywhere and the step begun
again by the next, unless its checkpoint was saved. `tokens` are the backends the
environment of the process has a token for: `Preflight` looks once, before the
first step of the process that starts the run; `Authorized` looks for each call;
the process of `decide` (`decided`) has an environment of its own and no
preflight. A call names its predecessors by `refs`, whole or a part of them
(`dotted`), and `Interpolates` is what `validate_call` and `interpolate` ask of
them: the key is declared, the product is in the pool, the part is in the product.

### SchemaLock

Processes share files and nothing else. An action is the code between two system
calls that another process, or the next one after a kill, can tell apart: opening
truncates, writing fills, renaming replaces. Files are inodes, because
`schema-lock.tmp` may be renamed into place while another process still writes to
it. A fingerprint stands for the schema it is of, an ETag for the document it
came with. `alone` is history: whether no two syncs ever overlapped.

### KycOnboarding

One run of the example template for one client, in several processes. A state of the
run (`at`, `pool`) is what a process works on and what the checkpoint (`thread`) is a
copy of; `Pipeline` is the order of the steps and `Produces` the key of each. The rules are
operators named for them (`Jurisdiction`, `Tier`, `Implicating`); amounts are
thousands of euros, countries and lists are model values. `files` are what the
steps read, each time they run; `Edit` saves another version of one of them. The
two agents answer anything a client's data allows, and fail. `Save` is the background
save: a process runs ahead of its checkpoint, `Kill` loses what it has not saved, and
it ends only when all is saved. `Decide` starts the next process from the checkpoint,
with an answer to a material gate if it stands at one, whatever the run is doing:
`decide` does not ask whether somebody works on it. `Hasty` bounds which processes
begin beside another in a run of TLC; the theorems hold for any set. `given` is the
verdict a process was started with. History are `shown`, the payload of each gate when
a process paused there last, and `alone`: whether nobody was in a hurry yet.

## What TLC checks

| Run | Bounds | Shows |
| --- | --- | --- |
| `queue` | 2 runs, 2 workers of which one loads one workflow, 2 faults, 1 renewal, leases of 2, ends that are terminal | `HoldersExclusive`, `LiveLeaseNotStolen`, `OldestIsServedFirst`, `QueuedRunsAreExecuted`, and that the queue implements `WorkQueue` |
| `queue_gates` | 1 run that may pause, 2 decisions, 2 faults | `LeaseCoversRunningWork`, `RepeatedOnlyWithCause` when decisions put runs back |
| `api` | approval (work, gate, work), 1 run, 3 requests, 2 verdicts, 2 decisions, clock 0..1, failures, disconnects, retention | `EffectsAreDecided`, `EffectsNotRepeated`, `LogTellsTheState`, `PausedRunsAreResumable`; `StartedRunsSettle` and `DecisionsTakeEffect` under fairness |
| `api_lifecycle` | a workflow with two gates in a row and the cached echo, 2 runs, 2 inputs, 3 requests (symmetric), 2 decisions taken gate by gate, time to live 1 | `CacheHoldsOwnOutputs`, and that the engine implements `RunLifecycle` |
| `api_replay` | approval, 1 run, 2 decisions, no faults | a violation, see below |
| `template` | hook, conditional gate, blocking judge, hook, warning judge; 2 legs one after the other, 1 kill, which may cut a row short, a first row too | `GatesHold`, `JudgesGuard`, `StartedThenOne`, `NotesKeptOnce`, `ListedStatusIsTrue`, `CheckpointedNotRepeated`; `DecisionsOpenTheirGate` under fairness |
| `template_overlap` | gate, hook, gate; 3 processes at once (symmetric) | `OneDecisionOpensOneGate` |
| `template_sequential` | agent, hook whose summary collides, hook; 1 process | `SameAsSequential` |
| `embedding` | 2 calls (symmetric), 2 directories, 64 projects beside 4 others, batches of 1 and 2 | `OwnImplementations`, `CheckedStepsResolve`, `SoundBatchesNeverRaise` |
| `service` | a public GET that may find nothing and a POST that names a part of its product, 1 backend with a token or without, 2 retries, each begun up to twice | `PostsNotRepeated`, `SuccessIsCommitted`, `CallsAreProvided`; `CallsEnd` under fairness |
| `schema` | 2 processes (symmetric), 2 schemas, 2 operations, 2 documents, 3 syncs, 1 edit of the manifest | `LockIsAtomic`, `EntriesAreTrue`, `SyncedIsTrue`, `EntriesSurvive`, `ResultIsLocked` |
| `kyc` | one client out of 3, 2 sets of interests, 3 of holdings, 4 of lists, 1 article, 1 edit, 3 processes of which the third may begin beside another, kills anywhere | `RefusedHaveNoTier`, `MatchesAreDecided`, `OutcomeIsWhatWasShown`, `RicherIsNotLower` |

Type invariants are proved and not run again. The store has no run of its own: its
operations are called by the queue and the engine, and under arbitrary callers its
properties are proved.

Why the bounds suffice. A lease conflict involves one run, two claims and one lapse;
an ordering conflict involves two runs. `Pass` lets time move only while some lease is
ahead of it, and `MaxClock` is never reached in the queue runs: the number of faults
ends them first. A conflict at a gate takes two decisions and three requests. A stale
or foreign cache entry takes two requests and two inputs. The template has one node of
each kind in each position that matters: a step before a gate, a gate behind it that
may be immaterial, a judge between the gate and what it guards, a judge behind. A
kill, a decision after it and the continuation take two processes; that the row
`resumed` of one decision is swallowed by what another left takes a third, which
`CutFirst` has without a leg. A decision that opens the wrong gate takes two gates and
three processes. The projects of `embedding` differ in one thing each: a step with or
without an implementation, a default, a backend, a schema; a hook that fits, has
`**kw`, or is misspelt; a neighbour that is apart, shares the file name, shares a
function name, or raises. An answer that is lost, a request that is late and a kill
are independent in `service`, and two retries are what `run_service_step` defaults to;
the two calls are the pair the code has a rule for, a lookup that may find nothing and
a call that names what was found, the one public and free to repeat, the other
neither. The clients of `kyc` differ in what decides a rule: on file or not, with a
country or without, a stake below and at the controlling one in a declining country,
holdings on both sides of the thresholds and of the cap. Two decisions, of three
processes, answer both gates or continue a run that was killed or has failed; one edit
is enough for an outcome that differs from what another process showed, which TLC
finds as soon as `alone` is dropped from the property. Two processes are enough for
every overlap of two syncs, three syncs for a third one that meets what they left.

Deadlock checking is off in the API, template, embedding, service and KYC runs: their
requests, processes and calls are finitely many, and when all have ended the
system does stop. `SchemaLock` has an explicit environment that goes on.

Fairness. Workers poll in a loop and finish what they hold unless they die, and time
passes while a lease is pending: weak fairness of `Claim`, `FindNothing`, `Finish`,
`Enqueue` and `Pass`. Submitting, renewing, dying and deciding are owed by nobody. The
event loop resumes every generator that is still pulled: weak fairness of each
stream's steps, which does not choose between success and failure of a node. A process
that was started goes on unless it is killed: weak fairness of `LegStep` for each leg,
none for decisions and kills. `_send` waits for each attempt no longer than its
timeout: weak fairness of `CallStep`, none for the service, which may never see a
request. That is slightly more than the code gives: the timeouts of httpx are for each
operation on the connection, so a service that sends a byte now and then keeps a call
waiting, and `CallsEnd` is not about such a one. Disconnects are never owed.

### Disagreements with what the repository says

One is checked, by a run that finds it:

- `api_replay`. A run leaves `awaiting_decision` only when its resumption
  settles, so two decisions are both accepted meanwhile, both re-enter the graph,
  and the node behind the gate runs twice; compare `api/routes.py:312-315`
  ("replaying the graph would double side effects") and
  `features/hitl-resume.feature:13-19`.

Others were met while modelling. The models do what the code does, and the
properties are stated so that they hold beside it:

- Store and engine. A worker whose lease lapsed may still mark its run
  `awaiting_decision` and drop the lease of its successor: after a decision two
  workers hold it, which `store/memory.py:157` calls "the thing leases exist to
  prevent". A decision retried while the first is being executed is recorded
  twice (`store/models.py:99`). A run that paused is metered once per request,
  not once (`engine/observability.py:86`). A resumption completes a run that the
  retention job has cancelled (`store/models.py:30`).
- Judges. A blocking judge whose input is missing raises `JudgeError`, and the run
  fails rather than being blocked (`sdk/judge.py:328`, and the line of
  `sdk/graph.py:384` that calls it unreachable). `JudgeError` is "raised at load or
  `check`, never mid-run" (`sdk/judge.py:82`), but placement is looked at when the
  graph is built, by `run_template_graph`.
- Events. `decide` on a run that has ended or failed appends rows to it
  (`store/events.py:65`). A summary key called `status` or `step` collides with a
  parameter of the recorder, and the `TypeError` leaves a started row without a
  terminal one (`store/events.py:24`); `StartedThenOne` allows it. A row is written
  with the newline behind it, so the first row of the process that continues a killed
  one is glued to the row that was cut short, and `read` skips both:
  `store/events.py:163` promises to skip "a truncated final line" only. What is lost
  is the row that says the run was resumed, which is what `StartedThenOne` counts. A
  `decide` that is killed in that row leaves nothing but the piece of it, and the next
  process is not told of: `runs` lists the run as waiting while it is past the gate,
  until it ends or pauses and says so. `ListedStatusIsTrue` excepts checkpoints of
  such a process (`Listed`). A kill between the row of a gate and the row of the run
  leaves a run that waits and that `runs --waiting` and `show` do not know.
- Binding. `BindingError`, "raised at check time, not run time"
  (`sdk/binding.py:26`), is raised at run time for a workflow that `check`
  accepts when a hook asks for what only a later step produces. The second branch
  about parameters in `check_file` is unreachable. A function named like a gate,
  a command, a call or a validation passes `check` and is never called, which is
  what `sdk/check.py:7-10` wants to rule out.
- Embedding. `RunOutcome.run_id` is empty for failed and declined runs, though
  `tests/test_run_api.py` says that every outcome needs one. `BindingError`,
  `ProjectError`, `LookupError` and the errors of documents leave `run_batch` and
  take the outcomes before them along. One `ProjectError` is that of the preflight for a
  backend the manifest does not have, where the comment at `sdk/service.py:396-398` has
  only `CallSpecError` in mind and says that failing there "would report the wrong
  problem". A module that raises after it has
  registered a function can never be loaded again in its process, even repaired.
  Of two projects whose template files have the same name, the one loaded first
  cannot be loaded again. A name that a module's template uses is never looked up
  before the step that needs it; only documents are.
- Service. A redirection is not followed, and only 400 and above is an error: with a
  JSON body it is a success with that body as its product, without one a success with
  no product, which `sdk/service.py:44` calls a silent None. `SuccessIsCommitted` is
  about all other answers. `CallSpecError`, raised "never mid-run"
  (`sdk/service.py:118`), is raised between two steps when a product lacks the part
  that is named. A product that is nothing, after a 404 that was allowed or an empty
  answer, is sent as "None" if it is named whole, which `sdk/service.py:246-248` wants
  to rule out; `CallsAreProvided` is about parts for that reason. `decide` has no
  preflight, so a request may go out without its credential; compare
  `sdk/service.py:378-381`. The first attempt of a PATCH that was retried may arrive
  after the PATCH of a later step and undo it (`sdk/service.py:98-101`).
- Schemas. After the manifest points a schema at another operation, a 304
  returns the schema of the old one. A snapshot that was cut short is never
  repaired, because it exists (`features/runtime-schema-sync.feature:11`).
  Overlapping syncs share `schema-lock.tmp`: entries get lost, and a lock that
  is still being written can be renamed into place
  (`sdk/schema_sources.py:34`); with `alone`, the lock is atomic.
- KYC, relative to `workflows/kyc`. A verdict is copied to the outcome and stops
  nothing: a run goes on after a reviewer has answered "reject", although
  `DESIGN.md:71` lets a human "proceed / decline". `NON_IMPLICATING`
  (`templates/kyc_onboarding.py:31-35`) is never used; whether an article implicates
  the client is what the model says. The gate for art looks at a flag, the tier at an
  amount. `DESIGN.md`, 3.1, has residency decide for clients who are HNWI or above;
  the code looks at no tier there (`templates/kyc_onboarding.py:170-173`). Only the
  first controlling stake is looked at, and the effect "review" has no consequence.
  Lists are read before the second gate and may be out of date when the run completes.
  A run that declined the client can be decided and goes on when the files have
  changed; one that was killed at a gate can be decided although nothing was shown,
  and one that is still worked on can be decided too (`sdk/cli.py:336-374`,
  `sdk/graph.py:467-480`). Two processes then work on the run, and with an edit
  between their checks one shows a match to a reviewer while the other completes
  without it: `OutcomeIsWhatWasShown` is for runs that nobody decided in such a hurry
  (`alone`). `RefusedHaveNoTier` and `MatchesAreDecided` are about reasons that last
  as long as the run for that reason.

## What is proved

For all values of the constants, from the assumptions named in the modules, which
say no more than that constants have the types the code gives them and that `None`
is none of them.

`RunStoreProofs`: `TypeCorrect`; `LeaseSafety` (`LeaseCoversRunningWork` is
inductive with the types); `LeaseExclusion`; `QueueOrder`; `AuditIntegrity`,
which needs that a chain is numbered by position (`ChainNumbered`).

`RunQueueProofs`: `QueueRefinesStore`, every step of the queue is a step of the
store or leaves it alone, so the theorems above hold of it. `WorkerExclusion`
(`HoldersExclusive`) needs more than itself: a belief on a lease that has not
lapsed is either backed by that very lease in the store or about a run that has
ended, and a run not yet marked `"queued"` has no holder. The theorem assumes
that workers leave runs in terminal states (`NoGates`); the first disagreement above
is why. From the same invariant and assumption, `QueueImplementsWorkQueue`: every step
maps to one of `WorkQueue` or to a stutter, a claim that finds lapsed leases to
their return first. `EveryRepetitionHasItsCause` (`RepeatedOnlyWithCause`) assumes
nothing of outcomes, but that a lease lasts longer than no time (`PositiveLeases`):
`claim_run` takes any number of seconds, and a lease of none lapses without a
fault. Its invariant `PaidInv` counts, beside what was handed out, what can be:
a run that waits, or whose lease no worker holds any more, has its next execution paid
for by a fault, a decision or its creation.

`RunApiProofs`: `ApiRefinesStore` and, through it, `ApiAuditIntegrity`;
`ApiTypeCorrect`; `DecisionsPrecedeEffects` (`EffectsAreDecided`). Its invariant
follows a verdict from the record to the node: a request carries only verdicts
on record for its run, the state of the graph and the checkpoint hold only such
verdicts, and whoever is past a gate holds one. `LogAgreesWithStore`
(`LogTellsTheState`) follows from it, for a request that settles is about a run that
exists. `GatesCanBeLeft` (`PausedRunsAreResumable`) and the next two need how far a
request has come (`StageInv`): without a decision on record, a run has one request,
which stops at the first gate, and the checkpoint is at or before that gate; every other
request is at a gate or behind one. `ExecutionsAreDecided` (`EffectsNotRepeated`) counts
(`CountInv`): the executions of a node are at most the requests that are past it, and
requests behind a gate are at most the decisions, one each. `CachedOutputsWereComputed`
(`CacheHoldsOwnOutputs`) adds to the count, for a workflow without gates, that a
request past a node has executed it, and that an entry of the cache has such a request
(`CacheInv`).

`GateByGateIsTheLifecycle` is the refinement of `RunLifecycle` (`RefinesLifecycle`), for
any graph. It is a theorem of `GateByGateSpec`, in which a decision is taken only for
the gate the run waits at, when no request works on the run and every earlier decision
has opened its own gate (`AsksOnce`): `decide` does not see to that, as
`api_replay` shows, so it is what clients are asked for. Its invariant
`LifeInv` says that one request works on a run at a time, that what lies between the last
node executed and its position are gates, and that the gates before it are as many as
the decisions that were handed to it. `OneDecisionIsTheLifecycle` says it of `ApiSpec`
itself where a run is decided at most once. Both assume that the retention job is
off (`~MayExpire`): it cancels runs, of which the lifecycle says nothing.

`TemplateGraphProofs`: `GraphTypeCorrect`; `GatesAreHeld` and `JudgesAreAsked`,
for every template whose nodes write different keys (`ProductsDiffer`), any
number of overlapping and killed processes and decisions that nobody waits for.
The types (`Typed`) include where a process stands in the plan in each of its
states. `GuardInv` says of every pool, a process's or the checkpoint's, that
every gate and blocking judge before its position is cleared in it, and that
verdicts in it were given and passes were answered; it is inductive because a
node writes its own key only and a later node never rewrites an earlier key,
which is where `ProductsDiffer` is used. `DecisionsAreSpentOnce`
(`OneDecisionOpensOneGate`) charges the gates that are open in any pool to decisions
that no process has in its hands any more (`SpentInv`). `NotesAreKept` needs no
assumption: a process that works knows how many notes it began with (`NotesInv`).

Three theorems assume that one process works on the run at a time (`~Overlap`), of any
number that are killed and decided one after the other; two at once execute a step
twice, and write rows between each other's. `AloneInv` says who works, and that it is
not behind the checkpoint, from which `NothingRepeatedBehindTheCheckpoint`.
`RowsComeInPairs` (`StartedThenOne`) is proved of the log as a file: `LogInv` says
which row each process still owes, and that a row is cut short only when nobody works.
`TheListIsTrue` (`ListedStatusIsTrue`) needs that one and two more: `KeptInv`, that
steps which the checkpoint is past were begun, and `ListedInv`: while a process works
that the list knows of, the newest row says neither that it waits nor that it is done
(`Quiet`); what a process does that it does not know of changes neither the status
nor, until it has saved, what waits (`Waits`). `GraphRunnerIsSequential`
(`SameAsSequential`) is about one process that nobody kills and a template of hooks
and agents only (`PlainRun`), which is what the sequential runner runs; the mapping
needs that notes and pool of the process are those of its checkpoint once that is
saved (`PlainInv`).

`EmbeddingProofs`: `EmbeddingTypeCorrect`; `OwnImplementationsRun`: a name keeps its
function (`NamesAreKept`), and a module stays in `sys.modules` only with all of its
names (`ModulesOwn`), so a run that has loaded its project finds its own;
`CheckedStepsDoResolve`, from that and what `check` and the documents ask for;
`SoundBatchesKeepOutcomes`: of a project that shares no names with others either
nothing is registered or all of it (`FreshOrOwn`), so it can be loaded again at any
time, and the pool holds what the run was called with and what the steps before
produced (`PoolsAreSupplied`), so that every hook is bound. `Sound` asks the manifest
for every backend that is named (`BackendsDeclared`), which `check` does too. Every
step is first reduced to one of three effects (`CallEffect`, `LoadEffect`,
`RunEffect`).

`ServiceCallProofs`: `CallTypeCorrect`, with the bound on attempts;
`PostsCarriedOutOnce`, from `OnePost` and the order of requests, which are numbered by
step, begin and attempt, none ahead of the process, and a POST has none but the
first; `CallsMadeWithWhatTheyNeed` (`CallsAreProvided`), since results of earlier steps
are never changed and tokens not before a decision; `SuccessWasCarriedOut`
(`SuccessIsCommitted`) of every answer that is not a redirection.

`SchemaLockProofs`: `LockTypeCorrect`, with the types split into what the world,
the files and the processes hold; `LockedIsTrue` (`EntriesAreTrue`), from the
truth of every file, the temporary ones included, and of what every process
carries from an answer to the lock, for processes that overlap and are killed. The other
properties speak of syncs that never overlapped (`alone`), which is a variable and not
an assumption. For those `CalmInv` says that the lock is whole, that the temporary file
is another one and its own, and that what a process has read of the lock is the
lock: `LockReplacedWhole` (`LockIsAtomic`), `SyncKeepsOtherEntries` (`EntriesSurvive`)
and `ResultIsInTheLock` (`ResultIsLocked`). `WhatIsReturned` (`SyncedIsTrue`) needs that
an ETag in the lock is of a document whose operation is the one locked (`AsIsInv`), which
an edit of the manifest breaks. Constants are assumed to let a torn file be told from
a lock (`TornIsNoLock`) and no entry from an entry (`NoneIsNoEntry`).

`KycOnboardingProofs`: `KycTypeCorrect`, of which the absence of every key that is not
yet produced is the part the rest needs. Whatever a step's rule says, the step
produces its key, ends its process, pauses it, saves, is killed, decided or edited
(`KindsOfStep`), so every state of the run comes from one before it, as it is or with
the key of its step (`StatesDescend`). That holds for processes that overlap, and so
do the first two theorems. `RefusedAreNotTiered`: for each of the reasons to refuse,
no state of a run whose client is refused for it throughout gets further than the
check, where there is no tier yet. The reason is assumed of every state of the run,
since files may be edited after the check. `MatchesAreDecidedByHand`: a state behind
the gate of a match holds the verdict of a decision (`PepDecided`, `ArtDecided`), and
where both gates asked those of two (`BothDecided`). `ShownIsReported` is for runs
that nobody decided while a process worked on them (`alone`, a variable, not an
assumption): then one process works at a time, what it has saved is the checkpoint
(`OneAtATime`), and what was shown at a gate is in both (`ShownKept`), because a
process pauses only when all is saved and the next begins at the gate or behind it.
`RicherNeverLower` is arithmetic over all amounts (`MoreQualifies`).

Only model-checked: liveness (`QueuedRunsAreExecuted`, `StartedRunsSettle`,
`DecisionsTakeEffect`, `DecisionsOpenTheirGate`, `CallsEnd`), since fairness is beyond
the prover.

## Not modelled, and the plan

Not modelled by choice: the read-only routes, authentication and settings
(wiring), prompts and policies (pure), the chat model adapters, tracing, the
syntax of manifests and documents, and `InMemoryRunStore.clear`, which nothing
calls. Of the modelled parts: what hooks and commands do is their
outcome, so the timeout of a command is not modelled; replies of judges are
readable or not; a judge that names two steps of one template, whose one node would be
added twice, is left out; waiting times between attempts (`Retry-After`) are a state
without a duration; an OpenAPI document is a function from operations to
schemas, and references in it are not followed; processes of `Embedding` do not
see their directories change, except for a module that is repaired.

Modules were written in the order of the table above. What is left, in this order:

1. Pure algorithms against a reference definition: what `validate_call` accepts, the
   bundling of references in
   `resolve_openapi_request_schema`, `Retry-After`, parsing of a judge's reply.
2. The command's timeout (`sdk/shell.py`) and the composition of `ServiceCall`
   with `TemplateGraph`: a service step inside a run that is decided and killed.
3. The commands `schema show`, `validate` and `diff` of `sdk/cli.py`.
