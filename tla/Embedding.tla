------------------------------ MODULE Embedding ------------------------------
(***************************************************************************)
(* Running workflows from code (sdk/run.py): run_batch and arun_workflow,  *)
(* several at once in one process, over several project directories.       *)
(*                                                                         *)
(* Every run loads its project again: template modules are imported once   *)
(* per process, under a name that two projects may share, and register     *)
(* their functions in a table that is never emptied; documents, the        *)
(* registry of templates and the workflow file are read anew.  Between the *)
(* start of a hook and its return the event loop may resume another run;   *)
(* two runs of a batch follow one another at once, and the model that lets *)
(* another run in between allows more.  Hooks touch nothing but their own  *)
(* run.                                                                    *)
(***************************************************************************)
EXTENDS Naturals, Sequences, FiniteSets

CONSTANTS
    Tasks,          \* calls of run_batch or arun_workflow in the process
    Dirs,           \* project directories
    Holdings,       \* what the directories may hold together
    Batches,        \* what run_batch may be called with: the keys that each run
                    \* is given a value for
    Impls,          \* names that implementations are registered under
    NeedsOf,        \* implementation -> its parameters without a default
    None

Executors == {"local", "agent", "gate", "service", "scheduled", "shell", "validate"}
ENGINE_IMPLEMENTED == {"gate", "shell", "service", "validate"}
Settings == {"default", "command", "call", "backend", "when", "schema",
             "input", "output_schema"}

\* sets: the optional fields that are set.  resource: the backend or the schema it
\* names.  needs: the parameters of its default that have none, the keys that its
\* call refers to, or its input.
Step == [name : STRING, executor : Executors, produces : STRING,
         kwargs : SUBSET STRING, sets : SUBSET Settings,
         uses : Impls \cup {None}, resource : STRING \cup {None},
         needs : SUBSET STRING]

\* A hook: the parameters that have no default, the others, and whether it takes
\* `**kw`.
Hook == [needs : SUBSET STRING, takes : SUBSET STRING, var : BOOLEAN]

\* A project.  stem: the name of the template module's file.  registers: what the module
\* registers, in order.  document: the template is a document, not in the module.
\* flow: the first workflow file that names the template can be loaded, and so
\* can those before it.  resources: backends in the manifest, schemas in the lock.
\* faulty: the module raises when it is imported, until somebody repairs it.
IsProject(p) ==
    /\ p.stem \in STRING /\ p.name \in STRING
    /\ p.registers \in Seq(Impls)
    /\ p.steps \in Seq(Step)
    /\ {p.document, p.flow, p.faulty} \subseteq BOOLEAN
    /\ DOMAIN p.hooks \subseteq STRING
    /\ \A name \in DOMAIN p.hooks : p.hooks[name] \in Hook
    /\ p.resources \subseteq STRING

ASSUME HoldingsAreProjects ==
    \A held \in Holdings :
        /\ DOMAIN held = Dirs
        /\ \A d \in Dirs : IsProject(held[d])
ASSUME FunctionsHaveNeeds == NeedsOf \in [Impls -> SUBSET STRING]
ASSUME NoneIsNothing ==
    /\ None \notin Dirs \cup Impls \cup {"file", "default", "engine"}
    /\ {"file", "default", "engine"} \cap Dirs = {}
ASSUME BatchesAreParams == Batches \subseteq Seq(SUBSET STRING) \ {<<>>}

VARIABLES
    project,            \* directory -> what it holds
    faulty,             \* directories whose module raises
    modules,            \* stem -> the directory it was imported from
    implementations,    \* name -> the directory whose function it is
    task

embeddingVars == <<project, faulty, modules, implementations, task>>
process == <<modules, implementations>>
directories == <<project, faulty>>

Stems == {project[d].stem : d \in Dirs}
Names(d) == {project[d].registers[i] : i \in DOMAIN project[d].registers}
Steps(d) == {project[d].steps[i] : i \in DOMAIN project[d].steps}
HookNames(d) == {s.name : s \in Steps(d)}
Hooks(d) == DOMAIN project[d].hooks

\* "unresolved": failed for want of an implementation or a schema, or of the name of a
\* backend.  To the caller it is "failed" as well.
Status == {"completed", "paused", "declined", "failed", "unresolved"}
Sources == {"file", "default", "engine", None} \cup Dirs

\* keys: the keys of the pool.  source: where the function that runs came from.
\* "undeclared": raised for want of a backend.  To the caller it is "raised" as well.
TaskRecord == [pc : {"idle", "resolving", "preflight", "node", "working", "answered",
                     "raised", "undeclared"},
               dir : Dirs \cup {None}, batch : Batches \cup {<<>>},
               outcomes : Seq(Status), pos : Nat, keys : SUBSET STRING,
               source : Sources]

\* A call outside the runs of its batch.
Between(pc, dir, batch, outcomes) ==
    [pc |-> pc, dir |-> dir, batch |-> batch, outcomes |-> outcomes, pos |-> 1,
     keys |-> {}, source |-> None]

Idle == Between("idle", None, <<>>, <<>>)

EmbeddingTypeOK ==
    /\ project \in Holdings
    /\ faulty \subseteq Dirs
    /\ modules \in [Stems -> Dirs \cup {None}]
    /\ implementations \in [Impls -> Dirs \cup {None}]
    /\ task \in [Tasks -> TaskRecord]

Init ==
    /\ project \in Holdings
    /\ faulty = {d \in Dirs : project[d].faulty}
    /\ modules = [s \in Stems |-> None]
    /\ implementations = [n \in Impls |-> None]
    /\ task = [t \in Tasks |-> Idle]

-----------------------------------------------------------------------------
(* What makes a template, and what `check` asks of a workflow file *)

\* Step.__post_init__.
StepValid(s) ==
    /\ "command" \in s.sets <=> s.executor = "shell"
    /\ ~(s.uses # None /\ "default" \in s.sets)
    /\ "call" \in s.sets <=> s.executor = "service"
    /\ "backend" \in s.sets => s.executor = "service"
    /\ s.executor = "validate" => {"schema", "input"} \subseteq s.sets
    /\ s.sets \cap {"schema", "input"} # {} => s.executor = "validate"
    /\ "when" \in s.sets => s.executor = "gate"
    /\ "output_schema" \in s.sets => s.executor = "agent"

\* The keys a document may set: neither a call nor a default.
STEP_KEYS == Settings \ {"call", "default"}

TemplateValid(p) ==
    /\ p.document => p.steps # <<>>
    /\ \A i \in DOMAIN p.steps :
        /\ StepValid(p.steps[i])
        /\ p.document => p.steps[i].sets \subseteq STEP_KEYS
    /\ \A i, j \in DOMAIN p.steps : p.steps[i].name = p.steps[j].name => i = j

Required(s) ==
    s.uses = None /\ "default" \notin s.sets /\ s.executor \notin ENGINE_IMPLEMENTED

BindsToSchema(s) == s.executor = "validate" \/ "output_schema" \in s.sets
NeedsResource(s) == s.executor = "service" \/ BindsToSchema(s)

StepOf(p, name) == CHOOSE s \in {p.steps[i] : i \in DOMAIN p.steps} : s.name = name

\* Mutant of CheckFile: functions that match no step are ignored, and so are steps
\* that no function matches.
CheckMatching(p) ==
    /\ \A name \in DOMAIN p.hooks \cap {p.steps[i].name : i \in DOMAIN p.steps} :
        LET hook == p.hooks[name] IN
            hook.var \/ hook.needs \cup hook.takes \subseteq StepOf(p, name).kwargs
    /\ \A i \in DOMAIN p.steps : LET s == p.steps[i] IN
        NeedsResource(s) => s.resource \in p.resources

\* check_file finds no problem, in a project.
CheckFile(p) ==
    /\ DOMAIN p.hooks \subseteq {p.steps[i].name : i \in DOMAIN p.steps}
    /\ \A i \in DOMAIN p.steps : LET s == p.steps[i] IN
        /\ Required(s) => s.name \in DOMAIN p.hooks
        /\ s.executor = "service" => s.needs \subseteq s.kwargs /\ "backend" \in s.sets
        /\ NeedsResource(s) => s.resource \in p.resources
    /\ \A name \in DOMAIN p.hooks :
        LET hook == p.hooks[name] IN
            hook.var \/ hook.needs \cup hook.takes \subseteq StepOf(p, name).kwargs

-----------------------------------------------------------------------------
(* Loading: _resolve, without a suspension *)

At(t, pc) == task[t].pc = pc
Dir(t) == task[t].dir
Called(t) == task[t].batch[Len(task[t].outcomes) + 1]

\* The run that the batch is at moves on.
Move(t, pc, pos, keys, source) ==
    task' = [task EXCEPT ![t] =
                [pc |-> pc, dir |-> Dir(t), batch |-> task[t].batch,
                 outcomes |-> task[t].outcomes, pos |-> pos, keys |-> keys,
                 source |-> source]]

\* An exception leaves run_batch, and the outcomes with it.
Raise(t) ==
    task' = [task EXCEPT ![t] = Between("raised", Dir(t), task[t].batch, <<>>)]

Call(t, d, batch) ==
    /\ At(t, "idle")
    /\ task' = [task EXCEPT ![t] = Between("resolving", d, batch, <<>>)]
    /\ UNCHANGED <<directories, process>>

\* _templates_in: the module in sys.modules is the one of this file.
\* Mutant of Cached: the module is executed again.
NeverCached(d) == FALSE

Cached(d) == modules[project[d].stem] = d

\* The module raises, or a template that it declares does.
Raises(d) == d \in faulty \/ (~project[d].document /\ ~TemplateValid(project[d]))

\* register_implementation: an error if the name has another function.
\* Mutant of Registrable: the last import wins.
AlwaysRegistrable(n) == TRUE

Registrable(n) == implementations[n] = None

Importable(d) ==
    Cached(d) \/ (~Raises(d) /\ \A n \in Names(d) : Registrable(n))

Import(d) ==
    IF Cached(d)
    THEN UNCHANGED process
    ELSE /\ modules' = [modules EXCEPT ![project[d].stem] = d]
         /\ implementations' =
                [n \in Impls |-> IF n \in Names(d) THEN d ELSE implementations[n]]

\* The import ends in an exception: the module is forgotten, what it registered so
\* far is not.
ImportFails(t) ==
    LET d == Dir(t)
        names == project[d].registers
    IN
    /\ At(t, "resolving") /\ ~Importable(d)
    /\ \E k \in 0 .. Len(names) :
        /\ \A i \in 1 .. k : Registrable(names[i])
        /\ Raises(d) \/ (k < Len(names) /\ ~Registrable(names[k + 1]))
        /\ implementations' =
                [n \in Impls |-> IF \E i \in 1 .. k : names[i] = n THEN d
                                 ELSE implementations[n]]
    /\ modules' = [modules EXCEPT ![project[d].stem] = None]
    /\ Raise(t)
    /\ UNCHANGED directories

\* template_from_document and its names, the registry, which holds doc-qa already,
\* and the workflow file.
Refused(d) ==
    \/ project[d].document /\ ~TemplateValid(project[d])
    \/ project[d].document /\ \E s \in Steps(d) :
            s.uses # None /\ implementations'[s.uses] = None
    \/ project[d].name = "doc-qa"
    \/ ~project[d].flow

Resolve(t) ==
    /\ At(t, "resolving") /\ Importable(Dir(t))
    /\ Import(Dir(t))
    /\ IF Refused(Dir(t))
       THEN Raise(t)
       ELSE Move(t, "preflight", 1, Called(t), None)
    /\ UNCHANGED directories

\* Somebody repairs the module of a project.
Repair(d) ==
    /\ d \in faulty
    /\ faulty' = faulty \ {d}
    /\ UNCHANGED <<project, process, task>>

-----------------------------------------------------------------------------
(* Running: the graph without judges and without a checkpointer *)

Here(t) == project[Dir(t)].steps[task[t].pos]
AtStep(t) == At(t, "node") /\ task[t].pos \in DOMAIN project[Dir(t)].steps
Running == <<directories, process>>

\* The outcome of one run; the batch goes on.
Answer(t, status) ==
    LET outcomes == Append(task[t].outcomes, status)
        pc == IF Len(outcomes) = Len(task[t].batch) THEN "answered" ELSE "resolving"
    IN  task' = [task EXCEPT ![t] = Between(pc, Dir(t), task[t].batch, outcomes)]

Produced(t) ==
    Move(t, "node", task[t].pos + 1, task[t].keys \cup {Here(t).produces}, None)

Begin(t, source) == Move(t, "working", task[t].pos, task[t].keys, source)

\* backend_requirements asks the manifest for every backend that a service step names.
BackendsDeclared(d) ==
    \A s \in Steps(d) :
        s.executor = "service" /\ "backend" \in s.sets => s.resource \in project[d].resources

\* Project.backend raises ProjectError, which is no CallSpecError, before there is a
\* graph; arun_workflow catches it no more than run_batch does.
PreflightRaises(t) ==
    /\ At(t, "preflight") /\ ~BackendsDeclared(Dir(t))
    /\ task' = [task EXCEPT ![t] = Between("undeclared", Dir(t), task[t].batch, <<>>)]
    /\ UNCHANGED Running

\* missing_requirements.
PreflightOk(t) ==
    /\ At(t, "preflight") /\ BackendsDeclared(Dir(t))
    /\ Move(t, "node", task[t].pos, task[t].keys, None)
    /\ UNCHANGED Running

PreflightBlocked(t) ==
    /\ At(t, "preflight") /\ BackendsDeclared(Dir(t))
    /\ Answer(t, "failed")
    /\ UNCHANGED Running

\* A gate whose `when` is there may find it falsy; any other pauses.
SkipGate(t) ==
    /\ AtStep(t) /\ Here(t).executor = "gate" /\ "when" \in Here(t).sets
    /\ Here(t).needs \subseteq task[t].keys
    /\ Produced(t)
    /\ UNCHANGED Running

PauseAtGate(t) ==
    /\ AtStep(t) /\ Here(t).executor = "gate"
    /\ Answer(t, "paused")
    /\ UNCHANGED Running

StartEngineStep(t) ==
    /\ AtStep(t) /\ Here(t).executor \in ENGINE_IMPLEMENTED \ {"gate"}
    /\ Begin(t, "engine")
    /\ UNCHANGED Running

\* resolve_hook: the file's function, the one that is registered, the default.
SourceOf(t) ==
    LET s == Here(t) IN
    CASE s.name \in Hooks(Dir(t)) -> "file"
      [] s.name \notin Hooks(Dir(t)) /\ s.uses # None -> implementations[s.uses]
      [] s.name \notin Hooks(Dir(t)) /\ s.uses = None /\ "default" \in s.sets
            -> "default"
      [] OTHER -> None

\* What the function must be given, and whether bind_kwargs insists on it.
NeedsHere(t) ==
    LET s == Here(t) IN
    IF s.name \in Hooks(Dir(t)) THEN project[Dir(t)].hooks[s.name].needs
    ELSE IF s.uses # None THEN NeedsOf[s.uses] ELSE s.needs

TakesAll(t) ==
    Here(t).name \in Hooks(Dir(t)) /\ project[Dir(t)].hooks[Here(t).name].var

AtHook(t) == AtStep(t) /\ Here(t).executor \notin ENGINE_IMPLEMENTED

Unresolved(t) ==
    /\ AtHook(t) /\ SourceOf(t) = None
    /\ Answer(t, "unresolved")
    /\ UNCHANGED Running

\* BindingError is none of the exceptions that arun_workflow catches.
Unbound(t) ==
    /\ AtHook(t) /\ SourceOf(t) # None
    /\ ~TakesAll(t) /\ ~(NeedsHere(t) \subseteq task[t].keys)
    /\ Raise(t)
    /\ UNCHANGED Running

StartHook(t) ==
    /\ AtHook(t) /\ SourceOf(t) # None
    /\ TakesAll(t) \/ NeedsHere(t) \subseteq task[t].keys
    /\ Begin(t, SourceOf(t))
    /\ UNCHANGED Running

HasResource(t) ==
    NeedsResource(Here(t)) => Here(t).resource \in project[Dir(t)].resources

\* What a step can be given: a function with `**kw` is given its kwargs only.
Given(t) ==
    IF task[t].source # "engine" /\ TakesAll(t) THEN task[t].keys \cap Here(t).kwargs
    ELSE task[t].keys

NeededHere(t) == IF task[t].source = "engine" THEN Here(t).needs ELSE NeedsHere(t)

Succeed(t) ==
    /\ At(t, "working") /\ HasResource(t) /\ NeededHere(t) \subseteq Given(t)
    /\ Produced(t)
    /\ UNCHANGED Running

\* Blocked, StepFailed: the hook, the command, the service or a schema refuses.
Fail(t) ==
    /\ At(t, "working") /\ HasResource(t)
    /\ Answer(t, "failed")
    /\ UNCHANGED Running

\* A schema that is not in the lock, or a service step that names no backend, which is
\* nothing to the preflight.
Misconfigured(t) ==
    /\ At(t, "working") /\ ~HasResource(t)
    /\ Answer(t, "unresolved")
    /\ UNCHANGED Running

Decline(t) ==
    /\ At(t, "working") /\ HasResource(t) /\ task[t].source # "engine"
    /\ Answer(t, "declined")
    /\ UNCHANGED Running

Complete(t) ==
    /\ At(t, "node") /\ task[t].pos = Len(project[Dir(t)].steps) + 1
    /\ Answer(t, "completed")
    /\ UNCHANGED Running

TaskStep(t) ==
    \/ ImportFails(t)
    \/ Resolve(t)
    \/ PreflightRaises(t)
    \/ PreflightOk(t)
    \/ PreflightBlocked(t)
    \/ SkipGate(t)
    \/ PauseAtGate(t)
    \/ StartEngineStep(t)
    \/ Unresolved(t)
    \/ Unbound(t)
    \/ StartHook(t)
    \/ Succeed(t)
    \/ Fail(t)
    \/ Misconfigured(t)
    \/ Decline(t)
    \/ Complete(t)

Next ==
    \/ \E d \in Dirs : Repair(d)
    \/ \E t \in Tasks :
        \/ \E d \in Dirs, batch \in Batches : Call(t, d, batch)
        \/ TaskStep(t)

Spec == Init /\ [][Next]_embeddingVars

-----------------------------------------------------------------------------
(* Properties *)

\* A step that names an implementation of its own project runs that one, whatever
\* other projects the process has loaded, or failed to load, before or since
\* (registry.py:69-72 and project.py:137-147).
OwnImplementations ==
    \A t \in Tasks :
        /\ At(t, "working")
        /\ task[t].source \in Dirs
        /\ Here(t).uses \in Names(Dir(t))
        => task[t].source = Dir(t)

\* Nothing that `check` promises to find is found by a run: of a workflow that it
\* accepts no step lacks an implementation, a backend or a schema, except for
\* implementations that a module's template names and nobody registers, which
\* only documents are searched for (check.py:3-5 and document.py:96-99).
Registered(d) == \A s \in Steps(d) : s.uses # None => s.uses \in Names(d)

CheckedStepsResolve ==
    \A t \in Tasks :
        Dir(t) # None /\ CheckFile(project[Dir(t)])
        /\ (project[Dir(t)].document \/ Registered(Dir(t)))
        => /\ ~At(t, "undeclared")
           /\ \A i \in DOMAIN task[t].outcomes : task[t].outcomes[i] # "unresolved"

\* "One decline does not stop the rest" (run.py:150), and nothing else does: a
\* batch of a well-formed workflow keeps its outcomes however often its project
\* was loaded before (project.py:137-147), as long as no other project claims its
\* names, the manifest has its backends and every parameter has a value by the time
\* its step begins.
Apart(d) ==
    \A e \in Dirs \ {d} :
        project[e].stem # project[d].stem /\ Names(e) \cap Names(d) = {}

Sound(d) ==
    /\ ~project[d].faulty /\ TemplateValid(project[d]) /\ Registered(d)
    /\ project[d].name # "doc-qa" /\ project[d].flow /\ BackendsDeclared(d)

\* What the pool holds when a step begins.
Supplied(p, keys) ==
    \A i \in DOMAIN p.steps :
        LET s == p.steps[i]
            pool == keys \cup {p.steps[j].produces : j \in 1 .. (i - 1)}
        IN  s.executor \notin ENGINE_IMPLEMENTED =>
                IF s.name \in DOMAIN p.hooks
                THEN p.hooks[s.name].var \/ p.hooks[s.name].needs \subseteq pool
                ELSE (IF s.uses # None THEN NeedsOf[s.uses] ELSE s.needs)
                        \subseteq pool

SoundBatchesNeverRaise ==
    \A d \in Dirs : Sound(d) /\ Apart(d) =>
        \A t \in Tasks : task[t].pc \in {"raised", "undeclared"} /\ Dir(t) = d =>
            \E i \in DOMAIN task[t].batch : ~Supplied(project[d], task[t].batch[i])
=============================================================================
