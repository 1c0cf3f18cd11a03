--------------------------- MODULE EmbeddingProofs ---------------------------
(***************************************************************************)
(* Which functions the runs of a process find, for every number of runs    *)
(* and of projects, and whatever the projects hold.                        *)
(***************************************************************************)
EXTENDS Embedding, TLAPS

USE HoldingsAreProjects, FunctionsHaveNeeds, NoneIsNothing, BatchesAreParams

-----------------------------------------------------------------------------
(* Type correctness *)

\* A run that was called has a project and a batch, is at one of the batch until the
\* end, and is at a step of its project while it works.
Placed ==
    \A t \in Tasks :
        /\ task[t].pc # "idle" => task[t].dir \in Dirs /\ task[t].batch \in Batches
        /\ task[t].pc \in {"resolving", "preflight", "node", "working"} =>
            Len(task[t].outcomes) < Len(task[t].batch)
        /\ task[t].pc = "working" => task[t].pos \in DOMAIN project[task[t].dir].steps

Typed == EmbeddingTypeOK /\ Placed

LEMMA TypedInit == Init => Typed
BY DEF Init, Typed, EmbeddingTypeOK, Placed, TaskRecord, Idle, Between, Sources

\* What is known of a project and of the step that a run is at.
LEMMA ProjectsHold ==
    ASSUME Typed, NEW d \in Dirs
    PROVE  /\ project[d].stem \in Stems
           /\ Names(d) \subseteq Impls
           /\ project[d].registers \in Seq(Impls)
           /\ project[d].steps \in Seq(Step)
BY DEF Typed, EmbeddingTypeOK, IsProject, Stems, Names

LEMMA HereIsAStep ==
    ASSUME Typed, NEW t \in Tasks, AtStep(t) \/ At(t, "working")
    PROVE  /\ Dir(t) \in Dirs
           /\ task[t].pos \in DOMAIN project[Dir(t)].steps
           /\ Here(t) \in Step
           /\ Here(t) \in Steps(Dir(t))
<1>1. Dir(t) \in Dirs /\ task[t].pos \in DOMAIN project[Dir(t)].steps
  BY DEF Typed, Placed, AtStep, At, Dir
<1>2. project[Dir(t)].steps \in Seq(Step)
  BY <1>1, ProjectsHold
<1> QED
  BY <1>1, <1>2 DEF Here, Steps

LEMMA CalledIsParams ==
    ASSUME Typed, NEW t \in Tasks, At(t, "resolving")
    PROVE  /\ Called(t) \in SUBSET STRING
           /\ Len(task[t].outcomes) + 1 \in DOMAIN task[t].batch
<1>1. task[t].batch \in Seq(SUBSET STRING) /\ task[t].outcomes \in Seq(Status)
  BY DEF Typed, Placed, EmbeddingTypeOK, TaskRecord, At
<1>2. Len(task[t].outcomes) < Len(task[t].batch)
  BY DEF Typed, Placed, At
<1> QED
  BY <1>1, <1>2 DEF Called

\* One run changes its record, and nothing else does.
LEMMA MovedIsTyped ==
    ASSUME Typed, NEW t \in Tasks, NEW r \in TaskRecord,
           task' = [task EXCEPT ![t] = r], UNCHANGED directories,
           modules' \in [Stems -> Dirs \cup {None}],
           implementations' \in [Impls -> Dirs \cup {None}],
           r.pc # "idle" => r.dir \in Dirs /\ r.batch \in Batches,
           r.pc \in {"resolving", "preflight", "node", "working"} =>
                Len(r.outcomes) < Len(r.batch),
           r.pc = "working" => r.pos \in DOMAIN project[r.dir].steps
    PROVE  Typed'
<1>1. EmbeddingTypeOK'
  BY DEF Typed, EmbeddingTypeOK, directories, Stems
<1>2. ASSUME NEW u \in Tasks
      PROVE  task'[u] = IF u = t THEN r ELSE task[u]
  BY DEF Typed, EmbeddingTypeOK
<1>3. Placed'
  BY <1>2 DEF Typed, Placed, directories
<1> QED
  BY <1>1, <1>3 DEF Typed

LEMMA AnswerIsTyped ==
    ASSUME Typed, NEW t \in Tasks,
           task[t].pc \in {"preflight", "node", "working"},
           NEW status \in Status, Answer(t, status), UNCHANGED Running
    PROVE  Typed'
<1> DEFINE outcomes == Append(task[t].outcomes, status)
           pc == IF Len(outcomes) = Len(task[t].batch) THEN "answered" ELSE "resolving"
           r == Between(pc, task[t].dir, task[t].batch, outcomes)
<1>1. task[t] \in TaskRecord
  BY DEF Typed, EmbeddingTypeOK
<1>2. /\ task[t].dir \in Dirs /\ task[t].batch \in Batches
      /\ Len(task[t].outcomes) < Len(task[t].batch)
  BY DEF Typed, Placed
<1>3. outcomes \in Seq(Status) /\ Len(outcomes) = Len(task[t].outcomes) + 1
  BY <1>1 DEF TaskRecord
<1>4. Len(task[t].outcomes) \in Nat /\ Len(task[t].batch) \in Nat
  BY <1>1, <1>2 DEF TaskRecord
<1>5. task' = [task EXCEPT ![t] = r]
  BY DEF Answer, Dir
<1>6. r \in TaskRecord
  BY <1>1, <1>2, <1>3 DEF TaskRecord, Sources, Between
<1>7. Len(r.outcomes) < Len(r.batch) \/ r.pc = "answered"
  BY <1>2, <1>3, <1>4 DEF Between
<1>8. modules' \in [Stems -> Dirs \cup {None}]
      /\ implementations' \in [Impls -> Dirs \cup {None}] /\ UNCHANGED directories
  BY DEF Typed, EmbeddingTypeOK, Running, process
<1>9. r.dir \in Dirs /\ r.batch \in Batches /\ r.pc \in {"answered", "resolving"}
  BY <1>2 DEF Between
<1> HIDE DEF r
<1> QED
  BY <1>5, <1>6, <1>7, <1>8, <1>9, MovedIsTyped

\* A run moves on within its project.
LEMMA MoveIsTyped ==
    ASSUME Typed, NEW t \in Tasks,
           task[t].pc \in {"resolving", "preflight", "node", "working"},
           NEW pc \in {"preflight", "node", "working"}, NEW pos \in Nat,
           NEW keys \in SUBSET STRING, NEW source \in Sources,
           Move(t, pc, pos, keys, source),
           pc = "working" => pos \in DOMAIN project[task[t].dir].steps,
           UNCHANGED directories,
           modules' \in [Stems -> Dirs \cup {None}],
           implementations' \in [Impls -> Dirs \cup {None}]
    PROVE  Typed'
<1> DEFINE r == [pc |-> pc, dir |-> task[t].dir, batch |-> task[t].batch,
                 outcomes |-> task[t].outcomes, pos |-> pos, keys |-> keys,
                 source |-> source]
<1>1. r \in TaskRecord
  BY DEF Typed, EmbeddingTypeOK, TaskRecord
<1>2. r.dir \in Dirs /\ r.batch \in Batches /\ Len(r.outcomes) < Len(r.batch)
  BY DEF Typed, Placed
<1>3. r.pc = "working" => r.pos \in DOMAIN project[r.dir].steps
  OBVIOUS
<1>4. task' = [task EXCEPT ![t] = r]
  BY DEF Move, Dir
<1> HIDE DEF r
<1> QED
  BY <1>1, <1>2, <1>3, <1>4, MovedIsTyped

LEMMA ProducedIsTyped ==
    ASSUME Typed, NEW t \in Tasks, AtStep(t) \/ At(t, "working"), Produced(t),
           UNCHANGED Running
    PROVE  Typed'
<1>1. task[t] \in TaskRecord
  BY DEF Typed, EmbeddingTypeOK
<1> DEFINE keys == task[t].keys \cup {Here(t).produces}
<1>2. Move(t, "node", task[t].pos + 1, keys, None)
  BY DEF Produced
<1>3. task[t].pos + 1 \in Nat /\ keys \in SUBSET STRING
  BY <1>1, HereIsAStep DEF TaskRecord, Step
<1>4. UNCHANGED <<directories, modules, implementations>>
  BY DEF Running, process
<1>5. None \in Sources /\ task[t].pc \in {"node", "working"}
  BY DEF Sources, AtStep, At
<1> HIDE DEF keys
<1> QED
  BY <1>2, <1>3, <1>4, <1>5, MoveIsTyped DEF Typed, EmbeddingTypeOK

LEMMA BeginIsTyped ==
    ASSUME Typed, NEW t \in Tasks, AtStep(t), NEW source \in Sources, Begin(t, source),
           UNCHANGED Running
    PROVE  Typed'
<1>1. task[t].pos \in Nat /\ task[t].keys \in SUBSET STRING
  BY DEF Typed, EmbeddingTypeOK, TaskRecord
<1>2. UNCHANGED <<directories, modules, implementations>>
  BY DEF Running, process
<1>3. task[t].pc = "node" /\ task[t].pos \in DOMAIN project[task[t].dir].steps
  BY DEF AtStep, At, Dir
<1> QED
  BY <1>1, <1>2, <1>3, MoveIsTyped DEF Typed, EmbeddingTypeOK, Begin

LEMMA LeavingIsTyped ==
    ASSUME Typed, NEW t \in Tasks, task[t].pc # "idle", NEW pc \in {"raised", "undeclared"},
           task' = [task EXCEPT ![t] = Between(pc, Dir(t), task[t].batch, <<>>)],
           UNCHANGED directories,
           modules' \in [Stems -> Dirs \cup {None}],
           implementations' \in [Impls -> Dirs \cup {None}]
    PROVE  Typed'
<1> DEFINE r == Between(pc, task[t].dir, task[t].batch, <<>>)
<1>1. task' = [task EXCEPT ![t] = r]
  BY DEF Dir
<1>2. task[t].dir \in Dirs /\ task[t].batch \in Batches
  BY DEF Typed, Placed
<1>3. r \in TaskRecord /\ r.pc = pc /\ r.dir \in Dirs /\ r.batch \in Batches
  BY <1>2 DEF TaskRecord, Between, Sources
<1> HIDE DEF r
<1> QED
  BY <1>1, <1>3, MovedIsTyped

LEMMA RaiseIsTyped ==
    ASSUME Typed, NEW t \in Tasks, task[t].pc # "idle", Raise(t), UNCHANGED directories,
           modules' \in [Stems -> Dirs \cup {None}],
           implementations' \in [Impls -> Dirs \cup {None}]
    PROVE  Typed'
BY LeavingIsTyped DEF Raise

LEMMA SourceIsTyped ==
    ASSUME Typed, NEW t \in Tasks, AtHook(t)
    PROVE  SourceOf(t) \in Sources
<1>1. Here(t) \in Step
  BY HereIsAStep DEF AtHook
<1>2. Here(t).uses # None => implementations[Here(t).uses] \in Dirs \cup {None}
  BY <1>1 DEF Typed, EmbeddingTypeOK, Step
<1> QED
  BY <1>2 DEF SourceOf, Sources

LEMMA ImportIsTyped ==
    ASSUME Typed, NEW d \in Dirs, Import(d)
    PROVE  /\ modules' \in [Stems -> Dirs \cup {None}]
           /\ implementations' \in [Impls -> Dirs \cup {None}]
BY DEF Typed, EmbeddingTypeOK, Import, process

LEMMA TypedNext == Typed /\ [Next]_embeddingVars => Typed'
<1> SUFFICES ASSUME Typed, [Next]_embeddingVars PROVE Typed'
  OBVIOUS
<1> USE DEF At
<1>1. CASE \E d \in Dirs : Repair(d)
  <2>1. UNCHANGED <<project, modules, implementations, task>>
        /\ \E d \in Dirs : faulty' = faulty \ {d}
    BY <1>1 DEF Repair, process
  <2> QED
    BY <2>1 DEF Typed, EmbeddingTypeOK, Placed, Stems
<1>2. ASSUME NEW t \in Tasks, NEW d \in Dirs, NEW batch \in Batches, Call(t, d, batch)
      PROVE  Typed'
  <2> DEFINE r == Between("resolving", d, batch, <<>>)
  <2>1. r \in TaskRecord
    BY DEF TaskRecord, Between, Sources
  <2>2. r.dir \in Dirs /\ r.batch \in Batches /\ r.pc = "resolving"
    BY DEF Between
  <2>3. Len(r.outcomes) < Len(r.batch)
    <3>1. batch \in Seq(SUBSET STRING) /\ batch # <<>>
      OBVIOUS
    <3>2. Len(batch) > 0
      BY <3>1
    <3> QED
      BY <3>2 DEF Between
  <2>4. task' = [task EXCEPT ![t] = r] /\ UNCHANGED <<directories, modules, implementations>>
    BY <1>2 DEF Call, process
  <2> HIDE DEF r
  <2> QED
    BY <2>1, <2>2, <2>3, <2>4, MovedIsTyped DEF Typed, EmbeddingTypeOK
<1>3. ASSUME NEW t \in Tasks, TaskStep(t)
      PROVE  Typed'
  <2>1. CASE ImportFails(t)
    <3>1. Dir(t) \in Dirs
      BY <2>1 DEF ImportFails, Typed, Placed, Dir
    <3>2. modules' \in [Stems -> Dirs \cup {None}]
          /\ implementations' \in [Impls -> Dirs \cup {None}]
      <4>1. modules' = [modules EXCEPT ![project[Dir(t)].stem] = None]
        BY <2>1 DEF ImportFails
      <4>2. PICK k \in 0 .. Len(project[Dir(t)].registers) :
                implementations' =
                    [n \in Impls |-> IF \E i \in 1 .. k : project[Dir(t)].registers[i] = n
                                     THEN Dir(t) ELSE implementations[n]]
        BY <2>1 DEF ImportFails
      <4> QED
        BY <3>1, <4>1, <4>2 DEF Typed, EmbeddingTypeOK
    <3> QED
      BY <2>1, <3>2, RaiseIsTyped DEF ImportFails
  <2>2. CASE Resolve(t)
    <3>1. Dir(t) \in Dirs /\ Import(Dir(t)) /\ UNCHANGED directories
      BY <2>2 DEF Resolve, Typed, Placed, Dir
    <3>2. modules' \in [Stems -> Dirs \cup {None}]
          /\ implementations' \in [Impls -> Dirs \cup {None}]
      BY <3>1, ImportIsTyped
    <3>3. Raise(t) \/ Move(t, "preflight", 1, Called(t), None)
      BY <2>2 DEF Resolve
    <3>4. Called(t) \in SUBSET STRING /\ task[t].pc = "resolving"
      BY <2>2, CalledIsParams DEF Resolve
    <3>5. None \in Sources
      BY DEF Sources
    <3> QED
      BY <3>1, <3>2, <3>3, <3>4, <3>5, RaiseIsTyped, MoveIsTyped
  <2>3. CASE PreflightOk(t)
    <3>1. task[t].pos \in Nat /\ task[t].keys \in SUBSET STRING /\ None \in Sources
      BY DEF Typed, EmbeddingTypeOK, TaskRecord, Sources
    <3>2. UNCHANGED <<directories, modules, implementations>>
      BY <2>3 DEF PreflightOk, Running, process
    <3> QED
      BY <2>3, <3>1, <3>2, MoveIsTyped DEF PreflightOk, Typed, EmbeddingTypeOK
  <2>4. CASE SkipGate(t)
    BY <2>4, ProducedIsTyped DEF SkipGate
  <2>5. CASE Succeed(t)
    BY <2>5, ProducedIsTyped DEF Succeed
  <2>6. CASE StartEngineStep(t)
    BY <2>6, BeginIsTyped DEF StartEngineStep, Sources
  <2>7. CASE StartHook(t)
    BY <2>7, BeginIsTyped, SourceIsTyped DEF StartHook, AtHook
  <2>8. CASE Unbound(t)
    <3>1. UNCHANGED <<directories, modules, implementations>>
      BY <2>8 DEF Unbound, Running, process
    <3> QED
      BY <2>8, <3>1, RaiseIsTyped DEF Unbound, AtHook, AtStep, Typed, EmbeddingTypeOK
  <2>9. CASE \/ PreflightBlocked(t) \/ PauseAtGate(t) \/ Unresolved(t) \/ Fail(t)
            \/ Misconfigured(t) \/ Decline(t) \/ Complete(t)
    <3>1. \E status \in Status : Answer(t, status)
      BY <2>9 DEF PreflightBlocked, PauseAtGate, Unresolved, Fail, Misconfigured, Decline,
                  Complete, Status
    <3>2. task[t].pc \in {"preflight", "node", "working"} /\ UNCHANGED Running
      BY <2>9 DEF PreflightBlocked, PauseAtGate, Unresolved, Fail, Misconfigured, Decline,
                  Complete, AtHook, AtStep
    <3> QED
      BY <3>1, <3>2, AnswerIsTyped
  <2>10. CASE PreflightRaises(t)
    <3>1. UNCHANGED <<directories, modules, implementations>>
      BY <2>10 DEF PreflightRaises, Running, process
    <3> QED
      BY <2>10, <3>1, LeavingIsTyped DEF PreflightRaises, At, Typed, EmbeddingTypeOK
  <2> QED
    BY <1>3, <2>1, <2>2, <2>3, <2>4, <2>5, <2>6, <2>7, <2>8, <2>9, <2>10 DEF TaskStep
<1>4. CASE UNCHANGED embeddingVars
  BY <1>4 DEF embeddingVars, Typed, EmbeddingTypeOK, Placed, Stems
<1> QED
  BY <1>1, <1>2, <1>3, <1>4 DEF Next

\* Every state of the process is of the types above, whatever is loaded and however
\* the runs interleave.
THEOREM EmbeddingTypeCorrect == Spec => []EmbeddingTypeOK
<1>1. Typed => EmbeddingTypeOK
  BY DEF Typed
<1> QED
  BY <1>1, TypedInit, TypedNext, PTL DEF Spec

-----------------------------------------------------------------------------
(* What the steps do *)

Loaded == {"preflight", "node", "working"}

\* A step of a run, once its project is loaded.
RunEffect(t) ==
    LET old == task[t]
        new == task'[t]
    IN
    /\ UNCHANGED <<project, faulty, modules, implementations>>
    /\ old.pc \in Loaded
    /\ \A u \in Tasks \ {t} : task'[u] = task[u]
    /\ new.dir = old.dir /\ new.batch = old.batch
    /\ new.pc \notin {"idle", "preflight"}
    /\ new.pc = "raised" => Unbound(t) /\ new.outcomes = <<>>
    /\ new.pc = "undeclared" => ~BackendsDeclared(Dir(t)) /\ new.outcomes = <<>>
    /\ new.pc \in Loaded => new.outcomes = old.outcomes
    /\ new.pc \in {"answered", "resolving"} =>
        \E status \in Status :
            /\ new.outcomes = Append(old.outcomes, status)
            /\ status = "unresolved" => Unresolved(t) \/ Misconfigured(t)
    /\ new.pc = "working" =>
        /\ AtStep(t) /\ new.pos = old.pos /\ new.keys = old.keys
        /\ new.source = "engine" \/ (AtHook(t) /\ new.source = SourceOf(t))
    /\ new.pc = "node" =>
        \/ new.pos = old.pos /\ new.keys = old.keys /\ old.pc = "preflight"
        \/ /\ AtStep(t) \/ At(t, "working")
           /\ new.pos = old.pos + 1 /\ new.keys = old.keys \cup {Here(t).produces}

LEMMA RunsHaveEffect ==
    ASSUME Typed, NEW t \in Tasks, TaskStep(t), ~ImportFails(t), ~Resolve(t)
    PROVE  RunEffect(t)
<1> USE DEF Typed, EmbeddingTypeOK, At, Dir, Loaded
<1>1. ASSUME NEW pc, NEW pos, NEW keys, NEW source, Move(t, pc, pos, keys, source)
      PROVE  /\ \A u \in Tasks \ {t} : task'[u] = task[u]
             /\ task'[t].dir = task[t].dir /\ task'[t].batch = task[t].batch
             /\ task'[t].outcomes = task[t].outcomes
             /\ task'[t].pc = pc /\ task'[t].pos = pos /\ task'[t].keys = keys
             /\ task'[t].source = source
  BY <1>1 DEF Move
<1>2. ASSUME NEW status \in Status, Answer(t, status)
      PROVE  /\ \A u \in Tasks \ {t} : task'[u] = task[u]
             /\ task'[t].dir = task[t].dir /\ task'[t].batch = task[t].batch
             /\ task'[t].outcomes = Append(task[t].outcomes, status)
             /\ task'[t].pc \in {"answered", "resolving"}
  BY <1>2 DEF Answer, Between
<1>3. CASE PreflightOk(t)
  BY <1>3, <1>1 DEF PreflightOk, RunEffect, Running, directories, process
<1>4. CASE SkipGate(t) \/ Succeed(t)
  <2>1. /\ Move(t, "node", task[t].pos + 1, task[t].keys \cup {Here(t).produces}, None)
        /\ UNCHANGED Running
        /\ AtStep(t) \/ At(t, "working")
    BY <1>4 DEF SkipGate, Succeed, Produced
  <2>2. task[t].pc \in Loaded
    BY <2>1 DEF AtStep
  <2> QED
    BY <2>1, <2>2, <1>1 DEF RunEffect, Running, directories, process
<1>5. CASE StartEngineStep(t)
  <2>1. Move(t, "working", task[t].pos, task[t].keys, "engine") /\ AtStep(t)
        /\ UNCHANGED Running
    BY <1>5 DEF StartEngineStep, Begin
  <2> QED
    BY <2>1, <1>1 DEF RunEffect, AtStep, Running, directories, process
<1>6. CASE StartHook(t)
  <2>1. Move(t, "working", task[t].pos, task[t].keys, SourceOf(t)) /\ AtHook(t)
        /\ UNCHANGED Running
    BY <1>6 DEF StartHook, Begin
  <2>2. AtStep(t)
    BY <2>1 DEF AtHook
  <2> QED
    BY <2>1, <2>2, <1>1 DEF RunEffect, AtStep, Running, directories, process
<1>7. CASE Unbound(t)
  <2>1. /\ \A u \in Tasks \ {t} : task'[u] = task[u]
        /\ task'[t].dir = task[t].dir /\ task'[t].batch = task[t].batch
        /\ task'[t].outcomes = <<>> /\ task'[t].pc = "raised"
    BY <1>7 DEF Unbound, Raise, Between
  <2>2. task[t].pc = "node" /\ UNCHANGED Running
    BY <1>7 DEF Unbound, AtHook, AtStep
  <2> QED
    BY <1>7, <2>1, <2>2 DEF RunEffect, Running, directories, process
<1>8. CASE \/ PreflightBlocked(t) \/ PauseAtGate(t) \/ Unresolved(t) \/ Fail(t)
          \/ Misconfigured(t) \/ Decline(t) \/ Complete(t)
  <2>1. \E status \in Status :
            /\ Answer(t, status)
            /\ status = "unresolved" => Unresolved(t) \/ Misconfigured(t)
    BY <1>8 DEF PreflightBlocked, PauseAtGate, Unresolved, Fail, Misconfigured, Decline,
                Complete, Status
  <2>2. task[t].pc \in Loaded /\ UNCHANGED Running
    BY <1>8 DEF PreflightBlocked, PauseAtGate, Unresolved, Fail, Misconfigured, Decline,
                Complete, AtHook, AtStep
  <2> QED
    BY <2>1, <2>2, <1>2 DEF RunEffect, Running, directories, process
<1>9. CASE PreflightRaises(t)
  <2>1. /\ \A u \in Tasks \ {t} : task'[u] = task[u]
        /\ task'[t].dir = task[t].dir /\ task'[t].batch = task[t].batch
        /\ task'[t].outcomes = <<>> /\ task'[t].pc = "undeclared"
    BY <1>9 DEF PreflightRaises, Between
  <2>2. task[t].pc = "preflight" /\ UNCHANGED Running /\ ~BackendsDeclared(Dir(t))
    BY <1>9 DEF PreflightRaises
  <2> QED
    BY <2>1, <2>2 DEF RunEffect, Running, directories, process
<1> QED
  BY <1>3, <1>4, <1>5, <1>6, <1>7, <1>8, <1>9 DEF TaskStep

\* A module is loaded, or not: by its run, before it begins.
LoadEffect(t) ==
    LET d == task[t].dir
        old == task[t]
        new == task'[t]
    IN
    /\ UNCHANGED <<project, faulty>>
    /\ old.pc = "resolving" /\ d \in Dirs
    /\ \A u \in Tasks \ {t} : task'[u] = task[u]
    /\ new.dir = old.dir /\ new.batch = old.batch
    /\ \/ /\ new.pc = "preflight" /\ new.outcomes = old.outcomes /\ new.pos = 1
          /\ new.keys = Called(t) /\ ~Refused(d)
       \/ new.pc = "raised" /\ new.outcomes = <<>>
    /\ \/ Importable(d) /\ Import(d) /\ (new.pc = "raised" => Refused(d))
       \/ /\ ~Importable(d) /\ new.pc = "raised"
          /\ modules' = [modules EXCEPT ![project[d].stem] = None]
          /\ \A n \in Impls :
                \/ implementations'[n] = implementations[n]
                \/ n \in Names(d) /\ implementations[n] = None

LEMMA LoadsHaveEffect ==
    ASSUME Typed, NEW t \in Tasks, ImportFails(t) \/ Resolve(t)
    PROVE  LoadEffect(t)
<1> USE DEF Typed, EmbeddingTypeOK, At, Dir
<1>1. task[t].pc = "resolving" /\ task[t].dir \in Dirs /\ UNCHANGED <<project, faulty>>
  BY DEF ImportFails, Resolve, Placed, directories
<1>2. ASSUME Raise(t)
      PROVE  /\ \A u \in Tasks \ {t} : task'[u] = task[u]
             /\ task'[t].dir = task[t].dir /\ task'[t].batch = task[t].batch
             /\ task'[t].outcomes = <<>> /\ task'[t].pc = "raised"
  BY <1>2 DEF Raise, Between
<1>3. CASE ImportFails(t)
  <2> DEFINE names == project[task[t].dir].registers
  <2>1. /\ Raise(t) /\ ~Importable(task[t].dir)
        /\ modules' = [modules EXCEPT ![project[task[t].dir].stem] = None]
    BY <1>3 DEF ImportFails
  <2>2. PICK k \in 0 .. Len(names) :
            /\ \A i \in 1 .. k : Registrable(names[i])
            /\ implementations' =
                [n \in Impls |-> IF \E i \in 1 .. k : names[i] = n THEN task[t].dir
                                 ELSE implementations[n]]
    BY <1>3 DEF ImportFails
  <2>3. ASSUME NEW n \in Impls
        PROVE  \/ implementations'[n] = implementations[n]
               \/ n \in Names(task[t].dir) /\ implementations[n] = None
    <3>1. CASE \E i \in 1 .. k : names[i] = n
      <4>1. PICK i \in 1 .. k : names[i] = n
        BY <3>1
      <4>2. names \in Seq(Impls)
        BY <1>1, ProjectsHold
      <4>3. i \in DOMAIN names
        BY <4>2
      <4> QED
        BY <2>2, <4>1, <4>3 DEF Names, Registrable
    <3> QED
      BY <2>2, <3>1
  <2> QED
    BY <1>1, <1>2, <2>1, <2>3 DEF LoadEffect
<1>4. CASE Resolve(t)
  <2>1. Importable(task[t].dir) /\ Import(task[t].dir)
    BY <1>4 DEF Resolve
  <2>2. CASE Refused(task[t].dir)
    <3>1. Raise(t)
      BY <1>4, <2>2 DEF Resolve
    <3> QED
      BY <1>1, <1>2, <2>1, <2>2, <3>1 DEF LoadEffect
  <2>3. CASE ~Refused(task[t].dir)
    <3>1. Move(t, "preflight", 1, Called(t), None)
      BY <1>4, <2>3 DEF Resolve
    <3>2. /\ \A u \in Tasks \ {t} : task'[u] = task[u]
          /\ task'[t].dir = task[t].dir /\ task'[t].batch = task[t].batch
          /\ task'[t].outcomes = task[t].outcomes /\ task'[t].pc = "preflight"
          /\ task'[t].pos = 1 /\ task'[t].keys = Called(t)
      BY <3>1 DEF Move
    <3> QED
      BY <1>1, <2>1, <2>3, <3>2 DEF LoadEffect
  <2> QED
    BY <2>2, <2>3
<1> QED
  BY <1>3, <1>4

CallEffect(t) ==
    /\ UNCHANGED <<project, faulty, modules, implementations>>
    /\ \A u \in Tasks \ {t} : task'[u] = task[u]
    /\ task'[t].pc = "resolving" /\ task'[t].outcomes = <<>>

LEMMA StepsHaveEffect ==
    ASSUME Typed, [Next]_embeddingVars
    PROVE  \/ /\ UNCHANGED <<project, modules, implementations, task>>
              /\ faulty' \subseteq faulty
           \/ \E t \in Tasks : CallEffect(t) \/ LoadEffect(t) \/ RunEffect(t)
<1>1. CASE \E d \in Dirs : Repair(d)
  BY <1>1 DEF Repair, process
<1>2. ASSUME NEW t \in Tasks, NEW d \in Dirs, NEW batch \in Batches, Call(t, d, batch)
      PROVE  CallEffect(t)
  BY <1>2 DEF Call, CallEffect, Between, Typed, EmbeddingTypeOK, directories, process
<1>3. ASSUME NEW t \in Tasks, TaskStep(t)
      PROVE  LoadEffect(t) \/ RunEffect(t)
  BY <1>3, LoadsHaveEffect, RunsHaveEffect
<1>4. CASE UNCHANGED embeddingVars
  BY <1>4 DEF embeddingVars
<1> QED
  BY <1>1, <1>2, <1>3, <1>4 DEF Next

\* A name that has a function keeps it.
LEMMA NamesAreKept ==
    ASSUME Typed, [Next]_embeddingVars, NEW n \in Impls, implementations[n] # None
    PROVE  implementations'[n] = implementations[n]
<1>1. ASSUME NEW t \in Tasks, LoadEffect(t)
      PROVE  implementations'[n] = implementations[n]
  <2>1. task[t].dir \in Dirs
    BY <1>1 DEF LoadEffect
  <2>2. CASE Importable(task[t].dir) /\ Import(task[t].dir)
    BY <2>1, <2>2 DEF Importable, Import, Registrable, process
  <2> QED
    BY <1>1, <2>2 DEF LoadEffect
<1> QED
  BY <1>1, StepsHaveEffect DEF CallEffect, RunEffect

-----------------------------------------------------------------------------
(* A step that names an implementation of its project runs that one *)

Imported(d) == \A n \in Names(d) : implementations[n] = d
ImportedThen(d) == \A n \in Names(d) : implementations'[n] = d

ModulesOwn == \A s \in Stems : modules[s] # None => Imported(modules[s])

RunsOwn ==
    \A t \in Tasks :
        /\ task[t].pc \in Loaded => Imported(Dir(t))
        /\ At(t, "working") /\ task[t].source \in Dirs =>
            Here(t).uses \in Impls /\ implementations[Here(t).uses] = task[t].source

Owned == Typed /\ ModulesOwn /\ RunsOwn

LEMMA OwnedInit == Init => Owned
<1> SUFFICES ASSUME Init PROVE ModulesOwn /\ RunsOwn
  BY TypedInit DEF Owned
<1>1. ModulesOwn
  BY DEF Init, ModulesOwn
<1>2. \A t \in Tasks : task[t].pc = "idle"
  BY DEF Init, Idle, Between
<1> QED
  BY <1>1, <1>2 DEF RunsOwn, At, Loaded

LEMMA ImportedIsKept ==
    ASSUME Typed, [Next]_embeddingVars, NEW d \in Dirs, Imported(d)
    PROVE  ImportedThen(d)
<1>1. project' = project
  BY StepsHaveEffect DEF CallEffect, LoadEffect, RunEffect
<1>2. \A n \in Names(d) : n \in Impls /\ implementations[n] # None
  BY ProjectsHold DEF Imported
<1> QED
  BY <1>1, <1>2, NamesAreKept DEF Imported, ImportedThen

LEMMA ImportImports ==
    ASSUME Owned, NEW d \in Dirs, Import(d), UNCHANGED project
    PROVE  ImportedThen(d)
<1>1. Names(d) \subseteq Impls /\ project[d].stem \in Stems
  BY ProjectsHold DEF Owned
<1>2. CASE Cached(d)
  <2>1. modules[project[d].stem] = d /\ d # None /\ implementations' = implementations
    BY <1>2 DEF Cached, Import, process
  <2> QED
    BY <1>1, <2>1 DEF Owned, ModulesOwn, Imported, ImportedThen
<1>3. CASE ~Cached(d)
  BY <1>1, <1>3 DEF Import, ImportedThen
<1> QED
  BY <1>2, <1>3

LEMMA OwnedNext == Owned /\ [Next]_embeddingVars => Owned'
<1> SUFFICES ASSUME Owned, [Next]_embeddingVars PROVE Owned'
  OBVIOUS
<1> USE DEF Owned
<1>1. Typed' /\ project' = project
  BY TypedNext, StepsHaveEffect DEF CallEffect, LoadEffect, RunEffect
<1>2. \A d \in Dirs : Imported(d) => ImportedThen(d)
  BY ImportedIsKept
<1>3. ModulesOwn'
  <2> SUFFICES ASSUME NEW s \in Stems, modules'[s] # None
               PROVE  ImportedThen(modules'[s])
    BY <1>1 DEF ModulesOwn, Stems, Imported, ImportedThen, Names
  <2>1. modules[s] \in Dirs \cup {None} /\ modules'[s] \in Dirs
    BY <1>1 DEF Typed, EmbeddingTypeOK, Stems
  <2>2. CASE modules'[s] = modules[s]
    BY <1>2, <2>1, <2>2 DEF ModulesOwn
  <2>3. CASE modules'[s] # modules[s]
    <3>1. PICK t \in Tasks : LoadEffect(t)
      BY <2>3, StepsHaveEffect DEF CallEffect, RunEffect
    <3>2. task[t].dir \in Dirs /\ Import(task[t].dir) /\ modules'[s] = task[t].dir
      BY <2>1, <2>3, <3>1 DEF LoadEffect, Import, process, Typed, EmbeddingTypeOK
    <3> QED
      BY <1>1, <3>2, ImportImports
  <2> QED
    BY <2>2, <2>3
<1>4. RunsOwn'
  <2> SUFFICES ASSUME NEW t \in Tasks
               PROVE  /\ task'[t].pc \in Loaded => ImportedThen(task'[t].dir)
                      /\ task'[t].pc = "working" /\ task'[t].source \in Dirs =>
                            /\ Here(t)'.uses \in Impls
                            /\ implementations'[Here(t)'.uses] = task'[t].source
    BY <1>1 DEF RunsOwn, At, Dir, Loaded, Imported, ImportedThen, Names
  <2>1. CASE task'[t] = task[t]
    <3>1. Here(t)' = Here(t)
      BY <1>1, <2>1 DEF Here, Dir
    <3>2. task[t].pc \in Loaded => Dir(t) \in Dirs
      BY DEF Typed, Placed, Dir, Loaded
    <3>3. None \notin Dirs
      OBVIOUS
    <3> QED
      BY <1>2, <2>1, <3>1, <3>2, <3>3, NamesAreKept DEF RunsOwn, At, Dir
  <2>2. CASE LoadEffect(t)
    BY <1>1, <2>2, ImportImports DEF LoadEffect, Loaded
  <2>3. CASE RunEffect(t)
    <3>1. Dir(t) \in Dirs /\ Imported(Dir(t)) /\ task'[t].dir = Dir(t)
      BY <2>3 DEF RunEffect, RunsOwn, Typed, Placed, Dir, Loaded
    <3>2. ASSUME task'[t].pc = "working", task'[t].source \in Dirs
          PROVE  /\ Here(t)'.uses \in Impls
                 /\ implementations'[Here(t)'.uses] = task'[t].source
      <4>1. /\ AtHook(t) /\ task'[t].source = SourceOf(t) /\ Here(t)' = Here(t)
            /\ implementations' = implementations
        BY <2>3, <3>2 DEF RunEffect, Here, Dir
      <4>2. Here(t).uses # None /\ SourceOf(t) = implementations[Here(t).uses]
        BY <3>2, <4>1 DEF SourceOf
      <4>3. Here(t) \in Step
        BY <4>1, HereIsAStep DEF AtHook
      <4> QED
        BY <4>1, <4>2, <4>3 DEF Step
    <3> QED
      BY <1>2, <3>1, <3>2
  <2>4. CASE CallEffect(t)
    BY <2>4 DEF CallEffect, Loaded
  <2> QED
    BY <2>1, <2>2, <2>3, <2>4, StepsHaveEffect DEF CallEffect, LoadEffect, RunEffect
<1> QED
  BY <1>1, <1>3, <1>4

\* Two projects, or a project and what is left of a failed import, never make a step
\* run a function of another project in place of the one that its own project
\* registers: names are taken once, and a module is kept only with all its names.
THEOREM OwnImplementationsRun == Spec => []OwnImplementations
<1>1. Owned => OwnImplementations
  <2> SUFFICES ASSUME Owned, NEW t \in Tasks, At(t, "working"), task[t].source \in Dirs,
                      Here(t).uses \in Names(Dir(t))
               PROVE  task[t].source = Dir(t)
    BY DEF OwnImplementations
  <2>1. Imported(Dir(t)) /\ implementations[Here(t).uses] = task[t].source
    BY DEF Owned, RunsOwn, At, Loaded
  <2> QED
    BY <2>1 DEF Imported
<1> QED
  BY <1>1, OwnedInit, OwnedNext, PTL DEF Spec

-----------------------------------------------------------------------------
(* A workflow that `check` accepts finds everything that its steps name *)

Accepted(d) ==
    CheckFile(project[d]) /\ (project[d].document \/ Registered(d))

UsesResolve(t) ==
    \A s \in Steps(Dir(t)) : s.uses # None => implementations[s.uses] # None

AcceptedRunsResolve ==
    \A t \in Tasks :
        Dir(t) # None /\ Accepted(Dir(t)) =>
            /\ ~At(t, "undeclared")
            /\ \A i \in DOMAIN task[t].outcomes : task[t].outcomes[i] # "unresolved"
            /\ task[t].pc \in Loaded => UsesResolve(t)

Resolving == Owned /\ AcceptedRunsResolve

LEMMA UsesAreImpls ==
    ASSUME Typed, NEW d \in Dirs, NEW s \in Steps(d), s.uses # None
    PROVE  s.uses \in Impls
<1>1. project[d].steps \in Seq(Step)
  BY ProjectsHold
<1>2. s \in Step
  BY <1>1 DEF Steps
<1> QED
  BY <1>2 DEF Step

\* The step that a run of an accepted workflow is at finds its function.
LEMMA AcceptedStepsHaveSource ==
    ASSUME Typed, NEW t \in Tasks, AtHook(t), CheckFile(project[Dir(t)]), UsesResolve(t)
    PROVE  SourceOf(t) # None
<1>1. Here(t) \in Steps(Dir(t))
  BY HereIsAStep DEF AtHook
<1>2. Here(t).uses # None => implementations[Here(t).uses] # None
  BY <1>1 DEF UsesResolve
<1>3. PICK i \in DOMAIN project[Dir(t)].steps : Here(t) = project[Dir(t)].steps[i]
  BY <1>1 DEF Steps
<1>4. Required(Here(t)) => Here(t).name \in Hooks(Dir(t))
  BY <1>3 DEF CheckFile, Hooks
<1>5. Here(t).name \in Hooks(Dir(t)) \/ Here(t).uses # None \/ "default" \in Here(t).sets
  BY <1>4 DEF Required, AtHook
<1>6. None # "file" /\ None # "default"
  OBVIOUS
<1> QED
  BY <1>2, <1>5, <1>6 DEF SourceOf

\* So does the project of its resource.
LEMMA AcceptedStepsHaveResource ==
    ASSUME Typed, NEW t \in Tasks, At(t, "working"), CheckFile(project[Dir(t)])
    PROVE  HasResource(t)
<1>1. Here(t) \in Steps(Dir(t))
  BY HereIsAStep
<1>2. PICK i \in DOMAIN project[Dir(t)].steps : Here(t) = project[Dir(t)].steps[i]
  BY <1>1 DEF Steps
<1> QED
  BY <1>2 DEF CheckFile, HasResource

\* So does its manifest of every backend.
LEMMA AcceptedBackendsAreDeclared ==
    ASSUME NEW d \in Dirs, CheckFile(project[d])
    PROVE  BackendsDeclared(d)
BY DEF CheckFile, BackendsDeclared, NeedsResource, Steps

LEMMA ResolvingInit == Init => Resolving
<1> SUFFICES ASSUME Init PROVE AcceptedRunsResolve
  BY OwnedInit DEF Resolving
<1>1. \A t \in Tasks : task[t].pc = "idle" /\ task[t].dir = None
  BY DEF Init, Idle, Between
<1> QED
  BY <1>1 DEF AcceptedRunsResolve, Dir, At

LEMMA ResolvingNext == Resolving /\ [Next]_embeddingVars => Resolving'
<1> SUFFICES ASSUME Resolving, [Next]_embeddingVars PROVE AcceptedRunsResolve'
  BY OwnedNext DEF Resolving
<1> USE DEF Resolving, Owned
<1>1. Typed' /\ project' = project
  BY TypedNext, StepsHaveEffect DEF CallEffect, LoadEffect, RunEffect
<1> SUFFICES ASSUME NEW t \in Tasks, task'[t].dir # None, Accepted(task'[t].dir)
             PROVE  /\ task'[t].pc # "undeclared"
                    /\ \A i \in DOMAIN task'[t].outcomes :
                            task'[t].outcomes[i] # "unresolved"
                    /\ task'[t].pc \in Loaded =>
                        \A s \in Steps(task'[t].dir) :
                            s.uses # None => implementations'[s.uses] # None
  BY <1>1 DEF AcceptedRunsResolve, UsesResolve, Accepted, At, Dir, Steps, Names, Registered
<1>2. task'[t].dir \in Dirs
  BY <1>1 DEF Typed, EmbeddingTypeOK, TaskRecord
<1>3. CASE task'[t] = task[t]
  <2>1. \A s \in Steps(task[t].dir) : s.uses # None => s.uses \in Impls
    BY <1>2, <1>3, UsesAreImpls
  <2> QED
    BY <1>3, <2>1, NamesAreKept DEF AcceptedRunsResolve, UsesResolve, At, Dir
<1>4. CASE CallEffect(t)
  BY <1>4 DEF CallEffect, Loaded
<1>5. CASE LoadEffect(t)
  <2>1. task'[t].outcomes = task[t].outcomes \/ task'[t].outcomes = <<>>
    BY <1>5 DEF LoadEffect
  <2>2. \A i \in DOMAIN task'[t].outcomes : task'[t].outcomes[i] # "unresolved"
    BY <1>5, <2>1 DEF LoadEffect, AcceptedRunsResolve, Dir
  <2>3. ASSUME task'[t].pc \in Loaded, NEW s \in Steps(task'[t].dir), s.uses # None
        PROVE  implementations'[s.uses] # None
    <3>1. ~Refused(task[t].dir) /\ Import(task[t].dir) /\ task'[t].dir = task[t].dir
      BY <1>5, <2>3 DEF LoadEffect, Loaded
    <3>2. CASE project[task[t].dir].document
      BY <2>3, <3>1, <3>2 DEF Refused
    <3>3. CASE Registered(task[t].dir)
      <4>1. s.uses \in Names(task[t].dir)
        BY <2>3, <3>1, <3>3 DEF Registered
      <4> QED
        BY <1>1, <1>2, <3>1, <4>1, ImportImports DEF ImportedThen
    <3> QED
      BY <3>1, <3>2, <3>3 DEF Accepted
  <2>4. task'[t].pc # "undeclared"
    BY <1>5 DEF LoadEffect
  <2> QED
    BY <2>2, <2>3, <2>4
<1>6. CASE RunEffect(t)
  <2>1. task'[t].dir = task[t].dir /\ task[t].pc \in Loaded
        /\ implementations' = implementations
    BY <1>6 DEF RunEffect
  <2>2. UsesResolve(t) /\ CheckFile(project[Dir(t)])
        /\ \A i \in DOMAIN task[t].outcomes : task[t].outcomes[i] # "unresolved"
    BY <2>1 DEF AcceptedRunsResolve, Accepted, Dir
  <2>3. ~Unresolved(t) /\ ~Misconfigured(t)
    BY <2>2, AcceptedStepsHaveSource, AcceptedStepsHaveResource
       DEF Unresolved, Misconfigured
  <2>4. task[t].outcomes \in Seq(Status)
    BY DEF Typed, EmbeddingTypeOK, TaskRecord
  <2>5. CASE task'[t].pc \in {"answered", "resolving"}
    <3>1. PICK status \in Status : /\ task'[t].outcomes = Append(task[t].outcomes, status)
                                   /\ status # "unresolved"
      BY <1>6, <2>3, <2>5 DEF RunEffect
    <3> QED
      BY <2>2, <2>4, <2>5, <3>1 DEF Loaded
  <2>6. CASE task'[t].pc \in Loaded
    BY <1>6, <2>1, <2>2, <2>6 DEF RunEffect, UsesResolve, Dir, Loaded
  <2>7. CASE task'[t].pc = "raised"
    BY <1>6, <2>7 DEF RunEffect, Loaded
  <2>8. task'[t].pc \in {"answered", "resolving", "raised"} \cup Loaded
    <3>1. task'[t].pc # "undeclared"
      BY <1>2, <1>6, <2>1, <2>2, AcceptedBackendsAreDeclared DEF RunEffect, Dir
    <3> QED
      BY <1>1, <1>6, <3>1 DEF RunEffect, Typed, EmbeddingTypeOK, TaskRecord, Loaded
  <2> QED
    BY <2>5, <2>6, <2>7, <2>8
<1> QED
  BY <1>3, <1>4, <1>5, <1>6, StepsHaveEffect DEF CallEffect, LoadEffect, RunEffect

\* No run of a workflow that `check` accepts fails, or raises, for want of a function, a
\* backend or a schema, whatever is loaded between the check and the run.
THEOREM CheckedStepsDoResolve == Spec => []CheckedStepsResolve
<1>1. Resolving => CheckedStepsResolve
  BY DEF Resolving, AcceptedRunsResolve, Accepted, CheckedStepsResolve
<1> QED
  BY <1>1, ResolvingInit, ResolvingNext, PTL DEF Spec

-----------------------------------------------------------------------------
(* A batch of a well-formed workflow keeps its outcomes *)

\* The module of a project that nobody shares names with has been loaded, or nothing
\* of it has.
FreshOrOwn(d) ==
    \/ modules[project[d].stem] = None /\ \A n \in Names(d) : implementations[n] = None
    \/ modules[project[d].stem] = d

ApartAreFreshOrOwn ==
    /\ \A d \in faulty : project[d].faulty
    /\ \A d \in Dirs : Sound(d) /\ Apart(d) => FreshOrOwn(d)

\* The pool has what the run was called with and what the steps before produced.
PoolsAreSupplied ==
    \A t \in Tasks : task[t].pc \in Loaded =>
        Called(t) \cup {project[Dir(t)].steps[j].produces : j \in 1 .. (task[t].pos - 1)}
            \subseteq task[t].keys

Kept == Owned /\ ApartAreFreshOrOwn /\ PoolsAreSupplied /\ SoundBatchesNeverRaise

LEMMA KeptInit == Init => Kept
<1> SUFFICES ASSUME Init
             PROVE  ApartAreFreshOrOwn /\ PoolsAreSupplied /\ SoundBatchesNeverRaise
  BY OwnedInit DEF Kept
<1>1. \A t \in Tasks : task[t].pc = "idle"
  BY DEF Init, Idle, Between
<1>2. ApartAreFreshOrOwn
  BY OwnedInit, ProjectsHold DEF Owned, Init, ApartAreFreshOrOwn, FreshOrOwn
<1> QED
  BY <1>1, <1>2 DEF PoolsAreSupplied, SoundBatchesNeverRaise, At, Loaded

\* A project that is apart, and sound, can be loaded at any time.
LEMMA SoundIsImportable ==
    ASSUME Kept, NEW d \in Dirs, Sound(d), Apart(d)
    PROVE  Importable(d)
<1>1. FreshOrOwn(d) /\ d \notin faulty
  BY DEF Kept, ApartAreFreshOrOwn, Sound
<1>2. ~Raises(d)
  BY <1>1 DEF Raises, Sound
<1> QED
  BY <1>1, <1>2 DEF FreshOrOwn, Importable, Cached, Registrable

LEMMA SoundIsNotRefused ==
    ASSUME Kept, NEW d \in Dirs, Sound(d), Import(d), UNCHANGED project
    PROVE  ~Refused(d)
<1>1. ImportedThen(d)
  BY ImportImports DEF Kept
<1>2. \A s \in Steps(d) : s.uses # None => implementations'[s.uses] = d
  BY <1>1 DEF Sound, Registered, ImportedThen
<1>3. d # None
  OBVIOUS
<1> QED
  BY <1>2, <1>3 DEF Refused, Sound

\* A step whose needs are supplied is bound.
LEMMA SuppliedIsBound ==
    ASSUME Kept, NEW t \in Tasks, Unbound(t), Supplied(project[Dir(t)], Called(t))
    PROVE  FALSE
<1>1. AtStep(t) /\ Here(t).executor \notin ENGINE_IMPLEMENTED
  BY DEF Unbound, AtHook
<1>2. task[t].pos \in DOMAIN project[Dir(t)].steps
  BY <1>1 DEF AtStep
<1> DEFINE pool == Called(t) \cup
                {project[Dir(t)].steps[j].produces : j \in 1 .. (task[t].pos - 1)}
<1>3. pool \subseteq task[t].keys
  BY <1>1 DEF Kept, PoolsAreSupplied, AtStep, At, Loaded
<1>4. IF Here(t).name \in Hooks(Dir(t))
      THEN TakesAll(t) \/ project[Dir(t)].hooks[Here(t).name].needs \subseteq pool
      ELSE (IF Here(t).uses # None THEN NeedsOf[Here(t).uses] ELSE Here(t).needs)
              \subseteq pool
  BY <1>1, <1>2 DEF Supplied, Here, Hooks, TakesAll
<1>5. TakesAll(t) \/ NeedsHere(t) \subseteq pool
  BY <1>4 DEF NeedsHere
<1> HIDE DEF pool
<1> QED
  BY <1>3, <1>5 DEF Unbound

\* What the directories hold does not change.
LEMMA SoundIsKept ==
    ASSUME project' = project, NEW d
    PROVE  (Sound(d)' => Sound(d)) /\ (Apart(d)' => Apart(d))
<1>1. Apart(d)' => Apart(d)
  <2>1. \A e \in Dirs : Names(e)' = Names(e) /\ project'[e].stem = project[e].stem
    BY DEF Names
  <2>2. Names(d)' = Names(d) /\ project'[d].stem = project[d].stem
    BY DEF Names
  <2> QED
    BY <2>1, <2>2 DEF Apart
<1>2. Registered(d)' => Registered(d)
  BY DEF Registered, Steps, Names
<1>4. BackendsDeclared(d)' => BackendsDeclared(d)
  BY DEF BackendsDeclared, Steps
<1>3. TemplateValid(project[d])' => TemplateValid(project[d])
  BY DEF TemplateValid, StepValid
<1> QED
  BY <1>1, <1>2, <1>3, <1>4 DEF Sound

LEMMA FreshOrOwnNext ==
    ASSUME Kept, [Next]_embeddingVars
    PROVE  ApartAreFreshOrOwn'
<1> USE DEF Kept, Owned
<1>1. project' = project /\ faulty' \subseteq faulty
  BY StepsHaveEffect DEF CallEffect, LoadEffect, RunEffect
<1>2. \A d \in faulty' : project'[d].faulty
  BY <1>1 DEF ApartAreFreshOrOwn
<1>3. ASSUME NEW d \in Dirs, Sound(d), Apart(d)
      PROVE  \/ modules'[project[d].stem] = None
                /\ \A n \in Names(d) : implementations'[n] = None
             \/ modules'[project[d].stem] = d
  <2>1. FreshOrOwn(d)
    BY <1>3 DEF ApartAreFreshOrOwn
  <2>2. project[d].stem \in Stems /\ Names(d) \subseteq Impls
    BY ProjectsHold
  <2>3. CASE UNCHANGED <<modules, implementations>>
    BY <2>1, <2>3 DEF FreshOrOwn
  <2>4. ASSUME NEW t \in Tasks, LoadEffect(t), task[t].dir = d
        PROVE  modules'[project[d].stem] = d
    <3>1. Importable(d)
      BY <1>3, SoundIsImportable
    <3>2. Import(d)
      BY <2>4, <3>1 DEF LoadEffect
    <3> QED
      BY <2>2, <3>2 DEF Import, Cached, process, Typed, EmbeddingTypeOK
  <2>5. ASSUME NEW t \in Tasks, LoadEffect(t), task[t].dir # d
        PROVE  /\ modules'[project[d].stem] = modules[project[d].stem]
               /\ \A n \in Names(d) : implementations'[n] = implementations[n]
    <3>1. task[t].dir \in Dirs \ {d}
      BY <2>5 DEF LoadEffect
    <3>2. project[task[t].dir].stem # project[d].stem
          /\ Names(task[t].dir) \cap Names(d) = {}
      BY <1>3, <3>1 DEF Apart
    <3> QED
      BY <2>2, <2>5, <3>2 DEF LoadEffect, Import, process, Typed, EmbeddingTypeOK
  <2> QED
    BY <2>1, <2>3, <2>4, <2>5, StepsHaveEffect DEF CallEffect, RunEffect, FreshOrOwn
<1>4. \A d \in Dirs : Sound(d)' /\ Apart(d)' => Sound(d) /\ Apart(d)
  BY <1>1, SoundIsKept
<1> QED
  BY <1>1, <1>2, <1>3, <1>4 DEF ApartAreFreshOrOwn, FreshOrOwn, Names

LEMMA SuppliedNext ==
    ASSUME Kept, [Next]_embeddingVars
    PROVE  PoolsAreSupplied'
<1> USE DEF Kept, Owned
<1>1. project' = project /\ Typed'
  BY TypedNext, StepsHaveEffect DEF CallEffect, LoadEffect, RunEffect
<1> DEFINE made(t, n) == {project[Dir(t)].steps[j].produces : j \in 1 .. (n - 1)}
<1> SUFFICES ASSUME NEW t \in Tasks, task'[t].pc \in Loaded
             PROVE  Called(t)' \cup
                    {project[task'[t].dir].steps[j].produces : j \in 1 .. (task'[t].pos - 1)}
                        \subseteq task'[t].keys
  BY <1>1 DEF PoolsAreSupplied, Dir, Loaded
<1>2. CASE task'[t] = task[t]
  BY <1>2 DEF PoolsAreSupplied, Called, Dir
<1>3. CASE CallEffect(t)
  BY <1>3 DEF CallEffect, Loaded
<1>4. CASE LoadEffect(t)
  <2>1. /\ task'[t].keys = Called(t) /\ task'[t].pos = 1
        /\ task'[t].batch = task[t].batch /\ task'[t].outcomes = task[t].outcomes
    BY <1>4 DEF LoadEffect, Loaded
  <2> QED
    BY <2>1 DEF Called
<1>5. CASE RunEffect(t)
  <2>1. /\ task[t].pc \in Loaded /\ task'[t].dir = Dir(t)
        /\ task'[t].batch = task[t].batch /\ task'[t].outcomes = task[t].outcomes
    BY <1>5 DEF RunEffect, Dir
  <2>2. Called(t)' = Called(t)
    BY <2>1 DEF Called
  <2>3. Called(t) \cup made(t, task[t].pos) \subseteq task[t].keys
    BY <2>1 DEF PoolsAreSupplied
  <2>4. CASE task'[t].pos = task[t].pos /\ task'[t].keys = task[t].keys
    BY <2>1, <2>2, <2>3, <2>4
  <2>5. CASE /\ AtStep(t) \/ At(t, "working")
             /\ task'[t].pos = task[t].pos + 1
             /\ task'[t].keys = task[t].keys \cup {Here(t).produces}
    <3>1. task[t].pos \in Nat /\ task[t].pos \in DOMAIN project[Dir(t)].steps
      BY <2>5, HereIsAStep DEF Typed, EmbeddingTypeOK, TaskRecord
    <3>2. made(t, task[t].pos + 1) \subseteq made(t, task[t].pos) \cup {Here(t).produces}
      <4>1. \A j \in 1 .. ((task[t].pos + 1) - 1) :
                j \in 1 .. (task[t].pos - 1) \/ j = task[t].pos
        BY <3>1
      <4> QED
        BY <4>1 DEF Here
    <3> QED
      BY <2>1, <2>2, <2>3, <2>5, <3>2
  <2> QED
    BY <1>5, <2>4, <2>5 DEF RunEffect, Loaded
<1> QED
  BY <1>2, <1>3, <1>4, <1>5, StepsHaveEffect DEF CallEffect, LoadEffect, RunEffect

LEMMA NeverRaiseNext ==
    ASSUME Kept, [Next]_embeddingVars
    PROVE  SoundBatchesNeverRaise'
<1> USE DEF Kept, Owned
<1>1. project' = project
  BY StepsHaveEffect DEF CallEffect, LoadEffect, RunEffect
<1> SUFFICES ASSUME NEW d \in Dirs, Sound(d), Apart(d),
                    NEW t \in Tasks, task'[t].pc \in {"raised", "undeclared"},
                    task'[t].dir = d
             PROVE  \E i \in DOMAIN task'[t].batch :
                        ~Supplied(project[d], task'[t].batch[i])
  BY <1>1, SoundIsKept DEF SoundBatchesNeverRaise, At, Dir
<1>2. CASE task'[t] = task[t]
  BY <1>2 DEF SoundBatchesNeverRaise, At, Dir
<1>3. CASE CallEffect(t)
  BY <1>3 DEF CallEffect
<1>4. CASE LoadEffect(t)
  <2>1. task[t].dir \in Dirs /\ task'[t].dir = task[t].dir /\ UNCHANGED project
    BY <1>4 DEF LoadEffect
  <2>2. Importable(task[t].dir)
    BY <2>1, SoundIsImportable
  <2>3. Import(task[t].dir) /\ Refused(task[t].dir)
    BY <1>4, <2>2 DEF LoadEffect
  <2> QED
    BY <2>1, <2>3, SoundIsNotRefused
<1>5. CASE RunEffect(t)
  <2>1. Unbound(t) /\ task'[t].dir = Dir(t) /\ task'[t].batch = task[t].batch
    BY <1>5 DEF RunEffect, Dir, Sound
  <2>2. ~Supplied(project[Dir(t)], Called(t))
    BY <2>1, SuppliedIsBound
  <2>3. Len(task[t].outcomes) + 1 \in DOMAIN task[t].batch
    <3>1. task[t].batch \in Seq(SUBSET STRING) /\ task[t].outcomes \in Seq(Status)
          /\ Len(task[t].outcomes) < Len(task[t].batch)
      BY <2>1 DEF Unbound, AtHook, AtStep, At, Typed, Placed, EmbeddingTypeOK, TaskRecord
    <3> QED
      BY <3>1
  <2> QED
    BY <2>1, <2>2, <2>3 DEF Called
<1> QED
  BY <1>2, <1>3, <1>4, <1>5, StepsHaveEffect DEF CallEffect, LoadEffect, RunEffect

\* An exception never takes the outcomes of a batch with it, when its workflow is well
\* formed, the manifest has its backends, nobody else claims its names and every parameter has a value in time:
\* loading a project a second time is not registering its functions again.
THEOREM SoundBatchesKeepOutcomes == Spec => []SoundBatchesNeverRaise
<1>1. Kept => SoundBatchesNeverRaise
  BY DEF Kept
<1>2. Kept /\ [Next]_embeddingVars => Kept'
  BY OwnedNext, FreshOrOwnNext, SuppliedNext, NeverRaiseNext DEF Kept
<1> QED
  BY <1>1, <1>2, KeptInit, PTL DEF Spec
=============================================================================
