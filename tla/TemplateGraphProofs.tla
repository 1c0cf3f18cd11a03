------------------------ MODULE TemplateGraphProofs ------------------------
(***************************************************************************)
(* Theorems about TemplateGraph, for every template, every number of       *)
(* processes and every verdict, whatever process is killed and wherever.   *)
(*                                                                         *)
(*   GuardInv   a gate or a blocking judge behind a pool is cleared in it. *)
(*   SpentInv   a gate that is open has used up a decision.                *)
(*   NotesInv   notes are those of the steps behind them.                  *)
(*                                                                         *)
(* These hold of processes that overlap; the others assume ~Overlap:       *)
(*                                                                         *)
(*   AloneInv   one process works, and it is not behind the checkpoint.    *)
(*   LogInv     which row a process still owes the log.                    *)
(*   ListedInv  what the rows, taken by themselves, say of the run.        *)
(*                                                                         *)
(* PlainInv is about one process that goes through a template of hooks and *)
(* agents, and leads to the sequential runner.                             *)
(***************************************************************************)
EXTENDS TemplateGraph, SequenceTheorems, FiniteSetTheorems, TLAPS

USE PlanHasNodes, VerdictsAreTheirOwn

-----------------------------------------------------------------------------
(* Types *)

LEMMA NodeFacts ==
    ASSUME NEW n \in Nodes
    PROVE  /\ Plan[n] \in Node
           /\ Plan[n].produces \in Keys
           /\ Plan[n].when # None => Plan[n].when \in Keys
<1>1. Plan[n] \in Node
  BY DEF Nodes
<1>2. Plan[n].produces \in STRING /\ Plan[n].produces # None
  BY <1>1 DEF Node
<1> DEFINE keysOf(i) == {Plan[i].produces, Plan[i].when} \cup Plan[i].needs
<1>3. keysOf(n) \subseteq UNION {keysOf(i) : i \in Nodes}
  OBVIOUS
<1>4. keysOf(n) \ {None} \subseteq Keys
  BY <1>3 DEF Keys
<1>5. Plan[n].produces \in keysOf(n) /\ Plan[n].when \in keysOf(n)
  OBVIOUS
<1> QED
  BY <1>1, <1>2, <1>4, <1>5

LEMMA PoolFacts ==
    ASSUME NEW supplied
    PROVE  /\ PoolOf(supplied) \in [Keys -> Values]
           /\ \A k \in Keys : PoolOf(supplied)[k] # "falsy"
  BY DEF PoolOf, Values, Products

LEMMA ToldFacts ==
    ASSUME log \in EventLogs(Legs), NEW l \in Legs, NEW step \in StepNames,
           NEW status \in EventStatus, Tell(l, step, status)
    PROVE  log' \in EventLogs(Legs)
<1>1. Row(l, step, status) \in [process : Legs, step : StepNames, status : EventStatus]
  BY DEF Row
<1>2. Append(log.rows, Row(l, step, status))
        \in Seq([process : Legs, step : StepNames, status : EventStatus])
  BY <1>1 DEF EventLogs
<1>3. CASE log.torn
  <2>1. log' = [rows |-> log.rows, torn |-> FALSE, lost |-> log.lost + 1]
    BY <1>3 DEF Tell, Told, EventLogs
  <2> QED
    BY <2>1 DEF EventLogs
<1>4. CASE ~log.torn
  <2>1. log' = [rows |-> Append(log.rows, Row(l, step, status)),
                torn |-> log.torn, lost |-> log.lost]
    BY <1>4 DEF Tell, Told, EventLogs
  <2> QED
    BY <1>2, <2>1 DEF EventLogs
<1> QED
  BY <1>3, <1>4

\* A process stands at a node while it works there or waits there, has not moved
\* before it is started, knows the status it closes the run with, and its notes
\* only grow while a node runs.
Stands(x) ==
    /\ x \in LegRecord
    /\ x.pc \in {"working", "waiting"} => x.pos \in Nodes
    /\ x.pc = "free" => x.pos = 1
    /\ x.pc = "closing" => x.closing # None
    /\ x.before <= Len(x.ctx)

LegsTyped == leg \in [Legs -> LegRecord] /\ \A l \in Legs : Stands(leg[l])

Typed == GraphTypeOK /\ LegsTyped

\* What most steps leave alone in every process.
Unmoved ==
    \A k \in Legs :
        /\ leg'[k].pool = leg[k].pool
        /\ leg'[k].pos = leg[k].pos
        /\ leg'[k].resume = leg[k].resume
        /\ leg'[k].pc = "free" => leg[k].pc = "free"

LEMMA LegReplaced ==
    ASSUME LegsTyped, NEW l \in Legs, NEW x, Stands(x),
           leg' = [leg EXCEPT ![l] = x]
    PROVE  /\ LegsTyped'
           /\ leg'[l] = x
           /\ \A k \in Legs \ {l} : leg'[k] = leg[k]
<1>1. x \in LegRecord /\ leg \in [Legs -> LegRecord]
  BY DEF Stands, LegsTyped
<1>2. leg' \in [Legs -> LegRecord]
  BY <1>1
<1>3. leg'[l] = x
  BY <1>1
<1>4. \A k \in Legs \ {l} : leg'[k] = leg[k]
  BY <1>1
<1>5. ASSUME NEW k \in Legs
      PROVE  Stands(leg'[k])
  BY <1>3, <1>4 DEF LegsTyped
<1>6. LegsTyped'
  BY <1>2, <1>5 DEF LegsTyped, Stands
<1> QED
  BY <1>3, <1>4, <1>6

LEMMA LegUnmoved ==
    ASSUME LegsTyped, NEW l \in Legs, NEW x, Stands(x), x.pc # "free",
           x.pool = leg[l].pool, x.pos = leg[l].pos, x.resume = leg[l].resume,
           leg' = [leg EXCEPT ![l] = x]
    PROVE  LegsTyped' /\ Unmoved
<1>1. LegsTyped' /\ leg'[l] = x /\ \A k \in Legs \ {l} : leg'[k] = leg[k]
  BY LegReplaced
<1>2. ASSUME NEW k \in Legs
      PROVE  /\ leg'[k].pool = leg[k].pool
             /\ leg'[k].pos = leg[k].pos
             /\ leg'[k].resume = leg[k].resume
             /\ leg'[k].pc = "free" => leg[k].pc = "free"
  <2>1. CASE k = l
    BY <1>1, <2>1
  <2>2. CASE k # l
    BY <1>1, <2>2
  <2> QED
    BY <2>1, <2>2
<1> QED
  BY <1>1, <1>2 DEF Unmoved

LEMMA GotoTyped ==
    ASSUME LegsTyped, NEW l \in Legs, NEW pc \in LegPc \ {"free", "closing"}, Goto(l, pc),
           pc \in {"working", "waiting"} => leg[l].pos \in Nodes
    PROVE  LegsTyped' /\ Unmoved
<1> DEFINE x == [leg[l] EXCEPT !.pc = pc]
<1>1. Stands(leg[l])
  BY DEF LegsTyped
<1>2. Stands(x) /\ x.pc # "free"
  BY <1>1 DEF Stands, LegRecord
<1>3. x.pool = leg[l].pool /\ x.pos = leg[l].pos /\ x.resume = leg[l].resume
  BY <1>1 DEF Stands, LegRecord
<1>4. leg' = [leg EXCEPT ![l] = x]
  BY DEF Goto, LegsTyped
<1> HIDE DEF x
<1> QED
  BY <1>2, <1>3, <1>4, LegUnmoved

LEMMA ToCloseTyped ==
    ASSUME LegsTyped, NEW l \in Legs, NEW status \in TERMINAL \cup {"awaiting_human"},
           ToClose(l, status)
    PROVE  LegsTyped' /\ Unmoved
<1> DEFINE x == [leg[l] EXCEPT !.pc = "closing", !.closing = status]
<1>1. Stands(leg[l])
  BY DEF LegsTyped
<1>2. Stands(x) /\ x.pc # "free"
  BY <1>1 DEF Stands, LegRecord, LegPc, EventStatus
<1>3. x.pool = leg[l].pool /\ x.pos = leg[l].pos /\ x.resume = leg[l].resume
  BY <1>1 DEF Stands, LegRecord
<1>4. leg' = [leg EXCEPT ![l] = x]
  BY DEF ToClose, LegsTyped
<1> HIDE DEF x
<1> QED
  BY <1>2, <1>3, <1>4, LegUnmoved

LEMMA ClosedTyped ==
    ASSUME LegsTyped, NEW l \in Legs, Close(l)
    PROVE  LegsTyped' /\ Unmoved
<1>1. PICK pc \in {"ended", "leaving"} : Goto(l, pc)
  BY DEF Close
<1>2. pc \in LegPc \ {"free", "closing", "working", "waiting"}
  BY DEF LegPc
<1> QED
  BY <1>1, <1>2, GotoTyped

LEMMA NotedTyped ==
    ASSUME LegsTyped, NEW l \in Legs, leg[l].pos \in Nodes
    PROVE  /\ leg[l].ctx \in Seq(Nodes) /\ Len(leg[l].ctx) \in Nat
           /\ Noted(l) \in Seq(Nodes)
           /\ Len(Noted(l)) = Len(leg[l].ctx) + 1
  BY DEF LegsTyped, LegRecord, Noted

LEMMA MergedTyped ==
    ASSUME LegsTyped, NEW l \in Legs, leg[l].pos \in Nodes, NEW value \in Values,
           NEW ctx \in Seq(Nodes), Len(leg[l].ctx) <= Len(ctx),
           NEW notes \in Seq(Nodes), Merged(l, value, ctx, notes)
    PROVE  /\ LegsTyped'
           /\ leg'[l].pc = "node" /\ leg'[l].resume = None
           /\ leg'[l].pos = leg[l].pos + 1
           /\ leg'[l].pool = Pooled(l, value)
           /\ \A k \in Legs \ {l} : leg'[k] = leg[k]
<1> DEFINE x == [leg[l] EXCEPT !.pc = "node", !.pos = leg[l].pos + 1,
                    !.saved = FALSE,
                    !.pool = Pooled(l, value),
                    !.ctx = ctx, !.notes = leg[l].notes \o notes, !.resume = None]
<1>1. Stands(leg[l])
  BY DEF LegsTyped
<1>2. leg[l].pool \in [Keys -> Values] /\ leg[l].notes \in Seq(Nodes)
  BY <1>1 DEF Stands, LegRecord
<1>3. Pooled(l, value) \in [Keys -> Values]
  BY <1>2 DEF Pooled
<1>4. leg[l].notes \o notes \in Seq(Nodes)
  BY <1>2
<1>5. leg[l].pos + 1 \in 1 .. (Len(Plan) + 1)
  BY DEF Nodes
<1>6. Len(ctx) \in Nat /\ Len(leg[l].ctx) \in Nat
  BY <1>1 DEF Stands, LegRecord
<1>7. /\ x \in LegRecord
      /\ x.pc = "node" /\ x.pos = leg[l].pos + 1 /\ x.resume = None
      /\ x.pool = Pooled(l, value)
      /\ x.ctx = ctx /\ x.before = leg[l].before
  BY <1>1, <1>3, <1>4, <1>5 DEF Stands, LegRecord, LegPc
<1>8. leg' = [leg EXCEPT ![l] = x]
  BY DEF Merged
<1> HIDE DEF x
<1>9. Stands(x)
  BY <1>1, <1>6, <1>7 DEF Stands, LegRecord
<1> QED
  BY <1>7, <1>8, <1>9, LegReplaced

LEMMA ReturnedTyped ==
    ASSUME LegsTyped, NEW l \in Legs, leg[l].pos \in Nodes, NEW value \in Values,
           Returned(l, value, Noted(l))
    PROVE  /\ LegsTyped'
           /\ leg'[l].pc = "node" /\ leg'[l].resume = None
           /\ leg'[l].pos = leg[l].pos + 1
           /\ leg'[l].pool = Pooled(l, value)
           /\ \A k \in Legs \ {l} : leg'[k] = leg[k]
<1> DEFINE notes == SubSeq(Noted(l), leg[l].before + 1, Len(Noted(l)))
<1>1. leg[l].before \in Nat /\ leg[l].before <= Len(leg[l].ctx)
  BY DEF LegsTyped, Stands, LegRecord
<1>2. /\ Noted(l) \in Seq(Nodes) /\ Len(Noted(l)) = Len(leg[l].ctx) + 1
      /\ Len(leg[l].ctx) \in Nat
  BY NotedTyped
<1>3. notes \in Seq(Nodes)
  BY <1>1, <1>2, SubSeqProperties
<1> HIDE DEF notes
<1>4. Merged(l, value, Noted(l), notes)
  BY DEF Returned, notes
<1> QED
  BY <1>2, <1>3, <1>4, MergedTyped

LEMMA BegunTyped ==
    ASSUME Typed, NEW l \in Legs, leg[l].pos \in Nodes, Begin(l)
    PROVE  LegsTyped' /\ Unmoved /\ invoked' \in [Nodes -> Nat]
<1> DEFINE x == [leg[l] EXCEPT !.pc = "working", !.asks = 0,
                               !.before = Len(leg[l].ctx)]
<1>1. Stands(leg[l]) /\ leg[l].ctx \in Seq(Nodes)
  BY DEF Typed, LegsTyped, Stands, LegRecord
<1>2. leg[l] \in LegRecord /\ Len(leg[l].ctx) \in Nat
  BY <1>1 DEF Stands
<1>3. /\ x \in LegRecord
      /\ x.pc = "working" /\ x.before = Len(leg[l].ctx) /\ x.ctx = leg[l].ctx
      /\ x.pool = leg[l].pool /\ x.pos = leg[l].pos /\ x.resume = leg[l].resume
  BY <1>2 DEF LegRecord, LegPc
<1>4. leg' = [leg EXCEPT ![l] = x]
  BY DEF Begin, Typed, LegsTyped
<1>5. invoked' \in [Nodes -> Nat]
  BY DEF Begin, Called, Typed, GraphTypeOK
<1> HIDE DEF x
<1>6. Stands(x) /\ x.pc # "free"
  BY <1>2, <1>3 DEF Stands
<1> QED
  BY <1>3, <1>4, <1>5, <1>6, LegUnmoved DEF Typed

LEMMA AgainTyped ==
    ASSUME Typed, NEW l \in Legs, leg[l].pos \in Nodes, leg[l].pc = "working",
           Again(l)
    PROVE  LegsTyped' /\ Unmoved /\ invoked' \in [Nodes -> Nat]
<1> DEFINE x == [leg[l] EXCEPT !.asks = 1, !.ctx = Noted(l)]
<1>1. Stands(leg[l]) /\ leg[l].before \in Nat
  BY DEF Typed, LegsTyped, Stands, LegRecord
<1>2. /\ Noted(l) \in Seq(Nodes) /\ Len(Noted(l)) = Len(leg[l].ctx) + 1
      /\ Len(leg[l].ctx) \in Nat
  BY NotedTyped DEF Typed
<1>3. leg[l] \in LegRecord /\ leg[l].before <= Len(leg[l].ctx)
  BY <1>1 DEF Stands
<1>4. /\ x \in LegRecord
      /\ x.pc = "working" /\ x.before = leg[l].before /\ x.ctx = Noted(l)
      /\ x.pool = leg[l].pool /\ x.pos = leg[l].pos /\ x.resume = leg[l].resume
  BY <1>2, <1>3 DEF LegRecord
<1>5. leg' = [leg EXCEPT ![l] = x]
  BY DEF Again, Typed, LegsTyped
<1>6. invoked' \in [Nodes -> Nat]
  BY DEF Again, Called, Typed, GraphTypeOK
<1> HIDE DEF x
<1>7. Stands(x) /\ x.pc # "free"
  BY <1>1, <1>2, <1>3, <1>4 DEF Stands
<1> QED
  BY <1>4, <1>5, <1>6, <1>7, LegUnmoved DEF Typed

LEMMA StartedTyped ==
    ASSUME LegsTyped, NEW l \in Legs, NEW supplied, Start(l, supplied)
    PROVE  /\ LegsTyped'
           /\ leg'[l].pc # "free" /\ leg'[l].pos = 1
           /\ leg'[l].resume = leg[l].resume
           /\ leg'[l].pool = PoolOf(supplied)
           /\ \A k \in Legs \ {l} : leg'[k] = leg[k]
<1> DEFINE x == [leg[l] EXCEPT !.pc = "preflight", !.pool = PoolOf(supplied)]
<1>1. Stands(leg[l]) /\ leg[l].pos = 1
  BY DEF LegsTyped, Stands, Start, At
<1>2. PoolOf(supplied) \in [Keys -> Values]
  BY PoolFacts
<1>3. /\ Stands(x) /\ x.pc # "free" /\ x.pos = 1 /\ x.resume = leg[l].resume
      /\ x.pool = PoolOf(supplied)
  BY <1>1, <1>2 DEF Stands, LegRecord, LegPc
<1>4. leg' = [leg EXCEPT ![l] = x]
  BY DEF Start, LegsTyped
<1> HIDE DEF x
<1> QED
  BY <1>3, <1>4, LegReplaced

LEMMA DecidedTyped ==
    ASSUME LegsTyped, NEW l \in Legs, NEW v \in Verdicts, Decide(l, v)
    PROVE  /\ LegsTyped'
           /\ leg'[l].pc # "free" /\ leg'[l].pos = leg[l].pos
           /\ leg'[l].resume = v /\ leg'[l].pool = leg[l].pool
           /\ \A k \in Legs \ {l} : leg'[k] = leg[k]
<1> DEFINE x == [leg[l] EXCEPT !.pc = "loading", !.resume = v]
<1>1. Stands(leg[l])
  BY DEF LegsTyped
<1>2. /\ Stands(x) /\ x.pc # "free" /\ x.pos = leg[l].pos
      /\ x.resume = v /\ x.pool = leg[l].pool
  BY <1>1 DEF Stands, LegRecord, LegPc
<1>3. leg' = [leg EXCEPT ![l] = x]
  BY DEF Decide, LegsTyped
<1> HIDE DEF x
<1> QED
  BY <1>2, <1>3, LegReplaced

LEMMA LoadedTyped ==
    ASSUME Typed, NEW l \in Legs, Load(l)
    PROVE  /\ LegsTyped'
           /\ leg'[l].pc # "free" /\ leg'[l].pos = thread.next
           /\ leg'[l].resume \in {leg[l].resume, None}
           /\ leg'[l].pool = thread.pool
           /\ \A k \in Legs \ {l} : leg'[k] = leg[k]
<1> DEFINE resume == IF AtGate(thread.next) THEN leg[l].resume ELSE None
           x == [leg[l] EXCEPT !.pc = "node", !.pos = thread.next,
                    !.pool = thread.pool, !.notes = thread.notes, !.saved = TRUE,
                    !.resume = resume]
<1>1. Stands(leg[l]) /\ thread \in ThreadRecord
  BY DEF Typed, LegsTyped, GraphTypeOK
<1>2. /\ thread.next \in 1 .. (Len(Plan) + 1) /\ thread.pool \in [Keys -> Values]
      /\ thread.notes \in Seq(Nodes)
  BY <1>1 DEF ThreadRecord, Load, Loaded
<1>3. resume \in {leg[l].resume, None}
  OBVIOUS
<1>4. leg' = [leg EXCEPT ![l] = x]
  BY DEF Load, Loaded
<1> HIDE DEF resume
<1>5. /\ Stands(x) /\ x.pc # "free" /\ x.pos = thread.next /\ x.resume = resume
      /\ x.pool = thread.pool
  BY <1>1, <1>2, <1>3 DEF Stands, LegRecord, LegPc
<1> HIDE DEF x
<1> QED
  BY <1>3, <1>4, <1>5, LegReplaced DEF Typed

LEMMA EnteredTyped ==
    ASSUME LegsTyped, NEW l \in Legs, Enter(l)
    PROVE  LegsTyped' /\ Unmoved
<1> DEFINE x == [leg[l] EXCEPT !.pc = "node", !.saved = FALSE]
<1>1. Stands(leg[l])
  BY DEF LegsTyped
<1>2. Stands(x) /\ x.pc # "free"
  BY <1>1 DEF Stands, LegRecord, LegPc
<1>3. x.pool = leg[l].pool /\ x.pos = leg[l].pos /\ x.resume = leg[l].resume
  BY <1>1 DEF Stands, LegRecord
<1>4. leg' = [leg EXCEPT ![l] = x]
  BY DEF Enter, LegsTyped
<1> HIDE DEF x
<1> QED
  BY <1>2, <1>3, <1>4, LegUnmoved

LEMMA FinishedTyped ==
    ASSUME LegsTyped, NEW l \in Legs, Finish(l)
    PROVE  LegsTyped' /\ Unmoved
<1> DEFINE x == [leg[l] EXCEPT !.pc = "ended", !.closing = "ok"]
<1>1. Stands(leg[l])
  BY DEF LegsTyped
<1>2. Stands(x) /\ x.pc # "free"
  BY <1>1 DEF Stands, LegRecord, LegPc, TERMINAL, Done
<1>3. x.pool = leg[l].pool /\ x.pos = leg[l].pos /\ x.resume = leg[l].resume
  BY <1>1 DEF Stands, LegRecord
<1>4. leg' = [leg EXCEPT ![l] = x]
  BY DEF Finish, LegsTyped
<1> HIDE DEF x
<1> QED
  BY <1>2, <1>3, <1>4, LegUnmoved

LEMMA SavedTyped ==
    ASSUME Typed, NEW l \in Legs, Save(l)
    PROVE  /\ LegsTyped' /\ Unmoved
           /\ thread' \in ThreadRecord
           /\ thread'.next = leg[l].pos /\ thread'.pool = leg[l].pool
<1> DEFINE x == [leg[l] EXCEPT !.saved = TRUE]
<1>1. Stands(leg[l])
  BY DEF Typed, LegsTyped
<1>2. leg[l].pc # "free"
  BY DEF Save
<1>3. Stands(x) /\ x.pc # "free"
  BY <1>1, <1>2 DEF Stands, LegRecord
<1>4. x.pool = leg[l].pool /\ x.pos = leg[l].pos /\ x.resume = leg[l].resume
  BY <1>1 DEF Stands, LegRecord
<1>5. leg' = [leg EXCEPT ![l] = x]
  BY DEF Save, Typed, LegsTyped
<1>6. /\ thread' \in ThreadRecord
      /\ thread'.next = leg[l].pos /\ thread'.pool = leg[l].pool
  BY <1>1 DEF Save, ThreadRecord, Stands, LegRecord
<1> HIDE DEF x
<1> QED
  BY <1>3, <1>4, <1>5, <1>6, LegUnmoved DEF Typed

-----------------------------------------------------------------------------
LEMMA NamesFacts ==
    ASSUME LegsTyped, NEW l \in Legs, leg[l].pos \in Nodes
    PROVE  Here(l).name \in StepNames
  BY DEF Here, StepNames

LEMMA PositionFacts ==
    ASSUME LegsTyped, NEW l \in Legs
    PROVE  /\ leg[l] \in LegRecord
           /\ leg[l].pc \in {"working", "waiting"} => leg[l].pos \in Nodes
  BY DEF LegsTyped, Stands

LEMMA TypeInitially == Init => Typed
<1> SUFFICES ASSUME Init
             PROVE  Typed
  OBVIOUS
<1>1. PoolOf({}) \in [Keys -> Values]
  BY PoolFacts
<1>2. 1 \in 1 .. (Len(Plan) + 1) /\ 0 \in 0 .. (Len(Plan) + 1)
  BY LenProperties
<1>3. <<>> \in Seq(Nodes) /\ Len(<<>>) = 0
  OBVIOUS
<1>4. Fresh \in LegRecord
  BY <1>1, <1>2, <1>3 DEF Fresh, LegRecord, LegPc
<1>5. /\ Fresh.pc = "free" /\ Fresh.pos = 1
      /\ Fresh.before = 0 /\ Fresh.ctx = <<>>
  BY DEF Fresh
<1>6. Stands(Fresh)
  BY <1>3, <1>4, <1>5 DEF Stands
<1>7. NoCheckpoint \in ThreadRecord
  BY <1>1, <1>2, <1>3 DEF NoCheckpoint, ThreadRecord
<1>8. NoLog \in EventLogs(Legs)
  BY DEF NoLog, EventLogs
<1>9. MaxCrashes \in Nat => crashes \in 0 .. MaxCrashes
  BY DEF Init
<1>10. LegsTyped
  BY <1>4, <1>6 DEF Init, LegsTyped
<1> QED
  BY <1>7, <1>8, <1>9, <1>10, CrashesBounded DEF Init, Typed, GraphTypeOK, LegsTyped

LEMMA OthersTyped ==
    ASSUME Typed, LegsTyped', log' \in EventLogs(Legs), thread' \in ThreadRecord,
           given' \in [Legs -> Verdicts \cup {None}], invoked' \in [Nodes -> Nat],
           approved' \subseteq Nodes, crashes' \in 0 .. MaxCrashes
    PROVE  Typed'
  BY DEF Typed, GraphTypeOK, LegsTyped

LEMMA TypeInductive == Typed /\ [Next]_graphVars => Typed'
<1> SUFFICES ASSUME Typed, [Next]_graphVars
             PROVE  Typed'
  OBVIOUS
<1>1. /\ LegsTyped /\ log \in EventLogs(Legs) /\ thread \in ThreadRecord
      /\ given \in [Legs -> Verdicts \cup {None}] /\ invoked \in [Nodes -> Nat]
      /\ approved \subseteq Nodes /\ crashes \in 0 .. MaxCrashes
  BY DEF Typed, GraphTypeOK
<1>2. \A l \in Legs : leg[l].pc \in {"working", "waiting"} => leg[l].pos \in Nodes
  BY <1>1, PositionFacts
<1>3. ASSUME NEW l \in Legs, NEW supplied, Start(l, supplied)
      PROVE  Typed'
  <2>1. LegsTyped'
    BY <1>1, <1>3, StartedTyped
  <2>2. log' \in EventLogs(Legs)
    BY <1>1, <1>3, ToldFacts DEF StepNames, Start, EventStatus
  <2> QED
    BY <1>1, <1>3, <2>1, <2>2, OthersTyped DEF Start
<1>4. ASSUME NEW l \in Legs, NEW v \in Verdicts, Decide(l, v)
      PROVE  Typed'
  <2>1. LegsTyped'
    BY <1>1, <1>4, DecidedTyped
  <2>2. log' \in EventLogs(Legs)
    BY <1>1, <1>4, ToldFacts DEF StepNames, Decide, EventStatus
  <2>3. given' \in [Legs -> Verdicts \cup {None}]
    BY <1>1, <1>4 DEF Decide
  <2> QED
    BY <1>1, <1>4, <2>1, <2>2, <2>3, OthersTyped DEF Decide
<1>5. ASSUME NEW l \in Legs, PreflightOk(l)
      PROVE  Typed'
  <2>1. LegsTyped'
    BY <1>1, <1>2, <1>5, GotoTyped DEF PreflightOk, LegPc
  <2>2. log' \in EventLogs(Legs)
    BY <1>1, <1>2, <1>5, ToldFacts DEF StepNames, PreflightOk, EventStatus, TERMINAL, Done
  <2> QED
    BY <1>1, <1>5, <2>1, <2>2, OthersTyped DEF PreflightOk
<1>6. ASSUME NEW l \in Legs, PreflightBlocked(l)
      PROVE  Typed'
  <2>1. LegsTyped'
    BY <1>1, <1>2, <1>6, ToCloseTyped DEF PreflightBlocked, TERMINAL
  <2>2. log' \in EventLogs(Legs)
    BY <1>1, <1>2, <1>6, ToldFacts DEF StepNames, PreflightBlocked, EventStatus, TERMINAL
  <2> QED
    BY <1>1, <1>6, <2>1, <2>2, OthersTyped DEF PreflightBlocked
<1>7. ASSUME NEW l \in Legs, Enter(l)
      PROVE  Typed'
  <2>4. LegsTyped'
    BY <1>1, <1>7, EnteredTyped
  <2> QED
    BY <1>1, <1>7, <2>4, OthersTyped DEF Enter
<1>8. ASSUME NEW l \in Legs, Load(l)
      PROVE  Typed'
  <2>1. LegsTyped'
    BY <1>1, <1>2, <1>8, LoadedTyped
  <2> QED
    BY <1>1, <1>8, <2>1, OthersTyped DEF Load, Loaded
<1>9. ASSUME NEW l \in Legs, Strand(l)
      PROVE  Typed'
  <2>1. LegsTyped'
    BY <1>1, <1>2, <1>9, GotoTyped DEF Strand, LegPc
  <2> QED
    BY <1>1, <1>9, <2>1, OthersTyped DEF Strand
<1>10. ASSUME NEW l \in Legs, Save(l)
      PROVE  Typed'
  <2>1. LegsTyped' /\ thread' \in ThreadRecord
    BY <1>1, <1>2, <1>10, SavedTyped
  <2> QED
    BY <1>1, <1>10, <2>1, OthersTyped DEF Save
<1>11. ASSUME NEW l \in Legs, SkipGate(l) \/ PassGate(l)
      PROVE  Typed'
  <2>1. PICK value \in Values : Merged(l, value, leg[l].ctx, <<>>)
    <3>1. leg[l].resume \in Verdicts \cup {None}
      BY <1>1, PositionFacts DEF LegRecord
    <3> QED
      BY <1>11, <3>1 DEF SkipGate, PassGate, Values
  <2>2. leg[l].ctx \in Seq(Nodes) /\ Len(leg[l].ctx) <= Len(leg[l].ctx)
    BY <1>1, PositionFacts DEF LegRecord
  <2>3. leg[l].pos \in Nodes /\ <<>> \in Seq(Nodes)
    BY <1>11 DEF SkipGate, PassGate, AtNode
  <2>4. LegsTyped'
    BY <1>1, <2>1, <2>2, <2>3, MergedTyped
  <2> QED
    BY <1>1, <1>11, <2>4, OthersTyped DEF SkipGate, PassGate
<1>12. ASSUME NEW l \in Legs, Interrupt(l)
      PROVE  Typed'
  <2>1. LegsTyped'
    BY <1>1, <1>2, <1>12, GotoTyped DEF Interrupt, AtNode, LegPc
  <2>3. thread' \in ThreadRecord
    BY <1>1, <1>12 DEF Interrupt, ThreadRecord
  <2> QED
    BY <1>1, <1>12, <2>1, <2>3, OthersTyped DEF Interrupt
<1>13. ASSUME NEW l \in Legs, TellPause(l)
      PROVE  Typed'
  <2>1. LegsTyped'
    BY <1>1, <1>2, <1>13, ToCloseTyped DEF TellPause, At
  <2>2. log' \in EventLogs(Legs)
    BY <1>1, <1>2, <1>13, ToldFacts, NamesFacts DEF TellPause, At, EventStatus
  <2> QED
    BY <1>1, <1>13, <2>1, <2>2, OthersTyped DEF TellPause
<1>14. ASSUME NEW l \in Legs, Unbound(l)
      PROVE  Typed'
  <2>1. LegsTyped'
    BY <1>1, <1>2, <1>14, GotoTyped DEF Unbound, LegPc
  <2> QED
    BY <1>1, <1>14, <2>1, OthersTyped DEF Unbound
<1>15. ASSUME NEW l \in Legs, StartStep(l) \/ StartJudge(l)
      PROVE  Typed'
  <2>1. LegsTyped' /\ invoked' \in [Nodes -> Nat]
    BY <1>1, <1>2, <1>15, BegunTyped DEF StartStep, StartJudge, AtNode
  <2>2. log' \in EventLogs(Legs)
    BY <1>1, <1>2, <1>15, ToldFacts, NamesFacts DEF StartStep, StartJudge, AtNode, Begin, EventStatus
  <2> QED
    BY <1>1, <1>15, <2>1, <2>2, OthersTyped DEF StartStep, StartJudge, Begin
<1>16. ASSUME NEW l \in Legs, RetryAgent(l) \/ AskAgain(l)
      PROVE  Typed'
  <2>1. LegsTyped' /\ invoked' \in [Nodes -> Nat]
    BY <1>1, <1>2, <1>16, AgainTyped DEF RetryAgent, AskAgain, Working, At
  <2> QED
    BY <1>1, <1>16, <2>1, OthersTyped DEF RetryAgent, AskAgain, Again
<1>17. ASSUME NEW l \in Legs, NEW value \in Products, NEW status \in Done,
             Succeed(l, value, status)
      PROVE  Typed'
  <2>1. LegsTyped'
    BY <1>1, <1>2, <1>17, ReturnedTyped DEF Succeed, Working, At, Values
  <2>2. log' \in EventLogs(Legs)
    BY <1>1, <1>2, <1>17, ToldFacts, NamesFacts DEF Succeed, Working, At, EventStatus, TERMINAL
  <2> QED
    BY <1>1, <1>17, <2>1, <2>2, OthersTyped DEF Succeed
<1>18. ASSUME NEW l \in Legs, Collide(l)
      PROVE  Typed'
  <2>1. LegsTyped'
    BY <1>1, <1>2, <1>18, GotoTyped DEF Collide, LegPc
  <2> QED
    BY <1>1, <1>18, <2>1, OthersTyped DEF Collide
<1>19. ASSUME NEW l \in Legs, NEW status \in {"blocked", "failed"}, Fail(l, status)
      PROVE  Typed'
  <2>1. LegsTyped'
    BY <1>1, <1>2, <1>19, ToCloseTyped DEF Fail, TERMINAL
  <2>2. log' \in EventLogs(Legs)
    BY <1>1, <1>2, <1>19, ToldFacts, NamesFacts DEF Fail, Working, At, EventStatus, TERMINAL
  <2> QED
    BY <1>1, <1>19, <2>1, <2>2, OthersTyped DEF Fail
<1>20. ASSUME NEW l \in Legs, JudgeBlind(l)
      PROVE  Typed'
  <2>1. LegsTyped'
    BY <1>1, <1>2, <1>20, ToCloseTyped DEF JudgeBlind, TERMINAL
  <2>2. log' \in EventLogs(Legs)
    BY <1>1, <1>2, <1>20, ToldFacts, NamesFacts DEF JudgeBlind, Working, At, EventStatus, TERMINAL
  <2> QED
    BY <1>1, <1>20, <2>1, <2>2, OthersTyped DEF JudgeBlind
<1>21. ASSUME NEW l \in Legs, NEW verdict \in {"fail", "none"},
             JudgePass(l) \/ JudgeWarn(l, verdict)
      PROVE  Typed'
  <2>1. leg[l].pos \in Nodes
    BY <1>2, <1>21 DEF JudgePass, JudgeWarn, Judged, Working, At
  <2>2. PICK value \in Values : Returned(l, value, Noted(l))
    BY <1>21 DEF JudgePass, JudgeWarn, Values
  <2>3. LegsTyped'
    BY <1>1, <2>1, <2>2, ReturnedTyped
  <2>4. log' \in EventLogs(Legs)
    BY <1>1, <1>21, <2>1, ToldFacts, NamesFacts DEF JudgePass, JudgeWarn, EventStatus, TERMINAL, Done
  <2>5. approved' \subseteq Nodes
    BY <1>1, <1>21, <2>1 DEF JudgePass, JudgeWarn, Judged
  <2> QED
    BY <1>1, <1>21, <2>3, <2>4, <2>5, OthersTyped DEF JudgePass, JudgeWarn, Judged
<1>22. ASSUME NEW l \in Legs, NEW verdict \in {"fail", "none"}, JudgeBlock(l, verdict)
      PROVE  Typed'
  <2>1. LegsTyped'
    BY <1>1, <1>2, <1>22, ToCloseTyped DEF JudgeBlock, TERMINAL
  <2>2. log' \in EventLogs(Legs)
    BY <1>1, <1>2, <1>22, ToldFacts, NamesFacts DEF JudgeBlock, Judged, Working, At, EventStatus, TERMINAL
  <2> QED
    BY <1>1, <1>22, <2>1, <2>2, OthersTyped DEF JudgeBlock, Judged
<1>23. ASSUME NEW l \in Legs, Close(l)
      PROVE  Typed'
  <2>1. LegsTyped'
    BY <1>1, <1>2, <1>23, ClosedTyped
  <2>2. log' \in EventLogs(Legs)
    BY <1>1, <1>2, <1>23, ToldFacts, PositionFacts DEF StepNames, Close, At, LegRecord, LegsTyped,
       Stands, EventStatus
  <2> QED
    BY <1>1, <1>23, <2>1, <2>2, OthersTyped DEF Close
<1>24. ASSUME NEW l \in Legs, Finish(l)
      PROVE  Typed'
  <2>4. LegsTyped'
    BY <1>1, <1>24, FinishedTyped
  <2>5. log' \in EventLogs(Legs)
    BY <1>1, <1>24, ToldFacts DEF StepNames, Finish, EventStatus, TERMINAL, Done
  <2> QED
    BY <1>1, <1>24, <2>4, <2>5, OthersTyped DEF Finish
<1>25. ASSUME NEW l \in Legs, Crash(l)
      PROVE  Typed'
  <2>1. LegsTyped'
    BY <1>1, <1>25, GotoTyped DEF Crash, LegPc
  <2>2. log' \in EventLogs(Legs)
    BY <1>1, <1>25 DEF Crash, EventLogs
  <2>3. crashes' \in 0 .. MaxCrashes
    BY <1>1, <1>25, CrashesBounded DEF Crash
  <2> QED
    BY <1>1, <1>25, <2>1, <2>2, <2>3, OthersTyped DEF Crash
<1>28. ASSUME NEW l \in Legs, Leave(l)
      PROVE  Typed'
  <2>1. LegsTyped'
    BY <1>1, <1>28, GotoTyped DEF Leave, LegPc
  <2> QED
    BY <1>1, <1>28, <2>1, OthersTyped DEF Leave
<1>26. CASE UNCHANGED graphVars
  BY <1>1, <1>26, OthersTyped DEF graphVars, LegsTyped
<1>27. CASE CutFirst
  <2>1. LegsTyped' /\ UNCHANGED <<thread, given, invoked, approved>>
    BY <1>1, <1>27 DEF CutFirst, LegsTyped
  <2>2. log' \in EventLogs(Legs)
    BY <1>1, <1>27 DEF CutFirst, EventLogs
  <2>3. crashes' \in 0 .. MaxCrashes
    BY <1>1, <1>27, CrashesBounded DEF CutFirst
  <2> QED
    BY <1>1, <2>1, <2>2, <2>3, OthersTyped
<1> QED
  BY <1>3, <1>4, <1>5, <1>6, <1>7, <1>8, <1>9, <1>10, <1>11, <1>12, <1>13, <1>14, <1>15, <1>16, <1>17, <1>18, <1>19, <1>20, <1>21, <1>22, <1>23, <1>24, <1>25, <1>26, <1>27, <1>28 DEF Next, LegStep

\* Every process, checkpoint and row is of its type, whatever template runs
\* (sdk/graph.py GraphState, store/events.py StepEvent).
THEOREM GraphTypeCorrect == Spec => []GraphTypeOK
<1>1. Typed => GraphTypeOK
  BY DEF Typed
<1> QED
  BY <1>1, TypeInitially, TypeInductive, PTL DEF Spec

-----------------------------------------------------------------------------
(* Guards.  The invariant follows a pool with its position: every node the *)
(* position is past is cleared, and what is falsy was put there by one of  *)
(* them, so that no later product can undo the reason a gate was skipped.  *)

\* No two nodes write the same key; templates.py does not compare them.
ProductsDiffer ==
    \A i, j \in Nodes : Plan[i].produces = Plan[j].produces => i = j

Cleared(taken, passed, n, pool) ==
    /\ Plan[n].kind = "gate" =>
            \/ pool[Plan[n].produces] \in taken
            \/ /\ pool[Plan[n].produces] = "not_required"
               /\ Plan[n].when # None /\ pool[Plan[n].when] = "falsy"
    /\ Plan[n].kind = "judge" /\ ~Plan[n].warn =>
            n \in passed /\ pool[Plan[n].produces] = "pass"

Behind(taken, passed, pool, pos) ==
    /\ \A n \in Nodes : n < pos => Cleared(taken, passed, n, pool)
    /\ \A k \in Keys : pool[k] = "falsy" =>
            \E n \in Nodes : n < pos /\ Plan[n].produces = k

LegsGuarded ==
    \A l \in Legs :
        /\ Behind(Taken, approved, leg[l].pool, leg[l].pos)
        /\ leg[l].resume \in Taken \cup {None}
        /\ leg[l].pc = "free" => given[l] = None

GuardInv == LegsGuarded /\ Behind(Taken, approved, thread.pool, thread.next)

LEMMA BehindAtFirst ==
    ASSUME NEW taken, NEW passed, NEW supplied, NEW pos \in {0, 1}
    PROVE  Behind(taken, passed, PoolOf(supplied), pos)
  BY PoolFacts DEF Behind, Nodes

LEMMA BehindGrows ==
    ASSUME NEW taken, NEW passed, NEW pool, NEW pos,
           Behind(taken, passed, pool, pos),
           NEW taken2, NEW passed2, taken \subseteq taken2, passed \subseteq passed2
    PROVE  Behind(taken2, passed2, pool, pos)
  BY DEF Behind, Cleared

\* A node that is cleared by what it puts into the pool moves the position past it.
LEMMA BehindMoves ==
    ASSUME ProductsDiffer, NEW taken, NEW passed, NEW n \in Nodes,
           NEW pool \in [Keys -> Values], NEW value,
           Behind(taken, passed, pool, n),
           NEW pool2, pool2 = [pool EXCEPT ![Plan[n].produces] = value],
           Cleared(taken, passed, n, pool2)
    PROVE  Behind(taken, passed, pool2, n + 1)
<1> DEFINE key(i) == Plan[i].produces
<1>1. n \in Nat /\ \A i \in Nodes : i \in Nat /\ key(i) \in Keys
  BY NodeFacts DEF Nodes
<1>2. pool2[key(n)] = value /\ \A k \in Keys : k # key(n) => pool2[k] = pool[k]
  BY <1>1
<1>3. ASSUME NEW k \in Keys, pool[k] = "falsy"
      PROVE  k # key(n) /\ pool2[k] = "falsy"
  <2>1. PICK i \in Nodes : i < n /\ key(i) = k
    BY <1>3 DEF Behind
  <2>2. key(i) # key(n)
    BY <1>1, <2>1 DEF ProductsDiffer
  <2> QED
    BY <1>2, <1>3, <2>1, <2>2
<1>4. ASSUME NEW i \in Nodes, i < n + 1
      PROVE  Cleared(taken, passed, i, pool2)
  <2>1. CASE i = n
    BY <2>1
  <2>2. CASE i # n
    <3>1. i < n
      BY <1>1, <1>4, <2>2
    <3>2. Cleared(taken, passed, i, pool)
      BY <3>1 DEF Behind
    <3>3. pool2[key(i)] = pool[key(i)]
      BY <1>1, <1>2, <2>2 DEF ProductsDiffer
    <3>4. Plan[i].when # None => Plan[i].when \in Keys
      BY NodeFacts
    <3> QED
      BY <1>3, <3>2, <3>3, <3>4 DEF Cleared
  <2> QED
    BY <2>1, <2>2
<1>5. ASSUME NEW k \in Keys, pool2[k] = "falsy"
      PROVE  \E i \in Nodes : i < n + 1 /\ key(i) = k
  <2>1. CASE k = key(n)
    BY <1>1, <2>1
  <2>2. CASE k # key(n)
    <3>1. pool[k] = "falsy"
      BY <1>2, <1>5, <2>2
    <3>2. PICK i \in Nodes : i < n /\ key(i) = k
      BY <3>1 DEF Behind
    <3> QED
      BY <1>1, <3>2
  <2> QED
    BY <2>1, <2>2
<1> QED
  BY <1>4, <1>5 DEF Behind

LEMMA GuardsUnmoved ==
    ASSUME GuardInv, Unmoved, UNCHANGED <<given, approved>>,
           thread'.pool = thread.pool, thread'.next = thread.next
    PROVE  GuardInv'
<1>1. Taken' = Taken /\ approved' = approved
  BY DEF Taken
<1>2. LegsGuarded'
  BY <1>1 DEF GuardInv, LegsGuarded, Unmoved
<1> QED
  BY <1>1, <1>2 DEF GuardInv

LEMMA GuardsOneLeg ==
    ASSUME GuardInv, NEW l \in Legs, \A k \in Legs \ {l} : leg'[k] = leg[k],
           UNCHANGED <<thread, given>>, approved \subseteq approved',
           Behind(Taken, approved', leg'[l].pool, leg'[l].pos),
           leg'[l].resume \in Taken \cup {None}, leg'[l].pc # "free"
    PROVE  GuardInv'
<1>1. Taken' = Taken
  BY DEF Taken
<1>2. Behind(Taken, approved', thread.pool, thread.next)
  BY BehindGrows DEF GuardInv
<1>3. ASSUME NEW k \in Legs \ {l}
      PROVE  Behind(Taken, approved', leg[k].pool, leg[k].pos)
  BY BehindGrows DEF GuardInv, LegsGuarded
<1>4. LegsGuarded'
  BY <1>1, <1>3 DEF GuardInv, LegsGuarded
<1> QED
  BY <1>1, <1>2, <1>4 DEF GuardInv

\* A node that returns, past which its value clears the way.
LEMMA GuardsReturned ==
    ASSUME ProductsDiffer, Typed, GuardInv, NEW l \in Legs, leg[l].pos \in Nodes,
           NEW value,
           leg'[l].pc = "node", leg'[l].resume = None,
           leg'[l].pos = leg[l].pos + 1, leg'[l].pool = Pooled(l, value),
           \A k \in Legs \ {l} : leg'[k] = leg[k],
           UNCHANGED <<thread, given>>, approved \subseteq approved',
           Cleared(Taken, approved', leg[l].pos, Pooled(l, value))
    PROVE  GuardInv'
<1>1. leg[l].pool \in [Keys -> Values]
  BY PositionFacts DEF Typed, LegRecord
<1>2. Behind(Taken, approved', leg[l].pool, leg[l].pos)
  BY BehindGrows DEF GuardInv, LegsGuarded
<1>3. Behind(Taken, approved', Pooled(l, value), leg[l].pos + 1)
  BY <1>1, <1>2, BehindMoves DEF Pooled, Here
<1> QED
  BY <1>3, GuardsOneLeg

LEMMA GuardsInitially == Init => GuardInv
<1> SUFFICES ASSUME Init
             PROVE  GuardInv
  OBVIOUS
<1>1. /\ Fresh.pool = PoolOf({}) /\ Fresh.pos = 1 /\ Fresh.resume = None
      /\ NoCheckpoint.pool = PoolOf({}) /\ NoCheckpoint.next = 0
  BY DEF Fresh, NoCheckpoint
<1>2. /\ Behind(Taken, approved, Fresh.pool, Fresh.pos)
      /\ Behind(Taken, approved, NoCheckpoint.pool, NoCheckpoint.next)
  BY <1>1, BehindAtFirst
<1> QED
  BY <1>1, <1>2 DEF Init, GuardInv, LegsGuarded

LEMMA GuardsInductive ==
    ASSUME ProductsDiffer, Typed, GuardInv, [Next]_graphVars
    PROVE  GuardInv'
<1>1. /\ LegsTyped
      /\ \A l \in Legs : leg[l].pc \in {"working", "waiting"} => leg[l].pos \in Nodes
  BY PositionFacts DEF Typed
<1>2. \A l \in Legs : /\ Behind(Taken, approved, leg[l].pool, leg[l].pos)
                      /\ leg[l].resume \in Taken \cup {None}
  BY DEF GuardInv, LegsGuarded
<1>3. ASSUME NEW l \in Legs, NEW supplied, Start(l, supplied)
      PROVE  GuardInv'
  <2>1. /\ leg'[l].pc # "free" /\ leg'[l].pos = 1 /\ leg'[l].pool = PoolOf(supplied)
        /\ leg'[l].resume = leg[l].resume
        /\ \A k \in Legs \ {l} : leg'[k] = leg[k]
    BY <1>1, <1>3, StartedTyped
  <2>2. Behind(Taken, approved', leg'[l].pool, leg'[l].pos)
    BY <2>1, BehindAtFirst
  <2> QED
    BY <1>2, <1>3, <2>1, <2>2, GuardsOneLeg DEF Start
<1>4. ASSUME NEW l \in Legs, NEW v \in Verdicts, Decide(l, v)
      PROVE  GuardInv'
  <2>1. /\ leg'[l].pc # "free" /\ leg'[l].pos = leg[l].pos
        /\ leg'[l].resume = v /\ leg'[l].pool = leg[l].pool
        /\ \A k \in Legs \ {l} : leg'[k] = leg[k]
    BY <1>1, <1>4, DecidedTyped
  <2>2. /\ given[l] = None /\ given \in [Legs -> Verdicts \cup {None}]
        /\ given' = [given EXCEPT ![l] = v] /\ UNCHANGED <<thread, approved>>
    BY <1>4 DEF Decide, At, GuardInv, LegsGuarded, Typed, GraphTypeOK
  <2>3. v # None /\ given'[l] = v /\ \A k \in Legs \ {l} : given'[k] = given[k]
    BY <2>2
  <2>4. Taken \subseteq Taken' /\ v \in Taken'
    <3>1. ASSUME NEW w \in Taken
          PROVE  w \in Taken'
      <4>1. PICK k \in Legs : given[k] = w /\ w # None
        BY DEF Taken
      <4>2. k # l
        BY <2>2, <4>1
      <4> QED
        BY <2>3, <4>1, <4>2 DEF Taken
    <3> QED
      BY <2>3, <3>1 DEF Taken
  <2>5. Behind(Taken', approved, thread.pool, thread.next)
    BY <2>4, BehindGrows DEF GuardInv
  <2>6. ASSUME NEW k \in Legs
        PROVE  /\ Behind(Taken', approved, leg[k].pool, leg[k].pos)
               /\ leg[k].resume \in Taken' \cup {None}
               /\ leg[k].pc = "free" => given[k] = None
    BY <1>2, <2>4, BehindGrows DEF GuardInv, LegsGuarded
  <2>7. ASSUME NEW k \in Legs
        PROVE  /\ Behind(Taken', approved', leg'[k].pool, leg'[k].pos)
               /\ leg'[k].resume \in Taken' \cup {None}
               /\ leg'[k].pc = "free" => given'[k] = None
    <3>1. CASE k = l
      BY <2>1, <2>2, <2>4, <2>6, <3>1
    <3>2. CASE k # l
      BY <2>1, <2>2, <2>3, <2>6, <3>2
    <3> QED
      BY <3>1, <3>2
  <2> QED
    BY <2>2, <2>5, <2>7 DEF GuardInv, LegsGuarded
<1>5. ASSUME NEW l \in Legs, PreflightOk(l)
      PROVE  GuardInv'
  <2>1. Unmoved
    BY <1>1, <1>5, GotoTyped DEF PreflightOk, LegPc
  <2> QED
    BY <1>5, <2>1, GuardsUnmoved DEF PreflightOk
<1>6. ASSUME NEW l \in Legs, PreflightBlocked(l)
      PROVE  GuardInv'
  <2>1. Unmoved
    BY <1>1, <1>6, ToCloseTyped DEF PreflightBlocked, TERMINAL
  <2> QED
    BY <1>6, <2>1, GuardsUnmoved DEF PreflightBlocked
<1>7. ASSUME NEW l \in Legs, Enter(l)
      PROVE  GuardInv'
  <2>1. Unmoved
    BY <1>1, <1>7, EnteredTyped
  <2> QED
    BY <1>7, <2>1, GuardsUnmoved DEF Enter
<1>8. ASSUME NEW l \in Legs, Load(l)
      PROVE  GuardInv'
  <2>1. /\ leg'[l].pc # "free" /\ leg'[l].pos = thread.next
        /\ leg'[l].resume \in {leg[l].resume, None}
        /\ leg'[l].pool = thread.pool
        /\ \A k \in Legs \ {l} : leg'[k] = leg[k]
    BY <1>8, LoadedTyped
  <2>2. Behind(Taken, approved, thread.pool, thread.next)
    BY DEF GuardInv
  <2> QED
    BY <1>2, <1>8, <2>1, <2>2, GuardsOneLeg DEF Load, Loaded
<1>9. ASSUME NEW l \in Legs, Strand(l)
      PROVE  GuardInv'
  <2>1. Unmoved
    BY <1>1, <1>9, GotoTyped DEF Strand, LegPc
  <2> QED
    BY <1>9, <2>1, GuardsUnmoved DEF Strand
<1>10. ASSUME NEW l \in Legs, Save(l)
      PROVE  GuardInv'
  <2>1. /\ Unmoved
        /\ thread'.next = leg[l].pos /\ thread'.pool = leg[l].pool
    BY <1>10, SavedTyped
  <2>2. Taken' = Taken /\ approved' = approved
    BY <1>10 DEF Save, Taken
  <2>3. LegsGuarded'
    BY <1>10, <2>1, <2>2 DEF GuardInv, LegsGuarded, Unmoved, Save
  <2> QED
    BY <1>2, <2>1, <2>2, <2>3 DEF GuardInv
<1>11. ASSUME NEW l \in Legs, SkipGate(l)
      PROVE  GuardInv'
  <2> DEFINE pool == leg[l].pool
             node == Here(l)
  <2>1. /\ leg[l].pos \in Nodes /\ node.kind = "gate"
        /\ node.when # None /\ pool[node.when] = "falsy"
        /\ Merged(l, "not_required", leg[l].ctx, <<>>)
        /\ UNCHANGED <<thread, given, approved>>
    BY <1>11 DEF SkipGate, AtNode, GateRequired
  <2>2. leg[l].ctx \in Seq(Nodes) /\ Len(leg[l].ctx) <= Len(leg[l].ctx)
    BY <1>1, PositionFacts DEF LegRecord
  <2>3. <<>> \in Seq(Nodes) /\ "not_required" \in Values
    BY DEF Values
  <2>4. /\ leg'[l].pc = "node" /\ leg'[l].resume = None
        /\ leg'[l].pos = leg[l].pos + 1
        /\ leg'[l].pool = Pooled(l, "not_required")
        /\ \A k \in Legs \ {l} : leg'[k] = leg[k]
    BY <1>1, <2>1, <2>2, <2>3, MergedTyped
  <2>5. /\ pool \in [Keys -> Values] /\ node.when \in Keys /\ node.produces \in Keys
        /\ leg[l].pos \in Nat
    BY <1>1, <2>1, PositionFacts, NodeFacts DEF LegRecord, Here, Nodes
  <2>6. node.when # node.produces
    <3>1. PICK i \in Nodes : i < leg[l].pos /\ Plan[i].produces = node.when
      BY <1>2, <2>1, <2>5 DEF Behind
    <3> QED
      BY <2>1, <2>5, <3>1 DEF ProductsDiffer, Here, Nodes
  <2>7. /\ Pooled(l, "not_required")[node.produces] = "not_required"
        /\ Pooled(l, "not_required")[node.when] = "falsy"
    BY <2>1, <2>5, <2>6 DEF Pooled
  <2>8. Cleared(Taken, approved', leg[l].pos, Pooled(l, "not_required"))
    BY <2>1, <2>7 DEF Cleared, Here
  <2> QED
    BY <2>1, <2>4, <2>8, GuardsReturned
<1>12. ASSUME NEW l \in Legs, PassGate(l)
      PROVE  GuardInv'
  <2> DEFINE v == leg[l].resume
  <2>1. /\ leg[l].pos \in Nodes /\ Here(l).kind = "gate" /\ v # None
        /\ Merged(l, v, leg[l].ctx, <<>>)
        /\ UNCHANGED <<thread, given, approved>>
    BY <1>12 DEF PassGate, AtNode
  <2>2. /\ leg[l].ctx \in Seq(Nodes) /\ Len(leg[l].ctx) <= Len(leg[l].ctx)
        /\ v \in Verdicts \cup {None} /\ leg[l].pool \in [Keys -> Values]
    BY <1>1, PositionFacts DEF LegRecord
  <2>3. <<>> \in Seq(Nodes) /\ v \in Values /\ v \in Taken
    BY <1>2, <2>1, <2>2 DEF Values
  <2> HIDE DEF v
  <2>4. /\ leg'[l].pc = "node" /\ leg'[l].resume = None
        /\ leg'[l].pos = leg[l].pos + 1
        /\ leg'[l].pool = Pooled(l, v)
        /\ \A k \in Legs \ {l} : leg'[k] = leg[k]
    BY <1>1, <2>1, <2>2, <2>3, MergedTyped
  <2>5. Pooled(l, v)[Here(l).produces] = v
    BY <2>1, <2>2, NodeFacts DEF Pooled, Here
  <2>6. Cleared(Taken, approved', leg[l].pos, Pooled(l, v))
    BY <2>1, <2>3, <2>5 DEF Cleared, Here
  <2> QED
    BY <2>1, <2>4, <2>6, GuardsReturned
<1>13. ASSUME NEW l \in Legs, Interrupt(l)
      PROVE  GuardInv'
  <2>1. Unmoved
    BY <1>1, <1>13, GotoTyped DEF Interrupt, AtNode, LegPc
  <2>2. thread'.pool = thread.pool /\ thread'.next = thread.next
    BY <1>13 DEF Interrupt, Typed, GraphTypeOK, ThreadRecord
  <2> QED
    BY <1>13, <2>1, <2>2, GuardsUnmoved DEF Interrupt
<1>14. ASSUME NEW l \in Legs, TellPause(l)
      PROVE  GuardInv'
  <2>1. Unmoved
    BY <1>1, <1>14, ToCloseTyped DEF TellPause
  <2> QED
    BY <1>14, <2>1, GuardsUnmoved DEF TellPause
<1>15. ASSUME NEW l \in Legs, Unbound(l)
      PROVE  GuardInv'
  <2>1. Unmoved
    BY <1>1, <1>15, GotoTyped DEF Unbound, LegPc
  <2> QED
    BY <1>15, <2>1, GuardsUnmoved DEF Unbound
<1>16. ASSUME NEW l \in Legs, StartStep(l) \/ StartJudge(l)
      PROVE  GuardInv'
  <2>1. Unmoved
    BY <1>1, <1>16, BegunTyped DEF StartStep, StartJudge, AtNode
  <2> QED
    BY <1>16, <2>1, GuardsUnmoved DEF StartStep, StartJudge, Begin
<1>17. ASSUME NEW l \in Legs, RetryAgent(l) \/ AskAgain(l)
      PROVE  GuardInv'
  <2>1. Unmoved
    BY <1>1, <1>17, AgainTyped DEF RetryAgent, AskAgain, Working, At
  <2> QED
    BY <1>17, <2>1, GuardsUnmoved DEF RetryAgent, AskAgain, Again
<1>18. ASSUME NEW l \in Legs, NEW value \in Products, NEW status \in Done,
             Succeed(l, value, status)
      PROVE  GuardInv'
  <2>1. /\ leg[l].pos \in Nodes /\ Here(l).kind \in {"hook", "agent"}
        /\ Returned(l, value, Noted(l)) /\ value \in Values
        /\ UNCHANGED <<thread, given, approved>>
    BY <1>1, <1>18 DEF Succeed, Working, At, Values
  <2>2. /\ leg'[l].pc = "node" /\ leg'[l].resume = None
        /\ leg'[l].pos = leg[l].pos + 1
        /\ leg'[l].pool = Pooled(l, value)
        /\ \A k \in Legs \ {l} : leg'[k] = leg[k]
    BY <1>1, <2>1, ReturnedTyped
  <2>3. Cleared(Taken, approved', leg[l].pos, Pooled(l, value))
    BY <2>1 DEF Cleared, Here
  <2> QED
    BY <2>1, <2>2, <2>3, GuardsReturned
<1>19. ASSUME NEW l \in Legs, Collide(l)
      PROVE  GuardInv'
  <2>1. Unmoved
    BY <1>1, <1>19, GotoTyped DEF Collide, LegPc
  <2> QED
    BY <1>19, <2>1, GuardsUnmoved DEF Collide
<1>20. ASSUME NEW l \in Legs, NEW status \in {"blocked", "failed"}, Fail(l, status)
      PROVE  GuardInv'
  <2>1. Unmoved
    BY <1>1, <1>20, ToCloseTyped DEF Fail, TERMINAL
  <2> QED
    BY <1>20, <2>1, GuardsUnmoved DEF Fail
<1>21. ASSUME NEW l \in Legs, JudgeBlind(l)
      PROVE  GuardInv'
  <2>1. Unmoved
    BY <1>1, <1>21, ToCloseTyped DEF JudgeBlind, TERMINAL
  <2> QED
    BY <1>21, <2>1, GuardsUnmoved DEF JudgeBlind
<1>22. ASSUME NEW l \in Legs, JudgePass(l)
      PROVE  GuardInv'
  <2>1. /\ leg[l].pos \in Nodes /\ Here(l).kind = "judge"
        /\ Returned(l, "pass", Noted(l)) /\ "pass" \in Values
        /\ UNCHANGED <<thread, given>> /\ approved' = approved \cup {leg[l].pos}
    BY <1>1, <1>22 DEF JudgePass, Judged, Working, At, Values
  <2>2. /\ leg'[l].pc = "node" /\ leg'[l].resume = None
        /\ leg'[l].pos = leg[l].pos + 1
        /\ leg'[l].pool = Pooled(l, "pass")
        /\ \A k \in Legs \ {l} : leg'[k] = leg[k]
    BY <1>1, <2>1, ReturnedTyped
  <2>3. Pooled(l, "pass")[Here(l).produces] = "pass"
    BY <1>1, <2>1, PositionFacts, NodeFacts DEF Pooled, Here, LegRecord
  <2>4. Cleared(Taken, approved', leg[l].pos, Pooled(l, "pass"))
    BY <2>1, <2>3 DEF Cleared, Here
  <2> QED
    BY <2>1, <2>2, <2>4, GuardsReturned
<1>23. ASSUME NEW l \in Legs, NEW verdict \in {"fail", "none"}, JudgeWarn(l, verdict)
      PROVE  GuardInv'
  <2>1. /\ leg[l].pos \in Nodes /\ Here(l).kind = "judge" /\ Here(l).warn
        /\ Returned(l, "fail", Noted(l)) /\ "fail" \in Values
        /\ UNCHANGED <<thread, given>> /\ approved' = approved
    BY <1>1, <1>23 DEF JudgeWarn, Judged, Working, At, Values
  <2>2. /\ leg'[l].pc = "node" /\ leg'[l].resume = None
        /\ leg'[l].pos = leg[l].pos + 1
        /\ leg'[l].pool = Pooled(l, "fail")
        /\ \A k \in Legs \ {l} : leg'[k] = leg[k]
    BY <1>1, <2>1, ReturnedTyped
  <2>4. Cleared(Taken, approved', leg[l].pos, Pooled(l, "fail"))
    BY <2>1 DEF Cleared, Here
  <2> QED
    BY <2>1, <2>2, <2>4, GuardsReturned
<1>24. ASSUME NEW l \in Legs, NEW verdict \in {"fail", "none"}, JudgeBlock(l, verdict)
      PROVE  GuardInv'
  <2>1. Unmoved
    BY <1>1, <1>24, ToCloseTyped DEF JudgeBlock, TERMINAL
  <2>2. UNCHANGED <<thread, given, approved>>
    BY <1>24 DEF JudgeBlock, Judged
  <2> QED
    BY <2>1, <2>2, GuardsUnmoved
<1>25. ASSUME NEW l \in Legs, Close(l)
      PROVE  GuardInv'
  <2>1. Unmoved
    BY <1>1, <1>25, ClosedTyped
  <2> QED
    BY <1>25, <2>1, GuardsUnmoved DEF Close
<1>26. ASSUME NEW l \in Legs, Finish(l)
      PROVE  GuardInv'
  <2>1. Unmoved
    BY <1>1, <1>26, FinishedTyped
  <2> QED
    BY <1>26, <2>1, GuardsUnmoved DEF Finish
<1>27. ASSUME NEW l \in Legs, Crash(l)
      PROVE  GuardInv'
  <2>1. Unmoved
    BY <1>1, <1>27, GotoTyped DEF Crash, LegPc
  <2> QED
    BY <1>27, <2>1, GuardsUnmoved DEF Crash
<1>29. ASSUME NEW l \in Legs, Leave(l)
      PROVE  GuardInv'
  <2>1. Unmoved
    BY <1>1, <1>29, GotoTyped DEF Leave, LegPc
  <2> QED
    BY <1>29, <2>1, GuardsUnmoved DEF Leave
<1>28. CASE CutFirst \/ UNCHANGED graphVars
  BY <1>28, GuardsUnmoved DEF CutFirst, graphVars, Unmoved
<1> QED
  BY <1>3, <1>4, <1>5, <1>6, <1>7, <1>8, <1>9, <1>10, <1>11, <1>12, <1>13, <1>14, <1>15, <1>16, <1>17, <1>18, <1>19, <1>20, <1>21, <1>22, <1>23, <1>24, <1>25, <1>26, <1>27, <1>28, <1>29 DEF Next, LegStep

LEMMA GuardsTold ==
    ASSUME Typed, GuardInv
    PROVE  GatesHold /\ JudgesGuard
<1> SUFFICES ASSUME NEW l \in Legs, leg[l].pc = "working", NEW n \in 1 .. (leg[l].pos - 1)
             PROVE  /\ Plan[n].kind = "gate" => Opened(Plan[n], leg[l].pool)
                    /\ Plan[n].kind = "judge" /\ ~Plan[n].warn
                            => n \in approved /\ leg[l].pool[Plan[n].produces] = "pass"
  BY DEF GatesHold, JudgesGuard, At
<1>1. leg[l].pos \in Nodes
  BY PositionFacts DEF Typed
<1>2. n \in Nodes /\ n < leg[l].pos
  BY <1>1 DEF Nodes
<1>3. Cleared(Taken, approved, n, leg[l].pool)
  BY <1>2 DEF GuardInv, LegsGuarded, Behind
<1> QED
  BY <1>3 DEF Cleared, Opened

\* Whatever the template, however many processes work on the run at once, are
\* killed, or carry decisions nobody waits for: no step is begun behind a gate
\* that no decision opened and that was material (sdk/graph.py:95-116, 199-218).
THEOREM GatesAreHeld ==
    ASSUME ProductsDiffer
    PROVE  Spec => []GatesHold
<1>1. Init => Typed /\ GuardInv
  BY TypeInitially, GuardsInitially
<1>2. Typed /\ GuardInv /\ [Next]_graphVars => (Typed /\ GuardInv)'
  BY TypeInductive, GuardsInductive
<1>3. Typed /\ GuardInv => GatesHold
  BY GuardsTold
<1> QED
  BY <1>1, <1>2, <1>3, PTL DEF Spec

\* Nor behind a blocking judge whose model has not answered "pass"
\* (sdk/judge.py:325-379).
THEOREM JudgesAreAsked ==
    ASSUME ProductsDiffer
    PROVE  Spec => []JudgesGuard
<1>1. Init => Typed /\ GuardInv
  BY TypeInitially, GuardsInitially
<1>2. Typed /\ GuardInv /\ [Next]_graphVars => (Typed /\ GuardInv)'
  BY TypeInductive, GuardsInductive
<1>3. Typed /\ GuardInv => JudgesGuard
  BY GuardsTold
<1> QED
  BY <1>1, <1>2, <1>3, PTL DEF Spec

-----------------------------------------------------------------------------
(* Decisions.  A decision is spent when the process that carries it no     *)
(* longer holds its verdict, and a verdict gets into a pool only at a gate *)
(* that takes it from its process: every pool is at most as far as the     *)
(* decisions that are spent, and they never become fewer.                  *)

Spent == {l \in Legs : given[l] # None /\ leg[l].resume = None}

Hands(pool) == Cardinality(OpenedByHand(pool))

SpentInv ==
    /\ IsFiniteSet(Decisions)
    /\ \A l \in Legs : leg[l].resume # None => given[l] # None
    /\ \A l \in Legs : leg[l].pc = "free" => given[l] = None /\ leg[l].resume = None
    /\ Hands(thread.pool) <= Cardinality(Spent)
    /\ \A l \in Legs : Hands(leg[l].pool) <= Cardinality(Spent)

LEMMA HandsFinite ==
    ASSUME NEW pool
    PROVE  IsFiniteSet(OpenedByHand(pool)) /\ Hands(pool) \in Nat
<1>1. IsFiniteSet(Nodes)
  BY FS_Interval, LenProperties DEF Nodes
<1>2. OpenedByHand(pool) \subseteq Nodes
  BY DEF OpenedByHand
<1> QED
  BY <1>1, <1>2, FS_Subset, FS_CardinalityType DEF Hands

LEMMA HandsAtFirst ==
    ASSUME NEW supplied
    PROVE  Hands(PoolOf(supplied)) = 0
<1>1. ASSUME NEW k \in Keys
      PROVE  PoolOf(supplied)[k] \notin Verdicts
  BY DEF PoolOf, Products
<1>2. OpenedByHand(PoolOf(supplied)) = {}
  BY <1>1, NodeFacts DEF OpenedByHand
<1> QED
  BY <1>2, FS_EmptySet DEF Hands

LEMMA SpentFinite ==
    ASSUME SpentInv
    PROVE  /\ Spent \subseteq Decisions /\ IsFiniteSet(Spent)
           /\ Cardinality(Spent) \in Nat
           /\ Cardinality(Spent) <= Cardinality(Decisions)
<1>1. Spent \subseteq Decisions /\ IsFiniteSet(Decisions)
  BY DEF Spent, Decisions, SpentInv
<1> QED
  BY <1>1, FS_Subset, FS_CardinalityType

\* A product that is not a verdict opens no gate by hand.
LEMMA NothingByHand ==
    ASSUME Typed, NEW l \in Legs, leg[l].pos \in Nodes, NEW value, value \notin Verdicts
    PROVE  Hands(Pooled(l, value)) <= Hands(leg[l].pool)
<1>1. leg[l].pool \in [Keys -> Values]
  BY PositionFacts DEF Typed, LegRecord
<1>2. ASSUME NEW g \in OpenedByHand(Pooled(l, value))
      PROVE  g \in OpenedByHand(leg[l].pool)
  <2>1. /\ g \in Nodes /\ Plan[g].kind = "gate" /\ Plan[g].produces \in Keys
        /\ Pooled(l, value)[Plan[g].produces] \in Verdicts
    BY NodeFacts DEF OpenedByHand
  <2>2. Plan[g].produces # Here(l).produces
    BY <1>1, <2>1 DEF Pooled
  <2>3. Pooled(l, value)[Plan[g].produces] = leg[l].pool[Plan[g].produces]
    BY <1>1, <2>1, <2>2 DEF Pooled
  <2> QED
    BY <2>1, <2>3 DEF OpenedByHand
<1>3. /\ OpenedByHand(Pooled(l, value)) \subseteq OpenedByHand(leg[l].pool)
      /\ IsFiniteSet(OpenedByHand(leg[l].pool))
  BY <1>2, HandsFinite
<1> QED
  BY <1>3, FS_Subset DEF Hands

\* Whatever is put into the pool opens at most the gate at which it is put there.
LEMMA OneByHand ==
    ASSUME ProductsDiffer, Typed, NEW l \in Legs, leg[l].pos \in Nodes, NEW value
    PROVE  Hands(Pooled(l, value)) <= Hands(leg[l].pool) + 1
<1> DEFINE before == OpenedByHand(leg[l].pool)
<1>1. leg[l].pool \in [Keys -> Values]
  BY PositionFacts DEF Typed, LegRecord
<1>2. ASSUME NEW g \in OpenedByHand(Pooled(l, value)), g # leg[l].pos
      PROVE  g \in before
  <2>1. /\ g \in Nodes /\ Plan[g].kind = "gate" /\ Plan[g].produces \in Keys
        /\ Pooled(l, value)[Plan[g].produces] \in Verdicts
    BY NodeFacts DEF OpenedByHand
  <2>2. Plan[g].produces # Here(l).produces
    BY <1>2, <2>1 DEF ProductsDiffer, Here
  <2>3. Pooled(l, value)[Plan[g].produces] = leg[l].pool[Plan[g].produces]
    BY <1>1, <2>1, <2>2 DEF Pooled
  <2> QED
    BY <2>1, <2>3 DEF OpenedByHand
<1>3. IsFiniteSet(before) /\ Cardinality(before) \in Nat
  BY HandsFinite DEF Hands
<1>4. OpenedByHand(Pooled(l, value)) \subseteq before \cup {leg[l].pos}
  BY <1>2
<1> HIDE DEF before
<1>5. /\ IsFiniteSet(before \cup {leg[l].pos})
      /\ Cardinality(before \cup {leg[l].pos}) <= Cardinality(before) + 1
  <2>1. PICK c \in Nat : c = Cardinality(before)
    BY <1>3
  <2>2. /\ IsFiniteSet(before \cup {leg[l].pos})
        /\ Cardinality(before \cup {leg[l].pos}) \in {c, c + 1}
    BY <1>3, <2>1, FS_AddElement
  <2> QED
    BY <2>1, <2>2
<1>6. PICK n \in Nat : n = Cardinality(before \cup {leg[l].pos})
  BY <1>5, FS_CardinalityType
<1>7. PICK m \in Nat : m = Cardinality(OpenedByHand(Pooled(l, value)))
  BY HandsFinite DEF Hands
<1>8. m <= n
  BY <1>4, <1>5, <1>6, <1>7, FS_Subset
<1> QED
  BY <1>3, <1>5, <1>6, <1>7, <1>8 DEF Hands, before

LEMMA SpentUnmoved ==
    ASSUME SpentInv, Unmoved, UNCHANGED given, thread'.pool = thread.pool
    PROVE  SpentInv'
<1>1. Spent' = Spent /\ Decisions' = Decisions
  BY DEF Spent, Decisions, Unmoved
<1> QED
  BY <1>1 DEF SpentInv, Unmoved, Hands, OpenedByHand

\* A process moves, with what at least as many spent decisions account for.
LEMMA SpentOneLeg ==
    ASSUME SpentInv, NEW l \in Legs, \A k \in Legs \ {l} : leg'[k] = leg[k],
           UNCHANGED <<thread, given>>, leg'[l].pc # "free",
           leg'[l].resume \in {leg[l].resume, None},
           Hands(leg'[l].pool) <= Cardinality(Spent')
    PROVE  SpentInv'
<1>1. Decisions' = Decisions
  BY DEF Decisions
<1>2. Spent \subseteq Spent'
  BY DEF Spent
<1>3. /\ \A k \in Legs : leg'[k].resume # None => given'[k] # None
      /\ \A k \in Legs : leg'[k].pc = "free" => given'[k] = None /\ leg'[k].resume = None
  BY DEF SpentInv
<1>4. Spent' \subseteq Decisions /\ IsFiniteSet(Decisions)
  BY <1>1 DEF Spent, Decisions, SpentInv
<1>5. IsFiniteSet(Spent') /\ Cardinality(Spent) <= Cardinality(Spent')
  BY <1>2, <1>4, FS_Subset
<1>6. PICK n \in Nat : n = Cardinality(Spent')
  BY <1>5, FS_CardinalityType
<1>7. PICK m \in Nat : m = Cardinality(Spent)
  BY SpentFinite
<1>8. ASSUME NEW pool, Hands(pool) <= m
      PROVE  Hands(pool) <= n
  BY <1>5, <1>6, <1>7, <1>8, HandsFinite
<1>9. Hands(thread'.pool) <= n
  BY <1>7, <1>8 DEF SpentInv
<1>10. \A k \in Legs : Hands(leg'[k].pool) <= n
  BY <1>6, <1>7, <1>8 DEF SpentInv
<1> QED
  BY <1>1, <1>3, <1>4, <1>6, <1>9, <1>10 DEF SpentInv, Hands, OpenedByHand

\* A node returns a product that is not a verdict.
LEMMA SpentReturned ==
    ASSUME Typed, SpentInv, NEW l \in Legs, leg[l].pos \in Nodes,
           NEW value, value \notin Verdicts,
           leg'[l].pc = "node", leg'[l].resume = None, leg'[l].pool = Pooled(l, value),
           \A k \in Legs \ {l} : leg'[k] = leg[k], UNCHANGED <<thread, given>>
    PROVE  SpentInv'
<1>1. Spent \subseteq Spent' /\ Spent' \subseteq Decisions /\ IsFiniteSet(Decisions)
  BY DEF Spent, Decisions, SpentInv
<1>2. IsFiniteSet(Spent') /\ Cardinality(Spent) <= Cardinality(Spent')
  BY <1>1, FS_Subset
<1>3. PICK n \in Nat : n = Cardinality(Spent')
  BY <1>2, FS_CardinalityType
<1>4. PICK m \in Nat : m = Cardinality(Spent)
  BY SpentFinite
<1>5. Hands(leg[l].pool) <= m
  BY <1>4 DEF SpentInv
<1>6. Hands(Pooled(l, value)) <= Hands(leg[l].pool)
  BY NothingByHand
<1>7. Hands(Pooled(l, value)) <= n
  BY <1>2, <1>3, <1>4, <1>5, <1>6, HandsFinite
<1> QED
  BY <1>3, <1>7, SpentOneLeg

LEMMA SpentInitially == Init => SpentInv
<1> SUFFICES ASSUME Init
             PROVE  SpentInv
  OBVIOUS
<1>1. /\ Fresh.pool = PoolOf({}) /\ Fresh.resume = None
      /\ NoCheckpoint.pool = PoolOf({})
  BY DEF Fresh, NoCheckpoint
<1>2. Decisions = {} /\ Spent = {}
  BY DEF Init, Decisions, Spent
<1>3. IsFiniteSet(Decisions) /\ Cardinality(Spent) = 0
  BY <1>2, FS_EmptySet
<1>4. Hands(Fresh.pool) = 0 /\ Hands(NoCheckpoint.pool) = 0
  BY <1>1, HandsAtFirst
<1> QED
  BY <1>1, <1>3, <1>4 DEF Init, SpentInv

LEMMA SpentInductive ==
    ASSUME ProductsDiffer, Typed, SpentInv, [Next]_graphVars
    PROVE  SpentInv'
<1>1. /\ LegsTyped
      /\ \A l \in Legs : leg[l].pc \in {"working", "waiting"} => leg[l].pos \in Nodes
  BY PositionFacts DEF Typed
<1>2. ASSUME NEW l \in Legs, NEW supplied, Start(l, supplied)
      PROVE  SpentInv'
  <2>1. /\ leg'[l].pc # "free" /\ leg'[l].pool = PoolOf(supplied)
        /\ leg'[l].resume = leg[l].resume
        /\ \A k \in Legs \ {l} : leg'[k] = leg[k]
    BY <1>1, <1>2, StartedTyped
  <2>2. UNCHANGED <<thread, given>>
    BY <1>2 DEF Start
  <2>3. Spent' = Spent
    BY <2>1, <2>2 DEF Spent
  <2>4. Hands(leg'[l].pool) <= Cardinality(Spent')
    BY <2>1, <2>3, HandsAtFirst, SpentFinite
  <2> QED
    BY <2>1, <2>2, <2>4, SpentOneLeg
<1>3. ASSUME NEW l \in Legs, NEW v \in Verdicts, Decide(l, v)
      PROVE  SpentInv'
  <2>1. /\ leg'[l].pc # "free" /\ leg'[l].resume = v /\ leg'[l].pool = leg[l].pool
        /\ \A k \in Legs \ {l} : leg'[k] = leg[k]
    BY <1>1, <1>3, DecidedTyped
  <2>2. /\ given \in [Legs -> Verdicts \cup {None}] /\ v # None
        /\ given' = [given EXCEPT ![l] = v] /\ UNCHANGED thread
    BY <1>3 DEF Decide, Typed, GraphTypeOK
  <2>3. given'[l] = v /\ \A k \in Legs \ {l} : given'[k] = given[k]
    BY <2>2
  <2>4. given[l] = None
    BY <1>3 DEF Decide, At, SpentInv
  <2>5. Spent' = Spent
    BY <2>1, <2>2, <2>3, <2>4 DEF Spent
  <2>6. Decisions' = Decisions \cup {l}
    BY <2>2, <2>3 DEF Decisions
  <2>7. IsFiniteSet(Decisions')
    BY <2>6, FS_AddElement DEF SpentInv
  <2>8. \A k \in Legs : leg'[k].pool = leg[k].pool
    BY <2>1
  <2>9. /\ \A k \in Legs : leg'[k].resume # None => given'[k] # None
        /\ \A k \in Legs : leg'[k].pc = "free" => given'[k] = None /\ leg'[k].resume = None
    BY <2>1, <2>2, <2>3 DEF SpentInv
  <2> QED
    BY <2>2, <2>5, <2>7, <2>8, <2>9 DEF SpentInv, Hands, OpenedByHand
<1>4. ASSUME NEW l \in Legs, PreflightOk(l)
      PROVE  SpentInv'
  <2>1. Unmoved
    BY <1>1, <1>4, GotoTyped DEF PreflightOk, LegPc
  <2> QED
    BY <1>4, <2>1, SpentUnmoved DEF PreflightOk
<1>5. ASSUME NEW l \in Legs, PreflightBlocked(l)
      PROVE  SpentInv'
  <2>1. Unmoved
    BY <1>1, <1>5, ToCloseTyped DEF PreflightBlocked, TERMINAL
  <2> QED
    BY <1>5, <2>1, SpentUnmoved DEF PreflightBlocked
<1>6. ASSUME NEW l \in Legs, Enter(l)
      PROVE  SpentInv'
  <2>1. Unmoved
    BY <1>1, <1>6, EnteredTyped
  <2> QED
    BY <1>6, <2>1, SpentUnmoved DEF Enter
<1>7. ASSUME NEW l \in Legs, Load(l)
      PROVE  SpentInv'
  <2>1. /\ leg'[l].pc # "free" /\ leg'[l].resume \in {leg[l].resume, None}
        /\ leg'[l].pool = thread.pool
        /\ \A k \in Legs \ {l} : leg'[k] = leg[k]
    BY <1>7, LoadedTyped
  <2>2. UNCHANGED <<thread, given>>
    BY <1>7 DEF Load, Loaded
  <2>3. Spent \subseteq Spent' /\ Spent' \subseteq Decisions /\ IsFiniteSet(Decisions)
    BY <2>1, <2>2 DEF Spent, Decisions, SpentInv
  <2>4. IsFiniteSet(Spent') /\ Cardinality(Spent) <= Cardinality(Spent')
    BY <2>3, FS_Subset
  <2>5. PICK n \in Nat : n = Cardinality(Spent')
    BY <2>4, FS_CardinalityType
  <2>6. PICK m \in Nat : m = Cardinality(Spent)
    BY SpentFinite
  <2>7. Hands(thread.pool) <= m
    BY <2>6 DEF SpentInv
  <2>8. Hands(leg'[l].pool) <= n
    BY <2>1, <2>4, <2>5, <2>6, <2>7, HandsFinite
  <2> QED
    BY <2>1, <2>2, <2>5, <2>8, SpentOneLeg
<1>8. ASSUME NEW l \in Legs, Strand(l)
      PROVE  SpentInv'
  <2>1. Unmoved
    BY <1>1, <1>8, GotoTyped DEF Strand, LegPc
  <2> QED
    BY <1>8, <2>1, SpentUnmoved DEF Strand
<1>9. ASSUME NEW l \in Legs, Save(l)
      PROVE  SpentInv'
  <2>1. Unmoved /\ thread'.pool = leg[l].pool /\ UNCHANGED given
    BY <1>9, SavedTyped DEF Save
  <2>2. Spent' = Spent /\ Decisions' = Decisions
    BY <2>1 DEF Spent, Decisions, Unmoved
  <2> QED
    BY <2>1, <2>2 DEF SpentInv, Unmoved, Hands, OpenedByHand
<1>10. ASSUME NEW l \in Legs, SkipGate(l)
      PROVE  SpentInv'
  <2>1. /\ leg[l].pos \in Nodes /\ Merged(l, "not_required", leg[l].ctx, <<>>)
        /\ UNCHANGED <<thread, given>>
    BY <1>10 DEF SkipGate, AtNode
  <2>2. leg[l].ctx \in Seq(Nodes) /\ Len(leg[l].ctx) <= Len(leg[l].ctx)
    BY <1>1, PositionFacts DEF LegRecord
  <2>3. <<>> \in Seq(Nodes) /\ "not_required" \in Values /\ "not_required" \notin Verdicts
    BY DEF Values
  <2>4. /\ leg'[l].pc = "node" /\ leg'[l].resume = None
        /\ leg'[l].pool = Pooled(l, "not_required")
        /\ \A k \in Legs \ {l} : leg'[k] = leg[k]
    BY <1>1, <2>1, <2>2, <2>3, MergedTyped
  <2> QED
    BY <2>1, <2>3, <2>4, SpentReturned
<1>11. ASSUME NEW l \in Legs, PassGate(l)
      PROVE  SpentInv'
  <2> DEFINE v == leg[l].resume
  <2>1. /\ leg[l].pos \in Nodes /\ v # None
        /\ Merged(l, v, leg[l].ctx, <<>>)
        /\ UNCHANGED <<thread, given>>
    BY <1>11 DEF PassGate, AtNode
  <2>2. /\ leg[l].ctx \in Seq(Nodes) /\ Len(leg[l].ctx) <= Len(leg[l].ctx)
        /\ v \in Verdicts \cup {None}
    BY <1>1, PositionFacts DEF LegRecord
  <2>3. <<>> \in Seq(Nodes) /\ v \in Values
    BY <2>1, <2>2 DEF Values
  <2>4. given[l] # None
    BY <2>1 DEF SpentInv
  <2>5. l \notin Spent
    BY <2>1 DEF Spent
  <2> HIDE DEF v
  <2>6. /\ leg'[l].pc = "node" /\ leg'[l].resume = None
        /\ leg'[l].pool = Pooled(l, v)
        /\ \A k \in Legs \ {l} : leg'[k] = leg[k]
    BY <1>1, <2>1, <2>2, <2>3, MergedTyped
  <2>7. Spent' = Spent \cup {l}
    BY <2>1, <2>4, <2>6 DEF Spent
  <2>8. PICK m \in Nat : m = Cardinality(Spent)
    BY SpentFinite
  <2>9. Cardinality(Spent') = m + 1
    BY <2>5, <2>7, <2>8, SpentFinite, FS_AddElement
  <2>10. PICK h \in Nat : h = Hands(leg[l].pool)
    BY HandsFinite
  <2>11. h <= m
    BY <2>8, <2>10 DEF SpentInv
  <2>12. Hands(Pooled(l, v)) <= h + 1
    BY <2>1, <2>10, OneByHand
  <2>13. Hands(leg'[l].pool) <= Cardinality(Spent')
    BY <2>6, <2>9, <2>11, <2>12, HandsFinite
  <2> QED
    BY <2>1, <2>6, <2>13, SpentOneLeg
<1>12. ASSUME NEW l \in Legs, Interrupt(l)
      PROVE  SpentInv'
  <2>1. Unmoved
    BY <1>1, <1>12, GotoTyped DEF Interrupt, AtNode, LegPc
  <2>2. thread'.pool = thread.pool
    BY <1>12 DEF Interrupt, Typed, GraphTypeOK, ThreadRecord
  <2> QED
    BY <1>12, <2>1, <2>2, SpentUnmoved DEF Interrupt
<1>13. ASSUME NEW l \in Legs, TellPause(l)
      PROVE  SpentInv'
  <2>1. Unmoved
    BY <1>1, <1>13, ToCloseTyped DEF TellPause
  <2> QED
    BY <1>13, <2>1, SpentUnmoved DEF TellPause
<1>14. ASSUME NEW l \in Legs, Unbound(l)
      PROVE  SpentInv'
  <2>1. Unmoved
    BY <1>1, <1>14, GotoTyped DEF Unbound, LegPc
  <2> QED
    BY <1>14, <2>1, SpentUnmoved DEF Unbound
<1>15. ASSUME NEW l \in Legs, StartStep(l) \/ StartJudge(l)
      PROVE  SpentInv'
  <2>1. Unmoved
    BY <1>1, <1>15, BegunTyped DEF StartStep, StartJudge, AtNode
  <2> QED
    BY <1>15, <2>1, SpentUnmoved DEF StartStep, StartJudge, Begin
<1>16. ASSUME NEW l \in Legs, RetryAgent(l) \/ AskAgain(l)
      PROVE  SpentInv'
  <2>1. Unmoved
    BY <1>1, <1>16, AgainTyped DEF RetryAgent, AskAgain, Working, At
  <2> QED
    BY <1>16, <2>1, SpentUnmoved DEF RetryAgent, AskAgain, Again
<1>17. ASSUME NEW l \in Legs, NEW value \in Products, NEW status \in Done,
             Succeed(l, value, status)
      PROVE  SpentInv'
  <2>1. /\ leg[l].pos \in Nodes
        /\ Returned(l, value, Noted(l)) /\ value \in Values /\ value \notin Verdicts
        /\ UNCHANGED <<thread, given>>
    BY <1>1, <1>17 DEF Succeed, Working, At, Values
  <2>2. /\ leg'[l].pc = "node" /\ leg'[l].resume = None
        /\ leg'[l].pool = Pooled(l, value)
        /\ \A k \in Legs \ {l} : leg'[k] = leg[k]
    BY <1>1, <2>1, ReturnedTyped
  <2> QED
    BY <2>1, <2>2, SpentReturned
<1>18. ASSUME NEW l \in Legs, Collide(l)
      PROVE  SpentInv'
  <2>1. Unmoved
    BY <1>1, <1>18, GotoTyped DEF Collide, LegPc
  <2> QED
    BY <1>18, <2>1, SpentUnmoved DEF Collide
<1>19. ASSUME NEW l \in Legs, NEW status \in {"blocked", "failed"}, Fail(l, status)
      PROVE  SpentInv'
  <2>1. Unmoved
    BY <1>1, <1>19, ToCloseTyped DEF Fail, TERMINAL
  <2> QED
    BY <1>19, <2>1, SpentUnmoved DEF Fail
<1>20. ASSUME NEW l \in Legs, JudgeBlind(l)
      PROVE  SpentInv'
  <2>1. Unmoved
    BY <1>1, <1>20, ToCloseTyped DEF JudgeBlind, TERMINAL
  <2> QED
    BY <1>20, <2>1, SpentUnmoved DEF JudgeBlind
<1>21. ASSUME NEW l \in Legs, NEW verdict \in {"fail", "none"},
             JudgePass(l) \/ JudgeWarn(l, verdict)
      PROVE  SpentInv'
  <2>1. PICK value \in {"pass", "fail"} :
            /\ leg[l].pos \in Nodes /\ Returned(l, value, Noted(l))
            /\ UNCHANGED <<thread, given>>
    BY <1>1, <1>21 DEF JudgePass, JudgeWarn, Judged, Working, At
  <2>2. value \in Values /\ value \notin Verdicts
    BY DEF Values
  <2>3. /\ leg'[l].pc = "node" /\ leg'[l].resume = None
        /\ leg'[l].pool = Pooled(l, value)
        /\ \A k \in Legs \ {l} : leg'[k] = leg[k]
    BY <1>1, <2>1, <2>2, ReturnedTyped
  <2> QED
    BY <2>1, <2>2, <2>3, SpentReturned
<1>22. ASSUME NEW l \in Legs, NEW verdict \in {"fail", "none"}, JudgeBlock(l, verdict)
      PROVE  SpentInv'
  <2>1. Unmoved
    BY <1>1, <1>22, ToCloseTyped DEF JudgeBlock, TERMINAL
  <2>2. UNCHANGED <<thread, given>>
    BY <1>22 DEF JudgeBlock, Judged
  <2> QED
    BY <2>1, <2>2, SpentUnmoved
<1>23. ASSUME NEW l \in Legs, Close(l)
      PROVE  SpentInv'
  <2>1. Unmoved
    BY <1>1, <1>23, ClosedTyped
  <2> QED
    BY <1>23, <2>1, SpentUnmoved DEF Close
<1>24. ASSUME NEW l \in Legs, Finish(l)
      PROVE  SpentInv'
  <2>1. Unmoved
    BY <1>1, <1>24, FinishedTyped
  <2> QED
    BY <1>24, <2>1, SpentUnmoved DEF Finish
<1>25. ASSUME NEW l \in Legs, Crash(l)
      PROVE  SpentInv'
  <2>1. Unmoved
    BY <1>1, <1>25, GotoTyped DEF Crash, LegPc
  <2> QED
    BY <1>25, <2>1, SpentUnmoved DEF Crash
<1>27. ASSUME NEW l \in Legs, Leave(l)
      PROVE  SpentInv'
  <2>1. Unmoved
    BY <1>1, <1>27, GotoTyped DEF Leave, LegPc
  <2> QED
    BY <1>27, <2>1, SpentUnmoved DEF Leave
<1>26. CASE CutFirst \/ UNCHANGED graphVars
  BY <1>26, SpentUnmoved DEF CutFirst, graphVars, Unmoved
<1> QED
  BY <1>2, <1>3, <1>4, <1>5, <1>6, <1>7, <1>8, <1>9, <1>10, <1>11, <1>12, <1>13, <1>14, <1>15, <1>16, <1>17, <1>18, <1>19, <1>20, <1>21, <1>22, <1>23, <1>24, <1>25, <1>26, <1>27 DEF Next, LegStep

\* Whatever the template, and however many decisions are taken at once on one
\* checkpoint or carried by processes that are killed: no process and no
\* checkpoint has more gates opened by hand than decisions were taken on the run
\* (sdk/graph.py:95-116, sdk/cli.py decide).
THEOREM DecisionsAreSpentOnce ==
    ASSUME ProductsDiffer
    PROVE  Spec => []OneDecisionOpensOneGate
<1>1. Init => Typed /\ SpentInv
  BY TypeInitially, SpentInitially
<1>2. Typed /\ SpentInv /\ [Next]_graphVars => (Typed /\ SpentInv)'
  BY TypeInductive, SpentInductive
<1>3. ASSUME SpentInv
      PROVE  OneDecisionOpensOneGate
  <2>1. PICK n \in Nat : n = Cardinality(Spent)
    BY <1>3, SpentFinite
  <2>2. PICK m \in Nat : m = Cardinality(Decisions)
    BY <1>3, FS_CardinalityType DEF SpentInv
  <2>3. n <= m
    BY <1>3, <2>1, <2>2, SpentFinite
  <2>4. ASSUME NEW pool, Hands(pool) <= n
        PROVE  Hands(pool) <= m
    BY <2>3, <2>4, HandsFinite
  <2>5. Hands(thread.pool) <= m /\ \A l \in Legs : Hands(leg[l].pool) <= m
    BY <1>3, <2>1, <2>4 DEF SpentInv
  <2> QED
    BY <2>2, <2>5 DEF OneDecisionOpensOneGate, Hands
<1> QED
  BY <1>1, <1>2, <1>3, PTL DEF Spec

-----------------------------------------------------------------------------
(* What a step does to the process that takes it, to the checkpoint and to *)
(* the calls.                                                              *)

Still(l) == \A k \in Legs \ {l} : leg'[k] = leg[k]

SameWork(l) ==
    /\ leg'[l].pos = leg[l].pos /\ leg'[l].notes = leg[l].notes
    /\ leg'[l].ctx = leg[l].ctx /\ leg'[l].before = leg[l].before
    /\ leg'[l].asks = leg[l].asks

\* A process goes on, or stops, with what it has, and calls nobody.
Moved(l) ==
    /\ Still(l) /\ SameWork(l) /\ UNCHANGED invoked
    /\ thread'.next = thread.next /\ thread'.notes = thread.notes
    /\ leg[l].pc \in LegPc \ Stopped
    /\ leg'[l].pc \in LegPc \ {"free", "preflight", "loading", "working"}
    /\ leg'[l].pc = "entering" => leg[l].pc = "preflight"
    /\ leg'[l].pc \in {"node", "waiting", "closing"}
            => leg[l].pc \in {"preflight", "entering", "node", "waiting", "working"}
    /\ leg'[l].pc = "leaving" => leg[l].pc = "closing"

LEMMA GotoFacts ==
    ASSUME LegsTyped, NEW l \in Legs, NEW pc, Goto(l, pc)
    PROVE  Still(l) /\ SameWork(l) /\ leg'[l].pc = pc
<1>1. leg \in [Legs -> LegRecord] /\ leg[l] \in LegRecord
  BY DEF LegsTyped
<1> QED
  BY <1>1 DEF Goto, Still, SameWork, LegRecord

LEMMA ToCloseFacts ==
    ASSUME LegsTyped, NEW l \in Legs, NEW status, ToClose(l, status)
    PROVE  Still(l) /\ SameWork(l) /\ leg'[l].pc = "closing"
<1>1. leg \in [Legs -> LegRecord] /\ leg[l] \in LegRecord
  BY DEF LegsTyped
<1> QED
  BY <1>1 DEF ToClose, Still, SameWork, LegRecord

LEMMA StartFacts ==
    ASSUME Typed, NEW l \in Legs, NEW supplied, Start(l, supplied)
    PROVE  /\ Still(l) /\ SameWork(l) /\ leg'[l].pc = "preflight"
           /\ \A k \in Legs : leg[k].pc = "free"
           /\ UNCHANGED <<thread, invoked>>
<1>1. leg \in [Legs -> LegRecord] /\ leg[l] \in LegRecord
  BY DEF Typed, LegsTyped
<1> QED
  BY <1>1 DEF Start, Still, SameWork, LegRecord, At

LEMMA DecideFacts ==
    ASSUME Typed, NEW l \in Legs, NEW v, Decide(l, v)
    PROVE  /\ Still(l) /\ SameWork(l) /\ leg[l].pc = "free" /\ leg'[l].pc = "loading"
           /\ Overlap \/ \A k \in Legs : leg[k].pc \in Stopped
           /\ UNCHANGED <<thread, invoked>>
<1>1. leg \in [Legs -> LegRecord] /\ leg[l] \in LegRecord
  BY DEF Typed, LegsTyped
<1> QED
  BY <1>1 DEF Decide, Still, SameWork, LegRecord, At, Live

LEMMA CutFacts ==
    ASSUME Typed, CutFirst
    PROVE  /\ UNCHANGED <<leg, thread, given, invoked, approved>>
           /\ log'.rows = log.rows /\ log'.lost = log.lost
           /\ Overlap \/ \A k \in Legs : leg[k].pc \in Stopped
  BY DEF CutFirst, Live, Typed, GraphTypeOK, EventLogs

LEMMA LoadFacts ==
    ASSUME Typed, NEW l \in Legs, Load(l)
    PROVE  /\ Still(l) /\ leg[l].pc = "loading" /\ leg'[l].pc = "node"
           /\ thread.next # 0
           /\ leg'[l].pos = thread.next /\ leg'[l].notes = thread.notes
           /\ UNCHANGED <<thread, invoked>>
<1> DEFINE resume == IF AtGate(thread.next) THEN leg[l].resume ELSE None
           x == [leg[l] EXCEPT !.pc = "node", !.pos = thread.next,
                    !.pool = thread.pool, !.notes = thread.notes, !.saved = TRUE,
                    !.resume = resume]
<1>1. leg \in [Legs -> LegRecord] /\ leg[l] \in LegRecord
  BY DEF Typed, LegsTyped
<1>2. leg' = [leg EXCEPT ![l] = x]
  BY DEF Load, Loaded
<1> HIDE DEF resume
<1>3. x.pc = "node" /\ x.pos = thread.next /\ x.notes = thread.notes
  BY <1>1 DEF LegRecord
<1> HIDE DEF x
<1> QED
  BY <1>1, <1>2, <1>3 DEF Load, Loaded, Still, At

LEMMA SaveFacts ==
    ASSUME Typed, NEW l \in Legs, Save(l)
    PROVE  /\ Still(l) /\ SameWork(l)
           /\ leg[l].pc \in {"node", "working", "closing", "leaving"}
           /\ leg'[l].pc = leg[l].pc
           /\ thread'.next = leg[l].pos /\ thread'.notes = leg[l].notes
           /\ UNCHANGED invoked
<1>1. leg \in [Legs -> LegRecord] /\ leg[l] \in LegRecord
  BY DEF Typed, LegsTyped
<1> QED
  BY <1>1 DEF Save, Still, SameWork, LegRecord

\* The node a process stands at returns, and adds notes to those of the graph.
Advanced(l, notes) ==
    /\ Still(l) /\ leg'[l].pc = "node" /\ leg'[l].pos = leg[l].pos + 1
    /\ leg'[l].notes = leg[l].notes \o notes
    /\ UNCHANGED <<thread, invoked>>

LEMMA MergedFacts ==
    ASSUME Typed, NEW l \in Legs, NEW value, NEW ctx, NEW notes,
           Merged(l, value, ctx, notes), UNCHANGED <<thread, invoked>>
    PROVE  Advanced(l, notes)
<1> DEFINE x == [leg[l] EXCEPT !.pc = "node", !.pos = leg[l].pos + 1,
                    !.saved = FALSE,
                    !.pool = Pooled(l, value),
                    !.ctx = ctx, !.notes = leg[l].notes \o notes, !.resume = None]
<1>1. leg \in [Legs -> LegRecord] /\ leg[l] \in LegRecord
  BY DEF Typed, LegsTyped
<1>2. leg' = [leg EXCEPT ![l] = x]
  BY DEF Merged
<1>3. x.pc = "node" /\ x.pos = leg[l].pos + 1 /\ x.notes = leg[l].notes \o notes
  BY <1>1 DEF LegRecord
<1> HIDE DEF x
<1> QED
  BY <1>1, <1>2, <1>3 DEF Advanced, Still

\* A gate adds no notes.
LEMMA GateFacts ==
    ASSUME Typed, NEW l \in Legs, SkipGate(l) \/ PassGate(l)
    PROVE  /\ leg[l].pos \in Nodes /\ Plan[leg[l].pos].kind = "gate"
           /\ leg[l].pc = "node" /\ Advanced(l, <<>>)
<1>1. PICK value : Merged(l, value, leg[l].ctx, <<>>)
  BY DEF SkipGate, PassGate
<1> QED
  BY <1>1, MergedFacts DEF SkipGate, PassGate, AtNode, At, Here

\* Any other node adds those of its process since it began.
LEMMA ReturnedFacts ==
    ASSUME Typed, NEW l \in Legs,
           \/ \E value \in Products, status \in Done : Succeed(l, value, status)
           \/ JudgePass(l)
           \/ \E verdict \in {"fail", "none"} : JudgeWarn(l, verdict)
    PROVE  /\ leg[l].pc = "working"
           /\ Advanced(l, SubSeq(Noted(l), leg[l].before + 1, Len(Noted(l))))
<1>1. /\ leg[l].pc = "working" /\ UNCHANGED <<thread, invoked>>
      /\ \E value : Returned(l, value, Noted(l))
  BY DEF Succeed, JudgePass, JudgeWarn, Judged, Working, At
<1> QED
  BY <1>1, MergedFacts DEF Returned

LEMMA BeginFacts ==
    ASSUME Typed, NEW l \in Legs, StartStep(l) \/ StartJudge(l)
    PROVE  /\ Still(l) /\ leg[l].pos \in Nodes /\ Plan[leg[l].pos].kind # "gate"
           /\ leg[l].pc = "node" /\ leg'[l].pc = "working"
           /\ leg'[l].pos = leg[l].pos /\ leg'[l].notes = leg[l].notes
           /\ leg'[l].ctx = leg[l].ctx /\ leg'[l].before = Len(leg[l].ctx)
           /\ leg'[l].asks = 0
           /\ UNCHANGED thread /\ invoked' = [invoked EXCEPT ![leg[l].pos] = @ + 1]
<1>1. leg \in [Legs -> LegRecord] /\ leg[l] \in LegRecord
  BY DEF Typed, LegsTyped
<1>2. AtNode(l, {"hook", "agent", "judge"}) /\ Begin(l)
  BY DEF StartStep, StartJudge, AtNode
<1> QED
  BY <1>1, <1>2 DEF AtNode, At, Here, Begin, Called, Still, LegRecord

LEMMA AgainFacts ==
    ASSUME Typed, NEW l \in Legs, RetryAgent(l) \/ AskAgain(l)
    PROVE  /\ Still(l) /\ leg[l].pc = "working" /\ leg'[l].pc = "working"
           /\ Plan[leg[l].pos].kind # "hook"
           /\ leg'[l].pos = leg[l].pos /\ leg'[l].notes = leg[l].notes
           /\ leg'[l].ctx = Noted(l) /\ leg'[l].before = leg[l].before
           /\ leg[l].asks = 0 /\ leg'[l].asks = 1
           /\ UNCHANGED thread /\ invoked' = [invoked EXCEPT ![leg[l].pos] = @ + 1]
<1>1. leg \in [Legs -> LegRecord] /\ leg[l] \in LegRecord
  BY DEF Typed, LegsTyped
<1>2. Working(l, {"agent", "judge"}) /\ Again(l)
  BY DEF RetryAgent, AskAgain, Working
<1> QED
  BY <1>1, <1>2 DEF Working, At, Here, Again, Called, Still, LegRecord

Moves(l) ==
    \/ PreflightOk(l) \/ PreflightBlocked(l) \/ Enter(l) \/ Strand(l)
    \/ Interrupt(l) \/ TellPause(l) \/ Unbound(l) \/ Collide(l)
    \/ \E status \in {"blocked", "failed"} : Fail(l, status)
    \/ JudgeBlind(l)
    \/ \E verdict \in {"fail", "none"} : JudgeBlock(l, verdict)
    \/ Close(l) \/ Leave(l) \/ Finish(l) \/ Crash(l)

LEMMA MovesFacts ==
    ASSUME Typed, NEW l \in Legs, Moves(l)
    PROVE  Moved(l)
<1>1. LegsTyped /\ leg \in [Legs -> LegRecord] /\ leg[l] \in LegRecord
  BY DEF Typed, LegsTyped
<1>2. CASE PreflightOk(l)
  <2>1. Still(l) /\ SameWork(l) /\ leg'[l].pc = "entering"
    BY <1>1, <1>2, GotoFacts DEF PreflightOk
  <2> QED
    BY <1>2, <2>1 DEF PreflightOk, Moved, At, LegPc, Stopped
<1>3. CASE PreflightBlocked(l)
  <2>1. Still(l) /\ SameWork(l) /\ leg'[l].pc = "closing"
    BY <1>1, <1>3, ToCloseFacts DEF PreflightBlocked
  <2> QED
    BY <1>3, <2>1 DEF PreflightBlocked, Moved, At, LegPc, Stopped
<1>4. CASE Enter(l)
  <2>1. Still(l) /\ SameWork(l) /\ leg'[l].pc = "node"
    BY <1>1, <1>4 DEF Enter, Still, SameWork, LegRecord
  <2> QED
    BY <1>4, <2>1 DEF Enter, Moved, At, LegPc, Stopped
<1>5. CASE Strand(l)
  <2>1. Still(l) /\ SameWork(l) /\ leg'[l].pc = "stranded"
    BY <1>1, <1>5, GotoFacts DEF Strand
  <2> QED
    BY <1>5, <2>1 DEF Strand, Moved, At, LegPc, Stopped
<1>6. CASE Interrupt(l)
  <2>1. Still(l) /\ SameWork(l) /\ leg'[l].pc = "waiting"
    BY <1>1, <1>6, GotoFacts DEF Interrupt
  <2>2. thread'.next = thread.next /\ thread'.notes = thread.notes
    BY <1>6 DEF Interrupt, Typed, GraphTypeOK, ThreadRecord
  <2> QED
    BY <1>6, <2>1, <2>2 DEF Interrupt, Moved, AtNode, At, LegPc, Stopped
<1>7. CASE TellPause(l)
  <2>1. Still(l) /\ SameWork(l) /\ leg'[l].pc = "closing"
    BY <1>1, <1>7, ToCloseFacts DEF TellPause
  <2> QED
    BY <1>7, <2>1 DEF TellPause, Moved, At, LegPc, Stopped
<1>8. CASE Unbound(l)
  <2>1. Still(l) /\ SameWork(l) /\ leg'[l].pc = "unbound"
    BY <1>1, <1>8, GotoFacts DEF Unbound
  <2> QED
    BY <1>8, <2>1 DEF Unbound, Moved, AtNode, At, LegPc, Stopped
<1>9. CASE Collide(l)
  <2>1. Still(l) /\ SameWork(l) /\ leg'[l].pc = "collided"
    BY <1>1, <1>9, GotoFacts DEF Collide
  <2> QED
    BY <1>9, <2>1 DEF Collide, Moved, Working, At, LegPc, Stopped
<1>10. CASE \/ \E status \in {"blocked", "failed"} : Fail(l, status)
            \/ JudgeBlind(l)
            \/ \E verdict \in {"fail", "none"} : JudgeBlock(l, verdict)
  <2>1. /\ \E status : ToClose(l, status)
        /\ leg[l].pc = "working" /\ UNCHANGED <<thread, invoked>>
    BY <1>10 DEF Fail, JudgeBlind, JudgeBlock, Judged, Working, At
  <2>2. Still(l) /\ SameWork(l) /\ leg'[l].pc = "closing"
    BY <1>1, <2>1, ToCloseFacts
  <2> QED
    BY <2>1, <2>2 DEF Moved, LegPc, Stopped
<1>11. CASE Close(l)
  <2>1. PICK pc \in {"ended", "leaving"} : Goto(l, pc)
    BY <1>11 DEF Close
  <2>2. Still(l) /\ SameWork(l) /\ leg'[l].pc \in {"ended", "leaving"}
    BY <1>1, <2>1, GotoFacts
  <2> QED
    BY <1>11, <2>2 DEF Close, Moved, At, LegPc, Stopped
<1>14. CASE Leave(l)
  <2>1. Still(l) /\ SameWork(l) /\ leg'[l].pc = "ended"
    BY <1>1, <1>14, GotoFacts DEF Leave
  <2> QED
    BY <1>14, <2>1 DEF Leave, Moved, At, LegPc, Stopped
<1>12. CASE Finish(l)
  <2>1. Still(l) /\ SameWork(l) /\ leg'[l].pc = "ended"
    BY <1>1, <1>12 DEF Finish, Still, SameWork, LegRecord
  <2> QED
    BY <1>12, <2>1 DEF Finish, Moved, At, LegPc, Stopped
<1>13. CASE Crash(l)
  <2>1. Still(l) /\ SameWork(l) /\ leg'[l].pc = "crashed"
    BY <1>1, <1>13, GotoFacts DEF Crash
  <2> QED
    BY <1>1, <1>13, <2>1 DEF Crash, Moved, LegRecord, LegPc, Stopped
<1> QED
  BY <1>2, <1>3, <1>4, <1>5, <1>6, <1>7, <1>8, <1>9, <1>10, <1>11, <1>12, <1>13, <1>14 DEF Moves

-----------------------------------------------------------------------------
(* Notes.  Those in the graph are those of the nodes behind the position,  *)
(* whoever ran them; those a process has made since its node began are of  *)
(* that node, one for each call it repeated.                               *)

Allowed(n) == IF Plan[n].kind = "hook" THEN 1 ELSE 2

WorkNoted(l) ==
    leg[l].pc = "working" =>
        /\ Noting(leg[l].pos)
        /\ Plan[leg[l].pos].kind = "hook" => leg[l].asks = 0
        /\ Len(leg[l].ctx) = leg[l].before + leg[l].asks
        /\ \A i \in (leg[l].before + 1) .. Len(leg[l].ctx) : leg[l].ctx[i] = leg[l].pos

NotesInv ==
    /\ NotesInStepOrder(thread.notes, thread.next)
    /\ \A l \in Legs : NotesInStepOrder(leg[l].notes, leg[l].pos) /\ WorkNoted(l)

LEMMA NotesAtFirst == NotesInStepOrder(<<>>, 0) /\ NotesInStepOrder(<<>>, 1)
  BY DEF NotesInStepOrder, NotesOf, Nodes

LEMMA NotesPassGate ==
    ASSUME NEW pos \in Nodes, ~Noting(pos), NEW notes \in Seq(Nodes),
           NotesInStepOrder(notes, pos)
    PROVE  NotesInStepOrder(notes \o <<>>, pos + 1)
<1>1. notes \o <<>> = notes
  OBVIOUS
<1>2. ASSUME NEW n \in Nodes
      PROVE  n < pos /\ Noting(n) <=> n < pos + 1 /\ Noting(n)
  BY DEF Nodes
<1> QED
  BY <1>1, <1>2 DEF NotesInStepOrder

LEMMA NotesGrow ==
    ASSUME NEW pos \in Nodes, Noting(pos), NEW notes \in Seq(Nodes),
           NotesInStepOrder(notes, pos),
           NEW new \in Seq(Nodes), Len(new) \in 1 .. Allowed(pos),
           \A i \in 1 .. Len(new) : new[i] = pos
    PROVE  NotesInStepOrder(notes \o new, pos + 1)
<1> DEFINE both == notes \o new
<1>1. PICK L \in Nat, M \in Nat : L = Len(notes) /\ M = Len(new)
  OBVIOUS
<1>2. /\ both \in Seq(Nodes) /\ Len(both) = L + M
      /\ DOMAIN both = 1 .. (L + M) /\ DOMAIN notes = 1 .. L
      /\ \A i \in 1 .. L : both[i] = notes[i]
      /\ \A i \in (L + 1) .. (L + M) : both[i] = pos
  BY <1>1
<1>3. pos \in Nat /\ 1 <= M /\ M <= Allowed(pos)
  BY <1>1 DEF Nodes, Allowed
<1>4. \A i \in 1 .. (L - 1) : notes[i] <= notes[i + 1]
  BY <1>1 DEF NotesInStepOrder
<1>5. ASSUME NEW i \in 1 .. L
      PROVE  notes[i] \in Nodes /\ notes[i] < pos
  <2>1. notes[i] \in Nodes /\ i \in NotesOf(notes[i], notes)
    BY <1>1, <1>2 DEF NotesOf
  <2> QED
    BY <2>1 DEF NotesInStepOrder
<1> HIDE DEF both
<1>6. ASSUME NEW i \in 1 .. (Len(both) - 1)
      PROVE  both[i] <= both[i + 1]
  <2>1. CASE i < L
    <3>1. i \in 1 .. (L - 1) /\ i \in 1 .. L /\ i + 1 \in 1 .. L
      BY <1>1, <2>1
    <3> QED
      BY <1>2, <1>4, <3>1
  <2>2. CASE i = L
    <3>1. i \in 1 .. L /\ i + 1 \in (L + 1) .. (L + M)
      BY <1>1, <1>3, <2>2
    <3>2. both[i] \in Nodes /\ both[i] < pos /\ both[i + 1] = pos
      BY <1>2, <1>5, <3>1
    <3> QED
      BY <1>3, <3>2 DEF Nodes
  <2>3. CASE i > L
    <3>1. i \in (L + 1) .. (L + M) /\ i + 1 \in (L + 1) .. (L + M)
      BY <1>1, <1>2, <2>3
    <3> QED
      BY <1>2, <1>3, <3>1
  <2> QED
    BY <1>1, <2>1, <2>2, <2>3
<1>7. Cardinality(NotesOf(pos, both)) = M
  <2>1. \A i \in 1 .. L : both[i] # pos
    BY <1>2, <1>3, <1>5 DEF Nodes
  <2>2. NotesOf(pos, both) = (L + 1) .. (L + M)
    BY <1>1, <1>2, <2>1 DEF NotesOf
  <2>3. PICK first \in Int, last \in Int : first = L + 1 /\ last = L + M
    BY <1>1
  <2>4. first <= last /\ last - first + 1 = M
    BY <1>1, <1>3, <2>3
  <2> QED
    BY <2>2, <2>3, <2>4, FS_Interval
<1>8. ASSUME NEW n \in Nodes, n # pos
      PROVE  NotesOf(n, both) = NotesOf(n, notes)
  BY <1>1, <1>2, <1>8 DEF NotesOf
<1>9. ASSUME NEW n \in Nodes
      PROVE  IF n < pos + 1 /\ Noting(n)
             THEN Cardinality(NotesOf(n, both)) \in
                    1 .. (IF Plan[n].kind = "hook" THEN 1 ELSE 2)
             ELSE NotesOf(n, both) = {}
  <2>1. CASE n = pos
    BY <1>3, <1>7, <2>1 DEF Allowed
  <2>2. CASE n # pos
    <3>1. n < pos + 1 <=> n < pos
      BY <1>3, <2>2 DEF Nodes
    <3> QED
      BY <1>8, <2>2, <3>1 DEF NotesInStepOrder
  <2> QED
    BY <2>1, <2>2
<1> QED
  BY <1>6, <1>9 DEF NotesInStepOrder, both

\* What a process has noted since its node began.
Since(l) == SubSeq(Noted(l), leg[l].before + 1, Len(Noted(l)))

LEMMA NotedSince ==
    ASSUME Typed, NEW l \in Legs, leg[l].pc = "working", WorkNoted(l)
    PROVE  /\ Since(l) \in Seq(Nodes) /\ Len(Since(l)) \in 1 .. Allowed(leg[l].pos)
           /\ \A i \in 1 .. Len(Since(l)) : Since(l)[i] = leg[l].pos
<1>1. PICK pos \in Nodes, ctx \in Seq(Nodes) : pos = leg[l].pos /\ ctx = leg[l].ctx
  BY PositionFacts DEF Typed, LegRecord
<1>2. PICK before \in Nat, asks \in Nat :
            before = leg[l].before /\ asks = leg[l].asks /\ (asks = 0 \/ asks = 1)
  BY PositionFacts DEF Typed, LegRecord
<1>3. /\ Len(ctx) = before + asks
      /\ \A i \in (before + 1) .. (before + asks) : ctx[i] = pos
      /\ Plan[pos].kind = "hook" => asks = 0
  BY <1>1, <1>2 DEF WorkNoted
<1>4. PICK all : all = Append(ctx, pos)
  OBVIOUS
<1>5. all \in Seq(Nodes) /\ Len(all) = before + asks + 1
  BY <1>3, <1>4, AppendProperties
<1>6. ASSUME NEW i \in (before + 1) .. (before + asks + 1)
      PROVE  all[i] = pos
  <2>1. CASE i = before + asks + 1
    BY <1>3, <1>4, <2>1
  <2>2. CASE i # before + asks + 1
    <3>1. i \in (before + 1) .. (before + asks) /\ i \in 1 .. Len(ctx)
      BY <1>3, <2>2
    <3> QED
      BY <1>3, <1>4, <3>1
  <2> QED
    BY <2>1, <2>2
<1>7. PICK new : new = SubSeq(all, before + 1, before + asks + 1)
  OBVIOUS
<1>8. new \in Seq(Nodes) /\ Len(new) = asks + 1
  BY <1>4, <1>5, <1>7
<1>9. ASSUME NEW i \in 1 .. (asks + 1)
      PROVE  new[i] = pos
  <2>1. before + i \in (before + 1) .. (before + asks + 1)
    OBVIOUS
  <2>2. before + 1 + i - 1 = before + i
    OBVIOUS
  <2>3. new[i] = all[before + i]
    BY <1>5, <1>7, <2>2
  <2> QED
    BY <1>6, <2>1, <2>3
<1>10. Since(l) = new
  BY <1>1, <1>2, <1>4, <1>5, <1>7 DEF Since, Noted
<1> QED
  BY <1>1, <1>2, <1>3, <1>8, <1>9, <1>10 DEF Allowed

LEMMA NotesInitially == Init => NotesInv
<1> SUFFICES ASSUME Init
             PROVE  NotesInv
  OBVIOUS
<1>1. /\ Fresh.notes = <<>> /\ Fresh.pos = 1 /\ Fresh.pc = "free"
      /\ NoCheckpoint.notes = <<>> /\ NoCheckpoint.next = 0
  BY DEF Fresh, NoCheckpoint
<1> QED
  BY <1>1, NotesAtFirst DEF Init, NotesInv, WorkNoted

\* A process that keeps its notes, and is not at work afterwards.
LEMMA NotesKept ==
    ASSUME NotesInv, NEW l \in Legs, Still(l), leg'[l].pc # "working",
           NotesInStepOrder(leg'[l].notes, leg'[l].pos),
           NotesInStepOrder(thread'.notes, thread'.next)
    PROVE  NotesInv'
<1>1. ASSUME NEW k \in Legs
      PROVE  NotesInStepOrder(leg'[k].notes, leg'[k].pos) /\ WorkNoted(k)'
  BY DEF NotesInv, WorkNoted, Still, Noting
<1> QED
  BY <1>1 DEF NotesInv, NotesInStepOrder, Noting

LEMMA NotesInductive ==
    ASSUME Typed, NotesInv, [Next]_graphVars
    PROVE  NotesInv'
<1>1. /\ \A l \in Legs : leg[l].pc = "working" => leg[l].pos \in Nodes
      /\ \A l \in Legs : leg[l] \in LegRecord
  BY PositionFacts DEF Typed
<1>2. NotesInStepOrder(thread.notes, thread.next)
  BY DEF NotesInv
<1>3. ASSUME NEW l \in Legs, NEW supplied, Start(l, supplied)
      PROVE  NotesInv'
  BY <1>2, <1>3, StartFacts, NotesKept DEF NotesInv, SameWork
<1>4. ASSUME NEW l \in Legs, NEW v \in Verdicts, Decide(l, v)
      PROVE  NotesInv'
  BY <1>2, <1>4, DecideFacts, NotesKept DEF NotesInv, SameWork
<1>5. ASSUME NEW l \in Legs, Load(l)
      PROVE  NotesInv'
  BY <1>2, <1>5, LoadFacts, NotesKept
<1>6. ASSUME NEW l \in Legs, Save(l)
      PROVE  NotesInv'
  <2>1. /\ Still(l) /\ SameWork(l) /\ leg'[l].pc = leg[l].pc
        /\ thread'.next = leg[l].pos /\ thread'.notes = leg[l].notes
    BY <1>6, SaveFacts
  <2>2. ASSUME NEW k \in Legs
        PROVE  NotesInStepOrder(leg'[k].notes, leg'[k].pos) /\ WorkNoted(k)'
    BY <2>1 DEF NotesInv, WorkNoted, Still, SameWork, Noting
  <2>3. NotesInStepOrder(thread'.notes, thread'.next)
    BY <2>1 DEF NotesInv
  <2> QED
    BY <2>2, <2>3 DEF NotesInv, NotesInStepOrder, Noting
<1>7. ASSUME NEW l \in Legs, SkipGate(l) \/ PassGate(l)
      PROVE  NotesInv'
  <2>1. /\ leg[l].pos \in Nodes /\ Plan[leg[l].pos].kind = "gate"
        /\ Advanced(l, <<>>)
    BY <1>7, GateFacts
  <2>2. NotesInStepOrder(leg[l].notes \o <<>>, leg[l].pos + 1)
    BY <1>1, <2>1, NotesPassGate DEF NotesInv, Noting, LegRecord
  <2> QED
    BY <1>2, <2>1, <2>2, NotesKept DEF Advanced
<1>8. ASSUME NEW l \in Legs, StartStep(l) \/ StartJudge(l)
      PROVE  NotesInv'
  <2>1. /\ Still(l) /\ leg[l].pos \in Nodes /\ Plan[leg[l].pos].kind # "gate"
        /\ leg'[l].pc = "working" /\ leg'[l].asks = 0
        /\ leg'[l].pos = leg[l].pos /\ leg'[l].notes = leg[l].notes
        /\ leg'[l].ctx = leg[l].ctx /\ leg'[l].before = Len(leg[l].ctx)
        /\ UNCHANGED thread
    BY <1>8, BeginFacts
  <2>2. Len(leg[l].ctx) \in Nat
    BY <1>1 DEF LegRecord
  <2>3. WorkNoted(l)'
    BY <2>1, <2>2 DEF WorkNoted, Noting
  <2>4. ASSUME NEW k \in Legs
        PROVE  NotesInStepOrder(leg'[k].notes, leg'[k].pos) /\ WorkNoted(k)'
    BY <2>1, <2>3 DEF NotesInv, WorkNoted, Still, Noting
  <2>5. NotesInStepOrder(thread'.notes, thread'.next)
    BY <1>2, <2>1
  <2> QED
    BY <2>4, <2>5 DEF NotesInv, NotesInStepOrder, Noting
<1>9. ASSUME NEW l \in Legs, RetryAgent(l) \/ AskAgain(l)
      PROVE  NotesInv'
  <2>1. /\ Still(l) /\ leg[l].pc = "working" /\ Plan[leg[l].pos].kind # "hook"
        /\ leg'[l].pc = "working"
        /\ leg'[l].pos = leg[l].pos /\ leg'[l].notes = leg[l].notes
        /\ leg'[l].ctx = Noted(l) /\ leg'[l].before = leg[l].before
        /\ leg[l].asks = 0 /\ leg'[l].asks = 1
        /\ UNCHANGED thread
    BY <1>9, AgainFacts
  <2>2. PICK b \in Nat : b = leg[l].before
    BY <1>1 DEF LegRecord
  <2>3. leg[l].ctx \in Seq(Nodes) /\ Len(leg[l].ctx) = b /\ Noting(leg[l].pos)
    BY <1>1, <2>1, <2>2 DEF NotesInv, WorkNoted, LegRecord
  <2>4. Len(Noted(l)) = b + 1 /\ Noted(l)[b + 1] = leg[l].pos
    BY <2>3 DEF Noted
  <2>5. WorkNoted(l)'
    BY <2>1, <2>2, <2>3, <2>4 DEF WorkNoted, Noting
  <2>6. ASSUME NEW k \in Legs
        PROVE  NotesInStepOrder(leg'[k].notes, leg'[k].pos) /\ WorkNoted(k)'
    BY <2>1, <2>5 DEF NotesInv, WorkNoted, Still, Noting
  <2>7. NotesInStepOrder(thread'.notes, thread'.next)
    BY <1>2, <2>1
  <2> QED
    BY <2>6, <2>7 DEF NotesInv, NotesInStepOrder, Noting
<1>10. ASSUME NEW l \in Legs,
              \/ \E value \in Products, status \in Done : Succeed(l, value, status)
              \/ JudgePass(l)
              \/ \E verdict \in {"fail", "none"} : JudgeWarn(l, verdict)
       PROVE  NotesInv'
  <2>1. leg[l].pc = "working" /\ Advanced(l, Since(l))
    BY <1>10, ReturnedFacts DEF Since
  <2>2. /\ leg[l].pos \in Nodes /\ Noting(leg[l].pos) /\ leg[l].notes \in Seq(Nodes)
        /\ NotesInStepOrder(leg[l].notes, leg[l].pos) /\ WorkNoted(l)
    BY <1>1, <2>1 DEF NotesInv, WorkNoted, LegRecord
  <2>3. /\ Since(l) \in Seq(Nodes) /\ Len(Since(l)) \in 1 .. Allowed(leg[l].pos)
        /\ \A i \in 1 .. Len(Since(l)) : Since(l)[i] = leg[l].pos
    BY <2>1, <2>2, NotedSince
  <2>4. NotesInStepOrder(leg[l].notes \o Since(l), leg[l].pos + 1)
    BY <2>2, <2>3, NotesGrow
  <2> QED
    BY <1>2, <2>1, <2>4, NotesKept DEF Advanced
<1>11. ASSUME NEW l \in Legs, Moves(l)
       PROVE  NotesInv'
  <2>1. Moved(l)
    BY <1>11, MovesFacts
  <2> QED
    BY <1>2, <2>1, NotesKept DEF NotesInv, Moved, SameWork
<1>12. CASE CutFirst \/ UNCHANGED graphVars
  <2>1. UNCHANGED <<leg, thread>>
    BY <1>12 DEF CutFirst, graphVars
  <2>2. ASSUME NEW k \in Legs
        PROVE  NotesInStepOrder(leg'[k].notes, leg'[k].pos) /\ WorkNoted(k)'
    BY <2>1 DEF NotesInv, WorkNoted, Noting
  <2>3. NotesInStepOrder(thread'.notes, thread'.next)
    BY <1>2, <2>1
  <2> QED
    BY <2>2, <2>3 DEF NotesInv, NotesInStepOrder, Noting
<1> QED
  BY <1>3, <1>4, <1>5, <1>6, <1>7, <1>8, <1>9, <1>10, <1>11, <1>12 DEF Next, LegStep, Moves

\* Whatever the template, whoever is killed or overlaps: no note is lost, doubled
\* or out of order, in a process or in the checkpoint, although a resumed process
\* begins with an empty ctx (sdk/graph.py:229-231 and 462-465).
THEOREM NotesAreKept == Spec => []NotesKeptOnce
<1>1. Init => Typed /\ NotesInv
  BY TypeInitially, NotesInitially
<1>2. Typed /\ NotesInv /\ [Next]_graphVars => (Typed /\ NotesInv)'
  BY TypeInductive, NotesInductive
<1>3. NotesInv => NotesKeptOnce
  BY DEF NotesInv, NotesKeptOnce
<1> QED
  BY <1>1, <1>2, <1>3, PTL DEF Spec

-----------------------------------------------------------------------------
(* One process at a time.  As long as nobody decides while a process works *)
(* on the run, whoever works on it is alone with the checkpoint, and never *)
(* behind it.                                                              *)

Alone ==
    /\ \A k, l \in Legs : leg[k].pc \notin Stopped /\ leg[l].pc \notin Stopped => k = l
    /\ (\A l \in Legs : leg[l].pc = "free") => thread.next = 0

Ahead(l) ==
    /\ leg[l].pc \in {"free", "preflight", "entering"} => leg[l].pos = 1
    /\ leg[l].pc \in {"preflight", "entering"} => thread.next = 0
    /\ leg[l].pc \in {"node", "working", "waiting", "closing", "leaving"}
            => thread.next <= leg[l].pos

AloneInv == Alone /\ \A l \in Legs : Ahead(l)

LEMMA AloneInitially == Init => AloneInv
  BY DEF Init, AloneInv, Alone, Ahead, Fresh, NoCheckpoint, Stopped

\* The process that works on the run takes a step, or stops.
LEMMA AloneStep ==
    ASSUME AloneInv, NEW l \in Legs, Still(l), leg[l].pc \notin Stopped,
           leg'[l].pc # "free", Ahead(l)', thread'.next = thread.next
    PROVE  AloneInv'
<1>1. \A k \in Legs : leg'[k].pc \notin Stopped => k = l
  BY DEF AloneInv, Alone, Still
<1>2. ASSUME NEW k \in Legs
      PROVE  Ahead(k)'
  BY DEF AloneInv, Ahead, Still
<1> QED
  BY <1>1, <1>2 DEF AloneInv, Alone

LEMMA AloneInductive ==
    ASSUME ~Overlap, Typed, AloneInv, [Next]_graphVars
    PROVE  AloneInv'
<1>1. /\ \A l \in Legs : leg[l] \in LegRecord
      /\ \A l \in Legs : leg[l].pc \in {"working", "waiting"} => leg[l].pos \in Nodes
      /\ thread.next \in 0 .. (Len(Plan) + 1)
  BY PositionFacts DEF Typed, GraphTypeOK, ThreadRecord
<1>2. \A l \in Legs : leg[l].pos \in Nat /\ leg[l].pc \in LegPc
  BY <1>1 DEF LegRecord
<1>3. ASSUME NEW l \in Legs, NEW supplied, Start(l, supplied)
      PROVE  AloneInv'
  <2>1. /\ Still(l) /\ SameWork(l) /\ leg'[l].pc = "preflight"
        /\ \A k \in Legs : leg[k].pc = "free"
        /\ UNCHANGED thread
    BY <1>3, StartFacts
  <2>2. thread.next = 0 /\ leg[l].pos = 1
    BY <2>1 DEF AloneInv, Alone, Ahead
  <2>3. \A k \in Legs : leg'[k].pc \notin Stopped => k = l
    BY <2>1 DEF Still, Stopped
  <2>4. ASSUME NEW k \in Legs
        PROVE  Ahead(k)'
    BY <2>1, <2>2 DEF AloneInv, Ahead, Still, SameWork
  <2> QED
    BY <2>1, <2>2, <2>3, <2>4 DEF AloneInv, Alone
<1>4. ASSUME NEW l \in Legs, NEW v \in Verdicts, Decide(l, v)
      PROVE  AloneInv'
  <2>1. /\ Still(l) /\ leg[l].pc = "free" /\ leg'[l].pc = "loading"
        /\ \A k \in Legs : leg[k].pc \in Stopped
        /\ UNCHANGED thread
    BY <1>4, DecideFacts
  <2>2. \A k \in Legs : leg'[k].pc \notin Stopped => k = l
    BY <2>1 DEF Still
  <2>3. ASSUME NEW k \in Legs
        PROVE  Ahead(k)'
    BY <2>1 DEF AloneInv, Ahead, Still
  <2> QED
    BY <2>1, <2>2, <2>3 DEF AloneInv, Alone
<1>5. ASSUME NEW l \in Legs, Load(l)
      PROVE  AloneInv'
  <2>1. /\ Still(l) /\ leg[l].pc = "loading" /\ leg'[l].pc = "node"
        /\ leg'[l].pos = thread.next /\ UNCHANGED thread
    BY <1>5, LoadFacts
  <2>2. Ahead(l)'
    BY <1>1, <2>1 DEF Ahead
  <2> QED
    BY <2>1, <2>2, AloneStep DEF Stopped
<1>6. ASSUME NEW l \in Legs, Save(l)
      PROVE  AloneInv'
  <2>1. /\ Still(l) /\ SameWork(l)
        /\ leg[l].pc \in {"node", "working", "closing", "leaving"} /\ leg'[l].pc = leg[l].pc
        /\ thread'.next = leg[l].pos
    BY <1>6, SaveFacts
  <2>2. leg[l].pc \notin Stopped /\ leg'[l].pc # "free"
    BY <2>1 DEF Stopped
  <2>3. \A k \in Legs : leg'[k].pc \notin Stopped => k = l
    BY <2>1, <2>2 DEF AloneInv, Alone, Still
  <2>4. Ahead(l)'
    BY <1>2, <2>1 DEF Ahead, SameWork
  <2>5. ASSUME NEW k \in Legs, k # l
        PROVE  Ahead(k)'
    <3>1. leg'[k] = leg[k] /\ leg[k].pc \in Stopped
      BY <2>1, <2>2, <2>5 DEF AloneInv, Alone, Still
    <3> QED
      BY <3>1 DEF AloneInv, Ahead, Stopped
  <2> QED
    BY <2>2, <2>3, <2>4, <2>5 DEF AloneInv, Alone
<1>7. ASSUME NEW l \in Legs, Advanced(l, <<>>) \/ Advanced(l, Since(l)),
             leg[l].pc \in {"node", "working"}
      PROVE  AloneInv'
  <2>1. /\ Still(l) /\ leg'[l].pc = "node" /\ leg'[l].pos = leg[l].pos + 1
        /\ UNCHANGED thread
    BY <1>7 DEF Advanced
  <2>2. thread.next <= leg[l].pos /\ leg[l].pc \notin Stopped
    BY <1>7 DEF AloneInv, Ahead, Stopped
  <2>3. Ahead(l)'
    BY <1>1, <1>2, <2>1, <2>2 DEF Ahead
  <2> QED
    BY <2>1, <2>2, <2>3, AloneStep
<1>8. ASSUME NEW l \in Legs, SkipGate(l) \/ PassGate(l)
      PROVE  AloneInv'
  BY <1>7, <1>8, GateFacts
<1>9. ASSUME NEW l \in Legs,
             \/ \E value \in Products, status \in Done : Succeed(l, value, status)
             \/ JudgePass(l)
             \/ \E verdict \in {"fail", "none"} : JudgeWarn(l, verdict)
      PROVE  AloneInv'
  BY <1>7, <1>9, ReturnedFacts DEF Since
<1>10. ASSUME NEW l \in Legs, \/ StartStep(l) \/ StartJudge(l)
                              \/ RetryAgent(l) \/ AskAgain(l)
       PROVE  AloneInv'
  <2>1. /\ Still(l) /\ leg[l].pc \in {"node", "working"} /\ leg'[l].pc = "working"
        /\ leg'[l].pos = leg[l].pos /\ UNCHANGED thread
    BY <1>10, BeginFacts, AgainFacts
  <2>2. Ahead(l)' /\ leg[l].pc \notin Stopped
    BY <2>1 DEF AloneInv, Ahead, Stopped
  <2> QED
    BY <2>1, <2>2, AloneStep
<1>11. ASSUME NEW l \in Legs, Moves(l)
       PROVE  AloneInv'
  <2>1. Moved(l)
    BY <1>11, MovesFacts
  <2>2. Ahead(l)'
    BY <1>2, <2>1 DEF AloneInv, Ahead, Moved, SameWork
  <2> QED
    BY <2>1, <2>2, AloneStep DEF Moved
<1>12. CASE CutFirst \/ UNCHANGED graphVars
  BY <1>12 DEF CutFirst, graphVars, AloneInv, Alone, Ahead
<1> QED
  BY <1>3, <1>4, <1>5, <1>6, <1>8, <1>9, <1>10, <1>11, <1>12 DEF Next, LegStep, Moves

\* Whoever calls a hook or a model is not behind the checkpoint.
LEMMA CallsAhead ==
    ASSUME Typed, AloneInv, [Next]_graphVars
    PROVE  StaysDone
<1>1. invoked \in [Nodes -> Nat] /\ thread.next \in 0 .. (Len(Plan) + 1)
  BY DEF Typed, GraphTypeOK, ThreadRecord
<1>2. ASSUME NEW l \in Legs, \/ StartStep(l) \/ StartJudge(l)
                             \/ RetryAgent(l) \/ AskAgain(l)
      PROVE  StaysDone
  <2>1. /\ leg[l].pc \in {"node", "working"}
        /\ invoked' = [invoked EXCEPT ![leg[l].pos] = @ + 1]
    BY <1>2, BeginFacts, AgainFacts
  <2>2. thread.next <= leg[l].pos /\ leg[l].pos \in Nat
    BY <2>1, PositionFacts DEF Typed, AloneInv, Ahead, LegRecord
  <2>3. ASSUME NEW n \in Nodes, n < thread.next
        PROVE  invoked'[n] = invoked[n]
    <3>1. n # leg[l].pos
      BY <1>1, <2>2, <2>3 DEF Nodes
    <3> QED
      BY <1>1, <2>1, <3>1
  <2> QED
    BY <2>3 DEF StaysDone
<1>3. CASE UNCHANGED invoked
  BY <1>3 DEF StaysDone
<1>4. ASSUME NEW l \in Legs, \/ \E supplied : Start(l, supplied)
                             \/ \E v \in Verdicts : Decide(l, v)
                             \/ Load(l) \/ Save(l)
      PROVE  UNCHANGED invoked
  BY <1>4, StartFacts, DecideFacts, LoadFacts, SaveFacts
<1>5. ASSUME NEW l \in Legs,
             \/ SkipGate(l) \/ PassGate(l)
             \/ \E value \in Products, status \in Done : Succeed(l, value, status)
             \/ JudgePass(l)
             \/ \E verdict \in {"fail", "none"} : JudgeWarn(l, verdict)
      PROVE  UNCHANGED invoked
  BY <1>5, GateFacts, ReturnedFacts DEF Advanced
<1>6. ASSUME NEW l \in Legs, Moves(l)
      PROVE  UNCHANGED invoked
  BY <1>6, MovesFacts DEF Moved
<1> QED
  BY <1>2, <1>3, <1>4, <1>5, <1>6 DEF Next, CutFirst, LegStep, Moves, graphVars

\* One process at a time, killed or not, whatever it decides and wherever it
\* stops: no hook and no model behind the checkpoint is called again
\* (sdk/graph.py:24-30, sdk/cli.py decide).
THEOREM NothingRepeatedBehindTheCheckpoint ==
    ASSUME ~Overlap
    PROVE  Spec => CheckpointedNotRepeated
<1>1. Init => Typed /\ AloneInv
  BY TypeInitially, AloneInitially
<1>2. Typed /\ AloneInv /\ [Next]_graphVars => (Typed /\ AloneInv)'
  BY TypeInductive, AloneInductive
<1>3. Typed /\ AloneInv /\ [Next]_graphVars => StaysDone
  BY CallsAhead
<1>4. Typed /\ AloneInv /\ [Next]_graphVars => [StaysDone]_graphVars
  BY <1>3
<1> QED
  BY <1>1, <1>2, <1>4, PTL DEF Spec, CheckpointedNotRepeated

-----------------------------------------------------------------------------
(* The log.  A step of one process is silent, or adds one row to a log that *)
(* is not torn, or is a decision.                                           *)

Silent(l) ==
    /\ Still(l) /\ leg[l].pc \notin Stopped /\ leg'[l].pc # "free"
    /\ log'.rows = log.rows /\ log'.lost = log.lost /\ UNCHANGED given
    /\ log'.torn => log.torn \/ leg'[l].pc = "crashed"
    /\ leg[l].pc = "working" => leg'[l].pc \in {"working", "crashed", "collided"}
    /\ leg'[l].pc = "working" => leg[l].pc = "working" /\ leg'[l].pos = leg[l].pos

Spoken(l, step, status) ==
    /\ Still(l) /\ leg'[l].pc # "free" /\ UNCHANGED given
    /\ Tell(l, step, status)
    /\ step \in StepNames /\ status \in EventStatus \ {"resumed"}
    /\ status = "awaiting_human" => step = "run" \/ leg[l].pc = "waiting"
    /\ leg[l].pc \notin Stopped \/ (leg[l].pc = "free" /\ ~log.torn)
    /\ step = "run" => leg'[l].pc \in {"preflight", "ended", "leaving"}
    /\ \/ /\ leg[l].pc = "working" /\ leg'[l].pc # "working"
          /\ step = Here(l).name /\ status \in TERMINAL
       \/ /\ leg[l].pc # "working" /\ leg'[l].pc # "working"
          /\ step \in {"run", "preflight"} \/ status = "awaiting_human"
       \/ /\ leg[l].pc # "working" /\ leg'[l].pc = "working"
          /\ leg'[l].pos = leg[l].pos /\ leg[l].pos \in Nodes
          /\ step = Here(l).name /\ status = "started"

SpokenSome(l) == \E step \in StepNames, status \in EventStatus : Spoken(l, step, status)

LEMMA NamesAreOwn ==
    ASSUME NEW l \in Legs, leg[l].pos \in Nodes
    PROVE  /\ Here(l).name \in StepNames /\ Here(l).name \notin {"run", "preflight"}
  BY NodesHaveOwnNames DEF Here, StepNames, Nodes

LEMMA StepIsHeard ==
    ASSUME Typed, NEW l \in Legs, LegStep(l) \/ Crash(l)
    PROVE  Silent(l) \/ SpokenSome(l)
<1>1. LegsTyped /\ leg \in [Legs -> LegRecord] /\ leg[l] \in LegRecord /\ log \in EventLogs(Legs)
  BY DEF Typed, LegsTyped, GraphTypeOK
<1>0. /\ {"run", "preflight"} \subseteq StepNames
      /\ {"ok", "blocked", "started", "awaiting_human"} \subseteq EventStatus \ {"resumed"}
  BY DEF StepNames, EventStatus, TERMINAL, Done
<1>2. leg[l].pc \in {"working", "waiting"} => leg[l].pos \in Nodes
  BY PositionFacts DEF Typed
<1>3. CASE PreflightOk(l)
  <2>1. Still(l) /\ leg[l].pc = "preflight" /\ leg'[l].pc = "entering" /\ UNCHANGED given
    BY <1>1, <1>3, GotoFacts DEF PreflightOk, At
  <2>2. CASE Declared
    <3>1. Tell(l, "preflight", "ok")
      BY <1>3, <2>2 DEF PreflightOk
    <3>2. Spoken(l, "preflight", "ok")
      BY <1>0, <2>1, <3>1 DEF Spoken, Stopped
    <3> QED
      BY <1>0, <3>2 DEF SpokenSome
  <2>3. CASE ~Declared
    <3>1. log' = log
      BY <1>3, <2>3 DEF PreflightOk
    <3> QED
      BY <2>1, <3>1 DEF Silent, Stopped
  <2> QED
    BY <2>2, <2>3
<1>4. CASE PreflightBlocked(l)
  <2>1. /\ Still(l) /\ leg[l].pc = "preflight" /\ leg'[l].pc = "closing" /\ UNCHANGED given
        /\ Tell(l, "preflight", "blocked")
    BY <1>1, <1>4, ToCloseFacts DEF PreflightBlocked, At
  <2>2. Spoken(l, "preflight", "blocked")
    BY <1>0, <2>1 DEF Spoken, Stopped
  <2> QED
    BY <1>0, <2>2 DEF SpokenSome
<1>5. CASE Enter(l)
  <2>1. /\ Still(l) /\ leg[l].pc = "entering" /\ leg'[l].pc = "node"
        /\ UNCHANGED <<given, log>>
    BY <1>1, <1>5 DEF Enter, At, Still, LegRecord
  <2> QED
    BY <2>1 DEF Silent, Stopped
<1>6. CASE Load(l)
  <2>1. /\ Still(l) /\ leg[l].pc = "loading" /\ leg'[l].pc = "node"
        /\ UNCHANGED <<given, log>>
    BY <1>6, LoadFacts DEF Load, Loaded
  <2> QED
    BY <2>1 DEF Silent, Stopped
<1>7. CASE Strand(l)
  <2>1. /\ Still(l) /\ leg[l].pc = "loading" /\ leg'[l].pc = "stranded"
        /\ UNCHANGED <<given, log>>
    BY <1>1, <1>7, GotoFacts DEF Strand, At
  <2> QED
    BY <2>1 DEF Silent, Stopped
<1>8. CASE Save(l)
  <2>1. /\ Still(l) /\ SameWork(l) /\ leg[l].pc \in {"node", "working", "closing", "leaving"}
        /\ leg'[l].pc = leg[l].pc /\ UNCHANGED <<given, log>>
    BY <1>8, SaveFacts DEF Save
  <2> QED
    BY <2>1 DEF Silent, SameWork, Stopped
<1>9. CASE SkipGate(l) \/ PassGate(l)
  <2>1. /\ Still(l) /\ leg[l].pc = "node" /\ leg'[l].pc = "node"
        /\ UNCHANGED <<given, log>>
    BY <1>9, GateFacts DEF Advanced, SkipGate, PassGate
  <2> QED
    BY <2>1 DEF Silent, Stopped
<1>10. CASE Interrupt(l)
  <2>1. /\ Still(l) /\ leg[l].pc = "node" /\ leg'[l].pc = "waiting"
        /\ UNCHANGED <<given, log>>
    BY <1>1, <1>10, GotoFacts DEF Interrupt, AtNode, At
  <2> QED
    BY <2>1 DEF Silent, Stopped
<1>11. CASE TellPause(l)
  <2>1. /\ Still(l) /\ leg[l].pc = "waiting" /\ leg'[l].pc = "closing" /\ UNCHANGED given
        /\ Tell(l, Here(l).name, "awaiting_human")
        /\ Here(l).name \in StepNames \ {"run"}
    BY <1>1, <1>2, <1>11, ToCloseFacts, NamesAreOwn DEF TellPause, At
  <2>2. Spoken(l, Here(l).name, "awaiting_human")
    BY <1>0, <2>1 DEF Spoken, Stopped
  <2> QED
    BY <1>0, <2>1, <2>2 DEF SpokenSome
<1>12. CASE Unbound(l)
  <2>1. /\ Still(l) /\ leg[l].pc = "node" /\ leg'[l].pc = "unbound"
        /\ UNCHANGED <<given, log>>
    BY <1>1, <1>12, GotoFacts DEF Unbound, AtNode, At
  <2> QED
    BY <2>1 DEF Silent, Stopped
<1>13. CASE StartStep(l) \/ StartJudge(l)
  <2>1. /\ Still(l) /\ leg[l].pos \in Nodes
        /\ leg[l].pc = "node" /\ leg'[l].pc = "working" /\ leg'[l].pos = leg[l].pos
    BY <1>13, BeginFacts
  <2>2. /\ Tell(l, Here(l).name, "started") /\ UNCHANGED given
        /\ Here(l).name \in StepNames \ {"run"}
    BY <1>13, <2>1, NamesAreOwn DEF StartStep, StartJudge, Begin
  <2>3. Spoken(l, Here(l).name, "started")
    BY <1>0, <2>1, <2>2 DEF Spoken, Stopped
  <2> QED
    BY <1>0, <2>2, <2>3 DEF SpokenSome
<1>14. CASE RetryAgent(l) \/ AskAgain(l)
  <2>1. /\ Still(l) /\ leg[l].pc = "working" /\ leg'[l].pc = "working"
        /\ leg'[l].pos = leg[l].pos
    BY <1>14, AgainFacts
  <2>2. UNCHANGED <<given, log>>
    BY <1>14 DEF RetryAgent, AskAgain, Again
  <2> QED
    BY <2>1, <2>2 DEF Silent, Stopped
<1>15. CASE \/ \E value \in Products, status \in Done : Succeed(l, value, status)
            \/ JudgePass(l)
            \/ \E verdict \in {"fail", "none"} : JudgeWarn(l, verdict)
  <2>1. Still(l) /\ leg[l].pc = "working" /\ leg'[l].pc = "node"
    BY <1>15, ReturnedFacts DEF Advanced
  <2>2. PICK status \in TERMINAL : Tell(l, Here(l).name, status) /\ UNCHANGED given
    BY <1>15 DEF Succeed, JudgePass, JudgeWarn, Judged, TERMINAL, Done
  <2>3. status \in EventStatus \ {"resumed"} /\ Here(l).name \in StepNames \ {"run"}
    BY <1>2, <2>1, NamesAreOwn DEF EventStatus, TERMINAL, Done
  <2>4. status # "awaiting_human"
    BY <2>2 DEF TERMINAL, Done
  <2>5. Spoken(l, Here(l).name, status)
    BY <2>1, <2>2, <2>3, <2>4 DEF Spoken, Stopped
  <2> QED
    BY <2>3, <2>5 DEF SpokenSome
<1>16. CASE Collide(l)
  <2>1. /\ Still(l) /\ leg[l].pc = "working" /\ leg'[l].pc = "collided"
        /\ UNCHANGED <<given, log>>
    BY <1>1, <1>16, GotoFacts DEF Collide, Working, At
  <2> QED
    BY <2>1 DEF Silent, Stopped
<1>17. CASE \/ \E status \in {"blocked", "failed"} : Fail(l, status)
            \/ JudgeBlind(l)
            \/ \E verdict \in {"fail", "none"} : JudgeBlock(l, verdict)
  <2>1. PICK status \in {"blocked", "failed"} :
            /\ Tell(l, Here(l).name, status) /\ ToClose(l, status) /\ UNCHANGED given
            /\ leg[l].pc = "working"
    BY <1>17 DEF Fail, JudgeBlind, JudgeBlock, Judged, Working, At
  <2>2. Still(l) /\ leg'[l].pc = "closing"
    BY <1>1, <2>1, ToCloseFacts
  <2>3. /\ status \in TERMINAL /\ status \in EventStatus \ {"resumed"}
        /\ Here(l).name \in StepNames \ {"run"}
    BY <1>2, <2>1, NamesAreOwn DEF EventStatus, TERMINAL
  <2>4. status # "awaiting_human"
    BY <2>1
  <2>5. Spoken(l, Here(l).name, status)
    BY <2>1, <2>2, <2>3, <2>4 DEF Spoken, Stopped
  <2> QED
    BY <2>3, <2>5 DEF SpokenSome
<1>18. CASE Close(l)
  <2>1. /\ Still(l) /\ leg[l].pc = "closing" /\ leg'[l].pc \in {"ended", "leaving"}
        /\ Tell(l, "run", leg[l].closing) /\ UNCHANGED given
    <3>1. PICK pc \in {"ended", "leaving"} : Goto(l, pc)
      BY <1>18 DEF Close
    <3> QED
      BY <1>1, <1>18, <3>1, GotoFacts DEF Close, At
  <2>2. leg[l].closing \in TERMINAL \cup {"awaiting_human"}
    BY <1>1, <2>1 DEF LegsTyped, Stands, LegRecord
  <2>3. leg[l].closing \in EventStatus \ {"resumed"}
    BY <2>2 DEF EventStatus, TERMINAL, Done
  <2>4. Spoken(l, "run", leg[l].closing)
    BY <1>0, <2>1, <2>3 DEF Spoken, Stopped
  <2> QED
    BY <1>0, <2>3, <2>4 DEF SpokenSome
<1>19. CASE Finish(l)
  <2>1. /\ Still(l) /\ leg[l].pc = "node" /\ leg'[l].pc = "ended" /\ UNCHANGED given
        /\ Tell(l, "run", "ok")
    BY <1>1, <1>19 DEF Finish, At, Still, LegRecord
  <2>2. Spoken(l, "run", "ok")
    BY <1>0, <2>1 DEF Spoken, Stopped
  <2> QED
    BY <1>0, <2>2 DEF SpokenSome
<1>21. CASE Leave(l)
  <2>1. /\ Still(l) /\ leg[l].pc = "leaving" /\ leg'[l].pc = "ended"
        /\ UNCHANGED <<given, log>>
    BY <1>1, <1>21, GotoFacts DEF Leave, At
  <2> QED
    BY <2>1 DEF Silent, Stopped
<1>20. CASE Crash(l)
  <2>1. /\ Still(l) /\ leg[l].pc \notin Stopped /\ leg'[l].pc = "crashed" /\ UNCHANGED given
    BY <1>1, <1>20, GotoFacts DEF Crash
  <2>2. log'.rows = log.rows /\ log'.lost = log.lost
    BY <1>1, <1>20 DEF Crash, EventLogs
  <2> QED
    BY <2>1, <2>2 DEF Silent, Stopped
<1> QED
  BY <1>3, <1>4, <1>5, <1>6, <1>7, <1>8, <1>9, <1>10, <1>11, <1>12, <1>13, <1>14, <1>15, <1>16, <1>17, <1>18, <1>19, <1>20, <1>21 DEF LegStep

\* The row of a step that a process has begun and not ended.
Owing(l) ==
    {i \in DOMAIN log.rows : log.rows[i].process = l /\ Last(i) /\ Begins(i)}

Paired ==
    /\ \A i, j \in DOMAIN log.rows : Follows(i, j) /\ (Begins(i) \/ Ends(j)) =>
            Begins(i) /\ Ends(j) /\ log.rows[i].step = log.rows[j].step
    /\ \A j \in DOMAIN log.rows : Ends(j) => \E i \in DOMAIN log.rows : Follows(i, j)

OwesOne(l) ==
    /\ Owing(l) # {} => leg[l].pc \in {"working", "crashed", "collided"}
    /\ leg[l].pc = "working" => \E i \in Owing(l) : log.rows[i].step = Here(l).name
    /\ leg[l].pc = "free" => given[l] = None /\ ~Resumed(l)

\* A row is cut short by a process that is killed, when no other works on the run.
TornAtRest ==
    log.torn => \A l \in Legs : leg[l].pc \in Stopped

LogInv ==
    /\ Paired /\ (\A l \in Legs : OwesOne(l)) /\ TornAtRest
    /\ IsFiniteSet(Unheard) /\ log.lost = Cardinality(Unheard)

\* A row is added, and all others stay.
Longer(l, step, status, n) ==
    /\ n \in Nat /\ n > 0
    /\ DOMAIN log.rows = 1 .. (n - 1) /\ DOMAIN log'.rows = 1 .. n
    /\ \A i \in 1 .. (n - 1) : log'.rows[i] = log.rows[i]
    /\ log'.rows[n].process = l /\ log'.rows[n].step = step
    /\ log'.rows[n].status = status
    /\ log'.rows[n] = Row(l, step, status)
    /\ log'.torn = FALSE /\ log'.lost = log.lost

LEMMA ToldLonger ==
    ASSUME log \in EventLogs(Legs), ~log.torn, NEW l, NEW step, NEW status,
           Tell(l, step, status)
    PROVE  \E n \in Nat : Longer(l, step, status, n)
<1>1. /\ log.rows \in Seq([process : Legs, step : StepNames, status : EventStatus])
      /\ log' = [rows |-> Append(log.rows, Row(l, step, status)),
                 torn |-> FALSE, lost |-> log.lost]
  BY DEF EventLogs, Tell, Told
<1>2. PICK n \in Nat : n = Len(log.rows) + 1
  BY <1>1
<1>3. log'.rows = Append(log.rows, Row(l, step, status)) /\ log'.torn = FALSE
      /\ log'.lost = log.lost
  BY <1>1
<1>4. /\ DOMAIN log.rows = 1 .. (n - 1) /\ DOMAIN log'.rows = 1 .. n /\ n > 0
      /\ \A i \in 1 .. (n - 1) : log'.rows[i] = log.rows[i]
      /\ log'.rows[n] = Row(l, step, status)
  BY <1>1, <1>2, <1>3
<1> QED
  BY <1>2, <1>3, <1>4 DEF Longer, Row

\* How the rows of the processes follow each other, with one row more.
LEMMA LongerFacts ==
    ASSUME NEW l, NEW step, NEW status, NEW n \in Nat, Longer(l, step, status, n)
    PROVE  /\ \A i \in 1 .. (n - 1) : (Begins(i)' <=> Begins(i)) /\ (Ends(i)' <=> Ends(i))
           /\ \A i, j \in 1 .. (n - 1) : Follows(i, j)' <=> Follows(i, j)
           /\ \A i \in 1 .. (n - 1) :
                  /\ Follows(i, n)' <=> log.rows[i].process = l /\ Last(i)
                  /\ Last(i)' <=> log.rows[i].process # l /\ Last(i)
           /\ \A i \in 1 .. n : ~Follows(n, i)'
           /\ Last(n)'
           /\ Begins(n)' <=> step \notin {"run", "preflight"} /\ status = "started"
           /\ Ends(n)' <=> step \notin {"run", "preflight"} /\ status \in TERMINAL
<1>1. /\ DOMAIN log.rows = 1 .. (n - 1) /\ DOMAIN log'.rows = 1 .. n /\ n > 0
      /\ \A i \in 1 .. (n - 1) : log'.rows[i] = log.rows[i] /\ i < n /\ i \in 1 .. n
      /\ log'.rows[n].process = l /\ log'.rows[n].step = step
      /\ log'.rows[n].status = status /\ n \in 1 .. n
  BY DEF Longer
<1>2. \A i \in 1 .. (n - 1) : (Begins(i)' <=> Begins(i)) /\ (Ends(i)' <=> Ends(i))
  BY <1>1 DEF Begins, Ends, AboutStep
<1>3. /\ Begins(n)' <=> step \notin {"run", "preflight"} /\ status = "started"
      /\ Ends(n)' <=> step \notin {"run", "preflight"} /\ status \in TERMINAL
  BY <1>1 DEF Begins, Ends, AboutStep
<1>4. ASSUME NEW i \in 1 .. (n - 1), NEW j \in 1 .. (n - 1)
      PROVE  Follows(i, j)' <=> Follows(i, j)
  <2>1. \A k \in (i + 1) .. (j - 1) : k \in 1 .. (n - 1)
    OBVIOUS
  <2> QED
    BY <1>1, <2>1 DEF Follows, OfOne
<1>5. ASSUME NEW i \in 1 .. (n - 1)
      PROVE  Last(i)' <=> log.rows[i].process # l /\ Last(i)
  <2>1. \A j \in 1 .. n : j = n \/ j \in 1 .. (n - 1)
    OBVIOUS
  <2>2. ~(n <= i)
    OBVIOUS
  <2> QED
    BY <1>1, <2>1, <2>2 DEF Last, OfOne
<1>6. ASSUME NEW i \in 1 .. (n - 1)
      PROVE  Follows(i, n)' <=> log.rows[i].process = l /\ Last(i)
  <2>1. \A j \in 1 .. (n - 1) : j \in (i + 1) .. (n - 1) <=> ~(j <= i)
    OBVIOUS
  <2>2. \A j \in (i + 1) .. (n - 1) : j \in 1 .. (n - 1)
    OBVIOUS
  <2> QED
    BY <1>1, <2>1, <2>2 DEF Follows, OfOne, Last
<1>7. Last(n)' /\ \A i \in 1 .. n : ~Follows(n, i)'
  BY <1>1 DEF Last, Follows
<1> QED
  BY <1>2, <1>3, <1>4, <1>5, <1>6, <1>7

\* The row that is added ends what its process owes, or its process owes nothing.
LEMMA PairedLonger ==
    ASSUME Paired, NEW l, NEW step, NEW status, NEW n \in Nat, Longer(l, step, status, n),
           \/ /\ step \notin {"run", "preflight"} /\ status \in TERMINAL
              /\ \E i \in Owing(l) : log.rows[i].step = step
           \/ /\ ~(step \notin {"run", "preflight"} /\ status \in TERMINAL)
              /\ Owing(l) = {}
    PROVE  Paired'
<1>1. /\ DOMAIN log.rows = 1 .. (n - 1) /\ DOMAIN log'.rows = 1 .. n
      /\ \A i \in 1 .. (n - 1) : log'.rows[i] = log.rows[i] /\ i \in 1 .. n
      /\ log'.rows[n].step = step /\ n \in 1 .. n
      /\ \A i \in 1 .. n : i = n \/ i \in 1 .. (n - 1)
  BY DEF Longer
<1>2. /\ \A i \in 1 .. (n - 1) : (Begins(i)' <=> Begins(i)) /\ (Ends(i)' <=> Ends(i))
      /\ \A i, j \in 1 .. (n - 1) : Follows(i, j)' <=> Follows(i, j)
      /\ \A i \in 1 .. (n - 1) : Follows(i, n)' <=> log.rows[i].process = l /\ Last(i)
      /\ \A i \in 1 .. n : ~Follows(n, i)'
      /\ Ends(n)' <=> step \notin {"run", "preflight"} /\ status \in TERMINAL
  BY LongerFacts
<1>3. ASSUME NEW i \in 1 .. (n - 1), Follows(i, n)', Begins(i)' \/ Ends(n)'
      PROVE  Begins(i)' /\ Ends(n)' /\ log'.rows[i].step = log'.rows[n].step
  <2>1. i \in DOMAIN log.rows /\ log.rows[i].process = l /\ Last(i)
    BY <1>1, <1>2, <1>3
  <2>2. CASE Ends(n)'
    <3>1. PICK o \in Owing(l) : log.rows[o].step = step
      BY <1>2, <2>2
    <3>2. o = i
      BY <1>1, <2>1, <3>1 DEF Owing, Last, OfOne
    <3> QED
      BY <1>1, <1>2, <2>2, <3>1, <3>2 DEF Owing
  <2>3. CASE ~Ends(n)'
    <3>1. Begins(i) /\ Owing(l) = {}
      BY <1>2, <1>3, <2>3
    <3> QED
      BY <2>1, <3>1 DEF Owing
  <2> QED
    BY <2>2, <2>3
<1>4. ASSUME NEW i \in 1 .. n, NEW j \in 1 .. n, Follows(i, j)', Begins(i)' \/ Ends(j)'
      PROVE  Begins(i)' /\ Ends(j)' /\ log'.rows[i].step = log'.rows[j].step
  <2>1. i # n
    BY <1>2, <1>4
  <2>2. CASE j = n
    BY <1>1, <1>3, <1>4, <2>1, <2>2
  <2>3. CASE j # n
    <3>1. i \in 1 .. (n - 1) /\ j \in 1 .. (n - 1)
      BY <1>1, <2>1, <2>3
    <3>2. Follows(i, j) /\ (Begins(i) \/ Ends(j))
      BY <1>2, <1>4, <3>1
    <3>3. Begins(i) /\ Ends(j) /\ log.rows[i].step = log.rows[j].step
      BY <1>1, <3>1, <3>2 DEF Paired
    <3> QED
      BY <1>1, <1>2, <3>1, <3>3
  <2> QED
    BY <2>2, <2>3
<1>5. ASSUME NEW j \in 1 .. n, Ends(j)'
      PROVE  \E i \in 1 .. n : Follows(i, j)'
  <2>1. CASE j = n
    <3>1. PICK o \in Owing(l) : log.rows[o].step = step
      BY <1>2, <1>5, <2>1
    <3>2. o \in 1 .. (n - 1) /\ log.rows[o].process = l /\ Last(o)
      BY <1>1, <3>1 DEF Owing
    <3> QED
      BY <1>1, <1>2, <2>1, <3>2
  <2>2. CASE j # n
    <3>1. PICK i \in 1 .. (n - 1) : Follows(i, j)
      BY <1>1, <1>2, <1>5, <2>2 DEF Paired
    <3> QED
      BY <1>1, <1>2, <2>2, <3>1
  <2> QED
    BY <2>1, <2>2
<1> QED
  BY <1>1, <1>4, <1>5 DEF Paired

\* What the processes owe, with one row more.
LEMMA OwingLonger ==
    ASSUME NEW l, NEW step, NEW status, NEW n \in Nat, Longer(l, step, status, n)
    PROVE  /\ \A k \in Legs \ {l} : Owing(k)' = Owing(k)
           /\ Owing(l)' = IF step \notin {"run", "preflight"} /\ status = "started"
                          THEN {n} ELSE {}
           /\ \A k : \A i \in Owing(k) : log'.rows[i] = log.rows[i]
           /\ log'.rows[n].step = step
<1>1. /\ DOMAIN log.rows = 1 .. (n - 1) /\ DOMAIN log'.rows = 1 .. n
      /\ \A i \in 1 .. (n - 1) : log'.rows[i] = log.rows[i] /\ i \in 1 .. n
      /\ log'.rows[n].process = l /\ log'.rows[n].step = step /\ n \in 1 .. n
      /\ \A i \in 1 .. n : i = n \/ i \in 1 .. (n - 1)
      /\ n \notin 1 .. (n - 1)
  BY DEF Longer
<1>2. /\ \A i \in 1 .. (n - 1) : Begins(i)' <=> Begins(i)
      /\ \A i \in 1 .. (n - 1) : Last(i)' <=> log.rows[i].process # l /\ Last(i)
      /\ Last(n)'
      /\ Begins(n)' <=> step \notin {"run", "preflight"} /\ status = "started"
  BY LongerFacts
<1>3. ASSUME NEW k \in Legs, k # l
      PROVE  Owing(k)' = Owing(k)
  <2>1. ASSUME NEW i \in Owing(k)
        PROVE  i \in Owing(k)'
    BY <1>1, <1>2, <1>3, <2>1 DEF Owing
  <2>2. ASSUME NEW i \in Owing(k)'
        PROVE  i \in Owing(k)
    BY <1>1, <1>2, <1>3, <2>2 DEF Owing
  <2> QED
    BY <2>1, <2>2
<1>4. ASSUME NEW i
      PROVE  i \in Owing(l)' <=>
                i = n /\ step \notin {"run", "preflight"} /\ status = "started"
  BY <1>1, <1>2 DEF Owing
<1>5. Owing(l)' = IF step \notin {"run", "preflight"} /\ status = "started"
                  THEN {n} ELSE {}
  BY <1>4
<1> QED
  BY <1>1, <1>3, <1>5 DEF Owing

LEMMA ResumedLonger ==
    ASSUME NEW l, NEW step, NEW status, NEW n \in Nat, Longer(l, step, status, n)
    PROVE  /\ \A k \in Legs \ {l} : Resumed(k)' <=> Resumed(k)
           /\ status # "resumed" => (Resumed(l)' <=> Resumed(l))
           /\ step = "run" /\ status = "resumed" => Resumed(l)'
<1>1. /\ DOMAIN log.rows = 1 .. (n - 1) /\ DOMAIN log'.rows = 1 .. n
      /\ \A i \in 1 .. (n - 1) : log'.rows[i] = log.rows[i] /\ i \in 1 .. n
      /\ log'.rows[n] = Row(l, step, status) /\ n \in 1 .. n
      /\ \A i \in 1 .. n : i = n \/ i \in 1 .. (n - 1)
  BY DEF Longer
<1>2. \A k : Row(k, "run", "resumed") = Row(l, step, status)
                <=> k = l /\ step = "run" /\ status = "resumed"
  BY DEF Row
<1> QED
  BY <1>1, <1>2 DEF Resumed

LEMMA LogInitially == Init => LogInv
<1> SUFFICES ASSUME Init
             PROVE  LogInv
  OBVIOUS
<1>1. DOMAIN log.rows = {} /\ log.torn = FALSE /\ log.lost = 0
  BY DEF Init, NoLog
<1>2. \A l \in Legs : given[l] = None /\ leg[l].pc = "free"
  BY DEF Init, Fresh
<1>3. Unheard = {}
  BY <1>2 DEF Unheard
<1>4. IsFiniteSet(Unheard) /\ Cardinality(Unheard) = 0
  BY <1>3, FS_EmptySet
<1>5. Paired /\ TornAtRest
  BY <1>1 DEF Paired, TornAtRest
<1>6. \A l \in Legs : OwesOne(l)
  BY <1>1, <1>2 DEF OwesOne, Owing, Resumed
<1> QED
  BY <1>1, <1>4, <1>5, <1>6 DEF LogInv

LEMMA RowsUnchanged ==
    ASSUME log'.rows = log.rows
    PROVE  /\ Paired' <=> Paired
           /\ \A l : Owing(l)' = Owing(l)
           /\ \A l : Resumed(l)' <=> Resumed(l)
<1>1. Paired' <=> Paired
  BY DEF Paired, Follows, OfOne, Begins, Ends, AboutStep
<1>2. \A l : Owing(l)' = Owing(l)
  BY DEF Owing, Last, OfOne, Begins, AboutStep
<1>3. \A l : Resumed(l)' <=> Resumed(l)
  BY DEF Resumed
<1> QED
  BY <1>1, <1>2, <1>3

LEMMA LogSilent ==
    ASSUME Typed, AloneInv, LogInv, NEW l \in Legs, Silent(l)
    PROVE  LogInv'
<1>1. /\ Paired' /\ \A k : Owing(k)' = Owing(k)
      /\ \A k : Resumed(k)' <=> Resumed(k)
  BY RowsUnchanged DEF LogInv, Silent
<1>2. Unheard' = Unheard
  BY <1>1 DEF Unheard, Silent
<1>3. ASSUME NEW k \in Legs
      PROVE  OwesOne(k)'
  <2>1. CASE k = l
    <3>1. OwesOne(l) /\ leg[l].pc \notin Stopped
      BY DEF LogInv, Silent
    <3>2. Owing(l) # {} => leg[l].pc = "working"
      BY <3>1 DEF OwesOne, Stopped
    <3>3. /\ Owing(l)' # {} => leg'[l].pc \in {"working", "crashed", "collided"}
          /\ leg'[l].pc # "free"
      BY <1>1, <3>2 DEF Silent
    <3>4. leg'[l].pc = "working" =>
              \E i \in Owing(l)' : log'.rows[i].step = Here(l)'.name
      BY <1>1, <3>1 DEF Silent, OwesOne, Here
    <3> QED
      BY <2>1, <3>3, <3>4 DEF OwesOne
  <2>2. CASE k # l
    <3>1. leg'[k] = leg[k] /\ given' = given /\ log'.rows = log.rows /\ OwesOne(k)
      BY <2>2 DEF LogInv, Silent, Still
    <3> QED
      BY <1>1, <3>1 DEF OwesOne, Here
  <2> QED
    BY <2>1, <2>2
<1>4. TornAtRest'
  <2>1. ~log.torn
    BY DEF LogInv, TornAtRest, Silent
  <2>2. SUFFICES ASSUME log'.torn
                 PROVE  \A k \in Legs : leg'[k].pc \in Stopped
    BY DEF TornAtRest
  <2>3. leg'[l].pc = "crashed"
    BY <2>1, <2>2 DEF Silent
  <2>4. \A k \in Legs \ {l} : leg'[k].pc \in Stopped
    BY DEF AloneInv, Alone, Silent, Still
  <2> QED
    BY <2>3, <2>4 DEF Stopped
<1>5. log'.lost = log.lost
  BY DEF Silent
<1> QED
  BY <1>1, <1>2, <1>3, <1>4, <1>5 DEF LogInv

LEMMA LogSpoken ==
    ASSUME Typed, AloneInv, LogInv, NEW l \in Legs,
           NEW step \in StepNames, NEW status \in EventStatus, Spoken(l, step, status)
    PROVE  LogInv'
<1> DEFINE about == step \notin {"run", "preflight"}
           ends == about /\ status \in TERMINAL
           begins == about /\ status = "started"
<1>1. ~log.torn
  BY DEF LogInv, TornAtRest, Spoken, Stopped
<1>2. PICK n \in Nat : Longer(l, step, status, n)
  BY <1>1, ToldLonger DEF Spoken, Typed, GraphTypeOK
<1>3. OwesOne(l) /\ (leg[l].pc \notin Stopped \/ leg[l].pc = "free")
  BY DEF LogInv, Spoken
<1>4. Owing(l) # {} => leg[l].pc = "working"
  BY <1>3 DEF OwesOne, Stopped
<1>5. leg[l].pc = "working" =>
          /\ ends /\ ~begins /\ leg'[l].pc # "working"
          /\ \E i \in Owing(l) : log.rows[i].step = step
  <2>1. SUFFICES ASSUME leg[l].pc = "working"
                 PROVE  /\ ends /\ ~begins /\ leg'[l].pc # "working"
                        /\ \E i \in Owing(l) : log.rows[i].step = step
    OBVIOUS
  <2>2. /\ step = Here(l).name /\ status \in TERMINAL /\ leg'[l].pc # "working"
    BY <2>1 DEF Spoken
  <2>3. about
    BY <2>1, <2>2, PositionFacts, NamesAreOwn DEF Typed
  <2> QED
    BY <1>3, <2>1, <2>2, <2>3 DEF OwesOne, TERMINAL, Done
<1>6. leg[l].pc # "working" =>
          /\ ~ends /\ Owing(l) = {}
          /\ leg'[l].pc = "working" <=> begins
          /\ leg'[l].pc = "working" => step = Here(l)'.name
  <2>1. SUFFICES ASSUME leg[l].pc # "working"
                 PROVE  /\ ~ends
                        /\ leg'[l].pc = "working" <=> begins
                        /\ leg'[l].pc = "working" => step = Here(l)'.name
    BY <1>4
  <2>2. CASE /\ leg'[l].pc # "working"
             /\ step \in {"run", "preflight"} \/ status = "awaiting_human"
    BY <2>2 DEF TERMINAL, Done
  <2>3. CASE /\ leg'[l].pc = "working" /\ leg'[l].pos = leg[l].pos
             /\ leg[l].pos \in Nodes
             /\ step = Here(l).name /\ status = "started"
    BY <2>3, NamesAreOwn DEF TERMINAL, Done, Here
  <2> QED
    BY <2>1, <2>2, <2>3 DEF Spoken
<1>7. Paired'
  <2>1. \/ ends /\ \E i \in Owing(l) : log.rows[i].step = step
        \/ ~ends /\ Owing(l) = {}
    BY <1>5, <1>6
  <2> QED
    BY <1>2, <2>1, PairedLonger DEF LogInv
<1>8. /\ \A k \in Legs \ {l} : Owing(k)' = Owing(k)
      /\ Owing(l)' = IF begins THEN {n} ELSE {}
      /\ \A k : \A i \in Owing(k) : log'.rows[i] = log.rows[i]
      /\ log'.rows[n].step = step
  BY <1>2, OwingLonger
<1>9. \A k \in Legs : Resumed(k)' <=> Resumed(k)
  BY <1>2, ResumedLonger DEF Spoken
<1> HIDE DEF begins, ends
<1>10. OwesOne(l)'
  <2>1. Owing(l)' # {} => leg'[l].pc = "working"
    BY <1>5, <1>6, <1>8
  <2>2. leg'[l].pc = "working" => \E i \in Owing(l)' : log'.rows[i].step = Here(l)'.name
    BY <1>5, <1>6, <1>8
  <2>3. leg'[l].pc # "free"
    BY DEF Spoken
  <2> QED
    BY <2>1, <2>2, <2>3 DEF OwesOne
<1>11. ASSUME NEW k \in Legs, k # l
       PROVE  OwesOne(k)'
  <2>1. leg'[k] = leg[k] /\ given' = given /\ OwesOne(k)
    BY <1>11 DEF LogInv, Spoken, Still
  <2>2. Here(k)' = Here(k)
    BY <2>1 DEF Here
  <2> QED
    BY <1>8, <1>9, <1>11, <2>1, <2>2 DEF OwesOne
<1>12. Unheard' = Unheard
  BY <1>9 DEF Unheard, Spoken
<1>13. log'.torn = FALSE /\ log'.lost = log.lost
  BY <1>2 DEF Longer
<1> QED
  BY <1>7, <1>10, <1>11, <1>12, <1>13 DEF LogInv, TornAtRest

LEMMA LogDecided ==
    ASSUME ~Overlap, Typed, LogInv, NEW l \in Legs, NEW v \in Verdicts, Decide(l, v)
    PROVE  LogInv'
<1>1. /\ Still(l) /\ leg[l].pc = "free" /\ leg'[l].pc = "loading"
      /\ \A k \in Legs : leg[k].pc \in Stopped
  BY DecideFacts
<1>2. /\ given \in [Legs -> Verdicts \cup {None}] /\ v # None
      /\ given' = [given EXCEPT ![l] = v]
  BY DEF Decide, Typed, GraphTypeOK
<1>3. given'[l] = v /\ \A k \in Legs \ {l} : given'[k] = given[k]
  BY <1>2
<1>4. given[l] = None /\ ~Resumed(l) /\ Owing(l) = {} /\ l \notin Unheard
  BY <1>1 DEF LogInv, OwesOne, Unheard
<1>5. CASE log.torn
  <2>1. log'.rows = log.rows /\ log'.torn = FALSE /\ log'.lost = log.lost + 1
    BY <1>5 DEF Decide, Tell, Told, Typed, GraphTypeOK, EventLogs
  <2>2. /\ Paired' /\ \A k : Owing(k)' = Owing(k)
        /\ \A k : Resumed(k)' <=> Resumed(k)
    BY <2>1, RowsUnchanged DEF LogInv
  <2>3. ASSUME NEW k \in Legs
        PROVE  OwesOne(k)'
    <3>1. CASE k = l
      BY <1>1, <1>4, <2>2, <3>1 DEF OwesOne
    <3>2. CASE k # l
      <4>1. leg'[k] = leg[k] /\ OwesOne(k) /\ Here(k)' = Here(k)
        BY <1>1, <3>2 DEF LogInv, Still, Here
      <4> QED
        BY <1>3, <2>1, <2>2, <3>2, <4>1 DEF OwesOne
    <3> QED
      BY <3>1, <3>2
  <2>4. Unheard' = Unheard \cup {l}
    BY <1>2, <1>3, <1>4, <2>2 DEF Unheard
  <2>5. IsFiniteSet(Unheard') /\ Cardinality(Unheard') = Cardinality(Unheard) + 1
    BY <1>4, <2>4, FS_AddElement DEF LogInv
  <2> QED
    BY <2>1, <2>2, <2>3, <2>5 DEF LogInv, TornAtRest
<1>6. CASE ~log.torn
  <2>1. PICK n \in Nat : Longer(l, "run", "resumed", n)
    BY <1>6, ToldLonger DEF Decide, Typed, GraphTypeOK
  <2>2. Paired'
    BY <1>4, <2>1, PairedLonger DEF LogInv
  <2>3. /\ \A k \in Legs \ {l} : Owing(k)' = Owing(k)
        /\ Owing(l)' = {}
        /\ \A k : \A i \in Owing(k) : log'.rows[i] = log.rows[i]
    BY <2>1, OwingLonger
  <2>4. (\A k \in Legs \ {l} : Resumed(k)' <=> Resumed(k)) /\ Resumed(l)'
    BY <2>1, ResumedLonger
  <2>5. ASSUME NEW k \in Legs
        PROVE  OwesOne(k)'
    <3>1. CASE k = l
      BY <1>1, <2>3, <3>1 DEF OwesOne
    <3>2. CASE k # l
      <4>1. leg'[k] = leg[k] /\ OwesOne(k) /\ Here(k)' = Here(k)
        BY <1>1, <3>2 DEF LogInv, Still, Here
      <4> QED
        BY <1>3, <2>3, <2>4, <3>2, <4>1 DEF OwesOne
    <3> QED
      BY <3>1, <3>2
  <2>6. Unheard' = Unheard
    BY <1>3, <1>4, <2>4 DEF Unheard
  <2>7. log'.torn = FALSE /\ log'.lost = log.lost
    BY <2>1 DEF Longer
  <2> QED
    BY <2>2, <2>5, <2>6, <2>7 DEF LogInv, TornAtRest
<1> QED
  BY <1>5, <1>6

LEMMA LogStarted ==
    ASSUME Typed, NEW l \in Legs, NEW supplied, Start(l, supplied)
    PROVE  Spoken(l, "run", "started")
  BY StartFacts DEF Start, NoLog, Spoken, StepNames, EventStatus

LEMMA LogInductive ==
    ASSUME ~Overlap, Typed, AloneInv, LogInv, [Next]_graphVars
    PROVE  LogInv'
<1>1. ASSUME NEW l \in Legs, NEW supplied, Start(l, supplied)
      PROVE  LogInv'
  BY <1>1, LogStarted, LogSpoken DEF StepNames, EventStatus
<1>2. ASSUME NEW l \in Legs, NEW v \in Verdicts, Decide(l, v)
      PROVE  LogInv'
  BY <1>2, LogDecided
<1>3. ASSUME NEW l \in Legs, LegStep(l) \/ Crash(l)
      PROVE  LogInv'
  BY <1>3, StepIsHeard, LogSilent, LogSpoken DEF SpokenSome
<1>4. CASE UNCHANGED graphVars
  <2>1. /\ UNCHANGED <<leg, given, log>>
        /\ Paired' /\ \A k : Owing(k)' = Owing(k)
        /\ \A k : Resumed(k)' <=> Resumed(k)
    BY <1>4, RowsUnchanged DEF graphVars, LogInv
  <2>2. Unheard' = Unheard
    BY <2>1 DEF Unheard
  <2> QED
    BY <2>1, <2>2 DEF LogInv, OwesOne, TornAtRest, Here
<1>5. CASE CutFirst
  <2>1. /\ UNCHANGED <<leg, given>> /\ log'.rows = log.rows /\ log'.lost = log.lost
        /\ \A k \in Legs : leg[k].pc \in Stopped
    BY <1>5, CutFacts
  <2>2. /\ Paired' /\ \A k : Owing(k)' = Owing(k)
        /\ \A k : Resumed(k)' <=> Resumed(k)
    BY <2>1, RowsUnchanged DEF LogInv
  <2>3. Unheard' = Unheard
    BY <2>1, <2>2 DEF Unheard
  <2> QED
    BY <2>1, <2>2, <2>3 DEF LogInv, OwesOne, TornAtRest, Here
<1> QED
  BY <1>1, <1>2, <1>3, <1>4, <1>5 DEF Next

\* One process at a time, whatever is killed in the middle of a row: each step that
\* is begun ends in one terminal row of its process, no such row stands alone, and
\* only rows of decisions are lost (store/events.py:24-31 and 163, sdk/graph.py).
THEOREM RowsComeInPairs ==
    ASSUME ~Overlap
    PROVE  Spec => []StartedThenOne
<1>1. Init => Typed /\ AloneInv /\ LogInv
  BY TypeInitially, AloneInitially, LogInitially
<1>2. Typed /\ AloneInv /\ LogInv /\ [Next]_graphVars => (Typed /\ AloneInv /\ LogInv)'
  BY TypeInductive, AloneInductive, LogInductive
<1>3. ASSUME Typed, LogInv
      PROVE  StartedThenOne
  <2>1. ASSUME NEW i \in DOMAIN log.rows, Begins(i), Last(i)
        PROVE  leg[log.rows[i].process].pc \in {"working", "crashed", "collided"}
    <3>0. log.rows \in Seq([process : Legs, step : StepNames, status : EventStatus])
      BY <1>3 DEF Typed, GraphTypeOK, EventLogs
    <3>3. log.rows[i] \in [process : Legs, step : StepNames, status : EventStatus]
      <4> DEFINE R == [process : Legs, step : StepNames, status : EventStatus]
      <4>1. log.rows \in Seq(R)
        BY <3>0
      <4>2. i \in DOMAIN log.rows
        BY <2>1
      <4> HIDE DEF R
      <4>3. log.rows[i] \in R
        BY <4>1, <4>2
      <4> QED
        BY <4>3 DEF R
    <3>1. log.rows[i].process \in Legs
      BY <3>3
    <3>2. i \in Owing(log.rows[i].process)
      BY <2>1 DEF Owing
    <3> QED
      BY <1>3, <3>1, <3>2 DEF LogInv, OwesOne
  <2>2. PICK n \in Nat : n = Cardinality(Unheard)
    BY <1>3, FS_CardinalityType DEF LogInv
  <2>3. log.lost = n
    BY <1>3, <2>2 DEF LogInv
  <2>4. (\E l : l \in Unheard) => n # 0
    BY <1>3, <2>2, FS_EmptySet DEF LogInv
  <2>5. \A l \in Unheard : log.lost > 0
    BY <2>3, <2>4
  <2>6. log.lost <= Cardinality(Unheard)
    BY <2>2, <2>3
  <2> QED
    BY <1>3, <2>1, <2>5, <2>6 DEF StartedThenOne, LogInv, Paired
<1> QED
  BY <1>1, <1>2, <1>3, PTL DEF Spec

-----------------------------------------------------------------------------
(* What the list says.  A process that has saved is where the checkpoint   *)
(* is; the checkpoint of one that pauses waits at its gate; and every node *)
(* behind somebody has been called.                                        *)

Pausing(l) ==
    \/ leg[l].pc = "waiting"
    \/ leg[l].pc = "closing" /\ leg[l].closing = "awaiting_human"

CalledBefore(pos) == \A n \in Nodes : n < pos /\ Noting(n) => invoked[n] > 0

Kept(l) ==
    /\ (leg[l].pc \in {"node", "working"} \/ Pausing(l)) /\ leg[l].saved
            => thread.next = leg[l].pos /\ thread.pool = leg[l].pool
    /\ Pausing(l) => (leg[l].saved /\ AtGate(leg[l].pos) /\ thread.waiting /\ thread.by = l)
    /\ leg[l].pc = "node" /\ leg[l].saved /\ leg[l].resume = None /\ AtGate(leg[l].pos)
            => thread.by = l
    /\ leg[l].pc = "loading" => leg[l].resume # None
    /\ leg[l].pc = "closing" => leg[l].closing # "ok"
    /\ leg[l].pc = "working" => invoked[leg[l].pos] > 0
    /\ CalledBefore(leg[l].pos)

KeptInv == CalledBefore(thread.next) /\ \A l \in Legs : Kept(l)

LEMMA KeptInitially == Init => KeptInv
<1> SUFFICES ASSUME Init
             PROVE  KeptInv
  OBVIOUS
<1>1. \A l \in Legs : leg[l].pc = "free" /\ leg[l].pos = 1
  BY DEF Init, Fresh
<1>2. thread.next = 0
  BY DEF Init, NoCheckpoint
<1>3. CalledBefore(0) /\ CalledBefore(1)
  BY DEF CalledBefore, Nodes
<1> QED
  BY <1>1, <1>2, <1>3 DEF KeptInv, Kept, Pausing

\* Calls are only added.
CallsAdded == \A n \in Nodes : invoked[n] > 0 => invoked'[n] > 0

LEMMA CallsKept ==
    ASSUME CallsAdded, NEW pos, NEW after, CalledBefore(pos), after = pos
    PROVE  \A n \in Nodes : n < after /\ Noting(n) => invoked'[n] > 0
  BY DEF CallsAdded, CalledBefore

LEMMA KeptStep ==
    ASSUME KeptInv, NEW l \in Legs, Still(l), CallsAdded,
           \A k \in Legs \ {l} : leg[k].pc \in Stopped,
           thread'.next \in {thread.next, leg[l].pos}, Kept(l)'
    PROVE  KeptInv'
<1>1. ASSUME NEW k \in Legs, k # l
      PROVE  Kept(k)'
  <2>1. leg'[k] = leg[k] /\ leg[k].pc \in Stopped
    BY <1>1 DEF Still
  <2>2. CalledBefore(leg[k].pos)'
    BY <1>1, <2>1 DEF KeptInv, Kept, CalledBefore, CallsAdded
  <2> QED
    BY <2>1, <2>2 DEF Kept, Pausing, Stopped
<1>2. CalledBefore(thread.next)'
  BY DEF KeptInv, Kept, CalledBefore, CallsAdded
<1> QED
  BY <1>1, <1>2 DEF KeptInv

\* What else a process has when it goes on, and when it closes the run.
LEMMA GotoKeeps ==
    ASSUME LegsTyped, NEW l \in Legs, NEW pc, Goto(l, pc)
    PROVE  /\ leg'[l].saved = leg[l].saved /\ leg'[l].pool = leg[l].pool
           /\ leg'[l].resume = leg[l].resume /\ leg'[l].closing = leg[l].closing
<1>1. leg \in [Legs -> LegRecord] /\ leg[l] \in LegRecord
  BY DEF LegsTyped
<1> QED
  BY <1>1 DEF Goto, LegRecord

LEMMA ToCloseKeeps ==
    ASSUME LegsTyped, NEW l \in Legs, NEW status, ToClose(l, status)
    PROVE  /\ leg'[l].saved = leg[l].saved /\ leg'[l].pool = leg[l].pool
           /\ leg'[l].closing = status
<1>1. leg \in [Legs -> LegRecord] /\ leg[l] \in LegRecord
  BY DEF LegsTyped
<1> QED
  BY <1>1 DEF ToClose, LegRecord

\* A process that leaves the nodes, and does not pause.
LEMMA KeptLeft ==
    ASSUME KeptInv, NEW l \in Legs, SameWork(l), UNCHANGED invoked,
           leg'[l].pc \in LegPc \ {"node", "working", "waiting", "loading"},
           leg'[l].pc = "closing" => leg'[l].closing \in {"blocked", "failed"}
    PROVE  Kept(l)'
<1>1. CalledBefore(leg[l].pos)'
  BY DEF KeptInv, Kept, CalledBefore, SameWork
<1> QED
  BY <1>1 DEF Kept, Pausing

\* A node has returned, and nothing is saved yet.
LEMMA KeptReturned ==
    ASSUME Typed, KeptInv, NEW l \in Legs, NEW notes, Advanced(l, notes), ~leg'[l].saved,
           leg[l].pos \in Nodes, leg[l].pc = "working" \/ ~Noting(leg[l].pos)
    PROVE  Kept(l)'
<1>1. ASSUME NEW n \in Nodes, n < leg[l].pos + 1, Noting(n)
      PROVE  invoked[n] > 0
  <2>1. n = leg[l].pos \/ n < leg[l].pos
    BY <1>1 DEF Nodes
  <2> QED
    BY <1>1, <2>1 DEF KeptInv, Kept, CalledBefore
<1>2. CalledBefore(leg[l].pos)'
  BY <1>1 DEF CalledBefore, Advanced
<1> QED
  BY <1>2 DEF Kept, Pausing, Advanced

LEMMA MergedKeeps ==
    ASSUME Typed, NEW l \in Legs, NEW value, NEW ctx, NEW notes, Merged(l, value, ctx, notes)
    PROVE  ~leg'[l].saved
<1> DEFINE x == [leg[l] EXCEPT !.pc = "node", !.pos = leg[l].pos + 1,
                    !.saved = FALSE,
                    !.pool = Pooled(l, value),
                    !.ctx = ctx, !.notes = leg[l].notes \o notes, !.resume = None]
<1>1. leg \in [Legs -> LegRecord] /\ leg[l] \in LegRecord
  BY DEF Typed, LegsTyped
<1>2. leg' = [leg EXCEPT ![l] = x]
  BY DEF Merged
<1>3. x.saved = FALSE
  BY <1>1 DEF LegRecord
<1> HIDE DEF x
<1> QED
  BY <1>1, <1>2, <1>3

LEMMA KeptLoaded ==
    ASSUME Typed, KeptInv, NEW l \in Legs, Load(l)
    PROVE  Kept(l)'
<1> DEFINE resume == IF AtGate(thread.next) THEN leg[l].resume ELSE None
           x == [leg[l] EXCEPT !.pc = "node", !.pos = thread.next,
                    !.pool = thread.pool, !.notes = thread.notes, !.saved = TRUE,
                    !.resume = resume]
<1>1. leg \in [Legs -> LegRecord] /\ leg[l] \in LegRecord
  BY DEF Typed, LegsTyped
<1>2. leg' = [leg EXCEPT ![l] = x] /\ UNCHANGED <<thread, invoked>>
  BY DEF Load, Loaded
<1>3. leg[l].resume # None
  BY DEF KeptInv, Kept, Load, Loaded, At
<1> HIDE DEF resume
<1>4. x.pc = "node" /\ x.pos = thread.next /\ x.pool = thread.pool /\ x.resume = resume
  BY <1>1 DEF LegRecord
<1> HIDE DEF x
<1>5. leg'[l] = x
  BY <1>1, <1>2
<1>6. AtGate(thread.next) => resume # None
  BY <1>3 DEF resume
<1>7. CalledBefore(thread.next)'
  BY <1>2 DEF KeptInv, CalledBefore
<1>8. AtGate(thread.next)' => AtGate(thread.next)
  BY <1>2 DEF AtGate
<1> QED
  BY <1>2, <1>4, <1>5, <1>6, <1>7, <1>8 DEF Kept, Pausing, AtGate

LEMMA KeptSaved ==
    ASSUME Typed, KeptInv, NEW l \in Legs, Save(l)
    PROVE  Kept(l)'
<1>1. leg \in [Legs -> LegRecord] /\ leg[l] \in LegRecord
  BY DEF Typed, LegsTyped
<1>2. /\ leg'[l].pool = leg[l].pool /\ leg'[l].closing = leg[l].closing
      /\ leg'[l].pc = leg[l].pc /\ leg'[l].pos = leg[l].pos
  BY <1>1 DEF Save, LegRecord
<1>3. thread'.next = leg[l].pos /\ thread'.pool = leg[l].pool /\ thread'.by = l
  BY DEF Save
<1>4. /\ ~Pausing(l) /\ leg[l].pc # "loading" /\ invoked' = invoked
      /\ Kept(l)
  BY DEF Save, KeptInv, Kept
<1>5. CalledBefore(leg[l].pos)'
  BY <1>2, <1>4 DEF Kept, CalledBefore
<1> QED
  BY <1>2, <1>3, <1>4, <1>5 DEF Kept, Pausing

LEMMA KeptInterrupted ==
    ASSUME Typed, KeptInv, NEW l \in Legs, Interrupt(l)
    PROVE  Kept(l)'
<1>1. LegsTyped /\ thread \in ThreadRecord
  BY DEF Typed, GraphTypeOK
<1>2. /\ SameWork(l) /\ leg'[l].pc = "waiting"
      /\ leg'[l].saved = leg[l].saved /\ leg'[l].pool = leg[l].pool
  BY <1>1, GotoFacts, GotoKeeps DEF Interrupt
<1>3. /\ AtGate(leg[l].pos) /\ leg[l].pc = "node" /\ leg[l].saved /\ leg[l].resume = None
      /\ UNCHANGED invoked
  BY DEF Interrupt, AtNode, At, Here, AtGate
<1>4. thread.by = l /\ thread.next = leg[l].pos /\ thread.pool = leg[l].pool
  BY <1>3 DEF KeptInv, Kept
<1>5. /\ thread'.next = thread.next /\ thread'.pool = thread.pool /\ thread'.waiting
      /\ thread'.by = thread.by
  BY <1>1, <1>4 DEF Interrupt, ThreadRecord
<1>6. CalledBefore(leg[l].pos)'
  BY <1>2, <1>3 DEF KeptInv, Kept, CalledBefore, SameWork
<1> QED
  BY <1>2, <1>3, <1>4, <1>5, <1>6 DEF Kept, Pausing, AtGate, SameWork

LEMMA KeptPaused ==
    ASSUME Typed, KeptInv, NEW l \in Legs, TellPause(l)
    PROVE  Kept(l)'
<1>1. /\ SameWork(l) /\ leg'[l].pc = "closing" /\ leg'[l].closing = "awaiting_human"
      /\ leg'[l].saved = leg[l].saved /\ leg'[l].pool = leg[l].pool
  BY ToCloseFacts, ToCloseKeeps DEF TellPause, Typed
<1>2. leg[l].pc = "waiting" /\ UNCHANGED <<thread, invoked>> /\ Kept(l) /\ Pausing(l)
  BY DEF TellPause, At, KeptInv, Pausing
<1>3. CalledBefore(leg[l].pos)'
  BY <1>1, <1>2 DEF Kept, CalledBefore, SameWork
<1> QED
  BY <1>1, <1>2, <1>3 DEF Kept, Pausing, AtGate, SameWork

LEMMA KeptCalling ==
    ASSUME Typed, KeptInv, NEW l \in Legs,
           \/ StartStep(l) \/ StartJudge(l)
           \/ RetryAgent(l) \/ AskAgain(l)
    PROVE  Kept(l)' /\ CallsAdded
<1>1. leg \in [Legs -> LegRecord] /\ leg[l] \in LegRecord /\ leg[l].pos \in Nodes
  BY PositionFacts, BeginFacts, AgainFacts DEF Typed, LegsTyped
<1>2. /\ leg[l].pc \in {"node", "working"} /\ leg'[l].pc = "working"
      /\ leg'[l].pos = leg[l].pos /\ UNCHANGED thread
      /\ invoked' = [invoked EXCEPT ![leg[l].pos] = @ + 1]
  BY BeginFacts, AgainFacts
<1>3. leg'[l].saved = leg[l].saved /\ leg'[l].pool = leg[l].pool
  <2>1. Begin(l) \/ Again(l)
    BY DEF StartStep, StartJudge, RetryAgent, AskAgain
  <2> QED
    BY <1>1, <2>1 DEF Begin, Again, LegRecord
<1>4. invoked \in [Nodes -> Nat]
  BY DEF Typed, GraphTypeOK
<1>5. invoked'[leg[l].pos] > 0 /\ \A n \in Nodes : n # leg[l].pos => invoked'[n] = invoked[n]
  BY <1>1, <1>2, <1>4
<1>6. CallsAdded
  BY <1>5 DEF CallsAdded
<1>7. CalledBefore(leg[l].pos)'
  BY <1>2, <1>6 DEF KeptInv, Kept, CalledBefore, CallsAdded
<1> QED
  BY <1>2, <1>3, <1>5, <1>6, <1>7 DEF KeptInv, Kept, Pausing

LEMMA KeptInductive ==
    ASSUME ~Overlap, Typed, AloneInv, KeptInv, [Next]_graphVars
    PROVE  KeptInv'
<1>1. /\ LegsTyped /\ leg \in [Legs -> LegRecord]
      /\ \A l \in Legs : leg[l] \in LegRecord
      /\ \A l \in Legs : leg[l].pc \notin Stopped =>
            \A k \in Legs \ {l} : leg[k].pc \in Stopped
  BY DEF Typed, LegsTyped, AloneInv, Alone
<1>2. UNCHANGED invoked => CallsAdded
  BY DEF CallsAdded
<1>3. ASSUME NEW l \in Legs, NEW supplied, Start(l, supplied)
      PROVE  KeptInv'
  <2>1. /\ Still(l) /\ SameWork(l) /\ leg'[l].pc = "preflight"
        /\ \A k \in Legs : leg[k].pc = "free"
        /\ UNCHANGED <<thread, invoked>>
    BY <1>3, StartFacts
  <2>2. Kept(l)'
    BY <2>1, KeptLeft DEF LegPc
  <2> QED
    BY <1>2, <2>1, <2>2, KeptStep DEF Stopped
<1>4. ASSUME NEW l \in Legs, NEW v \in Verdicts, Decide(l, v)
      PROVE  KeptInv'
  <2>1. /\ Still(l) /\ SameWork(l) /\ leg'[l].pc = "loading"
        /\ \A k \in Legs : leg[k].pc \in Stopped
        /\ UNCHANGED <<thread, invoked>>
    BY <1>4, DecideFacts
  <2>2. leg'[l].resume = v /\ v # None
    BY <1>1, <1>4 DEF Decide, LegRecord
  <2>3. CalledBefore(leg[l].pos)'
    BY <2>1 DEF KeptInv, Kept, CalledBefore, SameWork
  <2>4. Kept(l)'
    BY <2>1, <2>2, <2>3 DEF Kept, Pausing
  <2> QED
    BY <1>2, <2>1, <2>4, KeptStep
<1>5. ASSUME NEW l \in Legs, Load(l)
      PROVE  KeptInv'
  BY <1>1, <1>2, <1>5, LoadFacts, KeptLoaded, KeptStep DEF Stopped
<1>6. ASSUME NEW l \in Legs, Save(l)
      PROVE  KeptInv'
  <2>1. /\ Still(l) /\ thread'.next = leg[l].pos /\ UNCHANGED invoked
        /\ leg[l].pc \notin Stopped
    BY <1>6, SaveFacts DEF Stopped
  <2> QED
    BY <1>1, <1>2, <1>6, <2>1, KeptSaved, KeptStep
<1>7. ASSUME NEW l \in Legs, SkipGate(l) \/ PassGate(l)
      PROVE  KeptInv'
  <2>1. /\ leg[l].pos \in Nodes /\ ~Noting(leg[l].pos)
        /\ leg[l].pc = "node" /\ Advanced(l, <<>>)
    BY <1>7, GateFacts DEF Noting
  <2>2. ~leg'[l].saved
    BY <1>7, MergedKeeps DEF SkipGate, PassGate
  <2>3. Kept(l)'
    BY <2>1, <2>2, KeptReturned
  <2> QED
    BY <1>1, <1>2, <2>1, <2>3, KeptStep DEF Advanced, Stopped
<1>8. ASSUME NEW l \in Legs,
             \/ \E value \in Products, status \in Done : Succeed(l, value, status)
             \/ JudgePass(l)
             \/ \E verdict \in {"fail", "none"} : JudgeWarn(l, verdict)
      PROVE  KeptInv'
  <2>1. leg[l].pc = "working" /\ Advanced(l, Since(l)) /\ leg[l].pos \in Nodes
    BY <1>8, ReturnedFacts, PositionFacts DEF Since, Typed
  <2>2. \E value : Returned(l, value, Noted(l))
    BY <1>8 DEF Succeed, JudgePass, JudgeWarn
  <2>3. ~leg'[l].saved
    BY <2>2, MergedKeeps DEF Returned
  <2>4. Kept(l)'
    BY <2>1, <2>3, KeptReturned
  <2> QED
    BY <1>1, <1>2, <2>1, <2>4, KeptStep DEF Advanced, Stopped
<1>9. ASSUME NEW l \in Legs, \/ StartStep(l) \/ StartJudge(l)
                             \/ RetryAgent(l) \/ AskAgain(l)
      PROVE  KeptInv'
  <2>1. Still(l) /\ leg[l].pc \notin Stopped /\ UNCHANGED thread
    BY <1>9, BeginFacts, AgainFacts DEF Stopped
  <2> QED
    BY <1>1, <1>9, <2>1, KeptCalling, KeptStep
<1>10. ASSUME NEW l \in Legs, Moves(l), Kept(l)'
       PROVE  KeptInv'
  <2>1. Moved(l)
    BY <1>10, MovesFacts
  <2>2. Still(l) /\ leg[l].pc \notin Stopped /\ thread'.next = thread.next /\ UNCHANGED invoked
    BY <2>1 DEF Moved
  <2> QED
    BY <1>1, <1>2, <1>10, <2>2, KeptStep
<1>11. ASSUME NEW l \in Legs,
              \/ PreflightOk(l) \/ Strand(l) \/ Unbound(l) \/ Collide(l)
              \/ Close(l) \/ Leave(l) \/ Crash(l) \/ Finish(l)
       PROVE  KeptInv'
  <2>1. leg'[l].pc \in {"entering", "stranded", "unbound", "collided", "ended", "leaving",
                         "crashed"}
    <3>1. CASE Finish(l)
      BY <1>1, <3>1 DEF Finish, LegRecord
    <3>2. CASE ~Finish(l)
      <4>1. PICK pc \in {"entering", "stranded", "unbound", "collided", "ended", "leaving",
                          "crashed"} : Goto(l, pc)
        BY <1>11, <3>2 DEF PreflightOk, Strand, Unbound, Collide, Close, Leave, Crash
      <4> QED
        BY <1>1, <4>1, GotoFacts
    <3> QED
      BY <3>1, <3>2
  <2>2. Moved(l) /\ Moves(l)
    BY <1>11, MovesFacts DEF Moves
  <2>3. Kept(l)'
    BY <2>1, <2>2, KeptLeft DEF Moved, LegPc
  <2> QED
    BY <1>10, <2>2, <2>3
<1>12. ASSUME NEW l \in Legs,
              \/ PreflightBlocked(l)
              \/ \E status \in {"blocked", "failed"} : Fail(l, status)
              \/ JudgeBlind(l)
              \/ \E verdict \in {"fail", "none"} : JudgeBlock(l, verdict)
       PROVE  KeptInv'
  <2>1. PICK status \in {"blocked", "failed"} : ToClose(l, status)
    BY <1>12 DEF PreflightBlocked, Fail, JudgeBlind, JudgeBlock
  <2>2. leg'[l].pc = "closing" /\ leg'[l].closing = status
    BY <1>1, <2>1, ToCloseFacts, ToCloseKeeps
  <2>3. Moved(l) /\ Moves(l)
    BY <1>12, MovesFacts DEF Moves
  <2>4. Kept(l)'
    BY <2>2, <2>3, KeptLeft DEF Moved, LegPc
  <2> QED
    BY <1>10, <2>3, <2>4
<1>13. ASSUME NEW l \in Legs, Enter(l)
       PROVE  KeptInv'
  <2>1. leg'[l].pc = "node" /\ leg'[l].saved = FALSE /\ leg'[l].pos = leg[l].pos
    BY <1>1, <1>13 DEF Enter, LegRecord
  <2>2. CalledBefore(leg[l].pos)'
    BY <1>13, <2>1 DEF Enter, KeptInv, Kept, CalledBefore
  <2>3. Kept(l)'
    BY <2>1, <2>2 DEF Kept, Pausing
  <2> QED
    BY <1>10, <1>13, <2>3 DEF Moves
<1>14. ASSUME NEW l \in Legs, Interrupt(l) \/ TellPause(l)
       PROVE  KeptInv'
  BY <1>10, <1>14, KeptInterrupted, KeptPaused DEF Moves
<1>15. CASE CutFirst \/ UNCHANGED graphVars
  <2>1. leg' = leg /\ thread' = thread /\ invoked' = invoked
    BY <1>15 DEF CutFirst, graphVars
  <2> QED
    BY <2>1 DEF KeptInv, Kept, Pausing, CalledBefore, AtGate
<1> QED
  BY <1>3, <1>4, <1>5, <1>6, <1>7, <1>8, <1>9, <1>11, <1>12, <1>13, <1>14, <1>15 DEF Next, LegStep

\* The status a run is listed with is that of its newest row.
Newest ==
    RunRows(log.rows) # {} =>
        \E i \in RunRows(log.rows) : \A j \in RunRows(log.rows) : j <= i

\* The row of the gate at which a process pauses is the last one of the log.
GateIsLast(l) ==
    \E n \in DOMAIN log.rows :
        /\ log.rows[n] = Row(l, Here(l).name, "awaiting_human")
        /\ \A j \in DOMAIN log.rows : j <= n

\* The checkpoint waits at the gate of the newest row of a gate, which the process
\* that saved it has told.
Waits ==
    /\ thread.waiting
    /\ \E g \in GateRows :
            /\ \A j \in GateRows : j <= g
            /\ log.rows[g].process = thread.by
            /\ log.rows[g].step = Plan[thread.next].name
            /\ Shown(log.rows[g]) = Asked(log.rows[g])

AtEnd == thread.next = Len(Plan) + 1 /\ \A n \in Nodes : Noting(n) => invoked[n] > 0

Quiet == RunStatus(log.rows) \notin {"awaiting_human", "ok"}

StatusTrue ==
    /\ RunStatus(log.rows) = "awaiting_human" /\ Listed(thread.by) => Waits
    /\ RunStatus(log.rows) = "ok" => AtEnd

\* While a process works that the list knows of, the run is listed neither as
\* waiting nor as ok; one that it does not know of leaves the status as it was.
ListedInv ==
    /\ Newest
    /\ \A l \in Legs : Listed(l) => leg[l].pc # "free" /\ (leg[l].pc \notin Stopped => Quiet)
    /\ \A l \in Legs :
            leg[l].pc = "closing" /\ leg[l].closing = "awaiting_human" => GateIsLast(l)
    /\ StatusTrue

LEMMA RowsHaveProcesses ==
    ASSUME log \in EventLogs(Legs)
    PROVE  DOMAIN log.rows \subseteq Nat /\ \A i \in DOMAIN log.rows : log.rows[i].process \in Legs
<1> DEFINE R == [process : Legs, step : StepNames, status : EventStatus]
<1>1. log.rows \in Seq(R)
  BY DEF EventLogs
<1>2. ASSUME NEW i \in DOMAIN log.rows
      PROVE  log.rows[i].process \in Legs
  <2> HIDE DEF R
  <2>1. log.rows[i] \in R
    BY <1>1, <1>2
  <2> QED
    BY <2>1 DEF R
<1> HIDE DEF R
<1>3. DOMAIN log.rows \subseteq Nat
  BY <1>1
<1> QED
  BY <1>2, <1>3

\* A checkpoint that waits is what `runs` and `show` put before a reviewer.
LEMMA WaitingIsShown ==
    ASSUME Typed, Waits
    PROVE  /\ thread.waiting /\ GateRows # {}
           /\ LatestGateRow.step = Plan[thread.next].name
           /\ Shown(LatestGateRow) = Asked(LatestGateRow)
<1>1. GateRows \subseteq Nat
  BY RowsHaveProcesses DEF Typed, GraphTypeOK, GateRows
<1>2. PICK g \in GateRows :
            /\ \A j \in GateRows : j <= g
            /\ log.rows[g].step = Plan[thread.next].name
            /\ Shown(log.rows[g]) = Asked(log.rows[g])
  BY DEF Waits
<1>3. \A i \in GateRows : (\A j \in GateRows : j <= i) => i = g
  BY <1>1, <1>2
<1>4. (CHOOSE i \in GateRows : \A j \in GateRows : j <= i) = g
  BY <1>2, <1>3
<1> QED
  BY <1>2, <1>4 DEF Waits, LatestGateRow

\* It goes on waiting while the checkpoint, the rows of gates and the process that
\* saved it stay as they are.
LEMMA WaitsOn ==
    ASSUME Typed, Waits, thread' = thread, GateRows' = GateRows,
           \A i \in DOMAIN log.rows : log'.rows[i] = log.rows[i],
           \A k \in Legs : k = thread.by => leg'[k].pool = leg[k].pool
    PROVE  Waits'
<1>1. PICK g \in GateRows :
            /\ \A j \in GateRows : j <= g
            /\ log.rows[g].process = thread.by
            /\ log.rows[g].step = Plan[thread.next].name
            /\ Shown(log.rows[g]) = Asked(log.rows[g])
  BY DEF Waits
<1>2. g \in DOMAIN log.rows /\ log'.rows[g] = log.rows[g]
  BY <1>1 DEF GateRows
<1>3. log.rows[g].process \in Legs
  BY <1>2, RowsHaveProcesses DEF Typed, GraphTypeOK
<1>4. leg'[log.rows[g].process].pool = leg[log.rows[g].process].pool
  BY <1>1, <1>3
<1>5. Asked(log.rows[g])' = Asked(log.rows[g])
  BY <1>2, <1>4 DEF Asked
<1>6. Shown(log.rows[g])' = Shown(log.rows[g])
  BY <1>5 DEF Shown
<1> QED
  BY <1>1, <1>2, <1>5, <1>6 DEF Waits

\* What one row more does to the rows of gates and to what the list knows.
LEMMA ListLonger ==
    ASSUME NEW l, NEW step, NEW status, NEW n \in Nat, Longer(l, step, status, n)
    PROVE  /\ \A k : Listed(k)' <=> Listed(k) \/ (k = l /\ step = "run")
           /\ \A i \in DOMAIN log.rows : log'.rows[i] = log.rows[i]
           /\ step = "run" \/ status # "awaiting_human" => GateRows' = GateRows
<1>1. /\ DOMAIN log.rows = 1 .. (n - 1) /\ DOMAIN log'.rows = 1 .. n
      /\ \A i \in 1 .. (n - 1) : log'.rows[i] = log.rows[i] /\ i \in 1 .. n
      /\ log'.rows[n].process = l /\ log'.rows[n].step = step
      /\ log'.rows[n].status = status /\ n \in 1 .. n
      /\ \A i \in 1 .. n : i = n \/ i \in 1 .. (n - 1)
  BY DEF Longer
<1>2. ASSUME NEW k
      PROVE  Listed(k)' <=> Listed(k) \/ (k = l /\ step = "run")
  BY <1>1 DEF Listed
<1>3. step = "run" \/ status # "awaiting_human" => GateRows' = GateRows
  BY <1>1 DEF GateRows
<1> QED
  BY <1>1, <1>2, <1>3

LEMMA StatusLonger ==
    ASSUME Newest, NEW l, NEW step, NEW status, NEW n \in Nat, Longer(l, step, status, n)
    PROVE  /\ Newest'
           /\ step = "run" /\ status # "started" => RunStatus(log'.rows) = status
           /\ ~(step = "run" /\ status # "started") =>
                    /\ RunStatus(log'.rows) = RunStatus(log.rows)
                    /\ RunRows(log'.rows) = RunRows(log.rows)
<1>1. /\ DOMAIN log.rows = 1 .. (n - 1) /\ DOMAIN log'.rows = 1 .. n /\ n > 0
      /\ \A i \in 1 .. (n - 1) : log'.rows[i] = log.rows[i] /\ i <= n /\ i \in 1 .. n
      /\ log'.rows[n].step = step /\ log'.rows[n].status = status /\ n \in 1 .. n
      /\ \A i \in 1 .. n : i = n \/ i \in 1 .. (n - 1)
  BY DEF Longer
<1>2. CASE step = "run" /\ status # "started"
  <2>1. n \in RunRows(log'.rows) /\ \A j \in RunRows(log'.rows) : j <= n
    BY <1>1, <1>2 DEF RunRows
  <2>2. Newest'
    BY <2>1 DEF Newest
  <2>3. \A i \in RunRows(log'.rows) :
            (\A j \in RunRows(log'.rows) : j <= i) => i = n
    BY <1>1, <2>1 DEF RunRows
  <2>4. (CHOOSE i \in RunRows(log'.rows) : \A j \in RunRows(log'.rows) : j <= i) = n
    BY <2>1, <2>3
  <2>5. RunStatus(log'.rows) = status
    BY <1>1, <2>1, <2>4 DEF RunStatus
  <2> QED
    BY <1>2, <2>2, <2>5
<1>3. CASE ~(step = "run" /\ status # "started")
  <2>1. RunRows(log'.rows) = RunRows(log.rows)
    BY <1>1, <1>3 DEF RunRows
  <2>2. Newest'
    BY <2>1 DEF Newest
  <2>3. RunStatus(log'.rows) = RunStatus(log.rows)
    <3>1. CASE RunRows(log.rows) = {}
      BY <2>1, <3>1 DEF RunStatus
    <3>2. CASE RunRows(log.rows) # {}
      <4> DEFINE top == CHOOSE i \in RunRows(log.rows) : \A j \in RunRows(log.rows) : j <= i
      <4>1. top \in RunRows(log.rows)
        BY <3>2 DEF Newest
      <4>2. log'.rows[top] = log.rows[top]
        BY <1>1, <4>1 DEF RunRows
      <4>3. RunStatus(log.rows) = log.rows[top].status
        BY <3>2 DEF RunStatus
      <4>4. RunStatus(log'.rows) = log'.rows[top].status
        BY <2>1, <3>2 DEF RunStatus
      <4> QED
        BY <4>2, <4>3, <4>4
    <3> QED
      BY <3>1, <3>2
  <2> QED
    BY <1>3, <2>1, <2>2, <2>3
<1> QED
  BY <1>2, <1>3

LEMMA NodeHasItsName ==
    ASSUME NEW n \in Nodes
    PROVE  NodeNamed(Plan[n].name) = n
  BY NodesHaveOwnNames DEF NodeNamed, Nodes

\* Which steps pause and end a process.
LEMMA EndFacts ==
    ASSUME Typed, KeptInv, NEW l \in Legs, LegStep(l) \/ Crash(l)
    PROVE  /\ leg'[l].pc # "preflight"
           /\ leg'[l].pc \in {"ended", "leaving"} => Close(l) \/ Finish(l) \/ UNCHANGED log
           /\ leg'[l].pc = "closing" /\ leg'[l].closing = "awaiting_human" => TellPause(l)
<1>1. /\ LegsTyped /\ leg \in [Legs -> LegRecord] /\ leg[l] \in LegRecord /\ Kept(l)
  BY DEF Typed, LegsTyped, KeptInv
<1>2. CASE PreflightOk(l) \/ Strand(l) \/ Unbound(l) \/ Collide(l) \/ Crash(l) \/ Interrupt(l)
  <2>1. leg'[l].pc \in {"entering", "stranded", "unbound", "collided", "crashed", "waiting"}
    BY <1>1, <1>2, GotoFacts
       DEF PreflightOk, Strand, Unbound, Collide, Crash, Interrupt
  <2> QED
    BY <2>1
<1>3. CASE Close(l) \/ Leave(l) \/ Finish(l)
  <2>1. CASE Finish(l)
    <3>1. leg'[l].pc = "ended"
      BY <1>1, <2>1 DEF Finish, LegRecord
    <3> QED
      BY <2>1, <3>1
  <2>2. CASE Close(l) \/ Leave(l)
    <3>1. PICK pc \in {"ended", "leaving"} : Goto(l, pc)
      BY <2>2 DEF Close, Leave
    <3>2. leg'[l].pc \in {"ended", "leaving"} /\ (Close(l) \/ UNCHANGED log)
      BY <1>1, <2>2, <3>1, GotoFacts DEF Leave
    <3> QED
      BY <3>2
  <2> QED
    BY <1>3, <2>1, <2>2
<1>4. CASE \/ PreflightBlocked(l)
           \/ \E status \in {"blocked", "failed"} : Fail(l, status)
           \/ JudgeBlind(l)
           \/ \E verdict \in {"fail", "none"} : JudgeBlock(l, verdict)
  <2>1. PICK status \in {"blocked", "failed"} : ToClose(l, status)
    BY <1>4 DEF PreflightBlocked, Fail, JudgeBlind, JudgeBlock
  <2>2. leg'[l].pc = "closing" /\ leg'[l].closing = status
    BY <1>1, <2>1, ToCloseFacts, ToCloseKeeps
  <2> QED
    BY <2>2
<1>5. CASE TellPause(l)
  <2>1. leg'[l].pc = "closing"
    BY <1>1, <1>5, ToCloseFacts DEF TellPause
  <2> QED
    BY <1>5, <2>1
<1>6. CASE Save(l)
  <2>1. /\ leg'[l].pc = leg[l].pc /\ leg'[l].closing = leg[l].closing
        /\ leg[l].pc \in {"node", "working", "closing", "leaving"} /\ ~leg[l].saved
        /\ UNCHANGED log
    BY <1>1, <1>6 DEF Save, LegRecord
  <2> QED
    BY <1>1, <2>1 DEF Kept, Pausing
<1>7. CASE Enter(l)
  <2>1. leg'[l].pc = "node"
    BY <1>1, <1>7 DEF Enter, LegRecord
  <2> QED
    BY <2>1
<1>8. CASE \/ Load(l) \/ SkipGate(l) \/ PassGate(l)
           \/ \E value \in Products, status \in Done : Succeed(l, value, status)
           \/ JudgePass(l)
           \/ \E verdict \in {"fail", "none"} : JudgeWarn(l, verdict)
  <2>1. leg'[l].pc = "node"
    BY <1>8, LoadFacts, GateFacts, ReturnedFacts DEF Advanced
  <2> QED
    BY <2>1
<1>9. CASE StartStep(l) \/ StartJudge(l) \/ RetryAgent(l) \/ AskAgain(l)
  <2>1. leg'[l].pc = "working"
    BY <1>9, BeginFacts, AgainFacts
  <2> QED
    BY <2>1
<1> QED
  BY <1>2, <1>3, <1>4, <1>5, <1>6, <1>7, <1>8, <1>9 DEF LegStep

LEMMA ListedQuiet == Quiet' => StatusTrue'
  BY DEF StatusTrue, Quiet

\* The run is closed as waiting: behind the row of its gate.
LEMMA ListedPaused ==
    ASSUME Typed, KeptInv, NEW l \in Legs, Close(l), leg[l].closing = "awaiting_human",
           GateIsLast(l), NEW n \in Nat, Longer(l, "run", "awaiting_human", n)
    PROVE  Waits'
<1>1. PICK g \in Nodes : g = leg[l].pos
  BY DEF KeptInv, Kept, Pausing, Close, At, AtGate
<1>2. /\ thread.waiting /\ thread.next = g /\ thread.pool = leg[l].pool
      /\ thread.by = l /\ UNCHANGED thread
  BY <1>1 DEF KeptInv, Kept, Pausing, Close, At
<1>3. leg'[l].pool = leg[l].pool
  BY GotoKeeps DEF Close, Typed
<1>4. Plan[g].name \notin {"run", "preflight"} /\ Here(l).name = Plan[g].name
  BY <1>1, NodesHaveOwnNames DEF Here, Nodes
<1>5. /\ DOMAIN log.rows = 1 .. (n - 1) /\ DOMAIN log'.rows = 1 .. n /\ n > 0
      /\ \A i \in 1 .. (n - 1) : log'.rows[i] = log.rows[i]
      /\ log'.rows[n].step = "run"
  BY DEF Longer
<1>6. PICK m \in 1 .. (n - 1) :
            /\ log.rows[m] = Row(l, Plan[g].name, "awaiting_human")
            /\ \A j \in 1 .. (n - 1) : j <= m
  BY <1>4, <1>5 DEF GateIsLast
<1> DEFINE row == Row(l, Plan[g].name, "awaiting_human")
<1>7. m \in 1 .. n /\ log'.rows[m] = row
  BY <1>5, <1>6
<1>8. row.process = l /\ row.step = Plan[g].name /\ row.status = "awaiting_human"
  BY DEF Row
<1> HIDE DEF row
<1>9. m \in GateRows' /\ \A j \in GateRows' : j \in 1 .. (n - 1)
  <2>1. m \in GateRows'
    BY <1>4, <1>5, <1>7, <1>8 DEF GateRows
  <2>2. \A j \in GateRows' : j \in 1 .. n /\ j # n
    BY <1>5 DEF GateRows
  <2> QED
    BY <2>1, <2>2
<1>10. \A j \in GateRows' : j <= m
  BY <1>6, <1>9
<1>12. Asked(row)' = Payload(Plan[g], leg[l].pool)
  BY <1>3, <1>8, NodeHasItsName DEF Asked
<1>13. Shown(row)' = Payload(Plan[g], leg[l].pool)
  <2> DEFINE P == leg[l].pool
             asked == Payload(Plan[g], P)
             keys == {k \in Plan[g].needs : P[k] # "absent"}
             still == {k \in DOMAIN asked : P[k] # "absent"}
  <2>1. Shown(row)' = [k \in still |-> P[k]]
    BY <1>2, <1>12 DEF Shown
  <2>2. asked = [k \in keys |-> P[k]]
    BY DEF Payload
  <2>3. still = keys
    BY <2>2
  <2> HIDE DEF keys, still
  <2> QED
    BY <2>1, <2>2, <2>3
<1> QED
  BY <1>2, <1>7, <1>8, <1>9, <1>10, <1>12, <1>13 DEF Waits

LEMMA LiveSteps ==
    ASSUME Typed, NEW l \in Legs, LegStep(l) \/ Crash(l)
    PROVE  leg[l].pc \notin Stopped
<1>1. Moves(l) => leg[l].pc \notin Stopped
  BY MovesFacts DEF Moved
<1>2. \/ StartStep(l) \/ StartJudge(l) \/ RetryAgent(l) \/ AskAgain(l) \/ Load(l) \/ Save(l)
      \/ SkipGate(l) \/ PassGate(l)
      \/ \E value \in Products, status \in Done : Succeed(l, value, status)
      \/ JudgePass(l)
      \/ \E verdict \in {"fail", "none"} : JudgeWarn(l, verdict)
      => leg[l].pc \notin Stopped
  BY BeginFacts, AgainFacts, LoadFacts, SaveFacts, GateFacts, ReturnedFacts DEF Stopped
<1> QED
  BY <1>1, <1>2 DEF LegStep, Moves

\* Who saves is whom the checkpoint names, and it does not fall back.
LEMMA SavedByWhoSaves ==
    ASSUME Typed, AloneInv, NEW l \in Legs, LegStep(l) \/ Crash(l)
    PROVE  /\ thread' = thread \/ thread'.by = l
           /\ thread.next = Len(Plan) + 1 => thread'.next = Len(Plan) + 1
<1>1. thread \in ThreadRecord /\ leg[l] \in LegRecord
  BY DEF Typed, GraphTypeOK, LegsTyped
<1>2. CASE Save(l)
  <2>1. /\ leg[l].pc \in {"node", "working", "closing", "leaving"}
        /\ thread'.next = leg[l].pos /\ thread'.by = l
    BY <1>2 DEF Save
  <2>2. thread.next <= leg[l].pos /\ leg[l].pos \in 1 .. (Len(Plan) + 1)
    BY <1>1, <2>1 DEF AloneInv, Ahead, LegRecord
  <2>3. Len(Plan) \in Nat
    BY PlanHasNodes
  <2> QED
    BY <2>1, <2>2, <2>3
<1>3. CASE Interrupt(l)
  <2>1. thread' = IF thread.by = l THEN [thread EXCEPT !.waiting = TRUE] ELSE thread
    BY <1>3 DEF Interrupt
  <2> QED
    BY <1>1, <2>1 DEF ThreadRecord
<1>4. \/ PreflightOk(l) \/ PreflightBlocked(l) \/ Enter(l) \/ Load(l) \/ Strand(l)
      \/ SkipGate(l) \/ PassGate(l) \/ TellPause(l) \/ Unbound(l)
      \/ StartStep(l) \/ StartJudge(l) \/ RetryAgent(l) \/ AskAgain(l)
      \/ \E value \in Products, status \in Done : Succeed(l, value, status)
      \/ Collide(l)
      \/ \E status \in {"blocked", "failed"} : Fail(l, status)
      \/ JudgeBlind(l) \/ JudgePass(l)
      \/ \E verdict \in {"fail", "none"} : JudgeWarn(l, verdict) \/ JudgeBlock(l, verdict)
      \/ Close(l) \/ Leave(l) \/ Finish(l) \/ Crash(l)
      => thread' = thread
  BY DEF PreflightOk, PreflightBlocked, Enter, Load, Loaded, Strand, SkipGate, PassGate,
     TellPause, Unbound, StartStep, StartJudge, Begin, RetryAgent, AskAgain, Again, Succeed,
     Collide, Fail, JudgeBlind, JudgePass, JudgeWarn, JudgeBlock, Judged, Close, Leave, Finish,
     Crash
<1> QED
  BY <1>2, <1>3, <1>4 DEF LegStep

LEMMA StepAddsCalls ==
    ASSUME Typed, KeptInv, NEW l \in Legs, LegStep(l) \/ Crash(l)
    PROVE  CallsAdded
<1>1. CASE StartStep(l) \/ StartJudge(l) \/ RetryAgent(l) \/ AskAgain(l)
  BY <1>1, KeptCalling
<1>2. CASE Load(l) \/ Save(l)
  BY <1>2, LoadFacts, SaveFacts DEF CallsAdded
<1>3. CASE \/ SkipGate(l) \/ PassGate(l)
           \/ \E value \in Products, status \in Done : Succeed(l, value, status)
           \/ JudgePass(l)
           \/ \E verdict \in {"fail", "none"} : JudgeWarn(l, verdict)
  BY <1>3, GateFacts, ReturnedFacts DEF Advanced, CallsAdded
<1>4. CASE Moves(l)
  BY <1>4, MovesFacts DEF Moved, CallsAdded
<1> QED
  BY <1>1, <1>2, <1>3, <1>4 DEF LegStep, Moves

\* A process takes a step that tells nothing of the run.
LEMMA ListedWorking ==
    ASSUME Typed, AloneInv, KeptInv, ListedInv, NEW l \in Legs, LegStep(l) \/ Crash(l),
           Still(l), leg[l].pc \notin Stopped,
           RunStatus(log'.rows) = RunStatus(log.rows),
           \A k : Listed(k)' <=> Listed(k),
           \A i \in DOMAIN log.rows : log'.rows[i] = log.rows[i],
           GateRows' = GateRows \/ leg[l].pc = "waiting"
    PROVE  StatusTrue' /\ (Listed(l)' => Quiet')
<1>1. CASE Listed(l)
  <2>1. Quiet'
    BY <1>1 DEF ListedInv, Quiet
  <2> QED
    BY <2>1, ListedQuiet
<1>2. CASE ~Listed(l)
  <2>1. /\ thread' = thread \/ thread'.by = l
        /\ thread.next = Len(Plan) + 1 => thread'.next = Len(Plan) + 1
    BY SavedByWhoSaves
  <2>2. RunStatus(log'.rows) = "ok" => AtEnd'
    BY <2>1, StepAddsCalls DEF ListedInv, StatusTrue, AtEnd, CallsAdded, Noting
  <2>3. ASSUME RunStatus(log'.rows) = "awaiting_human", Listed(thread.by)'
        PROVE  Waits'
    <3>1. thread'.by # l
      BY <1>2, <2>3 DEF Listed
    <3>2. thread' = thread /\ thread.by # l
      BY <2>1, <3>1
    <3>3. Listed(thread.by)
      BY <2>3, <3>2 DEF Listed
    <3>4. Waits
      BY <2>3, <3>3 DEF ListedInv, StatusTrue
    <3>5. leg[l].pc # "waiting"
      BY <3>2 DEF KeptInv, Kept, Pausing
    <3>6. \A k \in Legs : k = thread.by => leg'[k].pool = leg[k].pool
      BY <3>2 DEF Still
    <3> QED
      BY <3>2, <3>4, <3>5, <3>6, WaitsOn
  <2> QED
    BY <1>2, <2>2, <2>3 DEF StatusTrue
<1> QED
  BY <1>1, <1>2

\* A process that works on the run takes a step.
LEMMA ListedLive ==
    ASSUME Typed, AloneInv, LogInv, KeptInv, ListedInv,
           NEW l \in Legs, LegStep(l) \/ Crash(l)
    PROVE  ListedInv'
<1>1. log \in EventLogs(Legs) /\ leg[l].pc \notin Stopped
  BY LiveSteps DEF Typed, GraphTypeOK
<1>2. Silent(l) \/ SpokenSome(l)
  BY StepIsHeard
<1>3. Still(l) /\ leg'[l].pc # "free"
  BY <1>2 DEF Silent, SpokenSome, Spoken
<1>4. ~log.torn /\ Newest
  BY <1>1 DEF ListedInv, LogInv, TornAtRest
<1>5. \A k \in Legs \ {l} : leg'[k].pc \in Stopped
  BY <1>1, <1>3 DEF AloneInv, Alone, Still
<1>6. ASSUME Newest', StatusTrue', \A k \in Legs \ {l} : Listed(k)' => Listed(k),
             leg'[l].pc = "ended" \/ (Listed(l)' => Quiet'),
             leg'[l].pc = "closing" /\ leg'[l].closing = "awaiting_human"
                => GateIsLast(l)'
      PROVE  ListedInv'
  <2>1. ASSUME NEW k \in Legs, leg'[k].pc = "closing", leg'[k].closing = "awaiting_human"
        PROVE  GateIsLast(k)'
    <3>1. k = l
      BY <1>5, <2>1 DEF Stopped
    <3> QED
      BY <1>6, <2>1, <3>1
  <2>2. ASSUME NEW k \in Legs, Listed(k)'
        PROVE  leg'[k].pc # "free" /\ (leg'[k].pc \notin Stopped => Quiet')
    <3>1. CASE k = l
      BY <1>3, <1>6, <2>2, <3>1 DEF Stopped
    <3>2. CASE k # l
      BY <1>3, <1>5, <1>6, <2>2, <3>2 DEF ListedInv, Still
    <3> QED
      BY <3>1, <3>2
  <2> QED
    BY <1>6, <2>1, <2>2 DEF ListedInv
<1>7. CASE Close(l)
  <2> DEFINE status == leg[l].closing
  <2>1. /\ leg[l].pc = "closing" /\ Tell(l, "run", status)
        /\ Goto(l, IF leg[l].saved THEN "ended" ELSE "leaving")
    BY <1>7 DEF Close, At
  <2>2. PICK n \in Nat : Longer(l, "run", status, n)
    BY <1>1, <1>4, <2>1, ToldLonger
  <2>3. status # "ok" /\ status # "started"
    BY <2>1 DEF KeptInv, Kept, Typed, LegsTyped, Stands, LegRecord, TERMINAL, Done
  <2>4. Newest' /\ RunStatus(log'.rows) = status
    BY <1>4, <2>2, <2>3, StatusLonger
  <2>5. \A k \in Legs \ {l} : Listed(k)' => Listed(k)
    BY <2>2, ListLonger
  <2>6. status = "awaiting_human" => Waits'
    BY <1>7, <2>1, <2>2, ListedPaused DEF ListedInv
  <2>7. StatusTrue'
    BY <2>3, <2>4, <2>6 DEF StatusTrue
  <2>8. leg'[l].pc = IF leg[l].saved THEN "ended" ELSE "leaving"
    BY <2>1, GotoFacts DEF Typed
  <2>9. status = "awaiting_human" => leg[l].saved
    BY <2>1 DEF KeptInv, Kept, Pausing
  <2>10. leg'[l].pc = "ended" \/ Quiet'
    BY <2>3, <2>4, <2>8, <2>9 DEF Quiet
  <2>11. leg'[l].pc # "closing"
    BY <2>8
  <2> QED
    BY <1>6, <2>4, <2>5, <2>7, <2>10, <2>11
<1>8. CASE Finish(l)
  <2>1. leg'[l].pc = "ended" /\ Tell(l, "run", "ok") /\ UNCHANGED <<thread, invoked>>
    BY <1>8 DEF Finish, Typed, LegsTyped, LegRecord
  <2>2. PICK n \in Nat : Longer(l, "run", "ok", n)
    BY <1>1, <1>4, <2>1, ToldLonger
  <2>3. Newest' /\ RunStatus(log'.rows) = "ok"
    BY <1>4, <2>2, StatusLonger
  <2>4. \A k \in Legs \ {l} : Listed(k)' => Listed(k)
    BY <2>2, ListLonger
  <2>5. thread.next = Len(Plan) + 1 /\ CalledBefore(thread.next)
    BY <1>8 DEF Finish, At, KeptInv, Kept
  <2>6. \A i \in Nodes : Noting(i) => invoked[i] > 0
    <3>1. \A i \in Nodes : i < Len(Plan) + 1
      BY DEF Nodes
    <3> QED
      BY <2>5, <3>1 DEF CalledBefore
  <2>7. StatusTrue'
    BY <2>1, <2>3, <2>5, <2>6 DEF StatusTrue, AtEnd, Noting
  <2> QED
    BY <1>6, <2>1, <2>3, <2>4, <2>7
<1>9. CASE TellPause(l)
  <2>1. leg[l].pos \in Nodes /\ Tell(l, Here(l).name, "awaiting_human")
        /\ SameWork(l) /\ leg[l].pc = "waiting"
    BY <1>9, PositionFacts, ToCloseFacts DEF TellPause, At, Typed
  <2>2. PICK n \in Nat : Longer(l, Here(l).name, "awaiting_human", n)
    BY <1>1, <1>4, <2>1, ToldLonger
  <2>3. Newest' /\ RunStatus(log'.rows) = RunStatus(log.rows)
    BY <1>4, <2>1, <2>2, NamesAreOwn, StatusLonger
  <2>4. /\ \A k : Listed(k)' <=> Listed(k)
        /\ \A i \in DOMAIN log.rows : log'.rows[i] = log.rows[i]
    BY <2>1, <2>2, NamesAreOwn, ListLonger
  <2>5. StatusTrue' /\ (Listed(l)' => Quiet')
    BY <1>1, <1>3, <2>1, <2>3, <2>4, ListedWorking
  <2>6. Here(l)' = Here(l)
    BY <2>1 DEF Here, SameWork
  <2>7. /\ n \in DOMAIN log'.rows /\ log'.rows[n] = Row(l, Here(l).name, "awaiting_human")
        /\ \A j \in DOMAIN log'.rows : j <= n
    BY <2>2 DEF Longer
  <2>8. GateIsLast(l)'
    BY <2>6, <2>7 DEF GateIsLast, Row
  <2> QED
    BY <1>6, <2>3, <2>4, <2>5, <2>8
<1>10. CASE ~Close(l) /\ ~Finish(l) /\ ~TellPause(l)
  <2>1. /\ leg'[l].pc \notin {"preflight", "ended", "leaving"} \/ log' = log
        /\ ~(leg'[l].pc = "closing" /\ leg'[l].closing = "awaiting_human")
    BY <1>10, EndFacts
  <2>2. /\ Newest' /\ RunStatus(log'.rows) = RunStatus(log.rows)
        /\ \A k : Listed(k)' <=> Listed(k)
        /\ \A i \in DOMAIN log.rows : log'.rows[i] = log.rows[i]
        /\ GateRows' = GateRows \/ leg[l].pc = "waiting"
    <3>1. CASE Silent(l) \/ log' = log
      <4>1. log'.rows = log.rows
        BY <3>1 DEF Silent
      <4> QED
        BY <1>4, <4>1 DEF Newest, Listed, GateRows
    <3>2. CASE SpokenSome(l) /\ log' # log
      <4>1. PICK step \in StepNames, status \in EventStatus : Spoken(l, step, status)
        BY <3>2 DEF SpokenSome
      <4>2. step # "run" /\ Tell(l, step, status)
        BY <2>1, <3>2, <4>1 DEF Spoken
      <4>3. PICK n \in Nat : Longer(l, step, status, n)
        BY <1>1, <1>4, <4>2, ToldLonger
      <4>4. Newest' /\ RunStatus(log'.rows) = RunStatus(log.rows)
        BY <1>4, <4>2, <4>3, StatusLonger
      <4>5. status = "awaiting_human" => leg[l].pc = "waiting"
        BY <4>1, <4>2 DEF Spoken
      <4> QED
        BY <4>2, <4>3, <4>4, <4>5, ListLonger
    <3> QED
      BY <1>2, <3>1, <3>2
  <2>3. StatusTrue' /\ (Listed(l)' => Quiet')
    BY <1>1, <1>3, <2>2, ListedWorking
  <2> QED
    BY <1>6, <2>1, <2>2, <2>3
<1> QED
  BY <1>7, <1>8, <1>9, <1>10

LEMMA ListedInductive ==
    ASSUME ~Overlap, Typed, AloneInv, LogInv, KeptInv, ListedInv, [Next]_graphVars
    PROVE  ListedInv'
<1>1. log \in EventLogs(Legs)
  BY DEF Typed, GraphTypeOK
<1>2. \A k \in Legs : leg[k] \in LegRecord
  BY DEF Typed, LegsTyped
<1>3. ASSUME NEW l \in Legs, NEW supplied, Start(l, supplied)
      PROVE  ListedInv'
  <2>1. /\ Still(l) /\ leg'[l].pc = "preflight"
        /\ \A k \in Legs : leg[k].pc = "free"
    BY <1>3, StartFacts
  <2>2. ~log.torn /\ RunRows(log.rows) = {}
    BY <1>3 DEF Start, NoLog, RunRows
  <2>3. PICK n \in Nat : Longer(l, "run", "started", n)
    BY <1>1, <1>3, <2>2, ToldLonger DEF Start
  <2>4. /\ Newest' /\ RunStatus(log'.rows) = RunStatus(log.rows)
    BY <2>3, StatusLonger DEF ListedInv
  <2>5. Quiet'
    BY <2>2, <2>4 DEF RunStatus, Quiet
  <2>6. \A k \in Legs : leg'[k].pc # "closing"
    BY <2>1 DEF Still
  <2>7. \A k \in Legs : Listed(k)' => leg'[k].pc # "free"
    BY <2>1, <2>3, ListLonger DEF ListedInv
  <2> QED
    BY <2>4, <2>5, <2>6, <2>7, ListedQuiet DEF ListedInv
<1>4. ASSUME NEW l \in Legs, NEW v \in Verdicts, Decide(l, v)
      PROVE  ListedInv'
  <2>1. /\ Still(l) /\ leg[l].pc = "free" /\ leg'[l].pc = "loading"
        /\ \A k \in Legs : leg[k].pc \in Stopped
        /\ UNCHANGED <<thread, invoked>>
    BY <1>4, DecideFacts
  <2>2. \A k \in Legs : leg'[k].pc # "closing" /\ (leg'[k].pc \notin Stopped => k = l)
    BY <2>1 DEF Still, Stopped
  <2>3. ~Listed(l)
    BY <2>1 DEF ListedInv
  <2>4. CASE log.torn
    <3>1. log'.rows = log.rows
      BY <1>1, <1>4, <2>4 DEF Decide, Tell, Told, EventLogs
    <3>2. Newest' /\ GateRows' = GateRows /\ \A k : Listed(k)' <=> Listed(k)
      BY <3>1 DEF ListedInv, Newest, GateRows, Listed
    <3>3. \A k \in Legs : Listed(k)' => leg'[k].pc # "free" /\ leg'[k].pc \in Stopped
      BY <2>1, <2>2, <2>3, <3>2 DEF ListedInv, Still
    <3>4. leg'[l].pool = leg[l].pool
      BY <1>2, <1>4 DEF Decide, Typed, LegsTyped, LegRecord
    <3>5. \A k \in Legs : leg'[k].pool = leg[k].pool
      BY <2>1, <3>4 DEF Still
    <3>6. RunStatus(log'.rows) = "awaiting_human" /\ Listed(thread.by)' => Waits'
      <4>1. SUFFICES ASSUME RunStatus(log'.rows) = "awaiting_human", Listed(thread.by)'
                     PROVE  Waits'
        OBVIOUS
      <4>2. Listed(thread.by)
        BY <2>1, <3>1, <4>1 DEF Listed
      <4>3. Waits
        BY <3>1, <4>1, <4>2 DEF ListedInv, StatusTrue
      <4> QED
        BY <2>1, <3>1, <3>2, <3>5, <4>3, WaitsOn
    <3>7. RunStatus(log'.rows) = "ok" => AtEnd'
      BY <2>1, <3>1 DEF ListedInv, StatusTrue, AtEnd
    <3>8. StatusTrue'
      BY <3>6, <3>7 DEF StatusTrue
    <3> QED
      BY <2>2, <3>2, <3>3, <3>8 DEF ListedInv
  <2>5. CASE ~log.torn
    <3>1. PICK n \in Nat : Longer(l, "run", "resumed", n)
      BY <1>1, <1>4, <2>5, ToldLonger DEF Decide
    <3>2. Newest' /\ RunStatus(log'.rows) = "resumed"
      BY <3>1, StatusLonger DEF ListedInv
    <3>3. Quiet'
      BY <3>2 DEF Quiet
    <3>4. \A k \in Legs : Listed(k)' => leg'[k].pc # "free"
      BY <2>1, <3>1, ListLonger DEF ListedInv, Still
    <3> QED
      BY <2>2, <3>2, <3>3, <3>4, ListedQuiet DEF ListedInv
  <2> QED
    BY <2>4, <2>5
<1>5. ASSUME NEW l \in Legs, LegStep(l) \/ Crash(l)
      PROVE  ListedInv'
  BY <1>5, ListedLive
<1>6. CASE CutFirst \/ UNCHANGED graphVars
  <2>1. UNCHANGED <<leg, thread, invoked>> /\ log'.rows = log.rows
    BY <1>6, CutFacts DEF graphVars
  <2>2. GateRows' = GateRows /\ \A k : Listed(k)' <=> Listed(k)
    BY <2>1 DEF GateRows, Listed
  <2>3. RunStatus(log'.rows) = "awaiting_human" /\ Listed(thread.by)' => Waits'
    <3>1. SUFFICES ASSUME RunStatus(log'.rows) = "awaiting_human", Listed(thread.by)'
                   PROVE  Waits'
      OBVIOUS
    <3>2. Waits
      BY <2>1, <3>1 DEF ListedInv, StatusTrue, Listed
    <3> QED
      BY <2>1, <2>2, <3>2, WaitsOn
  <2>4. RunStatus(log'.rows) = "ok" => AtEnd'
    BY <2>1 DEF ListedInv, StatusTrue, AtEnd
  <2>5. StatusTrue'
    BY <2>3, <2>4 DEF StatusTrue
  <2> QED
    BY <2>1, <2>2, <2>5 DEF ListedInv, Newest, GateIsLast, Here, Quiet
<1> QED
  BY <1>3, <1>4, <1>5, <1>6 DEF Next

LEMMA ListedInitially == Init => ListedInv
<1> SUFFICES ASSUME Init
             PROVE  ListedInv
  OBVIOUS
<1>1. DOMAIN log.rows = {}
  BY DEF Init, NoLog
<1>2. RunRows(log.rows) = {}
  BY <1>1 DEF RunRows
<1>3. RunStatus(log.rows) = "running"
  BY <1>2 DEF RunStatus
<1>4. \A l \in Legs : leg[l].pc = "free" /\ ~Listed(l)
  BY <1>1 DEF Init, Fresh, Listed
<1> QED
  BY <1>2, <1>3, <1>4 DEF ListedInv, Newest, StatusTrue

\* One process at a time, wherever it is killed: a run that is listed as waiting
\* waits in its checkpoint, at the gate of its latest row, and shows what that gate
\* asked, unless a process saved it whose "resumed" row was glued to a row cut
\* short, and has told nothing of the run since; a run that is listed as ok is at its end with every step begun
\* (sdk/cli.py:403-423, 440-451 and 479).
THEOREM TheListIsTrue ==
    ASSUME ~Overlap
    PROVE  Spec => []ListedStatusIsTrue
<1>1. Init => Typed /\ AloneInv /\ LogInv /\ KeptInv /\ ListedInv
  BY TypeInitially, AloneInitially, LogInitially, KeptInitially, ListedInitially
<1>2. Typed /\ AloneInv /\ LogInv /\ KeptInv /\ ListedInv /\ [Next]_graphVars
        => (Typed /\ AloneInv /\ LogInv /\ KeptInv /\ ListedInv)'
  BY TypeInductive, AloneInductive, LogInductive, KeptInductive, ListedInductive
<1>3. ASSUME Typed, ListedInv
      PROVE  ListedStatusIsTrue
  <2>1. RunStatus(log.rows) = "awaiting_human" /\ Listed(thread.by) => Waits
    BY <1>3 DEF ListedInv, StatusTrue
  <2>2. RunStatus(log.rows) = "ok" => AtEnd
    BY <1>3 DEF ListedInv, StatusTrue
  <2> QED
    BY <1>3, <2>1, <2>2, WaitingIsShown DEF ListedStatusIsTrue, AtEnd
<1> QED
  BY <1>1, <1>2, <1>3, PTL DEF Spec

-----------------------------------------------------------------------------
(* One process that is not killed, and a template without gates and judges. *)
(* Its notes are those of its ctx, and what it has saved is all it has.     *)

PlainRun ==
    /\ \A n \in Nodes : Plan[n].kind \in {"hook", "agent"}
    /\ MaxCrashes = 0
    /\ \E l : Legs = {l}

Mine == leg[TheLeg]

PlainInv ==
    /\ Mine.pc \in {"free", "preflight", "entering", "node", "working", "closing",
                    "leaving", "ended", "unbound", "collided"}
    /\ Mine.pc = "free" => log = NoLog
    /\ Mine.pc \notin {"closing", "leaving", "ended"} => Mine.closing = None
    /\ Mine.pc \in {"closing", "leaving"} => Mine.closing \in {"blocked", "failed"}
    /\ Mine.pc \in {"free", "preflight", "entering", "node"} => Mine.notes = Mine.ctx
    /\ Mine.pc = "working" => Mine.notes = SubSeq(Mine.ctx, 1, Mine.before)
    /\ Mine.pc = "node" /\ Mine.saved
            => thread.pool = Mine.pool /\ thread.notes = Mine.notes

LEMMA OnlyTheLeg ==
    ASSUME PlainRun
    PROVE  TheLeg \in Legs /\ \A l \in Legs : l = TheLeg
<1>1. PICK l : Legs = {l}
  BY DEF PlainRun
<1>2. \E k \in Legs : TRUE
  BY <1>1
<1>3. TheLeg \in Legs
  BY <1>2 DEF TheLeg
<1> QED
  BY <1>1, <1>3

LEMMA SameTerms ==
    /\ Sequential!Nodes = Nodes
    /\ Sequential!Declared <=> Declared
    /\ Sequential!Products = Products /\ Sequential!Done = Done
    /\ Sequential!NoLog = NoLog
    /\ \A node, pool : Sequential!Bound(node, pool) <=> Bound(node, pool)
    /\ \A supplied : Sequential!PoolOf(supplied) = PoolOf(supplied)
<1>1. Sequential!Nodes = Nodes
  BY DEF Sequential!Nodes, Nodes
<1>2. Sequential!Keys = Keys
  BY DEF Sequential!Keys, Keys, Sequential!Nodes, Nodes
<1>3. \A supplied : Sequential!PoolOf(supplied) = PoolOf(supplied)
  BY <1>2 DEF Sequential!PoolOf, PoolOf
<1> QED
  BY <1>1, <1>3 DEF Sequential!Declared, Declared, Sequential!Products, Products,
     Sequential!Done, Done, Sequential!NoLog, NoLog, Sequential!Bound, Bound

LEMMA SameRow ==
    ASSUME NEW step, NEW status
    PROVE  Sequential!Tell(step, status) <=> Tell(TheLeg, step, status)
  BY DEF Sequential!Tell, Tell, Sequential!Told, Told, Sequential!Row, Row

LEMMA PlainInitially ==
    ASSUME PlainRun
    PROVE  Init => PlainInv /\ Sequential!Init
<1> SUFFICES ASSUME Init
             PROVE  PlainInv /\ Sequential!Init
  OBVIOUS
<1>1. TheLeg \in Legs /\ Mine = Fresh
  BY OnlyTheLeg DEF Init, Mine
<1>2. /\ Mine.pc = "free" /\ Mine.pos = 1 /\ Mine.pool = PoolOf({})
      /\ Mine.notes = <<>> /\ Mine.ctx = <<>> /\ Mine.asks = 0 /\ Mine.closing = None
  BY <1>1 DEF Fresh
<1>3. PlainInv
  BY <1>2 DEF PlainInv, Init
<1>4. ThePc = "idle"
  BY <1>2 DEF ThePc, At, Mine
<1>5. TheClosing = None /\ TheResult = None
  BY <1>2 DEF TheClosing, TheResult, Mine, EventStatus, TERMINAL, Done
<1>6. log = NoLog /\ invoked = [n \in Nodes |-> 0]
  BY DEF Init
<1> QED
  BY <1>2, <1>3, <1>4, <1>5, <1>6, SameTerms DEF Sequential!Init, Mine

\* Where the sequential runner is while the process is anywhere in a plain run.
LEMMA PcFacts ==
    /\ Mine.pc = "free" => ThePc = "idle"
    /\ Mine.pc = "entering" => ThePc = "node"
    /\ Mine.pc = "leaving" => ThePc = "ended"
    /\ Mine.pc \in LegPc \ {"free", "entering", "leaving"} => ThePc = Mine.pc
    /\ Mine.closing # "ok" => TheClosing = Mine.closing /\ TheResult = None
    /\ Mine.closing = "ok" =>
            TheClosing = None
            /\ TheResult = [pool |-> thread.pool, notes |-> thread.notes]
  BY DEF ThePc, TheClosing, TheResult, At, Mine, LegPc

\* What it has besides, as the sequential runner knows it.
SameHeld ==
    /\ Mine'.pos = Mine.pos /\ Mine'.pool = Mine.pool /\ Mine'.ctx = Mine.ctx
    /\ Mine'.asks = Mine.asks

LEMMA PlainGoto ==
    ASSUME PlainRun, Typed, NEW pc, Goto(TheLeg, pc)
    PROVE  /\ SameHeld /\ Mine'.pc = pc /\ Mine'.closing = Mine.closing
           /\ Mine'.notes = Mine.notes /\ Mine'.saved = Mine.saved
           /\ Mine'.before = Mine.before
<1>1. leg \in [Legs -> LegRecord] /\ leg[TheLeg] \in LegRecord /\ TheLeg \in Legs
  BY OnlyTheLeg DEF Typed, LegsTyped
<1> QED
  BY <1>1 DEF Goto, LegRecord, SameHeld, Mine

LEMMA PlainToClose ==
    ASSUME PlainRun, Typed, NEW status, ToClose(TheLeg, status)
    PROVE  /\ SameHeld /\ Mine'.pc = "closing" /\ Mine'.closing = status
           /\ Mine'.notes = Mine.notes
<1>1. leg \in [Legs -> LegRecord] /\ leg[TheLeg] \in LegRecord /\ TheLeg \in Legs
  BY OnlyTheLeg DEF Typed, LegsTyped
<1> QED
  BY <1>1 DEF ToClose, LegRecord, SameHeld, Mine

\* The process moves on, and so does the sequential runner.
PlainStep == PlainInv' /\ (Sequential!Next \/ UNCHANGED Sequential!runnerVars)

LEMMA PlainStarts ==
    ASSUME PlainRun, Typed, PlainInv, NEW supplied \in SUBSET Params,
           Start(TheLeg, supplied)
    PROVE  PlainStep
<1>1. leg \in [Legs -> LegRecord] /\ leg[TheLeg] \in LegRecord /\ TheLeg \in Legs
  BY OnlyTheLeg DEF Typed, LegsTyped
<1>2. /\ Mine.pc = "free" /\ Tell(TheLeg, "run", "started")
      /\ UNCHANGED <<thread, invoked>>
  BY <1>1 DEF Start, At, Mine
<1>3. /\ Mine'.pc = "preflight" /\ Mine'.pool = PoolOf(supplied)
      /\ Mine'.pos = Mine.pos /\ Mine'.ctx = Mine.ctx /\ Mine'.asks = Mine.asks
      /\ Mine'.closing = Mine.closing /\ Mine'.notes = Mine.notes
  BY <1>1 DEF Start, LegRecord, Mine
<1>4. Mine.closing = None /\ Mine.notes = Mine.ctx
  BY <1>2 DEF PlainInv
<1>5. PlainInv'
  BY <1>3, <1>4 DEF PlainInv
<1>6. ThePc = "idle" /\ ThePc' = "preflight"
  BY <1>2, <1>3, PcFacts DEF LegPc, ThePc, At, Mine
<1>7. UNCHANGED <<TheClosing, TheResult>>
  BY <1>2, <1>3 DEF TheClosing, TheResult, Mine
<1>8. Sequential!Start(supplied)
  BY <1>2, <1>3, <1>6, <1>7, SameRow, SameTerms DEF Sequential!Start, Mine
<1> QED
  BY <1>5, <1>8 DEF PlainStep, Sequential!Next

LEMMA PlainPreflight ==
    ASSUME PlainRun, Typed, PlainInv, PreflightOk(TheLeg) \/ PreflightBlocked(TheLeg)
    PROVE  PlainStep
<1>1. Mine.pc = "preflight" /\ ThePc = "preflight" /\ UNCHANGED <<thread, invoked>>
  BY PcFacts DEF PreflightOk, PreflightBlocked, At, Mine, LegPc
<1>2. /\ Mine.closing = None /\ Mine.notes = Mine.ctx
      /\ Mine.closing # "ok" /\ TheClosing = None /\ TheResult = None
  BY <1>1, PcFacts DEF PlainInv, EventStatus, TERMINAL, Done
<1>3. CASE PreflightOk(TheLeg)
  <2>1. /\ SameHeld /\ Mine'.pc = "entering" /\ Mine'.closing = Mine.closing
        /\ Mine'.notes = Mine.notes
    BY <1>3, PlainGoto DEF PreflightOk
  <2>2. PlainInv'
    BY <1>2, <2>1 DEF PlainInv, SameHeld
  <2>3. ThePc' = "node"
    BY <2>1 DEF ThePc, At, Mine
  <2>4. UNCHANGED <<TheClosing, TheResult>>
    BY <1>1, <2>1 DEF TheClosing, TheResult, Mine
  <2>5. Sequential!PreflightOk
    BY <1>1, <1>3, <2>1, <2>3, <2>4, SameRow, SameTerms
       DEF Sequential!PreflightOk, PreflightOk, SameHeld, Mine
  <2> QED
    BY <2>2, <2>5 DEF PlainStep, Sequential!Next
<1>4. CASE PreflightBlocked(TheLeg)
  <2>1. SameHeld /\ Mine'.pc = "closing" /\ Mine'.closing = "blocked"
    BY <1>4, PlainToClose DEF PreflightBlocked
  <2>2. PlainInv'
    BY <2>1 DEF PlainInv
  <2>3. ThePc' = "closing" /\ TheClosing' = "blocked" /\ TheResult' = None
    BY <2>1 DEF ThePc, TheClosing, TheResult, At, Mine
  <2>4. Sequential!PreflightBlocked
    BY <1>1, <1>2, <1>4, <2>1, <2>3, SameRow
       DEF Sequential!PreflightBlocked, PreflightBlocked, SameHeld, Mine
  <2> QED
    BY <2>2, <2>4 DEF PlainStep, Sequential!Next
<1> QED
  BY <1>3, <1>4

\* What the sequential runner does not have: the start of the graph, and saves.
LEMMA PlainSaves ==
    ASSUME PlainRun, Typed, PlainInv, Enter(TheLeg) \/ Save(TheLeg)
    PROVE  PlainStep
<1>1. leg \in [Legs -> LegRecord] /\ leg[TheLeg] \in LegRecord /\ TheLeg \in Legs
  BY OnlyTheLeg DEF Typed, LegsTyped
<1>2. /\ SameHeld /\ Mine'.closing = Mine.closing /\ Mine'.notes = Mine.notes
      /\ Mine'.before = Mine.before
      /\ UNCHANGED <<log, invoked>>
  BY <1>1 DEF Enter, Save, LegRecord, Mine, SameHeld
<1>3. /\ Mine.pc \in {"entering", "node", "working", "closing", "leaving"}
      /\ Mine'.pc = IF Mine.pc = "entering" THEN "node" ELSE Mine.pc
      /\ Mine.pc = "entering" => ~Mine'.saved
      /\ Save(TheLeg) => thread'.pool = Mine.pool /\ thread'.notes = Mine.notes
  BY <1>1 DEF Enter, Save, LegRecord, Mine, At
<1>4. Mine.closing # "ok"
  BY <1>3 DEF PlainInv, EventStatus, TERMINAL, Done
<1>5. Enter(TheLeg) => Mine.pc = "entering"
  BY DEF Enter, At, Mine
<1>6. PlainInv'
  BY <1>2, <1>3, <1>5 DEF PlainInv, SameHeld
<1>7. ThePc' = ThePc
  BY <1>3 DEF ThePc, At, Mine
<1>8. UNCHANGED <<TheClosing, TheResult>>
  BY <1>2, <1>4 DEF TheClosing, TheResult, Mine
<1>9. UNCHANGED Sequential!runnerVars
  BY <1>2, <1>7, <1>8 DEF Sequential!runnerVars, SameHeld, Mine
<1> QED
  BY <1>6, <1>9 DEF PlainStep

LEMMA PlainBegins ==
    ASSUME PlainRun, Typed, PlainInv, StartStep(TheLeg) \/ RetryAgent(TheLeg)
    PROVE  PlainStep
<1>1. leg \in [Legs -> LegRecord] /\ leg[TheLeg] \in LegRecord /\ TheLeg \in Legs
  BY OnlyTheLeg DEF Typed, LegsTyped
<1>2. CASE StartStep(TheLeg)
  <2>1. /\ Mine.pc = "node" /\ Mine.pos \in Nodes /\ Bound(Plan[Mine.pos], Mine.pool)
        /\ Tell(TheLeg, Plan[Mine.pos].name, "started") /\ Called(TheLeg)
        /\ UNCHANGED thread
    BY <1>2 DEF StartStep, AtNode, At, Here, Begin, Mine
  <2>2. /\ Mine'.pc = "working" /\ Mine'.asks = 0 /\ Mine'.before = Len(Mine.ctx)
        /\ Mine'.pos = Mine.pos /\ Mine'.pool = Mine.pool /\ Mine'.ctx = Mine.ctx
        /\ Mine'.closing = Mine.closing /\ Mine'.notes = Mine.notes
    BY <1>1, <1>2 DEF StartStep, Begin, LegRecord, Mine
  <2>3. Mine.closing = None /\ Mine.notes = Mine.ctx /\ Mine.ctx \in Seq(Nodes)
    BY <1>1, <2>1 DEF PlainInv, Mine, LegRecord
  <2>4. SubSeq(Mine.ctx, 1, Len(Mine.ctx)) = Mine.ctx
    BY <2>3
  <2>5. PlainInv'
    BY <2>2, <2>3, <2>4 DEF PlainInv
  <2>6. ThePc = "node" /\ ThePc' = "working"
    BY <2>1, <2>2 DEF ThePc, At, Mine
  <2>7. UNCHANGED <<TheClosing, TheResult>>
    BY <2>1, <2>2 DEF TheClosing, TheResult, Mine
  <2>8. Sequential!StartStep
    BY <2>1, <2>2, <2>6, <2>7, SameRow, SameTerms
       DEF Sequential!StartStep, Sequential!Called, Called, Mine
  <2> QED
    BY <2>5, <2>8 DEF PlainStep, Sequential!Next
<1>3. CASE RetryAgent(TheLeg)
  <2>1. /\ Mine.pc = "working" /\ Plan[Mine.pos].kind = "agent" /\ Mine.asks = 0
        /\ Called(TheLeg) /\ UNCHANGED <<thread, log>>
    BY <1>3 DEF RetryAgent, Working, Again, At, Here, Mine
  <2>2. /\ Mine'.pc = "working" /\ Mine'.asks = 1 /\ Mine'.before = Mine.before
        /\ Mine'.pos = Mine.pos /\ Mine'.pool = Mine.pool
        /\ Mine'.ctx = Append(Mine.ctx, Mine.pos)
        /\ Mine'.closing = Mine.closing /\ Mine'.notes = Mine.notes
    BY <1>1, <1>3, <2>1 DEF RetryAgent, Again, Noted, LegRecord, Mine
  <2>3. /\ Mine.closing = None /\ Mine.notes = SubSeq(Mine.ctx, 1, Mine.before)
        /\ Mine.ctx \in Seq(Nodes) /\ Mine.before \in Nat /\ Mine.before <= Len(Mine.ctx)
        /\ Mine.pos \in Nodes
    BY <1>1, <2>1, PositionFacts DEF PlainInv, Mine, LegRecord, Typed, LegsTyped, Stands
  <2>4. SubSeq(Append(Mine.ctx, Mine.pos), 1, Mine.before) = SubSeq(Mine.ctx, 1, Mine.before)
    BY <2>3
  <2>5. PlainInv'
    BY <2>2, <2>3, <2>4 DEF PlainInv
  <2>6. ThePc = "working" /\ ThePc' = "working"
    BY <2>1, <2>2 DEF ThePc, At, Mine
  <2>7. UNCHANGED <<TheClosing, TheResult>>
    BY <2>1, <2>2 DEF TheClosing, TheResult, Mine
  <2>8. Sequential!RetryAgent
    BY <2>1, <2>2, <2>6, <2>7
       DEF Sequential!RetryAgent, Sequential!Called, Called, Mine
  <2> QED
    BY <2>5, <2>8 DEF PlainStep, Sequential!Next
<1> QED
  BY <1>2, <1>3

\* The notes a step adds to those of the graph make them the notes of its ctx.
LEMMA NotesCaughtUp ==
    ASSUME NEW ctx \in Seq(Nodes), NEW before \in Nat, before <= Len(ctx), NEW pos \in Nodes
    PROVE  SubSeq(ctx, 1, before)
                \o SubSeq(Append(ctx, pos), before + 1, Len(Append(ctx, pos)))
           = Append(ctx, pos)
<1>1. PICK all \in Seq(Nodes) : all = Append(ctx, pos)
  BY AppendProperties
<1>2. PICK n \in Nat : n = Len(ctx)
  OBVIOUS
<1>3. Len(all) = n + 1 /\ before <= n
  BY <1>1, <1>2
<1>4. SubSeq(ctx, 1, before) = SubSeq(all, 1, before)
  BY <1>1, <1>2, <1>3
<1>5. PICK first, rest : first = SubSeq(all, 1, before) /\ rest = SubSeq(all, before + 1, n + 1)
  OBVIOUS
<1>6. /\ first \in Seq(Nodes) /\ Len(first) = before
      /\ \A i \in 1 .. before : first[i] = all[i]
  BY <1>3, <1>5
<1>7. /\ rest \in Seq(Nodes) /\ Len(rest) = n + 1 - before
      /\ \A i \in 1 .. (n + 1 - before) : rest[i] = all[before + i]
  BY <1>3, <1>5
<1>8. Len(first \o rest) = n + 1 /\ first \o rest \in Seq(Nodes)
  <2>1. first \o rest \in Seq(Nodes) /\ Len(first \o rest) = Len(first) + Len(rest)
    BY <1>6, <1>7, ConcatProperties
  <2> QED
    BY <1>3, <1>6, <1>7, <2>1
<1>9. ASSUME NEW i \in 1 .. (n + 1)
      PROVE  (first \o rest)[i] = all[i]
  <2>1. CASE i <= before
    BY <1>6, <1>7, <2>1
  <2>2. CASE ~(i <= before)
    <3>1. i - before \in 1 .. (n + 1 - before) /\ before + (i - before) = i
      BY <1>3, <2>2
    <3>2. (first \o rest)[i] = rest[i - before]
      BY <1>3, <1>6, <1>7, <2>2
    <3> QED
      BY <1>7, <3>1, <3>2
  <2> QED
    BY <2>1, <2>2
<1>10. first \o rest = all
  BY <1>3, <1>8, <1>9, SeqEqual
<1> QED
  BY <1>1, <1>3, <1>4, <1>5, <1>10

LEMMA PlainSucceeds ==
    ASSUME PlainRun, Typed, PlainInv, NEW value \in Products, NEW status \in Done,
           Succeed(TheLeg, value, status)
    PROVE  PlainStep
<1> DEFINE notes == SubSeq(Noted(TheLeg), leg[TheLeg].before + 1, Len(Noted(TheLeg)))
           x == [leg[TheLeg] EXCEPT !.pc = "node", !.pos = leg[TheLeg].pos + 1,
                    !.saved = FALSE,
                    !.pool = Pooled(TheLeg, value),
                    !.ctx = Noted(TheLeg), !.notes = leg[TheLeg].notes \o notes,
                    !.resume = None]
<1>1. leg \in [Legs -> LegRecord] /\ leg[TheLeg] \in LegRecord /\ TheLeg \in Legs
  BY OnlyTheLeg DEF Typed, LegsTyped
<1>2. /\ Mine.pc = "working" /\ value \in Plan[Mine.pos].values
      /\ Tell(TheLeg, Plan[Mine.pos].name, status)
      /\ UNCHANGED <<thread, invoked>>
  BY DEF Succeed, Working, At, Here, Mine
<1>3. leg' = [leg EXCEPT ![TheLeg] = x]
  BY DEF Succeed, Returned, Merged
<1>4. /\ x.pc = "node" /\ x.pos = leg[TheLeg].pos + 1 /\ x.saved = FALSE
      /\ x.pool = Pooled(TheLeg, value) /\ x.ctx = Noted(TheLeg)
      /\ x.notes = leg[TheLeg].notes \o notes
      /\ x.asks = leg[TheLeg].asks /\ x.closing = leg[TheLeg].closing
  BY <1>1 DEF LegRecord
<1> HIDE DEF x
<1>5. Mine' = x
  BY <1>1, <1>3 DEF Mine
<1>6. /\ Mine.closing = None /\ Mine.notes = SubSeq(Mine.ctx, 1, Mine.before)
      /\ Mine.ctx \in Seq(Nodes) /\ Mine.before \in Nat /\ Mine.before <= Len(Mine.ctx)
      /\ Mine.pos \in Nodes
  BY <1>1, <1>2, PositionFacts DEF PlainInv, Mine, LegRecord, Typed, LegsTyped, Stands
<1>7. x.notes = x.ctx
  <2>1. SubSeq(Mine.ctx, 1, Mine.before)
            \o SubSeq(Append(Mine.ctx, Mine.pos), Mine.before + 1,
                      Len(Append(Mine.ctx, Mine.pos)))
        = Append(Mine.ctx, Mine.pos)
    BY <1>6, NotesCaughtUp
  <2>2. x.ctx = Append(Mine.ctx, Mine.pos)
    BY <1>4 DEF Noted, Mine
  <2>3. x.notes = Mine.notes \o SubSeq(Append(Mine.ctx, Mine.pos), Mine.before + 1,
                      Len(Append(Mine.ctx, Mine.pos)))
    BY <1>4 DEF Noted, Mine
  <2> QED
    BY <1>6, <2>1, <2>2, <2>3
<1>8. PlainInv'
  BY <1>4, <1>5, <1>6, <1>7 DEF PlainInv, Mine
<1>9. ThePc = "working" /\ ThePc' = "node"
  BY <1>2, <1>4, <1>5 DEF ThePc, At, Mine
<1>10. UNCHANGED <<TheClosing, TheResult>>
  BY <1>2, <1>4, <1>5 DEF TheClosing, TheResult, Mine
<1>11. /\ leg'[TheLeg].pool = [leg[TheLeg].pool EXCEPT ![Plan[leg[TheLeg].pos].produces] = value]
       /\ leg'[TheLeg].ctx = Append(leg[TheLeg].ctx, leg[TheLeg].pos)
       /\ leg'[TheLeg].pos = leg[TheLeg].pos + 1
       /\ leg'[TheLeg].asks = leg[TheLeg].asks
  BY <1>4, <1>5 DEF Pooled, Here, Noted, Mine
<1>12. Sequential!Succeed(value, status)
  BY <1>2, <1>9, <1>10, <1>11, SameRow DEF Sequential!Succeed, Mine
<1> QED
  BY <1>8, <1>12, SameTerms DEF PlainStep, Sequential!Next

LEMMA PlainFails ==
    ASSUME PlainRun, Typed, PlainInv,
           \/ Collide(TheLeg) \/ Unbound(TheLeg)
           \/ \E status \in {"blocked", "failed"} : Fail(TheLeg, status)
    PROVE  PlainStep
<1>1. /\ Mine.pc \in {"node", "working"} /\ ThePc = Mine.pc
      /\ UNCHANGED <<thread, invoked>>
  BY PcFacts DEF Collide, Unbound, Fail, Working, AtNode, At, Mine, LegPc
<1>2. Mine.closing = None /\ Mine.closing # "ok" /\ TheClosing = None /\ TheResult = None
  BY <1>1, PcFacts DEF PlainInv, EventStatus, TERMINAL, Done
<1>3. CASE Collide(TheLeg) \/ Unbound(TheLeg)
  <2>1. PICK pc \in {"collided", "unbound"} :
            /\ Goto(TheLeg, pc) /\ UNCHANGED log
            /\ \/ pc = "collided" /\ Collide(TheLeg)
               \/ pc = "unbound" /\ Unbound(TheLeg)
    BY <1>3 DEF Collide, Unbound
  <2>2. SameHeld /\ Mine'.pc = pc /\ Mine'.closing = Mine.closing
    BY <2>1, PlainGoto
  <2>3. PlainInv'
    BY <1>2, <2>2 DEF PlainInv
  <2>4. ThePc' = pc
    BY <2>2 DEF ThePc, At, Mine
  <2>5. UNCHANGED <<TheClosing, TheResult>>
    BY <1>1, <2>2 DEF TheClosing, TheResult, Mine
  <2>6. CASE pc = "collided" /\ Collide(TheLeg)
    <3>1. Sequential!Collide
      BY <1>1, <2>1, <2>2, <2>4, <2>5, <2>6
         DEF Sequential!Collide, Collide, Working, At, Here, SameHeld, Mine
    <3> QED
      BY <2>3, <3>1 DEF PlainStep, Sequential!Next
  <2>7. CASE pc = "unbound" /\ Unbound(TheLeg)
    <3>1. Sequential!Unbound
      BY <1>1, <2>1, <2>2, <2>4, <2>5, <2>7, SameTerms
         DEF Sequential!Unbound, Unbound, AtNode, At, Here, SameHeld, Mine
    <3> QED
      BY <2>3, <3>1 DEF PlainStep, Sequential!Next
  <2> QED
    BY <2>1, <2>6, <2>7
<1>4. ASSUME NEW status \in {"blocked", "failed"}, Fail(TheLeg, status)
      PROVE  PlainStep
  <2>1. SameHeld /\ Mine'.pc = "closing" /\ Mine'.closing = status
    BY <1>4, PlainToClose DEF Fail
  <2>2. PlainInv'
    BY <2>1 DEF PlainInv
  <2>3. ThePc' = "closing" /\ TheClosing' = status /\ TheResult' = None
    BY <2>1 DEF ThePc, TheClosing, TheResult, At, Mine
  <2>4. Sequential!Fail(status)
    BY <1>1, <1>2, <1>4, <2>1, <2>3, SameRow
       DEF Sequential!Fail, Fail, Working, At, Here, SameHeld, Mine
  <2> QED
    BY <2>2, <2>4 DEF PlainStep, Sequential!Next
<1> QED
  BY <1>3, <1>4

LEMMA PlainEnds ==
    ASSUME PlainRun, Typed, PlainInv, Close(TheLeg) \/ Leave(TheLeg) \/ Finish(TheLeg)
    PROVE  PlainStep
<1>1. leg \in [Legs -> LegRecord] /\ leg[TheLeg] \in LegRecord /\ TheLeg \in Legs
  BY OnlyTheLeg DEF Typed, LegsTyped
<1>2. CASE Close(TheLeg)
  <2>1. /\ Mine.pc = "closing" /\ Mine.closing \in {"blocked", "failed"}
        /\ Tell(TheLeg, "run", Mine.closing) /\ UNCHANGED <<thread, invoked>>
    BY <1>2 DEF Close, At, Mine, PlainInv
  <2>2. SameHeld /\ Mine'.pc \in {"ended", "leaving"} /\ Mine'.closing = Mine.closing
    BY <1>2, PlainGoto DEF Close
  <2>3. PlainInv'
    BY <2>1, <2>2 DEF PlainInv
  <2>4. ThePc = "closing" /\ ThePc' = "ended" /\ TheClosing = Mine.closing
    BY <2>1, <2>2 DEF ThePc, TheClosing, At, Mine
  <2>5. UNCHANGED <<TheClosing, TheResult>>
    BY <2>1, <2>2 DEF TheClosing, TheResult, Mine
  <2>6. Sequential!Close
    BY <2>1, <2>2, <2>4, <2>5, SameRow DEF Sequential!Close, SameHeld, Mine
  <2> QED
    BY <2>3, <2>6 DEF PlainStep, Sequential!Next
<1>3. CASE Finish(TheLeg)
  <2>1. /\ Mine.pc = "node" /\ Mine.pos = Len(Plan) + 1 /\ Mine.saved
        /\ Tell(TheLeg, "run", "ok") /\ UNCHANGED <<thread, invoked>>
    BY <1>3 DEF Finish, At, Mine
  <2>2. SameHeld /\ Mine'.pc = "ended" /\ Mine'.closing = "ok"
    BY <1>1, <1>3 DEF Finish, LegRecord, SameHeld, Mine
  <2>3. /\ Mine.closing = None /\ Mine.closing # "ok" /\ Mine.notes = Mine.ctx
        /\ thread.pool = Mine.pool /\ thread.notes = Mine.notes
    BY <2>1 DEF PlainInv, EventStatus, TERMINAL, Done
  <2>4. PlainInv'
    BY <2>2 DEF PlainInv
  <2>5. ThePc = "node" /\ ThePc' = "ended"
    BY <2>1, <2>2 DEF ThePc, At, Mine
  <2>6. /\ TheClosing = None /\ TheClosing' = None
        /\ TheResult' = [pool |-> Mine.pool, notes |-> Mine.ctx]
    BY <2>1, <2>2, <2>3 DEF TheClosing, TheResult, Mine
  <2>7. Sequential!Finish
    BY <2>1, <2>2, <2>5, <2>6, SameRow DEF Sequential!Finish, SameHeld, Mine
  <2> QED
    BY <2>4, <2>7 DEF PlainStep, Sequential!Next
<1>4. CASE Leave(TheLeg)
  <2>1. Mine.pc = "leaving" /\ UNCHANGED <<thread, log, invoked>>
    BY <1>4 DEF Leave, At, Mine
  <2>2. SameHeld /\ Mine'.pc = "ended" /\ Mine'.closing = Mine.closing
    BY <1>4, PlainGoto DEF Leave
  <2>3. PlainInv'
    BY <2>2 DEF PlainInv
  <2>4. UNCHANGED <<ThePc, TheClosing, TheResult>>
    BY <2>1, <2>2 DEF ThePc, TheClosing, TheResult, At, Mine
  <2>5. UNCHANGED Sequential!runnerVars
    BY <2>1, <2>2, <2>4 DEF Sequential!runnerVars, SameHeld, Mine
  <2> QED
    BY <2>3, <2>5 DEF PlainStep
<1> QED
  BY <1>2, <1>3, <1>4

LEMMA PlainInductive ==
    ASSUME PlainRun, Typed, PlainInv, [Next]_graphVars
    PROVE  PlainStep
<1>1. /\ TheLeg \in Legs /\ \A l \in Legs : l = TheLeg
      /\ Mine.pc \notin Stopped \/ Mine.pc \in {"free", "ended", "unbound", "collided"}
  BY OnlyTheLeg DEF PlainInv, Stopped
<1>2. Mine.pos \in Nodes => Plan[Mine.pos].kind \notin {"gate", "judge"}
  BY DEF PlainRun
<1>3. Mine.pc = "working" => Mine.pos \in Nodes
  BY <1>1, PositionFacts DEF Mine, Typed
<1>4. ~\E v \in Verdicts : Decide(TheLeg, v)
  BY DEF Decide, At, PlainInv, Mine
<1>5. ~Load(TheLeg) /\ ~Strand(TheLeg) /\ ~TellPause(TheLeg)
  BY DEF PlainInv, Load, Loaded, Strand, TellPause, At, Mine
<1>6. ~SkipGate(TheLeg) /\ ~PassGate(TheLeg) /\ ~Interrupt(TheLeg) /\ ~StartJudge(TheLeg)
  BY <1>2 DEF SkipGate, PassGate, Interrupt, StartJudge, AtNode, Here, Mine
<1>7. /\ ~AskAgain(TheLeg) /\ ~JudgeBlind(TheLeg) /\ ~JudgePass(TheLeg)
      /\ \A verdict : ~JudgeWarn(TheLeg, verdict) /\ ~JudgeBlock(TheLeg, verdict)
  BY <1>2, <1>3 DEF AskAgain, JudgeBlind, JudgePass, JudgeWarn, JudgeBlock, Judged,
     Working, At, Here, Mine
<1>8. ~Crash(TheLeg) /\ ~CutFirst
  BY DEF Crash, CutFirst, Typed, GraphTypeOK, PlainRun
<1>9. CASE UNCHANGED graphVars
  <2>1. PlainInv'
    BY <1>9 DEF graphVars, PlainInv, Mine
  <2>2. UNCHANGED Sequential!runnerVars
    BY <1>9 DEF graphVars, Sequential!runnerVars, ThePc, TheClosing, TheResult, At
  <2> QED
    BY <2>1, <2>2 DEF PlainStep
<1> QED
  BY <1>1, <1>4, <1>5, <1>6, <1>7, <1>8, <1>9, PlainStarts, PlainPreflight, PlainSaves,
     PlainBegins, PlainSucceeds, PlainFails, PlainEnds DEF Next, LegStep

\* A template without gates and judges, in one process that is not killed: the
\* graph runner writes the rows, makes the calls and returns the pool and the notes
\* of the sequential runner, step by step (sdk/graph.py:1-30, sdk/runner.py).
THEOREM GraphRunnerIsSequential ==
    ASSUME PlainRun
    PROVE  Spec => SameAsSequential
<1>1. Init => Typed /\ PlainInv /\ Sequential!Init
  BY TypeInitially, PlainInitially
<1>2. Typed /\ PlainInv /\ [Next]_graphVars
        => (Typed /\ PlainInv)' /\ [Sequential!Next]_Sequential!runnerVars
  BY TypeInductive, PlainInductive DEF PlainStep
<1> QED
  BY <1>1, <1>2, PTL DEF Spec, SameAsSequential, Sequential!Spec
=============================================================================
