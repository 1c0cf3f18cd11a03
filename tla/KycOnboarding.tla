---------------------------- MODULE KycOnboarding ----------------------------
(***************************************************************************)
(* The reference template of the SDK (workflows/kyc/templates): screening  *)
(* a client and assigning a tier, with two agents, two gates, and files    *)
(* that change while a run waits for a person.                             *)
(*                                                                         *)
(* The run is that of TemplateGraph, seen from its states: a process works *)
(* on one, and saves it in the background as the checkpoint of the run.  A *)
(* step reads the files and adds its product to the pool; a step that      *)
(* fails or declines ends the process, and so does a gate that pauses or a *)
(* kill.  A decision starts another process from the checkpoint, whatever  *)
(* ended the last one, and whether or not it has ended.                    *)
(***************************************************************************)
EXTENDS Naturals, Sequences

CONSTANTS
    Countries,
    Clients,        \* what clients.json may say of the client
    Interests,      \* client_business_interests.json
    Holdings,       \* client_financials.json and client_assets.json
    Lists,          \* the reference lists, as far as they concern the client
    Findings,       \* what the adjudicator may say of an article
    Verdicts,       \* what a person may answer at a gate
    MaxEdits,       \* times a file is edited
    MaxProcesses,   \* the one that started the run, and one for each decision
    Hasty,          \* those that may begin while another works on the run
    None

Effects == {"clear", "review", "decline"}

\* Money is in thousands.
CONTROLLING_STAKE_PCT == 25
PREMIUM_INCOME_EUR == 120
PREMIUM_SAVINGS_EUR == 100
HNWI_MINIMUM_EUR == 2000
UHNWI_MINIMUM_EUR == 10000

ASSUME FilesAreFiles ==
    /\ Clients \subseteq [listed : BOOLEAN, country : Countries \cup {None},
                          residency : Countries \cup {None}, mayReside : BOOLEAN]
    /\ Interests \subseteq Seq([stake : Nat, country : Countries])
    /\ Holdings \subseteq [income : Nat, savings : Nat, investable : Nat, liquid : Nat,
                           art : Nat, crypto : Nat, hasArt : BOOLEAN]
    /\ Lists \subseteq [pep : BOOLEAN, designated : BOOLEAN, effect : [Countries -> Effects]]
    /\ Findings \subseteq [role : STRING, implicates : BOOLEAN]

ASSUME BoundsAreCounts ==
    MaxEdits \in Nat /\ MaxProcesses \in Nat \ {0} /\ Hasty \subseteq 1 .. MaxProcesses

ASSUME NoneIsNothing == None \notin Countries /\ None \notin Verdicts

Files == [clients : Clients, interests : Interests, holdings : Holdings, lists : Lists]

Pipeline == <<"load_client", "validate_jurisdiction", "extract_entities",
              "adjudicate_media", "pep_check", "pep_gate", "sanctions_check",
              "compute_eligibility", "art_gate", "emit_outcome">>

Produces == <<"client", "jurisdiction", "mentions", "adverse_media", "pep",
              "pep_decision", "sanctions", "eligibility", "art_decision", "outcome">>

Keys == {Produces[i] : i \in DOMAIN Produces}

\* In the order in which they begin.
Processes == 1 .. MaxProcesses

VARIABLES
    files,          \* what the files say now
    edits,
    process,        \* process -> what it works on
    thread,         \* the latest checkpoint of the run
    shown,          \* gate -> what a reviewer was shown last
    given,          \* process -> the verdict it was started with
    alone           \* no decision was taken yet while a process worked on the run

kycVars == <<files, edits, process, thread, shown, given, alone>>

\* What each step leaves in the pool.
Tiers == {"ineligible", "premium", "private_banking_hnwi", "private_banking_uhnwi"}
Sanctions == [country : Countries, basis : {"stake", "residency"}, effect : Effects]
Eligibility == [tier : Tiers, has_art : BOOLEAN]
Answered == Verdicts \cup {"not_required"}

Products == [
    client |-> Clients, jurisdiction |-> Countries, mentions |-> BOOLEAN,
    adverse_media |-> SUBSET Findings, pep |-> BOOLEAN, pep_decision |-> Answered,
    sanctions |-> Sanctions, eligibility |-> Eligibility, art_decision |-> Answered,
    outcome |-> [tier : Tiers, implicating : SUBSET Findings, reviewed : SUBSET Findings,
                 is_pep : BOOLEAN, sanctions_country : Countries,
                 sanctions_basis : {"stake", "residency"},
                 pep_gate : Answered, art_gate : Answered]]

\* A state of the run; at: the step to execute.
Blank == [at |-> 1, pool |-> [k \in Keys |-> None]]

\* saved: the process has nothing to save.  However a process ended, a later one finds
\* nothing of it but the checkpoint.
Working(state, saved) == [status |-> "running", state |-> state, saved |-> saved]
Idle == [status |-> "idle", state |-> Blank, saved |-> TRUE]
Ended == [status |-> "ended", state |-> Blank, saved |-> TRUE]

Running(p) == process[p].status = "running"
Pool(p) == process[p].state.pool

States == {thread} \cup {process[p].state : p \in Processes}

StateOK(s) ==
    /\ s.at \in 1 .. (Len(Pipeline) + 1)
    /\ DOMAIN s.pool = Keys
    /\ \A i \in DOMAIN Produces :
            s.pool[Produces[i]] \in IF i < s.at THEN Products[Produces[i]] ELSE {None}

KycTypeOK ==
    /\ files \in Files
    /\ edits \in 0 .. MaxEdits
    /\ DOMAIN process = Processes
    /\ \A p \in Processes :
            \/ process[p] = Idle /\ given[p] = None
            \/ process[p] = Ended
            \/ \E saved \in BOOLEAN : process[p] = Working(process[p].state, saved)
    /\ \A s \in States : StateOK(s)
    /\ DOMAIN shown = {"pep_gate", "art_gate"}
    /\ shown["pep_gate"] \in {None} \cup
            [client : Clients, pep : BOOLEAN, adverse_media : SUBSET Findings]
    /\ shown["art_gate"] \in {None} \cup [client : Clients, eligibility : Eligibility]
    /\ given \in [Processes -> Verdicts \cup {None}]
    /\ alone \in BOOLEAN

\* The first process has saved its input.
Init ==
    /\ files \in Files
    /\ edits = 0
    /\ process = [p \in Processes |-> IF p = 1 THEN Working(Blank, TRUE) ELSE Idle]
    /\ thread = Blank
    /\ shown = [g \in {"pep_gate", "art_gate"} |-> None]
    /\ given = [p \in Processes |-> None]
    /\ alone = TRUE

-----------------------------------------------------------------------------
(* The rules *)

Least(a, b) == IF a <= b THEN a ELSE b

Controlling(interests) ==
    {i \in DOMAIN interests : interests[i].stake >= CONTROLLING_STAKE_PCT}

First(interests) ==
    interests[CHOOSE i \in Controlling(interests) : \A j \in Controlling(interests) : i <= j]

Residency(client) == IF client.residency # None THEN client.residency ELSE client.country

\* Mutant of Jurisdiction: residency before stakes.
ResidencyFirst(client, interests) ==
    IF Residency(client) # None
    THEN [country |-> Residency(client), basis |-> "residency"]
    ELSE [country |-> First(interests).country, basis |-> "stake"]

\* The first controlling stake, else the residency, decides the country.
Jurisdiction(client, interests) ==
    IF Controlling(interests) # {}
    THEN [country |-> First(interests).country, basis |-> "stake"]
    ELSE [country |-> Residency(client), basis |-> "residency"]

Conventional(h) == h.investable + h.liquid
Alternative(h) == h.art + h.crypto

\* Mutant of TwiceQualifying: past half the portfolio nothing of it counts.
TwiceQualifyingOrNothing(h) ==
    IF 2 * Alternative(h) > Conventional(h) + Alternative(h)
    THEN 2 * Conventional(h)
    ELSE 2 * (Conventional(h) + Alternative(h))

\* Twice uhnwi_qualifying, which is a half of an integer: of art and crypto no more
\* counts than UHNWI_MAX_ALTERNATIVE_SHARE, a half, of the whole portfolio.
TwiceQualifying(h) ==
    2 * Conventional(h) + Least(2 * Alternative(h), Conventional(h) + Alternative(h))

PremiumResident(client) == client.country = "DE" /\ client.mayReside
PremiumMeans(h) == h.income >= PREMIUM_INCOME_EUR \/ h.savings >= PREMIUM_SAVINGS_EUR

Tier(client, h) ==
    IF TwiceQualifying(h) >= 2 * UHNWI_MINIMUM_EUR THEN "private_banking_uhnwi"
    ELSE IF Conventional(h) >= HNWI_MINIMUM_EUR THEN "private_banking_hnwi"
    ELSE IF PremiumResident(client) /\ PremiumMeans(h) THEN "premium"
    ELSE "ineligible"

\* What the model says of the subject is counted; the role it gives, and
\* NON_IMPLICATING, are not consulted.
Implicating(findings) == {f \in findings : f.implicates}

-----------------------------------------------------------------------------
(* The steps *)

StandsAt(state, name) == state.at \in DOMAIN Pipeline /\ Pipeline[state.at] = name
At(p, name) == Running(p) /\ StandsAt(process[p].state, name)

After(state, value) ==
    [at |-> state.at + 1, pool |-> [state.pool EXCEPT ![Produces[state.at]] = value]]

Produce(p, value) ==
    /\ process' = [process EXCEPT ![p] = Working(After(@.state, value), FALSE)]
    /\ UNCHANGED <<files, edits, thread, shown, given, alone>>

\* The background save.
Save(p) ==
    /\ Running(p) /\ ~process[p].saved
    /\ thread' = process[p].state
    /\ process' = [process EXCEPT ![p] = Working(@.state, TRUE)]
    /\ UNCHANGED <<files, edits, shown, given, alone>>

\* The process waits for its saves before it ends.
End(p) ==
    /\ process[p].saved
    /\ process' = [process EXCEPT ![p] = Ended]
    /\ UNCHANGED <<files, edits, thread, shown, given, alone>>

\* ctx.require
Require(p, condition, value) == IF condition THEN Produce(p, value) ELSE End(p)

LoadClient(p) == At(p, "load_client") /\ Require(p, files.clients.listed, files.clients)

ValidateJurisdiction(p) ==
    /\ At(p, "validate_jurisdiction")
    /\ Require(p, Pool(p)["client"].country # None, Pool(p)["client"].country)

\* Whether an article names the client; an answer that cannot be read names nobody.
ExtractEntities(p) == At(p, "extract_entities") /\ \E named \in BOOLEAN : Produce(p, named)

AdjudicateMedia(p) ==
    /\ At(p, "adjudicate_media")
    /\ IF Pool(p)["mentions"]
       THEN \E found \in SUBSET Findings : Produce(p, found)
       ELSE Produce(p, {})

AgentFails(p) == (At(p, "extract_entities") \/ At(p, "adjudicate_media")) /\ End(p)

PepCheck(p) == At(p, "pep_check") /\ Produce(p, files.lists.pep)

\* Without a country the step fails, and it refuses for the country or the list.
SanctionsCheck(p) ==
    /\ At(p, "sanctions_check")
    /\ LET where == Jurisdiction(Pool(p)["client"], files.interests) IN
        IF \/ where.country = None
           \/ files.lists.effect[where.country] = "decline" \/ files.lists.designated
        THEN End(p)
        ELSE Produce(p, [country |-> where.country, basis |-> where.basis,
                         effect |-> files.lists.effect[where.country]])

ComputeEligibility(p) ==
    /\ At(p, "compute_eligibility")
    /\ Produce(p, [tier |-> Tier(Pool(p)["client"], files.holdings),
                    has_art |-> files.holdings.hasArt])

Outcome(pool, tier) ==
    [tier |-> tier,
     implicating |-> Implicating(pool["adverse_media"]),
     reviewed |-> pool["adverse_media"],
     is_pep |-> pool["pep"],
     sanctions_country |-> pool["sanctions"].country,
     sanctions_basis |-> pool["sanctions"].basis,
     pep_gate |-> pool["pep_decision"],
     art_gate |-> pool["art_decision"]]

\* Mutant of EmitOutcome: the tier is computed again.
EmitFresh(p) ==
    /\ At(p, "emit_outcome")
    /\ Produce(p, Outcome(Pool(p), Tier(Pool(p)["client"], files.holdings)))

EmitOutcome(p) ==
    /\ At(p, "emit_outcome")
    /\ Produce(p, Outcome(Pool(p), Pool(p)["eligibility"].tier))

Finish(p) == Running(p) /\ process[p].state.at = Len(Pipeline) + 1 /\ End(p)

-----------------------------------------------------------------------------
(* The gates, and what begins and ends a process *)

Gates == {"pep_gate", "art_gate"}

\* Mutant of Material: art matters at the highest tier only.
MaterialByTier(gate, pool) ==
    IF gate = "pep_gate" THEN pool["pep"]
    ELSE pool["eligibility"].tier = "private_banking_uhnwi"

\* The conditions pep.is_pep and eligibility.has_art.
Material(gate, pool) ==
    IF gate = "pep_gate" THEN pool["pep"] ELSE pool["eligibility"].has_art

\* The kwargs of the gate.
Payload(gate, pool) ==
    IF gate = "pep_gate"
    THEN [client |-> pool["client"], pep |-> pool["pep"],
          adverse_media |-> pool["adverse_media"]]
    ELSE [client |-> pool["client"], eligibility |-> pool["eligibility"]]

SkipGate(p, gate) ==
    At(p, gate) /\ ~Material(gate, Pool(p)) /\ Produce(p, "not_required")

Pause(p, gate) ==
    /\ At(p, gate) /\ Material(gate, Pool(p))
    /\ process[p].saved
    /\ process' = [process EXCEPT ![p] = Ended]
    /\ shown' = [shown EXCEPT ![gate] = Payload(gate, Pool(p))]
    /\ UNCHANGED <<files, edits, thread, given, alone>>

Kill(p) ==
    /\ Running(p)
    /\ process' = [process EXCEPT ![p] = Ended]
    /\ UNCHANGED <<files, edits, thread, shown, given, alone>>

Asks(gate) == StandsAt(thread, gate) /\ Material(gate, thread.pool)

Unattended == \A p \in Processes : ~Running(p)

\* `decide` asks nothing about the run, not even whether a process works on it (Hasty
\* bounds how many do).  A verdict is for the gate the checkpoint stands at, shown or
\* not; elsewhere the step is executed again.
Decide(p, v) ==
    /\ process[p] = Idle /\ \A q \in 1 .. (p - 1) : process[q] # Idle
    /\ Unattended \/ p \in Hasty
    /\ given' = [given EXCEPT ![p] = v]
    /\ alone' = (alone /\ Unattended)
    /\ process' = [process EXCEPT ![p] =
            IF \E gate \in Gates : Asks(gate)
            THEN Working(After(thread, v), FALSE) ELSE Working(thread, TRUE)]
    /\ UNCHANGED <<files, edits, thread, shown>>

\* Somebody saves another version of one of the files.
Edit ==
    /\ edits < MaxEdits
    /\ edits' = edits + 1
    /\ \/ \E c \in Clients : files' = [files EXCEPT !.clients = c]
       \/ \E i \in Interests : files' = [files EXCEPT !.interests = i]
       \/ \E h \in Holdings : files' = [files EXCEPT !.holdings = h]
       \/ \E l \in Lists : files' = [files EXCEPT !.lists = l]
    /\ UNCHANGED <<process, thread, shown, given, alone>>

Next ==
    \/ \E p \in Processes :
        \/ LoadClient(p)
        \/ ValidateJurisdiction(p)
        \/ ExtractEntities(p)
        \/ AdjudicateMedia(p)
        \/ AgentFails(p)
        \/ PepCheck(p)
        \/ SanctionsCheck(p)
        \/ ComputeEligibility(p)
        \/ EmitOutcome(p)
        \/ Finish(p)
        \/ \E gate \in Gates : SkipGate(p, gate) \/ Pause(p, gate)
        \/ Save(p)
        \/ Kill(p)
        \/ \E v \in Verdicts : Decide(p, v)
    \/ Edit

Spec == Init /\ [][Next]_kycVars

-----------------------------------------------------------------------------
(* Properties *)

\* Who is refused for one and the same reason for as long as the run takes is never
\* even given a tier, in no process and no checkpoint, whatever is killed, edited, and
\* decided however often or at once: "a record nobody should be holding"
\* (DESIGN.md:80-82).  The reasons: not on file; no country; designated; the first
\* controlling stake, or without one the residency, is in a country that declines.
FirstStakeDeclines ==
    \E i \in DOMAIN files.interests :
        /\ files.interests[i].stake >= 25
        /\ files.lists.effect[files.interests[i].country] = "decline"
        /\ \A j \in 1 .. (i - 1) : files.interests[j].stake < 25

ResidentInDeclining(c) ==
    /\ \A i \in DOMAIN files.interests : files.interests[i].stake < 25
    /\ files.clients.residency = c
    /\ files.lists.effect[c] = "decline"

NoTier == \A s \in States : s.pool["eligibility"] = None

RefusedHaveNoTier ==
    /\ []~files.clients.listed => []NoTier
    /\ [](files.clients.country = None) => []NoTier
    /\ []files.lists.designated => []NoTier
    /\ []FirstStakeDeclines => []NoTier
    /\ \A c \in Countries : []ResidentInDeclining(c) => []NoTier

\* A match is a person's decision: who is a PEP, or owns art, for as long as the run
\* takes gets no outcome without a verdict of its own for each of the two, although
\* several people may decide at once (kyc_onboarding.py:336-390).
DecidedByHand(pool, keys) ==
    \E own \in [keys -> Processes] :
        /\ \A k \in keys : pool[k] \in Verdicts /\ pool[k] = given[own[k]]
        /\ \A k, l \in keys : own[k] = own[l] => k = l

OutcomesAreDecided(keys) ==
    \A s \in States : s.pool["outcome"] # None => DecidedByHand(s.pool, keys)

MatchesAreDecided ==
    /\ []files.lists.pep => []OutcomesAreDecided({"pep_decision"})
    /\ []files.holdings.hasArt => []OutcomesAreDecided({"art_decision"})
    /\ []files.lists.pep /\ []files.holdings.hasArt
            => []OutcomesAreDecided({"pep_decision", "art_decision"})

\* The outcome reports what the reviewers were shown, although the agents answer
\* differently each time and the files change while a run waits.  It need not once a
\* decision was taken while a process worked on the run: of two processes one may show
\* a match the other never saw.
OutcomeIsWhatWasShown ==
    alone => \A s \in States : s.pool["outcome"] # None =>
        /\ shown["pep_gate"] # None =>
                /\ s.pool["outcome"].is_pep
                /\ s.pool["outcome"].implicating
                        = Implicating(shown["pep_gate"].adverse_media)
        /\ shown["art_gate"] # None =>
                s.pool["outcome"].tier = shown["art_gate"].eligibility.tier

\* Owning more never lowers the tier (DESIGN.md, 3.2).
Rank == [ineligible |-> 0, premium |-> 1, private_banking_hnwi |-> 2,
         private_banking_uhnwi |-> 3]

OwnsMore(g, h) == \A key \in DOMAIN h \ {"hasArt"} : g[key] >= h[key]

RicherIsNotLower ==
    \A h \in Holdings : OwnsMore(h, files.holdings) =>
        Rank[Tier(files.clients, h)] >= Rank[Tier(files.clients, files.holdings)]
=============================================================================
