-------------------------- MODULE KycOnboardingProofs --------------------------
(***************************************************************************)
(* The KYC template for every client, every content of its files, any      *)
(* number of edits and decisions, whoever else works on the run, and kills *)
(* between any two checkpoints.                                            *)
(***************************************************************************)
EXTENDS KycOnboarding, TLAPS, SequenceTheorems, WellFoundedInduction

USE FilesAreFiles, BoundsAreCounts, NoneIsNothing

-----------------------------------------------------------------------------
(* The pipeline *)

LEMMA TenSteps == Len(Pipeline) = 10 /\ DOMAIN Pipeline = 1 .. 10 /\ DOMAIN Produces = 1 .. 10
BY DEF Pipeline, Produces

\* Every key has one step.
LEMMA KeysDiffer == \A i, j \in 1 .. 10 : Produces[i] = Produces[j] => i = j
<1> SUFFICES ASSUME NEW i \in 1 .. 10, NEW j \in 1 .. 10, Produces[i] = Produces[j]
             PROVE  i = j
  OBVIOUS
<1>1. i \in {1, 2, 3, 4, 5, 6, 7, 8, 9, 10} /\ j \in {1, 2, 3, 4, 5, 6, 7, 8, 9, 10}
  OBVIOUS
<1> QED
  BY <1>1 DEF Produces

LEMMA KeysAreProduced == Keys = {Produces[i] : i \in 1 .. 10}
BY TenSteps DEF Keys

LEMMA KeysByPlace ==
    /\ Produces[1] = "client" /\ Produces[2] = "jurisdiction" /\ Produces[3] = "mentions"
    /\ Produces[4] = "adverse_media" /\ Produces[5] = "pep"
    /\ Produces[6] = "pep_decision" /\ Produces[7] = "sanctions"
    /\ Produces[8] = "eligibility" /\ Produces[9] = "art_decision"
    /\ Produces[10] = "outcome"
BY DEF Produces

LEMMA StepsByPlace ==
    /\ Pipeline[1] = "load_client" /\ Pipeline[2] = "validate_jurisdiction"
    /\ Pipeline[3] = "extract_entities" /\ Pipeline[4] = "adjudicate_media"
    /\ Pipeline[5] = "pep_check" /\ Pipeline[6] = "pep_gate"
    /\ Pipeline[7] = "sanctions_check" /\ Pipeline[8] = "compute_eligibility"
    /\ Pipeline[9] = "art_gate" /\ Pipeline[10] = "emit_outcome"
BY DEF Pipeline

\* A state is at one step.
LEMMA PlaceOfStep ==
    ASSUME NEW s, s.at \in 1 .. 11, NEW i \in 1 .. 10, StandsAt(s, Pipeline[i])
    PROVE  s.at = i
<1>1. s.at \in 1 .. 10 /\ Pipeline[s.at] = Pipeline[i]
  BY TenSteps DEF StandsAt
<1>2. s.at \in {1, 2, 3, 4, 5, 6, 7, 8, 9, 10} /\ i \in {1, 2, 3, 4, 5, 6, 7, 8, 9, 10}
  BY <1>1
<1> QED
  BY <1>1, <1>2, StepsByPlace

LEMMA PlaceOfGate ==
    ASSUME NEW s, s.at \in 1 .. 11, NEW gate \in Gates, StandsAt(s, gate)
    PROVE  \/ s.at = 6 /\ gate = "pep_gate"
           \/ s.at = 9 /\ gate = "art_gate"
<1>1. CASE gate = "pep_gate"
  BY <1>1, StepsByPlace, PlaceOfStep
<1>2. CASE gate = "art_gate"
  BY <1>2, StepsByPlace, PlaceOfStep
<1> QED
  BY <1>1, <1>2 DEF Gates

LEMMA StateByPlace ==
    ASSUME NEW s, StateOK(s)
    PROVE  /\ s.at \in 1 .. 11
           /\ DOMAIN s.pool = Keys
           /\ \A i \in 1 .. 10 :
                s.pool[Produces[i]] \in IF i < s.at THEN Products[Produces[i]] ELSE {None}
BY TenSteps DEF StateOK

LEMMA StateFromPlace ==
    ASSUME NEW s, s.at \in 1 .. 11, DOMAIN s.pool = Keys,
           \A i \in 1 .. 10 :
                s.pool[Produces[i]] \in IF i < s.at THEN Products[Produces[i]] ELSE {None}
    PROVE  StateOK(s)
BY TenSteps DEF StateOK

\* What is in the pool has the type of its key; what is not yet produced is not there.
LEMMA PoolByKey ==
    ASSUME NEW s, StateOK(s)
    PROVE  /\ s.at > 1 => s.pool["client"] \in Clients
           /\ s.at > 4 => s.pool["adverse_media"] \in SUBSET Findings
           /\ s.at > 5 => s.pool["pep"] \in BOOLEAN
           /\ s.at > 6 => s.pool["pep_decision"] \in Answered
           /\ s.at > 7 => s.pool["sanctions"] \in Sanctions
           /\ s.at > 8 => s.pool["eligibility"] \in Eligibility
           /\ s.at > 9 => s.pool["art_decision"] \in Answered
           /\ s.at <= 8 => s.pool["eligibility"] = None
           /\ s.at <= 10 => s.pool["outcome"] = None
           /\ s.at \in 1 .. 11
<1>1. s.at \in 1 .. 11
  BY StateByPlace
<1>2. \A i \in 1 .. 10 :
        s.pool[Produces[i]] \in IF i < s.at THEN Products[Produces[i]] ELSE {None}
  BY StateByPlace
<1>3. /\ s.pool["client"] \in IF 1 < s.at THEN Clients ELSE {None}
      /\ s.pool["adverse_media"] \in IF 4 < s.at THEN SUBSET Findings ELSE {None}
      /\ s.pool["pep"] \in IF 5 < s.at THEN BOOLEAN ELSE {None}
      /\ s.pool["pep_decision"] \in IF 6 < s.at THEN Answered ELSE {None}
      /\ s.pool["sanctions"] \in IF 7 < s.at THEN Sanctions ELSE {None}
      /\ s.pool["eligibility"] \in IF 8 < s.at THEN Eligibility ELSE {None}
      /\ s.pool["art_decision"] \in IF 9 < s.at THEN Answered ELSE {None}
  BY <1>2, KeysByPlace DEF Products
<1>4. s.pool["outcome"] \in IF 10 < s.at THEN Products["outcome"] ELSE {None}
  BY <1>2, KeysByPlace
<1> QED
  BY <1>1, <1>3, <1>4

-----------------------------------------------------------------------------
(* The rules *)

\* CHOOSE finds the first of the controlling stakes.
LEMMA FirstIsLeast ==
    ASSUME NEW interests \in Interests, Controlling(interests) # {}
    PROVE  \E i \in Controlling(interests) :
                /\ First(interests) = interests[i]
                /\ \A j \in Controlling(interests) : i <= j
<1> DEFINE C == Controlling(interests)
<1>1. C \subseteq Nat
  BY DEF Controlling
<1>2. IsWellFoundedOn(OpToRel(<, Nat), Nat)
  BY NatLessThanWellFounded, Zenon
<1>3. \E i \in C : \A j \in C : <<j, i>> \notin OpToRel(<, Nat)
  BY <1>1, <1>2, WFMin, Zenon
<1>4. \E i \in C : \A j \in C : i <= j
  <2>1. PICK i \in C : \A j \in C : <<j, i>> \notin OpToRel(<, Nat)
    BY <1>3
  <2>2. \A j \in C : ~(j < i)
    BY <1>1, <2>1, Zenon DEF OpToRel
  <2> QED
    BY <1>1, <2>2
<1>5. \A i, k \in C : (\A j \in C : i <= j) /\ (\A j \in C : k <= j) => i = k
  BY <1>1
<1> QED
  BY <1>4, <1>5 DEF First

LEMMA StakesAreTyped ==
    ASSUME NEW interests \in Interests, NEW i \in DOMAIN interests
    PROVE  interests[i].stake \in Nat /\ interests[i].country \in Countries
<1>1. interests \in Seq([stake : Nat, country : Countries])
  OBVIOUS
<1>2. i \in 1 .. Len(interests)
  BY <1>1
<1>3. interests[i] \in [stake : Nat, country : Countries]
  BY <1>1, <1>2, ElementOfSeq, Zenon
<1> QED
  BY <1>3

LEMMA StakesAreInCountries ==
    ASSUME NEW interests \in Interests, Controlling(interests) # {}
    PROVE  First(interests).country \in Countries
<1>1. PICK i \in Controlling(interests) : First(interests) = interests[i]
  BY FirstIsLeast
<1>2. i \in DOMAIN interests
  BY DEF Controlling
<1> QED
  BY <1>1, <1>2, StakesAreTyped

LEMMA JurisdictionIsKnown ==
    ASSUME NEW client \in Clients, NEW interests \in Interests
    PROVE  /\ Jurisdiction(client, interests).country \in Countries \cup {None}
           /\ Jurisdiction(client, interests).basis \in {"stake", "residency"}
<1>1. Residency(client) \in Countries \cup {None}
  BY DEF Residency
<1> QED
  BY <1>1, StakesAreInCountries DEF Jurisdiction

LEMMA TierIsATier ==
    ASSUME NEW client, NEW holdings
    PROVE  Tier(client, holdings) \in Tiers
BY DEF Tier, Tiers

-----------------------------------------------------------------------------
(* One state and the next *)

\* What the steps produce has its type.
LEMMA ProductsAreTyped ==
    /\ Products["client"] = Clients /\ Products["jurisdiction"] = Countries
    /\ Products["mentions"] = BOOLEAN /\ Products["adverse_media"] = SUBSET Findings
    /\ Products["pep"] = BOOLEAN /\ Products["pep_decision"] = Answered
    /\ Products["sanctions"] = Sanctions /\ Products["eligibility"] = Eligibility
    /\ Products["art_decision"] = Answered
    /\ Products["outcome"] = [
            tier : Tiers, implicating : SUBSET Findings, reviewed : SUBSET Findings,
            is_pep : BOOLEAN, sanctions_country : Countries,
            sanctions_basis : {"stake", "residency"}, pep_gate : Answered, art_gate : Answered]
BY DEF Products

LEMMA BlankIsAState == StateOK(Blank) /\ Blank.at = 1 /\ \A k \in Keys : Blank.pool[k] = None
<1>1. \A i \in 1 .. 10 : Blank.pool[Produces[i]] = None
  BY KeysAreProduced DEF Blank
<1> QED
  BY <1>1, TenSteps DEF Blank, StateOK

\* Only the key of the step is new.
LEMMA AfterByPlace ==
    ASSUME NEW s, StateOK(s), s.at \in 1 .. 10, NEW v
    PROVE  /\ After(s, v).at = s.at + 1
           /\ DOMAIN After(s, v).pool = Keys
           /\ \A i \in 1 .. 10 :
                After(s, v).pool[Produces[i]] = IF i = s.at THEN v ELSE s.pool[Produces[i]]
<1>1. /\ After(s, v).at = s.at + 1
      /\ After(s, v).pool = [s.pool EXCEPT ![Produces[s.at]] = v]
  BY DEF After
<1>2. DOMAIN s.pool = Keys
  BY StateByPlace
<1>3. ASSUME NEW i \in 1 .. 10
      PROVE  After(s, v).pool[Produces[i]] = IF i = s.at THEN v ELSE s.pool[Produces[i]]
  <2>1. Produces[i] \in DOMAIN s.pool /\ (Produces[i] = Produces[s.at] <=> i = s.at)
    BY <1>2, KeysAreProduced, KeysDiffer
  <2> QED
    BY <1>1, <2>1
<1> QED
  BY <1>1, <1>2, <1>3

LEMMA AfterIsAState ==
    ASSUME NEW s, StateOK(s), s.at \in 1 .. 10, NEW v \in Products[Produces[s.at]]
    PROVE  StateOK(After(s, v))
<1> DEFINE t == After(s, v)
<1>1. t.at = s.at + 1 /\ t.at \in 1 .. 11 /\ DOMAIN t.pool = Keys
  BY AfterByPlace
<1>2. ASSUME NEW i \in 1 .. 10
      PROVE  t.pool[Produces[i]] \in IF i < t.at THEN Products[Produces[i]] ELSE {None}
  <2>1. CASE i = s.at
    BY <1>1, <2>1, AfterByPlace
  <2>2. CASE i # s.at
    <3>1. i < t.at <=> i < s.at
      BY <1>1, <2>2
    <3>2. t.pool[Produces[i]] = s.pool[Produces[i]]
      BY <2>2, AfterByPlace
    <3> QED
      BY <3>1, <3>2, StateByPlace
  <2> QED
    BY <2>1, <2>2
<1> QED
  BY <1>1, <1>2, StateFromPlace

\* What is known of a product besides its type.
Follows(s, v) ==
    /\ s.at = 1 => files.clients.listed /\ v = files.clients
    /\ s.at = 2 => s.pool["client"].country # None
    /\ s.at = 5 => v = files.lists.pep
    /\ s.at = 6 => ~s.pool["pep"]
    /\ s.at = 7 =>
        LET where == Jurisdiction(s.pool["client"], files.interests) IN
            files.lists.effect[where.country] # "decline" /\ ~files.lists.designated
    /\ s.at = 8 => v.has_art = files.holdings.hasArt
    /\ s.at = 9 => ~s.pool["eligibility"].has_art
    /\ s.at = 10 => v = Outcome(s.pool, s.pool["eligibility"].tier)

LEMMA FollowsTheCheck ==
    ASSUME NEW s, NEW v, s.at = 7, ~files.lists.designated,
           files.lists.effect[Jurisdiction(s.pool["client"], files.interests).country] # "decline"
    PROVE  Follows(s, v)
BY DEF Follows

-----------------------------------------------------------------------------
(* What a process does *)

Produced(p) ==
    LET s == process[p].state IN
        /\ s.at \in 1 .. 10
        /\ \E v \in Products[Produces[s.at]] : Follows(s, v) /\ Produce(p, v)

Over(p) ==
    /\ process' = [process EXCEPT ![p] = Ended]
    /\ UNCHANGED <<files, edits, thread, shown, given, alone>>

\* A gate that asks is material, and shows what is in the pool.
PausedForPep(p) ==
    /\ process[p].state.at = 6 /\ Pool(p)["pep"] = TRUE
    /\ shown' = [shown EXCEPT !["pep_gate"] =
            [client |-> Pool(p)["client"], pep |-> Pool(p)["pep"],
             adverse_media |-> Pool(p)["adverse_media"]]]

PausedForArt(p) ==
    /\ process[p].state.at = 9
    /\ shown' = [shown EXCEPT !["art_gate"] =
            [client |-> Pool(p)["client"], eligibility |-> Pool(p)["eligibility"]]]

Paused(p) ==
    /\ process[p].saved
    /\ process' = [process EXCEPT ![p] = Ended]
    /\ UNCHANGED <<files, edits, thread, given, alone>>
    /\ PausedForPep(p) \/ PausedForArt(p)

LEMMA AtIsRunning ==
    ASSUME KycTypeOK, NEW p \in Processes, NEW i \in 1 .. 10, At(p, Pipeline[i])
    PROVE  Running(p) /\ process[p].state.at = i /\ StateOK(process[p].state)
<1>1. StateOK(process[p].state)
  BY DEF KycTypeOK, States
<1> QED
  BY <1>1, StateByPlace, PlaceOfStep DEF At

LEMMA StepsFollowTheRules ==
    ASSUME KycTypeOK, NEW p \in Processes,
           \/ LoadClient(p) \/ ValidateJurisdiction(p) \/ ExtractEntities(p)
           \/ AdjudicateMedia(p) \/ PepCheck(p) \/ SanctionsCheck(p)
           \/ ComputeEligibility(p) \/ EmitOutcome(p) \/ AgentFails(p)
    PROVE  Running(p) /\ (Produced(p) \/ Over(p))
<1> DEFINE s == process[p].state
<1>0. files \in Files
  BY DEF KycTypeOK
<1>1. StateOK(s)
  BY DEF KycTypeOK, States
<1>2. ASSUME LoadClient(p) PROVE Running(p) /\ (Produced(p) \/ Over(p))
  <2>1. s.at = 1 /\ Running(p)
    BY <1>2, AtIsRunning, StepsByPlace DEF LoadClient
  <2>2. files.clients \in Products[Produces[s.at]]
    BY <1>0, <2>1, KeysByPlace, ProductsAreTyped DEF Files
  <2> QED
    BY <1>2, <2>1, <2>2 DEF LoadClient, Require, End, Produced, Over, Follows
<1>3. ASSUME ValidateJurisdiction(p) PROVE Running(p) /\ (Produced(p) \/ Over(p))
  <2>1. s.at = 2 /\ Running(p)
    BY <1>3, AtIsRunning, StepsByPlace DEF ValidateJurisdiction
  <2>2. s.pool["client"].country \in Countries \cup {None}
    BY <1>1, <2>1, PoolByKey
  <2>3. s.pool["client"].country # None => s.pool["client"].country \in Products[Produces[s.at]]
    BY <2>1, <2>2, KeysByPlace, ProductsAreTyped
  <2> QED
    BY <1>3, <2>1, <2>3 DEF ValidateJurisdiction, Require, End, Produced, Over, Follows, Pool
<1>4. ASSUME ExtractEntities(p) PROVE Running(p) /\ (Produced(p) \/ Over(p))
  <2>1. s.at = 3 /\ Running(p)
    BY <1>4, AtIsRunning, StepsByPlace DEF ExtractEntities
  <2>2. Products[Produces[s.at]] = BOOLEAN
    BY <2>1, KeysByPlace, ProductsAreTyped
  <2> QED
    BY <1>4, <2>1, <2>2 DEF ExtractEntities, Produced, Follows
<1>5. ASSUME AdjudicateMedia(p) PROVE Running(p) /\ (Produced(p) \/ Over(p))
  <2>1. s.at = 4 /\ Running(p)
    BY <1>5, AtIsRunning, StepsByPlace DEF AdjudicateMedia
  <2>2. Products[Produces[s.at]] = SUBSET Findings
    BY <2>1, KeysByPlace, ProductsAreTyped
  <2>3. \E found \in SUBSET Findings : Produce(p, found)
    BY <1>5 DEF AdjudicateMedia
  <2> QED
    BY <2>1, <2>2, <2>3 DEF Produced, Follows
<1>6. ASSUME PepCheck(p) PROVE Running(p) /\ (Produced(p) \/ Over(p))
  <2>1. s.at = 5 /\ Running(p)
    BY <1>6, AtIsRunning, StepsByPlace DEF PepCheck
  <2>2. files.lists.pep \in Products[Produces[s.at]]
    BY <1>0, <2>1, KeysByPlace, ProductsAreTyped DEF Files
  <2> QED
    BY <1>6, <2>1, <2>2 DEF PepCheck, Produced, Follows
<1>7. ASSUME SanctionsCheck(p) PROVE Running(p) /\ (Produced(p) \/ Over(p))
  <2> DEFINE where == Jurisdiction(s.pool["client"], files.interests)
             found == [country |-> where.country, basis |-> where.basis,
                       effect |-> files.lists.effect[where.country]]
  <2>1. s.at = 7 /\ Running(p)
    BY <1>7, AtIsRunning, StepsByPlace DEF SanctionsCheck
  <2>2. /\ where.country \in Countries \cup {None}
        /\ where.basis \in {"stake", "residency"}
    <3>1. s.pool["client"] \in Clients /\ files.interests \in Interests
      BY <1>0, <1>1, <2>1, PoolByKey DEF Files
    <3> QED
      BY <3>1, JurisdictionIsKnown
  <2>3. ASSUME where.country # None PROVE found \in Products[Produces[s.at]]
    <3>1. files.lists.effect[where.country] \in Effects
      BY <1>0, <2>2, <2>3 DEF Files
    <3> QED
      BY <2>1, <2>2, <2>3, <3>1, KeysByPlace, ProductsAreTyped DEF Sanctions
  <2>4. \/ End(p)
        \/ /\ where.country # None /\ Produce(p, found)
           /\ files.lists.effect[where.country] # "decline" /\ ~files.lists.designated
    BY <1>7 DEF SanctionsCheck, Pool
  <2>5. CASE End(p)
    BY <2>1, <2>5 DEF End, Over
  <2>6. CASE /\ where.country # None /\ Produce(p, found)
             /\ files.lists.effect[where.country] # "decline" /\ ~files.lists.designated
    <3>1. Follows(s, found)
      BY <2>1, <2>6, FollowsTheCheck
    <3>2. s.at \in 1 .. 10
      BY <2>1
    <3> HIDE DEF found
    <3> QED
      BY <2>1, <2>3, <2>6, <3>1, <3>2 DEF Produced
  <2> QED
    BY <2>4, <2>5, <2>6
<1>8. ASSUME ComputeEligibility(p) PROVE Running(p) /\ (Produced(p) \/ Over(p))
  <2> DEFINE found == [tier |-> Tier(s.pool["client"], files.holdings),
                       has_art |-> files.holdings.hasArt]
  <2>1. s.at = 8 /\ Running(p)
    BY <1>8, AtIsRunning, StepsByPlace DEF ComputeEligibility
  <2>2. files.holdings.hasArt \in BOOLEAN
    BY <1>0 DEF Files
  <2>3. found \in Products[Produces[s.at]]
    BY <2>1, <2>2, TierIsATier, KeysByPlace, ProductsAreTyped DEF Eligibility
  <2> QED
    BY <1>8, <2>1, <2>3 DEF ComputeEligibility, Produced, Follows, Pool
<1>9. ASSUME EmitOutcome(p) PROVE Running(p) /\ (Produced(p) \/ Over(p))
  <2> DEFINE found == Outcome(s.pool, s.pool["eligibility"].tier)
  <2>1. s.at = 10 /\ Running(p)
    BY <1>9, AtIsRunning, StepsByPlace DEF EmitOutcome
  <2>2. /\ s.pool["eligibility"].tier \in Tiers
        /\ Implicating(s.pool["adverse_media"]) \in SUBSET Findings
        /\ s.pool["adverse_media"] \in SUBSET Findings
        /\ s.pool["pep"] \in BOOLEAN
        /\ s.pool["sanctions"].country \in Countries
        /\ s.pool["sanctions"].basis \in {"stake", "residency"}
        /\ s.pool["pep_decision"] \in Answered /\ s.pool["art_decision"] \in Answered
    BY <1>1, <2>1, PoolByKey DEF Eligibility, Sanctions, Implicating
  <2>3. found \in Products[Produces[s.at]]
    BY <2>1, <2>2, KeysByPlace, ProductsAreTyped DEF Outcome
  <2> QED
    BY <1>9, <2>1, <2>3 DEF EmitOutcome, Produced, Follows, Pool
<1>10. ASSUME AgentFails(p) PROVE Running(p) /\ (Produced(p) \/ Over(p))
  BY <1>10 DEF AgentFails, At, End, Over
<1> QED
  BY <1>2, <1>3, <1>4, <1>5, <1>6, <1>7, <1>8, <1>9, <1>10

LEMMA GatesFollowTheRules ==
    ASSUME KycTypeOK, NEW p \in Processes, NEW gate \in Gates, SkipGate(p, gate)
    PROVE  Running(p) /\ Produced(p)
<1> DEFINE s == process[p].state
<1>1. StateOK(s) /\ Running(p) /\ StandsAt(s, gate)
  BY DEF KycTypeOK, States, SkipGate, At
<1>2. (s.at = 6 /\ gate = "pep_gate") \/ (s.at = 9 /\ gate = "art_gate")
  <2>1. s.at \in 1 .. 11
    BY <1>1, StateByPlace
  <2> HIDE DEF s
  <2> QED
    BY <1>1, <2>1, PlaceOfGate
<1>3. "not_required" \in Products[Produces[s.at]]
  BY <1>2, KeysByPlace, ProductsAreTyped DEF Answered
<1>4. Follows(s, "not_required")
  BY <1>2 DEF SkipGate, Material, Follows, Pool
<1> QED
  BY <1>1, <1>2, <1>3, <1>4 DEF SkipGate, Produced

LEMMA GatesAsk ==
    ASSUME KycTypeOK, NEW p \in Processes, NEW gate \in Gates, Pause(p, gate)
    PROVE  Running(p) /\ Paused(p)
<1> DEFINE s == process[p].state
<1>1. StateOK(s) /\ Running(p) /\ StandsAt(s, gate)
  BY DEF KycTypeOK, States, Pause, At
<1>2. (s.at = 6 /\ gate = "pep_gate") \/ (s.at = 9 /\ gate = "art_gate")
  <2>1. s.at \in 1 .. 11
    BY <1>1, StateByPlace
  <2> HIDE DEF s
  <2> QED
    BY <1>1, <2>1, PlaceOfGate
<1>3. gate = "pep_gate" => Pool(p)["pep"] = TRUE
  BY <1>1, <1>2, PoolByKey DEF Pause, Material, Pool
<1>4. /\ gate = "pep_gate" =>
            Payload(gate, Pool(p)) = [client |-> Pool(p)["client"], pep |-> Pool(p)["pep"],
                                      adverse_media |-> Pool(p)["adverse_media"]]
      /\ gate = "art_gate" =>
            Payload(gate, Pool(p)) = [client |-> Pool(p)["client"],
                                      eligibility |-> Pool(p)["eligibility"]]
  BY DEF Payload
<1>5. shown' = [shown EXCEPT ![gate] = Payload(gate, Pool(p))]
  BY DEF Pause
<1>6. PausedForPep(p) \/ PausedForArt(p)
  BY <1>2, <1>3, <1>4, <1>5 DEF PausedForPep, PausedForArt
<1> QED
  BY <1>1, <1>6 DEF Pause, Paused

\* All that a step can be.
LEMMA KindsOfStep ==
    ASSUME KycTypeOK, Next
    PROVE  \/ \E p \in Processes :
                /\ Running(p)
                /\ Produced(p) \/ Over(p) \/ Paused(p) \/ Save(p)
           \/ \E p \in Processes, v \in Verdicts : Decide(p, v)
           \/ Edit
<1>1. ASSUME NEW p \in Processes, Finish(p) \/ Kill(p) PROVE Running(p) /\ Over(p)
  BY <1>1 DEF Finish, Kill, End, Over
<1>2. ASSUME NEW p \in Processes, Save(p) PROVE Running(p)
  BY <1>2 DEF Save
<1> QED
  BY <1>1, <1>2, StepsFollowTheRules, GatesFollowTheRules, GatesAsk DEF Next

\* A decision begins where the checkpoint stands, or behind the gate it answers.
LEMMA DecideByPlace ==
    ASSUME KycTypeOK, NEW p \in Processes, NEW v \in Verdicts, Decide(p, v)
    PROVE  /\ given[p] = None /\ process[p] = Idle
           /\ given' = [given EXCEPT ![p] = v]
           /\ alone' = (alone /\ Unattended)
           /\ UNCHANGED <<files, edits, thread, shown>>
           /\ \/ process' = [process EXCEPT ![p] = Working(thread, TRUE)]
              \/ /\ process' = [process EXCEPT ![p] = Working(After(thread, v), FALSE)]
                 /\ thread.at \in {6, 9} /\ v \in Products[Produces[thread.at]]
<1>1. StateOK(thread)
  BY DEF KycTypeOK, States
<1>2. given[p] = None
  BY DEF Decide, KycTypeOK, Idle, Ended, Working
<1>3. ASSUME NEW gate \in Gates, Asks(gate)
      PROVE  thread.at \in {6, 9} /\ v \in Products[Produces[thread.at]]
  <2>1. thread.at \in {6, 9}
    BY <1>1, <1>3, StateByPlace, PlaceOfGate DEF Asks
  <2> QED
    BY <2>1, KeysByPlace, ProductsAreTyped DEF Answered
<1> QED
  BY <1>2, <1>3 DEF Decide

-----------------------------------------------------------------------------
(* Where the states of a run come from *)

Comes(t) ==
    \/ t \in States \cup {Blank}
    \/ /\ given' = given
       /\ \E s \in States : s.at \in 1 .. 10
            /\ \E v \in Products[Produces[s.at]] : Follows(s, v) /\ t = After(s, v)
    \/ \E p \in Processes, v \in Verdicts :
            /\ given[p] = None /\ given' = [given EXCEPT ![p] = v]
            /\ thread.at \in {6, 9} /\ v \in Products[Produces[thread.at]]
            /\ t = After(thread, v)

\* A process that works on the next state works on it alone.
LEMMA ProcessStates ==
    ASSUME KycTypeOK, NEW p \in Processes, NEW state, NEW saved,
           process' = [process EXCEPT ![p] = Working(state, saved)],
           NEW q \in Processes
    PROVE  process'[q].state = IF q = p THEN state ELSE process[q].state
BY DEF KycTypeOK, Working

LEMMA EndedStates ==
    ASSUME KycTypeOK, NEW p \in Processes,
           process' = [process EXCEPT ![p] = Ended], NEW q \in Processes
    PROVE  process'[q].state = IF q = p THEN Blank ELSE process[q].state
BY DEF KycTypeOK, Ended

LEMMA StatesDescend ==
    ASSUME KycTypeOK, [Next]_kycVars, NEW t \in States'
    PROVE  Comes(t)
<1>0. /\ thread \in States /\ \A q \in Processes : process[q].state \in States
      /\ t = thread' \/ \E q \in Processes : t = process'[q].state
  BY DEF States
<1>1. CASE UNCHANGED kycVars
  BY <1>0, <1>1 DEF kycVars, Comes
<1>2. ASSUME NEW p \in Processes, Produced(p) PROVE Comes(t)
  <2> DEFINE s == process[p].state
  <2>1. PICK v \in Products[Produces[s.at]] : Follows(s, v) /\ Produce(p, v)
    BY <1>2 DEF Produced
  <2>2. s.at \in 1 .. 10 /\ s \in States
    BY <1>0, <1>2 DEF Produced
  <2>3. process' = [process EXCEPT ![p] = Working(After(s, v), FALSE)]
    BY <2>1 DEF Produce
  <2>4. thread' = thread /\ given' = given
    BY <2>1 DEF Produce
  <2>5. \A q \in Processes : process'[q].state = IF q = p THEN After(s, v) ELSE process[q].state
    BY <2>3, ProcessStates, Zenon
  <2>6. t \in States \/ t = After(s, v)
    BY <1>0, <2>4, <2>5
  <2> QED
    BY <2>1, <2>2, <2>4, <2>6 DEF Comes
<1>3. ASSUME NEW p \in Processes, Over(p) \/ Paused(p) PROVE Comes(t)
  <2>1. process' = [process EXCEPT ![p] = Ended] /\ thread' = thread
    BY <1>3 DEF Over, Paused
  <2>2. \A q \in Processes : process'[q].state = IF q = p THEN Blank ELSE process[q].state
    BY <2>1, EndedStates, Zenon
  <2> QED
    BY <1>0, <2>1, <2>2 DEF Comes
<1>4. ASSUME NEW p \in Processes, Save(p) PROVE Comes(t)
  <2>1. /\ process' = [process EXCEPT ![p] = Working(process[p].state, TRUE)]
        /\ thread' = process[p].state
    BY <1>4 DEF Save
  <2>2. \A q \in Processes :
            process'[q].state = IF q = p THEN process[p].state ELSE process[q].state
    BY <2>1, ProcessStates, Zenon
  <2> QED
    BY <1>0, <2>1, <2>2 DEF Comes
<1>5. ASSUME NEW p \in Processes, NEW v \in Verdicts, Decide(p, v) PROVE Comes(t)
  <2>0. /\ thread' = thread
        /\ given[p] = None /\ given' = [given EXCEPT ![p] = v]
    BY <1>5, DecideByPlace
  <2>1. CASE process' = [process EXCEPT ![p] = Working(thread, TRUE)]
    <3>1. \A q \in Processes : process'[q].state = IF q = p THEN thread ELSE process[q].state
      BY <2>1, ProcessStates, Zenon
    <3> QED
      BY <1>0, <2>0, <3>1 DEF Comes
  <2>2. CASE /\ process' = [process EXCEPT ![p] = Working(After(thread, v), FALSE)]
             /\ thread.at \in {6, 9} /\ v \in Products[Produces[thread.at]]
    <3>1. \A q \in Processes :
            process'[q].state = IF q = p THEN After(thread, v) ELSE process[q].state
      <4> DEFINE state == After(thread, v)
      <4>1. process' = [process EXCEPT ![p] = Working(state, FALSE)]
        BY <2>2
      <4> HIDE DEF state
      <4>2. \A q \in Processes : process'[q].state = IF q = p THEN state ELSE process[q].state
        BY <4>1, ProcessStates, Zenon
      <4> QED
        BY <4>2 DEF state
    <3>2. t \in States \/ t = After(thread, v)
      BY <1>0, <2>0, <3>1
    <3> QED
      BY <2>0, <2>2, <3>2 DEF Comes
  <2> QED
    BY <1>5, <2>1, <2>2, DecideByPlace
<1>6. CASE Edit
  BY <1>0, <1>6 DEF Edit, Comes
<1> QED
  BY <1>1, <1>2, <1>3, <1>4, <1>5, <1>6, KindsOfStep

-----------------------------------------------------------------------------
(* Type correctness *)

LEMMA InitStates == Init => \A s \in States : s = Blank
BY DEF Init, States, Idle, Working

LEMMA KycTypeInit == Init => KycTypeOK
<1> SUFFICES ASSUME Init PROVE KycTypeOK
  OBVIOUS
<1>1. \A p \in Processes :
        \/ process[p] = Idle /\ given[p] = None
        \/ process[p] = Working(process[p].state, TRUE) /\ process[p].state = Blank
  BY DEF Init, Working
<1>2. \A s \in States : StateOK(s)
  BY InitStates, BlankIsAState
<1>3. \A p \in Processes :
        \/ process[p] = Idle /\ given[p] = None
        \/ process[p] = Ended
        \/ \E saved \in BOOLEAN : process[p] = Working(process[p].state, saved)
  BY <1>1
<1>4. /\ DOMAIN process = Processes
      /\ given \in [Processes -> Verdicts \cup {None}]
      /\ DOMAIN shown = {"pep_gate", "art_gate"}
      /\ shown["pep_gate"] = None /\ shown["art_gate"] = None
  BY DEF Init
<1>5. files \in Files /\ edits \in 0 .. MaxEdits /\ alone \in BOOLEAN
  BY DEF Init
<1> QED
  BY <1>2, <1>3, <1>4, <1>5 DEF KycTypeOK

LEMMA StatesStayTyped ==
    ASSUME KycTypeOK, [Next]_kycVars, NEW t \in States'
    PROVE  StateOK(t)
<1>1. Comes(t)
  BY StatesDescend
<1>2. \A s \in States : StateOK(s)
  BY DEF KycTypeOK
<1>3. thread \in States
  BY DEF States
<1>4. thread.at \in {6, 9} => thread.at \in 1 .. 10
  OBVIOUS
<1> QED
  BY <1>1, <1>2, <1>3, <1>4, BlankIsAState, AfterIsAState DEF Comes

\* Who works on what, and with whose verdict.
Kept(p) ==
    \/ process[p] = Idle /\ given[p] = None
    \/ process[p] = Ended
    \/ \E saved \in BOOLEAN : process[p] = Working(process[p].state, saved)

LEMMA ProcessesStayTyped ==
    ASSUME KycTypeOK, [Next]_kycVars
    PROVE  /\ DOMAIN process' = Processes
           /\ \A p \in Processes : Kept(p)'
           /\ given' \in [Processes -> Verdicts \cup {None}]
           /\ alone' \in BOOLEAN
<1> DEFINE Goal == /\ DOMAIN process' = Processes
                   /\ \A p \in Processes : Kept(p)'
                   /\ given' \in [Processes -> Verdicts \cup {None}]
                   /\ alone' \in BOOLEAN
<1>0. /\ DOMAIN process = Processes /\ \A p \in Processes : Kept(p)
      /\ given \in [Processes -> Verdicts \cup {None}]
      /\ alone \in BOOLEAN
  BY DEF KycTypeOK, Kept
<1>1. ASSUME NEW p \in Processes, NEW now, process' = [process EXCEPT ![p] = now],
             given' = given,
             now = Ended \/ \E state, saved : saved \in BOOLEAN /\ now = Working(state, saved)
      PROVE  DOMAIN process' = Processes /\ \A q \in Processes : Kept(q)'
  <2>1. now = Ended \/ \E saved \in BOOLEAN : now = Working(now.state, saved)
    BY <1>1 DEF Working
  <2>2. \A q \in Processes : process'[q] = IF q = p THEN now ELSE process[q]
    BY <1>0, <1>1
  <2>3. DOMAIN process' = Processes
    BY <1>0, <1>1
  <2> QED
    BY <1>0, <1>1, <2>1, <2>2, <2>3 DEF Kept
<1>2. ASSUME NEW p \in Processes, Produced(p) \/ Over(p) \/ Paused(p) \/ Save(p)
      PROVE  Goal
  <2>1. given' = given /\ alone' = alone
    BY <1>2 DEF Produced, Produce, Over, Paused, Save
  <2>2. \E now : /\ process' = [process EXCEPT ![p] = now]
                 /\ now = Ended \/ \E state, saved : saved \in BOOLEAN /\ now = Working(state, saved)
    BY <1>2 DEF Produced, Produce, Over, Paused, Save
  <2> QED
    BY <1>0, <1>1, <2>1, <2>2
<1>3. ASSUME NEW p \in Processes, NEW v \in Verdicts, Decide(p, v)
      PROVE  Goal
  <2>1. given' = [given EXCEPT ![p] = v] /\ alone' = (alone /\ Unattended)
    BY <1>3, DecideByPlace
  <2>2. PICK state, saved : saved \in BOOLEAN /\ process' = [process EXCEPT ![p] = Working(state, saved)]
    BY <1>3, DecideByPlace
  <2>3. DOMAIN process' = Processes
    BY <1>0, <2>2
  <2>4. \A q \in Processes : process'[q] = IF q = p THEN Working(state, saved) ELSE process[q]
    BY <1>0, <2>2
  <2>5. \A q \in Processes : q # p => given'[q] = given[q]
    BY <1>0, <2>1
  <2>6. Working(state, saved).state = state
    BY DEF Working
  <2>7. ASSUME NEW q \in Processes PROVE Kept(q)'
    <3>1. CASE q = p
      BY <2>2, <2>4, <2>6, <3>1 DEF Kept
    <3>2. CASE q # p
      BY <1>0, <2>4, <2>5, <3>2 DEF Kept
    <3> QED
      BY <3>1, <3>2
  <2>8. given' \in [Processes -> Verdicts \cup {None}]
    BY <1>0, <2>1
  <2>9. alone' \in BOOLEAN
    BY <1>0, <2>1
  <2> QED
    BY <2>3, <2>7, <2>8, <2>9
<1>4. CASE Edit \/ UNCHANGED kycVars
  BY <1>0, <1>4 DEF Edit, kycVars, Kept
<1> QED
  BY <1>2, <1>3, <1>4, KindsOfStep

LEMMA ShownStaysTyped ==
    ASSUME KycTypeOK, [Next]_kycVars
    PROVE  /\ DOMAIN shown' = {"pep_gate", "art_gate"}
           /\ shown'["pep_gate"] \in {None} \cup
                [client : Clients, pep : BOOLEAN, adverse_media : SUBSET Findings]
           /\ shown'["art_gate"] \in {None} \cup [client : Clients, eligibility : Eligibility]
<1>0. /\ DOMAIN shown = {"pep_gate", "art_gate"}
      /\ shown["pep_gate"] \in {None} \cup
            [client : Clients, pep : BOOLEAN, adverse_media : SUBSET Findings]
      /\ shown["art_gate"] \in {None} \cup [client : Clients, eligibility : Eligibility]
  BY DEF KycTypeOK
<1>1. ASSUME NEW p \in Processes, Paused(p), PausedForPep(p)
      PROVE  [client |-> Pool(p)["client"], pep |-> Pool(p)["pep"],
              adverse_media |-> Pool(p)["adverse_media"]]
                \in [client : Clients, pep : BOOLEAN, adverse_media : SUBSET Findings]
  <2>1. StateOK(process[p].state)
    BY DEF KycTypeOK, States
  <2>2. process[p].state.at = 6
    BY <1>1 DEF PausedForPep
  <2>3. /\ Pool(p)["client"] \in Clients /\ Pool(p)["pep"] \in BOOLEAN
        /\ Pool(p)["adverse_media"] \in SUBSET Findings
    BY <2>1, <2>2, PoolByKey DEF Pool
  <2> QED
    BY <2>3
<1>2. ASSUME NEW p \in Processes, Paused(p), PausedForArt(p)
      PROVE  [client |-> Pool(p)["client"], eligibility |-> Pool(p)["eligibility"]]
                \in [client : Clients, eligibility : Eligibility]
  <2>1. StateOK(process[p].state)
    BY DEF KycTypeOK, States
  <2>2. process[p].state.at = 9
    BY <1>2 DEF PausedForArt
  <2>3. Pool(p)["client"] \in Clients /\ Pool(p)["eligibility"] \in Eligibility
    BY <2>1, <2>2, PoolByKey DEF Pool
  <2> QED
    BY <2>3
<1>3. CASE \E p \in Processes : Paused(p)
  BY <1>0, <1>1, <1>2, <1>3 DEF Paused, PausedForPep, PausedForArt
<1>4. CASE shown' = shown
  BY <1>0, <1>4
<1>5. (\E p \in Processes : Paused(p)) \/ shown' = shown
  BY KindsOfStep, DecideByPlace DEF Produced, Produce, Over, Save, Edit, kycVars
<1> QED
  BY <1>3, <1>4, <1>5

LEMMA KycTypeNext == KycTypeOK /\ [Next]_kycVars => KycTypeOK'
<1> SUFFICES ASSUME KycTypeOK, [Next]_kycVars PROVE KycTypeOK'
  OBVIOUS
<1>1. files' \in Files /\ edits' \in 0 .. MaxEdits
  <2>1. CASE Edit
    <3>1. files' \in Files
      BY <2>1 DEF Edit, KycTypeOK, Files
    <3>2. edits' \in 0 .. MaxEdits
      BY <2>1 DEF Edit, KycTypeOK
    <3> QED
      BY <3>1, <3>2
  <2>2. CASE files' = files /\ edits' = edits
    BY <2>2 DEF KycTypeOK
  <2>3. Edit \/ (files' = files /\ edits' = edits)
    BY KindsOfStep, DecideByPlace DEF Produced, Produce, Over, Paused, Save, kycVars
  <2> QED
    BY <2>1, <2>2, <2>3
<1>2. (\A s \in States : StateOK(s))'
  <2>1. \A t \in States' : StateOK(t)
    BY StatesStayTyped
  <2> QED
    BY <2>1 DEF StateOK
<1> QED
  BY <1>1, <1>2, ProcessesStayTyped, ShownStaysTyped DEF KycTypeOK, Kept

\* Whatever the files say, however often they are edited and whoever works on the run,
\* every product in a state of it has the type of its key, and no key is there before
\* its step (kyc_onboarding.py:297-397).
THEOREM KycTypeCorrect == Spec => []KycTypeOK
BY KycTypeInit, KycTypeNext, PTL DEF Spec

-----------------------------------------------------------------------------
(* Refusals *)

UpTo(k) == \A s \in States : s.at <= k

LEMMA InitUpTo == ASSUME Init, NEW k \in 1 .. 11 PROVE UpTo(k)
BY InitStates, BlankIsAState DEF UpTo

\* A run that never gets past the check has no tier.
LEMMA NoTierYet == ASSUME KycTypeOK, NEW k \in 1 .. 8, UpTo(k) PROVE NoTier
<1> SUFFICES ASSUME NEW s \in States PROVE s.pool["eligibility"] = None
  BY DEF NoTier
<1>1. StateOK(s) /\ s.at <= k
  BY DEF KycTypeOK, UpTo
<1>2. s.at <= 8
  BY <1>1, PoolByKey
<1> QED
  BY <1>1, <1>2, PoolByKey

\* A run gets no further than where its step is never executed and no gate is.
LEMMA StaysUpTo ==
    ASSUME KycTypeOK, [Next]_kycVars, NEW k \in {1, 2, 7}, UpTo(k),
           \A s \in States : s.at = k => \A v : ~Follows(s, v)
    PROVE  UpTo(k)'
<1> SUFFICES ASSUME NEW t \in States' PROVE t.at <= k
  BY DEF UpTo
<1>1. Comes(t)
  BY StatesDescend
<1>2. \A s \in States : StateOK(s) /\ s.at <= k /\ s.at \in 1 .. 11
  BY PoolByKey DEF KycTypeOK, UpTo
<1>3. CASE t \in States \cup {Blank}
  BY <1>2, <1>3, BlankIsAState
<1>4. ASSUME NEW s \in States, s.at \in 1 .. 10, NEW v, Follows(s, v), t = After(s, v)
      PROVE  t.at <= k
  <2>1. s.at <= k /\ s.at # k
    BY <1>2, <1>4
  <2> QED
    BY <1>2, <1>4, <2>1, AfterByPlace
<1>5. ASSUME thread.at \in {6, 9}, NEW v, t = After(thread, v)
      PROVE  t.at <= k
  <2>1. thread \in States /\ thread.at \in 1 .. 10
    BY <1>5 DEF States
  <2>2. thread.at = 6 /\ k = 7
    BY <1>2, <1>5, <2>1
  <2> QED
    BY <1>2, <1>5, <2>1, <2>2, AfterByPlace
<1> QED
  BY <1>1, <1>3, <1>4, <1>5 DEF Comes

\* No country: the run gets no further than its second step.
Countryless(s) == s.at <= 2 /\ (s.at > 1 => s.pool["client"].country = None)

LEMMA CountrylessStays ==
    KycTypeOK /\ (\A s \in States : Countryless(s)) /\ files.clients.country = None
        /\ [Next]_kycVars => (\A s \in States : Countryless(s))'
<1> SUFFICES ASSUME KycTypeOK, \A s \in States : Countryless(s),
                    files.clients.country = None, [Next]_kycVars, NEW t \in States'
             PROVE  Countryless(t)
  BY DEF Countryless
<1>1. Comes(t)
  BY StatesDescend
<1>2. \A s \in States : StateOK(s) /\ s.at \in 1 .. 2 /\ Countryless(s)
  BY PoolByKey DEF KycTypeOK, Countryless
<1>3. CASE t \in States \cup {Blank}
  BY <1>2, <1>3, BlankIsAState DEF Countryless
<1>4. ASSUME NEW s \in States, s.at \in 1 .. 10, NEW v, Follows(s, v), t = After(s, v)
      PROVE  Countryless(t)
  <2>1. s.at = 1 /\ v = files.clients
    BY <1>2, <1>4 DEF Follows, Countryless
  <2>2. t.at = 2 /\ t.pool["client"] = v
    BY <1>2, <1>4, <2>1, AfterByPlace, KeysByPlace
  <2> QED
    BY <2>1, <2>2 DEF Countryless
<1>5. ~(thread.at \in {6, 9})
  BY <1>2 DEF States
<1> QED
  BY <1>1, <1>3, <1>4, <1>5 DEF Comes

\* The stake of the hypothesis is the one the check finds.
LEMMA FirstStakeDecides ==
    ASSUME KycTypeOK, FirstStakeDeclines, NEW client
    PROVE  files.lists.effect[Jurisdiction(client, files.interests).country] = "decline"
<1> DEFINE S == files.interests
<1>1. S \in Interests /\ S \in Seq([stake : Nat, country : Countries])
  BY DEF KycTypeOK, Files
<1>2. PICK i \in DOMAIN S :
        /\ S[i].stake >= 25
        /\ files.lists.effect[S[i].country] = "decline"
        /\ \A j \in 1 .. (i - 1) : S[j].stake < 25
  BY DEF FirstStakeDeclines
<1>3. i \in Controlling(S)
  BY <1>2 DEF Controlling, CONTROLLING_STAKE_PCT
<1>4. PICK k \in Controlling(S) : First(S) = S[k] /\ \A j \in Controlling(S) : k <= j
  BY <1>1, <1>3, FirstIsLeast
<1>5. k <= i /\ k \in DOMAIN S /\ S[k].stake >= 25
  BY <1>3, <1>4 DEF Controlling, CONTROLLING_STAKE_PCT
<1>6. DOMAIN S = 1 .. Len(S) /\ Len(S) \in Nat
  BY <1>1
<1>7. S[k].stake \in Nat
  BY <1>1, <1>5, StakesAreTyped
<1>8. k = i
  BY <1>2, <1>5, <1>6, <1>7
<1> QED
  BY <1>2, <1>3, <1>4, <1>8 DEF Jurisdiction

\* Residency: what was loaded is of the same country as what is on file.
ResidentIn(s, c) == s.at <= 7 /\ (s.at > 1 => s.pool["client"].residency = c)

LEMMA ResidencyDecides ==
    ASSUME KycTypeOK, NEW c \in Countries, ResidentInDeclining(c),
           NEW client, client.residency = c
    PROVE  files.lists.effect[Jurisdiction(client, files.interests).country] = "decline"
<1> DEFINE S == files.interests
<1>1. S \in Interests
  BY DEF KycTypeOK, Files
<1>2. \A i \in DOMAIN S : S[i].stake \in Nat
  BY <1>1, StakesAreTyped
<1>3. Controlling(S) = {}
  BY <1>2 DEF ResidentInDeclining, Controlling, CONTROLLING_STAKE_PCT
<1> QED
  BY <1>3 DEF Jurisdiction, Residency, ResidentInDeclining

LEMMA ResidentStays ==
    ASSUME NEW c \in Countries
    PROVE  KycTypeOK /\ (\A s \in States : ResidentIn(s, c)) /\ ResidentInDeclining(c)
               /\ [Next]_kycVars => (\A s \in States : ResidentIn(s, c))'
<1> SUFFICES ASSUME KycTypeOK, \A s \in States : ResidentIn(s, c), ResidentInDeclining(c),
                    [Next]_kycVars, NEW t \in States'
             PROVE  ResidentIn(t, c)
  BY DEF ResidentIn
<1>1. Comes(t)
  BY StatesDescend
<1>2. \A s \in States : StateOK(s) /\ s.at \in 1 .. 7 /\ ResidentIn(s, c)
  BY PoolByKey DEF KycTypeOK, ResidentIn
<1>3. CASE t \in States \cup {Blank}
  BY <1>2, <1>3, BlankIsAState DEF ResidentIn
<1>4. ASSUME NEW s \in States, s.at \in 1 .. 10, NEW v, Follows(s, v), t = After(s, v)
      PROVE  ResidentIn(t, c)
  <2>1. s.at # 7
    <3>1. s.at = 7 => s.pool["client"].residency = c
      BY <1>2 DEF ResidentIn
    <3> QED
      BY <1>4, <3>1, ResidencyDecides DEF Follows
  <2>2. t.at = s.at + 1 /\ t.at <= 7
    BY <1>2, <1>4, <2>1, AfterByPlace
  <2>3. t.pool["client"] = IF s.at = 1 THEN v ELSE s.pool["client"]
    BY <1>2, <1>4, AfterByPlace, KeysByPlace
  <2>4. s.at = 1 => v.residency = c
    BY <1>4 DEF Follows, ResidentInDeclining
  <2> QED
    BY <1>2, <2>2, <2>3, <2>4 DEF ResidentIn
<1>5. ASSUME thread.at \in {6, 9}, NEW v, t = After(thread, v)
      PROVE  ResidentIn(t, c)
  <2>1. thread \in States /\ thread.at = 6
    BY <1>2, <1>5 DEF States
  <2>2. t.at = 7 /\ t.pool["client"] = thread.pool["client"]
    BY <1>2, <1>5, <2>1, AfterByPlace, KeysByPlace
  <2> QED
    BY <1>2, <2>1, <2>2 DEF ResidentIn
<1> QED
  BY <1>1, <1>3, <1>4, <1>5 DEF Comes

\* Whoever is refused for one reason for as long as the run takes is never given a
\* tier, however often it is killed, edited and decided, and in however many processes
\* (kyc_onboarding.py:50-77 and 154-202 before 208).
THEOREM RefusedAreNotTiered == Spec => RefusedHaveNoTier
<1>1. Spec => ([]~files.clients.listed => []NoTier)
  <2>1. Init => UpTo(1)
    BY InitUpTo
  <2>2. KycTypeOK /\ UpTo(1) => NoTier
    BY NoTierYet
  <2>3. KycTypeOK /\ UpTo(1) /\ ~files.clients.listed /\ [Next]_kycVars => UpTo(1)'
    <3> SUFFICES ASSUME KycTypeOK, UpTo(1), ~files.clients.listed, [Next]_kycVars
                 PROVE  UpTo(1)'
      OBVIOUS
    <3>1. \A s \in States : s.at = 1 => \A v : ~Follows(s, v)
      BY DEF Follows
    <3> QED
      BY <3>1, StaysUpTo
  <2> QED
    BY <2>1, <2>2, <2>3, KycTypeInit, KycTypeNext, PTL DEF Spec
<1>2. Spec => ([](files.clients.country = None) => []NoTier)
  <2>1. Init => \A s \in States : Countryless(s)
    BY InitStates, BlankIsAState DEF Countryless
  <2>2. KycTypeOK /\ (\A s \in States : Countryless(s)) => NoTier
    BY NoTierYet DEF Countryless, UpTo
  <2> QED
    BY <2>1, <2>2, CountrylessStays, KycTypeInit, KycTypeNext, PTL DEF Spec
<1>3. Spec => ([]files.lists.designated => []NoTier)
  <2>1. Init => UpTo(7)
    BY InitUpTo
  <2>2. KycTypeOK /\ UpTo(7) => NoTier
    BY NoTierYet
  <2>3. KycTypeOK /\ UpTo(7) /\ files.lists.designated /\ [Next]_kycVars => UpTo(7)'
    <3> SUFFICES ASSUME KycTypeOK, UpTo(7), files.lists.designated, [Next]_kycVars
                 PROVE  UpTo(7)'
      OBVIOUS
    <3>1. \A s \in States : s.at = 7 => \A v : ~Follows(s, v)
      BY DEF Follows
    <3> QED
      BY <3>1, StaysUpTo
  <2> QED
    BY <2>1, <2>2, <2>3, KycTypeInit, KycTypeNext, PTL DEF Spec
<1>4. Spec => ([]FirstStakeDeclines => []NoTier)
  <2>1. Init => UpTo(7)
    BY InitUpTo
  <2>2. KycTypeOK /\ UpTo(7) => NoTier
    BY NoTierYet
  <2>3. KycTypeOK /\ UpTo(7) /\ FirstStakeDeclines /\ [Next]_kycVars => UpTo(7)'
    <3> SUFFICES ASSUME KycTypeOK, UpTo(7), FirstStakeDeclines, [Next]_kycVars
                 PROVE  UpTo(7)'
      OBVIOUS
    <3>1. \A s \in States : s.at = 7 => \A v : ~Follows(s, v)
      BY FirstStakeDecides DEF Follows
    <3> QED
      BY <3>1, StaysUpTo
  <2> QED
    BY <2>1, <2>2, <2>3, KycTypeInit, KycTypeNext, PTL DEF Spec
<1>5. ASSUME NEW CONSTANT c \in Countries
      PROVE  Spec => ([]ResidentInDeclining(c) => []NoTier)
  <2>1. Init => \A s \in States : ResidentIn(s, c)
    BY InitStates, BlankIsAState DEF ResidentIn
  <2>2. KycTypeOK /\ (\A s \in States : ResidentIn(s, c)) => NoTier
    BY NoTierYet DEF UpTo, ResidentIn
  <2>3. KycTypeOK /\ (\A s \in States : ResidentIn(s, c)) /\ ResidentInDeclining(c)
            /\ [Next]_kycVars => (\A s \in States : ResidentIn(s, c))'
    BY ResidentStays
  <2> QED
    BY <2>1, <2>2, <2>3, KycTypeInit, KycTypeNext, PTL DEF Spec
<1> QED
  BY <1>1, <1>2, <1>3, <1>4, <1>5 DEF RefusedHaveNoTier

-----------------------------------------------------------------------------
(* What reviewers decide *)

\* A verdict somebody gave.
Given(v) == v \in Verdicts /\ \E p \in Processes : given[p] = v

\* The invariant of the first gate, of a run whose client is on the list of PEPs.
PepDecided(s) ==
    /\ s.at > 5 => s.pool["pep"] = TRUE
    /\ s.at > 6 => Given(s.pool["pep_decision"])

\* And of the second, of a run whose client owns art.
ArtDecided(s) ==
    /\ s.at > 8 => s.pool["eligibility"].has_art = TRUE
    /\ s.at > 9 => Given(s.pool["art_decision"])

\* One decision is not the answer of both.
BothDecided(s) ==
    s.at > 9 =>
        /\ s.pool["pep_decision"] \in Verdicts /\ s.pool["art_decision"] \in Verdicts
        /\ \E p, q \in Processes :
                /\ p # q
                /\ given[p] = s.pool["pep_decision"] /\ given[q] = s.pool["art_decision"]

\* What was decided stays so.
LEMMA GivenStays ==
    ASSUME KycTypeOK, [Next]_kycVars, NEW p \in Processes, given[p] # None
    PROVE  given'[p] = given[p]
<1>1. given' = given \/ \E q \in Processes, v \in Verdicts :
            given[q] = None /\ given' = [given EXCEPT ![q] = v]
  BY KindsOfStep, DecideByPlace DEF Produced, Produce, Over, Paused, Save, Edit, kycVars
<1>2. given \in [Processes -> Verdicts \cup {None}]
  BY DEF KycTypeOK
<1> QED
  BY <1>1, <1>2

\* A verdict that opens a gate is given with it, and by nobody before.
LEMMA NewVerdict ==
    ASSUME KycTypeOK, NEW p \in Processes, NEW v \in Verdicts,
           given[p] = None, given' = [given EXCEPT ![p] = v]
    PROVE  given'[p] = v /\ Given(v)'
<1>1. given'[p] = v
  BY DEF KycTypeOK
<1> QED
  BY <1>1 DEF Given

LEMMA GivenVerdictsStay ==
    ASSUME KycTypeOK, [Next]_kycVars, NEW v, Given(v)
    PROVE  Given(v)'
BY GivenStays DEF Given

LEMMA PepStaysDecided ==
    KycTypeOK /\ (\A s \in States : PepDecided(s)) /\ files.lists.pep /\ [Next]_kycVars
        => (\A s \in States : PepDecided(s))'
<1> SUFFICES ASSUME KycTypeOK, \A s \in States : PepDecided(s), files.lists.pep,
                    [Next]_kycVars, NEW t \in States'
             PROVE  PepDecided(t)'
  <2>1. ASSUME \A t \in States' : PepDecided(t)' PROVE (\A s \in States : PepDecided(s))'
    BY <2>1 DEF PepDecided, Given
  <2> QED
    BY <2>1
<1> DEFINE Was(s) == /\ s.at > 5 => s.pool["pep"] = TRUE
                     /\ s.at > 6 => Given(s.pool["pep_decision"])'
<1>0. SUFFICES Was(t)
  BY DEF PepDecided, Given
<1>1. Comes(t)
  BY StatesDescend
<1>2. \A s \in States : StateOK(s) /\ s.at \in 1 .. 11 /\ PepDecided(s)
  BY PoolByKey DEF KycTypeOK
<1>3. \A s \in States : Was(s)
  BY <1>2, GivenVerdictsStay DEF PepDecided
<1>4. CASE t \in States \cup {Blank}
  BY <1>3, <1>4, BlankIsAState
<1>5. ASSUME NEW s \in States, s.at \in 1 .. 10, NEW v, Follows(s, v), t = After(s, v)
      PROVE  Was(t)
  <2>1. s.at # 6
    BY <1>2, <1>5 DEF Follows, PepDecided
  <2>2. s.at = 5 => v = TRUE
    <3>1. files.lists.pep \in BOOLEAN
      BY DEF KycTypeOK, Files
    <3> QED
      BY <1>5, <3>1 DEF Follows
  <2>3. /\ t.at = s.at + 1
        /\ t.pool["pep"] = IF s.at = 5 THEN v ELSE s.pool["pep"]
        /\ t.pool["pep_decision"] = IF s.at = 6 THEN v ELSE s.pool["pep_decision"]
    BY <1>2, <1>5, AfterByPlace, KeysByPlace
  <2>4. t.at > 5 => t.pool["pep"] = TRUE
    BY <1>3, <1>5, <2>2, <2>3
  <2>5. t.at > 6 => s.at > 6 /\ t.pool["pep_decision"] = s.pool["pep_decision"]
    BY <1>5, <2>1, <2>3
  <2> QED
    BY <1>3, <2>4, <2>5
<1>6. ASSUME NEW p \in Processes, NEW v \in Verdicts, given[p] = None,
             given' = [given EXCEPT ![p] = v], thread.at \in {6, 9}, t = After(thread, v)
      PROVE  Was(t)
  <2>1. thread \in States
    BY DEF States
  <2>2. /\ t.at = thread.at + 1
        /\ t.pool["pep"] = thread.pool["pep"]
        /\ t.pool["pep_decision"] = IF thread.at = 6 THEN v ELSE thread.pool["pep_decision"]
    BY <1>2, <1>6, <2>1, AfterByPlace, KeysByPlace
  <2>3. thread.pool["pep"] = TRUE
    BY <1>3, <1>6, <2>1
  <2>4. Given(t.pool["pep_decision"])'
    <3>1. CASE thread.at = 6
      BY <1>6, <2>2, <3>1, NewVerdict
    <3>2. CASE thread.at = 9
      BY <1>3, <2>1, <2>2, <3>2
    <3> QED
      BY <1>6, <3>1, <3>2
  <2> QED
    BY <2>2, <2>3, <2>4
<1> QED
  BY <1>1, <1>4, <1>5, <1>6 DEF Comes

LEMMA ArtStaysDecided ==
    KycTypeOK /\ (\A s \in States : ArtDecided(s)) /\ files.holdings.hasArt /\ [Next]_kycVars
        => (\A s \in States : ArtDecided(s))'
<1> SUFFICES ASSUME KycTypeOK, \A s \in States : ArtDecided(s), files.holdings.hasArt,
                    [Next]_kycVars, NEW t \in States'
             PROVE  ArtDecided(t)'
  <2>1. ASSUME \A t \in States' : ArtDecided(t)' PROVE (\A s \in States : ArtDecided(s))'
    BY <2>1 DEF ArtDecided, Given
  <2> QED
    BY <2>1
<1> DEFINE Was(s) == /\ s.at > 8 => s.pool["eligibility"].has_art = TRUE
                     /\ s.at > 9 => Given(s.pool["art_decision"])'
<1>0. SUFFICES Was(t)
  BY DEF ArtDecided, Given
<1>1. Comes(t)
  BY StatesDescend
<1>2. \A s \in States : StateOK(s) /\ s.at \in 1 .. 11 /\ ArtDecided(s)
  BY PoolByKey DEF KycTypeOK
<1>3. \A s \in States : Was(s)
  BY <1>2, GivenVerdictsStay DEF ArtDecided
<1>4. CASE t \in States \cup {Blank}
  BY <1>3, <1>4, BlankIsAState
<1>5. ASSUME NEW s \in States, s.at \in 1 .. 10, NEW v, Follows(s, v), t = After(s, v)
      PROVE  Was(t)
  <2>1. s.at # 9
    BY <1>2, <1>5 DEF Follows, ArtDecided
  <2>2. s.at = 8 => v.has_art = TRUE
    <3>1. files.holdings.hasArt \in BOOLEAN
      BY DEF KycTypeOK, Files
    <3> QED
      BY <1>5, <3>1 DEF Follows
  <2>3. /\ t.at = s.at + 1
        /\ t.pool["eligibility"] = IF s.at = 8 THEN v ELSE s.pool["eligibility"]
        /\ t.pool["art_decision"] = IF s.at = 9 THEN v ELSE s.pool["art_decision"]
    BY <1>2, <1>5, AfterByPlace, KeysByPlace
  <2>4. t.at > 8 => t.pool["eligibility"].has_art = TRUE
    BY <1>3, <1>5, <2>2, <2>3
  <2>5. t.at > 9 => s.at > 9 /\ t.pool["art_decision"] = s.pool["art_decision"]
    BY <1>5, <2>1, <2>3
  <2> QED
    BY <1>3, <2>4, <2>5
<1>6. ASSUME NEW p \in Processes, NEW v \in Verdicts, given[p] = None,
             given' = [given EXCEPT ![p] = v], thread.at \in {6, 9}, t = After(thread, v)
      PROVE  Was(t)
  <2>1. thread \in States
    BY DEF States
  <2>2. /\ t.at = thread.at + 1
        /\ t.pool["eligibility"] = thread.pool["eligibility"]
        /\ thread.at = 9 => t.pool["art_decision"] = v
    BY <1>2, <1>6, <2>1, AfterByPlace, KeysByPlace
  <2>3. CASE thread.at = 6
    BY <2>2, <2>3
  <2>4. CASE thread.at = 9
    <3>1. Given(t.pool["art_decision"])'
      BY <1>6, <2>2, <2>4, NewVerdict
    <3>2. t.pool["eligibility"].has_art = TRUE
      BY <1>3, <2>1, <2>2, <2>4
    <3> QED
      BY <3>1, <3>2
  <2> QED
    BY <1>6, <2>3, <2>4
<1> QED
  BY <1>1, <1>4, <1>5, <1>6 DEF Comes

LEMMA BothStayDecided ==
    ASSUME KycTypeOK, \A s \in States : PepDecided(s) /\ ArtDecided(s) /\ BothDecided(s),
           files.lists.pep, files.holdings.hasArt, [Next]_kycVars
    PROVE  (\A s \in States : BothDecided(s))'
<1> DEFINE Was(s) ==
        s.at > 9 =>
            /\ s.pool["pep_decision"] \in Verdicts /\ s.pool["art_decision"] \in Verdicts
            /\ \E p, q \in Processes :
                /\ p # q
                /\ given'[p] = s.pool["pep_decision"] /\ given'[q] = s.pool["art_decision"]
<1> SUFFICES ASSUME NEW t \in States' PROVE Was(t)
  BY DEF BothDecided
<1>1. Comes(t)
  BY StatesDescend
<1>2. \A s \in States : /\ StateOK(s) /\ s.at \in 1 .. 11
                        /\ PepDecided(s) /\ ArtDecided(s) /\ BothDecided(s)
  BY PoolByKey DEF KycTypeOK
<1>3. \A s \in States : Was(s)
  BY <1>2, GivenStays, NoneIsNothing DEF BothDecided
<1>4. CASE t \in States \cup {Blank}
  BY <1>3, <1>4, BlankIsAState
<1>5. ASSUME NEW s \in States, s.at \in 1 .. 10, NEW v, Follows(s, v), t = After(s, v)
      PROVE  Was(t)
  <2>1. s.at # 9
    BY <1>2, <1>5 DEF Follows, ArtDecided
  <2>2. /\ t.at = s.at + 1
        /\ s.at > 6 => t.pool["pep_decision"] = s.pool["pep_decision"]
        /\ s.at > 9 => t.pool["art_decision"] = s.pool["art_decision"]
    BY <1>2, <1>5, AfterByPlace, KeysByPlace
  <2>3. t.at > 9 => /\ s.at > 9 /\ t.pool["pep_decision"] = s.pool["pep_decision"]
                    /\ t.pool["art_decision"] = s.pool["art_decision"]
    BY <1>5, <2>1, <2>2
  <2> QED
    BY <1>3, <2>3
<1>6. ASSUME NEW p \in Processes, NEW v \in Verdicts, given[p] = None,
             given' = [given EXCEPT ![p] = v], thread.at \in {6, 9}, t = After(thread, v)
      PROVE  Was(t)
  <2>1. thread \in States
    BY DEF States
  <2>2. /\ t.at = thread.at + 1
        /\ thread.at = 9 => /\ t.pool["pep_decision"] = thread.pool["pep_decision"]
                            /\ t.pool["art_decision"] = v
    BY <1>2, <1>6, <2>1, AfterByPlace, KeysByPlace
  <2>3. CASE thread.at = 6
    BY <2>2, <2>3
  <2>4. CASE thread.at = 9
    <3>1. PICK q \in Processes : given[q] = thread.pool["pep_decision"] /\ given[q] \in Verdicts
      BY <1>2, <2>1, <2>4 DEF PepDecided, Given
    <3>2. given'[q] = given[q] /\ q # p
      BY <1>6, <3>1, GivenStays, NoneIsNothing
    <3>3. given'[p] = v
      BY <1>6, NewVerdict
    <3> QED
      BY <2>2, <2>4, <3>1, <3>2, <3>3
  <2> QED
    BY <1>6, <2>3, <2>4
<1> QED
  BY <1>1, <1>4, <1>5, <1>6 DEF Comes

LEMMA InitDecided == Init => \A s \in States : PepDecided(s) /\ ArtDecided(s) /\ BothDecided(s)
BY InitStates, BlankIsAState DEF PepDecided, ArtDecided, BothDecided

\* A state with an outcome is at its end.
LEMMA OutcomeAtTheEnd ==
    ASSUME KycTypeOK, NEW s \in States, s.pool["outcome"] # None
    PROVE  s.at = 11
<1>1. StateOK(s)
  BY DEF KycTypeOK
<1> QED
  BY <1>1, PoolByKey

\* Whoever is a PEP, or owns art, for as long as the run takes gets no outcome without
\* a person's decision for each of the two, although several may decide at once
\* (kyc_onboarding.py:336-390, cli.py:336-374).
THEOREM MatchesAreDecidedByHand == Spec => MatchesAreDecided
<1>1. Spec => ([]files.lists.pep => []OutcomesAreDecided({"pep_decision"}))
  <2>1. Init => \A s \in States : PepDecided(s)
    BY InitDecided
  <2>2. KycTypeOK /\ (\A s \in States : PepDecided(s)) => OutcomesAreDecided({"pep_decision"})
    <3> SUFFICES ASSUME KycTypeOK, \A s \in States : PepDecided(s),
                        NEW s \in States, s.pool["outcome"] # None
                 PROVE  DecidedByHand(s.pool, {"pep_decision"})
      BY DEF OutcomesAreDecided
    <3>1. s.at > 6
      BY OutcomeAtTheEnd
    <3>2. PICK p \in Processes : given[p] = s.pool["pep_decision"] /\ given[p] \in Verdicts
      BY <3>1 DEF PepDecided, Given
    <3>3. [k \in {"pep_decision"} |-> p] \in [{"pep_decision"} -> Processes]
      OBVIOUS
    <3> QED
      BY <3>2, <3>3 DEF DecidedByHand
  <2> QED
    BY <2>1, <2>2, PepStaysDecided, KycTypeInit, KycTypeNext, PTL DEF Spec
<1>2. Spec => ([]files.holdings.hasArt => []OutcomesAreDecided({"art_decision"}))
  <2>1. Init => \A s \in States : ArtDecided(s)
    BY InitDecided
  <2>2. KycTypeOK /\ (\A s \in States : ArtDecided(s)) => OutcomesAreDecided({"art_decision"})
    <3> SUFFICES ASSUME KycTypeOK, \A s \in States : ArtDecided(s),
                        NEW s \in States, s.pool["outcome"] # None
                 PROVE  DecidedByHand(s.pool, {"art_decision"})
      BY DEF OutcomesAreDecided
    <3>1. s.at > 9
      BY OutcomeAtTheEnd
    <3>2. PICK p \in Processes : given[p] = s.pool["art_decision"] /\ given[p] \in Verdicts
      BY <3>1 DEF ArtDecided, Given
    <3>3. [k \in {"art_decision"} |-> p] \in [{"art_decision"} -> Processes]
      OBVIOUS
    <3> QED
      BY <3>2, <3>3 DEF DecidedByHand
  <2> QED
    BY <2>1, <2>2, ArtStaysDecided, KycTypeInit, KycTypeNext, PTL DEF Spec
<1>3. Spec => ([]files.lists.pep /\ []files.holdings.hasArt
                 => []OutcomesAreDecided({"pep_decision", "art_decision"}))
  <2> DEFINE Pep == \A s \in States : PepDecided(s)
             Art == \A s \in States : ArtDecided(s)
             Both == \A s \in States : BothDecided(s)
  <2>1. Init => Pep /\ Art /\ Both
    BY InitDecided
  <2>2. KycTypeOK /\ Both => OutcomesAreDecided({"pep_decision", "art_decision"})
    <3> SUFFICES ASSUME KycTypeOK, Both, NEW s \in States, s.pool["outcome"] # None
                 PROVE  DecidedByHand(s.pool, {"pep_decision", "art_decision"})
      BY DEF OutcomesAreDecided
    <3> DEFINE keys == {"pep_decision", "art_decision"}
    <3>0. s.at > 9
      BY OutcomeAtTheEnd
    <3>1. PICK p \in Processes, q \in Processes :
            /\ p # q
            /\ given[p] = s.pool["pep_decision"] /\ given[q] = s.pool["art_decision"]
            /\ s.pool["pep_decision"] \in Verdicts /\ s.pool["art_decision"] \in Verdicts
      BY <3>0 DEF BothDecided
    <3> DEFINE own == [k \in keys |-> IF k = "pep_decision" THEN p ELSE q]
    <3>2. own \in [keys -> Processes]
      OBVIOUS
    <3>3. own["pep_decision"] = p /\ own["art_decision"] = q
      OBVIOUS
    <3>4. \A k \in keys : s.pool[k] \in Verdicts /\ s.pool[k] = given[own[k]]
      BY <3>1, <3>3
    <3>5. \A k, l \in keys : own[k] = own[l] => k = l
      BY <3>1, <3>3
    <3> QED
      BY <3>2, <3>4, <3>5 DEF DecidedByHand
  <2>3. KycTypeOK /\ Pep /\ Art /\ Both /\ files.lists.pep /\ files.holdings.hasArt
            /\ [Next]_kycVars => Both'
    BY BothStayDecided
  <2>4. KycTypeOK /\ Pep /\ files.lists.pep /\ [Next]_kycVars => Pep'
    BY PepStaysDecided
  <2>5. KycTypeOK /\ Art /\ files.holdings.hasArt /\ [Next]_kycVars => Art'
    BY ArtStaysDecided
  <2> HIDE DEF Pep, Art, Both
  <2> QED
    BY <2>1, <2>2, <2>3, <2>4, <2>5, KycTypeInit, KycTypeNext, PTL DEF Spec
<1> QED
  BY <1>1, <1>2, <1>3 DEF MatchesAreDecided

-----------------------------------------------------------------------------
(* What reviewers are shown *)

Workers == {p \in Processes : Running(p)}

\* As long as no decision was taken while a process worked on the run, there is one
\* process at most, and what it has saved is the checkpoint.
OneAtATime ==
    /\ \A p, q \in Workers : p = q
    /\ \A p \in Workers : process[p].saved => process[p].state = thread

\* What was shown at a gate is still there, in the checkpoint and in the process.
LiveStates == {thread} \cup {process[p].state : p \in Workers}

PepShown(s, row) ==
    /\ s.at >= 6
    /\ s.pool["pep"] = TRUE /\ s.pool["adverse_media"] = row.adverse_media

ArtShown(s, row) == s.at >= 9 /\ s.pool["eligibility"] = row.eligibility

ShownKept ==
    \A s \in LiveStates :
        /\ shown["pep_gate"] # None => PepShown(s, shown["pep_gate"])
        /\ shown["art_gate"] # None => ArtShown(s, shown["art_gate"])

Alone == alone => OneAtATime /\ ShownKept

\* The outcome of a state is that of its pool.
OutcomeReports(s) ==
    s.pool["outcome"] # None =>
        /\ s.pool["outcome"].is_pep = s.pool["pep"]
        /\ s.pool["outcome"].implicating = Implicating(s.pool["adverse_media"])
        /\ s.pool["outcome"].tier = s.pool["eligibility"].tier

LEMMA OutcomeStays ==
    KycTypeOK /\ (\A s \in States : OutcomeReports(s)) /\ [Next]_kycVars
        => (\A s \in States : OutcomeReports(s))'
<1> SUFFICES ASSUME KycTypeOK, \A s \in States : OutcomeReports(s),
                    [Next]_kycVars, NEW t \in States'
             PROVE  OutcomeReports(t)
  BY DEF OutcomeReports
<1>1. Comes(t)
  BY StatesDescend
<1>2. \A s \in States : StateOK(s) /\ s.at \in 1 .. 11 /\ OutcomeReports(s)
  BY PoolByKey DEF KycTypeOK
<1>3. CASE t \in States \cup {Blank}
  BY <1>2, <1>3, BlankIsAState, KeysByPlace, KeysAreProduced DEF OutcomeReports
<1>4. ASSUME NEW s \in States, s.at \in 1 .. 10, NEW v, Follows(s, v), t = After(s, v)
      PROVE  OutcomeReports(t)
  <2>1. CASE s.at = 10
    <3>1. /\ t.pool["outcome"] = v /\ t.pool["pep"] = s.pool["pep"]
          /\ t.pool["adverse_media"] = s.pool["adverse_media"]
          /\ t.pool["eligibility"] = s.pool["eligibility"]
      BY <1>2, <1>4, <2>1, AfterByPlace, KeysByPlace
    <3>2. v = Outcome(s.pool, s.pool["eligibility"].tier)
      BY <1>4, <2>1 DEF Follows
    <3> QED
      BY <3>1, <3>2 DEF Outcome, OutcomeReports
  <2>2. CASE s.at # 10
    <3>1. t.pool["outcome"] = s.pool["outcome"]
      BY <1>2, <1>4, <2>2, AfterByPlace, KeysByPlace
    <3>2. s.pool["outcome"] = None
      BY <1>2, <1>4, PoolByKey
    <3> QED
      BY <3>1, <3>2 DEF OutcomeReports
  <2> QED
    BY <2>1, <2>2
<1>5. ASSUME thread.at \in {6, 9}, NEW v, t = After(thread, v)
      PROVE  OutcomeReports(t)
  <2>1. thread \in States /\ thread.at \in 1 .. 10 /\ thread.at # 10
    BY <1>5 DEF States
  <2>2. t.pool["outcome"] = thread.pool["outcome"]
    BY <1>2, <1>5, <2>1, AfterByPlace, KeysByPlace
  <2>3. thread.pool["outcome"] = None
    BY <1>2, <2>1, PoolByKey
  <2> QED
    BY <2>2, <2>3 DEF OutcomeReports
<1> QED
  BY <1>1, <1>3, <1>4, <1>5 DEF Comes

\* A step behind a gate, or a decision at one, leaves what was shown as it is.
LEMMA ShownSurvives ==
    ASSUME NEW s, StateOK(s), s.at \in 1 .. 10, NEW v, NEW row
    PROVE  /\ PepShown(s, row) => PepShown(After(s, v), row)
           /\ ArtShown(s, row) => ArtShown(After(s, v), row)
<1> DEFINE t == After(s, v)
<1>1. /\ t.at = s.at + 1
      /\ s.at # 5 => t.pool["pep"] = s.pool["pep"]
      /\ s.at # 4 => t.pool["adverse_media"] = s.pool["adverse_media"]
      /\ s.at # 8 => t.pool["eligibility"] = s.pool["eligibility"]
  BY AfterByPlace, KeysByPlace
<1>2. PepShown(s, row) => PepShown(t, row)
  BY <1>1 DEF PepShown
<1>3. ArtShown(s, row) => ArtShown(t, row)
  BY <1>1 DEF ArtShown
<1> QED
  BY <1>2, <1>3

\* A process that works, and the rest.
LEMMA WorkersByPlace ==
    ASSUME KycTypeOK, NEW p \in Processes, NEW state, NEW saved,
           process' = [process EXCEPT ![p] = Working(state, saved)]
    PROVE  /\ Workers' = Workers \cup {p}
           /\ process'[p].state = state /\ process'[p].saved = saved
           /\ \A q \in Processes : q # p => process'[q] = process[q]
<1>1. \A q \in Processes : process'[q] = IF q = p THEN Working(state, saved) ELSE process[q]
  BY DEF KycTypeOK
<1> QED
  BY <1>1 DEF Workers, Running, Working

LEMMA WorkersWithout ==
    ASSUME KycTypeOK, NEW p \in Processes, process' = [process EXCEPT ![p] = Ended]
    PROVE  /\ Workers' = Workers \ {p}
           /\ \A q \in Workers' : process'[q] = process[q]
<1>1. \A q \in Processes : process'[q] = IF q = p THEN Ended ELSE process[q]
  BY DEF KycTypeOK
<1> QED
  BY <1>1 DEF Workers, Running, Ended

LEMMA AloneStays == KycTypeOK /\ Alone /\ [Next]_kycVars => Alone'
<1> SUFFICES ASSUME KycTypeOK, Alone, [Next]_kycVars, alone' PROVE OneAtATime' /\ ShownKept'
  BY DEF Alone
<1>0. /\ alone => OneAtATime /\ ShownKept
      /\ thread \in LiveStates /\ StateOK(thread)
      /\ \A q \in Processes : StateOK(process[q].state)
      /\ \A q \in Workers : process[q].state \in LiveStates
  BY DEF Alone, LiveStates, KycTypeOK, States, Workers
<1>1. ASSUME NEW p \in Processes, Running(p), Produced(p) PROVE OneAtATime' /\ ShownKept'
  <2> DEFINE s == process[p].state
  <2>1. PICK v : Produce(p, v)
    BY <1>1 DEF Produced
  <2>2. s.at \in 1 .. 10
    BY <1>1 DEF Produced
  <2>3. process' = [process EXCEPT ![p] = Working(After(s, v), FALSE)]
    BY <2>1 DEF Produce
  <2>4. thread' = thread /\ shown' = shown /\ alone' = alone
    BY <2>1 DEF Produce
  <2>5. /\ Workers' = Workers \cup {p} /\ p \in Workers
        /\ process'[p].state = After(s, v) /\ process'[p].saved = FALSE
        /\ \A q \in Processes : q # p => process'[q] = process[q]
    BY <1>1, <2>3, WorkersByPlace DEF Workers
  <2>6. OneAtATime /\ ShownKept
    BY <1>0, <2>4
  <2>7. OneAtATime'
    BY <2>4, <2>5, <2>6 DEF OneAtATime
  <2>8. \A u \in LiveStates' : u = thread \/ u = After(s, v)
    BY <2>4, <2>5, <2>6 DEF LiveStates, OneAtATime
  <2>9. ShownKept'
    BY <1>0, <2>2, <2>4, <2>5, <2>6, <2>8, ShownSurvives DEF ShownKept
  <2> QED
    BY <2>7, <2>9
<1>2. ASSUME NEW p \in Processes, Running(p), Over(p) PROVE OneAtATime' /\ ShownKept'
  <2>1. thread' = thread /\ shown' = shown /\ alone' = alone
    BY <1>2 DEF Over
  <2>2. Workers' = Workers \ {p} /\ \A q \in Workers' : process'[q] = process[q]
    BY <1>2, WorkersWithout DEF Over
  <2>3. LiveStates' \subseteq LiveStates
    BY <2>1, <2>2 DEF LiveStates
  <2> QED
    BY <1>0, <2>1, <2>2, <2>3 DEF OneAtATime, ShownKept
<1>3. ASSUME NEW p \in Processes, Running(p), Paused(p) PROVE OneAtATime' /\ ShownKept'
  <2>1. thread' = thread /\ alone' = alone /\ process[p].saved
    BY <1>3 DEF Paused
  <2>2. Workers' = Workers \ {p} /\ p \in Workers
    BY <1>3, WorkersWithout DEF Paused, Workers
  <2>3. OneAtATime /\ ShownKept
    BY <1>0, <2>1
  <2>4. process[p].state = thread /\ Workers' = {}
    BY <2>1, <2>2, <2>3 DEF OneAtATime
  <2>5. OneAtATime' /\ LiveStates' = {thread}
    BY <2>1, <2>4 DEF OneAtATime, LiveStates
  <2>6. DOMAIN shown = {"pep_gate", "art_gate"}
    BY DEF KycTypeOK
  <2>7. CASE PausedForPep(p)
    <3>1. /\ thread.at = 6 /\ thread.pool["pep"] = TRUE
          /\ shown'["pep_gate"].adverse_media = thread.pool["adverse_media"]
          /\ shown'["art_gate"] = shown["art_gate"]
      BY <2>4, <2>6, <2>7 DEF PausedForPep, Pool
    <3>2. PepShown(thread, shown'["pep_gate"])
      BY <3>1 DEF PepShown
    <3> QED
      BY <1>0, <2>3, <2>5, <3>1, <3>2 DEF ShownKept
  <2>8. CASE PausedForArt(p)
    <3>1. /\ thread.at = 9
          /\ shown'["art_gate"].eligibility = thread.pool["eligibility"]
          /\ shown'["pep_gate"] = shown["pep_gate"]
      BY <2>4, <2>6, <2>8 DEF PausedForArt, Pool
    <3>2. ArtShown(thread, shown'["art_gate"])
      BY <3>1 DEF ArtShown
    <3> QED
      BY <1>0, <2>3, <2>5, <3>1, <3>2 DEF ShownKept
  <2> QED
    BY <1>3, <2>7, <2>8 DEF Paused
<1>4. ASSUME NEW p \in Processes, Running(p), Save(p) PROVE OneAtATime' /\ ShownKept'
  <2>1. /\ process' = [process EXCEPT ![p] = Working(process[p].state, TRUE)]
        /\ thread' = process[p].state /\ shown' = shown /\ alone' = alone
    BY <1>4 DEF Save
  <2>2. /\ Workers' = Workers \cup {p} /\ p \in Workers
        /\ process'[p].state = process[p].state
        /\ \A q \in Processes : q # p => process'[q] = process[q]
    BY <1>4, <2>1, WorkersByPlace DEF Workers
  <2>3. OneAtATime /\ ShownKept
    BY <1>0, <2>1
  <2>4. OneAtATime' /\ LiveStates' = {process[p].state}
    BY <2>1, <2>2, <2>3 DEF OneAtATime, LiveStates
  <2> QED
    BY <1>0, <2>1, <2>2, <2>3, <2>4 DEF ShownKept
<1>5. ASSUME NEW p \in Processes, NEW v \in Verdicts, Decide(p, v)
      PROVE  OneAtATime' /\ ShownKept'
  <2>1. thread' = thread /\ shown' = shown /\ alone /\ Unattended
    BY <1>5, DecideByPlace
  <2>2. Workers = {} /\ OneAtATime /\ ShownKept
    BY <1>0, <2>1 DEF Unattended, Workers
  <2>3. PICK state, saved :
            /\ process' = [process EXCEPT ![p] = Working(state, saved)]
            /\ \/ state = thread
               \/ saved = FALSE /\ thread.at \in {6, 9} /\ state = After(thread, v)
    BY <1>5, DecideByPlace
  <2>4. Workers' = {p} /\ process'[p].state = state /\ process'[p].saved = saved
    <3>1. process' = [process EXCEPT ![p] = Working(state, saved)]
      BY <2>3
    <3>2. /\ Workers' = Workers \cup {p}
          /\ process'[p].state = state /\ process'[p].saved = saved
      BY <3>1, WorkersByPlace
    <3> QED
      BY <2>2, <3>2
  <2>5. OneAtATime' /\ LiveStates' = {thread, state}
    BY <2>1, <2>3, <2>4 DEF OneAtATime, LiveStates
  <2>6. thread.at \in {6, 9} => thread.at \in 1 .. 10
    OBVIOUS
  <2> QED
    BY <1>0, <2>1, <2>2, <2>3, <2>5, <2>6, ShownSurvives DEF ShownKept
<1>6. CASE Edit \/ UNCHANGED kycVars
  <2>1. UNCHANGED <<process, thread, shown, alone>>
    BY <1>6 DEF Edit, kycVars
  <2> QED
    BY <1>0, <2>1 DEF OneAtATime, ShownKept, LiveStates, Workers, Running
<1> QED
  BY <1>1, <1>2, <1>3, <1>4, <1>5, <1>6, KindsOfStep

\* Unless a decision was taken while a process worked on the run, the outcome reports
\* what the reviewers were shown, although agents answer differently each time and
\* files change while a run waits (kyc_onboarding.py:262-283).
THEOREM ShownIsReported == Spec => []OutcomeIsWhatWasShown
<1> DEFINE Reports == \A s \in States : OutcomeReports(s)
<1>1. Init => Alone /\ Reports
  <2> SUFFICES ASSUME Init PROVE Alone /\ Reports
    OBVIOUS
  <2>1. Reports
    BY InitStates, BlankIsAState, KeysByPlace, KeysAreProduced DEF OutcomeReports
  <2>2. Workers \subseteq {1} /\ \A p \in Workers : process[p].state = thread
    BY DEF Init, Workers, Running, Idle, Working
  <2>3. shown["pep_gate"] = None /\ shown["art_gate"] = None
    BY DEF Init
  <2> QED
    BY <2>1, <2>2, <2>3 DEF Alone, OneAtATime, ShownKept
<1>2. KycTypeOK /\ Alone /\ Reports => OutcomeIsWhatWasShown
  <2> SUFFICES ASSUME KycTypeOK, Alone, Reports, alone,
                      NEW s \in States, s.pool["outcome"] # None
               PROVE  /\ shown["pep_gate"] # None =>
                            /\ s.pool["outcome"].is_pep
                            /\ s.pool["outcome"].implicating
                                    = Implicating(shown["pep_gate"].adverse_media)
                      /\ shown["art_gate"] # None =>
                            s.pool["outcome"].tier = shown["art_gate"].eligibility.tier
    BY DEF OutcomeIsWhatWasShown
  <2>1. s # Blank
    BY OutcomeAtTheEnd, BlankIsAState
  <2>2. s \in LiveStates
    <3>1. \A p \in Processes : p \notin Workers => process[p].state = Blank
      BY DEF KycTypeOK, Workers, Running, Idle, Ended, Working
    <3> QED
      BY <2>1, <3>1 DEF States, LiveStates
  <2>3. OutcomeReports(s)
    OBVIOUS
  <2> QED
    BY <2>2, <2>3 DEF Alone, ShownKept, PepShown, ArtShown, OutcomeReports
<1>3. KycTypeOK /\ Reports /\ [Next]_kycVars => Reports'
  BY OutcomeStays
<1> HIDE DEF Reports
<1> QED
  BY <1>1, <1>2, <1>3, AloneStays, KycTypeInit, KycTypeNext, PTL DEF Spec

-----------------------------------------------------------------------------
(* Tiers *)

LEMMA AmountsAreNumbers ==
    ASSUME NEW h \in Holdings
    PROVE  /\ h.income \in Nat /\ h.savings \in Nat
           /\ Conventional(h) \in Nat /\ Alternative(h) \in Nat /\ TwiceQualifying(h) \in Nat
<1>1. /\ h.income \in Nat /\ h.savings \in Nat /\ h.investable \in Nat
      /\ h.liquid \in Nat /\ h.art \in Nat /\ h.crypto \in Nat
  OBVIOUS
<1>2. Conventional(h) \in Nat /\ Alternative(h) \in Nat
  BY <1>1 DEF Conventional, Alternative
<1> QED
  BY <1>1, <1>2 DEF TwiceQualifying, Least

LEMMA LeastIsMonotone ==
    ASSUME NEW a \in Nat, NEW b \in Nat, NEW c \in Nat, NEW d \in Nat, a <= c, b <= d
    PROVE  Least(a, b) <= Least(c, d) /\ Least(a, b) \in Nat /\ Least(c, d) \in Nat
BY DEF Least

LEMMA MoreQualifies ==
    ASSUME NEW h \in Holdings, NEW g \in Holdings, OwnsMore(g, h)
    PROVE  /\ Conventional(g) >= Conventional(h)
           /\ TwiceQualifying(g) >= TwiceQualifying(h)
           /\ PremiumMeans(h) => PremiumMeans(g)
<1>1. /\ h.income \in Nat /\ h.savings \in Nat /\ h.investable \in Nat
      /\ h.liquid \in Nat /\ h.art \in Nat /\ h.crypto \in Nat
  OBVIOUS
<1>2. /\ g.income \in Nat /\ g.savings \in Nat /\ g.investable \in Nat
      /\ g.liquid \in Nat /\ g.art \in Nat /\ g.crypto \in Nat
  OBVIOUS
<1>3. {"income", "savings", "investable", "liquid", "art", "crypto"}
        \subseteq DOMAIN h \ {"hasArt"}
  OBVIOUS
<1>4. /\ g.income >= h.income /\ g.savings >= h.savings /\ g.investable >= h.investable
      /\ g.liquid >= h.liquid /\ g.art >= h.art /\ g.crypto >= h.crypto
  BY <1>3 DEF OwnsMore
<1>5. Conventional(g) >= Conventional(h) /\ Alternative(g) >= Alternative(h)
  BY <1>1, <1>2, <1>4 DEF Conventional, Alternative
<1>6. PremiumMeans(h) => PremiumMeans(g)
  BY <1>1, <1>2, <1>4 DEF PremiumMeans, PREMIUM_INCOME_EUR, PREMIUM_SAVINGS_EUR
<1>7. TwiceQualifying(g) >= TwiceQualifying(h)
  <2>1. /\ Conventional(g) \in Nat /\ Alternative(g) \in Nat
        /\ Conventional(h) \in Nat /\ Alternative(h) \in Nat
    BY AmountsAreNumbers
  <2>2. PICK c \in Nat, a \in Nat, d \in Nat, b \in Nat :
            /\ c = Conventional(g) /\ a = Alternative(g)
            /\ d = Conventional(h) /\ b = Alternative(h)
    BY <2>1
  <2>3. c >= d /\ a >= b
    BY <1>5, <2>2
  <2>4. PICK x \in Nat, y \in Nat, u \in Nat, w \in Nat :
            x = 2 * b /\ y = d + b /\ u = 2 * a /\ w = c + a
    OBVIOUS
  <2>5. x <= u /\ y <= w
    BY <2>3, <2>4
  <2>6. Least(x, y) <= Least(u, w) /\ Least(x, y) \in Nat /\ Least(u, w) \in Nat
    BY <2>5, LeastIsMonotone
  <2>7. PICK p \in Nat, q \in Nat : p = Least(x, y) /\ q = Least(u, w)
    BY <2>6
  <2>8. p <= q
    BY <2>6, <2>7
  <2>9. 2 * d + p <= 2 * c + q
    BY <2>3, <2>8
  <2>10. TwiceQualifying(g) = 2 * c + q /\ TwiceQualifying(h) = 2 * d + p
    BY <2>2, <2>4, <2>7, Zenon DEF TwiceQualifying
  <2> QED
    BY <2>9, <2>10
<1> QED
  BY <1>5, <1>6, <1>7

\* Owning more never lowers the tier, in particular not where more than half of it is
\* art and crypto (kyc_onboarding.py:215-239).
THEOREM RicherNeverLower == Spec => []RicherIsNotLower
<1>1. KycTypeOK => RicherIsNotLower
  <2> SUFFICES ASSUME KycTypeOK, NEW g \in Holdings, OwnsMore(g, files.holdings)
               PROVE  Rank[Tier(files.clients, g)] >= Rank[Tier(files.clients, files.holdings)]
    BY DEF RicherIsNotLower
  <2> DEFINE h == files.holdings
             client == files.clients
  <2>1. h \in Holdings
    BY DEF KycTypeOK, Files
  <2>2. /\ Conventional(g) >= Conventional(h)
        /\ TwiceQualifying(g) >= TwiceQualifying(h)
        /\ PremiumMeans(h) => PremiumMeans(g)
    BY <2>1, MoreQualifies
  <2>3. /\ Conventional(g) \in Nat /\ Conventional(h) \in Nat
        /\ TwiceQualifying(g) \in Nat /\ TwiceQualifying(h) \in Nat
    BY <2>1, AmountsAreNumbers
  <2>4. /\ Rank["ineligible"] = 0 /\ Rank["premium"] = 1
        /\ Rank["private_banking_hnwi"] = 2 /\ Rank["private_banking_uhnwi"] = 3
    BY DEF Rank
  <2> QED
    BY <2>2, <2>3, <2>4 DEF Tier, UHNWI_MINIMUM_EUR, HNWI_MINIMUM_EUR
<1> QED
  BY <1>1, KycTypeCorrect, PTL
=============================================================================
