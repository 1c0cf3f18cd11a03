--------------------------- MODULE MCKycOnboarding ---------------------------
(* KycOnboarding for clients like those of workflows/kyc/data. *)
EXTENDS KycOnboarding

Client(country, residency, mayReside) ==
    [listed |-> TRUE, country |-> country, residency |-> residency, mayReside |-> mayReside]

MCClients == {
    Client("DE", "DE", TRUE),
    Client(None, "DE", TRUE),
    [Client("CY", None, FALSE) EXCEPT !.listed = FALSE]}

Stake(stake, country) == [stake |-> stake, country |-> country]

MCInterests == {
    <<Stake(18, "IR")>>,
    <<Stake(18, "DE"), Stake(25, "IR"), Stake(62, "DE")>>}

Holds(income, investable, art, crypto) ==
    [income |-> income, savings |-> 0, investable |-> investable, liquid |-> 0,
     art |-> art, crypto |-> crypto, hasArt |-> art > 0]

MCHoldings == {
    Holds(130, 125, 100, 280),
    Holds(0, 5200, 0, 5200),
    Holds(0, 5200, 1300, 5200)}

Listed(pep, designated, declining) ==
    [pep |-> pep, designated |-> designated,
     effect |-> [c \in {"DE", "CY", "IR"} |-> IF c \in declining THEN "decline" ELSE "clear"]]

MCLists == {Listed(FALSE, FALSE, {"IR"}), Listed(TRUE, FALSE, {"IR"}),
            Listed(FALSE, TRUE, {"IR"}), Listed(TRUE, FALSE, {"DE", "IR"})}

MCFindings == {[role |-> "principal", implicates |-> TRUE]}
=============================================================================
