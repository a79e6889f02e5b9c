------------------------- MODULE MCComplianceEngine -------------------------
(***************************************************************************)
(* ComplianceEngine for TLC, in two scenarios, and TransferDecision in a   *)
(* third.  In the first, the one of the configuration's constants, rules   *)
(* are proposed, activated, changed at once and paused, with their         *)
(* history, while holders register, are restamped and leave and the clock  *)
(* advances.  In the second both lists                                     *)
(* are filled and emptied in every order, before and after the migration   *)
(* of vectors an older contract left behind; one tier policy, one          *)
(* jurisdiction, its score and the admin handover come and go meanwhile.   *)
(* In the third every decision about transfers between two holders, and    *)
(* about mints, is taken with what any two areas of the settings may hold, *)
(* as records and time move.                                               *)
(***************************************************************************)
EXTENDS EngineDecisions, TLC

CONSTANTS a1, a2, a3, j1, j2, t1, p1

R(max, hold, holders, stop) ==
    [maxAmount |-> max, minHolding |-> hold, maxHolders |-> holders, paused |-> stop]

\* Two sound rule sets, one that caps holders below what may be registered, and
\* two that validation refuses.
Proposals == {R(0, 2, 0, FALSE), R(0, 0, 1, FALSE), R(-1, 0, 0, FALSE), R(0, 9, 0, FALSE)}

\* Timestamps callers may name: before the start of time, now and later.
Moments == {-1, 1, 3}

\* Vectors of schema v1, one of them with a repeated address.
OldLists == {<<a1>>, <<a2, a1>>, <<a1, a2, a1>>}

Lists == INSTANCE ComplianceEngine
    WITH Listable <- {a1, a2}, Registrable <- {}, RuleChoices <- {}, Delay <- 0, Notes <- {}, LegacyLists <- OldLists,
         Stamps <- {}, TierPairs <- {t1}, TierPolicies <- {p1}, Jurisdictions <- {j1}, Scores <- {0},
         MaxHistory <- 4, MaxSchema <- 3, MaxNow <- 1

----------------------------------------------------------------------------
(* Settings and records that decisions are taken with *)

\* Rules that are all off, and one or more of them on.
Off == [maxAmount |-> 0, minHolding |-> 0, maxHolding |-> 0, maxHolders |-> 0,
        sameJurisdiction |-> FALSE, allowlistMode |-> FALSE, paused |-> FALSE]

RuleSets ==
    {Off,
     [Off EXCEPT !.paused = TRUE],
     [Off EXCEPT !.allowlistMode = TRUE],
     [Off EXCEPT !.sameJurisdiction = TRUE, !.maxAmount = 2],
     [Off EXCEPT !.minHolding = 1, !.maxHolding = 2],
     [Off EXCEPT !.maxHolders = 1, !.maxAmount = 1]}

Records == {[approved |-> TRUE,  jurisdiction |-> j1, tier |-> 1],
            [approved |-> TRUE,  jurisdiction |-> j2, tier |-> 2],
            [approved |-> FALSE, jurisdiction |-> j2, tier |-> 1]}

AnyTier == 99

Policy(blocks, max, minFrom, minTo) ==
    [blocked |-> blocks, maxAmount |-> max, minFrom |-> minFrom, minTo |-> minTo]

\* No policy; a cap for one pair; the same under a wildcard that blocks; floors
\* for senders and recipients of any tier.
PolicySets ==
    {[p \in {} |-> {}],
     [p \in {<<1, 2>>} |-> {Policy(FALSE, 2, 0, 0)}],
     [p \in {<<1, 2>>, <<AnyTier, 2>>} |->
        IF p = <<1, 2>> THEN {Policy(FALSE, 1, 0, 0)} ELSE {Policy(TRUE, 0, 0, 0)}],
     [p \in {<<AnyTier, AnyTier>>} |-> {Policy(FALSE, 0, 2, 1)}]}

\* No configuration, one that is switched off, and one that refuses j2 by its
\* score and unknown jurisdictions by the default.
RiskSets ==
    {[config |-> {}, score |-> [j \in {} |-> 0]],
     [config |-> {[max |-> 0, default |-> 5]}, score |-> [j \in {} |-> 0]],
     [config |-> {[max |-> 3, default |-> 5]}, score |-> [j \in {j1, j2} |-> IF j = j1 THEN 0 ELSE 4]]}

\* Nothing set up, and what may be set up in each of the six areas.
Plain == [rules |-> Off, blocklist |-> {}, allowlist |-> {}, blockedJur |-> {},
          tierPolicy |-> [p \in {} |-> {}], risk |-> [config |-> {}, score |-> [j \in {} |-> 0]]]

Choices == [rules |-> RuleSets, blocklist |-> {{}, {a1}, {a2}}, allowlist |-> SUBSET {a1, a2},
            blockedJur |-> {{}, {j1}}, tierPolicy |-> PolicySets, risk |-> RiskSets]

\* Every combination of what two areas may hold.
TwoAreas ==
    UNION {{[Plain EXCEPT ![f] = x, ![g] = y] : x \in Choices[f], y \in Choices[g]}
             : f, g \in DOMAIN Choices}

----------------------------------------------------------------------------

\* What a scenario does not use stays at one of its beginnings.
MCInit ==
    /\ scenario \in {"rules", "lists", "decisions"}
    /\ IF scenario = "lists" THEN Lists!Init ELSE Init
    /\ Decision!Init
    /\ scenario # "decisions" =>
          /\ inForce = Off /\ blocked = {} /\ allowed = {} /\ closed = {}
          /\ policies = Plain.tierPolicy /\ scores = Plain.risk
          /\ \A p \in DOMAIN kyc : kyc[p] = {} /\ stamped[p] = {}

MCNext ==
    /\ UNCHANGED scenario
    /\ CASE scenario = "rules" -> Next
         [] scenario = "lists" -> Lists!Next
         [] scenario = "decisions" -> UNCHANGED vars
    /\ IF scenario = "decisions" THEN Decision!Next ELSE UNCHANGED decisionVars

MCSpec == MCInit /\ [][MCNext]_<<vars, decisionVars, scenario>>
=============================================================================
