-------------------------- MODULE EngineDecisions --------------------------
(***************************************************************************)
(* The compliance engine's two models side by side: its state, which entry *)
(* points change (ComplianceEngine), and the transfer decision, which only *)
(* reads such a state, records of the registry and the clock               *)
(* (TransferDecision).  The decision's copies of what both know have names *)
(* of their own, because it is taken in every state that could be set up,  *)
(* whether or not the other model has got there.  A behaviour is one of    *)
(* one model or of the other.                                              *)
(***************************************************************************)
EXTENDS ComplianceEngine

CONSTANTS
    Token, Settings, KycRecords, Wildcard, Unknown, Amounts,    \* see TransferDecision
    Horizon     \* bound on the clock of decisions

VARIABLES
    scenario,   \* "decisions" where a behaviour is one of the decision
    inForce, blocked, allowed, closed, policies, scores,        \* the engine
    stamped, kyc, time                                          \* holders, registry, clock

decisionVars == <<inForce, blocked, allowed, closed, policies, scores, stamped, kyc, time>>

Decision == INSTANCE TransferDecision
    WITH MaxNow <- Horizon,
         rules <- inForce, blocklist <- blocked, allowlist <- allowed, blockedJur <- closed,
         tierPolicy <- policies, risk <- scores, holderSince <- stamped, now <- time

ASSUME DecisionInstance == Decision!TokenIsNoHolder /\ Decision!SettingsTyped

----------------------------------------------------------------------------
(* Properties, stated and explained in TransferDecision *)

\* Each decision fits the other decisions.
DecisionsAgree == scenario = "decisions" => Decision!DecisionsAgree

\* The clock alone only releases.
ClockReleases == [][scenario = "decisions" => Decision!ClockOnlyReleases]_decisionVars
=============================================================================
