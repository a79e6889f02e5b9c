---------------------------- MODULE MCTxPipeline ----------------------------
(***************************************************************************)
(* The transaction pipeline, or the deployment script for the registry,    *)
(* the engine that needs it and a token that needs both - in the order of  *)
(* the shipped config, out of order, and with the registry disabled.  Each *)
(* is fair as its own module says, where it runs, and the variables of the *)
(* other stay as they begin.                                               *)
(***************************************************************************)
EXTENDS Submissions, TLC

CONSTANTS w1, w2, r1, d1

MCContent == [c \in Calls |-> c]

Needs == "kyc" :> {} @@ "engine" :> {"kyc"} @@ "token" :> {"kyc", "engine"}

MCConfigs == {<<"kyc", "engine", "token">>, <<"engine", "kyc">>, <<"engine", "token">>}

\* Two faults with two contracts, one with three.
Bounded == Len(config) = 3 => faults' < 2

MCInit ==
    /\ scenario \in {"pipeline", "deployment"}
    /\ Init
    /\ Deploy!Init
    /\ scenario = "pipeline" => config = <<"engine", "kyc">>

MCNext ==
    /\ UNCHANGED scenario
    /\ IF scenario = "pipeline" THEN Next ELSE UNCHANGED vars
    /\ IF scenario = "deployment" THEN Deploy!Next /\ Bounded ELSE UNCHANGED scriptVars

\* A pipeline call takes steps only where one has started.
DeploymentFairness == WF_scriptVars(scenario = "deployment" /\ Deploy!Script)

MCSpec == MCInit /\ [][MCNext]_<<scenario, vars, scriptVars>> /\ Fairness /\ DeploymentFairness
=============================================================================
