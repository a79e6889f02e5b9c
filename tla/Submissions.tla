---------------------------- MODULE Submissions ----------------------------
(***************************************************************************)
(* The two programs that submit transactions side by side: the pipeline,   *)
(* by name, and the deployment script, which submits its own, as an        *)
(* instance.  They share no state.                                         *)
(***************************************************************************)
EXTENDS TxPipeline, Sequences

CONSTANTS Names, DependsOn, Configs, MaxVersion, MaxInstances, MaxFaults  \* see Deployment

VARIABLES
    scenario,       \* the program that is looked at, where one is enough
    config, build, ledger, file, run, verdict, faults

scriptVars == <<config, build, ledger, file, run, verdict, faults>>

Deploy == INSTANCE Deployment

ASSUME DeploymentInstance == Deploy!DeploymentAssumption

----------------------------------------------------------------------------
(* Properties of Deployment, stated and explained there *)

\* The manifest and what it names.
ManifestSound == Deploy!ManifestSound

\* Only a new build moves a contract.
OnlyChangesMove == Deploy!OnlyChangesMove

\* The manifest of an ordered config agrees with the builds in the end.
ManifestCatchesUp == scenario = "deployment" => Deploy!CatchesUp
=============================================================================
