----------------------------- MODULE MCRwaToken -----------------------------
(***************************************************************************)
(* RwaToken for TLC, in two scenarios.                                     *)
(*                                                                         *)
(* In the first, the one of the configuration's constants, KYC, freezes,   *)
(* engine rules and the holder cap change under transfers, batches, mints  *)
(* and burns, and nobody is approved as a spender.  In the second they     *)
(* stay, and approvals are spent by transfers, batches and burns against   *)
(* the ledger clock.                                                       *)
(***************************************************************************)
EXTENDS RwaToken, TLC

CONSTANTS a1, a2, a3

VARIABLE scenario

\* A spender spends its own approvals too; amounts are also negative.  No supply
\* cap: only the width of the counter bounds minting.
Delegated == INSTANCE RwaToken
    WITH Amounts <- -1..2, MaxSupply <- 0, MaxBatch <- 2, I128Max <- 2, Caps <- {0},
         Screened <- {}, Spenders <- {a2}, MaxLedger <- 3

MCInit == scenario \in {"holders", "allowances"} /\ Init

MCNext ==
    /\ UNCHANGED scenario
    /\ IF scenario = "holders" THEN Next ELSE Delegated!Next /\ balance'[a3] = 0 /\ allowance'[a3] = allowance[a3]

MCSpec == MCInit /\ [][MCNext]_<<vars, scenario>>
=============================================================================
