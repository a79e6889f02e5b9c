---------------------------- MODULE MCAdminRelay ----------------------------
(***************************************************************************)
(* Administration for TLC, in two scenarios.  In the first, the one of the *)
(* configuration's constants, two-step handovers, roles, links and         *)
(* migrations are signed and delivered in any order and repeatedly, with   *)
(* recoveries in between.  In the second guardians recover the admin       *)
(* against the ledger clock, under reconfiguration, cancellation and the   *)
(* ordinary ways to change the admin, and every call arrives at once.      *)
(***************************************************************************)
EXTENDS Administration, TLC

CONSTANTS a1, a2, a3

VARIABLE scenario

Trio == {<<a1, a2, a3>>}

\* Guardian lists an admin may submit: the full set, a pair, one with a
\* duplicate and one that is too long for MaxGuardians = 3.
SubmittedLists == {<<a1, a2, a3>>, <<a1, a2>>, <<a1, a2, a1>>, <<a1, a2, a3, a1>>}

AnyContract == {CHOOSE k \in Contracts : TRUE}

Recovery == INSTANCE RwaAdmin
    WITH Accounts <- Parties, Contracts <- AnyContract, GuardianLists <- SubmittedLists, Thresholds <- {1, 2, 3},
         Cooldowns <- {0, 2, 3}, MaxLedger <- 4, ledger <- sequence

MCInit ==
    \/ scenario = "relay" /\ Relay!RelayInit
    \/ scenario = "recovery" /\ Recovery!Init /\ signed = {} /\ applied = <<>>

MCNext ==
    /\ UNCHANGED scenario
    /\ IF scenario = "relay" THEN Relay!RelayNext ELSE Recovery!Next /\ UNCHANGED <<signed, applied>>

MCSpec == MCInit /\ [][MCNext]_<<Relay!vars, signed, applied, scenario>>

\* Versions are only compared for equality.
Interchangeable == Permutations(Versions)
=============================================================================
