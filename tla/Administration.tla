--------------------------- MODULE Administration ---------------------------
(***************************************************************************)
(* The administration of the regulated token and the calls signed for it,  *)
(* beside the model of its books (RwaToken): an instance of AdminRelay     *)
(* whose accounts and ledger clock have names of their own.  The token's   *)
(* entry points read the officers from here and change none of this.       *)
(***************************************************************************)
CONSTANTS
    Parties,        \* every address that may sign or be named
    LastLedger,     \* bound on the ledger sequence
    Roles, Governance, Registry, Compliance, Contracts, Versions, GuardianLists,
    Thresholds, Cooldowns, MaxGuardians, MaxNonce, MaxSigned    \* see RwaAdmin and AdminRelay

VARIABLES
    admin, pendingAdmin, adminNonce, roleHolder, linked, semver, schema,
    recovery, guardians, proposal, sequence, recoveries, lastRecovery,
    signed, applied

Relay == INSTANCE AdminRelay WITH Accounts <- Parties, MaxLedger <- LastLedger, ledger <- sequence

ASSUME AdminInstance == Relay!AdminAssumption

----------------------------------------------------------------------------
(* Properties, stated and explained in RwaAdmin and AdminRelay *)

\* Guardians and their approvals, whatever is configured, proposed or approved.
RecoverySound == Relay!RecoverySound

\* A quorum in time.
RecoveryByQuorum == Relay!RecoveryByQuorum

\* A nonce for each protected change.
ProtectedCostsNonce == Relay!ProtectedCostsNonce

\* Nothing else took effect between signing and delivery.
AppliedInContext == Relay!AppliedInContext

\* No recovery came between, either.
RecoveryVoidsSigned == Relay!RecoveryVoidsSigned
=============================================================================
