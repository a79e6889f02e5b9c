------------------------------ MODULE RwaAdmin ------------------------------
(***************************************************************************)
(* Who governs the regulated token contract (contracts/rwa-token): the     *)
(* two-step admin handover, the granular roles, the replay nonce of the    *)
(* protected calls, the contract addresses and schema they change, and the *)
(* M-of-N guardian recovery with its expiry and cooldown on the ledger     *)
(* sequence.                                                               *)
(*                                                                         *)
(* Every action is one transaction; caller is the address whose signature  *)
(* require_auth verified.  An Option is a set of at most one element.      *)
(* Compliance metadata and the external URI are data nothing here reads:   *)
(* their setters appear through the nonce they consume, or not at all.     *)
(*                                                                         *)
(* An operator named Op_Slip is Op with a slip a programmer could make;    *)
(* nothing uses it.  The runs are repeated with Op replaced by it, to see  *)
(* that a property of theirs fails.                                        *)
(***************************************************************************)
EXTENDS Integers, Sequences, FiniteSets

CONSTANTS
    Accounts,       \* every address that may sign or be named
    Roles,          \* role symbols
    Governance,     \* the role that may propose an admin
    Registry,       \* the role that may repoint registry and engine
    Compliance,     \* the role that may set compliance metadata
    Contracts,      \* addresses of KYC registries and compliance engines
    Versions,       \* semantic version strings
    GuardianLists,  \* guardian lists an admin may submit, duplicates included
    Thresholds,     \* thresholds an admin may submit
    Cooldowns,      \* cooldowns an admin may submit, in ledgers
    MaxGuardians,   \* 10 in the contract
    MaxNonce,       \* bound on the nonce
    MaxLedger       \* bound on the ledger sequence

RolesKnown == {Governance, Registry, Compliance} \subseteq Roles

GuardiansAreAccounts == GuardianLists \subseteq Seq(Accounts)

NumbersAreNats ==
    /\ Thresholds \subseteq Nat
    /\ Cooldowns \subseteq Nat
    /\ {MaxGuardians, MaxNonce, MaxLedger} \subseteq Nat

VARIABLES
    admin,          \* Admin
    pendingAdmin,   \* PendingAdmin, an Option
    adminNonce,     \* AdminNonce
    roleHolder,     \* RoleAssignment(role), an Option for every role
    linked,         \* KycRegistry and ComplianceEngine
    semver,         \* ContractSemver and MigrationCount
    schema,         \* SchemaVersion
    recovery,       \* RecoveryConfig, an Option
    guardians,      \* RecoveryMembers
    proposal,       \* ActiveRecovery, an Option
    ledger,         \* ledger sequence number
    recoveries,     \* history: recoveries executed
    lastRecovery    \* history: ledger of the last one

govVars      == <<admin, pendingAdmin, roleHolder>>
configVars   == <<linked, semver, schema>>
recoveryVars == <<recovery, guardians, proposal, recoveries, lastRecovery>>
vars == <<govVars, adminNonce, configVars, recoveryVars, ledger>>

Option(S) == {T \in SUBSET S : \A x, y \in T : x = y}

Elems(s) == {s[i] : i \in DOMAIN s}

NoDuplicates(s) == \A i, j \in DOMAIN s : s[i] = s[j] => i = j

----------------------------------------------------------------------------
(* Guards shared by the entry points *)

\* require_admin_or_role
AdminOrRole(caller, role) == caller = admin \/ caller \in roleHolder[role]

ConsumeNonce_AcceptsOld(nonce) ==
    /\ nonce <= adminNonce
    /\ adminNonce < MaxNonce
    /\ adminNonce' = adminNonce + 1

\* consume_nonce
ConsumeNonce(nonce) ==
    /\ nonce = adminNonce
    /\ adminNonce < MaxNonce
    /\ adminNonce' = adminNonce + 1

Init ==
    /\ admin \in Accounts
    /\ pendingAdmin = {}
    /\ adminNonce = 0
    /\ roleHolder = [r \in Roles |-> {}]
    /\ linked \in [registry : Contracts, engine : Contracts]
    /\ semver \in [version : Versions, migrations : {0}]
    /\ schema = 1
    /\ recovery = {}
    /\ guardians = <<>>
    /\ proposal = {}
    /\ ledger = 0
    /\ recoveries = 0
    /\ lastRecovery = 0

----------------------------------------------------------------------------
(* Admin handover and roles *)

\* Deprecated one-step handover; a pending one is left in place.
SetAdmin(caller, newAdmin) ==
    /\ caller = admin
    /\ admin' = newAdmin
    /\ UNCHANGED <<pendingAdmin, roleHolder, adminNonce, configVars, recoveryVars, ledger>>

ProposeAdmin(caller, newAdmin, nonce) ==
    /\ AdminOrRole(caller, Governance)
    /\ newAdmin # admin
    /\ ConsumeNonce(nonce)
    /\ pendingAdmin' = {newAdmin}
    /\ UNCHANGED <<admin, roleHolder, configVars, recoveryVars, ledger>>

AcceptAdmin(caller) ==
    /\ caller \in pendingAdmin
    /\ admin' = caller
    /\ pendingAdmin' = {}
    /\ UNCHANGED <<roleHolder, adminNonce, configVars, recoveryVars, ledger>>

AssignRole(caller, role, holder, nonce) ==
    /\ caller = admin
    /\ ConsumeNonce(nonce)
    /\ roleHolder' = [roleHolder EXCEPT ![role] = {holder}]
    /\ UNCHANGED <<admin, pendingAdmin, configVars, recoveryVars, ledger>>

RevokeRole_NoNonce(caller, role, nonce) ==
    /\ caller = admin
    /\ roleHolder' = [roleHolder EXCEPT ![role] = {}]
    /\ UNCHANGED <<admin, pendingAdmin, adminNonce, configVars, recoveryVars, ledger>>

RevokeRole(caller, role, nonce) ==
    /\ caller = admin
    /\ ConsumeNonce(nonce)
    /\ roleHolder' = [roleHolder EXCEPT ![role] = {}]
    /\ UNCHANGED <<admin, pendingAdmin, configVars, recoveryVars, ledger>>

----------------------------------------------------------------------------
(* Other nonce-protected calls *)

UpdateKycRegistry(caller, contract, nonce) ==
    /\ AdminOrRole(caller, Registry)
    /\ ConsumeNonce(nonce)
    /\ linked' = [linked EXCEPT !.registry = contract]
    /\ UNCHANGED <<govVars, semver, schema, recoveryVars, ledger>>

UpdateComplianceEngine(caller, contract, nonce) ==
    /\ AdminOrRole(caller, Registry)
    /\ ConsumeNonce(nonce)
    /\ linked' = [linked EXCEPT !.engine = contract]
    /\ UNCHANGED <<govVars, semver, schema, recoveryVars, ledger>>

SetComplianceMetadata(caller, nonce) ==
    /\ AdminOrRole(caller, Compliance)
    /\ ConsumeNonce(nonce)
    /\ UNCHANGED <<govVars, configVars, recoveryVars, ledger>>

Migrate(caller, version, nonce) ==
    /\ caller = admin
    /\ ConsumeNonce(nonce)
    /\ version # semver.version
    /\ semver' = [version |-> version, migrations |-> semver.migrations + 1]
    /\ UNCHANGED <<govVars, linked, schema, recoveryVars, ledger>>

MigrateSchema(caller, to, nonce) ==
    /\ caller = admin
    /\ ConsumeNonce(nonce)
    /\ to = schema + 1
    /\ schema' = to
    /\ UNCHANGED <<govVars, linked, semver, recoveryVars, ledger>>

----------------------------------------------------------------------------
(* Guardian recovery *)

RecoverySettings_ForgetsLast(threshold, cooldown, last) ==
    [threshold |-> threshold, cooldown |-> cooldown, lastExecuted |-> 0]

RecoverySettings(threshold, cooldown, last) ==
    [threshold |-> threshold, cooldown |-> cooldown, lastExecuted |-> last]

\* A new configuration keeps the ledger of the last execution and drops the
\* open proposal, whose approvals came from the old guardians.
ConfigureRecovery(caller, threshold, members, cooldown) ==
    /\ caller = admin
    /\ threshold \in 2..Len(members)
    /\ Len(members) <= MaxGuardians
    /\ NoDuplicates(members)
    /\ \/ recovery = {} /\ recovery' = {RecoverySettings(threshold, cooldown, 0)}
       \/ \E c \in recovery :
             recovery' = {RecoverySettings(threshold, cooldown, c.lastExecuted)}
    /\ guardians' = members
    /\ proposal' = {}
    /\ UNCHANGED <<govVars, adminNonce, configVars, ledger, recoveries, lastRecovery>>

\* The last ledger at which a proposal opened now is alive.
Expiry(c) == ledger + c.cooldown \div 2

Expired(p) == ledger > p.expiry

\* The proposer cannot approve, so the threshold must be below the number of
\* guardians.  A proposal still alive must be executed or cancelled first.
ProposeRecovery(caller, proposedAdmin) ==
    \E c \in recovery :
        /\ caller \in Elems(guardians)
        /\ c.threshold < Len(guardians)
        /\ \A p \in proposal : Expired(p)
        /\ proposal' = {[proposedAdmin |-> proposedAdmin,
                         proposer      |-> caller,
                         approvals     |-> <<>>,
                         expiry        |-> Expiry(c)]}
        /\ UNCHANGED <<govVars, adminNonce, configVars, recovery, guardians, ledger,
                       recoveries, lastRecovery>>

MayApprove_AnyGuardian(p, caller) ==
    /\ caller \in Elems(guardians)
    /\ ~Expired(p)

MayApprove(p, caller) ==
    /\ caller \in Elems(guardians)
    /\ ~Expired(p)
    /\ caller # p.proposer
    /\ caller \notin Elems(p.approvals)

ApproveRecovery(caller) ==
    /\ \E p \in proposal :
        /\ MayApprove(p, caller)
        /\ proposal' = {[p EXCEPT !.approvals = Append(@, caller)]}
    /\ UNCHANGED <<govVars, adminNonce, configVars, recovery, guardians, ledger,
                   recoveries, lastRecovery>>

VoidSigned_Kept == UNCHANGED adminNonce

VoidSigned ==
    /\ adminNonce < MaxNonce
    /\ adminNonce' = adminNonce + 1

\* The nonce moves so that calls prepared for the old admin no longer apply;
\* PendingAdmin and the roles are left as they are.
ExecuteRecovery(caller) ==
    \E c \in recovery, p \in proposal :
        /\ caller \in Elems(guardians)
        /\ ~Expired(p)
        /\ Len(p.approvals) >= c.threshold
        /\ ledger >= c.lastExecuted + c.cooldown
        /\ admin' = p.proposedAdmin
        /\ VoidSigned
        /\ proposal' = {}
        /\ recovery' = {[c EXCEPT !.lastExecuted = ledger]}
        /\ recoveries' = recoveries + 1
        /\ lastRecovery' = ledger
        /\ UNCHANGED <<pendingAdmin, roleHolder, configVars, guardians, ledger>>

CancelRecovery(caller) ==
    /\ caller = admin
    /\ proposal # {}
    /\ proposal' = {}
    /\ UNCHANGED <<govVars, adminNonce, configVars, recovery, guardians, ledger,
                   recoveries, lastRecovery>>

Tick ==
    /\ ledger < MaxLedger
    /\ ledger' = ledger + 1
    /\ UNCHANGED <<govVars, adminNonce, configVars, recoveryVars>>

----------------------------------------------------------------------------
RecoveryNext ==
    \/ \E c \in Accounts, t \in Thresholds, g \in GuardianLists, d \in Cooldowns :
          ConfigureRecovery(c, t, g, d)
    \/ \E c, a \in Accounts : ProposeRecovery(c, a)
    \/ \E c \in Accounts : ApproveRecovery(c) \/ ExecuteRecovery(c) \/ CancelRecovery(c)

UnprotectedNext ==
    \/ \E c, a \in Accounts : SetAdmin(c, a)
    \/ \E c \in Accounts : AcceptAdmin(c)
    \/ RecoveryNext
    \/ Tick

\* A call of a protected entry point by this caller that carries this nonce.
ProtectedNext(c, nonce) ==
    \/ \E a \in Accounts : ProposeAdmin(c, a, nonce)
    \/ \E r \in Roles :
          \/ \E h \in Accounts : AssignRole(c, r, h, nonce)
          \/ RevokeRole(c, r, nonce)
    \/ \E k \in Contracts :
          UpdateKycRegistry(c, k, nonce) \/ UpdateComplianceEngine(c, k, nonce)
    \/ SetComplianceMetadata(c, nonce)
    \/ \E v \in Versions : Migrate(c, v, nonce)
    \/ \E s \in 1..(MaxNonce + 1) : MigrateSchema(c, s, nonce)

Next == UnprotectedNext \/ \E c \in Accounts, n \in 0..MaxNonce : ProtectedNext(c, n)

Spec == Init /\ [][Next]_vars

----------------------------------------------------------------------------
(* Properties *)

RecoveryConfig == [threshold : Nat, cooldown : Nat, lastExecuted : Nat]

RecoveryProposal == [proposedAdmin : Accounts, proposer : Accounts,
                     approvals : Seq(Accounts), expiry : Nat]

\* Every variable has its type.
TypeOK ==
    /\ admin \in Accounts
    /\ pendingAdmin \in Option(Accounts)
    /\ adminNonce \in Nat
    /\ roleHolder \in [Roles -> Option(Accounts)]
    /\ linked \in [registry : Contracts, engine : Contracts]
    /\ semver \in [version : Versions, migrations : Nat]
    /\ schema \in Nat
    /\ recovery \in Option(RecoveryConfig)
    /\ guardians \in Seq(Accounts)
    /\ proposal \in Option(RecoveryProposal)
    /\ ledger \in Nat
    /\ recoveries \in Nat
    /\ lastRecovery \in Nat

\* The stored configuration can be met by distinct guardians, and remembers when
\* the last recovery ran, however often it was replaced since.
ConfigSound ==
    \A c \in recovery :
        /\ 2 <= c.threshold /\ c.threshold <= Len(guardians)
        /\ Len(guardians) <= MaxGuardians
        /\ NoDuplicates(guardians)
        /\ c.lastExecuted = lastRecovery

\* The approvals of the open proposal are distinct guardians of the configuration
\* in force, none of them its proposer: none is left over from an earlier guardian
\* list or an earlier proposal, and no key counts twice.
ApprovalsSound ==
    \A p \in proposal :
        /\ recovery # {}
        /\ p.proposer \in Elems(guardians)
        /\ NoDuplicates(p.approvals)
        /\ Elems(p.approvals) \subseteq Elems(guardians) \ {p.proposer}

RecoverySound == ConfigSound /\ ApprovalsSound

\* A recovery replaces the admin only with the consent of at least threshold
\* distinct guardians besides the proposer, by the account they consented to,
\* while the proposal is alive and a full cooldown after the last recovery that
\* ran, reconfigurations in between notwithstanding.
RecoveryStep ==
    recoveries' # recoveries =>
        \E c \in recovery, p \in proposal :
            /\ \E Q \in SUBSET (Elems(guardians) \ {p.proposer}) :
                  Q = Elems(p.approvals) /\ Cardinality(Q) >= c.threshold
            /\ admin' = p.proposedAdmin
            /\ ledger <= p.expiry
            /\ ledger >= lastRecovery + c.cooldown

RecoveryByQuorum == [][RecoveryStep]_vars

\* What a protected call changes never changes without consuming exactly one
\* nonce, so a repeated or reordered submission has nothing left to change.
NonceStep ==
    (roleHolder' # roleHolder \/ configVars' # configVars
        \/ \E a \in Accounts : a \in pendingAdmin' /\ a \notin pendingAdmin)
    => adminNonce' = adminNonce + 1

ProtectedCostsNonce == [][NonceStep]_vars

\* Guardians cannot be outvoted or replaced by anyone but the admin, and an open
\* proposal never gains or loses support in silence: it only grows, ends with the
\* admin it named taking over, is cancelled or reconfigured by the admin, or is
\* replaced once it has expired.
SupportStep ==
    \A p \in proposal, q \in proposal' :
        p.proposedAdmin # q.proposedAdmin \/ Len(q.approvals) < Len(p.approvals)
            => ledger > p.expiry

SupportNeverForged == [][SupportStep]_vars
=============================================================================
