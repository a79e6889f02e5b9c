-------------------------- MODULE ComplianceEngine --------------------------
(***************************************************************************)
(* The state of the compliance engine (contracts/compliance-engine): rules *)
(* behind a time lock, the versioned policy history, the block- and        *)
(* allowlists with their migration, the holder registry with its holding   *)
(* periods, tier policies, blocked jurisdictions and risk scores.          *)
(*                                                                         *)
(* Every entry point that writes is one action.  Entry points that call    *)
(* require_admin are signed by admin, whoever that is; activate_rules and  *)
(* the three holder calls need no signature.  The transfer decision reads  *)
(* this state and changes none of it.                                      *)
(*                                                                         *)
(* Rules carry the fields some action or view here reads: the transfer     *)
(* cap, the holding period, the holder cap and the pause.  A tier policy   *)
(* or score that validation refuses is never among the inputs.             *)
(*                                                                         *)
(* An operator named Op_Slip is Op with a slip a programmer could make;    *)
(* nothing uses it.  The runs are repeated with Op replaced by it, to see  *)
(* that a property of theirs fails.                                        *)
(***************************************************************************)
EXTENDS AddressList, FiniteSets

CONSTANTS
    Admins,         \* addresses that may come to be admin
    Accounts,       \* addresses
    Listable,       \* those that may be put on a list
    Registrable,    \* those that may be registered as holders
    RuleChoices,    \* rules an admin may submit, valid or not
    MaxHoldingDays, \* longest minimum holding period (365 days)
    Delay,          \* RuleChangeDelay, fixed at initialize
    Notes,          \* non-empty descriptions and comments
    NoNote,         \* the description written for an empty one
    LegacyLists,    \* what a schema v1 vector may hold after an upgrade
    Stamps,         \* holder_since arguments, not all of them valid
    TierPairs,      \* (from_tier, to_tier) keys
    TierPolicies,   \* policies an admin may set for a pair
    Jurisdictions,  \* two-letter codes
    Scores,         \* risk scores
    MaxHistory,     \* bound on the policy history
    MaxSchema,      \* bound on the schema version
    MaxNow          \* bound on the clock

RuleFields == [maxAmount : Int, minHolding : Nat, maxHolders : Nat, paused : BOOLEAN]

ASSUME RulesTyped == RuleChoices \subseteq RuleFields
ASSUME ListsTyped == LegacyLists \subseteq Seq(Accounts)
ASSUME SubjectsTyped == Listable \cup Registrable \subseteq Accounts
ASSUME NumbersTyped ==
    /\ {MaxHoldingDays, Delay, MaxHistory, MaxSchema, MaxNow} \subseteq Nat
    /\ Stamps \subseteq Int
    /\ MaxHistory > 0
ASSUME NotesTyped == NoNote \notin Notes

VARIABLES
    admin,          \* Admin
    pendingAdmin,   \* PendingAdmin, an Option (a set of at most one)
    rules,          \* Rules
    pending,        \* PendingProposal, an Option
    history,        \* PolicyVersion(0..PolicyVersionCount-1)
    blocklist,      \* BlocklistEntry, BlocklistMember, BlocklistSize
    allowlist,      \* AllowlistEntry, AllowlistMember, AllowlistSize
    legacyBlock,    \* Blocklist of schema v1, empty when absent
    legacyAllow,    \* Allowlist of schema v1, empty when absent
    schema,         \* StorageVersion
    holderSince,    \* HolderSince(addr), an Option for every account
    holderCount,    \* HolderCount
    tierPolicy,     \* TierPolicy(pair), an Option for every pair
    tierCount,      \* TierPolicyCount
    blockedJur,     \* BlockedJurisdictions
    risk,           \* RiskConfig and JurisdictionRisk
    now,            \* ledger timestamp
    proposedAt      \* history: when the pending rules were proposed

adminVars  == <<admin, pendingAdmin>>
ruleVars   == <<rules, pending, proposedAt>>
listVars   == <<blocklist, allowlist, legacyBlock, legacyAllow, schema>>
holderVars == <<holderSince, holderCount>>
tierVars   == <<tierPolicy, tierCount>>
jurVars    == <<blockedJur, risk>>
vars == <<adminVars, ruleVars, history, listVars, holderVars, tierVars, jurVars, now>>

Elems(s) == {s[i] : i \in DOMAIN s}

Holders == {a \in Accounts : holderSince[a] # {}}

----------------------------------------------------------------------------
(* Policy history *)

ListKinds == {"BlocklistAdd", "BlocklistRemove", "AllowlistAdd", "AllowlistRemove"}

Kinds == ListKinds \cup
    {"ImmediateRuleUpdate", "DelayedRuleActivation", "Pause", "Unpause"}

PolicyRecord == [rules : RuleFields, kind : Kinds, note : Notes \cup {NoNote}]

Current == history[Len(history)]

RepeatsLast_IgnoresRules(rec) ==
    rec.kind \notin ListKinds /\ Current.kind = rec.kind /\ Current.note = rec.note

\* List changes do not name their address, so equal records are kept.
RepeatsLast(rec) == rec.kind \notin ListKinds /\ Current = rec

\* write_policy_record
WriteRecord(r, kind, note) ==
    LET rec == [rules |-> r, kind |-> kind, note |-> note]
    IN  \/ RepeatsLast(rec) /\ UNCHANGED history
        \/ /\ ~RepeatsLast(rec)
           /\ Len(history) < MaxHistory
           /\ history' = Append(history, rec)

----------------------------------------------------------------------------
DefaultRules == [maxAmount |-> 0, minHolding |-> 0, maxHolders |-> 0, paused |-> FALSE]

\* After initialize, or after the upgrade of a contract with v1 lists.
Init ==
    /\ admin \in Admins
    /\ pendingAdmin = {}
    /\ rules = DefaultRules
    /\ pending = {}
    /\ history = <<[rules |-> DefaultRules, kind |-> "ImmediateRuleUpdate", note |-> NoNote]>>
    /\ blocklist = EmptyList
    /\ allowlist = EmptyList
    /\ legacyBlock \in {<<>>} \cup LegacyLists
    /\ legacyAllow \in {<<>>} \cup LegacyLists
    /\ schema = 1
    /\ holderSince = [a \in Accounts |-> {}]
    /\ holderCount = 0
    /\ tierPolicy = [p \in TierPairs |-> {}]
    /\ tierCount = 0
    /\ blockedJur = {}
    /\ risk = [config |-> {}, score |-> [j \in Jurisdictions |-> {}]]
    /\ now = 1
    /\ proposedAt = 0

----------------------------------------------------------------------------
(* Administration *)

ProposeAdmin(newAdmin) ==
    /\ pendingAdmin' = {newAdmin}
    /\ UNCHANGED <<admin, ruleVars, history, listVars, holderVars, tierVars, jurVars, now>>

AcceptAdmin ==
    /\ \E p \in pendingAdmin : admin' = p
    /\ pendingAdmin' = {}
    /\ UNCHANGED <<ruleVars, history, listVars, holderVars, tierVars, jurVars, now>>

----------------------------------------------------------------------------
(* Rules *)

\* validate_rules: a cap may equal the live count, not fall below it.
ValidRules(r) ==
    /\ r.minHolding <= MaxHoldingDays
    /\ r.maxAmount >= 0
    /\ r.maxHolders > 0 => r.maxHolders >= holderCount

ProposeRules_KeepsClock(r, note) ==
    /\ ValidRules(r)
    /\ \/ /\ pending = {}
          /\ pending' = {[rules |-> r, note |-> note, activateAt |-> now + Delay]}
       \/ \E p \in pending : pending' = {[p EXCEPT !.rules = r, !.note = note]}
    /\ proposedAt' = now
    /\ UNCHANGED <<adminVars, rules, history, listVars, holderVars, tierVars, jurVars, now>>

\* A second proposal replaces the first and starts the delay anew.
ProposeRules(r, note) ==
    /\ ValidRules(r)
    /\ pending' = {[rules |-> r, note |-> note, activateAt |-> now + Delay]}
    /\ proposedAt' = now
    /\ UNCHANGED <<adminVars, rules, history, listVars, holderVars, tierVars, jurVars, now>>

\* Anyone may activate; the rules are not validated again.
ActivateRules ==
    \E p \in pending :
        /\ now >= p.activateAt
        /\ rules' = p.rules
        /\ pending' = {}
        /\ WriteRecord(p.rules, "DelayedRuleActivation", p.note)
        /\ UNCHANGED <<adminVars, proposedAt, listVars, holderVars, tierVars, jurVars, now>>

\* The immediate ways to change the rules leave a pending proposal in place.
Enforce(r, kind) ==
    /\ rules' = r
    /\ WriteRecord(r, kind, NoNote)
    /\ UNCHANGED <<adminVars, pending, proposedAt, listVars, holderVars, tierVars, jurVars, now>>

SetRules(r) == ValidRules(r) /\ Enforce(r, "ImmediateRuleUpdate")

Pause == Enforce([rules EXCEPT !.paused = TRUE], "Pause")

Unpause == Enforce([rules EXCEPT !.paused = FALSE], "Unpause")

AppendPolicyRecord(note) ==
    /\ WriteRecord(rules, "ImmediateRuleUpdate", note)
    /\ UNCHANGED <<adminVars, ruleVars, listVars, holderVars, tierVars, jurVars, now>>

----------------------------------------------------------------------------
(* Lists.  A call that changes nothing is not a step. *)

AddToBlocklist(addr) ==
    /\ addr \notin blocklist.entry
    /\ blocklist' = Added(blocklist, addr)
    /\ WriteRecord(rules, "BlocklistAdd", NoNote)
    /\ UNCHANGED <<adminVars, ruleVars, allowlist, legacyBlock, legacyAllow, schema,
                   holderVars, tierVars, jurVars, now>>

RemoveFromBlocklist(addr) ==
    /\ addr \in blocklist.entry
    /\ blocklist' = Removed(blocklist, addr)
    /\ WriteRecord(rules, "BlocklistRemove", NoNote)
    /\ UNCHANGED <<adminVars, ruleVars, allowlist, legacyBlock, legacyAllow, schema,
                   holderVars, tierVars, jurVars, now>>

AddToAllowlist(addr) ==
    /\ addr \notin blocklist.entry
    /\ addr \notin allowlist.entry
    /\ allowlist' = Added(allowlist, addr)
    /\ WriteRecord(rules, "AllowlistAdd", NoNote)
    /\ UNCHANGED <<adminVars, ruleVars, blocklist, legacyBlock, legacyAllow, schema,
                   holderVars, tierVars, jurVars, now>>

RemoveFromAllowlist(addr) ==
    /\ addr \in allowlist.entry
    /\ allowlist' = Removed(allowlist, addr)
    /\ WriteRecord(rules, "AllowlistRemove", NoNote)
    /\ UNCHANGED <<adminVars, ruleVars, blocklist, legacyBlock, legacyAllow, schema,
                   holderVars, tierVars, jurVars, now>>

MigrateSchema ==
    /\ schema < MaxSchema
    /\ schema' = schema + 1
    /\ \/ /\ schema + 1 = 2
          /\ blocklist' = Migrated(blocklist, legacyBlock)
          /\ allowlist' = Migrated(allowlist, legacyAllow)
          /\ legacyBlock' = <<>>
          /\ legacyAllow' = <<>>
       \/ /\ schema + 1 # 2
          /\ UNCHANGED <<blocklist, allowlist, legacyBlock, legacyAllow>>
    /\ UNCHANGED <<adminVars, ruleVars, history, holderVars, tierVars, jurVars, now>>

----------------------------------------------------------------------------
(* Holder registry *)

\* The count grows only for an address without an entry.
CountNew(addr) == IF holderSince[addr] = {} THEN holderCount + 1 ELSE holderCount

StampHolder(addr, since) ==
    /\ holderSince' = [holderSince EXCEPT ![addr] = {since}]
    /\ holderCount' = CountNew(addr)
    /\ UNCHANGED <<adminVars, ruleVars, history, listVars, tierVars, jurVars, now>>

\* A holder that is registered again starts a new holding period.
RegisterHolder(addr) == StampHolder(addr, now)

UpdateHolderSince(addr, since) == since > 0 /\ StampHolder(addr, since)

UnregisterHolder(addr) ==
    /\ holderSince[addr] # {}
    /\ holderSince' = [holderSince EXCEPT ![addr] = {}]
    /\ holderCount' = IF holderCount = 0 THEN 0 ELSE holderCount - 1
    /\ UNCHANGED <<adminVars, ruleVars, history, listVars, tierVars, jurVars, now>>

----------------------------------------------------------------------------
(* Tier policies, jurisdictions, risk: changed at once, and not recorded *)

SetTierPolicy(pair, policy) ==
    /\ tierPolicy' = [tierPolicy EXCEPT ![pair] = {policy}]
    /\ tierCount' = IF tierPolicy[pair] = {} THEN tierCount + 1 ELSE tierCount
    /\ UNCHANGED <<adminVars, ruleVars, history, listVars, holderVars, jurVars, now>>

ClearTierPolicy(pair) ==
    /\ tierPolicy[pair] # {}
    /\ tierPolicy' = [tierPolicy EXCEPT ![pair] = {}]
    /\ tierCount' = IF tierCount = 0 THEN 0 ELSE tierCount - 1
    /\ UNCHANGED <<adminVars, ruleVars, history, listVars, holderVars, jurVars, now>>

AddBlockedJurisdiction(j) ==
    /\ blockedJur' = blockedJur \cup {j}
    /\ UNCHANGED <<adminVars, ruleVars, history, listVars, holderVars, tierVars, risk, now>>

RemoveBlockedJurisdiction(j) ==
    /\ blockedJur' = blockedJur \ {j}
    /\ UNCHANGED <<adminVars, ruleVars, history, listVars, holderVars, tierVars, risk, now>>

SetRiskConfig(max, default) ==
    /\ risk' = [risk EXCEPT !.config = {[maxScore |-> max, defaultScore |-> default]}]
    /\ UNCHANGED <<adminVars, ruleVars, history, listVars, holderVars, tierVars, blockedJur, now>>

SetJurisdictionRiskScore(j, score) ==
    /\ risk' = [risk EXCEPT !.score[j] = {score}]
    /\ UNCHANGED <<adminVars, ruleVars, history, listVars, holderVars, tierVars, blockedJur, now>>

ClearJurisdictionRiskScore(j) ==
    /\ risk' = [risk EXCEPT !.score[j] = {}]
    /\ UNCHANGED <<adminVars, ruleVars, history, listVars, holderVars, tierVars, blockedJur, now>>

Tick ==
    /\ now < MaxNow
    /\ now' = now + 1
    /\ UNCHANGED <<adminVars, ruleVars, history, listVars, holderVars, tierVars, jurVars>>

----------------------------------------------------------------------------
RulesNext ==
    \/ \E r \in RuleChoices : SetRules(r) \/ \E n \in Notes : ProposeRules(r, n)
    \/ ActivateRules
    \/ Pause
    \/ Unpause
    \/ \E n \in Notes : AppendPolicyRecord(n)

ListsNext ==
    \/ \E a \in Listable :
          \/ AddToBlocklist(a) \/ RemoveFromBlocklist(a)
          \/ AddToAllowlist(a) \/ RemoveFromAllowlist(a)
    \/ MigrateSchema

HoldersNext ==
    \E a \in Registrable :
        \/ RegisterHolder(a)
        \/ \E t \in Stamps : UpdateHolderSince(a, t)
        \/ UnregisterHolder(a)

ScreeningNext ==
    \/ \E p \in TierPairs :
          (\E pol \in TierPolicies : SetTierPolicy(p, pol)) \/ ClearTierPolicy(p)
    \/ \E j \in Jurisdictions :
          \/ AddBlockedJurisdiction(j) \/ RemoveBlockedJurisdiction(j)
          \/ (\E s \in Scores : SetJurisdictionRiskScore(j, s)) \/ ClearJurisdictionRiskScore(j)
    \/ \E m, d \in Scores : SetRiskConfig(m, d)

AdminNext == (\E a \in Admins : ProposeAdmin(a)) \/ AcceptAdmin

Next == RulesNext \/ ListsNext \/ HoldersNext \/ ScreeningNext \/ AdminNext \/ Tick

Spec == Init /\ [][Next]_vars

----------------------------------------------------------------------------
(* Views the properties compare *)

\* The sender side of the holding-period rule, as the transfer decision of a
\* transfer at time t tests it.
HeldAt(addr, t) ==
    /\ rules.minHolding > 0
    /\ \E since \in holderSince[addr] :
          (IF t < since THEN 0 ELSE t - since) < rules.minHolding

LockedBefore_Inclusive(t, release) == t <= release

LockedBefore(t, release) == t < release

\* lockup_status, for an address with an entry.
LockupStatus(addr) ==
    LET release == {since + rules.minHolding :
                      since \in {s \in holderSince[addr] : rules.minHolding > 0}}
    IN  [locked |-> \E r \in release : LockedBefore(now, r),
         wait   |-> {r - now : r \in {q \in release : LockedBefore(now, q)}}]

----------------------------------------------------------------------------
(* Properties *)

PendingProposal == [rules : RuleFields, note : Notes, activateAt : Nat]

\* Every variable has its type.
TypeOK ==
    /\ admin \in Admins
    /\ \A p \in pendingAdmin : p \in Admins
    /\ rules \in RuleFields
    /\ \A p \in pending : p \in PendingProposal
    /\ history \in Seq(PolicyRecord) \ {<<>>}
    /\ blocklist.entry \cup allowlist.entry \subseteq Accounts
    /\ legacyBlock \in Seq(Accounts)
    /\ legacyAllow \in Seq(Accounts)
    /\ schema \in Nat
    /\ \A a \in Accounts : holderSince[a] \subseteq Nat
    /\ holderCount \in Nat
    /\ \A p \in TierPairs : Cardinality(tierPolicy[p]) \in 0..1
    /\ tierCount \in Nat
    /\ now \in Nat
    /\ proposedAt \in Nat

\* Entries, slots and size of both lists agree after any additions, removals
\* from the middle, and a migration that finds addresses listed before it.
ListsSound == ListSound(blocklist) /\ ListSound(allowlist)

\* Whoever is blocked, in the old vector or by an entry, stays so until an admin
\* removes that address: no migration, rule change or upgrade lets one slip.
BlockedUntilRemoved ==
    [][\A a \in blocklist.entry \cup Elems(legacyBlock) :
          a \notin blocklist'.entry \cup Elems(legacyBlock') =>
             /\ a \in blocklist.entry
             /\ Len(history') = Len(history) + 1
             /\ history'[Len(history')].kind = "BlocklistRemove"]_vars

\* The newest policy record always shows the rules in force, over immediate,
\* delayed and repeated updates: replaying the history ends where the engine is.
HistoryCurrent == Current.rules = rules

\* The history never records the same rule transition twice in a row, however
\* often an admin repeats the call.
HistoryWithoutRepeats ==
    \A i \in 2..Len(history) :
        history[i].kind \notin ListKinds => history[i] # history[i - 1]

\* Rules that were proposed take effect no sooner than the full delay after the
\* proposal they were part of, whatever was proposed, set or paused meanwhile.
TimelockHonoured ==
    [][\A p \in pending : pending' = {} =>
          /\ now >= proposedAt + Delay
          /\ rules' = p.rules]_vars

\* The counters count: holders over any order of registrations, restamps and
\* removals by any caller, and tier policies over updates and removals.
CountsExact ==
    /\ holderCount = Cardinality(Holders)
    /\ tierCount = Cardinality({p \in TierPairs : tierPolicy[p] # {}})

\* lockup_status says locked exactly when a transfer would be refused for the
\* holding period, and the wait it names is over at the first second at which
\* it would not be.
LockupTellsTheTruth ==
    \A a \in Accounts :
        /\ LockupStatus(a).locked <=> HeldAt(a, now)
        /\ \A w \in LockupStatus(a).wait :
              w > 0 /\ HeldAt(a, now + w - 1) /\ ~HeldAt(a, now + w)

\* The history and the two lists, each kept in several places, stay whole.
RecordsSound == TypeOK /\ HistoryCurrent /\ HistoryWithoutRepeats /\ ListsSound

\* The engine counts the holders it knows and tells each how long it is held.
HoldersSound == CountsExact /\ LockupTellsTheTruth
=============================================================================
