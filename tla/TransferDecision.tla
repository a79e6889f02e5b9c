-------------------------- MODULE TransferDecision --------------------------
(***************************************************************************)
(* The transfer decision of the compliance engine                          *)
(* (contracts/compliance-engine, evaluate_transfer_inner).                 *)
(*                                                                         *)
(* The decision reads the engine's state, which ComplianceEngine models,   *)
(* the KYC registry and the clock.  Here that state is chosen at the start *)
(* and only what moves without an admin of the engine moves: the clock,    *)
(* KYC records and holder stamps.  The two counters are derived from what  *)
(* they count (CountsExact of ComplianceEngine).  A record is approved or  *)
(* not; the five ways not to be are one reason here, as they are one error *)
(* to the token.                                                           *)
(*                                                                         *)
(* An operator named Op_Slip is Op with a slip a programmer could make;    *)
(* nothing uses it.  The runs are repeated with Op replaced by it, to see  *)
(* that a property of theirs fails.                                        *)
(***************************************************************************)
EXTENDS Integers, Sequences, FiniteSets

CONSTANTS
    Accounts,       \* holders
    Token,          \* a token contract: sender of its mints, has no record
    Settings,       \* what an admin of the engine may have set up
    KycRecords,     \* records a registry may keep for an account
    Wildcard,       \* u32::MAX, the tier that matches any
    Unknown,        \* the empty jurisdiction of a party without a record
    Amounts,        \* amounts of the transfers considered
    MaxNow          \* bound on the clock

TokenIsNoHolder == Token \notin Accounts

\* Amounts are numbers; a pair of tiers has at most one policy, and the risk
\* check at most one configuration.
SettingsTyped ==
    /\ Amounts \subseteq Int
    /\ \A s \in Settings :
          /\ {s.rules.maxAmount, s.rules.minHolding} \subseteq Int
          /\ \A pair \in DOMAIN s.tierPolicy : \A p \in s.tierPolicy[pair] : p.maxAmount \in Int
          /\ \A c, d \in s.risk.config : c = d

Parties == Accounts \cup {Token}

VARIABLES
    rules,          \* engine: Rules
    blocklist,      \* engine: addresses with a BlocklistEntry
    allowlist,      \* engine: addresses with an AllowlistEntry
    blockedJur,     \* engine: BlockedJurisdictions
    tierPolicy,     \* engine: TierPolicy(pair), an Option for every pair
    risk,           \* engine: RiskConfig and JurisdictionRisk
    holderSince,    \* engine: HolderSince(addr), an Option
    kyc,            \* registry: KycStatus(addr), an Option
    now             \* ledger timestamp

engineVars == <<rules, blocklist, allowlist, blockedJur, tierPolicy, risk>>
vars == <<engineVars, holderSince, kyc, now>>

----------------------------------------------------------------------------
(* What the checks read *)

HolderCount == Cardinality({a \in Accounts : holderSince[a] # {}})

Approved(addr) == \E r \in kyc[addr] : r.approved

\* get_record_opt: the jurisdiction on record, none without a record.
OnRecord(addr) == {r.jurisdiction : r \in kyc[addr]}

\* get_tier
Tier(addr) == IF kyc[addr] = {} THEN 0 ELSE (CHOOSE r \in kyc[addr] : TRUE).tier

\* u64::saturating_sub
Age(addr) == {IF now < s THEN 0 ELSE now - s : s \in holderSince[addr]}

PolicyAt(pair) == IF pair \in DOMAIN tierPolicy THEN tierPolicy[pair] ELSE {}

\* Where a policy for the two tiers is looked up, in this order.
Lookups(f, t) ==
    <<<<f, t>>, <<Wildcard, t>>, <<f, Wildcard>>, <<Wildcard, Wildcard>>>>

\* The first policy found.
TierPolicy(from, to) ==
    LET keys  == Lookups(Tier(from), Tier(to))
        found == {i \in DOMAIN keys : PolicyAt(keys[i]) # {}}
    IN  UNION {PolicyAt(keys[i]) : i \in {j \in found : \A k \in found : j <= k}}

\* The stricter of the policy's cap and the global one.
TierCap(p) ==
    IF rules.maxAmount > 0 /\ rules.maxAmount < p.maxAmount
    THEN rules.maxAmount ELSE p.maxAmount

\* The score of a jurisdiction, under a configuration.
Score(c, j) ==
    IF j \in DOMAIN risk.score THEN risk.score[j] ELSE c.default

RiskTooHigh_RecipientOnly(fj, tj) ==
    \E c \in risk.config : c.max > 0 /\ Score(c, tj) > c.max

RiskTooHigh(fj, tj) ==
    \E c \in risk.config : c.max > 0 /\ (Score(c, fj) > c.max \/ Score(c, tj) > c.max)

\* evaluate_transfer_risk: the scores of two jurisdictions, and the verdict.
RiskView(fj, tj) ==
    UNION {{<<Score(c, fj), Score(c, tj), RiskTooHigh(fj, tj)>>}
             : c \in {d \in risk.config : d.max > 0}}

Jurisdiction(addr) == IF kyc[addr] = {} THEN Unknown ELSE CHOOSE j \in OnRecord(addr) : TRUE

----------------------------------------------------------------------------
(* The decision *)

\* While a jurisdiction is blocked, a party without a record counts as blocked.
BlockedThere(addr) ==
    blockedJur # {} /\ (kyc[addr] = {} \/ OnRecord(addr) \cap blockedJur # {})

TooYoung_Flipped(addr) == \E age \in Age(addr) : age > rules.minHolding

TooYoung(addr) == \E age \in Age(addr) : age < rules.minHolding

\* A cap of zero is no cap.
Above(amount, cap) == cap > 0 /\ amount > cap

\* Every reason to deny a transfer, and whether it applies.
Denials(from, to, amount, checkKyc) ==
    [CompliancePaused     |-> rules.paused,
     FromBlocklisted      |-> from \in blocklist,
     ToBlocklisted        |-> to \in blocklist,
     FromNotAllowlisted   |-> rules.allowlistMode /\ from \notin allowlist,
     ToNotAllowlisted     |-> rules.allowlistMode /\ to \notin allowlist,
     FromKyc              |-> checkKyc /\ ~Approved(from),
     ToKyc                |-> checkKyc /\ ~Approved(to),
     FromJurisdictionBlocked  |-> BlockedThere(from),
     ToJurisdictionBlocked    |-> BlockedThere(to),
     SameJurisdictionRequired |->
        rules.sameJurisdiction /\ (OnRecord(from) # OnRecord(to) \/ OnRecord(from) = {}),
     AmountExceeded       |-> Above(amount, rules.maxAmount),
     HoldingPeriodNotMet  |-> rules.minHolding > 0 /\ TooYoung(from),
     RecipientHoldingPeriodExceeded |->
        rules.maxHolding > 0 /\ \E age \in Age(to) : age >= rules.maxHolding,
     MaxHoldersReached    |->
        /\ rules.maxHolders > 0
        /\ to \notin {a \in Accounts : holderSince[a] # {}}
        /\ HolderCount >= rules.maxHolders,
     TierPolicyBlocked    |-> \E p \in TierPolicy(from, to) : p.blocked,
     TierFromBelowMin     |-> \E p \in TierPolicy(from, to) : Tier(from) < p.minFrom,
     TierToBelowMin       |-> \E p \in TierPolicy(from, to) : Tier(to) < p.minTo,
     TierAmountExceeded   |-> \E p \in TierPolicy(from, to) : Above(amount, TierCap(p)),
     RiskScoreTooHigh     |-> RiskTooHigh(Jurisdiction(from), Jurisdiction(to))]

\* The order of the checks in evaluate_transfer_inner.
Precedence ==
    <<"CompliancePaused", "FromBlocklisted", "ToBlocklisted", "FromNotAllowlisted",
      "ToNotAllowlisted", "FromKyc", "ToKyc", "FromJurisdictionBlocked",
      "ToJurisdictionBlocked", "SameJurisdictionRequired", "AmountExceeded",
      "HoldingPeriodNotMet", "RecipientHoldingPeriodExceeded", "MaxHoldersReached",
      "TierPolicyBlocked", "TierFromBelowMin", "TierToBelowMin", "TierAmountExceeded",
      "RiskScoreTooHigh">>

\* The first reason of an order that applies, or Allow.
First(order, denials) ==
    LET failing == {i \in DOMAIN order : denials[order[i]]}
    IN  IF failing = {} THEN "Allow"
        ELSE order[CHOOSE i \in failing : \A j \in failing : i <= j]

\* evaluate_transfer
Evaluate(from, to, amount) == First(Precedence, Denials(from, to, amount, TRUE))

\* can_transfer: mints ask it, with the token as the sender.
CanTransfer(from, to, amount) ==
    First(Precedence, Denials(from, to, amount, FALSE)) = "Allow"

----------------------------------------------------------------------------
Options(S) == {{}} \cup {{x} : x \in S}

Init ==
    /\ \E s \in Settings :
          /\ rules = s.rules
          /\ blocklist = s.blocklist
          /\ allowlist = s.allowlist
          /\ blockedJur = s.blockedJur
          /\ tierPolicy = s.tierPolicy
          /\ risk = s.risk
    /\ holderSince \in {f \in [Parties -> Options({0})] : f[Token] = {}}
    /\ kyc \in {f \in [Parties -> Options(KycRecords)] : f[Token] = {}}
    /\ now = 0

\* A verifier or an expiry changes the record of an account.
KycChange(addr) ==
    /\ kyc' \in {[kyc EXCEPT ![addr] = r] : r \in Options(KycRecords) \ {{}}}
    /\ UNCHANGED <<engineVars, holderSince, now>>

\* register_holder, by a token whose holder comes, or comes back.
Stamp(addr) ==
    /\ holderSince' = [holderSince EXCEPT ![addr] = {now}]
    /\ UNCHANGED <<engineVars, kyc, now>>

Tick ==
    /\ now < MaxNow
    /\ now' = now + 1
    /\ UNCHANGED <<engineVars, holderSince, kyc>>

Next == (\E a \in Accounts : KycChange(a) \/ Stamp(a)) \/ Tick

Spec == Init /\ [][Next]_vars

----------------------------------------------------------------------------
(* Properties *)

Transfers == {t \in Accounts \X Accounts : t[1] # t[2]}

\* A policy for the exact pair of tiers hides every wildcard policy: the tier
\* checks answer as if it were the only one stored.
ExactPolicyDecides ==
    \A t \in Transfers :
        LET own == PolicyAt(<<Tier(t[1]), Tier(t[2])>>)
        IN  own # {} => TierPolicy(t[1], t[2]) = own

\* A transfer that is allowed is allowed for every smaller amount, through the
\* global cap, the policy's cap and the stricter of the two.
SmallerIsAllowed ==
    \A t \in Transfers, m, n \in Amounts :
        n < m /\ Evaluate(t[1], t[2], m) = "Allow" => Evaluate(t[1], t[2], n) = "Allow"

\* evaluate_transfer_risk, asked about the jurisdictions of two parties, is right
\* about what a transfer between them would be denied for.
RiskViewAgrees ==
    \A t \in Transfers :
        LET told == RiskView(Jurisdiction(t[1]), Jurisdiction(t[2]))
        IN  \A m \in Amounts : Denials(t[1], t[2], m, TRUE).RiskScoreTooHigh <=>
                \E v \in told : v[1] > (CHOOSE c \in risk.config : TRUE).max
                             \/ v[2] > (CHOOSE c \in risk.config : TRUE).max

\* Nobody escapes a blocked jurisdiction by having no record: while any is
\* blocked, only parties on record elsewhere are allowed, minting included.
BlockedStayOut ==
    \A from \in Parties, to \in Accounts, m \in Amounts :
        CanTransfer(from, to, m) /\ blockedJur # {} =>
            \A p \in {from, to} : OnRecord(p) # {} /\ OnRecord(p) \cap blockedJur = {}

\* The clock alone never takes an allowed transfer back, unless the recipient's
\* own window ends; the sender's holding period, once over, stays over.
ClockOnlyReleases ==
    \A t \in Transfers, m \in Amounts :
        UNCHANGED <<engineVars, holderSince, kyc>> /\ Evaluate(t[1], t[2], m) = "Allow"
          => Evaluate(t[1], t[2], m)' \in {"Allow", "RecipientHoldingPeriodExceeded"}

ClockReleases == [][ClockOnlyReleases]_vars

\* Each decision fits the other decisions: about other amounts, other policies and
\* the parts of it that views answer.
DecisionsAgree == ExactPolicyDecides /\ SmallerIsAllowed /\ RiskViewAgrees /\ BlockedStayOut
=============================================================================
