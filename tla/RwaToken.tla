------------------------------ MODULE RwaToken ------------------------------
(***************************************************************************)
(* The ledger of the regulated token contract (contracts/rwa-token): every *)
(* entry point that changes a balance, an allowance or the supply, with    *)
(* the two contracts it calls while doing so, the KYC registry (seen       *)
(* through is_approved) and the compliance engine's transfer decision,     *)
(* rule set and holder registry.                                           *)
(*                                                                         *)
(* A contract call is one transaction: a panic anywhere rolls everything   *)
(* back, so each entry point is one action whose guard is the conjunction  *)
(* of its checks.  Interleaving is the order in which the ledger applies   *)
(* the transactions of different callers, together with the advance of the *)
(* ledger sequence.                                                        *)
(*                                                                         *)
(* Simplifications.  The engine's address checks (blocklist, jurisdiction, *)
(* tier, risk) are one set, blocked, that the engine's admin changes at    *)
(* will; it holds the token's own address while some rule denies that, as  *)
(* blocked jurisdictions do, for it has no KYC record.  Holding periods    *)
(* are left to ComplianceEngine, and so is which rules an admin may set:   *)
(* any cap may come into force here.  Only this token calls the holder     *)
(* registry.  Issuers and Officers are constants; RwaAdmin moves roles.    *)
(*                                                                         *)
(* An operator named Op_Slip is Op with a slip a programmer could make;    *)
(* nothing uses it.  The runs are repeated with Op replaced by it, to see  *)
(* that a property of theirs fails.                                        *)
(***************************************************************************)
EXTENDS Integers, Sequences, FiniteSets, Functions

CONSTANTS
    Accounts,       \* addresses that may hold, send or spend
    Token,          \* the token's own address
    Issuers,        \* admin and liquidity role holder: may mint
    Officers,       \* admin and compliance role holder: may freeze
    Amounts,        \* amounts a caller may name; zero and negatives included
    MaxSupply,      \* configured cap, 0 = unlimited
    MaxBatch,       \* most legs in a batch (10 in the contract)
    I128Max,        \* largest i128: checked arithmetic panics beyond it
    Caps,           \* values of max_holders the engine's admin may set
    Screened,       \* accounts whose KYC or blocklist status may change
    Spenders,       \* accounts that may be approved as spenders
    MaxLedger       \* bound on the ledger sequence

ASSUME AccountsFinite == IsFiniteSet(Accounts) /\ Token \notin Accounts
ASSUME AmountsAreInts == Amounts \subseteq Int
ASSUME BoundsAreNats ==
    /\ MaxSupply \in Nat
    /\ I128Max \in Nat
    /\ MaxLedger \in Nat
    /\ MaxBatch \in Nat \ {0}
ASSUME CapsAreNats == Caps \subseteq Nat
ASSUME ActorsAreAccounts ==
    /\ Issuers \subseteq Accounts
    /\ Officers \subseteq Accounts
    /\ Screened \subseteq Accounts
    /\ Spenders \subseteq Accounts

VARIABLES
    balance,        \* token: Balance(addr)
    totalSupply,    \* token: TotalSupply
    frozen,         \* token: accounts whose Frozen flag is set
    allowance,      \* token: Allowance(from, spender)
    kycApproved,    \* registry: accounts for which is_approved answers true
    blocked,        \* engine: accounts its address rules deny
    paused,         \* engine: rules.paused
    maxHolders,     \* engine: rules.max_holders, 0 = unlimited
    holders,        \* engine: accounts with a HolderSince entry
    holderCount,    \* engine: HolderCount
    ledger,         \* ledger sequence number
    grant           \* history: what was approved last, and spent since

tokenVars  == <<balance, totalSupply, frozen, allowance>>
engineVars == <<blocked, paused, maxHolders, holders, holderCount>>
vars == <<tokenVars, kycApproved, engineVars, ledger, grant>>

----------------------------------------------------------------------------
(* Legs of a transfer *)

Leg == [to : Accounts, amount : Amounts]

Recipients(legs) == {legs[i].to : i \in DOMAIN legs}

\* The part of a batch that goes to the accounts of S, added up leg by leg.
Paid(legs, S) ==
    LET sum[i \in 0..Len(legs)] ==
          IF i = 0 THEN 0
          ELSE sum[i - 1] + (IF legs[i].to \in S THEN legs[i].amount ELSE 0)
    IN  sum[Len(legs)]

\* An allowance entry that is absent reads as zero; one whose expiration has
\* been reached reads as zero too, although the entry is still stored.
NoAllowance == [amount |-> 0, expiry |-> 0]

Spendable(from, spender) ==
    IF allowance[from][spender].expiry <= ledger
    THEN 0 ELSE allowance[from][spender].amount

----------------------------------------------------------------------------
(* The compliance engine, as the token sees it *)

EngineAllows_RecipientOnly(from, to) ==
    /\ to \notin blocked
    /\ to \in kycApproved
    /\ ~(maxHolders > 0 /\ to \notin holders /\ holderCount >= maxHolders)

\* evaluate_transfer: the first failing rule denies.
EngineAllows(from, to) ==
    /\ ~paused
    /\ from \notin blocked
    /\ to \notin blocked
    /\ from \in kycApproved
    /\ to \in kycApproved
    /\ ~(maxHolders > 0 /\ to \notin holders /\ holderCount >= maxHolders)

\* can_transfer with the token's own address as sender: no KYC check.
EngineAllowsMint(to) ==
    /\ ~paused
    /\ Token \notin blocked
    /\ to \notin blocked
    /\ ~(maxHolders > 0 /\ to \notin holders /\ holderCount >= maxHolders)

\* u32::saturating_sub
SatSub(a, b) == IF a < b THEN 0 ELSE a - b

UpdateRegistry_KeepsLeavers(New, Gone) ==
    /\ holders' = holders \cup New
    /\ holderCount' = holderCount + Cardinality(New \ holders)

\* register_holder of every account of New, then unregister_holder of Gone;
\* the count moves only when a HolderSince entry appears or disappears.
UpdateRegistry(New, Gone) ==
    /\ holders' = (holders \cup New) \ Gone
    /\ holderCount' = SatSub(holderCount + Cardinality(New \ holders),
                             Cardinality(Gone \cap (holders \cup New)))

----------------------------------------------------------------------------
(* prepare_transfer_plan and execute_transfer_plan *)

NetOutgoing(from, legs) == Paid(legs, Accounts) - Paid(legs, {from})

SenderAfter(from, legs) == balance[from] - NetOutgoing(from, legs)

\* Recipients that hold nothing yet, each once however many legs name it.
NewHolders(from, legs) == {a \in Recipients(legs) \ {from} : balance[a] = 0}

SenderOk_FrozenOnly(from) == from \notin frozen

SenderOk(from) == from \notin frozen /\ from \in kycApproved

RecipientOk_NoFrozenCheck(from, leg) ==
    /\ leg.amount > 0
    /\ leg.to \in kycApproved
    /\ EngineAllows(from, leg.to)

RecipientOk(from, leg) ==
    /\ leg.amount > 0
    /\ leg.to \notin frozen
    /\ leg.to \in kycApproved
    /\ EngineAllows(from, leg.to)

\* The whole batch must fit under the cap once the sender's slot is released.
HolderCapacity(from, legs) ==
    LET new      == Cardinality(NewHolders(from, legs))
        released == IF balance[from] > 0 /\ SenderAfter(from, legs) = 0 THEN 1 ELSE 0
    IN  new = 0 \/ maxHolders = 0 \/ SatSub(holderCount, released) + new <= maxHolders

PlanOk(from, legs) ==
    /\ Len(legs) \in 1..MaxBatch
    /\ SenderOk(from)
    /\ \A i \in DOMAIN legs : RecipientOk(from, legs[i])
    /\ Paid(legs, Accounts) <= I128Max
    /\ balance[from] >= Paid(legs, Accounts)
    /\ HolderCapacity(from, legs)

Leaving_IgnoresSelfLegs(from, legs) ==
    IF Paid(legs, Accounts) = balance[from] THEN {from} ELSE {}

\* The sender, if the plan drains it.
Leaving(from, legs) ==
    IF Paid(legs, Accounts) > 0 /\ SenderAfter(from, legs) = 0 THEN {from} ELSE {}

\* Every leg in order, then the sender leaves the registry if it is drained.
ExecutePlan(from, legs) ==
    /\ balance' = [a \in Accounts |->
                     IF a = from THEN SenderAfter(from, legs)
                     ELSE IF a \in Recipients(legs) THEN balance[a] + Paid(legs, {a})
                     ELSE balance[a]]
    /\ UpdateRegistry(NewHolders(from, legs), Leaving(from, legs))
    /\ UNCHANGED <<totalSupply, frozen, kycApproved, blocked, paused, maxHolders, ledger>>

\* spend_allowance: the entry is removed when it reaches zero.
SpendAllowance(from, spender, amount) ==
    LET left == Spendable(from, spender) - amount
    IN  /\ left >= 0
        /\ allowance' = [allowance EXCEPT ![from][spender] =
                           IF left = 0 THEN NoAllowance ELSE [@ EXCEPT !.amount = left]]

\* History: what the spender moved out of the account.
Record(from, spender, amount) ==
    grant' = [grant EXCEPT ![from][spender].spent = @ + amount]

----------------------------------------------------------------------------
Init ==
    /\ balance = [a \in Accounts |-> 0]
    /\ totalSupply = 0
    /\ frozen = {}
    /\ allowance = [a \in Accounts |-> [s \in Accounts |-> NoAllowance]]
    /\ kycApproved = Accounts
    /\ blocked = {}
    /\ paused = FALSE
    /\ maxHolders = 0
    /\ holders = {}
    /\ holderCount = 0
    /\ ledger = 1
    /\ grant = [a \in Accounts |-> [s \in Accounts |-> [amount |-> 0, spent |-> 0]]]

BatchTransfer(from, legs) ==
    /\ PlanOk(from, legs)
    /\ ExecutePlan(from, legs)
    /\ UNCHANGED <<allowance, grant>>

Transfer(from, to, amount) ==
    BatchTransfer(from, <<[to |-> to, amount |-> amount]>>)

BatchTransferFrom_FirstLegOnly(spender, from, legs) ==
    /\ PlanOk(from, legs)
    /\ SpendAllowance(from, spender, legs[1].amount)
    /\ Record(from, spender, Paid(legs, Accounts))
    /\ ExecutePlan(from, legs)

\* The plan is prepared, the allowance is spent for its total, then it runs.
BatchTransferFrom(spender, from, legs) ==
    /\ PlanOk(from, legs)
    /\ SpendAllowance(from, spender, Paid(legs, Accounts))
    /\ Record(from, spender, Paid(legs, Accounts))
    /\ ExecutePlan(from, legs)

TransferFrom(spender, from, to, amount) ==
    BatchTransferFrom(spender, from, <<[to |-> to, amount |-> amount]>>)

\* A positive grant may expire at the current ledger, not before it.
Approve(from, spender, amount, expiry) ==
    /\ amount <= 0 \/ expiry >= ledger
    /\ allowance' = [allowance EXCEPT ![from][spender] =
                       [amount |-> amount, expiry |-> expiry]]
    /\ grant' = [grant EXCEPT ![from][spender] = [amount |-> amount, spent |-> 0]]
    /\ UNCHANGED <<balance, totalSupply, frozen, kycApproved, engineVars, ledger>>

WithinSupply_CapTestedBefore(amount) ==
    /\ totalSupply + amount <= I128Max
    /\ MaxSupply > 0 => totalSupply < MaxSupply

WithinSupply(amount) ==
    /\ totalSupply + amount <= I128Max
    /\ MaxSupply > 0 => totalSupply + amount <= MaxSupply

\* Minting to an account that holds nothing asks the engine; topping up a
\* holder does not.
Mint(caller, to, amount) ==
    /\ caller \in Issuers
    /\ amount > 0
    /\ WithinSupply(amount)
    /\ to \in kycApproved
    /\ balance[to] = 0 => EngineAllowsMint(to)
    /\ balance' = [balance EXCEPT ![to] = @ + amount]
    /\ totalSupply' = totalSupply + amount
    /\ UpdateRegistry(IF balance[to] = 0 THEN {to} ELSE {}, {})
    /\ UNCHANGED <<frozen, allowance, kycApproved, blocked, paused, maxHolders, ledger, grant>>

BurnHoldings(from, amount) ==
    /\ amount > 0
    /\ SenderOk(from)
    /\ balance[from] >= amount
    /\ balance' = [balance EXCEPT ![from] = @ - amount]
    /\ totalSupply' = totalSupply - amount
    /\ UpdateRegistry({}, IF balance[from] = amount THEN {from} ELSE {})
    /\ UNCHANGED <<frozen, kycApproved, blocked, paused, maxHolders, ledger>>

Burn(from, amount) ==
    /\ BurnHoldings(from, amount)
    /\ UNCHANGED <<allowance, grant>>

BurnFrom(spender, from, amount) ==
    /\ BurnHoldings(from, amount)
    /\ SpendAllowance(from, spender, amount)
    /\ Record(from, spender, amount)

SetFrozen(caller, addr, isFrozen) ==
    /\ caller \in Officers
    /\ frozen' = IF isFrozen THEN frozen \cup {addr} ELSE frozen \ {addr}
    /\ UNCHANGED <<balance, totalSupply, allowance, kycApproved, engineVars, ledger, grant>>

----------------------------------------------------------------------------
(* The contracts around the token, and the ledger *)

\* A verifier approves, or a record is revoked, rejected or expires.
KycChange(addr) ==
    /\ kycApproved' = IF addr \in kycApproved THEN kycApproved \ {addr}
                      ELSE kycApproved \cup {addr}
    /\ UNCHANGED <<tokenVars, engineVars, ledger, grant>>

\* The engine's address rules change for one account, or for the token itself.
BlockChange(addr) ==
    /\ blocked' = IF addr \in blocked THEN blocked \ {addr} ELSE blocked \cup {addr}
    /\ UNCHANGED <<tokenVars, kycApproved, paused, maxHolders, holders, holderCount, ledger, grant>>

\* pause, unpause, set_rules and activate_rules of the engine; the last may put
\* a cap in force that the live count has passed since it was proposed.
ChangeRules(cap, stop) ==
    /\ maxHolders' = cap
    /\ paused' = stop
    /\ UNCHANGED <<tokenVars, kycApproved, blocked, holders, holderCount, ledger, grant>>

Tick ==
    /\ ledger < MaxLedger
    /\ ledger' = ledger + 1
    /\ UNCHANGED <<tokenVars, kycApproved, engineVars, grant>>

----------------------------------------------------------------------------
\* Batches have two legs or more here: one leg is Transfer and TransferFrom.
Batches == UNION {[1..n -> Leg] : n \in 2..MaxBatch}

Next ==
    \/ \E from, to \in Accounts, m \in Amounts :
          \/ Transfer(from, to, m)
          \/ \E s \in Spenders : TransferFrom(s, from, to, m)
    \/ \E from \in Accounts, legs \in Batches :
          \/ BatchTransfer(from, legs)
          \/ \E s \in Spenders : BatchTransferFrom(s, from, legs)
    \/ \E from \in Accounts, s \in Spenders, m \in Amounts, e \in 0..MaxLedger :
          Approve(from, s, m, e)
    \/ \E c, to \in Accounts, m \in Amounts : Mint(c, to, m)
    \/ \E from \in Accounts, m \in Amounts :
          \/ Burn(from, m)
          \/ \E s \in Spenders : BurnFrom(s, from, m)
    \/ \E c \in Accounts, a \in Screened, f \in BOOLEAN : SetFrozen(c, a, f)
    \/ \E a \in Screened : KycChange(a)
    \/ \E a \in Screened \cup {Token} : BlockChange(a)
    \/ \E cap \in Caps, stop \in BOOLEAN : ChangeRules(cap, stop)
    \/ Tick

Spec == Init /\ [][Next]_vars

----------------------------------------------------------------------------
(* Properties *)

\* Every variable has its type: balances, supply, the holder count and the
\* spent history are never negative, whatever amounts callers name.
TypeOK ==
    /\ balance \in [Accounts -> Nat]
    /\ totalSupply \in Nat
    /\ frozen \in SUBSET Accounts
    /\ allowance \in [Accounts -> [Accounts -> [amount : Int, expiry : Nat]]]
    /\ kycApproved \in SUBSET Accounts
    /\ blocked \in SUBSET (Accounts \cup {Token})
    /\ paused \in BOOLEAN
    /\ maxHolders \in Nat
    /\ holders \in SUBSET Accounts
    /\ holderCount \in Nat
    /\ ledger \in Nat
    /\ grant \in [Accounts -> [Accounts -> [amount : Int, spent : Nat]]]

\* The total supply is the sum of all balances: no leg of a batch, self-transfer
\* or delegated call creates or loses value.
SupplyIsSum == totalSupply = SumFunction(balance)

\* The engine's registry is exactly the set of accounts that hold something,
\* and its counter counts it: a batch that pays one new holder twice, drains its
\* sender or pays itself leaves neither a missing nor a stale entry.
RegistryMirrorsBalances ==
    /\ holders = {a \in Accounts : balance[a] > 0}
    /\ holderCount = Cardinality(holders)

\* Nobody joins the holders when that leaves more of them than the cap allows,
\* although each leg of a batch is judged against the count before the batch,
\* and although the cap may have been lowered below the count.
JoinWithinCap ==
    [][maxHolders > 0 /\ holders' \ holders # {}
          => Cardinality(holders') <= maxHolders]_vars

\* The supply never passes the configured cap.
SupplyWithinCap == MaxSupply > 0 => totalSupply <= MaxSupply

\* What a spender has moved since the last approval and what is left of the
\* allowance add up to the amount approved, over transfers, batches and burns;
\* nothing is spent beyond it.
AllowanceAccounted ==
    \A a, s \in Accounts :
        /\ grant[a][s].spent + allowance[a][s].amount = grant[a][s].amount
        /\ grant[a][s].spent > 0 => grant[a][s].spent <= grant[a][s].amount

\* Nothing is spent once the ledger has reached the expiration that was approved.
ExpiredNeverSpent ==
    [][\A a, s \in Accounts :
          grant'[a][s].spent > grant[a][s].spent => ledger < allowance[a][s].expiry]_vars

\* A frozen account never pays, and is never paid by another account: its balance
\* moves only when the supply grows (a mint).
FrozenNeverMoves ==
    [][\A a \in frozen : balance'[a] # balance[a] =>
          balance'[a] > balance[a] /\ totalSupply' > totalSupply]_vars

\* The balance of an account the registry does not approve never moves, in a
\* transfer, a batch leg, a mint or a burn.
UnapprovedNeverMoves ==
    [][\A a \in Accounts \ kycApproved : balance'[a] = balance[a]]_vars

\* While the engine is paused, or for an account its rules deny, no value moves
\* between accounts: what changes a balance changes the supply.
DeniedNeverTransfers ==
    [][\A a \in Accounts : balance'[a] # balance[a] /\ (paused \/ a \in blocked)
          => totalSupply' # totalSupply]_vars

Ledger == INSTANCE TokenLedger
    WITH bal <- balance, supply <- totalSupply, members <- holders

\* The token implements the abstract ledger: every call is an issue, a
\* retirement, a payment or leaves balances and membership alone.
ImplementsLedger == Ledger!LedgerSpec

\* What the token and the engine keep about holdings agrees with itself and with
\* each other, and what spenders moved with what they were allowed.
BooksSound == TypeOK /\ SupplyIsSum /\ RegistryMirrorsBalances /\ AllowanceAccounted

\* Caps, freezes and expiries hold on every path a call can take: direct,
\* delegated, in a batch, as a burn or as a mint.
CallsScreened == JoinWithinCap /\ FrozenNeverMoves /\ ExpiredNeverSpent
=============================================================================
