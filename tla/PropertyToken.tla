--------------------------- MODULE PropertyToken ---------------------------
(***************************************************************************)
(* The property token (contracts/property-token): shares of a property,    *)
(* and dividends paid to whoever holds them.  A deposit raises a scaled    *)
(* amount per share; what a holder may claim is worked out when the holder *)
(* is next touched, from the shares held since.  Contracts upgraded from   *)
(* an older one begin with its per-holder debts and its list of holders.   *)
(*                                                                         *)
(* KYC registry and compliance engine are seen through what they say of an *)
(* account (standing), which changes at will; a paused engine blocks all.  *)
(* Amounts are not negative.  Left out: the admin's handover, metadata,    *)
(* storage lifetimes, and what only readers use - the histories of         *)
(* deposits and of forced transfers, the totals a holder has claimed, and  *)
(* the old debt keys, written with every checkpoint and read only while a  *)
(* holder has none.                                                        *)
(***************************************************************************)
EXTENDS Integers, Sequences, FiniteSets, Functions

CONSTANTS
    Accounts,       \* addresses that may hold or spend
    Shares,         \* numbers of shares callers may name
    Deposits,       \* amounts the admin may deposit
    Authorized,     \* total_shares of the constructor
    Scale,          \* SCALE_FACTOR
    Upgrades,       \* what an older contract may have left, see Init
    NoCheckpoint,   \* of a holder that was not touched yet
    Spenders,       \* accounts that may be approved as spenders
    Watched,        \* accounts whose standing may change
    MaxDeposits,    \* bound on the number of deposits
    MaxNow          \* bound on the ledger sequence

Typed == {"rent", "capital"}
Kinds == Typed \cup {"other"}
Books == Typed \cup {"total"}

VARIABLES
    standing,       \* what registry and engine say of an account
    shares,         \* Balance(addr)
    authorized,     \* TotalShares
    issued,         \* MintedShares
    index,          \* DividendPerShare, of all deposits and of two kinds; scaled
    pool,           \* DividendPool
    dust,           \* DustReserve
    checkpoint,     \* HolderDividendCheckpoint(addr): [shares, at, owed]
    legacy,         \* Unclaimed.. and ClaimedDividend.. of the older contract: [owed, debt]
    roll,           \* HolderList of the older contract
    offset,         \* MigrationBatchOffset
    schema,         \* SchemaVersion
    flagged,        \* accounts with an IsHolder entry
    holderCount,    \* HolderCount
    granted,        \* Allowance(from, spender)
    clock,          \* ledger sequence
    deposits,       \* DividendDepositCount
    paidIn,         \* history: what the pool began with and was paid since
    claimed,        \* history: what holders have claimed
    turned          \* history: accounts that paid their whole holding to themselves

dividendVars == <<index, pool, dust, deposits, paidIn, claimed>>
holderVars == <<roll, offset, schema, flagged, holderCount, turned>>
propertyVars == <<standing, shares, authorized, issued, dividendVars, checkpoint, legacy, holderVars, granted, clock>>

\* Fit in every way; of a tier below the property's; denied by a rule other
\* than the blocklist; blocklisted; not approved.
Standings == {"cleared", "lowtier", "restricted", "blocked", "unverified"}

Allowed(a) == standing[a] \in {"cleared", "lowtier"}

Approved(a) == standing[a] # "unverified"

TierMet(a) == standing[a] \notin {"lowtier", "unverified"}

NoGrant == [amount |-> 0, expiry |-> 0]

Nothing == [k \in Books |-> 0]

Unknown == [owed |-> Nothing, debt |-> Nothing]

\* A new contract, or one that an upgrade finds in use: shares held, amounts
\* per share, what is owed and what was settled, the money and the list.
Fresh ==
    [shares |-> [a \in Accounts |-> 0], index |-> Nothing, pool |-> 0, deposits |-> 0,
     legacy |-> [a \in Accounts |-> Unknown], roll |-> <<>>]

Init ==
    /\ standing = [a \in Accounts |-> "cleared"]
    /\ \E u \in Upgrades \cup {Fresh} :
          /\ shares = u.shares /\ issued = SumFunction(u.shares)
          /\ index = u.index /\ pool = u.pool /\ paidIn = u.pool
          /\ legacy = u.legacy /\ roll = u.roll /\ deposits = u.deposits
    /\ authorized = Authorized
    /\ dust = 0 /\ claimed = 0
    /\ checkpoint = [a \in Accounts |-> NoCheckpoint]
    /\ offset = 0 /\ schema = 1
    /\ flagged = {} /\ holderCount = 0 /\ turned = {}
    /\ granted = [a \in Accounts |-> [s \in Accounts |-> NoGrant]]
    /\ clock = 1

----------------------------------------------------------------------------
(* Checkpoints *)

Beyond(a, b) == IF a > b THEN a - b ELSE 0

\* load_holder_checkpoint: without one, what the older contract owed and what
\* the shares earned past its debt; its typed counters do not count when they
\* say more than the total.
Bridged(a) ==
    LET l == legacy[a]
        owed == [k \in Books |-> l.owed[k] + Beyond((shares[a] * index[k]) \div Scale, l.debt[k])]
    IN  [shares |-> shares[a], at |-> index,
         owed |-> IF owed["rent"] + owed["capital"] <= owed["total"] THEN owed
                  ELSE [owed EXCEPT !["rent"] = 0, !["capital"] = 0]]

Loaded(a) == IF checkpoint[a] = NoCheckpoint THEN Bridged(a) ELSE checkpoint[a]

\* What is owed, with what the deposits since the checkpoint add for its shares.
Accrued(c) == [k \in Books |-> c.owed[k] + (c.shares * Beyond(index[k], c.at[k])) \div Scale]

Preview_KeepsPlace(a) == [Loaded(a) EXCEPT !.owed = Accrued(Loaded(a))]

\* preview_holder_checkpoint: brought up to the latest deposit.
Preview(a) == [Loaded(a) EXCEPT !.owed = Accrued(Loaded(a)), !.at = index]

Pending(a) == Preview(a).owed["total"]

\* accrue before and reset_debt after a change of the shares of A.
Touch(A, held) ==
    checkpoint' = [a \in Accounts |->
        IF a \in A THEN [Preview(a) EXCEPT !.shares = held[a]] ELSE checkpoint[a]]

----------------------------------------------------------------------------
(* Holders *)

SatSub(a, b) == IF a < b THEN 0 ELSE a - b

\* add_holder_local of the accounts of New, then remove_holder_local of Gone.
Enrol(New, Gone) ==
    LET joined == flagged \cup New
    IN  /\ flagged' = joined \ Gone
        /\ holderCount' = SatSub(holderCount + Cardinality(New \ flagged), Cardinality(Gone \cap joined))
        /\ UNCHANGED <<roll, offset, schema>>

\* migrate_schema: the next batch of the list is flagged, all that is left for
\* a batch of zero; the last batch removes the list and raises the version.
MigrateSchema(to, batch) ==
    /\ to = schema + 1
    /\ IF to # 2 THEN UNCHANGED holderVars
       ELSE LET limit == IF batch = 0 \/ offset + batch > Len(roll) THEN Len(roll) ELSE offset + batch
                part == {roll[n] : n \in offset + 1 .. limit}
                done == limit >= Len(roll)
            IN  /\ flagged' = flagged \cup part
                /\ holderCount' = holderCount + Cardinality(part \ flagged)
                /\ schema' = IF done THEN 2 ELSE schema
                /\ roll' = IF done THEN <<>> ELSE roll
                /\ offset' = IF done THEN 0 ELSE limit
                /\ UNCHANGED turned
    /\ UNCHANGED <<standing, shares, authorized, issued, dividendVars, checkpoint, legacy, granted, clock>>

----------------------------------------------------------------------------
(* Shares *)

Mint(to, n) ==
    /\ Allowed(to) /\ TierMet(to)
    /\ n > 0
    /\ issued + n <= authorized
    /\ shares' = [shares EXCEPT ![to] = @ + n]
    /\ issued' = issued + n
    /\ Touch({to}, shares')
    /\ Enrol({to}, {})
    /\ UNCHANGED <<standing, authorized, dividendVars, legacy, granted, clock, turned>>

\* The sender is removed when the balance it had before is what it sends, even
\* when it sends it to itself.
Move(from, to, n) ==
    /\ n > 0
    /\ shares[from] >= n
    /\ shares' = [[shares EXCEPT ![from] = @ - n] EXCEPT ![to] = @ + n]
    /\ Touch({from, to}, shares')
    /\ Enrol({to}, IF shares[from] = n THEN {from} ELSE {})
    /\ turned' = IF from = to /\ shares[from] = n THEN turned \cup {from} ELSE turned
    /\ UNCHANGED <<standing, authorized, issued, dividendVars, legacy, clock>>

Transfer(from, to, n) ==
    /\ from # to
    /\ Allowed(from) /\ Allowed(to) /\ TierMet(to)
    /\ Move(from, to, n)
    /\ UNCHANGED granted

\* An allowance serves up to and including its expiration.
TransferFrom(s, from, to, n) ==
    /\ Allowed(from) /\ Allowed(to) /\ TierMet(to)
    /\ granted[from][s].expiry >= clock
    /\ granted[from][s].amount >= n
    /\ granted' = [granted EXCEPT ![from][s].amount = @ - n]
    /\ Move(from, to, n)

\* The sender needs no more than an approved record.
ForcedTransfer(from, to, n) ==
    /\ Approved(from) /\ Approved(to) /\ TierMet(to)
    /\ standing[to] # "blocked"
    /\ Move(from, to, n)
    /\ UNCHANGED granted

\* The shares bought back are no longer authorized either.
Buyback(from, n) ==
    /\ Approved(from)
    /\ n > 0
    /\ shares[from] >= n
    /\ shares' = [shares EXCEPT ![from] = @ - n]
    /\ authorized' = authorized - n
    /\ issued' = issued - n
    /\ Touch({from}, shares')
    /\ Enrol({}, IF shares[from] = n THEN {from} ELSE {})
    /\ UNCHANGED <<standing, dividendVars, legacy, granted, clock, turned>>

Approve(from, s, n, expiry) ==
    /\ n > 0 => expiry >= clock
    /\ granted' = [granted EXCEPT ![from][s] = [amount |-> n, expiry |-> expiry]]
    /\ UNCHANGED <<standing, shares, authorized, issued, dividendVars, checkpoint, legacy, holderVars, clock>>

----------------------------------------------------------------------------
(* Dividends *)

\* Per authorized share, issued or not, rounded down at the scale.
DepositDividend(amount, kind) ==
    LET perShare == (amount * Scale) \div authorized
    IN  /\ deposits < MaxDeposits
        /\ amount > 0
        /\ authorized > 0
        /\ index' = [k \in Books |-> index[k] + (IF k \in {"total", kind} THEN perShare ELSE 0)]
        /\ pool' = pool + amount
        /\ dust' = dust + amount - (perShare * authorized) \div Scale
        /\ deposits' = deposits + 1
        /\ paidIn' = paidIn + amount
        /\ UNCHANGED <<claimed, standing, shares, authorized, issued, checkpoint, legacy, holderVars, granted, clock>>

PayOut(a, owed, amount) ==
    /\ pool >= amount
    /\ pool' = pool - amount
    /\ claimed' = claimed + amount
    /\ checkpoint' = [checkpoint EXCEPT ![a] = [Preview(a) EXCEPT !.owed = owed]]
    /\ UNCHANGED <<index, dust, deposits, paidIn>>
    /\ UNCHANGED <<standing, shares, authorized, issued, legacy, holderVars, granted, clock>>

\* Everything at once; there must be something.
ClaimDividend(a) ==
    /\ Pending(a) > 0
    /\ PayOut(a, Nothing, Pending(a))

ClaimTyped_KeepsTotal(a, kind) ==
    LET owed == Preview(a).owed
    IN  PayOut(a, [owed EXCEPT ![kind] = 0], owed[kind])

\* claim_rent_yield, claim_capital_return: with nothing of the kind to claim,
\* the holder is only brought up to date.
ClaimTyped(a, kind) ==
    LET owed == Preview(a).owed
    IN  PayOut(a, [owed EXCEPT ![kind] = 0, !["total"] = @ - owed[kind]], owed[kind])

\* force_migrate_holder_checkpoint, by the admin.
Settle(a) == PayOut(a, Preview(a).owed, 0)

CollectDust ==
    /\ dust > 0
    /\ pool >= dust
    /\ pool' = pool - dust
    /\ dust' = 0
    /\ UNCHANGED <<index, deposits, paidIn, claimed>>
    /\ UNCHANGED <<standing, shares, authorized, issued, checkpoint, legacy, holderVars, granted, clock>>

----------------------------------------------------------------------------
Reassess(a, s) ==
    /\ standing' = [standing EXCEPT ![a] = s]
    /\ UNCHANGED <<shares, authorized, issued, dividendVars, checkpoint, legacy, holderVars, granted, clock>>

Tick ==
    /\ clock < MaxNow
    /\ clock' = clock + 1
    /\ UNCHANGED <<standing, shares, authorized, issued, dividendVars, checkpoint, legacy, holderVars, granted>>

Next ==
    \/ \E a \in Accounts, n \in Shares : Mint(a, n) \/ Buyback(a, n)
    \/ \E from, to \in Accounts, n \in Shares :
          \/ Transfer(from, to, n)
          \/ ForcedTransfer(from, to, n)
          \/ \E s \in Spenders : TransferFrom(s, from, to, n)
    \/ \E a \in Accounts, s \in Spenders, n \in Shares, e \in 0..MaxNow : Approve(a, s, n, e)
    \/ \E amount \in Deposits, kind \in Kinds : DepositDividend(amount, kind)
    \/ \E a \in Accounts : ClaimDividend(a) \/ Settle(a)
    \/ \E a \in Accounts, kind \in Typed : ClaimTyped(a, kind)
    \/ CollectDust
    \/ \E to \in 2..3, batch \in 0..2 : MigrateSchema(to, batch)
    \/ \E a \in Watched, s \in Standings : Reassess(a, s)
    \/ Tick

Spec == Init /\ [][Next]_propertyVars

----------------------------------------------------------------------------
(* Properties *)

AllPending == SumFunction([a \in Accounts |-> Pending(a)])

\* The shares issued are the shares held, and no more than may be issued,
\* through transfers, buybacks and issues that follow them.
SharesAddUp ==
    /\ issued = SumFunction(shares)
    /\ issued <= authorized

\* A checkpoint knows the shares of its holder, so that no deposit is reckoned
\* on shares that were sold or missed on shares that were bought.
CheckpointsCurrent ==
    \A a \in Accounts : checkpoint[a] # NoCheckpoint => checkpoint[a].shares = shares[a]

\* All that holders have claimed and may still claim was paid in, whatever was
\* issued, sold or bought back between deposits; rent and capital are part of
\* the total, and no claim of one of them eats into the rest.
ClaimsCovered ==
    /\ claimed + AllPending <= paidIn
    /\ \A a \in Accounts :
         LET owed == Preview(a).owed
         IN  /\ \A k \in Books : owed[k] >= 0
             /\ owed["rent"] + owed["capital"] <= owed["total"]

\* Nobody gains or loses a claim by what others, or the admin, do with shares;
\* only a deposit adds to it, and only a payment to the holder takes from it.
ClaimsStayPut ==
    IF deposits' # deposits
    THEN \A a \in Accounts : Pending(a)' >= Pending(a)
    ELSE \E a \in Accounts :
            /\ claimed' >= claimed
            /\ Pending(a) - Pending(a)' = claimed' - claimed
            /\ \A b \in Accounts \ {a} : Pending(b)' = Pending(b)

\* The count is the number of flags, and who holds shares is flagged, except
\* one still on the old list, and one that paid itself all it had.
HoldersFlagged ==
    /\ holderCount = Cardinality(flagged)
    /\ \A a \in Accounts :
         shares[a] > 0 => a \in flagged \cup turned \cup {roll[n] : n \in DOMAIN roll}

DividendsInOrder == SharesAddUp /\ CheckpointsCurrent /\ ClaimsCovered /\ HoldersFlagged

\* docs/contract-api-reference.md:860-863 has "At any point in time, summing
\* the pending dividends of all active holders plus the dust reserve must equal
\* the dividend pool"; this is the half of it that claims depend on.
PoolCovers == AllPending + dust <= pool
=============================================================================
