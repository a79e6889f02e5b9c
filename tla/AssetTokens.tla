---------------------------- MODULE AssetTokens ----------------------------
(***************************************************************************)
(* The three asset tokens side by side: invoices, by name, carbon credits  *)
(* and property shares, as instances.  The contracts share no state.       *)
(***************************************************************************)
EXTENDS InvoiceToken

CONSTANTS
    CreditAccounts, CreditAmounts, CreditsWatched,  \* see CarbonCredit
    CreditBatch, MaxMinted, MaxReceipts,
    ShareAccounts, Shares, Deposits, Authorized,    \* see PropertyToken
    Scale, Upgrades, NoCheckpoint,
    ShareSpenders, SharesWatched, MaxDeposits, ShareNow,
    Traded          \* the invoice that is looked at as a ledger

VARIABLES
    scenario,       \* the contract that is looked at, where one is enough
    rating, balance, supply, retired, receipts, places, registered, minted,
    fitness, shares, authorized, issued, index, pool, dust, checkpoint, legacy, roll, offset, schema, flagged,
    holderCount, allowances, ledger, deposits, paidIn, claimed, turned

creditVars == <<rating, balance, supply, retired, receipts, places, registered, minted>>

shareVars == <<fitness, shares, authorized, issued, index, pool, dust, checkpoint, legacy, roll, offset, schema,
               flagged, holderCount, allowances, ledger, deposits, paidIn, claimed, turned>>

Carbon == INSTANCE CarbonCredit WITH
    Accounts <- CreditAccounts, Amounts <- CreditAmounts, Watched <- CreditsWatched, MaxBatch <- CreditBatch,
    standing <- rating, index <- places

Property == INSTANCE PropertyToken WITH
    Accounts <- ShareAccounts, Spenders <- ShareSpenders, Watched <- SharesWatched, MaxNow <- ShareNow,
    standing <- fitness, granted <- allowances, clock <- ledger

ASSUME Credits ==
    /\ CreditAmounts \subseteq Nat /\ CreditBatch \in Nat
    /\ IsFiniteSet(CreditAccounts)
    /\ NoOne \notin CreditAccounts

Indexes == [Property!Books -> Nat]

Checkpoints == [shares : Nat, at : Indexes, owed : Indexes]

Legacies == [owed : Indexes, debt : Indexes]

\* What a holder the older contract knew may claim, in scaled units.
Left(l, n, at) == l.owed["total"] * Scale + Property!Beyond(n * at["total"], l.debt["total"] * Scale)

\* An upgrade finds a contract whose deposits cover its claims, and whose list
\* of holders is complete.
InOrder(u) ==
    /\ u.shares \in [ShareAccounts -> Nat] /\ SumFunction(u.shares) <= Authorized
    /\ u.index \in Indexes /\ u.pool \in Nat /\ u.deposits \in Nat
    /\ u.legacy \in [ShareAccounts -> Legacies]
    /\ SumFunction([a \in ShareAccounts |-> Left(u.legacy[a], u.shares[a], u.index)]) <= u.pool * Scale
    /\ u.roll \in Seq(ShareAccounts)
    /\ \A a \in ShareAccounts : u.shares[a] > 0 => \E n \in DOMAIN u.roll : u.roll[n] = a

ASSUME Estate ==
    /\ IsFiniteSet(ShareAccounts) /\ ShareAccounts # {}
    /\ Shares \subseteq Nat /\ Deposits \subseteq Nat
    /\ Authorized \in Nat /\ Scale \in Nat \ {0}
    /\ NoCheckpoint \notin Checkpoints
    /\ \A u \in Upgrades : InOrder(u)

ASSUME Look == Traded \in Invoices

AssetSpec == Spec /\ Carbon!Spec /\ Property!Spec

----------------------------------------------------------------------------
(* Properties, stated and explained in the modules *)

\* The credits and receipts of the carbon credit token.
CreditsSound == scenario = "credits" => Carbon!CreditsSound

\* Shares, checkpoints, claims and holders of the property token; nobody's
\* claim moves but by a deposit or a payment.
DividendsSound ==
    /\ [](scenario \in {"shares", "market"} => Property!DividendsInOrder)
    /\ [][scenario = "shares" => Property!ClaimsStayPut]_shareVars

Holding(b) == {a \in DOMAIN b : b[a] > 0}

Invoice == INSTANCE TokenLedger WITH
    bal <- [a \in Accounts |-> IF a \in DOMAIN held[Traded] THEN held[Traded][a] ELSE 0],
    supply <- outstanding[Traded], members <- Holding(held[Traded]), MaxSupply <- 0

Equity == INSTANCE TokenLedger WITH
    Accounts <- ShareAccounts, bal <- shares, supply <- issued, members <- Holding(shares), MaxSupply <- Authorized

Credited == INSTANCE TokenLedger WITH
    Accounts <- CreditAccounts, bal <- balance, members <- Holding(balance), MaxSupply <- 0

\* Each of the tokens, and each invoice by itself, keeps the abstract ledger:
\* every call is an issue, a retirement or a payment, or moves nothing; no more
\* shares are issued than the constructor authorized.
AssetsImplementLedger == Invoice!LedgerSpec /\ Equity!LedgerSpec /\ Credited!LedgerSpec
=============================================================================
