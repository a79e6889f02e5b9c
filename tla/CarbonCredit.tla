---------------------------- MODULE CarbonCredit ----------------------------
(***************************************************************************)
(* The carbon credit token (contracts/carbon-credit-token): credits are    *)
(* minted and transferred, and retired for good against receipts.  The     *)
(* receipts form one list that only grows, and an index per beneficiary    *)
(* holds the places of the receipts attributed to that address.            *)
(*                                                                         *)
(* KYC registry and compliance engine are seen through the answers they    *)
(* give about an account (standing), which change at will.  Amounts are    *)
(* not negative.  The contents of a receipt that nothing depends on, the   *)
(* project's metadata, the admin's handover and the limits on field        *)
(* lengths are left out.                                                   *)
(***************************************************************************)
EXTENDS Integers, Sequences, FiniteSets, Functions

CONSTANTS
    Accounts,       \* addresses that may hold, retire or benefit
    NoOne,          \* beneficiary_address of a receipt that names none
    Amounts,        \* amounts callers may name
    Watched,        \* accounts whose standing may change
    MaxBatch,       \* most entries in a batch (10 in the contract)
    MaxMinted,      \* bound on what is ever minted
    MaxReceipts     \* bound on the number of receipts

VARIABLES
    standing,       \* what registry and engine say of an account
    balance,        \* Balance(addr)
    supply,         \* TotalSupply
    retired,        \* TotalRetired
    receipts,       \* Receipt(0), Receipt(1), ...; RetirementCount is its length
    index,          \* BeneficiaryReceiptIdx: places in receipts, counted from 0
    registered,     \* holders the token registered with the engine
    minted          \* history: credits ever minted

carbonVars == <<standing, balance, supply, retired, receipts, index, registered, minted>>

\* Approved by the registry and allowed by the engine; approved but denied; not approved.
Standings == {"cleared", "denied", "unverified"}

Allowed(from, to) == standing[from] = "cleared" /\ standing[to] = "cleared"

Approved(a) == standing[a] # "unverified"

Receipt(retiree, beneficiary, amount, entry) ==
    [retiree |-> retiree, beneficiary |-> beneficiary, amount |-> amount, entry |-> entry]

Init ==
    /\ standing = [a \in Accounts |-> "cleared"]
    /\ balance = [a \in Accounts |-> 0]
    /\ supply = 0
    /\ retired = 0
    /\ receipts = <<>>
    /\ index = [a \in Accounts |-> <<>>]
    /\ registered = {}
    /\ minted = 0

----------------------------------------------------------------------------
Mint(to, amount) ==
    /\ minted + amount <= MaxMinted
    /\ Allowed(to, to)
    /\ balance' = [balance EXCEPT ![to] = @ + amount]
    /\ supply' = supply + amount
    /\ minted' = minted + amount
    /\ registered' = registered \cup {to}
    /\ UNCHANGED <<standing, retired, receipts, index>>

\* The recipient's balance is read after the sender's is written.
Transfer(from, to, amount) ==
    /\ Allowed(from, to)
    /\ balance[from] >= amount
    /\ balance' = [[balance EXCEPT ![from] = @ - amount] EXCEPT ![to] = @ + amount]
    /\ registered' = registered \cup {to}
    /\ UNCHANGED <<standing, supply, retired, receipts, index, minted>>

----------------------------------------------------------------------------
(* Retirement *)

Burnt(retiree, amount) ==
    /\ balance[retiree] >= amount
    /\ balance' = [balance EXCEPT ![retiree] = @ - amount]
    /\ supply' = supply - amount
    /\ retired' = retired + amount

\* index_beneficiary_receipt: a place joins the list of a, unless it is there.
Indexed(lists, a, place) ==
    IF place \in Range(lists[a]) THEN lists ELSE [lists EXCEPT ![a] = Append(@, place)]

File(receipt, beneficiary) ==
    /\ Len(receipts) < MaxReceipts
    /\ receipts' = Append(receipts, receipt)
    /\ index' = Indexed(index, beneficiary, Len(receipts))
    /\ UNCHANGED <<standing, registered, minted>>

Retire(retiree, amount) ==
    /\ amount > 0
    /\ Allowed(retiree, retiree)
    /\ Burnt(retiree, amount)
    /\ File(Receipt(retiree, NoOne, amount, "retire"), retiree)

RetireOnBehalf_KeepsForRetiree(retiree, beneficiary, amount) ==
    /\ Allowed(retiree, retiree)
    /\ Approved(beneficiary)
    /\ Burnt(retiree, amount)
    /\ File(Receipt(retiree, beneficiary, amount, "behalf"), retiree)

\* No bound on the amount: a receipt over nothing is filed too.
RetireOnBehalf(retiree, beneficiary, amount) ==
    /\ Allowed(retiree, retiree)
    /\ Approved(beneficiary)
    /\ Burnt(retiree, amount)
    /\ File(Receipt(retiree, beneficiary, amount, "behalf"), beneficiary)

\* The admin files a receipt by hand; nothing is burned.
AppendRetirementReceipt(retiree, beneficiary, amount) ==
    /\ amount > 0
    /\ beneficiary # NoOne => Approved(beneficiary)
    /\ File(Receipt(retiree, beneficiary, amount, "appended"),
            IF beneficiary = NoOne THEN retiree ELSE beneficiary)
    /\ UNCHANGED <<balance, supply, retired>>

Total(batch) == SumFunction([i \in DOMAIN batch |-> batch[i].amount])

\* Both batches ask the engine once, about one credit, and burn the total at once.
FileBatch(retiree, batch, entry) ==
    /\ Len(batch) <= MaxBatch
    /\ Len(receipts) + Len(batch) <= MaxReceipts
    /\ Allowed(retiree, retiree)
    /\ \A i \in DOMAIN batch : batch[i].amount > 0
    /\ Burnt(retiree, Total(batch))
    /\ receipts' = receipts \o [i \in DOMAIN batch |-> Receipt(retiree, batch[i].to, batch[i].amount, entry)]
    /\ UNCHANGED <<standing, registered, minted>>

\* The receipts of this batch join no index.
BatchRetire(retiree, amounts) ==
    /\ FileBatch(retiree, [i \in DOMAIN amounts |-> [to |-> NoOne, amount |-> amounts[i]]], "batch")
    /\ UNCHANGED index

BatchRetireOnBehalf(retiree, batch) ==
    LET lists[i \in 0..Len(batch)] ==
          IF i = 0 THEN index ELSE Indexed(lists[i - 1], batch[i].to, Len(receipts) + i - 1)
    IN  /\ Len(batch) > 0
        /\ \A i \in DOMAIN batch : Approved(batch[i].to)
        /\ FileBatch(retiree, batch, "behalf")
        /\ index' = lists[Len(batch)]

\* Registry or engine change their mind about an account.
Reassess(a, s) ==
    /\ standing' = [standing EXCEPT ![a] = s]
    /\ UNCHANGED <<balance, supply, retired, receipts, index, registered, minted>>

Batches(S) == UNION {[1..n -> S] : n \in 0..MaxBatch}

Next ==
    \/ \E a \in Accounts, m \in Amounts : Mint(a, m) \/ Retire(a, m)
    \/ \E a, b \in Accounts, m \in Amounts : Transfer(a, b, m) \/ RetireOnBehalf(a, b, m)
    \/ \E a \in Accounts, b \in Accounts \cup {NoOne}, m \in Amounts : AppendRetirementReceipt(a, b, m)
    \/ \E a \in Accounts, ms \in Batches(Amounts) : BatchRetire(a, ms)
    \/ \E a \in Accounts, batch \in Batches([to : Accounts, amount : Amounts]) : BatchRetireOnBehalf(a, batch)
    \/ \E a \in Watched, s \in Standings : Reassess(a, s)

Spec == Init /\ [][Next]_carbonVars

----------------------------------------------------------------------------
(* Readers *)

\* get_receipts_by_beneficiary in one page.
ByBeneficiary(a) == [i \in DOMAIN index[a] |-> receipts[index[a][i] + 1]]

\* Whom a receipt speaks for.
Beneficiary(r) == IF r.beneficiary = NoOne THEN r.retiree ELSE r.beneficiary

\* What its filing took out of circulation.
Burned(r) == IF r.entry = "appended" THEN 0 ELSE r.amount

----------------------------------------------------------------------------
(* Properties *)

\* Every credit minted is held or retired, and every retired credit has one
\* receipt that says so, through single calls, batches and receipts the admin
\* files without burning anything.
CreditsConserved ==
    /\ supply = SumFunction(balance)
    /\ minted = supply + retired
    /\ retired = SumFunction([n \in DOMAIN receipts |-> Burned(receipts[n])])

\* The index of an address lists, once each and in order, exactly the receipts
\* that speak for it, except those of batch_retire; who asks for the receipts
\* of a beneficiary gets no other's (index_beneficiary_receipt).
IndexTells ==
    \A a \in Accounts :
        /\ \A i, j \in DOMAIN index[a] : i < j => index[a][i] < index[a][j]
        /\ {index[a][i] + 1 : i \in DOMAIN index[a]} =
             {n \in DOMAIN receipts : Beneficiary(receipts[n]) = a /\ receipts[n].entry # "batch"}
        /\ \A i \in DOMAIN ByBeneficiary(a) : Beneficiary(ByBeneficiary(a)[i]) = a

\* Whoever holds credits is registered with the engine.
HoldersKnown == \A a \in Accounts : balance[a] > 0 => a \in registered

CreditsSound == CreditsConserved /\ IndexTells /\ HoldersKnown
=============================================================================
