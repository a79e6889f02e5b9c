---------------------------- MODULE InvoiceToken ----------------------------
(***************************************************************************)
(* The invoice token (contracts/invoice-token): one contract, several      *)
(* invoices, each with its own token.  An invoice is issued to holders,    *)
(* traded until it is due, settled in part or in full, and redeemed; every *)
(* change of its status leaves an entry in its journal.                    *)
(*                                                                         *)
(* KYC registry and compliance engine are seen through the answers they    *)
(* give about an account (standing), which change at will.  Amounts are    *)
(* not negative, and one clock stands for ledger sequence and timestamp.   *)
(* The admin's handover, the fee recipient role (stored, but read by no    *)
(* entry point that moves value), webhooks and the metadata that nothing   *)
(* computes with are left out.                                             *)
(***************************************************************************)
EXTENDS Integers, Sequences, FiniteSets, Functions

CONSTANTS
    Invoices,       \* invoice ids
    Accounts,       \* addresses that may hold or spend
    NoOne,          \* fee recipient of an invoice without one
    Metas,          \* what an invoice may say: [face, due, fee (basis points), recipient]
    NoMeta,         \* of an invoice that was not created
    Amounts,        \* amounts callers may name
    Spenders,       \* accounts that may be approved as spenders
    Watched,        \* accounts whose standing may change
    Switches,       \* settings of pause and exemption the admin uses
    MaxBatch,       \* invoices a batch settles; the rest is ignored (10)
    MaxNow,         \* bound on the clock
    MaxNotes        \* bound on journal entries made by hand

ASSUME InvoiceAmounts ==
    /\ Amounts \subseteq Nat /\ MaxNow \in Nat /\ MaxBatch \in Nat
    /\ IsFiniteSet(Accounts)
ASSUME InvoiceMetas ==
    /\ NoMeta \notin Metas
    /\ NoOne \notin Accounts
    /\ Metas \subseteq [face : Nat \ {0}, due : Nat, fee : 0..10000, recipient : Accounts \cup {NoOne}]

Statuses == {"Created", "Issued", "PartiallySettled", "FullySettled", "Redeemed"}
Settled  == {"PartiallySettled", "FullySettled"}

VARIABLES
    standing,       \* what registry and engine say of an account
    meta,           \* InvoiceMeta(id)
    listed,         \* InvoicesList
    life,           \* per invoice: status, journal, SettlementAmount, RedemptionDust,
                    \* and, as history, what was redeemed since the last settlement
    held,           \* Balance(addr, id)
    outstanding,    \* TotalSupply(id)
    entitled,       \* SettledEntitlement(id, addr), where one is stored
    granted,        \* Allowance(from, spender, id)
    stopped,        \* LifecyclePaused
    exempt,         \* FeeRecipientExempt
    clock

lifeVars == <<meta, listed, life>>
tokenVars == <<held, outstanding, entitled>>
invoiceVars == <<standing, lifeVars, tokenVars, granted, stopped, exempt, clock>>

Standings == {"cleared", "denied", "unverified"}

Allowed(from, to) == standing[from] = "cleared" /\ standing[to] = "cleared"

Approved(a) == standing[a] # "unverified"

NoGrant == [amount |-> 0, expiry |-> 0]

Unborn == [status |-> "Created", journal |-> <<>>, settlement |-> 0, dust |-> 0, redeemed |-> 0]

Status(i) == life[i].status

Init ==
    /\ standing = [a \in Accounts |-> "cleared"]
    /\ \E i \in Invoices, m \in Metas :
          /\ meta = [j \in Invoices |-> IF j = i THEN m ELSE NoMeta]
          /\ listed = <<i>>
    /\ life = [i \in Invoices |-> Unborn]
    /\ held = [i \in Invoices |-> [a \in Accounts |-> 0]]
    /\ outstanding = [i \in Invoices |-> 0]
    /\ entitled = [i \in Invoices |-> [a \in {} |-> 0]]
    /\ granted = [i \in Invoices |-> [a \in Accounts |-> [s \in Accounts |-> NoGrant]]]
    /\ stopped = FALSE
    /\ exempt = FALSE
    /\ clock = 1

----------------------------------------------------------------------------
(* Lifecycle *)

Entry(from, to) == [from |-> from, to |-> to]

\* transition_status: the journal entry and the status are written together.
MovedTo(l, to) == [l EXCEPT !.status = to, !.journal = Append(@, Entry(l.status, to))]

\* A settlement starts the account of what is left to redeem afresh.
PaidIn(l, to, amount) ==
    [MovedTo(l, to) EXCEPT !.settlement = amount, !.dust = amount, !.redeemed = 0]

CreateInvoice(i, m) ==
    /\ meta[i] = NoMeta
    /\ meta' = [meta EXCEPT ![i] = m]
    /\ listed' = Append(listed, i)
    /\ UNCHANGED <<standing, life, tokenVars, granted, stopped, exempt, clock>>

\* The face value may fall below what was issued.  An invoice that was never
\* created reads as Created: it gets metadata here, and stays off the list.
UpdateMeta(i, m) ==
    /\ Status(i) \in {"Created", "Issued"}
    /\ meta' = [meta EXCEPT ![i] = m]
    /\ UNCHANGED <<standing, listed, life, tokenVars, granted, stopped, exempt, clock>>

AppendJournalEntry(i) ==
    /\ meta[i] # NoMeta
    /\ Cardinality({n \in DOMAIN life[i].journal :
                     life[i].journal[n].from = life[i].journal[n].to}) < MaxNotes
    /\ life' = [life EXCEPT ![i].journal = Append(@, Entry(Status(i), Status(i)))]
    /\ UNCHANGED <<standing, meta, listed, tokenVars, granted, stopped, exempt, clock>>

\* Only the registry is asked about the recipient, not the engine.
Issue(i, to, amount) ==
    /\ meta[i] # NoMeta
    /\ Approved(to)
    /\ Status(i) \in {"Created", "Issued"}
    /\ outstanding[i] + amount <= meta[i].face
    /\ life' = [life EXCEPT ![i] = IF @.status = "Created" THEN MovedTo(@, "Issued") ELSE @]
    /\ held' = [held EXCEPT ![i][to] = @ + amount]
    /\ outstanding' = [outstanding EXCEPT ![i] = @ + amount]
    /\ UNCHANGED <<standing, meta, listed, entitled, granted, stopped, exempt, clock>>

\* From any status before the full settlement, Created included.
Settle(i) ==
    /\ ~stopped
    /\ meta[i] # NoMeta
    /\ Status(i) \notin {"FullySettled", "Redeemed"}
    /\ life' = [life EXCEPT ![i] = PaidIn(@, "FullySettled", meta[i].face)]
    /\ UNCHANGED <<standing, meta, listed, tokenVars, granted, stopped, exempt, clock>>

Payable(l, m, amount) ==
    /\ m # NoMeta
    /\ 0 < amount /\ amount <= m.face
    /\ l.status \in {"Created", "Issued"}

PartlyPaid(l, m, amount) ==
    PaidIn(l, IF amount = m.face THEN "FullySettled" ELSE "PartiallySettled", amount)

PartialSettle(i, amount) ==
    /\ ~stopped
    /\ Payable(life[i], meta[i], amount)
    /\ life' = [life EXCEPT ![i] = PartlyPaid(@, meta[i], amount)]
    /\ UNCHANGED <<standing, meta, listed, tokenVars, granted, stopped, exempt, clock>>

\* Entry by entry, a later one seeing what an earlier one did; one that fails
\* is reported and skipped, and so is what follows the tenth.
BatchSettle(batch) ==
    LET Least(a, b) == IF a < b THEN a ELSE b
        after[n \in 0..Least(Len(batch), MaxBatch)] ==
            IF n = 0 THEN life
            ELSE LET i == batch[n].id
                 IN  IF ~stopped /\ Payable(after[n - 1][i], meta[i], batch[n].amount)
                     THEN [after[n - 1] EXCEPT ![i] = PartlyPaid(@, meta[i], batch[n].amount)]
                     ELSE after[n - 1]
    IN  /\ life' = after[Least(Len(batch), MaxBatch)]
        /\ UNCHANGED <<standing, meta, listed, tokenVars, granted, stopped, exempt, clock>>

SetPaused(stop) ==
    /\ stopped' = stop
    /\ UNCHANGED <<standing, lifeVars, tokenVars, granted, exempt, clock>>

SetFeeRecipientExempt(free) ==
    /\ exempt' = free
    /\ UNCHANGED <<standing, lifeVars, tokenVars, granted, stopped, clock>>

----------------------------------------------------------------------------
(* Redemption *)

\* A holder's part of the settlement, rounded down.
ProRata(i, a) ==
    IF life[i].settlement > 0 /\ outstanding[i] > 0
    THEN (held[i][a] * life[i].settlement) \div outstanding[i]
    ELSE 0

\* What the holder may redeem in one call: a stored entitlement, even one of
\* zero, comes before the share of the moment.
MaxRedeemable(i, a) ==
    IF a \notin DOMAIN entitled[i] THEN ProRata(i, a)
    ELSE IF entitled[i][a] < held[i][a] THEN entitled[i][a] ELSE held[i][a]

\* The entry is removed once it is used up.
Redeemed(e, a, amount) ==
    IF a \notin DOMAIN e THEN e
    ELSE IF e[a] = amount THEN [b \in DOMAIN e \ {a} |-> e[b]]
    ELSE [e EXCEPT ![a] = @ - amount]

\* Tokens that leave circulation; the last ones close a settled invoice.
Closed(l, left) ==
    IF left = 0 /\ l.status \in Settled THEN MovedTo(l, "Redeemed") ELSE l

\* A redemption on the settlement's account.
Drawn(l, amount) == [l EXCEPT !.dust = @ - amount, !.redeemed = @ + amount]

Redeem(i, a, amount) ==
    /\ ~stopped
    /\ amount > 0
    /\ Status(i) \in Settled
    /\ Allowed(a, a)
    /\ amount <= held[i][a]
    /\ amount <= MaxRedeemable(i, a)
    /\ held' = [held EXCEPT ![i][a] = @ - amount]
    /\ outstanding' = [outstanding EXCEPT ![i] = @ - amount]
    /\ entitled' = [entitled EXCEPT ![i] = Redeemed(@, a, amount)]
    /\ life' = [life EXCEPT ![i] = Closed(Drawn(@, amount), outstanding[i] - amount)]
    /\ UNCHANGED <<standing, meta, listed, granted, stopped, exempt, clock>>

BurnHeld_KeepsOpen(i, a, amount) ==
    /\ Allowed(a, a)
    /\ amount <= held[i][a]
    /\ held' = [held EXCEPT ![i][a] = @ - amount]
    /\ outstanding' = [outstanding EXCEPT ![i] = @ - amount]
    /\ UNCHANGED <<standing, lifeVars, entitled, stopped, exempt, clock>>

\* In every status, and while the lifecycle is paused; dust and entitlement stay.
BurnHeld(i, a, amount) ==
    /\ Allowed(a, a)
    /\ amount <= held[i][a]
    /\ held' = [held EXCEPT ![i][a] = @ - amount]
    /\ outstanding' = [outstanding EXCEPT ![i] = @ - amount]
    /\ life' = [life EXCEPT ![i] = Closed(@, outstanding[i] - amount)]
    /\ UNCHANGED <<standing, meta, listed, entitled, stopped, exempt, clock>>

Burn(i, a, amount) == BurnHeld(i, a, amount) /\ UNCHANGED granted

----------------------------------------------------------------------------
(* Transfers and allowances *)

\* An allowance serves up to and including its expiration.
Spend(i, from, s, amount) ==
    /\ granted[i][from][s].expiry >= clock
    /\ granted[i][from][s].amount >= amount
    /\ granted' = [granted EXCEPT ![i][from][s].amount = @ - amount]

BurnFrom(s, i, a, amount) == Spend(i, a, s, amount) /\ BurnHeld(i, a, amount)

Fee(m, amount) == IF m.recipient = NoOne THEN 0 ELSE (amount * m.fee) \div 10000

Credit(b, a, amount) == [b EXCEPT ![a] = @ + amount]

Paid_FeeOnTop(b, from, to, amount, fee) == Credit(Credit(b, from, -amount), to, amount)

\* The fee comes out of what is sent.
Paid(b, from, to, amount, fee) == Credit(Credit(b, from, -amount), to, amount - fee)

Kept_Renewed(i, from) ==
    [a \in DOMAIN entitled[i] \cup {from} |-> IF a = from THEN ProRata(i, a) ELSE entitled[i][a]]

\* What a sender keeps of the right to redeem: the share it had before it sent
\* something away, and no more than it had kept before.
Kept(i, from) ==
    LET share == ProRata(i, from)
        e == entitled[i]
    IN  [a \in DOMAIN e \cup {from} |->
           IF a # from THEN e[a]
           ELSE IF a \in DOMAIN e /\ e[a] < share THEN e[a] ELSE share]

Move(i, from, to, amount) ==
    LET m   == meta[i]
        fee == Fee(m, amount)
        net == Paid(held[i], from, to, amount, fee)
    IN  /\ Status(i) \in {"Issued", "PartiallySettled"}
        /\ clock <= m.due
        /\ Allowed(from, to)
        /\ amount <= held[i][from]
        /\ fee > 0 /\ ~exempt => Allowed(from, m.recipient)
        /\ held' = [held EXCEPT ![i] = IF fee > 0 THEN Credit(net, m.recipient, fee) ELSE net]
        /\ entitled' = [entitled EXCEPT ![i] =
             IF Status(i) = "PartiallySettled" /\ outstanding[i] > 0 THEN Kept(i, from) ELSE @]
        /\ UNCHANGED <<standing, lifeVars, outstanding, stopped, exempt, clock>>

Transfer(i, from, to, amount) == Move(i, from, to, amount) /\ UNCHANGED granted

TransferFrom(s, i, from, to, amount) == Spend(i, from, s, amount) /\ Move(i, from, to, amount)

Approve(i, from, s, amount, expiry) ==
    /\ granted' = [granted EXCEPT ![i][from][s] = [amount |-> amount, expiry |-> expiry]]
    /\ UNCHANGED <<standing, lifeVars, tokenVars, stopped, exempt, clock>>

----------------------------------------------------------------------------
Reassess(a, s) ==
    /\ standing' = [standing EXCEPT ![a] = s]
    /\ UNCHANGED <<lifeVars, tokenVars, granted, stopped, exempt, clock>>

Tick ==
    /\ clock < MaxNow
    /\ clock' = clock + 1
    /\ UNCHANGED <<standing, lifeVars, tokenVars, granted, stopped, exempt>>

Payment == [id : Invoices, amount : Amounts]

\* Two payments or more: a batch of one is PartialSettle, or nothing.
Batches == UNION {[1..n -> Payment] : n \in 2..(MaxBatch + 1)}

Next ==
    \/ \E i \in Invoices, m \in Metas : CreateInvoice(i, m) \/ UpdateMeta(i, m)
    \/ \E i \in Invoices : AppendJournalEntry(i) \/ Settle(i)
    \/ \E i \in Invoices, m \in Amounts : PartialSettle(i, m)
    \/ \E batch \in Batches : BatchSettle(batch)
    \/ \E on \in Switches : SetPaused(on) \/ SetFeeRecipientExempt(on)
    \/ \E i \in Invoices, a \in Accounts, m \in Amounts : Issue(i, a, m) \/ Redeem(i, a, m) \/ Burn(i, a, m)
    \/ \E i \in Invoices, from, to \in Accounts, m \in Amounts :
          \/ Transfer(i, from, to, m)
          \/ \E s \in Spenders : TransferFrom(s, i, from, to, m)
    \/ \E i \in Invoices, a \in Accounts, s \in Spenders, m \in Amounts :
          \/ BurnFrom(s, i, a, m)
          \/ \E e \in 0..MaxNow : Approve(i, a, s, m, e)
    \/ \E a \in Watched, s \in Standings : Reassess(a, s)
    \/ Tick

Spec == Init /\ [][Next]_invoiceVars

----------------------------------------------------------------------------
(* Properties *)

\* The outstanding supply of an invoice is what its holders have, over issues,
\* transfers with fees to sender, recipient or a third, burns and redemptions.
SupplyIsHeld == \A i \in Invoices : outstanding[i] = SumFunction(held[i])

\* Replaying the journal gives the status: its entries join up, only those made
\* by hand repeat a status, and no transition leads back or skips the
\* settlement on the way to Redeemed (transition_status).
Rank == [s \in Statuses |->
    CASE s = "Created" -> 0 [] s = "Issued" -> 1 [] s = "PartiallySettled" -> 2
      [] s = "FullySettled" -> 3 [] s = "Redeemed" -> 4]

JournalTells ==
    \A i \in Invoices :
        LET j == life[i].journal
        IN  /\ \A n \in DOMAIN j :
                 /\ j[n].from = (IF n = 1 THEN "Created" ELSE j[n - 1].to)
                 /\ Rank[j[n].from] <= Rank[j[n].to]
                 /\ j[n].to = "Redeemed" => j[n].from \in Settled \cup {"Redeemed"}
            /\ Status(i) = (IF j = <<>> THEN "Created" ELSE j[Len(j)].to)

\* What was paid in agrees with the status, and what is left to redeem is the
\* last payment less the redemptions since (settle, partial_settle, redeem).
SettlementTells ==
    \A i \in Invoices :
        LET l == life[i]
        IN  /\ l.dust = l.settlement - l.redeemed
            /\ l.status \in {"Created", "Issued"} <=> l.settlement = 0
            /\ l.status = "PartiallySettled" => l.settlement < meta[i].face
            /\ l.status = "FullySettled" => l.settlement = meta[i].face
            /\ l.status = "Redeemed" => outstanding[i] = 0
            /\ DOMAIN entitled[i] # {} => l.settlement > 0

\* An invoice is listed once, and what is listed can be read (create_invoice,
\* list_invoices, get_meta); an id cannot be created over another's metadata.
ListReadable ==
    /\ \A m, n \in DOMAIN listed : listed[m] = listed[n] => m = n
    /\ \A n \in DOMAIN listed : meta[listed[n]] # NoMeta
    /\ \A i \in Invoices : outstanding[i] > 0 \/ life[i].settlement > 0 => meta[i] # NoMeta

\* A stored entitlement never grows, whatever its holder receives or sends, and
\* what is redeemed is taken off it.
EntitlementKept ==
    [][\A i \in Invoices : \A a \in DOMAIN entitled[i] :
         LET spent == life'[i].redeemed - life[i].redeemed
         IN  /\ a \in DOMAIN entitled'[i] => entitled'[i][a] <= entitled[i][a]
             /\ spent > 0 /\ held'[i][a] < held[i][a] =>
                  IF spent = entitled[i][a] THEN a \notin DOMAIN entitled'[i]
                  ELSE entitled'[i][a] = entitled[i][a] - spent]_invoiceVars

\* A settled invoice is closed by the call that takes its last token out of
\* circulation, whichever that is.
ClosedByTheLast ==
    [][\A i \in Invoices :
         outstanding[i] > 0 /\ outstanding'[i] = 0 /\ Status(i) \in Settled
           => life'[i].status = "Redeemed"]_invoiceVars

InvoicesInOrder == SupplyIsHeld /\ JournalTells /\ SettlementTells /\ ListReadable

\* Supply, journal, settlement and list of the invoices; what a holder keeps
\* of the right to redeem; the call that closes a settled invoice.
InvoicesSound == []InvoicesInOrder /\ EntitlementKept /\ ClosedByTheLast

\* contracts/invoice-token/src/test.rs:1726-1727, "Total redemption must not
\* exceed settlement_amount."
RedeemedWithinSettlement ==
    \A i \in Invoices : life[i].redeemed <= life[i].settlement
=============================================================================
