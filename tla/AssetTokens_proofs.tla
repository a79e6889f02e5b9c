------------------------- MODULE AssetTokens_proofs -------------------------
(***************************************************************************)
(* What the asset tokens promise, proved for any invoices, holders, terms  *)
(* and amounts.                                                            *)
(*                                                                         *)
(* An invoice is in order by itself: supply and balances, journal and      *)
(* status, settlement and what is left of it.  Every call but a batch      *)
(* changes one invoice, so that a step is about one; a batch is followed   *)
(* entry by entry.                                                         *)
(*                                                                         *)
(* Credits are in order when the ledger adds up, the receipts say what was *)
(* burned, and the lists of the addresses tell of all receipts so far.     *)
(*                                                                         *)
(* Dividends are covered because what every holder may claim, at the scale *)
(* and before any rounding, never grows by more than a deposit brings; the *)
(* roster is complete because the part of the old list still to be flagged *)
(* is looked at beside the flags.                                          *)
(*                                                                         *)
(* That each token is a ledger follows from these: sums agree before and   *)
(* after, so that it is enough to see which accounts a call touches.       *)
(***************************************************************************)
EXTENDS AssetTokens, SumLemmas

Lives == [status : Statuses, journal : Seq([from : Statuses, to : Statuses]),
          settlement : Nat, dust : Int, redeemed : Nat]

Rights == UNION {[S -> Nat] : S \in SUBSET Accounts}

\* The journal of one invoice, see JournalTells.
Replays(l) ==
    /\ \A n \in DOMAIN l.journal :
         /\ l.journal[n].from = (IF n = 1 THEN "Created" ELSE l.journal[n - 1].to)
         /\ Rank[l.journal[n].from] <= Rank[l.journal[n].to]
         /\ l.journal[n].to = "Redeemed" => l.journal[n].from \in Settled \cup {"Redeemed"}
    /\ l.status = (IF l.journal = <<>> THEN "Created" ELSE l.journal[Len(l.journal)].to)

\* Its settlement, see SettlementTells, beside metadata m, supply out and entitlements e.
Balances(l, m, out, e) ==
    /\ l.dust = l.settlement - l.redeemed
    /\ l.status \in {"Created", "Issued"} <=> l.settlement = 0
    /\ l.status = "PartiallySettled" => l.settlement < m.face
    /\ l.status = "FullySettled" => l.settlement = m.face
    /\ l.status = "Redeemed" => out = 0
    /\ DOMAIN e # {} => l.settlement > 0
    /\ l.status # "Created" => m # NoMeta

Fits(l, m, out, e) == l \in Lives /\ Replays(l) /\ Balances(l, m, out, e)

InvoiceTypes ==
    /\ meta \in [Invoices -> Metas \cup {NoMeta}]
    /\ listed \in Seq(Invoices)
    /\ life \in [Invoices -> Lives]
    /\ held \in [Invoices -> [Accounts -> Nat]]
    /\ outstanding \in [Invoices -> Int]
    /\ entitled \in [Invoices -> Rights]

\* The lists and the invoices by themselves.
ListKept ==
    /\ \A m, n \in DOMAIN listed : listed[m] = listed[n] => m = n
    /\ \A n \in DOMAIN listed : meta[listed[n]] # NoMeta

InvoicesInv ==
    /\ InvoiceTypes
    /\ ListKept
    /\ \A i \in Invoices :
         /\ outstanding[i] = SumFunction(held[i])
         /\ Fits(life[i], meta[i], outstanding[i], entitled[i])
         /\ outstanding[i] > 0 => meta[i] # NoMeta

\* The bodies of EntitlementKept and ClosedByTheLast.
EntitlementStep ==
    \A i \in Invoices : \A a \in DOMAIN entitled[i] :
      LET spent == life'[i].redeemed - life[i].redeemed
      IN  /\ a \in DOMAIN entitled'[i] => entitled'[i][a] <= entitled[i][a]
          /\ spent > 0 /\ held'[i][a] < held[i][a] =>
               IF spent = entitled[i][a] THEN a \notin DOMAIN entitled'[i]
               ELSE entitled'[i][a] = entitled[i][a] - spent

ClosingStep ==
    \A i \in Invoices :
      outstanding[i] > 0 /\ outstanding'[i] = 0 /\ Status(i) \in Settled
        => life'[i].status = "Redeemed"

Step == InvoicesInv' /\ EntitlementStep /\ ClosingStep

----------------------------------------------------------------------------
(* Lemmas about one invoice *)

LEMMA StatusRanks == Rank \in [Statuses -> Nat]
BY DEF Rank, Statuses

\* A transition joins the journal where it ends.
LEMMA MovedReplays ==
  ASSUME NEW l \in Lives, Replays(l), NEW to \in Statuses, Rank[l.status] <= Rank[to],
         to = "Redeemed" => l.status \in Settled \cup {"Redeemed"}
  PROVE  /\ MovedTo(l, to) \in Lives /\ Replays(MovedTo(l, to)) /\ MovedTo(l, to).status = to
         /\ MovedTo(l, to).settlement = l.settlement /\ MovedTo(l, to).dust = l.dust
         /\ MovedTo(l, to).redeemed = l.redeemed
<1> DEFINE e == Entry(l.status, to)
           j == Append(l.journal, e)
           E == [from : Statuses, to : Statuses]
           k == MovedTo(l, to)
<1>1. /\ l.journal \in Seq(E) /\ l.status \in Statuses /\ e \in E /\ e.from = l.status /\ e.to = to
      /\ l.settlement \in Nat /\ l.dust \in Int /\ l.redeemed \in Nat
  BY DEF Lives, Entry
<1>2. k = [status |-> to, journal |-> j, settlement |-> l.settlement, dust |-> l.dust, redeemed |-> l.redeemed]
  <2>1. k = [l EXCEPT !.status = to, !.journal = j]
    BY DEF MovedTo
  <2> HIDE DEF j, k
  <2> QED
    BY <2>1 DEF Lives
<1> HIDE DEF e, k
<1>3. /\ j \in Seq(E) /\ Len(j) = Len(l.journal) + 1 /\ Len(l.journal) \in Nat
      /\ DOMAIN j = 1..Len(j) /\ DOMAIN l.journal = 1..Len(l.journal)
      /\ \A n \in 1..Len(l.journal) : j[n] = l.journal[n]
      /\ j[Len(j)] = e
      /\ (l.journal = <<>> <=> Len(l.journal) = 0)
      /\ j # <<>>
  BY <1>1
<1> HIDE DEF j
<1>4. k.journal = j /\ k.status = to /\ k \in Lives
  BY <1>1, <1>2, <1>3 DEF Lives
<1>5. ASSUME NEW n \in DOMAIN j
      PROVE  /\ j[n].from = (IF n = 1 THEN "Created" ELSE j[n - 1].to)
             /\ Rank[j[n].from] <= Rank[j[n].to]
             /\ j[n].to = "Redeemed" => j[n].from \in Settled \cup {"Redeemed"}
  <2>1. CASE n \in 1..Len(l.journal)
    <3>1. n # 1 => n - 1 \in 1..Len(l.journal)
      BY <1>3, <2>1
    <3> QED
      BY <1>3, <2>1, <3>1 DEF Replays
  <2>2. CASE n = Len(l.journal) + 1
    <3>1. j[n] = e
      BY <1>3, <2>2
    <3>2. e.from = (IF n = 1 THEN "Created" ELSE j[n - 1].to)
      <4>1. CASE Len(l.journal) = 0
        BY <1>1, <1>3, <2>2, <4>1 DEF Replays
      <4>2. CASE Len(l.journal) # 0
        <5>1. n # 1 /\ n - 1 = Len(l.journal) /\ n - 1 \in 1..Len(l.journal)
          BY <1>3, <2>2, <4>2
        <5>2. l.status = l.journal[Len(l.journal)].to
          BY <1>3, <4>2 DEF Replays
        <5> QED
          BY <1>1, <1>3, <5>1, <5>2
      <4> QED
        BY <4>1, <4>2
    <3> QED
      BY <1>1, <3>1, <3>2
  <2> QED
    BY <1>3, <2>1, <2>2
<1>6. Replays(k)
  BY <1>1, <1>3, <1>4, <1>5 DEF Replays
<1> QED
  BY <1>2, <1>4, <1>6 DEF k

\* So does a payment, which starts the settlement.
LEMMA PaidInReplays ==
  ASSUME NEW l \in Lives, Replays(l), NEW to \in Settled, Rank[l.status] <= Rank[to], NEW amount \in Nat
  PROVE  LET k == PaidIn(l, to, amount)
         IN  /\ k \in Lives /\ Replays(k)
             /\ k.status = to /\ k.settlement = amount /\ k.dust = amount /\ k.redeemed = 0
<1> DEFINE m == MovedTo(l, to)
           k == PaidIn(l, to, amount)
<1>1. to \in Statuses /\ to # "Redeemed"
  BY DEF Settled, Statuses
<1>2. m \in Lives /\ Replays(m) /\ m.status = to
  BY <1>1, MovedReplays
<1> HIDE DEF m
<1>3. k = [m EXCEPT !.settlement = amount, !.dust = amount, !.redeemed = 0]
  BY DEF PaidIn, m
<1> HIDE DEF k
<1>4. k = [status |-> m.status, journal |-> m.journal, settlement |-> amount, dust |-> amount, redeemed |-> 0]
  BY <1>2, <1>3 DEF Lives
<1>5. k \in Lives
  BY <1>2, <1>4 DEF Lives
<1>6. k.status = m.status /\ k.journal = m.journal
  BY <1>4
<1>7. Replays(k)
  BY <1>2, <1>6 DEF Replays
<1> QED
  BY <1>2, <1>4, <1>5, <1>7 DEF k

LEMMA MetaIs ==
  ASSUME NEW m \in Metas
  PROVE  /\ m # NoMeta /\ m.face \in Nat \ {0} /\ m.due \in Nat /\ m.fee \in 0..10000
         /\ m.recipient \in Accounts \cup {NoOne}
BY InvoiceMetas, SMTT(30)

\* A payment in part, or of the face value, fits whatever was issued.
LEMMA PartlyPaidFits ==
  ASSUME NEW m \in Metas \cup {NoMeta}, NEW out \in Int, NEW e,
         NEW l, Fits(l, m, out, e), NEW amount \in Nat, Payable(l, m, amount)
  PROVE  Fits(PartlyPaid(l, m, amount), m, out, e) /\ PartlyPaid(l, m, amount).redeemed = 0
<1> DEFINE to == IF amount = m.face THEN "FullySettled" ELSE "PartiallySettled"
           k == PaidIn(l, to, amount)
<1>1. /\ m # NoMeta /\ m \in Metas /\ 0 < amount /\ amount <= m.face /\ l.status \in {"Created", "Issued"}
      /\ m.face \in Nat /\ l \in Lives /\ Replays(l)
  BY MetaIs DEF Payable, Fits
<1>2. to \in Settled /\ Rank[l.status] <= Rank[to]
  BY <1>1 DEF Settled, Rank, Statuses
<1>3. /\ k \in Lives /\ Replays(k)
      /\ k.status = to /\ k.settlement = amount /\ k.dust = amount /\ k.redeemed = 0
  BY <1>1, <1>2, PaidInReplays
<1>4. PartlyPaid(l, m, amount) = k
  BY DEF PartlyPaid
<1> HIDE DEF k
<1>5. Balances(k, m, out, e)
  BY <1>1, <1>3 DEF Balances
<1> QED
  BY <1>3, <1>4, <1>5 DEF Fits

LEMMA NoteFits ==
  ASSUME NEW m, NEW out, NEW e, NEW l, Fits(l, m, out, e)
  PROVE  Fits([l EXCEPT !.journal = Append(@, Entry(l.status, l.status))], m, out, e)
<1> DEFINE k == [l EXCEPT !.journal = Append(@, Entry(l.status, l.status))]
<1>1. l \in Lives /\ Replays(l) /\ l.status \in Statuses
  BY DEF Fits, Lives
<1>2. k = MovedTo(l, l.status)
  BY <1>1 DEF MovedTo, Lives
<1> HIDE DEF k
<1>3. /\ k \in Lives /\ Replays(k) /\ k.status = l.status
      /\ k.settlement = l.settlement /\ k.dust = l.dust /\ k.redeemed = l.redeemed
  BY <1>1, <1>2, MovedReplays, StatusRanks
<1>4. Balances(k, m, out, e)
  BY <1>3 DEF Balances, Fits
<1> QED
  BY <1>3, <1>4 DEF Fits, k

LEMMA RightsAre ==
  ASSUME NEW S \in SUBSET Accounts, NEW f \in [S -> Nat]
  PROVE  f \in Rights
BY DEF Rights

LEMMA RightsGive ==
  ASSUME NEW e \in Rights
  PROVE  DOMAIN e \in SUBSET Accounts /\ e \in [DOMAIN e -> Nat]
BY DEF Rights

LEMMA CreditIs ==
  ASSUME NEW b \in [Accounts -> Int], NEW a \in Accounts, NEW x \in Int
  PROVE  /\ Credit(b, a, x) \in [Accounts -> Int]
         /\ Credit(b, a, x)[a] = b[a] + x
         /\ \A c \in Accounts \ {a} : Credit(b, a, x)[c] = b[c]
         /\ SumFunction(Credit(b, a, x)) = SumFunction(b) + x
         /\ SumFunction(b) \in Int
<1> DEFINE g == Credit(b, a, x)
<1>1. g \in [Accounts -> Int] /\ g[a] = b[a] + x /\ \A c \in Accounts \ {a} : g[c] = b[c]
  BY DEF Credit
<1> HIDE DEF g
<1>2. IsFiniteSet(Accounts)
  BY InvoiceAmounts
<1>3. SumFunction(g) = SumFunction(b) + (g[a] - b[a])
  BY <1>1, <1>2, SumOfChange
<1>4. SumFunction(b) \in Int
  BY <1>2, SumOfFunction
<1>5. b[a] \in Int /\ g[a] - b[a] = x
  BY <1>1
<1> QED
  BY <1>1, <1>3, <1>4, <1>5 DEF g

\* What one holder has is no more than what all have.
LEMMA HeldWithin ==
  ASSUME NEW b \in [Accounts -> Nat]
  PROVE  SumFunction(b) \in Nat /\ \A a \in Accounts : b[a] <= SumFunction(b)
BY InvoiceAmounts, SumOfNaturals

LEMMA QuotientOfNaturals ==
  ASSUME NEW x \in Nat, NEW d \in Nat \ {0}
  PROVE  x \div d \in Nat
OBVIOUS

LEMMA ProductOfNaturals ==
  ASSUME NEW x \in Nat, NEW y \in Nat
  PROVE  x * y \in Nat
OBVIOUS

\* A fee is no more than what it is taken from.
LEMMA FeeIs ==
  ASSUME NEW m \in Metas, NEW amount \in Nat
  PROVE  Fee(m, amount) \in Nat /\ Fee(m, amount) <= amount /\ (Fee(m, amount) > 0 => m.recipient \in Accounts)
<1> DEFINE p == amount * m.fee
<1>1. m.fee \in Nat /\ m.fee <= 10000 /\ m.recipient \in Accounts \cup {NoOne}
  <2>1. m.fee \in 0..10000 /\ m.recipient \in Accounts \cup {NoOne}
    BY MetaIs
  <2> DEFINE f == m.fee
  <2> HIDE DEF f
  <2>2. f \in 0..10000 => f \in Nat /\ f <= 10000
    OBVIOUS
  <2> QED
    BY <2>1, <2>2, SMTT(30) DEF f
<1>2. p \in Nat /\ p <= amount * 10000
  <2>1. p \in Nat
    BY <1>1, ProductOfNaturals
  <2>2. \A f \in Nat : f <= 10000 => amount * f <= amount * 10000
    OBVIOUS
  <2> QED
    BY <1>1, <2>1, <2>2
<1> HIDE DEF p
<1>3. p \div 10000 \in Nat /\ p \div 10000 <= amount
  BY <1>2
<1> QED
  BY <1>1, <1>3, SMTT(30) DEF Fee, p

LEMMA ShareIs ==
  ASSUME InvoicesInv, NEW i \in Invoices, NEW a \in Accounts
  PROVE  ProRata(i, a) \in Nat
<1> DEFINE h == held[i][a]
           s == life[i].settlement
           o == outstanding[i]
<1>1. h \in Nat /\ s \in Nat /\ o \in Int
  BY DEF InvoicesInv, InvoiceTypes, Lives
<1> HIDE DEF h, s, o
<1>2. h * s \in Nat
  BY <1>1, ProductOfNaturals
<1>3. o > 0 => (h * s) \div o \in Nat
  <2> DEFINE p == h * s
  <2> HIDE DEF p
  <2> QED
    BY <1>1, <1>2, QuotientOfNaturals DEF p
<1>4. ProRata(i, a) = IF s > 0 /\ o > 0 THEN (h * s) \div o ELSE 0
  BY DEF ProRata, h, s, o
<1> DEFINE q == (h * s) \div o
<1> HIDE DEF q
<1> QED
  BY <1>3, <1>4 DEF q

----------------------------------------------------------------------------
(* Lemmas about a step *)

\* Lives that fit the invoices, and in which no more is redeemed.
LifeSteps ==
    {L \in [Invoices -> Lives] :
       \A i \in Invoices : /\ Fits(L[i], meta[i], outstanding[i], entitled[i])
                           /\ L[i].redeemed <= life[i].redeemed}

LEMMA LifeStep ==
  ASSUME InvoicesInv, life' \in LifeSteps, UNCHANGED <<meta, listed, tokenVars>>
  PROVE  Step
<1>1. InvoicesInv'
  <2>1. InvoiceTypes'
    BY DEF InvoicesInv, InvoiceTypes, LifeSteps, tokenVars
  <2>2. ListKept'
    BY DEF InvoicesInv, ListKept
  <2>3. \A i \in Invoices : /\ outstanding'[i] = SumFunction(held'[i])
                            /\ Fits(life'[i], meta'[i], outstanding'[i], entitled'[i])
                            /\ outstanding'[i] > 0 => meta'[i] # NoMeta
    BY DEF InvoicesInv, LifeSteps, tokenVars
  <2> QED
    BY <2>1, <2>2, <2>3 DEF InvoicesInv
<1>2. EntitlementStep
  <2>1. ASSUME NEW i \in Invoices, NEW a \in DOMAIN entitled[i]
        PROVE  entitled'[i][a] <= entitled[i][a] /\ ~(life'[i].redeemed - life[i].redeemed > 0)
    <3>1. entitled[i][a] \in Nat
      BY RightsGive DEF InvoicesInv, InvoiceTypes
    <3>2. life'[i].redeemed \in Nat /\ life[i].redeemed \in Nat /\ life'[i].redeemed <= life[i].redeemed
      BY DEF InvoicesInv, InvoiceTypes, LifeSteps, Lives
    <3> QED
      BY <3>1, <3>2 DEF tokenVars
  <2> QED
    BY <2>1 DEF EntitlementStep
<1>3. ClosingStep
  <2>1. ASSUME NEW i \in Invoices, outstanding[i] > 0, outstanding'[i] = 0 PROVE FALSE
    BY <2>1 DEF tokenVars
  <2> QED
    BY <2>1 DEF ClosingStep
<1> QED
  BY <1>1, <1>2, <1>3 DEF Step

LEMMA LivesFit == InvoicesInv => life \in LifeSteps
<1> SUFFICES ASSUME InvoicesInv PROVE life \in LifeSteps
  OBVIOUS
<1>1. \A i \in Invoices : life[i].redeemed <= life[i].redeemed
  BY DEF InvoicesInv, InvoiceTypes, Lives
<1> QED
  BY <1>1 DEF InvoicesInv, InvoiceTypes, LifeSteps

\* Nothing happens to an invoice.
LEMMA QuietStep ==
  ASSUME InvoicesInv, UNCHANGED <<lifeVars, tokenVars>>
  PROVE  Step
BY LivesFit, LifeStep DEF lifeVars

\* One invoice's life changes.
LEMMA OneLife ==
  ASSUME InvoicesInv, NEW i \in Invoices, NEW l, life' = [life EXCEPT ![i] = l],
         Fits(l, meta[i], outstanding[i], entitled[i]), l.redeemed <= life[i].redeemed,
         UNCHANGED <<meta, listed, tokenVars>>
  PROVE  Step
<1>1. life \in LifeSteps /\ life \in [Invoices -> Lives] /\ l \in Lives
  BY LivesFit DEF InvoicesInv, InvoiceTypes, Fits
<1>2. life' \in [Invoices -> Lives] /\ life'[i] = l /\ \A j \in Invoices \ {i} : life'[j] = life[j]
  BY <1>1
<1>3. ASSUME NEW j \in Invoices
      PROVE  Fits(life'[j], meta[j], outstanding[j], entitled[j]) /\ life'[j].redeemed <= life[j].redeemed
  BY <1>1, <1>2 DEF LifeSteps
<1>4. life' \in LifeSteps
  BY <1>2, <1>3 DEF LifeSteps
<1> QED
  BY <1>4, LifeStep

\* One invoice's tokens change, and its life with them.
LEMMA OneInvoice ==
  ASSUME InvoicesInv, NEW i \in Invoices,
         NEW l, life' = [life EXCEPT ![i] = l],
         NEW h \in [Accounts -> Nat], held' = [held EXCEPT ![i] = h],
         NEW o, outstanding' = [outstanding EXCEPT ![i] = o], o = SumFunction(h),
         NEW e \in Rights, entitled' = [entitled EXCEPT ![i] = e],
         UNCHANGED <<meta, listed>>,
         Fits(l, meta[i], o, e),
         o > 0 => meta[i] # NoMeta,
         \A a \in DOMAIN entitled[i] :
           LET spent == l.redeemed - life[i].redeemed
           IN  /\ a \in DOMAIN e => e[a] <= entitled[i][a]
               /\ spent > 0 /\ h[a] < held[i][a] =>
                    IF spent = entitled[i][a] THEN a \notin DOMAIN e ELSE e[a] = entitled[i][a] - spent,
         outstanding[i] > 0 /\ o = 0 /\ Status(i) \in Settled => l.status = "Redeemed"
  PROVE  Step
<1>1. /\ life \in [Invoices -> Lives] /\ l \in Lives
      /\ held \in [Invoices -> [Accounts -> Nat]] /\ outstanding \in [Invoices -> Int]
      /\ entitled \in [Invoices -> Rights] /\ o \in Int
  BY HeldWithin DEF InvoicesInv, InvoiceTypes, Fits
<1>2. /\ life' \in [Invoices -> Lives] /\ held' \in [Invoices -> [Accounts -> Nat]]
      /\ outstanding' \in [Invoices -> Int] /\ entitled' \in [Invoices -> Rights]
      /\ life'[i] = l /\ held'[i] = h /\ outstanding'[i] = o /\ entitled'[i] = e
      /\ \A j \in Invoices \ {i} : /\ life'[j] = life[j] /\ held'[j] = held[j]
                                   /\ outstanding'[j] = outstanding[j] /\ entitled'[j] = entitled[j]
  BY <1>1
<1>3. InvoicesInv'
  <2>1. InvoiceTypes'
    BY <1>2 DEF InvoicesInv, InvoiceTypes
  <2>2. ListKept'
    BY DEF InvoicesInv, ListKept
  <2>3. ASSUME NEW j \in Invoices
        PROVE  /\ outstanding'[j] = SumFunction(held'[j])
               /\ Fits(life'[j], meta'[j], outstanding'[j], entitled'[j])
               /\ outstanding'[j] > 0 => meta'[j] # NoMeta
    BY <1>2 DEF InvoicesInv
  <2> QED
    BY <2>1, <2>2, <2>3 DEF InvoicesInv
<1>4. EntitlementStep
  <2>1. ASSUME NEW j \in Invoices \ {i}, NEW a \in DOMAIN entitled[j]
        PROVE  entitled'[j][a] <= entitled[j][a] /\ ~(life'[j].redeemed - life[j].redeemed > 0)
    <3>1. entitled[j][a] \in Nat
      BY RightsGive DEF InvoicesInv, InvoiceTypes
    <3>2. life[j].redeemed \in Nat
      BY <1>1 DEF Lives
    <3> QED
      BY <1>2, <3>1, <3>2
  <2> QED
    BY <1>2, <2>1 DEF EntitlementStep
<1>5. ClosingStep
  BY <1>2 DEF ClosingStep, Status
<1> QED
  BY <1>3, <1>4, <1>5 DEF Step

\* Where tokens and lives rest nobody redeems, and nothing is closed.
LEMMA TokensRest ==
  ASSUME InvoicesInv, UNCHANGED <<life, tokenVars>>
  PROVE  EntitlementStep /\ ClosingStep
<1>1. ASSUME NEW j \in Invoices, NEW a \in DOMAIN entitled[j]
      PROVE  entitled'[j][a] <= entitled[j][a] /\ ~(life'[j].redeemed - life[j].redeemed > 0)
  <2>1. entitled[j][a] \in Nat /\ life[j].redeemed \in Nat
    BY RightsGive DEF InvoicesInv, InvoiceTypes, Lives
  <2> QED
    BY <2>1 DEF tokenVars
<1>2. EntitlementStep
  BY <1>1 DEF EntitlementStep
<1>3. ClosingStep
  BY DEF ClosingStep, tokenVars
<1> QED
  BY <1>2, <1>3

----------------------------------------------------------------------------
(* The steps *)

LEMMA CreateInvoiceStep ==
  ASSUME InvoicesInv, NEW i \in Invoices, NEW m \in Metas, CreateInvoice(i, m)
  PROVE  Step
<1>1. /\ meta[i] = NoMeta /\ meta' = [meta EXCEPT ![i] = m] /\ listed' = Append(listed, i)
      /\ UNCHANGED <<life, tokenVars>>
      /\ m # NoMeta
  BY MetaIs DEF CreateInvoice
<1>2. /\ InvoiceTypes /\ ListKept /\ meta \in [Invoices -> Metas \cup {NoMeta}] /\ listed \in Seq(Invoices)
      /\ life \in [Invoices -> Lives]
  BY DEF InvoicesInv, InvoiceTypes
<1>3. meta'[i] = m /\ \A j \in Invoices \ {i} : meta'[j] = meta[j]
  BY <1>1, <1>2
<1>4. life[i].settlement = 0 /\ life[i].status \in {"Created", "Issued"}
  BY <1>1, <1>2 DEF InvoicesInv, Fits, Balances, Lives
<1>5. ListKept'
  <2> DEFINE n == Len(listed)
  <2>1. /\ n \in Nat /\ DOMAIN listed = 1..n /\ DOMAIN listed' = 1..(n + 1)
        /\ listed'[n + 1] = i /\ \A k \in 1..n : listed'[k] = listed[k] /\ listed[k] \in Invoices
    BY <1>1, <1>2
  <2>2. \A k \in 1..n : listed[k] # i /\ meta[listed[k]] # NoMeta
    BY <1>1, <1>2, <2>1 DEF ListKept
  <2>3. \A k \in 1..(n + 1) : k \in 1..n \/ k = n + 1
    BY <2>1
  <2> HIDE DEF n
  <2>4. \A k \in 1..(n + 1) : meta'[listed'[k]] # NoMeta
    BY <1>1, <1>3, <2>1, <2>2, <2>3
  <2>5. \A k, j \in 1..(n + 1) : listed'[k] = listed'[j] => k = j
    BY <1>2, <2>1, <2>2, <2>3 DEF ListKept
  <2> QED
    BY <2>1, <2>4, <2>5 DEF ListKept
<1>6. InvoiceTypes'
  BY <1>1, <1>2 DEF InvoiceTypes, tokenVars
<1>7. ASSUME NEW j \in Invoices
      PROVE  /\ outstanding'[j] = SumFunction(held'[j])
             /\ Fits(life'[j], meta'[j], outstanding'[j], entitled'[j])
             /\ outstanding'[j] > 0 => meta'[j] # NoMeta
  <2>1. UNCHANGED <<held, outstanding, entitled, life>>
    BY <1>1 DEF tokenVars
  <2>2. CASE j = i
    <3>1. Fits(life[i], m, outstanding[i], entitled[i])
      BY <1>1, <1>4 DEF InvoicesInv, Fits, Balances
    <3> QED
      BY <1>1, <1>3, <2>1, <2>2, <3>1 DEF InvoicesInv
  <2>3. CASE j # i
    BY <1>3, <2>1, <2>3 DEF InvoicesInv
  <2> QED
    BY <2>2, <2>3
<1>8. InvoicesInv'
  BY <1>5, <1>6, <1>7 DEF InvoicesInv
<1> QED
  BY <1>1, <1>8, TokensRest, SMTT(30) DEF Step

LEMMA UpdateMetaStep ==
  ASSUME InvoicesInv, NEW i \in Invoices, NEW m \in Metas, UpdateMeta(i, m)
  PROVE  Step
<1>1. /\ meta' = [meta EXCEPT ![i] = m] /\ UNCHANGED <<listed, life, tokenVars>>
      /\ m # NoMeta /\ life[i].status \in {"Created", "Issued"}
  BY MetaIs DEF UpdateMeta, Status
<1>2. /\ InvoiceTypes /\ ListKept /\ meta \in [Invoices -> Metas \cup {NoMeta}] /\ listed \in Seq(Invoices)
  BY DEF InvoicesInv, InvoiceTypes
<1>3. meta'[i] = m /\ \A j \in Invoices \ {i} : meta'[j] = meta[j]
  BY <1>1, <1>2
<1>4. ListKept'
  <2>1. \A n \in DOMAIN listed : listed[n] \in Invoices
    BY <1>2
  <2> QED
    BY <1>1, <1>2, <1>3, <2>1 DEF ListKept
<1>5. InvoiceTypes'
  BY <1>1, <1>2 DEF InvoiceTypes, tokenVars
<1>6. ASSUME NEW j \in Invoices
      PROVE  /\ outstanding'[j] = SumFunction(held'[j])
             /\ Fits(life'[j], meta'[j], outstanding'[j], entitled'[j])
             /\ outstanding'[j] > 0 => meta'[j] # NoMeta
  <2>1. UNCHANGED <<held, outstanding, entitled, life>>
    BY <1>1 DEF tokenVars
  <2>2. CASE j = i
    <3>1. Fits(life[i], m, outstanding[i], entitled[i])
      BY <1>1 DEF InvoicesInv, Fits, Balances
    <3> QED
      BY <1>1, <1>3, <2>1, <2>2, <3>1 DEF InvoicesInv
  <2>3. CASE j # i
    BY <1>3, <2>1, <2>3 DEF InvoicesInv
  <2> QED
    BY <2>2, <2>3
<1>7. InvoicesInv'
  BY <1>4, <1>5, <1>6 DEF InvoicesInv
<1> QED
  BY <1>1, <1>7, TokensRest, SMTT(30) DEF Step

LEMMA AppendJournalEntryStep ==
  ASSUME InvoicesInv, NEW i \in Invoices, AppendJournalEntry(i)
  PROVE  Step
<1> DEFINE l == [life[i] EXCEPT !.journal = Append(@, Entry(life[i].status, life[i].status))]
<1>1. life \in [Invoices -> Lives] /\ life[i] \in Lives
  BY DEF InvoicesInv, InvoiceTypes
<1>2. life' = [life EXCEPT ![i] = l] /\ UNCHANGED <<meta, listed, tokenVars>>
  BY <1>1 DEF AppendJournalEntry, Status
<1>3. Fits(l, meta[i], outstanding[i], entitled[i])
  BY NoteFits DEF InvoicesInv
<1>4. l.redeemed <= life[i].redeemed
  BY <1>1 DEF Lives
<1> HIDE DEF l
<1> QED
  BY <1>2, <1>3, <1>4, OneLife

LEMMA SettleStep ==
  ASSUME InvoicesInv, NEW i \in Invoices, Settle(i)
  PROVE  Step
<1> DEFINE l == PaidIn(life[i], "FullySettled", meta[i].face)
<1>1. /\ life \in [Invoices -> Lives] /\ life[i] \in Lives /\ Replays(life[i])
      /\ life[i].status \in {"Created", "Issued", "PartiallySettled"}
      /\ meta[i] # NoMeta /\ meta[i] \in Metas /\ meta[i].face \in Nat \ {0}
  <2>1. /\ life \in [Invoices -> Lives] /\ life[i] \in Lives /\ Replays(life[i])
        /\ meta[i] # NoMeta /\ meta[i] \in Metas
    BY DEF InvoicesInv, InvoiceTypes, Settle, Fits
  <2>2. life[i].status \in Statuses \ {"FullySettled", "Redeemed"}
    BY <2>1 DEF Settle, Status, Lives
  <2>3. meta[i].face \in Nat \ {0}
    BY <2>1, MetaIs
  <2> QED
    BY <2>1, <2>2, <2>3 DEF Statuses
<1>2. life' = [life EXCEPT ![i] = l] /\ UNCHANGED <<meta, listed, tokenVars>>
  BY <1>1 DEF Settle
<1>3. "FullySettled" \in Settled /\ Rank[life[i].status] <= Rank["FullySettled"]
  BY <1>1 DEF Settled, Rank, Statuses
<1>4. /\ l \in Lives /\ Replays(l) /\ l.status = "FullySettled"
      /\ l.settlement = meta[i].face /\ l.dust = meta[i].face /\ l.redeemed = 0
  BY <1>1, <1>3, PaidInReplays
<1> HIDE DEF l
<1>5. Balances(l, meta[i], outstanding[i], entitled[i])
  BY <1>1, <1>4 DEF Balances
<1>6. l.redeemed <= life[i].redeemed
  BY <1>1, <1>4 DEF Lives
<1> QED
  BY <1>2, <1>4, <1>5, <1>6, OneLife DEF Fits

LEMMA PartialSettleStep ==
  ASSUME InvoicesInv, NEW i \in Invoices, NEW amount \in Amounts, PartialSettle(i, amount)
  PROVE  Step
<1> DEFINE l == PartlyPaid(life[i], meta[i], amount)
<1>1. /\ life \in [Invoices -> Lives] /\ life[i] \in Lives /\ meta[i] \in Metas \cup {NoMeta}
      /\ outstanding[i] \in Int /\ Fits(life[i], meta[i], outstanding[i], entitled[i]) /\ amount \in Nat
  BY InvoiceAmounts DEF InvoicesInv, InvoiceTypes
<1>2. life' = [life EXCEPT ![i] = l] /\ UNCHANGED <<meta, listed, tokenVars>>
  BY <1>1 DEF PartialSettle
<1>3. Payable(life[i], meta[i], amount)
  BY DEF PartialSettle
<1>4. Fits(l, meta[i], outstanding[i], entitled[i]) /\ l.redeemed = 0
  BY <1>1, <1>3, PartlyPaidFits
<1> HIDE DEF l
<1>5. l.redeemed <= life[i].redeemed
  BY <1>1, <1>4 DEF Lives
<1>6. Fits(l, meta[i], outstanding[i], entitled[i])
  BY <1>4
<1> QED
  BY <1>2, <1>5, <1>6, OneLife

LEMMA IssueStep ==
  ASSUME InvoicesInv, NEW i \in Invoices, NEW to \in Accounts, NEW amount \in Amounts, Issue(i, to, amount)
  PROVE  Step
<1> DEFINE l == IF life[i].status = "Created" THEN MovedTo(life[i], "Issued") ELSE life[i]
           h == Credit(held[i], to, amount)
           o == outstanding[i] + amount
           e == entitled[i]
<1>1. /\ life \in [Invoices -> Lives] /\ life[i] \in Lives /\ Replays(life[i])
      /\ Balances(life[i], meta[i], outstanding[i], e)
      /\ held \in [Invoices -> [Accounts -> Nat]] /\ held[i] \in [Accounts -> Int] /\ held[i] \in [Accounts -> Nat]
      /\ outstanding \in [Invoices -> Int] /\ outstanding[i] = SumFunction(held[i])
      /\ e \in Rights /\ entitled \in [Invoices -> Rights] /\ amount \in Nat
      /\ life[i].status \in {"Created", "Issued"} /\ meta[i] # NoMeta
  BY InvoiceAmounts DEF InvoicesInv, InvoiceTypes, Issue, Status, Fits
<1>2. /\ life' = [life EXCEPT ![i] = l] /\ held' = [held EXCEPT ![i] = h]
      /\ outstanding' = [outstanding EXCEPT ![i] = o] /\ entitled' = [entitled EXCEPT ![i] = e]
      /\ UNCHANGED <<meta, listed>>
  <2>1. held' = [held EXCEPT ![i] = h]
    BY <1>1 DEF Issue, Credit
  <2>2. entitled' = [entitled EXCEPT ![i] = e]
    BY <1>1 DEF Issue
  <2> QED
    BY <1>1, <2>1, <2>2 DEF Issue
<1>3. /\ h \in [Accounts -> Int] /\ SumFunction(h) = SumFunction(held[i]) + amount
      /\ h[to] = held[i][to] + amount /\ \A c \in Accounts \ {to} : h[c] = held[i][c]
  BY <1>1, CreditIs
<1>4. /\ l \in Lives /\ Replays(l) /\ l.status = "Issued" /\ l.settlement = life[i].settlement
      /\ l.dust = life[i].dust /\ l.redeemed = life[i].redeemed
  <2>1. CASE life[i].status = "Created"
    <3>1. "Issued" \in Statuses /\ Rank["Created"] <= Rank["Issued"]
      BY DEF Statuses, Rank
    <3> QED
      BY <1>1, <2>1, <3>1, MovedReplays
  <2>2. CASE life[i].status # "Created"
    BY <1>1, <2>2
  <2> QED
    BY <2>1, <2>2
<1> HIDE DEF l, h, e
<1>5. h \in [Accounts -> Nat]
  BY <1>1, <1>3
<1>6. o = SumFunction(h)
  BY <1>1, <1>3
<1> HIDE DEF o
<1>7. Fits(l, meta[i], o, e)
  BY <1>1, <1>4 DEF Fits, Balances
<1>8. ASSUME NEW a \in DOMAIN entitled[i]
      PROVE  /\ a \in DOMAIN e => e[a] <= entitled[i][a]
             /\ ~(l.redeemed - life[i].redeemed > 0)
  <2>1. entitled[i][a] \in Nat /\ life[i].redeemed \in Nat
    BY <1>1, RightsGive DEF Lives, e
  <2> QED
    BY <1>4, <2>1 DEF e
<1>9. ~(outstanding[i] > 0 /\ o = 0 /\ Status(i) \in Settled)
  BY <1>1 DEF Status, Settled
<1> QED
  BY <1>1, <1>2, <1>4, <1>5, <1>6, <1>7, <1>8, <1>9, OneInvoice

\* What closes when tokens leave circulation.
LEMMA ClosedFits ==
  ASSUME NEW m, NEW out \in Nat, NEW e, NEW l, Fits(l, m, out, e), NEW left \in Nat, left <= out
  PROVE  /\ Fits(Closed(l, left), m, left, e)
         /\ Closed(l, left).redeemed = l.redeemed
         /\ left = 0 /\ l.status \in Settled => Closed(l, left).status = "Redeemed"
<1> DEFINE k == MovedTo(l, "Redeemed")
<1>1. l \in Lives /\ Replays(l) /\ Balances(l, m, out, e)
  BY DEF Fits
<1>2. CASE left = 0 /\ l.status \in Settled
  <2>1. "Redeemed" \in Statuses /\ Rank[l.status] <= Rank["Redeemed"]
    BY <1>2 DEF Statuses, Rank, Settled
  <2>2. /\ k \in Lives /\ Replays(k) /\ k.status = "Redeemed"
        /\ k.settlement = l.settlement /\ k.dust = l.dust /\ k.redeemed = l.redeemed
    BY <1>1, <1>2, <2>1, MovedReplays
  <2>3. Closed(l, left) = k
    BY <1>2 DEF Closed
  <2> HIDE DEF k
  <2>4. Balances(k, m, left, e)
    BY <1>1, <1>2, <2>2 DEF Balances, Settled
  <2> QED
    BY <2>2, <2>3, <2>4 DEF Fits
<1>3. CASE ~(left = 0 /\ l.status \in Settled)
  <2>1. Closed(l, left) = l
    BY <1>3 DEF Closed
  <2>2. Balances(l, m, left, e)
    BY <1>1 DEF Balances
  <2> QED
    BY <1>1, <1>3, <2>1, <2>2 DEF Fits
<1> QED
  BY <1>2, <1>3

\* What a holder gives up leaves its invoice's supply.
LEMMA TakenAway ==
  ASSUME InvoicesInv, NEW i \in Invoices, NEW a \in Accounts, NEW amount \in Nat, amount <= held[i][a]
  PROVE  LET h == Credit(held[i], a, -amount)
             o == outstanding[i] - amount
         IN  /\ h \in [Accounts -> Nat] /\ o = SumFunction(h) /\ o \in Nat /\ o <= outstanding[i]
             /\ outstanding[i] \in Nat
             /\ \A c \in Accounts \ {a} : h[c] = held[i][c]
             /\ [held EXCEPT ![i][a] = @ - amount] = [held EXCEPT ![i] = h]
<1> DEFINE h == Credit(held[i], a, -amount)
<1>1. /\ held \in [Invoices -> [Accounts -> Nat]] /\ held[i] \in [Accounts -> Nat] /\ held[i] \in [Accounts -> Int]
      /\ outstanding[i] = SumFunction(held[i]) /\ -amount \in Int
  BY DEF InvoicesInv, InvoiceTypes
<1>2. [held EXCEPT ![i][a] = @ - amount] = [held EXCEPT ![i] = h]
  BY <1>1 DEF Credit
<1>3. /\ h \in [Accounts -> Int] /\ SumFunction(h) = SumFunction(held[i]) + -amount
      /\ h[a] = held[i][a] + -amount /\ \A c \in Accounts \ {a} : h[c] = held[i][c]
  BY <1>1, CreditIs
<1> HIDE DEF h
<1>4. h \in [Accounts -> Nat]
  BY <1>1, <1>3
<1>5. SumFunction(h) \in Nat /\ SumFunction(held[i]) \in Nat
  BY <1>1, <1>4, HeldWithin
<1>6. outstanding[i] - amount = SumFunction(h)
  BY <1>1, <1>3, <1>5
<1> QED
  BY <1>1, <1>2, <1>3, <1>4, <1>5, <1>6 DEF h

LEMMA BurnHeldStep ==
  ASSUME InvoicesInv, NEW i \in Invoices, NEW a \in Accounts, NEW amount \in Amounts, BurnHeld(i, a, amount)
  PROVE  Step
<1> DEFINE h == Credit(held[i], a, -amount)
           o == outstanding[i] - amount
           e == entitled[i]
           l == Closed(life[i], o)
<1>1. /\ life \in [Invoices -> Lives] /\ Fits(life[i], meta[i], outstanding[i], e)
      /\ outstanding \in [Invoices -> Int] /\ entitled \in [Invoices -> Rights] /\ e \in Rights /\ amount \in Nat
      /\ outstanding[i] > 0 => meta[i] # NoMeta
      /\ life[i].redeemed \in Nat
  BY InvoiceAmounts DEF InvoicesInv, InvoiceTypes, Lives
<1>2. amount <= held[i][a]
  BY DEF BurnHeld
<1>3. /\ h \in [Accounts -> Nat] /\ o = SumFunction(h) /\ o \in Nat /\ o <= outstanding[i] /\ outstanding[i] \in Nat
      /\ [held EXCEPT ![i][a] = @ - amount] = [held EXCEPT ![i] = h]
  BY <1>1, <1>2, TakenAway, ZenonT(60)
<1>4. /\ life' = [life EXCEPT ![i] = l] /\ held' = [held EXCEPT ![i] = h]
      /\ outstanding' = [outstanding EXCEPT ![i] = o] /\ entitled' = [entitled EXCEPT ![i] = e]
      /\ UNCHANGED <<meta, listed>>
  <2>1. entitled' = [entitled EXCEPT ![i] = e]
    BY <1>1 DEF BurnHeld
  <2> QED
    BY <1>1, <1>3, <2>1 DEF BurnHeld
<1> HIDE DEF o
<1>5. /\ Fits(l, meta[i], o, e) /\ l.redeemed = life[i].redeemed
      /\ o = 0 /\ life[i].status \in Settled => l.status = "Redeemed"
  BY <1>1, <1>3, ClosedFits
<1> HIDE DEF l, h, e
<1>6. o > 0 => meta[i] # NoMeta
  BY <1>1, <1>3
<1>7. ASSUME NEW b \in DOMAIN entitled[i]
      PROVE  /\ b \in DOMAIN e => e[b] <= entitled[i][b]
             /\ ~(l.redeemed - life[i].redeemed > 0)
  <2>1. entitled[i][b] \in Nat
    BY <1>1, RightsGive DEF e
  <2> QED
    BY <1>1, <1>5, <2>1 DEF e
<1>8. outstanding[i] > 0 /\ o = 0 /\ Status(i) \in Settled => l.status = "Redeemed"
  BY <1>5 DEF Status
<1> QED
  BY <1>1, <1>3, <1>4, <1>5, <1>6, <1>7, <1>8, OneInvoice

\* A redemption is taken off the entitlement it draws on.
LEMMA RedeemedIs ==
  ASSUME NEW e \in Rights, NEW a, NEW amount \in Nat, amount > 0, a \in DOMAIN e => amount <= e[a]
  PROVE  /\ Redeemed(e, a, amount) \in Rights
         /\ DOMAIN Redeemed(e, a, amount) \subseteq DOMAIN e
         /\ \A b \in DOMAIN Redeemed(e, a, amount) : Redeemed(e, a, amount)[b] <= e[b]
         /\ a \in DOMAIN e => IF amount = e[a] THEN a \notin DOMAIN Redeemed(e, a, amount)
                              ELSE Redeemed(e, a, amount)[a] = e[a] - amount
<1> DEFINE D == DOMAIN e
           r == Redeemed(e, a, amount)
<1>1. D \in SUBSET Accounts /\ e \in [D -> Nat] /\ \A b \in D : e[b] \in Nat
  BY RightsGive
<1> HIDE DEF D
<1>2. CASE a \notin D
  <2>1. r = e
    BY <1>2 DEF Redeemed, D
  <2> QED
    BY <1>1, <1>2, <2>1 DEF D
<1>3. CASE a \in D /\ e[a] = amount
  <2>1. r = [b \in D \ {a} |-> e[b]]
    BY <1>3 DEF Redeemed, D
  <2> HIDE DEF r
  <2>2. D \ {a} \in SUBSET Accounts /\ r \in [D \ {a} -> Nat] /\ DOMAIN r = D \ {a}
    BY <1>1, <2>1
  <2>3. r \in Rights
    BY <2>2, RightsAre
  <2>4. \A b \in DOMAIN r : r[b] <= e[b]
    BY <1>1, <2>1, <2>2
  <2> QED
    BY <1>3, <2>2, <2>3, <2>4 DEF D, r
<1>4. CASE a \in D /\ e[a] # amount
  <2>1. r = [e EXCEPT ![a] = @ - amount]
    BY <1>4 DEF Redeemed, D
  <2> HIDE DEF r
  <2>2. e[a] \in Nat /\ amount <= e[a] /\ e[a] - amount \in Nat
    BY <1>1, <1>4 DEF D
  <2>3. r \in [D -> Nat] /\ DOMAIN r = D /\ r[a] = e[a] - amount /\ \A b \in D \ {a} : r[b] = e[b]
    BY <1>1, <1>4, <2>1, <2>2
  <2>4. r \in Rights
    BY <1>1, <2>3, RightsAre
  <2>5. \A b \in DOMAIN r : r[b] <= e[b]
    BY <1>1, <2>2, <2>3
  <2> QED
    BY <1>4, <2>3, <2>4, <2>5 DEF D, r
<1> QED
  BY <1>2, <1>3, <1>4

\* A life from which something is redeemed, before it is looked at whether it closes.
LEMMA DrawnFits ==
  ASSUME NEW m, NEW out, NEW d, NEW e, DOMAIN e \subseteq DOMAIN d,
         NEW l, Fits(l, m, out, d), NEW amount \in Nat
  PROVE  Fits(Drawn(l, amount), m, out, e)
<1> DEFINE k == Drawn(l, amount)
           d1 == l.dust - amount
           r1 == l.redeemed + amount
<1>1. /\ l \in Lives /\ Replays(l) /\ Balances(l, m, out, d)
      /\ l.dust \in Int /\ l.redeemed \in Nat /\ l.settlement \in Nat
  BY DEF Lives, Fits
<1>2. k = [status |-> l.status, journal |-> l.journal, settlement |-> l.settlement,
           dust |-> d1, redeemed |-> r1]
  <2>1. k = [l EXCEPT !.dust = d1, !.redeemed = r1]
    BY DEF Drawn
  <2> HIDE DEF k, d1, r1
  <2> QED
    BY <1>1, <2>1 DEF Lives
<1> HIDE DEF k
<1>3. /\ k.status = l.status /\ k.settlement = l.settlement /\ k.journal = l.journal
      /\ k.dust = l.dust - amount /\ k.redeemed = l.redeemed + amount
  BY <1>2
<1>4. k \in Lives
  BY <1>1, <1>2 DEF Lives
<1>5. Replays(k)
  BY <1>1, <1>3 DEF Replays
<1>6. DOMAIN e # {} => DOMAIN d # {}
  OBVIOUS
<1>7. Balances(k, m, out, e)
  BY <1>1, <1>3, <1>6 DEF Balances
<1> QED
  BY <1>3, <1>4, <1>5, <1>7 DEF Fits, k

LEMMA RedeemStep ==
  ASSUME InvoicesInv, NEW i \in Invoices, NEW a \in Accounts, NEW amount \in Amounts, Redeem(i, a, amount)
  PROVE  Step
<1> DEFINE h == Credit(held[i], a, -amount)
           o == outstanding[i] - amount
           e == Redeemed(entitled[i], a, amount)
           k == Drawn(life[i], amount)
           l == Closed(k, o)
<1>1. /\ life \in [Invoices -> Lives] /\ life[i] \in Lives
      /\ Fits(life[i], meta[i], outstanding[i], entitled[i])
      /\ outstanding \in [Invoices -> Int] /\ entitled \in [Invoices -> Rights] /\ entitled[i] \in Rights
      /\ amount \in Nat /\ held[i] \in [Accounts -> Nat]
      /\ outstanding[i] > 0 => meta[i] # NoMeta
  BY InvoiceAmounts DEF InvoicesInv, InvoiceTypes
<1>2. /\ amount <= held[i][a] /\ amount > 0 /\ amount <= MaxRedeemable(i, a)
  BY DEF Redeem
<1>3. /\ h \in [Accounts -> Nat] /\ o = SumFunction(h) /\ o \in Nat /\ o <= outstanding[i] /\ outstanding[i] \in Nat
      /\ \A c \in Accounts \ {a} : h[c] = held[i][c]
      /\ [held EXCEPT ![i][a] = @ - amount] = [held EXCEPT ![i] = h]
  BY <1>1, <1>2, TakenAway, ZenonT(60)
<1>4. a \in DOMAIN entitled[i] => amount <= entitled[i][a]
  <2> SUFFICES ASSUME a \in DOMAIN entitled[i] PROVE amount <= entitled[i][a]
    OBVIOUS
  <2>1. entitled[i][a] \in Nat /\ held[i][a] \in Nat
    BY <1>1, RightsGive
  <2> QED
    BY <1>1, <1>2, <2>1 DEF MaxRedeemable
<1>5. /\ e \in Rights /\ DOMAIN e \subseteq DOMAIN entitled[i] /\ \A b \in DOMAIN e : e[b] <= entitled[i][b]
      /\ a \in DOMAIN entitled[i] => IF amount = entitled[i][a] THEN a \notin DOMAIN e
                                     ELSE e[a] = entitled[i][a] - amount
  BY <1>1, <1>2, <1>4, RedeemedIs
<1>6. /\ life' = [life EXCEPT ![i] = l] /\ held' = [held EXCEPT ![i] = h]
      /\ outstanding' = [outstanding EXCEPT ![i] = o] /\ entitled' = [entitled EXCEPT ![i] = e]
      /\ UNCHANGED <<meta, listed>>
  <2>1. held' = [held EXCEPT ![i] = h]
    <3>1. held' = [held EXCEPT ![i][a] = @ - amount]
      BY DEF Redeem
    <3> QED
      BY <1>3, <3>1
  <2>2. life' = [life EXCEPT ![i] = l]
    BY <1>1 DEF Redeem
  <2>3. entitled' = [entitled EXCEPT ![i] = e]
    BY <1>1 DEF Redeem
  <2>4. outstanding' = [outstanding EXCEPT ![i] = o] /\ UNCHANGED <<meta, listed>>
    BY <1>1 DEF Redeem
  <2> QED
    BY <2>1, <2>2, <2>3, <2>4
<1> HIDE DEF o, e, h
<1>7. Fits(k, meta[i], outstanding[i], e) /\ k.status = life[i].status /\ k.redeemed = life[i].redeemed + amount
  <2>1. Fits(life[i], meta[i], outstanding[i], entitled[i]) /\ DOMAIN e \subseteq DOMAIN entitled[i] /\ amount \in Nat
    BY <1>1, <1>5
  <2> HIDE DEF e
  <2>2. Fits(Drawn(life[i], amount), meta[i], outstanding[i], e)
    BY <2>1, DrawnFits
  <2>3. Drawn(life[i], amount).status = life[i].status /\ Drawn(life[i], amount).redeemed = life[i].redeemed + amount
    BY <1>1 DEF Drawn, Lives
  <2> QED
    BY <2>2, <2>3
<1> HIDE DEF k
<1>8. /\ Fits(l, meta[i], o, e) /\ l.redeemed = k.redeemed
      /\ o = 0 /\ k.status \in Settled => l.status = "Redeemed"
  <2>1. o \in Nat /\ o <= outstanding[i] /\ outstanding[i] \in Nat
    BY <1>3
  <2> QED
    BY <1>7, <2>1, ClosedFits
<1> HIDE DEF l
<1>9. o > 0 => meta[i] # NoMeta
  BY <1>1, <1>3
<1>10. l.redeemed - life[i].redeemed = amount
  BY <1>1, <1>7, <1>8 DEF Lives
<1>11. ASSUME NEW b \in DOMAIN entitled[i]
       PROVE  LET spent == l.redeemed - life[i].redeemed
              IN  /\ b \in DOMAIN e => e[b] <= entitled[i][b]
                  /\ spent > 0 /\ h[b] < held[i][b] =>
                       IF spent = entitled[i][b] THEN b \notin DOMAIN e ELSE e[b] = entitled[i][b] - spent
  <2>1. CASE b = a
    BY <1>5, <1>10, <2>1
  <2>2. CASE b # a
    <3>1. b \in Accounts /\ h[b] = held[i][b] /\ held[i][b] \in Nat
      BY <1>1, <1>3, <2>2, RightsGive
    <3> QED
      BY <1>5, <3>1
  <2> QED
    BY <2>1, <2>2
<1>12. outstanding[i] > 0 /\ o = 0 /\ Status(i) \in Settled => l.status = "Redeemed"
  BY <1>7, <1>8 DEF Status
<1>13. h \in [Accounts -> Nat] /\ o = SumFunction(h) /\ e \in Rights
  BY <1>3, <1>5
<1>14. Fits(l, meta[i], o, e)
  BY <1>8
<1> QED
  BY <1>6, <1>9, <1>11, <1>12, <1>13, <1>14, OneInvoice

\* What a transfer does to the balances of its invoice: nothing is lost, and
\* nobody is left with less than nothing.
LEMMA PaidIs ==
  ASSUME NEW b \in [Accounts -> Nat], NEW from \in Accounts, NEW to \in Accounts, NEW amount \in Nat,
         amount <= b[from], NEW m \in Metas
  PROVE  LET fee == Fee(m, amount)
             net == Paid(b, from, to, amount, fee)
             h   == IF fee > 0 THEN Credit(net, m.recipient, fee) ELSE net
         IN  /\ h \in [Accounts -> Nat] /\ SumFunction(h) = SumFunction(b)
             /\ \A c \in Accounts \ {from} : h[c] >= b[c]
<1> DEFINE fee == Fee(m, amount)
           b1 == Credit(b, from, -amount)
           rest == amount - fee
           b2 == Credit(b1, to, rest)
           b3 == Credit(b2, m.recipient, fee)
<1>1. fee \in Nat /\ fee <= amount /\ (fee > 0 => m.recipient \in Accounts)
  BY FeeIs
<1> HIDE DEF fee
<1>2. Paid(b, from, to, amount, fee) = b2
  BY DEF Paid
<1>3. rest \in Nat /\ -amount \in Int /\ b \in [Accounts -> Int]
  BY <1>1
<1>4. /\ b1 \in [Accounts -> Int] /\ SumFunction(b1) = SumFunction(b) + -amount /\ SumFunction(b) \in Int
      /\ b1[from] = b[from] + -amount /\ \A c \in Accounts \ {from} : b1[c] = b[c]
  BY <1>3, CreditIs, ZenonT(60)
<1>5. b1 \in [Accounts -> Nat]
  BY <1>4
<1> HIDE DEF b1
<1>6. /\ b2 \in [Accounts -> Int] /\ SumFunction(b2) = SumFunction(b1) + rest
      /\ b2[to] = b1[to] + rest /\ \A c \in Accounts \ {to} : b2[c] = b1[c]
  <2> HIDE DEF rest
  <2>1. b1 \in [Accounts -> Int] /\ rest \in Int
    BY <1>3, <1>4
  <2> QED
    BY <2>1, CreditIs, ZenonT(60)
<1>7. b2 \in [Accounts -> Nat]
  <2> HIDE DEF rest, b2
  <2> QED
    BY <1>3, <1>5, <1>6
<1> HIDE DEF b2
<1>8. \A c \in Accounts \ {from} : b2[c] >= b[c]
  <2> HIDE DEF rest
  <2> QED
    BY <1>3, <1>4, <1>5, <1>6
<1>9. CASE fee > 0
  <2>1. /\ b3 \in [Accounts -> Int] /\ SumFunction(b3) = SumFunction(b2) + fee
        /\ b3[m.recipient] = b2[m.recipient] + fee /\ \A c \in Accounts \ {m.recipient} : b3[c] = b2[c]
    <3>1. b2 \in [Accounts -> Int] /\ fee \in Int /\ m.recipient \in Accounts
      BY <1>1, <1>6, <1>9
    <3> QED
      BY <3>1, CreditIs, ZenonT(60)
  <2> HIDE DEF b3
  <2>2. b3 \in [Accounts -> Nat]
    BY <1>1, <1>7, <1>9, <2>1
  <2>3. SumFunction(b3) = SumFunction(b)
    BY <1>1, <1>4, <1>6, <2>1
  <2>4. \A c \in Accounts \ {from} : b3[c] >= b2[c]
    BY <1>1, <1>7, <1>9, <2>1
  <2>5. \A c \in Accounts \ {from} : b3[c] >= b[c]
    BY <1>7, <1>8, <2>2, <2>4
  <2> QED
    BY <1>2, <1>9, <2>2, <2>3, <2>5 DEF fee, b3
<1>10. CASE ~(fee > 0)
  <2>1. SumFunction(b2) = SumFunction(b)
    BY <1>1, <1>4, <1>6, <1>10
  <2> QED
    BY <1>2, <1>7, <1>8, <1>10, <2>1 DEF fee
<1> QED
  BY <1>9, <1>10

\* What is kept of the entitlements when one holder sends.
LEMMA KeptIs ==
  ASSUME InvoicesInv, NEW i \in Invoices, NEW from \in Accounts
  PROVE  /\ Kept(i, from) \in Rights
         /\ \A a \in DOMAIN entitled[i] : Kept(i, from)[a] <= entitled[i][a]
<1> DEFINE share == ProRata(i, from)
           e == entitled[i]
           D == DOMAIN e
           k == [a \in D \cup {from} |->
                   IF a # from THEN e[a] ELSE IF a \in D /\ e[a] < share THEN e[a] ELSE share]
<1>1. D \in SUBSET Accounts /\ \A a \in D : e[a] \in Nat
  BY RightsGive DEF InvoicesInv, InvoiceTypes
<1>2. share \in Nat
  BY ShareIs
<1>3. Kept(i, from) = k
  BY DEF Kept
<1> HIDE DEF share, e, D
<1>4. k \in [D \cup {from} -> Nat] /\ D \cup {from} \in SUBSET Accounts
  BY <1>1, <1>2
<1>5. \A a \in D : k[a] <= e[a]
  BY <1>1, <1>2
<1> HIDE DEF k
<1>6. k \in Rights
  BY <1>4, RightsAre
<1> QED
  BY <1>3, <1>5, <1>6 DEF e, D

LEMMA MoveStep ==
  ASSUME InvoicesInv, NEW i \in Invoices, NEW from \in Accounts, NEW to \in Accounts, NEW amount \in Amounts,
         Move(i, from, to, amount)
  PROVE  Step
<1> DEFINE m == meta[i]
           fee == Fee(m, amount)
           net == Paid(held[i], from, to, amount, fee)
           h == IF fee > 0 THEN Credit(net, m.recipient, fee) ELSE net
           o == outstanding[i]
           e == IF Status(i) = "PartiallySettled" /\ outstanding[i] > 0 THEN Kept(i, from) ELSE entitled[i]
           l == life[i]
<1>1. /\ life \in [Invoices -> Lives] /\ l \in Lives /\ Fits(l, m, o, entitled[i])
      /\ o \in Int /\ outstanding \in [Invoices -> Int] /\ entitled \in [Invoices -> Rights] /\ entitled[i] \in Rights
      /\ amount \in Nat /\ held[i] \in [Accounts -> Nat] /\ o = SumFunction(held[i])
      /\ o > 0 => m # NoMeta
      /\ (l.status # "Created" => m # NoMeta) /\ m \in Metas \cup {NoMeta}
  BY InvoiceAmounts DEF InvoicesInv, InvoiceTypes, Fits, Balances
<1>2. /\ amount <= held[i][from] /\ Status(i) \in {"Issued", "PartiallySettled"}
      /\ held' = [held EXCEPT ![i] = h] /\ entitled' = [entitled EXCEPT ![i] = e]
      /\ UNCHANGED <<life, outstanding, meta, listed>>
  BY <1>1 DEF Move, lifeVars
<1>3. life' = [life EXCEPT ![i] = l] /\ outstanding' = [outstanding EXCEPT ![i] = o]
  BY <1>1, <1>2
<1>4. h \in [Accounts -> Nat] /\ o = SumFunction(h)
  <2>1. m \in Metas
    BY <1>1, <1>2 DEF Status
  <2>2. h \in [Accounts -> Nat] /\ SumFunction(h) = SumFunction(held[i])
    BY <1>1, <1>2, <2>1, PaidIs
  <2> QED
    BY <1>1, <2>2
<1>5. e \in Rights /\ \A a \in DOMAIN entitled[i] : a \in DOMAIN e => e[a] <= entitled[i][a]
  <2>1. CASE Status(i) = "PartiallySettled" /\ outstanding[i] > 0
    BY <2>1, KeptIs
  <2>2. CASE ~(Status(i) = "PartiallySettled" /\ outstanding[i] > 0)
    <3>1. \A a \in DOMAIN entitled[i] : entitled[i][a] \in Nat
      BY <1>1, RightsGive
    <3> QED
      BY <1>1, <2>2, <3>1
  <2> QED
    BY <2>1, <2>2
<1>6. Fits(l, m, o, e)
  <2>1. l.settlement \in Nat /\ (l.status = "PartiallySettled" => l.settlement # 0)
    BY <1>1 DEF Lives, Fits, Balances
  <2>2. DOMAIN e # {} => l.settlement > 0
    BY <1>1, <2>1 DEF Status, Fits, Balances
  <2> HIDE DEF e
  <2> QED
    BY <1>1, <2>2 DEF Fits, Balances
<1>7. ~(l.redeemed - life[i].redeemed > 0)
  BY <1>1 DEF Lives
<1>8. ~(outstanding[i] > 0 /\ o = 0)
  BY <1>1
<1> HIDE DEF m, fee, net, h, o, e, l
<1>9. \A a \in DOMAIN entitled[i] :
        LET spent == l.redeemed - life[i].redeemed
        IN  /\ a \in DOMAIN e => e[a] <= entitled[i][a]
            /\ spent > 0 /\ h[a] < held[i][a] =>
                 IF spent = entitled[i][a] THEN a \notin DOMAIN e ELSE e[a] = entitled[i][a] - spent
  BY <1>5, <1>7
<1>10. Fits(l, meta[i], o, e) /\ (o > 0 => meta[i] # NoMeta)
  BY <1>1, <1>6 DEF m
<1>11. /\ held' = [held EXCEPT ![i] = h] /\ entitled' = [entitled EXCEPT ![i] = e]
       /\ UNCHANGED <<meta, listed>> /\ e \in Rights
  BY <1>2, <1>5
<1>12. outstanding[i] > 0 /\ o = 0 /\ Status(i) \in Settled => l.status = "Redeemed"
  BY <1>8
<1> QED
  BY <1>3, <1>4, <1>9, <1>10, <1>11, <1>12, OneInvoice

IsSettling(batch, after) ==
    after = [n \in 0..(IF Len(batch) < MaxBatch THEN Len(batch) ELSE MaxBatch) |->
               IF n = 0 THEN life
               ELSE LET i == batch[n].id
                    IN  IF ~stopped /\ Payable(after[n - 1][i], meta[i], batch[n].amount)
                        THEN [after[n - 1] EXCEPT ![i] = PartlyPaid(@, meta[i], batch[n].amount)]
                        ELSE after[n - 1]]

Settling(batch) == CHOOSE after : IsSettling(batch, after)

\* However far a batch is followed, its invoices are in order.
LEMMA BatchSettleStep ==
  ASSUME InvoicesInv, NEW size \in Nat, NEW batch \in [1..size -> Payment], BatchSettle(batch)
  PROVE  Step
<1> DEFINE n == IF Len(batch) < MaxBatch THEN Len(batch) ELSE MaxBatch
           Least(x, y) == IF x < y THEN x ELSE y
           pay(L, j) == LET i == batch[j].id
                        IN  IF ~stopped /\ Payable(L[i], meta[i], batch[j].amount)
                            THEN [L EXCEPT ![i] = PartlyPaid(@, meta[i], batch[j].amount)]
                            ELSE L
           D == LifeSteps
           step == [j \in 1..n |-> [L \in D |-> pay(L, j)]]
<1>1. /\ Len(batch) = size /\ n \in Nat /\ n <= size
      /\ \A j \in 1..n : batch[j].id \in Invoices /\ batch[j].amount \in Nat
  <2>1. Len(batch) = size /\ MaxBatch \in Nat /\ Amounts \subseteq Nat
    BY InvoiceAmounts
  <2>2. n \in Nat /\ n <= size
    BY <2>1
  <2>3. \A j \in 1..n : batch[j] \in Payment
    BY <2>2
  <2> HIDE DEF n
  <2>4. \A p \in Payment : p.id \in Invoices /\ p.amount \in Amounts
    BY DEF Payment
  <2> QED
    BY <2>1, <2>2, <2>3, <2>4
<1> HIDE DEF n
<1>2. ASSUME NEW j \in 1..n, NEW L \in D
      PROVE  pay(L, j) \in D
  <2> DEFINE i == batch[j].id
             amount == batch[j].amount
             l == PartlyPaid(L[i], meta[i], amount)
  <2>1. /\ i \in Invoices /\ amount \in Nat /\ meta[i] \in Metas \cup {NoMeta} /\ outstanding[i] \in Int
        /\ life[i].redeemed \in Nat
    BY <1>1 DEF InvoicesInv, InvoiceTypes, Lives
  <2> HIDE DEF i, amount
  <2>2. CASE ~stopped /\ Payable(L[i], meta[i], amount)
    <3>1. Fits(L[i], meta[i], outstanding[i], entitled[i])
      BY <2>1 DEF LifeSteps
    <3>2. Fits(l, meta[i], outstanding[i], entitled[i]) /\ l.redeemed = 0
      BY <2>1, <2>2, <3>1, PartlyPaidFits
    <3> HIDE DEF l
    <3>3. l \in Lives /\ l.redeemed <= life[i].redeemed
      BY <2>1, <3>2 DEF Fits
    <3> DEFINE K == [L EXCEPT ![i] = l]
    <3>4. L \in [Invoices -> Lives]
      BY DEF LifeSteps
    <3>5. K \in [Invoices -> Lives] /\ K[i] = l /\ \A q \in Invoices \ {i} : K[q] = L[q]
      BY <2>1, <3>3, <3>4
    <3> HIDE DEF K
    <3>6. \A q \in Invoices : Fits(K[q], meta[q], outstanding[q], entitled[q]) /\ K[q].redeemed <= life[q].redeemed
      BY <3>2, <3>3, <3>5 DEF LifeSteps
    <3>7. K \in D
      BY <3>5, <3>6 DEF LifeSteps
    <3>8. pay(L, j) = K
      BY <2>2 DEF K, l, i, amount
    <3> QED
      BY <3>7, <3>8
  <2>3. CASE ~(~stopped /\ Payable(L[i], meta[i], amount))
    BY <2>3 DEF i, amount
  <2> QED
    BY <2>2, <2>3
<1>3. life \in D
  BY LivesFit
<1> HIDE DEF D, pay
<1>4. step \in [1..n -> [D -> D]] /\ \A j \in 1..n, L \in D : step[j][L] = pay(L, j)
  BY <1>2
<1> HIDE DEF step
<1>5. PICK f \in [0..n -> D] : f[0] = life /\ \A j \in 1..n : f[j] = step[j][f[j - 1]]
  <2>1. \E f : Runs(f, D, life, n, step)
    BY <1>1, <1>3, <1>4, Recursion
  <2> QED
    BY <2>1 DEF Runs
<1>6. /\ \A j \in 1..n : j - 1 \in 0..n /\ j \in 0..n /\ j # 0
      /\ \A j \in 0..n : j # 0 => j \in 1..n
  BY <1>1
<1>7. f = [j \in 0..n |-> IF j = 0 THEN life ELSE pay(f[j - 1], j)]
  <2>1. \A j \in 1..n : f[j] = pay(f[j - 1], j)
    BY <1>4, <1>5, <1>6
  <2>2. \A j \in 0..n : f[j] = IF j = 0 THEN life ELSE pay(f[j - 1], j)
    BY <1>5, <1>6, <2>1
  <2>3. f = [j \in 0..n |-> f[j]]
    BY SMTT(30)
  <2> QED
    BY <2>2, <2>3
<1>8. IsSettling(batch, f)
  BY <1>7, Zenon DEF IsSettling, pay, n
<1> DEFINE g == Settling(batch)
<1>9. IsSettling(batch, g)
  BY <1>8 DEF Settling
<1>10. life' = g[n] /\ UNCHANGED <<meta, listed, tokenVars>>
  BY SMTT(30) DEF BatchSettle, Settling, IsSettling, n
<1> HIDE DEF g
<1>11. \A j \in 0..n : g[j] = IF j = 0 THEN life ELSE pay(g[j - 1], j)
  BY <1>9, Zenon DEF IsSettling, pay, n
<1> DEFINE N == {j \in Nat : j <= n => g[j] \in D}
<1>12. 0 \in N
  <2>1. 0 \in 0..n
    BY <1>1
  <2> QED
    BY <1>3, <1>11, <2>1
<1>13. ASSUME NEW j \in Nat, j \in N
       PROVE  j + 1 \in N
  <2> SUFFICES ASSUME j + 1 <= n PROVE g[j + 1] \in D
    OBVIOUS
  <2>1. j + 1 \in 0..n /\ j + 1 \in 1..n /\ j + 1 # 0 /\ (j + 1) - 1 = j /\ j <= n
    BY <1>1
  <2>2. g[j] \in D
    BY <1>13, <2>1
  <2>3. g[j + 1] = pay(g[j], j + 1)
    BY <1>11, <2>1
  <2> QED
    BY <1>2, <2>1, <2>2, <2>3
<1>14. Nat \subseteq N
  <2> HIDE DEF N
  <2> QED
    BY <1>12, <1>13, Induction
<1>15. life' \in LifeSteps
  BY <1>1, <1>10, <1>14 DEF D
<1> QED
  BY <1>10, <1>15, LifeStep

----------------------------------------------------------------------------
(* The theorem *)

LEMMA InvoicesStart == Init => InvoicesInv
<1> SUFFICES ASSUME Init PROVE InvoicesInv
  OBVIOUS
<1>1. PICK i \in Invoices, m \in Metas :
        meta = [j \in Invoices |-> IF j = i THEN m ELSE NoMeta] /\ listed = <<i>>
  BY DEF Init
<1>2. m # NoMeta
  BY MetaIs
<1>3. Unborn \in Lives /\ Replays(Unborn)
  <2>1. Unborn.journal = <<>> /\ DOMAIN <<>> = {} /\ Unborn.status = "Created"
    BY DEF Unborn
  <2>2. Replays(Unborn)
    BY <2>1 DEF Replays
  <2>3. <<>> \in Seq([from : Statuses, to : Statuses])
    OBVIOUS
  <2> QED
    BY <2>2, <2>3 DEF Unborn, Lives, Statuses
<1>4. [a \in {} |-> 0] \in Rights /\ DOMAIN [a \in {} |-> 0] = {}
  <2>1. {} \in SUBSET Accounts /\ [a \in {} |-> 0] \in [{} -> Nat]
    OBVIOUS
  <2> QED
    BY <2>1, RightsAre
<1>5. InvoiceTypes
  <2>1. listed \in Seq(Invoices)
    BY <1>1
  <2>2. meta \in [Invoices -> Metas \cup {NoMeta}]
    BY <1>1
  <2> QED
    BY <1>3, <1>4, <2>1, <2>2 DEF Init, InvoiceTypes
<1>6. ListKept
  <2>1. DOMAIN listed = {1} /\ listed[1] = i /\ meta[i] = m
    BY <1>1
  <2> QED
    BY <1>2, <2>1 DEF ListKept
<1>7. SumFunction([a \in Accounts |-> 0]) = 0
  BY InvoiceAmounts, SumOfZeros
<1>8. ASSUME NEW j \in Invoices
      PROVE  /\ outstanding[j] = SumFunction(held[j])
             /\ Fits(life[j], meta[j], outstanding[j], entitled[j])
             /\ outstanding[j] > 0 => meta[j] # NoMeta
  <2>1. /\ outstanding[j] = 0 /\ held[j] = [a \in Accounts |-> 0] /\ life[j] = Unborn
        /\ entitled[j] = [a \in {} |-> 0]
    BY DEF Init
  <2>2. /\ Unborn.status = "Created" /\ Unborn.settlement = 0 /\ Unborn.dust = 0 /\ Unborn.redeemed = 0
    BY DEF Unborn
  <2>3. Balances(Unborn, meta[j], outstanding[j], entitled[j])
    BY <1>4, <2>1, <2>2 DEF Balances
  <2> QED
    BY <1>3, <1>7, <2>1, <2>3 DEF Fits
<1> QED
  BY <1>5, <1>6, <1>8 DEF InvoicesInv

LEMMA InvoicesStep ==
  ASSUME InvoicesInv, [Next]_invoiceVars
  PROVE  Step
<1>1. ASSUME NEW i \in Invoices, NEW m \in Metas, CreateInvoice(i, m) \/ UpdateMeta(i, m) PROVE Step
  BY <1>1, CreateInvoiceStep, UpdateMetaStep
<1>2. ASSUME NEW i \in Invoices, AppendJournalEntry(i) \/ Settle(i) PROVE Step
  BY <1>2, AppendJournalEntryStep, SettleStep
<1>3. ASSUME NEW i \in Invoices, NEW m \in Amounts, PartialSettle(i, m) PROVE Step
  BY <1>3, PartialSettleStep
<1>4. ASSUME NEW batch \in Batches, BatchSettle(batch) PROVE Step
  <2>1. PICK n \in 2..(MaxBatch + 1) : batch \in [1..n -> Payment]
    BY DEF Batches
  <2>2. n \in Nat
    BY InvoiceAmounts
  <2> QED
    BY <1>4, <2>1, <2>2, BatchSettleStep
<1>5. ASSUME NEW on \in Switches, SetPaused(on) \/ SetFeeRecipientExempt(on) PROVE Step
  BY <1>5, QuietStep DEF SetPaused, SetFeeRecipientExempt
<1>6. ASSUME NEW i \in Invoices, NEW a \in Accounts, NEW m \in Amounts, Issue(i, a, m) \/ Redeem(i, a, m) \/ Burn(i, a, m)
      PROVE  Step
  BY <1>6, IssueStep, RedeemStep, BurnHeldStep DEF Burn
<1>7. ASSUME NEW i \in Invoices, NEW from \in Accounts, NEW to \in Accounts, NEW m \in Amounts,
             Transfer(i, from, to, m) \/ \E s \in Spenders : TransferFrom(s, i, from, to, m)
      PROVE  Step
  BY <1>7, MoveStep DEF Transfer, TransferFrom
<1>8. ASSUME NEW i \in Invoices, NEW a \in Accounts, NEW s \in Spenders, NEW m \in Amounts, BurnFrom(s, i, a, m)
      PROVE  Step
  BY <1>8, BurnHeldStep DEF BurnFrom
<1>9. ASSUME NEW i \in Invoices, NEW a \in Accounts, NEW s \in Spenders, NEW m \in Amounts, NEW e \in 0..MaxNow,
             Approve(i, a, s, m, e)
      PROVE  Step
  BY <1>9, QuietStep DEF Approve
<1>10. ASSUME NEW a \in Watched, NEW s \in Standings, Reassess(a, s) PROVE Step
  BY <1>10, QuietStep DEF Reassess
<1>11. CASE Tick
  BY <1>11, QuietStep DEF Tick
<1>12. CASE UNCHANGED invoiceVars
  BY <1>12, QuietStep DEF invoiceVars
<1> QED
  BY <1>1, <1>2, <1>3, <1>4, <1>5, <1>6, <1>7, <1>8, <1>9, <1>10, <1>11, <1>12 DEF Next

LEMMA InvoicesInvHolds == Spec => []InvoicesInv
<1>1. InvoicesInv /\ [Next]_invoiceVars => InvoicesInv'
  BY InvoicesStep DEF Step
<1> QED
  BY <1>1, InvoicesStart, PTL DEF Spec

LEMMA InvoicesInvGives == InvoicesInv => InvoicesInOrder
<1> SUFFICES ASSUME InvoicesInv PROVE InvoicesInOrder
  OBVIOUS
<1>1. SupplyIsHeld
  BY DEF InvoicesInv, SupplyIsHeld
<1>2. JournalTells
  BY DEF InvoicesInv, JournalTells, Fits, Replays, Status
<1>3. SettlementTells
  BY DEF InvoicesInv, SettlementTells, Fits, Balances
<1>4. ListReadable
  <2>1. ASSUME NEW i \in Invoices, life[i].settlement > 0 PROVE meta[i] # NoMeta
    BY <2>1 DEF InvoicesInv, Fits, Balances
  <2> QED
    BY <2>1 DEF InvoicesInv, ListKept, ListReadable
<1> QED
  BY <1>1, <1>2, <1>3, <1>4 DEF InvoicesInOrder

\* The invoices' supplies, journals, settlements and list are in order, no
\* stored entitlement grows, and the call that takes the last token of a settled
\* invoice closes it (contracts/invoice-token).
THEOREM InvoicesHold == Spec => InvoicesSound
<1>1. InvoicesInv /\ [Next]_invoiceVars =>
        [\A i \in Invoices : \A a \in DOMAIN entitled[i] :
           LET spent == life'[i].redeemed - life[i].redeemed
           IN  /\ a \in DOMAIN entitled'[i] => entitled'[i][a] <= entitled[i][a]
               /\ spent > 0 /\ held'[i][a] < held[i][a] =>
                    IF spent = entitled[i][a] THEN a \notin DOMAIN entitled'[i]
                    ELSE entitled'[i][a] = entitled[i][a] - spent]_invoiceVars
  BY InvoicesStep DEF Step, EntitlementStep
<1>2. InvoicesInv /\ [Next]_invoiceVars =>
        [\A i \in Invoices :
           outstanding[i] > 0 /\ outstanding'[i] = 0 /\ Status(i) \in Settled
             => life'[i].status = "Redeemed"]_invoiceVars
  BY InvoicesStep DEF Step, ClosingStep
<1> QED
  BY <1>1, <1>2, InvoicesInvHolds, InvoicesInvGives, PTL
     DEF Spec, InvoicesSound, EntitlementKept, ClosedByTheLast

----------------------------------------------------------------------------
(* Carbon credits *)

CreditReceipts ==
    [retiree : CreditAccounts, beneficiary : CreditAccounts \cup {NoOne}, amount : Nat,
     entry : {"retire", "batch", "behalf", "appended"}]

\* Whether a receipt belongs in the index of a, see IndexTells.
Speaks(r, a) == Carbon!Beneficiary(r) = a /\ r.entry # "batch"

\* The lists tell of the first n of the receipts.
Tells(lists, rs, n) ==
    \A a \in CreditAccounts :
      /\ \A i, j \in DOMAIN lists[a] : i < j => lists[a][i] < lists[a][j]
      /\ \A i \in DOMAIN lists[a] : lists[a][i] + 1 \in 1..n /\ Speaks(rs[lists[a][i] + 1], a)
      /\ \A k \in 1..n : Speaks(rs[k], a) => \E i \in DOMAIN lists[a] : lists[a][i] + 1 = k

BurnedAll(rs) == SumFunction([n \in DOMAIN rs |-> Carbon!Burned(rs[n])])

CreditLedger ==
    /\ balance \in [CreditAccounts -> Nat] /\ supply \in Int /\ retired \in Int /\ minted \in Int
    /\ supply = SumFunction(balance)
    /\ minted = supply + retired
    /\ Carbon!HoldersKnown

CarbonInv ==
    /\ CreditLedger
    /\ receipts \in Seq(CreditReceipts) /\ places \in [CreditAccounts -> Seq(Nat)]
    /\ retired = BurnedAll(receipts)
    /\ Tells(places, receipts, Len(receipts))

\* The instance sums as the module does.
LEMMA CarbonSums == ASSUME NEW f PROVE Carbon!SumFunction(f) = SumFunction(f)
BY DEF Carbon!SumFunction, Carbon!SumFunctionOnSet, Carbon!FoldFunctionOnSet, Carbon!MapThenFoldSet,
       SumFunction, SumFunctionOnSet, FoldFunctionOnSet, MapThenFoldSet

LEMMA BurnedIs == ASSUME NEW r \in CreditReceipts PROVE Carbon!Burned(r) \in Nat
BY DEF Carbon!Burned, CreditReceipts

\* Whom a receipt speaks for is one account.
LEMMA SpeaksForOne ==
  ASSUME NEW r \in CreditReceipts, r.entry # "batch"
  PROVE  LET a == IF r.beneficiary = NoOne THEN r.retiree ELSE r.beneficiary
         IN  a \in CreditAccounts /\ \A b : Speaks(r, b) <=> b = a
BY DEF Speaks, Carbon!Beneficiary, CreditReceipts

\* A receipt that was just filed is new to every index, so that it joins one.
LEMMA IndexedTells ==
  ASSUME NEW lists \in [CreditAccounts -> Seq(Nat)], NEW rs, NEW n \in Nat, Tells(lists, rs, n),
         NEW a \in CreditAccounts, \A b : Speaks(rs[n + 1], b) <=> b = a
  PROVE  /\ Carbon!Indexed(lists, a, n) \in [CreditAccounts -> Seq(Nat)]
         /\ Tells(Carbon!Indexed(lists, a, n), rs, n + 1)
<1> DEFINE s == lists[a]
           t == Append(s, n)
           new == [lists EXCEPT ![a] = t]
<1>1. s \in Seq(Nat) /\ \A i \in DOMAIN s : s[i] + 1 \in 1..n /\ s[i] \in Nat
  BY DEF Tells
<1>2. \A i \in DOMAIN s : s[i] # n
  BY <1>1
<1>3. Carbon!Indexed(lists, a, n) = new
  BY <1>2 DEF Carbon!Indexed, Carbon!Range
<1>4. /\ t \in Seq(Nat) /\ Len(s) \in Nat /\ DOMAIN s = 1..Len(s) /\ DOMAIN t = 1..(Len(s) + 1)
      /\ t[Len(s) + 1] = n /\ \A i \in 1..Len(s) : t[i] = s[i]
  BY <1>1
<1>5. new \in [CreditAccounts -> Seq(Nat)] /\ new[a] = t /\ \A b \in CreditAccounts \ {a} : new[b] = lists[b]
  BY <1>4
<1> HIDE DEF new, t
<1>6. ASSUME NEW b \in CreditAccounts
      PROVE  /\ \A i, j \in DOMAIN new[b] : i < j => new[b][i] < new[b][j]
             /\ \A i \in DOMAIN new[b] : new[b][i] + 1 \in 1..(n + 1) /\ Speaks(rs[new[b][i] + 1], b)
             /\ \A k \in 1..(n + 1) : Speaks(rs[k], b) => \E i \in DOMAIN new[b] : new[b][i] + 1 = k
  <2>1. CASE b = a
    <3>1. \A i \in DOMAIN t : i \in DOMAIN s \/ i = Len(s) + 1
      BY <1>4
    <3>2. \A i, j \in DOMAIN t : i < j => t[i] < t[j]
      <4>1. ASSUME NEW i \in DOMAIN t, NEW j \in DOMAIN t, i < j PROVE t[i] < t[j]
        <5>1. i \in DOMAIN s /\ i \in 1..Len(s)
          BY <1>4, <4>1
        <5>2. CASE j \in DOMAIN s
          BY <1>4, <4>1, <5>1, <5>2 DEF Tells
        <5>3. CASE j = Len(s) + 1
          BY <1>1, <1>4, <5>1, <5>3
        <5> QED
          BY <3>1, <5>2, <5>3
      <4> QED
        BY <4>1
    <3>3. \A i \in DOMAIN t : t[i] + 1 \in 1..(n + 1) /\ Speaks(rs[t[i] + 1], a)
      <4>1. ASSUME NEW i \in DOMAIN s PROVE t[i] + 1 \in 1..(n + 1) /\ Speaks(rs[t[i] + 1], a)
        <5>1. s[i] + 1 \in 1..n /\ Speaks(rs[s[i] + 1], a) /\ t[i] = s[i]
          BY <1>4 DEF Tells
        <5>2. \A k \in 1..n : k \in 1..(n + 1)
          OBVIOUS
        <5> QED
          BY <5>1, <5>2
      <4>2. t[Len(s) + 1] + 1 \in 1..(n + 1) /\ Speaks(rs[t[Len(s) + 1] + 1], a)
        BY <1>4
      <4> QED
        BY <3>1, <4>1, <4>2
    <3>4. ASSUME NEW k \in 1..(n + 1), Speaks(rs[k], a) PROVE \E i \in DOMAIN t : t[i] + 1 = k
      <4>1. CASE k = n + 1
        <5>1. Len(s) + 1 \in DOMAIN t /\ t[Len(s) + 1] + 1 = k
          BY <1>4, <4>1
        <5> QED
          BY <5>1
      <4>2. CASE k # n + 1
        <5>1. k \in 1..n
          BY <4>2
        <5>2. PICK i \in DOMAIN s : s[i] + 1 = k
          BY <3>4, <5>1 DEF Tells
        <5> QED
          BY <1>4, <5>2
      <4> QED
        BY <4>1, <4>2
    <3> QED
      BY <1>5, <2>1, <3>2, <3>3, <3>4
  <2>2. CASE b # a
    <3>1. ~Speaks(rs[n + 1], b) /\ new[b] = lists[b]
      BY <1>5, <2>2
    <3>2. \A k \in 1..n : k \in 1..(n + 1)
      OBVIOUS
    <3>3. \A k \in 1..(n + 1) : k \in 1..n \/ k = n + 1
      OBVIOUS
    <3> QED
      BY <3>1, <3>2, <3>3 DEF Tells
  <2> QED
    BY <2>1, <2>2
<1>7. Tells(new, rs, n + 1)
  BY <1>6 DEF Tells
<1> QED
  BY <1>3, <1>5, <1>7

\* Lists stay true of the first receipts whatever is filed behind them.
LEMMA TellsPrefix ==
  ASSUME NEW lists, NEW rs, NEW qs, NEW n \in Nat, Tells(lists, rs, n), \A k \in 1..n : qs[k] = rs[k]
  PROVE  Tells(lists, qs, n)
BY DEF Tells

\* One more receipt, and what it says was burned.
LEMMA BurnedOneMore ==
  ASSUME NEW rs \in Seq(CreditReceipts), NEW r \in CreditReceipts
  PROVE  /\ Append(rs, r) \in Seq(CreditReceipts)
         /\ BurnedAll(Append(rs, r)) = BurnedAll(rs) + Carbon!Burned(r)
<1> DEFINE n == Len(rs)
           qs == Append(rs, r)
           f == [k \in 1..(n + 1) |-> Carbon!Burned(qs[k])]
           g == [k \in 1..n |-> Carbon!Burned(rs[k])]
<1>1. /\ n \in Nat /\ DOMAIN rs = 1..n /\ DOMAIN qs = 1..(n + 1) /\ qs \in Seq(CreditReceipts)
      /\ qs[n + 1] = r /\ \A k \in 1..n : qs[k] = rs[k]
      /\ \A k \in 1..(n + 1) : qs[k] \in CreditReceipts
      /\ \A k \in 1..n : rs[k] \in CreditReceipts
  OBVIOUS
<1> HIDE DEF n, qs
<1>2. f \in [1..(n + 1) -> Int] /\ g \in [1..n -> Int]
  BY <1>1, BurnedIs
<1>3. \A i \in 1..n : f[i] = g[i]
  BY <1>1
<1>4. f[n + 1] = Carbon!Burned(r)
  BY <1>1
<1>5. BurnedAll(qs) = SumFunction(f) /\ BurnedAll(rs) = SumFunction(g)
  BY <1>1 DEF BurnedAll
<1> HIDE DEF f, g
<1>6. SumFunction(f) = SumFunction(g) + f[n + 1]
  BY <1>1, <1>2, <1>3, SumOfLast
<1> QED
  BY <1>1, <1>4, <1>5, <1>6 DEF qs

\* A batch of receipts, and what they say was burned.
LEMMA BurnedMore ==
  ASSUME NEW rs \in Seq(CreditReceipts), NEW k \in Nat, NEW new \in [1..k -> CreditReceipts]
  PROVE  /\ rs \o new \in Seq(CreditReceipts) /\ Len(rs \o new) = Len(rs) + k
         /\ \A i \in 1..Len(rs) : (rs \o new)[i] = rs[i]
         /\ \A i \in 1..k : (rs \o new)[Len(rs) + i] = new[i]
         /\ BurnedAll(rs \o new) = BurnedAll(rs) + SumFunction([i \in 1..k |-> Carbon!Burned(new[i])])
<1> DEFINE n == Len(rs)
           qs == rs \o new
           f == [i \in 1..(n + k) |-> Carbon!Burned(qs[i])]
           front == [i \in 1..n |-> f[i]]
           back == [i \in 1..k |-> f[n + i]]
<1>1. n \in Nat /\ DOMAIN rs = 1..n /\ new \in Seq(CreditReceipts) /\ Len(new) = k
  OBVIOUS
<1>2. /\ qs \in Seq(CreditReceipts) /\ DOMAIN qs = 1..(n + k) /\ Len(qs) = n + k
      /\ \A i \in 1..n : qs[i] = rs[i]
      /\ \A i \in 1..k : qs[n + i] = new[i]
  BY <1>1
<1>3. \A i \in 1..(n + k) : qs[i] \in CreditReceipts
  BY <1>2
<1> HIDE DEF n, qs
<1>4. f \in [1..(n + k) -> Int]
  BY <1>3, BurnedIs
<1>5. BurnedAll(qs) = SumFunction(f)
  BY <1>2 DEF BurnedAll
<1>6. front = [i \in DOMAIN rs |-> Carbon!Burned(rs[i])]
  <2>1. \A i \in 1..n : i \in 1..(n + k)
    BY <1>1
  <2> QED
    BY <1>1, <1>2, <2>1
<1>7. back = [i \in 1..k |-> Carbon!Burned(new[i])]
  <2>1. \A i \in 1..k : n + i \in 1..(n + k)
    BY <1>1
  <2> QED
    BY <1>2, <2>1
<1>8. SumFunction(f) = SumFunction(front) + SumFunction(back)
  <2> HIDE DEF f
  <2> QED
    BY <1>1, <1>4, SumOfAppended
<1> HIDE DEF front, back, f
<1> QED
  BY <1>2, <1>5, <1>6, <1>7, <1>8 DEF BurnedAll, n, qs

LEMMA BurntKeeps ==
  ASSUME CarbonInv, NEW a \in CreditAccounts, NEW x \in Nat, Carbon!Burnt(a, x), UNCHANGED <<registered, minted>>
  PROVE  CreditLedger' /\ retired' = retired + x
<1>1. /\ balance \in [CreditAccounts -> Nat] /\ supply \in Int /\ retired \in Int /\ minted \in Int
      /\ supply = SumFunction(balance) /\ minted = supply + retired
  BY DEF CarbonInv, CreditLedger
<1>2. /\ balance[a] >= x /\ balance' = [balance EXCEPT ![a] = @ - x]
      /\ supply' = supply - x /\ retired' = retired + x
  BY DEF Carbon!Burnt
<1>3. balance' \in [CreditAccounts -> Nat] /\ balance'[a] = balance[a] - x /\ balance[a] \in Nat
  BY <1>1, <1>2
<1>4. \A c \in CreditAccounts \ {a} : balance'[c] = balance[c]
  BY <1>1, <1>2
<1>5. SumFunction(balance') = SumFunction(balance) + (balance'[a] - balance[a])
  BY <1>1, <1>3, <1>4, Credits, SumOfChange
<1>6. supply' = SumFunction(balance')
  BY <1>1, <1>2, <1>3, <1>5
<1>7. Carbon!HoldersKnown'
  <2>1. \A c \in CreditAccounts : balance'[c] > 0 => balance[c] > 0
    BY <1>1, <1>3, <1>4
  <2> QED
    BY <2>1 DEF CarbonInv, CreditLedger, Carbon!HoldersKnown
<1> QED
  BY <1>1, <1>2, <1>3, <1>6, <1>7 DEF CreditLedger

\* A receipt for a call that took what the receipt says it took.
LEMMA FiledStep ==
  ASSUME CarbonInv, NEW r \in CreditReceipts, r.entry # "batch",
         Carbon!File(r, IF r.beneficiary = NoOne THEN r.retiree ELSE r.beneficiary),
         CreditLedger', retired' = retired + Carbon!Burned(r)
  PROVE  CarbonInv'
<1> DEFINE a == IF r.beneficiary = NoOne THEN r.retiree ELSE r.beneficiary
           n == Len(receipts)
<1>1. a \in CreditAccounts /\ \A b : Speaks(r, b) <=> b = a
  BY SpeaksForOne
<1>2. receipts' = Append(receipts, r) /\ places' = Carbon!Indexed(places, a, n)
  BY DEF Carbon!File
<1>3. /\ receipts \in Seq(CreditReceipts) /\ places \in [CreditAccounts -> Seq(Nat)]
      /\ Tells(places, receipts, n) /\ n \in Nat /\ retired = BurnedAll(receipts)
  BY DEF CarbonInv
<1>4. /\ Len(receipts') = n + 1 /\ receipts'[n + 1] = r
      /\ \A k \in 1..n : receipts'[k] = receipts[k]
  BY <1>2, <1>3
<1> HIDE DEF a, n
<1>5. Tells(places, receipts', n)
  BY <1>3, <1>4, TellsPrefix
<1>6. \A b : Speaks(receipts'[n + 1], b) <=> b = a
  BY <1>1, <1>4
<1>7. places' \in [CreditAccounts -> Seq(Nat)] /\ Tells(places', receipts', n + 1)
  BY <1>1, <1>2, <1>3, <1>5, <1>6, IndexedTells
<1>8. receipts' \in Seq(CreditReceipts) /\ retired' = BurnedAll(receipts')
  BY <1>2, <1>3, BurnedOneMore
<1> QED
  BY <1>4, <1>7, <1>8 DEF CarbonInv

CreditEntry == [to : CreditAccounts \cup {NoOne}, amount : Nat]

LEMMA FileBatchIs ==
  ASSUME CarbonInv, NEW a \in CreditAccounts, NEW k \in Nat, NEW batch \in [1..k -> CreditEntry],
         NEW entry \in {"batch", "behalf"}, Carbon!FileBatch(a, batch, entry)
  PROVE  /\ CreditLedger' /\ receipts' \in Seq(CreditReceipts) /\ Len(receipts') = Len(receipts) + k
         /\ retired' = BurnedAll(receipts')
         /\ \A i \in 1..Len(receipts) : receipts'[i] = receipts[i]
         /\ \A i \in 1..k : receipts'[Len(receipts) + i] = Carbon!Receipt(a, batch[i].to, batch[i].amount, entry)
<1> DEFINE new == [i \in 1..k |-> Carbon!Receipt(a, batch[i].to, batch[i].amount, entry)]
           sums == [i \in 1..k |-> batch[i].amount]
<1>1. /\ DOMAIN batch = 1..k
      /\ \A i \in 1..k : batch[i].to \in CreditAccounts \cup {NoOne} /\ batch[i].amount \in Nat
  BY DEF CreditEntry
<1>2. \A i \in 1..k : new[i] \in CreditReceipts /\ Carbon!Burned(new[i]) = sums[i]
  BY <1>1 DEF Carbon!Receipt, Carbon!Burned, CreditReceipts
<1>3. new \in [1..k -> CreditReceipts] /\ sums = [i \in 1..k |-> Carbon!Burned(new[i])]
  BY <1>2
<1>4. receipts' = receipts \o new
  BY <1>1 DEF Carbon!FileBatch
<1>5. Carbon!Total(batch) = SumFunction(sums)
  BY <1>1, CarbonSums DEF Carbon!Total
<1>6. SumFunction(sums) \in Nat
  <2>1. IsFiniteSet(1..k) /\ sums \in [1..k -> Nat]
    BY <1>1, FS_Interval
  <2> HIDE DEF sums
  <2> QED
    BY <2>1, SumOfNaturals
<1>7. Carbon!Burnt(a, SumFunction(sums)) /\ UNCHANGED <<registered, minted>>
  BY <1>5 DEF Carbon!FileBatch
<1>8. CreditLedger' /\ retired' = retired + SumFunction(sums)
  BY <1>6, <1>7, BurntKeeps
<1>9. receipts \in Seq(CreditReceipts) /\ retired = BurnedAll(receipts)
  BY DEF CarbonInv
<1>10. /\ receipts' \in Seq(CreditReceipts) /\ Len(receipts') = Len(receipts) + k
       /\ \A i \in 1..Len(receipts) : receipts'[i] = receipts[i]
       /\ \A i \in 1..k : receipts'[Len(receipts) + i] = new[i]
       /\ BurnedAll(receipts') = BurnedAll(receipts) + SumFunction([i \in 1..k |-> Carbon!Burned(new[i])])
  <2> HIDE DEF new
  <2> QED
    BY <1>3, <1>4, <1>9, BurnedMore
<1> QED
  BY <1>3, <1>8, <1>9, <1>10

\* Receipts that no index is to tell of.
LEMMA TellsSilent ==
  ASSUME NEW lists, NEW rs, NEW n \in Nat, NEW m \in Nat, Tells(lists, rs, n), n <= m,
         \A k \in 1..m : k > n => rs[k].entry = "batch"
  PROVE  Tells(lists, rs, m)
<1>1. /\ \A k \in 1..n : k \in 1..m
      /\ \A k \in 1..m : k > n \/ k \in 1..n
  OBVIOUS
<1>2. \A k \in 1..m, a \in CreditAccounts : Speaks(rs[k], a) => k \in 1..n
  BY <1>1 DEF Speaks
<1> QED
  BY <1>1, <1>2 DEF Tells

LEMMA BatchRetireStep ==
  ASSUME CarbonInv, NEW a \in CreditAccounts, NEW k \in Nat, NEW amounts \in [1..k -> CreditAmounts],
         Carbon!BatchRetire(a, amounts)
  PROVE  CarbonInv'
<1> DEFINE batch == [i \in 1..k |-> [to |-> NoOne, amount |-> amounts[i]]]
           n == Len(receipts)
<1>1. batch \in [1..k -> CreditEntry]
  BY Credits DEF CreditEntry
<1>2. Carbon!FileBatch(a, batch, "batch") /\ places' = places
  BY DEF Carbon!BatchRetire
<1> HIDE DEF batch
<1>3. /\ CreditLedger' /\ receipts' \in Seq(CreditReceipts) /\ Len(receipts') = n + k
      /\ retired' = BurnedAll(receipts')
      /\ \A i \in 1..n : receipts'[i] = receipts[i]
      /\ \A i \in 1..k : receipts'[n + i] = Carbon!Receipt(a, batch[i].to, batch[i].amount, "batch")
  BY <1>1, <1>2, FileBatchIs
<1>4. n \in Nat /\ Tells(places, receipts, n) /\ places \in [CreditAccounts -> Seq(Nat)]
  BY DEF CarbonInv
<1> HIDE DEF n
<1>5. \A i \in 1..(n + k) : i > n => receipts'[i].entry = "batch"
  <2>1. ASSUME NEW i \in 1..(n + k), i > n PROVE receipts'[i].entry = "batch"
    <3>1. i - n \in 1..k /\ n + (i - n) = i
      BY <1>4, <2>1
    <3>2. receipts'[n + (i - n)] = Carbon!Receipt(a, batch[i - n].to, batch[i - n].amount, "batch")
      BY <1>3, <3>1
    <3> QED
      BY <3>1, <3>2 DEF Carbon!Receipt
  <2> QED
    BY <2>1
<1>6. Tells(places, receipts', n)
  BY <1>3, <1>4, TellsPrefix
<1>7. Tells(places, receipts', n + k)
  BY <1>4, <1>5, <1>6, TellsSilent, SMTT(30)
<1> QED
  BY <1>2, <1>3, <1>4, <1>7 DEF CarbonInv

\* The lists a batch on behalf of others goes through, its receipts filed from place n on.
Listing(batch, n, f) ==
    f = [i \in 0..Len(batch) |->
           IF i = 0 THEN places ELSE Carbon!Indexed(f[i - 1], batch[i].to, n + i - 1)]

Listings(batch, n) == CHOOSE f : Listing(batch, n, f)

LEMMA BatchRetireOnBehalfStep ==
  ASSUME CarbonInv, NEW a \in CreditAccounts, NEW k \in Nat,
         NEW batch \in [1..k -> [to : CreditAccounts, amount : CreditAmounts]],
         Carbon!BatchRetireOnBehalf(a, batch)
  PROVE  CarbonInv'
<1> DEFINE n == Len(receipts)
           D == [CreditAccounts -> Seq(Nat)]
           next(L, i) == Carbon!Indexed(L, batch[i].to, n + i - 1)
           step == [i \in 1..k |-> [L \in D |-> next(L, i)]]
<1>1. /\ Len(batch) = k /\ batch \in [1..k -> CreditEntry]
      /\ \A i \in 1..k : batch[i].to \in CreditAccounts /\ batch[i].to # NoOne
  <2>1. \A i \in 1..k : batch[i] \in [to : CreditAccounts, amount : CreditAmounts]
    OBVIOUS
  <2>2. \A e \in [to : CreditAccounts, amount : CreditAmounts] :
          e \in CreditEntry /\ e.to \in CreditAccounts /\ e.to # NoOne
    BY Credits DEF CreditEntry
  <2>3. Len(batch) = k
    OBVIOUS
  <2> QED
    BY <2>1, <2>2, <2>3
<1>2. Carbon!FileBatch(a, batch, "behalf") /\ places' = Listings(batch, n)[k]
  BY <1>1 DEF Carbon!BatchRetireOnBehalf, Listings, Listing
<1>3. /\ CreditLedger' /\ receipts' \in Seq(CreditReceipts) /\ Len(receipts') = n + k
      /\ retired' = BurnedAll(receipts')
      /\ \A i \in 1..n : receipts'[i] = receipts[i]
      /\ \A i \in 1..k : receipts'[n + i] = Carbon!Receipt(a, batch[i].to, batch[i].amount, "behalf")
  BY <1>1, <1>2, FileBatchIs
<1>4. n \in Nat /\ Tells(places, receipts, n) /\ places \in D
  BY DEF CarbonInv
<1> HIDE DEF n
<1>5. \A i \in 1..k : \A b : Speaks(receipts'[n + i], b) <=> b = batch[i].to
  <2>1. ASSUME NEW i \in 1..k, NEW b PROVE Speaks(receipts'[n + i], b) <=> b = batch[i].to
    <3>1. receipts'[n + i] = Carbon!Receipt(a, batch[i].to, batch[i].amount, "behalf") /\ batch[i].to # NoOne
      BY <1>1, <1>3
    <3>2. receipts'[n + i].beneficiary = batch[i].to /\ receipts'[n + i].entry = "behalf"
      BY <3>1 DEF Carbon!Receipt
    <3> QED
      BY <3>1, <3>2 DEF Speaks, Carbon!Beneficiary
  <2> QED
    BY <2>1
<1>6. ASSUME NEW i \in 1..k, NEW L \in D
      PROVE  /\ next(L, i) \in D
             /\ Tells(L, receipts', n + i - 1) => Tells(next(L, i), receipts', n + i)
  <2> DEFINE m == n + i - 1
  <2>1. m \in Nat /\ m + 1 = n + i
    BY <1>4
  <2>2. batch[i].to \in CreditAccounts
    BY <1>1
  <2>3. next(L, i) \in D
    <3>1. Append(L[batch[i].to], m) \in Seq(Nat)
      BY <2>1, <2>2
    <3>2. [L EXCEPT ![batch[i].to] = Append(@, m)] \in D
      BY <2>2, <3>1
    <3> QED
      BY <3>2 DEF Carbon!Indexed
  <2>4. \A b : Speaks(receipts'[m + 1], b) <=> b = batch[i].to
    BY <1>5, <2>1
  <2> HIDE DEF m
  <2>5. Tells(L, receipts', m) => Tells(Carbon!Indexed(L, batch[i].to, m), receipts', m + 1)
    BY <2>1, <2>2, <2>4, IndexedTells
  <2> QED
    BY <2>1, <2>3, <2>5 DEF m
<1> HIDE DEF D, next
<1>7. step \in [1..k -> [D -> D]] /\ \A i \in 1..k, L \in D : step[i][L] = next(L, i)
  BY <1>6
<1> HIDE DEF step
<1>8. PICK f \in [0..k -> D] : f[0] = places /\ \A i \in 1..k : f[i] = step[i][f[i - 1]]
  <2>1. \E f : Runs(f, D, places, k, step)
    BY <1>4, <1>7, Recursion
  <2> QED
    BY <2>1 DEF Runs
<1>9. /\ \A i \in 1..k : i - 1 \in 0..k /\ i \in 0..k /\ i # 0
      /\ \A i \in 0..k : i # 0 => i \in 1..k
  OBVIOUS
<1>10. f = [i \in 0..k |-> IF i = 0 THEN places ELSE next(f[i - 1], i)]
  <2>1. \A i \in 0..k : f[i] = IF i = 0 THEN places ELSE next(f[i - 1], i)
    BY <1>7, <1>8, <1>9
  <2>2. f = [i \in 0..k |-> f[i]]
    OBVIOUS
  <2> QED
    BY <2>1, <2>2
<1>11. Listing(batch, n, f)
  BY <1>1, <1>10 DEF Listing, next
<1> DEFINE g == Listings(batch, n)
<1>12. Listing(batch, n, g)
  BY <1>11 DEF Listings
<1>13. places' = g[k]
  BY <1>2
<1> HIDE DEF g
<1>14. \A i \in 0..k : g[i] = IF i = 0 THEN places ELSE next(g[i - 1], i)
  BY <1>1, <1>12 DEF Listing, next
<1> DEFINE N == {i \in Nat : i <= k => g[i] \in D /\ Tells(g[i], receipts', n + i)}
<1>15. 0 \in N
  <2>1. g[0] = places
    BY <1>14
  <2>2. Tells(places, receipts', n)
    BY <1>3, <1>4, TellsPrefix DEF D
  <2>3. n + 0 = n
    BY <1>4
  <2> QED
    BY <1>4, <2>1, <2>2, <2>3
<1>16. ASSUME NEW i \in Nat, i \in N
       PROVE  i + 1 \in N
  <2> SUFFICES ASSUME i + 1 <= k PROVE g[i + 1] \in D /\ Tells(g[i + 1], receipts', n + (i + 1))
    OBVIOUS
  <2>1. i + 1 \in 1..k /\ i + 1 \in 0..k /\ i + 1 # 0 /\ (i + 1) - 1 = i /\ n + (i + 1) - 1 = n + i
    BY <1>4
  <2>2. g[i] \in D /\ Tells(g[i], receipts', n + i)
    BY <1>16, <2>1
  <2>3. g[i + 1] = next(g[i], i + 1)
    BY <1>14, <2>1
  <2> QED
    BY <1>6, <2>1, <2>2, <2>3
<1>17. k \in N
  <2> HIDE DEF N
  <2> QED
    BY <1>15, <1>16, Induction
<1>18. places' \in D /\ Tells(places', receipts', n + k)
  BY <1>13, <1>17
<1> QED
  BY <1>3, <1>18 DEF CarbonInv, D

LEMMA MintStep ==
  ASSUME CarbonInv, NEW a \in CreditAccounts, NEW x \in Nat, Carbon!Mint(a, x)
  PROVE  CarbonInv'
<1>1. /\ balance \in [CreditAccounts -> Nat] /\ supply \in Int /\ retired \in Int /\ minted \in Int
      /\ supply = SumFunction(balance) /\ minted = supply + retired
  BY DEF CarbonInv, CreditLedger
<1>2. /\ balance' = [balance EXCEPT ![a] = @ + x] /\ supply' = supply + x /\ minted' = minted + x
      /\ registered' = registered \cup {a} /\ UNCHANGED <<retired, receipts, places>>
  BY DEF Carbon!Mint
<1>3. balance' \in [CreditAccounts -> Nat] /\ balance'[a] = balance[a] + x /\ balance[a] \in Nat
  BY <1>1, <1>2
<1>4. \A d \in CreditAccounts \ {a} : balance'[d] = balance[d]
  BY <1>1, <1>2
<1>7. SumFunction(balance') = SumFunction(balance) + (balance'[a] - balance[a])
  BY <1>1, <1>3, <1>4, Credits, SumOfChange
<1>5. Carbon!HoldersKnown'
  BY <1>2, <1>4 DEF CarbonInv, CreditLedger, Carbon!HoldersKnown
<1>6. CreditLedger'
  BY <1>1, <1>2, <1>3, <1>5, <1>7 DEF CreditLedger
<1> QED
  BY <1>2, <1>6 DEF CarbonInv

LEMMA CreditTransferStep ==
  ASSUME CarbonInv, NEW from \in CreditAccounts, NEW to \in CreditAccounts, NEW x \in Nat,
         Carbon!Transfer(from, to, x)
  PROVE  CarbonInv'
<1> DEFINE net == [balance EXCEPT ![from] = @ - x]
<1>1. balance \in [CreditAccounts -> Nat] /\ supply \in Int /\ supply = SumFunction(balance)
  BY DEF CarbonInv, CreditLedger
<1>2. /\ balance[from] >= x /\ balance' = [net EXCEPT ![to] = @ + x]
      /\ registered' = registered \cup {to} /\ UNCHANGED <<supply, retired, receipts, places, minted>>
  BY DEF Carbon!Transfer
<1>3. net \in [CreditAccounts -> Nat] /\ net[from] = balance[from] - x /\ balance[from] \in Nat
  BY <1>1, <1>2
<1>4. \A d \in CreditAccounts \ {from} : net[d] = balance[d]
  BY <1>1
<1>5. SumFunction(net) = SumFunction(balance) + (net[from] - balance[from])
  <2> HIDE DEF net
  <2> QED
    BY <1>1, <1>3, <1>4, Credits, SumOfChange
<1> HIDE DEF net
<1>6. balance' \in [CreditAccounts -> Nat] /\ balance'[to] = net[to] + x /\ net[to] \in Nat
  BY <1>2, <1>3
<1>7. /\ \A d \in CreditAccounts \ {to} : balance'[d] = net[d]
      /\ SumFunction(balance') = SumFunction(net) + (balance'[to] - net[to])
  <2>1. \A d \in CreditAccounts \ {to} : balance'[d] = net[d]
    BY <1>2, <1>3
  <2> QED
    BY <1>3, <1>6, <2>1, Credits, SumOfChange
<1>8. supply' = SumFunction(balance')
  BY <1>1, <1>2, <1>3, <1>5, <1>6, <1>7
<1>9. Carbon!HoldersKnown'
  <2>1. ASSUME NEW d \in CreditAccounts, balance'[d] > 0 PROVE d \in registered'
    <3>1. CASE d = to
      BY <1>2, <3>1
    <3>2. CASE d # to
      <4>1. balance'[d] = net[d] /\ balance[d] \in Nat /\ balance[from] \in Nat
        BY <1>1, <1>7, <3>2
      <4>2. balance[d] > 0
        BY <1>3, <1>4, <2>1, <4>1
      <4> QED
        BY <1>2, <4>2 DEF CarbonInv, CreditLedger, Carbon!HoldersKnown
    <3> QED
      BY <3>1, <3>2
  <2> QED
    BY <2>1 DEF Carbon!HoldersKnown
<1>10. CreditLedger'
  BY <1>2, <1>6, <1>8, <1>9 DEF CarbonInv, CreditLedger
<1> QED
  BY <1>2, <1>10 DEF CarbonInv

LEMMA RetireStep ==
  ASSUME CarbonInv, NEW a \in CreditAccounts, NEW b \in CreditAccounts \cup {NoOne}, NEW x \in Nat,
         NEW entry \in {"retire", "behalf"}, Carbon!Burnt(a, x),
         Carbon!File(Carbon!Receipt(a, b, x, entry), IF b = NoOne THEN a ELSE b)
  PROVE  CarbonInv'
<1> DEFINE r == Carbon!Receipt(a, b, x, entry)
<1>1. /\ r \in CreditReceipts /\ r.entry # "batch" /\ Carbon!Burned(r) = x
      /\ (IF r.beneficiary = NoOne THEN r.retiree ELSE r.beneficiary) = (IF b = NoOne THEN a ELSE b)
  BY DEF Carbon!Receipt, Carbon!Burned, CreditReceipts
<1>2. CreditLedger' /\ retired' = retired + x
  BY BurntKeeps DEF Carbon!File
<1> HIDE DEF r
<1>3. Carbon!File(r, IF r.beneficiary = NoOne THEN r.retiree ELSE r.beneficiary)
  BY <1>1 DEF r
<1> QED
  BY <1>1, <1>2, <1>3, FiledStep

LEMMA AppendStep ==
  ASSUME CarbonInv, NEW a \in CreditAccounts, NEW b \in CreditAccounts \cup {NoOne}, NEW x \in Nat,
         Carbon!AppendRetirementReceipt(a, b, x)
  PROVE  CarbonInv'
<1> DEFINE r == Carbon!Receipt(a, b, x, "appended")
<1>1. /\ r \in CreditReceipts /\ r.entry # "batch" /\ Carbon!Burned(r) = 0
      /\ (IF r.beneficiary = NoOne THEN r.retiree ELSE r.beneficiary) = (IF b = NoOne THEN a ELSE b)
  BY DEF Carbon!Receipt, Carbon!Burned, CreditReceipts
<1>2. UNCHANGED <<balance, supply, retired, registered, minted>>
  BY DEF Carbon!AppendRetirementReceipt, Carbon!File
<1>3. CreditLedger' /\ retired' = retired + 0
  BY <1>2, SMTT(30) DEF CarbonInv, CreditLedger, Carbon!HoldersKnown
<1>4. Carbon!File(r, IF b = NoOne THEN a ELSE b)
  BY DEF Carbon!AppendRetirementReceipt
<1> HIDE DEF r
<1>5. Carbon!File(r, IF r.beneficiary = NoOne THEN r.retiree ELSE r.beneficiary)
  BY <1>1, <1>4
<1> QED
  BY <1>1, <1>3, <1>5, FiledStep

LEMMA CarbonStart == Carbon!Init => CarbonInv
<1> SUFFICES ASSUME Carbon!Init PROVE CarbonInv
  OBVIOUS
<1>1. /\ balance = [a \in CreditAccounts |-> 0] /\ supply = 0 /\ retired = 0 /\ minted = 0
      /\ receipts = <<>> /\ places = [a \in CreditAccounts |-> <<>>]
  BY DEF Carbon!Init
<1>2. SumFunction(balance) = 0
  BY <1>1, Credits, SumOfZeros
<1>3. CreditLedger
  BY <1>1, <1>2 DEF CreditLedger, Carbon!HoldersKnown
<1>4. BurnedAll(receipts) = 0
  <2> DEFINE f == [n \in DOMAIN receipts |-> Carbon!Burned(receipts[n])]
  <2>1. DOMAIN receipts = {} /\ IsFiniteSet({}) /\ f = [x \in {} |-> 0]
    BY <1>1, FS_EmptySet
  <2> HIDE DEF f
  <2>2. SumFunction(f) = 0
    BY <2>1, SumOfZeros
  <2> QED
    BY <2>2 DEF BurnedAll, f
<1>5. Tells(places, receipts, 0) /\ Len(receipts) = 0
  BY <1>1 DEF Tells
<1> QED
  BY <1>1, <1>3, <1>4, <1>5 DEF CarbonInv

LEMMA CarbonKept == CarbonInv /\ [Carbon!Next]_creditVars => CarbonInv'
<1> SUFFICES ASSUME CarbonInv, [Carbon!Next]_creditVars PROVE CarbonInv'
  OBVIOUS
<1>1. ASSUME NEW a \in CreditAccounts, NEW m \in CreditAmounts, Carbon!Mint(a, m) PROVE CarbonInv'
  BY <1>1, Credits, MintStep
<1>2. ASSUME NEW a \in CreditAccounts, NEW m \in CreditAmounts, Carbon!Retire(a, m) PROVE CarbonInv'
  BY <1>2, Credits, RetireStep DEF Carbon!Retire
<1>3. ASSUME NEW a \in CreditAccounts, NEW b \in CreditAccounts, NEW m \in CreditAmounts, Carbon!Transfer(a, b, m)
      PROVE  CarbonInv'
  BY <1>3, Credits, CreditTransferStep
<1>4. ASSUME NEW a \in CreditAccounts, NEW b \in CreditAccounts, NEW m \in CreditAmounts,
             Carbon!RetireOnBehalf(a, b, m)
      PROVE  CarbonInv'
  <2>1. b # NoOne /\ m \in Nat
    BY Credits
  <2>2. Carbon!Burnt(a, m) /\ Carbon!File(Carbon!Receipt(a, b, m, "behalf"), IF b = NoOne THEN a ELSE b)
    BY <1>4, <2>1 DEF Carbon!RetireOnBehalf
  <2> QED
    BY <2>1, <2>2, RetireStep
<1>5. ASSUME NEW a \in CreditAccounts, NEW b \in CreditAccounts \cup {NoOne}, NEW m \in CreditAmounts,
             Carbon!AppendRetirementReceipt(a, b, m)
      PROVE  CarbonInv'
  BY <1>5, Credits, AppendStep
<1>6. ASSUME NEW a \in CreditAccounts, NEW ms \in Carbon!Batches(CreditAmounts), Carbon!BatchRetire(a, ms)
      PROVE  CarbonInv'
  <2>1. PICK k \in 0..CreditBatch : ms \in [1..k -> CreditAmounts]
    BY DEF Carbon!Batches
  <2>2. k \in Nat
    BY Credits
  <2> QED
    BY <1>6, <2>1, <2>2, BatchRetireStep
<1>7. ASSUME NEW a \in CreditAccounts, NEW batch \in Carbon!Batches([to : CreditAccounts, amount : CreditAmounts]),
             Carbon!BatchRetireOnBehalf(a, batch)
      PROVE  CarbonInv'
  <2>1. PICK k \in 0..CreditBatch : batch \in [1..k -> [to : CreditAccounts, amount : CreditAmounts]]
    BY DEF Carbon!Batches
  <2>2. k \in Nat
    BY Credits
  <2> QED
    BY <1>7, <2>1, <2>2, BatchRetireOnBehalfStep
<1>8. CASE UNCHANGED <<balance, supply, retired, receipts, places, registered, minted>>
  BY <1>8 DEF CarbonInv, CreditLedger, Carbon!HoldersKnown
<1>9. ASSUME NEW a \in CreditsWatched, NEW s \in Carbon!Standings, Carbon!Reassess(a, s) PROVE CarbonInv'
  BY <1>8, <1>9 DEF Carbon!Reassess
<1>10. CASE UNCHANGED creditVars
  BY <1>8, <1>10 DEF creditVars
<1> QED
  BY <1>1, <1>2, <1>3, <1>4, <1>5, <1>6, <1>7, <1>9, <1>10 DEF Carbon!Next

LEMMA CarbonInvGives == CarbonInv => CreditsSound
<1> SUFFICES ASSUME CarbonInv PROVE Carbon!CreditsSound
  BY DEF CreditsSound
<1>1. Carbon!CreditsConserved
  BY CarbonSums DEF CarbonInv, CreditLedger, BurnedAll, Carbon!CreditsConserved
<1>2. ASSUME NEW a \in CreditAccounts
      PROVE  /\ \A i, j \in DOMAIN places[a] : i < j => places[a][i] < places[a][j]
             /\ {places[a][i] + 1 : i \in DOMAIN places[a]} =
                  {n \in DOMAIN receipts : Carbon!Beneficiary(receipts[n]) = a /\ receipts[n].entry # "batch"}
             /\ \A i \in DOMAIN Carbon!ByBeneficiary(a) : Carbon!Beneficiary(Carbon!ByBeneficiary(a)[i]) = a
  <2>1. DOMAIN receipts = 1..Len(receipts) /\ Tells(places, receipts, Len(receipts))
    BY DEF CarbonInv
  <2>2. \A i \in DOMAIN places[a] : places[a][i] + 1 \in DOMAIN receipts /\ Speaks(receipts[places[a][i] + 1], a)
    BY <2>1 DEF Tells
  <2>3. \A k \in DOMAIN receipts : Speaks(receipts[k], a) => \E i \in DOMAIN places[a] : places[a][i] + 1 = k
    BY <2>1 DEF Tells
  <2>4. \A i, j \in DOMAIN places[a] : i < j => places[a][i] < places[a][j]
    BY <2>1 DEF Tells
  <2>5. \A i \in DOMAIN Carbon!ByBeneficiary(a) : Carbon!Beneficiary(Carbon!ByBeneficiary(a)[i]) = a
    BY <2>2 DEF Carbon!ByBeneficiary, Speaks
  <2> QED
    BY <2>2, <2>3, <2>4, <2>5 DEF Speaks
<1>3. Carbon!IndexTells
  BY <1>2 DEF Carbon!IndexTells
<1> QED
  BY <1>1, <1>3 DEF Carbon!CreditsSound, CarbonInv, CreditLedger

\* Every credit minted is held or retired against a receipt, and an index lists
\* exactly the receipts that speak for its address, whatever is minted, moved,
\* retired by hand or in batches and filed by the admin (CreditsSound).
THEOREM CreditsHold == Carbon!Spec => []CreditsSound
<1>1. CarbonInv /\ [Carbon!Next]_(Carbon!carbonVars) => CarbonInv'
  BY CarbonKept DEF Carbon!carbonVars, creditVars
<1> QED
  BY <1>1, CarbonStart, CarbonInvGives, PTL DEF Carbon!Spec
----------------------------------------------------------------------------
(* Dividends *)

\* What a checkpoint tells, for n shares and at the amounts per share of now.
InStep(c, n, at) ==
    /\ c.shares = n
    /\ \A k \in Property!Books : c.at[k] <= at[k]
    /\ (at["rent"] - c.at["rent"]) + (at["capital"] - c.at["capital"]) <= at["total"] - c.at["total"]
    /\ c.owed["rent"] + c.owed["capital"] <= c.owed["total"]

\* What the shares of a holder have earned, before the last rounding.
Worth(c, l, n, at) ==
    IF c = NoCheckpoint THEN Left(l, n, at)
    ELSE c.owed["total"] * Scale + n * (at["total"] - c.at["total"])

\* Bridged, Loaded and Preview, of what they depend on.
BridgeOf(l, n, at) ==
    LET owed == [k \in Property!Books |-> l.owed[k] + Property!Beyond((n * at[k]) \div Scale, l.debt[k])]
    IN  [shares |-> n, at |-> at,
         owed |-> IF owed["rent"] + owed["capital"] <= owed["total"] THEN owed
                  ELSE [owed EXCEPT !["rent"] = 0, !["capital"] = 0]]

LoadOf(c, l, n, at) == IF c = NoCheckpoint THEN BridgeOf(l, n, at) ELSE c

ViewOf(c, l, n, at) ==
    LET d == LoadOf(c, l, n, at)
    IN  [d EXCEPT !.owed = [k \in Property!Books |-> d.owed[k] + (d.shares * Property!Beyond(at[k], d.at[k])) \div Scale],
                  !.at = at]

View(a) == ViewOf(checkpoint[a], legacy[a], shares[a], index)

LEMMA ViewIsPreview ==
  ASSUME NEW a
  PROVE  /\ View(a) = Property!Preview(a)
         /\ View(a)' = Property!Preview(a)'
         /\ Property!Pending(a) = View(a).owed["total"]
         /\ Property!Pending(a)' = View(a)'.owed["total"]
<1>1. View(a) = Property!Preview(a)
  BY DEF View, ViewOf, LoadOf, BridgeOf, Property!Preview, Property!Loaded, Property!Accrued, Property!Bridged
<1>2. View(a)' = Property!Preview(a)'
  BY DEF View, ViewOf, LoadOf, BridgeOf, Property!Preview, Property!Loaded, Property!Accrued, Property!Bridged
<1> QED
  BY <1>1, <1>2 DEF Property!Pending

\* Division by the scale rounds down, once for two amounts or for each.
LEMMA Floor ==
  ASSUME NEW x \in Nat
  PROVE  x \div Scale \in Nat /\ (x \div Scale) * Scale <= x
BY Estate

LEMMA FloorGrows ==
  ASSUME NEW x \in Nat, NEW y \in Nat, x <= y
  PROVE  x \div Scale <= y \div Scale
BY Estate

LEMMA FloorsAdd ==
  ASSUME NEW x \in Nat, NEW y \in Nat, NEW z \in Nat, x + y <= z
  PROVE  x \div Scale + y \div Scale <= z \div Scale
<1>1. x \div Scale + y \div Scale <= (x + y) \div Scale
  BY Estate
<1>2. (x + y) \div Scale <= z \div Scale
  BY FloorGrows
<1>3. x \div Scale \in Int /\ y \div Scale \in Int /\ z \div Scale \in Int /\ (x + y) \div Scale \in Int
  BY Floor
<1> QED
  BY <1>1, <1>2, <1>3

LEMMA FloorOfNothing == 0 \div Scale = 0
BY Estate

LEMMA Multiplies ==
  ASSUME NEW n \in Nat, NEW x \in Nat, NEW y \in Nat, x <= y
  PROVE  n * x \in Nat /\ n * y \in Nat /\ n * x <= n * y
OBVIOUS

\* An index in order beside the amounts of now: the parameters of the lemmas below.
Held(c, n, at) == c \in Checkpoints \cup {NoCheckpoint} /\ n \in Nat /\ at \in Indexes
                    /\ (c # NoCheckpoint => InStep(c, n, at))

LEMMA BridgeIs ==
  ASSUME NEW l \in Legacies, NEW n \in Nat, NEW at \in Indexes
  PROVE  LET d == BridgeOf(l, n, at)
         IN  /\ d \in Checkpoints /\ d.at = at /\ InStep(d, n, at)
             /\ d.owed["total"] = l.owed["total"] + Property!Beyond((n * at["total"]) \div Scale, l.debt["total"])
<1> DEFINE owed == [k \in Property!Books |-> l.owed[k] + Property!Beyond((n * at[k]) \div Scale, l.debt[k])]
           mine == IF owed["rent"] + owed["capital"] <= owed["total"] THEN owed
                   ELSE [owed EXCEPT !["rent"] = 0, !["capital"] = 0]
<1>1. Property!Books = {"rent", "capital", "total"}
  BY DEF Property!Books, Property!Typed
<1>2. l.owed \in Indexes /\ l.debt \in Indexes
  BY DEF Legacies
<1>3. ASSUME NEW k \in Property!Books PROVE owed[k] \in Nat
  <2>1. l.owed[k] \in Nat /\ l.debt[k] \in Nat /\ at[k] \in Nat
    BY <1>2 DEF Indexes
  <2>2. n * at[k] \in Nat
    BY <2>1, Multiplies
  <2>3. (n * at[k]) \div Scale \in Nat
    BY <2>2, Floor
  <2> DEFINE q == (n * at[k]) \div Scale
  <2> HIDE DEF q
  <2>4. Property!Beyond(q, l.debt[k]) \in Nat
    BY <2>1, <2>3 DEF Property!Beyond, q
  <2> QED
    BY <2>1, <2>4 DEF q
<1>4. owed \in Indexes
  BY <1>3 DEF Indexes
<1>5. owed["total"] = l.owed["total"] + Property!Beyond((n * at["total"]) \div Scale, l.debt["total"])
  BY <1>1
<1> HIDE DEF owed
<1>6. mine \in Indexes /\ mine["rent"] + mine["capital"] <= mine["total"] /\ mine["total"] = owed["total"]
  <2>1. owed["rent"] \in Nat /\ owed["capital"] \in Nat /\ owed["total"] \in Nat
    BY <1>1, <1>4 DEF Indexes
  <2>2. CASE owed["rent"] + owed["capital"] <= owed["total"]
    BY <1>4, <2>2
  <2>3. CASE ~(owed["rent"] + owed["capital"] <= owed["total"])
    <3>1. mine = [owed EXCEPT !["rent"] = 0, !["capital"] = 0]
      BY <2>3
    <3>2. mine \in Indexes
      BY <1>1, <1>4, <3>1 DEF Indexes
    <3>3. mine["rent"] = 0 /\ mine["capital"] = 0 /\ mine["total"] = owed["total"]
      BY <1>1, <1>4, <3>1 DEF Indexes
    <3> QED
      BY <2>1, <3>2, <3>3
  <2> QED
    BY <2>2, <2>3
<1>7. BridgeOf(l, n, at) = [shares |-> n, at |-> at, owed |-> mine]
  BY DEF BridgeOf, owed
<1> HIDE DEF mine
<1>8. \A k \in Property!Books : at[k] \in Nat
  BY DEF Indexes
<1>9. InStep([shares |-> n, at |-> at, owed |-> mine], n, at)
  BY <1>1, <1>6, <1>8 DEF InStep
<1> QED
  BY <1>5, <1>6, <1>7, <1>9 DEF Checkpoints

LEMMA LoadIs ==
  ASSUME NEW c, NEW l \in Legacies, NEW n, NEW at, Held(c, n, at)
  PROVE  LET d == LoadOf(c, l, n, at) IN d \in Checkpoints /\ InStep(d, n, at)
BY BridgeIs DEF LoadOf, Held

\* What is left of the older contract is not rounded up either.
LEMMA LeftCovers ==
  ASSUME NEW o \in Nat, NEW d \in Nat, NEW x \in Nat
  PROVE  /\ o * Scale + Property!Beyond(x, d * Scale) \in Nat
         /\ (o + Property!Beyond(x \div Scale, d)) * Scale <= o * Scale + Property!Beyond(x, d * Scale)
<1> DEFINE q == x \div Scale
<1>1. q \in Nat /\ q * Scale <= x /\ Scale \in Nat
  BY Floor, Estate
<1> HIDE DEF q
<1>2. o * Scale \in Nat /\ d * Scale \in Nat /\ q * Scale \in Nat
  BY <1>1
<1>3. CASE q > d
  <2>1. Property!Beyond(q, d) = q - d
    BY <1>3 DEF Property!Beyond
  <2>2. (o + (q - d)) * Scale = o * Scale + (q * Scale - d * Scale)
    BY <1>1
  <2>3. d * Scale <= q * Scale
    BY <1>1, <1>3
  <2> DEFINE ds == d * Scale
             qs == q * Scale
             os == o * Scale
  <2> HIDE DEF ds, qs, os
  <2>4. Property!Beyond(x, ds) >= qs - ds /\ Property!Beyond(x, ds) \in Nat
    BY <1>1, <1>2, <2>3 DEF ds, qs, Property!Beyond
  <2> QED
    BY <1>2, <2>1, <2>2, <2>4 DEF ds, qs, os, q
<1>4. CASE ~(q > d)
  <2>1. Property!Beyond(q, d) = 0
    BY <1>4 DEF Property!Beyond
  <2> DEFINE ds == d * Scale
  <2> HIDE DEF ds
  <2>2. Property!Beyond(x, ds) \in Nat
    BY <1>2 DEF ds, Property!Beyond
  <2> QED
    BY <1>2, <2>1, <2>2 DEF ds, q
<1> QED
  BY <1>3, <1>4

LEMMA ViewIs ==
  ASSUME NEW c, NEW l \in Legacies, NEW n, NEW at, Held(c, n, at)
  PROVE  LET v == ViewOf(c, l, n, at)
         IN  /\ v \in Checkpoints /\ v.at = at /\ InStep(v, n, at)
             /\ v.owed["total"] * Scale <= Worth(c, l, n, at)
             /\ Worth(c, l, n, at) \in Int
             /\ \A k \in Property!Books :
                  v.owed[k] = LoadOf(c, l, n, at).owed[k] + (n * (at[k] - LoadOf(c, l, n, at).at[k])) \div Scale
<1> DEFINE d == LoadOf(c, l, n, at)
           x(k) == n * (at[k] - d.at[k])
           owed == [k \in Property!Books |-> d.owed[k] + x(k) \div Scale]
           v == ViewOf(c, l, n, at)
<1>1. Property!Books = {"rent", "capital", "total"} /\ n \in Nat /\ at \in Indexes /\ Scale \in Nat \ {0}
  BY Estate DEF Property!Books, Property!Typed, Held
<1>2. d \in Checkpoints /\ InStep(d, n, at)
  BY LoadIs
<1>3. c = NoCheckpoint => d = BridgeOf(l, n, at)
  BY DEF LoadOf
<1>4. c # NoCheckpoint => d = c
  BY DEF LoadOf
<1>5. ViewOf(c, l, n, at) = [d EXCEPT !.owed = [k \in Property!Books |->
                               d.owed[k] + (d.shares * Property!Beyond(at[k], d.at[k])) \div Scale], !.at = at]
  BY DEF ViewOf
<1> HIDE DEF d
<1>6. d = [shares |-> n, at |-> d.at, owed |-> d.owed] /\ d.at \in Indexes /\ d.owed \in Indexes
  BY <1>2 DEF Checkpoints, InStep
<1>7. \A k \in Property!Books : at[k] \in Nat /\ d.at[k] \in Nat /\ d.at[k] <= at[k] /\ d.owed[k] \in Nat
  BY <1>1, <1>2, <1>6 DEF Indexes, InStep
<1>8. \A k \in Property!Books : Property!Beyond(at[k], d.at[k]) = at[k] - d.at[k]
  BY <1>7 DEF Property!Beyond
<1>9. v = [d EXCEPT !.owed = owed, !.at = at]
  <2>1. [k \in Property!Books |-> d.owed[k] + (d.shares * Property!Beyond(at[k], d.at[k])) \div Scale] = owed
    BY <1>6, <1>8
  <2> QED
    BY <1>5, <2>1
<1> HIDE DEF v
<1>10. \A k \in Property!Books : x(k) \in Nat
  <2>1. ASSUME NEW k \in Property!Books PROVE x(k) \in Nat
    <3>1. at[k] - d.at[k] \in Nat
      BY <1>7
    <3> QED
      BY <1>1, <3>1, Multiplies
  <2> QED
    BY <2>1
<1>11. x("rent") + x("capital") <= x("total")
  <2> DEFINE r == at["rent"] - d.at["rent"]
             p == at["capital"] - d.at["capital"]
             t == at["total"] - d.at["total"]
  <2>1. r \in Nat /\ p \in Nat /\ t \in Nat /\ r + p <= t
    BY <1>1, <1>2, <1>7 DEF InStep
  <2> HIDE DEF r, p, t
  <2>2. n * (r + p) = n * r + n * p /\ n * (r + p) <= n * t
    BY <1>1, <2>1
  <2> QED
    BY <2>2 DEF r, p, t
<1> HIDE DEF x
<1>12. \A k \in Property!Books : x(k) \div Scale \in Nat
  BY <1>10, Floor
<1>13. owed \in Indexes /\ \A k \in Property!Books : owed[k] = d.owed[k] + x(k) \div Scale
  BY <1>7, <1>12 DEF Indexes
<1> HIDE DEF owed
<1>14. owed["rent"] + owed["capital"] <= owed["total"]
  <2>1. x("rent") \div Scale + x("capital") \div Scale <= x("total") \div Scale
    BY <1>1, <1>10, <1>11, FloorsAdd
  <2>2. d.owed["rent"] + d.owed["capital"] <= d.owed["total"]
    BY <1>2 DEF InStep
  <2> QED
    BY <1>1, <1>7, <1>12, <1>13, <2>1, <2>2
<1>15. v \in Checkpoints /\ v.at = at /\ v.owed = owed /\ InStep(v, n, at)
  <2>1. v \in Checkpoints /\ v.shares = n /\ v.at = at /\ v.owed = owed
    <3>1. owed \in Indexes /\ at \in Indexes /\ d \in Checkpoints /\ d.shares = n
      BY <1>1, <1>2, <1>13 DEF InStep
    <3> QED
      BY <1>9, <3>1 DEF Checkpoints
  <2> QED
    BY <1>1, <1>7, <1>14, <2>1 DEF InStep
<1>16. owed["total"] * Scale <= Worth(c, l, n, at) /\ Worth(c, l, n, at) \in Int
  <2> DEFINE t == x("total") \div Scale
             o == d.owed["total"]
  <2>1. t \in Nat /\ t * Scale <= x("total") /\ o \in Nat /\ x("total") \in Nat
    BY <1>1, <1>7, <1>10, Floor
  <2>2. owed["total"] = o + t
    BY <1>1, <1>13
  <2> HIDE DEF t, o
  <2>3. CASE c = NoCheckpoint
    <3>1. d.at = at /\ o = l.owed["total"] + Property!Beyond((n * at["total"]) \div Scale, l.debt["total"])
      BY <1>1, <1>3, <2>3, BridgeIs DEF o
    <3>2. t = 0
      <4>1. at["total"] - d.at["total"] = 0
        BY <1>1, <1>7, <3>1
      <4>2. x("total") = 0
        BY <1>1, <4>1 DEF x
      <4> QED
        BY <4>2, FloorOfNothing DEF t
    <3>3. l.owed["total"] \in Nat /\ l.debt["total"] \in Nat /\ n * at["total"] \in Nat
      BY <1>1, <1>7, Multiplies DEF Legacies, Indexes
    <3>4. Worth(c, l, n, at) = l.owed["total"] * Scale + Property!Beyond(n * at["total"], l.debt["total"] * Scale)
      BY <2>3 DEF Worth, Left
    <3> DEFINE lo == l.owed["total"]
               ld == l.debt["total"]
               na == n * at["total"]
    <3>5. /\ lo * Scale + Property!Beyond(na, ld * Scale) \in Nat
          /\ (lo + Property!Beyond(na \div Scale, ld)) * Scale <= lo * Scale + Property!Beyond(na, ld * Scale)
      <4>1. lo \in Nat /\ ld \in Nat /\ na \in Nat
        BY <3>3
      <4> HIDE DEF lo, ld, na
      <4> QED
        BY <4>1, LeftCovers
    <3>6. owed["total"] = o
      BY <2>1, <2>2, <3>2
    <3> QED
      BY <3>1, <3>4, <3>5, <3>6
  <2>4. CASE c # NoCheckpoint
    <3>1. Worth(c, l, n, at) = o * Scale + x("total")
      BY <1>4, <2>4 DEF Worth, x, o
    <3>2. (o + t) * Scale = o * Scale + t * Scale /\ o * Scale \in Nat /\ t * Scale \in Nat
      BY <1>1, <2>1
    <3> QED
      BY <2>1, <2>2, <3>1, <3>2
  <2> QED
    BY <2>3, <2>4
<1> QED
  BY <1>13, <1>15, <1>16 DEF v, x, d

\* A checkpoint of now is what it says.
LEMMA ViewOfNow ==
  ASSUME NEW c \in Checkpoints, NEW l \in Legacies, NEW n \in Nat, NEW at \in Indexes, InStep(c, n, at), c.at = at
  PROVE  /\ Held(c, n, at)
         /\ ViewOf(c, l, n, at).owed = c.owed
         /\ Worth(c, l, n, at) = c.owed["total"] * Scale
<1>1. c # NoCheckpoint
  BY Estate
<1>2. Held(c, n, at)
  BY DEF Held
<1>3. LoadOf(c, l, n, at) = c
  BY <1>1 DEF LoadOf
<1> DEFINE v == ViewOf(c, l, n, at)
<1>4. v \in Checkpoints /\ \A k \in Property!Books : v.owed[k] = c.owed[k] + (n * (at[k] - at[k])) \div Scale
  BY <1>2, <1>3, ViewIs
<1> HIDE DEF v
<1>5. v.owed \in Indexes /\ c.owed \in Indexes
  BY <1>4 DEF Checkpoints
<1>6. \A k \in Property!Books : c.owed[k] \in Nat /\ (n * (at[k] - at[k])) \div Scale = 0
  <2>1. ASSUME NEW k \in Property!Books PROVE c.owed[k] \in Nat /\ (n * (at[k] - at[k])) \div Scale = 0
    <3>1. at[k] \in Nat /\ c.owed[k] \in Nat
      BY <1>5 DEF Indexes
    <3>2. n * (at[k] - at[k]) = 0
      BY <3>1
    <3> QED
      BY <3>1, <3>2, FloorOfNothing
  <2> QED
    BY <2>1
<1>7. \A k \in Property!Books : v.owed[k] = c.owed[k]
  BY <1>4, <1>6
<1>8. v.owed = c.owed
  BY <1>5, <1>7 DEF Indexes
<1>9. Worth(c, l, n, at) = c.owed["total"] * Scale
  <2>1. Worth(c, l, n, at) = c.owed["total"] * Scale + n * (at["total"] - at["total"])
    BY <1>1 DEF Worth
  <2>2. at["total"] \in Nat /\ c.owed["total"] \in Nat
    BY <1>5 DEF Indexes, Property!Books, Property!Typed
  <2>3. n * (at["total"] - at["total"]) = 0 /\ c.owed["total"] * Scale \in Int
    BY <2>2, Estate
  <2> QED
    BY <2>1, <2>3
<1> QED
  BY <1>2, <1>8, <1>9 DEF v

\* What a holder of old may claim.
OldClaim(l, n, at) ==
    l.owed["total"] + Property!Beyond((n * at["total"]) \div Scale, l.debt["total"])

\* What a holder may claim, from the total alone.
LEMMA Claimable ==
  ASSUME NEW c, NEW l \in Legacies, NEW n, NEW at, Held(c, n, at)
  PROVE  ViewOf(c, l, n, at).owed["total"] =
           (IF c = NoCheckpoint THEN OldClaim(l, n, at)
            ELSE c.owed["total"] + (n * (at["total"] - c.at["total"])) \div Scale)
<1> DEFINE v == ViewOf(c, l, n, at)
           d == LoadOf(c, l, n, at)
<1>1. "total" \in Property!Books /\ n \in Nat /\ at \in Indexes
  BY DEF Property!Books, Held
<1>2. v \in Checkpoints /\ v.owed["total"] = d.owed["total"] + (n * (at["total"] - d.at["total"])) \div Scale
  BY <1>1, ViewIs
<1>3. v.owed["total"] \in Nat
  BY <1>1, <1>2 DEF Checkpoints, Indexes
<1>4. CASE c = NoCheckpoint
  <2>1. d = BridgeOf(l, n, at)
    BY <1>4 DEF LoadOf
  <2>2. d.at = at /\ d.owed["total"] = l.owed["total"] + Property!Beyond((n * at["total"]) \div Scale, l.debt["total"])
        /\ d \in Checkpoints
    BY <1>1, <2>1, BridgeIs
  <2> HIDE DEF d, v
  <2>3. at["total"] \in Nat /\ d.owed["total"] \in Nat
    BY <1>1, <2>2 DEF Checkpoints, Indexes
  <2>4. (n * (at["total"] - d.at["total"])) \div Scale = 0
    <3>1. n * (at["total"] - d.at["total"]) = 0
      BY <1>1, <2>2, <2>3
    <3> QED
      BY <3>1, FloorOfNothing
  <2> QED
    BY <1>2, <1>3, <1>4, <2>2, <2>3, <2>4 DEF v, OldClaim
<1>5. CASE c # NoCheckpoint
  BY <1>2, <1>3, <1>5 DEF LoadOf
<1> QED
  BY <1>4, <1>5

\* The amounts per share after a deposit.
Raised(at, kind, p) == [k \in Property!Books |-> at[k] + (IF k \in {"total", kind} THEN p ELSE 0)]

\* A deposit adds to what holders may claim, by no more than it adds for their shares.
LEMMA ViewGrows ==
  ASSUME NEW c, NEW l \in Legacies, NEW n, NEW at, Held(c, n, at), NEW p \in Nat, NEW kind \in Property!Kinds
  PROVE  LET more == Raised(at, kind, p)
         IN  /\ more \in Indexes /\ Held(c, n, more)
             /\ ViewOf(c, l, n, at).owed["total"] <= ViewOf(c, l, n, more).owed["total"]
             /\ Worth(c, l, n, more) <= Worth(c, l, n, at) + p * n
<1> DEFINE more == Raised(at, kind, p)
<1>1. /\ Property!Books = {"rent", "capital", "total"} /\ n \in Nat /\ at \in Indexes /\ Scale \in Nat \ {0}
      /\ kind \in {"rent", "capital", "other"}
  BY Estate DEF Property!Books, Property!Typed, Property!Kinds, Held
<1>2. \A k \in Property!Books : at[k] \in Nat
  BY <1>1 DEF Indexes
<1>3. more \in Indexes
  BY <1>1, <1>2 DEF Indexes, Raised
<1>4. /\ more["total"] = at["total"] + p
      /\ more["rent"] = at["rent"] + (IF kind = "rent" THEN p ELSE 0)
      /\ more["capital"] = at["capital"] + (IF kind = "capital" THEN p ELSE 0)
  BY <1>1 DEF Raised
<1>5. \A k \in Property!Books : at[k] <= more[k]
  BY <1>1, <1>2, <1>4
<1> HIDE DEF more
<1>6. Held(c, n, more)
  <2>1. ASSUME c # NoCheckpoint PROVE InStep(c, n, more)
    <3>1. InStep(c, n, at) /\ c \in Checkpoints
      BY <2>1 DEF Held
    <3>2. \A k \in Property!Books : c.at[k] \in Nat /\ more[k] \in Nat /\ c.at[k] <= at[k]
      BY <1>3, <3>1 DEF Checkpoints, Indexes, InStep
    <3>3. \A k \in Property!Books : c.at[k] <= more[k]
      BY <1>2, <1>5, <3>2
    <3>4. (more["rent"] - c.at["rent"]) + (more["capital"] - c.at["capital"]) <= more["total"] - c.at["total"]
      BY <1>1, <1>2, <1>4, <3>1, <3>2 DEF InStep
    <3> QED
      BY <3>1, <3>3, <3>4 DEF InStep
  <2> QED
    BY <1>1, <1>3, <2>1 DEF Held
<1> DEFINE u == at["total"]
           w == more["total"]
<1>7. u \in Nat /\ w \in Nat /\ w = u + p
  BY <1>1, <1>2, <1>4
<1> HIDE DEF u, w
<1>8. n * u \in Nat /\ n * w \in Nat /\ n * u <= n * w /\ n * w = n * u + p * n /\ p * n \in Nat
  BY <1>1, <1>7
<1>9. CASE c = NoCheckpoint
  <2> DEFINE o == l.owed["total"]
             b == l.debt["total"]
  <2>1. o \in Nat /\ b \in Nat
    BY <1>1 DEF Legacies, Indexes
  <2>2. /\ ViewOf(c, l, n, at).owed["total"] = o + Property!Beyond((n * u) \div Scale, b)
        /\ ViewOf(c, l, n, more).owed["total"] = o + Property!Beyond((n * w) \div Scale, b)
    <3>1. ViewOf(c, l, n, at).owed["total"] = OldClaim(l, n, at)
      BY <1>9, Claimable
    <3>2. ViewOf(c, l, n, more).owed["total"] = OldClaim(l, n, more)
      BY <1>6, <1>9, Claimable
    <3> QED
      BY <3>1, <3>2 DEF OldClaim, u, w
  <2>3. /\ Worth(c, l, n, at) = o * Scale + Property!Beyond(n * u, b * Scale)
        /\ Worth(c, l, n, more) = o * Scale + Property!Beyond(n * w, b * Scale)
    BY <1>9 DEF Worth, Left, u, w
  <2> HIDE DEF o, b
  <2>4. (n * u) \div Scale <= (n * w) \div Scale /\ (n * u) \div Scale \in Nat /\ (n * w) \div Scale \in Nat
    BY <1>8, FloorGrows, Floor
  <2> DEFINE qu == (n * u) \div Scale
             qw == (n * w) \div Scale
             nu == n * u
             nw == n * w
             bs == b * Scale
             os == o * Scale
             pn == p * n
  <2>5. bs \in Nat /\ os \in Nat
    BY <1>1, <2>1
  <2> HIDE DEF qu, qw, nu, nw, bs, os, pn
  <2>6. Property!Beyond(qu, b) <= Property!Beyond(qw, b)
    BY <2>1, <2>4 DEF qu, qw, Property!Beyond
  <2>7. Property!Beyond(qu, b) \in Nat /\ Property!Beyond(qw, b) \in Nat
    BY <2>1, <2>4 DEF qu, qw, Property!Beyond
  <2>8. Property!Beyond(nw, bs) <= Property!Beyond(nu, bs) + pn /\ Property!Beyond(nw, bs) \in Nat
        /\ Property!Beyond(nu, bs) \in Nat /\ pn \in Nat
    BY <1>8, <2>5 DEF nu, nw, pn, Property!Beyond
  <2>9. ViewOf(c, l, n, at).owed["total"] <= ViewOf(c, l, n, more).owed["total"]
    BY <2>1, <2>2, <2>6, <2>7 DEF qu, qw
  <2>10. Worth(c, l, n, more) <= Worth(c, l, n, at) + p * n
    BY <2>3, <2>5, <2>8 DEF nu, nw, bs, os, pn
  <2> QED
    BY <1>3, <1>6, <2>9, <2>10 DEF more
<1>10. CASE c # NoCheckpoint
  <2> DEFINE o == c.owed["total"]
             b == c.at["total"]
  <2>1. o \in Nat /\ b \in Nat /\ b <= u
    BY <1>1, <1>10 DEF Held, Checkpoints, Indexes, InStep, u
  <2>2. /\ ViewOf(c, l, n, at).owed["total"] = o + (n * (u - b)) \div Scale
        /\ ViewOf(c, l, n, more).owed["total"] = o + (n * (w - b)) \div Scale
    BY <1>6, <1>10, Claimable DEF u, w
  <2>3. /\ Worth(c, l, n, at) = o * Scale + n * (u - b)
        /\ Worth(c, l, n, more) = o * Scale + n * (w - b)
    BY <1>10 DEF Worth, u, w
  <2> HIDE DEF o, b
  <2>4. u - b \in Nat /\ w - b \in Nat /\ u - b <= w - b
    BY <1>7, <2>1
  <2>5. n * (u - b) \in Nat /\ n * (w - b) \in Nat /\ n * (u - b) <= n * (w - b)
    BY <1>1, <2>4, Multiplies
  <2>6. n * (w - b) = n * (u - b) + p * n
    BY <1>1, <1>7, <2>1
  <2>7. (n * (u - b)) \div Scale <= (n * (w - b)) \div Scale /\ (n * (u - b)) \div Scale \in Nat
        /\ (n * (w - b)) \div Scale \in Nat
    BY <2>5, FloorGrows, Floor
  <2>8. ViewOf(c, l, n, at).owed["total"] <= ViewOf(c, l, n, more).owed["total"]
    BY <2>1, <2>2, <2>7
  <2>9. o * Scale \in Nat
    BY <1>1, <2>1
  <2>10. Worth(c, l, n, more) <= Worth(c, l, n, at) + p * n
    BY <1>8, <2>3, <2>5, <2>6, <2>9
  <2> QED
    BY <1>3, <1>6, <2>8, <2>10 DEF more
<1> QED
  BY <1>9, <1>10 DEF more

Worths == [a \in ShareAccounts |-> Worth(checkpoint[a], legacy[a], shares[a], index)]

MoneyTypes ==
    /\ shares \in [ShareAccounts -> Nat] /\ index \in Indexes
    /\ legacy \in [ShareAccounts -> Legacies]
    /\ checkpoint \in [ShareAccounts -> Checkpoints \cup {NoCheckpoint}]
    /\ authorized \in Int /\ claimed \in Int /\ paidIn \in Int /\ deposits \in Int

Solvent == claimed * Scale + SumFunction(Worths) <= paidIn * Scale

MoneyInv ==
    /\ MoneyTypes
    /\ Property!SharesAddUp
    /\ \A a \in ShareAccounts : Held(checkpoint[a], shares[a], index)
    /\ Solvent

moneyVars == <<shares, index, legacy, checkpoint, authorized, issued, claimed, paidIn, deposits>>

PendingKept == \A a \in ShareAccounts : Property!Pending(a)' = Property!Pending(a)

LEMMA ShareSums == ASSUME NEW f PROVE Property!SumFunction(f) = SumFunction(f)
BY DEF Property!SumFunction, Property!SumFunctionOnSet, Property!FoldFunctionOnSet, Property!MapThenFoldSet,
       SumFunction, SumFunctionOnSet, FoldFunctionOnSet, MapThenFoldSet

LEMMA HolderIs ==
  ASSUME MoneyInv, NEW a \in ShareAccounts
  PROVE  /\ checkpoint[a] \in Checkpoints \cup {NoCheckpoint} /\ legacy[a] \in Legacies /\ shares[a] \in Nat
         /\ index \in Indexes /\ Held(checkpoint[a], shares[a], index)
         /\ View(a) \in Checkpoints /\ InStep(View(a), shares[a], index) /\ View(a).at = index
         /\ View(a).owed["total"] * Scale <= Worths[a] /\ Worths[a] \in Int
         /\ View(a).owed["total"] \in Nat
         /\ Property!Pending(a) = View(a).owed["total"] /\ Property!Preview(a) = View(a)
<1>1. /\ checkpoint[a] \in Checkpoints \cup {NoCheckpoint} /\ legacy[a] \in Legacies /\ shares[a] \in Nat
      /\ index \in Indexes /\ Held(checkpoint[a], shares[a], index)
  BY DEF MoneyInv, MoneyTypes
<1>2. /\ View(a) \in Checkpoints /\ InStep(View(a), shares[a], index) /\ View(a).at = index
      /\ View(a).owed["total"] * Scale <= Worths[a] /\ Worths[a] \in Int
  <2> DEFINE c == checkpoint[a]
             l == legacy[a]
             n == shares[a]
  <2>1. View(a) = ViewOf(c, l, n, index) /\ Worths[a] = Worth(c, l, n, index)
    BY DEF View, Worths
  <2>2. l \in Legacies /\ Held(c, n, index)
    BY <1>1
  <2> HIDE DEF c, l, n
  <2>3. /\ ViewOf(c, l, n, index) \in Checkpoints /\ InStep(ViewOf(c, l, n, index), n, index)
        /\ ViewOf(c, l, n, index).at = index
        /\ ViewOf(c, l, n, index).owed["total"] * Scale <= Worth(c, l, n, index) /\ Worth(c, l, n, index) \in Int
    BY <2>2, ViewIs
  <2> QED
    BY <2>1, <2>3 DEF n
<1>3. View(a).owed["total"] \in Nat
  BY <1>2 DEF Checkpoints, Indexes, Property!Books
<1> QED
  BY <1>1, <1>2, <1>3, ViewIsPreview

LEMMA WorthsTyped == MoneyInv => Worths \in [ShareAccounts -> Int] /\ SumFunction(Worths) \in Int
<1> SUFFICES ASSUME MoneyInv PROVE Worths \in [ShareAccounts -> Int] /\ SumFunction(Worths) \in Int
  OBVIOUS
<1>1. \A a \in ShareAccounts : Worths[a] \in Int
  BY HolderIs
<1>2. Worths \in [ShareAccounts -> Int]
  BY <1>1 DEF Worths
<1> QED
  BY <1>2, Estate, SumOfFunction

LEMMA MoneyQuiet ==
  ASSUME MoneyInv, UNCHANGED moneyVars
  PROVE  MoneyInv' /\ PendingKept
<1>1. MoneyInv'
  BY DEF MoneyInv, MoneyTypes, Property!SharesAddUp, Solvent, Worths, moneyVars
<1>2. \A a : View(a)' = View(a)
  BY DEF View, moneyVars
<1> QED
  BY <1>1, <1>2, ViewIsPreview DEF PendingKept

\* A checkpoint made now leaves a holder's claim as it is, less what was paid.
LEMMA CheckpointMade ==
  ASSUME MoneyInv, NEW a \in ShareAccounts, NEW c \in Checkpoints, c.at = index, InStep(c, shares'[a], index),
         shares'[a] \in Nat, checkpoint'[a] = c, UNCHANGED <<index, legacy>>
  PROVE  /\ Held(checkpoint[a], shares[a], index)'
         /\ Property!Pending(a)' = c.owed["total"]
         /\ Worths'[a] = c.owed["total"] * Scale
<1>1. legacy[a] \in Legacies /\ index \in Indexes
  BY HolderIs
<1>2. /\ Held(c, shares'[a], index)
      /\ ViewOf(c, legacy[a], shares'[a], index).owed = c.owed
      /\ Worth(c, legacy[a], shares'[a], index) = c.owed["total"] * Scale
  BY <1>1, ViewOfNow
<1>3. View(a)' = ViewOf(c, legacy[a], shares'[a], index)
  BY DEF View
<1>4. Worths'[a] = Worth(c, legacy[a], shares'[a], index)
  BY DEF Worths
<1>5. Property!Pending(a)' = View(a)'.owed["total"]
  BY ViewIsPreview
<1> QED
  BY <1>2, <1>3, <1>4, <1>5

LEMMA HolderKept ==
  ASSUME MoneyInv, NEW a \in ShareAccounts, checkpoint'[a] = checkpoint[a], shares'[a] = shares[a],
         UNCHANGED <<index, legacy>>
  PROVE  Held(checkpoint[a], shares[a], index)' /\ Property!Pending(a)' = Property!Pending(a) /\ Worths'[a] = Worths[a]
<1>1. Held(checkpoint[a], shares[a], index)'
  BY DEF MoneyInv
<1>2. View(a)' = View(a)
  BY DEF View
<1>3. Worths'[a] = Worths[a]
  BY DEF Worths
<1> QED
  BY <1>1, <1>2, <1>3, ViewIsPreview

LEMMA TouchStep ==
  ASSUME MoneyInv, NEW A \in SUBSET ShareAccounts, shares' \in [ShareAccounts -> Nat],
         \A a \in ShareAccounts \ A : shares'[a] = shares[a],
         Property!Touch(A, shares'), UNCHANGED <<index, legacy, claimed, paidIn, deposits>>,
         authorized' \in Int, Property!SharesAddUp'
  PROVE  MoneyInv' /\ PendingKept
<1>1. checkpoint' = [a \in ShareAccounts |-> IF a \in A THEN [View(a) EXCEPT !.shares = shares'[a]] ELSE checkpoint[a]]
  BY ViewIsPreview DEF Property!Touch
<1>2. ASSUME NEW a \in A
      PROVE  /\ checkpoint'[a] \in Checkpoints /\ Held(checkpoint[a], shares[a], index)'
             /\ Property!Pending(a)' = Property!Pending(a)
             /\ Worths'[a] \in Int /\ Worths'[a] <= Worths[a]
  <2> DEFINE v == View(a)
             c == [v EXCEPT !.shares = shares'[a]]
  <2>1. v \in Checkpoints /\ InStep(v, shares[a], index) /\ v.at = index
    BY HolderIs
  <2>2. shares'[a] \in Nat
    OBVIOUS
  <2> HIDE DEF v
  <2>3. c \in Checkpoints /\ c.shares = shares'[a] /\ c.at = v.at /\ c.owed = v.owed
    BY <2>1, <2>2 DEF Checkpoints
  <2>4. checkpoint'[a] = c
    BY <1>1 DEF v
  <2> HIDE DEF c
  <2>5. InStep(c, shares'[a], index)
    BY <2>1, <2>3 DEF InStep
  <2>6. /\ Held(checkpoint[a], shares[a], index)'
        /\ Property!Pending(a)' = c.owed["total"]
        /\ Worths'[a] = c.owed["total"] * Scale
    BY <2>1, <2>2, <2>3, <2>4, <2>5, CheckpointMade
  <2>7. /\ v.owed["total"] * Scale <= Worths[a] /\ v.owed["total"] \in Nat
        /\ Property!Pending(a) = v.owed["total"]
    BY HolderIs DEF v
  <2>8. v.owed["total"] * Scale \in Int
    BY <2>7, Estate
  <2> QED
    BY <2>3, <2>4, <2>6, <2>7, <2>8
<1>3. ASSUME NEW a \in ShareAccounts \ A
      PROVE  /\ checkpoint'[a] \in Checkpoints \cup {NoCheckpoint} /\ Held(checkpoint[a], shares[a], index)'
             /\ Property!Pending(a)' = Property!Pending(a)
             /\ Worths'[a] \in Int /\ Worths'[a] <= Worths[a]
  <2>1. checkpoint'[a] = checkpoint[a] /\ shares'[a] = shares[a]
    BY <1>1
  <2>2. Worths[a] \in Int /\ checkpoint[a] \in Checkpoints \cup {NoCheckpoint}
    BY HolderIs
  <2>3. Held(checkpoint[a], shares[a], index)' /\ Property!Pending(a)' = Property!Pending(a) /\ Worths'[a] = Worths[a]
    BY <2>1, HolderKept
  <2> QED
    BY <2>1, <2>2, <2>3
<1>4. MoneyTypes'
  BY <1>1, <1>2, <1>3 DEF MoneyInv, MoneyTypes
<1>5. Solvent'
  <2>1. Worths \in [ShareAccounts -> Int] /\ SumFunction(Worths) \in Int
    BY WorthsTyped
  <2>2. Worths' \in [ShareAccounts -> Int]
    BY <1>2, <1>3 DEF Worths
  <2>3. \A a \in ShareAccounts : Worths'[a] <= Worths[a]
    BY <1>2, <1>3
  <2>4. SumFunction(Worths') <= SumFunction(Worths)
    BY <2>1, <2>2, <2>3, Estate, SumsGrow
  <2>5. SumFunction(Worths') \in Int
    BY <2>2, Estate, SumOfFunction
  <2>6. claimed * Scale + SumFunction(Worths) <= paidIn * Scale /\ claimed \in Int /\ paidIn \in Int /\ Scale \in Nat
    BY Estate DEF MoneyInv, MoneyTypes, Solvent
  <2> DEFINE cs == claimed * Scale
             ps == paidIn * Scale
  <2>7. cs \in Int /\ ps \in Int
    BY <2>6
  <2>8. claimed' * Scale = cs /\ paidIn' * Scale = ps
    OBVIOUS
  <2> HIDE DEF cs, ps
  <2>9. cs + SumFunction(Worths) <= ps
    BY <2>6 DEF cs, ps
  <2>10. cs + SumFunction(Worths') <= ps
    BY <2>1, <2>4, <2>5, <2>7, <2>9
  <2> QED
    BY <2>8, <2>10 DEF Solvent
<1>6. PendingKept
  BY <1>2, <1>3 DEF PendingKept
<1> QED
  BY <1>2, <1>3, <1>4, <1>5, <1>6 DEF MoneyInv

LEMMA SharesAre ==
  MoneyInv => /\ shares \in [ShareAccounts -> Nat] /\ authorized \in Int /\ issued \in Int
              /\ issued = SumFunction(shares) /\ issued <= authorized
<1> SUFFICES ASSUME MoneyInv
             PROVE  /\ shares \in [ShareAccounts -> Nat] /\ authorized \in Int /\ issued \in Int
                    /\ issued = SumFunction(shares) /\ issued <= authorized
  OBVIOUS
<1>1. shares \in [ShareAccounts -> Nat] /\ authorized \in Int /\ issued = SumFunction(shares) /\ issued <= authorized
  BY ShareSums DEF MoneyInv, MoneyTypes, Property!SharesAddUp
<1>2. SumFunction(shares) \in Nat
  BY <1>1, Estate, SumOfNaturals
<1> QED
  BY <1>1, <1>2

LEMMA ShareMintStep ==
  ASSUME MoneyInv, NEW to \in ShareAccounts, NEW n \in Nat, Property!Mint(to, n)
  PROVE  MoneyInv' /\ PendingKept
<1>1. /\ shares \in [ShareAccounts -> Nat] /\ authorized \in Int /\ issued \in Int
      /\ issued = SumFunction(shares)
  BY SharesAre
<1>2. /\ shares' = [shares EXCEPT ![to] = @ + n] /\ issued' = issued + n /\ issued + n <= authorized
      /\ Property!Touch({to}, shares') /\ UNCHANGED <<authorized, index, legacy, claimed, paidIn, deposits>>
  BY DEF Property!Mint, Property!dividendVars
<1>3. shares' \in [ShareAccounts -> Nat] /\ shares'[to] = shares[to] + n /\ shares[to] \in Nat
  BY <1>1, <1>2
<1>4. \A a \in ShareAccounts \ {to} : shares'[a] = shares[a]
  BY <1>1, <1>2
<1>5. SumFunction(shares') = SumFunction(shares) + (shares'[to] - shares[to])
  BY <1>1, <1>3, <1>4, Estate, SumOfChange
<1>6. Property!SharesAddUp'
  BY <1>1, <1>2, <1>3, <1>5, ShareSums DEF Property!SharesAddUp
<1> QED
  BY <1>1, <1>2, <1>3, <1>4, <1>6, TouchStep

LEMMA BuybackStep ==
  ASSUME MoneyInv, NEW from \in ShareAccounts, NEW n \in Nat, Property!Buyback(from, n)
  PROVE  MoneyInv' /\ PendingKept
<1>1. /\ shares \in [ShareAccounts -> Nat] /\ authorized \in Int /\ issued \in Int
      /\ issued = SumFunction(shares) /\ issued <= authorized
  BY SharesAre
<1>2. /\ shares' = [shares EXCEPT ![from] = @ - n] /\ issued' = issued - n /\ authorized' = authorized - n
      /\ shares[from] >= n
      /\ Property!Touch({from}, shares') /\ UNCHANGED <<index, legacy, claimed, paidIn, deposits>>
  BY DEF Property!Buyback, Property!dividendVars
<1>3. shares' \in [ShareAccounts -> Nat] /\ shares'[from] = shares[from] - n /\ shares[from] \in Nat
  BY <1>1, <1>2
<1>4. \A a \in ShareAccounts \ {from} : shares'[a] = shares[a]
  BY <1>1, <1>2
<1>5. SumFunction(shares') = SumFunction(shares) + (shares'[from] - shares[from])
  BY <1>1, <1>3, <1>4, Estate, SumOfChange
<1>6. Property!SharesAddUp' /\ authorized' \in Int
  BY <1>1, <1>2, <1>3, <1>5, ShareSums DEF Property!SharesAddUp
<1> QED
  BY <1>2, <1>3, <1>4, <1>6, TouchStep

LEMMA ShareMoveStep ==
  ASSUME MoneyInv, NEW from \in ShareAccounts, NEW to \in ShareAccounts, NEW n \in Nat, Property!Move(from, to, n)
  PROVE  MoneyInv' /\ PendingKept
<1> DEFINE net == [shares EXCEPT ![from] = @ - n]
<1>1. /\ shares \in [ShareAccounts -> Nat] /\ authorized \in Int /\ issued \in Int
      /\ issued = SumFunction(shares) /\ issued <= authorized
  BY SharesAre
<1>2. /\ shares' = [net EXCEPT ![to] = @ + n] /\ shares[from] >= n
      /\ Property!Touch({from, to}, shares')
      /\ UNCHANGED <<authorized, issued, index, legacy, claimed, paidIn, deposits>>
  BY DEF Property!Move, Property!dividendVars
<1>3. net \in [ShareAccounts -> Nat] /\ net[from] = shares[from] - n /\ shares[from] \in Nat
  BY <1>1, <1>2
<1>4. \A a \in ShareAccounts \ {from} : net[a] = shares[a]
  BY <1>1
<1> HIDE DEF net
<1>5. SumFunction(net) = SumFunction(shares) + (net[from] - shares[from])
  BY <1>1, <1>3, <1>4, Estate, SumOfChange
<1>6. shares' \in [ShareAccounts -> Nat] /\ shares'[to] = net[to] + n /\ net[to] \in Nat
  BY <1>2, <1>3
<1>7. \A a \in ShareAccounts \ {to} : shares'[a] = net[a]
  BY <1>2, <1>3
<1>8. SumFunction(shares') = SumFunction(net) + (shares'[to] - net[to])
  <2>1. net \in [ShareAccounts -> Int] /\ shares' \in [ShareAccounts -> Int]
    BY <1>3, <1>6
  <2> QED
    BY <1>7, <2>1, Estate, SumOfChange
<1>9. Property!SharesAddUp'
  BY <1>1, <1>2, <1>3, <1>5, <1>6, <1>8, ShareSums DEF Property!SharesAddUp
<1>10. \A a \in ShareAccounts \ {from, to} : shares'[a] = shares[a]
  BY <1>4, <1>7
<1> QED
  BY <1>1, <1>2, <1>6, <1>9, <1>10, TouchStep

\* A payment: what is left of the claim, and what was paid, are what it was.
LEMMA PayStep ==
  ASSUME MoneyInv, NEW a \in ShareAccounts, NEW owed \in Indexes, NEW amount \in Nat,
         owed["rent"] + owed["capital"] <= owed["total"],
         owed["total"] + amount = Property!Pending(a),
         Property!PayOut(a, owed, amount)
  PROVE  /\ MoneyInv' /\ claimed' = claimed + amount /\ deposits' = deposits
         /\ Property!Pending(a) - Property!Pending(a)' = amount
         /\ \A b \in ShareAccounts \ {a} : Property!Pending(b)' = Property!Pending(b)
<1> DEFINE v == View(a)
           c == [v EXCEPT !.owed = owed]
<1>1. /\ checkpoint' = [checkpoint EXCEPT ![a] = c] /\ claimed' = claimed + amount
      /\ UNCHANGED <<shares, index, legacy, authorized, issued, paidIn, deposits>>
  BY HolderIs DEF Property!PayOut
<1>2. /\ v \in Checkpoints /\ InStep(v, shares[a], index) /\ v.at = index /\ Property!Pending(a) = v.owed["total"]
      /\ v.owed["total"] * Scale <= Worths[a] /\ v.owed["total"] \in Nat /\ Worths[a] \in Int
  BY HolderIs
<1>3. checkpoint \in [ShareAccounts -> Checkpoints \cup {NoCheckpoint}] /\ shares[a] \in Nat
  BY DEF MoneyInv, MoneyTypes
<1> HIDE DEF v
<1>4. c \in Checkpoints /\ c.shares = v.shares /\ c.at = v.at /\ c.owed = owed
  BY <1>2 DEF Checkpoints
<1> HIDE DEF c
<1>5. checkpoint' \in [ShareAccounts -> Checkpoints \cup {NoCheckpoint}] /\ checkpoint'[a] = c
  BY <1>1, <1>3, <1>4
<1>6. \A b \in ShareAccounts \ {a} : checkpoint'[b] = checkpoint[b]
  BY <1>1, <1>3
<1>7. InStep(c, shares'[a], index)
  BY <1>1, <1>2, <1>4 DEF InStep
<1>8. /\ Held(checkpoint[a], shares[a], index)'
      /\ Property!Pending(a)' = owed["total"]
      /\ Worths'[a] = owed["total"] * Scale
  BY <1>1, <1>2, <1>3, <1>4, <1>5, <1>7, CheckpointMade
<1>9. ASSUME NEW b \in ShareAccounts \ {a}
      PROVE  Held(checkpoint[b], shares[b], index)' /\ Property!Pending(b)' = Property!Pending(b) /\ Worths'[b] = Worths[b]
  BY <1>1, <1>6, HolderKept
<1>10. owed["total"] \in Nat
  BY DEF Indexes, Property!Books
<1>11. Solvent'
  <2> DEFINE w == [Worths EXCEPT ![a] = @ - amount * Scale]
             paid == amount * Scale
  <2>1. Worths \in [ShareAccounts -> Int] /\ SumFunction(Worths) \in Int
    BY WorthsTyped
  <2>2. paid \in Nat
    BY Estate
  <2> HIDE DEF paid
  <2>3. w \in [ShareAccounts -> Int] /\ w[a] = Worths[a] - paid
    BY <2>1, <2>2 DEF paid
  <2>4. \A b \in ShareAccounts \ {a} : w[b] = Worths[b]
    BY <2>1
  <2> HIDE DEF w
  <2>5. SumFunction(w) = SumFunction(Worths) + (w[a] - Worths[a])
    BY <2>1, <2>3, <2>4, Estate, SumOfChange
  <2>6. Worths'[a] \in Int /\ Worths'[a] <= w[a]
    <3> DEFINE o == owed["total"]
    <3> HIDE DEF o
    <3>1. o \in Nat /\ v.owed["total"] = o + amount /\ Scale \in Nat
      BY <1>2, <1>10, Estate DEF o
    <3>2. (o + amount) * Scale = o * Scale + paid /\ o * Scale \in Nat
      BY <3>1 DEF paid
    <3> QED
      BY <1>2, <1>8, <2>2, <2>3, <3>1, <3>2 DEF o
  <2>7. Worths' \in [ShareAccounts -> Int] /\ \A b \in ShareAccounts : Worths'[b] <= w[b]
    <3>1. \A b \in ShareAccounts : Worths'[b] \in Int /\ Worths'[b] <= w[b]
      BY <1>9, <2>1, <2>4, <2>6
    <3> QED
      BY <3>1 DEF Worths
  <2>8. SumFunction(Worths') <= SumFunction(w) /\ SumFunction(Worths') \in Int
    BY <2>3, <2>7, Estate, SumsGrow, SumOfFunction
  <2>9. claimed * Scale + SumFunction(Worths) <= paidIn * Scale /\ claimed \in Int /\ paidIn \in Int /\ Scale \in Nat
    BY Estate DEF MoneyInv, MoneyTypes, Solvent
  <2> DEFINE cs == claimed * Scale
             ps == paidIn * Scale
  <2>10. cs \in Int /\ ps \in Int /\ (claimed + amount) * Scale = cs + paid
    BY <2>9 DEF paid
  <2>11. claimed' * Scale = cs + paid /\ paidIn' * Scale = ps
    BY <1>1, <2>10
  <2> HIDE DEF cs, ps
  <2>12. cs + SumFunction(Worths) <= ps
    BY <2>9 DEF cs, ps
  <2>13. (cs + paid) + SumFunction(Worths') <= ps
    BY <1>2, <2>1, <2>2, <2>3, <2>5, <2>8, <2>10, <2>12
  <2> QED
    BY <2>11, <2>13 DEF Solvent
<1>12. MoneyTypes'
  BY <1>1, <1>5 DEF MoneyInv, MoneyTypes
<1>13. Property!SharesAddUp'
  BY <1>1 DEF MoneyInv, Property!SharesAddUp
<1>14. MoneyInv'
  BY <1>8, <1>9, <1>11, <1>12, <1>13 DEF MoneyInv
<1>15. Property!Pending(a) - Property!Pending(a)' = amount
  BY <1>8, <1>10
<1> QED
  BY <1>1, <1>9, <1>14, <1>15

LEMMA DepositStep ==
  ASSUME MoneyInv, NEW amount \in Nat, NEW kind \in Property!Kinds, Property!DepositDividend(amount, kind)
  PROVE  MoneyInv' /\ deposits' # deposits /\ \A a \in ShareAccounts : Property!Pending(a)' >= Property!Pending(a)
<1> DEFINE p == (amount * Scale) \div authorized
<1>1. /\ shares \in [ShareAccounts -> Nat] /\ authorized \in Int /\ issued \in Int
      /\ issued = SumFunction(shares) /\ issued <= authorized /\ authorized > 0
  BY SharesAre DEF Property!DepositDividend
<1>2. /\ index' = Raised(index, kind, p) /\ deposits' = deposits + 1 /\ paidIn' = paidIn + amount
      /\ UNCHANGED <<claimed, shares, authorized, issued, checkpoint, legacy>>
  BY DEF Property!DepositDividend, Raised
<1>3. p \in Nat /\ p * authorized <= amount * Scale
  <2>1. amount * Scale \in Nat
    BY Estate
  <2> DEFINE m == amount * Scale
  <2> HIDE DEF m
  <2>2. m \div authorized \in Nat /\ (m \div authorized) * authorized <= m
    BY <1>1, <2>1 DEF m
  <2> QED
    BY <2>2 DEF m
<1> HIDE DEF p
<1>4. ASSUME NEW a \in ShareAccounts
      PROVE  /\ index' \in Indexes /\ Held(checkpoint[a], shares[a], index)'
             /\ Property!Pending(a)' >= Property!Pending(a)
             /\ Worths'[a] \in Int /\ Worths'[a] <= Worths[a] + p * shares[a]
  <2> DEFINE c == checkpoint[a]
             l == legacy[a]
             n == shares[a]
             more == Raised(index, kind, p)
  <2>1. l \in Legacies /\ Held(c, n, index)
    BY HolderIs
  <2>2. /\ View(a) = ViewOf(c, l, n, index) /\ Worths[a] = Worth(c, l, n, index)
        /\ View(a)' = ViewOf(c, l, n, more) /\ Worths'[a] = Worth(c, l, n, more)
    BY <1>2 DEF View, Worths
  <2>3. Held(checkpoint[a], shares[a], index)' <=> Held(c, n, more)
    BY <1>2
  <2> HIDE DEF c, l, n
  <2>4. /\ more \in Indexes /\ Held(c, n, more)
        /\ ViewOf(c, l, n, index).owed["total"] <= ViewOf(c, l, n, more).owed["total"]
        /\ Worth(c, l, n, more) <= Worth(c, l, n, index) + p * n
    BY <1>3, <2>1, ViewGrows
  <2>5. Worth(c, l, n, more) \in Int
    BY <2>1, <2>4, ViewIs
  <2>6. View(a).owed["total"] \in Int /\ View(a)'.owed["total"] \in Int
    <3>1. ViewOf(c, l, n, index) \in Checkpoints /\ ViewOf(c, l, n, more) \in Checkpoints
      BY <2>1, <2>4, ViewIs
    <3> QED
      BY <2>2, <3>1 DEF Checkpoints, Indexes, Property!Books
  <2>7. Property!Pending(a)' >= Property!Pending(a)
    BY <2>2, <2>4, <2>6, ViewIsPreview
  <2> QED
    BY <1>2, <2>2, <2>3, <2>4, <2>5, <2>7 DEF n
<1>5. MoneyTypes'
  <2>1. index' \in Indexes
    BY <1>4, Estate
  <2> QED
    BY <1>2, <2>1 DEF MoneyInv, MoneyTypes
<1>6. Solvent'
  <2>1. Worths \in [ShareAccounts -> Int] /\ SumFunction(Worths) \in Int
    BY WorthsTyped
  <2>2. Worths' \in [ShareAccounts -> Int]
    BY <1>4 DEF Worths
  <2>3. SumFunction(Worths') <= SumFunction(Worths) + p * SumFunction(shares) /\ SumFunction(Worths') \in Int
    BY <1>1, <1>3, <1>4, <2>1, <2>2, Estate, SumsWeighed, SumOfFunction
  <2>4. p * SumFunction(shares) <= amount * Scale
    <3>1. p * issued <= p * authorized /\ p * issued \in Int /\ p * authorized \in Int /\ amount * Scale \in Int
      BY <1>1, <1>3, Estate
    <3> QED
      BY <1>1, <1>3, <3>1
  <2>5. claimed * Scale + SumFunction(Worths) <= paidIn * Scale /\ claimed \in Int /\ paidIn \in Int /\ Scale \in Nat
    BY Estate DEF MoneyInv, MoneyTypes, Solvent
  <2> DEFINE cs == claimed * Scale
             ps == paidIn * Scale
             more == amount * Scale
             given == p * SumFunction(shares)
  <2>6. cs \in Int /\ ps \in Int /\ more \in Int /\ (paidIn + amount) * Scale = ps + more
    BY <2>5
  <2>7. given \in Int
    BY <1>1, <1>3
  <2>8. claimed' * Scale = cs /\ paidIn' * Scale = ps + more
    BY <1>2, <2>6
  <2> HIDE DEF cs, ps, more, given
  <2>9. cs + SumFunction(Worths) <= ps /\ given <= more /\ SumFunction(Worths') <= SumFunction(Worths) + given
    BY <2>3, <2>4, <2>5 DEF cs, ps, more, given
  <2>10. cs + SumFunction(Worths') <= ps + more
    <3>1. /\ cs \in Int /\ ps \in Int /\ more \in Int /\ given \in Int
          /\ SumFunction(Worths) \in Int /\ SumFunction(Worths') \in Int
      BY <2>1, <2>3, <2>6, <2>7
    <3> QED
      BY <2>9, <3>1
  <2> QED
    BY <2>8, <2>10 DEF Solvent
<1>7. Property!SharesAddUp'
  BY <1>2 DEF MoneyInv, Property!SharesAddUp
<1>8. deposits' # deposits
  BY <1>2 DEF MoneyInv, MoneyTypes
<1> QED
  BY <1>4, <1>5, <1>6, <1>7, <1>8 DEF MoneyInv

\* Accounts of the old list that no batch has reached.
Waiting == {roll[n] : n \in (offset + 1)..Len(roll)}

RosterInv ==
    /\ roll \in Seq(ShareAccounts) /\ offset \in Nat /\ flagged \in SUBSET ShareAccounts
    /\ holderCount = Cardinality(flagged)
    /\ \A a \in ShareAccounts : shares[a] > 0 => a \in flagged \cup turned \cup Waiting

rosterVars == <<shares, roll, offset, flagged, holderCount, turned>>

\* The instance counts as the module does.
LEMMA ShareCounts == ASSUME NEW S PROVE Property!Cardinality(S) = Cardinality(S)
BY DEF Property!Cardinality, Cardinality

LEMMA Enlisted ==
  ASSUME NEW S \in SUBSET ShareAccounts, NEW T \in SUBSET ShareAccounts
  PROVE  Cardinality(S \cup T) = Cardinality(S) + Cardinality(T \ S) /\ Cardinality(S \cup T) \in Nat
<1>1. IsFiniteSet(S) /\ IsFiniteSet(T \ S)
  BY Estate, FS_Subset
<1>2. S \cup T = S \cup (T \ S) /\ S \cap (T \ S) = {}
  OBVIOUS
<1>3. /\ IsFiniteSet(S \cup (T \ S))
      /\ Cardinality(S \cup (T \ S)) = Cardinality(S) + Cardinality(T \ S) - Cardinality(S \cap (T \ S))
  BY <1>1, FS_Union
<1>4. Cardinality(S \cap (T \ S)) = 0
  BY <1>2, FS_EmptySet
<1>5. Cardinality(S) \in Nat /\ Cardinality(T \ S) \in Nat
  BY <1>1, FS_CardinalityType
<1>6. Cardinality(S \cup T) = Cardinality(S \cup (T \ S))
  BY <1>2
<1> QED
  BY <1>3, <1>4, <1>5, <1>6

LEMMA Struck ==
  ASSUME NEW S \in SUBSET ShareAccounts, NEW T
  PROVE  Property!SatSub(Cardinality(S), Cardinality(T \cap S)) = Cardinality(S \ T)
<1>1. IsFiniteSet(S) /\ IsFiniteSet(S \ T) /\ S \cap T = T \cap S /\ IsFiniteSet(T \cap S)
  BY Estate, FS_Subset
<1>2. Cardinality(S \ T) = Cardinality(S) - Cardinality(S \cap T)
  BY <1>1, FS_Difference
<1>3. Cardinality(S) \in Nat /\ Cardinality(S \ T) \in Nat /\ Cardinality(T \cap S) \in Nat
  BY <1>1, FS_CardinalityType
<1>4. Cardinality(S \cap T) = Cardinality(T \cap S)
  BY <1>1
<1> QED
  BY <1>2, <1>3, <1>4 DEF Property!SatSub

LEMMA EnrolIs ==
  ASSUME RosterInv, NEW New \in SUBSET ShareAccounts, NEW Gone \in SUBSET ShareAccounts, Property!Enrol(New, Gone)
  PROVE  /\ flagged' = (flagged \cup New) \ Gone /\ flagged' \in SUBSET ShareAccounts
         /\ holderCount' = Cardinality(flagged') /\ roll' = roll /\ offset' = offset /\ Waiting' = Waiting
<1> DEFINE joined == flagged \cup New
<1>1. /\ flagged' = joined \ Gone /\ UNCHANGED <<roll, offset>>
      /\ holderCount' = Property!SatSub(holderCount + Cardinality(New \ flagged), Cardinality(Gone \cap joined))
  BY ShareCounts DEF Property!Enrol
<1>2. flagged \in SUBSET ShareAccounts /\ holderCount = Cardinality(flagged)
  BY DEF RosterInv
<1>3. holderCount + Cardinality(New \ flagged) = Cardinality(joined)
  BY <1>2, Enlisted
<1>4. joined \in SUBSET ShareAccounts
  BY <1>2
<1> HIDE DEF joined
<1>5. holderCount' = Cardinality(joined \ Gone)
  BY <1>1, <1>3, <1>4, Struck
<1> QED
  BY <1>1, <1>4, <1>5 DEF joined, Waiting

LEMMA RosterQuiet == ASSUME RosterInv, UNCHANGED rosterVars PROVE RosterInv'
BY DEF RosterInv, rosterVars, Waiting

LEMMA MintRoster ==
  ASSUME MoneyInv, RosterInv, NEW to \in ShareAccounts, NEW n \in Nat, Property!Mint(to, n)
  PROVE  RosterInv'
<1>1. shares' = [shares EXCEPT ![to] = @ + n] /\ turned' = turned /\ Property!Enrol({to}, {})
  BY DEF Property!Mint
<1>2. /\ flagged' = (flagged \cup {to}) \ {} /\ flagged' \in SUBSET ShareAccounts
      /\ holderCount' = Cardinality(flagged') /\ roll' = roll /\ offset' = offset /\ Waiting' = Waiting
  BY <1>1, EnrolIs
<1>3. shares \in [ShareAccounts -> Nat]
  BY SharesAre
<1>4. \A a \in ShareAccounts : a = to \/ shares'[a] = shares[a]
  BY <1>1, <1>3
<1> QED
  BY <1>1, <1>2, <1>4 DEF RosterInv

LEMMA BuybackRoster ==
  ASSUME MoneyInv, RosterInv, NEW from \in ShareAccounts, NEW n \in Nat, Property!Buyback(from, n)
  PROVE  RosterInv'
<1> DEFINE gone == IF shares[from] = n THEN {from} ELSE {}
<1>1. /\ shares' = [shares EXCEPT ![from] = @ - n] /\ turned' = turned /\ shares[from] >= n
      /\ Property!Enrol({}, gone)
  BY DEF Property!Buyback
<1>2. /\ flagged' = (flagged \cup {}) \ gone /\ flagged' \in SUBSET ShareAccounts
      /\ holderCount' = Cardinality(flagged') /\ roll' = roll /\ offset' = offset /\ Waiting' = Waiting
  <2>1. gone \in SUBSET ShareAccounts /\ {} \in SUBSET ShareAccounts
    OBVIOUS
  <2> HIDE DEF gone
  <2> QED
    BY <1>1, <2>1, EnrolIs
<1>3. shares \in [ShareAccounts -> Nat]
  BY SharesAre
<1>4. \A a \in ShareAccounts : a # from => shares'[a] = shares[a]
  BY <1>1, <1>3
<1>5. shares'[from] = shares[from] - n /\ shares[from] \in Nat
  BY <1>1, <1>3
<1>6. ASSUME NEW a \in ShareAccounts, shares'[a] > 0 PROVE a \in flagged' \cup turned' \cup Waiting'
  <2>1. shares[a] > 0 /\ a \notin gone
    BY <1>3, <1>4, <1>5, <1>6
  <2> QED
    BY <1>1, <1>2, <2>1 DEF RosterInv
<1> QED
  BY <1>2, <1>6 DEF RosterInv

LEMMA MoveRoster ==
  ASSUME MoneyInv, RosterInv, NEW from \in ShareAccounts, NEW to \in ShareAccounts, NEW n \in Nat,
         Property!Move(from, to, n)
  PROVE  RosterInv'
<1> DEFINE gone == IF shares[from] = n THEN {from} ELSE {}
           net == [shares EXCEPT ![from] = @ - n]
<1>1. /\ shares' = [net EXCEPT ![to] = @ + n] /\ shares[from] >= n
      /\ turned' = (IF from = to /\ shares[from] = n THEN turned \cup {from} ELSE turned)
      /\ Property!Enrol({to}, gone)
  BY DEF Property!Move
<1>2. /\ flagged' = (flagged \cup {to}) \ gone /\ flagged' \in SUBSET ShareAccounts
      /\ holderCount' = Cardinality(flagged') /\ roll' = roll /\ offset' = offset /\ Waiting' = Waiting
  <2>1. gone \in SUBSET ShareAccounts /\ {to} \in SUBSET ShareAccounts
    OBVIOUS
  <2> HIDE DEF gone
  <2> QED
    BY <1>1, <2>1, EnrolIs
<1>3. shares \in [ShareAccounts -> Nat]
  BY SharesAre
<1>4. /\ net[from] = shares[from] - n
      /\ \A a \in ShareAccounts : a # from => net[a] = shares[a]
      /\ net \in [ShareAccounts -> Nat]
  BY <1>1, <1>3
<1> HIDE DEF net
<1>5. \A a \in ShareAccounts : a # to => shares'[a] = net[a]
  BY <1>1, <1>4
<1>6. ASSUME NEW a \in ShareAccounts, shares'[a] > 0 PROVE a \in flagged' \cup turned' \cup Waiting'
  <2>1. CASE a = to
    BY <1>1, <1>2, <2>1
  <2>2. CASE a # to
    <3>1. shares[a] > 0 /\ a \notin gone
      BY <1>3, <1>4, <1>5, <1>6, <2>2
    <3> QED
      BY <1>1, <1>2, <3>1 DEF RosterInv
  <2> QED
    BY <2>1, <2>2
<1> QED
  BY <1>2, <1>6 DEF RosterInv

LEMMA MigrateRoster ==
  ASSUME RosterInv, NEW to \in Nat, NEW batch \in Nat, Property!MigrateSchema(to, batch)
  PROVE  RosterInv'
<1>1. CASE to # 2
  BY <1>1, RosterQuiet DEF Property!MigrateSchema, Property!holderVars, rosterVars
<1>2. CASE to = 2
  <2> DEFINE limit == IF batch = 0 \/ offset + batch > Len(roll) THEN Len(roll) ELSE offset + batch
             part == {roll[n] : n \in (offset + 1)..limit}
             done == limit >= Len(roll)
  <2>1. /\ flagged' = flagged \cup part
        /\ holderCount' = holderCount + Cardinality(part \ flagged)
        /\ roll' = (IF done THEN <<>> ELSE roll)
        /\ offset' = (IF done THEN 0 ELSE limit)
        /\ turned' = turned /\ shares' = shares
    BY <1>2, ShareCounts DEF Property!MigrateSchema
  <2>2. roll \in Seq(ShareAccounts) /\ offset \in Nat /\ Len(roll) \in Nat /\ flagged \in SUBSET ShareAccounts
    BY DEF RosterInv
  <2>3. limit \in Nat /\ limit <= Len(roll) /\ offset \in Nat
    BY <2>2
  <2> HIDE DEF limit
  <2>4. part \in SUBSET ShareAccounts
    <3>1. \A n \in (offset + 1)..limit : n \in 1..Len(roll)
      BY <2>2, <2>3
    <3>2. \A n \in 1..Len(roll) : roll[n] \in ShareAccounts
      BY <2>2
    <3> QED
      BY <3>1, <3>2
  <2>5. flagged' \in SUBSET ShareAccounts /\ holderCount' = Cardinality(flagged')
    <3> HIDE DEF part
    <3>1. holderCount = Cardinality(flagged)
      BY DEF RosterInv
    <3> QED
      BY <2>1, <2>2, <2>4, <3>1, Enlisted
  <2>6. Waiting \subseteq part \cup Waiting'
    <3>1. CASE done
      <4>1. \A n \in (offset + 1)..Len(roll) : n \in (offset + 1)..limit
        BY <2>2, <2>3, <3>1
      <4> QED
        BY <4>1 DEF Waiting
    <3>2. CASE ~done
      <4>1. roll' = roll /\ offset' = limit
        BY <2>1, <3>2
      <4>2. \A n \in (offset + 1)..Len(roll) : n \in (offset + 1)..limit \/ n \in (limit + 1)..Len(roll)
        BY <2>2, <2>3
      <4>3. Waiting' = {roll[n] : n \in (limit + 1)..Len(roll)}
        BY <4>1 DEF Waiting
      <4> HIDE DEF done
      <4> QED
        BY <4>2, <4>3 DEF Waiting
    <3> QED
      BY <3>1, <3>2
  <2>7. roll' \in Seq(ShareAccounts) /\ offset' \in Nat
    BY <2>1, <2>2, <2>3
  <2>8. \A a \in ShareAccounts : shares'[a] > 0 => a \in flagged' \cup turned' \cup Waiting'
    BY <2>1, <2>6 DEF RosterInv
  <2> QED
    BY <2>5, <2>7, <2>8 DEF RosterInv
<1> QED
  BY <1>1, <1>2

PropertyInv == MoneyInv /\ RosterInv

LEMMA FreshInOrder == InOrder(Property!Fresh)
<1> DEFINE u == Property!Fresh
           none == [k \in Property!Books |-> 0]
<1>1. /\ u.shares = [a \in ShareAccounts |-> 0] /\ u.index = none /\ u.pool = 0 /\ u.deposits = 0
      /\ u.legacy = [a \in ShareAccounts |-> [owed |-> none, debt |-> none]] /\ u.roll = <<>>
  BY DEF Property!Fresh, Property!Nothing, Property!Unknown
<1> HIDE DEF u
<1>2. none \in Indexes /\ none["total"] = 0
  BY DEF Indexes, Property!Books
<1> HIDE DEF none
<1>3. u.shares \in [ShareAccounts -> Nat] /\ u.legacy \in [ShareAccounts -> Legacies]
  BY <1>1, <1>2 DEF Legacies
<1>4. SumFunction(u.shares) = 0
  BY <1>1, Estate, SumOfZeros
<1> DEFINE left == [a \in ShareAccounts |-> Left(u.legacy[a], u.shares[a], u.index)]
<1>5. left = [a \in ShareAccounts |-> 0]
  <2>1. ASSUME NEW a \in ShareAccounts PROVE Left(u.legacy[a], u.shares[a], u.index) = 0
    <3>1. u.legacy[a].owed["total"] = 0 /\ u.legacy[a].debt["total"] = 0 /\ u.shares[a] = 0 /\ u.index["total"] = 0
      BY <1>1, <1>2
    <3>2. 0 * Scale = 0 /\ 0 * 0 = 0
      BY Estate
    <3> QED
      BY <3>1, <3>2 DEF Left, Property!Beyond
  <2> QED
    BY <2>1
<1> HIDE DEF left
<1>6. SumFunction(left) = 0
  BY <1>5, Estate, SumOfZeros
<1>7. SumFunction(u.shares) <= Authorized /\ SumFunction(left) <= u.pool * Scale
  BY <1>1, <1>4, <1>6, Estate
<1>8. /\ u.pool \in Nat /\ u.deposits \in Nat /\ u.index \in Indexes /\ u.roll \in Seq(ShareAccounts)
      /\ \A a \in ShareAccounts : ~(u.shares[a] > 0)
  BY <1>1, <1>2
<1> QED
  BY <1>3, <1>7, <1>8 DEF InOrder, u, left

LEMMA PropertyStart == Property!Init => PropertyInv
<1> SUFFICES ASSUME Property!Init PROVE PropertyInv
  OBVIOUS
<1>1. PICK u \in Upgrades \cup {Property!Fresh} :
        /\ shares = u.shares /\ issued = Property!SumFunction(u.shares)
        /\ index = u.index /\ pool = u.pool /\ paidIn = u.pool
        /\ legacy = u.legacy /\ roll = u.roll /\ deposits = u.deposits
  BY DEF Property!Init
<1>2. InOrder(u)
  BY Estate, FreshInOrder
<1>3. /\ authorized = Authorized /\ claimed = 0
      /\ checkpoint = [a \in ShareAccounts |-> NoCheckpoint]
      /\ offset = 0 /\ flagged = {} /\ holderCount = 0
  BY DEF Property!Init
<1>4. MoneyTypes
  BY <1>1, <1>2, <1>3, Estate DEF MoneyTypes, InOrder
<1>5. Property!SharesAddUp
  BY <1>1, <1>2, <1>3, ShareSums DEF Property!SharesAddUp, InOrder
<1>6. \A a \in ShareAccounts : Held(checkpoint[a], shares[a], index)
  BY <1>3, <1>4 DEF Held, MoneyTypes
<1>7. Solvent
  <2> DEFINE left == [a \in ShareAccounts |-> Left(u.legacy[a], u.shares[a], u.index)]
  <2>1. Worths = left
    BY <1>1, <1>3 DEF Worths, Worth
  <2>2. SumFunction(left) <= u.pool * Scale /\ u.pool \in Nat
    BY <1>2 DEF InOrder
  <2> HIDE DEF left
  <2>3. SumFunction(left) \in Int
    <3>1. MoneyInv \/ Worths \in [ShareAccounts -> Int]
      <4>1. ASSUME NEW a \in ShareAccounts PROVE Worths[a] \in Int
        <5>1. legacy[a] \in Legacies /\ Held(checkpoint[a], shares[a], index)
          BY <1>4, <1>6 DEF MoneyTypes
        <5>2. Worth(checkpoint[a], legacy[a], shares[a], index) \in Int
          BY <5>1, ViewIs
        <5> QED
          BY <5>2 DEF Worths
      <4> QED
        BY <4>1 DEF Worths
    <3> QED
      BY <2>1, <3>1, Estate, SumOfFunction, WorthsTyped
  <2>4. 0 * Scale = 0
    BY Estate
  <2> QED
    BY <1>1, <1>3, <2>1, <2>2, <2>3, <2>4 DEF Solvent
<1>8. RosterInv
  <2>1. roll \in Seq(ShareAccounts) /\ \A a \in ShareAccounts : shares[a] > 0 => \E n \in DOMAIN roll : roll[n] = a
    BY <1>1, <1>2 DEF InOrder
  <2>2. \A n \in DOMAIN roll : n \in (offset + 1)..Len(roll)
    BY <1>3, <2>1
  <2>3. \A a \in ShareAccounts : shares[a] > 0 => a \in Waiting
    BY <2>1, <2>2 DEF Waiting
  <2>4. holderCount = Cardinality(flagged)
    BY <1>3, FS_EmptySet
  <2> QED
    BY <1>3, <2>1, <2>3, <2>4 DEF RosterInv
<1> QED
  BY <1>4, <1>5, <1>6, <1>7, <1>8 DEF PropertyInv, MoneyInv

\* Of amounts without the scale: what was claimed and may be claimed was paid in.
LEMMA Covered == MoneyInv => claimed + Property!AllPending <= paidIn
<1> SUFFICES ASSUME MoneyInv PROVE claimed + Property!AllPending <= paidIn
  OBVIOUS
<1> DEFINE claims == [a \in ShareAccounts |-> Property!Pending(a)]
           none == [a \in ShareAccounts |-> 0]
           all == SumFunction(claims)
<1>1. Property!AllPending = all
  BY ShareSums DEF Property!AllPending
<1>2. \A a \in ShareAccounts : claims[a] \in Nat /\ claims[a] * Scale <= Worths[a]
  BY HolderIs
<1>3. claims \in [ShareAccounts -> Int] /\ none \in [ShareAccounts -> Int]
  BY <1>2
<1>4. SumFunction(none) = 0
  BY Estate, SumOfZeros
<1>5. Worths \in [ShareAccounts -> Int] /\ SumFunction(Worths) \in Int
  BY WorthsTyped
<1>6. \A a \in ShareAccounts : none[a] <= Worths[a] + (-Scale) * claims[a]
  <2>1. ASSUME NEW a \in ShareAccounts PROVE none[a] <= Worths[a] + (-Scale) * claims[a]
    <3> DEFINE x == claims[a]
               w == Worths[a]
    <3>1. x \in Nat /\ x * Scale <= w /\ w \in Int /\ none[a] = 0 /\ Scale \in Nat
      BY <1>2, <1>5, Estate
    <3> HIDE DEF x, w, none
    <3>2. (-Scale) * x = -(x * Scale) /\ x * Scale \in Int
      BY <3>1
    <3> QED
      BY <3>1, <3>2 DEF x, w
  <2> QED
    BY <2>1
<1> HIDE DEF claims, none
<1>7. SumFunction(none) <= SumFunction(Worths) + (-Scale) * SumFunction(claims)
  <2>1. -Scale \in Int
    BY Estate
  <2> QED
    BY <1>3, <1>5, <1>6, <2>1, Estate, SumsWeighed
<1>8. all \in Int
  BY <1>3, Estate, SumOfFunction
<1>9. claimed * Scale + SumFunction(Worths) <= paidIn * Scale /\ claimed \in Int /\ paidIn \in Int /\ Scale \in Nat \ {0}
  BY Estate DEF MoneyInv, MoneyTypes, Solvent
<1> DEFINE sum == SumFunction(Worths)
<1>10. 0 <= sum + (-Scale) * all /\ sum \in Int /\ claimed * Scale + sum <= paidIn * Scale
  BY <1>4, <1>5, <1>7, <1>9
<1> HIDE DEF sum, all
<1>11. (claimed + all) * Scale <= paidIn * Scale
  <2> DEFINE cs == claimed * Scale
             ps == paidIn * Scale
             ns == all * Scale
  <2>1. cs \in Int /\ ps \in Int /\ ns \in Int /\ (-Scale) * all = -ns /\ (claimed + all) * Scale = cs + ns
    BY <1>8, <1>9
  <2> HIDE DEF cs, ps, ns
  <2>2. cs + sum <= ps
    BY <1>10 DEF cs, ps
  <2>3. cs \in Int /\ ps \in Int /\ ns \in Int /\ 0 <= sum + (-ns) /\ sum \in Int
    BY <1>10, <2>1
  <2>4. cs + ns <= ps
    BY <2>2, <2>3
  <2> QED
    BY <2>1, <2>4 DEF ps
<1>12. claimed + all <= paidIn
  BY <1>8, <1>9, <1>11
<1> QED
  BY <1>1, <1>12

LEMMA PropertyInvGives == PropertyInv => Property!DividendsInOrder
<1> SUFFICES ASSUME PropertyInv PROVE Property!DividendsInOrder
  OBVIOUS
<1>1. MoneyInv /\ RosterInv
  BY DEF PropertyInv
<1>2. Property!CheckpointsCurrent
  BY <1>1 DEF MoneyInv, Held, InStep, Property!CheckpointsCurrent
<1>3. Property!ClaimsCovered
  <2>1. ASSUME NEW a \in ShareAccounts
        PROVE  LET owed == Property!Preview(a).owed
               IN  /\ \A k \in Property!Books : owed[k] >= 0
                   /\ owed["rent"] + owed["capital"] <= owed["total"]
    <3>1. View(a) \in Checkpoints /\ InStep(View(a), shares[a], index) /\ Property!Preview(a) = View(a)
      BY <1>1, HolderIs
    <3>2. \A k \in Property!Books : View(a).owed[k] \in Nat
      BY <3>1 DEF Checkpoints, Indexes
    <3> QED
      BY <3>1, <3>2 DEF InStep
  <2> QED
    BY <1>1, <2>1, Covered DEF Property!ClaimsCovered
<1>4. Property!HoldersFlagged
  <2>1. Waiting \subseteq {roll[n] : n \in DOMAIN roll}
    <3>1. \A n \in (offset + 1)..Len(roll) : n \in DOMAIN roll
      BY <1>1 DEF RosterInv
    <3> QED
      BY <3>1 DEF Waiting
  <2> QED
    BY <1>1, <2>1, ShareCounts DEF RosterInv, Property!HoldersFlagged
<1> QED
  BY <1>1, <1>2, <1>3, <1>4 DEF MoneyInv, Property!DividendsInOrder

\* A step that pays nothing leaves every claim where it is.
LEMMA Stays ==
  ASSUME MoneyInv, PendingKept, claimed' = claimed, deposits' = deposits
  PROVE  Property!ClaimsStayPut
<1>1. PICK a \in ShareAccounts : TRUE
  BY Estate
<1>2. Property!Pending(a) \in Nat /\ claimed \in Int
  BY HolderIs DEF MoneyInv, MoneyTypes
<1> QED
  BY <1>1, <1>2 DEF PendingKept, Property!ClaimsStayPut

PropertyStep == PropertyInv' /\ Property!ClaimsStayPut

LEMMA PaidStep ==
  ASSUME PropertyInv, NEW a \in ShareAccounts, NEW owed \in Indexes, NEW amount \in Nat,
         owed["rent"] + owed["capital"] <= owed["total"],
         owed["total"] + amount = Property!Pending(a),
         Property!PayOut(a, owed, amount)
  PROVE  PropertyStep
<1>1. /\ MoneyInv' /\ claimed' = claimed + amount /\ deposits' = deposits
      /\ Property!Pending(a) - Property!Pending(a)' = amount
      /\ \A b \in ShareAccounts \ {a} : Property!Pending(b)' = Property!Pending(b)
  BY PayStep DEF PropertyInv
<1>2. RosterInv'
  BY RosterQuiet DEF PropertyInv, Property!PayOut, Property!holderVars, rosterVars
<1>3. claimed \in Int
  BY DEF PropertyInv, MoneyInv, MoneyTypes
<1>4. Property!ClaimsStayPut
  BY <1>1, <1>3 DEF Property!ClaimsStayPut
<1> QED
  BY <1>1, <1>2, <1>4 DEF PropertyStep, PropertyInv

LEMMA PropertyKept == PropertyInv /\ [Property!Next]_shareVars => PropertyStep
<1> SUFFICES ASSUME PropertyInv, [Property!Next]_shareVars PROVE PropertyStep
  OBVIOUS
<1> USE DEF PropertyInv
<1>1. MoneyInv /\ RosterInv
  OBVIOUS
<1>2. ASSUME NEW a \in ShareAccounts, NEW n \in Shares, Property!Mint(a, n) PROVE PropertyStep
  <2>1. n \in Nat /\ claimed' = claimed /\ deposits' = deposits
    BY <1>2, Estate DEF Property!Mint, Property!dividendVars
  <2> QED
    BY <1>1, <1>2, <2>1, ShareMintStep, MintRoster, Stays DEF PropertyStep
<1>3. ASSUME NEW a \in ShareAccounts, NEW n \in Shares, Property!Buyback(a, n) PROVE PropertyStep
  <2>1. n \in Nat /\ claimed' = claimed /\ deposits' = deposits
    BY <1>3, Estate DEF Property!Buyback, Property!dividendVars
  <2> QED
    BY <1>1, <1>3, <2>1, BuybackStep, BuybackRoster, Stays DEF PropertyStep
<1>4. ASSUME NEW from \in ShareAccounts, NEW to \in ShareAccounts, NEW n \in Shares, Property!Move(from, to, n)
      PROVE  PropertyStep
  <2>1. n \in Nat /\ claimed' = claimed /\ deposits' = deposits
    BY <1>4, Estate DEF Property!Move, Property!dividendVars
  <2> QED
    BY <1>1, <1>4, <2>1, ShareMoveStep, MoveRoster, Stays DEF PropertyStep
<1>5. CASE UNCHANGED <<moneyVars, rosterVars>>
  <2>1. claimed' = claimed /\ deposits' = deposits /\ UNCHANGED moneyVars /\ UNCHANGED rosterVars
    BY <1>5 DEF moneyVars
  <2> QED
    BY <1>1, <2>1, MoneyQuiet, RosterQuiet, Stays DEF PropertyStep
<1>6. ASSUME NEW amount \in Deposits, NEW kind \in Property!Kinds, Property!DepositDividend(amount, kind)
      PROVE  PropertyStep
  <2>1. amount \in Nat
    BY Estate
  <2>2. MoneyInv' /\ deposits' # deposits /\ \A a \in ShareAccounts : Property!Pending(a)' >= Property!Pending(a)
    BY <1>1, <1>6, <2>1, DepositStep
  <2>3. RosterInv'
    BY <1>1, <1>6, RosterQuiet DEF Property!DepositDividend, Property!holderVars, rosterVars
  <2> QED
    BY <2>2, <2>3 DEF PropertyStep, Property!ClaimsStayPut
<1>7. ASSUME NEW a \in ShareAccounts, Property!ClaimDividend(a) PROVE PropertyStep
  <2>1. Property!Pending(a) \in Nat
    BY <1>1, HolderIs
  <2>2. /\ Property!Nothing \in Indexes
        /\ Property!Nothing["rent"] = 0 /\ Property!Nothing["capital"] = 0 /\ Property!Nothing["total"] = 0
    BY DEF Property!Nothing, Indexes, Property!Books, Property!Typed
  <2> QED
    BY <1>7, <2>1, <2>2, PaidStep DEF Property!ClaimDividend
<1>8. ASSUME NEW a \in ShareAccounts, Property!Settle(a) PROVE PropertyStep
  <2> DEFINE owed == Property!Preview(a).owed
  <2>1. owed \in Indexes /\ owed["rent"] + owed["capital"] <= owed["total"] /\ owed["total"] \in Nat
        /\ owed["total"] = Property!Pending(a)
    BY <1>1, HolderIs DEF Checkpoints, InStep
  <2>2. Property!PayOut(a, owed, 0) /\ owed["total"] + 0 = Property!Pending(a)
    BY <1>8, <2>1 DEF Property!Settle
  <2> HIDE DEF owed
  <2> QED
    BY <2>1, <2>2, PaidStep
<1>9. ASSUME NEW a \in ShareAccounts, NEW kind \in Property!Typed, Property!ClaimTyped(a, kind) PROVE PropertyStep
  <2> DEFINE owed == Property!Preview(a).owed
             rest == [owed EXCEPT ![kind] = 0, !["total"] = owed["total"] - owed[kind]]
  <2>1. owed \in Indexes /\ owed["rent"] + owed["capital"] <= owed["total"] /\ owed["total"] = Property!Pending(a)
    BY <1>1, HolderIs DEF Checkpoints, InStep
  <2>2. Property!Books = {"rent", "capital", "total"} /\ kind \in {"rent", "capital"}
    BY DEF Property!Books, Property!Typed
  <2>3. Property!PayOut(a, rest, owed[kind])
    BY <1>9 DEF Property!ClaimTyped
  <2> HIDE DEF owed
  <2>4. owed["rent"] \in Nat /\ owed["capital"] \in Nat /\ owed["total"] \in Nat
    BY <2>1, <2>2 DEF Indexes
  <2>5. owed["total"] - owed[kind] \in Nat /\ owed[kind] \in Nat
    BY <2>1, <2>2, <2>4
  <2>6. rest \in Indexes
    BY <2>1, <2>2, <2>5 DEF Indexes
  <2>7. rest[kind] = 0 /\ rest["total"] = owed["total"] - owed[kind]
        /\ (kind = "rent" => rest["capital"] = owed["capital"]) /\ (kind = "capital" => rest["rent"] = owed["rent"])
    BY <2>1, <2>2 DEF Indexes
  <2> HIDE DEF rest
  <2>8. rest["rent"] + rest["capital"] <= rest["total"] /\ rest["total"] + owed[kind] = Property!Pending(a)
    BY <2>1, <2>2, <2>4, <2>7
  <2> QED
    BY <2>3, <2>5, <2>6, <2>8, PaidStep
<1>10. ASSUME NEW to \in 2..3, NEW batch \in 0..2, Property!MigrateSchema(to, batch) PROVE PropertyStep
  <2>1. UNCHANGED moneyVars /\ to \in Nat /\ batch \in Nat /\ claimed' = claimed /\ deposits' = deposits
    BY <1>10 DEF Property!MigrateSchema, Property!dividendVars, moneyVars
  <2> QED
    BY <1>1, <1>10, <2>1, MoneyQuiet, MigrateRoster, Stays DEF PropertyStep
<1>11. CASE Property!CollectDust
  BY <1>5, <1>11 DEF Property!CollectDust, Property!holderVars, moneyVars, rosterVars
<1>12. ASSUME NEW a \in ShareAccounts, NEW s \in ShareSpenders, NEW n \in Shares, NEW e \in 0..ShareNow,
              Property!Approve(a, s, n, e)
       PROVE  PropertyStep
  BY <1>5, <1>12 DEF Property!Approve, Property!dividendVars, Property!holderVars, moneyVars, rosterVars
<1>13. ASSUME NEW a \in SharesWatched, NEW s \in Property!Standings, Property!Reassess(a, s) PROVE PropertyStep
  BY <1>5, <1>13 DEF Property!Reassess, Property!dividendVars, Property!holderVars, moneyVars, rosterVars
<1>14. CASE Property!Tick
  BY <1>5, <1>14 DEF Property!Tick, Property!dividendVars, Property!holderVars, moneyVars, rosterVars
<1>15. CASE UNCHANGED shareVars
  BY <1>5, <1>15 DEF shareVars, moneyVars, rosterVars
<1>16. ASSUME NEW from \in ShareAccounts, NEW to \in ShareAccounts, NEW n \in Shares,
              \/ Property!Transfer(from, to, n) \/ Property!ForcedTransfer(from, to, n)
              \/ \E s \in ShareSpenders : Property!TransferFrom(s, from, to, n)
       PROVE  PropertyStep
  BY <1>4, <1>16 DEF Property!Transfer, Property!ForcedTransfer, Property!TransferFrom
<1> QED
  BY <1>2, <1>3, <1>6, <1>7, <1>8, <1>9, <1>10, <1>11, <1>12, <1>13, <1>14, <1>15, <1>16 DEF Property!Next

\* All that holders of shares have claimed and may claim was paid in, rounding
\* and upgrades included; checkpoints, counts and flags are in order; and nobody's
\* claim moves but by a deposit or a payment (DividendsSound).
THEOREM DividendsHold == Property!Spec => DividendsSound
<1>1. PropertyInv /\ [Property!Next]_(Property!propertyVars) => PropertyInv'
  BY PropertyKept DEF PropertyStep, Property!propertyVars, Property!dividendVars, Property!holderVars, shareVars
<1>2. PropertyInv /\ [Property!Next]_(Property!propertyVars) => [scenario = "shares" => Property!ClaimsStayPut]_shareVars
  BY PropertyKept DEF PropertyStep, Property!propertyVars, Property!dividendVars, Property!holderVars, shareVars
<1>3. PropertyInv => (scenario \in {"shares", "market"} => Property!DividendsInOrder)
  BY PropertyInvGives
<1> QED
  BY <1>1, <1>2, <1>3, PropertyStart, PTL DEF Property!Spec, DividendsSound
----------------------------------------------------------------------------
(* The tokens as ledgers *)

\* From b to c nothing moves, one account changes, or all but one gain.
Moves(S, b, c, s, t) ==
    \/ c = b
    \/ \E a \in S : \A x \in S \ {a} : c[x] = b[x]
    \/ t = s /\ \E a \in S : \A x \in S \ {a} : c[x] >= b[x]

\* A step of TokenLedger, without the cap and the members.
Entered(S, b, c, s, t) ==
    \E a \in S :
      \/ c[a] > b[a] /\ (\A x \in S \ {a} : c[x] = b[x]) /\ t - s = c[a] - b[a]
      \/ 0 <= c[a] /\ c[a] < b[a] /\ (\A x \in S \ {a} : c[x] = b[x]) /\ s - t = b[a] - c[a]
      \/ 0 <= c[a] /\ c[a] < b[a] /\ (\A x \in S \ {a} : c[x] >= b[x]) /\ t = s

\* When the total stays and all but one gain, that one loses, or nothing moves.
LEMMA OneLoses ==
  ASSUME NEW S, IsFiniteSet(S), NEW b \in [S -> Nat], NEW c \in [S -> Nat], NEW a \in S,
         \A x \in S \ {a} : c[x] >= b[x], SumFunction(c) = SumFunction(b)
  PROVE  c = b \/ c[a] < b[a]
<1>1. SUFFICES ASSUME c[a] >= b[a], NEW x \in S, c[x] # b[x] PROVE FALSE
  OBVIOUS
<1>2. \A y \in S : b[y] <= c[y]
  BY <1>1
<1> DEFINE d == [b EXCEPT ![x] = c[x]]
<1>3. d \in [S -> Int] /\ b \in [S -> Int] /\ c \in [S -> Int]
      /\ d[x] = c[x] /\ (\A y \in S \ {x} : d[y] = b[y]) /\ \A y \in S : d[y] <= c[y]
  BY <1>2
<1> HIDE DEF d
<1>4. SumFunction(d) = SumFunction(b) + (d[x] - b[x]) /\ SumFunction(d) <= SumFunction(c)
  BY <1>3, SumOfChange, SumsGrow
<1>5. SumFunction(b) \in Int /\ c[x] \in Nat /\ b[x] \in Nat /\ b[x] < c[x]
  BY <1>1, <1>2, <1>3, SumOfFunction
<1> QED
  BY <1>3, <1>4, <1>5

LEMMA LedgerStep ==
  ASSUME NEW S, IsFiniteSet(S), NEW b \in [S -> Nat], NEW c \in [S -> Nat],
         NEW s, s = SumFunction(b), NEW t, t = SumFunction(c), Moves(S, b, c, s, t)
  PROVE  (c = b /\ t = s) \/ Entered(S, b, c, s, t)
<1>1. CASE c = b
  BY <1>1
<1>2. ASSUME NEW a \in S, \A x \in S \ {a} : c[x] = b[x]
      PROVE  (c = b /\ t = s) \/ Entered(S, b, c, s, t)
  <2>1. b \in [S -> Int] /\ c \in [S -> Int] /\ b[a] \in Nat /\ c[a] \in Nat
    OBVIOUS
  <2>2. t = s + (c[a] - b[a]) /\ s \in Int
    BY <1>2, <2>1, SumOfChange, SumOfFunction
  <2>3. CASE c[a] = b[a]
    <3>1. \A x \in S : c[x] = b[x]
      BY <1>2, <2>3
    <3> QED
      BY <2>1, <2>2, <2>3, <3>1
  <2> QED
    BY <1>2, <2>1, <2>2, <2>3 DEF Entered
<1>3. ASSUME t = s, NEW a \in S, \A x \in S \ {a} : c[x] >= b[x]
      PROVE  (c = b /\ t = s) \/ Entered(S, b, c, s, t)
  <2>1. c = b \/ c[a] < b[a]
    BY <1>3, OneLoses
  <2>2. 0 <= c[a]
    OBVIOUS
  <2> QED
    BY <1>3, <2>1, <2>2 DEF Entered
<1> QED
  BY <1>1, <1>2, <1>3 DEF Moves

----------------------------------------------------------------------------
InvoiceBook == [a \in Accounts |-> IF a \in DOMAIN held[Traded] THEN held[Traded][a] ELSE 0]

LEMMA InvoiceSums == ASSUME NEW f PROVE Invoice!SumFunction(f) = SumFunction(f)
BY DEF Invoice!SumFunction, Invoice!SumFunctionOnSet, Invoice!FoldFunctionOnSet, Invoice!MapThenFoldSet,
       SumFunction, SumFunctionOnSet, FoldFunctionOnSet, MapThenFoldSet

LEMMA InvoiceBookIs ==
  InvoicesInv => /\ InvoiceBook = held[Traded] /\ held[Traded] \in [Accounts -> Nat]
                 /\ outstanding[Traded] = SumFunction(held[Traded])
                 /\ Holding(held[Traded]) = {a \in Accounts : held[Traded][a] > 0}
BY Look DEF InvoicesInv, InvoiceTypes, InvoiceBook, Holding

LEMMA InvoiceStarts == InvoicesInv => Invoice!Start
<1> SUFFICES ASSUME InvoicesInv PROVE Invoice!Start
  OBVIOUS
<1>1. /\ InvoiceBook = held[Traded] /\ held[Traded] \in [Accounts -> Nat]
      /\ outstanding[Traded] = SumFunction(held[Traded])
      /\ Holding(held[Traded]) = {a \in Accounts : held[Traded][a] > 0}
  BY InvoiceBookIs
<1> QED
  BY <1>1, InvoiceSums DEF Invoice!Start, Invoice!Holding, InvoiceBook

LEMMA InvoiceEnters ==
  ASSUME InvoicesInv, InvoicesInv', Moves(Accounts, held[Traded], held'[Traded], outstanding[Traded], outstanding'[Traded])
  PROVE  [Invoice!LedgerNext]_(Invoice!ledgerVars)
<1> DEFINE b == held[Traded]
           c == held'[Traded]
           s == outstanding[Traded]
           t == outstanding'[Traded]
<1>1. /\ InvoiceBook = b /\ b \in [Accounts -> Nat] /\ s = SumFunction(b)
      /\ Holding(b) = {a \in Accounts : b[a] > 0}
  BY InvoiceBookIs
<1>2. /\ InvoiceBook' = c /\ c \in [Accounts -> Nat] /\ t = SumFunction(c)
      /\ Holding(held[Traded])' = {a \in Accounts : c[a] > 0}
  BY Look DEF InvoicesInv, InvoiceTypes, InvoiceBook, Holding
<1> HIDE DEF b, c, s, t
<1>3. (c = b /\ t = s) \/ Entered(Accounts, b, c, s, t)
  BY <1>1, <1>2, InvoiceAmounts, LedgerStep DEF b, c, s, t
<1>4. CASE c = b /\ t = s
  <2>1. UNCHANGED <<InvoiceBook, outstanding[Traded], Holding(held[Traded])>>
    BY <1>1, <1>2, <1>4 DEF b, c, s, t
  <2> QED
    BY <2>1 DEF Invoice!ledgerVars, InvoiceBook
<1>5. ASSUME NEW a \in Accounts,
             \/ c[a] > b[a] /\ (\A x \in Accounts \ {a} : c[x] = b[x]) /\ t - s = c[a] - b[a]
             \/ 0 <= c[a] /\ c[a] < b[a] /\ (\A x \in Accounts \ {a} : c[x] = b[x]) /\ s - t = b[a] - c[a]
             \/ 0 <= c[a] /\ c[a] < b[a] /\ (\A x \in Accounts \ {a} : c[x] >= b[x]) /\ t = s
      PROVE  Invoice!LedgerNext
  <2>1. Invoice!Issue(a) \/ Invoice!Retire(a) \/ Invoice!Pay(a)
    BY <1>1, <1>2, <1>5, InvoiceSums DEF Invoice!Issue, Invoice!Retire, Invoice!Pay, InvoiceBook, b, c, s, t
  <2>2. Holding(held[Traded])' = Invoice!Holding(InvoiceBook')
    BY <1>2 DEF Invoice!Holding, InvoiceBook, c
  <2> QED
    BY <2>1, <2>2 DEF Invoice!LedgerNext, InvoiceBook
<1> QED
  BY <1>3, <1>4, <1>5 DEF Entered

\* What the calls do to the holdings of the invoice that is looked at.
InvoiceMoves ==
    Moves(Accounts, held[Traded], held'[Traded], outstanding[Traded], outstanding'[Traded])

LEMMA OneHolder ==
  ASSUME InvoicesInv, NEW i \in Invoices, NEW a \in Accounts, NEW amount, held' = [held EXCEPT ![i][a] = amount]
  PROVE  InvoiceMoves
<1>1. held \in [Invoices -> [Accounts -> Nat]]
  BY DEF InvoicesInv, InvoiceTypes
<1>2. CASE i = Traded
  BY <1>1, <1>2 DEF InvoiceMoves, Moves
<1>3. CASE i # Traded
  BY <1>1, <1>3, Look DEF InvoiceMoves, Moves
<1> QED
  BY <1>2, <1>3

LEMMA MoveMoves ==
  ASSUME InvoicesInv, NEW i \in Invoices, NEW from \in Accounts, NEW to \in Accounts, NEW amount \in Amounts,
         Move(i, from, to, amount)
  PROVE  InvoiceMoves
<1> DEFINE m == meta[i]
           fee == Fee(m, amount)
           net == Paid(held[i], from, to, amount, fee)
           h == IF fee > 0 THEN Credit(net, m.recipient, fee) ELSE net
<1>1. /\ Fits(life[i], m, outstanding[i], entitled[i]) /\ amount \in Nat /\ m \in Metas \cup {NoMeta}
      /\ held \in [Invoices -> [Accounts -> Nat]] /\ held[i] \in [Accounts -> Nat]
      /\ (life[i].status # "Created" => m # NoMeta)
  BY InvoiceAmounts DEF InvoicesInv, InvoiceTypes, Fits, Balances
<1>2. /\ amount <= held[i][from] /\ Status(i) \in {"Issued", "PartiallySettled"}
      /\ held' = [held EXCEPT ![i] = h] /\ outstanding' = outstanding
  BY <1>1 DEF Move
<1>3. m \in Metas
  BY <1>1, <1>2 DEF Status
<1> HIDE DEF m
<1>4. \A c \in Accounts \ {from} : h[c] >= held[i][c]
  BY <1>1, <1>2, <1>3, PaidIs
<1> HIDE DEF h
<1>5. CASE i = Traded
  BY <1>1, <1>2, <1>4, <1>5 DEF InvoiceMoves, Moves
<1>6. CASE i # Traded
  BY <1>1, <1>2, <1>6, Look DEF InvoiceMoves, Moves
<1> QED
  BY <1>5, <1>6

LEMMA InvoiceLedger ==
  InvoicesInv /\ [Next]_invoiceVars => [Invoice!LedgerNext]_(Invoice!ledgerVars)
<1> SUFFICES ASSUME InvoicesInv, [Next]_invoiceVars PROVE InvoiceMoves
  BY InvoicesStep, InvoiceEnters DEF Step, InvoiceMoves
<1>1. CASE UNCHANGED held
  BY <1>1 DEF InvoiceMoves, Moves
<1>2. ASSUME NEW i \in Invoices, NEW a \in Accounts, NEW m \in Amounts,
             Issue(i, a, m) \/ Redeem(i, a, m) \/ BurnHeld(i, a, m)
      PROVE  InvoiceMoves
  BY <1>2, OneHolder DEF Issue, Redeem, BurnHeld
<1>3. ASSUME NEW i \in Invoices, NEW a \in Accounts, NEW m \in Amounts,
             Burn(i, a, m) \/ \E s \in Spenders : BurnFrom(s, i, a, m)
      PROVE  InvoiceMoves
  BY <1>2, <1>3 DEF Burn, BurnFrom
<1>4. ASSUME NEW i \in Invoices, NEW from \in Accounts, NEW to \in Accounts, NEW m \in Amounts,
             Transfer(i, from, to, m) \/ \E s \in Spenders : TransferFrom(s, i, from, to, m)
      PROVE  InvoiceMoves
  BY <1>4, MoveMoves DEF Transfer, TransferFrom
<1>5. ASSUME NEW i \in Invoices, NEW m \in Metas, CreateInvoice(i, m) \/ UpdateMeta(i, m) PROVE InvoiceMoves
  BY <1>1, <1>5 DEF CreateInvoice, UpdateMeta, tokenVars
<1>6. ASSUME NEW i \in Invoices, AppendJournalEntry(i) \/ Settle(i) PROVE InvoiceMoves
  BY <1>1, <1>6 DEF AppendJournalEntry, Settle, tokenVars
<1>7. ASSUME NEW i \in Invoices, NEW m \in Amounts, PartialSettle(i, m) PROVE InvoiceMoves
  BY <1>1, <1>7 DEF PartialSettle, tokenVars
<1>8. ASSUME NEW batch \in Batches, BatchSettle(batch) PROVE InvoiceMoves
  BY <1>1, <1>8 DEF BatchSettle, tokenVars
<1>9. ASSUME NEW on \in Switches, SetPaused(on) \/ SetFeeRecipientExempt(on) PROVE InvoiceMoves
  BY <1>1, <1>9 DEF SetPaused, SetFeeRecipientExempt, tokenVars
<1>10. ASSUME NEW i \in Invoices, NEW a \in Accounts, NEW s \in Spenders, NEW m \in Amounts, NEW e \in 0..MaxNow,
              Approve(i, a, s, m, e)
       PROVE  InvoiceMoves
  BY <1>1, <1>10 DEF Approve, tokenVars
<1>11. ASSUME NEW a \in Watched, NEW s \in Standings, Reassess(a, s) PROVE InvoiceMoves
  BY <1>1, <1>11 DEF Reassess, tokenVars
<1>12. CASE Tick
  BY <1>1, <1>12 DEF Tick, tokenVars
<1>13. CASE UNCHANGED invoiceVars
  BY <1>1, <1>13 DEF invoiceVars, tokenVars
<1> QED
  BY <1>2, <1>3, <1>4, <1>5, <1>6, <1>7, <1>8, <1>9, <1>10, <1>11, <1>12, <1>13 DEF Next

LEMMA InvoiceIsLedger == Spec => Invoice!LedgerSpec
BY InvoicesInvHolds, InvoicesStart, InvoiceStarts, InvoiceLedger, PTL DEF Spec, Invoice!LedgerSpec

----------------------------------------------------------------------------
LEMMA CreditSums == ASSUME NEW f PROVE Credited!SumFunction(f) = SumFunction(f)
BY DEF Credited!SumFunction, Credited!SumFunctionOnSet, Credited!FoldFunctionOnSet, Credited!MapThenFoldSet,
       SumFunction, SumFunctionOnSet, FoldFunctionOnSet, MapThenFoldSet

LEMMA CreditsAre ==
  CarbonInv => /\ balance \in [CreditAccounts -> Nat] /\ supply = SumFunction(balance)
               /\ Holding(balance) = {a \in CreditAccounts : balance[a] > 0}
BY DEF CarbonInv, CreditLedger, Holding

LEMMA CreditStarts == CarbonInv => Credited!Start
BY CreditsAre, CreditSums DEF Credited!Start, Credited!Holding

CreditMoves == Moves(CreditAccounts, balance, balance', supply, supply')

LEMMA CreditEnters ==
  ASSUME CarbonInv, CarbonInv', CreditMoves
  PROVE  [Credited!LedgerNext]_(Credited!ledgerVars)
<1>1. /\ balance \in [CreditAccounts -> Nat] /\ supply = SumFunction(balance)
      /\ Holding(balance) = {a \in CreditAccounts : balance[a] > 0}
  BY CreditsAre
<1>2. /\ balance' \in [CreditAccounts -> Nat] /\ supply' = SumFunction(balance')
      /\ Holding(balance)' = {a \in CreditAccounts : balance'[a] > 0}
  BY DEF CarbonInv, CreditLedger, Holding
<1>3. (balance' = balance /\ supply' = supply) \/ Entered(CreditAccounts, balance, balance', supply, supply')
  BY <1>1, <1>2, Credits, LedgerStep DEF CreditMoves
<1>4. CASE balance' = balance /\ supply' = supply
  BY <1>1, <1>2, <1>4 DEF Credited!ledgerVars
<1>5. ASSUME NEW a \in CreditAccounts,
             \/ balance'[a] > balance[a] /\ (\A x \in CreditAccounts \ {a} : balance'[x] = balance[x])
                /\ supply' - supply = balance'[a] - balance[a]
             \/ 0 <= balance'[a] /\ balance'[a] < balance[a]
                /\ (\A x \in CreditAccounts \ {a} : balance'[x] = balance[x])
                /\ supply - supply' = balance[a] - balance'[a]
             \/ 0 <= balance'[a] /\ balance'[a] < balance[a]
                /\ (\A x \in CreditAccounts \ {a} : balance'[x] >= balance[x]) /\ supply' = supply
      PROVE  Credited!LedgerNext
  <2>1. Credited!Issue(a) \/ Credited!Retire(a) \/ Credited!Pay(a)
    BY <1>1, <1>2, <1>5, CreditSums DEF Credited!Issue, Credited!Retire, Credited!Pay
  <2>2. Holding(balance)' = Credited!Holding(balance')
    BY <1>2 DEF Credited!Holding
  <2> QED
    BY <2>1, <2>2 DEF Credited!LedgerNext
<1> QED
  BY <1>3, <1>4, <1>5 DEF Entered

LEMMA BurntMoves ==
  ASSUME CarbonInv, NEW a \in CreditAccounts, NEW x, Carbon!Burnt(a, x)
  PROVE  CreditMoves
BY CreditsAre DEF Carbon!Burnt, CreditMoves, Moves

LEMMA CreditsLedger ==
  CarbonInv /\ [Carbon!Next]_creditVars => [Credited!LedgerNext]_(Credited!ledgerVars)
<1> SUFFICES ASSUME CarbonInv, [Carbon!Next]_creditVars PROVE CreditMoves
  BY CarbonKept, CreditEnters
<1>1. balance \in [CreditAccounts -> Nat]
  BY CreditsAre
<1>2. CASE UNCHANGED balance
  BY <1>2 DEF CreditMoves, Moves
<1>3. ASSUME NEW a \in CreditAccounts, NEW m \in CreditAmounts, Carbon!Mint(a, m) PROVE CreditMoves
  BY <1>1, <1>3 DEF Carbon!Mint, CreditMoves, Moves
<1>4. ASSUME NEW a \in CreditAccounts, NEW m \in CreditAmounts, Carbon!Retire(a, m) PROVE CreditMoves
  BY <1>4, BurntMoves DEF Carbon!Retire
<1>5. ASSUME NEW a \in CreditAccounts, NEW b \in CreditAccounts, NEW m \in CreditAmounts, Carbon!Transfer(a, b, m)
      PROVE  CreditMoves
  <2>1. m \in Nat /\ supply' = supply
    BY <1>5, Credits DEF Carbon!Transfer
  <2>2. \A x \in CreditAccounts \ {a} : balance'[x] >= balance[x]
    BY <1>1, <1>5, <2>1 DEF Carbon!Transfer
  <2> QED
    BY <2>1, <2>2 DEF CreditMoves, Moves
<1>6. ASSUME NEW a \in CreditAccounts, NEW b \in CreditAccounts, NEW m \in CreditAmounts,
             Carbon!RetireOnBehalf(a, b, m)
      PROVE  CreditMoves
  BY <1>6, BurntMoves DEF Carbon!RetireOnBehalf
<1>7. ASSUME NEW a \in CreditAccounts, NEW b \in CreditAccounts \cup {NoOne}, NEW m \in CreditAmounts,
             Carbon!AppendRetirementReceipt(a, b, m)
      PROVE  CreditMoves
  BY <1>2, <1>7 DEF Carbon!AppendRetirementReceipt
<1>8. ASSUME NEW a \in CreditAccounts, NEW ms \in Carbon!Batches(CreditAmounts), Carbon!BatchRetire(a, ms)
      PROVE  CreditMoves
  BY <1>8, BurntMoves DEF Carbon!BatchRetire, Carbon!FileBatch
<1>9. ASSUME NEW a \in CreditAccounts, NEW batch \in Carbon!Batches([to : CreditAccounts, amount : CreditAmounts]),
             Carbon!BatchRetireOnBehalf(a, batch)
      PROVE  CreditMoves
  BY <1>9, BurntMoves DEF Carbon!BatchRetireOnBehalf, Carbon!FileBatch
<1>10. ASSUME NEW a \in CreditsWatched, NEW s \in Carbon!Standings, Carbon!Reassess(a, s) PROVE CreditMoves
  BY <1>2, <1>10 DEF Carbon!Reassess
<1>11. CASE UNCHANGED creditVars
  BY <1>2, <1>11 DEF creditVars
<1> QED
  BY <1>3, <1>4, <1>5, <1>6, <1>7, <1>8, <1>9, <1>10, <1>11 DEF Carbon!Next

LEMMA CreditsAreLedger == Carbon!Spec => Credited!LedgerSpec
<1>1. CarbonInv /\ [Carbon!Next]_(Carbon!carbonVars) => CarbonInv' /\ [Credited!LedgerNext]_(Credited!ledgerVars)
  BY CarbonKept, CreditsLedger DEF Carbon!carbonVars, creditVars
<1> QED
  BY <1>1, CarbonStart, CreditStarts, PTL DEF Carbon!Spec, Credited!LedgerSpec

----------------------------------------------------------------------------
LEMMA EquitySums == ASSUME NEW f PROVE Equity!SumFunction(f) = SumFunction(f)
BY DEF Equity!SumFunction, Equity!SumFunctionOnSet, Equity!FoldFunctionOnSet, Equity!MapThenFoldSet,
       SumFunction, SumFunctionOnSet, FoldFunctionOnSet, MapThenFoldSet

\* A buyback lowers what may be issued, nothing raises it.
EquityInv == PropertyInv /\ authorized <= Authorized

LEMMA EquityIs ==
  EquityInv => /\ shares \in [ShareAccounts -> Nat] /\ issued = SumFunction(shares) /\ issued <= Authorized
               /\ Holding(shares) = {a \in ShareAccounts : shares[a] > 0} /\ authorized \in Int
<1> SUFFICES ASSUME EquityInv
             PROVE  /\ shares \in [ShareAccounts -> Nat] /\ issued = SumFunction(shares) /\ issued <= Authorized
                    /\ Holding(shares) = {a \in ShareAccounts : shares[a] > 0} /\ authorized \in Int
  OBVIOUS
<1>1. /\ shares \in [ShareAccounts -> Nat] /\ authorized \in Int /\ issued \in Int
      /\ issued = SumFunction(shares) /\ issued <= authorized /\ authorized <= Authorized
  BY SharesAre DEF EquityInv, PropertyInv
<1> QED
  BY <1>1, Estate DEF Holding

LEMMA EquityStarts == EquityInv => Equity!Start
BY EquityIs, EquitySums DEF Equity!Start, Equity!Holding

EquityMoves == Moves(ShareAccounts, shares, shares', issued, issued')

LEMMA EquityEnters ==
  ASSUME EquityInv, EquityInv', EquityMoves
  PROVE  [Equity!LedgerNext]_(Equity!ledgerVars)
<1>1. /\ shares \in [ShareAccounts -> Nat] /\ issued = SumFunction(shares)
      /\ Holding(shares) = {a \in ShareAccounts : shares[a] > 0}
  BY EquityIs
<1>2. /\ shares' \in [ShareAccounts -> Nat] /\ issued' = SumFunction(shares') /\ issued' <= Authorized
      /\ Holding(shares)' = {a \in ShareAccounts : shares'[a] > 0}
  <2>1. EquityInv' => (/\ shares \in [ShareAccounts -> Nat] /\ issued = SumFunction(shares) /\ issued <= Authorized
                       /\ Holding(shares) = {a \in ShareAccounts : shares[a] > 0} /\ authorized \in Int)'
    BY EquityIs, PTL
  <2> QED
    BY <2>1
<1>3. (shares' = shares /\ issued' = issued) \/ Entered(ShareAccounts, shares, shares', issued, issued')
  BY <1>1, <1>2, Estate, LedgerStep DEF EquityMoves
<1>4. CASE shares' = shares /\ issued' = issued
  BY <1>1, <1>2, <1>4 DEF Equity!ledgerVars
<1>5. ASSUME NEW a \in ShareAccounts,
             \/ shares'[a] > shares[a] /\ (\A x \in ShareAccounts \ {a} : shares'[x] = shares[x])
                /\ issued' - issued = shares'[a] - shares[a]
             \/ 0 <= shares'[a] /\ shares'[a] < shares[a]
                /\ (\A x \in ShareAccounts \ {a} : shares'[x] = shares[x])
                /\ issued - issued' = shares[a] - shares'[a]
             \/ 0 <= shares'[a] /\ shares'[a] < shares[a]
                /\ (\A x \in ShareAccounts \ {a} : shares'[x] >= shares[x]) /\ issued' = issued
      PROVE  Equity!LedgerNext
  <2>1. Equity!Issue(a) \/ Equity!Retire(a) \/ Equity!Pay(a)
    BY <1>1, <1>2, <1>5, EquitySums DEF Equity!Issue, Equity!Retire, Equity!Pay
  <2>2. Holding(shares)' = Equity!Holding(shares')
    BY <1>2 DEF Equity!Holding
  <2> QED
    BY <2>1, <2>2 DEF Equity!LedgerNext
<1> QED
  BY <1>3, <1>4, <1>5 DEF Entered

LEMMA ShareMovesMove ==
  ASSUME EquityInv, NEW from \in ShareAccounts, NEW to \in ShareAccounts, NEW n \in Shares, Property!Move(from, to, n)
  PROVE  EquityMoves /\ authorized' <= Authorized
<1>1. shares \in [ShareAccounts -> Nat] /\ n \in Nat
  BY EquityIs, Estate
<1>2. /\ shares' = [[shares EXCEPT ![from] = @ - n] EXCEPT ![to] = @ + n]
      /\ issued' = issued /\ authorized' = authorized
  BY DEF Property!Move
<1>3. \A x \in ShareAccounts \ {from} : shares'[x] >= shares[x]
  BY <1>1, <1>2
<1> QED
  BY <1>2, <1>3 DEF EquityMoves, Moves, EquityInv

LEMMA EquityStep ==
  EquityInv /\ [Property!Next]_shareVars => EquityInv' /\ [Equity!LedgerNext]_(Equity!ledgerVars)
<1> SUFFICES ASSUME EquityInv, [Property!Next]_shareVars PROVE EquityMoves /\ authorized' <= Authorized
  BY PropertyKept, EquityEnters DEF EquityInv, PropertyStep
<1>1. shares \in [ShareAccounts -> Nat] /\ authorized \in Int /\ authorized <= Authorized
  BY EquityIs DEF EquityInv
<1>2. CASE UNCHANGED <<shares, authorized>>
  BY <1>1, <1>2 DEF EquityMoves, Moves
<1>3. ASSUME NEW a \in ShareAccounts, NEW n \in Shares, Property!Mint(a, n)
      PROVE  EquityMoves /\ authorized' <= Authorized
  BY <1>1, <1>3 DEF Property!Mint, EquityMoves, Moves
<1>4. ASSUME NEW a \in ShareAccounts, NEW n \in Shares, Property!Buyback(a, n)
      PROVE  EquityMoves /\ authorized' <= Authorized
  <2>1. n \in Nat /\ authorized' = authorized - n /\ \A x \in ShareAccounts \ {a} : shares'[x] = shares[x]
    BY <1>1, <1>4, Estate DEF Property!Buyback
  <2> QED
    BY <1>1, <2>1, Estate DEF EquityMoves, Moves
<1>5. ASSUME NEW from \in ShareAccounts, NEW to \in ShareAccounts, NEW n \in Shares,
             \/ Property!Transfer(from, to, n) \/ Property!ForcedTransfer(from, to, n)
             \/ \E s \in ShareSpenders : Property!TransferFrom(s, from, to, n)
      PROVE  EquityMoves /\ authorized' <= Authorized
  BY <1>5, ShareMovesMove DEF Property!Transfer, Property!ForcedTransfer, Property!TransferFrom
<1>6. ASSUME NEW a \in ShareAccounts, NEW owed, NEW amount, Property!PayOut(a, owed, amount)
      PROVE  EquityMoves /\ authorized' <= Authorized
  BY <1>2, <1>6 DEF Property!PayOut
<1>7. ASSUME NEW a \in ShareAccounts,
             \/ Property!ClaimDividend(a) \/ Property!Settle(a)
             \/ \E kind \in Property!Typed : Property!ClaimTyped(a, kind)
      PROVE  EquityMoves /\ authorized' <= Authorized
  BY <1>6, <1>7 DEF Property!ClaimDividend, Property!Settle, Property!ClaimTyped
<1>8. ASSUME NEW amount \in Deposits, NEW kind \in Property!Kinds, Property!DepositDividend(amount, kind)
      PROVE  EquityMoves /\ authorized' <= Authorized
  BY <1>2, <1>8 DEF Property!DepositDividend
<1>9. ASSUME NEW to \in 2..3, NEW batch \in 0..2, Property!MigrateSchema(to, batch)
      PROVE  EquityMoves /\ authorized' <= Authorized
  BY <1>2, <1>9 DEF Property!MigrateSchema
<1>10. CASE Property!CollectDust
  BY <1>2, <1>10 DEF Property!CollectDust
<1>11. ASSUME NEW a \in ShareAccounts, NEW s \in ShareSpenders, NEW n \in Shares, NEW e \in 0..ShareNow,
              Property!Approve(a, s, n, e)
       PROVE  EquityMoves /\ authorized' <= Authorized
  BY <1>2, <1>11 DEF Property!Approve
<1>12. ASSUME NEW a \in SharesWatched, NEW s \in Property!Standings, Property!Reassess(a, s)
       PROVE  EquityMoves /\ authorized' <= Authorized
  BY <1>2, <1>12 DEF Property!Reassess
<1>13. CASE Property!Tick
  BY <1>2, <1>13 DEF Property!Tick
<1>14. CASE UNCHANGED shareVars
  BY <1>2, <1>14 DEF shareVars
<1> QED
  BY <1>3, <1>4, <1>5, <1>7, <1>8, <1>9, <1>10, <1>11, <1>12, <1>13, <1>14 DEF Property!Next

LEMMA EquityIsLedger == Property!Spec => Equity!LedgerSpec
<1>1. Property!Init => EquityInv
  BY PropertyStart, Estate DEF EquityInv, Property!Init
<1>2. EquityInv /\ [Property!Next]_(Property!propertyVars) => EquityInv' /\ [Equity!LedgerNext]_(Equity!ledgerVars)
  BY EquityStep DEF Property!propertyVars, Property!dividendVars, Property!holderVars, shareVars
<1> QED
  BY <1>1, <1>2, EquityStarts, PTL DEF Property!Spec, Equity!LedgerSpec

\* Every call of the three tokens is an issue to one account within the cap, a
\* retirement from one, a payment from one to others, or moves nothing, for
\* each invoice, the shares and the credits (AssetsImplementLedger).
THEOREM AssetsKeepLedgers == AssetSpec => AssetsImplementLedger
BY InvoiceIsLedger, CreditsAreLedger, EquityIsLedger DEF AssetSpec, AssetsImplementLedger
=============================================================================
