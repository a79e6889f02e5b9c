--------------------------- MODULE RwaToken_proofs ---------------------------
(***************************************************************************)
(* Screening and the supply cap of the token, for any accounts, amounts,   *)
(* batches and engine rules.  A plan asks about its sender and, leg by     *)
(* leg, about each recipient before it moves anything, and its legs are    *)
(* the only accounts it moves; only mints and burns move the supply.       *)
(*                                                                         *)
(* Then the token's administration, for every set of accounts, every       *)
(* guardian list and all bounds; and why the replay nonce works, for any   *)
(* number of signers, calls and deliveries.                                *)
(***************************************************************************)
EXTENDS RwaToken, Administration, SumLemmas, TLAPS

\* The strengthening of SupplyWithinCap: the supply is a number, and balances
\* are kept for the accounts.
LedgerInv ==
    /\ DOMAIN balance = Accounts
    /\ totalSupply \in Int
    /\ SupplyWithinCap

\* A plan that is executed: what every transfer and batch does.
PlanStep(from, legs) ==
    /\ PlanOk(from, legs)
    /\ ExecutePlan(from, legs)

----------------------------------------------------------------------------
(* What a batch pays, leg by leg *)

LEMMA LegsTyped ==
    ASSUME NEW legs \in Seq(Leg)
    PROVE  /\ Len(legs) \in Nat /\ DOMAIN legs = 1..Len(legs)
           /\ \A i \in 1..Len(legs) : legs[i].to \in Accounts /\ legs[i].amount \in Int
<1>1. \A i \in 1..Len(legs) : legs[i] \in Leg
    OBVIOUS
<1>2. \A l \in Leg : l.to \in Accounts /\ l.amount \in Int
    BY AmountsAreInts DEF Leg
<1> QED
    BY <1>1, <1>2

LegTo(legs, S, i) == IF legs[i].to \in S THEN legs[i].amount ELSE 0

IsPaid(legs, S, sum) ==
    sum = [i \in 0..Len(legs) |-> IF i = 0 THEN 0 ELSE sum[i - 1] + LegTo(legs, S, i)]

PaidUpTo(legs, S) == CHOOSE sum : IsPaid(legs, S, sum)

LEMMA PaidIs == ASSUME NEW legs, NEW S PROVE Paid(legs, S) = PaidUpTo(legs, S)[Len(legs)]
BY DEF Paid, PaidUpTo, IsPaid, LegTo

LEMMA PaidSteps ==
    ASSUME NEW legs \in Seq(Leg), NEW S
    PROVE  /\ PaidUpTo(legs, S) \in [0..Len(legs) -> Int]
           /\ PaidUpTo(legs, S)[0] = 0
           /\ \A i \in 1..Len(legs) :
                 PaidUpTo(legs, S)[i] = PaidUpTo(legs, S)[i - 1] + LegTo(legs, S, i)
<1> DEFINE n == Len(legs)
           step == [i \in 1..n |-> [v \in Int |-> v + LegTo(legs, S, i)]]
<1>1. n \in Nat /\ \A i \in 1..n : LegTo(legs, S, i) \in Int
    BY LegsTyped DEF LegTo
<1>2. step \in [1..n -> [Int -> Int]]
    BY <1>1
<1>3. \A i \in 1..n, v \in Int : step[i][v] = v + LegTo(legs, S, i)
    OBVIOUS
<1> HIDE DEF step
<1>4. PICK f \in [0..n -> Int] : f[0] = 0 /\ \A i \in 1..n : f[i] = step[i][f[i - 1]]
    <2> DEFINE D == Int
               first == 0
    <2>1. n \in Nat /\ first \in D /\ step \in [1..n -> [D -> D]]
        BY <1>1, <1>2
    <2> HIDE DEF n, D, first
    <2>2. \E f : Runs(f, D, first, n, step)
        BY <2>1, Recursion
    <2> QED
        BY <2>2 DEF Runs, D, first
<1>5. ASSUME NEW i \in 1..n
      PROVE  f[i] = f[i - 1] + LegTo(legs, S, i)
    <2>1. f[i - 1] \in Int
        BY <1>1
    <2> QED
        BY <1>3, <1>4, <2>1
<1>6. f = [i \in 0..n |-> IF i = 0 THEN 0 ELSE f[i - 1] + LegTo(legs, S, i)]
    <2>1. ASSUME NEW i \in 0..n
          PROVE  f[i] = IF i = 0 THEN 0 ELSE f[i - 1] + LegTo(legs, S, i)
        BY <1>1, <1>4, <1>5
    <2> QED
        BY <2>1, <1>4
<1>7. IsPaid(legs, S, PaidUpTo(legs, S))
    BY <1>6 DEF IsPaid, PaidUpTo
<1> DEFINE sum == PaidUpTo(legs, S)
<1> HIDE DEF sum
<1>8. sum = [i \in 0..n |-> IF i = 0 THEN 0 ELSE sum[i - 1] + LegTo(legs, S, i)]
    BY <1>7 DEF IsPaid, sum
<1>9. sum[0] = 0 /\ \A i \in 1..n : sum[i] = sum[i - 1] + LegTo(legs, S, i)
    <2>1. 0 \in 0..n /\ \A i \in 1..n : i \in 0..n /\ i # 0
        BY <1>1
    <2> HIDE DEF n
    <2> QED
        BY <1>8, <2>1
<1> DEFINE N == {i \in Nat : i <= n => sum[i] \in Int}
<1>10. Nat \subseteq N
    <2>1. 0 \in N
        BY <1>9
    <2>2. \A i \in Nat : i \in N => i + 1 \in N
        BY <1>1, <1>9
    <2> HIDE DEF N
    <2> QED
        BY <2>1, <2>2, Induction
<1>11. sum \in [0..n -> Int]
    BY <1>1, <1>8, <1>10
<1> QED
    BY <1>9, <1>11 DEF sum

LEMMA PaidTyped == ASSUME NEW legs \in Seq(Leg), NEW S PROVE Paid(legs, S) \in Int
BY PaidIs, PaidSteps

\* Legs of positive amounts pay two separate groups of accounts no more than they
\* pay in all.
LEMMA PaidApart ==
    ASSUME NEW legs \in Seq(Leg), \A i \in DOMAIN legs : legs[i].amount > 0,
           NEW S, NEW T, S \cap T = {}
    PROVE  Paid(legs, S) + Paid(legs, T) <= Paid(legs, Accounts)
<1> DEFINE n == Len(legs)
           f == PaidUpTo(legs, S)
           g == PaidUpTo(legs, T)
           h == PaidUpTo(legs, Accounts)
           N == {i \in Nat : i <= n => f[i] + g[i] <= h[i]}
<1>1. n \in Nat /\ DOMAIN legs = 1..n /\ \A i \in 1..n : legs[i].to \in Accounts /\ legs[i].amount \in Int
    BY LegsTyped
<1>2. /\ f \in [0..n -> Int] /\ f[0] = 0 /\ \A i \in 1..n : f[i] = f[i - 1] + LegTo(legs, S, i)
      /\ g \in [0..n -> Int] /\ g[0] = 0 /\ \A i \in 1..n : g[i] = g[i - 1] + LegTo(legs, T, i)
      /\ h \in [0..n -> Int] /\ h[0] = 0 /\ \A i \in 1..n : h[i] = h[i - 1] + LegTo(legs, Accounts, i)
    BY PaidSteps
<1>3. Paid(legs, S) = f[n] /\ Paid(legs, T) = g[n] /\ Paid(legs, Accounts) = h[n]
    BY PaidIs
<1> HIDE DEF f, g, h
<1>4. 0 \in N
    BY <1>2
<1>5. ASSUME NEW i \in Nat, i \in N
      PROVE  i + 1 \in N
    <2> SUFFICES ASSUME i + 1 <= n PROVE f[i + 1] + g[i + 1] <= h[i + 1]
        OBVIOUS
    <2>1. i + 1 \in 1..n /\ i \in 0..n /\ (i + 1) - 1 = i
        BY <1>1
    <2>2. LegTo(legs, S, i + 1) + LegTo(legs, T, i + 1) <= LegTo(legs, Accounts, i + 1)
        <3> DEFINE to == legs[i + 1].to
                   m == legs[i + 1].amount
        <3>1. to \in Accounts /\ m \in Int /\ m > 0
            BY <1>1, <2>1
        <3>2. ~ (to \in S /\ to \in T)
            OBVIOUS
        <3> HIDE DEF to, m
        <3>3. (IF to \in S THEN m ELSE 0) + (IF to \in T THEN m ELSE 0) <= (IF to \in Accounts THEN m ELSE 0)
            BY <3>1, <3>2
        <3> QED
            BY <3>3 DEF LegTo, to, m
    <2>3. /\ f[i + 1] = f[i] + LegTo(legs, S, i + 1)
          /\ g[i + 1] = g[i] + LegTo(legs, T, i + 1)
          /\ h[i + 1] = h[i] + LegTo(legs, Accounts, i + 1)
        BY <1>2, <2>1
    <2>4. /\ LegTo(legs, S, i + 1) \in Int /\ LegTo(legs, T, i + 1) \in Int
          /\ LegTo(legs, Accounts, i + 1) \in Int
          /\ f[i] \in Int /\ g[i] \in Int /\ h[i] \in Int
          /\ f[i] + g[i] <= h[i]
        <3>1. legs[i + 1].amount \in Int
            BY <1>1, <2>1
        <3>2. f[i] \in Int /\ g[i] \in Int /\ h[i] \in Int
            BY <1>2, <2>1
        <3>3. f[i] + g[i] <= h[i]
            BY <1>1, <1>5
        <3> QED
            BY <3>1, <3>2, <3>3 DEF LegTo
    <2> QED
        BY <2>2, <2>3, <2>4
<1>6. Nat \subseteq N
    <2> HIDE DEF N
    <2> QED
        BY <1>4, <1>5, Induction
<1> QED
    BY <1>1, <1>3, <1>6

\* They pay something to exactly their recipients.
LEMMA PaidShares ==
    ASSUME NEW legs \in Seq(Leg), \A i \in DOMAIN legs : legs[i].amount > 0, NEW S
    PROVE  Paid(legs, S) >= 0 /\ (Paid(legs, S) > 0 <=> S \cap Recipients(legs) # {})
<1> DEFINE n == Len(legs)
           f == PaidUpTo(legs, S)
           Met(i) == \E j \in 1..i : legs[j].to \in S
           N == {i \in Nat : i <= n => f[i] >= 0 /\ (f[i] > 0 <=> Met(i))}
<1>1. n \in Nat /\ DOMAIN legs = 1..n /\ \A i \in 1..n : legs[i].to \in Accounts /\ legs[i].amount \in Int
    BY LegsTyped
<1>2. f \in [0..n -> Int] /\ f[0] = 0 /\ \A i \in 1..n : f[i] = f[i - 1] + LegTo(legs, S, i)
    BY PaidSteps
<1>3. Paid(legs, S) = f[n]
    BY PaidIs
<1> HIDE DEF f
<1>4. 0 \in N
    BY <1>2
<1>5. ASSUME NEW i \in Nat, i \in N
      PROVE  i + 1 \in N
    <2> SUFFICES ASSUME i + 1 <= n PROVE f[i + 1] >= 0 /\ (f[i + 1] > 0 <=> Met(i + 1))
        OBVIOUS
    <2>1. i + 1 \in 1..n /\ i \in 0..n /\ (i + 1) - 1 = i
        BY <1>1
    <2>2. f[i + 1] = f[i] + LegTo(legs, S, i + 1) /\ f[i] \in Int /\ f[i] >= 0 /\ (f[i] > 0 <=> Met(i))
        BY <1>1, <1>2, <1>5, <2>1, SMTT(30)
    <2>3. Met(i + 1) <=> Met(i) \/ legs[i + 1].to \in S
        <3>1. \A j \in 1..(i + 1) : j \in 1..i \/ j = i + 1
            OBVIOUS
        <3>2. i + 1 \in 1..(i + 1) /\ \A j \in 1..i : j \in 1..(i + 1)
            OBVIOUS
        <3> QED
            BY <3>1, <3>2
    <2>4. /\ legs[i + 1].to \in S => LegTo(legs, S, i + 1) > 0 /\ LegTo(legs, S, i + 1) \in Int
          /\ legs[i + 1].to \notin S => LegTo(legs, S, i + 1) = 0
        BY <1>1, <2>1 DEF LegTo
    <2> HIDE DEF Met
    <2> QED
        BY <2>2, <2>3, <2>4
<1>6. Nat \subseteq N
    <2> HIDE DEF N
    <2> QED
        BY <1>4, <1>5, Induction
<1>7. Met(n) <=> S \cap Recipients(legs) # {}
    BY <1>1 DEF Recipients
<1>8. f[n] >= 0 /\ (f[n] > 0 <=> Met(n))
    BY <1>1, <1>6
<1> QED
    BY <1>3, <1>7, <1>8

\* Crediting every account with what it is paid adds what is paid in all.
LEMMA PaidInAll ==
    ASSUME NEW legs \in Seq(Leg), NEW b \in [Accounts -> Int]
    PROVE  SumFunction([a \in Accounts |-> b[a] + Paid(legs, {a})]) = SumFunction(b) + Paid(legs, Accounts)
<1> DEFINE n == Len(legs)
           after(i) == [a \in Accounts |-> b[a] + PaidUpTo(legs, {a})[i]]
           h == PaidUpTo(legs, Accounts)
           N == {i \in Nat : i <= n => SumFunction(after(i)) = SumFunction(b) + h[i]}
<1>1. n \in Nat /\ DOMAIN legs = 1..n /\ \A i \in 1..n : legs[i].to \in Accounts /\ legs[i].amount \in Int
    BY LegsTyped
<1>2. \A a \in Accounts :
         /\ PaidUpTo(legs, {a})[0] = 0
         /\ \A i \in 0..n : PaidUpTo(legs, {a})[i] \in Int
         /\ \A i \in 1..n : PaidUpTo(legs, {a})[i] = PaidUpTo(legs, {a})[i - 1] + LegTo(legs, {a}, i)
    BY PaidSteps
<1>3. h \in [0..n -> Int] /\ h[0] = 0 /\ \A i \in 1..n : h[i] = h[i - 1] + LegTo(legs, Accounts, i)
    BY PaidSteps
<1>4. \A i \in 0..n : after(i) \in [Accounts -> Int]
    BY <1>2
<1>5. SumFunction(b) \in Int
    BY AccountsFinite, SumOfFunction
<1> HIDE DEF h
<1>6. 0 \in N
    <2>1. ASSUME NEW a \in Accounts
          PROVE  b[a] + PaidUpTo(legs, {a})[0] = b[a]
        <3>1. b[a] \in Int /\ PaidUpTo(legs, {a})[0] = 0
            BY <1>2
        <3> QED
            BY <3>1
    <2>2. after(0) = b
        BY <2>1
    <2> HIDE DEF after
    <2> QED
        BY <1>3, <1>5, <2>2
<1>7. ASSUME NEW i \in Nat, i \in N
      PROVE  i + 1 \in N
    <2> SUFFICES ASSUME i + 1 <= n PROVE SumFunction(after(i + 1)) = SumFunction(b) + h[i + 1]
        OBVIOUS
    <2> DEFINE to == legs[i + 1].to
               m == legs[i + 1].amount
    <2>1. i + 1 \in 1..n /\ i + 1 \in 0..n /\ i \in 0..n /\ (i + 1) - 1 = i /\ to \in Accounts /\ m \in Int
        BY <1>1
    <2>2. \A a \in Accounts : after(i + 1)[a] = after(i)[a] + (IF a = to THEN m ELSE 0)
        <3>1. \A a \in Accounts : LegTo(legs, {a}, i + 1) = IF a = to THEN m ELSE 0
            BY DEF LegTo
        <3> SUFFICES ASSUME NEW a \in Accounts
                     PROVE  after(i + 1)[a] = after(i)[a] + (IF a = to THEN m ELSE 0)
            OBVIOUS
        <3> DEFINE p == PaidUpTo(legs, {a})
        <3>2. p[i + 1] = p[i] + LegTo(legs, {a}, i + 1) /\ p[i] \in Int
            BY <1>2, <2>1
        <3>3. after(i + 1)[a] = b[a] + p[i + 1] /\ after(i)[a] = b[a] + p[i] /\ b[a] \in Int
            OBVIOUS
        <3> HIDE DEF after, p, to, m
        <3> QED
            BY <2>1, <3>1, <3>2, <3>3
    <2>3. h[i + 1] = h[i] + m /\ h[i] \in Int
        BY <1>3, <2>1 DEF LegTo
    <2>4. SumFunction(after(i)) = SumFunction(b) + h[i]
        BY <1>7, <2>1
    <2>5. after(i) \in [Accounts -> Int] /\ after(i + 1) \in [Accounts -> Int]
        BY <1>4, <2>1
    <2> HIDE DEF after, to, m
    <2>6. SumFunction(after(i + 1)) = SumFunction(after(i)) + (after(i + 1)[to] - after(i)[to])
        <3> DEFINE old == after(i)
                   new == after(i + 1)
        <3>1. \A a \in Accounts : old[a] \in Int
            BY <2>5
        <3>2. \A a \in Accounts \ {to} : new[a] = old[a]
            BY <2>2, <3>1
        <3>3. old \in [Accounts -> Int] /\ new \in [Accounts -> Int] /\ IsFiniteSet(Accounts) /\ to \in Accounts
            BY <2>1, <2>5, AccountsFinite
        <3> HIDE DEF old, new
        <3>4. SumFunction(new) = SumFunction(old) + (new[to] - old[to])
            BY <3>2, <3>3, SumOfChange
        <3> QED
            BY <3>4 DEF old, new
    <2>7. after(i + 1)[to] - after(i)[to] = m
        BY <2>1, <2>2, <2>5
    <2> QED
        BY <1>5, <2>1, <2>3, <2>4, <2>6, <2>7
<1>8. Nat \subseteq N
    <2> HIDE DEF N
    <2> QED
        BY <1>6, <1>7, Induction
<1>9. after(n) = [a \in Accounts |-> b[a] + Paid(legs, {a})] /\ h[n] = Paid(legs, Accounts)
    BY PaidIs DEF h
<1>10. SumFunction(after(n)) = SumFunction(b) + h[n]
    <2>1. n \in N
        <3> HIDE DEF N, n
        <3> QED
            BY <1>1, <1>8
    <2>2. n <= n => SumFunction(after(n)) = SumFunction(b) + h[n]
        <3> HIDE DEF after
        <3> QED
            BY <2>1
    <2> QED
        BY <1>1, <2>2
<1> HIDE DEF after, n
<1> QED
    BY <1>9, <1>10

----------------------------------------------------------------------------
LEMMA LegsAreSequences ==
    /\ \A to \in Accounts, m \in Amounts : <<[to |-> to, amount |-> m]>> \in Seq(Leg)
    /\ \A legs \in Batches : legs \in Seq(Leg)
<1>1. ASSUME NEW x \in Leg PROVE <<x>> \in Seq(Leg)
    OBVIOUS
<1>2. ASSUME NEW n \in 2..MaxBatch, NEW legs \in [1..n -> Leg] PROVE legs \in Seq(Leg)
    BY <1>2
<1> QED
    BY <1>1, <1>2 DEF Leg, Batches

\* What a plan has checked about every account whose balance it moves.
LEMMA PlanScreens ==
    ASSUME NEW from, NEW legs \in Seq(Leg), PlanStep(from, legs),
           NEW a \in Accounts, balance'[a] # balance[a]
    PROVE  /\ a \in kycApproved
           /\ a \notin frozen
           /\ a \notin blocked
           /\ ~paused
<1>1. a = from \/ a \in Recipients(legs)
    BY DEF PlanStep, ExecutePlan
<1>2. /\ SenderOk(from)
      /\ \A i \in DOMAIN legs : RecipientOk(from, legs[i])
      /\ Len(legs) \in 1..MaxBatch
    BY DEF PlanStep, PlanOk
<1>3. CASE a \in Recipients(legs)
    <2>1. PICK i \in DOMAIN legs : legs[i].to = a
        BY <1>3 DEF Recipients
    <2> QED
        BY <1>2, <2>1 DEF RecipientOk, EngineAllows
<1>4. CASE a = from
    <2>1. 1 \in DOMAIN legs
        BY <1>2, BoundsAreNats
    <2> QED
        BY <1>2, <1>4, <2>1 DEF SenderOk, RecipientOk, EngineAllows
<1> QED
    BY <1>1, <1>3, <1>4

\* Every step that moves a balance is a plan, a mint or a burn.
LEMMA StepKinds ==
    ASSUME [Next]_vars
    PROVE  \/ \E from \in Accounts, legs \in Seq(Leg) : PlanStep(from, legs)
           \/ \E c, to \in Accounts, m \in Amounts : Mint(c, to, m)
           \/ \E from \in Accounts, m \in Amounts : BurnHoldings(from, m)
           \/ UNCHANGED <<balance, totalSupply>>
<1>1. ASSUME NEW from \in Accounts, NEW to \in Accounts, NEW m \in Amounts,
             Transfer(from, to, m) \/ \E s \in Spenders : TransferFrom(s, from, to, m)
      PROVE  \E legs \in Seq(Leg) : PlanStep(from, legs)
    BY <1>1, LegsAreSequences
    DEF Transfer, TransferFrom, BatchTransfer, BatchTransferFrom, PlanStep
<1>2. ASSUME NEW from \in Accounts, NEW legs \in Batches,
             BatchTransfer(from, legs) \/ \E s \in Spenders : BatchTransferFrom(s, from, legs)
      PROVE  \E l \in Seq(Leg) : PlanStep(from, l)
    BY <1>2, LegsAreSequences DEF BatchTransfer, BatchTransferFrom, PlanStep
<1>3. ASSUME NEW from \in Accounts, NEW m \in Amounts,
             Burn(from, m) \/ \E s \in Spenders : BurnFrom(s, from, m)
      PROVE  BurnHoldings(from, m)
    BY <1>3 DEF Burn, BurnFrom
<1>4. ASSUME NEW from \in Accounts, NEW s \in Spenders, NEW m \in Amounts, NEW e \in 0..MaxLedger,
             Approve(from, s, m, e)
      PROVE  UNCHANGED <<balance, totalSupply>>
    BY <1>4 DEF Approve
<1>5. ASSUME NEW a, \/ \E c \in Accounts, f \in BOOLEAN : SetFrozen(c, a, f)
                    \/ KycChange(a) \/ BlockChange(a)
      PROVE  UNCHANGED <<balance, totalSupply>>
    BY <1>5 DEF SetFrozen, KycChange, BlockChange, tokenVars
<1>6. ASSUME \/ \E cap \in Caps, stop \in BOOLEAN : ChangeRules(cap, stop)
             \/ Tick \/ UNCHANGED vars
      PROVE  UNCHANGED <<balance, totalSupply>>
    BY <1>6 DEF ChangeRules, Tick, vars, tokenVars
<1> QED
    BY <1>1, <1>2, <1>3, <1>4, <1>5, <1>6 DEF Next

----------------------------------------------------------------------------
LEMMA LedgerInvHolds == Spec => []LedgerInv
<1>1. Init => LedgerInv
    BY BoundsAreNats DEF Init, LedgerInv, SupplyWithinCap
<1>2. LedgerInv /\ [Next]_vars => LedgerInv'
    <2> SUFFICES ASSUME LedgerInv, [Next]_vars PROVE LedgerInv'
        OBVIOUS
    <2>1. ASSUME NEW from \in Accounts, NEW legs \in Seq(Leg), PlanStep(from, legs)
          PROVE  LedgerInv'
        BY <2>1 DEF PlanStep, ExecutePlan, LedgerInv, SupplyWithinCap
    <2>2. ASSUME NEW c \in Accounts, NEW to \in Accounts, NEW m \in Amounts, Mint(c, to, m)
          PROVE  LedgerInv'
        BY <2>2, AmountsAreInts DEF Mint, WithinSupply, LedgerInv, SupplyWithinCap
    <2>3. ASSUME NEW from \in Accounts, NEW m \in Amounts, BurnHoldings(from, m)
          PROVE  LedgerInv'
        BY <2>3, AmountsAreInts, BoundsAreNats DEF BurnHoldings, LedgerInv, SupplyWithinCap
    <2>4. CASE UNCHANGED <<balance, totalSupply>>
        BY <2>4 DEF LedgerInv, SupplyWithinCap
    <2> QED
        BY <2>1, <2>2, <2>3, <2>4, StepKinds
<1> QED
    BY <1>1, <1>2, PTL DEF Spec

\* The supply stays within the configured cap.
THEOREM SupplyCapped == Spec => []SupplyWithinCap
BY LedgerInvHolds, PTL DEF LedgerInv

\* What a step that moves an account's balance says about that account.
LEMMA MoveScreens ==
    ASSUME LedgerInv, [Next]_vars, NEW a \in Accounts, balance'[a] # balance[a]
    PROVE  /\ a \in kycApproved
           /\ totalSupply' # totalSupply \/ (~paused /\ a \notin blocked)
<1>1. ASSUME NEW from \in Accounts, NEW legs \in Seq(Leg), PlanStep(from, legs)
      PROVE  a \in kycApproved /\ ~paused /\ a \notin blocked
    BY <1>1, PlanScreens
<1>2. ASSUME NEW c \in Accounts, NEW to \in Accounts, NEW m \in Amounts, Mint(c, to, m)
      PROVE  a \in kycApproved /\ totalSupply' # totalSupply
    <2>1. m > 0 /\ to \in kycApproved /\ totalSupply' = totalSupply + m
          /\ balance' = [balance EXCEPT ![to] = @ + m]
        BY <1>2 DEF Mint
    <2>2. a = to
        BY <2>1 DEF LedgerInv
    <2> QED
        BY <2>1, <2>2, AmountsAreInts DEF LedgerInv
<1>3. ASSUME NEW from \in Accounts, NEW m \in Amounts, BurnHoldings(from, m)
      PROVE  a \in kycApproved /\ totalSupply' # totalSupply
    <2>1. m > 0 /\ from \in kycApproved /\ totalSupply' = totalSupply - m
          /\ balance' = [balance EXCEPT ![from] = @ - m]
        BY <1>3 DEF BurnHoldings, SenderOk
    <2>2. a = from
        BY <2>1 DEF LedgerInv
    <2> QED
        BY <2>1, <2>2, AmountsAreInts DEF LedgerInv
<1> QED
    BY <1>1, <1>2, <1>3, StepKinds

\* A balance the registry does not vouch for does not move.
THEOREM UnapprovedStays == Spec => UnapprovedNeverMoves
<1>1. LedgerInv /\ [Next]_vars =>
          [\A a \in Accounts \ kycApproved : balance'[a] = balance[a]]_vars
    BY MoveScreens
<1> QED
    BY <1>1, LedgerInvHolds, PTL DEF Spec, UnapprovedNeverMoves

\* No value passes between accounts while the engine is paused, or from or to an
\* account its rules deny.
THEOREM DeniedStays == Spec => DeniedNeverTransfers
<1>1. LedgerInv /\ [Next]_vars =>
          [\A a \in Accounts : balance'[a] # balance[a] /\ (paused \/ a \in blocked)
             => totalSupply' # totalSupply]_vars
    BY MoveScreens
<1> QED
    BY <1>1, LedgerInvHolds, PTL DEF Spec, DeniedNeverTransfers

----------------------------------------------------------------------------
(* The books: balances and supply, the registry of holders, allowances *)

\* What a plan does to balances: the sender is debited by what goes to others,
\* every other account is credited with its legs, and nothing is lost.
LEMMA PlanBalances ==
    ASSUME TypeOK, NEW from \in Accounts, NEW legs \in Seq(Leg), PlanStep(from, legs)
    PROVE  /\ Paid(legs, Accounts) \in Nat \ {0}
           /\ Paid(legs, Accounts) <= balance[from]
           /\ NetOutgoing(from, legs) \in Nat
           /\ \A a \in Accounts : Paid(legs, {a}) \in Nat /\ (Paid(legs, {a}) > 0 <=> a \in Recipients(legs))
           /\ balance' \in [Accounts -> Nat]
           /\ balance'[from] = balance[from] - NetOutgoing(from, legs)
           /\ \A a \in Accounts \ {from} : balance'[a] = balance[a] + Paid(legs, {a})
           /\ SumFunction(balance') = SumFunction(balance)
           /\ NetOutgoing(from, legs) = 0 => balance' = balance
<1> DEFINE paid(a) == Paid(legs, {a})
           total == Paid(legs, Accounts)
           credited == [a \in Accounts |-> balance[a] + paid(a)]
<1>1. /\ \A i \in DOMAIN legs : legs[i].amount > 0
      /\ Len(legs) \in 1..MaxBatch
      /\ balance[from] >= total
    BY DEF PlanStep, PlanOk, RecipientOk
<1>2. balance \in [Accounts -> Nat] /\ \A a \in Accounts : balance[a] \in Nat /\ balance[a] \in Int
    BY DEF TypeOK
<1>3. \A a \in Accounts : paid(a) \in Nat /\ (paid(a) > 0 <=> a \in Recipients(legs))
    BY <1>1, PaidTyped, PaidShares
<1>4. total \in Nat \ {0}
    <2>1. legs[1].to \in Accounts /\ 1 \in DOMAIN legs
        BY <1>1, LegsTyped, BoundsAreNats
    <2>2. Accounts \cap Recipients(legs) # {}
        BY <2>1 DEF Recipients
    <2>3. total \in Int /\ total > 0
        BY <1>1, <2>2, PaidTyped, PaidShares
    <2> QED
        BY <2>3
<1>5. \A a, b \in Accounts : a # b => paid(a) + paid(b) <= total
    BY <1>1, PaidApart
<1>6. \A a \in Accounts : paid(a) <= total
    <2>1. Paid(legs, {}) \in Int /\ Paid(legs, {}) >= 0
        BY <1>1, PaidTyped, PaidShares
    <2>2. \A a \in Accounts : paid(a) + Paid(legs, {}) <= total
        BY <1>1, PaidApart
    <2> HIDE DEF paid, total
    <2> QED
        BY <1>3, <1>4, <2>1, <2>2
<1>7. SumFunction(credited) = SumFunction(balance) + total
    <2>1. balance \in [Accounts -> Int]
        BY <1>2
    <2> QED
        BY <2>1, PaidInAll
<1>8. balance' = [a \in Accounts |-> IF a = from THEN balance[from] - (total - paid(from))
                                     ELSE IF a \in Recipients(legs) THEN balance[a] + paid(a) ELSE balance[a]]
    BY DEF PlanStep, ExecutePlan, SenderAfter, NetOutgoing
<1>9. NetOutgoing(from, legs) = total - paid(from)
    BY DEF NetOutgoing
<1> HIDE DEF paid, total
<1>10. total - paid(from) \in Nat /\ balance[from] - (total - paid(from)) \in Nat
    BY <1>1, <1>2, <1>3, <1>4, <1>6
<1>11. \A a \in Accounts \ {from} : balance'[a] = balance[a] + paid(a)
    <2> SUFFICES ASSUME NEW a \in Accounts \ {from} PROVE balance'[a] = balance[a] + paid(a)
        OBVIOUS
    <2>1. CASE a \in Recipients(legs)
        BY <1>8, <2>1
    <2>2. CASE a \notin Recipients(legs)
        <3>1. paid(a) = 0 /\ balance[a] \in Nat
            BY <1>2, <1>3, <2>2
        <3>2. balance'[a] = balance[a]
            BY <1>8, <2>2
        <3> QED
            BY <3>1, <3>2
    <2> QED
        BY <2>1, <2>2
<1>12. balance'[from] = balance[from] - (total - paid(from))
    BY <1>8
<1>13. balance' \in [Accounts -> Nat]
    <2>1. \A a \in Accounts : balance'[a] \in Nat
        BY <1>2, <1>3, <1>10, <1>11, <1>12
    <2> QED
        BY <1>8, <2>1
<1>14. SumFunction(balance') = SumFunction(balance)
    <2>1. \A a \in Accounts : credited[a] = balance[a] + paid(a) /\ credited[a] \in Int
        BY <1>2, <1>3
    <2>2. credited \in [Accounts -> Int] /\ balance' \in [Accounts -> Int]
        BY <1>13, <2>1
    <2> HIDE DEF credited
    <2>3. \A a \in Accounts \ {from} : balance'[a] = credited[a]
        BY <1>11, <2>1
    <2>4. SumFunction(balance') = SumFunction(credited) + (balance'[from] - credited[from])
        BY <2>2, <2>3, AccountsFinite, SumOfChange
    <2>5. balance'[from] - credited[from] = -total
        BY <1>2, <1>3, <1>4, <1>12, <2>1
    <2>6. SumFunction(balance) \in Int
        <3>1. balance \in [Accounts -> Int]
            BY <1>2
        <3> QED
            BY <3>1, AccountsFinite, SumOfFunction
    <2> QED
        BY <1>4, <1>7, <2>4, <2>5, <2>6
<1>15. ASSUME total - paid(from) = 0
       PROVE  balance' = balance
    <2>1. \A a \in Accounts \ {from} : paid(a) = 0
        BY <1>3, <1>4, <1>5, <1>15
    <2>2. \A a \in Accounts : balance'[a] = balance[a]
        BY <1>2, <1>11, <1>12, <1>15, <2>1
    <2> QED
        BY <1>2, <1>13, <2>2
<1> QED
    BY <1>1, <1>3, <1>4, <1>9, <1>10, <1>11, <1>12, <1>13, <1>14, <1>15 DEF paid, total

\* The counter follows the set: the saturating subtraction never saturates.
LEMMA RegistryCounts ==
    ASSUME NEW New \in SUBSET Accounts, NEW Gone, UpdateRegistry(New, Gone),
           holders \in SUBSET Accounts, holderCount = Cardinality(holders)
    PROVE  /\ holders' = (holders \cup New) \ Gone
           /\ holders' \in SUBSET Accounts
           /\ holderCount' = Cardinality(holders')
           /\ holderCount' \in Nat
           /\ holderCount' = holderCount + Cardinality(New \ holders)
                                - Cardinality(Gone \cap (holders \cup New))
<1> DEFINE all == holders \cup New
           out == Gone \cap all
           joined == New \ holders
<1>1. IsFiniteSet(holders) /\ IsFiniteSet(New) /\ IsFiniteSet(New \ holders) /\ IsFiniteSet(all)
    BY AccountsFinite, FS_Subset
<1>2. Cardinality(all) = Cardinality(holders) + Cardinality(joined)
    <2>1. all = holders \cup joined /\ holders \cap joined = {} /\ IsFiniteSet(joined)
        BY <1>1
    <2>2. Cardinality({}) = 0
        BY FS_EmptySet
    <2> HIDE DEF all, joined
    <2>3. Cardinality(holders) \in Nat /\ Cardinality(joined) \in Nat
        BY <1>1, <2>1, FS_CardinalityType
    <2>4. Cardinality(holders \cup joined) =
             Cardinality(holders) + Cardinality(joined) - Cardinality(holders \cap joined)
        BY <1>1, <2>1, FS_Union
    <2> QED
        BY <2>1, <2>2, <2>3, <2>4
<1>3. Cardinality(all \ Gone) = Cardinality(all) - Cardinality(out)
    <2>1. all \cap Gone = out
        OBVIOUS
    <2> HIDE DEF all, out
    <2>2. Cardinality(all \ Gone) = Cardinality(all) - Cardinality(all \cap Gone)
        BY <1>1, FS_Difference
    <2> QED
        BY <2>1, <2>2
<1>4. Cardinality(all) \in Nat /\ Cardinality(out) \in Nat /\ Cardinality(out) <= Cardinality(all)
    <2>1. IsFiniteSet(out) /\ Cardinality(out) <= Cardinality(all)
        BY <1>1, FS_Subset
    <2> QED
        BY <1>1, <2>1, FS_CardinalityType
<1>5. holders' = all \ Gone /\ holderCount' = SatSub(Cardinality(all), Cardinality(out))
    BY <1>2 DEF UpdateRegistry
<1>6. holderCount' = Cardinality(all) - Cardinality(out)
    BY <1>4, <1>5 DEF SatSub
<1>7. holders' = all \ Gone /\ all \ Gone \in SUBSET Accounts
    BY <1>5
<1>8. holderCount' = Cardinality(holders') /\ holderCount' \in Nat
    <2> HIDE DEF all, out
    <2> QED
        BY <1>3, <1>4, <1>6, <1>7
<1>9. holderCount' = holderCount + Cardinality(joined) - Cardinality(out)
    <2>1. Cardinality(holders) \in Nat /\ Cardinality(joined) \in Nat
        BY <1>1, FS_CardinalityType
    <2> HIDE DEF all, out, joined
    <2> QED
        BY <1>2, <1>4, <1>6, <2>1
<1> QED
    BY <1>7, <1>8, <1>9

\* Spending on somebody's behalf, or on one's own.
Spending(from, amount) ==
    \/ UNCHANGED <<allowance, grant>>
    \/ \E s \in Spenders : SpendAllowance(from, s, amount) /\ Record(from, s, amount)

\* Steps of the contracts around the token.
Around ==
    \/ \E c \in Accounts, a \in Screened, f \in BOOLEAN : SetFrozen(c, a, f)
    \/ \E a \in Screened : KycChange(a)
    \/ \E a \in Screened \cup {Token} : BlockChange(a)
    \/ \E cap \in Caps, stop \in BOOLEAN : ChangeRules(cap, stop)
    \/ Tick
    \/ UNCHANGED vars

LEMMA StepParts ==
    ASSUME [Next]_vars
    PROVE  \/ \E from \in Accounts, legs \in Seq(Leg) :
                 PlanStep(from, legs) /\ Spending(from, Paid(legs, Accounts))
           \/ \E c, to \in Accounts, m \in Amounts : Mint(c, to, m)
           \/ \E from \in Accounts, m \in Amounts : BurnHoldings(from, m) /\ Spending(from, m)
           \/ \E from \in Accounts, s \in Spenders, m \in Amounts, e \in 0..MaxLedger : Approve(from, s, m, e)
           \/ Around
<1>1. ASSUME NEW from \in Accounts, NEW legs \in Seq(Leg),
             BatchTransfer(from, legs) \/ \E s \in Spenders : BatchTransferFrom(s, from, legs)
      PROVE  PlanStep(from, legs) /\ Spending(from, Paid(legs, Accounts))
    BY <1>1 DEF BatchTransfer, BatchTransferFrom, PlanStep, Spending
<1>2. ASSUME NEW from \in Accounts, NEW to \in Accounts, NEW m \in Amounts,
             Transfer(from, to, m) \/ \E s \in Spenders : TransferFrom(s, from, to, m)
      PROVE  \E legs \in Seq(Leg) : PlanStep(from, legs) /\ Spending(from, Paid(legs, Accounts))
    BY <1>1, <1>2, LegsAreSequences DEF Transfer, TransferFrom
<1>3. ASSUME NEW from \in Accounts, NEW legs \in Batches,
             BatchTransfer(from, legs) \/ \E s \in Spenders : BatchTransferFrom(s, from, legs)
      PROVE  \E l \in Seq(Leg) : PlanStep(from, l) /\ Spending(from, Paid(l, Accounts))
    BY <1>1, <1>3, LegsAreSequences
<1>4. ASSUME NEW from \in Accounts, NEW m \in Amounts,
             Burn(from, m) \/ \E s \in Spenders : BurnFrom(s, from, m)
      PROVE  BurnHoldings(from, m) /\ Spending(from, m)
    BY <1>4 DEF Burn, BurnFrom, Spending
<1> QED
    BY <1>2, <1>3, <1>4 DEF Next, Around

\* The account at either end of a step that changes one balance.
LEMMA OneBalance ==
    ASSUME balance \in [Accounts -> Nat], NEW a \in Accounts, NEW v \in Nat,
           balance' = [balance EXCEPT ![a] = v]
    PROVE  /\ balance' \in [Accounts -> Nat] /\ balance'[a] = v
           /\ \A b \in Accounts \ {a} : balance'[b] = balance[b]
           /\ SumFunction(balance') = SumFunction(balance) + (v - balance[a])
<1>1. balance' \in [Accounts -> Nat] /\ balance'[a] = v /\ \A b \in Accounts \ {a} : balance'[b] = balance[b]
    OBVIOUS
<1> DEFINE new == balance'
<1>2. balance \in [Accounts -> Int] /\ new \in [Accounts -> Int]
    BY <1>1
<1>3. \A b \in Accounts \ {a} : new[b] = balance[b]
    BY <1>1
<1>4. SumFunction(new) = SumFunction(balance) + (new[a] - balance[a])
    <2> HIDE DEF new
    <2> QED
        BY <1>2, <1>3, AccountsFinite, SumOfChange
<1> QED
    BY <1>1, <1>4

\* A plan registers who joins and releases who leaves.
LEMMA PlanRegistry ==
    ASSUME TypeOK, RegistryMirrorsBalances,
           NEW from \in Accounts, NEW legs \in Seq(Leg), PlanStep(from, legs)
    PROVE  /\ holders' = {a \in Accounts : balance'[a] > 0}
           /\ holderCount' = Cardinality(holders') /\ holderCount' \in Nat
           /\ holders' \ holders = NewHolders(from, legs)
           /\ holderCount' = holderCount + Cardinality(NewHolders(from, legs))
                                - Cardinality(Leaving(from, legs))
<1> DEFINE New == NewHolders(from, legs)
           Gone == Leaving(from, legs)
<1>1. UpdateRegistry(New, Gone)
    BY DEF PlanStep, ExecutePlan
<1>2. balance \in [Accounts -> Nat] /\ holders \in SUBSET Accounts /\ holderCount = Cardinality(holders)
      /\ \A a \in Accounts : a \in holders <=> balance[a] > 0
    BY DEF TypeOK, RegistryMirrorsBalances
<1>3. Recipients(legs) \subseteq Accounts
    BY LegsTyped DEF Recipients
<1>4. New \in SUBSET Accounts /\ New \cap holders = {}
    BY <1>2, <1>3 DEF NewHolders
<1>5. /\ holders' = (holders \cup New) \ Gone
      /\ holderCount' = Cardinality(holders') /\ holderCount' \in Nat
      /\ holderCount' = holderCount + Cardinality(New \ holders) - Cardinality(Gone \cap (holders \cup New))
    BY <1>1, <1>2, <1>4, RegistryCounts
<1>6. balance[from] > 0 /\ Gone = (IF balance'[from] = 0 THEN {from} ELSE {})
      /\ balance'[from] \in Nat
    BY <1>2, PlanBalances DEF Leaving, SenderAfter
<1>7. New \ holders = New /\ Gone \cap (holders \cup New) = Gone
    BY <1>2, <1>4, <1>6
<1>8. ASSUME NEW a \in Accounts
      PROVE  a \in holders' <=> balance'[a] > 0
    <2>1. CASE a = from
        BY <1>2, <1>5, <1>6, <2>1
    <2>2. CASE a # from
        <3>1. balance'[a] = balance[a] + Paid(legs, {a}) /\ balance[a] \in Nat /\ Paid(legs, {a}) \in Nat
              /\ (Paid(legs, {a}) > 0 <=> a \in Recipients(legs))
            BY <1>2, <2>2, PlanBalances
        <3>2. a \in New <=> a \in Recipients(legs) /\ balance[a] = 0
            BY <2>2 DEF NewHolders
        <3>3. a \in holders' <=> a \in holders \/ a \in New
            BY <1>5, <1>6, <2>2
        <3> HIDE DEF New
        <3> QED
            BY <1>2, <3>1, <3>2, <3>3
    <2> QED
        BY <2>1, <2>2
<1>9. holders' \subseteq Accounts /\ holders' \ holders = New
    <2>1. from \notin New
        BY DEF NewHolders
    <2> QED
        BY <1>2, <1>4, <1>5, <1>6, <2>1
<1> QED
    BY <1>5, <1>7, <1>8, <1>9

\* What is spent comes out of what was allowed.
LEMMA SpendingAccounted ==
    ASSUME TypeOK, AllowanceAccounted,
           NEW from \in Accounts, NEW amount \in Int, amount > 0, Spending(from, amount)
    PROVE  /\ allowance' \in [Accounts -> [Accounts -> [amount : Int, expiry : Nat]]]
           /\ grant' \in [Accounts -> [Accounts -> [amount : Int, spent : Nat]]]
           /\ AllowanceAccounted'
           /\ \A a, s \in Accounts : grant'[a][s].spent > grant[a][s].spent => ledger < allowance[a][s].expiry
<1> DEFINE Allowed == [amount : Int, expiry : Nat]
           Granted == [amount : Int, spent : Nat]
<1>1. /\ allowance \in [Accounts -> [Accounts -> Allowed]]
      /\ grant \in [Accounts -> [Accounts -> Granted]]
      /\ ledger \in Nat
    BY DEF TypeOK
<1>2. \A a, s \in Accounts : /\ allowance[a][s] \in Allowed /\ grant[a][s] \in Granted
                             /\ grant[a][s].spent \in Nat
    BY <1>1
<1>3. CASE UNCHANGED <<allowance, grant>>
    BY <1>1, <1>2, <1>3 DEF AllowanceAccounted
<1>4. ASSUME NEW s \in Spenders, SpendAllowance(from, s, amount), Record(from, s, amount)
      PROVE  /\ allowance' \in [Accounts -> [Accounts -> Allowed]]
             /\ grant' \in [Accounts -> [Accounts -> Granted]]
             /\ AllowanceAccounted'
             /\ \A a, t \in Accounts : grant'[a][t].spent > grant[a][t].spent => ledger < allowance[a][t].expiry
    <2> DEFINE old == allowance[from][s]
               given == grant[from][s]
               left == old.amount - amount
               new == IF left = 0 THEN NoAllowance ELSE [old EXCEPT !.amount = left]
               now == [given EXCEPT !.spent = @ + amount]
    <2>1. s \in Accounts
        BY ActorsAreAccounts
    <2>2. old \in Allowed /\ given \in Granted
        BY <1>2, <2>1
    <2>3. old.amount \in Int /\ old.expiry \in Nat /\ given.amount \in Int /\ given.spent \in Nat
        BY <2>2
    <2>4. /\ given.spent + old.amount = given.amount
        BY <2>1 DEF AllowanceAccounted
    <2>5. /\ ledger < old.expiry /\ left >= 0
          /\ allowance' = [allowance EXCEPT ![from][s] = new]
          /\ grant' = [grant EXCEPT ![from][s].spent = @ + amount]
        <3>1. Spendable(from, s) - amount >= 0
            BY <1>4 DEF SpendAllowance
        <3>2. ~ (old.expiry <= ledger)
            BY <3>1 DEF Spendable
        <3>3. Spendable(from, s) = old.amount
            BY <3>2 DEF Spendable
        <3> QED
            BY <1>1, <1>4, <2>3, <3>1, <3>2, <3>3 DEF SpendAllowance, Record
    <2>6. new \in Allowed /\ new.amount = left
        BY <2>2, <2>3, <2>5 DEF NoAllowance
    <2>7. now \in Granted /\ now.amount = given.amount /\ now.spent = given.spent + amount
        BY <2>2, <2>3, <2>5
    <2>8. /\ allowance' \in [Accounts -> [Accounts -> Allowed]]
          /\ allowance'[from][s] = new
          /\ \A a, t \in Accounts : a # from \/ t # s => allowance'[a][t] = allowance[a][t]
        <3> HIDE DEF new, Allowed
        <3> QED
            BY <1>1, <2>1, <2>5, <2>6
    <2>9. /\ grant' \in [Accounts -> [Accounts -> Granted]]
          /\ grant'[from][s] = now
          /\ \A a, t \in Accounts : a # from \/ t # s => grant'[a][t] = grant[a][t]
        <3>1. grant' = [grant EXCEPT ![from][s] = now]
            BY <1>1, <2>1, <2>5
        <3> HIDE DEF now, Granted
        <3> QED
            BY <1>1, <2>1, <2>7, <3>1
    <2>10. AllowanceAccounted'
        <3> SUFFICES ASSUME NEW a \in Accounts, NEW t \in Accounts
                     PROVE  /\ grant'[a][t].spent + allowance'[a][t].amount = grant'[a][t].amount
                            /\ grant'[a][t].spent > 0 => grant'[a][t].spent <= grant'[a][t].amount
            BY DEF AllowanceAccounted
        <3>1. CASE a = from /\ t = s
            <4>1. grant'[a][t].spent = given.spent + amount /\ grant'[a][t].amount = given.amount
                  /\ allowance'[a][t].amount = left
                BY <2>6, <2>7, <2>8, <2>9, <3>1
            <4> QED
                BY <2>3, <2>4, <2>5, <4>1
        <3>2. CASE a # from \/ t # s
            <4>1. grant'[a][t] = grant[a][t] /\ allowance'[a][t] = allowance[a][t]
                BY <2>8, <2>9, <3>2
            <4> QED
                BY <4>1 DEF AllowanceAccounted
        <3> QED
            BY <3>1, <3>2
    <2>11. ASSUME NEW a \in Accounts, NEW t \in Accounts, grant'[a][t].spent > grant[a][t].spent
           PROVE  ledger < allowance[a][t].expiry
        <3>1. ~ (grant[a][t].spent > grant[a][t].spent)
            BY <1>2
        <3>2. a = from /\ t = s
            BY <2>9, <2>11, <3>1
        <3> QED
            BY <2>5, <3>2
    <2> QED
        BY <2>8, <2>9, <2>10, <2>11
<1> QED
    BY <1>3, <1>4 DEF Spending

\* An approval starts the account anew.
LEMMA ApproveAccounted ==
    ASSUME TypeOK, AllowanceAccounted, NEW from \in Accounts, NEW s \in Spenders,
           NEW m \in Amounts, NEW e \in 0..MaxLedger, Approve(from, s, m, e)
    PROVE  /\ allowance' \in [Accounts -> [Accounts -> [amount : Int, expiry : Nat]]]
           /\ grant' \in [Accounts -> [Accounts -> [amount : Int, spent : Nat]]]
           /\ AllowanceAccounted'
           /\ \A a, t \in Accounts : ~ (grant'[a][t].spent > grant[a][t].spent)
<1> DEFINE new == [amount |-> m, expiry |-> e]
           now == [amount |-> m, spent |-> 0]
           Allowed == [amount : Int, expiry : Nat]
           Granted == [amount : Int, spent : Nat]
<1>1. s \in Accounts /\ m \in Int /\ e \in Nat
    BY ActorsAreAccounts, AmountsAreInts, BoundsAreNats
<1>2. new \in Allowed /\ now \in Granted
    BY <1>1
<1>3. /\ allowance \in [Accounts -> [Accounts -> Allowed]]
      /\ grant \in [Accounts -> [Accounts -> Granted]]
    BY DEF TypeOK
<1>4. /\ allowance' \in [Accounts -> [Accounts -> Allowed]]
      /\ allowance'[from][s] = new
      /\ \A a, t \in Accounts : a # from \/ t # s => allowance'[a][t] = allowance[a][t]
    <2>1. allowance' = [allowance EXCEPT ![from][s] = new]
        BY DEF Approve
    <2> HIDE DEF new, Allowed
    <2> QED
        BY <1>1, <1>2, <1>3, <2>1
<1>5. /\ grant' \in [Accounts -> [Accounts -> Granted]]
      /\ grant'[from][s] = now
      /\ \A a, t \in Accounts : a # from \/ t # s => grant'[a][t] = grant[a][t]
    <2>1. grant' = [grant EXCEPT ![from][s] = now]
        BY DEF Approve
    <2> HIDE DEF now, Granted
    <2> QED
        BY <1>1, <1>2, <1>3, <2>1
<1>6. ASSUME NEW a \in Accounts, NEW t \in Accounts
      PROVE  /\ grant'[a][t].spent + allowance'[a][t].amount = grant'[a][t].amount
             /\ grant'[a][t].spent > 0 => grant'[a][t].spent <= grant'[a][t].amount
             /\ ~ (grant'[a][t].spent > grant[a][t].spent)
    <2>1. grant[a][t].spent \in Nat
        BY <1>3
    <2>2. CASE a = from /\ t = s
        BY <1>1, <1>4, <1>5, <2>1, <2>2
    <2>3. CASE a # from \/ t # s
        <3>1. grant'[a][t] = grant[a][t] /\ allowance'[a][t] = allowance[a][t]
            BY <1>4, <1>5, <2>3
        <3> QED
            BY <2>1, <3>1 DEF AllowanceAccounted
    <2> QED
        BY <2>2, <2>3
<1> QED
    BY <1>4, <1>5, <1>6 DEF AllowanceAccounted

\* A mint credits one account and registers it when it held nothing.
LEMMA MintKeepsBooks ==
    ASSUME BooksSound, NEW c \in Accounts, NEW to \in Accounts, NEW m \in Amounts, Mint(c, to, m)
    PROVE  /\ BooksSound'
           /\ balance'[to] > balance[to] /\ \A b \in Accounts \ {to} : balance'[b] = balance[b]
           /\ totalSupply' - totalSupply = balance'[to] - balance[to]
           /\ totalSupply' > totalSupply
<1> DEFINE New == IF balance[to] = 0 THEN {to} ELSE {}
<1>1. /\ m \in Nat /\ m > 0
      /\ balance' = [balance EXCEPT ![to] = balance[to] + m]
      /\ totalSupply' = totalSupply + m
      /\ UpdateRegistry(New, {})
      /\ UNCHANGED <<frozen, allowance, kycApproved, blocked, paused, maxHolders, ledger, grant>>
    BY AmountsAreInts DEF Mint
<1>2. /\ balance \in [Accounts -> Nat] /\ totalSupply \in Nat /\ holders \in SUBSET Accounts
      /\ holderCount = Cardinality(holders) /\ \A a \in Accounts : a \in holders <=> balance[a] > 0
      /\ totalSupply = SumFunction(balance)
    BY DEF BooksSound, TypeOK, RegistryMirrorsBalances, SupplyIsSum
<1>3. balance[to] \in Nat /\ balance[to] + m \in Nat
    BY <1>1, <1>2
<1>4. /\ balance' \in [Accounts -> Nat] /\ balance'[to] = balance[to] + m
      /\ \A b \in Accounts \ {to} : balance'[b] = balance[b]
      /\ SumFunction(balance') = SumFunction(balance) + ((balance[to] + m) - balance[to])
    BY <1>1, <1>2, <1>3, OneBalance
<1>5. totalSupply' \in Nat /\ SupplyIsSum'
    BY <1>1, <1>2, <1>3, <1>4 DEF SupplyIsSum
<1>6. /\ holders' = (holders \cup New) \ {} /\ holders' \in SUBSET Accounts
      /\ holderCount' = Cardinality(holders') /\ holderCount' \in Nat
    <2>1. New \in SUBSET Accounts
        OBVIOUS
    <2> QED
        BY <1>1, <1>2, <2>1, RegistryCounts
<1>7. RegistryMirrorsBalances'
    <2>1. ASSUME NEW a \in Accounts
          PROVE  a \in holders' <=> balance'[a] > 0
        BY <1>1, <1>2, <1>3, <1>4, <1>6
    <2> QED
        BY <1>6, <2>1 DEF RegistryMirrorsBalances
<1>8. TypeOK'
    BY <1>1, <1>4, <1>5, <1>6 DEF BooksSound, TypeOK
<1>9. AllowanceAccounted'
    BY <1>1 DEF BooksSound, AllowanceAccounted
<1> QED
    BY <1>1, <1>2, <1>3, <1>4, <1>5, <1>7, <1>8, <1>9 DEF BooksSound

\* A burn debits one account and releases it when nothing is left.
LEMMA BurnKeepsBooks ==
    ASSUME BooksSound, NEW from \in Accounts, NEW m \in Amounts,
           BurnHoldings(from, m), Spending(from, m)
    PROVE  /\ BooksSound'
           /\ balance'[from] < balance[from] /\ balance'[from] >= 0
           /\ \A b \in Accounts \ {from} : balance'[b] = balance[b]
           /\ totalSupply - totalSupply' = balance[from] - balance'[from]
           /\ holders' \ holders = {}
<1> DEFINE Gone == IF balance[from] = m THEN {from} ELSE {}
<1>1. /\ m \in Nat /\ m > 0 /\ balance[from] >= m
      /\ balance' = [balance EXCEPT ![from] = balance[from] - m]
      /\ totalSupply' = totalSupply - m
      /\ UpdateRegistry({}, Gone)
      /\ UNCHANGED <<frozen, kycApproved, blocked, paused, maxHolders, ledger>>
    BY AmountsAreInts DEF BurnHoldings
<1>2. /\ balance \in [Accounts -> Nat] /\ totalSupply \in Nat /\ holders \in SUBSET Accounts
      /\ holderCount = Cardinality(holders) /\ \A a \in Accounts : a \in holders <=> balance[a] > 0
      /\ totalSupply = SumFunction(balance)
    BY DEF BooksSound, TypeOK, RegistryMirrorsBalances, SupplyIsSum
<1>3. balance[from] \in Nat /\ balance[from] - m \in Nat
    BY <1>1, <1>2
<1>4. /\ balance' \in [Accounts -> Nat] /\ balance'[from] = balance[from] - m
      /\ \A b \in Accounts \ {from} : balance'[b] = balance[b]
      /\ SumFunction(balance') = SumFunction(balance) + ((balance[from] - m) - balance[from])
    BY <1>1, <1>2, <1>3, OneBalance
<1>5. totalSupply' \in Nat /\ SupplyIsSum'
    <2>1. balance[from] <= totalSupply
        BY <1>2, AccountsFinite, SumOfNaturals
    <2> QED
        BY <1>1, <1>2, <1>3, <1>4, <2>1 DEF SupplyIsSum
<1>6. /\ holders' = (holders \cup {}) \ Gone /\ holders' \in SUBSET Accounts
      /\ holderCount' = Cardinality(holders') /\ holderCount' \in Nat
    <2>1. {} \in SUBSET Accounts
        OBVIOUS
    <2> QED
        BY <1>1, <1>2, <2>1, RegistryCounts
<1>7. RegistryMirrorsBalances'
    <2>1. ASSUME NEW a \in Accounts
          PROVE  a \in holders' <=> balance'[a] > 0
        <3>1. CASE a = from
            BY <1>1, <1>2, <1>3, <1>4, <1>6, <3>1
        <3>2. CASE a # from
            BY <1>2, <1>4, <1>6, <3>2
        <3> QED
            BY <3>1, <3>2
    <2> QED
        BY <1>6, <2>1 DEF RegistryMirrorsBalances
<1>8. /\ allowance' \in [Accounts -> [Accounts -> [amount : Int, expiry : Nat]]]
      /\ grant' \in [Accounts -> [Accounts -> [amount : Int, spent : Nat]]]
      /\ AllowanceAccounted'
    BY <1>1, SpendingAccounted DEF BooksSound
<1>9. TypeOK'
    BY <1>1, <1>4, <1>5, <1>6, <1>8 DEF BooksSound, TypeOK
<1> QED
    BY <1>1, <1>2, <1>3, <1>4, <1>5, <1>6, <1>7, <1>8, <1>9 DEF BooksSound

LEMMA PlanKeepsBooks ==
    ASSUME BooksSound, NEW from \in Accounts, NEW legs \in Seq(Leg),
           PlanStep(from, legs), Spending(from, Paid(legs, Accounts))
    PROVE  BooksSound'
<1>1. TypeOK /\ SupplyIsSum /\ RegistryMirrorsBalances /\ AllowanceAccounted
    BY DEF BooksSound
<1>2. UNCHANGED <<totalSupply, frozen, kycApproved, blocked, paused, maxHolders, ledger>>
    BY DEF PlanStep, ExecutePlan
<1>3. /\ Paid(legs, Accounts) \in Int /\ Paid(legs, Accounts) > 0
      /\ balance' \in [Accounts -> Nat] /\ SumFunction(balance') = SumFunction(balance)
    BY <1>1, PlanBalances
<1>4. /\ holders' = {a \in Accounts : balance'[a] > 0}
      /\ holderCount' = Cardinality(holders') /\ holderCount' \in Nat
    BY <1>1, PlanRegistry
<1>5. /\ allowance' \in [Accounts -> [Accounts -> [amount : Int, expiry : Nat]]]
      /\ grant' \in [Accounts -> [Accounts -> [amount : Int, spent : Nat]]]
      /\ AllowanceAccounted'
    BY <1>1, <1>3, SpendingAccounted
<1>6. SupplyIsSum' /\ RegistryMirrorsBalances'
    BY <1>1, <1>2, <1>3, <1>4 DEF SupplyIsSum, RegistryMirrorsBalances
<1>7. TypeOK'
    BY <1>1, <1>2, <1>3, <1>4, <1>5 DEF TypeOK
<1> QED
    BY <1>5, <1>6, <1>7 DEF BooksSound

\* What happens around the token touches none of its books.
LEMMA AroundKeepsBooks ==
    ASSUME BooksSound, Around
    PROVE  BooksSound' /\ UNCHANGED <<balance, totalSupply, holders, allowance, grant>>
<1>1. UNCHANGED <<balance, totalSupply, holders, holderCount, allowance, grant>>
    BY DEF Around, SetFrozen, KycChange, BlockChange, ChangeRules, Tick, vars, tokenVars, engineVars
<1>2. /\ frozen' \in SUBSET Accounts /\ kycApproved' \in SUBSET Accounts
      /\ blocked' \in SUBSET (Accounts \cup {Token})
    BY ActorsAreAccounts
    DEF BooksSound, TypeOK, Around, SetFrozen, KycChange, BlockChange, ChangeRules, Tick, vars, tokenVars, engineVars
<1>3. paused' \in BOOLEAN /\ maxHolders' \in Nat /\ ledger' \in Nat
    BY CapsAreNats
    DEF BooksSound, TypeOK, Around, SetFrozen, KycChange, BlockChange, ChangeRules, Tick, vars, tokenVars, engineVars
<1> QED
    BY <1>1, <1>2, <1>3
    DEF BooksSound, TypeOK, SupplyIsSum, RegistryMirrorsBalances, AllowanceAccounted

LEMMA BooksStep == BooksSound /\ [Next]_vars => BooksSound'
<1> SUFFICES ASSUME BooksSound, [Next]_vars PROVE BooksSound'
    OBVIOUS
<1>1. ASSUME NEW from \in Accounts, NEW s \in Spenders, NEW m \in Amounts, NEW e \in 0..MaxLedger,
             Approve(from, s, m, e)
      PROVE  BooksSound'
    <2>1. UNCHANGED <<balance, totalSupply, frozen, kycApproved, engineVars, ledger>>
        BY <1>1 DEF Approve
    <2>2. /\ allowance' \in [Accounts -> [Accounts -> [amount : Int, expiry : Nat]]]
          /\ grant' \in [Accounts -> [Accounts -> [amount : Int, spent : Nat]]]
          /\ AllowanceAccounted'
        BY <1>1, ApproveAccounted DEF BooksSound
    <2> QED
        BY <2>1, <2>2 DEF BooksSound, TypeOK, SupplyIsSum, RegistryMirrorsBalances, engineVars
<1> QED
    BY <1>1, StepParts, PlanKeepsBooks, MintKeepsBooks, BurnKeepsBooks, AroundKeepsBooks

LEMMA BooksStart == Init => BooksSound
<1> SUFFICES ASSUME Init PROVE BooksSound
    OBVIOUS
<1>1. TypeOK
    <2>1. NoAllowance \in [amount : Int, expiry : Nat] /\ [amount |-> 0, spent |-> 0] \in [amount : Int, spent : Nat]
        BY DEF NoAllowance
    <2>2. /\ allowance \in [Accounts -> [Accounts -> [amount : Int, expiry : Nat]]]
          /\ grant \in [Accounts -> [Accounts -> [amount : Int, spent : Nat]]]
        BY <2>1 DEF Init
    <2> QED
        BY <2>2 DEF Init, TypeOK
<1>2. SupplyIsSum
    BY AccountsFinite, SumOfZeros DEF Init, SupplyIsSum
<1>3. RegistryMirrorsBalances
    BY FS_EmptySet DEF Init, RegistryMirrorsBalances
<1>4. AllowanceAccounted
    BY DEF Init, AllowanceAccounted, NoAllowance
<1> QED
    BY <1>1, <1>2, <1>3, <1>4 DEF BooksSound

\* Supply and balances, registry and balances, spending and approvals agree.
THEOREM BooksHold == Spec => []BooksSound
BY BooksStart, BooksStep, PTL DEF Spec

----------------------------------------------------------------------------
(* Screening on every path *)

\* Whoever joins the holders was counted before the call moved anything.
LEMMA JoinsFit ==
    ASSUME BooksSound, [Next]_vars, maxHolders > 0, holders' \ holders # {}
    PROVE  Cardinality(holders') <= maxHolders
<1>1. /\ TypeOK /\ RegistryMirrorsBalances
      /\ holders \in SUBSET Accounts /\ holderCount = Cardinality(holders) /\ holderCount \in Nat /\ maxHolders \in Nat
      /\ \A a \in Accounts : balance[a] \in Nat
    BY DEF BooksSound, TypeOK, RegistryMirrorsBalances
<1>2. ASSUME NEW from \in Accounts, NEW legs \in Seq(Leg), PlanStep(from, legs)
      PROVE  Cardinality(holders') <= maxHolders
    <2> DEFINE New == NewHolders(from, legs)
               Gone == Leaving(from, legs)
               new == Cardinality(New)
               gone == Cardinality(Gone)
    <2>1. /\ holders' \ holders = New
          /\ Cardinality(holders') = holderCount + new - gone
        BY <1>1, <1>2, PlanRegistry
    <2>2. new \in Nat /\ new # 0
        <3>1. New \subseteq Accounts
            BY LegsTyped DEF NewHolders, Recipients
        <3>2. IsFiniteSet(New)
            BY <3>1, AccountsFinite, FS_Subset
        <3> QED
            BY <2>1, <3>2, FS_CardinalityType, FS_EmptySet
    <2>3. HolderCapacity(from, legs)
        BY <1>2 DEF PlanStep, PlanOk
    <2>4. balance[from] > 0 /\ Paid(legs, Accounts) > 0
        BY <1>1, <1>2, PlanBalances
    <2>5. gone = IF SenderAfter(from, legs) = 0 THEN 1 ELSE 0
        BY <2>4, FS_Singleton, FS_EmptySet DEF Leaving
    <2>6. SatSub(holderCount, gone) + new <= maxHolders
        <3> HIDE DEF New, Gone
        <3> QED
            BY <2>2, <2>3, <2>4, <2>5 DEF HolderCapacity, New
    <2>7. gone \in 0..1
        BY <2>5
    <2> HIDE DEF new, gone
    <2> QED
        BY <1>1, <2>1, <2>2, <2>6, <2>7 DEF SatSub
<1>3. ASSUME NEW c \in Accounts, NEW to \in Accounts, NEW m \in Amounts, Mint(c, to, m)
      PROVE  Cardinality(holders') <= maxHolders
    <2> DEFINE New == IF balance[to] = 0 THEN {to} ELSE {}
    <2>1. UpdateRegistry(New, {}) /\ (balance[to] = 0 => EngineAllowsMint(to))
        BY <1>3 DEF Mint
    <2>2. New \in SUBSET Accounts
        OBVIOUS
    <2>3. holders' = (holders \cup New) \ {}
          /\ Cardinality(holders') = holderCount + Cardinality(New \ holders) - Cardinality({} \cap (holders \cup New))
        BY <1>1, <2>1, <2>2, RegistryCounts
    <2>4. balance[to] = 0 /\ to \notin holders
        BY <2>3
    <2>5. New \ holders = {to} /\ {} \cap (holders \cup New) = {}
        BY <2>4
    <2>6. Cardinality({to}) = 1 /\ Cardinality({}) = 0
        BY FS_Singleton, FS_EmptySet
    <2>7. ~ (holderCount >= maxHolders)
        BY <2>1, <2>4 DEF EngineAllowsMint
    <2>8. Cardinality(holders') = holderCount + 1
        BY <1>1, <2>3, <2>5, <2>6
    <2> QED
        BY <1>1, <2>7, <2>8
<1>4. ASSUME NEW from \in Accounts, NEW m \in Amounts, BurnHoldings(from, m), Spending(from, m)
      PROVE  FALSE
    BY <1>4, BurnKeepsBooks
<1>5. ASSUME NEW from \in Accounts, NEW s \in Spenders, NEW m \in Amounts, NEW e \in 0..MaxLedger,
             Approve(from, s, m, e)
      PROVE  FALSE
    BY <1>5 DEF Approve, engineVars
<1>6. ASSUME Around PROVE FALSE
    BY <1>6, AroundKeepsBooks
<1> QED
    BY <1>2, <1>3, <1>4, <1>5, <1>6, StepParts

\* What a frozen account's balance may do.
LEMMA FrozenStays ==
    ASSUME BooksSound, [Next]_vars, NEW a \in frozen, balance'[a] # balance[a]
    PROVE  balance'[a] > balance[a] /\ totalSupply' > totalSupply
<1>1. a \in Accounts /\ TypeOK
    BY DEF BooksSound, TypeOK
<1>2. ASSUME NEW from \in Accounts, NEW legs \in Seq(Leg), PlanStep(from, legs)
      PROVE  FALSE
    BY <1>1, <1>2, PlanScreens
<1>3. ASSUME NEW c \in Accounts, NEW to \in Accounts, NEW m \in Amounts, Mint(c, to, m)
      PROVE  balance'[a] > balance[a] /\ totalSupply' > totalSupply
    BY <1>1, <1>3, MintKeepsBooks
<1>4. ASSUME NEW from \in Accounts, NEW m \in Amounts, BurnHoldings(from, m), Spending(from, m)
      PROVE  FALSE
    <2>1. a = from
        BY <1>1, <1>4, BurnKeepsBooks
    <2> QED
        BY <1>4, <2>1 DEF BurnHoldings, SenderOk
<1>5. ASSUME NEW from \in Accounts, NEW s \in Spenders, NEW m \in Amounts, NEW e \in 0..MaxLedger,
             Approve(from, s, m, e)
      PROVE  FALSE
    BY <1>5 DEF Approve
<1>6. ASSUME Around PROVE FALSE
    BY <1>6, AroundKeepsBooks
<1> QED
    BY <1>2, <1>3, <1>4, <1>5, <1>6, StepParts

\* Who spends does so before the expiry.
LEMMA SpendsInTime ==
    ASSUME BooksSound, [Next]_vars, NEW a \in Accounts, NEW s \in Accounts,
           grant'[a][s].spent > grant[a][s].spent
    PROVE  ledger < allowance[a][s].expiry
<1>1. TypeOK /\ AllowanceAccounted /\ grant[a][s].spent \in Nat
    BY DEF BooksSound, TypeOK
<1>2. ASSUME NEW from \in Accounts, NEW amount \in Int, amount > 0, Spending(from, amount)
      PROVE  ledger < allowance[a][s].expiry
    BY <1>1, <1>2, SpendingAccounted
<1>3. ASSUME NEW from \in Accounts, NEW legs \in Seq(Leg), PlanStep(from, legs), Spending(from, Paid(legs, Accounts))
      PROVE  ledger < allowance[a][s].expiry
    <2>1. Paid(legs, Accounts) \in Int /\ Paid(legs, Accounts) > 0
        BY <1>1, <1>3, PlanBalances
    <2> QED
        BY <1>2, <1>3, <2>1
<1>4. ASSUME NEW from \in Accounts, NEW m \in Amounts, BurnHoldings(from, m), Spending(from, m)
      PROVE  ledger < allowance[a][s].expiry
    <2>1. m \in Int /\ m > 0
        BY <1>4, AmountsAreInts DEF BurnHoldings
    <2> QED
        BY <1>2, <1>4, <2>1
<1>5. ASSUME NEW from \in Accounts, NEW t \in Spenders, NEW m \in Amounts, NEW e \in 0..MaxLedger,
             Approve(from, t, m, e)
      PROVE  FALSE
    BY <1>1, <1>5, ApproveAccounted
<1>6. ASSUME \/ Around
             \/ \E c, to \in Accounts, m \in Amounts : Mint(c, to, m)
      PROVE  FALSE
    <2>1. grant' = grant
        BY <1>6, AroundKeepsBooks DEF Mint
    <2> QED
        BY <1>1, <2>1
<1> QED
    BY <1>3, <1>4, <1>5, <1>6, StepParts

\* Caps, freezes and expiries hold on every path a call can take.
THEOREM CallsAreScreened == Spec => CallsScreened
<1>1. BooksSound /\ [Next]_vars =>
          [maxHolders > 0 /\ holders' \ holders # {} => Cardinality(holders') <= maxHolders]_vars
    BY JoinsFit
<1>2. BooksSound /\ [Next]_vars =>
          [\A a \in frozen : balance'[a] # balance[a] =>
              balance'[a] > balance[a] /\ totalSupply' > totalSupply]_vars
    BY FrozenStays
<1>3. BooksSound /\ [Next]_vars =>
          [\A a, s \in Accounts :
              grant'[a][s].spent > grant[a][s].spent => ledger < allowance[a][s].expiry]_vars
    BY SpendsInTime
<1> QED
    BY <1>1, <1>2, <1>3, BooksHold, PTL
    DEF Spec, CallsScreened, JoinWithinCap, FrozenNeverMoves, ExpiredNeverSpent

----------------------------------------------------------------------------
(* The abstract ledger *)

\* The abstract ledger adds up as the token's books do.
LEMMA SameSum == ASSUME NEW f PROVE Ledger!SumFunction(f) = SumFunction(f)
BY DEF SumFunction, SumFunctionOnSet, FoldFunctionOnSet, MapThenFoldSet,
       Ledger!SumFunction, Ledger!SumFunctionOnSet, Ledger!FoldFunctionOnSet, Ledger!MapThenFoldSet

LEMMA StartsInOrder == Init => Ledger!Start
<1> SUFFICES ASSUME Init PROVE Ledger!Start
    OBVIOUS
<1>1. TypeOK /\ SupplyIsSum /\ RegistryMirrorsBalances
    BY BooksStart DEF BooksSound
<1>2. \A a \in Accounts : balance[a] >= 0
    BY <1>1 DEF TypeOK
<1>3. totalSupply = Ledger!SumFunction(balance)
    BY <1>1, SameSum DEF SupplyIsSum
<1> QED
    BY <1>1, <1>2, <1>3 DEF Ledger!Start, Ledger!Holding, RegistryMirrorsBalances

\* A mint is an issue, a burn a retirement, a plan a payment, or nothing when all
\* of it goes to its sender.
LEMMA StepsAreLedgerSteps ==
    ASSUME BooksSound, BooksSound', SupplyWithinCap', [Next]_vars
    PROVE  [Ledger!LedgerNext]_(Ledger!ledgerVars)
<1>1. /\ TypeOK /\ RegistryMirrorsBalances
      /\ \A a \in Accounts : balance[a] \in Nat
      /\ \A a \in Accounts : balance'[a] \in Nat
      /\ SupplyIsSum /\ SupplyIsSum'
      /\ holders' = Ledger!Holding(balance')
      /\ holders = Ledger!Holding(balance)
    BY DEF BooksSound, TypeOK, RegistryMirrorsBalances, Ledger!Holding
<1>2. ASSUME NEW from \in Accounts, NEW legs \in Seq(Leg), PlanStep(from, legs)
      PROVE  [Ledger!LedgerNext]_(Ledger!ledgerVars)
    <2>1. totalSupply' = totalSupply
        BY <1>2 DEF PlanStep, ExecutePlan
    <2>2. CASE NetOutgoing(from, legs) = 0
        <3>1. balance' = balance
            BY <1>1, <1>2, <2>2, PlanBalances
        <3>2. holders' = holders
            BY <1>1, <3>1
        <3> QED
            BY <2>1, <3>1, <3>2 DEF Ledger!ledgerVars
    <2>3. CASE NetOutgoing(from, legs) # 0
        <3>1. /\ NetOutgoing(from, legs) \in Nat
              /\ \A a \in Accounts : Paid(legs, {a}) \in Nat
              /\ balance'[from] = balance[from] - NetOutgoing(from, legs)
              /\ \A a \in Accounts \ {from} : balance'[a] = balance[a] + Paid(legs, {a})
              /\ SumFunction(balance') = SumFunction(balance)
            BY <1>1, <1>2, PlanBalances
        <3>2. 0 <= balance'[from] /\ balance'[from] < balance[from]
            BY <1>1, <2>3, <3>1
        <3>3. \A a \in Accounts \ {from} : balance'[a] >= balance[a]
            <4> SUFFICES ASSUME NEW a \in Accounts \ {from} PROVE balance'[a] >= balance[a]
                OBVIOUS
            <4>1. balance'[a] = balance[a] + Paid(legs, {a}) /\ balance[a] \in Nat /\ Paid(legs, {a}) \in Nat
                BY <1>1, <3>1
            <4> QED
                BY <4>1
        <3>4. Ledger!Pay(from)
            BY <2>1, <3>1, <3>2, <3>3, SameSum DEF Ledger!Pay
        <3> QED
            BY <1>1, <3>4 DEF Ledger!LedgerNext
    <2> QED
        BY <2>2, <2>3
<1>3. ASSUME NEW c \in Accounts, NEW to \in Accounts, NEW m \in Amounts, Mint(c, to, m)
      PROVE  [Ledger!LedgerNext]_(Ledger!ledgerVars)
    <2>1. Ledger!Issue(to)
        BY <1>3, MintKeepsBooks DEF Ledger!Issue, SupplyWithinCap
    <2> QED
        BY <1>1, <2>1 DEF Ledger!LedgerNext
<1>4. ASSUME NEW from \in Accounts, NEW m \in Amounts, BurnHoldings(from, m), Spending(from, m)
      PROVE  [Ledger!LedgerNext]_(Ledger!ledgerVars)
    <2>1. Ledger!Retire(from)
        BY <1>1, <1>4, BurnKeepsBooks DEF Ledger!Retire
    <2> QED
        BY <1>1, <2>1 DEF Ledger!LedgerNext
<1>5. ASSUME NEW from \in Accounts, NEW s \in Spenders, NEW m \in Amounts, NEW e \in 0..MaxLedger,
             Approve(from, s, m, e)
      PROVE  UNCHANGED Ledger!ledgerVars
    BY <1>5 DEF Approve, engineVars, Ledger!ledgerVars
<1>6. ASSUME Around PROVE UNCHANGED Ledger!ledgerVars
    BY <1>6, AroundKeepsBooks DEF Ledger!ledgerVars
<1> QED
    BY <1>2, <1>3, <1>4, <1>5, <1>6, StepParts

\* The token implements the abstract ledger.
THEOREM TokenImplementsLedger == Spec => ImplementsLedger
<1>1. BooksSound /\ BooksSound' /\ SupplyWithinCap' /\ [Next]_vars => [Ledger!LedgerNext]_(Ledger!ledgerVars)
    BY StepsAreLedgerSteps
<1> QED
    BY <1>1, StartsInOrder, BooksHold, SupplyCapped, PTL DEF Spec, ImplementsLedger, Ledger!LedgerSpec

----------------------------------------------------------------------------
(* The administration: Administration, RwaAdmin and AdminRelay *)

\* The constants of the instance.
LEMMA AdminConstants ==
    /\ Thresholds \subseteq Nat /\ Cooldowns \subseteq Nat
    /\ MaxGuardians \in Nat /\ MaxNonce \in Nat /\ LastLedger \in Nat
    /\ GuardianLists \subseteq Seq(Parties)
BY AdminInstance DEF Relay!AdminAssumption, Relay!NumbersAreNats, Relay!GuardiansAreAccounts

\* An Option of S with a member is that member's singleton.
LEMMA SingletonOption == ASSUME NEW S, NEW x \in S PROVE {x} \in Relay!Option(S)
BY DEF Relay!Option

LEMMA EmptyOption == ASSUME NEW S PROVE {} \in Relay!Option(S)
BY DEF Relay!Option

----------------------------------------------------------------------------
LEMMA AdminInitTyped == Relay!Init => Relay!TypeOK
<1> SUFFICES ASSUME Relay!Init PROVE Relay!TypeOK
    OBVIOUS
<1> USE DEF Relay!Init, Relay!TypeOK
<1>1. roleHolder \in [Roles -> Relay!Option(Parties)]
    BY EmptyOption
<1>2. pendingAdmin \in Relay!Option(Parties) /\ recovery \in Relay!Option(Relay!RecoveryConfig)
      /\ proposal \in Relay!Option(Relay!RecoveryProposal)
    BY EmptyOption
<1> QED
    BY <1>1, <1>2

\* Each step keeps the types; one step per entry point.
LEMMA AdminStepTyped == Relay!TypeOK /\ [Relay!Next]_Relay!vars => Relay!TypeOK'
<1> SUFFICES ASSUME Relay!TypeOK, [Relay!Next]_Relay!vars PROVE Relay!TypeOK'
    OBVIOUS
<1> USE AdminConstants
<1> USE DEF Relay!TypeOK, Relay!govVars, Relay!configVars, Relay!recoveryVars
<1>1. ASSUME NEW c \in Parties, NEW a \in Parties, Relay!SetAdmin(c, a) PROVE Relay!TypeOK'
    BY <1>1 DEF Relay!SetAdmin
<1>2. ASSUME NEW c \in Parties, Relay!AcceptAdmin(c) PROVE Relay!TypeOK'
    BY <1>2, EmptyOption DEF Relay!AcceptAdmin
<1>3. ASSUME NEW c \in Parties, NEW t \in Thresholds, NEW g \in GuardianLists,
             NEW d \in Cooldowns, Relay!ConfigureRecovery(c, t, g, d)
      PROVE Relay!TypeOK'
    <2>1. \E r \in Relay!RecoveryConfig : recovery' = {r}
        BY <1>3 DEF Relay!ConfigureRecovery, Relay!RecoverySettings, Relay!RecoveryConfig, Relay!Option
    <2>2. recovery' \in Relay!Option(Relay!RecoveryConfig)
        BY <2>1, SingletonOption
    <2>3. proposal' \in Relay!Option(Relay!RecoveryProposal)
        BY <1>3, EmptyOption DEF Relay!ConfigureRecovery
    <2> QED
        BY <1>3, <2>2, <2>3 DEF Relay!ConfigureRecovery
<1>4. ASSUME NEW c \in Parties, NEW a \in Parties, Relay!ProposeRecovery(c, a) PROVE Relay!TypeOK'
    <2> PICK cfg \in recovery :
             proposal' = {[proposedAdmin |-> a, proposer |-> c, approvals |-> <<>>,
                           expiry |-> Relay!Expiry(cfg)]}
        BY <1>4 DEF Relay!ProposeRecovery
    <2> cfg \in Relay!RecoveryConfig
        BY DEF Relay!Option
    <2> Relay!Expiry(cfg) \in Nat
        BY DEF Relay!Expiry, Relay!RecoveryConfig
    <2> <<>> \in Seq(Parties)
        OBVIOUS
    <2>1. \E p \in Relay!RecoveryProposal : proposal' = {p}
        BY DEF Relay!RecoveryProposal
    <2>2. proposal' \in Relay!Option(Relay!RecoveryProposal)
        BY <2>1, SingletonOption
    <2> QED
        BY <1>4, <2>2 DEF Relay!ProposeRecovery
<1>5. ASSUME NEW c \in Parties, Relay!ApproveRecovery(c) PROVE Relay!TypeOK'
    <2> PICK p \in proposal : proposal' = {[p EXCEPT !.approvals = Append(@, c)]}
        BY <1>5 DEF Relay!ApproveRecovery
    <2> p \in Relay!RecoveryProposal
        BY DEF Relay!Option
    <2> Append(p.approvals, c) \in Seq(Parties)
        BY DEF Relay!RecoveryProposal
    <2>1. \E q \in Relay!RecoveryProposal : proposal' = {q}
        BY DEF Relay!RecoveryProposal
    <2>2. proposal' \in Relay!Option(Relay!RecoveryProposal)
        BY <2>1, SingletonOption
    <2> QED
        BY <1>5, <2>2 DEF Relay!ApproveRecovery
<1>6. ASSUME NEW c \in Parties, Relay!ExecuteRecovery(c) PROVE Relay!TypeOK'
    <2> PICK cfg \in recovery : recovery' = {[cfg EXCEPT !.lastExecuted = sequence]}
        BY <1>6 DEF Relay!ExecuteRecovery
    <2> cfg \in Relay!RecoveryConfig
        BY DEF Relay!Option
    <2>1. \E r \in Relay!RecoveryConfig : recovery' = {r}
        BY DEF Relay!RecoveryConfig
    <2>2. recovery' \in Relay!Option(Relay!RecoveryConfig) /\ proposal' \in Relay!Option(Relay!RecoveryProposal)
        BY <1>6, <2>1, SingletonOption, EmptyOption DEF Relay!ExecuteRecovery
    <2>3. admin' \in Parties
        BY <1>6 DEF Relay!ExecuteRecovery, Relay!RecoveryProposal, Relay!Option
    <2> QED
        BY <1>6, <2>2, <2>3, SMTT(30) DEF Relay!ExecuteRecovery, Relay!VoidSigned
<1>7. ASSUME NEW c \in Parties, Relay!CancelRecovery(c) PROVE Relay!TypeOK'
    BY <1>7, EmptyOption DEF Relay!CancelRecovery
<1>8. CASE Relay!Tick
    BY <1>8 DEF Relay!Tick
<1>9. ASSUME NEW c \in Parties, NEW n \in 0..MaxNonce, Relay!ProtectedNext(c, n) PROVE Relay!TypeOK'
    <2> USE DEF Relay!ConsumeNonce
    <2>1. ASSUME NEW a \in Parties, Relay!ProposeAdmin(c, a, n) PROVE Relay!TypeOK'
        BY <2>1, SingletonOption DEF Relay!ProposeAdmin
    <2>2. ASSUME NEW r \in Roles, NEW h \in Parties, Relay!AssignRole(c, r, h, n) PROVE Relay!TypeOK'
        BY <2>2, SingletonOption DEF Relay!AssignRole
    <2>3. ASSUME NEW r \in Roles, Relay!RevokeRole(c, r, n) PROVE Relay!TypeOK'
        BY <2>3, EmptyOption DEF Relay!RevokeRole
    <2>4. ASSUME NEW k \in Contracts, Relay!UpdateKycRegistry(c, k, n) PROVE Relay!TypeOK'
        BY <2>4 DEF Relay!UpdateKycRegistry
    <2>5. ASSUME NEW k \in Contracts, Relay!UpdateComplianceEngine(c, k, n) PROVE Relay!TypeOK'
        BY <2>5 DEF Relay!UpdateComplianceEngine
    <2>6. CASE Relay!SetComplianceMetadata(c, n)
        BY <2>6 DEF Relay!SetComplianceMetadata
    <2>7. ASSUME NEW v \in Versions, Relay!Migrate(c, v, n) PROVE Relay!TypeOK'
        BY <2>7 DEF Relay!Migrate
    <2>8. ASSUME NEW s \in 1..(MaxNonce + 1), Relay!MigrateSchema(c, s, n) PROVE Relay!TypeOK'
        BY <2>8 DEF Relay!MigrateSchema
    <2> QED
        BY <1>9, <2>1, <2>2, <2>3, <2>4, <2>5, <2>6, <2>7, <2>8 DEF Relay!ProtectedNext
<1>10. CASE UNCHANGED Relay!vars
    BY <1>10 DEF Relay!vars
<1> QED
    BY <1>1, <1>2, <1>3, <1>4, <1>5, <1>6, <1>7, <1>8, <1>9, <1>10
    DEF Relay!Next, Relay!UnprotectedNext, Relay!RecoveryNext

\* Every variable keeps its type, whatever is configured, proposed or approved.
THEOREM AdminTypeCorrect == Relay!Spec => []Relay!TypeOK
BY AdminInitTyped, AdminStepTyped, PTL DEF Relay!Spec
----------------------------------------------------------------------------
(* Recovery.  RecoverySound is not inductive alone: a first configuration  *)
(* starts its cooldown at zero, which is the ledger of the last recovery   *)
(* only because no recovery can have run without a configuration.          *)

RecoveryInv ==
    /\ Relay!TypeOK
    /\ Relay!RecoverySound
    /\ recovery = {} => lastRecovery = 0

\* Appending an element that is not there keeps a sequence free of duplicates.
LEMMA AppendDistinct ==
    ASSUME NEW S, NEW s \in Seq(S), NEW x \in S, Relay!NoDuplicates(s), x \notin Relay!Elems(s)
    PROVE  /\ Relay!NoDuplicates(Append(s, x))
           /\ Relay!Elems(Append(s, x)) = Relay!Elems(s) \cup {x}
<1> DEFINE t == Append(s, x)
<1>1. /\ DOMAIN t = 1..(Len(s) + 1)
      /\ \A i \in 1..Len(s) : t[i] = s[i]
      /\ t[Len(s) + 1] = x
      /\ DOMAIN s = 1..Len(s)
      /\ Len(s) \in Nat
    OBVIOUS
<1> HIDE DEF t
<1>2. Relay!NoDuplicates(t)
    BY <1>1 DEF Relay!NoDuplicates, Relay!Elems
<1>3. Relay!Elems(t) = Relay!Elems(s) \cup {x}
    BY <1>1 DEF Relay!Elems
<1> QED
    BY <1>2, <1>3 DEF t

\* A sequence without duplicates has as many elements as places.
LEMMA DistinctCount ==
    ASSUME NEW S, NEW s \in Seq(S), Relay!NoDuplicates(s)
    PROVE  Cardinality(Relay!Elems(s)) = Len(s)
<1>1. s \in [1..Len(s) -> Relay!Elems(s)]
    BY DEF Relay!Elems
<1>2. s \in Bijection(1..Len(s), Relay!Elems(s))
    BY <1>1 DEF Bijection, Injection, Surjection, IsInjective, Relay!NoDuplicates, Relay!Elems
<1>3. ExistsBijection(1..Len(s), Relay!Elems(s))
    BY <1>2 DEF ExistsBijection
<1> QED
    BY <1>3, FS_CountingElements

\* What no recovery call touches stays sound.
LEMMA RecoveryUntouched ==
    ASSUME RecoveryInv, Relay!TypeOK', UNCHANGED Relay!recoveryVars
    PROVE  RecoveryInv'
BY DEF RecoveryInv, Relay!RecoverySound, Relay!ConfigSound, Relay!ApprovalsSound, Relay!recoveryVars

LEMMA StepRecovery == RecoveryInv /\ [Relay!Next]_Relay!vars => RecoveryInv'
<1> SUFFICES ASSUME RecoveryInv, [Relay!Next]_Relay!vars PROVE RecoveryInv'
    OBVIOUS
<1> USE AdminConstants
<1>t. Relay!TypeOK /\ Relay!TypeOK'
    BY AdminStepTyped DEF RecoveryInv
<1>1. CASE UNCHANGED Relay!recoveryVars
    BY <1>1, <1>t, RecoveryUntouched
<1>2. ASSUME NEW c \in Parties, NEW t \in Thresholds, NEW g \in GuardianLists,
             NEW d \in Cooldowns, Relay!ConfigureRecovery(c, t, g, d)
      PROVE RecoveryInv'
    <2>1. PICK last : /\ recovery' = {Relay!RecoverySettings(t, d, last)}
                      /\ last = lastRecovery
        BY <1>2, <1>t DEF Relay!ConfigureRecovery, RecoveryInv, Relay!RecoverySound, Relay!ConfigSound
    <2>2. Relay!ConfigSound'
        BY <1>2, <1>t, <2>1 DEF Relay!ConfigureRecovery, Relay!ConfigSound, Relay!RecoverySettings, Relay!NoDuplicates
    <2>3. Relay!ApprovalsSound'
        BY <1>2 DEF Relay!ConfigureRecovery, Relay!ApprovalsSound
    <2> QED
        BY <1>t, <2>1, <2>2, <2>3 DEF RecoveryInv, Relay!RecoverySound
<1>3. ASSUME NEW c \in Parties, NEW a \in Parties, Relay!ProposeRecovery(c, a)
      PROVE RecoveryInv'
    <2>1. Relay!ConfigSound'
        BY <1>3 DEF Relay!ProposeRecovery, RecoveryInv, Relay!RecoverySound, Relay!ConfigSound
    <2>2. Relay!ApprovalsSound'
        BY <1>3 DEF Relay!ProposeRecovery, Relay!ApprovalsSound, Relay!NoDuplicates, Relay!Elems
    <2> QED
        BY <1>3, <1>t, <2>1, <2>2 DEF RecoveryInv, Relay!RecoverySound, Relay!ProposeRecovery
<1>4. ASSUME NEW c \in Parties, Relay!ApproveRecovery(c) PROVE RecoveryInv'
    <2>1. Relay!ConfigSound'
        BY <1>4 DEF Relay!ApproveRecovery, RecoveryInv, Relay!RecoverySound, Relay!ConfigSound
    <2>2. Relay!ApprovalsSound'
        <3>1. PICK p \in proposal : /\ Relay!MayApprove(p, c)
                                    /\ proposal' = {[p EXCEPT !.approvals = Append(@, c)]}
            BY <1>4 DEF Relay!ApproveRecovery
        <3>2. p \in Relay!RecoveryProposal
            BY <1>t DEF Relay!TypeOK, Relay!Option
        <3>3. /\ recovery # {}
              /\ p.proposer \in Relay!Elems(guardians)
              /\ Relay!NoDuplicates(p.approvals)
              /\ Relay!Elems(p.approvals) \subseteq Relay!Elems(guardians) \ {p.proposer}
            BY DEF RecoveryInv, Relay!RecoverySound, Relay!ApprovalsSound
        <3>4. p.approvals \in Seq(Parties)
            BY <3>2 DEF Relay!RecoveryProposal
        <3>5. /\ Relay!NoDuplicates(Append(p.approvals, c))
              /\ Relay!Elems(Append(p.approvals, c)) = Relay!Elems(p.approvals) \cup {c}
            BY <3>1, <3>3, <3>4, AppendDistinct DEF Relay!MayApprove
        <3>6. \A q \in proposal' : /\ q.approvals = Append(p.approvals, c)
                                   /\ q.proposer = p.proposer
            BY <3>1, <3>2 DEF Relay!RecoveryProposal
        <3>7. UNCHANGED <<recovery, guardians>>
            BY <1>4 DEF Relay!ApproveRecovery
        <3>8. c \in Relay!Elems(guardians) /\ c # p.proposer
            BY <3>1 DEF Relay!MayApprove
        <3>9. ASSUME NEW q \in proposal'
              PROVE  /\ recovery' # {}
                     /\ q.proposer \in Relay!Elems(guardians')
                     /\ Relay!NoDuplicates(q.approvals)
                     /\ Relay!Elems(q.approvals) \subseteq Relay!Elems(guardians') \ {q.proposer}
            BY <3>3, <3>5, <3>6, <3>7, <3>8
        <3> QED
            BY <3>9 DEF Relay!ApprovalsSound, Relay!NoDuplicates, Relay!Elems
    <2> QED
        BY <1>4, <1>t, <2>1, <2>2 DEF RecoveryInv, Relay!RecoverySound, Relay!ApproveRecovery
<1>5. ASSUME NEW c \in Parties, Relay!ExecuteRecovery(c) PROVE RecoveryInv'
    <2>1. PICK cfg \in recovery : recovery' = {[cfg EXCEPT !.lastExecuted = sequence]}
        BY <1>5 DEF Relay!ExecuteRecovery
    <2>2. cfg \in Relay!RecoveryConfig
        BY <1>t DEF Relay!TypeOK, Relay!Option
    <2>3. Relay!ConfigSound'
        BY <1>5, <2>1, <2>2
        DEF Relay!ExecuteRecovery, RecoveryInv, Relay!RecoverySound, Relay!ConfigSound, Relay!RecoveryConfig
    <2>4. Relay!ApprovalsSound'
        BY <1>5 DEF Relay!ExecuteRecovery, Relay!ApprovalsSound
    <2> QED
        BY <1>t, <2>1, <2>3, <2>4 DEF RecoveryInv, Relay!RecoverySound
<1>6. ASSUME NEW c \in Parties, Relay!CancelRecovery(c) PROVE RecoveryInv'
    <2>1. Relay!ConfigSound'
        BY <1>6 DEF Relay!CancelRecovery, RecoveryInv, Relay!RecoverySound, Relay!ConfigSound
    <2>2. Relay!ApprovalsSound'
        BY <1>6 DEF Relay!CancelRecovery, Relay!ApprovalsSound
    <2>3. UNCHANGED <<recovery, lastRecovery>>
        BY <1>6 DEF Relay!CancelRecovery
    <2> QED
        BY <1>t, <2>1, <2>2, <2>3 DEF RecoveryInv, Relay!RecoverySound
<1>7. ASSUME NEW c \in Parties, NEW n \in 0..MaxNonce, Relay!ProtectedNext(c, n)
      PROVE UNCHANGED Relay!recoveryVars
    BY <1>7 DEF Relay!ProtectedNext, Relay!ProposeAdmin, Relay!AssignRole, Relay!RevokeRole, Relay!UpdateKycRegistry,
        Relay!UpdateComplianceEngine, Relay!SetComplianceMetadata, Relay!Migrate, Relay!MigrateSchema
<1>8. ASSUME NEW c \in Parties, NEW a \in Parties, Relay!SetAdmin(c, a) \/ Relay!AcceptAdmin(c)
      PROVE UNCHANGED Relay!recoveryVars
    BY <1>8 DEF Relay!SetAdmin, Relay!AcceptAdmin
<1>9. CASE Relay!Tick
    BY <1>1, <1>9 DEF Relay!Tick
<1>10. CASE UNCHANGED Relay!vars
    BY <1>1, <1>10 DEF Relay!vars
<1> QED
    BY <1>1, <1>2, <1>3, <1>4, <1>5, <1>6, <1>7, <1>8, <1>9, <1>10
    DEF Relay!Next, Relay!UnprotectedNext, Relay!RecoveryNext

LEMMA InitRecovery == Relay!Init => RecoveryInv
BY AdminInitTyped DEF Relay!Init, RecoveryInv, Relay!RecoverySound, Relay!ConfigSound, Relay!ApprovalsSound

LEMMA RecoveryInvHolds == Relay!Spec => []RecoveryInv
BY InitRecovery, StepRecovery, PTL DEF Relay!Spec

\* The stored recovery configuration can always be met by distinct guardians and
\* remembers the last recovery, and the approvals of the open proposal are those
\* of distinct guardians in force other than its proposer.
THEOREM RecoveryIsSound == Relay!Spec => []RecoverySound
BY RecoveryInvHolds, PTL DEF RecoveryInv, RecoverySound

\* The instance counts as this module does.
LEMMA SameCount == ASSUME NEW S PROVE Relay!Cardinality(S) = Cardinality(S)
BY Zenon DEF Relay!Cardinality, Cardinality

\* No recovery replaces the admin without a quorum of distinct guardians, within
\* the life of its proposal and a full cooldown after the last one.
THEOREM RecoveryNeedsQuorum == Relay!Spec => RecoveryByQuorum
<1>1. ASSUME RecoveryInv, NEW d \in Parties, Relay!ExecuteRecovery(d) PROVE Relay!RecoveryStep
    <2>1. PICK c \in recovery, p \in proposal :
             /\ ~Relay!Expired(p)
             /\ Len(p.approvals) >= c.threshold
             /\ sequence >= c.lastExecuted + c.cooldown
             /\ admin' = p.proposedAdmin
        BY <1>1 DEF Relay!ExecuteRecovery
    <2>2. c \in Relay!RecoveryConfig /\ p \in Relay!RecoveryProposal /\ sequence \in Nat
        BY <1>1 DEF RecoveryInv, Relay!TypeOK, Relay!Option
    <2>3. /\ c.lastExecuted = lastRecovery
          /\ Relay!NoDuplicates(p.approvals)
          /\ Relay!Elems(p.approvals) \subseteq Relay!Elems(guardians) \ {p.proposer}
        BY <1>1 DEF RecoveryInv, Relay!RecoverySound, Relay!ConfigSound, Relay!ApprovalsSound
    <2>4. Cardinality(Relay!Elems(p.approvals)) = Len(p.approvals)
        BY <2>2, <2>3, DistinctCount DEF Relay!RecoveryProposal
    <2>5. sequence <= p.expiry
        BY <2>1, <2>2 DEF Relay!Expired, Relay!RecoveryProposal
    <2>6. \E Q \in SUBSET (Relay!Elems(guardians) \ {p.proposer}) :
             Q = Relay!Elems(p.approvals) /\ Relay!Cardinality(Q) >= c.threshold
        BY <2>1, <2>3, <2>4, SameCount
    <2>7. sequence >= lastRecovery + c.cooldown
        BY <2>1, <2>3
    <2> QED
        BY <2>1, <2>5, <2>6, <2>7 DEF Relay!RecoveryStep
<1>2. RecoveryInv /\ [Relay!Next]_Relay!vars => [Relay!RecoveryStep]_Relay!vars
    <2> SUFFICES ASSUME RecoveryInv, Relay!Next, recoveries' # recoveries PROVE Relay!RecoveryStep
        BY DEF Relay!RecoveryStep, Relay!vars, Relay!recoveryVars
    <2>1. \E d \in Parties : Relay!ExecuteRecovery(d)
        BY DEF Relay!Next, Relay!UnprotectedNext, Relay!RecoveryNext, Relay!ProtectedNext, Relay!ProposeAdmin, Relay!AssignRole,
            Relay!RevokeRole, Relay!UpdateKycRegistry, Relay!UpdateComplianceEngine, Relay!SetComplianceMetadata,
            Relay!Migrate, Relay!MigrateSchema, Relay!SetAdmin, Relay!AcceptAdmin, Relay!Tick, Relay!ConfigureRecovery,
            Relay!ProposeRecovery, Relay!ApproveRecovery, Relay!CancelRecovery, Relay!recoveryVars
    <2> QED
        BY <1>1, <2>1
<1> QED
    BY <1>2, RecoveryInvHolds, PTL DEF Relay!Spec, Relay!RecoveryByQuorum, RecoveryByQuorum
----------------------------------------------------------------------------
\* Roles, links, versions and pending handovers change only in steps that move
\* the nonce by one.
THEOREM ProtectedNeedsNonce == Relay!Spec => ProtectedCostsNonce
<1>1. [Relay!Next]_Relay!vars => [Relay!NonceStep]_Relay!vars
    <2> SUFFICES ASSUME Relay!Next PROVE Relay!NonceStep
        BY DEF Relay!NonceStep, Relay!vars, Relay!govVars, Relay!configVars
    <2>1. ASSUME Relay!UnprotectedNext
          PROVE  /\ UNCHANGED <<roleHolder, Relay!configVars>>
                 /\ pendingAdmin' \subseteq pendingAdmin
        BY <2>1 DEF Relay!UnprotectedNext, Relay!RecoveryNext, Relay!SetAdmin, Relay!AcceptAdmin, Relay!Tick,
            Relay!ConfigureRecovery, Relay!ProposeRecovery, Relay!ApproveRecovery, Relay!ExecuteRecovery,
            Relay!CancelRecovery, Relay!govVars
    <2>2. ASSUME NEW c \in Parties, NEW n \in 0..MaxNonce, Relay!ProtectedNext(c, n)
          PROVE  adminNonce' = adminNonce + 1
        BY <2>2 DEF Relay!ProtectedNext, Relay!ConsumeNonce, Relay!ProposeAdmin, Relay!AssignRole, Relay!RevokeRole,
            Relay!UpdateKycRegistry, Relay!UpdateComplianceEngine, Relay!SetComplianceMetadata, Relay!Migrate,
            Relay!MigrateSchema
    <2> QED
        BY <2>1, <2>2 DEF Relay!Next, Relay!NonceStep
<1> QED
    BY <1>1, PTL DEF Relay!Spec, Relay!ProtectedCostsNonce, ProtectedCostsNonce
----------------------------------------------------------------------------
\* An open proposal keeps the admin it names and every approval it was given, as
\* long as it lives: it goes as a whole or is replaced once it has expired.
THEOREM SupportIsKept == Relay!Spec => Relay!SupportNeverForged
<1>1. ASSUME Relay!TypeOK, NEW c \in Parties, Relay!ApproveRecovery(c) PROVE Relay!SupportStep
    <2>1. PICK p \in proposal : proposal' = {[p EXCEPT !.approvals = Append(@, c)]}
        BY <1>1 DEF Relay!ApproveRecovery
    <2>2. p \in Relay!RecoveryProposal /\ proposal = {p}
        BY <1>1, <2>1 DEF Relay!TypeOK, Relay!Option
    <2>3. p.approvals \in Seq(Parties)
        BY <2>2 DEF Relay!RecoveryProposal
    <2>4. \A q \in proposal' : q.proposedAdmin = p.proposedAdmin /\ q.approvals = Append(p.approvals, c)
        BY <2>1, <2>2 DEF Relay!RecoveryProposal
    <2>5. Len(Append(p.approvals, c)) = Len(p.approvals) + 1 /\ Len(p.approvals) \in Nat
        BY <2>3
    <2> QED
        BY <2>2, <2>4, <2>5 DEF Relay!SupportStep
<1>2. ASSUME NEW c \in Parties, NEW a \in Parties, Relay!ProposeRecovery(c, a) PROVE Relay!SupportStep
    BY <1>2 DEF Relay!ProposeRecovery, Relay!Expired, Relay!SupportStep
<1>3. ASSUME Relay!TypeOK, UNCHANGED proposal PROVE Relay!SupportStep
    <2>1. \A p, q \in proposal : p = q /\ Len(p.approvals) \in Nat
        BY <1>3 DEF Relay!TypeOK, Relay!Option, Relay!RecoveryProposal
    <2> QED
        BY <1>3, <2>1 DEF Relay!SupportStep
<1>4. ASSUME proposal' = {} PROVE Relay!SupportStep
    BY <1>4 DEF Relay!SupportStep
<1>5. Relay!TypeOK /\ [Relay!Next]_Relay!vars => [Relay!SupportStep]_Relay!vars
    <2> SUFFICES ASSUME Relay!TypeOK, Relay!Next PROVE Relay!SupportStep
        OBVIOUS
    <2>1. \/ UNCHANGED proposal
          \/ proposal' = {}
          \/ \E c, a \in Parties : Relay!ProposeRecovery(c, a)
          \/ \E c \in Parties : Relay!ApproveRecovery(c)
        BY DEF Relay!Next, Relay!UnprotectedNext, Relay!RecoveryNext, Relay!ProtectedNext, Relay!ProposeAdmin, Relay!AssignRole,
            Relay!RevokeRole, Relay!UpdateKycRegistry, Relay!UpdateComplianceEngine, Relay!SetComplianceMetadata,
            Relay!Migrate, Relay!MigrateSchema, Relay!SetAdmin, Relay!AcceptAdmin, Relay!Tick, Relay!ConfigureRecovery,
            Relay!ExecuteRecovery, Relay!CancelRecovery, Relay!recoveryVars
    <2> QED
        BY <1>1, <1>2, <1>3, <1>4, <2>1
<1> QED
    BY <1>5, AdminTypeCorrect, PTL DEF Relay!Spec, Relay!SupportNeverForged

----------------------------------------------------------------------------
(* Signed calls and their delivery: AdminRelay.                            *)
(*                                                                         *)
(* The nonce counts the calls that took effect and the recoveries; a       *)
(* signed call carries the sum of what its signer saw of each.  Neither    *)
(* count ever falls, so when a call's nonce is current again, both parts   *)
(* of the sum are what its signer saw.                                     *)

AppliedCall == [call : Relay!SignedCall, epoch : Nat]

RelayInv ==
    /\ Relay!RelayTypeOK
    /\ adminNonce = Len(applied) + recoveries
    /\ \A c \in signed : /\ c.nonce = c.seen + c.epoch
                         /\ c.seen <= Len(applied)
                         /\ c.epoch <= recoveries
    /\ Relay!AppliedInContext
    /\ Relay!RecoveryVoidsSigned

\* An unprotected step moves the nonce exactly if it runs a recovery.
LEMMA UnprotectedNonce ==
    ASSUME Relay!TypeOK, Relay!UnprotectedNext
    PROVE  \/ UNCHANGED <<adminNonce, recoveries>>
           \/ adminNonce' = adminNonce + 1 /\ recoveries' = recoveries + 1
BY DEF Relay!UnprotectedNext, Relay!RecoveryNext, Relay!SetAdmin, Relay!AcceptAdmin, Relay!Tick, Relay!ConfigureRecovery,
    Relay!ProposeRecovery, Relay!ApproveRecovery, Relay!ExecuteRecovery, Relay!CancelRecovery, Relay!VoidSigned,
    Relay!recoveryVars

\* A protected call is accepted for the current nonce only, and consumes it.
LEMMA ProtectedNonce ==
    ASSUME NEW c, NEW n, Relay!ProtectedNext(c, n)
    PROVE  /\ n = adminNonce
           /\ adminNonce' = adminNonce + 1
           /\ recoveries' = recoveries
BY DEF Relay!ProtectedNext, Relay!ConsumeNonce, Relay!ProposeAdmin, Relay!AssignRole, Relay!RevokeRole, Relay!UpdateKycRegistry,
    Relay!UpdateComplianceEngine, Relay!SetComplianceMetadata, Relay!Migrate, Relay!MigrateSchema, Relay!recoveryVars

LEMMA RelayInitInv == Relay!RelayInit => RelayInv
<1> SUFFICES ASSUME Relay!RelayInit PROVE RelayInv
    OBVIOUS
<1>1. Relay!TypeOK
    BY AdminInitTyped DEF Relay!RelayInit
<1>2. signed = {} /\ applied = <<>> /\ adminNonce = 0 /\ recoveries = 0
    BY DEF Relay!RelayInit, Relay!Init
<1> QED
    BY <1>1, <1>2 DEF RelayInv, Relay!RelayTypeOK, Relay!AppliedInContext, Relay!RecoveryVoidsSigned

LEMMA RelayStepInv == RelayInv /\ [Relay!RelayNext]_<<Relay!vars, Relay!relayVars>> => RelayInv'
<1> SUFFICES ASSUME RelayInv, [Relay!RelayNext]_<<Relay!vars, Relay!relayVars>> PROVE RelayInv'
    OBVIOUS
<1>t. /\ Relay!TypeOK
      /\ signed \in SUBSET Relay!SignedCall
      /\ applied \in Seq(AppliedCall)
      /\ adminNonce \in Nat /\ recoveries \in Nat /\ Len(applied) \in Nat
    BY DEF RelayInv, Relay!RelayTypeOK, Relay!TypeOK, AppliedCall
<1>1. CASE Relay!UnprotectedNext /\ UNCHANGED Relay!relayVars
    <2>1. Relay!TypeOK'
        BY <1>1, <1>t, AdminStepTyped DEF Relay!Next
    <2>2. \/ UNCHANGED <<adminNonce, recoveries>>
          \/ adminNonce' = adminNonce + 1 /\ recoveries' = recoveries + 1
        BY <1>1, <1>t, UnprotectedNonce
    <2>3. UNCHANGED <<signed, applied>>
        BY <1>1 DEF Relay!relayVars
    <2>4. \A c \in signed : c.epoch \in Nat /\ c.seen \in Nat
        BY <1>t DEF Relay!SignedCall
    <2>5. Relay!RelayTypeOK'
        BY <2>1, <2>3 DEF RelayInv, Relay!RelayTypeOK
    <2>6. adminNonce' = Len(applied') + recoveries' /\ recoveries <= recoveries'
        BY <1>t, <2>2, <2>3 DEF RelayInv
    <2>7. ASSUME NEW c \in signed
          PROVE  c.nonce = c.seen + c.epoch /\ c.seen <= Len(applied') /\ c.epoch <= recoveries'
        <3>1. c.nonce = c.seen + c.epoch /\ c.seen <= Len(applied) /\ c.epoch <= recoveries
            BY DEF RelayInv
        <3>2. recoveries' \in Nat
            BY <2>1 DEF Relay!TypeOK
        <3> QED
            BY <1>t, <2>3, <2>4, <2>6, <3>1, <3>2
    <2>8. Relay!AppliedInContext' /\ Relay!RecoveryVoidsSigned'
        BY <2>3 DEF RelayInv, Relay!AppliedInContext, Relay!RecoveryVoidsSigned
    <2> QED
        BY <2>3, <2>5, <2>6, <2>7, <2>8 DEF RelayInv
<1>2. ASSUME NEW a \in Parties, Relay!Sign(a) PROVE RelayInv'
    <2> DEFINE new == [caller |-> a, nonce |-> adminNonce,
                       epoch  |-> recoveries, seen |-> Len(applied)]
    <2>1. /\ signed' = signed \cup {new}
          /\ UNCHANGED applied /\ UNCHANGED Relay!vars
        BY <1>2 DEF Relay!Sign
    <2>2. new \in Relay!SignedCall
        BY <1>t DEF Relay!SignedCall
    <2>3. Relay!TypeOK'
        BY <1>t, <2>1, AdminStepTyped
    <2>4. UNCHANGED <<adminNonce, recoveries>>
        BY <2>1 DEF Relay!vars, Relay!recoveryVars
    <2>5. new.nonce = new.seen + new.epoch /\ new.seen = Len(applied) /\ new.epoch = recoveries
        BY <1>t DEF RelayInv
    <2> HIDE DEF new
    <2> QED
        BY <1>t, <2>1, <2>2, <2>3, <2>4, <2>5
        DEF RelayInv, Relay!RelayTypeOK, Relay!AppliedInContext, Relay!RecoveryVoidsSigned
<1>3. ASSUME NEW c \in signed, Relay!Deliver(c) PROVE RelayInv'
    <2> DEFINE done == [call |-> c, epoch |-> recoveries]
    <2>1. /\ Relay!ProtectedNext(c.caller, c.nonce)
          /\ applied' = Append(applied, done)
          /\ UNCHANGED signed
        BY <1>3 DEF Relay!Deliver
    <2>2. /\ c \in Relay!SignedCall
          /\ c.nonce \in Nat /\ c.seen \in Nat /\ c.epoch \in Nat /\ c.caller \in Parties
        BY <1>t DEF Relay!SignedCall
    <2>3. c.nonce = adminNonce /\ adminNonce' = adminNonce + 1 /\ recoveries' = recoveries
        BY <2>1, ProtectedNonce
    <2>4. c.seen = Len(applied) /\ c.epoch = recoveries
        BY <1>t, <2>2, <2>3 DEF RelayInv
    <2>5. Relay!TypeOK'
        <3>1. c.nonce \in 0..MaxNonce
            BY <1>t, <2>1, <2>2, AdminConstants DEF Relay!ProtectedNext, Relay!ConsumeNonce, Relay!ProposeAdmin,
                Relay!AssignRole, Relay!RevokeRole, Relay!UpdateKycRegistry, Relay!UpdateComplianceEngine,
                Relay!SetComplianceMetadata, Relay!Migrate, Relay!MigrateSchema
        <3> QED
            BY <1>t, <2>1, <2>2, <3>1, AdminStepTyped DEF Relay!Next
    <2>6. done \in AppliedCall /\ done.call = c /\ done.epoch = recoveries
        BY <1>t, <2>2 DEF AppliedCall
    <2> HIDE DEF done
    <2>7. /\ applied' \in Seq(AppliedCall)
          /\ Len(applied') = Len(applied) + 1
          /\ DOMAIN applied' = 1..(Len(applied) + 1)
          /\ \A i \in 1..Len(applied) : applied'[i] = applied[i]
          /\ applied'[Len(applied) + 1] = done
          /\ DOMAIN applied = 1..Len(applied)
        BY <1>t, <2>1, <2>6
    <2>8. Relay!AppliedInContext'
        BY <1>t, <2>4, <2>6, <2>7 DEF RelayInv, Relay!AppliedInContext
    <2>9. Relay!RecoveryVoidsSigned'
        BY <1>t, <2>4, <2>6, <2>7 DEF RelayInv, Relay!RecoveryVoidsSigned
    <2>10. \A d \in signed : d.seen \in Nat
        BY <1>t DEF Relay!SignedCall
    <2> QED
        BY <1>t, <2>1, <2>3, <2>5, <2>7, <2>8, <2>9, <2>10 DEF RelayInv, Relay!RelayTypeOK, AppliedCall
<1>4. CASE UNCHANGED <<Relay!vars, Relay!relayVars>>
    <2>1. Relay!TypeOK'
        BY <1>t, <1>4, AdminStepTyped
    <2>2. UNCHANGED <<signed, applied, adminNonce, recoveries>>
        BY <1>4 DEF Relay!vars, Relay!relayVars, Relay!recoveryVars
    <2> QED
        BY <2>1, <2>2 DEF RelayInv, Relay!RelayTypeOK, Relay!AppliedInContext, Relay!RecoveryVoidsSigned
<1> QED
    BY <1>1, <1>2, <1>3, <1>4 DEF Relay!RelayNext

LEMMA RelayInvHolds == Relay!RelaySpec => []RelayInv
BY RelayInitInv, RelayStepInv, PTL DEF Relay!RelaySpec

\* A signed call takes effect only while nothing else has since it was signed:
\* no submission is applied twice, and none is applied over another's change.
THEOREM AppliedOnceInContext == Relay!RelaySpec => []AppliedInContext
BY RelayInvHolds, PTL DEF RelayInv, AppliedInContext

\* A recovery voids every call signed before it.
THEOREM RecoveryVoids == Relay!RelaySpec => []RecoveryVoidsSigned
BY RelayInvHolds, PTL DEF RelayInv, RecoveryVoidsSigned
=============================================================================
