---------------------------- MODULE TokenLedger ----------------------------
(***************************************************************************)
(* What a regulated token promises its holders, without saying how: an     *)
(* issue credits one account within the cap, a retirement debits one, and  *)
(* a payment debits one account and credits others by the same total.  The *)
(* members are the accounts that hold something.  The four tokens do so.   *)
(***************************************************************************)
EXTENDS Integers, FiniteSets, Functions

CONSTANTS Accounts, MaxSupply

VARIABLES bal, supply, members

ledgerVars == <<bal, supply, members>>

Holding(b) == {a \in Accounts : b[a] > 0}

\* A ledger begins in order: empty, or as an upgraded contract finds it.
Start ==
    /\ \A a \in Accounts : bal[a] >= 0
    /\ supply = SumFunction(bal)
    /\ members = Holding(bal)

Issue(a) ==
    /\ bal'[a] > bal[a]
    /\ \A b \in Accounts \ {a} : bal'[b] = bal[b]
    /\ supply' - supply = bal'[a] - bal[a]
    /\ MaxSupply > 0 => supply' <= MaxSupply

Retire(a) ==
    /\ 0 <= bal'[a] /\ bal'[a] < bal[a]
    /\ \A b \in Accounts \ {a} : bal'[b] = bal[b]
    /\ supply - supply' = bal[a] - bal'[a]

Pay(from) ==
    /\ 0 <= bal'[from] /\ bal'[from] < bal[from]
    /\ \A b \in Accounts \ {from} : bal'[b] >= bal[b]
    /\ SumFunction(bal') = SumFunction(bal)
    /\ supply' = supply

LedgerNext ==
    \E a \in Accounts : (Issue(a) \/ Retire(a) \/ Pay(a)) /\ members' = Holding(bal')

LedgerSpec == Start /\ [][LedgerNext]_ledgerVars
=============================================================================
