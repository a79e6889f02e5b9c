--------------------------- MODULE MCAssetTokens ---------------------------
(***************************************************************************)
(* The three asset tokens for TLC: a behaviour is one of one of them,      *)
(* chosen by scenario; they share no state, and the variables of the       *)
(* others stay as they begin.                                              *)
(*                                                                         *)
(*   trade   one invoice, with and without a fee, between three holders    *)
(*   batch   two invoices, settled in batches, paused and resumed          *)
(*   agent   one invoice, with a spender, the clock and changing standing  *)
(*   shares  the property token, new or upgraded, and its dividends        *)
(*   market  its shares, with spenders, the clock and changing standing    *)
(*   credits the carbon credit token                                       *)
(***************************************************************************)
EXTENDS AssetTokens, TLC

CONSTANTS a1, a2, a3, i1, i2

Terms(face, due, fee, recipient) == [face |-> face, due |-> due, fee |-> fee, recipient |-> recipient]

MCMetas == {Terms(3, 1, 0, NoOne), Terms(2, 1, 5000, a3)}

Batch == INSTANCE InvoiceToken WITH
    Invoices <- {i1, i2}, Accounts <- {a1}, Metas <- {Terms(2, 1, 0, NoOne)}, Amounts <- {1, 2},
    MaxNow <- 1, MaxNotes <- 0, Switches <- BOOLEAN

Agent == INSTANCE InvoiceToken WITH
    Accounts <- {a1, a2}, Metas <- {Terms(3, 1, 5000, a2)}, Amounts <- {2},
    MaxNow <- 2, MaxNotes <- 0, Spenders <- {a2}, Watched <- {a2}, Switches <- {TRUE}

Scaled == 10000000

Book(total, rent, capital) ==
    [k \in {"total", "rent", "capital"} |-> CASE k = "total" -> total [] k = "rent" -> rent [] k = "capital" -> capital]

\* A rent of one a share, which one holder has claimed as a whole, so that its
\* typed counter is stale, and the other has not touched since.
MCUpgrade ==
    [shares |-> a1 :> 1 @@ a2 :> 1, index |-> Book(Scaled, Scaled, 0), pool |-> 1, deposits |-> 1,
     legacy |-> a1 :> [owed |-> Book(0, 1, 0), debt |-> Book(1, 1, 0)]
             @@ a2 :> [owed |-> Book(0, 0, 0), debt |-> Book(0, 0, 0)],
     roll |-> <<a1, a2>>]

MCUpgrades == {MCUpgrade}

Market == INSTANCE PropertyToken WITH
    Accounts <- {a1, a2}, Shares <- {1}, Deposits <- {}, Authorized <- 2, Scale <- Scaled, Upgrades <- {},
    NoCheckpoint <- NoMeta, Spenders <- {a2}, Watched <- {a2}, MaxDeposits <- 0, MaxNow <- 2,
    standing <- fitness, granted <- allowances, clock <- ledger

MCInit ==
    /\ scenario \in {"trade", "batch", "agent", "shares", "market", "credits"}
    /\ CASE scenario = "batch" -> Batch!Init [] scenario = "agent" -> Agent!Init [] OTHER -> Init
    /\ IF scenario = "market" THEN Market!Init ELSE Property!Init
    /\ Carbon!Init
    /\ scenario \in {"trade", "batch", "agent"} \/ meta[i1] = Terms(3, 1, 0, NoOne)
    /\ scenario = "shares" \/ issued = 0

\* What shares leaves to market: paying oneself all one has, and migrating a
\* contract that has nothing to migrate.
Dividends == turned' = {} /\ (roll = <<>> => schema' = schema)

MCNext ==
    /\ UNCHANGED scenario
    /\ CASE scenario = "trade" -> Next
         [] scenario = "batch" -> Batch!Next
         [] scenario = "agent" -> Agent!Next
         [] OTHER -> UNCHANGED invoiceVars
    /\ CASE scenario = "shares" -> Property!Next /\ Dividends
         [] scenario = "market" -> Market!Next
         [] OTHER -> UNCHANGED shareVars
    /\ IF scenario = "credits" THEN Carbon!Next ELSE UNCHANGED creditVars

MCSpec == MCInit /\ [][MCNext]_<<scenario, invoiceVars, shareVars, creditVars>>

----------------------------------------------------------------------------
\* The statement of the reference about the dividend pool, see PropertyToken.
PoolCovers == scenario = "shares" => Property!PoolCovers
=============================================================================
