----------------------------- MODULE AssetPages -----------------------------
(***************************************************************************)
(* The pages that write to the asset contracts: invoice, property, carbon  *)
(* credits and batched transfers. A press of a button, or of a dialog that *)
(* kept what was shown, becomes a call; its answer changes what the page   *)
(* shows at once, or is followed by a reload of some of it.                *)
(*                                                                         *)
(* One page is open, and nobody else writes. What a page shows and what a  *)
(* contract holds are "facts": amounts issued, the invoice's two flags,    *)
(* the dividend pending for an account, deposits and retirements.          *)
(***************************************************************************)
EXTENDS Integers, FiniteSets

CONSTANTS
    Accounts,   \* accounts of the wallet
    Fraction,   \* an amount that the form's check lets pass and BigInt refuses; the other one is 1
    Slots,      \* 1..n, the calls made, numbered as they are: a bound
    MaxQueue    \* MAX_BATCH

VARIABLES
    page,       \* the page that is open
    address,    \* the wallet's account
    chain,      \* what the contracts hold
    view,       \* what the page shows, Unknown before it is loaded
    form,       \* the amount field
    dialog,     \* what the dialog will do
    calls,      \* the calls made
    queue,      \* the batch: number of operations
    agreed,     \* history: what was shown when the button or the dialog's was pressed
    spoiled     \* history: two loads or calls overlapped, a call was not answered, or a load failed

pageVars == <<page, address, chain, view, form, dialog, calls, queue, agreed, spoiled>>

None == "none"
Unknown == -1
Facts == {"supply", "settled", "paused", "shares", "pending", "deposits", "receipts"}

\* The facts a page loads when it opens.
Opening(p) == CASE p = "invoice" -> {"supply", "settled", "paused"} [] p = "property" -> {"shares", "pending"} [] OTHER -> {}

Nothing == [f \in {} |-> 0]
NoCall == [h |-> None, by |-> None, amount |-> 0, then |-> Nothing, loads |-> {}, phase |-> "free", landed |-> FALSE, got |-> Nothing]
NoDialog == [h |-> None, by |-> None, amount |-> 0]

\* Some was issued and dividends were deposited before.
Init ==
    /\ page \in {"invoice", "property", "carbon", "batch"}
    /\ address \in Accounts
    /\ chain = [f \in Facts |-> IF f = "pending" THEN [a \in Accounts |-> 1] ELSE IF f = "supply" THEN 1 ELSE 0]
    /\ view = [f \in Facts |-> IF f \notin Opening(page) THEN Unknown ELSE IF f \in {"pending", "supply"} THEN 1 ELSE 0]
    /\ form = 0
    /\ dialog = NoDialog
    /\ calls = [s \in Slots |-> NoCall]
    /\ queue = 0
    /\ agreed = {}
    /\ spoiled = FALSE

Running(s) == calls[s].phase \in {"sign", "sent", "load", "served"}

Busy(h) == \E s \in Slots : Running(s) /\ calls[s].h = h

Loading == \E s \in Slots : calls[s].phase \in {"load", "served"}

Type(amount) == form' = amount /\ form # amount /\ UNCHANGED <<page, address, chain, view, dialog, calls, queue, agreed, spoiled>>

\* The rest of a press: the call is made by the account that was connected when the page was drawn.
Make(s, h, by, amount, then, loads) ==
    /\ calls[s] = NoCall /\ \A t \in 1..(s - 1) : calls[t] # NoCall
    /\ calls' = [calls EXCEPT ![s] = [NoCall EXCEPT !.h = h, !.by = by, !.amount = amount, !.then = then, !.loads = loads,
                                                    !.phase = IF h = "load" THEN "load" ELSE "sign"]]
    /\ spoiled' = (spoiled \/ \E t \in Slots : Running(t))

Press(s, h, amount, then, loads) ==
    /\ ~Busy(h)
    /\ Make(s, h, address, amount, then, loads)
    /\ agreed' = agreed \cup {[h |-> h, by |-> address, amount |-> amount]}
    /\ UNCHANGED <<page, address, chain, view, form, dialog, queue>>

\* The reads that a page makes by itself.
Look(s, account, loads) == Make(s, "load", account, 0, Nothing, loads) /\ UNCHANGED <<page, chain, form, dialog, queue, agreed>>

WholeAmount == form \notin {0, Fraction}

----------------------------------------------------------------------------
(* Invoice: direct calls *)

handleIssue(s) == page = "invoice" /\ WholeAmount /\ Press(s, "issue", form, Nothing, Opening("invoice"))

handleSettle(s) == page = "invoice" /\ ~Loading /\ view.settled = 0 /\ Press(s, "settle", 0, [f \in {"settled"} |-> 1], {})

handleRedeem(s) ==
    /\ page = "invoice" /\ WholeAmount /\ view.settled = 1 /\ view.paused # 1
    /\ Press(s, "redeem", form, Nothing, Opening("invoice"))

\* What is called and shown depends on the flag shown when the button was pressed.
handleToggleLifecyclePause(s) ==
    /\ page = "invoice" /\ ~Loading /\ ~Busy("pause") /\ ~Busy("resume")
    /\ Press(s, IF view.paused = 1 THEN "resume" ELSE "pause", 0, [f \in {"paused"} |-> 1 - view.paused], {})

----------------------------------------------------------------------------
(* Property: direct calls *)

handleMint(s) == page = "property" /\ WholeAmount /\ Press(s, "mint", form, Nothing, {"shares"})

\* The history is loaded again if it had been loaded when the button was pressed.
handleDepositDividend(s) ==
    /\ page = "property" /\ WholeAmount
    /\ Press(s, "deposit", form, Nothing, {"pending"} \cup (IF view.deposits = Unknown THEN {} ELSE {"deposits"}))

\* The answer is trusted to leave nothing.
handleClaimDividend(s) ==
    /\ page = "property" /\ view.pending > 0
    /\ Press(s, "claim", 0, [f \in {"pending"} |-> 0], {})

loadDividendHistory(s) == page = "property" /\ Look(s, address, {"deposits"}) /\ UNCHANGED <<address, view>>

\* Another account of the wallet: the property page loads its dividend.
Switch(s, account) ==
    /\ account # address
    /\ address' = account
    /\ UNCHANGED view
    /\ IF page = "property" THEN Look(s, account, {"pending"}) ELSE UNCHANGED <<page, chain, form, dialog, queue, agreed, calls, spoiled>>

----------------------------------------------------------------------------
(* Carbon credits and batches: behind a dialog *)

Ask(h, amount) ==
    /\ dialog = NoDialog
    /\ dialog' = [h |-> h, by |-> address, amount |-> amount]
    /\ UNCHANGED <<page, address, chain, view, form, calls, queue, agreed, spoiled>>

handleCarbon(h) == page = "carbon" /\ form # 0 /\ Ask(h, form)

loadReceipts(s) == page = "carbon" /\ ~Loading /\ Look(s, address, {"receipts"}) /\ UNCHANGED <<address, view>>

\* Escape closes the dialog even while the call it made is under way.
Cancel == dialog # NoDialog /\ dialog' = NoDialog /\ UNCHANGED <<page, address, chain, view, form, calls, queue, agreed, spoiled>>

\* The dialog calls for the account connected by now.
Asked_Current == [dialog EXCEPT !.by = address]

\* What the dialog was opened with.
Asked == dialog

\* The carbon dialog stays, and is busy, until the call ends; a fraction throws and closes it.
runConfirmed(s) ==
    /\ page = "carbon" /\ dialog # NoDialog
    /\ \A t \in Slots : ~Running(t) \/ calls[t].h = "load"
    /\ IF dialog.amount = Fraction
       THEN dialog' = NoDialog /\ UNCHANGED <<calls, agreed, spoiled>>
       ELSE /\ Make(s, Asked.h, Asked.by, Asked.amount, Nothing, {})
            /\ agreed' = agreed \cup {dialog}
            /\ UNCHANGED dialog
    /\ UNCHANGED <<page, address, chain, view, form, queue>>

handleAddOp == page = "batch" /\ queue < MaxQueue /\ queue' = queue + 1
               /\ UNCHANGED <<page, address, chain, view, form, dialog, calls, agreed, spoiled>>

\* Removing one operation, or clearing the queue.
handleRemove == page = "batch" /\ queue > 0 /\ ~Busy("batch") /\ queue' \in {0, queue - 1}
                /\ UNCHANGED <<page, address, chain, view, form, dialog, calls, agreed, spoiled>>

handleExecute == page = "batch" /\ queue > 0 /\ ~Busy("batch") /\ Ask("batch", queue)

\* The batch dialog closes before the call is made.
confirmBatch(s) ==
    /\ page = "batch" /\ dialog # NoDialog
    /\ Make(s, Asked.h, Asked.by, Asked.amount, Nothing, {})
    /\ agreed' = agreed \cup {dialog}
    /\ dialog' = NoDialog
    /\ UNCHANGED <<page, address, chain, view, form, queue>>

----------------------------------------------------------------------------
(* The wallet, the contracts and the answers *)

\* The wallet signs for the account it shows by now: the network takes only the caller's.
Sign(s) ==
    /\ calls[s].phase = "sign" /\ calls[s].by = address
    /\ calls' = [calls EXCEPT ![s].phase = "sent"]
    /\ UNCHANGED <<page, address, chain, view, form, dialog, queue, agreed, spoiled>>

Changed(h, by, n) ==
    CASE h = "issue" -> [chain EXCEPT !.supply = @ + n]
      [] h = "redeem" -> [chain EXCEPT !.supply = @ - n]
      [] h = "settle" -> [chain EXCEPT !.settled = 1]
      [] h = "pause" -> [chain EXCEPT !.paused = 1]
      [] h = "resume" -> [chain EXCEPT !.paused = 0]
      [] h = "mint" -> [chain EXCEPT !.shares = @ + n]
      [] h = "deposit" -> [chain EXCEPT !.deposits = @ + 1, !.pending = [a \in Accounts |-> @[a] + n]]
      [] h = "claim" -> [chain EXCEPT !.pending[by] = 0]
      [] h = "retire" -> [chain EXCEPT !.receipts = @ + 1]
      [] OTHER -> chain

\* Settling and redeeming are refused while the lifecycle is paused, redeeming before the settlement and beyond the supply.
Accepted(h, n) ==
    CASE h = "redeem" -> chain.settled = 1 /\ chain.paused = 0 /\ chain.supply >= n
      [] h = "settle" -> chain.settled = 0 /\ chain.paused = 0
      [] OTHER -> TRUE

Land(s) ==
    /\ calls[s].phase \in {"sent", "unheard"} /\ ~calls[s].landed
    /\ Accepted(calls[s].h, calls[s].amount)
    /\ chain' = Changed(calls[s].h, calls[s].by, calls[s].amount)
    /\ calls' = [calls EXCEPT ![s].landed = TRUE]
    /\ UNCHANGED <<page, address, view, form, dialog, queue, agreed, spoiled>>

Reloads(s) == calls[s].loads

Kept(s) == [f \in Facts |-> IF f \in DOMAIN calls[s].then THEN calls[s].then[f] ELSE view[f]]

Succeed(s) ==
    /\ calls[s].phase = "sent" /\ calls[s].landed
    /\ view' = Kept(s)
    /\ calls' = [calls EXCEPT ![s].phase = IF Reloads(s) = {} THEN "done" ELSE "load"]
    /\ form' = IF calls[s].amount = 0 \/ page = "batch" THEN form ELSE 0
    /\ dialog' = IF page = "carbon" THEN NoDialog ELSE dialog
    /\ queue' = IF page = "batch" THEN 0 ELSE queue
    /\ UNCHANGED <<page, address, chain, agreed, spoiled>>

\* Refused by the wallet or the contract, or not answered: it may land later or have landed.
Failed(s, heard) ==
    /\ calls[s].phase \in {"sign", "sent"}
    /\ heard => ~calls[s].landed
    /\ calls' = [calls EXCEPT ![s].phase = IF heard \/ @ = "sign" THEN "done" ELSE "unheard"]
    /\ spoiled' = (spoiled \/ ~heard)
    /\ dialog' = IF page = "carbon" THEN NoDialog ELSE dialog
    /\ UNCHANGED <<page, address, chain, view, form, queue, agreed>>

Serve(s) ==
    /\ calls[s].phase = "load"
    /\ calls' = [calls EXCEPT ![s].phase = "served",
                              ![s].got = [f \in calls[s].loads |-> IF f = "pending" THEN chain.pending[calls[s].by] ELSE chain[f]]]
    /\ UNCHANGED <<page, address, chain, view, form, dialog, queue, agreed, spoiled>>

\* A failed read of the dividend shows none; the other reads leave what was shown.
Arrive(s, failed) ==
    /\ calls[s].phase = "served"
    /\ view' = [f \in Facts |-> IF f \notin DOMAIN calls[s].got THEN view[f] ELSE IF ~failed THEN calls[s].got[f]
                                ELSE IF f = "pending" THEN 0 ELSE view[f]]
    /\ calls' = [calls EXCEPT ![s].phase = "done"]
    /\ spoiled' = (spoiled \/ failed)
    /\ UNCHANGED <<page, address, chain, form, dialog, queue, agreed>>

----------------------------------------------------------------------------

Next ==
    \/ \E amount \in {1, Fraction} : Type(amount)
    \/ \E h \in {"cmint", "ctransfer", "retire"} : handleCarbon(h)
    \/ Cancel \/ handleAddOp \/ handleRemove \/ handleExecute
    \/ \E s \in Slots :
          \/ handleIssue(s) \/ handleSettle(s) \/ handleRedeem(s) \/ handleToggleLifecyclePause(s)
          \/ handleMint(s) \/ handleDepositDividend(s) \/ handleClaimDividend(s) \/ loadDividendHistory(s)
          \/ \E account \in Accounts : Switch(s, account)
          \/ runConfirmed(s) \/ loadReceipts(s) \/ confirmBatch(s)
          \/ Sign(s) \/ Land(s) \/ Succeed(s) \/ Serve(s)
          \/ \E b \in BOOLEAN : Failed(s, b) \/ Arrive(s, b)

Spec == Init /\ [][Next]_pageVars

----------------------------------------------------------------------------
(* Properties *)

\* Whatever lands was shown, with its amount and account, when the user pressed the button for it, although dialogs
\* stay open while the wallet changes account (CarbonPage.tsx, runConfirmed; BatchPage.tsx, handleExecute).
LandsAsAgreed ==
    \A s \in Slots : calls[s].landed => [h |-> calls[s].h, by |-> calls[s].by, amount |-> calls[s].amount] \in agreed

Held(f) == IF f = "pending" THEN chain.pending[address] ELSE chain[f]

\* A page whose calls and loads were answered one after the other shows the ledger as it is, once it is at rest,
\* whether it reloads after a write or sets what it expects (InvoicePage.tsx and PropertyPage.tsx, handlers).
QuietPageExact ==
    ~spoiled /\ (\A s \in Slots : ~Running(s)) => \A f \in Opening(page) : view[f] = Held(f)

\* A page shows what is, and does what it showed.
PagesHonest == LandsAsAgreed /\ QuietPageExact
=============================================================================
