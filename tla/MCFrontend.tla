----------------------------- MODULE MCFrontend -----------------------------
(***************************************************************************)
(* The parts of the frontend in one run: a behaviour is a behaviour of one *)
(* of them, chosen by scenario. They share no state, so nothing is lost,   *)
(* and the variables of the others stay as they begin.                     *)
(***************************************************************************)
EXTENDS MCClientCalls, Frontend

VARIABLE scenario

MCSlots == 1..2

MCBooleans == BOOLEAN

MCGrid == <<"00", "01">>

File(rules, policies, risk) == [rules |-> rules, policies |-> policies, risk |-> risk]
Policy(pair, amount) == [pair |-> pair, amount |-> amount]

\* Two files that can be applied whole, and one for each way a check or a conversion stops one.
MCFiles ==
    {File("one", <<Policy("01", "one"), Policy("00", "two")>>, "one"), File("empty", <<Policy("00", "one")>>, "none"),
     File("one", <<Policy("00", "text")>>, "none"), File("one", <<Policy("00", "negative")>>, "none"),
     File("bare", <<>>, "none"), File("negative", <<>>, "none"), File("one", <<>>, "over100"), File("none", <<>>, "none")}

\* No scenario tells two administrators, or two submissions, apart.
Alike == Permutations(Admins) \cup Permutations(Submissions)

AnyOf(S) == CHOOSE x \in S : TRUE

\* The parts that are not the scenario's begin in one way.
Others ==
    /\ scenario = "table" \/ ~indexed
    /\ scenario = "pages" \/ (page = "batch" /\ address = AnyOf(Accounts))
    /\ scenario = "status" \/ (open = "card" /\ ~facts["paused"])
    /\ scenario = "calls" \/ ((\A c \in Callers : Cardinality(menu[c]) < 3) /\ admins = {AnyOf(Callers \ MalformedCallers)})

MCInit ==
    /\ scenario \in {"fees", "table", "alerts", "wallet", "desk", "pages", "backup", "status", "calls"}
    /\ Fees!Init /\ Table!Init /\ Alerts!Init /\ Wallet!Init /\ Desk!Init /\ Pages!Init
    /\ Backup!Init /\ Status!Init /\ Init
    /\ Others

MCNext ==
    /\ UNCHANGED scenario
    /\ IF scenario = "fees" THEN Fees!Next ELSE UNCHANGED feeVars
    /\ IF scenario = "table" THEN Table!Next ELSE UNCHANGED tableVars
    /\ IF scenario = "alerts" THEN Alerts!Next ELSE UNCHANGED alertVars
    /\ IF scenario = "wallet" THEN Wallet!Next ELSE UNCHANGED walletVars
    /\ IF scenario = "desk" THEN Desk!Next ELSE UNCHANGED deskVars
    /\ IF scenario = "pages" THEN Pages!Next ELSE UNCHANGED pageVars
    /\ IF scenario = "backup" THEN Backup!Next ELSE UNCHANGED backupVars
    /\ IF scenario = "status" THEN Status!Next ELSE UNCHANGED statusVars
    /\ IF scenario = "calls" THEN Next ELSE UNCHANGED callVars

MCSpec ==
    MCInit /\ [][MCNext]_<<scenario, feeVars, tableVars, alertVars, walletVars, deskVars, pageVars, backupVars, statusVars, callVars>>
=============================================================================
