------------------------------ MODULE Frontend ------------------------------
(***************************************************************************)
(* The parts of the frontend that keep state of their own, beside the      *)
(* calls its clients and the SDK's make (ClientCalls). They share no       *)
(* state: each is an instance here, with constants and variables named     *)
(* apart, and its property under its own name.                             *)
(***************************************************************************)
EXTENDS ClientCalls

CONSTANTS
    Submissions, InitialFee, MaxFee, MaxRetries,                                        \* FeeBump
    Configured, PageSize, Emitted, LastEmitted, TableSlots, MaxFetches,                 \* EventQuery
    Addresses, Limit, Lookback, MaxSeen, QueueCap, Threshold, Window, MaxEvents, MaxNow, MaxPolls, \* AlertMonitor
    Accounts, Attempts, Verifiers, Operators, MaxReloads,                               \* WalletSession
    Admins, DeskCalls, Limits, MaxDeskReloads,                                          \* AdminDesk
    Fraction, PageSlots, MaxQueue,                                                      \* AssetPages
    Grid, Wildcard, Files, MAX_SNAPSHOTS, MaxActions,                                   \* PolicyBackup
    StatusContracts, Rows, MaxStarts, MaxChanges                                        \* StatusViews

\* A fee of zero would never grow, and attempts of a wallet are numbered from 1.
ASSUME FeesAreNats == InitialFee \in Nat \ {0} /\ MaxFee \in Nat /\ MaxRetries \in Nat
ASSUME AttemptsAreNumbered == Attempts \subseteq Nat \ {0}

ASSUME PagesHold == PageSize \in Nat \ {0} /\ Emitted \in Nat /\ Configured \subseteq BOOLEAN
\* A poll brings no more than the monitor remembers (20 and 500 in the code).
ASSUME AlertsAreCapped ==
    /\ Limit \in Nat /\ MaxSeen \in Nat /\ Limit <= MaxSeen
    /\ Lookback \in Nat /\ QueueCap \in Nat
ASSUME FractionIsInt == Fraction \in Int

\* What an amount of a configuration can be (PolicyBackup): a number, or what stands in its place.
FileAmounts == {"zero", "one", "two", "negative", "empty", "bare", "text", "over100", "none"}

\* Pairs are not the other reads of a snapshot, and a file that parses has the three parts of a configuration.
ASSUME GridIsGiven ==
    /\ Len(Grid) \in Nat \ {0} /\ DOMAIN Grid = 1..Len(Grid)
    /\ {"rules", "risk"} \cap ({Grid[i] : i \in DOMAIN Grid} \cup {Wildcard}) = {}
ASSUME FilesAreRead ==
    Files \subseteq [rules : FileAmounts, risk : FileAmounts,
                     policies : Seq([pair : {Grid[i] : i \in DOMAIN Grid} \cup {Wildcard}, amount : FileAmounts])]
ASSUME SnapshotsAreKept == MAX_SNAPSHOTS \in Nat

\* An account is not what stands for none, and the health checks' contracts are not facts of the other views.
ASSUME AccountsAreReal == "none" \notin Accounts
ASSUME ViewsAreApart ==
    /\ Rows \subseteq {"engine", "invoice", "carbon", "blocklist"}
    /\ StatusContracts # {}
    /\ StatusContracts \cap {"paused", "lifecycle", "retired", "blocked", "balance", "holders", "supply"} = {}

VARIABLES
    bump, envelopes, shown,
    indexed, emitted, table, stack, fetches, spent, overlapped,
    events, now, monitor, polls, asked, notices, unread,
    wallet, attempt, remembered, closing, roles, loads, forgotten,
    engine, desk, calls, registry, log, lapsed, reloads,
    page, address, ledger, view, form, dialog, writes, batch, agreed, spoiled,
    policy, saved, capture, imported, apply, alone, actions,
    open, account, facts, readers, loading, reads, exact, starts, changes

feeVars == <<bump, envelopes, shown>>
tableVars == <<indexed, emitted, table, stack, fetches, spent, overlapped>>
alertVars == <<events, now, monitor, polls, asked, notices, unread>>
walletVars == <<wallet, attempt, remembered, closing, roles, loads, forgotten>>
deskVars == <<engine, desk, calls, registry, log, lapsed, reloads>>
pageVars == <<page, address, ledger, view, form, dialog, writes, batch, agreed, spoiled>>
backupVars == <<policy, saved, capture, imported, apply, alone, actions>>
statusVars == <<open, account, facts, readers, loading, reads, exact, starts, changes>>
callVars == <<admins, verifiers, record, expired, paused, unclaimed, menu, call, begun>>

Fees == INSTANCE FeeBump

Table == INSTANCE EventQuery WITH view <- table, MaxEvents <- LastEmitted, Slots <- TableSlots

Alerts == INSTANCE AlertMonitor WITH queue <- notices

Wallet == INSTANCE WalletSession

Desk == INSTANCE AdminDesk WITH spoiled <- lapsed, loads <- reloads, Calls <- DeskCalls, MaxReloads <- MaxDeskReloads

Pages == INSTANCE AssetPages WITH chain <- ledger, calls <- writes, queue <- batch, Slots <- PageSlots

Backup == INSTANCE PolicyBackup WITH engine <- policy

Status == INSTANCE StatusViews WITH
    page <- open, address <- account, chain <- facts, view <- readers, fetches <- reads, Contracts <- StatusContracts

----------------------------------------------------------------------------
(* Properties, stated and explained in the modules; AnswersSound is in ClientCalls *)

\* Fee-bumped submissions (feeBump.ts, useSubmitWithFeeBump.ts).
CallersTold == Fees!CallersTold

\* The event table (useEventQuery.ts).
TableSound == Table!TableSound

\* The alerts (alertMonitor.ts, notificationStore.ts).
AlertsSound == Alerts!AlertsSound

\* The wallet's session and role (wallet.ts, roleStore.ts).
SessionSound == Wallet!SessionSound

\* The admin page (AdminPage.tsx, GovernanceLog.tsx, conflictDetection.ts).
DeskSound == Desk!DeskSound

\* The pages of the assets (InvoicePage.tsx, PropertyPage.tsx, CarbonPage.tsx, BatchPage.tsx).
PagesHonest == Pages!PagesHonest

\* Snapshots and restorations (complianceConfig.ts, readApi.ts).
BackupSound == Backup!BackupSound

\* The status pages (OperatorDashboard.tsx, MarketplacePage.tsx, deploymentHealth.ts, StatusCard.tsx).
NothingInvented == Status!NothingInvented
=============================================================================
