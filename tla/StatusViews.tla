---------------------------- MODULE StatusViews ----------------------------
(***************************************************************************)
(* The pages that show what the contracts hold: the operator dashboard,    *)
(* the deployment status, the marketplace with the state summary, and the  *)
(* card of the wallet's account. Every reader asks for its facts in        *)
(* parallel; each read is answered at its own time, or fails, and what is  *)
(* shown for a failed read differs from page to page. Timers and buttons   *)
(* start readers again whatever is under way.                              *)
(***************************************************************************)
EXTENDS Naturals, FiniteSets

CONSTANTS
    Accounts,   \* accounts of the wallet
    Contracts,  \* contracts whose identifiers are configured
    Rows,       \* the rows of the dashboard: engine, invoice, carbon, blocklist
    MaxStarts,  \* bound: readers started by a timer, a button or a change of account
    MaxChanges  \* bound: changes of what the contracts hold

VARIABLES
    page,       \* the page that is open
    address,    \* the wallet's account, None when there is none
    chain,      \* the facts as the contracts hold them
    view,       \* what each reader shows
    loading,    \* readers that show a skeleton
    fetches,    \* the answers awaited, numbered as they were asked for
    exact,      \* history: readers shown what was read since the facts last changed
    starts, changes \* the bounds' counters

statusVars == <<page, address, chain, view, loading, fetches, exact, starts, changes>>

None == "none"

\* What a reader shows is a set: of one value, or of none when it is unknown.
Unknown == {}

Readers == Rows \cup {"health", "market", "summary", "card"}

\* The readers of a page, and the facts that each asks for.
ReadersOf(p) == CASE p = "operators" -> Rows [] p = "market" -> {"market", "summary"} [] OTHER -> {p}

Facts(r) ==
    CASE r = "engine" -> {"paused"}
      [] r = "invoice" -> {"lifecycle"}
      [] r = "carbon" -> {"retired"}
      [] r = "blocklist" -> {"blocked"}
      [] r = "health" -> Contracts
      [] r = "card" -> {"balance"}
      [] OTHER -> {"paused", "holders", "supply"}

Values(f) ==
    CASE f \in {"paused", "lifecycle"} -> BOOLEAN
      [] f \in Contracts -> {"ok", "misconfigured", "unreachable"}
      [] f = "balance" -> [Accounts -> 0..1]
      [] OTHER -> 0..1

Shared == UNION {Facts(r) : r \in Readers}

Fetch(by) == [by |-> by, got |-> [f \in {} |-> 0], failed |-> {}, clean |-> TRUE]

\* A page that opens starts its readers; the card waits for an account.
Init ==
    /\ page \in {"operators", "health", "market", "card"}
    /\ address = None
    /\ \E paused \in BOOLEAN :
          chain = [f \in Shared |-> IF f \in {"paused", "lifecycle"} THEN paused ELSE IF f \in Contracts THEN "ok"
                                    ELSE IF f = "balance" THEN [a \in Accounts |-> 1] ELSE 1]
    /\ view = [r \in Readers |-> Unknown]
    /\ loading = IF page = "card" THEN {} ELSE ReadersOf(page)
    /\ fetches = IF page = "card" THEN <<>> ELSE [r \in ReadersOf(page) \X {0} |-> Fetch(None)]
    /\ exact = {}
    /\ starts = 0
    /\ changes = 0

Start(readers, by) ==
    /\ starts + Cardinality(readers) <= MaxStarts
    /\ starts' = starts + Cardinality(readers)
    /\ fetches' = [i \in DOMAIN fetches \cup (readers \X {starts + 1}) |-> IF i \in DOMAIN fetches THEN fetches[i] ELSE Fetch(by)]
    /\ loading' = loading \cup readers

\* The timers of the dashboard and of the status page, and "Refresh all".
refreshAll == page \in {"operators", "health"} /\ Start(ReadersOf(page), None) /\ UNCHANGED <<page, address, chain, view, exact, changes>>

\* The button of a row, of the status page and of the summary; the blocklist has none.
Refresh(r) ==
    /\ r \in (Rows \ {"blocklist"}) \cup {"health", "summary"} /\ r \in ReadersOf(page)
    /\ r \notin loading
    /\ Start({r}, None)
    /\ UNCHANGED <<page, address, chain, view, exact, changes>>

\* What was read or is being read for the other account is no longer exact.
Changed(facts) ==
    /\ exact' = {r \in exact : Facts(r) \cap facts = {}}
    /\ fetches' = [i \in DOMAIN fetches |-> [fetches[i] EXCEPT !.clean = @ /\ Facts(i[1]) \cap facts = {}]]

\* The reader of the card runs again for the new account; nothing stops the one under way.
Connect(account) ==
    /\ page = "card" /\ account # address
    /\ starts < MaxStarts
    /\ starts' = starts + 1
    /\ address' = account
    /\ exact' = exact \ {"card"}
    /\ fetches' = [i \in DOMAIN fetches \cup {<<"card", starts + 1>>} |->
                     IF i \in DOMAIN fetches THEN [fetches[i] EXCEPT !.clean = FALSE] ELSE Fetch(account)]
    /\ loading' = loading \cup {"card"}
    /\ UNCHANGED <<page, chain, view, changes>>

Disconnect ==
    /\ page = "card" /\ address # None
    /\ address' = None
    /\ view' = [view EXCEPT !["card"] = Unknown]
    /\ Changed({"balance"})
    /\ UNCHANGED <<page, chain, loading, starts, changes>>

\* Only what the page asks for matters.
Change(f) ==
    /\ changes < MaxChanges
    /\ changes' = changes + 1
    /\ f \in UNION {Facts(r) : r \in ReadersOf(page)}
    /\ \E v \in Values(f) \ {chain[f]} : chain' = [chain EXCEPT ![f] = v]
    /\ Changed({f})
    /\ UNCHANGED <<page, address, view, loading, starts>>

\* One read of a reader is answered. A probe that fails tells how the contract is.
Serve(i, f, failed) ==
    /\ f \in Facts(i[1]) \ (DOMAIN fetches[i].got \cup fetches[i].failed)
    /\ failed => f \notin Contracts
    /\ fetches' = IF failed THEN [fetches EXCEPT ![i].failed = @ \cup {f}]
                  ELSE [fetches EXCEPT ![i].got = [g \in DOMAIN @ \cup {f} |->
                          IF g # f THEN @[g] ELSE IF f = "balance" THEN chain[f][fetches[i].by] ELSE chain[f]]]
    /\ UNCHANGED <<page, address, chain, view, loading, exact, starts, changes>>

----------------------------------------------------------------------------
(* What the answers show *)

\* safeCall: a read that fails counts as a value.
Or(got, f, fallback) == IF f \in DOMAIN got THEN got[f] ELSE fallback

deriveOverallStatus(got) ==
    IF \A c \in Contracts : got[c] = "ok" THEN "ok"
    ELSE IF \E c \in Contracts : got[c] = "misconfigured" THEN "misconfigured"
    ELSE IF \A c \in Contracts : got[c] = "unreachable" THEN "unreachable"
    ELSE "degraded"

Minted(got) == Or(got, "supply", 0) > 0

Held(got) == Or(got, "holders", 0) > 0

\* Whether there are rules is not asked, as they say that nothing is paused.
buildListings_NoRules(got) ==
    IF Or(got, "paused", FALSE) THEN "not-ready" ELSE IF Minted(got) /\ Held(got) THEN "ready" ELSE "partial"

\* The rules are one read: without it, nothing is paused and there are no rules.
buildListings(got) ==
    IF Or(got, "paused", FALSE) THEN "not-ready"
    ELSE IF Minted(got) /\ Held(got) /\ "paused" \in DOMAIN got THEN "ready" ELSE "partial"

summariseGlobalSnapshot(got) == IF Or(got, "paused", FALSE) THEN "critical" ELSE "healthy"

Shown(r, got) ==
    CASE r = "blocklist" -> IF "blocked" \in DOMAIN got THEN {got["blocked"]} ELSE view[r]
      [] r = "health" -> {deriveOverallStatus(got)}
      [] r = "market" -> {buildListings(got)}
      [] r = "summary" -> {summariseGlobalSnapshot(got)}
      [] r = "card" -> {Or(got, "balance", 0)}
      [] OTHER -> {got[f] : f \in DOMAIN got}

\* A failed count keeps the one that was shown.
Land(i) ==
    LET r == i[1]
        got == fetches[i].got
    IN  /\ Facts(r) = DOMAIN got \cup fetches[i].failed
        /\ view' = [view EXCEPT ![r] = Shown(r, got)]
        /\ exact' = IF r = "blocklist" /\ fetches[i].failed # {} THEN exact
                    ELSE IF fetches[i].clean THEN exact \cup {r} ELSE exact \ {r}
        /\ loading' = loading \ {r}
        /\ fetches' = [j \in DOMAIN fetches \ {i} |-> fetches[j]]
        /\ UNCHANGED <<page, address, chain, starts, changes>>

----------------------------------------------------------------------------

Next ==
    \/ refreshAll
    \/ \E r \in Readers : Refresh(r)
    \/ \E a \in Accounts : Connect(a)
    \/ Disconnect
    \/ \E f \in Shared : Change(f)
    \/ \E i \in DOMAIN fetches :
          \/ \E f \in Facts(i[1]), failed \in BOOLEAN : Serve(i, f, failed)
          \/ Land(i)

Spec == Init /\ [][Next]_statusVars

----------------------------------------------------------------------------
(* Properties *)

Tradable == ~chain["paused"] /\ chain["holders"] > 0 /\ chain["supply"] > 0

RowsExact == \A r \in Rows \cap exact : view[r] \subseteq {chain[f] : f \in Facts(r)}

HealthExact ==
    "health" \in exact =>
       /\ view["health"] = {"ok"} <=> \A c \in Contracts : chain[c] = "ok"
       /\ view["health"] = {"unreachable"} <=> \A c \in Contracts : chain[c] = "unreachable"

CardExact == "card" \in exact => view["card"] \subseteq {0, chain["balance"][address]}

\* As long as the facts have not changed since they were asked for, a failed read makes nothing up, and an answer that
\* comes late is not taken for a new one: a pause is shown or unknown, never denied, an asset whose rules could not be
\* read is not ready to trade, "Operational" stands for every contract, and a balance is the account's or none
\* (OperatorDashboard.tsx, MarketplacePage.tsx buildListings, deploymentHealth.ts deriveOverallStatus, StatusCard.tsx).
NothingInvented ==
    /\ RowsExact /\ HealthExact /\ CardExact
    /\ "market" \in exact /\ view["market"] = {"ready"} => Tradable
=============================================================================
