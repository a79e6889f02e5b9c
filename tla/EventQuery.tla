----------------------------- MODULE EventQuery -----------------------------
(***************************************************************************)
(* The event table of the frontend: pages fetched from the indexer where   *)
(* one is configured, else from an RPC node, by a hook that starts fetches *)
(* without waiting for those under way.                                    *)
(*                                                                         *)
(* Events are numbered as the chain emits them. A node serves them oldest  *)
(* first, after a cursor where one is given; the indexer serves them by    *)
(* page, newest first.                                                     *)
(***************************************************************************)
EXTENDS Integers, Sequences, FiniteSets

CONSTANTS
    Configured,     \* whether VITE_INDEXER_URL is set: a choice of both for TLC
    PageSize,
    Emitted,        \* events there are at the start
    MaxEvents,      \* bound on the events
    Slots,          \* fetches that may be under way at a time
    MaxFetches      \* bound: fetches made

VARIABLES
    indexed,    \* the indexer is configured
    emitted,    \* number of the latest event
    view,       \* what the hook returns
    stack,      \* cursorStack: page -> token of its last event
    fetches,    \* the fetches under way, by slot
    spent,      \* fetches made so far
    overlapped  \* history: two fetches were under way at a time

queryVars == <<indexed, emitted, view, stack, fetches, spent, overlapped>>

None == [kind |-> "none", page |-> 0, cursor |-> 0, got |-> <<>>, more |-> FALSE, served |-> FALSE]

Init ==
    /\ indexed \in Configured
    /\ emitted = Emitted
    /\ view = [events |-> <<>>, page |-> 1, more |-> FALSE, source |-> "rpc", from |-> "none",
               loading |-> FALSE, error |-> FALSE]
    /\ stack = [p \in {} |-> 0]
    /\ fetches = [s \in Slots |-> None]
    /\ spent = 0
    /\ overlapped = FALSE

Emit == emitted < MaxEvents /\ emitted' = emitted + 1 /\ UNCHANGED <<indexed, view, stack, fetches, spent, overlapped>>

----------------------------------------------------------------------------
(* What is served *)

Least(a, b) == IF a < b THEN a ELSE b

\* fetchContractEvents asks for one event more than a page holds.
fetchContractEvents(cursor) == [k \in 1..Least(PageSize + 1, emitted - cursor) |-> cursor + k]

\* Page p of the table, newest first.
getIndexerEvents(p) == LET top == emitted - (p - 1) * PageSize
                       IN [k \in 1..(IF top <= 0 THEN 0 ELSE Least(PageSize, top)) |-> top - k + 1]

Pages == (emitted + PageSize - 1) \div PageSize

\* A node or the indexer answers; the answer is on its way.
Serve(s) ==
    /\ fetches[s].kind # "none" /\ ~fetches[s].served
    /\ LET f == fetches[s]
           all == fetchContractEvents(f.cursor)
       IN fetches' = [fetches EXCEPT ![s].served = TRUE,
                         ![s].got = IF f.kind = "indexer" THEN getIndexerEvents(f.page)
                                    ELSE SubSeq(all, 1, Least(PageSize, Len(all))),
                         ![s].more = IF f.kind = "indexer" THEN f.page < Pages ELSE Len(all) > PageSize]
    /\ UNCHANGED <<indexed, emitted, view, stack, spent, overlapped>>

----------------------------------------------------------------------------
(* The hook *)

Idle(s) == fetches[s].kind = "none"

Begin(s, kind, page, cursor) ==
    /\ Idle(s) /\ spent < MaxFetches
    /\ spent' = spent + 1
    /\ fetches' = [fetches EXCEPT ![s] = [None EXCEPT !.kind = kind, !.page = page, !.cursor = cursor]]
    /\ view' = [view EXCEPT !.loading = TRUE, !.error = FALSE, !.source = kind]
    /\ overlapped' = (overlapped \/ \E t \in Slots \ {s} : ~Idle(t))

\* refresh and firstPage.
Refresh(s) ==
    /\ Begin(s, IF indexed THEN "indexer" ELSE "rpc", 1, 0)
    /\ stack' = [p \in {} |-> 0]
    /\ UNCHANGED <<indexed, emitted>>

Token(p) == IF p \in DOMAIN stack THEN stack[p] ELSE 0

\* nextPage takes the token left by the page before the one shown; the first page has none before it.
NextPage(s) ==
    /\ view.more
    /\ Begin(s, IF indexed THEN "indexer" ELSE "rpc", view.page + 1, IF indexed THEN 0 ELSE Token(view.page - 1))
    /\ UNCHANGED <<indexed, emitted, stack>>

Shown(f) == [view EXCEPT !.events = f.got, !.page = f.page, !.more = f.more, !.from = f.kind, !.loading = FALSE]

\* The token of the event that was fetched beyond the page.
Last_Peeked(f) == f.got[Len(f.got)] + 1

Last(f) == f.got[Len(f.got)]

\* The answer is shown, whatever was asked or answered meanwhile.
Deliver(s) ==
    /\ fetches[s].served
    /\ LET f == fetches[s] IN
       /\ view' = Shown(f)
       /\ stack' = IF f.kind = "rpc" /\ f.more
                   THEN [p \in DOMAIN stack \cup {f.page} |-> IF p = f.page THEN Last(f) ELSE stack[p]]
                   ELSE stack
    /\ fetches' = [fetches EXCEPT ![s] = None]
    /\ UNCHANGED <<indexed, emitted, spent, overlapped>>

\* A failure of the indexer falls back to the first page of a node.
FallBack(s) ==
    /\ fetches[s].kind = "indexer"
    /\ fetches' = [fetches EXCEPT ![s] = [None EXCEPT !.kind = "rpc", !.page = 1]]
    /\ view' = [view EXCEPT !.source = "rpc", !.loading = TRUE, !.error = FALSE]
    /\ UNCHANGED <<indexed, emitted, stack, spent, overlapped>>

Failed == [view EXCEPT !.error = TRUE, !.loading = FALSE]

FetchFails(s) ==
    /\ fetches[s].kind = "rpc"
    /\ view' = Failed
    /\ fetches' = [fetches EXCEPT ![s] = None]
    /\ UNCHANGED <<indexed, emitted, stack, spent, overlapped>>

----------------------------------------------------------------------------

Next ==
    \/ Emit
    \/ \E s \in Slots :
          Serve(s) \/ Refresh(s) \/ NextPage(s) \/ Deliver(s) \/ FallBack(s) \/ FetchFails(s)

Spec == Init /\ [][Next]_queryVars

----------------------------------------------------------------------------
(* Properties *)

Turned == view'.from = "rpc" /\ view.from = "rpc" /\ view'.page = view.page + 1

\* Turning the page of a node never skips an event, as long as one fetch at a time is under way (useEventQuery.ts,
\* nextPage and the cursor taken from the last event shown).
NoEventSkipped ==
    [][Turned /\ view'.events # <<>> /\ ~overlapped => view'.events[1] <= view.events[Len(view.events)] + 1]_view

\* The spinner turns only while a fetch is under way, however fetches overlap or fail (useEventQuery.ts, finally).
SpinnerHonest == view.loading => \E s \in Slots : ~Idle(s)

\* The table shows what it fetches, and all of it.
TableSound == []SpinnerHonest /\ NoEventSkipped
=============================================================================
