-------------------------- MODULE EventIndexer --------------------------
(***************************************************************************)
(* The event indexer, src/services/event-indexer: processes that migrate   *)
(* one database, poll the RPC node for the events of a contract, store     *)
(* every page in one database transaction and answer the REST API.  Two    *)
(* processes overlap when a deployment starts the new one before the old   *)
(* one has gone; a process may be killed between any two awaits.           *)
(*                                                                         *)
(* An event is its position in the contract's stream, which also stands    *)
(* for its paging token and its ledger.  Addresses, amounts and texts of   *)
(* events are left out: what the indexer tells apart is whether an event   *)
(* has a table of its own and whether its contract call succeeded.         *)
(***************************************************************************)
EXTENDS Integers, Sequences, FiniteSets, SequencesExt, FiniteSetsExt

CONSTANTS
  Processes,
  Files,          \* number of migration files
  Limit,          \* POLL_LIMIT
  Backfill,       \* STARTUP_BACKFILL_LEDGERS
  Kinds,          \* of event: has a table of its own, has none, call failed
  MaxEvents,      \* bound: events the contract emits
  MaxFailures,    \* bound: polls that fail in a row
  MaxCrashes,     \* bound: processes killed
  PageSize,       \* of the reader that walks GET /events
  None

ASSUME IndexerAssumption ==
  /\ {Files, Backfill, MaxEvents, MaxFailures, MaxCrashes} \subseteq Nat
  /\ Kinds \subseteq {"typed", "plain", "failed"}
  /\ {Limit, PageSize} \subseteq Nat \ {0}
  /\ None \notin Nat

VARIABLES
  chain,          \* the contract's events, by kind
  schema,         \* migration files whose statements are committed
  recorded,       \* rows of schema_migrations
  rows,           \* table events: [token, event], in order of id
  derived,        \* compliance_violations and kyc_changes: event -> rows
  cursor,         \* table cursors, for the one contract
  origin,         \* where the first stored page began (history)
  overlapped,     \* history: two processes have been up at once, "later" if the
                  \* cursor was there by then, else "first"; or "never"
  stage,          \* what each process is suspended on
  todo,           \* migration files it found missing when it started
  page,           \* the response being stored
  failures,       \* consecutiveFailures
  wait,           \* the delay of the timer, in poll intervals
  running,        \* ContractPoller.running
  crashes,
  walk            \* the reader: [page, seen, owed], or None

tables == <<rows, derived, cursor, origin>>
db == <<schema, recorded, tables>>
procs == <<stage, todo, page, failures, wait, running>>
vars == <<chain, db, overlapped, procs, crashes, walk>>

Stages == {"down", "migrate", "record", "timer", "fetch", "store"}
NoPage == [events |-> <<>>, from |-> 0]

Init ==
  /\ chain = <<>>
  /\ schema = {} /\ recorded = {} /\ rows = <<>> /\ cursor = None /\ origin = 0
  /\ derived = [e \in 1..MaxEvents |-> 0]
  /\ overlapped = "never"
  /\ stage = [p \in Processes |-> "down"]
  /\ todo = [p \in Processes |-> {}]
  /\ page = [p \in Processes |-> NoPage]
  /\ failures = [p \in Processes |-> 0]
  /\ wait = [p \in Processes |-> 0]
  /\ running = [p \in Processes |-> FALSE]
  /\ crashes = 0
  /\ walk = None

Emit(kind) ==
  /\ Len(chain) < MaxEvents
  /\ chain' = Append(chain, kind)
  /\ UNCHANGED <<db, overlapped, procs, crashes, walk>>
----------------------------------------------------------------------------
(* Startup. *)

Go(p, s) == stage' = [stage EXCEPT ![p] = s]

Boot_Reapplies(p) ==
  /\ stage[p] = "down"
  /\ Go(p, "migrate")
  /\ todo' = [todo EXCEPT ![p] = 1..Files]
  /\ overlapped' = IF \A q \in Processes : stage[q] = "down" THEN overlapped ELSE "first"
  /\ UNCHANGED <<chain, db, page, failures, wait, running, crashes, walk>>

\* main: the configuration is read, then runMigrations lists what to apply.
Boot(p) ==
  /\ stage[p] = "down"
  /\ Go(p, "migrate")
  /\ todo' = [todo EXCEPT ![p] = (1..Files) \ recorded]
  /\ overlapped' = IF overlapped = "first" \/ \A q \in Processes : stage[q] = "down"
                   THEN overlapped
                   ELSE IF cursor = None THEN "first" ELSE "later"
  /\ UNCHANGED <<chain, db, page, failures, wait, running, crashes, walk>>

\* The files are run in name order.  A file ends in a COMMIT of its own, so
\* its statements are committed before its row is written.
Migrate(p) ==
  /\ stage[p] = "migrate" /\ todo[p] # {}
  /\ schema' = schema \cup {Min(todo[p])}
  /\ Go(p, "record")
  /\ UNCHANGED <<chain, recorded, tables, overlapped, todo, page, failures,
                 wait, running, crashes, walk>>

\* The row is written; when another process has written it, the key exists,
\* the migration fails and the process exits.
RecordMigration(p) ==
  /\ stage[p] = "record"
  /\ recorded' = recorded \cup {Min(todo[p])}
  /\ IF Min(todo[p]) \in recorded
     THEN Go(p, "down") /\ UNCHANGED todo
     ELSE Go(p, "migrate") /\ todo' = [todo EXCEPT ![p] = @ \ {Min(@)}]
  /\ UNCHANGED <<chain, schema, tables, overlapped, page, failures, wait,
                 running, crashes, walk>>

\* start: the poller's first timer is due at once.
StartPoller(p) ==
  /\ stage[p] = "migrate" /\ todo[p] = {}
  /\ running' = [running EXCEPT ![p] = TRUE]
  /\ wait' = [wait EXCEPT ![p] = 0]
  /\ failures' = [failures EXCEPT ![p] = 0]
  /\ Go(p, "timer")
  /\ UNCHANGED <<chain, db, overlapped, todo, page, crashes, walk>>
----------------------------------------------------------------------------
(* One poll. *)

\* scheduleNext: after a poll the timer is set again unless stop was called.
Reschedule(p, delay) ==
  /\ Go(p, "timer")
  /\ page' = [page EXCEPT ![p] = NoPage]
  /\ wait' = [wait EXCEPT ![p] = delay]

backoffDelayMs(n) == Min({2 ^ Max({0, n - 3}), 8})

\* The timer fires; the cursor is read and the request built from it, or,
\* without a cursor, from the latest ledger less the backfill, or from the
\* beginning when that ledger cannot be had.
Poll(p) ==
  /\ stage[p] = "timer" /\ running[p]
  /\ \E from \in IF cursor # None THEN {cursor}
                 ELSE {0, Max({0, Len(chain) - Backfill})} :
       page' = [page EXCEPT ![p] = [events |-> <<>>, from |-> from]]
  /\ Go(p, "fetch")
  /\ UNCHANGED <<chain, db, overlapped, todo, failures, wait, running, crashes, walk>>

\* getEvents fails: the interval doubles from the fourth failure on.
FetchFails(p) ==
  /\ stage[p] = "fetch" /\ failures[p] < MaxFailures
  /\ failures' = [failures EXCEPT ![p] = @ + 1]
  /\ Reschedule(p, backoffDelayMs(failures[p] + 1))
  /\ UNCHANGED <<chain, db, overlapped, todo, running, crashes, walk>>

\* getEvents answers with at most Limit events after the cursor.
Fetch(p) ==
  LET from == page[p].from
      upto == Min({Len(chain), from + Limit})
      found == [i \in 1..(upto - from) |-> from + i]
  IN /\ stage[p] = "fetch"
     /\ failures' = [failures EXCEPT ![p] = 0]
     /\ IF found = <<>>
        THEN Reschedule(p, 1)
        ELSE Go(p, "store") /\ page' = [page EXCEPT ![p].events = found] /\ UNCHANGED wait
     /\ UNCHANGED <<chain, db, overlapped, todo, running, crashes, walk>>

\* The elements of s that are in K, in their order.
Kept(s, K) ==
  LET upTo[i \in 0..Len(s)] ==
        IF i = 0 THEN <<>>
        ELSE IF s[i] \in K THEN Append(upTo[i - 1], s[i])
        ELSE upTo[i - 1]
  IN upTo[Len(s)]

\* parseEvents leaves out the events of calls that failed.
parseEvents(events) == Kept(events, {e \in 1..Len(chain) : chain[e] # "failed"})

\* The loop runs over the raw events and takes the parsed event of the same
\* index; past the last parsed event it throws.
Throws(p) == Len(parseEvents(page[p].events)) < Len(page[p].events)

Written(p) ==
  LET parsed == parseEvents(page[p].events)
  IN [i \in 1..Len(parsed) |-> [token |-> page[p].events[i], event |-> parsed[i]]]

\* A full page asks for the next one at once.
Delay(p) == IF Len(page[p].events) >= Limit THEN 0 ELSE 1

\* ROLLBACK: the loop has thrown, or a statement or the COMMIT has failed.
Rollback(p) ==
  /\ stage[p] = "store"
  /\ Reschedule(p, Delay(p))
  /\ UNCHANGED <<chain, db, overlapped, todo, failures, running, crashes, walk>>

\* ON CONFLICT (paging_token) DO NOTHING.
upsertEvent(new) ==
  rows' = rows \o Kept(new, {r \in ToSet(new) : \A i \in 1..Len(rows) : rows[i].token # r.token})

\* The tables of their own, whose inserts have no key to conflict on.
insertDerived(new) ==
  derived' = [e \in 1..MaxEvents |-> derived[e] +
    IF e \in 1..Len(chain) /\ chain[e] = "typed" /\ \E i \in 1..Len(new) : new[i].event = e THEN 1 ELSE 0]

Commit_CursorApart(p) ==
  /\ stage[p] = "store" /\ ~Throws(p)
  /\ upsertEvent(Written(p)) /\ insertDerived(Written(p))
  /\ \/ cursor' = Last(page[p].events) /\ Reschedule(p, Delay(p))
     \/ UNCHANGED cursor /\ Reschedule(p, 1)
  /\ origin' = IF cursor = None THEN page[p].from ELSE origin
  /\ UNCHANGED <<chain, schema, recorded, overlapped, todo, failures, running,
                 crashes, walk>>

\* COMMIT: the events, the rows derived from them and the cursor appear
\* together.  The acknowledgement may be lost; the process then takes it for
\* a failure and polls again later.
Commit(p) ==
  /\ stage[p] = "store" /\ ~Throws(p)
  /\ upsertEvent(Written(p)) /\ insertDerived(Written(p))
  /\ cursor' = Last(page[p].events)
  /\ origin' = IF cursor = None THEN page[p].from ELSE origin
  /\ \E delay \in {Delay(p), 1} : Reschedule(p, delay)
  /\ UNCHANGED <<chain, schema, recorded, overlapped, todo, failures, running,
                 crashes, walk>>
----------------------------------------------------------------------------
(* The end of a process. *)

\* SIGTERM: the pollers stop, so that a poll under way is not followed by
\* another; the pool is drained before the process exits.
Shutdown(p) ==
  /\ running[p] /\ crashes < MaxCrashes
  /\ running' = [running EXCEPT ![p] = FALSE]
  /\ crashes' = crashes + 1
  /\ UNCHANGED <<chain, db, overlapped, stage, todo, page, failures, wait, walk>>

Exit(p) ==
  /\ stage[p] \in {"timer", "fetch"} /\ ~running[p]
  /\ Go(p, "down")
  /\ UNCHANGED <<chain, db, overlapped, todo, page, failures, wait, running, crashes, walk>>

\* Killed: an open transaction is gone with its connection.
Crash(p) ==
  /\ stage[p] # "down" /\ crashes < MaxCrashes
  /\ crashes' = crashes + 1
  /\ Go(p, "down")
  /\ running' = [running EXCEPT ![p] = FALSE]
  /\ page' = [page EXCEPT ![p] = NoPage]
  /\ UNCHANGED <<chain, db, overlapped, todo, failures, wait, walk>>
----------------------------------------------------------------------------
(* A client that walks GET /events from the first page to the last. *)

\* The rows before r in ORDER BY ledger_sequence DESC.
Newer(r) == {q \in ToSet(rows) : q.event > r.event}

queryEvents_PageBased(n) ==
  {r \in ToSet(rows) : Cardinality(Newer(r)) \in n * PageSize .. (n + 1) * PageSize - 1}

\* LIMIT capped OFFSET (page - 1) * capped
queryEvents(n) ==
  {r \in ToSet(rows) : Cardinality(Newer(r)) \in (n - 1) * PageSize .. n * PageSize - 1}

WalkStart ==
  /\ walk = None /\ rows # <<>>
  /\ walk' = [page |-> 1, seen |-> {}, owed |-> ToSet(rows)]
  /\ UNCHANGED <<chain, db, overlapped, procs, crashes>>

\* The total is counted by a statement of its own, before the page is read.
WalkPage ==
  /\ walk # None /\ walk.page # None
  /\ LET got == queryEvents(walk.page)
     IN walk' = [walk EXCEPT !.page = IF Cardinality(got) < PageSize THEN None ELSE @ + 1,
                             !.seen = @ \cup got]
  /\ UNCHANGED <<chain, db, overlapped, procs, crashes>>
----------------------------------------------------------------------------
Serve(p) ==
  \/ Migrate(p) \/ RecordMigration(p) \/ StartPoller(p)
  \/ Poll(p) \/ Exit(p)

Next ==
  \/ \E kind \in Kinds : Emit(kind)
  \/ \E p \in Processes :
       \/ Boot(p) \/ Serve(p)
       \/ Fetch(p) \/ FetchFails(p) \/ Commit(p) \/ Rollback(p)
       \/ Shutdown(p) \/ Crash(p)
  \/ WalkStart \/ WalkPage

\* A supervisor restarts the process, its own steps are taken, and the node
\* and the database, though they may fail, do not fail for ever.
Fairness ==
  \A p \in Processes :
    /\ WF_vars(Boot(p)) /\ WF_vars(Serve(p))
    /\ SF_vars(Fetch(p)) /\ SF_vars(Commit(p))
    /\ WF_vars(Throws(p) /\ Rollback(p))

Spec == Init /\ [][Next]_vars /\ Fairness
----------------------------------------------------------------------------
\* The table is the chain: a row holds the event its paging token names, no
\* token has two rows, and every event of a good call up to the cursor is there, although
\* pages are retried, lost, rolled back and stored by two processes.  Only
\* two first runs at once may leave a gap (poller.ts, poll).
TableMatchesChain ==
  /\ \A i, j \in 1..Len(rows) :
       rows[i].token = rows[i].event /\ (rows[i].token = rows[j].token => i = j)
  /\ cursor # None /\ overlapped # "first" =>
       \A e \in (origin + 1)..cursor :
         chain[e] = "failed" \/ [token |-> e, event |-> e] \in ToSet(rows)

\* While no two processes overlap, a violation or a KYC change up to the
\* cursor has exactly one row of its own and one past it has none, although
\* these inserts have no key (queries.ts, insertViolation, insertKycChange).
DerivedOnce ==
  overlapped = "never" => \A e \in 1..Len(chain) :
    derived[e] = IF chain[e] = "typed" /\ cursor # None /\ origin < e /\ e <= cursor
                 THEN 1 ELSE 0

\* A client that walks the pages while the indexer writes misses no row that
\* was there when it began (queries.ts, queryEvents).
WalkMissesNothing == walk # None /\ walk.page = None => walk.owed \subseteq walk.seen

\* Once there is a cursor and while no event comes from a failed call, every
\* event behind it is stored in the end, whatever crashes and failures.
CatchesUp ==
  [](\A e \in 1..Len(chain) : chain[e] # "failed") =>
    \A e \in 1..MaxEvents :
      (cursor # None /\ Len(chain) >= e /\ e > origin) ~>
        (\E i \in 1..Len(rows) : rows[i].event = e)

\* Events and the rows derived from them, after any crashes, failures and retries.
TablesSound == TableMatchesChain /\ DerivedOnce /\ WalkMissesNothing
=============================================================================
