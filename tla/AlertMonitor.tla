---------------------------- MODULE AlertMonitor ----------------------------
(***************************************************************************)
(* The compliance alerts of the operator pages: a monitor started when a   *)
(* page is mounted polls the engine's events on a timer, alerts on those   *)
(* it has not seen, escalates addresses blocked again and again, and fills *)
(* the notification queue the header shows.                                *)
(*                                                                         *)
(* A poll asks for the oldest Limit events of the last Lookback ledgers.   *)
(* A poll is answered or fails before the one after the next starts.       *)
(***************************************************************************)
EXTENDS Integers, Sequences, SequencesExt, FiniteSets

CONSTANTS
    Addresses,          \* addresses the engine blocks
    Limit, Lookback,    \* of a poll
    MaxSeen,            \* MAX_SEEN_KEYS
    QueueCap,           \* notifications kept
    Threshold, Window,  \* of the violation tracker, in ticks
    MaxEvents, MaxNow, MaxPolls     \* bounds of the model

VARIABLES
    events,     \* what the engine published: sequence of [topic, address, at]
    now,        \* the latest ledger, and the clock of the page
    monitor,    \* [on, seen, hits, told]: the monitor of the page; told is a history of what it alerted on
    polls,      \* polls under way
    asked,      \* polls made so far
    queue,      \* the notifications kept, newest first: whether each was read
    unread      \* unreadCount

alertVars == <<events, now, monitor, polls, asked, queue, unread>>

Stopped == [on |-> FALSE, seen |-> <<>>, hits |-> [a \in Addresses |-> <<>>], told |-> <<>>]

Init ==
    /\ events = <<>>
    /\ now = 0
    /\ monitor = Stopped
    /\ polls = {}
    /\ asked = 0
    /\ queue = <<>>
    /\ unread = 0

\* Topics with an alert template, one that names an address, and one without.
Topics == {"blocked", "paused", "rules_set"}

Publish ==
    /\ Len(events) < MaxEvents
    /\ \E t \in Topics, a \in Addresses : events' = Append(events, [topic |-> t, address |-> a, at |-> now])
    /\ UNCHANGED <<now, monitor, polls, asked, queue, unread>>

\* An answer under way is taken before the lookback has moved past what it holds.
Tick ==
    /\ now < MaxNow /\ \A p \in polls : ~p.served
    /\ now' = now + 1
    /\ UNCHANGED <<events, monitor, polls, asked, queue, unread>>

----------------------------------------------------------------------------
(* The notification queue *)

Unread(q) == Cardinality({i \in DOMAIN q : ~q[i]})

push(q, n) == LET kept == SubSeq(<<n>> \o q, 1, IF Len(q) < QueueCap THEN Len(q) + 1 ELSE QueueCap)
              IN [queue |-> kept, unread |-> Unread(kept)]

Set(q) == queue' = q /\ unread' = Unread(q) /\ UNCHANGED <<events, now, monitor, polls, asked>>

markRead(i) == ~queue[i] /\ Set([queue EXCEPT ![i] = TRUE])

dismiss(i) == Set(RemoveAt(queue, i))

markAllRead ==
    /\ queue # <<>>
    /\ queue' = [i \in DOMAIN queue |-> TRUE]
    /\ unread' = 0
    /\ UNCHANGED <<events, now, monitor, polls, asked>>

clearAll == queue # <<>> /\ queue' = <<>> /\ unread' = 0 /\ UNCHANGED <<events, now, monitor, polls, asked>>

----------------------------------------------------------------------------
(* The monitor *)

\* The page is mounted: the monitor starts with nothing seen. Its first poll starts with it, the others on the timer.
Mount ==
    /\ ~monitor.on
    /\ monitor' = [Stopped EXCEPT !.on = TRUE]
    /\ UNCHANGED <<events, now, polls, asked, queue, unread>>

\* The polls under way go on; what they bring is dropped.
Unmount ==
    /\ monitor.on
    /\ monitor' = [monitor EXCEPT !.on = FALSE]
    /\ polls' = {[p EXCEPT !.cancelled = TRUE] : p \in polls}
    /\ UNCHANGED <<events, now, asked, queue, unread>>

StartPoll ==
    /\ monitor.on
    /\ asked < MaxPolls
    /\ \A p \in polls : p.no >= asked
    /\ asked' = asked + 1
    /\ polls' = polls \cup {[no |-> asked + 1, cancelled |-> FALSE, served |-> FALSE, upto |-> 0, got |-> <<>>]}
    /\ UNCHANGED <<events, now, monitor, queue, unread>>

\* fetchContractEvents without a cursor: the oldest events of the lookback.
Served == LET old == {i \in DOMAIN events : events[i].at < now - Lookback}
              first == Cardinality(old) + 1
              upto == IF first + Limit - 1 < Len(events) THEN first + Limit - 1 ELSE Len(events)
          IN [k \in 1..(upto - first + 1) |-> first + k - 1]

AnswerPoll ==
    /\ \E p \in polls :
          /\ ~p.served
          /\ polls' = (polls \ {p}) \cup {[p EXCEPT !.served = TRUE, !.upto = Len(events), !.got = Served]}
    /\ UNCHANGED <<events, now, monitor, asked, queue, unread>>

PollFails ==
    /\ \E p \in polls : ~p.served /\ polls' = polls \ {p}
    /\ UNCHANGED <<events, now, monitor, asked, queue, unread>>

\* ViolationTracker.record: hits older than the window, the first ones, are dropped, and the time of the hit is the
\* time of the alert.
record(hits, a) == LET old == {k \in DOMAIN hits[a] : now - hits[a][k] >= Window}
                   IN Append(SubSeq(hits[a], Cardinality(old) + 1, Len(hits[a])), now)

\* alertForComplianceEvent: rules_set has no template.
Alerts(topic) == topic \in {"blocked", "paused"}

\* One event of an answer: st is [seen, hits, told, queue, unread].
Handle(st, i) ==
    IF Contains(st.seen, i) THEN st
    ELSE LET seen == [st EXCEPT !.seen = Append(@, i)]
             one == push(st.queue, FALSE)
             hits == record(st.hits, events[i].address)
             two == push(one.queue, FALSE)
             repeated == events[i].topic = "blocked" /\ Len(hits) >= Threshold
             pushed == IF repeated THEN two ELSE one
         IN IF ~Alerts(events[i].topic) THEN seen
            ELSE [seen EXCEPT !.queue = pushed.queue, !.unread = pushed.unread, !.told = Append(@, i),
                              !.hits = IF events[i].topic = "blocked"
                                       THEN [@ EXCEPT ![events[i].address] = hits] ELSE @]

\* The events of an answer, one after the other.
Handled(st, got) ==
    LET upto[k \in 0..Len(got)] == IF k = 0 THEN st ELSE Handle(upto[k - 1], got[k]) IN upto[Len(got)]

\* The keys kept are the first ones.
Trim_Newest(seen) == SubSeq(seen, 1, IF Len(seen) > MaxSeen THEN MaxSeen ELSE Len(seen))

\* A set of the language keeps its keys in the order they came; the first ones go.
Trim(seen) == IF Len(seen) > MaxSeen THEN SubSeq(seen, Len(seen) - MaxSeen + 1, Len(seen)) ELSE seen

\* An answer that comes after the monitor was stopped is dropped.
TakePoll ==
    \E p \in polls :
       /\ p.served
       /\ polls' = polls \ {p}
       /\ IF p.cancelled THEN UNCHANGED <<monitor, queue, unread>>
          ELSE LET st == Handled([seen |-> monitor.seen, hits |-> monitor.hits, told |-> monitor.told,
                                  queue |-> queue, unread |-> unread], p.got)
               IN /\ monitor' = [monitor EXCEPT !.seen = Trim(st.seen), !.hits = st.hits, !.told = st.told]
                  /\ queue' = st.queue
                  /\ unread' = st.unread
       /\ UNCHANGED <<events, now, asked>>

----------------------------------------------------------------------------

Reader == markAllRead \/ clearAll \/ \E i \in DOMAIN queue : markRead(i) \/ dismiss(i)

Next ==
    \/ Publish \/ Tick
    \/ Mount \/ Unmount \/ StartPoll \/ AnswerPoll \/ PollFails \/ TakePoll
    \/ Reader

Spec == Init /\ [][Next]_alertVars

----------------------------------------------------------------------------
(* Properties *)

\* The polls of which a step takes the answer.
Taken == {p \in polls : p.served /\ \A r \in polls' : r.no # p.no}

\* A mounted monitor alerts once on an event, although polls overlap, answers come back in another order, the window
\* of a poll moves and the keys remembered are capped (alertMonitor.ts, seen and MAX_SEEN_KEYS).
AlertedOnce == IsInjective(monitor.told)

\* What a monitor had under way when its page went away never reaches the queue, even with the page back
\* (alertMonitor.ts, the check of cancelled after the await).
NothingAfterStop == [][Len(queue') > Len(queue) => monitor.on /\ \E p \in Taken : ~p.cancelled]_alertVars

\* The count beside the bell is that of the unread notifications kept, at the cap of the queue too.
UnreadExact == unread = Unread(queue)

\* Each event is alerted on by one monitor at most once, and by none that was stopped; the bell counts them.
AlertsSound == [](AlertedOnce /\ UnreadExact) /\ NothingAfterStop
=============================================================================
