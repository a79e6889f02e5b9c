-------------------------- MODULE Frontend_proofs --------------------------
(***************************************************************************)
(* What the parts of the frontend, and the clients, promise: each for any  *)
(* accounts, calls, pages, files and events, for all limits, and for every *)
(* order of clicks, reloads, answers and failures.                         *)
(*                                                                         *)
(* Part by part: what the part's state holds between two steps is its      *)
(* invariant; it holds at the beginning, no step breaks it, and what the   *)
(* part promises follows. The promises are Frontend's, the parts its       *)
(* instances.                                                              *)
(***************************************************************************)
EXTENDS Frontend, SumLemmas, TLAPS

LEMMA NoneIsNoAccount == Wallet!None \notin Accounts
BY AccountsAreReal DEF Wallet!None

----------------------------------------------------------------------------
(* Fee-bumped submissions (FeeBump) *)

FeePhases == {"idle", "sign", "send", "poll", "sleep", "backoff", "escalate", "done"}

FeeOuts == {"none", "unsigned", "exhausted", "refused", "lost", "success", "failed"}

FeeStatuses == {"SUCCESS", "FAILED"}

FeeCall == [phase : FeePhases, fee : Nat \ {0}, attempt : 0..MaxRetries, out : FeeOuts]

FeeEnvelopes == [queued : SUBSET Nat, landed : {<<>>} \cup (Nat \X FeeStatuses)]

\* A call beside its envelopes: once one is in a ledger no other is, and an outcome ends the call and is so.
CallTold(b, e) ==
    /\ e.landed # <<>> => e.queued = {}
    /\ b.out # "none" => b.phase = "done"
    /\ b.out = "success" => e.landed = <<b.fee, "SUCCESS">>
    /\ b.out = "exhausted" => b.attempt = MaxRetries \/ b.fee >= MaxFee

UnderWay(b) == b.phase \notin {"idle", "done"}

\* The strengthening of CallersTold: what each call believes of its envelopes is so, and the page shows progress
\* only while a call is under way.
FeesInv ==
    /\ bump \in [Submissions -> FeeCall] /\ envelopes \in [Submissions -> FeeEnvelopes]
    /\ \A c \in Submissions : CallTold(bump[c], envelopes[c])
    /\ shown \in {"signing", "submitting", "retrying"} => \E c \in Submissions : UnderWay(bump[c])

LEMMA FeesBegin == Fees!Init => FeesInv
BY FeesAreNats DEF Fees!Init, FeesInv, CallTold, FeeCall, FeeEnvelopes, Fees!Fresh, FeePhases, FeeOuts

\* A step of one call shows progress only if it leaves the call under way.
LEMMA OneFeeCall ==
    ASSUME FeesInv, NEW c \in Submissions, NEW b \in FeeCall, NEW e \in FeeEnvelopes, CallTold(b, e),
           bump' = [bump EXCEPT ![c] = b], envelopes' = [envelopes EXCEPT ![c] = e],
           \/ shown' \notin {"signing", "submitting", "retrying"}
           \/ UnderWay(b)
           \/ shown' = shown /\ b = bump[c]
    PROVE FeesInv'
<1>1. bump' \in [Submissions -> FeeCall] /\ envelopes' \in [Submissions -> FeeEnvelopes]
    BY DEF FeesInv
<1>2. \A d \in Submissions : bump'[d] = (IF d = c THEN b ELSE bump[d]) /\ envelopes'[d] = (IF d = c THEN e ELSE envelopes[d])
    BY DEF FeesInv
<1>3. \A d \in Submissions : CallTold(bump'[d], envelopes'[d])
    BY <1>2 DEF FeesInv
<1>4. shown' \in {"signing", "submitting", "retrying"} => \E d \in Submissions : UnderWay(bump'[d])
    BY <1>2 DEF FeesInv
<1> QED
    BY <1>1, <1>3, <1>4 DEF FeesInv, CallTold, UnderWay

LEMMA FeeGrows ==
    ASSUME NEW fee \in Nat \ {0}
    PROVE Fees!nextFee(fee) \in Nat /\ (Fees!nextFee(fee) = 0 => fee >= MaxFee)
BY FeesAreNats DEF Fees!nextFee

\* A call that goes on, whatever it queues; one that ends, likewise; and what a node does.
FeesAdvance(c, phase, queued) ==
    /\ bump[c].phase # "done" /\ phase \in FeePhases \ {"idle", "done"}
    /\ bump' = [bump EXCEPT ![c].phase = phase]
    /\ queued # envelopes[c].queued => envelopes[c].landed = <<>>
    /\ envelopes' = [envelopes EXCEPT ![c].queued = queued]

FeesEnd(c, out, queued) ==
    /\ out \in FeeOuts
    /\ out = "success" => envelopes[c].landed = <<bump[c].fee, "SUCCESS">>
    /\ out = "exhausted" => bump[c].attempt = MaxRetries \/ bump[c].fee >= MaxFee
    /\ bump' = [bump EXCEPT ![c].phase = "done", ![c].out = out]
    /\ queued # envelopes[c].queued => envelopes[c].landed = <<>>
    /\ envelopes' = [envelopes EXCEPT ![c].queued = queued]
    /\ shown' \in {"success", "failed"}

LEMMA FeesAdvances ==
    ASSUME FeesInv, NEW c \in Submissions, NEW phase, NEW queued \in SUBSET Nat, FeesAdvance(c, phase, queued)
    PROVE FeesInv'
<1> DEFINE b == [bump[c] EXCEPT !.phase = phase]
           e == [envelopes[c] EXCEPT !.queued = queued]
<1>1. bump[c] \in FeeCall /\ envelopes[c] \in FeeEnvelopes /\ CallTold(bump[c], envelopes[c])
    BY DEF FeesInv
<1>2. b \in FeeCall /\ e \in FeeEnvelopes
    BY <1>1 DEF FeesAdvance, FeeCall, FeeEnvelopes
<1>3. CallTold(b, e) /\ UnderWay(b)
    BY <1>1 DEF FeesAdvance, FeeCall, FeeEnvelopes, CallTold, UnderWay
<1>4. bump' = [bump EXCEPT ![c] = b] /\ envelopes' = [envelopes EXCEPT ![c] = e]
    BY DEF FeesAdvance
<1> HIDE DEF b, e
<1> QED
    BY <1>2, <1>3, <1>4, OneFeeCall

LEMMA FeesEnds ==
    ASSUME FeesInv, NEW c \in Submissions, NEW out, NEW queued \in SUBSET Nat, FeesEnd(c, out, queued)
    PROVE FeesInv'
<1> DEFINE b == [bump[c] EXCEPT !.phase = "done", !.out = out]
           e == [envelopes[c] EXCEPT !.queued = queued]
<1>1. bump[c] \in FeeCall /\ envelopes[c] \in FeeEnvelopes /\ CallTold(bump[c], envelopes[c])
    BY DEF FeesInv
<1>2. b \in FeeCall /\ e \in FeeEnvelopes
    BY <1>1 DEF FeesEnd, FeeCall, FeeEnvelopes, FeePhases
<1>3. CallTold(b, e)
    BY <1>1 DEF FeesEnd, FeeCall, FeeEnvelopes, CallTold
<1>4. bump' = [bump EXCEPT ![c] = b] /\ envelopes' = [envelopes EXCEPT ![c] = e]
    BY DEF FeesEnd
<1>5. shown' \notin {"signing", "submitting", "retrying"}
    BY DEF FeesEnd
<1> HIDE DEF b, e
<1> QED
    BY <1>2, <1>3, <1>4, <1>5, OneFeeCall

LEMMA FeesStep == FeesInv /\ [Fees!Next]_Fees!bumpVars => FeesInv'
<1> SUFFICES ASSUME FeesInv, [Fees!Next]_Fees!bumpVars PROVE FeesInv'
    OBVIOUS
<1>1. CASE UNCHANGED Fees!bumpVars
    BY <1>1 DEF Fees!bumpVars, FeesInv, CallTold, UnderWay
<1>2. CASE Fees!Reset
    BY <1>2 DEF Fees!Reset, Fees!Show, FeesInv, CallTold, UnderWay
<1>3. ASSUME NEW c \in Submissions PROVE
        /\ bump[c] \in FeeCall /\ envelopes[c] \in FeeEnvelopes /\ CallTold(bump[c], envelopes[c])
        /\ bump[c].fee \in Nat \ {0} /\ bump[c].attempt \in 0..MaxRetries /\ envelopes[c].queued \in SUBSET Nat
        /\ envelopes = [envelopes EXCEPT ![c].queued = envelopes[c].queued]
    BY DEF FeesInv, FeeCall, FeeEnvelopes
<1>4. ASSUME NEW c \in Submissions, Fees!Submit(c) \/ Fees!Signed(c) \/ Fees!Wake(c) \/ Fees!PollPending(c) PROVE FeesInv'
  <2>1. PICK phase : FeesAdvance(c, phase, envelopes[c].queued)
    BY <1>3, <1>4 DEF Fees!Submit, Fees!Signed, Fees!Wake, Fees!PollPending, Fees!At, FeesAdvance, FeePhases
  <2> QED
    BY <1>3, <2>1, FeesAdvances
<1>5. ASSUME NEW c \in Submissions, Fees!SignRefused(c) \/ Fees!SendRefused(c) \/ Fees!PollLost(c) PROVE FeesInv'
  <2>1. PICK out : FeesEnd(c, out, envelopes[c].queued)
    BY <1>3, <1>5 DEF Fees!SignRefused, Fees!SendRefused, Fees!PollLost, Fees!End, Fees!Show, FeesEnd, FeeOuts
  <2> QED
    BY <1>3, <2>1, FeesEnds
<1>6. ASSUME NEW c \in Submissions, Fees!PollAnswered(c) PROVE FeesInv'
  <2>1. Fees!Answer(c) = "SUCCESS" => envelopes[c].landed = <<bump[c].fee, "SUCCESS">>
    BY <1>3 DEF Fees!Answer, FeeEnvelopes
  <2>2. PICK out : FeesEnd(c, out, envelopes[c].queued)
    BY <1>3, <1>6, <2>1 DEF Fees!PollAnswered, Fees!End, Fees!Show, FeesEnd, FeeOuts
  <2> QED
    BY <1>3, <2>2, FeesEnds
<1>7. ASSUME NEW c \in Submissions, Fees!Send(c) PROVE FeesInv'
  <2> DEFINE queued == IF envelopes[c].landed = <<>> THEN envelopes[c].queued \cup {bump[c].fee} ELSE envelopes[c].queued
  <2>1. queued \in SUBSET Nat
    BY <1>3
  <2>2. FeesAdvance(c, "poll", queued)
    BY <1>3, <1>7 DEF Fees!Send, Fees!Queue, Fees!At, FeesAdvance, FeePhases
  <2> QED
    BY <2>1, <2>2, FeesAdvances
<1>8. ASSUME NEW c \in Submissions, Fees!SendLost(c) PROVE FeesInv'
  <2>1. PICK queued \in SUBSET Nat : FeesEnd(c, "lost", queued)
    <3>1. CASE UNCHANGED envelopes
      BY <1>3, <1>8, <3>1 DEF Fees!SendLost, Fees!End, Fees!Show, FeesEnd, FeeOuts
    <3>2. CASE envelopes[c].landed = <<>> /\ Fees!Queue(c)
      <4>1. envelopes[c].queued \cup {bump[c].fee} \in SUBSET Nat
        BY <1>3
      <4>2. FeesEnd(c, "lost", envelopes[c].queued \cup {bump[c].fee})
        BY <1>8, <3>2 DEF Fees!SendLost, Fees!Queue, Fees!End, Fees!Show, FeesEnd, FeeOuts
      <4> QED
        BY <4>1, <4>2
    <3> QED
      BY <1>8, <3>1, <3>2 DEF Fees!SendLost
  <2> QED
    BY <2>1, FeesEnds
<1>9. ASSUME NEW c \in Submissions, Fees!Escalate(c) PROVE FeesInv'
  <2> DEFINE fee == Fees!nextFee(bump[c].fee)
             b == [bump[c] EXCEPT !.fee = fee, !.phase = "send"]
  <2>1. fee \in Nat /\ (fee = 0 => bump[c].fee >= MaxFee)
    BY <1>3, FeeGrows
  <2>2. CASE fee = 0
    <3>1. FeesEnd(c, "exhausted", envelopes[c].queued)
      BY <1>3, <1>9, <2>1, <2>2 DEF Fees!Escalate, Fees!End, Fees!Show, FeesEnd, FeeOuts
    <3> QED
      BY <1>3, <3>1, FeesEnds
  <2>3. CASE fee # 0
    <3>1. bump' = [bump EXCEPT ![c] = b] /\ bump[c].phase = "escalate" /\ shown' = shown /\ envelopes' = [envelopes EXCEPT ![c] = envelopes[c]]
      BY <1>3, <1>9, <2>3 DEF Fees!Escalate, Fees!At
    <3>2. b \in FeeCall
      BY <1>3, <2>1, <2>3 DEF FeeCall, FeePhases
    <3>3. CallTold(b, envelopes[c]) /\ UnderWay(b)
      BY <1>3, <3>1 DEF FeeCall, CallTold, UnderWay
    <3> HIDE DEF b
    <3> QED
      BY <1>3, <3>1, <3>2, <3>3, OneFeeCall
  <2> QED
    BY <2>2, <2>3
<1>10. ASSUME NEW c \in Submissions, Fees!PollTimeout(c) PROVE FeesInv'
  <2> DEFINE b == [bump[c] EXCEPT !.phase = "backoff", !.attempt = @ + 1]
  <2>1. CASE bump[c].attempt >= MaxRetries
    <3>1. bump[c].attempt = MaxRetries
      BY <1>3, <2>1, FeesAreNats
    <3>2. FeesEnd(c, "exhausted", envelopes[c].queued)
      BY <1>3, <1>10, <2>1, <3>1 DEF Fees!PollTimeout, Fees!End, Fees!Show, FeesEnd, FeeOuts
    <3> QED
      BY <1>3, <3>2, FeesEnds
  <2>2. CASE ~(bump[c].attempt >= MaxRetries)
    <3>1. bump' = [bump EXCEPT ![c] = b] /\ bump[c].phase = "poll" /\ envelopes' = [envelopes EXCEPT ![c] = envelopes[c]]
      BY <1>3, <1>10, <2>2 DEF Fees!PollTimeout, Fees!At
    <3>2. bump[c].attempt + 1 \in 0..MaxRetries
      BY <1>3, <2>2, FeesAreNats
    <3>3. b \in FeeCall
      BY <1>3, <3>2 DEF FeeCall, FeePhases
    <3>4. CallTold(b, envelopes[c]) /\ UnderWay(b)
      BY <1>3, <3>1 DEF FeeCall, CallTold, UnderWay
    <3> HIDE DEF b
    <3> QED
      BY <1>3, <3>1, <3>3, <3>4, OneFeeCall
  <2> QED
    BY <2>1, <2>2
<1>11. ASSUME NEW c \in Submissions, NEW fee \in envelopes[c].queued, Fees!Drop(c, fee) PROVE FeesInv'
  <2> DEFINE e == [envelopes[c] EXCEPT !.queued = @ \ {fee}]
  <2>1. envelopes' = [envelopes EXCEPT ![c] = e] /\ bump' = [bump EXCEPT ![c] = bump[c]] /\ shown' = shown
    BY <1>3, <1>11 DEF Fees!Drop, FeesInv
  <2>2. e \in FeeEnvelopes /\ CallTold(bump[c], e)
    BY <1>3 DEF FeeEnvelopes, CallTold
  <2> HIDE DEF e
  <2> QED
    BY <1>3, <2>1, <2>2, OneFeeCall
<1>12. ASSUME NEW c \in Submissions, NEW fee \in envelopes[c].queued, NEW status \in FeeStatuses, Fees!Include(c, fee, status)
       PROVE FeesInv'
  <2> DEFINE e == [queued |-> {}, landed |-> <<fee, status>>]
  <2>1. envelopes' = [envelopes EXCEPT ![c] = e] /\ bump' = [bump EXCEPT ![c] = bump[c]] /\ shown' = shown
    BY <1>3, <1>12 DEF Fees!Include, FeesInv
  <2>2. envelopes[c].landed = <<>>
    BY <1>3 DEF CallTold
  <2>3. e \in FeeEnvelopes
    BY <1>3 DEF FeeEnvelopes
  <2>4. CallTold(bump[c], e)
    BY <1>3, <2>2 DEF CallTold
  <2> HIDE DEF e
  <2> QED
    BY <1>3, <2>1, <2>3, <2>4, OneFeeCall
<1> QED
    BY <1>1, <1>2, <1>4, <1>5, <1>6, <1>7, <1>8, <1>9, <1>10, <1>11, <1>12 DEF Fees!Next, FeeStatuses

\* What the caller of a submission, and the user who watches it, are told is so: the fee reported is the one that was
\* paid, giving up comes after the last attempt or at the cap, and no progress is shown when nothing is under way
\* (feeBump.ts, useSubmitWithFeeBump.ts).
THEOREM FeesTold == Fees!Spec => []CallersTold
<1>1. FeesInv => Fees!CallersTold
    BY DEF FeesInv, CallTold, UnderWay, Fees!CallersTold, Fees!FeePaidExact, Fees!GivesUpLast, Fees!NoGhostProgress
<1> QED
    BY <1>1, FeesBegin, FeesStep, PTL DEF Fees!Spec, CallersTold

----------------------------------------------------------------------------
(* The event table (EventQuery) *)

\* What a node answers after a cursor, and when there is more than a page of it.
AfterCursor(f, latest) ==
    /\ \A k \in 1..Len(f.got) : f.got[k] = f.cursor + k
    /\ f.more => Len(f.got) = PageSize /\ f.cursor + PageSize <= latest

\* A fetch at any time; a node is asked for a later page only where there is no indexer.
FetchRecord(latest) ==
    [kind : {"none", "rpc", "indexer"}, page : Nat, cursor : 0..latest, got : Seq(Int), more : BOOLEAN, served : BOOLEAN]

FetchTyped(f, latest) ==
    /\ f \in FetchRecord(latest)
    /\ f.kind = "none" => ~f.served
    /\ f.kind # "none" => f.page >= 1
    /\ f.kind = "indexer" => indexed
    /\ f.kind = "rpc" /\ indexed => f.page = 1
    /\ f.kind = "rpc" /\ f.served => AfterCursor(f, latest)

ViewRecord ==
    [events : Seq(Int), page : Nat \ {0}, more : BOOLEAN, source : {"rpc", "indexer"},
     from : {"none", "rpc", "indexer"}, loading : BOOLEAN, error : BOOLEAN]

\* The types of the table and its fetches.
TableTyped ==
    /\ indexed \in BOOLEAN /\ emitted \in Nat /\ overlapped \in BOOLEAN
    /\ table \in ViewRecord
    /\ DOMAIN stack \subseteq Nat \ {0} /\ \A p \in DOMAIN stack : stack[p] \in 0..emitted
    /\ DOMAIN fetches = TableSlots /\ \A s \in TableSlots : FetchTyped(fetches[s], emitted)

OneFetch == \A s, t \in TableSlots : ~Table!Idle(s) /\ ~Table!Idle(t) => s = t

\* One fetch at a time asks for the first page, or goes on from the page that is still shown.
Onward == \A s \in TableSlots : ~Table!Idle(s) =>
    \/ fetches[s].page = 1 /\ fetches[s].cursor = 0
    \/ fetches[s].page = table.page + 1 /\ table.more /\ fetches[s].cursor = Table!Token(table.page - 1)

\* The token before the page shown is not beyond what is shown, and the one of the page is at most a page further.
TokensFollow ==
    table.more =>
       /\ table.from = "rpc" /\ table.events # <<>>
       /\ Table!Token(table.page - 1) <= Table!Token(table.page) /\ Table!Token(table.page) <= Table!Token(table.page - 1) + PageSize
       /\ Table!Token(table.page - 1) <= table.events[Len(table.events)]

\* The strengthening of TableSound: as long as no two fetches overlapped there is one, it goes on from what is shown,
\* and the tokens of the pages are in step with the events shown.
TableInv == TableTyped /\ Table!SpinnerHonest /\ (~overlapped => OneFetch) /\ (~overlapped /\ ~indexed => Onward /\ TokensFollow)

LEMMA LeastIs ==
    ASSUME NEW a \in Int, NEW b \in Int
    PROVE Table!Least(a, b) \in Int /\ Table!Least(a, b) <= a /\ Table!Least(a, b) <= b /\ (Table!Least(a, b) = a \/ Table!Least(a, b) = b)
BY DEF Table!Least

LEMMA TokenIs == ASSUME TableTyped, NEW p PROVE Table!Token(p) \in 0..emitted
BY DEF TableTyped, Table!Token

LEMMA NodeServes ==
    ASSUME emitted \in Nat, NEW cursor \in 0..emitted
    PROVE LET all == Table!fetchContractEvents(cursor)
              got == SubSeq(all, 1, Table!Least(PageSize, Len(all)))
          IN  /\ got \in Seq(Int)
              /\ \A k \in 1..Len(got) : got[k] = cursor + k
              /\ (Len(all) > PageSize) \in BOOLEAN
              /\ Len(all) > PageSize => Len(got) = PageSize /\ cursor + PageSize <= emitted
<1> DEFINE n == Table!Least(PageSize + 1, emitted - cursor)
           all == [k \in 1..n |-> cursor + k]
           m == Table!Least(PageSize, Len(all))
           got == SubSeq(all, 1, m)
<1>1. n \in Nat /\ n <= PageSize + 1 /\ n <= emitted - cursor
    BY PagesHold, LeastIs DEF Table!Least
<1>2. all \in Seq(Int) /\ Len(all) = n
    BY <1>1
<1>3. m \in Nat /\ m <= PageSize /\ m <= n /\ (n > PageSize => m = PageSize)
    BY <1>1, <1>2, PagesHold DEF Table!Least
<1> HIDE DEF n, m
<1>4. got \in Seq(Int) /\ Len(got) = m
    BY <1>1, <1>2, <1>3
<1>5. \A k \in 1..m : got[k] = cursor + k
    BY <1>1, <1>2, <1>3
<1>6. Table!fetchContractEvents(cursor) = all /\ m = Table!Least(PageSize, Len(all))
    BY DEF Table!fetchContractEvents, n, m
<1> HIDE DEF all, got
<1>7. n > PageSize => cursor + PageSize <= emitted
    BY <1>1, PagesHold
<1> QED
    BY <1>1, <1>2, <1>3, <1>4, <1>5, <1>6, <1>7 DEF got

LEMMA IndexerServes ==
    ASSUME emitted \in Nat, NEW p \in Nat PROVE Table!getIndexerEvents(p) \in Seq(Int)
<1> DEFINE top == emitted - (p - 1) * PageSize
           n == IF top <= 0 THEN 0 ELSE Table!Least(PageSize, top)
<1>1. top \in Int
    BY PagesHold
<1>2. n \in Nat
    BY <1>1, PagesHold DEF Table!Least
<1> HIDE DEF n, top
<1>3. [k \in 1..n |-> top - k + 1] \in Seq(Int)
    BY <1>1, <1>2
<1> QED
    BY <1>3 DEF Table!getIndexerEvents, n, top

LEMMA NoRecord == ASSUME NEW latest \in Nat PROVE Table!None \in FetchRecord(latest) /\ Table!None.kind = "none" /\ Table!None.served = FALSE
<1>1. <<>> \in Seq(Int) /\ 0 \in 0..latest
    OBVIOUS
<1> QED
    BY <1>1 DEF FetchRecord, Table!None

\* A fetch just begun is typed, whatever it asks.
Asking(kind, p, cursor) == [Table!None EXCEPT !.kind = kind, !.page = p, !.cursor = cursor]

LEMMA FreshFetch ==
    ASSUME NEW latest \in Nat, NEW kind \in {"rpc", "indexer"}, NEW p \in Nat, NEW cursor \in 0..latest
    PROVE Asking(kind, p, cursor) \in FetchRecord(latest)
<1>1. Table!None \in FetchRecord(latest)
    BY NoRecord
<1> QED
    BY <1>1 DEF FetchRecord, Asking

LEMMA NoFetch == ASSUME NEW latest \in Nat PROVE FetchTyped(Table!None, latest) /\ Table!None.kind = "none" /\ ~Table!None.served
BY NoRecord DEF FetchTyped

LEMMA TableBegins == Table!Init => TableInv
<1> SUFFICES ASSUME Table!Init PROVE TableInv
    OBVIOUS
<1>1. \A s \in TableSlots : fetches[s] = Table!None
    BY DEF Table!Init
<1>2. <<>> \in Seq(Int)
    OBVIOUS
<1>3. table \in ViewRecord
    BY <1>2 DEF Table!Init, ViewRecord
<1>4. TableTyped
    BY <1>1, <1>3, NoFetch, PagesHold DEF Table!Init, TableTyped
<1> QED
    BY <1>1, <1>4, NoFetch DEF Table!Init, TableInv, Table!SpinnerHonest, OneFetch, Onward, TokensFollow, Table!Idle

\* A fetch begins in a free slot.
LEMMA BeginKeeps ==
    ASSUME TableInv, NEW s \in TableSlots, NEW kind \in {"rpc", "indexer"}, NEW p \in Nat \ {0}, NEW cursor \in 0..emitted,
           Table!Begin(s, kind, p, cursor), UNCHANGED <<indexed, emitted>>, kind = "indexer" <=> indexed, indexed => cursor = 0,
           indexed /\ kind = "rpc" => p = 1,
           \/ p = 1 /\ cursor = 0 /\ stack' = [q \in {} |-> 0]
           \/ p = table.page + 1 /\ table.more /\ stack' = stack /\ (~indexed => cursor = Table!Token(table.page - 1))
    PROVE TableInv'
<1> DEFINE f == Asking(kind, p, cursor)
<1>1. /\ fetches' = [fetches EXCEPT ![s] = f] /\ Table!Idle(s)
      /\ table' = [table EXCEPT !.loading = TRUE, !.error = FALSE, !.source = kind]
      /\ overlapped' = (overlapped \/ \E t \in TableSlots \ {s} : ~Table!Idle(t))
    BY DEF Table!Begin, Asking
<1>2. f.kind = kind /\ f.page = p /\ f.cursor = cursor /\ FetchTyped(f, emitted)
    <2>1. f \in FetchRecord(emitted) /\ f.kind = kind /\ f.page = p /\ f.cursor = cursor /\ f.served = FALSE
      <3>1. emitted \in Nat /\ p \in Nat
        BY DEF TableInv, TableTyped
      <3>2. f \in FetchRecord(emitted)
        BY <3>1, FreshFetch
      <3> QED
        BY <3>2 DEF Asking, Table!None
    <2> HIDE DEF f
    <2> QED
      BY <2>1 DEF FetchTyped
<1> HIDE DEF f
<1>3. \A t \in TableSlots : fetches'[t] = IF t = s THEN f ELSE fetches[t]
    BY <1>1 DEF TableInv, TableTyped
<1>4. TableTyped'
    <2>1. \A t \in TableSlots : FetchTyped(fetches'[t], emitted)
      BY <1>2, <1>3 DEF TableInv, TableTyped
    <2>2. DOMAIN stack' \subseteq Nat \ {0} /\ \A q \in DOMAIN stack' : stack'[q] \in 0..emitted
      BY DEF TableInv, TableTyped
    <2>3. table' \in ViewRecord /\ overlapped' \in BOOLEAN /\ DOMAIN fetches' = TableSlots
      BY <1>1 DEF TableInv, TableTyped, ViewRecord
    <2> QED
      BY <2>1, <2>2, <2>3 DEF TableInv, TableTyped, FetchTyped, AfterCursor
<1>5. Table!SpinnerHonest'
    BY <1>2, <1>3 DEF Table!SpinnerHonest, Table!Idle
<1>6. ASSUME ~overlapped' PROVE OneFetch'
    <2>1. ~overlapped /\ \A t \in TableSlots \ {s} : Table!Idle(t)
      BY <1>1, <1>6
    <2>2. \A t \in TableSlots : ~Table!Idle(t)' => t = s
      BY <1>3, <2>1 DEF Table!Idle
    <2> QED
      BY <2>2 DEF OneFetch
<1>7. table'.page = table.page /\ table'.more = table.more /\ table'.from = table.from /\ table'.events = table.events
    BY <1>1 DEF TableInv, TableTyped, ViewRecord
<1>8. ASSUME ~overlapped', ~indexed PROVE Onward' /\ TokensFollow'
    <2>1. Onward /\ TokensFollow /\ \A t \in TableSlots : ~Table!Idle(t)' => t = s
      BY <1>1, <1>3, <1>8 DEF TableInv, Table!Idle
    <2>2. CASE p = 1 /\ cursor = 0 /\ stack' = [q \in {} |-> 0]
      <3>1. \A q : Table!Token(q)' = 0
        BY <2>2 DEF Table!Token
      <3>2. table.more => 0 <= table.events[Len(table.events)]
        <4>1. table.more => table.events[Len(table.events)] \in Int
          BY <2>1 DEF TableInv, TableTyped, ViewRecord, TokensFollow
        <4> QED
          BY <2>1, <4>1, TokenIs DEF TableInv, TokensFollow
      <3> QED
        BY <1>2, <1>3, <1>7, <2>1, <2>2, <3>1, <3>2, PagesHold DEF Onward, TokensFollow
    <2>3. CASE p = table.page + 1 /\ table.more /\ stack' = stack /\ cursor = Table!Token(table.page - 1)
      BY <1>2, <1>3, <1>7, <2>1, <2>3 DEF Onward, TokensFollow, Table!Token
    <2> QED
      BY <1>8, <2>2, <2>3
<1> QED
    BY <1>4, <1>5, <1>6, <1>8 DEF TableInv

\* The answer is shown.
LEMMA DeliverKeeps ==
    ASSUME TableInv, NEW s \in TableSlots, Table!Deliver(s) PROVE TableInv'
<1> DEFINE f == fetches[s]
<1>1. /\ table' = Table!Shown(f) /\ fetches' = [fetches EXCEPT ![s] = Table!None] /\ UNCHANGED <<indexed, emitted, overlapped>>
      /\ f.served
      /\ stack' = IF f.kind = "rpc" /\ f.more THEN [p \in DOMAIN stack \cup {f.page} |-> IF p = f.page THEN Table!Last(f) ELSE stack[p]] ELSE stack
    BY DEF Table!Deliver
<1>2. FetchTyped(f, emitted) /\ f.kind # "none"
    BY <1>1 DEF TableInv, TableTyped, FetchTyped
<1>3. f.kind = "rpc" /\ f.more => Len(f.got) = PageSize /\ Table!Last(f) = f.cursor + PageSize /\ Table!Last(f) \in 0..emitted
    BY <1>1, <1>2, PagesHold DEF FetchTyped, FetchRecord, AfterCursor, Table!Last
<1>4. /\ table'.events = f.got /\ table'.page = f.page /\ table'.more = f.more /\ table'.from = f.kind /\ table'.loading = FALSE
      /\ table' \in ViewRecord
    <2>1. f.got \in Seq(Int) /\ f.page \in Nat \ {0} /\ f.more \in BOOLEAN /\ f.kind \in {"rpc", "indexer"}
      BY <1>2 DEF FetchTyped, FetchRecord
    <2>2. table \in ViewRecord /\ table' = [table EXCEPT !.events = f.got, !.page = f.page, !.more = f.more, !.from = f.kind, !.loading = FALSE]
      BY <1>1 DEF Table!Shown, TableInv, TableTyped
    <2> HIDE DEF f
    <2> QED
      BY <2>1, <2>2 DEF ViewRecord
<1>5. \A t \in TableSlots : fetches'[t] = IF t = s THEN Table!None ELSE fetches[t]
    BY <1>1 DEF TableInv, TableTyped
<1>6. FetchTyped(Table!None, emitted)
    BY NoFetch DEF TableInv, TableTyped
<1>7. TableTyped'
    <2>1. DOMAIN stack' \subseteq Nat \ {0} /\ \A q \in DOMAIN stack' : stack'[q] \in 0..emitted
      BY <1>1, <1>2, <1>3 DEF TableInv, TableTyped, FetchTyped, FetchRecord
    <2>2. \A t \in TableSlots : FetchTyped(fetches'[t], emitted)
      BY <1>5, <1>6 DEF TableInv, TableTyped
    <2>3. DOMAIN fetches' = TableSlots
      BY <1>1 DEF TableInv, TableTyped
    <2> QED
      BY <1>1, <1>4, <2>1, <2>2, <2>3 DEF TableInv, TableTyped, FetchTyped, AfterCursor
<1>8. Table!SpinnerHonest'
    BY <1>4 DEF Table!SpinnerHonest
<1>9. ~overlapped' => OneFetch'
    BY <1>1, <1>5 DEF TableInv, OneFetch, Table!Idle, Table!None
<1>10. ASSUME ~overlapped', ~indexed' PROVE Onward' /\ TokensFollow'
    <2>1. OneFetch /\ Onward /\ TokensFollow /\ ~Table!Idle(s) /\ f.kind = "rpc"
      BY <1>1, <1>2, <1>10 DEF TableInv, Table!Idle, FetchTyped, FetchRecord
    <2>2. \A t \in TableSlots : Table!Idle(t)'
      BY <1>5, <2>1 DEF OneFetch, Table!Idle, Table!None
    <2>3. ASSUME f.more PROVE TokensFollow'
      <3> DEFINE cursor == f.cursor
      <3>1. cursor \in Nat /\ f.page \in Nat \ {0} /\ table.page \in Nat \ {0}
        BY <1>2, <2>1 DEF FetchTyped, FetchRecord, TableInv, TableTyped, ViewRecord
      <3>2. \A q : Table!Token(q)' = IF q = f.page THEN cursor + PageSize ELSE Table!Token(q)
        BY <1>1, <1>3, <2>1, <2>3 DEF Table!Token
      <3>3. table'.events # <<>> /\ table'.events[Len(table'.events)] = cursor + PageSize
        BY <1>2, <1>3, <1>4, <2>1, <2>3, PagesHold DEF Table!Last, FetchTyped, FetchRecord
      <3>4. CASE f.page = 1 /\ cursor = 0
        <4>1. Table!Token(0) = 0
          BY DEF Table!Token, TableInv, TableTyped
        <4> QED
          BY <1>4, <2>1, <3>1, <3>2, <3>3, <3>4, <4>1, PagesHold DEF TokensFollow
      <3>5. CASE f.page = table.page + 1 /\ table.more /\ cursor = Table!Token(table.page - 1)
        <4>1. Table!Token(table.page - 1) \in Nat /\ Table!Token(table.page) \in Nat
          BY TokenIs DEF TableInv
        <4>2. PICK p : p = f.page
          OBVIOUS
        <4>3. Table!Token(p - 1)' = Table!Token(table.page) /\ Table!Token(p)' = cursor + PageSize
          BY <3>1, <3>2, <3>5, <4>2
        <4>4. cursor <= Table!Token(table.page) /\ Table!Token(table.page) <= cursor + PageSize
          BY <2>1, <3>5 DEF TokensFollow
        <4>5. Table!Token(table.page - 1)' = Table!Token(p - 1)' /\ Table!Token(table.page)' = Table!Token(p)' /\ table'.from = "rpc"
          BY <1>4, <2>1, <4>2
        <4> QED
          BY <3>1, <3>3, <4>1, <4>3, <4>4, <4>5, PagesHold DEF TokensFollow
      <3> QED
        BY <2>1, <3>4, <3>5 DEF Onward
    <2> QED
      BY <1>4, <2>2, <2>3 DEF Onward, TokensFollow
<1> QED
    BY <1>7, <1>8, <1>9, <1>10 DEF TableInv

LEMMA TableStep == TableInv /\ [Table!Next]_Table!queryVars => TableInv'
<1> SUFFICES ASSUME TableInv, [Table!Next]_Table!queryVars PROVE TableInv'
    OBVIOUS
<1>1. CASE UNCHANGED Table!queryVars
    BY <1>1 DEF Table!queryVars, TableInv, TableTyped, Table!SpinnerHonest, OneFetch, Onward, TokensFollow, FetchTyped, AfterCursor, Table!Idle, Table!Token
<1>2. CASE Table!Emit
    <2>1. TableTyped'
      <3>1. emitted' = emitted + 1 /\ UNCHANGED <<indexed, table, stack, fetches, overlapped>>
        BY <1>2 DEF Table!Emit
      <3>2. ASSUME NEW s \in TableSlots PROVE FetchTyped(fetches[s], emitted + 1)
        <4>1. emitted \in Nat /\ FetchTyped(fetches[s], emitted)
          BY DEF TableInv, TableTyped
        <4>2. fetches[s] \in FetchRecord(emitted + 1)
          BY <4>1 DEF FetchTyped, FetchRecord
        <4> QED
          BY <4>1, <4>2, PagesHold DEF FetchTyped, FetchRecord, AfterCursor
      <3>3. \A p \in DOMAIN stack : stack[p] \in 0..(emitted + 1)
        BY DEF TableInv, TableTyped
      <3> QED
        BY <3>1, <3>2, <3>3 DEF TableInv, TableTyped, FetchTyped, AfterCursor
    <2> QED
      BY <1>2, <2>1 DEF Table!Emit, TableInv, Table!SpinnerHonest, OneFetch, Onward, TokensFollow, Table!Idle, Table!Token
<1>3. ASSUME NEW s \in TableSlots, Table!Refresh(s) PROVE TableInv'
    <2>1. (IF indexed THEN "indexer" ELSE "rpc") \in {"rpc", "indexer"} /\ 0 \in 0..emitted /\ 1 \in Nat \ {0}
      BY DEF TableInv, TableTyped
    <2> QED
      BY <1>3, <2>1, BeginKeeps DEF Table!Refresh
<1>4. ASSUME NEW s \in TableSlots, Table!NextPage(s) PROVE TableInv'
    <2> DEFINE kind == IF indexed THEN "indexer" ELSE "rpc"
               cursor == IF indexed THEN 0 ELSE Table!Token(table.page - 1)
    <2>1. cursor \in 0..emitted /\ table.page + 1 \in Nat \ {0}
      BY TokenIs DEF TableInv, TableTyped, ViewRecord
    <2>2. kind \in {"rpc", "indexer"} /\ (kind = "indexer" <=> indexed) /\ (indexed => cursor = 0) /\ (~indexed => cursor = Table!Token(table.page - 1))
      BY DEF TableInv, TableTyped
    <2>3. Table!Begin(s, kind, table.page + 1, cursor) /\ table.more /\ UNCHANGED <<indexed, emitted, stack>>
      BY <1>4 DEF Table!NextPage
    <2> HIDE DEF kind, cursor
    <2> QED
      BY <2>1, <2>2, <2>3, BeginKeeps
<1>5. ASSUME NEW s \in TableSlots, Table!Serve(s) PROVE TableInv'
    <2> DEFINE f == fetches[s]
               all == Table!fetchContractEvents(f.cursor)
               got == IF f.kind = "indexer" THEN Table!getIndexerEvents(f.page) ELSE SubSeq(all, 1, Table!Least(PageSize, Len(all)))
               more == IF f.kind = "indexer" THEN f.page < Table!Pages ELSE Len(all) > PageSize
               g == [f EXCEPT !.served = TRUE, !.got = got, !.more = more]
    <2>1. /\ FetchTyped(f, emitted) /\ f.kind # "none" /\ emitted \in Nat /\ f \in FetchRecord(emitted)
          /\ UNCHANGED <<indexed, emitted, table, stack, overlapped>>
          /\ fetches' = [fetches EXCEPT ![s] = g]
      BY <1>5 DEF Table!Serve, TableInv, TableTyped, FetchTyped
    <2>2. f.page \in Nat /\ f.cursor \in 0..emitted /\ f.kind \in {"rpc", "indexer"}
      BY <2>1 DEF FetchRecord
    <2>3. /\ got \in Seq(Int) /\ more \in BOOLEAN
          /\ f.kind = "rpc" => /\ \A k \in 1..Len(got) : got[k] = f.cursor + k
                               /\ more => Len(got) = PageSize /\ f.cursor + PageSize <= emitted
      <3>1. CASE f.kind = "indexer"
        <4>1. got \in Seq(Int)
          BY <2>1, <2>2, <3>1, IndexerServes
        <4>2. more \in BOOLEAN
          BY <3>1
        <4> QED
          BY <3>1, <4>1, <4>2
      <3>2. CASE f.kind = "rpc"
        BY <2>1, <2>2, <3>2, NodeServes
      <3> QED
        BY <2>2, <3>1, <3>2
    <2> HIDE DEF got, more, all
    <2>4. g \in FetchRecord(emitted) /\ g.kind = f.kind /\ g.page = f.page /\ g.cursor = f.cursor /\ g.got = got /\ g.more = more
      BY <2>1, <2>3 DEF FetchRecord
    <2> HIDE DEF g
    <2>5. FetchTyped(g, emitted)
      BY <2>1, <2>3, <2>4 DEF FetchTyped, AfterCursor
    <2>6. DOMAIN fetches' = TableSlots /\ \A t \in TableSlots : fetches'[t] = IF t = s THEN g ELSE fetches[t]
      BY <2>1 DEF TableInv, TableTyped
    <2>7. TableTyped'
      BY <2>1, <2>5, <2>6 DEF TableInv, TableTyped, FetchTyped, AfterCursor
    <2>8. \A t \in TableSlots : (Table!Idle(t)' <=> Table!Idle(t)) /\ fetches'[t].page = fetches[t].page /\ fetches'[t].cursor = fetches[t].cursor
      BY <2>4, <2>6 DEF Table!Idle
    <2> QED
      BY <2>1, <2>7, <2>8 DEF TableInv, Table!SpinnerHonest, OneFetch, Onward, TokensFollow, Table!Token
<1>6. ASSUME NEW s \in TableSlots, Table!Deliver(s) PROVE TableInv'
    BY <1>6, DeliverKeeps
<1>7. ASSUME NEW s \in TableSlots, Table!FallBack(s) PROVE TableInv'
    <2> DEFINE f == [Table!None EXCEPT !.kind = "rpc", !.page = 1]
    <2>1. /\ fetches' = [fetches EXCEPT ![s] = f] /\ UNCHANGED <<indexed, emitted, stack, overlapped>>
          /\ table' = [table EXCEPT !.source = "rpc", !.loading = TRUE, !.error = FALSE] /\ fetches[s].kind = "indexer" /\ indexed
      BY <1>7 DEF Table!FallBack, TableInv, TableTyped, FetchTyped
    <2>2. FetchTyped(f, emitted) /\ f.kind = "rpc"
      <3>1. Table!None \in FetchRecord(emitted) /\ Table!None.served = FALSE
        BY NoRecord DEF TableInv, TableTyped
      <3>2. f \in FetchRecord(emitted) /\ f.kind = "rpc" /\ f.page = 1 /\ f.served = FALSE
        BY <3>1 DEF FetchRecord
      <3> HIDE DEF f
      <3> QED
        BY <3>2 DEF FetchTyped
    <2> HIDE DEF f
    <2>3. \A t \in TableSlots : fetches'[t] = IF t = s THEN f ELSE fetches[t]
      BY <2>1 DEF TableInv, TableTyped
    <2>4. TableTyped'
      BY <2>1, <2>2, <2>3 DEF TableInv, TableTyped, ViewRecord, FetchTyped, AfterCursor
    <2>5. table'.loading = TRUE /\ (\A t \in TableSlots : Table!Idle(t)' <=> Table!Idle(t)) /\ overlapped' = overlapped /\ indexed'
      BY <2>1, <2>2, <2>3 DEF TableInv, TableTyped, ViewRecord, Table!Idle
    <2> QED
      BY <2>2, <2>3, <2>4, <2>5 DEF TableInv, Table!SpinnerHonest, OneFetch, Table!Idle
<1>8. ASSUME NEW s \in TableSlots, Table!FetchFails(s) PROVE TableInv'
    <2>1. /\ fetches' = [fetches EXCEPT ![s] = Table!None] /\ UNCHANGED <<indexed, emitted, stack, overlapped>>
          /\ table' = [table EXCEPT !.error = TRUE, !.loading = FALSE]
      BY <1>8 DEF Table!FetchFails, Table!Failed
    <2>2. FetchTyped(Table!None, emitted) /\ Table!None.kind = "none"
      BY NoFetch DEF TableInv, TableTyped
    <2>3. \A t \in TableSlots : fetches'[t] = IF t = s THEN Table!None ELSE fetches[t]
      BY <2>1 DEF TableInv, TableTyped
    <2>4. TableTyped'
      BY <2>1, <2>2, <2>3 DEF TableInv, TableTyped, ViewRecord, FetchTyped, AfterCursor
    <2>5. table'.page = table.page /\ table'.more = table.more /\ table'.from = table.from /\ table'.events = table.events /\ table'.loading = FALSE
      BY <2>1 DEF TableInv, TableTyped, ViewRecord
    <2> QED
      BY <2>1, <2>2, <2>3, <2>4, <2>5 DEF TableInv, Table!SpinnerHonest, OneFetch, Table!Idle, Onward, TokensFollow, Table!Token
<1> QED
    BY <1>1, <1>2, <1>3, <1>4, <1>5, <1>6, <1>7, <1>8 DEF Table!Next

\* A page is turned only by the answer that shows the next one.
LEMMA NoSkip ==
    ASSUME TableInv, [Table!Next]_Table!queryVars
    PROVE [Table!Turned /\ table'.events # <<>> /\ ~overlapped => table'.events[1] <= table.events[Len(table.events)] + 1]_table
<1> SUFFICES ASSUME table' # table, Table!Turned, table'.events # <<>>, ~overlapped
             PROVE table'.events[1] <= table.events[Len(table.events)] + 1
    OBVIOUS
<1>1. PICK s \in TableSlots : Table!Deliver(s)
    <2>1. table.page \in Nat /\ table'.page = table.page + 1
      BY DEF Table!Turned, TableInv, TableTyped, ViewRecord
    <2>2. ASSUME NEW s \in TableSlots, Table!Refresh(s) \/ Table!NextPage(s) \/ Table!FallBack(s) \/ Table!FetchFails(s) PROVE table'.page = table.page
      BY <2>2 DEF Table!Refresh, Table!NextPage, Table!Begin, Table!FallBack, Table!FetchFails, Table!Failed, TableInv, TableTyped, ViewRecord
    <2>3. ASSUME NEW s \in TableSlots, Table!Serve(s) PROVE table' = table
      BY <2>3 DEF Table!Serve
    <2>4. Table!Emit => table' = table
      BY DEF Table!Emit
    <2>5. UNCHANGED Table!queryVars => table' = table
      BY DEF Table!queryVars
    <2>6. Table!Next
      BY <2>5
    <2>7. \E s \in TableSlots : Table!Serve(s) \/ Table!Refresh(s) \/ Table!NextPage(s) \/ Table!Deliver(s) \/ Table!FallBack(s) \/ Table!FetchFails(s)
      BY <2>4, <2>6 DEF Table!Next
    <2> QED
      BY <2>1, <2>2, <2>3, <2>7
<1> DEFINE f == fetches[s]
<1>2. table'.events = f.got /\ table'.page = f.page /\ table'.from = f.kind /\ f.served
    BY <1>1 DEF Table!Deliver, Table!Shown, TableInv, TableTyped, ViewRecord
<1>3. f.kind = "rpc" /\ f.page = table.page + 1 /\ table.page \in Nat \ {0} /\ FetchTyped(f, emitted)
    BY <1>2 DEF Table!Turned, TableInv, TableTyped, ViewRecord
<1>4. ~indexed
    BY <1>3 DEF FetchTyped
<1>5. table.more /\ f.cursor = Table!Token(table.page - 1) /\ TokensFollow
    BY <1>3, <1>4 DEF TableInv, Onward, Table!Idle
<1>6. f.got[1] = f.cursor + 1
    BY <1>2, <1>3 DEF FetchTyped, AfterCursor
<1>7. table.events[Len(table.events)] \in Int /\ Table!Token(table.page - 1) \in Int
    BY <1>5, TokenIs DEF TokensFollow, TableInv, TableTyped, ViewRecord
<1> QED
    BY <1>2, <1>5, <1>6, <1>7 DEF TokensFollow

\* The spinner turns only while a fetch is open, and as long as fetches do not overlap, going from page to page of the node
\* skips no event (useEventQuery.ts).
THEOREM TableShows == Table!Spec => TableSound
<1>1. TableInv => Table!SpinnerHonest
    BY DEF TableInv
<1> QED
    BY <1>1, TableBegins, TableStep, NoSkip, PTL DEF Table!Spec, TableSound, Table!TableSound, Table!NoEventSkipped

----------------------------------------------------------------------------
(* The wallet's session and role (WalletSession) *)

WalletAttempt ==
    [phase : {"unused", "probing", "starting", "connecting", "pairing", "over"},
     via : {"header", "guard", "pairing", "load", Wallet!None}, type : Wallet!Types \cup {Wallet!None}, account : Accounts \cup {Wallet!None}]

\* The store holds an instance that an attempt left, with its account, or nothing.
StoreHeld ==
    IF wallet.provider = Wallet!NoInstance THEN wallet = Wallet!Disconnected
    ELSE /\ wallet.provider \in Attempts /\ attempt[wallet.provider].phase = "over"
         /\ attempt[wallet.provider].account = wallet.address

WalletTyped ==
    /\ attempt \in [Attempts -> WalletAttempt]
    /\ wallet \in [provider : Attempts \cup {Wallet!NoInstance}, type : Wallet!Types \cup {Wallet!None}, address : Accounts \cup {Wallet!None}]
    /\ remembered \in [type : Wallet!Types \cup {Wallet!None}, session : Accounts \cup {Wallet!None}]
    /\ closing \in Attempts \cup {Wallet!NoInstance}
    /\ roles \in [role : {"user", "verifier", "admin", Wallet!None}, resolvedFor : Accounts \cup {Wallet!None},
                  seen : Accounts \cup {Wallet!None}, lookups : SUBSET Accounts]

\* Who was forgotten has no attempt under way.
ForgottenRests == forgotten => wallet = Wallet!Disconnected /\ remembered.type = Wallet!None /\ \A a \in Attempts : ~Wallet!Under(a)

\* An address that was seen is resolved or looked up.
SeenIsResolved ==
    /\ roles.seen # Wallet!None => roles.role # Wallet!None \/ roles.lookups # {}
    /\ roles.resolvedFor # Wallet!None => roles.role # Wallet!None

\* The strengthening of SessionSound.
WalletInv == WalletTyped /\ StoreHeld /\ ForgottenRests /\ SeenIsResolved

LEMMA WalletBegins == Wallet!Init => WalletInv
BY DEF Wallet!Init, WalletInv, WalletTyped, StoreHeld, ForgottenRests, SeenIsResolved, WalletAttempt, Wallet!Disconnected, Wallet!Unused, Wallet!NoRole, Wallet!NoInstance, Wallet!None, Wallet!Types, Wallet!Under

LEMMA WalletStep == WalletInv /\ [Wallet!Next]_Wallet!walletVars => WalletInv'
<1> SUFFICES ASSUME WalletInv, [Wallet!Next]_Wallet!walletVars PROVE WalletInv'
    OBVIOUS
<1> USE AttemptsAreNumbered, NoneIsNoAccount DEF WalletInv
<1>1. CASE UNCHANGED Wallet!walletVars
    BY <1>1 DEF Wallet!walletVars, WalletTyped, StoreHeld, ForgottenRests, SeenIsResolved, Wallet!Under
<1>2. ASSUME NEW a \in Attempts, NEW type \in Wallet!Types, NEW via \in {"header", "guard", "pairing"}, Wallet!Choose(a, via, type) PROVE WalletInv'
  <2> USE <1>2 DEF Wallet!Choose, Wallet!Fresh, Wallet!At, Wallet!Unused, Wallet!Under, Wallet!NoInstance, Wallet!None, Wallet!Types
  <2>1. WalletTyped'
    <3> DEFINE phase == CASE via = "header" -> "probing" [] via = "guard" -> "starting" [] OTHER -> "connecting"
               new == [Wallet!Unused EXCEPT !.phase = phase, !.via = via, !.type = type]
    <3>1. phase \in {"probing", "starting", "connecting"}
      OBVIOUS
    <3> HIDE DEF phase
    <3>2. new \in WalletAttempt
      BY <3>1 DEF WalletAttempt
    <3>3. attempt' = [attempt EXCEPT ![a] = new] /\ UNCHANGED <<wallet, remembered, closing, roles>>
      BY DEF phase
    <3> HIDE DEF new
    <3> QED
      BY <3>2, <3>3 DEF WalletTyped
  <2>2. StoreHeld'
    BY DEF WalletTyped, StoreHeld, ForgottenRests, SeenIsResolved, WalletAttempt
  <2>3. ForgottenRests'
    BY DEF WalletTyped, StoreHeld, ForgottenRests, SeenIsResolved, WalletAttempt
  <2>4. SeenIsResolved'
    BY DEF WalletTyped, StoreHeld, ForgottenRests, SeenIsResolved, WalletAttempt
  <2> QED
    BY <2>1, <2>2, <2>3, <2>4
<1>3. ASSUME NEW a \in Attempts, Wallet!Probed(a) PROVE WalletInv'
  <2> USE <1>3 DEF Wallet!Probed, Wallet!Move, Wallet!At, Wallet!Under, Wallet!NoInstance, Wallet!None, Wallet!Types
  <2>1. WalletTyped'
    BY DEF WalletTyped, StoreHeld, ForgottenRests, SeenIsResolved, WalletAttempt
  <2>2. StoreHeld'
    BY DEF WalletTyped, StoreHeld, ForgottenRests, SeenIsResolved, WalletAttempt
  <2>3. ForgottenRests'
    BY DEF WalletTyped, StoreHeld, ForgottenRests, SeenIsResolved, WalletAttempt
  <2>4. SeenIsResolved'
    BY DEF WalletTyped, StoreHeld, ForgottenRests, SeenIsResolved, WalletAttempt
  <2> QED
    BY <2>1, <2>2, <2>3, <2>4
<1>4. ASSUME NEW a \in Attempts, Wallet!selectProvider(a) PROVE WalletInv'
  <2> USE <1>4 DEF Wallet!selectProvider, Wallet!Move, Wallet!At, Wallet!Dropped, Wallet!Under, Wallet!NoInstance, Wallet!None, Wallet!Types
  <2>1. WalletTyped'
    BY DEF WalletTyped, StoreHeld, ForgottenRests, SeenIsResolved, WalletAttempt
  <2>2. StoreHeld'
    BY DEF WalletTyped, StoreHeld, ForgottenRests, SeenIsResolved, WalletAttempt
  <2>3. ForgottenRests'
    BY DEF WalletTyped, StoreHeld, ForgottenRests, SeenIsResolved, WalletAttempt
  <2>4. SeenIsResolved'
    BY DEF WalletTyped, StoreHeld, ForgottenRests, SeenIsResolved, WalletAttempt
  <2> QED
    BY <2>1, <2>2, <2>3, <2>4
<1>5. ASSUME NEW a \in Attempts, Wallet!autoReconnect(a) PROVE WalletInv'
  <2> USE <1>5 DEF Wallet!autoReconnect, Wallet!Fresh, Wallet!At, Wallet!Reconnectable, Wallet!Unused, Wallet!Over, Wallet!NoRole, Wallet!Disconnected, Wallet!Under, Wallet!NoInstance, Wallet!None, Wallet!Types
  <2>1. WalletTyped'
    BY DEF WalletTyped, StoreHeld, ForgottenRests, SeenIsResolved, WalletAttempt
  <2>2. StoreHeld'
    BY DEF WalletTyped, StoreHeld, ForgottenRests, SeenIsResolved, WalletAttempt
  <2>3. ForgottenRests'
    BY DEF WalletTyped, StoreHeld, ForgottenRests, SeenIsResolved, WalletAttempt
  <2>4. SeenIsResolved'
    BY DEF WalletTyped, StoreHeld, ForgottenRests, SeenIsResolved, WalletAttempt
  <2> QED
    BY <2>1, <2>2, <2>3, <2>4
<1>6. ASSUME NEW a \in Attempts, Wallet!Pair(a) PROVE WalletInv'
  <2> USE <1>6 DEF Wallet!Pair, Wallet!Move, Wallet!At, Wallet!Under, Wallet!NoInstance, Wallet!None, Wallet!Types
  <2>1. WalletTyped'
    BY DEF WalletTyped, StoreHeld, ForgottenRests, SeenIsResolved, WalletAttempt
  <2>2. StoreHeld'
    BY DEF WalletTyped, StoreHeld, ForgottenRests, SeenIsResolved, WalletAttempt
  <2>3. ForgottenRests'
    BY DEF WalletTyped, StoreHeld, ForgottenRests, SeenIsResolved, WalletAttempt
  <2>4. SeenIsResolved'
    BY DEF WalletTyped, StoreHeld, ForgottenRests, SeenIsResolved, WalletAttempt
  <2> QED
    BY <2>1, <2>2, <2>3, <2>4
<1>7. ASSUME NEW a \in Attempts, Wallet!Fail(a) PROVE WalletInv'
  <2> USE <1>7 DEF Wallet!Fail, Wallet!Over, Wallet!Unused, Wallet!Under, Wallet!NoInstance, Wallet!None, Wallet!Types
  <2>1. WalletTyped'
    BY DEF WalletTyped, StoreHeld, ForgottenRests, SeenIsResolved, WalletAttempt
  <2>2. StoreHeld'
    BY DEF WalletTyped, StoreHeld, ForgottenRests, SeenIsResolved, WalletAttempt
  <2>3. ForgottenRests'
    BY DEF WalletTyped, StoreHeld, ForgottenRests, SeenIsResolved, WalletAttempt
  <2>4. SeenIsResolved'
    BY DEF WalletTyped, StoreHeld, ForgottenRests, SeenIsResolved, WalletAttempt
  <2> QED
    BY <2>1, <2>2, <2>3, <2>4
<1>8. ASSUME NEW a \in Attempts, NEW who \in Accounts, Wallet!connect(a, who) \/ Wallet!Approve(a, who) PROVE WalletInv'
  <2> USE <1>8 DEF Wallet!connect, Wallet!Approve, Wallet!Land, Wallet!Landed, Wallet!Over, Wallet!Unused, Wallet!At, Wallet!Under, Wallet!NoInstance, Wallet!None, Wallet!Types
  <2> DEFINE ended == [Wallet!Over EXCEPT !.type = attempt[a].type, !.account = who]
  <2>0. /\ attempt[a] \in WalletAttempt
        /\ wallet' = [provider |-> a, type |-> attempt[a].type, address |-> who]
        /\ attempt' = [attempt EXCEPT ![a] = ended]
        /\ remembered'.type \in {remembered.type, attempt[a].type} /\ remembered'.session \in {remembered.session, who}
        /\ remembered' = [type |-> remembered'.type, session |-> remembered'.session]
        /\ UNCHANGED <<closing, roles>>
    BY DEF WalletTyped
  <2>10. ended \in WalletAttempt /\ ended.phase = "over" /\ ended.account = who
    BY <2>0 DEF WalletAttempt
  <2> HIDE DEF ended
  <2>1. WalletTyped'
    BY <2>0, <2>10 DEF WalletTyped, WalletAttempt
  <2>2. StoreHeld'
    <3>1. attempt'[a] = ended
      BY <2>0 DEF WalletTyped
    <3> QED
      BY <2>0, <2>10, <3>1 DEF StoreHeld
  <2>3. ForgottenRests'
    BY DEF WalletTyped, StoreHeld, ForgottenRests, SeenIsResolved, WalletAttempt
  <2>4. SeenIsResolved'
    BY DEF WalletTyped, StoreHeld, ForgottenRests, SeenIsResolved, WalletAttempt
  <2> QED
    BY <2>1, <2>2, <2>3, <2>4
<1>9. ASSUME Wallet!Disconnect PROVE WalletInv'
  <2> USE <1>9 DEF Wallet!Disconnect, Wallet!Under, Wallet!NoInstance, Wallet!None, Wallet!Types
  <2>1. WalletTyped'
    BY DEF WalletTyped, StoreHeld, ForgottenRests, SeenIsResolved, WalletAttempt
  <2>2. StoreHeld'
    BY DEF WalletTyped, StoreHeld, ForgottenRests, SeenIsResolved, WalletAttempt
  <2>3. ForgottenRests'
    BY DEF WalletTyped, StoreHeld, ForgottenRests, SeenIsResolved, WalletAttempt
  <2>4. SeenIsResolved'
    BY DEF WalletTyped, StoreHeld, ForgottenRests, SeenIsResolved, WalletAttempt
  <2> QED
    BY <2>1, <2>2, <2>3, <2>4
<1>10. ASSUME Wallet!Clear PROVE WalletInv'
  <2> USE <1>10 DEF Wallet!Clear, Wallet!Forget, Wallet!Dropped, Wallet!Disconnected, Wallet!Under, Wallet!NoInstance, Wallet!None, Wallet!Types
  <2>1. WalletTyped'
    BY DEF WalletTyped, StoreHeld, ForgottenRests, SeenIsResolved, WalletAttempt
  <2>2. StoreHeld'
    BY DEF WalletTyped, StoreHeld, ForgottenRests, SeenIsResolved, WalletAttempt
  <2>3. ForgottenRests'
    BY DEF WalletTyped, StoreHeld, ForgottenRests, SeenIsResolved, WalletAttempt
  <2>4. SeenIsResolved'
    BY DEF WalletTyped, StoreHeld, ForgottenRests, SeenIsResolved, WalletAttempt
  <2> QED
    BY <2>1, <2>2, <2>3, <2>4
<1>11. ASSUME Wallet!Expire PROVE WalletInv'
  <2> USE <1>11 DEF Wallet!Expire, Wallet!Under, Wallet!NoInstance, Wallet!None, Wallet!Types
  <2>1. WalletTyped'
    BY DEF WalletTyped, StoreHeld, ForgottenRests, SeenIsResolved, WalletAttempt
  <2>2. StoreHeld'
    BY DEF WalletTyped, StoreHeld, ForgottenRests, SeenIsResolved, WalletAttempt
  <2>3. ForgottenRests'
    BY DEF WalletTyped, StoreHeld, ForgottenRests, SeenIsResolved, WalletAttempt
  <2>4. SeenIsResolved'
    BY DEF WalletTyped, StoreHeld, ForgottenRests, SeenIsResolved, WalletAttempt
  <2> QED
    BY <2>1, <2>2, <2>3, <2>4
<1>12. ASSUME Wallet!Effect PROVE WalletInv'
  <2> USE <1>12 DEF Wallet!Effect, Wallet!clearRole, Wallet!Under, Wallet!NoInstance, Wallet!None, Wallet!Types
  <2>1. WalletTyped'
    BY DEF WalletTyped, StoreHeld, ForgottenRests, SeenIsResolved, WalletAttempt
  <2>2. StoreHeld'
    BY DEF WalletTyped, StoreHeld, ForgottenRests, SeenIsResolved, WalletAttempt
  <2>3. ForgottenRests'
    BY DEF WalletTyped, StoreHeld, ForgottenRests, SeenIsResolved, WalletAttempt
  <2>4. SeenIsResolved'
    BY DEF WalletTyped, StoreHeld, ForgottenRests, SeenIsResolved, WalletAttempt
  <2> QED
    BY <2>1, <2>2, <2>3, <2>4
<1>13. ASSUME NEW person \in roles.lookups, NEW role \in {"user", "verifier", "admin"}, Wallet!resolveRole(person, role) PROVE WalletInv'
  <2> USE <1>13 DEF Wallet!resolveRole, Wallet!Under, Wallet!NoInstance, Wallet!None, Wallet!Types
  <2>1. WalletTyped'
    BY DEF WalletTyped, StoreHeld, ForgottenRests, SeenIsResolved, WalletAttempt
  <2>2. StoreHeld'
    BY DEF WalletTyped, StoreHeld, ForgottenRests, SeenIsResolved, WalletAttempt
  <2>3. ForgottenRests'
    BY DEF WalletTyped, StoreHeld, ForgottenRests, SeenIsResolved, WalletAttempt
  <2>4. SeenIsResolved'
    BY DEF WalletTyped, StoreHeld, ForgottenRests, SeenIsResolved, WalletAttempt
  <2> QED
    BY <2>1, <2>2, <2>3, <2>4
<1> HIDE DEF WalletInv
<1> QED
    BY <1>1, <1>2, <1>3, <1>4, <1>5, <1>6, <1>7, <1>8, <1>9, <1>10, <1>11, <1>12, <1>13 DEF Wallet!Next

\* The address shown is the one its provider gave, a wallet that was forgotten stays so whatever was still under way,
\* and no role is withheld from an address for good (wallet.ts, roleStore.ts).
THEOREM SessionHolds == Wallet!Spec => []SessionSound
<1>1. WalletInv => Wallet!SessionSound
    BY DEF WalletInv, WalletTyped, StoreHeld, ForgottenRests, SeenIsResolved, Wallet!SessionSound, Wallet!AddressIsProviders, Wallet!ForgottenStaysForgotten, Wallet!RoleNotWithheld, Wallet!None
<1> QED
    BY <1>1, WalletBegins, WalletStep, PTL DEF Wallet!Spec, SessionSound

----------------------------------------------------------------------------
(* The admin page (AdminDesk) *)

Kinds == {"save", "propose", "activate", "pause", "unpause"}

Rules == [limit : Limits \cup {0}, paused : BOOLEAN]

EngineRecord == [rules : Rules, pending : [queued : BOOLEAN, rules : Rules]]

DeskRecord == [form : Rules, isPaused : BOOLEAN, pending : BOOLEAN, dialog : Kinds \cup {Desk!None}, rules : Rules]

DeskCall ==
    [admin : Admins \cup {Desk!None}, kind : Kinds \cup {Desk!None}, rules : Rules,
     phase : {"free", "sent", "fetch", "served", "unheard", "done"}, landed : BOOLEAN, got : Rules]

\* A call under way is some administrator's, and of some kind; one not made is not landed.
CallMade(x) ==
    /\ x.phase \in {"sent", "fetch", "served", "unheard"} => x.admin \in Admins /\ x.kind \in Kinds
    /\ x.phase = "free" => ~x.landed

DeskTyped ==
    /\ engine \in EngineRecord /\ desk \in [Admins -> DeskRecord] /\ calls \in [DeskCalls -> DeskCall]
    /\ registry \in [Admins -> SUBSET {"pause", "unpause"}] /\ log \subseteq DeskCalls
    /\ lapsed \in BOOLEAN /\ reloads \in Nat
    /\ \A c \in DeskCalls : CallMade(calls[c])

\* What is registered is being sent.
InFlight ==
    reloads = 0 => \A o \in Admins : \A k \in registry[o] :
       \E c \in DeskCalls : calls[c].admin = o /\ calls[c].kind = k /\ calls[c].phase = "sent"

RunsNow(x) == x.phase \in {"sent", "fetch", "served"}

\* The page between two calls: the form, and what a dialog holds of it, agree with the engine on the pause.
AtRest(o) ==
    /\ desk[o].form.paused = engine.rules.paused
    /\ desk[o].dialog # Desk!None => desk[o].rules.paused = engine.rules.paused

\* The page during a call, until what the call changed was fetched.
DuringCall(x, o) ==
    /\ desk[o].dialog = Desk!None
    /\ x.phase = "sent" /\ (~x.landed \/ x.kind = "propose") => desk[o].form.paused = engine.rules.paused
    /\ x.phase = "sent" /\ ~x.landed /\ x.kind = "save" => x.rules.paused = engine.rules.paused
    /\ x.phase = "served" => x.got.paused = engine.rules.paused

\* Only this administrator has made calls.
WorksAlone(o) == \A c \in DeskCalls : calls[c] = Desk!Free \/ calls[c].admin = o

Orderly(o) ==
    /\ \A c, d \in DeskCalls : RunsNow(calls[c]) /\ RunsNow(calls[d]) => c = d
    /\ \A c \in DeskCalls : calls[c].phase # "unheard"
    /\ \A c \in DeskCalls : RunsNow(calls[c]) => DuringCall(calls[c], o)
    /\ (\A c \in DeskCalls : ~RunsNow(calls[c])) => AtRest(o)

\* The strengthening of DeskSound: the registry knows what is in flight, and while one administrator works alone and
\* no call went unheard, the page and the engine agree on the pause.
DeskInv == DeskTyped /\ Desk!LogIsTrue /\ InFlight /\ (~lapsed => \A o \in Admins : WorksAlone(o) => Orderly(o))

LEMMA NoRulesTyped == Desk!NoRules \in Rules /\ Desk!NoRules.paused = FALSE
BY DEF Desk!NoRules, Rules

LEMMA FreeTyped == Desk!Free \in DeskCall /\ Desk!Free.phase = "free" /\ Desk!Free.landed = FALSE
BY NoRulesTyped DEF Desk!Free, DeskCall

LEMMA BlankTyped == Desk!Blank \in DeskRecord /\ Desk!Blank.dialog = Desk!None /\ Desk!Blank.form = Desk!NoRules
BY NoRulesTyped DEF Desk!Blank, DeskRecord

LEMMA DeskBegins == Desk!Init => DeskInv
<1> SUFFICES ASSUME Desk!Init PROVE DeskInv
    OBVIOUS
<1>1. engine.rules = Desk!NoRules /\ engine \in EngineRecord
    BY NoRulesTyped DEF Desk!Init, EngineRecord, Desk!NoQueue
<1>2. (\A c \in DeskCalls : calls[c] = Desk!Free) /\ calls \in [DeskCalls -> DeskCall]
    BY FreeTyped DEF Desk!Init
<1>3. (\A o \in Admins : desk[o] = Desk!Blank /\ registry[o] = {}) /\ desk \in [Admins -> DeskRecord]
    BY BlankTyped DEF Desk!Init
<1>4. DeskTyped
    BY <1>1, <1>2, <1>3, FreeTyped DEF Desk!Init, DeskTyped, CallMade
<1>5. \A o \in Admins : Orderly(o)
    BY <1>1, <1>2, <1>3, FreeTyped, BlankTyped DEF Orderly, RunsNow, AtRest
<1>6. Desk!LogIsTrue /\ InFlight
    BY <1>3 DEF Desk!Init, Desk!LogIsTrue, InFlight
<1> QED
    BY <1>4, <1>5, <1>6 DEF DeskInv

\* A step on the form or the dialog of one page.
LEMMA FormKeeps ==
    ASSUME DeskInv, NEW o \in Admins, NEW r \in DeskRecord, desk' = [desk EXCEPT ![o] = r],
           UNCHANGED <<engine, calls, registry, log, reloads>>, lapsed' \in BOOLEAN, lapsed => lapsed',
           r.form.paused = desk[o].form.paused,
           ~lapsed' /\ r.dialog # Desk!None => r.rules = desk[o].form /\ \A c \in DeskCalls : ~RunsNow(calls[c])
    PROVE DeskInv'
<1>1. \A p \in Admins : desk'[p] = IF p = o THEN r ELSE desk[p]
    BY DEF DeskInv, DeskTyped
<1>2. DeskTyped'
    BY DEF DeskInv, DeskTyped, CallMade
<1>3. Desk!LogIsTrue' /\ InFlight'
    BY DEF DeskInv, Desk!LogIsTrue, InFlight
<1>4. ASSUME ~lapsed', NEW p \in Admins, WorksAlone(p)' PROVE Orderly(p)'
    <2>1. WorksAlone(p) /\ Orderly(p)
      BY <1>4 DEF DeskInv, WorksAlone
    <2>2. CASE p # o
      BY <1>1, <2>1, <2>2 DEF Orderly, DuringCall, AtRest
    <2>3. CASE p = o
      <3>1. AtRest(p) => AtRest(p)'
        BY <1>1, <1>4, <2>3 DEF AtRest
      <3>2. \A c \in DeskCalls : RunsNow(calls[c]) /\ DuringCall(calls[c], p) => DuringCall(calls[c], p)'
        BY <1>1, <1>4, <2>3 DEF DuringCall
      <3> QED
        BY <2>1, <3>1, <3>2 DEF Orderly
    <2> QED
      BY <2>2, <2>3
<1> QED
    BY <1>2, <1>3, <1>4 DEF DeskInv

\* A step of one call: it lands, is answered, or what it is followed by is.
Steps(c, d) ==
    /\ calls[c].phase \in {"sent", "fetch", "served", "unheard"}
    /\ calls' = [calls EXCEPT ![c] = d]
    /\ d \in DeskCall /\ CallMade(d) /\ d.phase # "free" /\ d.admin = calls[c].admin
    /\ calls[c].landed => d.landed
    /\ lapsed' \in BOOLEAN /\ (lapsed => lapsed') /\ (d.phase = "unheard" => calls[c].phase = "unheard" \/ lapsed')
    /\ engine' \in EngineRecord /\ desk' \in [Admins -> DeskRecord] /\ reloads' = reloads
    /\ \A p \in Admins : p # calls[c].admin => desk'[p] = desk[p]
    /\ log' \in {log, log \cup {c}} /\ (c \in log' => d.landed)
    /\ \/ registry' = registry /\ (calls[c].phase = "sent" => d.phase = "sent" /\ d.kind = calls[c].kind)
       \/ registry' = [registry EXCEPT ![calls[c].admin] = @ \ {calls[c].kind}]

LEMMA CallKeeps ==
    ASSUME DeskInv, NEW c \in DeskCalls, NEW d, Steps(c, d),
           ~lapsed' /\ RunsNow(calls[c]) /\ DuringCall(calls[c], calls[c].admin) =>
              IF RunsNow(d) THEN DuringCall(d, d.admin)' ELSE AtRest(d.admin)'
    PROVE DeskInv'
<1>1. /\ calls[c].phase \in {"sent", "fetch", "served", "unheard"}
      /\ calls' = [calls EXCEPT ![c] = d]
      /\ d \in DeskCall /\ CallMade(d) /\ d.phase # "free" /\ d.admin = calls[c].admin
      /\ calls[c].landed => d.landed
      /\ lapsed' \in BOOLEAN /\ (lapsed => lapsed') /\ (d.phase = "unheard" => calls[c].phase = "unheard" \/ lapsed')
      /\ engine' \in EngineRecord /\ desk' \in [Admins -> DeskRecord] /\ reloads' = reloads
      /\ \A p \in Admins : p # calls[c].admin => desk'[p] = desk[p]
      /\ log' \in {log, log \cup {c}} /\ (c \in log' => d.landed)
    BY DEF Steps
<1>2. /\ calls' \in [DeskCalls -> DeskCall]
      /\ \A e \in DeskCalls : calls'[e] = IF e = c THEN d ELSE calls[e]
    BY <1>1 DEF DeskInv, DeskTyped
<1>3. calls[c].admin \in Admins /\ calls[c].kind \in Kinds /\ calls[c] # Desk!Free /\ d # Desk!Free
    BY <1>1, FreeTyped DEF DeskInv, DeskTyped, CallMade
<1>4. registry' \in [Admins -> SUBSET {"pause", "unpause"}]
    BY DEF DeskInv, DeskTyped, Steps
<1>5. DeskTyped'
    BY <1>1, <1>2, <1>4 DEF DeskInv, DeskTyped
<1>6. Desk!LogIsTrue'
    BY <1>1, <1>2 DEF DeskInv, DeskTyped, Desk!LogIsTrue
<1>7. InFlight'
    <2> SUFFICES ASSUME reloads = 0, NEW o \in Admins, NEW k \in registry'[o]
                 PROVE \E e \in DeskCalls : calls'[e].admin = o /\ calls'[e].kind = k /\ calls'[e].phase = "sent"
      BY <1>1 DEF InFlight
    <2>1. k \in registry[o]
      BY DEF Steps, DeskInv, DeskTyped
    <2>2. PICK e \in DeskCalls : calls[e].admin = o /\ calls[e].kind = k /\ calls[e].phase = "sent"
      BY <2>1 DEF DeskInv, InFlight
    <2>3. CASE e # c
      BY <1>2, <2>2, <2>3
    <2>4. CASE e = c
      <3>1. registry' # [registry EXCEPT ![calls[c].admin] = @ \ {calls[c].kind}]
        BY <2>2, <2>4 DEF DeskInv, DeskTyped
      <3>2. d.phase = "sent" /\ d.kind = calls[c].kind
        BY <2>2, <2>4, <3>1 DEF Steps
      <3> QED
        BY <1>1, <1>2, <2>2, <2>4, <3>2
    <2> QED
      BY <2>3, <2>4
<1>8. ASSUME ~lapsed', NEW o \in Admins, WorksAlone(o)' PROVE Orderly(o)'
    <2>1. o = d.admin
      BY <1>2, <1>3, <1>8 DEF WorksAlone
    <2>2. WorksAlone(o)
      BY <1>1, <1>2, <1>8, <2>1 DEF WorksAlone
    <2>3. Orderly(o)
      BY <1>1, <1>8, <2>2 DEF DeskInv
    <2>4. RunsNow(calls[c]) /\ DuringCall(calls[c], o) /\ d.phase # "unheard"
      BY <1>1, <1>8, <2>3 DEF Orderly, RunsNow
    <2>5. \A e \in DeskCalls : e # c => ~RunsNow(calls[e]) /\ calls'[e] = calls[e]
      BY <1>2, <2>3, <2>4 DEF Orderly
    <2>6. \A e \in DeskCalls : calls'[e].phase # "unheard"
      BY <1>2, <2>3, <2>4 DEF Orderly
    <2>7. IF RunsNow(d) THEN DuringCall(d, d.admin)' ELSE AtRest(d.admin)'
      BY <1>1, <1>8, <2>1, <2>4
    <2>8. \A e, f \in DeskCalls : RunsNow(calls'[e]) /\ RunsNow(calls'[f]) => e = f
      BY <2>5
    <2>9. \A e \in DeskCalls : RunsNow(calls[e])' => DuringCall(calls[e], o)'
      <3>1. RunsNow(calls[c])' => DuringCall(calls[c], o)'
        BY <1>2, <2>1, <2>7 DEF RunsNow
      <3>2. \A e \in DeskCalls : RunsNow(calls[e])' => e = c
        BY <2>5 DEF RunsNow
      <3> QED
        BY <3>1, <3>2
    <2>10. (\A e \in DeskCalls : ~RunsNow(calls[e])') => AtRest(o)'
      BY <1>2, <2>1, <2>7 DEF RunsNow
    <2> QED
      BY <2>6, <2>8, <2>9, <2>10 DEF Orderly, RunsNow
<1> QED
    BY <1>5, <1>6, <1>7, <1>8 DEF DeskInv

LEMMA EndedIs ==
    ASSUME DeskInv, NEW c \in DeskCalls
    PROVE /\ Desk!Ended(c) \in DeskCall /\ Desk!Ended(c).admin = calls[c].admin /\ Desk!Ended(c).phase = "done" /\ Desk!Ended(c).landed = calls[c].landed
          /\ CallMade(Desk!Ended(c))
<1>1. calls[c].admin \in Admins \cup {Desk!None} /\ calls[c].landed \in BOOLEAN
    BY DEF DeskInv, DeskTyped, DeskCall
<1>2. Desk!Ended(c) \in DeskCall /\ Desk!Ended(c).admin = calls[c].admin /\ Desk!Ended(c).phase = "done" /\ Desk!Ended(c).landed = calls[c].landed
    BY <1>1, FreeTyped DEF Desk!Ended, DeskCall
<1> QED
    BY <1>2 DEF CallMade

\* The dialog's call: its page was at rest.
LEMMA ConfirmKeeps == ASSUME DeskInv, NEW o \in Admins, NEW c \in DeskCalls, Desk!Confirm(o, c) PROVE DeskInv'
<1>0. PICK d : d = [Desk!Free EXCEPT !.admin = o, !.kind = desk[o].dialog, !.rules = desk[o].rules, !.phase = "sent"]
    OBVIOUS
<1> DEFINE r == [desk[o] EXCEPT !.dialog = Desk!None, !.rules = Desk!NoRules]
<1>1. /\ desk[o].dialog # Desk!None /\ calls[c] = Desk!Free /\ calls' = [calls EXCEPT ![c] = d] /\ desk' = [desk EXCEPT ![o] = r]
      /\ UNCHANGED <<engine, lapsed, reloads, log>>
      /\ registry' = [registry EXCEPT ![o] = Desk!Registered(o, desk[o].dialog)]
    BY <1>0 DEF Desk!Confirm, Desk!Logged, DeskInv, DeskTyped
<1>2. desk[o] \in DeskRecord /\ desk[o].dialog \in Kinds /\ desk[o].rules \in Rules
    BY <1>1 DEF DeskInv, DeskTyped, DeskRecord
<1>3. d \in DeskCall /\ d.admin = o /\ d.kind = desk[o].dialog /\ d.rules = desk[o].rules /\ d.phase = "sent" /\ d.landed = FALSE /\ CallMade(d)
    BY <1>0, <1>2, FreeTyped DEF DeskCall, CallMade
<1>4. r \in DeskRecord /\ r.form = desk[o].form /\ r.dialog = Desk!None
    BY <1>2, NoRulesTyped DEF DeskRecord
<1> HIDE DEF r
<1>5. \A e \in DeskCalls : calls'[e] = IF e = c THEN d ELSE calls[e]
    BY <1>1 DEF DeskInv, DeskTyped
<1>6. \A p \in Admins : desk'[p] = IF p = o THEN r ELSE desk[p]
    BY <1>1 DEF DeskInv, DeskTyped
<1>7. Desk!Registered(o, desk[o].dialog) \in SUBSET {"pause", "unpause"} /\ Desk!Registered(o, desk[o].dialog) \subseteq registry[o] \cup {desk[o].dialog}
    BY DEF Desk!Registered, DeskInv, DeskTyped
<1>8. DeskTyped'
    <2>1. calls' \in [DeskCalls -> DeskCall] /\ desk' \in [Admins -> DeskRecord] /\ registry' \in [Admins -> SUBSET {"pause", "unpause"}]
      BY <1>1, <1>3, <1>4, <1>7 DEF DeskInv, DeskTyped
    <2> QED
      BY <1>1, <1>3, <1>5, <2>1 DEF DeskInv, DeskTyped
<1>9. Desk!LogIsTrue'
    BY <1>1, <1>3, <1>5, FreeTyped DEF DeskInv, DeskTyped, Desk!LogIsTrue
<1>10. InFlight'
    <2> SUFFICES ASSUME reloads = 0, NEW p \in Admins, NEW k \in registry'[p]
                 PROVE \E e \in DeskCalls : calls'[e].admin = p /\ calls'[e].kind = k /\ calls'[e].phase = "sent"
      BY <1>1 DEF InFlight
    <2>1. CASE p = o /\ k = desk[o].dialog
      BY <1>3, <1>5, <2>1
    <2>2. CASE p # o \/ k # desk[o].dialog
      <3>1. k \in registry[p]
        BY <1>1, <1>7, <2>2 DEF DeskInv, DeskTyped
      <3>2. PICK e \in DeskCalls : calls[e].admin = p /\ calls[e].kind = k /\ calls[e].phase = "sent"
        BY <3>1 DEF DeskInv, InFlight
      <3>3. e # c
        BY <1>1, <3>2, FreeTyped
      <3> QED
        BY <1>5, <3>2, <3>3
    <2> QED
      BY <2>1, <2>2
<1>11. ASSUME ~lapsed', NEW p \in Admins, WorksAlone(p)' PROVE Orderly(p)'
    <2>1. p = o
      BY <1>3, <1>5, <1>11, FreeTyped DEF WorksAlone
    <2>2. WorksAlone(o)
      BY <1>1, <1>5, <1>11, <2>1 DEF WorksAlone
    <2>3. Orderly(o)
      BY <1>1, <1>11, <2>2 DEF DeskInv
    <2>4. \A e \in DeskCalls : ~RunsNow(calls[e])
      BY <1>1, <2>3 DEF Orderly, DuringCall
    <2>5. AtRest(o)
      BY <2>3, <2>4 DEF Orderly
    <2>6. \A e \in DeskCalls : calls'[e].phase # "unheard" /\ (RunsNow(calls[e])' => e = c)
      BY <1>3, <1>5, <2>3, <2>4 DEF Orderly, RunsNow
    <2>7. DuringCall(d, o)'
      BY <1>1, <1>3, <1>4, <1>6, <2>5 DEF DuringCall, AtRest
    <2>8. RunsNow(calls[c])' /\ DuringCall(calls[c], o)'
      BY <1>3, <1>5, <2>7 DEF RunsNow
    <2> QED
      BY <2>1, <2>6, <2>8 DEF Orderly
<1> QED
    BY <1>8, <1>9, <1>10, <1>11 DEF DeskInv

LEMMA ReloadKeeps == ASSUME DeskInv, NEW o \in Admins, NEW fetched \in BOOLEAN, Desk!Reload(o, fetched) PROVE DeskInv'
<1>1. /\ reloads' = reloads + 1 /\ reloads \in Nat /\ UNCHANGED <<engine, registry, log>> /\ lapsed' = TRUE
      /\ desk' = [desk EXCEPT ![o] = IF fetched THEN Desk!Loaded ELSE Desk!Blank]
    BY DEF Desk!Reload, DeskInv, DeskTyped
<1>2. Desk!Loaded \in DeskRecord
    BY NoRulesTyped DEF DeskInv, DeskTyped, EngineRecord, Desk!Loaded, DeskRecord, Rules
<1>3. desk' \in [Admins -> DeskRecord]
    BY <1>1, <1>2, BlankTyped DEF DeskInv, DeskTyped
<1>4. DOMAIN calls' = DeskCalls
      /\ \A c \in DeskCalls : calls'[c] \in {calls[c], Desk!Ended(c)} \/ (calls[c].phase = "sent" /\ calls'[c] = [calls[c] EXCEPT !.phase = "unheard"])
    BY DEF Desk!Reload
<1>5. ASSUME NEW c \in DeskCalls PROVE calls'[c] \in DeskCall /\ CallMade(calls'[c]) /\ (calls[c].landed => calls'[c].landed)
    <2>1. calls[c] \in DeskCall /\ CallMade(calls[c])
      BY DEF DeskInv, DeskTyped
    <2>2. CASE calls'[c] = calls[c]
      BY <2>1, <2>2
    <2>3. CASE calls'[c] = Desk!Ended(c)
      BY <2>3, EndedIs
    <2>4. CASE calls[c].phase = "sent" /\ calls'[c] = [calls[c] EXCEPT !.phase = "unheard"]
      BY <2>1, <2>4 DEF DeskCall, CallMade
    <2> QED
      BY <1>4, <2>2, <2>3, <2>4
<1>6. calls' \in [DeskCalls -> DeskCall]
    <2> DEFINE after(c) == IF c \notin Desk!Of(o) THEN calls[c]
                           ELSE IF calls[c].phase = "sent" THEN [calls[c] EXCEPT !.phase = "unheard"] ELSE Desk!Ended(c)
    <2>1. calls' = [c \in DeskCalls |-> after(c)]
      BY DEF Desk!Reload
    <2> HIDE DEF after
    <2>2. \A c \in DeskCalls : after(c) \in DeskCall
      BY <1>5, <2>1
    <2> QED
      BY <2>1, <2>2
<1>7. DeskTyped'
    <2>1. lapsed' \in BOOLEAN /\ reloads' \in Nat
      BY <1>1
    <2> QED
      BY <1>1, <1>3, <1>5, <1>6, <2>1 DEF DeskInv, DeskTyped
<1>8. Desk!LogIsTrue' /\ InFlight'
    BY <1>1, <1>5 DEF DeskInv, DeskTyped, Desk!LogIsTrue, InFlight
<1> QED
    BY <1>1, <1>7, <1>8 DEF DeskInv

LEMMA EffectTyped == ASSUME DeskInv, NEW c \in DeskCalls, calls[c].kind \in Kinds PROVE Desk!Effect(c) \in EngineRecord
<1>1. engine \in EngineRecord /\ calls[c].rules \in Rules
    BY DEF DeskInv, DeskTyped, DeskCall
<1>2. engine.rules \in Rules /\ engine.pending.rules \in Rules /\ engine.pending \in [queued : BOOLEAN, rules : Rules]
    BY <1>1 DEF EngineRecord
<1>3. CASE calls[c].kind = "save"
    BY <1>1, <1>3 DEF Desk!Effect, EngineRecord
<1>4. CASE calls[c].kind = "propose"
    BY <1>1, <1>4 DEF Desk!Effect, EngineRecord
<1>5. CASE calls[c].kind = "activate"
    BY <1>2, <1>5, NoRulesTyped DEF Desk!Effect, EngineRecord, Desk!NoQueue
<1>6. CASE calls[c].kind = "pause"
    BY <1>1, <1>2, <1>6 DEF Desk!Effect, EngineRecord, Rules
<1>7. CASE calls[c].kind = "unpause"
    BY <1>1, <1>2, <1>7 DEF Desk!Effect, EngineRecord, Rules
<1> QED
    BY <1>3, <1>4, <1>5, <1>6, <1>7 DEF Kinds

LEMMA AnswersKeepDesk ==
    ASSUME DeskInv, NEW c \in DeskCalls,
           \/ Desk!Land(c) \/ Desk!Answered(c) \/ Desk!Serve(c) \/ Desk!fetchRules(c) \/ Desk!FetchFails(c)
           \/ \E refused \in BOOLEAN : Desk!Unanswered(c, refused)
    PROVE DeskInv'
<1>1. /\ calls[c] \in DeskCall /\ CallMade(calls[c]) /\ engine \in EngineRecord /\ desk \in [Admins -> DeskRecord] /\ lapsed \in BOOLEAN
      /\ Desk!LogIsTrue /\ calls \in [DeskCalls -> DeskCall]
    BY DEF DeskInv, DeskTyped
<1>2. calls[c].phase \in {"sent", "fetch", "served", "unheard"}
    BY DEF Desk!Land, Desk!Answered, Desk!Serve, Desk!fetchRules, Desk!FetchFails, Desk!Unanswered
<1>3. calls[c].admin \in Admins /\ calls[c].kind \in Kinds /\ engine.rules \in Rules
    BY <1>1, <1>2 DEF CallMade, EngineRecord
<1>4. c \in log => calls[c].landed
    BY <1>1 DEF Desk!LogIsTrue
<1>5. PICK o \in Admins : o = calls[c].admin
    BY <1>3
<1>6. desk[o] \in DeskRecord /\ desk[o].form \in Rules
    BY <1>1 DEF DeskRecord
<1>7. CASE Desk!Land(c)
    <2>0. PICK d : d = [calls[c] EXCEPT !.landed = TRUE]
      OBVIOUS
    <2>1. /\ calls[c].phase \in {"sent", "unheard"} /\ ~calls[c].landed /\ engine' = Desk!Effect(c) /\ calls' = [calls EXCEPT ![c] = d]
          /\ UNCHANGED <<desk, registry, log, lapsed, reloads>>
      BY <1>1, <1>7, <2>0 DEF Desk!Land
    <2>2. d \in DeskCall /\ CallMade(d) /\ d.landed = TRUE /\ d.phase = calls[c].phase /\ d.admin = o /\ d.kind = calls[c].kind
      BY <1>1, <1>5, <2>0, <2>1 DEF DeskCall, CallMade
    <2>3. engine' \in EngineRecord
      BY <1>3, <2>1, EffectTyped
    <2>4. Steps(c, d)
      BY <1>1, <1>2, <1>5, <2>1, <2>2, <2>3 DEF Steps
    <2>5. RunsNow(calls[c]) /\ DuringCall(calls[c], o) => RunsNow(d) /\ DuringCall(d, o)'
      <3>1. calls[c].kind = "propose" => engine'.rules = engine.rules
        BY <1>1, <2>1 DEF Desk!Effect, EngineRecord
      <3> QED
        BY <2>1, <2>2, <3>1 DEF DuringCall, RunsNow
    <2> QED
      BY <1>5, <2>2, <2>4, <2>5, CallKeeps
<1>8. CASE Desk!Answered(c)
    <2>0. PICK d : d = IF Desk!Refetches(calls[c].kind) THEN [calls[c] EXCEPT !.phase = "fetch"] ELSE Desk!Ended(c)
      OBVIOUS
    <2>1. /\ calls[c].phase = "sent" /\ calls[c].landed /\ calls' = [calls EXCEPT ![c] = d]
          /\ registry' = [registry EXCEPT ![calls[c].admin] = @ \ {calls[c].kind}]
          /\ log' = Desk!Recorded(c) /\ desk' = Desk!Shown(calls[c].admin, calls[c].kind)
          /\ UNCHANGED <<engine, lapsed, reloads>>
      BY <1>1, <1>8, <2>0 DEF Desk!Answered, Desk!resolveAction
    <2>2. d \in DeskCall /\ CallMade(d) /\ d.landed = TRUE /\ d.admin = o /\ d.phase \in {"fetch", "done"}
      <3>1. CASE Desk!Refetches(calls[c].kind)
        BY <1>1, <1>5, <2>0, <2>1, <3>1 DEF DeskCall, CallMade
      <3>2. CASE ~Desk!Refetches(calls[c].kind)
        BY <1>5, <2>0, <2>1, <3>2, EndedIs
      <3> QED
        BY <3>1, <3>2
    <2>3. d.phase = "done" => calls[c].kind = "propose"
      BY <1>1, <1>3, <2>0 DEF Desk!Refetches, Kinds, DeskCall
    <2>4. /\ desk' \in [Admins -> DeskRecord] /\ desk'[o].form = desk[o].form /\ desk'[o].dialog = desk[o].dialog
          /\ \A p \in Admins : p # o => desk'[p] = desk[p]
      <3> DEFINE isPaused == IF calls[c].kind \in {"pause", "unpause"} THEN calls[c].kind = "pause" ELSE desk[o].isPaused
                 pending == IF calls[c].kind = "activate" THEN FALSE ELSE IF calls[c].kind = "propose" THEN engine.pending.queued ELSE desk[o].pending
                 r == [desk[o] EXCEPT !.isPaused = isPaused, !.pending = pending]
      <3>1. desk' = [desk EXCEPT ![o] = r]
        BY <1>1, <1>5, <2>1 DEF Desk!Shown
      <3>2. isPaused \in BOOLEAN
        BY <1>6 DEF DeskRecord
      <3>3. pending \in BOOLEAN
        BY <1>1, <1>6 DEF DeskRecord, EngineRecord
      <3> HIDE DEF isPaused, pending
      <3>4. r \in DeskRecord /\ r.form = desk[o].form /\ r.dialog = desk[o].dialog
        BY <1>6, <3>2, <3>3 DEF DeskRecord
      <3> QED
        BY <1>1, <3>1, <3>4
    <2>5. Steps(c, d)
      <3>1. log' \in {log, log \cup {c}}
        BY <2>1 DEF Desk!Recorded
      <3> QED
        BY <1>1, <1>2, <1>5, <2>1, <2>2, <2>4, <3>1 DEF Steps
    <2>6. DuringCall(calls[c], o) => IF RunsNow(d) THEN DuringCall(d, o)' ELSE AtRest(o)'
      BY <2>1, <2>2, <2>3, <2>4 DEF DuringCall, RunsNow, AtRest
    <2> QED
      BY <1>5, <2>2, <2>5, <2>6, CallKeeps
<1>9. CASE Desk!Serve(c)
    <2>0. PICK d : d = [calls[c] EXCEPT !.phase = "served", !.got = engine.rules]
      OBVIOUS
    <2>1. calls[c].phase = "fetch" /\ calls' = [calls EXCEPT ![c] = d] /\ UNCHANGED <<engine, desk, registry, log, lapsed, reloads>>
      BY <1>1, <1>9, <2>0 DEF Desk!Serve
    <2>2. d \in DeskCall /\ CallMade(d) /\ d.landed = calls[c].landed /\ d.phase = "served" /\ d.admin = o /\ d.got = engine.rules
      BY <1>1, <1>3, <1>5, <2>0, <2>1 DEF DeskCall, CallMade
    <2>3. Steps(c, d)
      BY <1>1, <1>2, <1>4, <1>5, <2>1, <2>2 DEF Steps
    <2>4. DuringCall(calls[c], o) => RunsNow(d) /\ DuringCall(d, o)'
      BY <2>1, <2>2 DEF DuringCall, RunsNow
    <2> QED
      BY <1>5, <2>2, <2>3, <2>4, CallKeeps
<1>10. CASE Desk!fetchRules(c)
    <2> DEFINE r == [desk[o] EXCEPT !.form = calls[c].got, !.isPaused = calls[c].got.paused]
    <2>1. /\ calls[c].phase = "served" /\ calls' = [calls EXCEPT ![c] = Desk!Ended(c)] /\ UNCHANGED <<engine, registry, log, lapsed, reloads>>
          /\ desk' = [desk EXCEPT ![o] = r]
      BY <1>1, <1>5, <1>10 DEF Desk!fetchRules
    <2>2. r \in DeskRecord /\ r.form = calls[c].got /\ r.dialog = desk[o].dialog
      BY <1>1, <1>6 DEF DeskRecord, DeskCall, Rules
    <2> HIDE DEF r
    <2>3. Steps(c, Desk!Ended(c))
      <3>1. desk' \in [Admins -> DeskRecord] /\ \A p \in Admins : p # o => desk'[p] = desk[p]
        BY <1>1, <2>1, <2>2
      <3> QED
        BY <1>1, <1>2, <1>4, <1>5, <2>1, <3>1, EndedIs DEF Steps
    <2>4. DuringCall(calls[c], o) => AtRest(o)'
      BY <1>1, <2>1, <2>2 DEF DuringCall, AtRest
    <2> QED
      BY <1>5, <2>3, <2>4, EndedIs, CallKeeps DEF RunsNow
<1>11. CASE Desk!FetchFails(c)
    <2>1. calls[c].phase = "fetch" /\ calls' = [calls EXCEPT ![c] = Desk!Ended(c)] /\ lapsed' = TRUE /\ UNCHANGED <<engine, desk, registry, log, reloads>>
      BY <1>11 DEF Desk!FetchFails
    <2>2. Steps(c, Desk!Ended(c))
      BY <1>1, <1>2, <1>4, <1>5, <2>1, EndedIs DEF Steps
    <2> QED
      BY <2>1, <2>2, CallKeeps
<1>12. ASSUME NEW refused \in BOOLEAN, Desk!Unanswered(c, refused) PROVE DeskInv'
    <2>0. PICK d : d = IF refused THEN Desk!Ended(c) ELSE [calls[c] EXCEPT !.phase = "unheard"]
      OBVIOUS
    <2>1. /\ calls[c].phase = "sent" /\ (refused => ~calls[c].landed) /\ calls' = [calls EXCEPT ![c] = d]
          /\ registry' = [registry EXCEPT ![calls[c].admin] = @ \ {calls[c].kind}]
          /\ lapsed' = (lapsed \/ ~refused) /\ UNCHANGED <<engine, desk, log, reloads>>
      BY <1>1, <1>12, <2>0 DEF Desk!Unanswered, Desk!resolveAction
    <2>2. /\ d \in DeskCall /\ CallMade(d) /\ d.landed = calls[c].landed /\ d.admin = o
          /\ d.phase \in {"unheard", "done"} /\ (refused <=> d.phase = "done")
      <3>1. CASE refused
        BY <1>5, <2>0, <2>1, <3>1, EndedIs
      <3>2. CASE ~refused
        BY <1>1, <1>3, <1>5, <2>0, <2>1, <3>2 DEF DeskCall, CallMade
      <3> QED
        BY <3>1, <3>2
    <2>3. lapsed' \in BOOLEAN /\ (lapsed => lapsed') /\ (~refused => lapsed')
      BY <1>1, <2>1
    <2>4. Steps(c, d)
      BY <1>1, <1>2, <1>4, <1>5, <2>1, <2>2, <2>3 DEF Steps
    <2>5. ~lapsed' /\ DuringCall(calls[c], o) => ~RunsNow(d) /\ AtRest(o)'
      BY <2>1, <2>2, <2>3 DEF DuringCall, RunsNow, AtRest
    <2> QED
      BY <1>5, <2>2, <2>4, <2>5, CallKeeps
<1> QED
    BY <1>7, <1>8, <1>9, <1>10, <1>11, <1>12

LEMMA DeskStep == DeskInv /\ [Desk!Next]_Desk!deskVars => DeskInv'
<1> SUFFICES ASSUME DeskInv, [Desk!Next]_Desk!deskVars PROVE DeskInv'
    OBVIOUS
<1>1. \A o \in Admins : desk[o] \in DeskRecord /\ desk[o].form \in Rules
    BY DEF DeskInv, DeskTyped, DeskRecord
<1>2. ASSUME NEW o \in Admins, NEW limit \in Limits, Desk!Edit(o, limit) PROVE DeskInv'
    <2> DEFINE filled == [desk[o].form EXCEPT !.limit = limit]
               r == [desk[o] EXCEPT !.form = filled]
    <2>1. desk[o].dialog = Desk!None /\ desk' = [desk EXCEPT ![o] = r] /\ UNCHANGED <<engine, calls, registry, log, lapsed, reloads>>
      BY <1>2 DEF Desk!Edit, DeskInv, DeskTyped
    <2>2. filled \in Rules /\ filled.paused = desk[o].form.paused
      BY <1>1 DEF Rules
    <2> HIDE DEF filled
    <2>3. r \in DeskRecord /\ r.form = filled /\ r.dialog = Desk!None
      BY <1>1, <2>1, <2>2 DEF DeskRecord
    <2> HIDE DEF r
    <2>4. lapsed' \in BOOLEAN /\ (lapsed => lapsed')
      BY <2>1 DEF DeskInv, DeskTyped
    <2> QED
      BY <2>1, <2>2, <2>3, <2>4, FormKeeps
<1>3. ASSUME NEW o \in Admins, NEW kind \in Kinds, Desk!Open(o, kind) PROVE DeskInv'
    <2> DEFINE r == [desk[o] EXCEPT !.dialog = kind, !.rules = desk[o].form]
    <2>1. /\ desk' = [desk EXCEPT ![o] = r] /\ UNCHANGED <<engine, calls, registry, log, reloads>>
          /\ lapsed' = (lapsed \/ \E c \in DeskCalls : Desk!Running(c))
      BY <1>3 DEF Desk!Open, DeskInv, DeskTyped
    <2>2. r \in DeskRecord /\ r.form = desk[o].form /\ r.rules = desk[o].form
      BY <1>1 DEF DeskRecord
    <2> HIDE DEF r
    <2>3. lapsed' \in BOOLEAN /\ (lapsed => lapsed') /\ (~lapsed' => \A c \in DeskCalls : ~RunsNow(calls[c]))
      BY <2>1 DEF DeskInv, DeskTyped, Desk!Running, RunsNow
    <2> QED
      BY <2>1, <2>2, <2>3, FormKeeps
<1>4. ASSUME NEW o \in Admins, Desk!Cancel(o) PROVE DeskInv'
    <2> DEFINE r == [desk[o] EXCEPT !.dialog = Desk!None, !.rules = Desk!NoRules]
    <2>1. desk' = [desk EXCEPT ![o] = r] /\ UNCHANGED <<engine, calls, registry, log, lapsed, reloads>>
      BY <1>4 DEF Desk!Cancel, DeskInv, DeskTyped
    <2>2. r \in DeskRecord /\ r.form = desk[o].form /\ r.dialog = Desk!None
      BY <1>1, NoRulesTyped DEF DeskRecord
    <2> HIDE DEF r
    <2>3. lapsed' \in BOOLEAN /\ (lapsed => lapsed')
      BY <2>1 DEF DeskInv, DeskTyped
    <2> QED
      BY <2>1, <2>2, <2>3, FormKeeps
<1>5. ASSUME NEW o \in Admins,
             (\E c \in DeskCalls : Desk!Confirm(o, c)) \/ (\E fetched \in BOOLEAN : Desk!Reload(o, fetched))
      PROVE DeskInv'
    BY <1>5, ConfirmKeeps, ReloadKeeps
<1>6. ASSUME NEW c \in DeskCalls,
             \/ Desk!Land(c) \/ Desk!Answered(c) \/ Desk!Serve(c) \/ Desk!fetchRules(c) \/ Desk!FetchFails(c)
             \/ \E refused \in BOOLEAN : Desk!Unanswered(c, refused)
      PROVE DeskInv'
    BY <1>6, AnswersKeepDesk
<1>7. CASE UNCHANGED Desk!deskVars
    <2>1. UNCHANGED <<engine, desk, calls, registry, log, lapsed, reloads>>
      BY <1>7 DEF Desk!deskVars
    <2>2. DeskTyped' /\ Desk!LogIsTrue' /\ InFlight'
      BY <2>1 DEF DeskInv, DeskTyped, Desk!LogIsTrue, InFlight
    <2>3. \A o \in Admins : (WorksAlone(o)' <=> WorksAlone(o)) /\ (Orderly(o) => Orderly(o)')
      BY <2>1 DEF WorksAlone, Orderly, DuringCall, AtRest
    <2> QED
      BY <2>1, <2>2, <2>3 DEF DeskInv
<1> QED
    BY <1>2, <1>3, <1>4, <1>5, <1>6, <1>7 DEF Desk!Next, Kinds

\* A pause that ends with the landing of a save, at an administrator alone, was spoiled.
LEMMA SaveKeeps ==
    DeskInv /\ [Desk!Next]_Desk!deskVars =>
      [engine.rules.paused /\ ~engine'.rules.paused /\ Desk!Alone /\ ~lapsed => ~Desk!LandsNow("save")]_<<engine, calls>>
<1> SUFFICES ASSUME DeskInv, [Desk!Next]_Desk!deskVars, Desk!Alone, ~lapsed, Desk!LandsNow("save")
             PROVE engine'.rules.paused = engine.rules.paused
    OBVIOUS
<1>1. PICK c \in DeskCalls : calls'[c].landed /\ ~calls[c].landed /\ calls[c].kind = "save"
    BY DEF Desk!LandsNow
<1>2. PICK o \in Admins : WorksAlone(o)
    BY DEF Desk!Alone, WorksAlone
<1>3. Orderly(o)
    BY <1>2 DEF DeskInv
<1>4. calls \in [DeskCalls -> DeskCall] /\ calls[c] \in DeskCall
    BY DEF DeskInv, DeskTyped
<1>5. calls'[c] # calls[c] /\ calls'[c] # Desk!Ended(c) /\ ~(calls'[c].landed = calls[c].landed) /\ calls # calls'
    BY <1>1, EndedIs
<1>6. ASSUME NEW e \in DeskCalls, Desk!Land(e) PROVE engine'.rules.paused = engine.rules.paused
    <2>1. e = c
      BY <1>4, <1>5, <1>6 DEF Desk!Land
    <2>2. calls[c].phase = "sent" /\ ~calls[c].landed /\ engine' = [engine EXCEPT !.rules = calls[c].rules]
      BY <1>1, <1>3, <1>6, <2>1 DEF Desk!Land, Desk!Effect, Orderly
    <2>3. calls[c].rules.paused = engine.rules.paused
      BY <1>1, <1>3, <2>2 DEF Orderly, DuringCall, RunsNow
    <2>4. engine'.rules = calls[c].rules
      BY <2>2 DEF DeskInv, DeskTyped, EngineRecord
    <2> QED
      BY <2>3, <2>4
<1>7. ASSUME NEW o1 \in Admins, NEW e \in DeskCalls, Desk!Confirm(o1, e) PROVE FALSE
    <2>1. e = c
      BY <1>4, <1>5, <1>7 DEF Desk!Confirm
    <2> QED
      BY <1>1, <1>4, <1>7, <2>1, FreeTyped DEF Desk!Confirm, Desk!Free, Desk!None
<1>8. ASSUME NEW o1 \in Admins, NEW fetched \in BOOLEAN, Desk!Reload(o1, fetched) PROVE FALSE
    <2>1. calls'[c] = [calls[c] EXCEPT !.phase = "unheard"]
      BY <1>5, <1>8 DEF Desk!Reload
    <2> QED
      BY <1>4, <1>5, <2>1 DEF DeskCall
<1>9. ASSUME NEW e \in DeskCalls, Desk!Answered(e) \/ Desk!Serve(e) \/ Desk!fetchRules(e) \/ Desk!FetchFails(e) PROVE FALSE
    <2>1. e = c
      BY <1>4, <1>5, <1>9 DEF Desk!Answered, Desk!Serve, Desk!fetchRules, Desk!FetchFails
    <2>2. CASE Desk!Answered(e)
      BY <1>4, <1>5, <2>1, <2>2 DEF Desk!Answered, DeskCall
    <2>3. CASE Desk!Serve(e)
      BY <1>4, <1>5, <2>1, <2>3 DEF Desk!Serve, DeskCall
    <2>4. CASE Desk!fetchRules(e) \/ Desk!FetchFails(e)
      BY <1>4, <1>5, <2>1, <2>4 DEF Desk!fetchRules, Desk!FetchFails
    <2> QED
      BY <1>9, <2>2, <2>3, <2>4
<1>10. ASSUME NEW e \in DeskCalls, NEW refused \in BOOLEAN, Desk!Unanswered(e, refused) PROVE FALSE
    <2>1. e = c
      BY <1>4, <1>5, <1>10 DEF Desk!Unanswered
    <2> QED
      BY <1>4, <1>5, <1>10, <2>1 DEF Desk!Unanswered, DeskCall
<1>11. ASSUME NEW o1 \in Admins,
              (\E limit \in Limits : Desk!Edit(o1, limit)) \/ (\E kind \in Kinds : Desk!Open(o1, kind)) \/ Desk!Cancel(o1)
       PROVE FALSE
    BY <1>5, <1>11 DEF Desk!Edit, Desk!Open, Desk!Cancel
<1> QED
    BY <1>5, <1>6, <1>7, <1>8, <1>9, <1>10, <1>11 DEF Desk!Next, Kinds, Desk!deskVars

\* The log of the admin page holds what landed, nothing is left in flight, and an administrator who works alone does not
\* unpause the engine by saving its rules (AdminPage.tsx, GovernanceLog.tsx, conflictDetection.ts).
THEOREM DeskHolds == Desk!Spec => DeskSound
<1>1. DeskInv => Desk!LogIsTrue /\ Desk!NothingLeftInFlight
    <2> SUFFICES ASSUME DeskInv, reloads = 0, NEW o \in Admins, registry[o] # {} PROVE Desk!Switching(o)
      BY DEF DeskInv, Desk!NothingLeftInFlight
    <2>1. PICK k \in registry[o] : k \in {"pause", "unpause"}
      BY DEF DeskInv, DeskTyped
    <2> QED
      BY <2>1 DEF DeskInv, InFlight, Desk!Switching, Desk!Of, Desk!Running
<1>2. DeskInv /\ [Desk!Next]_Desk!deskVars => [engine.rules.paused /\ ~engine'.rules.paused /\ Desk!Alone /\ ~lapsed => ~Desk!LandsNow("save")]_<<engine, calls>>
    BY SaveKeeps
<1> QED
    BY <1>1, <1>2, DeskBegins, DeskStep, PTL DEF Desk!Spec, DeskSound, Desk!DeskSound, Desk!SaveKeepsPause

----------------------------------------------------------------------------
(* The pages of the assets (AssetPages) *)

CallFields == {"h", "by", "amount", "then", "loads", "phase", "landed", "got"}

Dialogs == [h : {"cmint", "ctransfer", "retire", "batch"}, by : Accounts, amount : Int]

LedgerTyped(held) == DOMAIN held = Pages!Facts /\ DOMAIN held["pending"] = Accounts /\ held["paused"] \in {0, 1}

PagesTyped ==
    /\ page \in {"invoice", "property", "carbon", "batch"} /\ address \in Accounts
    /\ LedgerTyped(ledger) /\ DOMAIN view = Pages!Facts
    /\ form \in Int /\ batch \in Int
    /\ dialog = Pages!NoDialog \/ dialog \in Dialogs
    /\ DOMAIN writes = PageSlots
    /\ \A s \in PageSlots : DOMAIN writes[s] = CallFields /\ writes[s].landed \in BOOLEAN /\ writes[s].loads \subseteq Pages!Facts
    /\ spoiled \in BOOLEAN

\* A call was shown before it was made, unless it only reads.
CallAgreed(c, seen) ==
    /\ c.phase = "free" => ~c.landed
    /\ c.phase # "free" /\ c.h # "load" => [h |-> c.h, by |-> c.by, amount |-> c.amount] \in seen
    /\ c.h = "load" => c.phase \in {"load", "served", "done"} /\ ~c.landed

\* What a ledger holds for an account.
HeldIn(held, f, who) == IF f = "pending" THEN held["pending"][who] ELSE held[f]

\* What a call will change is loaded again, or is what the page will set.
Foreseen(c) ==
    \A f \in Pages!Opening(page) \ c.loads :
       HeldIn(Pages!Changed(c.h, c.by, c.amount), f, address) = IF f \in DOMAIN c.then THEN c.then[f] ELSE HeldIn(ledger, f, address)

Exact(f) == view[f] = HeldIn(ledger, f, address)

\* How the page compares with the ledger while one call runs.
RunsTrue(c) ==
    /\ page = "property" => c.by = address
    /\ c.phase \in {"sign", "sent"} /\ ~c.landed => Foreseen(c) /\ \A f \in Pages!Opening(page) : Exact(f)
    /\ c.phase = "sign" => ~c.landed
    /\ c.phase = "sent" /\ c.landed =>
         \A f \in Pages!Opening(page) \ c.loads : (IF f \in DOMAIN c.then THEN c.then[f] ELSE view[f]) = HeldIn(ledger, f, address)
    /\ c.phase = "load" => \A f \in Pages!Opening(page) \ c.loads : Exact(f)
    /\ c.phase = "served" =>
         /\ DOMAIN c.got = c.loads
         /\ \A f \in Pages!Opening(page) : (IF f \in c.loads THEN c.got[f] ELSE view[f]) = HeldIn(ledger, f, address)

Ongoing(c) == c.phase \in {"sign", "sent", "load", "served"}

QuietTrue ==
    /\ \A s, t \in PageSlots : Ongoing(writes[s]) /\ Ongoing(writes[t]) => s = t
    /\ \A s \in PageSlots : writes[s].phase # "unheard"
    /\ \A s \in PageSlots : Ongoing(writes[s]) => RunsTrue(writes[s])
    /\ (\A s \in PageSlots : ~Ongoing(writes[s])) => \A f \in Pages!Opening(page) : Exact(f)

\* The strengthening of PagesHonest: until something disturbs it, a page runs one call at a time and shows the ledger
\* but for what that call loads again or sets.
PagesInv == PagesTyped /\ (\A s \in PageSlots : CallAgreed(writes[s], agreed)) /\ (~spoiled => QuietTrue)

LEMMA PagesBegin == Pages!Init => PagesInv
<1> SUFFICES ASSUME Pages!Init PROVE PagesInv
    OBVIOUS
<1>1. \A s \in PageSlots : writes[s] = Pages!NoCall
    BY DEF Pages!Init
<1>2. PagesTyped
    <2>1. \A s \in PageSlots : DOMAIN writes[s] = CallFields /\ writes[s].landed \in BOOLEAN /\ writes[s].loads \subseteq Pages!Facts
      <3>1. DOMAIN Pages!NoCall = CallFields /\ Pages!NoCall.landed \in BOOLEAN /\ Pages!NoCall.loads \subseteq Pages!Facts
        BY DEF Pages!NoCall, CallFields
      <3> QED
        BY <1>1, <3>1
    <2>2. LedgerTyped(ledger)
      <3>1. {"pending", "paused"} \subseteq Pages!Facts
        BY DEF Pages!Facts
      <3> QED
        BY <3>1 DEF Pages!Init, LedgerTyped
    <2>3. page \in {"invoice", "property", "carbon", "batch"} /\ address \in Accounts /\ DOMAIN view = Pages!Facts /\ DOMAIN writes = PageSlots
      BY DEF Pages!Init
    <2>4. form \in Int /\ batch \in Int /\ dialog = Pages!NoDialog /\ spoiled \in BOOLEAN
      <3>1. form = 0 /\ batch = 0 /\ dialog = Pages!NoDialog /\ spoiled = FALSE
        BY DEF Pages!Init
      <3>2. spoiled \in BOOLEAN
        BY Zenon, <3>1
      <3>3. form \in Int /\ batch \in Int
        BY <3>1
      <3> QED
        BY <3>1, <3>2, <3>3
    <2> QED
      BY <2>1, <2>2, <2>3, <2>4 DEF PagesTyped
<1>4. Pages!NoCall.phase = "free" /\ Pages!NoCall.landed = FALSE /\ Pages!NoCall.h = Pages!None /\ Pages!None # "load"
    BY DEF Pages!NoCall, Pages!None
<1>3. \A f \in Pages!Opening(page) : Exact(f)
    BY DEF Pages!Init, Exact, HeldIn, Pages!Opening, Pages!Facts
<1> QED
    BY <1>1, <1>2, <1>3, <1>4 DEF Pages!Init, PagesInv, CallAgreed, QuietTrue, Ongoing

\* A step on the form, the dialog or the batch.
LEMMA PageIdle ==
    ASSUME PagesInv, UNCHANGED <<page, address, ledger, view, writes, agreed, spoiled>>,
           form' \in Int, batch' \in Int, dialog' = Pages!NoDialog \/ dialog' \in Dialogs
    PROVE PagesInv'
<1>1. PagesTyped'
    BY DEF PagesInv, PagesTyped
<1>2. \A h, by, n : Pages!Changed(h, by, n)' = Pages!Changed(h, by, n)
    BY DEF Pages!Changed
<1>3. QuietTrue => QuietTrue'
    BY <1>2 DEF QuietTrue, RunsTrue, Foreseen, Exact
<1> QED
    BY <1>1, <1>3 DEF PagesInv

\* A step that replaces one call.
LEMMA OneWrite ==
    ASSUME PagesInv, NEW s \in PageSlots, NEW c, writes' = [writes EXCEPT ![s] = c],
           DOMAIN c = CallFields, c.landed \in BOOLEAN, c.loads \subseteq Pages!Facts,
           UNCHANGED page, address' \in Accounts, LedgerTyped(ledger'), DOMAIN view' = Pages!Facts,
           form' \in Int, batch' \in Int, dialog' = Pages!NoDialog \/ dialog' \in Dialogs, spoiled' \in BOOLEAN,
           agreed \subseteq agreed', CallAgreed(c, agreed'),
           ~spoiled' => QuietTrue'
    PROVE PagesInv'
<1>1. DOMAIN writes' = PageSlots /\ \A t \in PageSlots : writes'[t] = IF t = s THEN c ELSE writes[t]
    BY DEF PagesInv, PagesTyped
<1>2. PagesTyped'
    BY <1>1 DEF PagesInv, PagesTyped
<1>3. \A t \in PageSlots : CallAgreed(writes'[t], agreed')
    BY <1>1 DEF PagesInv, CallAgreed
<1> QED
    BY <1>2, <1>3 DEF PagesInv, CallAgreed

LEMMA MakeKeeps ==
    ASSUME PagesInv, NEW s \in PageSlots, NEW h, NEW by, NEW amount, NEW then, NEW wanted,
           Pages!Make(s, h, by, amount, then, wanted), wanted \subseteq Pages!Facts,
           UNCHANGED <<page, ledger, view>>, address' \in Accounts, form' \in Int, batch' \in Int,
           dialog' = Pages!NoDialog \/ dialog' \in Dialogs, agreed \subseteq agreed',
           h # "load" => [h |-> h, by |-> by, amount |-> amount] \in agreed',
           page = "property" => by = address',
           h # "load" /\ (\A f \in Pages!Opening(page) : Exact(f)) =>
              /\ address' = address
              /\ \A f \in Pages!Opening(page) \ wanted :
                   HeldIn(Pages!Changed(h, by, amount), f, address) = IF f \in DOMAIN then THEN then[f] ELSE HeldIn(ledger, f, address),
           h = "load" => \A f \in Pages!Opening(page) \ wanted : HeldIn(ledger, f, address') = HeldIn(ledger, f, address)
    PROVE PagesInv'
<1> DEFINE phase == IF h = "load" THEN "load" ELSE "sign"
           c == [Pages!NoCall EXCEPT !.h = h, !.by = by, !.amount = amount, !.then = then, !.loads = wanted, !.phase = phase]
<1>1. writes' = [writes EXCEPT ![s] = c] /\ writes[s] = Pages!NoCall /\ (spoiled' <=> (spoiled \/ \E t \in PageSlots : Pages!Running(t))) /\ spoiled' \in BOOLEAN
    BY DEF Pages!Make, PagesInv, PagesTyped
<1>2. /\ DOMAIN c = CallFields /\ c.h = h /\ c.by = by /\ c.amount = amount /\ c.then = then /\ c.loads = wanted /\ c.phase = phase
      /\ c.landed = FALSE
    BY DEF Pages!NoCall, CallFields
<1> HIDE DEF c
<1>3. CallAgreed(c, agreed')
    BY <1>2 DEF CallAgreed
<1>4. ASSUME ~spoiled' PROVE QuietTrue'
    <2>1. QuietTrue /\ \A t \in PageSlots : ~Ongoing(writes[t])
      BY <1>1, <1>4 DEF PagesInv, PagesTyped, Pages!Running, Ongoing
    <2>2. \A f \in Pages!Opening(page) : Exact(f)
      BY <2>1 DEF QuietTrue
    <2>3. \A t \in PageSlots : writes'[t] = IF t = s THEN c ELSE writes[t]
      BY <1>1 DEF PagesInv, PagesTyped
    <2>4. RunsTrue(c)'
      <3>1. CASE h = "load"
        <4>1. \A f \in Pages!Opening(page) \ wanted : Exact(f)'
          BY <2>2, <3>1 DEF Exact
        <4> QED
          BY <1>2, <3>1, <4>1 DEF RunsTrue
      <3>2. CASE h # "load"
        <4>1. address' = address /\ \A f \in Pages!Opening(page) : Exact(f)'
          BY <2>2, <3>2 DEF Exact
        <4>2. Foreseen(c)'
          <5>1. Pages!Changed(h, by, amount)' = Pages!Changed(h, by, amount)
            BY DEF Pages!Changed
          <5> QED
            BY <1>2, <2>2, <3>2, <4>1, <5>1 DEF Foreseen
        <4> QED
          BY <1>2, <3>2, <4>1, <4>2 DEF RunsTrue
      <3> QED
        BY <3>1, <3>2
    <2> QED
      BY <1>2, <2>1, <2>3, <2>4 DEF QuietTrue, Ongoing
<1> QED
    BY <1>1, <1>2, <1>3, <1>4, OneWrite DEF PagesInv, PagesTyped

\* A press makes the call of what was shown.
LEMMA PressKeeps ==
    ASSUME PagesInv, NEW s \in PageSlots, NEW h, NEW amount, NEW then, NEW wanted, h # "load", wanted \subseteq Pages!Facts,
           Pages!Press(s, h, amount, then, wanted),
           (\A f \in Pages!Opening(page) : Exact(f)) =>
              \A f \in Pages!Opening(page) \ wanted :
                 HeldIn(Pages!Changed(h, address, amount), f, address) = IF f \in DOMAIN then THEN then[f] ELSE HeldIn(ledger, f, address)
    PROVE PagesInv'
<1>1. Pages!Make(s, h, address, amount, then, wanted) /\ agreed' = agreed \cup {[h |-> h, by |-> address, amount |-> amount]}
      /\ UNCHANGED <<page, address, ledger, view, form, dialog, batch>>
    BY DEF Pages!Press
<1>2. address \in Accounts /\ form \in Int /\ batch \in Int /\ (dialog = Pages!NoDialog \/ dialog \in Dialogs)
    BY DEF PagesInv, PagesTyped
<1> QED
    BY <1>1, <1>2, MakeKeeps

LEMMA PressesKeep ==
    ASSUME PagesInv, NEW s \in PageSlots,
           \/ Pages!handleIssue(s) \/ Pages!handleSettle(s) \/ Pages!handleRedeem(s) \/ Pages!handleToggleLifecyclePause(s)
           \/ Pages!handleMint(s) \/ Pages!handleDepositDividend(s) \/ Pages!handleClaimDividend(s)
    PROVE PagesInv'
<1>1. Pages!Opening("invoice") = {"supply", "settled", "paused"} /\ Pages!Opening("property") = {"shares", "pending"} /\ Pages!Opening("invoice") \subseteq Pages!Facts
    BY DEF Pages!Opening, Pages!Facts
<1>2. DOMAIN ledger = Pages!Facts /\ DOMAIN ledger["pending"] = Accounts /\ ledger["paused"] \in {0, 1} /\ address \in Accounts
    BY DEF PagesInv, PagesTyped, LedgerTyped
<1>3. {"supply", "settled", "paused", "shares", "pending", "deposits"} \subseteq Pages!Facts
    BY DEF Pages!Facts
<1>4. CASE Pages!handleIssue(s)
    BY <1>1, <1>4, PressKeeps DEF Pages!handleIssue
<1>5. CASE Pages!handleRedeem(s)
    BY <1>1, <1>5, PressKeeps DEF Pages!handleRedeem
<1>6. CASE Pages!handleSettle(s)
    <2> DEFINE then == [f \in {"settled"} |-> 1]
    <2>1. Pages!Press(s, "settle", 0, then, {}) /\ page = "invoice"
      BY <1>6 DEF Pages!handleSettle
    <2>2. Pages!Changed("settle", address, 0) = [ledger EXCEPT !["settled"] = 1]
      BY DEF Pages!Changed
    <2>3. \A f \in Pages!Opening(page) : HeldIn(Pages!Changed("settle", address, 0), f, address) = IF f \in DOMAIN then THEN then[f] ELSE HeldIn(ledger, f, address)
      BY <1>1, <1>2, <1>3, <2>1, <2>2 DEF HeldIn
    <2> HIDE DEF then
    <2> QED
      BY <2>1, <2>3, PressKeeps
<1>7. CASE Pages!handleToggleLifecyclePause(s)
    <2> DEFINE h == IF view.paused = 1 THEN "resume" ELSE "pause"
               then == [f \in {"paused"} |-> 1 - view.paused]
    <2>1. Pages!Press(s, h, 0, then, {}) /\ page = "invoice"
      BY <1>7 DEF Pages!handleToggleLifecyclePause
    <2>2. ASSUME \A f \in Pages!Opening(page) : Exact(f)
          PROVE \A f \in Pages!Opening(page) : HeldIn(Pages!Changed(h, address, 0), f, address) = IF f \in DOMAIN then THEN then[f] ELSE HeldIn(ledger, f, address)
      <3>1. view.paused = ledger["paused"]
        BY <1>1, <2>1, <2>2 DEF Exact, HeldIn
      <3>2. Pages!Changed(h, address, 0) = [ledger EXCEPT !["paused"] = 1 - view.paused]
        <4>1. CASE view.paused = 1
          BY <4>1 DEF Pages!Changed
        <4>2. CASE view.paused = 0
          BY <4>2 DEF Pages!Changed
        <4> QED
          BY <1>2, <3>1, <4>1, <4>2
      <3> QED
        BY <1>1, <1>2, <1>3, <2>1, <3>2 DEF HeldIn
    <2>3. h # "load"
      OBVIOUS
    <2> HIDE DEF then, h
    <2> QED
      BY <2>1, <2>2, <2>3, PressKeeps
<1>8. CASE Pages!handleMint(s)
    <2>1. Pages!Press(s, "mint", form, Pages!Nothing, {"shares"}) /\ page = "property"
      BY <1>8 DEF Pages!handleMint
    <2>2. Pages!Changed("mint", address, form) = [ledger EXCEPT !["shares"] = @ + form]
      BY DEF Pages!Changed
    <2>3. HeldIn(Pages!Changed("mint", address, form), "pending", address) = HeldIn(ledger, "pending", address) /\ DOMAIN Pages!Nothing = {}
      BY <1>2, <1>3, <2>2 DEF HeldIn, Pages!Nothing
    <2> QED
      BY <1>1, <1>3, <2>1, <2>3, PressKeeps
<1>9. CASE Pages!handleDepositDividend(s)
    <2> DEFINE wanted == {"pending"} \cup (IF view.deposits = Pages!Unknown THEN {} ELSE {"deposits"})
    <2>1. Pages!Press(s, "deposit", form, Pages!Nothing, wanted) /\ page = "property" /\ wanted \subseteq Pages!Facts /\ "pending" \in wanted
      BY <1>3, <1>9 DEF Pages!handleDepositDividend
    <2>2. Pages!Changed("deposit", address, form)["shares"] = ledger["shares"]
      BY <1>2, <1>3 DEF Pages!Changed
    <2>3. HeldIn(Pages!Changed("deposit", address, form), "shares", address) = HeldIn(ledger, "shares", address) /\ DOMAIN Pages!Nothing = {}
      BY <2>2 DEF HeldIn, Pages!Nothing
    <2> HIDE DEF wanted
    <2> QED
      BY <1>1, <2>1, <2>3, PressKeeps
<1>10. CASE Pages!handleClaimDividend(s)
    <2> DEFINE then == [f \in {"pending"} |-> 0]
    <2>1. Pages!Press(s, "claim", 0, then, {}) /\ page = "property"
      BY <1>10 DEF Pages!handleClaimDividend
    <2>2. Pages!Changed("claim", address, 0)["shares"] = ledger["shares"] /\ Pages!Changed("claim", address, 0)["pending"][address] = 0
      BY <1>2, <1>3 DEF Pages!Changed
    <2>3. \A f \in Pages!Opening(page) : HeldIn(Pages!Changed("claim", address, 0), f, address) = IF f \in DOMAIN then THEN then[f] ELSE HeldIn(ledger, f, address)
      BY <1>1, <1>2, <1>3, <2>1, <2>2 DEF HeldIn
    <2> HIDE DEF then
    <2> QED
      BY <2>1, <2>3, PressKeeps
<1> QED
    BY <1>4, <1>5, <1>6, <1>7, <1>8, <1>9, <1>10

\* The reads of a page, a change of account, and the dialogs' calls.
LEMMA LooksKeep ==
    ASSUME PagesInv, NEW s \in PageSlots,
           Pages!loadDividendHistory(s) \/ Pages!loadReceipts(s) \/ (\E other \in Accounts : Pages!Switch(s, other))
    PROVE PagesInv'
<1>1. address \in Accounts /\ form \in Int /\ batch \in Int /\ (dialog = Pages!NoDialog \/ dialog \in Dialogs)
    BY DEF PagesInv, PagesTyped
<1>2. {"deposits", "receipts", "pending"} \subseteq Pages!Facts
    BY DEF Pages!Facts
<1>3. CASE Pages!loadDividendHistory(s)
    BY <1>1, <1>2, <1>3, MakeKeeps DEF Pages!loadDividendHistory, Pages!Look
<1>4. CASE Pages!loadReceipts(s)
    BY <1>1, <1>2, <1>4, MakeKeeps DEF Pages!loadReceipts, Pages!Look
<1>5. ASSUME NEW other \in Accounts, Pages!Switch(s, other) PROVE PagesInv'
    <2>1. CASE page = "property"
      <3>1. Pages!Make(s, "load", other, 0, Pages!Nothing, {"pending"}) /\ address' = other /\ UNCHANGED <<view, page, ledger, form, dialog, batch, agreed>>
        BY <1>5, <2>1 DEF Pages!Switch, Pages!Look
      <3>2. \A f \in Pages!Opening(page) \ {"pending"} : HeldIn(ledger, f, address') = HeldIn(ledger, f, address)
        BY DEF HeldIn
      <3> QED
        BY <1>1, <1>2, <1>5, <3>1, <3>2, MakeKeeps
    <2>2. CASE page # "property"
      <3>1. address' = other /\ UNCHANGED <<view, page, ledger, form, dialog, batch, agreed, writes, spoiled>>
        BY <1>5, <2>2 DEF Pages!Switch
      <3>2. "pending" \notin Pages!Opening(page)
        BY <2>2 DEF Pages!Opening
      <3>3. PagesTyped'
        BY <1>5, <3>1 DEF PagesInv, PagesTyped
      <3>4. \A f \in Pages!Opening(page) : \A held : HeldIn(held, f, address') = HeldIn(held, f, address)
        BY <3>2 DEF HeldIn
      <3>5. \A h, by, n : Pages!Changed(h, by, n)' = Pages!Changed(h, by, n)
        BY <3>1 DEF Pages!Changed
      <3>6. ASSUME NEW c, RunsTrue(c) PROVE RunsTrue(c)'
        BY <2>2, <3>1, <3>4, <3>5, <3>6 DEF RunsTrue, Foreseen, Exact
      <3>7. QuietTrue => QuietTrue'
        BY <3>1, <3>4, <3>6 DEF QuietTrue, Exact
      <3> QED
        BY <3>1, <3>3, <3>7 DEF PagesInv
    <2> QED
      BY <2>1, <2>2
<1> QED
    BY <1>3, <1>4, <1>5

LEMMA DialogsKeep ==
    ASSUME PagesInv, NEW s \in PageSlots, Pages!runConfirmed(s) \/ Pages!confirmBatch(s) PROVE PagesInv'
<1>1. address \in Accounts /\ form \in Int /\ batch \in Int /\ (dialog = Pages!NoDialog \/ dialog \in Dialogs)
    BY DEF PagesInv, PagesTyped
<1>2. dialog \in Dialogs /\ page \in {"carbon", "batch"} /\ Pages!Opening(page) = {}
    BY <1>1 DEF Pages!runConfirmed, Pages!confirmBatch, Pages!Opening
<1>3. dialog.h # "load" /\ dialog = [h |-> dialog.h, by |-> dialog.by, amount |-> dialog.amount]
    BY <1>2 DEF Dialogs
<1>4. /\ Pages!Make(s, dialog.h, dialog.by, dialog.amount, Pages!Nothing, {}) /\ agreed' = agreed \cup {dialog}
      /\ dialog' = Pages!NoDialog \/ dialog' = dialog
      /\ UNCHANGED <<page, address, ledger, view, form, batch>>
      => PagesInv'
    BY <1>1, <1>2, <1>3, MakeKeeps
<1>5. CASE Pages!confirmBatch(s)
    BY <1>4, <1>5 DEF Pages!confirmBatch, Pages!Asked
<1>6. CASE Pages!runConfirmed(s)
    <2>1. CASE dialog.amount = Fraction
      <3>1. dialog' = Pages!NoDialog /\ UNCHANGED <<writes, agreed, spoiled, page, address, ledger, view, form, batch>>
        BY <1>6, <2>1 DEF Pages!runConfirmed
      <3> QED
        BY <1>1, <3>1, PageIdle
    <2>2. CASE dialog.amount # Fraction
      BY <1>4, <1>6, <2>2 DEF Pages!runConfirmed, Pages!Asked
    <2> QED
      BY <2>1, <2>2
<1> QED
    BY <1>5, <1>6

\* The wallet, the contract and the answers: what a step does to the one call that runs.
Answers(s, phase, landed, got) ==
    /\ writes' = [writes EXCEPT ![s].phase = phase, ![s].landed = landed, ![s].got = got]
    /\ landed \in BOOLEAN /\ phase \in {"sent", "load", "served", "done", "unheard"}
    /\ writes[s].phase \in {"sign", "sent", "load", "served", "unheard"}
    /\ writes[s].h = "load" => phase \in {"load", "served", "done"} /\ ~landed
    /\ phase = "unheard" => spoiled'
    /\ UNCHANGED <<page, address, agreed>> /\ LedgerTyped(ledger') /\ DOMAIN view' = Pages!Facts
    /\ form' \in Int /\ batch' \in Int /\ (dialog' = Pages!NoDialog \/ dialog' = dialog)
    /\ spoiled' \in BOOLEAN /\ (spoiled => spoiled')

LEMMA AnswersKeep ==
    ASSUME PagesInv, NEW s \in PageSlots, NEW phase, NEW landed, NEW got, Answers(s, phase, landed, got),
           ~spoiled' /\ RunsTrue(writes[s]) =>
              IF phase = "done" THEN \A f \in Pages!Opening(page) : Exact(f)' ELSE RunsTrue(writes[s])'
    PROVE PagesInv'
<1> DEFINE c == [writes[s] EXCEPT !.phase = phase, !.landed = landed, !.got = got]
<1>0. /\ writes' = [writes EXCEPT ![s].phase = phase, ![s].landed = landed, ![s].got = got]
      /\ landed \in BOOLEAN /\ phase \in {"sent", "load", "served", "done", "unheard"}
      /\ writes[s].phase \in {"sign", "sent", "load", "served", "unheard"}
      /\ writes[s].h = "load" => phase \in {"load", "served", "done"} /\ ~landed
      /\ phase = "unheard" => spoiled'
      /\ UNCHANGED <<page, address, agreed>> /\ LedgerTyped(ledger') /\ DOMAIN view' = Pages!Facts
      /\ form' \in Int /\ batch' \in Int /\ (dialog' = Pages!NoDialog \/ dialog' = dialog)
      /\ spoiled' \in BOOLEAN /\ (spoiled => spoiled')
    BY DEF Answers
<1>1. writes' = [writes EXCEPT ![s] = c] /\ DOMAIN writes[s] = CallFields /\ writes[s].loads \subseteq Pages!Facts /\ CallAgreed(writes[s], agreed)
    BY <1>0 DEF PagesInv, PagesTyped
<1>2. /\ DOMAIN c = CallFields /\ c.phase = phase /\ c.landed = landed /\ c.got = got
      /\ c.h = writes[s].h /\ c.by = writes[s].by /\ c.amount = writes[s].amount /\ c.then = writes[s].then /\ c.loads = writes[s].loads
    BY <1>1 DEF CallFields
<1> HIDE DEF c
<1>3. CallAgreed(c, agreed')
    BY <1>0, <1>1, <1>2 DEF CallAgreed
<1>4. \A t \in PageSlots : writes'[t] = IF t = s THEN c ELSE writes[t]
    BY <1>1 DEF PagesInv, PagesTyped
<1>5. ASSUME ~spoiled' PROVE QuietTrue'
    <2>1. QuietTrue
      BY <1>0, <1>5 DEF PagesInv
    <2>2. Ongoing(writes[s]) /\ RunsTrue(writes[s]) /\ \A t \in PageSlots \ {s} : ~Ongoing(writes[t])
      BY <1>0, <2>1 DEF QuietTrue, Ongoing
    <2>3. IF phase = "done" THEN \A f \in Pages!Opening(page) : Exact(f)' ELSE RunsTrue(writes[s])'
      BY <1>5, <2>2
    <2>4. Ongoing(c) <=> phase # "done"
      BY <1>0, <1>2, <1>5 DEF Ongoing
    <2>5. \A t \in PageSlots : Ongoing(writes'[t]) => t = s
      BY <1>4, <2>2
    <2>6. \A t \in PageSlots : writes'[t].phase # "unheard"
      <3>1. \A t \in PageSlots : writes[t].phase # "unheard"
        BY <2>1 DEF QuietTrue
      <3>2. phase # "unheard"
        BY <1>0, <1>5
      <3> QED
        BY <1>2, <1>4, <3>1, <3>2
    <2>7. \A t \in PageSlots : Ongoing(writes[t])' => RunsTrue(writes[t])'
      <3>1. Ongoing(writes[s])' => RunsTrue(writes[s])'
        BY <1>4, <2>3, <2>4
      <3> QED
        BY <2>5, <3>1
    <2>8. (\A t \in PageSlots : ~Ongoing(writes[t])') => \A f \in Pages!Opening(page) : Exact(f)'
      BY <1>4, <2>3, <2>4
    <2>9. UNCHANGED page
      BY <1>0
    <2> QED
      BY <2>5, <2>6, <2>7, <2>8, <2>9 DEF QuietTrue
<1>6. dialog' = Pages!NoDialog \/ dialog' \in Dialogs
    BY <1>0 DEF PagesInv, PagesTyped
<1> QED
    BY <1>0, <1>1, <1>2, <1>3, <1>5, <1>6, OneWrite DEF PagesInv, PagesTyped

LEMMA ChangedTyped ==
    ASSUME LedgerTyped(ledger), NEW h, NEW by, NEW n PROVE LedgerTyped(Pages!Changed(h, by, n))
<1>1. {"pending", "paused"} \subseteq DOMAIN ledger
    BY DEF LedgerTyped, Pages!Facts
<1> QED
    BY <1>1 DEF LedgerTyped, Pages!Changed

LEMMA RunningKeeps ==
    ASSUME PagesInv, NEW s \in PageSlots,
           \/ Pages!Sign(s) \/ Pages!Land(s) \/ Pages!Succeed(s) \/ Pages!Serve(s)
           \/ \E b \in BOOLEAN : Pages!Failed(s, b) \/ Pages!Arrive(s, b)
    PROVE PagesInv'
<1>1. PICK c : c = writes[s]
    OBVIOUS
<1>2. PICK d : d = writes'[s]
    OBVIOUS
<1>3. /\ DOMAIN c = CallFields /\ c.landed \in BOOLEAN /\ CallAgreed(c, agreed) /\ address \in Accounts
      /\ form \in Int /\ batch \in Int /\ LedgerTyped(ledger) /\ DOMAIN view = Pages!Facts /\ spoiled \in BOOLEAN /\ DOMAIN writes = PageSlots
      /\ ~spoiled => c.phase # "unheard"
    BY <1>1 DEF PagesInv, PagesTyped, QuietTrue
<1>4. \A f \in Pages!Opening(page) : f \in Pages!Facts
    BY DEF Pages!Opening, Pages!Facts
<1>5. CASE Pages!Sign(s)
    <2>1. /\ c.phase = "sign" /\ UNCHANGED <<page, address, ledger, view, form, dialog, batch, agreed, spoiled>>
          /\ writes' = [writes EXCEPT ![s].phase = "sent", ![s].landed = c.landed, ![s].got = c.got]
      BY <1>1, <1>3, <1>5 DEF Pages!Sign, CallFields
    <2>2. d.phase = "sent" /\ d.landed = c.landed /\ d.h = c.h /\ d.by = c.by /\ d.amount = c.amount /\ d.then = c.then /\ d.loads = c.loads
      BY <1>1, <1>2, <1>3, <2>1 DEF CallFields
    <2>3. \A h, by, n : Pages!Changed(h, by, n)' = Pages!Changed(h, by, n)
      BY <2>1 DEF Pages!Changed
    <2>4. RunsTrue(c) => RunsTrue(d)'
      BY <2>1, <2>2, <2>3 DEF RunsTrue, Foreseen, Exact
    <2>5. Answers(s, "sent", c.landed, c.got)
      BY <1>1, <1>3, <2>1 DEF Answers, CallAgreed
    <2> QED
      BY <1>1, <1>2, <2>4, <2>5, AnswersKeep
<1>6. CASE Pages!Land(s)
    <2>1. /\ c.phase \in {"sent", "unheard"} /\ ~c.landed /\ UNCHANGED <<page, address, view, form, dialog, batch, agreed, spoiled>>
          /\ ledger' = Pages!Changed(c.h, c.by, c.amount)
          /\ writes' = [writes EXCEPT ![s].phase = c.phase, ![s].landed = TRUE, ![s].got = c.got]
      BY <1>1, <1>3, <1>6 DEF Pages!Land, CallFields
    <2>2. d.phase = c.phase /\ d.landed = TRUE /\ d.by = c.by /\ d.then = c.then /\ d.loads = c.loads
      BY <1>1, <1>2, <1>3, <2>1 DEF CallFields
    <2>3. LedgerTyped(ledger')
      BY <1>3, <2>1, ChangedTyped
    <2>4. ~spoiled' /\ RunsTrue(c) => RunsTrue(d)'
      BY <1>3, <2>1, <2>2 DEF RunsTrue, Foreseen, Exact
    <2>5. Answers(s, c.phase, TRUE, c.got) /\ c.phase # "done"
      BY <1>1, <1>3, <2>1, <2>3 DEF Answers, CallAgreed
    <2> QED
      BY <1>1, <1>2, <2>4, <2>5, AnswersKeep
<1>7. CASE Pages!Succeed(s)
    <2> DEFINE phase == IF c.loads = {} THEN "done" ELSE "load"
    <2>1. /\ c.phase = "sent" /\ c.landed /\ UNCHANGED <<page, address, ledger, agreed, spoiled>>
          /\ view' = [f \in Pages!Facts |-> IF f \in DOMAIN c.then THEN c.then[f] ELSE view[f]]
          /\ form' \in {form, 0} /\ dialog' \in {Pages!NoDialog, dialog} /\ batch' \in {batch, 0}
          /\ writes' = [writes EXCEPT ![s].phase = phase, ![s].landed = TRUE, ![s].got = c.got]
      BY <1>1, <1>3, <1>7 DEF Pages!Succeed, CallFields, Pages!Kept, Pages!Reloads
    <2>2. d.phase = phase /\ d.by = c.by /\ d.then = c.then /\ d.loads = c.loads
      BY <1>1, <1>2, <1>3, <2>1 DEF CallFields
    <2>3. ~spoiled' /\ RunsTrue(c) => \A f \in Pages!Opening(page) \ c.loads : Exact(f)'
      BY <1>4, <2>1 DEF RunsTrue, Exact
    <2>4. ~spoiled' /\ RunsTrue(c) => IF phase = "done" THEN \A f \in Pages!Opening(page) : Exact(f)' ELSE RunsTrue(d)'
      BY <2>1, <2>2, <2>3 DEF RunsTrue
    <2>5. c.h # "load" /\ phase \in {"load", "done"}
      BY <1>3, <2>1 DEF CallAgreed
    <2>6. form' \in Int /\ batch' \in Int /\ DOMAIN view' = Pages!Facts /\ (dialog' = Pages!NoDialog \/ dialog' = dialog)
      <3>1. DOMAIN view' = Pages!Facts
        BY <2>1
      <3> HIDE DEF phase
      <3> QED
        BY <1>3, <2>1, <3>1
    <2> HIDE DEF phase
    <2>7. Answers(s, phase, TRUE, c.got)
      BY <1>1, <1>3, <2>1, <2>5, <2>6 DEF Answers
    <2> QED
      BY <1>1, <1>2, <2>4, <2>7, AnswersKeep
<1>8. CASE Pages!Serve(s)
    <2> DEFINE got == [f \in c.loads |-> IF f = "pending" THEN ledger.pending[c.by] ELSE ledger[f]]
    <2>1. /\ c.phase = "load" /\ UNCHANGED <<page, address, ledger, view, form, dialog, batch, agreed, spoiled>>
          /\ writes' = [writes EXCEPT ![s].phase = "served", ![s].landed = c.landed, ![s].got = got]
      BY <1>1, <1>3, <1>8 DEF Pages!Serve, CallFields
    <2>2. d.phase = "served" /\ d.by = c.by /\ d.loads = c.loads /\ d.got = got
      BY <1>1, <1>2, <1>3, <2>1 DEF CallFields
    <2>3. page # "property" => "pending" \notin Pages!Opening(page)
      BY DEF Pages!Opening
    <2>4. RunsTrue(c) => RunsTrue(d)'
      BY <2>1, <2>2, <2>3 DEF RunsTrue, Exact, HeldIn
    <2> HIDE DEF got
    <2>5. Answers(s, "served", c.landed, got)
      BY <1>1, <1>3, <2>1 DEF Answers, CallAgreed
    <2> QED
      BY <1>1, <1>2, <2>4, <2>5, AnswersKeep
<1>9. ASSUME NEW b \in BOOLEAN, Pages!Failed(s, b) PROVE PagesInv'
    <2> DEFINE phase == IF b \/ c.phase = "sign" THEN "done" ELSE "unheard"
    <2>1. /\ c.phase \in {"sign", "sent"} /\ (b => ~c.landed) /\ (spoiled' <=> spoiled \/ ~b) /\ spoiled' \in BOOLEAN
          /\ UNCHANGED <<page, address, ledger, view, form, batch, agreed>> /\ dialog' \in {Pages!NoDialog, dialog}
          /\ writes' = [writes EXCEPT ![s].phase = phase, ![s].landed = c.landed, ![s].got = c.got]
      BY <1>1, <1>3, <1>9 DEF Pages!Failed, CallFields
    <2>2. ~spoiled' /\ RunsTrue(c) => phase = "done" /\ \A f \in Pages!Opening(page) : Exact(f)'
      BY <2>1 DEF RunsTrue, Exact
    <2>3. phase \in {"done", "unheard"} /\ (phase = "unheard" => spoiled') /\ c.h # "load" /\ (spoiled => spoiled')
      BY <1>3, <2>1 DEF CallAgreed
    <2> HIDE DEF phase
    <2>4. Answers(s, phase, c.landed, c.got)
      BY <1>1, <1>3, <2>1, <2>3 DEF Answers
    <2> QED
      BY <1>1, <1>2, <2>2, <2>4, AnswersKeep
<1>10. ASSUME NEW b \in BOOLEAN, Pages!Arrive(s, b) PROVE PagesInv'
    <2>1. /\ c.phase = "served" /\ (spoiled' <=> spoiled \/ b) /\ spoiled' \in BOOLEAN /\ DOMAIN view' = Pages!Facts
          /\ UNCHANGED <<page, address, ledger, form, dialog, batch, agreed>>
          /\ ~b => \A f \in Pages!Facts : view'[f] = IF f \in DOMAIN c.got THEN c.got[f] ELSE view[f]
          /\ writes' = [writes EXCEPT ![s].phase = "done", ![s].landed = c.landed, ![s].got = c.got]
      <3>1. /\ c.phase = "served" /\ UNCHANGED <<page, address, ledger, form, dialog, batch, agreed>>
            /\ spoiled' = (spoiled \/ b) /\ writes' = [writes EXCEPT ![s].phase = "done"]
        BY <1>1, <1>10 DEF Pages!Arrive
      <3>2. view' = [f \in Pages!Facts |-> IF f \notin DOMAIN c.got THEN view[f] ELSE IF ~b THEN c.got[f] ELSE IF f = "pending" THEN 0 ELSE view[f]]
        BY <1>1, <1>10 DEF Pages!Arrive
      <3>3. writes' = [writes EXCEPT ![s].phase = "done", ![s].landed = c.landed, ![s].got = c.got]
        BY <1>1, <1>3, <3>1 DEF CallFields
      <3>4. DOMAIN view' = Pages!Facts /\ (~b => \A f \in Pages!Facts : view'[f] = IF f \in DOMAIN c.got THEN c.got[f] ELSE view[f])
        BY <3>2
      <3>5. (spoiled' <=> spoiled \/ b) /\ spoiled' \in BOOLEAN
        BY <3>1
      <3> QED
        BY <3>1, <3>3, <3>4, <3>5
    <2>2. ~spoiled' /\ RunsTrue(c) => \A f \in Pages!Opening(page) : Exact(f)'
      BY <1>4, <2>1 DEF RunsTrue, Exact
    <2>3. c.h = "load" => ~c.landed
      BY <1>3 DEF CallAgreed
    <2>4. Answers(s, "done", c.landed, c.got)
      BY <1>1, <1>3, <2>1, <2>3 DEF Answers
    <2> QED
      BY <1>1, <2>2, <2>4, AnswersKeep
<1> QED
    BY <1>5, <1>6, <1>7, <1>8, <1>9, <1>10

LEMMA PagesStep == PagesInv /\ [Pages!Next]_Pages!pageVars => PagesInv'
<1> SUFFICES ASSUME PagesInv, [Pages!Next]_Pages!pageVars PROVE PagesInv'
    OBVIOUS
<1>1. address \in Accounts /\ form \in Int /\ batch \in Int /\ (dialog = Pages!NoDialog \/ dialog \in Dialogs)
    BY DEF PagesInv, PagesTyped
<1>2. ASSUME NEW amount \in {1, Fraction}, Pages!Type(amount) PROVE PagesInv'
    BY <1>1, <1>2, FractionIsInt, PageIdle DEF Pages!Type
<1>3. ASSUME NEW h \in {"cmint", "ctransfer", "retire"}, Pages!handleCarbon(h) PROVE PagesInv'
    BY <1>1, <1>3, PageIdle DEF Pages!handleCarbon, Pages!Ask, Dialogs
<1>4. CASE Pages!Cancel
    BY <1>1, <1>4, PageIdle DEF Pages!Cancel
<1>5. CASE Pages!handleAddOp
    BY <1>1, <1>5, PageIdle DEF Pages!handleAddOp
<1>6. CASE Pages!handleRemove
    BY <1>1, <1>6, PageIdle DEF Pages!handleRemove
<1>7. CASE Pages!handleExecute
    BY <1>1, <1>7, PageIdle DEF Pages!handleExecute, Pages!Ask, Dialogs
<1>8. ASSUME NEW s \in PageSlots,
             \/ Pages!handleIssue(s) \/ Pages!handleSettle(s) \/ Pages!handleRedeem(s) \/ Pages!handleToggleLifecyclePause(s)
             \/ Pages!handleMint(s) \/ Pages!handleDepositDividend(s) \/ Pages!handleClaimDividend(s) \/ Pages!loadDividendHistory(s)
             \/ (\E other \in Accounts : Pages!Switch(s, other))
             \/ Pages!runConfirmed(s) \/ Pages!loadReceipts(s) \/ Pages!confirmBatch(s)
             \/ Pages!Sign(s) \/ Pages!Land(s) \/ Pages!Succeed(s) \/ Pages!Serve(s)
             \/ \E b \in BOOLEAN : Pages!Failed(s, b) \/ Pages!Arrive(s, b)
      PROVE PagesInv'
    BY <1>8, PressesKeep, LooksKeep, DialogsKeep, RunningKeeps
<1>9. CASE UNCHANGED Pages!pageVars
    BY <1>1, <1>9, PageIdle DEF Pages!pageVars
<1> QED
    BY <1>2, <1>3, <1>4, <1>5, <1>6, <1>7, <1>8, <1>9 DEF Pages!Next

\* What lands is what was agreed to, and a page at rest that nothing disturbed shows the ledger
\* (InvoicePage.tsx, PropertyPage.tsx, CarbonPage.tsx, BatchPage.tsx).
THEOREM PagesShow == Pages!Spec => []PagesHonest
<1>1. PagesInv => Pages!PagesHonest
    <2> SUFFICES ASSUME PagesInv PROVE Pages!PagesHonest
      OBVIOUS
    <2>1. Pages!LandsAsAgreed
      BY DEF PagesInv, Pages!LandsAsAgreed, CallAgreed
    <2>2. Pages!QuietPageExact
      BY DEF PagesInv, Pages!QuietPageExact, QuietTrue, Exact, Pages!Held, HeldIn, Pages!Running, Ongoing
    <2> QED
      BY <2>1, <2>2 DEF Pages!PagesHonest
<1> QED
    BY <1>1, PagesBegin, PagesStep, PTL DEF Pages!Spec, PagesHonest

----------------------------------------------------------------------------
(* Snapshots and restorations (PolicyBackup) *)

Entries == [pair : Backup!Pairs, amount : FileAmounts]

Configs == [rules : FileAmounts, risk : FileAmounts, policies : Seq(Entries)]

Policies == [rules : FileAmounts, policies : [Backup!Pairs -> FileAmounts], risk : FileAmounts]

Snapshots == [config : Configs, was : Policies, clean : BOOLEAN]

Reads == {"rules", "risk"} \cup Backup!Sampled

Captures == [on : BOOLEAN, got : UNION {[Q -> FileAmounts] : Q \in SUBSET Reads}, was : Policies, clean : BOOLEAN]

Applications == [phase : {"idle", "sent", "threw", "lost", "refused", "done"}, config : Configs, step : Nat, landed : BOOLEAN, base : Policies]

BackupTyped ==
    /\ policy \in Policies /\ saved \in Seq(Snapshots) /\ capture \in Captures /\ imported \in Configs
    /\ apply \in Applications /\ alone \in BOOLEAN

\* Amounts that no conversion takes come from files only, and their check stops them.
NoText ==
    /\ \A p \in Backup!Pairs : policy.policies[p] # "text"
    /\ \A q \in Backup!Sampled \cap DOMAIN capture.got : capture.got[q] # "text"
    /\ \A i \in DOMAIN saved : Backup!PoliciesConvert(saved[i].config)
    /\ Backup!PoliciesConvert(imported) /\ Backup!PoliciesConvert(apply.config)

ReadOf(q, given) == IF q \in Backup!Sampled THEN given.policies[q] ELSE given[q]

\* What an undisturbed snapshot has read so far is what the engine held, and holds.
CaptureTrue == capture.on /\ capture.clean => policy = capture.was /\ \A q \in DOMAIN capture.got : capture.got[q] = ReadOf(q, policy)

\* What the first writes make of a policy.
OverlayIs(base, planned, o) == o = [k \in 0..Len(planned) |-> IF k = 0 THEN base ELSE Backup!Written(o[k - 1], planned[k])]

OverlayOf(base, planned) == CHOOSE o : OverlayIs(base, planned, o)

ApplyTrue ==
    /\ apply.phase \in {"sent", "lost", "refused", "done"} => apply.step \in 1..Len(Backup!Writes(apply.config))
    /\ alone /\ apply.phase \in {"sent", "lost", "refused", "done"} =>
         policy = OverlayOf(apply.base, Backup!Writes(apply.config))[IF apply.landed THEN apply.step ELSE apply.step - 1]
    /\ alone /\ apply.phase = "threw" => policy = apply.base

\* The strengthening of BackupSound: what a snapshot has read is what the engine holds, and a restoration has made of
\* the policy exactly what its first writes make of it.
BackupInv == BackupTyped /\ NoText /\ CaptureTrue /\ Backup!SnapshotExact /\ ApplyTrue

LEMMA GridIs ==
    /\ Len(Grid) \in Nat \ {0} /\ DOMAIN Grid = 1..Len(Grid) /\ \A i \in 1..Len(Grid) : Grid[i] \in Backup!Sampled /\ Grid[i] \in Backup!Pairs
    /\ Backup!Sampled \subseteq Backup!Pairs /\ "rules" \notin Backup!Pairs /\ "risk" \notin Backup!Pairs
BY GridIsGiven DEF Backup!Sampled, Backup!Pairs

LEMMA NoneIs == Backup!None \in FileAmounts /\ Backup!None # "text" /\ {"zero", "one", "two"} \subseteq FileAmounts /\ "zero" # "text" /\ "two" # "text" /\ "one" # "text"
BY DEF Backup!None, FileAmounts

LEMMA NoConfigIs == Backup!NoConfig \in Configs /\ Backup!PoliciesConvert(Backup!NoConfig)
BY NoneIs DEF Backup!NoConfig, Configs, Backup!PoliciesConvert

LEMMA NoPolicyIs == Backup!NoPolicy \in Policies /\ \A p \in Backup!Pairs : Backup!NoPolicy.policies[p] # "text"
BY NoneIs DEF Backup!NoPolicy, Policies

LEMMA UntakenIs == Backup!Untaken \in Captures /\ ~Backup!Untaken.on /\ DOMAIN Backup!Untaken.got = {}
<1>1. [q \in {} |-> Backup!None] \in UNION {[Q -> FileAmounts] : Q \in SUBSET Reads}
    OBVIOUS
<1> QED
    BY <1>1, NoPolicyIs DEF Backup!Untaken, Captures

LEMMA UnappliedIs == Backup!Unapplied \in Applications /\ Backup!Unapplied.phase = "idle" /\ Backup!PoliciesConvert(Backup!Unapplied.config)
BY NoConfigIs, NoPolicyIs DEF Backup!Unapplied, Applications

LEMMA BackupBegins == Backup!Init => BackupInv
<1> SUFFICES ASSUME Backup!Init PROVE BackupInv
    OBVIOUS
<1>1. saved = <<>> /\ policy = Backup!NoPolicy /\ capture = Backup!Untaken /\ imported = Backup!NoConfig /\ apply = Backup!Unapplied /\ alone = FALSE
    BY DEF Backup!Init
<1>2. BackupTyped
    <2>1. alone \in BOOLEAN
      BY <1>1
    <2>2. saved \in Seq(Snapshots)
      BY <1>1
    <2> QED
      BY <1>1, <2>1, <2>2, NoPolicyIs, UntakenIs, NoConfigIs, UnappliedIs DEF BackupTyped
<1>3. NoText
    BY <1>1, NoPolicyIs, UntakenIs, NoConfigIs, UnappliedIs DEF NoText
<1>4. CaptureTrue /\ ApplyTrue
    BY <1>1, UntakenIs, UnappliedIs DEF CaptureTrue, ApplyTrue
<1>5. Backup!SnapshotExact
    BY <1>1 DEF Backup!SnapshotExact
<1> QED
    BY <1>2, <1>3, <1>4, <1>5 DEF BackupInv

\* The calls that write a configuration.
WriteRecords == [what : {"rules", "risk"} \cup Backup!Pairs, value : FileAmounts]

LEMMA ConcatIs ==
    ASSUME NEW S, NEW a \in Seq(S), NEW b \in Seq(S)
    PROVE  /\ a \o b \in Seq(S) /\ Len(a \o b) = Len(a) + Len(b)
           /\ \A i \in 1..(Len(a) + Len(b)) : (a \o b)[i] = IF i <= Len(a) THEN a[i] ELSE b[i - Len(a)]
OBVIOUS

LEMMA WritesAre ==
    ASSUME NEW config \in Configs
    PROVE  /\ Backup!Writes(config) \in Seq(WriteRecords) /\ Len(Backup!Writes(config)) \in Nat \ {0}
           /\ Backup!Writes(config)[1].what = "rules"
           /\ Backup!PoliciesConvert(config) => \A k \in 1..Len(Backup!Writes(config)) : Backup!Writes(config)[k].what \in Backup!Pairs => Backup!Writes(config)[k].value # "text"
<1> DEFINE n == Len(config.policies)
           first == <<[what |-> "rules", value |-> config.rules]>>
           body == [i \in DOMAIN config.policies |-> [what |-> config.policies[i].pair, value |-> config.policies[i].amount]]
           last == IF config.risk = Backup!None THEN <<>> ELSE <<[what |-> "risk", value |-> config.risk]>>
<1>1. config.rules \in FileAmounts /\ config.risk \in FileAmounts /\ config.policies \in Seq(Entries)
    BY DEF Configs
<1>2. n \in Nat /\ DOMAIN config.policies = 1..n /\ \A i \in 1..n : config.policies[i].pair \in Backup!Pairs /\ config.policies[i].amount \in FileAmounts
    <2>1. n \in Nat /\ DOMAIN config.policies = 1..n /\ \A i \in 1..n : config.policies[i] \in Entries
      BY <1>1
    <2> QED
      BY <2>1 DEF Entries
<1>3. first \in Seq(WriteRecords) /\ Len(first) = 1 /\ first[1].what = "rules"
    BY <1>1 DEF WriteRecords
<1>4. body \in Seq(WriteRecords) /\ Len(body) = n /\ \A i \in 1..n : body[i].what \in Backup!Pairs /\ body[i].value = config.policies[i].amount
    BY <1>2 DEF WriteRecords
<1>5. last \in Seq(WriteRecords) /\ Len(last) \in {0, 1} /\ (Len(last) = 1 => last[1].what = "risk")
    <2>1. [what |-> "risk", value |-> config.risk] \in WriteRecords
      BY <1>1 DEF WriteRecords
    <2>2. CASE config.risk = Backup!None
      <3>1. last = <<>>
        BY <2>2
      <3> QED
        BY <3>1
    <2>3. CASE config.risk # Backup!None
      <3> DEFINE w == [what |-> "risk", value |-> config.risk]
      <3>1. last = <<w>> /\ w \in WriteRecords /\ w.what = "risk"
        BY <2>1, <2>3
      <3> HIDE DEF last, w
      <3> QED
        BY <3>1
    <2> QED
      BY <2>2, <2>3
<1>6. Backup!Writes(config) = first \o body \o last
    BY DEF Backup!Writes
<1> HIDE DEF first, body, last, n
<1>7. Backup!Writes(config) \in Seq(WriteRecords) /\ Len(Backup!Writes(config)) = 1 + n + Len(last)
    <2>1. first \o body \in Seq(WriteRecords) /\ Len(first \o body) = 1 + n
      BY <1>2, <1>3, <1>4, ConcatIs
    <2> DEFINE both == first \o body
    <2> HIDE DEF both
    <2>2. both \in Seq(WriteRecords) /\ Len(both) = 1 + n /\ Backup!Writes(config) = both \o last
      BY <1>6, <2>1 DEF both
    <2> QED
      BY <1>5, <2>2, ConcatIs
<1>8. \A k \in 1..Len(Backup!Writes(config)) :
         Backup!Writes(config)[k] = IF k = 1 THEN first[1] ELSE IF k <= 1 + n THEN body[k - 1] ELSE last[1]
    <2>0. Len(first) + Len(body) = 1 + n
      BY <1>3, <1>4
    <2>1. /\ first \o body \in Seq(WriteRecords) /\ Len(first \o body) = 1 + n
          /\ \A k \in 1..(1 + n) : (first \o body)[k] = IF k <= 1 THEN first[k] ELSE body[k - 1]
      <3>1. \A k \in 1..(Len(first) + Len(body)) : (first \o body)[k] = IF k <= Len(first) THEN first[k] ELSE body[k - Len(first)]
        BY <1>3, <1>4, ConcatIs
      <3>2. first \o body \in Seq(WriteRecords) /\ Len(first \o body) = Len(first) + Len(body)
        BY <1>3, <1>4, ConcatIs
      <3> QED
        BY <1>3, <2>0, <3>1, <3>2
    <2>2. \A k \in 1..(1 + n + Len(last)) : Backup!Writes(config)[k] = IF k <= 1 + n THEN (first \o body)[k] ELSE last[k - (1 + n)]
      BY <1>2, <1>5, <1>6, <2>1, ConcatIs
    <2>3. ASSUME NEW k \in 1..Len(Backup!Writes(config)) PROVE Backup!Writes(config)[k] = IF k = 1 THEN first[1] ELSE IF k <= 1 + n THEN body[k - 1] ELSE last[1]
      <3>1. CASE k <= 1 + n
        <4>1. k \in 1..(1 + n) /\ (k <= 1 <=> k = 1)
          BY <1>2, <2>3, <3>1, <1>7
        <4> QED
          BY <1>7, <2>1, <2>2, <2>3, <3>1, <4>1
      <3>2. CASE k > 1 + n
        <4>1. k \in Int /\ k <= 1 + n + Len(last) /\ Len(last) <= 1 /\ Len(last) \in Nat
          <5>1. PICK m \in {0, 1} : m = Len(last)
            BY <1>5
          <5>2. k \in 1..(1 + n + m)
            BY <1>7, <2>3, <5>1
          <5>3. k \in Int /\ k <= 1 + n + m /\ m <= 1 /\ m \in Nat
            <6>1. n \in Nat /\ m \in {0, 1}
              BY <1>2, <5>1
            <6> QED
              BY <5>2, <6>1
          <5> QED
            BY <5>1, <5>3
        <4>3. k = 2 + n
          BY <1>2, <3>2, <4>1
        <4>2. k - (1 + n) = 1 /\ k # 1 /\ ~(k <= 1 + n)
          BY <1>2, <4>3
        <4> QED
          BY <1>7, <2>2, <2>3, <4>2
      <3> QED
        BY <1>2, <1>7, <2>3, <3>1, <3>2
    <2> QED
      BY <2>3
<1>9. Backup!PoliciesConvert(config) => \A i \in 1..n : config.policies[i].amount # "text"
    BY <1>2 DEF Backup!PoliciesConvert
<1>10. ASSUME Backup!PoliciesConvert(config), NEW k \in 1..Len(Backup!Writes(config)), Backup!Writes(config)[k].what \in Backup!Pairs PROVE Backup!Writes(config)[k].value # "text"
    <2>1. k # 1 /\ ~(k > 1 + n)
      BY <1>2, <1>3, <1>5, <1>7, <1>8, <1>10, GridIs
    <2>2. k - 1 \in 1..n /\ Backup!Writes(config)[k] = body[k - 1]
      BY <1>2, <1>5, <1>7, <1>8, <2>1
    <2> QED
      BY <1>4, <1>9, <1>10, <2>2
<1> QED
    BY <1>2, <1>3, <1>5, <1>7, <1>8, <1>10

LEMMA WrittenIs ==
    ASSUME NEW given \in Policies, NEW w \in WriteRecords
    PROVE  /\ Backup!Written(given, w) \in Policies
           /\ (\A p \in Backup!Pairs : given.policies[p] # "text") /\ (w.what \in Backup!Pairs => w.value # "text") =>
                \A p \in Backup!Pairs : Backup!Written(given, w).policies[p] # "text"
<1>1. w.what \in {"rules", "risk"} \cup Backup!Pairs /\ w.value \in FileAmounts /\ given.policies \in [Backup!Pairs -> FileAmounts]
    BY DEF WriteRecords, Policies
<1>2. CASE w.what = "rules"
    BY <1>1, <1>2, GridIs DEF Backup!Written, Policies
<1>3. CASE w.what = "risk"
    BY <1>1, <1>3, GridIs DEF Backup!Written, Policies
<1>4. CASE w.what \in Backup!Pairs
    <2> DEFINE held == [given.policies EXCEPT ![w.what] = w.value]
    <2>1. held \in [Backup!Pairs -> FileAmounts] /\ \A p \in Backup!Pairs : held[p] = IF p = w.what THEN w.value ELSE given.policies[p]
      BY <1>1, <1>4
    <2>2. Backup!Written(given, w) = [given EXCEPT !.policies = held]
      BY <1>4, GridIs DEF Backup!Written, Policies
    <2> HIDE DEF held
    <2>3. Backup!Written(given, w) \in Policies /\ Backup!Written(given, w).policies = held
      BY <2>1, <2>2 DEF Policies
    <2> QED
      BY <1>4, <2>1, <2>3
<1> QED
    BY <1>1, <1>2, <1>3, <1>4

LEMMA OverlaySteps ==
    ASSUME NEW base \in Policies, NEW planned \in Seq(WriteRecords)
    PROVE  /\ OverlayOf(base, planned)[0] = base
           /\ \A k \in 1..Len(planned) : OverlayOf(base, planned)[k] = Backup!Written(OverlayOf(base, planned)[k - 1], planned[k])
<1> DEFINE n == Len(planned)
           step == [i \in 1..n |-> [v \in Policies |-> Backup!Written(v, planned[i])]]
<1>1. n \in Nat /\ \A i \in 1..n : planned[i] \in WriteRecords
    OBVIOUS
<1>2. \A i \in 1..n, v \in Policies : Backup!Written(v, planned[i]) \in Policies
    BY <1>1, WrittenIs
<1>3. step \in [1..n -> [Policies -> Policies]] /\ \A i \in 1..n, v \in Policies : step[i][v] = Backup!Written(v, planned[i])
    BY <1>2
<1> HIDE DEF step
<1>4. PICK f : f \in [0..n -> Policies] /\ f[0] = base /\ \A i \in 1..n : f[i] = step[i][f[i - 1]]
    <2>1. \E f : Runs(f, Policies, base, n, step)
      BY <1>1, <1>3, Recursion
    <2> QED
      BY <2>1 DEF Runs
<1>5. ASSUME NEW i \in 1..n PROVE f[i] = Backup!Written(f[i - 1], planned[i])
    <2>1. f[i - 1] \in Policies
      BY <1>1, <1>4
    <2> QED
      BY <1>3, <1>4, <2>1
<1>6. f = [k \in 0..n |-> IF k = 0 THEN base ELSE Backup!Written(f[k - 1], planned[k])]
    <2>1. ASSUME NEW k \in 0..n PROVE f[k] = IF k = 0 THEN base ELSE Backup!Written(f[k - 1], planned[k])
      BY <1>1, <1>4, <1>5
    <2> QED
      BY <1>4, <2>1
<1>7. OverlayIs(base, planned, OverlayOf(base, planned))
    BY <1>6 DEF OverlayIs, OverlayOf
<1> DEFINE o == OverlayOf(base, planned)
<1> HIDE DEF o
<1>8. o = [k \in 0..n |-> IF k = 0 THEN base ELSE Backup!Written(o[k - 1], planned[k])]
    BY <1>7 DEF OverlayIs, o
<1>9. o[0] = base /\ \A k \in 1..n : o[k] = Backup!Written(o[k - 1], planned[k])
    <2>1. 0 \in 0..n /\ \A i \in 1..n : i \in 0..n /\ i # 0
        BY <1>1
    <2> HIDE DEF n
    <2> QED
        BY <1>8, <2>1
<1> QED
    BY <1>9 DEF o

\* The entries of a snapshot, pair by pair.
KeptUpTo(got) == CHOOSE f :
    f = [n \in 0..Len(Grid) |-> IF n = 0 THEN <<>> ELSE IF got[Grid[n]] = Backup!None THEN f[n - 1] ELSE Append(f[n - 1], Backup!Entry(Grid[n], got[Grid[n]]))]

LEMMA KeptIs == ASSUME NEW got PROVE Backup!Kept(got) = KeptUpTo(got)[Len(Grid)]
BY DEF Backup!Kept, KeptUpTo

LEMMA KeptSteps ==
    ASSUME NEW got, \A p \in Backup!Sampled : got[p] \in FileAmounts
    PROVE  /\ KeptUpTo(got)[0] = <<>>
           /\ \A n \in 1..Len(Grid) :
                 KeptUpTo(got)[n] = IF got[Grid[n]] = Backup!None THEN KeptUpTo(got)[n - 1]
                                    ELSE Append(KeptUpTo(got)[n - 1], Backup!Entry(Grid[n], got[Grid[n]]))
<1> DEFINE n == Len(Grid)
           D == Seq(Entries)
           chosen(i, v) == IF got[Grid[i]] = Backup!None THEN v ELSE Append(v, Backup!Entry(Grid[i], got[Grid[i]]))
           step == [i \in 1..n |-> [v \in D |-> chosen(i, v)]]
<1>1. n \in Nat
    BY GridIs
<1>2. \A i \in 1..n : Backup!Entry(Grid[i], got[Grid[i]]) \in Entries
    BY GridIs DEF Backup!Entry, Entries
<1>3. \A i \in 1..n, v \in D : chosen(i, v) \in D
    BY <1>2
<1> HIDE DEF chosen, D
<1>4. step \in [1..n -> [D -> D]] /\ \A i \in 1..n, v \in D : step[i][v] = chosen(i, v)
    BY <1>3
<1> HIDE DEF step
<1>5. <<>> \in D
    BY DEF D
<1>6. PICK f : f \in [0..n -> D] /\ f[0] = <<>> /\ \A i \in 1..n : f[i] = step[i][f[i - 1]]
    <2> DEFINE first == <<>>
    <2>1. first \in D
      BY <1>5
    <2> HIDE DEF first, n
    <2>2. \E f : Runs(f, D, first, n, step)
      BY <1>1, <1>4, <2>1, Recursion
    <2> QED
      BY <2>2 DEF Runs, first
<1>7. ASSUME NEW i \in 1..n PROVE f[i] = chosen(i, f[i - 1])
    <2>1. f[i - 1] \in D
      BY <1>1, <1>6
    <2> QED
      BY <1>4, <1>6, <2>1
<1>8. f = [i \in 0..n |-> IF i = 0 THEN <<>> ELSE chosen(i, f[i - 1])]
    <2>1. ASSUME NEW i \in 0..n PROVE f[i] = IF i = 0 THEN <<>> ELSE chosen(i, f[i - 1])
      BY <1>1, <1>6, <1>7
    <2> QED
      BY <1>6, <2>1
<1>9. KeptUpTo(got) = [i \in 0..n |-> IF i = 0 THEN <<>> ELSE chosen(i, KeptUpTo(got)[i - 1])]
    BY <1>8 DEF KeptUpTo, chosen
<1> DEFINE o == KeptUpTo(got)
<1> HIDE DEF o
<1>10. o = [i \in 0..n |-> IF i = 0 THEN <<>> ELSE chosen(i, o[i - 1])]
    BY <1>9 DEF o
<1>11. o[0] = <<>> /\ \A i \in 1..n : o[i] = chosen(i, o[i - 1])
    <2>1. 0 \in 0..n /\ \A i \in 1..n : i \in 0..n /\ i # 0
        BY <1>1
    <2> HIDE DEF n
    <2> QED
        BY <1>10, <2>1
<1> QED
    BY <1>11 DEF o, chosen

\* A snapshot has an entry for each pair that was found to have a policy, and no other.
LEMMA KeptAre ==
    ASSUME NEW got, \A p \in Backup!Sampled : got[p] \in FileAmounts
    PROVE  /\ Backup!Kept(got) \in Seq(Entries)
           /\ \A i \in DOMAIN Backup!Kept(got) : \E j \in 1..Len(Grid) : got[Grid[j]] # Backup!None /\ Backup!Kept(got)[i] = Backup!Entry(Grid[j], got[Grid[j]])
           /\ \A j \in 1..Len(Grid) : got[Grid[j]] # Backup!None => \E i \in DOMAIN Backup!Kept(got) : Backup!Kept(got)[i] = Backup!Entry(Grid[j], got[Grid[j]])
<1> DEFINE n == Len(Grid)
           f == KeptUpTo(got)
           E(j) == Backup!Entry(Grid[j], got[Grid[j]])
           Upto(m, s) ==
             /\ s \in Seq(Entries)
             /\ \A i \in DOMAIN s : \E j \in 1..m : got[Grid[j]] # Backup!None /\ s[i] = E(j)
             /\ \A j \in 1..m : got[Grid[j]] # Backup!None => \E i \in DOMAIN s : s[i] = E(j)
           N == {m \in Nat : m <= n => Upto(m, f[m])}
<1>1. n \in Nat
    BY GridIs
<1>2. \A j \in 1..n : E(j) \in Entries
    BY GridIs DEF Backup!Entry, Entries
<1>3. f[0] = <<>> /\ \A m \in 1..n : f[m] = IF got[Grid[m]] = Backup!None THEN f[m - 1] ELSE Append(f[m - 1], E(m))
    BY KeptSteps
<1> HIDE DEF f, E, n
<1>4. 0 \in N
    <2>1. Upto(0, f[0])
      <3> DEFINE s == f[0]
      <3>1. s = <<>>
        BY <1>3
      <3> HIDE DEF s
      <3>2. s \in Seq(Entries) /\ DOMAIN s = {}
        BY <3>1
      <3>3. Upto(0, s)
        BY <3>2
      <3> QED
        BY <3>3 DEF s
    <2> HIDE DEF Upto
    <2> QED
      BY <2>1
<1>5. ASSUME NEW m \in Nat, m \in N PROVE m + 1 \in N
    <2> SUFFICES ASSUME m + 1 <= n PROVE Upto(m + 1, f[m + 1])
      OBVIOUS
    <2>1. Upto(m, f[m]) /\ m + 1 \in 1..n /\ (m + 1) - 1 = m
      BY <1>1, <1>5
    <2>2. f[m + 1] = IF got[Grid[m + 1]] = Backup!None THEN f[m] ELSE Append(f[m], E(m + 1))
      BY <1>3, <2>1
    <2>3. \A j \in 1..(m + 1) : j \in 1..m \/ j = m + 1
      OBVIOUS
    <2>4. CASE got[Grid[m + 1]] = Backup!None
      BY <2>1, <2>2, <2>3, <2>4
    <2>5. CASE got[Grid[m + 1]] # Backup!None
      <3> DEFINE s == f[m]
                 t == f[m + 1]
                 e == E(m + 1)
      <3>1. s \in Seq(Entries) /\ e \in Entries /\ t = Append(s, e)
        BY <1>2, <2>1, <2>2, <2>5
      <3>2. \A i \in DOMAIN s : \E j \in 1..m : got[Grid[j]] # Backup!None /\ s[i] = E(j)
        BY <2>1
      <3>3. \A j \in 1..m : got[Grid[j]] # Backup!None => \E i \in DOMAIN s : s[i] = E(j)
        BY <2>1
      <3> HIDE DEF s, t, e
      <3>4. t \in Seq(Entries) /\ DOMAIN t = 1..(Len(s) + 1) /\ Len(s) \in Nat /\ DOMAIN s = 1..Len(s)
            /\ (\A i \in DOMAIN s : t[i] = s[i]) /\ t[Len(s) + 1] = e
        BY <3>1
      <3>5. e = E(m + 1)
        BY DEF e
      <3>6. \A i \in DOMAIN t : i \in DOMAIN s \/ i = Len(s) + 1
        BY <3>4
      <3>7. \A i \in DOMAIN t : \E j \in 1..(m + 1) : got[Grid[j]] # Backup!None /\ t[i] = E(j)
        <4>1. ASSUME NEW i \in DOMAIN s PROVE \E j \in 1..(m + 1) : got[Grid[j]] # Backup!None /\ t[i] = E(j)
          <5>1. PICK j \in 1..m : got[Grid[j]] # Backup!None /\ s[i] = E(j)
            BY <3>2
          <5>2. j \in 1..(m + 1)
            OBVIOUS
          <5> QED
            BY <3>4, <5>1, <5>2
        <4>2. m + 1 \in 1..(m + 1)
          OBVIOUS
        <4> QED
          BY <2>5, <3>4, <3>5, <3>6, <4>1, <4>2
      <3>8. \A j \in 1..(m + 1) : got[Grid[j]] # Backup!None => \E i \in DOMAIN t : t[i] = E(j)
        <4>1. ASSUME NEW j \in 1..m, got[Grid[j]] # Backup!None PROVE \E i \in DOMAIN t : t[i] = E(j)
          <5>1. PICK i \in DOMAIN s : s[i] = E(j)
            BY <3>3, <4>1
          <5>2. i \in DOMAIN t
            BY <3>4
          <5> QED
            BY <3>4, <5>1, <5>2
        <4>2. Len(s) + 1 \in DOMAIN t
          BY <3>4
        <4> QED
          BY <2>3, <3>4, <3>5, <4>1, <4>2
      <3> QED
        BY <3>4, <3>7, <3>8 DEF t
    <2> QED
      BY <2>4, <2>5
<1>6. Nat \subseteq N
    <2> HIDE DEF N
    <2> QED
      BY <1>4, <1>5, Induction
<1>7. Upto(n, f[n])
    <2> HIDE DEF Upto
    <2> QED
      BY <1>1, <1>6
<1>8. Backup!Kept(got) = f[n]
    BY KeptIs DEF f, n
<1> QED
    BY <1>7, <1>8 DEF E, n

LEMMA TemplatesAre == ASSUME NEW config \in Backup!POLICY_TEMPLATES PROVE config \in Configs /\ Backup!PoliciesConvert(config)
<1>1. Grid[Len(Grid)] \in Backup!Pairs /\ Wildcard \in Backup!Pairs
    BY GridIs DEF Backup!Pairs
<1>2. Backup!Entry(Wildcard, "zero") \in Entries /\ Backup!Entry(Grid[Len(Grid)], "zero") \in Entries
    BY <1>1, NoneIs DEF Backup!Entry, Entries
<1>3. ASSUME NEW e \in Entries, e.amount # "text"
      PROVE  <<e>> \in Seq(Entries) /\ \A i \in DOMAIN <<e>> : <<e>>[i].amount # "text"
    BY <1>3
<1>4. Backup!Entry(Wildcard, "zero").amount # "text" /\ Backup!Entry(Grid[Len(Grid)], "zero").amount # "text"
    BY DEF Backup!Entry
<1>5. config.rules \in FileAmounts /\ config.risk \in FileAmounts
      /\ config.policies \in {<<>>, <<Backup!Entry(Wildcard, "zero")>>, <<Backup!Entry(Grid[Len(Grid)], "zero")>>}
      /\ config = [rules |-> config.rules, policies |-> config.policies, risk |-> config.risk]
    BY NoneIs DEF Backup!POLICY_TEMPLATES
<1>6. config.policies \in Seq(Entries) /\ \A i \in DOMAIN config.policies : config.policies[i].amount # "text"
    <2>1. CASE config.policies = <<>>
      BY <2>1
    <2>2. CASE config.policies = <<Backup!Entry(Wildcard, "zero")>>
      BY <1>2, <1>3, <1>4, <2>2
    <2>3. CASE config.policies = <<Backup!Entry(Grid[Len(Grid)], "zero")>>
      BY <1>2, <1>3, <1>4, <2>3
    <2> QED
      BY <1>5, <2>1, <2>2, <2>3
<1> QED
    BY <1>5, <1>6 DEF Configs, Backup!PoliciesConvert

SnapshotSound(x) == x \in Snapshots /\ Backup!PoliciesConvert(x.config) /\ (x.clean => Backup!Agrees(x.config, x.was))

LEMMA SavedSound ==
    ASSUME BackupTyped, NoText, Backup!SnapshotExact
    PROVE  saved \in Seq(Snapshots) /\ Len(saved) \in Nat /\ DOMAIN saved = 1..Len(saved) /\ \A i \in 1..Len(saved) : SnapshotSound(saved[i])
<1>1. saved \in Seq(Snapshots) /\ Len(saved) \in Nat /\ DOMAIN saved = 1..Len(saved) /\ \A i \in 1..Len(saved) : saved[i] \in Snapshots
    BY DEF BackupTyped
<1> QED
    BY <1>1 DEF NoText, Backup!SnapshotExact, SnapshotSound

\* A step on the snapshots, the preview or what is being read; nothing is written.
LEMMA ReadsKeep ==
    ASSUME BackupInv, UNCHANGED <<policy, apply, alone>>,
           saved' \in Seq(Snapshots), \A i \in DOMAIN saved' : SnapshotSound(saved'[i]),
           capture' \in Captures, CaptureTrue', \A q \in Backup!Sampled \cap DOMAIN capture'.got : capture'.got[q] # "text",
           imported' \in Configs, Backup!PoliciesConvert(imported')
    PROVE BackupInv'
<1>1. BackupTyped' /\ NoText' /\ Backup!SnapshotExact'
    BY DEF BackupInv, BackupTyped, NoText, Backup!SnapshotExact, SnapshotSound
<1>2. ApplyTrue'
    BY DEF BackupInv, ApplyTrue
<1> QED
    BY <1>1, <1>2 DEF BackupInv

\* A snapshot that read everything.
LEMMA ExportIs ==
    ASSUME BackupInv, capture.on, DOMAIN capture.got = Reads
    PROVE  SnapshotSound([config |-> Backup!exportConfig(capture.got), was |-> capture.was, clean |-> capture.clean])
<1> DEFINE got == capture.got
           config == Backup!exportConfig(got)
           x == [config |-> config, was |-> capture.was, clean |-> capture.clean]
<1>1. capture.was \in Policies /\ capture.clean \in BOOLEAN /\ (\A q \in Reads : got[q] \in FileAmounts) /\ policy \in Policies
    BY DEF BackupInv, BackupTyped, Captures
<1>2. Backup!Sampled \subseteq Reads /\ {"rules", "risk"} \subseteq Reads
    BY DEF Reads
<1>3. \A p \in Backup!Sampled : got[p] \in FileAmounts /\ got[p] # "text"
    BY <1>1, <1>2 DEF BackupInv, NoText
<1> HIDE DEF got
<1>4. /\ Backup!Kept(got) \in Seq(Entries)
      /\ \A i \in DOMAIN Backup!Kept(got) : \E j \in 1..Len(Grid) : got[Grid[j]] # Backup!None /\ Backup!Kept(got)[i] = Backup!Entry(Grid[j], got[Grid[j]])
      /\ \A j \in 1..Len(Grid) : got[Grid[j]] # Backup!None => \E i \in DOMAIN Backup!Kept(got) : Backup!Kept(got)[i] = Backup!Entry(Grid[j], got[Grid[j]])
    BY <1>3, KeptAre
<1>5. config.rules = got["rules"] /\ config.risk = got["risk"] /\ config.policies = Backup!Kept(got) /\ config \in Configs
    BY <1>1, <1>2, <1>4 DEF Backup!exportConfig, Configs
<1> HIDE DEF config
<1>6. Backup!PoliciesConvert(config)
    <2> SUFFICES ASSUME NEW i \in DOMAIN Backup!Kept(got) PROVE Backup!Kept(got)[i].amount # "text"
      BY <1>5 DEF Backup!PoliciesConvert
    <2>1. PICK j \in 1..Len(Grid) : Backup!Kept(got)[i] = Backup!Entry(Grid[j], got[Grid[j]])
      BY <1>4
    <2> QED
      BY <1>3, <2>1, GridIs DEF Backup!Entry
<1>7. ASSUME capture.clean PROVE Backup!Agrees(config, capture.was)
    <2>1. policy = capture.was /\ \A q \in Reads : got[q] = ReadOf(q, policy)
      BY <1>7 DEF BackupInv, CaptureTrue, got
    <2>2. got["rules"] = policy.rules /\ got["risk"] = policy.risk /\ \A p \in Backup!Sampled : got[p] = policy.policies[p]
      <3>1. "rules" \notin Backup!Sampled /\ "risk" \notin Backup!Sampled
        BY GridIs
      <3> QED
        BY <1>2, <2>1, <3>1 DEF ReadOf
    <2>3. ASSUME NEW p \in Backup!Sampled, policy.policies[p] # Backup!None PROVE \E i \in DOMAIN config.policies : config.policies[i] = Backup!Entry(p, policy.policies[p])
      <3>1. PICK j \in 1..Len(Grid) : Grid[j] = p
        BY GridIs DEF Backup!Sampled
      <3> QED
        BY <1>4, <1>5, <2>2, <2>3, <3>1
    <2>4. ASSUME NEW p \in Backup!Sampled, NEW i \in DOMAIN config.policies, config.policies[i] = Backup!Entry(p, policy.policies[p]) PROVE policy.policies[p] # Backup!None
      <3>1. PICK j \in 1..Len(Grid) : got[Grid[j]] # Backup!None /\ Backup!Kept(got)[i] = Backup!Entry(Grid[j], got[Grid[j]])
        BY <1>4, <1>5, <2>4
      <3> QED
        BY <1>5, <2>4, <3>1 DEF Backup!Entry
    <2> QED
      BY <1>5, <2>1, <2>2, <2>3, <2>4 DEF Backup!Agrees
<1>8. x \in Snapshots /\ x.config = config /\ x.was = capture.was /\ x.clean = capture.clean
    BY <1>1, <1>5 DEF Snapshots
<1>9. SnapshotSound(x)
    BY <1>6, <1>7, <1>8 DEF SnapshotSound
<1> QED
    BY <1>9 DEF x, config, got

LEMMA SnapshotsKeep ==
    ASSUME BackupInv,
           \/ Backup!handleTakeSnapshot \/ Backup!addSnapshot
           \/ \E q \in Reads, failed \in BOOLEAN : Backup!policySnapshot(q, failed)
           \/ \E i \in DOMAIN saved : Backup!removeSnapshot(i) \/ Backup!handleRestoreSnapshot(i)
           \/ \E file \in Files : Backup!handleFileChange(file)
    PROVE BackupInv'
<1>1. /\ policy \in Policies /\ capture \in Captures /\ imported \in Configs /\ Backup!PoliciesConvert(imported)
      /\ CaptureTrue /\ (\A q \in Backup!Sampled \cap DOMAIN capture.got : capture.got[q] # "text") /\ \A p \in Backup!Pairs : policy.policies[p] # "text"
    BY DEF BackupInv, BackupTyped, NoText
<1>2. saved \in Seq(Snapshots) /\ Len(saved) \in Nat /\ DOMAIN saved = 1..Len(saved) /\ \A i \in 1..Len(saved) : SnapshotSound(saved[i])
    BY SavedSound DEF BackupInv
<1>3. CASE Backup!handleTakeSnapshot
    <2>1. capture' = [Backup!Untaken EXCEPT !.on = TRUE, !.was = policy, !.clean = TRUE] /\ UNCHANGED <<policy, saved, imported, apply, alone>>
      BY <1>3 DEF Backup!handleTakeSnapshot
    <2>2. capture' \in Captures /\ DOMAIN capture'.got = {} /\ capture'.was = policy
      BY <1>1, <2>1, UntakenIs DEF Captures
    <2>3. CaptureTrue'
      BY <2>1, <2>2 DEF CaptureTrue
    <2> QED
      BY <1>1, <1>2, <2>1, <2>2, <2>3, ReadsKeep
<1>4. CASE Backup!addSnapshot
    <2> DEFINE x == [config |-> Backup!exportConfig(capture.got), was |-> capture.was, clean |-> capture.clean]
               kept == IF Len(saved) < MAX_SNAPSHOTS THEN saved ELSE SubSeq(saved, 1, MAX_SNAPSHOTS - 1)
    <2>1. /\ capture.on /\ DOMAIN capture.got = Reads /\ capture' = Backup!Untaken /\ UNCHANGED <<policy, imported, apply, alone>>
          /\ saved' = IF capture.got["rules"] = Backup!None THEN saved ELSE <<x>> \o kept
      BY <1>4 DEF Backup!addSnapshot, Reads
    <2>2. SnapshotSound(x) /\ x \in Snapshots
      BY <2>1, ExportIs DEF SnapshotSound
    <2>3. kept \in Seq(Snapshots) /\ \A i \in 1..Len(kept) : SnapshotSound(kept[i])
      <3>1. CASE Len(saved) < MAX_SNAPSHOTS
        BY <1>2, <3>1
      <3>2. CASE ~(Len(saved) < MAX_SNAPSHOTS)
        <4>1. MAX_SNAPSHOTS - 1 <= Len(saved) /\ MAX_SNAPSHOTS - 1 \in Int
          BY <1>2, <3>2, SnapshotsAreKept
        <4>2. kept = SubSeq(saved, 1, MAX_SNAPSHOTS - 1)
          BY <3>2
        <4>3. kept \in Seq(Snapshots) /\ \A i \in 1..Len(kept) : i \in 1..Len(saved) /\ kept[i] = saved[i]
          BY <1>2, <4>1, <4>2
        <4> QED
          BY <1>2, <4>3
      <3> QED
        BY <3>1, <3>2
    <2> HIDE DEF x, kept
    <2>4. saved' \in Seq(Snapshots) /\ \A i \in DOMAIN saved' : SnapshotSound(saved'[i])
      <3>1. CASE saved' = saved
        BY <1>2, <3>1
      <3>2. CASE saved' = <<x>> \o kept
        <4> DEFINE one == <<x>>
        <4>1. one \in Seq(Snapshots) /\ Len(one) = 1 /\ one[1] = x
          BY <2>2
        <4> HIDE DEF one
        <4>2. saved' = one \o kept
          BY <3>2 DEF one
        <4>6. /\ one \o kept \in Seq(Snapshots) /\ Len(one \o kept) = Len(one) + Len(kept)
              /\ \A i \in 1..(Len(one) + Len(kept)) : (one \o kept)[i] = IF i <= Len(one) THEN one[i] ELSE kept[i - Len(one)]
          BY <2>3, <4>1, ConcatIs
        <4>3. saved' \in Seq(Snapshots) /\ Len(saved') = 1 + Len(kept) /\ Len(kept) \in Nat
          BY <2>3, <4>1, <4>2, <4>6
        <4>4. \A i \in 1..(1 + Len(kept)) : saved'[i] = IF i <= 1 THEN one[i] ELSE kept[i - 1]
          BY <4>1, <4>2, <4>6
        <4>5. ASSUME NEW i \in DOMAIN saved' PROVE SnapshotSound(saved'[i])
          <5>1. i \in 1..(1 + Len(kept))
            BY <4>3
          <5>2. CASE i = 1
            BY <2>2, <4>1, <4>4, <5>1, <5>2
          <5>3. CASE i # 1
            BY <2>3, <4>3, <4>4, <5>1, <5>3
          <5> QED
            BY <5>2, <5>3
        <4> QED
          BY <4>3, <4>5
      <3> QED
        BY <2>1, <3>1, <3>2
    <2>5. CaptureTrue'
      BY <2>1, UntakenIs DEF CaptureTrue
    <2> QED
      BY <1>1, <2>1, <2>4, <2>5, UntakenIs, ReadsKeep
<1>5. ASSUME NEW q \in Reads, NEW failed \in BOOLEAN, Backup!policySnapshot(q, failed) PROVE BackupInv'
    <2> DEFINE value == IF failed THEN Backup!None ELSE IF q \in Backup!Sampled THEN policy.policies[q] ELSE policy[q]
               got == [r \in DOMAIN capture.got \cup {q} |-> IF r # q THEN capture.got[r] ELSE value]
    <2>1. /\ capture.on /\ q \notin DOMAIN capture.got /\ UNCHANGED <<policy, saved, imported, apply, alone>>
          /\ capture' = [capture EXCEPT !.got = got, !.clean = capture.clean /\ ~failed]
      BY <1>1, <1>5 DEF Backup!policySnapshot, Captures
    <2>2. value \in FileAmounts /\ (q \in Backup!Sampled => value # "text")
      <3>1. q \in Backup!Sampled => q \in Backup!Pairs /\ policy.policies[q] \in FileAmounts /\ policy.policies[q] # "text"
        BY <1>1, GridIs DEF Policies
      <3>2. q \notin Backup!Sampled => policy[q] \in FileAmounts
        BY <1>1 DEF Reads, Policies
      <3> QED
        BY <3>1, <3>2, NoneIs
    <2>3. /\ DOMAIN capture.got \subseteq Reads /\ capture.clean \in BOOLEAN /\ capture.was \in Policies
          /\ \A r \in DOMAIN capture.got : capture.got[r] \in FileAmounts
      BY <1>1 DEF Captures
    <2>4. ~failed => value = ReadOf(q, policy)
      BY DEF ReadOf
    <2> HIDE DEF value
    <2>5. got \in [DOMAIN capture.got \cup {q} -> FileAmounts]
      BY <2>2, <2>3
    <2>6. \A r \in DOMAIN got : got[r] = IF r # q THEN capture.got[r] ELSE value
      OBVIOUS
    <2>7. DOMAIN got = DOMAIN capture.got \cup {q} /\ DOMAIN got \subseteq Reads
      BY <2>3
    <2> HIDE DEF got
    <2>8. got \in UNION {[Q -> FileAmounts] : Q \in SUBSET Reads}
      BY <2>5, <2>7
    <2> DEFINE clean == capture.clean /\ ~failed
    <2>9. clean \in BOOLEAN /\ (clean => capture.clean /\ ~failed)
      OBVIOUS
    <2>10. capture' = [capture EXCEPT !.got = got, !.clean = clean]
      BY <2>1
    <2> HIDE DEF clean
    <2>11. capture' \in Captures /\ capture'.got = got /\ capture'.was = capture.was /\ capture'.clean = clean
      BY <1>1, <2>8, <2>9, <2>10 DEF Captures
    <2>12. CaptureTrue'
      <3> SUFFICES ASSUME clean PROVE policy = capture.was /\ \A r \in DOMAIN got : got[r] = ReadOf(r, policy)
        BY <2>1, <2>11 DEF CaptureTrue
      <3>1. capture.clean /\ value = ReadOf(q, policy)
        BY <2>4, <2>9
      <3> QED
        BY <1>1, <2>1, <2>6, <2>7, <3>1 DEF CaptureTrue
    <2>13. \A r \in Backup!Sampled \cap DOMAIN got : got[r] # "text"
      BY <1>1, <2>2, <2>6, <2>7
    <2> QED
      BY <1>1, <1>2, <2>1, <2>11, <2>12, <2>13, ReadsKeep
<1>6. ASSUME NEW i \in DOMAIN saved, Backup!removeSnapshot(i) PROVE BackupInv'
    <2>1. UNCHANGED <<policy, capture, imported, apply, alone>> /\ saved' = [j \in 1..(Len(saved) - 1) |-> saved[IF j < i THEN j ELSE j + 1]]
      BY <1>6 DEF Backup!removeSnapshot
    <2>2. \A j \in 1..(Len(saved) - 1) : (IF j < i THEN j ELSE j + 1) \in 1..Len(saved)
      BY <1>2
    <2>3. DOMAIN saved' = 1..(Len(saved) - 1) /\ \A j \in DOMAIN saved' : SnapshotSound(saved'[j])
      BY <1>2, <2>1, <2>2
    <2>4. Len(saved) - 1 \in Nat
      BY <1>2
    <2>5. \A j \in DOMAIN saved' : saved'[j] \in Snapshots
      BY <2>3 DEF SnapshotSound
    <2>6. saved' \in Seq(Snapshots)
      BY <2>1, <2>3, <2>4, <2>5
    <2>7. CaptureTrue'
      BY <1>1, <2>1 DEF CaptureTrue
    <2> QED
      BY <1>1, <2>1, <2>3, <2>6, <2>7, ReadsKeep
<1>7. ASSUME NEW i \in DOMAIN saved, Backup!handleRestoreSnapshot(i) PROVE BackupInv'
    <2>1. UNCHANGED <<policy, saved, capture, apply, alone>> /\ imported' = saved[i].config
      BY <1>7 DEF Backup!handleRestoreSnapshot
    <2>2. SnapshotSound(saved[i])
      BY <1>2
    <2>3. imported' \in Configs /\ Backup!PoliciesConvert(imported')
      BY <2>1, <2>2 DEF SnapshotSound, Snapshots
    <2>4. CaptureTrue'
      BY <1>1, <2>1 DEF CaptureTrue
    <2> QED
      BY <1>1, <1>2, <2>1, <2>3, <2>4, ReadsKeep
<1>8. ASSUME NEW file \in Files, Backup!handleFileChange(file) PROVE BackupInv'
    <2>1. UNCHANGED <<policy, saved, capture, apply, alone>> /\ imported' = IF Backup!Parsed(file) THEN file ELSE Backup!NoConfig
      BY <1>8 DEF Backup!handleFileChange
    <2>2. file \in Configs
      BY FilesAreRead DEF Configs, Entries, Backup!Pairs, Backup!Sampled
    <2>3. Backup!Parsed(file) => Backup!PoliciesConvert(file)
      BY DEF Backup!Parsed, Backup!PoliciesConvert, Backup!Numbers
    <2>4. imported' \in Configs /\ Backup!PoliciesConvert(imported')
      BY <2>1, <2>2, <2>3, NoConfigIs
    <2>5. CaptureTrue'
      BY <1>1, <2>1 DEF CaptureTrue
    <2> QED
      BY <1>1, <1>2, <2>1, <2>4, <2>5, ReadsKeep
<1> QED
    BY <1>3, <1>4, <1>5, <1>6, <1>7, <1>8

LEMMA OverlayIsThat == Backup!Overlay = OverlayOf(apply.base, Backup!Writes(apply.config))
BY DEF Backup!Overlay, OverlayOf, OverlayIs

\* A step of the application, or of another administrator.
LEMMA WritesKeep ==
    ASSUME BackupInv, UNCHANGED <<saved, imported>>, policy' \in Policies, \A p \in Backup!Pairs : policy'.policies[p] # "text",
           apply' \in Applications, Backup!PoliciesConvert(apply'.config), alone' \in BOOLEAN, ApplyTrue',
           \/ policy' = policy /\ capture' = capture
           \/ capture' = [capture EXCEPT !.clean = FALSE]
    PROVE BackupInv'
<1>1. capture \in Captures
    BY DEF BackupInv, BackupTyped
<1>2. capture' \in Captures /\ capture'.got = capture.got /\ capture'.on = capture.on /\ capture'.was = capture.was
      /\ ((policy' = policy /\ capture' = capture) \/ ~capture'.clean)
    BY <1>1 DEF Captures
<1>3. BackupTyped' /\ NoText'
    BY <1>2 DEF BackupInv, BackupTyped, NoText
<1>4. CaptureTrue'
    BY <1>2 DEF BackupInv, CaptureTrue
<1>5. Backup!SnapshotExact'
    BY DEF BackupInv, Backup!SnapshotExact
<1> QED
    BY <1>3, <1>4, <1>5 DEF BackupInv

LEMMA ApplyingKeeps ==
    ASSUME BackupInv,
           \/ \E config \in Backup!POLICY_TEMPLATES \cup {imported} : Backup!applyComplianceConfig(config)
           \/ Backup!Land \/ Backup!Answered
           \/ \E lost \in BOOLEAN : Backup!Unanswered(lost)
           \/ \E w \in [what : Backup!Pairs, value : {Backup!None, "two"}] : Backup!Other(w)
    PROVE BackupInv'
<1>1. PICK config \in Configs : config = apply.config
    BY DEF BackupInv, BackupTyped, Applications
<1>2. PICK planned \in Seq(WriteRecords) : planned = Backup!Writes(config)
    BY WritesAre
<1>3. /\ Len(planned) \in Nat \ {0} /\ Backup!PoliciesConvert(config)
      /\ \A k \in 1..Len(planned) : planned[k] \in WriteRecords /\ (planned[k].what \in Backup!Pairs => planned[k].value # "text")
    BY <1>1, <1>2, WritesAre DEF BackupInv, NoText
<1>4. PICK base \in Policies : base = apply.base
    BY DEF BackupInv, BackupTyped, Applications
<1>5. PICK o : o = OverlayOf(base, planned)
    OBVIOUS
<1>6. o[0] = base /\ \A k \in 1..Len(planned) : o[k] = Backup!Written(o[k - 1], planned[k])
    BY <1>2, <1>4, <1>5, OverlaySteps
<1>7. /\ policy \in Policies /\ (\A p \in Backup!Pairs : policy.policies[p] # "text") /\ apply \in Applications /\ alone \in BOOLEAN
      /\ imported \in Configs /\ Backup!PoliciesConvert(imported) /\ ApplyTrue
    BY DEF BackupInv, BackupTyped, NoText
<1>8. /\ apply.phase \in {"sent", "lost", "refused", "done"} => apply.step \in 1..Len(planned)
      /\ alone /\ apply.phase \in {"sent", "lost", "refused", "done"} => policy = o[IF apply.landed THEN apply.step ELSE apply.step - 1]
      /\ alone /\ apply.phase = "threw" => policy = base
    BY <1>1, <1>2, <1>4, <1>5, <1>7 DEF ApplyTrue
<1>9. apply.step \in Nat /\ apply.landed \in BOOLEAN /\ apply.phase \in {"idle", "sent", "threw", "lost", "refused", "done"}
    BY <1>7 DEF Applications
\* The application goes on with the same configuration.
<1>10. ASSUME apply' \in Applications, apply'.config = config, apply'.base = base, UNCHANGED <<saved, imported, alone>>,
              policy' \in Policies, \A p \in Backup!Pairs : policy'.policies[p] # "text",
              (policy' = policy /\ capture' = capture) \/ capture' = [capture EXCEPT !.clean = FALSE],
              apply'.phase \in {"sent", "lost", "refused", "done"}, apply'.step \in 1..Len(planned),
              alone => policy' = o[IF apply'.landed THEN apply'.step ELSE apply'.step - 1]
       PROVE BackupInv'
    <2>1. ApplyTrue'
      BY <1>2, <1>5, <1>10 DEF ApplyTrue
    <2> QED
      BY <1>3, <1>7, <1>10, <2>1, WritesKeep
<1>11. CASE Backup!Land
    <2> DEFINE w == planned[apply.step]
    <2>1. /\ apply.phase \in {"sent", "lost"} /\ ~apply.landed /\ policy' = Backup!Written(policy, w)
          /\ apply' = [apply EXCEPT !.landed = TRUE] /\ capture' = [capture EXCEPT !.clean = FALSE]
          /\ UNCHANGED <<saved, imported, alone>>
      BY <1>1, <1>2, <1>11 DEF Backup!Land
    <2>2. apply.step \in 1..Len(planned) /\ w \in WriteRecords /\ (w.what \in Backup!Pairs => w.value # "text")
      BY <1>3, <1>8, <2>1
    <2>3. policy' \in Policies /\ \A p \in Backup!Pairs : policy'.policies[p] # "text"
      BY <1>7, <2>1, <2>2, WrittenIs
    <2>4. /\ apply' \in Applications /\ apply'.config = config /\ apply'.base = base /\ apply'.step = apply.step /\ apply'.landed = TRUE
          /\ apply'.phase = apply.phase
      BY <1>1, <1>4, <1>7, <2>1 DEF Applications
    <2>5. alone => policy' = o[apply.step]
      <3>1. alone => policy = o[apply.step - 1]
        BY <1>8, <2>1
      <3> QED
        BY <1>6, <2>1, <2>2, <3>1
    <2> QED
      BY <1>10, <2>1, <2>2, <2>3, <2>4, <2>5
<1>12. CASE Backup!Answered
    <2>1. apply.phase = "sent" /\ apply.landed /\ apply' = Backup!Onwards /\ UNCHANGED <<policy, saved, capture, imported, alone>>
      BY <1>12 DEF Backup!Answered
    <2>2. apply.step \in 1..Len(planned) /\ (alone => policy = o[apply.step])
      BY <1>8, <2>1
    <2>3. CASE apply.step = Len(planned)
      <3>1. apply' = [apply EXCEPT !.phase = "done"]
        BY <1>1, <1>2, <1>3, <2>1, <2>3 DEF Backup!Onwards
      <3>2. /\ apply' \in Applications /\ apply'.config = config /\ apply'.base = base /\ apply'.step = apply.step /\ apply'.landed = apply.landed
            /\ apply'.phase = "done"
        BY <1>1, <1>4, <1>7, <3>1 DEF Applications
      <3> QED
        BY <1>7, <1>10, <2>1, <2>2, <3>2
    <2>4. CASE apply.step # Len(planned)
      <3>1. apply' = [apply EXCEPT !.step = apply.step + 1, !.landed = FALSE]
        BY <1>1, <1>2, <1>3, <1>7, <2>1, <2>4 DEF Backup!Onwards, Applications
      <3>2. apply.step + 1 \in 1..Len(planned) /\ (apply.step + 1) - 1 = apply.step /\ apply.step + 1 \in Nat
        BY <1>3, <2>2, <2>4
      <3>3. /\ apply' \in Applications /\ apply'.config = config /\ apply'.base = base /\ apply'.step = apply.step + 1 /\ apply'.landed = FALSE
            /\ apply'.phase = "sent"
        BY <1>1, <1>4, <1>7, <2>1, <3>1, <3>2 DEF Applications
      <3> QED
        BY <1>7, <1>10, <2>1, <2>2, <3>2, <3>3
    <2> QED
      BY <2>3, <2>4
<1>13. ASSUME NEW lost \in BOOLEAN, Backup!Unanswered(lost) PROVE BackupInv'
    <2>1. apply.phase = "sent" /\ apply' = [apply EXCEPT !.phase = IF lost THEN "lost" ELSE "refused"]
          /\ UNCHANGED <<policy, saved, capture, imported, alone>>
      BY <1>13 DEF Backup!Unanswered, Backup!Stopped
    <2>2. /\ apply' \in Applications /\ apply'.config = config /\ apply'.base = base /\ apply'.step = apply.step /\ apply'.landed = apply.landed
          /\ apply'.phase \in {"lost", "refused"}
      BY <1>1, <1>4, <1>7, <2>1 DEF Applications
    <2> QED
      BY <1>7, <1>8, <1>10, <2>1, <2>2
<1>14. ASSUME NEW w \in [what : Backup!Pairs, value : {Backup!None, "two"}], Backup!Other(w) PROVE BackupInv'
    <2>1. policy' = Backup!Written(policy, w) /\ alone' = FALSE /\ capture' = [capture EXCEPT !.clean = FALSE] /\ UNCHANGED <<saved, imported, apply>>
      BY <1>14 DEF Backup!Other
    <2>2. w \in WriteRecords /\ w.value # "text"
      BY NoneIs DEF WriteRecords
    <2>3. policy' \in Policies /\ \A p \in Backup!Pairs : policy'.policies[p] # "text"
      BY <1>7, <2>1, <2>2, WrittenIs
    <2>4. ApplyTrue' /\ alone' \in BOOLEAN
      BY <1>7, <2>1 DEF ApplyTrue
    <2> QED
      BY <1>1, <1>3, <1>7, <2>1, <2>3, <2>4, WritesKeep
<1>15. ASSUME NEW chosen \in Backup!POLICY_TEMPLATES \cup {imported}, Backup!applyComplianceConfig(chosen) PROVE BackupInv'
    <2>1. chosen \in Configs /\ Backup!PoliciesConvert(chosen)
      BY <1>7, TemplatesAre
    <2> DEFINE phase == IF Backup!RulesConvert(chosen) THEN "sent" ELSE "threw"
    <2>2. /\ apply' = [Backup!Unapplied EXCEPT !.phase = phase, !.config = chosen, !.step = 1, !.base = policy] /\ alone' = TRUE
          /\ UNCHANGED <<policy, saved, capture, imported>>
      BY <1>15 DEF Backup!applyComplianceConfig
    <2>3. phase \in {"sent", "threw"}
      OBVIOUS
    <2> HIDE DEF phase
    <2>4. Backup!Unapplied \in Applications /\ Backup!Unapplied.landed = FALSE
      BY UnappliedIs DEF Backup!Unapplied
    <2>5. /\ apply' \in Applications /\ apply'.config = chosen /\ apply'.base = policy /\ apply'.step = 1 /\ apply'.landed = FALSE /\ apply'.phase = phase
      BY <1>7, <2>1, <2>2, <2>3, <2>4 DEF Applications
    <2>6. OverlayOf(policy, Backup!Writes(chosen))[0] = policy /\ 1 \in 1..Len(Backup!Writes(chosen))
      BY <1>7, <2>1, OverlaySteps, WritesAre
    <2>7. ApplyTrue'
      BY <2>2, <2>3, <2>5, <2>6 DEF ApplyTrue
    <2>8. alone' \in BOOLEAN
      BY <2>2
    <2> QED
      BY <1>7, <2>1, <2>2, <2>5, <2>7, <2>8, WritesKeep
<1> QED
    BY <1>11, <1>12, <1>13, <1>14, <1>15

LEMMA BackupStep == BackupInv /\ [Backup!Next]_Backup!backupVars => BackupInv'
<1> SUFFICES ASSUME BackupInv, [Backup!Next]_Backup!backupVars PROVE BackupInv'
    OBVIOUS
<1>1. ASSUME \/ Backup!handleTakeSnapshot \/ Backup!addSnapshot
             \/ \E q \in Reads, failed \in BOOLEAN : Backup!policySnapshot(q, failed)
             \/ \E i \in DOMAIN saved : Backup!removeSnapshot(i) \/ Backup!handleRestoreSnapshot(i)
             \/ \E file \in Files : Backup!handleFileChange(file)
      PROVE BackupInv'
    BY <1>1, SnapshotsKeep
<1>2. ASSUME \/ \E config \in Backup!POLICY_TEMPLATES \cup {imported} : Backup!applyComplianceConfig(config)
             \/ Backup!Land \/ Backup!Answered
             \/ \E lost \in BOOLEAN : Backup!Unanswered(lost)
             \/ \E w \in [what : Backup!Pairs, value : {Backup!None, "two"}] : Backup!Other(w)
      PROVE BackupInv'
    BY <1>2, ApplyingKeeps
<1>3. CASE UNCHANGED Backup!backupVars
    BY <1>3 DEF Backup!backupVars, BackupInv, BackupTyped, NoText, CaptureTrue, Backup!SnapshotExact, ApplyTrue
<1> QED
    BY <1>1, <1>2, <1>3 DEF Backup!Next, Reads

\* An undisturbed snapshot is the engine's configuration, and a restoration that nobody interferes with leaves,
\* wherever it stops, its first writes and nothing of the rest (complianceConfig.ts, readApi.ts).
THEOREM BackupHolds == Backup!Spec => []BackupSound
<1>1. BackupInv => Backup!BackupSound
    <2> SUFFICES ASSUME BackupInv PROVE Backup!StopsCleanly
      BY DEF BackupInv, Backup!BackupSound
    <2>1. apply.phase \in {"idle", "sent", "threw", "lost", "refused", "done"}
      BY DEF BackupInv, BackupTyped, Applications
    <2> QED
      BY <2>1, OverlayIsThat DEF BackupInv, ApplyTrue, Backup!StopsCleanly, Backup!APrefix
<1> QED
    BY <1>1, BackupBegins, BackupStep, PTL DEF Backup!Spec, BackupSound

----------------------------------------------------------------------------
(* The status pages (StatusViews) *)

\* What an answer to this fetch would say now.
NowHeld(f, by, held) == IF f = "balance" THEN held[f][by] ELSE held[f]

\* A fetch asks for its reader's facts, and as long as it is clean has them as they are.
FetchSound(i, q, who, held) ==
    /\ i[1] \in Status!Readers
    /\ DOMAIN q.got \cup q.failed \subseteq Status!Facts(i[1])
    /\ DOMAIN q.got \cap q.failed = {} /\ q.failed \cap StatusContracts = {}
    /\ q.clean => /\ i[1] = "card" => q.by = who
                  /\ \A f \in DOMAIN q.got : q.got[f] = NowHeld(f, q.by, held)

StatusTyped ==
    /\ open \in {"operators", "health", "market", "card"}
    /\ DOMAIN facts = Status!Shared /\ DOMAIN readers = Status!Readers
    /\ \A i \in DOMAIN reads : DOMAIN reads[i] = {"by", "got", "failed", "clean"}

\* The strengthening of NothingInvented: what a fetch has got, unless it failed or was disturbed, is still so.
StatusInv ==
    /\ StatusTyped
    /\ \A i \in DOMAIN reads : FetchSound(i, reads[i], account, facts)
    /\ Status!NothingInvented

LEMMA ReadersApart ==
    /\ "card" \notin Rows /\ "health" \notin Rows /\ "market" \notin Rows
    /\ \A r \in Status!Readers : Status!Facts(r) \subseteq Status!Shared
    /\ Status!Facts("card") = {"balance"} /\ Status!Facts("market") = {"paused", "holders", "supply"} /\ Status!Facts("health") = StatusContracts
    /\ \A r \in Status!Readers \ {"card"} : "balance" \notin Status!Facts(r)
    /\ \A p \in {"operators", "health", "market"} : Status!ReadersOf(p) \subseteq Status!Readers \ {"card"}
    /\ {"card", "market", "health", "summary"} \subseteq Status!Readers
<1>1. "card" \notin Rows /\ "health" \notin Rows /\ "market" \notin Rows /\ "summary" \notin Rows
    BY ViewsAreApart
<1>2. \A r \in Status!Readers : Status!Facts(r) \subseteq Status!Shared
    BY Zenon DEF Status!Shared
<1>3. Status!Facts("card") = {"balance"} /\ Status!Facts("market") = {"paused", "holders", "supply"} /\ Status!Facts("health") = StatusContracts
    BY DEF Status!Facts
<1>4. \A r \in Status!Readers \ {"card"} : "balance" \notin Status!Facts(r)
    BY ViewsAreApart DEF Status!Facts, Status!Readers
<1>5. \A p \in {"operators", "health", "market"} : Status!ReadersOf(p) \subseteq Status!Readers \ {"card"}
    BY <1>1 DEF Status!ReadersOf, Status!Readers
<1> QED
    BY <1>1, <1>2, <1>3, <1>4, <1>5 DEF Status!Readers

LEMMA StatusBegins == Status!Init => StatusInv
<1> SUFFICES ASSUME Status!Init PROVE StatusInv
    OBVIOUS
<1>1. StatusTyped
    <2>1. DOMAIN facts = Status!Shared
      BY DEF Status!Init
    <2>2. \A i \in DOMAIN reads : DOMAIN reads[i] = {"by", "got", "failed", "clean"}
      BY DEF Status!Init, Status!Fetch
    <2> QED
      BY <2>1, <2>2 DEF Status!Init, StatusTyped
<1>2. ASSUME NEW i \in DOMAIN reads PROVE FetchSound(i, reads[i], account, facts)
    <2>1. open # "card"
      BY <1>2 DEF Status!Init
    <2>2. i[1] \in Status!ReadersOf(open) /\ reads[i] = Status!Fetch(Status!None)
      BY <2>1 DEF Status!Init
    <2>3. i[1] \in Status!Readers \ {"card"}
      BY <2>1, <2>2, ReadersApart DEF Status!Init
    <2> QED
      BY <2>2, <2>3 DEF FetchSound, Status!Fetch
<1>3. Status!NothingInvented
    BY DEF Status!Init, Status!NothingInvented, Status!RowsExact, Status!HealthExact, Status!CardExact
<1> QED
    BY <1>1, <1>2, <1>3 DEF StatusInv

\* A step that changes neither what the contracts hold nor what is shown keeps what is shown sound.
LEMMA ShownStays ==
    ASSUME Status!NothingInvented, UNCHANGED <<facts, readers>>, exact' \subseteq exact,
           account' = account \/ "card" \notin exact'
    PROVE Status!NothingInvented'
BY DEF Status!NothingInvented, Status!RowsExact, Status!HealthExact, Status!CardExact, Status!Tradable

\* A fetch that asked what the step did not change stays sound, and so does one that is no longer clean.
LEMMA FetchStays ==
    ASSUME NEW i, NEW q, NEW r, NEW who, NEW held, NEW who2, NEW held2, FetchSound(i, q, who, held),
           r.got = q.got, r.failed = q.failed, r.by = q.by,
           r.clean => /\ q.clean /\ (i[1] = "card" => who2 = who)
                      /\ \A f \in Status!Facts(i[1]) : held2[f] = held[f]
    PROVE FetchSound(i, r, who2, held2)
BY DEF FetchSound, NowHeld

LEMMA StartKeeps ==
    ASSUME StatusInv, NEW group, NEW by, Status!Start(group, by), group \subseteq Status!Readers \ {"card"},
           UNCHANGED <<open, account, facts, readers, exact>>
    PROVE StatusInv'
<1>1. ASSUME NEW i \in DOMAIN reads'
      PROVE DOMAIN reads'[i] = {"by", "got", "failed", "clean"} /\ FetchSound(i, reads'[i], account', facts')
    <2>1. CASE i \in DOMAIN reads
      <3>1. reads'[i] = reads[i]
        BY <1>1, <2>1 DEF Status!Start
      <3> QED
        BY <2>1, <3>1 DEF StatusInv, StatusTyped, FetchSound, NowHeld
    <2>2. CASE i \notin DOMAIN reads
      <3>1. i[1] \in group /\ reads'[i] = Status!Fetch(by)
        BY <1>1, <2>2 DEF Status!Start
      <3> QED
        BY <3>1 DEF FetchSound, Status!Fetch
    <2> QED
      BY <2>1, <2>2
<1>2. Status!NothingInvented'
    BY ShownStays DEF StatusInv
<1> QED
    BY <1>1, <1>2 DEF StatusInv, StatusTyped

LEMMA StatusStep == StatusInv /\ [Status!Next]_Status!statusVars => StatusInv'
<1> SUFFICES ASSUME StatusInv, [Status!Next]_Status!statusVars PROVE StatusInv'
    OBVIOUS
<1>1. CASE UNCHANGED Status!statusVars
    BY <1>1 DEF Status!statusVars, StatusInv, StatusTyped, FetchSound, NowHeld, Status!NothingInvented, Status!RowsExact, Status!HealthExact, Status!CardExact, Status!Tradable
<1>2. CASE Status!refreshAll
    BY <1>2, StartKeeps, ReadersApart DEF Status!refreshAll
<1>3. ASSUME NEW r \in Status!Readers, Status!Refresh(r) PROVE StatusInv'
    <2>1. {r} \subseteq Status!Readers \ {"card"}
      BY <1>3, ReadersApart DEF Status!Refresh, Status!Readers
    <2> QED
      BY <1>3, <2>1, StartKeeps DEF Status!Refresh
<1>4. ASSUME NEW a \in Accounts, Status!Connect(a) PROVE StatusInv'
    <2>1. ASSUME NEW i \in DOMAIN reads'
          PROVE DOMAIN reads'[i] = {"by", "got", "failed", "clean"} /\ FetchSound(i, reads'[i], account', facts')
      <3>1. CASE i \in DOMAIN reads
        <4>1. reads'[i] = [reads[i] EXCEPT !.clean = FALSE]
          BY <1>4, <2>1, <3>1 DEF Status!Connect
        <4>2. DOMAIN reads[i] = {"by", "got", "failed", "clean"} /\ FetchSound(i, reads[i], account, facts)
          BY <3>1 DEF StatusInv, StatusTyped
        <4> QED
          BY <4>1, <4>2 DEF FetchSound
      <3>2. CASE i \notin DOMAIN reads
        <4>1. i = <<"card", starts + 1>> /\ reads'[i] = Status!Fetch(a)
          BY <1>4, <2>1, <3>2 DEF Status!Connect
        <4> QED
          BY <1>4, <4>1, ReadersApart DEF FetchSound, Status!Fetch, Status!Connect
      <3> QED
        BY <3>1, <3>2
    <2>2. Status!NothingInvented'
      BY <1>4, ShownStays DEF StatusInv, Status!Connect
    <2> QED
      BY <1>4, <2>1, <2>2 DEF StatusInv, StatusTyped, Status!Connect
<1>5. CASE Status!Disconnect
    <2>1. ASSUME NEW i \in DOMAIN reads'
          PROVE DOMAIN reads'[i] = {"by", "got", "failed", "clean"} /\ FetchSound(i, reads'[i], account', facts')
      <3>1. i \in DOMAIN reads /\ reads'[i] = [reads[i] EXCEPT !.clean = @ /\ Status!Facts(i[1]) \cap {"balance"} = {}]
        BY <1>5, <2>1 DEF Status!Disconnect, Status!Changed
      <3>2. DOMAIN reads[i] = {"by", "got", "failed", "clean"} /\ FetchSound(i, reads[i], account, facts)
        BY <3>1 DEF StatusInv, StatusTyped
      <3>3. reads'[i].clean => reads[i].clean /\ i[1] # "card"
        BY <3>1, <3>2, ReadersApart
      <3>4. FetchSound(i, reads'[i], account', facts')
        BY <1>5, <3>1, <3>2, <3>3, FetchStays DEF Status!Disconnect
      <3> QED
        BY <3>1, <3>2, <3>4
    <2>2. exact' \subseteq exact \ {"card"}
      BY <1>5, ReadersApart DEF Status!Disconnect, Status!Changed
    <2>3. \A r \in exact' : readers'[r] = readers[r]
      BY <1>5, <2>2 DEF Status!Disconnect
    <2>4. DOMAIN readers' = Status!Readers
      BY <1>5 DEF Status!Disconnect, StatusInv, StatusTyped
    <2>5. Status!NothingInvented'
      BY <1>5, <2>2, <2>3 DEF Status!Disconnect, StatusInv, Status!NothingInvented, Status!RowsExact, Status!HealthExact, Status!CardExact, Status!Tradable
    <2> QED
      BY <1>5, <2>1, <2>4, <2>5 DEF StatusInv, StatusTyped, Status!Disconnect
<1>6. ASSUME NEW f \in Status!Shared, Status!Change(f) PROVE StatusInv'
    <2>1. PICK v : facts' = [facts EXCEPT ![f] = v]
      BY <1>6 DEF Status!Change
    <2>2. DOMAIN facts' = Status!Shared /\ \A g \in Status!Shared \ {f} : facts'[g] = facts[g]
      BY <2>1 DEF StatusInv, StatusTyped
    <2>3. ASSUME NEW i \in DOMAIN reads'
          PROVE DOMAIN reads'[i] = {"by", "got", "failed", "clean"} /\ FetchSound(i, reads'[i], account', facts')
      <3>1. i \in DOMAIN reads /\ reads'[i] = [reads[i] EXCEPT !.clean = @ /\ Status!Facts(i[1]) \cap {f} = {}]
        BY <1>6, <2>3 DEF Status!Change, Status!Changed
      <3>2. DOMAIN reads[i] = {"by", "got", "failed", "clean"} /\ FetchSound(i, reads[i], account, facts)
        BY <3>1 DEF StatusInv, StatusTyped
      <3>3. reads'[i].clean => reads[i].clean /\ f \notin Status!Facts(i[1])
        BY <3>1, <3>2
      <3>4. Status!Facts(i[1]) \subseteq Status!Shared
        BY <3>2, ReadersApart DEF FetchSound
      <3>5. FetchSound(i, reads'[i], account', facts')
        BY <1>6, <2>2, <3>1, <3>2, <3>3, <3>4, FetchStays DEF Status!Change
      <3> QED
        BY <3>1, <3>2, <3>5
    <2>4. exact' \subseteq exact /\ \A r \in exact' : f \notin Status!Facts(r)
      BY <1>6 DEF Status!Change, Status!Changed
    <2>5. Status!NothingInvented'
      <3> USE <1>6 DEF Status!Change, StatusInv, Status!NothingInvented
      <3>1. Status!RowsExact'
        <4> SUFFICES ASSUME NEW r \in Rows \cap exact' PROVE readers[r] \subseteq {facts'[g] : g \in Status!Facts(r)}
          BY DEF Status!RowsExact
        <4>1. \A g \in Status!Facts(r) : facts'[g] = facts[g]
          BY <2>2, <2>4, ReadersApart DEF Status!Readers
        <4>2. readers[r] \subseteq {facts[g] : g \in Status!Facts(r)}
          BY <2>4 DEF Status!RowsExact
        <4> QED
          BY <4>1, <4>2
      <3>2. Status!HealthExact'
        <4> SUFFICES ASSUME "health" \in exact' PROVE Status!HealthExact'
          BY DEF Status!HealthExact
        <4>1. \A g \in StatusContracts : facts'[g] = facts[g]
          BY <2>2, <2>4, ReadersApart DEF Status!Readers
        <4> QED
          BY <2>4, <4>1 DEF Status!HealthExact
      <3>3. Status!CardExact'
        BY <2>2, <2>4, ReadersApart DEF Status!CardExact
      <3>4. "market" \in exact' /\ readers["market"] = {"ready"} => Status!Tradable'
        <4> SUFFICES ASSUME "market" \in exact', readers["market"] = {"ready"} PROVE Status!Tradable'
          OBVIOUS
        <4>1. \A g \in {"paused", "holders", "supply"} : facts'[g] = facts[g]
          BY <2>2, <2>4, ReadersApart DEF Status!Readers
        <4> QED
          BY <2>4, <4>1 DEF Status!Tradable
      <3> QED
        BY <3>1, <3>2, <3>3, <3>4
    <2> QED
      BY <1>6, <2>2, <2>3, <2>5 DEF StatusInv, StatusTyped, Status!Change
<1>7. ASSUME NEW i \in DOMAIN reads, NEW f \in Status!Facts(i[1]), NEW failed \in BOOLEAN, Status!Serve(i, f, failed) PROVE StatusInv'
    <2>1. UNCHANGED <<open, account, facts, readers, exact>>
      BY <1>7 DEF Status!Serve
    <2>2. DOMAIN reads[i] = {"by", "got", "failed", "clean"} /\ FetchSound(i, reads[i], account, facts)
      BY DEF StatusInv, StatusTyped
    <2>3. DOMAIN reads' = DOMAIN reads /\ \A j \in DOMAIN reads \ {i} : reads'[j] = reads[j]
      BY <1>7 DEF Status!Serve
    <2>4. /\ DOMAIN reads'[i] = {"by", "got", "failed", "clean"}
          /\ reads'[i].by = reads[i].by /\ reads'[i].clean = reads[i].clean
          /\ IF failed THEN f \notin StatusContracts /\ reads'[i].failed = reads[i].failed \cup {f} /\ reads'[i].got = reads[i].got
             ELSE /\ reads'[i].failed = reads[i].failed
                  /\ DOMAIN reads'[i].got = DOMAIN reads[i].got \cup {f}
                  /\ \A g \in DOMAIN reads[i].got \cup {f} :
                        reads'[i].got[g] = IF g # f THEN reads[i].got[g] ELSE NowHeld(f, reads[i].by, facts)
      <3>1. CASE failed
        BY <1>7, <2>2, <3>1 DEF Status!Serve
      <3>2. CASE ~failed
        BY <1>7, <2>2, <3>2 DEF Status!Serve, NowHeld
      <3> QED
        BY <3>1, <3>2
    <2>5. FetchSound(i, reads'[i], account', facts')
      <3>1. f \notin DOMAIN reads[i].got \cup reads[i].failed
        BY <1>7 DEF Status!Serve
      <3>2. CASE failed
        BY <2>1, <2>2, <2>4, <3>1, <3>2 DEF FetchSound, NowHeld
      <3>3. CASE ~failed
        BY <2>1, <2>2, <2>4, <3>1, <3>3 DEF FetchSound, NowHeld
      <3> QED
        BY <3>2, <3>3
    <2>6. Status!NothingInvented'
      BY <2>1, ShownStays DEF StatusInv
    <2>7. \A j \in DOMAIN reads \ {i} : FetchSound(j, reads'[j], account', facts')
      BY <2>1, <2>3 DEF StatusInv, FetchSound, NowHeld
    <2> QED
      BY <2>1, <2>3, <2>4, <2>5, <2>6, <2>7 DEF StatusInv, StatusTyped
<1>8. ASSUME NEW i \in DOMAIN reads, Status!Land(i) PROVE StatusInv'
    <2> DEFINE r == i[1]
               got == reads[i].got
    <2>1. FetchSound(i, reads[i], account, facts) /\ r \in Status!Readers /\ Status!Facts(r) = DOMAIN got \cup reads[i].failed
      BY <1>8 DEF Status!Land, StatusInv, FetchSound
    <2>2. UNCHANGED <<open, account, facts>> /\ DOMAIN readers' = Status!Readers /\ readers'[r] = Status!Shown(r, got)
          /\ \A x \in Status!Readers \ {r} : readers'[x] = readers[x]
      BY <1>8, <2>1 DEF Status!Land, StatusInv, StatusTyped
    <2>3. DOMAIN reads' \subseteq DOMAIN reads /\ \A j \in DOMAIN reads' : reads'[j] = reads[j]
      BY <1>8 DEF Status!Land
    <2>4. exact' = IF r = "blocklist" /\ reads[i].failed # {} THEN exact
                   ELSE IF reads[i].clean THEN exact \cup {r} ELSE exact \ {r}
      BY <1>8 DEF Status!Land
    <2>5. \A j \in DOMAIN reads' : FetchSound(j, reads'[j], account', facts')
      BY <2>2, <2>3 DEF StatusInv, FetchSound, NowHeld
    <2>6. Status!NothingInvented'
      <3>1. \A x \in exact' \ {r} : x \in exact
        BY <2>4
      <3>2. r \in exact' =>
              \/ r = "blocklist" /\ r \in exact /\ readers'[r] = readers[r]
              \/ reads[i].clean /\ (r = "blocklist" => DOMAIN got = Status!Facts(r)) /\ \A f \in DOMAIN got : got[f] = NowHeld(f, reads[i].by, facts)
        <4>1. CASE r = "blocklist" /\ reads[i].failed # {}
          <5>1. Status!Facts(r) = {"blocked"}
            BY <4>1 DEF Status!Facts
          <5>2. "blocked" \notin DOMAIN got
            BY <2>1, <4>1, <5>1 DEF FetchSound
          <5> QED
            BY <2>2, <2>4, <4>1, <5>2 DEF Status!Shown
        <4>2. CASE ~(r = "blocklist" /\ reads[i].failed # {})
          BY <2>1, <2>4, <4>2 DEF FetchSound
        <4> QED
          BY <4>1, <4>2
      <3>3. Status!RowsExact'
        <4> SUFFICES ASSUME NEW x \in Rows \cap exact' PROVE readers'[x] \subseteq {facts[g] : g \in Status!Facts(x)}
          BY <2>2 DEF Status!RowsExact
        <4>1. CASE x # r
          BY <2>2, <3>1, <4>1 DEF StatusInv, Status!NothingInvented, Status!RowsExact, Status!Readers
        <4>2. CASE x = r /\ r = "blocklist" /\ r \in exact /\ readers'[r] = readers[r]
          BY <4>2 DEF StatusInv, Status!NothingInvented, Status!RowsExact
        <4>3. CASE x = r /\ reads[i].clean /\ (r = "blocklist" => DOMAIN got = Status!Facts(r)) /\ \A f \in DOMAIN got : got[f] = NowHeld(f, reads[i].by, facts)
          <5>1. \A f \in DOMAIN got : got[f] = facts[f] /\ f \in Status!Facts(r)
            BY <2>1, <4>3, ReadersApart DEF NowHeld
          <5>2. CASE r = "blocklist"
            <6>1. Status!Facts(r) = {"blocked"}
              BY <5>2 DEF Status!Facts
            <6>2. Status!Shown(r, got) = {got["blocked"]}
              BY <4>3, <5>2, <6>1 DEF Status!Shown
            <6>3. readers'[x] = {got["blocked"]} /\ got["blocked"] = facts["blocked"] /\ "blocked" \in Status!Facts(x)
              BY <2>2, <4>3, <5>1, <5>2, <6>1, <6>2
            <6> QED
              BY <6>3
          <5>3. CASE r # "blocklist"
            <6>1. Status!Shown(r, got) = {got[f] : f \in DOMAIN got}
              BY <4>3, <5>3, ReadersApart, ViewsAreApart DEF Status!Shown
            <6>2. readers'[x] = {got[f] : f \in DOMAIN got}
              BY <2>2, <4>3, <6>1
            <6> QED
              BY <4>3, <5>1, <6>2
          <5> QED
            BY <5>2, <5>3
        <4> QED
          BY <3>2, <4>1, <4>2, <4>3
      <3>4. Status!HealthExact'
        <4> SUFFICES ASSUME "health" \in exact' PROVE Status!HealthExact'
          BY DEF Status!HealthExact
        <4>1. CASE r # "health"
          BY <2>2, <3>1, <4>1, ReadersApart DEF StatusInv, Status!NothingInvented, Status!HealthExact
        <4>2. CASE r = "health"
          <5>1. DOMAIN got = StatusContracts /\ \A c \in StatusContracts : got[c] = facts[c]
            BY <2>1, <3>2, <4>2, ReadersApart, ViewsAreApart DEF FetchSound, NowHeld
          <5>2. readers'["health"] = {Status!deriveOverallStatus(got)}
            BY <2>2, <4>2 DEF Status!Shown
          <5>3. /\ Status!deriveOverallStatus(got) = "ok" <=> \A c \in StatusContracts : facts[c] = "ok"
                /\ Status!deriveOverallStatus(got) = "unreachable" <=> \A c \in StatusContracts : facts[c] = "unreachable"
            BY <5>1, ViewsAreApart DEF Status!deriveOverallStatus
          <5> QED
            BY <2>2, <5>2, <5>3 DEF Status!HealthExact
        <4> QED
          BY <4>1, <4>2
      <3>5. Status!CardExact'
        <4>1. CASE r # "card"
          BY <2>2, <3>1, <4>1, ReadersApart DEF StatusInv, Status!NothingInvented, Status!CardExact
        <4>2. CASE r = "card"
          <5>1. "card" \in exact' => readers'["card"] = {Status!Or(got, "balance", 0)} /\ reads[i].clean
            BY <2>2, <3>2, <4>2 DEF Status!Shown
          <5>2. reads[i].clean => reads[i].by = account /\ ("balance" \in DOMAIN got => got["balance"] = facts["balance"][account])
            BY <2>1, <4>2 DEF FetchSound, NowHeld
          <5> QED
            BY <2>2, <5>1, <5>2 DEF Status!CardExact, Status!Or
        <4> QED
          BY <4>1, <4>2
      <3>6. "market" \in exact' /\ readers'["market"] = {"ready"} => Status!Tradable'
        <4>1. CASE r # "market"
          BY <2>2, <3>1, <4>1, ReadersApart DEF StatusInv, Status!NothingInvented, Status!Tradable
        <4>2. CASE r = "market"
          <5> SUFFICES ASSUME "market" \in exact', readers'["market"] = {"ready"} PROVE Status!Tradable
            BY <2>2 DEF Status!Tradable
          <5>1. Status!buildListings(got) = "ready"
            BY <2>2, <4>2 DEF Status!Shown
          <5>2. \A f \in DOMAIN got : got[f] = NowHeld(f, reads[i].by, facts)
            BY <3>2, <4>2
          <5>3. /\ "paused" \in DOMAIN got /\ ~got["paused"]
                /\ "supply" \in DOMAIN got /\ got["supply"] > 0 /\ "holders" \in DOMAIN got /\ got["holders"] > 0
            BY <5>1 DEF Status!buildListings, Status!Or, Status!Minted, Status!Held
          <5> QED
            BY <5>2, <5>3 DEF Status!Tradable, NowHeld
        <4> QED
          BY <4>1, <4>2
      <3> QED
        BY <3>3, <3>4, <3>5, <3>6 DEF Status!NothingInvented
    <2> QED
      BY <2>2, <2>3, <2>5, <2>6 DEF StatusInv, StatusTyped
<1> QED
    BY <1>1, <1>2, <1>3, <1>4, <1>5, <1>6, <1>7, <1>8 DEF Status!Next

\* What a status page shows as known is so, unless the contracts changed under its reads, and what it could not read
\* it shows as unknown (OperatorDashboard.tsx, MarketplacePage.tsx, deploymentHealth.ts, StatusCard.tsx).
THEOREM ViewsHold == Status!Spec => []NothingInvented
<1>1. StatusInv => Status!NothingInvented
    BY DEF StatusInv
<1> QED
    BY <1>1, StatusBegins, StatusStep, PTL DEF Status!Spec, NothingInvented

----------------------------------------------------------------------------
(* The alerts (AlertMonitor) *)

AlertEvents == [topic : Alerts!Topics, address : Addresses, at : Nat]

Monitors == [on : BOOLEAN, seen : Seq(Nat), hits : [Addresses -> Seq(Nat)], told : Seq(Nat)]

Polls == [no : Nat, cancelled : BOOLEAN, served : BOOLEAN, upto : Nat, got : Seq(Nat)]

Handlings == [seen : Seq(Nat), hits : [Addresses -> Seq(Nat)], told : Seq(Nat), queue : Seq(BOOLEAN), unread : Nat]

AlertsTyped ==
    /\ events \in Seq(AlertEvents) /\ now \in Nat /\ monitor \in Monitors /\ polls \subseteq Polls
    /\ asked \in Nat /\ notices \in Seq(BOOLEAN)

\* Where the lookback begins: a poll asks for nothing older.
FirstAt(happened, clock) == Alerts!Cardinality({i \in DOMAIN happened : happened[i].at < clock - Lookback}) + 1

\* A poll that was answered and not taken yet holds the events from there on, as the clock waits for it.
PollsSound(first) ==
    /\ \A p \in polls : p.no <= asked /\ (~p.cancelled => monitor.on)
    /\ \A p, r \in polls : p.no = r.no => p = r
    /\ \A p \in polls : p.served => /\ Len(p.got) <= Limit /\ first + Len(p.got) <= Len(events) + 1
                                    /\ \A k \in 1..Len(p.got) : p.got[k] = first + k - 1

\* The keys remembered grow, reach no further than one poll does, and leave no gap behind the lookback; of the events
\* alerted on, those that a poll can still bring are remembered.
KeysSound(seen, told, first) ==
    /\ \A k, l \in DOMAIN seen : k < l => seen[l] - seen[k] >= l - k
    /\ \A k \in DOMAIN seen : seen[k] < first + Limit
    /\ \A k \in DOMAIN seen : \A i \in first..seen[k] : \E l \in DOMAIN seen : seen[l] = i
    /\ \A t \in DOMAIN told : told[t] < first \/ \E l \in DOMAIN seen : seen[l] = told[t]
    /\ \A t, u \in DOMAIN told : told[t] = told[u] => t = u

\* The strengthening of AlertsSound: an event that was alerted on and can still be brought by a poll is remembered.
\* That takes Limit <= MaxSeen.
AlertInv ==
    /\ AlertsTyped /\ PollsSound(FirstAt(events, now)) /\ KeysSound(monitor.seen, monitor.told, FirstAt(events, now))
    /\ Alerts!UnreadExact

\* What an instance counts is counted.
LEMMA OneCount == \A S : Alerts!Cardinality(S) = Cardinality(S)
BY Zenon DEF Alerts!Cardinality, Cardinality

\* Cardinalities of sets of positions.
LEMMA PositionsCounted ==
    ASSUME NEW n \in Nat, NEW T \in SUBSET (1..n) PROVE Alerts!Cardinality(T) \in Nat /\ Alerts!Cardinality(T) <= n
<1>1. IsFiniteSet(1..n) /\ Cardinality(1..n) = n
    BY FS_Interval
<1>2. IsFiniteSet(T) /\ Cardinality(T) <= n
    BY <1>1, FS_Subset
<1> QED
    BY <1>2, FS_CardinalityType, OneCount

LEMMA FewerPositions ==
    ASSUME NEW n \in Nat, NEW T \in SUBSET (1..n), NEW U \in SUBSET T PROVE Alerts!Cardinality(U) <= Alerts!Cardinality(T)
<1>1. IsFiniteSet(1..n)
    BY FS_Interval
<1>2. IsFiniteSet(T)
    BY <1>1, FS_Subset
<1> QED
    BY <1>2, FS_Subset, OneCount

LEMMA NoPositions == Alerts!Cardinality({}) = 0
BY FS_EmptySet, OneCount

LEMMA UnreadCounts == ASSUME NEW q \in Seq(BOOLEAN) PROVE Alerts!Unread(q) \in Nat
<1>1. {i \in DOMAIN q : ~q[i]} \in SUBSET (1..Len(q)) /\ Len(q) \in Nat
    OBVIOUS
<1> QED
    BY <1>1, PositionsCounted DEF Alerts!Unread

\* The queue after a notification.
LEMMA PushKeeps ==
    ASSUME NEW q \in Seq(BOOLEAN), NEW n \in BOOLEAN
    PROVE  Alerts!push(q, n).queue \in Seq(BOOLEAN) /\ Alerts!push(q, n).unread = Alerts!Unread(Alerts!push(q, n).queue) /\ Alerts!push(q, n).unread \in Nat
<1> DEFINE m == IF Len(q) < QueueCap THEN Len(q) + 1 ELSE QueueCap
           kept == SubSeq(<<n>> \o q, 1, m)
<1>1. m \in Nat /\ m <= Len(q) + 1
    BY AlertsAreCapped
<1>2. <<n>> \o q \in Seq(BOOLEAN) /\ Len(<<n>> \o q) = Len(q) + 1
    OBVIOUS
<1>3. kept \in Seq(BOOLEAN)
    <2> HIDE DEF m
    <2> QED
      BY <1>1, <1>2
<1>4. Alerts!push(q, n) = [queue |-> kept, unread |-> Alerts!Unread(kept)]
    BY DEF Alerts!push
<1> HIDE DEF kept
<1> QED
    BY <1>3, <1>4, UnreadCounts

LEMMA HitsRecorded ==
    ASSUME NEW hits \in [Addresses -> Seq(Nat)], NEW a \in Addresses, now \in Nat PROVE Alerts!record(hits, a) \in Seq(Nat)
<1> DEFINE old == {k \in DOMAIN hits[a] : now - hits[a][k] >= Window}
<1>1. hits[a] \in Seq(Nat) /\ Len(hits[a]) \in Nat
    OBVIOUS
<1>2. old \in SUBSET (1..Len(hits[a]))
    BY <1>1
<1>3. Alerts!Cardinality(old) \in Nat /\ Alerts!Cardinality(old) <= Len(hits[a])
    BY <1>1, <1>2, PositionsCounted
<1>4. Alerts!record(hits, a) = Append(SubSeq(hits[a], Alerts!Cardinality(old) + 1, Len(hits[a])), now)
    BY DEF Alerts!record
<1> HIDE DEF old
<1>5. SubSeq(hits[a], Alerts!Cardinality(old) + 1, Len(hits[a])) \in Seq(Nat)
    BY <1>1, <1>3
<1> QED
    BY <1>4, <1>5

\* One event of an answer.
LEMMA HandleIs ==
    ASSUME NEW st \in Handlings, NEW i \in 1..Len(events), AlertsTyped
    PROVE  /\ Alerts!Handle(st, i) \in Handlings
           /\ st.unread = Alerts!Unread(st.queue) => Alerts!Handle(st, i).unread = Alerts!Unread(Alerts!Handle(st, i).queue)
           /\ Alerts!Contains(st.seen, i) => Alerts!Handle(st, i) = st
           /\ ~Alerts!Contains(st.seen, i) => /\ Alerts!Handle(st, i).seen = Append(st.seen, i)
                                              /\ Alerts!Handle(st, i).told = st.told \/ Alerts!Handle(st, i).told = Append(st.told, i)
<1> DEFINE a == events[i].address
           one == Alerts!push(st.queue, FALSE)
           hits == Alerts!record(st.hits, a)
           two == Alerts!push(one.queue, FALSE)
           repeated == events[i].topic = "blocked" /\ Len(hits) >= Threshold
           pushed == IF repeated THEN two ELSE one
           counted == IF events[i].topic = "blocked" THEN [st.hits EXCEPT ![a] = hits] ELSE st.hits
           seen == [st EXCEPT !.seen = Append(st.seen, i)]
           all == [seen EXCEPT !.queue = pushed.queue, !.unread = pushed.unread, !.told = Append(st.told, i), !.hits = counted]
<1>1. /\ st.seen \in Seq(Nat) /\ st.hits \in [Addresses -> Seq(Nat)] /\ st.told \in Seq(Nat) /\ st.queue \in Seq(BOOLEAN)
      /\ st.unread \in Nat /\ i \in Nat
    BY DEF Handlings, AlertsTyped
<1>2. events[i] \in AlertEvents /\ a \in Addresses /\ now \in Nat
    <2>1. events[i] \in AlertEvents /\ now \in Nat
      BY DEF AlertsTyped
    <2> QED
      BY <2>1 DEF AlertEvents
<1>3. one.queue \in Seq(BOOLEAN) /\ one.unread = Alerts!Unread(one.queue) /\ one.unread \in Nat
    BY <1>1, PushKeeps
<1>4. two.queue \in Seq(BOOLEAN) /\ two.unread = Alerts!Unread(two.queue) /\ two.unread \in Nat
    BY <1>3, PushKeeps
<1>5. hits \in Seq(Nat)
    BY <1>1, <1>2, HitsRecorded
<1>6. Alerts!Handle(st, i) = IF Alerts!Contains(st.seen, i) THEN st ELSE IF ~Alerts!Alerts(events[i].topic) THEN seen ELSE all
    BY DEF Alerts!Handle
<1> HIDE DEF one, two, repeated
<1>7. pushed.queue \in Seq(BOOLEAN) /\ pushed.unread = Alerts!Unread(pushed.queue) /\ pushed.unread \in Nat
    BY <1>3, <1>4
<1> HIDE DEF hits, a
<1>8. counted \in [Addresses -> Seq(Nat)]
    BY <1>1, <1>2, <1>5
<1>9. Append(st.seen, i) \in Seq(Nat) /\ Append(st.told, i) \in Seq(Nat)
    BY <1>1
<1> HIDE DEF pushed, counted
<1>10. seen \in Handlings /\ seen.seen = Append(st.seen, i) /\ seen.told = st.told /\ seen.queue = st.queue /\ seen.unread = st.unread
    BY <1>9 DEF Handlings
<1>11. /\ all \in Handlings /\ all.seen = Append(st.seen, i) /\ all.told = Append(st.told, i) /\ all.queue = pushed.queue
       /\ all.unread = pushed.unread
    BY <1>7, <1>8, <1>9 DEF Handlings
<1> HIDE DEF seen, all
<1> QED
    BY <1>6, <1>7, <1>10, <1>11

\* A key that is not remembered is later than all that are.
LEMMA KeyAdded ==
    ASSUME NEW seen \in Seq(Nat), NEW told \in Seq(Nat), NEW first \in Nat, NEW i \in Nat, KeysSound(seen, told, first),
           first <= i, i < first + Limit, \A j \in first..(i - 1) : \E l \in DOMAIN seen : seen[l] = j,
           \A l \in DOMAIN seen : seen[l] # i, NEW more, more = told \/ more = Append(told, i)
    PROVE  KeysSound(Append(seen, i), more, first)
<1> DEFINE keys == Append(seen, i)
           n == Len(seen)
<1>1. n \in Nat /\ DOMAIN seen = 1..n /\ DOMAIN keys = 1..(n + 1) /\ keys[n + 1] = i /\ \A k \in 1..n : keys[k] = seen[k] /\ seen[k] \in Nat
    OBVIOUS
<1> HIDE DEF keys, n
<1>a. \A k, l \in 1..n : k < l => seen[l] - seen[k] >= l - k
    BY <1>1 DEF KeysSound
<1>b. \A k \in 1..n : seen[k] < first + Limit
    BY <1>1 DEF KeysSound
<1>c. \A k \in 1..n : \A j \in first..seen[k] : \E l \in 1..n : seen[l] = j
    BY <1>1 DEF KeysSound
<1>2. ASSUME NEW k \in 1..n PROVE seen[k] < i
    <2>1. ASSUME i <= seen[k] PROVE FALSE
      <3>1. i \in first..seen[k]
        BY <1>1, <2>1
      <3> QED
        BY <1>1, <1>c, <3>1
    <2> QED
      BY <1>1, <2>1
<1>3. ASSUME NEW k \in 1..(n + 1), NEW l \in 1..(n + 1), k < l PROVE keys[l] - keys[k] >= l - k
    <2>1. CASE l \in 1..n
      BY <1>1, <1>3, <1>a, <2>1
    <2>2. CASE l = n + 1
      <3>1. k \in 1..n /\ n \in 1..n
        BY <1>1, <1>3, <2>2
      <3>2. seen[n] - seen[k] >= n - k
        <4>1. CASE k = n
          BY <1>1, <3>1, <4>1
        <4>2. CASE k < n
          BY <1>1, <1>a, <3>1, <4>2
        <4> QED
          BY <1>1, <3>1, <4>1, <4>2
      <3> QED
        BY <1>1, <1>2, <2>2, <3>1, <3>2
    <2> QED
      BY <1>1, <2>1, <2>2
<1>4. \A k \in 1..(n + 1) : keys[k] < first + Limit
    BY <1>1, <1>b
<1>5. ASSUME NEW k \in 1..(n + 1), NEW j \in first..keys[k] PROVE \E l \in 1..(n + 1) : keys[l] = j
    <2>1. CASE k \in 1..n
      <3>1. \E l \in 1..n : seen[l] = j
        BY <1>1, <1>c, <2>1
      <3> QED
        BY <1>1, <3>1
    <2>2. CASE k = n + 1 /\ j # i
      <3>1. j \in first..(i - 1)
        BY <1>1, <2>2
      <3>2. \E l \in 1..n : seen[l] = j
        BY <1>1, <3>1
      <3> QED
        BY <1>1, <3>2
    <2>3. CASE j = i
      BY <1>1, <2>3
    <2> QED
      BY <1>1, <2>1, <2>2, <2>3
<1>6. \A t \in DOMAIN told : told[t] < first \/ \E l \in 1..(n + 1) : keys[l] = told[t]
    BY <1>1 DEF KeysSound
<1>7. \A t \in DOMAIN told : told[t] # i
    BY <1>1 DEF KeysSound
<1>8. /\ \A t \in DOMAIN more : more[t] < first \/ \E l \in 1..(n + 1) : keys[l] = more[t]
      /\ \A t, u \in DOMAIN more : more[t] = more[u] => t = u
    <2>1. CASE more = told
      BY <1>6, <2>1 DEF KeysSound
    <2>2. CASE more = Append(told, i)
      <3>1. /\ Len(told) \in Nat /\ DOMAIN told = 1..Len(told) /\ DOMAIN more = 1..(Len(told) + 1) /\ more[Len(told) + 1] = i
            /\ \A t \in 1..Len(told) : more[t] = told[t]
        BY <2>2
      <3>2. \A t \in 1..(Len(told) + 1) : t \in 1..Len(told) \/ t = Len(told) + 1
        BY <3>1
      <3>3. n + 1 \in 1..(n + 1)
        BY <1>1
      <3> QED
        BY <1>1, <1>6, <1>7, <3>1, <3>2, <3>3 DEF KeysSound
    <2> QED
      BY <2>1, <2>2
<1> QED
    BY <1>1, <1>3, <1>4, <1>5, <1>8 DEF KeysSound, keys

\* What is forgotten is behind the lookback.
LEMMA TrimKeeps ==
    ASSUME NEW seen \in Seq(Nat), NEW told \in Seq(Nat), NEW first \in Nat, KeysSound(seen, told, first)
    PROVE  Alerts!Trim(seen) \in Seq(Nat) /\ KeysSound(Alerts!Trim(seen), told, first)
<1>1. CASE Len(seen) <= MaxSeen
    <2>1. Alerts!Trim(seen) = seen
      BY <1>1, AlertsAreCapped DEF Alerts!Trim
    <2> QED
      BY <2>1
<1>2. CASE Len(seen) > MaxSeen
    <2> DEFINE n == Len(seen)
               d == n - MaxSeen
               kept == SubSeq(seen, d + 1, n)
    <2>1. Alerts!Trim(seen) = kept
      BY <1>2 DEF Alerts!Trim
    <2>2. n \in Nat /\ d \in Nat /\ d >= 1 /\ d <= n /\ MaxSeen \in Nat /\ Limit \in Nat /\ Limit <= MaxSeen /\ n = d + MaxSeen
          /\ DOMAIN seen = 1..n /\ (\A k \in 1..n : seen[k] \in Nat)
      BY <1>2, AlertsAreCapped
    <2>3. kept \in Seq(Nat) /\ DOMAIN kept = 1..MaxSeen /\ \A k \in 1..MaxSeen : kept[k] = seen[k + d] /\ k + d \in 1..n
      BY <2>2
    <2> HIDE DEF kept, d, n
    <2>a. \A k, l \in 1..n : k < l => seen[l] - seen[k] >= l - k
      BY <2>2 DEF KeysSound
    <2>b. \A k \in 1..n : seen[k] < first + Limit
      BY <2>2 DEF KeysSound
    <2>c. \A k \in 1..n : \A j \in first..seen[k] : \E l \in 1..n : seen[l] = j
      BY <2>2 DEF KeysSound
    <2>4. ASSUME NEW k \in 1..n, k <= d PROVE seen[k] < first
      <3>1. CASE k = n
        <4>1. seen[n] < first + Limit /\ MaxSeen = 0
          BY <2>2, <2>4, <2>b, <3>1
        <4> QED
          BY <2>2, <3>1, <4>1
      <3>2. CASE k < n
        <4>1. n \in 1..n /\ seen[n] - seen[k] >= n - k /\ seen[n] < first + Limit
          BY <2>2, <2>a, <2>b, <3>2
        <4> QED
          BY <2>2, <2>4, <4>1
      <3> QED
        BY <2>2, <3>1, <3>2
    <2>5. ASSUME NEW j \in Nat, j >= first, NEW l \in 1..n, seen[l] = j PROVE \E m \in 1..MaxSeen : kept[m] = j
      <3>1. ~(l <= d)
        BY <2>2, <2>4, <2>5
      <3>2. l - d \in 1..MaxSeen /\ (l - d) + d = l
        BY <2>2, <3>1
      <3> QED
        BY <2>3, <2>5, <3>2
    <2>6. \A k, l \in 1..MaxSeen : k < l => kept[l] - kept[k] >= l - k
      <3> SUFFICES ASSUME NEW k \in 1..MaxSeen, NEW l \in 1..MaxSeen, k < l PROVE kept[l] - kept[k] >= l - k
        OBVIOUS
      <3>1. seen[l + d] - seen[k + d] >= (l + d) - (k + d)
        BY <2>2, <2>3, <2>a
      <3> QED
        BY <2>2, <2>3, <3>1
    <2>7. \A k \in 1..MaxSeen : kept[k] < first + Limit
      BY <2>2, <2>3, <2>b
    <2>8. ASSUME NEW k \in 1..MaxSeen, NEW j \in first..kept[k] PROVE \E l \in 1..MaxSeen : kept[l] = j
      <3>1. \E l \in 1..n : seen[l] = j
        BY <2>2, <2>3, <2>c
      <3>2. j \in Nat /\ j >= first
        BY <2>2, <2>3
      <3> QED
        BY <2>5, <3>1, <3>2
    <2>9. ASSUME NEW t \in DOMAIN told PROVE told[t] < first \/ \E l \in 1..MaxSeen : kept[l] = told[t]
      <3>1. told[t] \in Nat /\ (told[t] < first \/ \E l \in 1..n : seen[l] = told[t])
        BY <2>2 DEF KeysSound
      <3> QED
        BY <2>5, <3>1
    <2>10. \A t, u \in DOMAIN told : told[t] = told[u] => t = u
      BY DEF KeysSound
    <2> QED
      BY <2>1, <2>3, <2>6, <2>7, <2>8, <2>9, <2>10 DEF KeysSound
<1> QED
    BY <1>1, <1>2, AlertsAreCapped

LEMMA KeysLater ==
    ASSUME NEW seen \in Seq(Nat), NEW told \in Seq(Nat), NEW first \in Nat, NEW later \in Nat, first <= later, KeysSound(seen, told, first)
    PROVE  KeysSound(seen, told, later)
<1>1. \A k \in DOMAIN seen : seen[k] \in Nat
    OBVIOUS
<1>2. \A t \in DOMAIN told : told[t] \in Nat
    OBVIOUS
<1>3. \A k \in DOMAIN seen : seen[k] < later + Limit
    BY <1>1, AlertsAreCapped DEF KeysSound
<1>4. \A k \in DOMAIN seen : \A i \in later..seen[k] : i \in first..seen[k]
    BY <1>1
<1>5. \A t \in DOMAIN told : told[t] < first => told[t] < later
    BY <1>2
<1> QED
    BY <1>3, <1>4, <1>5 DEF KeysSound

\* The answers of a poll, event by event.
HandledUpTo(st, got) == CHOOSE upto : upto = [k \in 0..Len(got) |-> IF k = 0 THEN st ELSE Alerts!Handle(upto[k - 1], got[k])]

LEMMA HandledIs == ASSUME NEW st, NEW got PROVE Alerts!Handled(st, got) = HandledUpTo(st, got)[Len(got)]
BY DEF Alerts!Handled, HandledUpTo

LEMMA HandledSteps ==
    ASSUME NEW st \in Handlings, NEW got \in Seq(1..Len(events)), AlertsTyped
    PROVE  /\ HandledUpTo(st, got)[0] = st
           /\ \A k \in 1..Len(got) : HandledUpTo(st, got)[k] = Alerts!Handle(HandledUpTo(st, got)[k - 1], got[k])
<1> DEFINE n == Len(got)
           step == [k \in 1..n |-> [v \in Handlings |-> Alerts!Handle(v, got[k])]]
<1>1. n \in Nat /\ \A k \in 1..n : got[k] \in 1..Len(events)
    OBVIOUS
<1>2. \A k \in 1..n, v \in Handlings : Alerts!Handle(v, got[k]) \in Handlings
    BY <1>1, HandleIs
<1>3. step \in [1..n -> [Handlings -> Handlings]] /\ \A k \in 1..n, v \in Handlings : step[k][v] = Alerts!Handle(v, got[k])
    BY <1>2
<1> HIDE DEF step
<1>4. PICK f : f \in [0..n -> Handlings] /\ f[0] = st /\ \A k \in 1..n : f[k] = step[k][f[k - 1]]
    <2>1. \E f : Runs(f, Handlings, st, n, step)
      BY <1>1, <1>3, Recursion
    <2> QED
      BY <2>1 DEF Runs
<1>5. ASSUME NEW k \in 1..n PROVE f[k] = Alerts!Handle(f[k - 1], got[k])
    <2>1. k - 1 \in 0..n
      BY <1>1
    <2>2. f[k - 1] \in Handlings
      BY <1>4, <2>1
    <2> QED
      BY <1>3, <1>4, <2>2
<1>6. f = [k \in 0..n |-> IF k = 0 THEN st ELSE Alerts!Handle(f[k - 1], got[k])]
    <2>1. ASSUME NEW k \in 0..n PROVE f[k] = IF k = 0 THEN st ELSE Alerts!Handle(f[k - 1], got[k])
      BY <1>1, <1>4, <1>5
    <2> QED
      BY <1>4, <2>1
<1> DEFINE u == HandledUpTo(st, got)
<1>7. u = [k \in 0..n |-> IF k = 0 THEN st ELSE Alerts!Handle(u[k - 1], got[k])]
    BY <1>6 DEF HandledUpTo
<1> HIDE DEF u
<1>8. u[0] = st /\ \A k \in 1..n : u[k] = Alerts!Handle(u[k - 1], got[k])
    <2>1. 0 \in 0..n /\ \A k \in 1..n : k \in 0..n /\ k # 0
      BY <1>1
    <2> HIDE DEF n
    <2> QED
      BY <1>7, <2>1
<1> QED
    BY <1>8 DEF u

LEMMA HandledKeeps ==
    ASSUME AlertsTyped, NEW st \in Handlings, NEW got \in Seq(1..Len(events)), NEW first \in Nat,
           Len(got) <= Limit, \A k \in 1..Len(got) : got[k] = first + k - 1,
           KeysSound(st.seen, st.told, first), st.unread = Alerts!Unread(st.queue)
    PROVE  /\ Alerts!Handled(st, got) \in Handlings /\ Alerts!Handled(st, got).unread = Alerts!Unread(Alerts!Handled(st, got).queue)
           /\ KeysSound(Alerts!Handled(st, got).seen, Alerts!Handled(st, got).told, first)
<1>1. PICK u : u = HandledUpTo(st, got)
    OBVIOUS
<1>2. u[0] = st /\ \A k \in 1..Len(got) : u[k] = Alerts!Handle(u[k - 1], got[k])
    BY <1>1, HandledSteps
<1> DEFINE Sound(v, k) == /\ v \in Handlings /\ v.unread = Alerts!Unread(v.queue) /\ KeysSound(v.seen, v.told, first)
                          /\ \A j \in first..(first + k - 1) : \E l \in DOMAIN v.seen : v.seen[l] = j
           N == {k \in Nat : k <= Len(got) => Sound(u[k], k)}
<1>3. Len(got) \in Nat /\ Limit \in Nat
    BY AlertsAreCapped
<1>4. 0 \in N
    BY <1>2
<1>5. ASSUME NEW k \in Nat, k \in N PROVE k + 1 \in N
    <2> SUFFICES ASSUME k + 1 <= Len(got) PROVE Sound(u[k + 1], k + 1)
      OBVIOUS
    <2>1. Sound(u[k], k)
      <3> HIDE DEF Sound
      <3>1. k <= Len(got) => Sound(u[k], k)
        BY <1>5
      <3> QED
        BY <1>3, <3>1
    <2>2. k + 1 \in 1..Len(got) /\ u[k + 1] = Alerts!Handle(u[k], got[k + 1])
      BY <1>2, <1>3
    <2>3. PICK i \in 1..Len(events) : i = got[k + 1] /\ i = first + k
      BY <1>3, <2>2
    <2>4. PICK v \in Handlings : v = u[k]
      BY <2>1
    <2>5. PICK w : w = Alerts!Handle(v, i)
      OBVIOUS
    <2>6. u[k + 1] = w
      BY <2>2, <2>3, <2>4, <2>5
    <2>7. Sound(v, k)
      BY <2>1, <2>4
    <2>8. v.seen \in Seq(Nat) /\ v.told \in Seq(Nat) /\ i \in Nat /\ first <= i /\ i < first + Limit /\ first + k - 1 = i - 1
      BY <1>3, <2>2, <2>3 DEF Handlings
    <2>9. w \in Handlings /\ w.unread = Alerts!Unread(w.queue)
      BY <2>5, <2>7, HandleIs
    <2>a. PICK keys \in Seq(Nat) : keys = v.seen
      BY <2>8
    <2>b. DOMAIN keys = 1..Len(keys) /\ Len(keys) \in Nat
      OBVIOUS
    <2>c. \A j \in first..(first + k - 1) : \E l \in DOMAIN keys : keys[l] = j
      BY <2>7, <2>a
    <2>10. CASE Alerts!Contains(v.seen, i)
      <3>1. w = v
        BY <2>5, <2>10, HandleIs
      <3>2. \E l \in DOMAIN keys : keys[l] = i
        BY <2>10, <2>a, <2>b DEF Alerts!Contains
      <3>3. \A j \in first..(first + (k + 1) - 1) : j \in first..(first + k - 1) \/ j = i
        BY <2>3, <2>8
      <3>4. \A j \in first..(first + (k + 1) - 1) : \E l \in DOMAIN keys : keys[l] = j
        BY <2>c, <3>2, <3>3
      <3> QED
        BY <2>6, <2>7, <2>a, <3>1, <3>4
    <2>11. CASE ~Alerts!Contains(v.seen, i)
      <3>1. w.seen = Append(keys, i) /\ (w.told = v.told \/ w.told = Append(v.told, i))
        <4>1. ~Alerts!Contains(v.seen, i) => /\ Alerts!Handle(v, i).seen = Append(v.seen, i)
                                             /\ Alerts!Handle(v, i).told = v.told \/ Alerts!Handle(v, i).told = Append(v.told, i)
          BY HandleIs
        <4>2. Alerts!Handle(v, i).seen = Append(v.seen, i) /\ (Alerts!Handle(v, i).told = v.told \/ Alerts!Handle(v, i).told = Append(v.told, i))
          BY <2>11, <4>1, Zenon
        <4> QED
          BY <2>5, <2>a, <4>2
      <3>2. \A l \in DOMAIN keys : keys[l] # i
        BY <2>11, <2>a, <2>b DEF Alerts!Contains
      <3>3. KeysSound(keys, v.told, first) /\ \A j \in first..(i - 1) : \E l \in DOMAIN keys : keys[l] = j
        BY <2>7, <2>8, <2>a, <2>c
      <3>4. KeysSound(w.seen, w.told, first)
        BY <2>8, <3>1, <3>2, <3>3, KeyAdded
      <3>5. PICK longer : longer = Append(keys, i)
        OBVIOUS
      <3>6. DOMAIN longer = 1..(Len(keys) + 1) /\ longer[Len(keys) + 1] = i /\ \A l \in 1..Len(keys) : longer[l] = keys[l]
        BY <2>8, <3>5
      <3>7. \A j \in first..(first + (k + 1) - 1) : j \in first..(first + k - 1) \/ j = i
        BY <2>3, <2>8
      <3>8. ASSUME NEW j \in first..(first + (k + 1) - 1) PROVE \E l \in DOMAIN longer : longer[l] = j
        <4>1. CASE j = i
          <5>1. Len(keys) + 1 \in DOMAIN longer
            BY <2>b, <3>6
          <5> QED
            BY <3>6, <4>1, <5>1
        <4>2. CASE j # i
          <5>1. \E l \in DOMAIN keys : keys[l] = j
            BY <2>c, <3>7, <4>2
          <5> QED
            BY <2>b, <3>6, <5>1
        <4> QED
          BY <4>1, <4>2
      <3> QED
        BY <2>6, <2>9, <3>1, <3>4, <3>5, <3>8
    <2> QED
      BY <2>10, <2>11
<1>6. Nat \subseteq N
    <2> HIDE DEF N
    <2> QED
      BY <1>4, <1>5, Induction
<1>7. Sound(u[Len(got)], Len(got))
    BY <1>3, <1>6
<1> QED
    BY <1>1, <1>7, HandledIs

\* Where the lookback begins.
LEMMA FirstCounts ==
    ASSUME NEW happened \in Seq(AlertEvents), NEW clock \in Nat
    PROVE  FirstAt(happened, clock) \in Nat /\ 1 <= FirstAt(happened, clock) /\ FirstAt(happened, clock) <= Len(happened) + 1
<1> DEFINE old == {i \in DOMAIN happened : happened[i].at < clock - Lookback}
<1>1. old \in SUBSET (1..Len(happened)) /\ Len(happened) \in Nat
    OBVIOUS
<1>2. Alerts!Cardinality(old) \in Nat /\ Alerts!Cardinality(old) <= Len(happened)
    BY <1>1, PositionsCounted
<1>3. FirstAt(happened, clock) = Alerts!Cardinality(old) + 1
    BY DEF FirstAt
<1> HIDE DEF old
<1> QED
    BY <1>1, <1>2, <1>3

LEMMA FirstMoves ==
    ASSUME NEW happened \in Seq(AlertEvents), NEW clock \in Nat
    PROVE  FirstAt(happened, clock) <= FirstAt(happened, clock + 1)
<1> DEFINE old == {i \in DOMAIN happened : happened[i].at < clock - Lookback}
           older == {i \in DOMAIN happened : happened[i].at < (clock + 1) - Lookback}
<1>1. older \in SUBSET (1..Len(happened)) /\ Len(happened) \in Nat
    OBVIOUS
<1>2. \A i \in DOMAIN happened : happened[i].at \in Nat
    <2>1. \A i \in DOMAIN happened : happened[i] \in AlertEvents
      OBVIOUS
    <2> QED
      BY <2>1 DEF AlertEvents
<1>3. old \in SUBSET older
    BY <1>2, AlertsAreCapped
<1>4. FirstAt(happened, clock) = Alerts!Cardinality(old) + 1 /\ FirstAt(happened, clock + 1) = Alerts!Cardinality(older) + 1
    <2>1. FirstAt(happened, clock) = Alerts!Cardinality(old) + 1
      BY DEF FirstAt
    <2>2. FirstAt(happened, clock + 1) = Alerts!Cardinality(older) + 1
      BY Zenon DEF FirstAt
    <2> QED
      BY <2>1, <2>2
<1> HIDE DEF old, older
<1>5. Alerts!Cardinality(old) <= Alerts!Cardinality(older) /\ Alerts!Cardinality(older) \in Nat /\ Alerts!Cardinality(old) \in Nat
    <2>1. old \in SUBSET (1..Len(happened))
      BY <1>1, <1>3
    <2> QED
      BY <1>1, <1>3, <2>1, FewerPositions, PositionsCounted
<1> QED
    BY <1>4, <1>5

\* What is published now is not behind it.
LEMMA FirstStays ==
    ASSUME NEW happened \in Seq(AlertEvents), NEW clock \in Nat, NEW e \in AlertEvents, e.at = clock
    PROVE  FirstAt(Append(happened, e), clock) = FirstAt(happened, clock)
<1> DEFINE n == Len(happened)
           more == Append(happened, e)
<1>1. n \in Nat /\ DOMAIN happened = 1..n /\ DOMAIN more = 1..(n + 1) /\ more[n + 1] = e /\ \A i \in 1..n : more[i] = happened[i]
    OBVIOUS
<1>2. ~(e.at < clock - Lookback)
    BY AlertsAreCapped
<1> HIDE DEF n, more
<1>3. \A i \in 1..(n + 1) : i \in 1..n \/ i = n + 1
    BY <1>1
<1>4. \A i \in 1..n : i \in 1..(n + 1)
    BY <1>1
<1>5. {i \in DOMAIN more : more[i].at < clock - Lookback} = {i \in DOMAIN happened : happened[i].at < clock - Lookback}
    BY <1>1, <1>2, <1>3, <1>4
<1> QED
    BY <1>5 DEF FirstAt, more

\* What a node answers.
LEMMA ServedIs ==
    ASSUME AlertsTyped
    PROVE  /\ Alerts!Served \in Seq(Nat) /\ Len(Alerts!Served) <= Limit /\ FirstAt(events, now) + Len(Alerts!Served) <= Len(events) + 1
           /\ \A k \in 1..Len(Alerts!Served) : Alerts!Served[k] = FirstAt(events, now) + k - 1
<1> DEFINE first == FirstAt(events, now)
           upto == IF first + Limit - 1 < Len(events) THEN first + Limit - 1 ELSE Len(events)
           n == upto - first + 1
<1>1. first \in Nat /\ 1 <= first /\ first <= Len(events) + 1 /\ Len(events) \in Nat /\ Limit \in Nat
    <2>1. events \in Seq(AlertEvents) /\ now \in Nat
      BY DEF AlertsTyped
    <2> HIDE DEF first
    <2>2. first \in Nat /\ 1 <= first /\ first <= Len(events) + 1
      BY <2>1, FirstCounts DEF first
    <2> QED
      BY <2>1, <2>2, AlertsAreCapped
<1>2. Alerts!Served = [k \in 1..n |-> first + k - 1]
    BY DEF Alerts!Served, FirstAt
<1> HIDE DEF first
<1>3. n \in Nat /\ n <= Limit /\ first + n <= Len(events) + 1
    BY <1>1
<1> HIDE DEF n
<1>4. \A k \in 1..n : first + k - 1 \in Nat
    BY <1>1, <1>3
<1>5. Alerts!Served \in Seq(Nat) /\ Len(Alerts!Served) = n
    BY <1>2, <1>3, <1>4
<1> QED
    BY <1>2, <1>3, <1>5 DEF first

LEMMA AlertsBegin == Alerts!Init => AlertInv
<1> SUFFICES ASSUME Alerts!Init PROVE AlertInv
    OBVIOUS
<1>1. events = <<>> /\ now = 0 /\ monitor = Alerts!Stopped /\ polls = {} /\ asked = 0 /\ notices = <<>> /\ unread = 0
    BY DEF Alerts!Init
<1>2. Alerts!Stopped \in Monitors /\ Alerts!Stopped.seen = <<>> /\ Alerts!Stopped.told = <<>>
    BY DEF Alerts!Stopped, Monitors
<1>3. AlertsTyped
    BY <1>1, <1>2 DEF AlertsTyped
<1>4. PollsSound(FirstAt(events, now)) /\ KeysSound(monitor.seen, monitor.told, FirstAt(events, now))
    BY <1>1, <1>2 DEF PollsSound, KeysSound
<1>5. Alerts!UnreadExact
    <2>1. {i \in DOMAIN notices : ~notices[i]} = {}
      BY <1>1
    <2> QED
      BY <1>1, <2>1, NoPositions DEF Alerts!UnreadExact, Alerts!Unread
<1> QED
    BY <1>3, <1>4, <1>5 DEF AlertInv

\* The events are published, and the clock goes on.
LEMMA PublishingKeeps == ASSUME AlertInv, Alerts!Publish \/ Alerts!Tick PROVE AlertInv'
<1>1. /\ events \in Seq(AlertEvents) /\ now \in Nat /\ monitor \in Monitors /\ polls \subseteq Polls /\ asked \in Nat /\ notices \in Seq(BOOLEAN)
      /\ Alerts!UnreadExact
    BY DEF AlertInv, AlertsTyped
<1>2. PollsSound(FirstAt(events, now)) /\ KeysSound(monitor.seen, monitor.told, FirstAt(events, now))
    BY DEF AlertInv
<1>3. UNCHANGED <<monitor, polls, asked, notices, unread>>
    BY DEF Alerts!Publish, Alerts!Tick
<1>4. Alerts!UnreadExact'
    BY <1>1, <1>3 DEF Alerts!UnreadExact
<1>5. CASE Alerts!Publish
    <2>1. PICK t \in Alerts!Topics, a \in Addresses : events' = Append(events, [topic |-> t, address |-> a, at |-> now])
      BY <1>5 DEF Alerts!Publish
    <2>2. PICK e \in AlertEvents : e = [topic |-> t, address |-> a, at |-> now]
      BY <1>1 DEF AlertEvents
    <2>3. e.at = now /\ events' = Append(events, e) /\ now' = now
      BY <1>5, <2>1, <2>2 DEF Alerts!Publish
    <2>4. FirstAt(events', now') = FirstAt(events, now)
      BY <1>1, <2>3, FirstStays
    <2>5. events' \in Seq(AlertEvents) /\ Len(events') = Len(events) + 1 /\ Len(events) \in Nat
      BY <1>1, <2>3
    <2>6. PICK first \in Nat : first = FirstAt(events, now)
      BY <1>1, FirstCounts
    <2>7. FirstAt(events, now)' = first
      BY <2>4, <2>6
    <2>8. PollsSound(first)'
      <3>1. ASSUME NEW p \in polls, p.served PROVE first + Len(p.got) <= Len(events') + 1
        <4>1. first + Len(p.got) <= Len(events) + 1 /\ Len(p.got) \in Nat
          BY <1>1, <1>2, <2>6, <3>1 DEF PollsSound, Polls
        <4> QED
          BY <2>5, <4>1
      <3> QED
        BY <1>2, <1>3, <2>6, <3>1 DEF PollsSound
    <2>9. KeysSound(monitor'.seen, monitor'.told, first)
      BY <1>2, <1>3, <2>6
    <2>10. AlertsTyped'
      BY <1>1, <1>3, <2>3, <2>5 DEF AlertsTyped
    <2> QED
      BY <1>4, <2>7, <2>8, <2>9, <2>10 DEF AlertInv
<1>6. CASE Alerts!Tick
    <2>1. now' = now + 1 /\ events' = events /\ \A p \in polls : ~p.served
      BY <1>6 DEF Alerts!Tick
    <2>2. FirstAt(events, now) \in Nat /\ FirstAt(events, now + 1) \in Nat /\ FirstAt(events, now) <= FirstAt(events, now + 1)
      <3>1. now + 1 \in Nat
        BY <1>1
      <3> QED
        BY <1>1, <3>1, FirstCounts, FirstMoves
    <2>3. PICK first \in Nat, later \in Nat : first = FirstAt(events, now) /\ later = FirstAt(events, now + 1)
      BY <2>2
    <2>4. FirstAt(events, now)' = later
      BY <2>1, <2>3
    <2>5. PollsSound(later)'
      BY <1>2, <1>3, <2>1 DEF PollsSound
    <2>6. KeysSound(monitor.seen, monitor.told, later)
      <3>1. monitor.seen \in Seq(Nat) /\ monitor.told \in Seq(Nat)
        BY <1>1 DEF Monitors
      <3>2. first <= later
        BY <2>2, <2>3
      <3> QED
        BY <1>2, <2>3, <3>1, <3>2, KeysLater
    <2>7. AlertsTyped'
      BY <1>1, <1>3, <2>1 DEF AlertsTyped
    <2> QED
      BY <1>3, <1>4, <2>4, <2>5, <2>6, <2>7 DEF AlertInv
<1> QED
    BY <1>5, <1>6

\* The rest of a step that leaves the events and the clock.
LEMMA AlertRest ==
    ASSUME AlertInv, UNCHANGED <<events, now>>, monitor' \in Monitors, polls' \subseteq Polls, asked' \in Nat, notices' \in Seq(BOOLEAN),
           unread' = Alerts!Unread(notices'),
           \A p \in polls' : p.no <= asked' /\ (~p.cancelled => monitor'.on), \A p, r \in polls' : p.no = r.no => p = r,
           \A p \in polls' : p.served => \/ \E r \in polls : r.served /\ r.got = p.got
                                         \/ p.got = Alerts!Served,
           \/ monitor'.seen = monitor.seen /\ monitor'.told = monitor.told
           \/ monitor'.seen = <<>> /\ monitor'.told = <<>>
           \/ KeysSound(monitor'.seen, monitor'.told, FirstAt(events, now))
    PROVE  AlertInv'
<1>1. AlertsTyped /\ PollsSound(FirstAt(events, now)) /\ KeysSound(monitor.seen, monitor.told, FirstAt(events, now))
    BY DEF AlertInv
<1>2. FirstAt(events, now)' = FirstAt(events, now)
    OBVIOUS
<1>3. AlertsTyped'
    BY <1>1 DEF AlertsTyped
<1>4. PICK first : first = FirstAt(events, now)
    OBVIOUS
<1>5. PollsSound(first)'
    <2>1. ASSUME NEW p \in polls', p.served
          PROVE  Len(p.got) <= Limit /\ first + Len(p.got) <= Len(events) + 1 /\ \A k \in 1..Len(p.got) : p.got[k] = first + k - 1
      <3>1. CASE \E r \in polls : r.served /\ r.got = p.got
        BY <1>1, <1>4, <3>1 DEF PollsSound
      <3>2. CASE p.got = Alerts!Served
        BY <1>1, <1>4, <3>2, ServedIs
      <3> QED
        BY <2>1, <3>1, <3>2
    <2> QED
      BY <2>1 DEF PollsSound
<1>6. KeysSound(monitor'.seen, monitor'.told, first)
    <2>1. CASE monitor'.seen = <<>> /\ monitor'.told = <<>>
      BY <2>1 DEF KeysSound
    <2> QED
      BY <1>1, <1>4, <2>1
<1> QED
    BY <1>2, <1>3, <1>4, <1>5, <1>6 DEF AlertInv, Alerts!UnreadExact

\* The reader of the notifications.
LEMMA ReadingKeeps == ASSUME AlertInv, Alerts!Reader PROVE AlertInv' /\ Len(notices') <= Len(notices)
<1>1. /\ events \in Seq(AlertEvents) /\ now \in Nat /\ monitor \in Monitors /\ polls \subseteq Polls /\ asked \in Nat /\ notices \in Seq(BOOLEAN)
      /\ Alerts!UnreadExact /\ PollsSound(FirstAt(events, now))
    BY DEF AlertInv, AlertsTyped
<1>2. UNCHANGED <<events, now, monitor, polls, asked>>
    BY DEF Alerts!Reader, Alerts!markAllRead, Alerts!clearAll, Alerts!markRead, Alerts!dismiss, Alerts!Set
<1>3. notices' \in Seq(BOOLEAN) /\ unread' = Alerts!Unread(notices') /\ Len(notices') <= Len(notices)
    <2>1. CASE Alerts!markAllRead
      <3>1. notices' = [i \in DOMAIN notices |-> TRUE] /\ unread' = 0
        BY <2>1 DEF Alerts!markAllRead
      <3>2. PICK n \in Nat : n = Len(notices) /\ DOMAIN notices = 1..n
        BY <1>1
      <3>3. notices' = [i \in 1..n |-> TRUE]
        BY <3>1, <3>2
      <3>4. notices' \in Seq(BOOLEAN) /\ Len(notices') = n /\ DOMAIN notices' = 1..n
        BY <3>3
      <3>5. {i \in DOMAIN notices' : ~notices'[i]} = {}
        BY <3>1
      <3>6. Alerts!Unread(notices') = 0
        BY <3>5, NoPositions DEF Alerts!Unread
      <3> QED
        BY <3>1, <3>2, <3>4, <3>6
    <2>2. CASE Alerts!clearAll
      <3>1. notices' = <<>> /\ unread' = 0
        BY <2>2 DEF Alerts!clearAll
      <3>2. {i \in DOMAIN notices' : ~notices'[i]} = {}
        BY <3>1
      <3> QED
        BY <1>1, <3>1, <3>2, NoPositions DEF Alerts!Unread
    <2>3. ASSUME NEW i \in DOMAIN notices, Alerts!markRead(i) PROVE notices' \in Seq(BOOLEAN) /\ unread' = Alerts!Unread(notices') /\ Len(notices') <= Len(notices)
      <3>1. notices' = [notices EXCEPT ![i] = TRUE] /\ unread' = Alerts!Unread([notices EXCEPT ![i] = TRUE])
        BY <2>3 DEF Alerts!markRead, Alerts!Set
      <3>2. notices' \in Seq(BOOLEAN) /\ Len(notices') = Len(notices)
        BY <1>1, <3>1
      <3> QED
        BY <1>1, <3>1, <3>2
    <2>4. ASSUME NEW i \in DOMAIN notices, Alerts!dismiss(i) PROVE notices' \in Seq(BOOLEAN) /\ unread' = Alerts!Unread(notices') /\ Len(notices') <= Len(notices)
      <3>1. notices' = Alerts!RemoveAt(notices, i) /\ unread' = Alerts!Unread(Alerts!RemoveAt(notices, i))
        BY <2>4 DEF Alerts!dismiss, Alerts!Set
      <3>2. i \in 1..Len(notices) /\ Len(notices) \in Nat
        BY <1>1
      <3>3. notices' = SubSeq(notices, 1, i - 1) \o SubSeq(notices, i + 1, Len(notices))
        BY <3>1 DEF Alerts!RemoveAt
      <3>4. SubSeq(notices, 1, i - 1) \in Seq(BOOLEAN) /\ Len(SubSeq(notices, 1, i - 1)) = i - 1
        BY <1>1, <3>2
      <3>5. SubSeq(notices, i + 1, Len(notices)) \in Seq(BOOLEAN) /\ Len(SubSeq(notices, i + 1, Len(notices))) = Len(notices) - i
        BY <1>1, <3>2
      <3> QED
        BY <3>1, <3>2, <3>3, <3>4, <3>5
    <2> QED
      BY <2>1, <2>2, <2>3, <2>4 DEF Alerts!Reader
<1>4. /\ monitor' \in Monitors /\ polls' \subseteq Polls /\ asked' \in Nat
      /\ monitor'.seen = monitor.seen /\ monitor'.told = monitor.told
      /\ \A p \in polls' : p.served => \E r \in polls : r.served /\ r.got = p.got
    BY <1>1, <1>2
<1>5. (\A p \in polls' : p.no <= asked' /\ (~p.cancelled => monitor'.on)) /\ \A p, r \in polls' : p.no = r.no => p = r
    BY <1>1, <1>2 DEF PollsSound
<1>6. AlertInv'
    BY <1>2, <1>3, <1>4, <1>5, AlertRest
<1> QED
    BY <1>3, <1>6

\* Mounting, unmounting, and polls up to their answers.
LEMMA PollingKeeps ==
    ASSUME AlertInv, Alerts!Mount \/ Alerts!Unmount \/ Alerts!StartPoll \/ Alerts!AnswerPoll \/ Alerts!PollFails PROVE AlertInv'
<1>1. /\ events \in Seq(AlertEvents) /\ now \in Nat /\ monitor \in Monitors /\ polls \subseteq Polls /\ asked \in Nat /\ notices \in Seq(BOOLEAN)
      /\ AlertsTyped /\ unread = Alerts!Unread(notices)
    BY DEF AlertInv, AlertsTyped, Alerts!UnreadExact
<1>2. (\A p \in polls : p.no <= asked /\ (~p.cancelled => monitor.on)) /\ \A p, r \in polls : p.no = r.no => p = r
    BY DEF AlertInv, PollsSound
<1>3. \A p \in polls : p \in Polls /\ p.no \in Nat
    BY <1>1 DEF Polls
<1>4. CASE Alerts!Mount
    <2>1. ~monitor.on /\ monitor' = [Alerts!Stopped EXCEPT !.on = TRUE] /\ UNCHANGED <<events, now, polls, asked, notices, unread>>
      BY <1>4 DEF Alerts!Mount
    <2>2. monitor' \in Monitors /\ monitor'.seen = <<>> /\ monitor'.told = <<>>
      <3>1. Alerts!Stopped \in Monitors /\ Alerts!Stopped.seen = <<>> /\ Alerts!Stopped.told = <<>>
        BY DEF Alerts!Stopped, Monitors
      <3> QED
        BY <2>1, <3>1 DEF Monitors
    <2>3. (\A p \in polls' : p.no <= asked' /\ (~p.cancelled => monitor'.on)) /\ \A p, r \in polls' : p.no = r.no => p = r
      BY <1>2, <2>1
    <2>4. polls' \subseteq Polls /\ asked' \in Nat /\ notices' \in Seq(BOOLEAN) /\ unread' = Alerts!Unread(notices')
          /\ \A p \in polls' : p.served => \E r \in polls : r.served /\ r.got = p.got
      BY <1>1, <2>1
    <2> QED
      BY <2>1, <2>2, <2>3, <2>4, AlertRest
<1>5. CASE Alerts!Unmount
    <2> DEFINE Off(p) == [p EXCEPT !.cancelled = TRUE]
    <2>1. /\ monitor' = [monitor EXCEPT !.on = FALSE] /\ polls' = {Off(p) : p \in polls}
          /\ UNCHANGED <<events, now, asked, notices, unread>>
      BY <1>5 DEF Alerts!Unmount
    <2>2. monitor' \in Monitors /\ monitor'.seen = monitor.seen /\ monitor'.told = monitor.told
      BY <1>1, <2>1 DEF Monitors
    <2>3. \A p \in polls : Off(p) \in Polls /\ Off(p).no = p.no /\ Off(p).cancelled /\ Off(p).served = p.served /\ Off(p).got = p.got
      BY <1>3 DEF Polls
    <2> HIDE DEF Off
    <2>4. polls' \subseteq Polls
      BY <2>1, <2>3
    <2>5. \A r \in polls' : \E p \in polls : r = Off(p) /\ r.no = p.no /\ r.cancelled /\ r.served = p.served /\ r.got = p.got
      BY <2>1, <2>3
    <2>a. \A p \in polls' : p.no <= asked' /\ (~p.cancelled => monitor'.on)
      BY <1>2, <2>1, <2>5
    <2>6. ASSUME NEW p \in polls', NEW r \in polls', p.no = r.no PROVE p = r
      <3>1. PICK q \in polls : p = Off(q) /\ p.no = q.no
        BY <2>5
      <3>2. PICK t \in polls : r = Off(t) /\ r.no = t.no
        BY <2>5
      <3> QED
        BY <1>2, <2>6, <3>1, <3>2
    <2>7. \A p \in polls' : p.served => \E r \in polls : r.served /\ r.got = p.got
      BY <2>5
    <2>8. asked' \in Nat /\ notices' \in Seq(BOOLEAN) /\ unread' = Alerts!Unread(notices')
      BY <1>1, <2>1
    <2> QED
      BY <2>1, <2>2, <2>4, <2>a, <2>6, <2>7, <2>8, AlertRest
<1>6. CASE Alerts!StartPoll
    <2> DEFINE new == [no |-> asked + 1, cancelled |-> FALSE, served |-> FALSE, upto |-> 0, got |-> <<>>]
    <2>1. monitor.on /\ asked' = asked + 1 /\ polls' = polls \cup {new} /\ UNCHANGED <<events, now, monitor, notices, unread>>
      BY <1>6 DEF Alerts!StartPoll
    <2>2. new \in Polls /\ new.no = asked + 1 /\ ~new.cancelled /\ ~new.served
      BY <1>1 DEF Polls
    <2> HIDE DEF new
    <2>3. polls' \subseteq Polls
      BY <1>1, <2>1, <2>2
    <2>4. \A p \in polls' : p.no <= asked' /\ (~p.cancelled => monitor'.on)
      BY <1>1, <1>2, <1>3, <2>1, <2>2
    <2>5. \A p, r \in polls' : p.no = r.no => p = r
      BY <1>1, <1>2, <1>3, <2>1, <2>2
    <2>6. \A p \in polls' : p.served => \E r \in polls : r.served /\ r.got = p.got
      BY <2>1, <2>2
    <2>7. asked' \in Nat /\ notices' \in Seq(BOOLEAN) /\ unread' = Alerts!Unread(notices') /\ monitor' \in Monitors
          /\ monitor'.seen = monitor.seen /\ monitor'.told = monitor.told
      BY <1>1, <2>1
    <2> QED
      BY <2>1, <2>3, <2>4, <2>5, <2>6, <2>7, AlertRest
<1>7. CASE Alerts!AnswerPoll
    <2>1. PICK p \in polls : polls' = (polls \ {p}) \cup {[p EXCEPT !.served = TRUE, !.upto = Len(events), !.got = Alerts!Served]}
      BY <1>7 DEF Alerts!AnswerPoll
    <2>2. UNCHANGED <<events, now, monitor, asked, notices, unread>>
      BY <1>7 DEF Alerts!AnswerPoll
    <2> DEFINE new == [p EXCEPT !.served = TRUE, !.upto = Len(events), !.got = Alerts!Served]
    <2>3. Alerts!Served \in Seq(Nat) /\ Len(events) \in Nat
      BY <1>1, ServedIs
    <2>4. new \in Polls /\ new.no = p.no /\ new.cancelled = p.cancelled /\ new.got = Alerts!Served
      BY <1>3, <2>3 DEF Polls
    <2>5. polls' = (polls \ {p}) \cup {new}
      BY <2>1
    <2> HIDE DEF new
    <2>6. polls' \subseteq Polls
      BY <1>1, <2>4, <2>5
    <2>7. \A r \in polls' : r.no <= asked' /\ (~r.cancelled => monitor'.on)
      BY <1>2, <2>2, <2>4, <2>5
    <2>8. \A r, q \in polls' : r.no = q.no => r = q
      BY <1>2, <2>4, <2>5
    <2>9. \A r \in polls' : r.served => (\E q \in polls : q.served /\ q.got = r.got) \/ r.got = Alerts!Served
      BY <2>4, <2>5
    <2>10. asked' \in Nat /\ notices' \in Seq(BOOLEAN) /\ unread' = Alerts!Unread(notices') /\ monitor' \in Monitors
           /\ monitor'.seen = monitor.seen /\ monitor'.told = monitor.told
      BY <1>1, <2>2
    <2> QED
      BY <2>2, <2>6, <2>7, <2>8, <2>9, <2>10, AlertRest
<1>8. CASE Alerts!PollFails
    <2>1. polls' \subseteq polls /\ UNCHANGED <<events, now, monitor, asked, notices, unread>>
      BY <1>8 DEF Alerts!PollFails
    <2>2. polls' \subseteq Polls
      BY <1>1, <2>1
    <2>3. \A r \in polls' : r.no <= asked' /\ (~r.cancelled => monitor'.on)
      BY <1>2, <2>1
    <2>4. \A r, q \in polls' : r.no = q.no => r = q
      BY <1>2, <2>1
    <2>5. \A r \in polls' : r.served => \E q \in polls : q.served /\ q.got = r.got
      BY <2>1
    <2>6. asked' \in Nat /\ notices' \in Seq(BOOLEAN) /\ unread' = Alerts!Unread(notices') /\ monitor' \in Monitors
          /\ monitor'.seen = monitor.seen /\ monitor'.told = monitor.told
      BY <1>1, <2>1
    <2> QED
      BY <2>1, <2>2, <2>3, <2>4, <2>5, <2>6, AlertRest
<1> QED
    BY <1>4, <1>5, <1>6, <1>7, <1>8

\* An answer is taken.
LEMMA TakingKeeps ==
    ASSUME AlertInv, Alerts!TakePoll
    PROVE  AlertInv' /\ (Len(notices') > Len(notices) => monitor.on /\ \E p \in Alerts!Taken : ~p.cancelled)
<1>1. /\ events \in Seq(AlertEvents) /\ now \in Nat /\ monitor \in Monitors /\ polls \subseteq Polls /\ asked \in Nat /\ notices \in Seq(BOOLEAN)
      /\ AlertsTyped /\ unread = Alerts!Unread(notices) /\ PollsSound(FirstAt(events, now))
      /\ KeysSound(monitor.seen, monitor.told, FirstAt(events, now))
    BY DEF AlertInv, AlertsTyped, Alerts!UnreadExact
<1>2. (\A p \in polls : p.no <= asked /\ (~p.cancelled => monitor.on)) /\ \A p, r \in polls : p.no = r.no => p = r
    BY <1>1 DEF PollsSound
<1> DEFINE st == [seen |-> monitor.seen, hits |-> monitor.hits, told |-> monitor.told, queue |-> notices, unread |-> unread]
<1>3. PICK p \in polls : /\ p.served /\ polls' = polls \ {p} /\ UNCHANGED <<events, now, asked>>
                         /\ p.cancelled => UNCHANGED <<monitor, notices, unread>>
                         /\ ~p.cancelled => LET v == Alerts!Handled(st, p.got)
                                            IN /\ monitor' = [monitor EXCEPT !.seen = Alerts!Trim(v.seen), !.hits = v.hits, !.told = v.told]
                                               /\ notices' = v.queue /\ unread' = v.unread
    BY DEF Alerts!TakePoll
<1>4. polls' \subseteq polls /\ polls' \subseteq Polls /\ asked' \in Nat
    BY <1>1, <1>3
<1>5. (\A r \in polls' : r.no <= asked') /\ (\A r, q \in polls' : r.no = q.no => r = q)
      /\ \A r \in polls' : r.served => \E q \in polls : q.served /\ q.got = r.got
    BY <1>2, <1>3, <1>4
<1>6. CASE p.cancelled
    <2>1. monitor' = monitor /\ notices' = notices /\ unread' = unread
      BY <1>3, <1>6
    <2>2. \A r \in polls' : ~r.cancelled => monitor'.on
      BY <1>2, <1>4, <2>1
    <2>3. AlertInv'
      BY <1>1, <1>3, <1>4, <1>5, <2>1, <2>2, AlertRest
    <2>4. ~(Len(notices) > Len(notices))
      BY <1>1
    <2> QED
      BY <2>1, <2>3, <2>4
<1>7. CASE ~p.cancelled
    <2>1. PICK v : v = Alerts!Handled(st, p.got)
      OBVIOUS
    <2>2. monitor' = [monitor EXCEPT !.seen = Alerts!Trim(v.seen), !.hits = v.hits, !.told = v.told] /\ notices' = v.queue /\ unread' = v.unread
      BY <1>3, <1>7, <2>1
    <2>3. PICK first \in Nat : first = FirstAt(events, now) /\ 1 <= first
      BY <1>1, FirstCounts
    <2>4. PICK got : got = p.got
      OBVIOUS
    <2>5. got \in Seq(Nat) /\ Len(got) <= Limit /\ first + Len(got) <= Len(events) + 1 /\ \A k \in 1..Len(got) : got[k] = first + k - 1
      <3>1. p \in Polls /\ p.served
        BY <1>1, <1>3
      <3> QED
        BY <1>1, <2>3, <2>4, <3>1 DEF PollsSound, Polls
    <2>6. got \in Seq(1..Len(events))
      <3>1. Len(got) \in Nat /\ Len(events) \in Nat
        BY <1>1, <2>5
      <3>2. \A k \in 1..Len(got) : got[k] \in 1..Len(events)
        BY <2>3, <2>5, <3>1
      <3>3. PICK n, S : n = Len(got) /\ S = 1..Len(events)
        BY <3>1
      <3>4. got \in [1..n -> S] /\ n \in Nat
        BY <2>5, <3>1, <3>2, <3>3
      <3>5. got \in Seq(S)
        BY <3>4
      <3> QED
        BY <3>3, <3>5
    <2>7. PICK s : s = st
      OBVIOUS
    <2>8. unread \in Nat
      BY <1>1, UnreadCounts
    <2>9. s \in Handlings /\ s.seen = monitor.seen /\ s.told = monitor.told /\ s.queue = notices /\ s.unread = unread
      BY <1>1, <2>7, <2>8 DEF Handlings, Monitors
    <2> HIDE DEF st
    <2>10. v = Alerts!Handled(s, got)
      BY <2>1, <2>4, <2>7
    <2>11. KeysSound(s.seen, s.told, first) /\ s.unread = Alerts!Unread(s.queue)
      BY <1>1, <2>3, <2>9
    <2>12. v \in Handlings /\ v.unread = Alerts!Unread(v.queue) /\ KeysSound(v.seen, v.told, first)
      BY <1>1, <2>5, <2>6, <2>9, <2>10, <2>11, HandledKeeps
    <2>13. /\ v.seen \in Seq(Nat) /\ v.hits \in [Addresses -> Seq(Nat)] /\ v.told \in Seq(Nat) /\ v.queue \in Seq(BOOLEAN)
      BY <2>12 DEF Handlings
    <2>14. Alerts!Trim(v.seen) \in Seq(Nat) /\ KeysSound(Alerts!Trim(v.seen), v.told, first)
      BY <2>12, <2>13, TrimKeeps
    <2>15. monitor' \in Monitors /\ monitor'.on = monitor.on /\ monitor'.seen = Alerts!Trim(v.seen) /\ monitor'.told = v.told
      BY <1>1, <2>2, <2>13, <2>14 DEF Monitors
    <2>16. \A r \in polls' : ~r.cancelled => monitor'.on
      BY <1>2, <1>4, <2>15
    <2>17. notices' \in Seq(BOOLEAN) /\ unread' = Alerts!Unread(notices')
      BY <2>2, <2>12, <2>13
    <2>18. KeysSound(monitor'.seen, monitor'.told, FirstAt(events, now))
      BY <2>3, <2>14, <2>15
    <2>19. AlertInv'
      BY <1>3, <1>4, <1>5, <2>15, <2>16, <2>17, <2>18, AlertRest
    <2>20. monitor.on /\ p \in Alerts!Taken
      BY <1>2, <1>3, <1>7 DEF Alerts!Taken
    <2> QED
      BY <1>7, <2>19, <2>20
<1> QED
    BY <1>6, <1>7

LEMMA AlertStep ==
    ASSUME AlertInv, [Alerts!Next]_Alerts!alertVars
    PROVE  AlertInv' /\ (Len(notices') > Len(notices) => monitor.on /\ \E p \in Alerts!Taken : ~p.cancelled)
<1>1. notices \in Seq(BOOLEAN)
    BY DEF AlertInv, AlertsTyped
<1>2. Len(notices) \in Nat
    BY <1>1
<1>3. CASE Alerts!Publish \/ Alerts!Tick
    <2>1. notices' = notices
      BY <1>3 DEF Alerts!Publish, Alerts!Tick
    <2> QED
      BY <1>2, <1>3, <2>1, PublishingKeeps
<1>4. CASE Alerts!Reader
    <2>1. AlertInv' /\ Len(notices') <= Len(notices)
      BY <1>4, ReadingKeeps
    <2>2. notices' \in Seq(BOOLEAN)
      BY <2>1 DEF AlertInv, AlertsTyped
    <2>3. Len(notices') \in Nat
      BY <2>2
    <2> QED
      BY <1>2, <2>1, <2>3
<1>5. CASE Alerts!Mount \/ Alerts!Unmount \/ Alerts!StartPoll \/ Alerts!AnswerPoll \/ Alerts!PollFails
    <2>1. notices' = notices
      BY <1>5 DEF Alerts!Mount, Alerts!Unmount, Alerts!StartPoll, Alerts!AnswerPoll, Alerts!PollFails
    <2> QED
      BY <1>2, <1>5, <2>1, PollingKeeps
<1>6. CASE Alerts!TakePoll
    BY <1>6, TakingKeeps
<1>7. CASE UNCHANGED Alerts!alertVars
    <2>1. AlertInv'
      BY <1>7 DEF Alerts!alertVars, AlertInv, AlertsTyped, PollsSound, Alerts!UnreadExact, FirstAt
    <2> QED
      BY <1>2, <1>7, <2>1 DEF Alerts!alertVars
<1> QED
    BY <1>3, <1>4, <1>5, <1>6, <1>7 DEF Alerts!Next

\* No event is alerted on twice, the badge counts what is unread, and nothing is announced once the monitor has stopped
\* (alertMonitor.ts, notificationStore.ts).
THEOREM AlertsHold == Alerts!Spec => AlertsSound
<1>1. AlertInv => Alerts!AlertedOnce /\ Alerts!UnreadExact
    <2> SUFFICES ASSUME AlertInv PROVE Alerts!AlertedOnce
      BY DEF AlertInv
    <2>1. \A t, u \in DOMAIN monitor.told : monitor.told[t] = monitor.told[u] => t = u
      BY DEF AlertInv, KeysSound
    <2> QED
      BY <2>1 DEF Alerts!AlertedOnce, Alerts!IsInjective
<1>2. AlertInv /\ [Alerts!Next]_Alerts!alertVars => AlertInv'
    BY AlertStep
<1>3. AlertInv /\ [Alerts!Next]_Alerts!alertVars => [Len(notices') > Len(notices) => monitor.on /\ \E p \in Alerts!Taken : ~p.cancelled]_Alerts!alertVars
    BY AlertStep
<1> QED
    BY <1>1, <1>2, <1>3, AlertsBegin, PTL DEF Alerts!Spec, AlertsSound, Alerts!AlertsSound, Alerts!NothingAfterStop

----------------------------------------------------------------------------
(* Calls of the clients (ClientCalls) *)

\* Of the calls in a client's table, the contract's functions are all but some; none of them is one the frontend composes.
Verdict(listed, functions, but) == \A e \in listed : (e \in functions <=> e[1] \notin but) /\ e[1] # "claim"

LEMMA SdkCallsChecked ==
    /\ Verdict(SdkCalls.rwa, RwaFunctions, Unanswerable.sdk.rwa)
    /\ Verdict(SdkCalls.compliance, EngineFunctions, Unanswerable.sdk.compliance)
    /\ Verdict(SdkCalls.kyc, KycFunctions, Unanswerable.sdk.kyc)
    /\ Verdict(SdkCalls.invoice, InvoiceFunctions, Unanswerable.sdk.invoice)
    /\ Verdict(SdkCalls.property, PropertyFunctions, Unanswerable.sdk.property)
    /\ Verdict(SdkCalls.carbon, CarbonFunctions, Unanswerable.sdk.carbon)
<1>1. Verdict(SdkCalls.rwa, RwaFunctions, Unanswerable.sdk.rwa)
    BY DEF Verdict, Unanswerable, SdkCalls, RwaFunctions, Takes, RwaReads, RwaWrites
<1>2. Verdict(SdkCalls.compliance, EngineFunctions, Unanswerable.sdk.compliance)
    BY DEF Verdict, Unanswerable, SdkCalls, EngineFunctions, Takes, EngineReads, EngineWrites, EnginePolicyWrites
<1>3. Verdict(SdkCalls.kyc, KycFunctions, Unanswerable.sdk.kyc)
    BY DEF Verdict, Unanswerable, SdkCalls, KycFunctions, Takes, KycReads, KycWrites, VerifierWrites, AdminWrites
<1>4. Verdict(SdkCalls.invoice, InvoiceFunctions, Unanswerable.sdk.invoice)
    <2>1. \A e \in InvoiceReads \cup InvoiceWrites : (e \in InvoiceFunctions <=> e[1] \in {"name", "symbol", "decimals"}) /\ e[1] # "claim"
      <3>1. ASSUME NEW e \in InvoiceReads PROVE (e \in InvoiceFunctions <=> e[1] \in {"name", "symbol", "decimals"}) /\ e[1] # "claim"
        <4>1. ASSUME NEW m \in {"name", "symbol", "decimals"}, e = <<m, <<>>>> PROVE e \in InvoiceFunctions
          BY <4>1 DEF InvoiceFunctions, Takes
        <4>2. ASSUME NEW m \in {"get_meta", "total_supply", "is_settled"}, e = <<m, <<>>>> PROVE e \notin InvoiceFunctions
          BY <4>2 DEF InvoiceFunctions, Takes
        <4>3. ASSUME e = <<"balance", <<"addr">>>> \/ e = <<"allowance", <<"addr", "addr">>>> PROVE e \notin InvoiceFunctions
          BY <4>3 DEF InvoiceFunctions, Takes
        <4>4. \/ \E m \in {"name", "symbol", "decimals"} : e = <<m, <<>>>>
              \/ \E m \in {"get_meta", "total_supply", "is_settled"} : e = <<m, <<>>>>
              \/ e = <<"balance", <<"addr">>>> \/ e = <<"allowance", <<"addr", "addr">>>>
          BY DEF InvoiceReads, Takes
        <4> QED
          BY <4>1, <4>2, <4>3, <4>4
      <3>2. \A e \in InvoiceWrites : e \notin InvoiceFunctions /\ e[1] \notin {"name", "symbol", "decimals", "claim"}
        BY DEF InvoiceFunctions, Takes, InvoiceWrites
      <3> QED
        BY <3>1, <3>2
    <2>2. Unanswerable.sdk.invoice = Methods(InvoiceReads \cup InvoiceWrites) \ {"name", "symbol", "decimals"}
      BY DEF Unanswerable
    <2>3. \A e \in InvoiceReads \cup InvoiceWrites : e[1] \in Methods(InvoiceReads \cup InvoiceWrites)
      BY DEF Methods
    <2> QED
      BY <2>1, <2>2, <2>3 DEF Verdict, SdkCalls
<1>5. Verdict(SdkCalls.property, PropertyFunctions, Unanswerable.sdk.property)
    BY DEF Verdict, Unanswerable, SdkCalls, PropertyFunctions, Takes, PropertyReads, PropertyWrites
<1>6. Verdict(SdkCalls.carbon, CarbonFunctions, Unanswerable.sdk.carbon)
    BY DEF Verdict, Unanswerable, SdkCalls, CarbonFunctions, Takes, CarbonReads, CarbonWrites
<1> QED
    BY <1>1, <1>2, <1>3, <1>4, <1>5, <1>6

LEMMA BuildersChecked ==
    /\ Verdict(Builders.rwa, RwaFunctions, Unanswerable.builder.rwa)
    /\ Verdict(Builders.compliance, EngineFunctions, Unanswerable.builder.compliance)
    /\ Verdict(Builders.kyc, KycFunctions, Unanswerable.builder.kyc)
    /\ Verdict(Builders.invoice, InvoiceFunctions, Unanswerable.builder.invoice)
    /\ Verdict(Builders.property, PropertyFunctions, Unanswerable.builder.property)
    /\ Verdict(Builders.carbon, CarbonFunctions, Unanswerable.builder.carbon)
<1>1. Verdict(Builders.rwa, RwaFunctions, Unanswerable.builder.rwa)
    BY DEF Verdict, Unanswerable, Builders, RwaFunctions, Takes, RwaBuilders
<1>2. Verdict(Builders.compliance, EngineFunctions, Unanswerable.builder.compliance)
    BY DEF Verdict, Unanswerable, Builders, EngineFunctions, Takes, EngineBuilders
<1>3. Verdict(Builders.kyc, KycFunctions, Unanswerable.builder.kyc)
    BY DEF Verdict, Unanswerable, Builders, KycFunctions, Takes, KycBuilders
<1>4. Verdict(Builders.invoice, InvoiceFunctions, Unanswerable.builder.invoice)
    BY DEF Verdict, Unanswerable, Builders, InvoiceFunctions, Takes, Methods, InvoiceBuilders
<1>5. Verdict(Builders.property, PropertyFunctions, Unanswerable.builder.property)
    BY DEF Verdict, Unanswerable, Builders, PropertyFunctions, Takes, PropertyBuilders
<1>6. Verdict(Builders.carbon, CarbonFunctions, Unanswerable.builder.carbon)
    BY DEF Verdict, Unanswerable, Builders, CarbonFunctions, Takes, CarbonBuilders, CarbonWrites
<1> QED
    BY <1>1, <1>2, <1>3, <1>4, <1>5, <1>6

LEMMA WebCallsChecked ==
    /\ Verdict(WebCalls.rwa, RwaFunctions, Unanswerable.web.rwa)
    /\ Verdict(WebCalls.compliance, EngineFunctions, Unanswerable.web.compliance)
    /\ Verdict(WebCalls.kyc, KycFunctions, Unanswerable.web.kyc)
    /\ Verdict(WebCalls.invoice, InvoiceFunctions, Unanswerable.web.invoice)
    /\ Verdict(WebCalls.property, PropertyFunctions, Unanswerable.web.property)
    /\ Verdict(WebCalls.carbon, CarbonFunctions, Unanswerable.web.carbon)
<1>1. Verdict(WebCalls.rwa, RwaFunctions, Unanswerable.web.rwa)
    BY DEF Verdict, Unanswerable, WebCalls, RwaFunctions, Takes, WebRwa, WebRwaWrites
<1>2. Verdict(WebCalls.compliance, EngineFunctions, Unanswerable.web.compliance)
    BY DEF Verdict, Unanswerable, WebCalls, EngineFunctions, Takes, WebEngineReads, WebRuleWrites, WebListWrites, WebPolicies, WebRisk
<1>3. Verdict(WebCalls.kyc, KycFunctions, Unanswerable.web.kyc)
    BY DEF Verdict, Unanswerable, WebCalls, KycFunctions, Takes, WebKycReads, WebKycWrites
<1>4. Verdict(WebCalls.invoice, InvoiceFunctions, Unanswerable.web.invoice)
    <2> DEFINE none == {"get_meta", "total_supply", "is_settled", "balance", "allowance"}
    <2>1. \A e \in WebInvoiceReads : (e \in InvoiceFunctions <=> e[1] \notin none) /\ e[1] # "claim"
      BY DEF InvoiceFunctions, Takes, WebInvoiceReads
    <2>2. \A e \in WebInvoiceWrites : e \notin InvoiceFunctions /\ e[1] # "claim"
      BY DEF InvoiceFunctions, Takes, WebInvoiceWrites
    <2>3. \A e \in WebInvoiceReads, w \in WebInvoiceWrites : e[1] # w[1]
      BY DEF Takes, WebInvoiceReads, WebInvoiceWrites
    <2>4. Unanswerable.web.invoice = none \cup Methods(WebInvoiceWrites)
      BY DEF Unanswerable
    <2> HIDE DEF none
    <2> QED
      BY <2>1, <2>2, <2>3, <2>4 DEF Verdict, WebCalls, Methods
<1>5. Verdict(WebCalls.property, PropertyFunctions, Unanswerable.web.property)
    BY DEF Verdict, Unanswerable, WebCalls, PropertyFunctions, Takes, WebPropertyReads, WebPropertyWrites
<1>6. Verdict(WebCalls.carbon, CarbonFunctions, Unanswerable.web.carbon)
    BY DEF Verdict, Unanswerable, WebCalls, CarbonFunctions, Takes, WebCarbonReads, WebCarbonWrites
<1> QED
    BY <1>1, <1>2, <1>3, <1>4, <1>5, <1>6

LEMMA TablesChecked ==
    ASSUME NEW f \in DOMAIN Families, NEW k \in Contracts
    PROVE  Verdict(Families[f][k], Functions[k], Unanswerable[f][k])
<1>1. f \in {"sdk", "builder", "web"} /\ k \in {"rwa", "compliance", "kyc", "invoice", "property", "carbon"}
    BY DEF Families, Contracts, Functions
<1>2. Families.sdk = SdkCalls /\ Families.builder = Builders /\ Families.web = WebCalls
    BY DEF Families
<1>3. /\ Functions.rwa = RwaFunctions /\ Functions.compliance = EngineFunctions /\ Functions.kyc = KycFunctions
      /\ Functions.invoice = InvoiceFunctions /\ Functions.property = PropertyFunctions /\ Functions.carbon = CarbonFunctions
    BY DEF Functions
<1> QED
    BY <1>1, <1>2, <1>3, SdkCallsChecked, BuildersChecked, WebCallsChecked

LEMMA DecodedExactly ==
    ASSUME NEW f \in DOMAIN Families, NEW k \in Contracts, NEW m \in Methods(Families[f][k])
    PROVE  (Decodes(f, k, m) <=> m \notin Unanswerable[f][k]) /\ m # "claim"
BY TablesChecked DEF Verdict, Decodes, Methods

WorkPhases == {"idle", "roster", "first", "second", "send", "done"}

CallRecords ==
    [phase : WorkPhases, op : Work \cup {<<>>},
     out : {"none", "ok", "error", "malformed", "AuthError", "active", "inactive", "allowed", "denied"},
     seen : {"none", "failed", "active", "inactive", "allowed", "denied"} \cup Nat,
     value : Nat, lost : BOOLEAN, moved : BOOLEAN, bestActive : BOOLEAN]

\* What a call holds or answers, while the subject is active or not and this much is due to the holder.
AnswerSound(r, active, due) ==
    /\ r.phase # "idle" => r.op \in Work
    /\ r.phase \in {"roster", "send"} => r.op[2] # "app"
    /\ r.phase = "done" /\ r.op[2] # "app" => /\ r.out = "malformed" => ~Decodes(r.op[1], r.op[2], r.op[3])
                                              /\ r.out = "ok" => Decodes(r.op[1], r.op[2], r.op[3])
    /\ r.phase = "second" /\ r.op[3] = "claim" /\ ~r.moved => r.value = due
    /\ r.phase = "done" /\ r.op[3] = "claim" /\ r.out = "ok" /\ ~r.moved => r.value = r.seen
    /\ r.phase \notin {"idle", "done"} /\ active => r.bestActive
    /\ r.phase = "second" /\ r.op[3] = "holder" /\ r.seen = "active" => r.bestActive
    /\ r.phase = "done" /\ r.out = "active" => r.bestActive

AllSound(watched, active, due) == \A c \in Callers : AnswerSound(watched[c], active, due)

CallsTyped == menu \in Menus /\ unclaimed \in Nat /\ call \in [Callers -> CallRecords]

\* The strengthening of AnswersSound: what an open call has read is so, or the history of the call says it was
\* disturbed.
CallsInv == CallsTyped /\ \A c \in Callers : AnswerSound(call[c], IsActive(record, expired), unclaimed)

LEMMA WorkIs ==
    ASSUME NEW op \in Work
    PROVE  /\ op[2] = "app" => op[1] = "web" /\ op[3] \in {"claim", "holder", "evaluate"}
           /\ op[2] # "app" => op[1] \in DOMAIN Families /\ op[2] \in Contracts /\ op[3] \in Methods(Families[op[1]][op[2]])
<1>1. "app" \notin Contracts
    BY DEF Contracts, Functions
<1>2. CASE op \in {<<"web", "app", m>> : m \in {"claim", "holder", "evaluate"}}
    BY <1>2
<1>3. ASSUME NEW f \in DOMAIN Families, NEW k \in Contracts, NEW m \in Methods(Families[f][k]), op = <<f, k, m>>
      PROVE  op[2] # "app" /\ op[1] \in DOMAIN Families /\ op[2] \in Contracts /\ op[3] \in Methods(Families[op[1]][op[2]])
    BY <1>1, <1>3
<1>4. op \in {<<"web", "app", m>> : m \in {"claim", "holder", "evaluate"}}
      \/ \E f \in DOMAIN Families, k \in Contracts : \E m \in Methods(Families[f][k]) : op = <<f, k, m>>
    BY DEF Work
<1> QED
    BY <1>2, <1>3, <1>4

LEMMA ClaimsAreComposed == ASSUME NEW op \in Work, op[3] = "claim" PROVE op[2] = "app"
BY WorkIs, DecodedExactly

\* A step of one call.
LEMMA OneCall ==
    ASSUME CallsInv, NEW c \in Callers, NEW r \in CallRecords, call' = [call EXCEPT ![c] = r], UNCHANGED <<menu, unclaimed>>,
           IsActive(record, expired)' => IsActive(record, expired), AnswerSound(r, IsActive(record, expired)', unclaimed)
    PROVE  CallsInv'
<1>1. CallsTyped'
    BY DEF CallsInv, CallsTyped
<1>2. ASSUME NEW d \in Callers PROVE AnswerSound(call'[d], IsActive(record, expired)', unclaimed')
    <2>1. CASE d = c
      BY <2>1 DEF CallsInv, CallsTyped
    <2>2. CASE d # c
      <3>1. call'[d] = call[d] /\ AnswerSound(call[d], IsActive(record, expired), unclaimed)
        BY <2>2 DEF CallsInv, CallsTyped
      <3> QED
        BY <3>1 DEF AnswerSound
    <2> QED
      BY <2>1, <2>2
<1> QED
    BY <1>1, <1>2 DEF CallsInv

\* A step that the open calls are watched through.
LEMMA WatchKeeps ==
    ASSUME NEW watched \in [Callers -> CallRecords], NEW ads, NEW vrs, NEW moved \in BOOLEAN, NEW active \in BOOLEAN,
           NEW was \in BOOLEAN, NEW is \in BOOLEAN, NEW due, NEW after, AllSound(watched, was, due),
           moved \/ after = due, is => was \/ active
    PROVE  /\ Watch(watched, ads, vrs, moved, active) \in [Callers -> CallRecords]
           /\ AllSound(Watch(watched, ads, vrs, moved, active), is, after)
<1> DEFINE W == Watch(watched, ads, vrs, moved, active)
<1>1. \A c \in Callers : watched[c] \in CallRecords
    OBVIOUS
<1>2. ASSUME NEW c \in Callers PROVE W[c] \in CallRecords /\ AnswerSound(W[c], is, after)
    <2>1. CASE watched[c].phase \in {"idle", "done"}
      <3>1. W[c] = watched[c]
        BY <2>1 DEF Watch
      <3> HIDE DEF W
      <3> QED
        BY <1>1, <2>1, <3>1 DEF AnswerSound, AllSound
    <2>2. CASE watched[c].phase \notin {"idle", "done"}
      <3>1. PICK r \in CallRecords : r = watched[c]
        BY <1>1
      <3>2. PICK w : w = W[c]
        OBVIOUS
      <3> DEFINE lost == r.lost \/ (Guarded(r.op) /\ ~Holds(c, r.op, ads, vrs))
                 shaken == r.moved \/ moved
                 best == r.bestActive \/ active
      <3>3. w = [r EXCEPT !.lost = lost, !.moved = shaken, !.bestActive = best]
        BY <2>2, <3>1, <3>2 DEF Watch
      <3>4. lost \in BOOLEAN /\ shaken \in BOOLEAN /\ best \in BOOLEAN
        OBVIOUS
      <3>5. (shaken <=> r.moved \/ moved) /\ (best <=> r.bestActive \/ active)
        OBVIOUS
      <3> HIDE DEF lost, shaken, best, W
      <3>6. /\ w \in CallRecords /\ w.phase = r.phase /\ w.op = r.op /\ w.out = r.out /\ w.seen = r.seen /\ w.value = r.value
            /\ (w.moved <=> r.moved \/ moved) /\ (w.bestActive <=> r.bestActive \/ active)
        <4>1. w \in CallRecords /\ w.moved = shaken /\ w.bestActive = best
          BY <3>3, <3>4 DEF CallRecords
        <4>2. w.phase = r.phase /\ w.op = r.op /\ w.out = r.out /\ w.seen = r.seen /\ w.value = r.value
          BY <3>3 DEF CallRecords
        <4> QED
          BY <3>5, <4>1, <4>2
      <3>7. AnswerSound(w, is, after)
        BY <2>2, <3>1, <3>6 DEF AnswerSound, AllSound
      <3> QED
        BY <3>2, <3>6, <3>7
    <2> QED
      BY <2>1, <2>2
<1>3. W \in [Callers -> CallRecords]
    <2>1. DOMAIN W = Callers /\ W = [c \in Callers |-> W[c]]
      BY DEF Watch
    <2> HIDE DEF W
    <2> QED
      BY <1>2, <2>1
<1> QED
    BY <1>2, <1>3 DEF AllSound

LEMMA CallsBegin == Init => CallsInv
<1> SUFFICES ASSUME Init PROVE CallsInv
    OBVIOUS
<1>1. NoCall \in CallRecords /\ NoCall.phase = "idle"
    BY DEF NoCall, CallRecords, WorkPhases
<1>2. call = [c \in Callers |-> NoCall] /\ menu \in Menus /\ unclaimed = 0
    BY DEF Init
<1>3. CallsTyped
    BY <1>1, <1>2 DEF CallsTyped
<1>4. \A c \in Callers : call[c] = NoCall
    BY <1>2
<1>5. \A active, due : AnswerSound(NoCall, active, due)
    BY <1>1 DEF AnswerSound
<1> QED
    BY <1>3, <1>4, <1>5 DEF CallsInv

\* A call that ends.
LEMMA EndOf ==
    ASSUME CallsInv, NEW c \in Callers,
           NEW out \in {"ok", "error", "malformed", "AuthError", "active", "inactive", "allowed", "denied"}
    PROVE  \E r \in CallRecords : /\ Finish(c, out) = [call EXCEPT ![c] = r]
                                  /\ r.phase = "done" /\ r.out = out /\ r.op = call[c].op /\ r.seen = call[c].seen
                                  /\ r.value = call[c].value /\ r.moved = call[c].moved /\ r.bestActive = call[c].bestActive
<1>1. call \in [Callers -> CallRecords]
    BY DEF CallsInv, CallsTyped
<1>2. PICK was \in CallRecords : was = call[c]
    BY <1>1
<1>3. PICK r : r = [was EXCEPT !.phase = "done", !.out = out]
    OBVIOUS
<1>4. r \in CallRecords /\ r.phase = "done" /\ r.out = out /\ r.op = was.op /\ r.seen = was.seen /\ r.value = was.value
      /\ r.moved = was.moved /\ r.bestActive = was.bestActive
    BY <1>3 DEF CallRecords, WorkPhases
<1>5. Finish(c, out) = [call EXCEPT ![c] = r]
    BY <1>1, <1>2, <1>3 DEF Finish
<1> QED
    BY <1>2, <1>4, <1>5

LEMMA EndingKeeps ==
    ASSUME CallsInv, NEW c \in Callers, call[c].phase \notin {"idle", "done"},
           NEW out \in {"ok", "error", "malformed", "AuthError", "active", "inactive", "allowed", "denied"},
           call' = Finish(c, out), UNCHANGED <<menu, unclaimed>>, IsActive(record, expired)' => IsActive(record, expired),
           out = "malformed" => ~Decodes(call[c].op[1], call[c].op[2], call[c].op[3]),
           out = "ok" => call[c].op[2] # "app" /\ Decodes(call[c].op[1], call[c].op[2], call[c].op[3]),
           out = "active" => call[c].phase = "second" /\ call[c].op[3] = "holder" /\ call[c].seen = "active"
    PROVE  CallsInv'
<1>1. PICK r \in CallRecords : /\ call' = [call EXCEPT ![c] = r]
                               /\ r.phase = "done" /\ r.out = out /\ r.op = call[c].op /\ r.seen = call[c].seen
                               /\ r.value = call[c].value /\ r.moved = call[c].moved /\ r.bestActive = call[c].bestActive
    BY EndOf
<1>2. AnswerSound(call[c], IsActive(record, expired), unclaimed) /\ call[c].op \in Work
    BY DEF CallsInv, AnswerSound
<1>3. call[c].op[3] = "claim" => call[c].op[2] = "app"
    BY <1>2, ClaimsAreComposed
<1>4. AnswerSound(r, IsActive(record, expired)', unclaimed)
    BY <1>1, <1>2, <1>3 DEF AnswerSound
<1> QED
    BY <1>1, <1>4, OneCall

LEMMA BeginningKeeps == ASSUME CallsInv, UNCHANGED menu, NEW c \in Callers, NEW op \in menu[c], Begin(c, op) PROVE CallsInv'
<1> DEFINE phase == IF Guarded(op) THEN IF c \in MalformedCallers THEN "done" ELSE "roster" ELSE IF op[2] = "app" THEN "first" ELSE "send"
           out == IF Guarded(op) /\ c \in MalformedCallers THEN "AuthError" ELSE "none"
           lost == Guarded(op) /\ ~Holds(c, op, admins, verifiers)
           best == IsActive(record, expired)
           r == [NoCall EXCEPT !.op = op, !.phase = phase, !.out = out, !.lost = lost, !.bestActive = best]
<1>1. call' = [call EXCEPT ![c] = r] /\ UNCHANGED <<admins, verifiers, record, expired, paused, unclaimed>>
    BY DEF Begin, chain
<1>2. op \in Work
    BY ClientCallsAssumption DEF CallsInv, CallsTyped
<1>3. phase \in {"done", "roster", "first", "send"} /\ out \in {"AuthError", "none"} /\ lost \in BOOLEAN /\ best \in BOOLEAN
    BY DEF IsActive
<1>4. phase \in {"roster", "send"} => op[2] # "app"
    BY DEF Guarded
<1>5. IsActive(record, expired) => best
    OBVIOUS
<1>6. phase = "first" => op[2] = "app"
    OBVIOUS
<1> HIDE DEF phase, out, lost, best
<1>7. r \in CallRecords /\ r.op = op /\ r.phase = phase /\ r.out = out /\ r.bestActive = best /\ r.seen = "none"
    BY <1>2, <1>3 DEF NoCall, CallRecords, WorkPhases
<1> HIDE DEF r
<1>8. AnswerSound(r, IsActive(record, expired), unclaimed)
    BY <1>2, <1>3, <1>4, <1>5, <1>6, <1>7 DEF AnswerSound
<1>9. IsActive(record, expired)' = IsActive(record, expired)
    BY <1>1 DEF IsActive
<1> QED
    BY <1>1, <1>7, <1>8, <1>9, OneCall

\* The steps of one call, with its rosters and contracts as they are.
LEMMA CallingKeeps ==
    ASSUME CallsInv, UNCHANGED menu, NEW c \in Callers,
           CheckRoster(c) \/ Fails(c) \/ HostRefuses(c) \/ OtherCall(c) \/ ReadPending(c) \/ ReadStatus(c) \/ ReadRecord(c) \/ Evaluate(c)
    PROVE  CallsInv'
<1>1. UNCHANGED <<record, expired, unclaimed>>
    BY DEF CheckRoster, Fails, HostRefuses, OtherCall, ReadPending, ReadStatus, ReadRecord, Evaluate, chain
<1>2. IsActive(record, expired)' = IsActive(record, expired)
    BY <1>1 DEF IsActive
<1>3. call[c] \in CallRecords /\ AnswerSound(call[c], IsActive(record, expired), unclaimed) /\ call \in [Callers -> CallRecords]
    BY DEF CallsInv, CallsTyped
<1>4. PICK was \in CallRecords : was = call[c]
    BY <1>3
<1>5. ASSUME NEW r \in CallRecords, call' = [call EXCEPT ![c] = r], AnswerSound(r, IsActive(record, expired), unclaimed) PROVE CallsInv'
    BY <1>1, <1>2, <1>5, OneCall
<1>6. ASSUME NEW out \in {"ok", "error", "malformed", "AuthError", "active", "inactive", "allowed", "denied"},
             call[c].phase \notin {"idle", "done"}, call' = Finish(c, out),
             out = "malformed" => ~Decodes(call[c].op[1], call[c].op[2], call[c].op[3]),
             out = "ok" => call[c].op[2] # "app" /\ Decodes(call[c].op[1], call[c].op[2], call[c].op[3]),
             out = "active" => call[c].phase = "second" /\ call[c].op[3] = "holder" /\ call[c].seen = "active"
      PROVE  CallsInv'
    BY <1>1, <1>2, <1>6, EndingKeeps
<1>7. CASE CheckRoster(c)
    <2>1. CASE call' = Finish(c, "AuthError")
      BY <1>6, <1>7, <2>1 DEF CheckRoster
    <2>2. CASE call' = [call EXCEPT ![c].phase = "send"]
      <3>1. PICK r : r = [was EXCEPT !.phase = "send"]
        OBVIOUS
      <3>2. call' = [call EXCEPT ![c] = r]
        BY <1>4, <2>2, <3>1
      <3>3. /\ r \in CallRecords /\ r.phase = "send" /\ r.op = was.op /\ r.out = was.out /\ r.bestActive = was.bestActive
        BY <3>1 DEF CallRecords, WorkPhases
      <3>4. was.phase = "roster"
        BY <1>4, <1>7 DEF CheckRoster
      <3>5. AnswerSound(r, IsActive(record, expired), unclaimed)
        BY <1>3, <1>4, <3>3, <3>4 DEF AnswerSound
      <3> QED
        BY <1>5, <3>2, <3>3, <3>5
    <2> QED
      BY <1>7, <2>1, <2>2 DEF CheckRoster
<1>8. CASE Fails(c)
    BY <1>6, <1>8 DEF Fails
<1>9. CASE HostRefuses(c)
    BY <1>6, <1>9 DEF HostRefuses
<1>10. CASE OtherCall(c)
    BY <1>6, <1>10 DEF OtherCall
<1>11. CASE ReadPending(c)
    <2>1. PICK r : r = [was EXCEPT !.phase = "second", !.value = unclaimed]
      OBVIOUS
    <2>2. call' = [call EXCEPT ![c] = r]
      BY <1>3, <1>4, <1>11, <2>1 DEF ReadPending
    <2>3. unclaimed \in Nat /\ was.phase = "first" /\ was.op[3] = "claim"
      BY <1>4, <1>11 DEF ReadPending, CallsInv, CallsTyped
    <2>4. r \in CallRecords /\ r.phase = "second" /\ r.op = was.op /\ r.value = unclaimed /\ r.bestActive = was.bestActive
      BY <2>1, <2>3 DEF CallRecords, WorkPhases
    <2>5. AnswerSound(r, IsActive(record, expired), unclaimed)
      BY <1>3, <1>4, <2>3, <2>4 DEF AnswerSound
    <2> QED
      BY <1>5, <2>2, <2>4, <2>5
<1>12. CASE ReadStatus(c)
    <2>1. PICK answer \in {"failed", IF IsActive(record, expired) THEN "active" ELSE "inactive"} :
              call' = [call EXCEPT ![c].phase = "second", ![c].seen = answer]
      BY <1>12 DEF ReadStatus
    <2>2. PICK r : r = [was EXCEPT !.phase = "second", !.seen = answer]
      OBVIOUS
    <2>3. call' = [call EXCEPT ![c] = r]
      BY <1>3, <1>4, <2>1, <2>2
    <2>4. answer \in {"failed", "active", "inactive"} /\ (answer = "active" => IsActive(record, expired))
      BY <2>1
    <2>5. was.phase = "first" /\ was.op[3] = "holder"
      BY <1>4, <1>12 DEF ReadStatus
    <2>6. r \in CallRecords /\ r.phase = "second" /\ r.op = was.op /\ r.seen = answer /\ r.bestActive = was.bestActive
      BY <2>2, <2>4 DEF CallRecords, WorkPhases
    <2>7. AnswerSound(r, IsActive(record, expired), unclaimed)
      BY <1>3, <1>4, <2>4, <2>5, <2>6 DEF AnswerSound
    <2> QED
      BY <1>5, <2>3, <2>6, <2>7
<1>13. CASE ReadRecord(c)
    <2>1. call[c].phase = "second" /\ call[c].op[3] = "holder"
          /\ \E out \in {"active", "inactive"} : call' = Finish(c, out) /\ (out = "active" => call[c].seen = "active")
      BY <1>13 DEF ReadRecord, StatusIs
    <2> QED
      BY <1>6, <2>1
<1>14. CASE Evaluate(c)
    <2>1. PICK out \in {"allowed", "denied"} : call' = [Finish(c, out) EXCEPT ![c].seen = IF paused THEN "denied" ELSE "allowed"]
      BY <1>14 DEF Evaluate
    <2>2. PICK r \in CallRecords : /\ Finish(c, out) = [call EXCEPT ![c] = r]
                                   /\ r.phase = "done" /\ r.out = out /\ r.op = call[c].op
      BY EndOf
    <2>3. PICK w : w = [r EXCEPT !.seen = IF paused THEN "denied" ELSE "allowed"]
      OBVIOUS
    <2>4. w \in CallRecords /\ w.phase = "done" /\ w.out = out /\ w.op = call[c].op
      BY <2>2, <2>3 DEF CallRecords
    <2>5. call' = [call EXCEPT ![c] = w]
      BY <1>3, <2>1, <2>2, <2>3
    <2>6. call[c].phase = "first"
      BY <1>14 DEF Evaluate
    <2>7. AnswerSound(w, IsActive(record, expired), unclaimed)
      BY <1>3, <2>1, <2>4, <2>6 DEF AnswerSound
    <2> QED
      BY <1>5, <2>4, <2>5, <2>7
<1> QED
    BY <1>7, <1>8, <1>9, <1>10, <1>11, <1>12, <1>13, <1>14

\* A step of the registry under the calls that are open.
LEMMA RegistryKeeps ==
    ASSUME CallsInv, UNCHANGED menu, NEW c \in Callers, NEW t, RegistryWrite(c, t)
    PROVE  CallsInv'
<1> DEFINE m == call[c].op[3]
           code == Refusal(c, m, t)
           ends == Finish(c, "ok")
<1>1. call[c].phase = "send" /\ call[c].op[2] = "kyc" /\ Decodes(call[c].op[1], "kyc", m)
    BY DEF RegistryWrite
<1>2. CASE code # 0
    <2>1. call' = Refuse(c, code) /\ UNCHANGED chain
      BY <1>2 DEF RegistryWrite
    <2>2. PICK out \in {"AuthError", "error"} : call' = Finish(c, out)
      BY <2>1 DEF Refuse
    <2>3. UNCHANGED <<record, expired, unclaimed>>
      BY <2>1 DEF chain
    <2>4. IsActive(record, expired)' = IsActive(record, expired)
      BY <2>3 DEF IsActive
    <2> QED
      BY <1>1, <2>2, <2>3, <2>4, EndingKeeps
<1>3. CASE code = 0
    <2>1. call' = Watch(ends, admins', verifiers', FALSE, IsActive(record', expired')) /\ unclaimed' = unclaimed
      BY <1>3 DEF RegistryWrite
    <2>2. PICK r \in CallRecords : /\ ends = [call EXCEPT ![c] = r]
                                   /\ r.phase = "done" /\ r.out = "ok" /\ r.op = call[c].op /\ r.seen = call[c].seen
                                   /\ r.value = call[c].value /\ r.moved = call[c].moved /\ r.bestActive = call[c].bestActive
      BY EndOf
    <2>3. /\ call \in [Callers -> CallRecords] /\ menu \in Menus /\ unclaimed \in Nat
          /\ \A d \in Callers : AnswerSound(call[d], IsActive(record, expired), unclaimed)
      BY DEF CallsInv, CallsTyped
    <2>4. call[c].op \in Work /\ call[c].op[3] # "claim"
      <3>1. call[c].op \in Work
        BY <1>1, <2>3 DEF AnswerSound
      <3> QED
        BY <1>1, <3>1, ClaimsAreComposed
    <2>5. AnswerSound(r, IsActive(record, expired), unclaimed)
      BY <1>1, <2>2, <2>4 DEF AnswerSound
    <2> HIDE DEF ends
    <2>6. ends \in [Callers -> CallRecords] /\ \A d \in Callers : AnswerSound(ends[d], IsActive(record, expired), unclaimed)
      BY <2>2, <2>3, <2>5
    <2>7. IsActive(record, expired) \in BOOLEAN /\ IsActive(record', expired') \in BOOLEAN
          /\ IsActive(record, expired)' = IsActive(record', expired')
      BY DEF IsActive
    <2>8. /\ call' \in [Callers -> CallRecords]
          /\ \A d \in Callers : AnswerSound(call'[d], IsActive(record', expired'), unclaimed)
      <3>1. PICK ads, vrs, quiet, active, is : ads = admins' /\ vrs = verifiers' /\ quiet = FALSE /\ active = IsActive(record', expired')
                                              /\ is = IsActive(record', expired')
        OBVIOUS
      <3>2. PICK was : was = IsActive(record, expired)
        OBVIOUS
      <3>3. call' = Watch(ends, ads, vrs, quiet, active) /\ quiet \in BOOLEAN /\ active \in BOOLEAN /\ was \in BOOLEAN /\ is \in BOOLEAN
            /\ (is => was \/ active)
        BY <2>1, <2>7, <3>1, <3>2
      <3>4. ends \in [Callers -> CallRecords] /\ AllSound(ends, was, unclaimed)
        BY <2>6, <3>2 DEF AllSound
      <3>5. PICK due : due = unclaimed
        OBVIOUS
      <3>6. (quiet \/ due = due) /\ (is => was \/ active) /\ AllSound(ends, was, due)
        BY <3>3, <3>4, <3>5
      <3>7. Watch(ends, ads, vrs, quiet, active) \in [Callers -> CallRecords] /\ AllSound(Watch(ends, ads, vrs, quiet, active), is, due)
        BY <3>3, <3>4, <3>6, WatchKeeps
      <3> QED
        BY <3>1, <3>3, <3>5, <3>7 DEF AllSound
    <2> QED
      BY <2>1, <2>3, <2>7, <2>8 DEF CallsInv, CallsTyped
<1> QED
    BY <1>2, <1>3

\* A claim pays what is due when it arrives, and disturbs the others.
LEMMA ClaimKeeps ==
    ASSUME CallsInv, UNCHANGED menu, NEW c \in Callers, ClaimDividend(c)
    PROVE  CallsInv'
<1>1. call[c].phase = "second" /\ call[c].op[3] = "claim" /\ UNCHANGED <<record, expired>>
    BY DEF ClaimDividend
<1>2. IsActive(record, expired)' = IsActive(record, expired) /\ IsActive(record, expired) \in BOOLEAN
    BY <1>1 DEF IsActive
<1>3. CASE unclaimed = 0
    <2>1. call' = Finish(c, "error") /\ unclaimed' = unclaimed
      BY <1>3 DEF ClaimDividend
    <2> QED
      BY <1>1, <1>2, <2>1, EndingKeeps
<1>4. CASE unclaimed # 0
    <2> DEFINE ends == [Finish(c, "ok") EXCEPT ![c].seen = unclaimed]
    <2>1. call' = Watch(ends, admins, verifiers, TRUE, FALSE) /\ unclaimed' = 0
      BY <1>4 DEF ClaimDividend
    <2>2. PICK r \in CallRecords : /\ Finish(c, "ok") = [call EXCEPT ![c] = r]
                                   /\ r.phase = "done" /\ r.out = "ok" /\ r.op = call[c].op /\ r.seen = call[c].seen
                                   /\ r.value = call[c].value /\ r.moved = call[c].moved /\ r.bestActive = call[c].bestActive
      BY EndOf
    <2>3. /\ call \in [Callers -> CallRecords] /\ menu \in Menus /\ unclaimed \in Nat
          /\ \A d \in Callers : AnswerSound(call[d], IsActive(record, expired), unclaimed)
      BY DEF CallsInv, CallsTyped
    <2>4. PICK w : w = [r EXCEPT !.seen = unclaimed]
      OBVIOUS
    <2>5. /\ w \in CallRecords /\ w.phase = "done" /\ w.out = "ok" /\ w.op = call[c].op /\ w.seen = unclaimed
          /\ w.value = call[c].value /\ w.moved = call[c].moved
      BY <2>2, <2>3, <2>4 DEF CallRecords
    <2>6. ends = [call EXCEPT ![c] = w]
      BY <2>2, <2>3, <2>4
    <2>7. AnswerSound(call[c], IsActive(record, expired), unclaimed) /\ call[c].op \in Work
      BY <1>1, <2>3 DEF AnswerSound
    <2>8. call[c].op[2] = "app"
      BY <1>1, <2>7, ClaimsAreComposed
    <2>9. AnswerSound(w, IsActive(record, expired), unclaimed)
      BY <1>1, <2>5, <2>7, <2>8 DEF AnswerSound
    <2> HIDE DEF ends
    <2>10. ends \in [Callers -> CallRecords] /\ \A d \in Callers : AnswerSound(ends[d], IsActive(record, expired), unclaimed)
      BY <2>3, <2>5, <2>6, <2>9
    <2>11. /\ call' \in [Callers -> CallRecords]
           /\ \A d \in Callers : AnswerSound(call'[d], IsActive(record, expired), 0)
      <3>1. PICK shaken, active, was : shaken = TRUE /\ active = FALSE /\ was = IsActive(record, expired)
        OBVIOUS
      <3>2. call' = Watch(ends, admins, verifiers, shaken, active) /\ shaken \in BOOLEAN /\ active \in BOOLEAN /\ was \in BOOLEAN
            /\ shaken
        BY <1>2, <2>1, <3>1
      <3>3. ends \in [Callers -> CallRecords] /\ AllSound(ends, was, unclaimed)
        BY <2>10, <3>1 DEF AllSound
      <3>4. call' \in [Callers -> CallRecords] /\ AllSound(call', was, 0)
        BY <3>2, <3>3, WatchKeeps
      <3> QED
        BY <3>1, <3>4 DEF AllSound
    <2> QED
      BY <1>2, <2>1, <2>3, <2>11 DEF CallsInv, CallsTyped
<1> QED
    BY <1>3, <1>4

\* What the contracts do by themselves.
LEMMA ContractsKeep ==
    ASSUME CallsInv, UNCHANGED menu, ApprovalExpires \/ DividendDeposited
    PROVE  CallsInv'
<1>1. /\ call \in [Callers -> CallRecords] /\ menu \in Menus /\ unclaimed \in Nat
      /\ \A d \in Callers : AnswerSound(call[d], IsActive(record, expired), unclaimed)
    BY DEF CallsInv, CallsTyped
<1>2. CASE ApprovalExpires
    <2>1. UNCHANGED <<call, unclaimed>> /\ ~IsActive(record, expired)'
      BY <1>2 DEF ApprovalExpires, IsActive
    <2>2. \A d \in Callers : AnswerSound(call[d], IsActive(record, expired)', unclaimed)
      BY <1>1, <2>1 DEF AnswerSound
    <2> QED
      BY <1>1, <2>1, <2>2 DEF CallsInv, CallsTyped
<1>3. CASE DividendDeposited
    <2>1. call' = Watch(call, admins, verifiers, TRUE, FALSE) /\ unclaimed' = unclaimed + 1 /\ UNCHANGED <<record, expired>>
      BY <1>3 DEF DividendDeposited
    <2>2. IsActive(record, expired)' = IsActive(record, expired) /\ IsActive(record, expired) \in BOOLEAN
      BY <2>1 DEF IsActive
    <2>3. /\ call' \in [Callers -> CallRecords]
          /\ \A d \in Callers : AnswerSound(call'[d], IsActive(record, expired), unclaimed')
      <3>1. PICK shaken, active, was : shaken = TRUE /\ active = FALSE /\ was = IsActive(record, expired)
        OBVIOUS
      <3>2. PICK more : more = unclaimed'
        OBVIOUS
      <3>3. call' = Watch(call, admins, verifiers, shaken, active) /\ shaken \in BOOLEAN /\ active \in BOOLEAN /\ was \in BOOLEAN
            /\ shaken
        BY <2>1, <2>2, <3>1
      <3>4. call \in [Callers -> CallRecords] /\ AllSound(call, was, unclaimed)
        BY <1>1, <3>1 DEF AllSound
      <3>5. call' \in [Callers -> CallRecords] /\ AllSound(call', was, more)
        BY <3>3, <3>4, WatchKeeps
      <3> QED
        BY <3>1, <3>2, <3>5 DEF AllSound
    <2>4. unclaimed' \in Nat /\ menu' \in Menus
      BY <1>1, <2>1
    <2> QED
      BY <2>2, <2>3, <2>4 DEF CallsInv, CallsTyped
<1> QED
    BY <1>2, <1>3

LEMMA CallsStep == CallsInv /\ [Next]_vars => CallsInv'
<1> SUFFICES ASSUME CallsInv, [Next]_vars PROVE CallsInv'
    OBVIOUS
<1>1. CASE UNCHANGED vars
    BY <1>1 DEF vars, chain, CallsInv, CallsTyped, IsActive
<1>2. CASE Next
    <2>1. UNCHANGED menu
      BY <1>2 DEF Next
    <2>2. ASSUME NEW c \in Callers, NEW op \in menu[c], Begin(c, op) PROVE CallsInv'
      BY <2>1, <2>2, BeginningKeeps
    <2>3. CASE ApprovalExpires \/ DividendDeposited
      BY <2>1, <2>3, ContractsKeep
    <2>4. ASSUME NEW c \in Callers, Answer(c) PROVE CallsInv'
      <3>1. CASE \E t \in Callers \ MalformedCallers : RegistryWrite(c, t)
        BY <2>1, <3>1, RegistryKeeps
      <3>2. CASE ClaimDividend(c)
        BY <2>1, <3>2, ClaimKeeps
      <3>3. CASE CheckRoster(c) \/ Fails(c) \/ HostRefuses(c) \/ OtherCall(c) \/ ReadPending(c) \/ ReadStatus(c) \/ ReadRecord(c) \/ Evaluate(c)
        BY <2>1, <3>3, CallingKeeps
      <3> QED
        BY <2>4, <3>1, <3>2, <3>3 DEF Answer
    <2> QED
      BY <1>2, <2>2, <2>3, <2>4 DEF Next
<1> QED
    BY <1>1, <1>2

LEMMA CallsAnswered == CallsInv => AnswersSound
<1> SUFFICES ASSUME CallsInv PROVE AnswersSound
    OBVIOUS
<1>1. ASSUME NEW c \in Callers, call[c].phase # "idle" PROVE call[c].op \in Work
    BY <1>1 DEF CallsInv, AnswerSound
<1>2. AnswerableExactly
    <2> SUFFICES ASSUME NEW c \in Callers, call[c].phase = "done", call[c].op[2] # "app", call[c].out \in {"ok", "malformed"}
                 PROVE  call[c].out = "malformed" <=> call[c].op[3] \in Unanswerable[call[c].op[1]][call[c].op[2]]
      BY DEF AnswerableExactly
    <2>1. PICK op \in Work : op = call[c].op
      BY <1>1
    <2>2. Decodes(op[1], op[2], op[3]) <=> op[3] \notin Unanswerable[op[1]][op[2]]
      BY <2>1, WorkIs, DecodedExactly
    <2>3. AnswerSound(call[c], IsActive(record, expired), unclaimed)
      BY DEF CallsInv
    <2> QED
      BY <2>1, <2>2, <2>3 DEF AnswerSound
<1>3. UndisturbedClaimExact
    BY DEF CallsInv, AnswerSound, UndisturbedClaimExact
<1>4. ActiveMeansActive
    BY DEF CallsInv, AnswerSound, ActiveMeansActive
<1> QED
    BY <1>2, <1>3, <1>4 DEF AnswersSound

\* Whatever other callers do meanwhile, for any work, rosters and dividends: the contracts refuse exactly the methods
\* listed for their shape, an undisturbed claim returns what was paid, and a holder shown as active was so during the
\* snapshot (sdk/src/clients, frontend/src/lib/contracts, lib/readApi.ts).
THEOREM AnswersHold == Spec => []AnswersSound
<1>1. Spec => []CallsInv
    BY CallsBegin, CallsStep, PTL DEF Spec
<1> QED
    BY <1>1, CallsAnswered, PTL
=============================================================================
