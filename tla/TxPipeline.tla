--------------------------- MODULE TxPipeline ---------------------------
(***************************************************************************)
(* The transaction pipeline of src/sdk/src/pipeline.ts and the two paths   *)
(* that bypass it (submitContractTx of clients/base.ts, simulateAndSend of *)
(* src/frontend/src/lib/stellar.ts), all signing for one account.  Every   *)
(* await is a step, so that calls interleave where the event loop lets     *)
(* them.  Values, resource footprints and XDR are left out; time is left   *)
(* out but for the deadline, which may pass whenever a poll finds nothing. *)
(***************************************************************************)
EXTENDS Network, FiniteSets

CONSTANTS
  Writes,      \* calls of TxPipeline.write, through one shared sequence cache
  Reads,       \* calls of TxPipeline.read
  Direct,      \* calls that carry a sequence of their own past the cache
  Timed,       \* those of Direct that poll against a deadline
  Content,     \* what each call asks for; equal content makes equal envelopes
  Seconds,     \* the clock readings an envelope's time bounds may come from
  MaxRetries,
  MaxCalls,    \* bound: calls made in a behaviour
  None         \* an empty cache entry

Calls == Writes \cup Reads \cup Direct

ASSUME PipelineAssumption ==
  /\ MaxRetries \in Nat /\ MaxCalls \in Nat
  /\ Timed \subseteq Direct
  /\ Writes \cap Direct = {} /\ Writes \cap Reads = {} /\ Direct \cap Reads = {}
  /\ None \notin Nat

VARIABLES
  cached,      \* sequenceCache entry of the account
  at,          \* where each call is suspended
  attempt,     \* retries made so far
  seq,         \* the sequence its current attempt was built on
  tx,          \* the envelope it has signed last
  sent,        \* every envelope a call has handed to the node
  answer       \* how each call ended

vars == <<net, cached, at, attempt, seq, tx, sent, answer>>

Typed == {"sequence", "simulation", "signing", "submission", "confirm"}
Answers == Typed \cup {"none", "ok", "timeout", "transient", "raw"}
Stages == {"idle", "sequence", "refresh", "simulate", "sign", "submit",
           "poll", "backoff", "done"}

Envelopes == [content : {Content[c] : c \in Calls}, seq : Nat, second : Seconds]

Init ==
  /\ NetInit
  /\ cached = None
  /\ at = [c \in Calls |-> "idle"]
  /\ attempt = [c \in Calls |-> 0]
  /\ seq = [c \in Calls |-> 0]
  /\ tx = [c \in Calls |-> None]
  /\ sent = [c \in Calls |-> {}]
  /\ answer = [c \in Calls |-> "none"]

Go(c, stage) == at' = [at EXCEPT ![c] = stage]
End(c, kind) == Go(c, "done") /\ answer' = [answer EXCEPT ![c] = kind]

Retry_Uncounted(c) ==
  IF attempt[c] < MaxRetries
  THEN Go(c, "backoff") /\ UNCHANGED <<attempt, answer>>
  ELSE End(c, "transient") /\ UNCHANGED attempt

\* withRetry: an error that is not of a typed kind is retried when its text
\* looks transient and attempts are left.
Retry(c) ==
  IF attempt[c] < MaxRetries
  THEN /\ Go(c, "backoff")
       /\ attempt' = [attempt EXCEPT ![c] = @ + 1]
       /\ UNCHANGED answer
  ELSE End(c, "transient") /\ UNCHANGED attempt

\* What becomes of an error thrown inside an attempt.
Throw(c, kind, transient) ==
  IF kind \notin Typed /\ transient /\ c \notin Direct
  THEN Retry(c)
  ELSE End(c, kind) /\ UNCHANGED attempt
----------------------------------------------------------------------------
(* 1, 2. Sequence and build. *)

Start(c) ==
  /\ at[c] = "idle" /\ Cardinality({d \in Calls : at[d] # "idle"}) < MaxCalls
  /\ Go(c, IF c \in Reads THEN "simulate" ELSE "sequence")
  /\ UNCHANGED <<net, cached, attempt, seq, tx, sent, answer>>

\* SequenceCache.next with an entry: read, not reserved.
TakeCached(c) ==
  /\ at[c] = "sequence" /\ c \in Writes /\ cached # None
  /\ seq' = [seq EXCEPT ![c] = cached]
  /\ Go(c, "simulate")
  /\ UNCHANGED <<net, cached, attempt, tx, sent, answer>>

\* Without one the account is asked for; the answer is under way.
AskSequence(c) ==
  /\ at[c] = "sequence" /\ (c \in Direct \/ cached = None)
  /\ \E n \in SeenSeq : seq' = [seq EXCEPT ![c] = n]
  /\ Go(c, "refresh")
  /\ UNCHANGED <<net, cached, attempt, tx, sent, answer>>

\* refresh stores the answer; fetchAccountSequence only returns it.
GetSequence(c) ==
  /\ at[c] = "refresh"
  /\ cached' = IF c \in Writes THEN seq[c] ELSE cached
  /\ Go(c, "simulate")
  /\ UNCHANGED <<net, attempt, seq, tx, sent, answer>>

SequenceFails(c) ==
  /\ at[c] = "refresh"
  /\ Throw(c, IF c \in Writes THEN "sequence" ELSE "raw", FALSE)
  /\ UNCHANGED <<net, cached, seq, tx, sent>>
----------------------------------------------------------------------------
(* 3 to 5. Simulation, assembly and signature. *)

Simulate(c) ==
  /\ at[c] = "simulate"
  /\ \/ c \notin Reads /\ Go(c, "sign") /\ UNCHANGED <<attempt, answer>>
     \/ c \in Reads /\ End(c, "ok") /\ UNCHANGED attempt
     \/ Throw(c, IF c \in Direct THEN "raw" ELSE "simulation", FALSE)
  /\ UNCHANGED <<net, cached, seq, tx, sent>>

\* The transport fails: a write forgets the sequence.
SimulateLost(c) ==
  /\ at[c] = "simulate"
  /\ \E transient \in BOOLEAN : Throw(c, "raw", transient)
  /\ cached' = IF c \in Writes THEN None ELSE cached
  /\ UNCHANGED <<net, seq, tx, sent>>

Sign(c) ==
  /\ at[c] = "sign"
  /\ \E s \in Seconds :
       tx' = [tx EXCEPT ![c] = [content |-> Content[c], seq |-> seq[c], second |-> s]]
  /\ Go(c, "submit")
  /\ UNCHANGED <<net, cached, attempt, seq, sent, answer>>

\* The wallet refuses or returns nothing.
SignFails(c) ==
  /\ at[c] = "sign"
  /\ Throw(c, IF c \in Direct THEN "raw" ELSE "signing", FALSE)
  /\ UNCHANGED <<net, cached, seq, tx, sent>>
----------------------------------------------------------------------------
(* 6. Submission. *)

Send(c) == sent' = [sent EXCEPT ![c] = @ \cup {tx[c]}]

\* ERROR leaves the cache as it is.
Rejected(c) ==
  /\ at[c] = "submit"
  /\ Receive(tx[c], "ERROR") /\ Send(c)
  /\ Throw(c, IF c \in Direct THEN "raw" ELSE "submission", FALSE)
  /\ UNCHANGED <<accountSeq, landed, cached, seq, tx>>

Accepted_Refetch(c, status) ==
  /\ at[c] = "submit" /\ status # "ERROR"
  /\ Receive(tx[c], status) /\ Send(c)
  /\ cached' = IF c \in Writes THEN None ELSE cached
  /\ Go(c, "poll")
  /\ UNCHANGED <<accountSeq, landed, attempt, seq, tx, answer>>

\* Any other status counts as accepted, TRY_AGAIN_LATER too.
Accepted(c, status) ==
  /\ at[c] = "submit" /\ status # "ERROR"
  /\ Receive(tx[c], status) /\ Send(c)
  /\ cached' = IF c \in Writes /\ cached # None THEN cached + 1 ELSE cached
  /\ Go(c, "poll")
  /\ UNCHANGED <<accountSeq, landed, attempt, seq, tx, answer>>

\* The request or its answer is lost: the node may have queued the envelope.
SubmitLost(c) ==
  /\ at[c] = "submit"
  /\ UNCHANGED pool \/ Receive(tx[c], "PENDING")
  /\ Send(c)
  /\ cached' = IF c \in Writes THEN None ELSE cached
  /\ \E transient \in BOOLEAN : Throw(c, "raw", transient)
  /\ UNCHANGED <<accountSeq, landed, seq, tx>>
----------------------------------------------------------------------------
(* 7. Confirmation. *)

Confirmed_AnyStatus(c) ==
  /\ at[c] = "poll" /\ Seen(tx[c]) # {"NOT_FOUND"}
  /\ End(c, "ok")
  /\ UNCHANGED <<net, cached, attempt, seq, tx, sent>>

Confirmed(c) ==
  /\ at[c] = "poll" /\ "SUCCESS" \in Seen(tx[c])
  /\ End(c, "ok")
  /\ UNCHANGED <<net, cached, attempt, seq, tx, sent>>

Failed(c) ==
  /\ at[c] = "poll" /\ "FAILED" \in Seen(tx[c])
  /\ Throw(c, IF c \in Direct THEN "raw" ELSE "confirm", FALSE)
  /\ UNCHANGED <<net, cached, seq, tx, sent>>

TimesOut_DirectOnly(c) ==
  /\ at[c] = "poll" /\ c \in Timed
  /\ \E transient \in BOOLEAN : Throw(c, "timeout", transient)
  /\ UNCHANGED <<net, cached, seq, tx, sent>>

\* The deadline passes; the text of the error holds a hash and a duration
\* in which a transient pattern (429, 502, 503) may happen to occur.
TimesOut(c) ==
  /\ at[c] = "poll" /\ c \in Writes \cup Timed
  /\ \E transient \in BOOLEAN : Throw(c, "timeout", transient)
  /\ UNCHANGED <<net, cached, seq, tx, sent>>

PollLost(c) ==
  /\ at[c] = "poll"
  /\ \E transient \in BOOLEAN : Throw(c, "raw", transient)
  /\ UNCHANGED <<net, cached, seq, tx, sent>>

\* The backoff is over: a new attempt from the sequence on.
Again(c) ==
  /\ at[c] = "backoff"
  /\ Go(c, IF c \in Reads THEN "simulate" ELSE "sequence")
  /\ UNCHANGED <<net, cached, attempt, seq, tx, sent, answer>>
----------------------------------------------------------------------------
\* Every await of a call is settled: a request is answered or fails, a
\* wallet signs or refuses, a timer fires.  A poll may find nothing for ever;
\* that its deadline passes is the only thing assumed of it.
Settle(c) ==
  \/ TakeCached(c) \/ AskSequence(c) \/ GetSequence(c) \/ SequenceFails(c)
  \/ Simulate(c) \/ SimulateLost(c) \/ Sign(c) \/ SignFails(c)
  \/ Rejected(c) \/ SubmitLost(c)
  \/ \E status \in {"PENDING", "DUPLICATE", "TRY_AGAIN_LATER"} : Accepted(c, status)
  \/ Confirmed(c) \/ Failed(c) \/ TimesOut(c) \/ Again(c)

Step(c) == Settle(c) \/ PollLost(c)

Ledger ==
  /\ \/ \E t \in pool, status \in {"SUCCESS", "FAILED"} : CloseLedger(t, status)
     \/ \E t \in pool : Expire(t)
  /\ UNCHANGED <<cached, at, attempt, seq, tx, sent, answer>>

Next == (\E c \in Calls : Start(c) \/ Step(c)) \/ Ledger

Fairness == \A c \in Calls : WF_vars(Settle(c))

Spec == Init /\ [][Next]_vars /\ Fairness
----------------------------------------------------------------------------
TypeOK ==
  /\ accountSeq \in Nat /\ pool \subseteq Envelopes
  /\ landed \subseteq Envelopes \X {"SUCCESS", "FAILED"}
  /\ cached \in Nat \cup {None}
  /\ at \in [Calls -> Stages]
  /\ attempt \in [Calls -> 0..MaxRetries]
  /\ seq \in [Calls -> Nat]
  /\ tx \in [Calls -> Envelopes \cup {None}]
  /\ sent \in [Calls -> SUBSET Envelopes]
  /\ answer \in [Calls -> Answers]

Executed(c) == {r \in landed : r[1] \in sent[c]}
Alone(c) == \A d \in Calls \ {c} : Content[d] # Content[c]

\* A call that reports success is the call whose own last envelope was
\* executed with success: no earlier attempt, no rejected one, no lost one
\* is taken for it (pipeline.ts, _writeOnce and withRetry).
ReportedLanded ==
  \A c \in Writes \cup Direct :
    answer[c] = "ok" => tx[c] \in sent[c] /\ <<tx[c], "SUCCESS">> \in landed

\* A call that was never retried tells exactly what happened: success is one
\* execution, an error before submission or a rejection is none, a
\* ConfirmError is one execution that failed.
FirstTryExact ==
  \A c \in Calls : at[c] = "done" /\ attempt[c] = 0 /\ Alone(c) =>
    /\ answer[c] = "ok" /\ c \notin Reads =>
         Executed(c) = {<<tx[c], "SUCCESS">>}
    /\ answer[c] \in {"sequence", "simulation", "signing", "submission"} =>
         Executed(c) = {} /\ sent[c] \cap pool = {}
    /\ answer[c] = "confirm" => Executed(c) = {<<tx[c], "FAILED">>}

\* The cache serves its purpose: when calls that ask for different things have
\* all returned success at their first try, the next write is built on the
\* chain's sequence, even while the RPC node still answers from the ledger before.
FlowNeverStale ==
  (\A d \in Calls : Alone(d)) =>
  \A c \in Writes :
    /\ at[c] = "sequence" /\ attempt[c] = 0
    /\ \A d \in Calls \ {c} :
         at[d] = "idle" \/ (d \notin Direct /\ answer[d] = "ok" /\ attempt[d] = 0)
    => IF cached = None THEN SeenSeq = {accountSeq} ELSE cached = accountSeq

FirstTriesSound == FirstTryExact /\ FlowNeverStale

\* A write always comes to an answer: retries are bounded, and a poll that
\* finds nothing ends at its deadline.
EveryWriteAnswers ==
  \A c \in Writes \cup Reads \cup Timed : at[c] # "idle" ~> at[c] = "done"
=============================================================================
