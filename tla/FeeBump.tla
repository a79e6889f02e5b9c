------------------------------ MODULE FeeBump ------------------------------
(***************************************************************************)
(* A signed transaction sent again and again inside fee-bump envelopes of  *)
(* growing fee, and what the hook shows of the calls made through it.      *)
(*                                                                         *)
(* All envelopes of a call hold the same inner transaction, so a ledger    *)
(* includes one of them at most. An envelope is named by its fee.          *)
(***************************************************************************)
EXTENDS Naturals

CONSTANTS
    Submissions,    \* calls of submit, each with an inner transaction of its own
    InitialFee, MaxFee, MaxRetries  \* FeeBumpConfig

VARIABLES
    bump,       \* the calls
    envelopes,  \* per call: the fees a node has queued, and <<fee, status>> once a ledger included one
    shown       \* the status the hook shows

bumpVars == <<bump, envelopes, shown>>

Fresh == [phase |-> "idle", fee |-> InitialFee, attempt |-> 0, out |-> "none"]

Init ==
    /\ bump = [c \in Submissions |-> Fresh]
    /\ envelopes = [c \in Submissions |-> [queued |-> {}, landed |-> <<>>]]
    /\ shown = "idle"

----------------------------------------------------------------------------
(* The network *)

Queue(c) == envelopes' = [envelopes EXCEPT ![c].queued = @ \cup {bump[c].fee}]

Include(c, fee, status) ==
    /\ fee \in envelopes[c].queued
    /\ envelopes' = [envelopes EXCEPT ![c] = [queued |-> {}, landed |-> <<fee, status>>]]
    /\ UNCHANGED <<bump, shown>>

Drop(c, fee) ==
    /\ fee \in envelopes[c].queued
    /\ envelopes' = [envelopes EXCEPT ![c].queued = @ \ {fee}]
    /\ UNCHANGED <<bump, shown>>

----------------------------------------------------------------------------
(* The hook *)

At(c, phase) == bump[c].phase = phase

Show(kind) == shown' = kind

End(c, out) == bump' = [bump EXCEPT ![c].phase = "done", ![c].out = out]

Submit(c) ==
    /\ At(c, "idle")
    /\ bump' = [bump EXCEPT ![c].phase = "sign"]
    /\ Show("signing")
    /\ UNCHANGED envelopes

Signed(c) ==
    /\ At(c, "sign")
    /\ bump' = [bump EXCEPT ![c].phase = "send"]
    /\ Show("submitting")
    /\ UNCHANGED envelopes

SignRefused(c) == At(c, "sign") /\ End(c, "unsigned") /\ Show("failed") /\ UNCHANGED envelopes

\* Nothing in flight is stopped.
Reset == shown # "idle" /\ Show("idle") /\ UNCHANGED <<bump, envelopes>>

\* trackingSleep shows every wait of the pipeline as a retry, the waits between two polls included.
Wake(c) ==
    /\ At(c, "sleep") \/ At(c, "backoff")
    /\ bump' = [bump EXCEPT ![c].phase = IF @ = "sleep" THEN "poll" ELSE "escalate"]
    /\ Show("submitting")
    /\ UNCHANGED envelopes

----------------------------------------------------------------------------
(* submitWithFeeBump *)

\* The next fee, 0 at the cap.
nextFee(fee) == IF fee >= MaxFee THEN 0 ELSE IF 2 * fee > MaxFee THEN MaxFee ELSE 2 * fee

Escalate(c) ==
    /\ At(c, "escalate")
    /\ IF nextFee(bump[c].fee) = 0 THEN End(c, "exhausted") /\ Show("failed")
       ELSE /\ bump' = [bump EXCEPT ![c].fee = nextFee(@), ![c].phase = "send"]
            /\ UNCHANGED shown
    /\ UNCHANGED envelopes

\* The node takes the envelope, has it already, or refuses it.
Send(c) ==
    /\ At(c, "send")
    /\ envelopes[c].landed \in {<<>>, <<bump[c].fee, "SUCCESS">>, <<bump[c].fee, "FAILED">>}
    /\ bump' = [bump EXCEPT ![c].phase = "poll"]
    /\ IF envelopes[c].landed = <<>> THEN Queue(c) ELSE UNCHANGED envelopes
    /\ UNCHANGED shown

SendRefused(c) == At(c, "send") /\ End(c, "refused") /\ Show("failed") /\ UNCHANGED envelopes

\* A call to the node that throws is none of the two errors that are retried; what was sent may have arrived.
SendLost(c) ==
    /\ At(c, "send")
    /\ End(c, "lost") /\ Show("failed")
    /\ UNCHANGED envelopes \/ (envelopes[c].landed = <<>> /\ Queue(c))

\* Asked by the inner hash, the node answers for whichever envelope was included.
Answer_InnerHash(c) == IF envelopes[c].landed = <<>> THEN "NOT_FOUND" ELSE envelopes[c].landed[2]

\* Asked by the envelope's hash, it answers for that envelope.
Answer(c) ==
    IF envelopes[c].landed # <<>> /\ envelopes[c].landed[1] = bump[c].fee THEN envelopes[c].landed[2] ELSE "NOT_FOUND"

PollAnswered(c) ==
    /\ At(c, "poll")
    /\ \/ Answer(c) = "SUCCESS" /\ End(c, "success") /\ Show("success")
       \/ Answer(c) = "FAILED" /\ End(c, "failed") /\ Show("failed")
    /\ UNCHANGED envelopes

PollPending(c) ==
    /\ At(c, "poll")
    /\ bump' = [bump EXCEPT ![c].phase = "sleep"]
    /\ Show("retrying")
    /\ UNCHANGED envelopes

PollLost(c) == At(c, "poll") /\ End(c, "lost") /\ Show("failed") /\ UNCHANGED envelopes

\* A minute without an answer is a TimeoutError.
PollTimeout(c) ==
    /\ At(c, "poll")
    /\ IF bump[c].attempt >= MaxRetries THEN End(c, "exhausted") /\ Show("failed")
       ELSE bump' = [bump EXCEPT ![c].phase = "backoff", ![c].attempt = @ + 1] /\ Show("retrying")
    /\ UNCHANGED envelopes

----------------------------------------------------------------------------

Next ==
    \/ \E c \in Submissions :
          \/ Submit(c) \/ Signed(c) \/ SignRefused(c) \/ Wake(c) \/ Escalate(c)
          \/ Send(c) \/ SendRefused(c) \/ SendLost(c)
          \/ PollAnswered(c) \/ PollPending(c) \/ PollLost(c) \/ PollTimeout(c)
          \/ \E fee \in envelopes[c].queued : Drop(c, fee) \/ \E status \in {"SUCCESS", "FAILED"} : Include(c, fee, status)
    \/ Reset

Spec == Init /\ [][Next]_bumpVars

----------------------------------------------------------------------------
(* Properties *)

\* The fee of a success is the fee of the envelope that the ledger included, however many envelopes of the same
\* transaction were on their way (feeBump.ts, FeeBumpResult.feePaid).
FeePaidExact ==
    \A c \in Submissions : bump[c].out = "success" => envelopes[c].landed = <<bump[c].fee, "SUCCESS">>

\* A call gives up for want of an answer only when every retry is used or the highest fee was tried
\* (feeBump.ts, submitWithFeeBump and nextFee).
GivesUpLast ==
    \A c \in Submissions : bump[c].out = "exhausted" => bump[c].attempt = MaxRetries \/ bump[c].fee >= MaxFee

\* The hook shows progress only while some call of it is under way, whichever calls overlap
\* (useSubmitWithFeeBump.ts, submit).
NoGhostProgress ==
    shown \in {"signing", "submitting", "retrying"} => \E c \in Submissions : bump[c].phase \notin {"idle", "done"}

\* What the caller of a submission and the user who watches it are told is so.
CallersTold == FeePaidExact /\ GivesUpLast /\ NoGhostProgress
=============================================================================
