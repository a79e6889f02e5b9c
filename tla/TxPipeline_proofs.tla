------------------------- MODULE TxPipeline_proofs -------------------------
(***************************************************************************)
(* What a caller of the pipeline is told, for any calls, contents, clock   *)
(* readings and number of retries: a reported success is the execution of  *)
(* the call's own last envelope, a first try tells exactly what happened,  *)
(* and undisturbed flow is never built on a stale sequence.                *)
(*                                                                         *)
(* The argument has three layers.  The chain executes a sequence number    *)
(* once, and only what was queued for it (ChainInv).  What is queued or    *)
(* executed was sent by a call that asked for just that (OwnInv).  A call  *)
(* that was never retried has sent at most its one envelope (TryInv), so   *)
(* that what happened to the envelope is what happened to the call.        *)
(*                                                                         *)
(* The deployment script, for any contracts, dependencies, configs and     *)
(* faults (ScriptInv): the entries of a run are at all times what a        *)
(* manifest may be, and move on from it with newer builds alone; so the    *)
(* write at its end, and a death before it, are both safe.                 *)
(***************************************************************************)
EXTENDS Submissions, TLAPS

ChainInv ==
  /\ \A r \in landed : r[1].seq < accountSeq
  /\ \A r, q \in landed : r[1].seq = q[1].seq => r = q
  /\ \A t \in pool : t.seq = accountSeq /\ pool = {t}

OwnInv ==
  /\ \A c \in Calls : \A t \in sent[c] : t.content = Content[c]
  /\ \A t \in pool : \E c \in Calls : t \in sent[c]
  /\ \A r \in landed : \E c \in Calls : r[1] \in sent[c]

\* Where a call is, and what it has signed, sent and answered by then.
Stage(c) ==
  /\ answer[c] # "none" => at[c] = "done"
  /\ at[c] \in {"submit", "poll"} =>
       tx[c] \in Envelopes /\ tx[c].content = Content[c] /\ tx[c].seq = seq[c]
  /\ at[c] = "poll" => tx[c] \in sent[c]
  /\ c \in Reads => at[c] \in {"idle", "simulate", "backoff", "done"}
  /\ c \in Reads \/ at[c] = "idle" => sent[c] = {}
  /\ answer[c] = "ok" /\ c \notin Reads => tx[c] \in sent[c] /\ <<tx[c], "SUCCESS">> \in landed

StageInv == \A c \in Calls : Stage(c)

\* Of a call that was never retried.
Try(c) ==
  attempt[c] = 0 =>
    /\ at[c] # "backoff"
    /\ at[c] \notin {"poll", "done"} => sent[c] = {}
    /\ at[c] = "poll" => sent[c] = {tx[c]}
    /\ answer[c] \in {"sequence", "simulation", "signing"} => sent[c] = {}
    /\ answer[c] = "ok" /\ c \notin Reads => sent[c] = {tx[c]} /\ tx[c].seq = seq[c]
    /\ answer[c] = "confirm" => sent[c] = {tx[c]} /\ <<tx[c], "FAILED">> \in landed
    /\ answer[c] = "submission" /\ Alone(c) =>
         sent[c] \cap pool = {} /\ \A r \in landed : r[1] \notin sent[c]

TryInv == \A c \in Calls : Try(c)

CallsInv == TypeOK /\ ChainInv /\ OwnInv /\ StageInv /\ TryInv

(***************************************************************************)
(* Undisturbed flow: every call that has started may still succeed at its  *)
(* first try.  Of two writes on one sequence number, one never can, nor    *)
(* one whose number has been used or whose envelope was not queued.        *)
(***************************************************************************)
InFlight == {"refresh", "simulate", "sign", "submit"}
Taken(c) == c \in Writes /\ at[c] \notin {"idle", "sequence"}

Hopeful(c) ==
  /\ c \notin Direct
  /\ attempt[c] = 0
  /\ at[c] = "done" => answer[c] = "ok"
  /\ c \in Writes /\ at[c] \in InFlight => seq[c] >= accountSeq
  /\ c \in Writes /\ at[c] = "poll" => tx[c] \in pool \/ <<tx[c], "SUCCESS">> \in landed

Undisturbed ==
  /\ \A c \in Calls : Alone(c)
  /\ \A c \in Calls : at[c] # "idle" => Hopeful(c)
  /\ \A c, d \in Writes : c # d /\ Taken(c) /\ Taken(d) => seq[c] # seq[d]

\* The cache is empty until the first write has asked the account, and from
\* then on one ahead of what is queued; at most one write is on its number.
CacheAhead ==
  IF cached = None
  THEN /\ landed = {} /\ pool = {}
       /\ \A c \in Writes : Taken(c) => at[c] = "refresh" /\ seq[c] = accountSeq
  ELSE /\ cached = IF pool = {} THEN accountSeq ELSE accountSeq + 1
       /\ \A c \in Writes : at[c] \in InFlight => at[c] # "refresh" /\ seq[c] = cached

FlowInv == Undisturbed => CacheAhead

----------------------------------------------------------------------------
(* Types *)

LEMMA SequencesAreSeen ==
  ASSUME TypeOK, ChainInv
  PROVE  SeenSeq \subseteq Nat
<1>1. CASE landed = {}
  BY <1>1 DEF SeenSeq, TypeOK
<1>2. CASE landed # {}
  <2>1. PICK r \in landed : r[1].seq < accountSeq
    BY <1>2 DEF ChainInv
  <2>2. r[1].seq \in Nat /\ accountSeq \in Nat
    BY <2>1 DEF TypeOK, Envelopes
  <2>3. accountSeq - 1 \in Nat
    BY <2>1, <2>2
  <2> QED
    BY <1>2, <2>2, <2>3 DEF SeenSeq
<1> QED
  BY <1>1, <1>2

\* Where a call goes next, and what becomes of it.
LEMMA ThrowType ==
  ASSUME TypeOK, NEW c \in Calls, NEW kind \in Answers, NEW transient \in BOOLEAN,
         Throw(c, kind, transient)
  PROVE  /\ at' \in [Calls -> Stages]
         /\ attempt' \in [Calls -> 0..MaxRetries]
         /\ answer' \in [Calls -> Answers]
BY PipelineAssumption DEF Throw, Retry, End, Go, TypeOK, Stages, Answers, Typed

LEMMA TypeStep ==
  ASSUME TypeOK, ChainInv, StageInv, [Next]_vars
  PROVE  TypeOK'
<1> USE DEF TypeOK, vars, net
<1>1. ASSUME NEW c \in Calls, Start(c)
      PROVE  TypeOK'
  BY <1>1 DEF Start, Go, Stages
<1>2. ASSUME NEW c \in Calls, TakeCached(c)
      PROVE  TypeOK'
  BY <1>2 DEF TakeCached, Go, Stages
<1>3. ASSUME NEW c \in Calls, AskSequence(c)
      PROVE  TypeOK'
  BY <1>3, SequencesAreSeen DEF AskSequence, Go, Stages
<1>4. ASSUME NEW c \in Calls, GetSequence(c)
      PROVE  TypeOK'
  BY <1>4 DEF GetSequence, Go, Stages
<1>5. ASSUME NEW c \in Calls, SequenceFails(c) \/ SignFails(c) \/ Failed(c) \/ TimesOut(c) \/ PollLost(c)
      PROVE  TypeOK'
  <2>1. \E kind \in Answers, transient \in BOOLEAN : Throw(c, kind, transient)
    BY <1>5 DEF SequenceFails, SignFails, Failed, TimesOut, PollLost, Answers, Typed
  <2>2. UNCHANGED <<net, cached, seq, tx, sent>>
    BY <1>5 DEF SequenceFails, SignFails, Failed, TimesOut, PollLost
  <2> QED
    BY <2>1, <2>2, ThrowType
<1>6. ASSUME NEW c \in Calls, Simulate(c)
      PROVE  TypeOK'
  <2>1. /\ at' \in [Calls -> Stages]
        /\ attempt' \in [Calls -> 0..MaxRetries]
        /\ answer' \in [Calls -> Answers]
    <3>1. CASE Throw(c, IF c \in Direct THEN "raw" ELSE "simulation", FALSE)
      BY <3>1, ThrowType DEF Answers, Typed
    <3>2. CASE c \notin Reads /\ Go(c, "sign") /\ UNCHANGED <<attempt, answer>>
      BY <3>2 DEF Go, Stages
    <3>3. CASE c \in Reads /\ End(c, "ok") /\ UNCHANGED attempt
      BY <3>3 DEF End, Go, Stages, Answers
    <3> QED
      BY <1>6, <3>1, <3>2, <3>3 DEF Simulate
  <2> QED
    BY <1>6, <2>1 DEF Simulate
<1>7. ASSUME NEW c \in Calls, SimulateLost(c)
      PROVE  TypeOK'
  BY <1>7, ThrowType DEF SimulateLost, Answers
<1>8. ASSUME NEW c \in Calls, Sign(c)
      PROVE  TypeOK'
  <2>1. ASSUME NEW s \in Seconds
        PROVE  [content |-> Content[c], seq |-> seq[c], second |-> s] \in Envelopes
    BY <2>1 DEF Envelopes
  <2> QED
    BY <1>8, <2>1 DEF Sign, Go, Stages
<1>9. ASSUME NEW c \in Calls, at[c] = "submit", Send(c),
             UNCHANGED pool \/ pool' = {tx[c]}
      PROVE  pool' \subseteq Envelopes /\ sent' \in [Calls -> SUBSET Envelopes]
  BY <1>9 DEF Send, StageInv, Stage
<1>10. ASSUME NEW c \in Calls, Rejected(c)
       PROVE  TypeOK'
  <2>1. UNCHANGED pool
    BY <1>10 DEF Rejected, Receive
  <2> QED
    BY <1>10, <2>1, <1>9, ThrowType DEF Rejected, Answers, Typed
<1>11. ASSUME NEW c \in Calls, NEW status, Accepted(c, status)
       PROVE  TypeOK'
  <2>1. UNCHANGED pool \/ pool' = {tx[c]}
    BY <1>11 DEF Accepted, Receive
  <2> QED
    BY <1>11, <2>1, <1>9 DEF Accepted, Go, Stages
<1>12. ASSUME NEW c \in Calls, SubmitLost(c)
       PROVE  TypeOK'
  <2>1. UNCHANGED pool \/ pool' = {tx[c]}
    BY <1>12 DEF SubmitLost, Receive
  <2> QED
    BY <1>12, <2>1, <1>9, ThrowType, ZenonT(60) DEF SubmitLost, Answers
<1>13. ASSUME NEW c \in Calls, Confirmed(c)
       PROVE  TypeOK'
  BY <1>13 DEF Confirmed, End, Go, Stages, Answers
<1>14. ASSUME NEW c \in Calls, Again(c)
       PROVE  TypeOK'
  BY <1>14 DEF Again, Go, Stages
<1>15. CASE Ledger
  BY <1>15 DEF Ledger, CloseLedger, Expire
<1>16. CASE UNCHANGED vars
  BY <1>16
<1> QED
  BY <1>1, <1>2, <1>3, <1>4, <1>5, <1>6, <1>7, <1>8, <1>10, <1>11, <1>12, <1>13, <1>14, <1>15, <1>16
  DEF Next, Step, Settle

----------------------------------------------------------------------------
(* The chain and what was sent *)

\* What a step does to the node: nothing, queue what the call on its way
\* sends, close a ledger over what is queued, or let it expire.
QuietStep(c) ==
  \/ Start(c) \/ TakeCached(c) \/ AskSequence(c) \/ GetSequence(c) \/ SequenceFails(c)
  \/ Simulate(c) \/ SimulateLost(c) \/ Sign(c) \/ SignFails(c)
  \/ Confirmed(c) \/ Failed(c) \/ TimesOut(c) \/ PollLost(c) \/ Again(c)

SendStep(c) ==
  Rejected(c) \/ SubmitLost(c) \/ \E status \in {"PENDING", "DUPLICATE", "TRY_AGAIN_LATER"} : Accepted(c, status)

LEMMA StepKinds ==
  ASSUME [Next]_vars
  PROVE  \/ \E c \in Calls : QuietStep(c)
         \/ \E c \in Calls : SendStep(c)
         \/ Ledger
         \/ UNCHANGED vars
BY DEF Next, Step, Settle, QuietStep, SendStep

LEMMA QuietSteps ==
  ASSUME NEW c \in Calls, QuietStep(c)
  PROVE  /\ accountSeq' = accountSeq /\ pool' = pool /\ landed' = landed /\ sent' = sent
         /\ TypeOK => \A d \in Calls \ {c} :
              /\ at'[d] = at[d] /\ attempt'[d] = attempt[d] /\ answer'[d] = answer[d]
           /\ seq'[d] = seq[d] /\ tx'[d] = tx[d]
<1>1. accountSeq' = accountSeq /\ pool' = pool /\ landed' = landed /\ sent' = sent
  BY DEF QuietStep, Start, TakeCached, AskSequence, GetSequence, SequenceFails, Simulate, SimulateLost,
         Sign, SignFails, Confirmed, Failed, TimesOut, PollLost, Again, net
<1>2. ASSUME TypeOK, NEW d \in Calls \ {c}
      PROVE  /\ at'[d] = at[d] /\ attempt'[d] = attempt[d] /\ answer'[d] = answer[d]
           /\ seq'[d] = seq[d] /\ tx'[d] = tx[d]
  BY <1>2 DEF QuietStep, Start, TakeCached, AskSequence, GetSequence, SequenceFails, Simulate, SimulateLost,
         Sign, SignFails, Confirmed, Failed, TimesOut, PollLost, Again, Throw, Retry, End, Go, TypeOK
<1> QED
  BY <1>1, <1>2

\* A node queues what is sent to it, on time and alone, or leaves its queue.
Queues(t) ==
  \/ UNCHANGED pool
  \/ t.seq = accountSeq /\ pool = {} /\ pool' = {t}

LEMMA SendSteps ==
  ASSUME NEW c \in Calls, SendStep(c)
  PROVE  /\ at[c] = "submit"
         /\ Queues(tx[c])
         /\ sent' = [sent EXCEPT ![c] = @ \cup {tx[c]}]
         /\ accountSeq' = accountSeq /\ landed' = landed /\ seq' = seq /\ tx' = tx
         /\ TypeOK => \A d \in Calls \ {c} : at'[d] = at[d] /\ attempt'[d] = attempt[d] /\ answer'[d] = answer[d]
<1>1. /\ at[c] = "submit"
      /\ Queues(tx[c])
      /\ sent' = [sent EXCEPT ![c] = @ \cup {tx[c]}]
      /\ accountSeq' = accountSeq /\ landed' = landed /\ seq' = seq /\ tx' = tx
  BY DEF SendStep, Rejected, SubmitLost, Accepted, Receive, OnTime, Queues, Send
<1>2. ASSUME TypeOK, NEW d \in Calls \ {c}
      PROVE  at'[d] = at[d] /\ attempt'[d] = attempt[d] /\ answer'[d] = answer[d]
  BY <1>2 DEF SendStep, Rejected, SubmitLost, Accepted, Throw, Retry, End, Go, TypeOK
<1> QED
  BY <1>1, <1>2

LEMMA LedgerSteps ==
  ASSUME Ledger
  PROVE  /\ UNCHANGED <<cached, at, attempt, seq, tx, sent, answer>>
         /\ \E t \in pool :
              /\ pool' = pool \ {t}
              /\ \/ UNCHANGED <<accountSeq, landed>>
                 \/ /\ t.seq = accountSeq
                    /\ accountSeq' = accountSeq + 1
                    /\ \E status \in {"SUCCESS", "FAILED"} : landed' = landed \cup {<<t, status>>}
BY DEF Ledger, CloseLedger, Expire, OnTime

LEMMA ChainStep ==
  ASSUME TypeOK, ChainInv, [Next]_vars
  PROVE  ChainInv'
<1>1. CASE UNCHANGED <<accountSeq, pool, landed>>
  BY <1>1 DEF ChainInv
<1>2. ASSUME NEW c \in Calls, SendStep(c)
      PROVE  ChainInv'
  BY <1>2, SendSteps DEF ChainInv, Queues
<1>3. CASE Ledger
  <2>1. PICK t \in pool :
          /\ pool' = pool \ {t}
          /\ \/ UNCHANGED <<accountSeq, landed>>
             \/ /\ t.seq = accountSeq
                /\ accountSeq' = accountSeq + 1
                /\ \E status \in {"SUCCESS", "FAILED"} : landed' = landed \cup {<<t, status>>}
    BY <1>3, LedgerSteps
  <2>2. pool = {t} /\ pool' = {} /\ accountSeq \in Nat
    BY <2>1 DEF ChainInv, TypeOK
  <2>3. CASE UNCHANGED <<accountSeq, landed>>
    BY <2>2, <2>3 DEF ChainInv
  <2>4. ASSUME t.seq = accountSeq, accountSeq' = accountSeq + 1,
               NEW status \in {"SUCCESS", "FAILED"}, landed' = landed \cup {<<t, status>>}
        PROVE  ChainInv'
    <3>1. \A r \in landed : r[1].seq \in Nat
      BY DEF TypeOK, Envelopes
    <3> QED
      BY <2>2, <2>4, <3>1 DEF ChainInv
  <2> QED
    BY <2>1, <2>3, <2>4
<1> QED
  BY <1>1, <1>2, <1>3, StepKinds, QuietSteps DEF vars, net

LEMMA OwnStep ==
  ASSUME TypeOK, StageInv, OwnInv, [Next]_vars
  PROVE  OwnInv'
<1>1. CASE UNCHANGED <<pool, landed, sent>>
  BY <1>1 DEF OwnInv
<1>2. ASSUME NEW c \in Calls, SendStep(c)
      PROVE  OwnInv'
  <2>1. /\ tx[c].content = Content[c]
        /\ pool' \subseteq pool \cup {tx[c]}
        /\ landed' = landed
    BY <1>2, SendSteps DEF StageInv, Stage, Queues
  <2>2. sent' = [sent EXCEPT ![c] = @ \cup {tx[c]}]
    BY <1>2, SendSteps
  <2>3. \A d \in Calls : sent'[d] = IF d = c THEN sent[d] \cup {tx[c]} ELSE sent[d]
    BY <2>2 DEF TypeOK
  <2> QED
    BY <2>1, <2>3 DEF OwnInv
<1>3. CASE Ledger
  BY <1>3, LedgerSteps DEF OwnInv
<1> QED
  BY <1>1, <1>2, <1>3, StepKinds, QuietSteps DEF vars, net

----------------------------------------------------------------------------
(* Where calls are *)

\* A call is tried again, or is at its end.
Retries(c) == at'[c] = "backoff" /\ attempt'[c] = attempt[c] + 1 /\ answer'[c] = answer[c]
EndsWith(c, kind) == at'[c] = "done" /\ attempt'[c] = attempt[c] /\ answer'[c] = kind

LEMMA Throws ==
  ASSUME TypeOK, NEW c \in Calls, NEW kind, NEW transient, Throw(c, kind, transient)
  PROVE  \/ Retries(c) /\ kind \notin Typed
         \/ EndsWith(c, kind)
         \/ EndsWith(c, "transient") /\ kind \notin Typed
<1>1. CASE kind \notin Typed /\ transient /\ c \notin Direct /\ attempt[c] < MaxRetries
  BY <1>1 DEF Throw, Retry, Go, TypeOK, Retries
<1>2. CASE kind \notin Typed /\ transient /\ c \notin Direct /\ ~ (attempt[c] < MaxRetries)
  BY <1>2 DEF Throw, Retry, End, Go, TypeOK, EndsWith
<1>3. CASE ~ (kind \notin Typed /\ transient /\ c \notin Direct)
  BY <1>3 DEF Throw, End, Go, TypeOK, EndsWith
<1> QED
  BY <1>1, <1>2, <1>3

\* What a quiet step does to the call that takes it: it moves on, signs, is
\* tried again, gives up before anything was signed, ends with no word on its
\* envelope, or learns what became of it.
MovesOn(c) ==
  /\ at[c] \in {"idle", "sequence", "refresh", "simulate", "backoff"}
  /\ at'[c] \in {"sequence", "refresh", "simulate", "sign"}
  /\ c \in Reads => at'[c] = "simulate"
  /\ at[c] \in {"refresh", "simulate"} => at'[c] \in {"simulate", "sign"} /\ seq'[c] = seq[c]
  /\ attempt'[c] = attempt[c] /\ answer'[c] = answer[c]

Signs(c) ==
  /\ at[c] = "sign" /\ at'[c] = "submit"
  /\ tx'[c] \in Envelopes /\ tx'[c].content = Content[c] /\ tx'[c].seq = seq[c] /\ seq'[c] = seq[c]
  /\ attempt'[c] = attempt[c] /\ answer'[c] = answer[c]

GivesUp(c) ==
  /\ at[c] \in {"refresh", "simulate", "sign"}
  /\ \E kind \in {"sequence", "simulation", "signing"} : EndsWith(c, kind)

Unsettled(c) ==
  /\ at[c] \in {"refresh", "simulate", "sign", "poll"}
  /\ \E kind \in {"raw", "timeout", "transient"} : EndsWith(c, kind)

Learns(c) ==
  \/ c \in Reads /\ at[c] = "simulate" /\ EndsWith(c, "ok")
  \/ at[c] = "poll" /\ <<tx[c], "SUCCESS">> \in landed /\ EndsWith(c, "ok")
  \/ at[c] = "poll" /\ <<tx[c], "FAILED">> \in landed /\ EndsWith(c, "confirm")

Underway(c) == at[c] # "done" /\ seq'[c] = seq[c] /\ tx'[c] = tx[c]

LEMMA QuietMoves ==
  ASSUME TypeOK, StageInv, NEW c \in Calls, QuietStep(c)
  PROVE  \/ MovesOn(c)
         \/ Signs(c)
         \/ (Retries(c) \/ GivesUp(c) \/ Unsettled(c) \/ Learns(c)) /\ Underway(c)
<1> USE DEF TypeOK
<1>1. ASSUME Start(c) PROVE MovesOn(c)
  BY <1>1 DEF Start, Go, MovesOn
<1>2. ASSUME TakeCached(c) PROVE MovesOn(c)
  BY <1>2, PipelineAssumption DEF TakeCached, Go, MovesOn
<1>3. ASSUME AskSequence(c) \/ GetSequence(c) PROVE MovesOn(c)
  <2>1. c \notin Reads
    BY <1>3 DEF AskSequence, GetSequence, StageInv, Stage
  <2> QED
    BY <1>3, <2>1 DEF AskSequence, GetSequence, Go, MovesOn
<1>4. ASSUME SequenceFails(c) PROVE (GivesUp(c) \/ Unsettled(c) \/ Retries(c)) /\ Underway(c)
  <2>1. at[c] = "refresh" /\ Underway(c)
    BY <1>4 DEF SequenceFails, Underway
  <2>2. CASE Throw(c, "sequence", FALSE)
    BY <2>1, <2>2, Throws DEF Typed, GivesUp
  <2>3. CASE Throw(c, "raw", FALSE)
    BY <2>1, <2>3, Throws DEF Unsettled
  <2> QED
    BY <1>4, <2>2, <2>3 DEF SequenceFails
<1>5. ASSUME Simulate(c) PROVE MovesOn(c) \/ ((GivesUp(c) \/ Unsettled(c) \/ Retries(c) \/ Learns(c)) /\ Underway(c))
  <2>1. CASE c \notin Reads /\ Go(c, "sign") /\ UNCHANGED <<attempt, answer>>
    BY <1>5, <2>1 DEF Simulate, Go, MovesOn
  <2>2. CASE c \in Reads /\ End(c, "ok") /\ UNCHANGED attempt
    BY <1>5, <2>2 DEF Simulate, End, Go, Learns, EndsWith, Underway
  <2>3. CASE Throw(c, IF c \in Direct THEN "raw" ELSE "simulation", FALSE)
    <3>1. Throw(c, "raw", FALSE) \/ Throw(c, "simulation", FALSE)
      BY <2>3
    <3>2. at[c] = "simulate" /\ Underway(c)
      BY <1>5 DEF Simulate, Underway
    <3> QED
      BY <3>1, <3>2, Throws DEF Typed, GivesUp, Unsettled
  <2> QED
    BY <1>5, <2>1, <2>2, <2>3 DEF Simulate
<1>6. ASSUME SimulateLost(c) PROVE (Unsettled(c) \/ Retries(c)) /\ Underway(c)
  <2>1. at[c] = "simulate" /\ Underway(c) /\ \E transient \in BOOLEAN : Throw(c, "raw", transient)
    BY <1>6 DEF SimulateLost, Underway
  <2> QED
    BY <2>1, Throws DEF Unsettled
<1>7. ASSUME Sign(c) PROVE Signs(c)
  BY <1>7 DEF Sign, Go, Envelopes, Signs
<1>8. ASSUME SignFails(c) PROVE (GivesUp(c) \/ Unsettled(c) \/ Retries(c)) /\ Underway(c)
  <2>1. Throw(c, "signing", FALSE) \/ Throw(c, "raw", FALSE)
    BY <1>8 DEF SignFails
  <2>2. at[c] = "sign" /\ Underway(c)
    BY <1>8 DEF SignFails, Underway
  <2> QED
    BY <2>1, <2>2, Throws DEF Typed, GivesUp, Unsettled
<1>9. ASSUME Confirmed(c) PROVE Learns(c) /\ Underway(c)
  <2>1. <<tx[c], "SUCCESS">> \in landed
    BY <1>9 DEF Confirmed, Seen
  <2> QED
    BY <1>9, <2>1 DEF Confirmed, End, Go, Learns, EndsWith, Underway
<1>10. ASSUME Failed(c) PROVE (Learns(c) \/ Unsettled(c) \/ Retries(c)) /\ Underway(c)
  <2>1. <<tx[c], "FAILED">> \in landed
    BY <1>10 DEF Failed, Seen
  <2>2. Throw(c, "confirm", FALSE) \/ Throw(c, "raw", FALSE)
    BY <1>10 DEF Failed
  <2>3. at[c] = "poll" /\ Underway(c)
    BY <1>10 DEF Failed, Underway
  <2> QED
    BY <2>1, <2>2, <2>3, Throws DEF Typed, Learns, Unsettled
<1>11. ASSUME TimesOut(c) \/ PollLost(c) PROVE (Unsettled(c) \/ Retries(c)) /\ Underway(c)
  <2>1. at[c] = "poll" /\ Underway(c)
    BY <1>11 DEF TimesOut, PollLost, Underway
  <2>2. \E transient \in BOOLEAN : Throw(c, "timeout", transient) \/ Throw(c, "raw", transient)
    BY <1>11 DEF TimesOut, PollLost
  <2> QED
    BY <2>1, <2>2, Throws DEF Unsettled
<1>12. ASSUME Again(c) PROVE MovesOn(c)
  BY <1>12 DEF Again, Go, MovesOn
<1> QED
  BY <1>1, <1>2, <1>3, <1>4, <1>5, <1>6, <1>7, <1>8, <1>9, <1>10, <1>11, <1>12 DEF QuietStep

\* What a submission does to the call that makes it.
LEMMA SendMoves ==
  ASSUME TypeOK, NEW c \in Calls, SendStep(c)
  PROVE  \/ Retries(c)
         \/ at'[c] = "poll" /\ attempt'[c] = attempt[c] /\ answer'[c] = answer[c]
         \/ EndsWith(c, "raw") \/ EndsWith(c, "transient")
         \/ EndsWith(c, "submission") /\ tx[c] \notin pool /\ pool' = pool
<1>1. ASSUME Rejected(c)
      PROVE  \/ Retries(c) \/ EndsWith(c, "raw") \/ EndsWith(c, "transient")
             \/ EndsWith(c, "submission") /\ tx[c] \notin pool /\ pool' = pool
  <2>1. Throw(c, "raw", FALSE) \/ Throw(c, "submission", FALSE)
    BY <1>1 DEF Rejected
  <2>2. tx[c] \notin pool /\ pool' = pool
    BY <1>1 DEF Rejected, Receive
  <2> QED
    BY <2>1, <2>2, Throws DEF Typed
<1>2. ASSUME SubmitLost(c)
      PROVE  Retries(c) \/ EndsWith(c, "raw") \/ EndsWith(c, "transient")
  <2>1. \E transient \in BOOLEAN : Throw(c, "raw", transient)
    BY <1>2 DEF SubmitLost
  <2> QED
    BY <2>1, Throws
<1>3. ASSUME NEW status, Accepted(c, status)
      PROVE  at'[c] = "poll" /\ attempt'[c] = attempt[c] /\ answer'[c] = answer[c]
  BY <1>3 DEF Accepted, Go, TypeOK
<1> QED
  BY <1>1, <1>2, <1>3 DEF SendStep

LEMMA StageStep ==
  ASSUME TypeOK, StageInv, [Next]_vars
  PROVE  StageInv'
<1>1. ASSUME NEW c \in Calls, QuietStep(c), NEW d \in Calls
      PROVE  Stage(d)'
  <2>1. Stage(d)
    BY DEF StageInv
  <2>2. CASE d # c
    BY <1>1, <2>1, <2>2, QuietSteps DEF Stage
  <2>3. CASE d = c
    <3>1. sent'[c] = sent[c] /\ landed' = landed /\ Stage(c)
      BY <1>1, <2>1, <2>3, QuietSteps
    <3>2. CASE MovesOn(c)
      BY <3>1, <3>2, <2>3 DEF Stage, MovesOn
    <3>3. CASE Signs(c)
      BY <3>1, <3>3, <2>3 DEF Stage, Signs
    <3>4. CASE Retries(c) /\ Underway(c)
      BY <3>1, <3>4, <2>3 DEF Stage, Retries, Underway
    <3>5. CASE (GivesUp(c) \/ Unsettled(c)) /\ Underway(c)
      BY <3>1, <3>5, <2>3 DEF Stage, GivesUp, Unsettled, EndsWith, Underway
    <3>6. CASE Learns(c) /\ Underway(c)
      BY <3>1, <3>6, <2>3 DEF Stage, Learns, EndsWith, Underway
    <3> QED
      BY <1>1, QuietMoves, <3>2, <3>3, <3>4, <3>5, <3>6
  <2> QED
    BY <2>2, <2>3
<1>2. ASSUME NEW c \in Calls, SendStep(c), NEW d \in Calls
      PROVE  Stage(d)'
  <2>0. sent' = [sent EXCEPT ![c] = @ \cup {tx[c]}] /\ at[c] = "submit"
    BY <1>2, SendSteps
  <2>1. Stage(d) /\ sent[d] \subseteq sent'[d] /\ (d # c => sent'[d] = sent[d])
    BY <2>0 DEF StageInv, TypeOK
  <2>2. CASE d # c
    BY <1>2, <2>1, <2>2, SendSteps DEF Stage
  <2>3. CASE d = c
    <3>1. tx[c] \in sent'[c]
      BY <1>2, SendSteps DEF TypeOK
    <3> QED
      BY <1>2, <2>0, <2>1, <2>3, <3>1, SendSteps, SendMoves DEF Stage, Retries, EndsWith
  <2> QED
    BY <2>2, <2>3
<1>3. CASE Ledger
  <2>1. landed \subseteq landed'
    BY <1>3, LedgerSteps
  <2> QED
    BY <1>3, <2>1, LedgerSteps DEF StageInv, Stage
<1>4. CASE UNCHANGED vars
  BY <1>4 DEF vars, net, StageInv, Stage
<1> QED
  BY <1>1, <1>2, <1>3, <1>4, StepKinds DEF StageInv

----------------------------------------------------------------------------
(* Calls that are not tried again *)

\* What nobody has sent is neither queued nor executed; of a call that asks
\* for something of its own, what it has not sent itself.
LEMMA OnlyOwn ==
  ASSUME OwnInv, TypeOK, NEW c \in Calls, Alone(c), NEW t, t.content = Content[c], t \notin sent[c]
  PROVE  t \notin pool /\ \A r \in landed : r[1] # t
BY DEF OwnInv, Alone

LEMMA TryStep ==
  ASSUME TypeOK, OwnInv, StageInv, TryInv, [Next]_vars
  PROVE  TryInv'
<1>1. ASSUME NEW c \in Calls, QuietStep(c), NEW d \in Calls
      PROVE  Try(d)'
  <2>1. /\ Try(d) /\ Stage(d) /\ (Alone(d)' <=> Alone(d))
        /\ sent' = sent /\ landed' = landed /\ pool' = pool
    BY <1>1, QuietSteps DEF TryInv, StageInv, Alone
  <2>2. CASE d # c
    BY <1>1, <2>1, <2>2, QuietSteps DEF Try
  <2>3. CASE d = c
    <3>0. attempt[c] \in Nat
      BY DEF TypeOK
    <3>2. CASE MovesOn(c)
      BY <2>1, <2>3, <3>2 DEF Try, Stage, MovesOn
    <3>3. CASE Signs(c)
      BY <2>1, <2>3, <3>3 DEF Try, Stage, Signs
    <3>4. CASE Retries(c) /\ Underway(c)
      BY <2>3, <3>0, <3>4 DEF Try, Retries
    <3>5. CASE (GivesUp(c) \/ Unsettled(c)) /\ Underway(c)
      BY <2>1, <2>3, <3>5 DEF Try, GivesUp, Unsettled, EndsWith
    <3>6. CASE Learns(c) /\ Underway(c)
      BY <2>1, <2>3, <3>6 DEF Try, Stage, Learns, EndsWith, Underway
    <3> QED
      BY <1>1, QuietMoves, <3>2, <3>3, <3>4, <3>5, <3>6
  <2> QED
    BY <2>2, <2>3
<1>2. ASSUME NEW c \in Calls, SendStep(c), NEW d \in Calls
      PROVE  Try(d)'
  <2>1. /\ Try(d) /\ Stage(d) /\ Stage(c) /\ (Alone(d)' <=> Alone(d))
        /\ landed' = landed /\ seq' = seq /\ tx' = tx /\ pool' \subseteq pool \cup {tx[c]}
        /\ at[c] = "submit" /\ sent' = [sent EXCEPT ![c] = @ \cup {tx[c]}]
    BY <1>2, SendSteps DEF TryInv, StageInv, Alone, Queues
  <2>2. CASE d # c
    <3>1. sent'[d] = sent[d] /\ at'[d] = at[d] /\ attempt'[d] = attempt[d] /\ answer'[d] = answer[d]
      BY <1>2, <2>1, <2>2, SendSteps DEF TypeOK
    <3>2. Alone(d) => tx[c] \notin sent[d]
      BY <2>1, <2>2 DEF Alone, OwnInv, Stage
    <3> QED
      BY <2>1, <3>1, <3>2 DEF Try
  <2>3. CASE d = c
    <3>1. sent'[c] = sent[c] \cup {tx[c]} /\ attempt[c] \in Nat
      BY <2>1 DEF TypeOK
    <3>2. CASE Retries(c)
      BY <2>3, <3>1, <3>2 DEF Try, Retries
    <3>3. CASE at'[c] = "poll" /\ attempt'[c] = attempt[c] /\ answer'[c] = answer[c]
      BY <2>1, <2>3, <3>1, <3>3 DEF Try, Stage
    <3>4. CASE EndsWith(c, "raw") \/ EndsWith(c, "transient")
      BY <2>1, <2>3, <3>1, <3>4 DEF Try, EndsWith
    <3>5. CASE EndsWith(c, "submission") /\ tx[c] \notin pool /\ pool' = pool
      <4>1. ASSUME attempt[c] = 0, Alone(c)
            PROVE  sent'[c] = {tx[c]} /\ \A r \in landed : r[1] # tx[c]
        <5>1. sent[c] = {} /\ tx[c].content = Content[c]
          BY <2>1, <2>3, <4>1 DEF Try, Stage
        <5> QED
          BY <3>1, <4>1, <5>1, OnlyOwn
      <4> QED
        BY <2>1, <2>3, <3>5, <4>1 DEF Try, EndsWith
    <3> QED
      BY <1>2, SendMoves, <3>2, <3>3, <3>4, <3>5
  <2> QED
    BY <2>2, <2>3
<1>3. ASSUME Ledger, NEW d \in Calls
      PROVE  Try(d)'
  <2>1. /\ Try(d) /\ (Alone(d)' <=> Alone(d)) /\ landed \subseteq landed'
        /\ pool' \subseteq pool /\ \A r \in landed' : r \in landed \/ r[1] \in pool
        /\ at' = at /\ attempt' = attempt /\ seq' = seq /\ tx' = tx /\ sent' = sent /\ answer' = answer
    BY <1>3, LedgerSteps DEF TryInv, Alone
  <2> QED
    BY <2>1 DEF Try
<1>4. CASE UNCHANGED vars
  BY <1>4 DEF vars, net, TryInv, Try, Alone
<1> QED
  BY <1>1, <1>2, <1>3, <1>4, StepKinds DEF TryInv

----------------------------------------------------------------------------
LEMMA CallsInductive == Init => CallsInv
<1> SUFFICES ASSUME Init PROVE CallsInv
  OBVIOUS
<1>1. TypeOK
  BY PipelineAssumption DEF Init, NetInit, TypeOK, Stages, Answers
<1>2. ChainInv /\ OwnInv
  BY DEF Init, NetInit, ChainInv, OwnInv
<1>3. StageInv /\ TryInv
  BY DEF Init, NetInit, StageInv, Stage, TryInv, Try
<1> QED
  BY <1>1, <1>2, <1>3 DEF CallsInv

LEMMA CallsStep == CallsInv /\ [Next]_vars => CallsInv'
BY TypeStep, ChainStep, OwnStep, StageStep, TryStep DEF CallsInv

THEOREM CallsHold == Spec => []CallsInv
<1> QED
  BY CallsInductive, CallsStep, PTL DEF Spec

\* ReportedLanded for every instance: no earlier attempt, rejected or lost
\* envelope is ever taken for the one a reported success speaks of.
THEOREM SuccessIsReal == Spec => []ReportedLanded
<1>1. CallsInv => ReportedLanded
  BY PipelineAssumption DEF CallsInv, StageInv, Stage, ReportedLanded, Calls
<1> QED
  BY <1>1, CallsHold, PTL

LEMMA ExactByInv == CallsInv => FirstTryExact
<1> SUFFICES ASSUME CallsInv, NEW c \in Calls, at[c] = "done", attempt[c] = 0, Alone(c)
             PROVE  /\ answer[c] = "ok" /\ c \notin Reads => Executed(c) = {<<tx[c], "SUCCESS">>}
                    /\ answer[c] \in {"sequence", "simulation", "signing", "submission"} =>
                         Executed(c) = {} /\ sent[c] \cap pool = {}
                    /\ answer[c] = "confirm" => Executed(c) = {<<tx[c], "FAILED">>}
  BY DEF FirstTryExact
<1>1. Try(c) /\ Stage(c) /\ ChainInv
  BY DEF CallsInv, TryInv, StageInv
<1>2. \A r, q \in landed : r[1] = q[1] => r = q
  BY <1>1 DEF ChainInv
<1>3. ASSUME NEW status, <<tx[c], status>> \in landed, sent[c] = {tx[c]}
      PROVE  Executed(c) = {<<tx[c], status>>}
  BY <1>2, <1>3 DEF Executed
<1>4. CASE answer[c] \in {"sequence", "simulation", "signing", "submission"}
  BY <1>1, <1>4 DEF Try, Executed
<1>5. CASE answer[c] = "ok" /\ c \notin Reads
  BY <1>1, <1>3, <1>5 DEF Try, Stage
<1>6. CASE answer[c] = "confirm"
  BY <1>1, <1>3, <1>6 DEF Try
<1> QED
  BY <1>4, <1>5, <1>6

----------------------------------------------------------------------------
(* Undisturbed flow *)

\* Where what is queued and executed comes from.
LEMMA NodeSteps ==
  ASSUME TypeOK, [Next]_vars
  PROVE  /\ \A t \in pool' : t \in pool \/ \E c \in Calls : at[c] = "submit" /\ t = tx[c]
         /\ \A r \in landed' : r \in landed \/ r[1] \in pool
         /\ accountSeq' >= accountSeq
<1>1. accountSeq \in Nat
  BY DEF TypeOK
<1>2. ASSUME NEW c \in Calls, QuietStep(c)
      PROVE  accountSeq' = accountSeq /\ pool' = pool /\ landed' = landed
  BY <1>2, QuietSteps
<1>3. ASSUME NEW c \in Calls, SendStep(c)
      PROVE  /\ accountSeq' = accountSeq /\ landed' = landed
             /\ at[c] = "submit" /\ pool' \subseteq pool \cup {tx[c]}
  BY <1>3, SendSteps DEF Queues
<1>4. ASSUME Ledger
      PROVE  /\ pool' \subseteq pool
             /\ \A r \in landed' : r \in landed \/ r[1] \in pool
             /\ accountSeq' >= accountSeq
  BY <1>1, <1>4, LedgerSteps
<1> QED
  BY <1>1, <1>2, <1>3, <1>4, StepKinds DEF vars, net

\* An envelope joins the queue on time.
LEMMA PoolOnTime ==
  ASSUME [Next]_vars, NEW t \in pool', t \notin pool
  PROVE  t.seq = accountSeq
<1>1. ASSUME NEW c \in Calls, SendStep(c)
      PROVE  t.seq = accountSeq
  BY <1>1, SendSteps DEF Queues
<1>2. ASSUME NEW c \in Calls, QuietStep(c)
      PROVE  FALSE
  BY <1>2, QuietSteps
<1>3. ASSUME Ledger \/ UNCHANGED vars
      PROVE  FALSE
  BY <1>3, LedgerSteps DEF vars, net
<1> QED
  BY <1>1, <1>2, <1>3, StepKinds

\* At its first try a call only moves forward.
Forward(c) ==
  /\ at[c] # "idle" => at'[c] # "idle"
  /\ attempt'[c] = 0 =>
       /\ attempt[c] = 0
       /\ at[c] = "done" => at'[c] = "done" /\ answer'[c] = answer[c]
       /\ at[c] = "poll" => at'[c] \in {"poll", "done"} /\ tx'[c] = tx[c]
       /\ Taken(c) => Taken(c)' /\ seq'[c] = seq[c]
       /\ at[c] = "submit" /\ at'[c] = "poll" => tx'[c] = tx[c]
       /\ at[c] \in InFlight => at'[c] # "poll" \/ at[c] = "submit"
       /\ at[c] \in InFlight \ {"submit"} => (at'[c] = "done" /\ answer'[c] = "ok" => c \in Reads)
       /\ at[c] = "submit" => (at'[c] = "done" => answer'[c] # "ok")

LEMMA ForwardOnly ==
  ASSUME CallsInv, [Next]_vars, NEW c \in Calls
  PROVE  Forward(c)
<1>1. Try(c) /\ Stage(c) /\ TypeOK /\ StageInv /\ attempt[c] \in Nat /\ at[c] \in Stages
  BY DEF CallsInv, TryInv, StageInv, TypeOK
<1>2. CASE /\ at'[c] = at[c] /\ attempt'[c] = attempt[c] /\ answer'[c] = answer[c]
           /\ seq'[c] = seq[c] /\ tx'[c] = tx[c]
  BY <1>2 DEF Forward, Taken, InFlight
<1>3. CASE QuietStep(c)
  <2>1. CASE MovesOn(c)
    BY <1>1, <2>1 DEF Forward, Taken, MovesOn, Try, InFlight
  <2>2. CASE Signs(c)
    BY <1>1, <2>2 DEF Forward, Taken, Signs, InFlight
  <2>3. CASE Retries(c) /\ Underway(c)
    BY <1>1, <2>3 DEF Forward, Retries, Underway
  <2>4. CASE (GivesUp(c) \/ Unsettled(c)) /\ Underway(c)
    BY <1>1, <2>4 DEF Forward, Taken, GivesUp, Unsettled, EndsWith, Underway, InFlight
  <2>5. CASE Learns(c) /\ Underway(c)
    BY <1>1, <2>5 DEF Forward, Taken, Learns, EndsWith, Underway, InFlight
  <2> QED
    BY <1>1, <1>3, QuietMoves, <2>1, <2>2, <2>3, <2>4, <2>5
<1>4. CASE SendStep(c)
  <2>1. at[c] = "submit" /\ seq'[c] = seq[c] /\ tx'[c] = tx[c]
    BY <1>4, SendSteps
  <2>2. CASE Retries(c)
    BY <1>1, <2>1, <2>2 DEF Forward, Retries
  <2>3. CASE at'[c] = "poll" /\ attempt'[c] = attempt[c] /\ answer'[c] = answer[c]
    BY <2>1, <2>3 DEF Forward, Taken, InFlight
  <2>4. CASE EndsWith(c, "raw") \/ EndsWith(c, "transient") \/ EndsWith(c, "submission")
    BY <2>1, <2>4 DEF Forward, Taken, InFlight, EndsWith
  <2> QED
    BY <1>1, <1>4, SendMoves, <2>2, <2>3, <2>4
<1>5. ASSUME NEW d \in Calls \ {c}, QuietStep(d) \/ SendStep(d)
      PROVE  /\ at'[c] = at[c] /\ attempt'[c] = attempt[c] /\ answer'[c] = answer[c]
             /\ seq'[c] = seq[c] /\ tx'[c] = tx[c]
  BY <1>1, <1>5, QuietSteps, SendSteps
<1>6. ASSUME Ledger \/ UNCHANGED vars
      PROVE  /\ at'[c] = at[c] /\ attempt'[c] = attempt[c] /\ answer'[c] = answer[c]
             /\ seq'[c] = seq[c] /\ tx'[c] = tx[c]
  BY <1>6, LedgerSteps DEF vars
<1> QED
  BY <1>2, <1>3, <1>4, <1>5, <1>6, StepKinds

\* What is lost stays lost: undisturbed flow was undisturbed before.
LEMMA WasUndisturbed ==
  ASSUME CallsInv, [Next]_vars, Undisturbed'
  PROVE  Undisturbed
<1>1. \A c \in Calls : Alone(c)
  BY DEF Undisturbed, Alone
<1>2. ASSUME NEW c \in Calls, at[c] # "idle"
      PROVE  Hopeful(c)
  <2>1. Forward(c) /\ Hopeful(c)' /\ at'[c] # "idle" /\ attempt'[c] = 0
    BY <1>2, ForwardOnly DEF Undisturbed, Hopeful, Forward
  <2>2. /\ TypeOK /\ ChainInv /\ OwnInv /\ Stage(c) /\ Try(c) /\ Stage(c)'
    BY CallsStep DEF CallsInv, StageInv, TryInv
  <2>3. attempt[c] = 0 /\ c \notin Direct /\ (at[c] = "done" => answer[c] = "ok")
    BY <2>1 DEF Forward, Hopeful
  <2>4. ASSUME c \in Writes, at[c] = "poll"
        PROVE  tx[c] \in pool \/ <<tx[c], "SUCCESS">> \in landed
    <3>1. at'[c] \in {"poll", "done"} /\ tx'[c] = tx[c] /\ c \notin Reads
      BY <2>1, <2>3, <2>4, PipelineAssumption DEF Forward
    <3>2. tx[c] \in pool' \/ <<tx[c], "SUCCESS">> \in landed'
      BY <2>1, <2>2, <2>4, <3>1 DEF Hopeful, Stage
    <3>3. ASSUME NEW d \in Calls, at[d] = "submit"
          PROVE  tx[c] # tx[d]
      <4>1. tx[d].content = Content[d] /\ tx[c].content = Content[c] /\ c # d
        BY <2>4, <3>3 DEF CallsInv, StageInv, Stage
      <4> QED
        BY <4>1, <1>1 DEF Alone
    <3> QED
      BY <2>2, <3>2, <3>3, NodeSteps
  <2>5. ASSUME c \in Writes, at[c] \in InFlight
        PROVE  seq[c] >= accountSeq
    <3>1. Taken(c) /\ c \notin Reads /\ seq'[c] = seq[c] /\ Taken(c)'
      BY <2>1, <2>5, PipelineAssumption DEF Taken, InFlight, Forward
    <3>2. accountSeq \in Nat /\ accountSeq' \in Nat /\ seq[c] \in Nat /\ accountSeq' >= accountSeq
          /\ at'[c] \in Stages
      BY <2>2, CallsStep, NodeSteps DEF TypeOK, CallsInv
    <3>3. CASE at'[c] \in InFlight
      BY <2>1, <2>5, <3>1, <3>2, <3>3 DEF Hopeful
    <3>4. CASE at'[c] = "poll"
      <4>1. at[c] = "submit" /\ tx'[c] = tx[c] /\ tx[c].seq = seq[c] /\ sent[c] = {}
            /\ tx[c].content = Content[c]
        BY <2>1, <2>2, <2>3, <2>5, <3>4 DEF Forward, Stage, Try
      <4>2. tx[c] \notin pool /\ \A r \in landed : r[1] # tx[c]
        BY <1>1, <2>2, <4>1, OnlyOwn
      <4>3. tx[c] \in pool'
        BY <2>1, <2>2, <2>5, <3>4, <4>1, <4>2, NodeSteps DEF Hopeful
      <4> QED
        BY <2>2, <3>2, <4>1, <4>2, <4>3, CallsStep, PoolOnTime
    <3>5. CASE at'[c] = "done"
      BY <2>1, <2>5, <3>1, <3>5 DEF Hopeful, Forward
    <3>6. at'[c] # "backoff"
      BY <2>1, CallsStep DEF CallsInv, TryInv, Try
    <3> QED
      BY <3>1, <3>2, <3>3, <3>4, <3>5, <3>6 DEF Taken, InFlight, Stages
  <2> QED
    BY <2>3, <2>4, <2>5 DEF Hopeful
<1>3. ASSUME NEW c \in Writes, NEW d \in Writes, c # d, Taken(c), Taken(d)
      PROVE  seq[c] # seq[d]
  <2>1. /\ c \in Calls /\ d \in Calls /\ at[c] # "idle" /\ at[d] # "idle"
    BY <1>3 DEF Calls, Taken
  <2>2. Forward(c) /\ Forward(d) /\ Hopeful(c)' /\ Hopeful(d)'
    BY <2>1, ForwardOnly DEF Undisturbed, Forward
  <2>3. Taken(c)' /\ seq'[c] = seq[c] /\ Taken(d)' /\ seq'[d] = seq[d]
    BY <1>3, <2>2 DEF Forward, Hopeful
  <2> QED
    BY <1>3, <2>3 DEF Undisturbed
<1> QED
  BY <1>1, <1>2, <1>3 DEF Undisturbed

\* Undisturbed flow throws nothing.
LEMMA Unthrown ==
  ASSUME CallsInv, Undisturbed', NEW c \in Calls, NEW kind, kind # "ok", NEW transient,
         Throw(c, kind, transient)
  PROVE  FALSE
<1>1. TypeOK /\ attempt[c] \in Nat
  BY DEF CallsInv, TypeOK
<1>2. at'[c] # "idle" => attempt'[c] = 0 /\ (at'[c] = "done" => answer'[c] = "ok")
  BY DEF Undisturbed, Hopeful
<1> QED
  BY <1>1, <1>2, Throws DEF Retries, EndsWith

\* The cache and the chain are left alone, and a write in flight stays on
\* the number it has.
LEMMA CacheKept ==
  ASSUME CacheAhead, cached' = cached, UNCHANGED net,
         \A d \in Writes :
           /\ Taken(d)' /\ cached = None =>
                Taken(d) /\ (at[d] = "refresh" => at'[d] = "refresh" /\ seq'[d] = seq[d])
           /\ at'[d] \in InFlight /\ cached # None =>
                at'[d] # "refresh" /\ (seq'[d] = cached \/ (at[d] \in InFlight /\ seq'[d] = seq[d]))
  PROVE  CacheAhead'
<1>1. CASE cached = None
  BY <1>1 DEF CacheAhead, net
<1>2. CASE cached # None
  BY <1>2 DEF CacheAhead, net, InFlight
<1> QED
  BY <1>1, <1>2

LEMMA CacheStep ==
  ASSUME CallsInv, Undisturbed, Undisturbed', CacheAhead, [Next]_vars
  PROVE  CacheAhead'
<1>1. TypeOK /\ ChainInv /\ OwnInv /\ StageInv /\ TryInv
  BY DEF CallsInv
<1>2. ASSUME NEW c \in Calls, at[c] # "idle"
      PROVE  c \notin Direct /\ attempt[c] = 0 /\ (at[c] \notin {"simulate", "backoff", "done"} => c \in Writes)
  BY <1>1, <1>2 DEF Undisturbed, Hopeful, StageInv, Stage, Calls
<1>3. \A c \in Writes : c \in Calls /\ c \notin Reads /\ c \notin Direct
  BY PipelineAssumption DEF Calls
<1>4. ASSUME NEW c \in Calls, Start(c)
      PROVE  CacheAhead'
  <2>1. cached' = cached /\ UNCHANGED net /\ seq' = seq
        /\ \A d \in Calls : at'[d] = IF d = c THEN (IF c \in Reads THEN "simulate" ELSE "sequence") ELSE at[d]
    BY <1>1, <1>4 DEF Start, Go, TypeOK
  <2>2. ASSUME NEW d \in Writes, at'[d] \notin {"idle", "sequence"}
        PROVE  at'[d] = at[d] /\ seq'[d] = seq[d]
    BY <1>3, <2>1, <2>2
  <2>3. ASSUME NEW d \in Writes, Taken(d)'
        PROVE  Taken(d) /\ at'[d] = at[d] /\ seq'[d] = seq[d]
    BY <2>2, <2>3 DEF Taken
  <2>4. ASSUME NEW d \in Writes, at'[d] \in InFlight, cached # None
        PROVE  at'[d] # "refresh" /\ at[d] \in InFlight /\ seq'[d] = seq[d]
    BY <2>2, <2>4 DEF InFlight, CacheAhead
  <2> QED
    BY <2>1, <2>3, <2>4, CacheKept
<1>5. ASSUME NEW c \in Calls, TakeCached(c)
      PROVE  CacheAhead'
  <2>1. /\ cached' = cached /\ UNCHANGED net /\ cached # None
        /\ \A d \in Calls : at'[d] = IF d = c THEN "simulate" ELSE at[d]
        /\ \A d \in Calls : seq'[d] = IF d = c THEN cached ELSE seq[d]
    BY <1>1, <1>5 DEF TakeCached, Go, TypeOK
  <2>2. ASSUME NEW d \in Writes, at'[d] \in InFlight
        PROVE  at'[d] # "refresh" /\ (seq'[d] = cached \/ (at[d] \in InFlight /\ seq'[d] = seq[d]))
    BY <1>3, <2>1, <2>2 DEF CacheAhead
  <2> QED
    BY <2>1, <2>2, CacheKept
<1>6. ASSUME NEW c \in Calls, AskSequence(c)
      PROVE  CacheAhead'
  <2>1. cached = None /\ cached' = cached /\ UNCHANGED net
    BY <1>2, <1>6 DEF AskSequence
  <2>2. seq'[c] = accountSeq
    BY <1>1, <1>6, <2>1 DEF AskSequence, CacheAhead, SeenSeq, TypeOK
  <2>3. \A d \in Calls : d # c => at'[d] = at[d] /\ seq'[d] = seq[d]
    BY <1>1, <1>6 DEF AskSequence, Go, TypeOK
  <2>4. at'[c] = "refresh"
    BY <1>1, <1>6 DEF AskSequence, Go, TypeOK
  <2> QED
    BY <1>3, <2>1, <2>2, <2>3, <2>4 DEF CacheAhead, Taken, net
<1>7. ASSUME NEW c \in Calls, GetSequence(c)
      PROVE  CacheAhead'
  <2>1. c \in Writes /\ at[c] = "refresh" /\ cached' = seq[c] /\ UNCHANGED net /\ seq' = seq
        /\ \A d \in Calls : at'[d] = IF d = c THEN "simulate" ELSE at[d]
    BY <1>1, <1>2, <1>7 DEF GetSequence, Go, TypeOK
  <2>2. cached = None
    BY <2>1 DEF CacheAhead, InFlight
  <2>3. pool = {} /\ Taken(c) /\ seq[c] = accountSeq
    BY <2>1, <2>2 DEF CacheAhead, Taken
  <2>4. cached' # None
    BY <1>1, <2>1, <2>3, PipelineAssumption DEF TypeOK
  <2>5. ASSUME NEW d \in Writes, d # c
        PROVE  ~ Taken(d)
    BY <2>1, <2>2, <2>3, <2>5 DEF CacheAhead, Undisturbed
  <2> QED
    BY <1>3, <2>1, <2>3, <2>4, <2>5 DEF CacheAhead, net, Taken, InFlight
<1>8. ASSUME NEW c \in Calls, Simulate(c) \/ Sign(c) \/ Confirmed(c)
      PROVE  CacheAhead'
  <2>1. ~ Throw(c, IF c \in Direct THEN "raw" ELSE "simulation", FALSE)
    BY Unthrown
  <2>2. /\ cached' = cached /\ UNCHANGED net /\ seq' = seq
        /\ at[c] \in {"simulate", "sign", "poll"}
        /\ at[c] \in {"simulate", "sign"} => at'[c] \in {"sign", "submit", "done"}
        /\ at[c] = "poll" => at'[c] = "done"
        /\ \A d \in Calls : d # c => at'[d] = at[d]
    BY <1>1, <1>8, <2>1 DEF Simulate, Sign, Confirmed, Go, End, TypeOK
  <2>3. ASSUME c \in Writes
        PROVE  cached # None
    BY <2>2, <2>3 DEF CacheAhead, Taken
  <2>4. ASSUME NEW d \in Writes, Taken(d)', cached = None
        PROVE  Taken(d) /\ (at[d] = "refresh" => at'[d] = "refresh" /\ seq'[d] = seq[d])
    BY <1>3, <2>2, <2>3, <2>4 DEF Taken
  <2>5. ASSUME NEW d \in Writes, at'[d] \in InFlight, cached # None
        PROVE  at'[d] # "refresh" /\ at[d] \in InFlight /\ seq'[d] = seq[d]
    BY <1>3, <2>2, <2>5 DEF InFlight, CacheAhead
  <2> QED
    BY <2>2, <2>4, <2>5, CacheKept
<1>9. ASSUME NEW c \in Calls, NEW status, Accepted(c, status)
      PROVE  CacheAhead'
  <2>1. c \in Writes /\ attempt[c] = 0 /\ at[c] = "submit" /\ Taken(c)
    BY <1>2, <1>9 DEF Accepted, Taken
  <2>2. cached # None /\ seq[c] = cached
    BY <2>1 DEF CacheAhead, InFlight
  <2>3. cached' = cached + 1 /\ accountSeq' = accountSeq /\ landed' = landed /\ seq' = seq /\ tx' = tx
        /\ \A d \in Calls : at'[d] = IF d = c THEN "poll" ELSE at[d]
    BY <1>1, <1>9, <2>1, <2>2 DEF Accepted, Go, TypeOK
  <2>4. sent[c] = {} /\ tx[c].content = Content[c] /\ Alone(c)
    BY <1>1, <1>3, <2>1 DEF StageInv, Stage, TryInv, Try, Undisturbed
  <2>5. tx[c] \notin pool /\ \A r \in landed : r[1] # tx[c]
    BY <1>1, <2>4, OnlyOwn
  <2>6. tx[c] \in pool' \/ <<tx[c], "SUCCESS">> \in landed
    BY <2>1, <2>3 DEF Undisturbed, Hopeful
  <2>7. pool = {} /\ pool' = {tx[c]}
    BY <1>9, <2>5, <2>6 DEF Accepted, Receive
  <2>8. cached' = accountSeq' + 1 /\ cached' # None
    BY <1>1, <2>2, <2>3, <2>7, PipelineAssumption DEF CacheAhead, TypeOK
  <2>9. ASSUME NEW d \in Writes, at'[d] \in InFlight
        PROVE  FALSE
    <3>1. d # c /\ at[d] \in InFlight
      BY <1>3, <2>3, <2>9 DEF InFlight
    <3>2. Taken(d) /\ seq[d] = cached
      BY <2>2, <3>1 DEF CacheAhead, Taken, InFlight
    <3> QED
      BY <2>1, <2>2, <3>1, <3>2 DEF Undisturbed
  <2> QED
    BY <2>7, <2>8, <2>9 DEF CacheAhead
<1>10. CASE Ledger
  <2>1. UNCHANGED <<cached, at, attempt, seq, tx, sent, answer>>
    BY <1>10, LedgerSteps
  <2>2. PICK t \in pool :
          /\ pool' = pool \ {t}
          /\ \/ UNCHANGED <<accountSeq, landed>>
             \/ /\ accountSeq' = accountSeq + 1
                /\ \E status \in {"SUCCESS", "FAILED"} : landed' = landed \cup {<<t, status>>}
    BY <1>10, LedgerSteps
  <2>3. pool = {t} /\ pool' = {} /\ t.seq = accountSeq /\ accountSeq \in Nat
    BY <1>1, <2>2 DEF ChainInv, TypeOK
  <2>4. \A r \in landed : r[1] # t
    BY <1>1, <2>3 DEF ChainInv
  <2>5. cached # None /\ cached = accountSeq + 1
    BY <2>3 DEF CacheAhead
  <2>6. PICK c \in Calls : t \in sent[c]
    BY <1>1 DEF OwnInv
  <2>7. at[c] # "idle" /\ c \notin Reads
    BY <1>1, <2>6 DEF StageInv, Stage
  <2>8. c \in Writes /\ Hopeful(c) /\ attempt[c] = 0 /\ (at[c] = "done" => answer[c] = "ok")
    BY <1>2, <2>7 DEF Undisturbed, Hopeful, Calls
  <2>9. at[c] = "poll" /\ t = tx[c]
    <3>1. at[c] \in {"poll", "done"} /\ sent[c] = {tx[c]}
      BY <1>1, <2>6, <2>7, <2>8 DEF TryInv, Try
    <3>2. at[c] = "done" => \E r \in landed : r[1] = tx[c]
      BY <1>1, <2>7, <2>8 DEF StageInv, Stage
    <3> QED
      BY <2>4, <2>6, <3>1, <3>2
  <2>10. <<t, "SUCCESS">> \in landed'
    <3>1. at'[c] = "poll" /\ tx'[c] = t
      BY <2>1, <2>9
    <3>2. tx'[c] \in pool' \/ <<tx'[c], "SUCCESS">> \in landed'
      BY <2>8, <3>1 DEF Undisturbed, Hopeful
    <3> QED
      BY <2>3, <3>1, <3>2
  <2>11. accountSeq' = accountSeq + 1
    BY <2>2, <2>4, <2>10
  <2> QED
    BY <2>1, <2>3, <2>5, <2>11 DEF CacheAhead
<1>11. ASSUME NEW c \in Calls, Again(c)
       PROVE  FALSE
  BY <1>1, <1>2, <1>11 DEF Again, TryInv, Try
<1>12. ASSUME NEW c \in Calls,
              SequenceFails(c) \/ SimulateLost(c) \/ SignFails(c) \/ Rejected(c) \/ SubmitLost(c)
                \/ Failed(c) \/ TimesOut(c) \/ PollLost(c)
       PROVE  FALSE
  <2>1. \E kind \in {"sequence", "raw", "signing", "submission", "confirm", "timeout"}, transient \in BOOLEAN :
          Throw(c, kind, transient)
    BY <1>12 DEF SequenceFails, SimulateLost, SignFails, Rejected, SubmitLost, Failed, TimesOut, PollLost
  <2> QED
    BY <2>1, Unthrown
<1>13. CASE UNCHANGED vars
  BY <1>13 DEF vars, net, CacheAhead, Taken
<1> QED
  BY <1>4, <1>5, <1>6, <1>7, <1>8, <1>9, <1>10, <1>11, <1>12, <1>13, StepKinds DEF QuietStep, SendStep

LEMMA FlowStep ==
  ASSUME CallsInv, FlowInv, [Next]_vars
  PROVE  FlowInv'
BY WasUndisturbed, CacheStep DEF FlowInv

LEMMA FlowByInv == CallsInv /\ FlowInv => FlowNeverStale
<1> SUFFICES ASSUME CallsInv, FlowInv, \A d \in Calls : Alone(d), NEW c \in Writes,
                    at[c] = "sequence", attempt[c] = 0,
                    \A d \in Calls \ {c} :
                      at[d] = "idle" \/ (d \notin Direct /\ answer[d] = "ok" /\ attempt[d] = 0)
             PROVE  IF cached = None THEN SeenSeq = {accountSeq} ELSE cached = accountSeq
  BY DEF FlowNeverStale
<1>1. TypeOK /\ ChainInv /\ OwnInv /\ StageInv /\ TryInv
  BY DEF CallsInv
<1>2. \A d \in Writes : d \in Calls /\ d \notin Direct /\ d \notin Reads
  BY PipelineAssumption DEF Calls
<1>3. ASSUME NEW d \in Calls \ {c}, at[d] # "idle"
      PROVE  /\ d \notin Direct /\ attempt[d] = 0 /\ answer[d] = "ok" /\ at[d] = "done"
             /\ d \notin Reads => /\ sent[d] = {tx[d]} /\ tx[d].seq = seq[d]
                                  /\ tx[d].content = Content[d] /\ <<tx[d], "SUCCESS">> \in landed
  <2>1. d \notin Direct /\ attempt[d] = 0 /\ answer[d] = "ok"
    BY <1>3
  <2>2. at[d] = "done"
    BY <1>1, <2>1 DEF StageInv, Stage
  <2>3. ASSUME d \notin Reads
        PROVE  /\ sent[d] = {tx[d]} /\ tx[d].seq = seq[d]
               /\ tx[d].content = Content[d] /\ <<tx[d], "SUCCESS">> \in landed
    <3>1. Try(d) /\ Stage(d)
      BY <1>1 DEF StageInv, TryInv
    <3>2. sent[d] = {tx[d]} /\ tx[d].seq = seq[d]
      BY <2>1, <2>3, <3>1 DEF Try
    <3>3. tx[d] \in sent[d] /\ <<tx[d], "SUCCESS">> \in landed
      BY <2>1, <2>3, <3>1 DEF Stage
    <3> QED
      BY <1>1, <3>2, <3>3 DEF OwnInv
  <2> QED
    BY <2>1, <2>2, <2>3
<1>4. Undisturbed
  <2>1. ASSUME NEW d \in Calls, at[d] # "idle"
        PROVE  Hopeful(d)
    <3>1. CASE d = c
      BY <1>2, <3>1 DEF Hopeful, InFlight
    <3>2. CASE d # c
      BY <1>3, <2>1, <3>2 DEF Hopeful, InFlight
    <3> QED
      BY <3>1, <3>2
  <2>2. ASSUME NEW d \in Writes, NEW e \in Writes, d # e, Taken(d), Taken(e)
        PROVE  seq[d] # seq[e]
    <3>1. d \in Calls \ {c} /\ e \in Calls \ {c} /\ at[d] # "idle" /\ at[e] # "idle" /\ d \notin Reads /\ e \notin Reads
      BY <1>2, <2>2 DEF Taken
    <3>2. <<tx[d], "SUCCESS">> \in landed /\ tx[d].seq = seq[d] /\ tx[d].content = Content[d]
      BY <1>3, <3>1
    <3>3. <<tx[e], "SUCCESS">> \in landed /\ tx[e].seq = seq[e] /\ tx[e].content = Content[e]
      BY <1>3, <3>1
    <3>4. seq[d] = seq[e] => tx[d] = tx[e]
      BY <1>1, <3>2, <3>3 DEF ChainInv
    <3> QED
      BY <2>2, <3>1, <3>2, <3>3, <3>4 DEF Alone
  <2> QED
    BY <2>1, <2>2 DEF Undisturbed
<1>5. CacheAhead
  BY <1>4 DEF FlowInv
<1>6. pool = {}
  <2> SUFFICES ASSUME NEW t \in pool PROVE FALSE
    OBVIOUS
  <2>1. PICK d \in Calls : t \in sent[d]
    BY <1>1 DEF OwnInv
  <2>2. at[d] # "idle" /\ d \notin Reads /\ d # c
    BY <1>1, <2>1 DEF StageInv, Stage, TryInv, Try
  <2>3. t = tx[d] /\ <<tx[d], "SUCCESS">> \in landed
    BY <1>3, <2>1, <2>2
  <2>4. t.seq < accountSeq /\ t.seq = accountSeq /\ accountSeq \in Nat
    BY <1>1, <2>3 DEF ChainInv, TypeOK
  <2> QED
    BY <2>4
<1> QED
  BY <1>5, <1>6 DEF CacheAhead, SeenSeq

\* FirstTriesSound for every instance: a first try tells exactly what
\* happened, and a cache that was never disturbed names the number the chain
\* is at, whatever the number of calls and however they interleave.
THEOREM FirstTriesTold == Spec => []FirstTriesSound
<1>1. Init => FlowInv
  BY DEF Init, NetInit, FlowInv, CacheAhead, Taken, Calls
<1>2. CallsInv /\ FlowInv /\ [Next]_vars => FlowInv'
  BY FlowStep
<1>3. CallsInv /\ FlowInv => FirstTriesSound
  BY ExactByInv, FlowByInv DEF FirstTriesSound
<1> QED
  BY <1>1, <1>2, <1>3, CallsHold, PTL DEF Spec

----------------------------------------------------------------------------
(* The deployment script *)

Wirings == UNION {[S -> Nat] : S \in SUBSET Names}

Instances == [name : Names, version : Nat, ready : BOOLEAN, deps : Wirings]

Entries == [id : Nat, version : Nat]

Manifests == UNION {[S -> Entries] : S \in SUBSET Names}

\* Of a ledger l: an instance that was initialised knows all its dependencies,
\* any other none; whom it knows serves.
LedgerWired(l) ==
    \A k \in DOMAIN l :
      /\ DOMAIN l[k].deps = (IF l[k].ready THEN DependsOn[l[k].name] ELSE {})
      /\ \A d \in DOMAIN l[k].deps :
           LET id == l[k].deps[d] IN id \in DOMAIN l /\ l[id].name = d /\ l[id].ready

\* Of a manifest m beside a ledger l and builds b: see ManifestServes.
Serves(m, l, b) ==
    \A n \in DOMAIN m :
      /\ m[n].id \in DOMAIN l
      /\ LET i == l[m[n].id] IN i.name = n /\ i.version = m[n].version /\ i.ready
      /\ m[n].version <= b[n]

\* See OutdatedMeansOlder.
Ages(m, l) ==
    \A n \in DOMAIN m : \A d \in DependsOn[n] \cap DOMAIN m :
      l[m[n].id].deps[d] = m[d].id \/ m[d].id > m[n].id

\* A run has these fields.
Shaped(r) == DOMAIN r = {"step", "at", "existing", "resolved", "entries", "wasm", "id"}

ScriptTypes ==
    /\ Shaped(run)
    /\ config \in Seq(Names) /\ build \in [Names -> Nat]
    /\ ledger \in Seq(Instances) /\ file \in Manifests

\* The entries of a run begin as the manifest's and move on with newer builds.
Moving(old, new) ==
    /\ DOMAIN old \subseteq DOMAIN new
    /\ \A n \in DOMAIN old : new[n] = old[n] \/ old[n].version < new[n].version

\* An instance is made of a newer build than the manifest has.
Making(r, c, b) ==
    /\ r.at \in DOMAIN c
    /\ r.wasm \in Nat /\ r.wasm <= b[c[r.at]]
    /\ c[r.at] \in DOMAIN r.existing => r.existing[c[r.at]].version < r.wasm

\* Of a run r: while an instance is initialised, its address stands in for its
\* contract, and no entry names it yet.
Running(r, f, c, l, b) ==
    /\ r.step \in {"next", "create", "initialize"}
    /\ r.at \in Nat \ {0}
    /\ r.existing = f
    /\ r.entries \in Manifests /\ Serves(r.entries, l, b) /\ Ages(r.entries, l)
    /\ Moving(f, r.entries)
    /\ r.step # "next" => Making(r, c, b)
    /\ r.step # "initialize" => r.resolved = Deploy!Ids(r.entries)
    /\ r.step = "initialize" =>
         /\ r.resolved = Deploy!Set(Deploy!Ids(r.entries), c[r.at], r.id)
         /\ r.id = Len(l) /\ r.id \in DOMAIN l
         /\ l[r.id].name = c[r.at] /\ l[r.id].version = r.wasm /\ ~l[r.id].ready

ScriptInv ==
    /\ ScriptTypes /\ LedgerWired(ledger)
    /\ Serves(file, ledger, build) /\ Ages(file, ledger)
    /\ verdict # "failed"
    /\ run.step = "off" \/ Running(run, file, config, ledger, build)

\* The body of OnlyChangesMove.
MovesOnlyChanged ==
    \A n \in DOMAIN file :
      n \in DOMAIN file' /\ (file'[n].id # file[n].id => file'[n].version # file[n].version)

ScriptStep == ScriptInv' /\ MovesOnlyChanged

LEMMA SetIs ==
  ASSUME NEW f, NEW n, NEW v
  PROVE  /\ DOMAIN Deploy!Set(f, n, v) = DOMAIN f \cup {n}
         /\ Deploy!Set(f, n, v)[n] = v
         /\ \A m \in DOMAIN f \ {n} : Deploy!Set(f, n, v)[m] = f[m]
BY DEF Deploy!Set

LEMMA ManifestIs ==
  ASSUME NEW m \in Manifests
  PROVE  DOMAIN m \subseteq Names /\ \A n \in DOMAIN m : m[n] \in Entries /\ m[n].id \in Nat /\ m[n].version \in Nat
BY DEF Manifests, Entries

LEMMA ManifestSet ==
  ASSUME NEW m \in Manifests, NEW n \in Names, NEW e \in Entries
  PROVE  Deploy!Set(m, n, e) \in Manifests
<1> DEFINE S == DOMAIN m \cup {n}
           f == Deploy!Set(m, n, e)
<1>1. S \in SUBSET Names /\ \A x \in DOMAIN m : m[x] \in Entries
  BY ManifestIs
<1>2. f = [x \in S |-> IF x = n THEN e ELSE m[x]]
  BY DEF Deploy!Set
<1>3. f \in [S -> Entries]
  BY <1>1, <1>2
<1> HIDE DEF S, f
<1>4. f \in Manifests
  BY <1>1, <1>3 DEF Manifests
<1> QED
  BY <1>4 DEF f

\* What happens to instances that are not ready, and newer builds, leave a manifest as it is.
LEMMA StillServes ==
  ASSUME NEW m \in Manifests, NEW l \in Seq(Instances), NEW b \in [Names -> Nat], Serves(m, l, b), Ages(m, l),
         NEW k, NEW c \in [Names -> Nat],
         \A i \in DOMAIN l : l[i].ready => i \in DOMAIN k /\ k[i] = l[i],
         \A n \in Names : b[n] <= c[n]
  PROVE  Serves(m, k, c) /\ Ages(m, k)
<1>1. Serves(m, k, c)
  <2>1. ASSUME NEW n \in DOMAIN m
        PROVE  /\ m[n].id \in DOMAIN k
               /\ k[m[n].id].name = n /\ k[m[n].id].version = m[n].version /\ k[m[n].id].ready
               /\ m[n].version <= c[n]
    <3>1. n \in Names /\ m[n].version \in Nat
      BY ManifestIs
    <3>2. /\ m[n].id \in DOMAIN l /\ l[m[n].id].name = n /\ l[m[n].id].version = m[n].version /\ l[m[n].id].ready
          /\ m[n].version <= b[n]
      BY DEF Serves
    <3> QED
      BY <3>1, <3>2
  <2> QED
    BY <2>1 DEF Serves
<1>2. \A n \in DOMAIN m : k[m[n].id] = l[m[n].id]
  BY DEF Serves
<1> QED
  BY <1>1, <1>2 DEF Ages

LEMMA StillRuns ==
  ASSUME NEW l \in Seq(Instances), NEW b \in [Names -> Nat], NEW c, c \in Seq(Names), NEW f,
         NEW r, Running(r, f, c, l, b), NEW d \in [Names -> Nat], \A n \in Names : b[n] <= d[n]
  PROVE  Running(r, f, c, l, d)
<1>1. r.entries \in Manifests /\ Serves(r.entries, l, b) /\ Ages(r.entries, l)
  BY DEF Running
<1>2. Serves(r.entries, l, d)
  BY <1>1, StillServes
<1>3. Making(r, c, b) => Making(r, c, d)
  <2> SUFFICES ASSUME Making(r, c, b) PROVE r.wasm <= d[c[r.at]]
    BY DEF Making
  <2>1. c[r.at] \in Names /\ r.wasm \in Nat /\ r.wasm <= b[c[r.at]]
    BY DEF Making
  <2> QED
    BY <2>1
<1> QED
  BY <1>2, <1>3 DEF Running

LEMMA ScriptStart == Deploy!Init => ScriptInv
<1> SUFFICES ASSUME Deploy!Init PROVE ScriptInv
  OBVIOUS
<1>1. config \in Seq(Names)
  BY DeploymentInstance DEF Deploy!Init, Deploy!DeploymentAssumption
<1>2. build \in [Names -> Nat] /\ ledger = <<>> /\ ledger \in Seq(Instances) /\ verdict # "failed" /\ run.step = "off"
      /\ Shaped(run)
  BY DEF Deploy!Init, Deploy!Off, Shaped
<1>3. file = [n \in {} |-> 0] /\ DOMAIN file = {}
  BY DEF Deploy!Init, Deploy!Empty
<1>4. file \in [{} -> Entries] /\ {} \in SUBSET Names
  BY <1>3
<1>5. file \in Manifests
  BY <1>4 DEF Manifests
<1>6. LedgerWired(ledger) /\ Serves(file, ledger, build) /\ Ages(file, ledger)
  BY <1>2, <1>3 DEF LedgerWired, Serves, Ages
<1> QED
  BY <1>1, <1>2, <1>5, <1>6 DEF ScriptInv, ScriptTypes

\* Nothing of the run is left.
LEMMA Stopped ==
  ASSUME ScriptInv, run' = Deploy!Off, UNCHANGED <<config, build, ledger, file>>, verdict' # "failed"
  PROVE  ScriptStep
<1>1. Shaped(run') /\ run'.step = "off"
  BY DEF Deploy!Off, Shaped
<1> QED
  BY <1>1 DEF ScriptInv, ScriptTypes, ScriptStep, MovesOnlyChanged

LEMMA RebuildStep ==
  ASSUME ScriptInv, NEW n \in Names, Deploy!Rebuild(n)
  PROVE  ScriptStep
<1>1. build' = [build EXCEPT ![n] = build[n] + 1] /\ UNCHANGED <<config, ledger, file, run, verdict>>
  BY DEF Deploy!Rebuild
<1>2. build' \in [Names -> Nat] /\ \A m \in Names : build[m] <= build'[m]
  BY <1>1 DEF ScriptInv, ScriptTypes
<1>3. Serves(file, ledger, build')
  BY <1>2, StillServes DEF ScriptInv, ScriptTypes
<1>4. run.step = "off" \/ Running(run, file, config, ledger, build')
  BY <1>2, StillRuns DEF ScriptInv, ScriptTypes
<1> QED
  BY <1>1, <1>2, <1>3, <1>4 DEF ScriptInv, ScriptTypes, ScriptStep, MovesOnlyChanged

LEMMA StartStep == ASSUME ScriptInv, Deploy!Start PROVE ScriptStep
<1> DEFINE r == [Deploy!Off EXCEPT !.step = "next", !.at = 1, !.existing = file, !.resolved = Deploy!Ids(file),
                                   !.entries = Deploy!Entries(file)]
<1>1. run' = r /\ UNCHANGED <<config, build, ledger, file, verdict>>
  BY DEF Deploy!Start
<1>2. /\ r.step = "next" /\ r.at = 1 /\ r.existing = file /\ r.resolved = Deploy!Ids(file) /\ r.entries = file
      /\ Shaped(r)
  <2>1. DOMAIN Deploy!Off = {"step", "at", "existing", "resolved", "entries", "wasm", "id"}
    BY DEF Deploy!Off
  <2> QED
    BY <2>1 DEF Deploy!Entries, Shaped
<1> HIDE DEF r
<1>3. Moving(file, file)
  BY DEF Moving
<1>4. Running(r, file, config, ledger, build)
  BY <1>2, <1>3 DEF Running, ScriptInv, ScriptTypes
<1> QED
  BY <1>1, <1>2, <1>4 DEF ScriptInv, ScriptTypes, ScriptStep, MovesOnlyChanged

\* Where a run is: its contract, and what the manifest and the entries say of it.
LEMMA RunIs ==
  ASSUME ScriptInv, run.step # "off"
  PROVE  /\ Running(run, file, config, ledger, build) /\ Shaped(run)
         /\ config \in Seq(Names) /\ build \in [Names -> Nat] /\ ledger \in Seq(Instances) /\ file \in Manifests
         /\ run.existing = file /\ run.entries \in Manifests /\ run.at \in Nat \ {0}
         /\ DOMAIN file \subseteq DOMAIN run.entries
         /\ run.at \in DOMAIN config => Deploy!This = config[run.at] /\ Deploy!This \in Names
         /\ run.step # "next" => run.at \in DOMAIN config
BY DEF ScriptInv, ScriptTypes, Running, Moving, Making, Deploy!This

LEMMA SkipStep == ASSUME ScriptInv, Deploy!Skip PROVE ScriptStep
<1> DEFINE n == Deploy!This
           r == [run EXCEPT !.resolved = Deploy!Set(run.resolved, n, run.existing[n].id), !.at = run.at + 1]
<1>1. /\ run.step = "next" /\ run.at <= Len(config) /\ n \in DOMAIN run.existing /\ run.existing[n].version = build[n]
      /\ run' = r /\ UNCHANGED <<config, build, ledger, file, verdict>>
  BY DEF Deploy!Skip, Deploy!Unchanged
<1>2. /\ Running(run, file, config, ledger, build) /\ Shaped(run)
      /\ config \in Seq(Names) /\ build \in [Names -> Nat] /\ file \in Manifests
      /\ run.existing = file /\ run.entries \in Manifests /\ run.at \in Nat \ {0}
      /\ DOMAIN file \subseteq DOMAIN run.entries
  BY <1>1, RunIs
<1>3. n \in Names /\ n \in DOMAIN file /\ n \in DOMAIN run.entries
  BY <1>1, <1>2, RunIs
<1>4. run.entries[n] = file[n]
  <2>1. file[n].version \in Nat /\ run.entries[n].version \in Nat /\ build[n] \in Nat
    BY <1>2, <1>3, ManifestIs
  <2>2. run.entries[n].version <= build[n] /\ (run.entries[n] = file[n] \/ file[n].version < run.entries[n].version)
    BY <1>2, <1>3 DEF Running, Serves, Moving
  <2> QED
    BY <1>1, <1>2, <2>1, <2>2
<1>5. run.resolved = Deploy!Ids(run.entries)
  BY <1>1, <1>2 DEF Running
<1>6. Deploy!Set(run.resolved, n, run.existing[n].id) = run.resolved
  BY <1>2, <1>3, <1>4, <1>5 DEF Deploy!Set, Deploy!Ids
<1>7. /\ r.step = "next" /\ r.at = run.at + 1 /\ r.existing = file /\ r.entries = run.entries
      /\ r.resolved = run.resolved /\ Shaped(r)
  BY <1>1, <1>2, <1>6 DEF Shaped
<1> HIDE DEF r
<1>8. Running(r, file, config, ledger, build)
  BY <1>2, <1>5, <1>7 DEF Running
<1> QED
  BY <1>1, <1>7, <1>8 DEF ScriptInv, ScriptTypes, ScriptStep, MovesOnlyChanged

LEMMA UploadStep == ASSUME ScriptInv, Deploy!Upload PROVE ScriptStep
<1> DEFINE n == Deploy!This
           r == [run EXCEPT !.wasm = build[n], !.step = "create"]
<1>1. /\ run.step = "next" /\ run.at <= Len(config)
      /\ ~(n \in DOMAIN run.existing /\ run.existing[n].version = build[n])
      /\ run' = r /\ UNCHANGED <<config, build, ledger, file, verdict>>
  BY DEF Deploy!Upload, Deploy!Unchanged
<1>2. /\ Running(run, file, config, ledger, build) /\ Shaped(run)
      /\ config \in Seq(Names) /\ build \in [Names -> Nat] /\ file \in Manifests
      /\ run.existing = file /\ run.at \in Nat \ {0}
  BY <1>1, RunIs
<1>3. run.at \in DOMAIN config /\ n = config[run.at] /\ n \in Names
  BY <1>1, <1>2, RunIs
<1> HIDE DEF n
<1>5. /\ r.step = "create" /\ r.at = run.at /\ r.existing = file /\ r.entries = run.entries
      /\ r.resolved = run.resolved /\ r.wasm = build[n] /\ Shaped(r)
  BY <1>2 DEF Shaped
<1> HIDE DEF r
<1>6. n \in DOMAIN file => file[n].version < build[n]
  <2>1. SUFFICES ASSUME n \in DOMAIN file PROVE file[n].version < build[n]
    OBVIOUS
  <2>2. file[n].version \in Nat /\ build[n] \in Nat /\ file[n].version # build[n]
    BY <1>1, <1>2, <1>3, <2>1, ManifestIs
  <2>3. file[n].version <= build[n]
    BY <2>1 DEF ScriptInv, Serves
  <2> QED
    BY <2>2, <2>3
<1>7. Making(r, config, build)
  BY <1>2, <1>3, <1>5, <1>6 DEF Making
<1>8. Running(r, file, config, ledger, build)
  BY <1>1, <1>2, <1>5, <1>7 DEF Running
<1> QED
  BY <1>1, <1>5, <1>8 DEF ScriptInv, ScriptTypes, ScriptStep, MovesOnlyChanged

\* An instance that is not initialised joins the ledger.
LEMMA Created ==
  ASSUME ScriptInv, run.step = "create"
  PROVE  LET k == Append(ledger, Deploy!NewInstance)
         IN  /\ k \in Seq(Instances) /\ Len(k) = Len(ledger) + 1
             /\ \A i \in DOMAIN ledger : i \in DOMAIN k /\ k[i] = ledger[i]
             /\ Len(k) \in DOMAIN k /\ k[Len(k)] = Deploy!NewInstance
             /\ LedgerWired(k) /\ Serves(file, k, build) /\ Ages(file, k)
             /\ Serves(run.entries, k, build) /\ Ages(run.entries, k)
<1> DEFINE x == Deploy!NewInstance
           k == Append(ledger, x)
<1>1. /\ Running(run, file, config, ledger, build) /\ Making(run, config, build)
      /\ config \in Seq(Names) /\ build \in [Names -> Nat] /\ ledger \in Seq(Instances) /\ file \in Manifests
      /\ run.entries \in Manifests /\ Deploy!This \in Names
  BY RunIs DEF Running
<1>2. x \in Instances /\ ~x.ready /\ DOMAIN x.deps = {}
  <2>1. Deploy!Empty \in [{} -> Nat] /\ {} \in SUBSET Names /\ DOMAIN Deploy!Empty = {}
    BY DEF Deploy!Empty
  <2>2. Deploy!Empty \in Wirings
    BY <2>1 DEF Wirings
  <2> QED
    BY <1>1, <2>1, <2>2 DEF Deploy!NewInstance, Instances, Making
<1> HIDE DEF x
<1>3. /\ k \in Seq(Instances) /\ Len(k) = Len(ledger) + 1 /\ Len(k) \in DOMAIN k /\ k[Len(k)] = x
      /\ \A i \in DOMAIN ledger : i \in DOMAIN k /\ k[i] = ledger[i]
      /\ DOMAIN k = DOMAIN ledger \cup {Len(k)}
  BY <1>1, <1>2
<1> HIDE DEF k
<1>4. LedgerWired(k)
  <2>1. ASSUME NEW i \in DOMAIN ledger
        PROVE  /\ DOMAIN k[i].deps = (IF k[i].ready THEN DependsOn[k[i].name] ELSE {})
               /\ \A d \in DOMAIN k[i].deps :
                    LET id == k[i].deps[d] IN id \in DOMAIN k /\ k[id].name = d /\ k[id].ready
    BY <1>3 DEF ScriptInv, LedgerWired
  <2>2. \A d \in DOMAIN k[Len(k)].deps : FALSE
    BY <1>2, <1>3
  <2> QED
    BY <1>2, <1>3, <2>1, <2>2 DEF LedgerWired
<1>5. \A i \in Names : build[i] <= build[i]
  BY <1>1
<1>6. Serves(file, k, build) /\ Ages(file, k)
  BY <1>1, <1>3, <1>5, StillServes DEF ScriptInv
<1>7. Serves(run.entries, k, build) /\ Ages(run.entries, k)
  BY <1>1, <1>3, <1>5, StillServes DEF Running
<1> QED
  BY <1>3, <1>4, <1>6, <1>7 DEF k, x

LEMMA CreateStep == ASSUME ScriptInv, Deploy!Create PROVE ScriptStep
<1> DEFINE n == Deploy!This
           k == Append(ledger, Deploy!NewInstance)
           r == [run EXCEPT !.id = Len(k), !.resolved = Deploy!Set(run.resolved, n, Len(k)), !.step = "initialize"]
<1>1. run.step = "create" /\ ledger' = k /\ run' = r /\ UNCHANGED <<config, build, file, verdict>>
  BY DEF Deploy!Create, Deploy!Resolve
<1>2. /\ Running(run, file, config, ledger, build) /\ Shaped(run)
      /\ run.existing = file /\ run.at \in DOMAIN config /\ n = config[run.at]
  BY <1>1, RunIs
<1>3. /\ k \in Seq(Instances)
      /\ Len(k) \in DOMAIN k /\ k[Len(k)] = Deploy!NewInstance
      /\ LedgerWired(k) /\ Serves(file, k, build) /\ Ages(file, k)
      /\ Serves(run.entries, k, build) /\ Ages(run.entries, k)
  BY <1>1, Created
<1>4. k[Len(k)].name = n /\ k[Len(k)].version = run.wasm /\ ~k[Len(k)].ready
  BY <1>3 DEF Deploy!NewInstance
<1> HIDE DEF k, n
<1>6. /\ r.step = "initialize" /\ r.at = run.at /\ r.existing = file /\ r.entries = run.entries /\ r.id = Len(k)
      /\ r.resolved = Deploy!Set(run.resolved, n, Len(k)) /\ r.wasm = run.wasm /\ Shaped(r)
  BY <1>2 DEF Shaped
<1> HIDE DEF r
<1>7. Making(r, config, build) /\ run.resolved = Deploy!Ids(run.entries)
  BY <1>1, <1>2, <1>6 DEF Running, Making
<1>8. Running(r, file, config, k, build)
  BY <1>2, <1>3, <1>4, <1>6, <1>7 DEF Running
<1> QED
  BY <1>1, <1>3, <1>6, <1>8 DEF ScriptInv, ScriptTypes, ScriptStep, MovesOnlyChanged

LEMMA CreateUnconfirmedStep == ASSUME ScriptInv, Deploy!CreateUnconfirmed PROVE ScriptStep
<1> DEFINE k == Append(ledger, Deploy!NewInstance)
<1>1. run.step = "create" /\ ledger' = k /\ run' = Deploy!Off /\ UNCHANGED <<config, build, file, verdict>>
  BY DEF Deploy!CreateUnconfirmed
<1>2. k \in Seq(Instances) /\ LedgerWired(k) /\ Serves(file, k, build) /\ Ages(file, k)
  BY <1>1, Created
<1>3. Shaped(Deploy!Off) /\ Deploy!Off.step = "off"
  BY DEF Deploy!Off, Shaped
<1> HIDE DEF k
<1> QED
  BY <1>1, <1>2, <1>3 DEF ScriptInv, ScriptTypes, ScriptStep, MovesOnlyChanged

\* An instance of a ledger gets ready.
Wire(l, i, w) == [l EXCEPT ![i].ready = TRUE, ![i].deps = w]

LEMMA PlacedIs ==
  ASSUME NEW S, NEW l \in Seq(S), NEW i \in DOMAIN l, NEW y \in S
  PROVE  LET k == [l EXCEPT ![i] = y]
         IN  /\ k \in Seq(S) /\ DOMAIN k = DOMAIN l /\ Len(k) = Len(l)
             /\ k[i] = y /\ \A j \in DOMAIN l \ {i} : k[j] = l[j]
OBVIOUS

LEMMA WiredIs ==
  ASSUME NEW l, l \in Seq(Instances), NEW i \in DOMAIN l, NEW w \in Wirings
  PROVE  /\ Wire(l, i, w) \in Seq(Instances) /\ DOMAIN Wire(l, i, w) = DOMAIN l /\ Len(Wire(l, i, w)) = Len(l)
         /\ Wire(l, i, w)[i].name = l[i].name /\ Wire(l, i, w)[i].version = l[i].version
         /\ Wire(l, i, w)[i].ready /\ Wire(l, i, w)[i].deps = w
         /\ \A j \in DOMAIN l \ {i} : Wire(l, i, w)[j] = l[j]
<1> DEFINE x == l[i]
           y == [[x EXCEPT !.ready = TRUE] EXCEPT !.deps = w]
<1>1. x \in Instances
  OBVIOUS
<1>2. y \in Instances
  BY <1>1 DEF Instances
<1>3. Wire(l, i, w) = [l EXCEPT ![i] = y]
  BY DEF Wire
<1>4. y.name = x.name /\ y.version = x.version /\ y.ready /\ y.deps = w
  BY <1>1 DEF Instances
<1> HIDE DEF y
<1> QED
  BY <1>2, <1>3, <1>4, PlacedIs

\* An instance that knows what its run resolved serves, and its entry may stand.
LEMMA Initialized ==
  ASSUME ScriptInv, run.step = "initialize", Deploy!Interpolable(Deploy!This)
  PROVE  LET k == Deploy!Wired
             m == Deploy!Set(run.entries, Deploy!This, [id |-> run.id, version |-> run.wasm])
         IN  /\ k \in Seq(Instances) /\ LedgerWired(k)
             /\ Serves(file, k, build) /\ Ages(file, k)
             /\ m \in Manifests /\ Serves(m, k, build) /\ Ages(m, k)
             /\ Moving(file, m) /\ run.resolved = Deploy!Ids(m)
<1> DEFINE n == Deploy!This
           me == run.id
           e == [id |-> me, version |-> run.wasm]
           m == Deploy!Set(run.entries, n, e)
           D == [d \in DependsOn[n] |-> IF d \in DOMAIN run.resolved THEN run.resolved[d] ELSE 0]
           k == Wire(ledger, me, D)
<1>1. /\ Running(run, file, config, ledger, build) /\ Making(run, config, build)
      /\ ledger \in Seq(Instances) /\ build \in [Names -> Nat] /\ file \in Manifests /\ run.entries \in Manifests
      /\ n = config[run.at] /\ n \in Names
      /\ DOMAIN file \subseteq DOMAIN run.entries
  BY RunIs DEF Running
<1>2. /\ run.resolved = Deploy!Set(Deploy!Ids(run.entries), n, me)
      /\ me = Len(ledger) /\ me \in DOMAIN ledger
      /\ ledger[me].name = n /\ ledger[me].version = run.wasm /\ ~ledger[me].ready
      /\ run.wasm \in Nat /\ run.wasm <= build[n] /\ (n \in DOMAIN file => file[n].version < run.wasm)
      /\ Serves(run.entries, ledger, build) /\ Ages(run.entries, ledger) /\ Moving(file, run.entries)
  BY <1>1 DEF Running, Making
<1>3. DependsOn[n] \subseteq Names /\ DependsOn[n] \subseteq DOMAIN run.resolved
  BY <1>1, DeploymentInstance DEF Deploy!DeploymentAssumption, Deploy!Interpolable
<1>4. k = Deploy!Wired
  BY DEF Deploy!Wired, Wire
<1> HIDE DEF n
<1>5. me \in Nat /\ e \in Entries /\ e.id = me /\ e.version = run.wasm
  BY <1>1, <1>2 DEF Entries
<1> HIDE DEF e
<1>6. m \in Manifests
  BY <1>1, <1>5, ManifestSet
<1>7. /\ DOMAIN m = DOMAIN run.entries \cup {n} /\ m[n] = e
      /\ \A x \in DOMAIN run.entries \ {n} : m[x] = run.entries[x]
  BY DEF Deploy!Set
<1>8. run.resolved = Deploy!Ids(m)
  <2>1. Deploy!Ids(m) = [x \in DOMAIN m |-> m[x].id]
    BY DEF Deploy!Ids
  <2>2. run.resolved = [x \in DOMAIN run.entries \cup {n} |-> IF x = n THEN me ELSE Deploy!Ids(run.entries)[x]]
    BY <1>2 DEF Deploy!Set, Deploy!Ids
  <2>3. \A x \in DOMAIN run.entries : Deploy!Ids(run.entries)[x] = run.entries[x].id
    BY DEF Deploy!Ids
  <2> HIDE DEF m
  <2> QED
    BY <1>5, <1>7, <2>1, <2>2, <2>3
<1> HIDE DEF m
<1>9. /\ DOMAIN run.resolved = DOMAIN m
      /\ \A x \in DOMAIN m : run.resolved[x] = m[x].id /\ m[x].id \in Nat /\ m[x].version \in Nat /\ x \in Names
  BY <1>6, <1>8, ManifestIs DEF Deploy!Ids
<1>10. DOMAIN D = DependsOn[n] /\ \A d \in DependsOn[n] : d \in DOMAIN m /\ D[d] = m[d].id
  BY <1>3, <1>9
<1>11. D \in Wirings
  <2>1. D \in [DependsOn[n] -> Nat]
    BY <1>3, <1>9
  <2> QED
    BY <1>3, <2>1 DEF Wirings
<1> HIDE DEF D
<1>12. /\ DOMAIN k = DOMAIN ledger /\ Len(k) = Len(ledger)
       /\ k[me].name = n /\ k[me].version = run.wasm /\ k[me].ready /\ k[me].deps = D
       /\ \A i \in DOMAIN ledger \ {me} : k[i] = ledger[i]
       /\ k \in Seq(Instances)
  BY <1>1, <1>2, <1>11, WiredIs
<1> HIDE DEF k
<1>13. \A i \in DOMAIN ledger : ledger[i].ready => i # me /\ i \in DOMAIN k /\ k[i] = ledger[i]
  BY <1>2, <1>12
<1>14. \A x \in Names : build[x] <= build[x]
  BY <1>1
<1>15. Serves(file, k, build) /\ Ages(file, k)
  BY <1>1, <1>13, <1>14, StillServes DEF ScriptInv
<1>16. Serves(run.entries, k, build) /\ Ages(run.entries, k)
  BY <1>1, <1>2, <1>13, <1>14, StillServes
<1>17. Serves(m, k, build)
  BY <1>2, <1>5, <1>7, <1>12, <1>16 DEF Serves
<1>18. Ages(m, k)
  <2> SUFFICES ASSUME NEW x \in DOMAIN m, NEW d \in DependsOn[x] \cap DOMAIN m
               PROVE  k[m[x].id].deps[d] = m[d].id \/ m[d].id > m[x].id
    BY DEF Ages
  <2>1. CASE x = n
    BY <1>5, <1>7, <1>10, <1>12, <2>1
  <2>2. CASE x # n /\ d = n
    <3>1. m[x].id \in DOMAIN ledger /\ ledger[m[x].id].ready
      BY <1>2, <1>7, <2>2 DEF Serves
    <3>2. m[x].id # me
      BY <1>13, <3>1
    <3> QED
      BY <1>1, <1>2, <1>5, <1>7, <2>2, <3>1, <3>2
  <2>3. CASE x # n /\ d # n
    BY <1>7, <1>16, <2>3 DEF Ages
  <2> QED
    BY <2>1, <2>2, <2>3
<1>19. LedgerWired(k)
  <2> SUFFICES ASSUME NEW i \in DOMAIN k
               PROVE  /\ DOMAIN k[i].deps = (IF k[i].ready THEN DependsOn[k[i].name] ELSE {})
                      /\ \A d \in DOMAIN k[i].deps :
                           LET id == k[i].deps[d] IN id \in DOMAIN k /\ k[id].name = d /\ k[id].ready
    BY DEF LedgerWired
  <2>1. CASE i = me
    BY <1>10, <1>12, <1>17, <2>1 DEF Serves
  <2>2. CASE i # me
    <3>1. k[i] = ledger[i] /\ i \in DOMAIN ledger
      BY <1>12, <2>2
    <3>2. /\ DOMAIN ledger[i].deps = (IF ledger[i].ready THEN DependsOn[ledger[i].name] ELSE {})
          /\ \A d \in DOMAIN ledger[i].deps :
               LET id == ledger[i].deps[d] IN id \in DOMAIN ledger /\ ledger[id].name = d /\ ledger[id].ready
      BY <3>1 DEF ScriptInv, LedgerWired
    <3> QED
      BY <1>13, <3>1, <3>2
  <2> QED
    BY <2>1, <2>2
<1>20. Moving(file, m)
  <2> SUFFICES ASSUME NEW x \in DOMAIN file PROVE x \in DOMAIN m /\ (m[x] = file[x] \/ file[x].version < m[x].version)
    BY DEF Moving
  <2>1. CASE x = n
    BY <1>2, <1>5, <1>7, <2>1
  <2>2. CASE x # n
    BY <1>1, <1>2, <1>7, <2>2 DEF Moving
  <2> QED
    BY <2>1, <2>2
<1> QED
  BY <1>4, <1>6, <1>8, <1>12, <1>15, <1>17, <1>18, <1>19, <1>20 DEF m, e, n

LEMMA InitializeStep == ASSUME ScriptInv, Deploy!Initialize PROVE ScriptStep
<1> DEFINE m == Deploy!Set(run.entries, Deploy!This, [id |-> run.id, version |-> run.wasm])
           k == Deploy!Wired
           r == [run EXCEPT !.entries = m, !.at = run.at + 1, !.step = "next"]
<1>1. run.step = "initialize" /\ ledger' = k /\ run' = r /\ UNCHANGED <<config, build, file, verdict>>
  BY DEF Deploy!Initialize, Deploy!Recorded
<1>2. Running(run, file, config, ledger, build) /\ Shaped(run) /\ run.existing = file /\ run.at \in Nat \ {0}
  BY <1>1, RunIs
<1>3. /\ k \in Seq(Instances) /\ LedgerWired(k)
      /\ Serves(file, k, build) /\ Ages(file, k)
      /\ m \in Manifests /\ Serves(m, k, build) /\ Ages(m, k)
      /\ Moving(file, m) /\ run.resolved = Deploy!Ids(m)
  BY <1>1, Initialized DEF Deploy!Initialize
<1> HIDE DEF m, k
<1>4. /\ r.step = "next" /\ r.at = run.at + 1 /\ r.existing = file /\ r.entries = m /\ r.resolved = Deploy!Ids(m)
      /\ Shaped(r)
  BY <1>2, <1>3 DEF Shaped
<1> HIDE DEF r
<1>5. Running(r, file, config, k, build)
  BY <1>2, <1>3, <1>4 DEF Running
<1> QED
  BY <1>1, <1>3, <1>4, <1>5 DEF ScriptInv, ScriptTypes, ScriptStep, MovesOnlyChanged

LEMMA InitializeUnconfirmedStep == ASSUME ScriptInv, Deploy!InitializeUnconfirmed PROVE ScriptStep
<1> DEFINE k == Deploy!Wired
<1>1. run.step = "initialize" /\ ledger' = k /\ run' = Deploy!Off /\ UNCHANGED <<config, build, file, verdict>>
  BY DEF Deploy!InitializeUnconfirmed
<1>2. k \in Seq(Instances) /\ LedgerWired(k) /\ Serves(file, k, build) /\ Ages(file, k)
  BY <1>1, Initialized DEF Deploy!InitializeUnconfirmed
<1>3. Shaped(Deploy!Off) /\ Deploy!Off.step = "off"
  BY DEF Deploy!Off, Shaped
<1> HIDE DEF k
<1> QED
  BY <1>1, <1>2, <1>3 DEF ScriptInv, ScriptTypes, ScriptStep, MovesOnlyChanged

\* The entries take the manifest's place as a whole.
LEMMA WriteStep == ASSUME ScriptInv, Deploy!Write PROVE ScriptStep
<1>1. run.step = "next" /\ file' = run.entries /\ run' = Deploy!Off /\ UNCHANGED <<config, build, ledger, verdict>>
  BY DEF Deploy!Write
<1>2. /\ run.entries \in Manifests /\ Serves(run.entries, ledger, build) /\ Ages(run.entries, ledger)
      /\ Moving(file, run.entries) /\ file \in Manifests
  BY <1>1, RunIs DEF Running
<1>3. MovesOnlyChanged
  <2> SUFFICES ASSUME NEW n \in DOMAIN file
               PROVE  n \in DOMAIN run.entries
                      /\ (run.entries[n].id # file[n].id => run.entries[n].version # file[n].version)
    BY <1>1 DEF MovesOnlyChanged
  <2>1. n \in DOMAIN run.entries /\ (run.entries[n] = file[n] \/ file[n].version < run.entries[n].version)
    BY <1>2 DEF Moving
  <2>2. file[n].version \in Nat
    BY <1>2, ManifestIs
  <2> QED
    BY <2>1, <2>2
<1>4. Shaped(Deploy!Off) /\ Deploy!Off.step = "off"
  BY DEF Deploy!Off, Shaped
<1>5. ScriptInv'
  BY <1>1, <1>2, <1>4 DEF ScriptInv, ScriptTypes
<1> QED
  BY <1>3, <1>5 DEF ScriptStep

\* Every entry is of an instance that is there.
LEMMA VerifyStep == ASSUME ScriptInv, Deploy!Verify \/ Deploy!VerifyUnreachable PROVE ScriptStep
<1>1. UNCHANGED <<config, build, ledger, file, run>>
  BY DEF Deploy!Verify, Deploy!VerifyUnreachable
<1>2. verdict' # "failed"
  <2>1. \A n \in DOMAIN file : file[n].id \in DOMAIN ledger
    BY DEF ScriptInv, Serves
  <2> QED
    BY <2>1 DEF Deploy!Verify, Deploy!VerifyUnreachable, Deploy!Answers
<1> QED
  BY <1>1, <1>2 DEF ScriptInv, ScriptTypes, ScriptStep, MovesOnlyChanged

LEMMA DeployStep == ASSUME ScriptInv, [Deploy!Next]_(Deploy!vars) PROVE ScriptStep
<1>1. CASE \E n \in Names : Deploy!Rebuild(n)
  BY <1>1, RebuildStep
<1>2. CASE Deploy!Die
  <2>1. verdict' = verdict /\ verdict # "failed"
    BY <1>2 DEF Deploy!Die, ScriptInv
  <2> QED
    BY <1>2, <2>1, Stopped DEF Deploy!Die
<1>3. CASE Deploy!Script
  <2>1. CASE Deploy!Unresolved
    <3>1. verdict' = verdict /\ verdict # "failed"
      BY <2>1 DEF Deploy!Unresolved, ScriptInv
    <3> QED
      BY <2>1, <3>1, Stopped DEF Deploy!Unresolved
  <2> QED
    BY <1>3, <2>1, StartStep, SkipStep, UploadStep, CreateStep, InitializeStep, WriteStep DEF Deploy!Script
<1>4. CASE Deploy!CreateUnconfirmed
  BY <1>4, CreateUnconfirmedStep
<1>5. CASE Deploy!InitializeUnconfirmed
  BY <1>5, InitializeUnconfirmedStep
<1>6. CASE Deploy!Verify \/ Deploy!VerifyUnreachable
  BY <1>6, VerifyStep
<1>7. CASE UNCHANGED Deploy!vars
  BY <1>7 DEF Deploy!vars, ScriptInv, ScriptTypes, ScriptStep, MovesOnlyChanged
<1> QED
  BY <1>1, <1>2, <1>3, <1>4, <1>5, <1>6, <1>7 DEF Deploy!Next

\* After every step, and whatever failed or died before, the manifest names instances that were initialised, of the
\* contract and the build it says, with the addresses of initialised instances of their dependencies, none that its
\* own run replaced, and verification finds nothing missing (deploy.ts, main; verify-manifest.ts).
THEOREM ManifestHolds == Deploy!Spec => []ManifestSound
<1>1. ASSUME ScriptInv PROVE ManifestSound
  <2>1. Deploy!ManifestServes
    BY <1>1 DEF ScriptInv, Serves, Deploy!ManifestServes
  <2>2. Deploy!DependenciesServe
    BY <1>1 DEF ScriptInv, LedgerWired, Deploy!DependenciesServe
  <2>3. Deploy!OutdatedMeansOlder
    BY <1>1 DEF ScriptInv, Ages, Deploy!OutdatedMeansOlder
  <2> QED
    BY <1>1, <2>1, <2>2, <2>3 DEF ScriptInv, ManifestSound, Deploy!ManifestSound, Deploy!NoFalseAlarm
<1>2. ScriptInv /\ [Deploy!Next]_(Deploy!vars) => ScriptInv'
  BY DeployStep DEF ScriptStep
<1> QED
  BY <1>1, <1>2, ScriptStart, PTL DEF Deploy!Spec

\* A manifest that is written forgets none of the contracts of the last one, and gives another address only to a
\* contract of another build (deploy.ts, change detection).
THEOREM MovesHold == Deploy!Spec => OnlyChangesMove
<1>1. ScriptInv /\ [Deploy!Next]_(Deploy!vars) => ScriptInv'
  BY DeployStep DEF ScriptStep
<1>2. ScriptInv /\ [Deploy!Next]_(Deploy!vars) => [MovesOnlyChanged]_file
  BY DeployStep DEF ScriptStep
<1>3. OnlyChangesMove <=> [][MovesOnlyChanged]_file
  BY DEF OnlyChangesMove, Deploy!OnlyChangesMove, MovesOnlyChanged
<1> QED
  BY <1>1, <1>2, <1>3, ScriptStart, PTL DEF Deploy!Spec
=============================================================================
