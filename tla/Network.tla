---------------------------- MODULE Network ----------------------------
(***************************************************************************)
(* The chain as the TypeScript of src/sdk and src/frontend meets it: one   *)
(* sending account, its sequence number, the transactions a node has       *)
(* queued for it and those that a ledger has closed over.  The node is     *)
(* not part of the repository; what it may answer is taken from the        *)
(* statuses the code distinguishes.                                        *)
(***************************************************************************)
EXTENDS Naturals

VARIABLES accountSeq,   \* sequence of the last transaction the chain applied
          pool,         \* transactions the node has queued
          landed        \* <<transaction, "SUCCESS" or "FAILED">>, as ledgers close

net == <<accountSeq, pool, landed>>

NetInit == accountSeq = 0 /\ pool = {} /\ landed = {}

\* A transaction names the account sequence it was built on; it is valid
\* when the chain is exactly there.
OnTime(tx) == tx.seq = accountSeq

\* sendTransaction: what the node does with tx and the status it answers.
\* An account has one queued transaction at a time; a node may also be too
\* busy, or refuse for a reason of its own (fee, signature, footprint).
Receive(tx, status) ==
  \/ status = "PENDING" /\ OnTime(tx) /\ pool = {} /\ pool' = {tx}
  \/ status = "DUPLICATE" /\ tx \in pool /\ UNCHANGED pool
  \/ status = "TRY_AGAIN_LATER" /\ tx \notin pool /\ UNCHANGED pool
  \/ status = "ERROR" /\ tx \notin pool /\ UNCHANGED pool

\* A ledger closes over a queued transaction.
CloseLedger(tx, status) ==
  /\ tx \in pool /\ OnTime(tx) /\ status \in {"SUCCESS", "FAILED"}
  /\ accountSeq' = accountSeq + 1
  /\ pool' = pool \ {tx}
  /\ landed' = landed \cup {<<tx, status>>}

\* Its time bounds pass before it is included.
Expire(tx) == tx \in pool /\ pool' = pool \ {tx} /\ UNCHANGED <<accountSeq, landed>>

\* getAccount and getTransaction may answer from one ledger behind.
SeenSeq == IF landed = {} THEN {accountSeq} ELSE {accountSeq, accountSeq - 1}
Seen(tx) == {"NOT_FOUND"} \cup {r[2] : r \in {r \in landed : r[1] = tx}}
=============================================================================
