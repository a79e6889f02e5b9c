---------------------------- MODULE ClientCalls ----------------------------
(***************************************************************************)
(* What a caller of the clients is told, while other callers change the    *)
(* contracts under its calls.                                              *)
(*                                                                         *)
(* A call of the SDK's KYC client reads the roster of its caller's office, *)
(* then sends the write; a claim of dividends in the frontend reads the    *)
(* pending amount, then sends the claim; a snapshot of a holder reads the  *)
(* registry twice and tolerates the failure of either read. Every write is *)
(* one step of the contract here: TxPipeline says how it gets there.       *)
(*                                                                         *)
(* The contracts are cut down to what these calls depend on. KycRegistry   *)
(* has the whole registry.                                                 *)
(***************************************************************************)
EXTENDS ContractCalls, Integers, FiniteSets

CONSTANTS
    Callers,        \* accounts that call
    Menus,          \* what each of them calls, caller -> <<family, contract, method>>s: one day's work each
    MalformedCallers, \* of the callers, those whose text is no account address
    MaxDividend,    \* bound: dividends are deposited up to here
    MaxCalls        \* bound: calls made in all

\* Methods of the clients, and the calls that the frontend composes.
Work == {<<"web", "app", m>> : m \in {"claim", "holder", "evaluate"}}
        \cup UNION {{<<f, k, m>> : m \in Methods(Families[f][k])} : f \in DOMAIN Families, k \in Contracts}

ASSUME ClientCallsAssumption ==
    /\ MalformedCallers \subseteq Callers
    /\ MaxDividend \in Nat
    /\ MaxCalls \in Nat
    /\ \A work \in Menus : \A c \in Callers : work[c] \subseteq Work

VARIABLES
    admins, verifiers,  \* offices of the registry
    record,             \* status of the one subject, "None" before the first decision
    expired,            \* the subject's approval is past its date
    paused,             \* the engine denies every transfer
    unclaimed,          \* dividend of the one holder
    menu,               \* the day's work, one of Menus
    call,               \* the call each caller has open, or its last answer
    begun               \* calls begun so far

chain == <<admins, verifiers, record, expired, paused, unclaimed>>
vars == <<chain, menu, call, begun>>

NoCall == [phase |-> "idle", op |-> <<>>, out |-> "none", seen |-> "none", value |-> 0,
           lost |-> FALSE, moved |-> FALSE, bestActive |-> FALSE]

Init ==
    /\ admins \in {{a} : a \in Callers \ MalformedCallers}
    /\ verifiers = {}
    /\ record = "None"
    /\ expired = FALSE
    /\ paused = FALSE
    /\ unclaimed = 0
    /\ menu \in Menus
    /\ call = [c \in Callers |-> NoCall]
    /\ begun = 0

----------------------------------------------------------------------------
(* Error codes *)

\* Refusals of the registry that these calls can meet, by name.
KycErrors == [NotVerifier |-> 2, NotApproved |-> 3, NoRecord |-> 4, NotAdmin |-> 6, EmptyAdminList |-> 7]

\* Codes of the errors named Unauthorized, per contract.
Unauthorized == [rwa |-> {}, compliance |-> {}, kyc |-> {}, invoice |-> {3}, property |-> {3}, carbon |-> {3}]

\* The message carries the raw code and, in front, the name the contract's table gives it.
isUnauthorizedError(k, code) == code \in Unauthorized[k] \/ code = 3

----------------------------------------------------------------------------
(* Histories: what happened under an open call *)

Office(op) == IF op[3] \in Methods(VerifierWrites) THEN "verifier" ELSE "admin"

Holds(c, op, ads, vrs) == c \in IF Office(op) = "verifier" THEN vrs ELSE ads

Guarded(op) == op[1] = "sdk" /\ op[2] = "kyc" /\ op[3] \in Methods(KycWrites)

Open(c) == call[c].phase \notin {"idle", "done"}

\* The calls, watched through a step that leaves these rosters; the claims of others are disturbed by moved.
Watch(calls, ads, vrs, moved, active) ==
    [c \in Callers |->
        IF calls[c].phase \in {"idle", "done"} THEN calls[c]
        ELSE [calls[c] EXCEPT !.lost = @ \/ (Guarded(calls[c].op) /\ ~Holds(c, calls[c].op, ads, vrs)),
                              !.moved = @ \/ moved,
                              !.bestActive = @ \/ active]]

IsActive(rec, exp) == rec = "Approved" /\ ~exp

Finish(c, out) == [call EXCEPT ![c].phase = "done", ![c].out = out]

----------------------------------------------------------------------------
(* The caller's side *)

\* A malformed caller fails on the spot; the others check their office first, where the client does.
Begin(c, op) ==
    /\ ~Open(c)
    /\ begun < MaxCalls
    /\ begun' = begun + 1
    /\ op \in menu[c]
    /\ call' = [call EXCEPT ![c] =
                    [NoCall EXCEPT !.op = op,
                                   !.phase = IF Guarded(op) THEN IF c \in MalformedCallers THEN "done" ELSE "roster"
                                             ELSE IF op[2] = "app" THEN "first" ELSE "send",
                                   !.out = IF Guarded(op) /\ c \in MalformedCallers THEN "AuthError" ELSE "none",
                                   !.lost = Guarded(op) /\ ~Holds(c, op, admins, verifiers),
                                   !.bestActive = IsActive(record, expired)]]
    /\ UNCHANGED chain

\* assertIsVerifier and assertIsAdmin.
CheckRoster(c) ==
    /\ call[c].phase = "roster"
    /\ call' = IF Holds(c, call[c].op, admins, verifiers) THEN [call EXCEPT ![c].phase = "send"]
               ELSE Finish(c, "AuthError")
    /\ UNCHANGED chain

\* A read or a write that the network does not carry through answers with an error of its own.
Fails(c) ==
    /\ call[c].phase \in {"roster", "send"} \/ (call[c].phase \in {"first", "second"} /\ call[c].op[3] = "claim")
    /\ call' = Finish(c, "error")
    /\ UNCHANGED chain

----------------------------------------------------------------------------
(* The contract's side *)

\* The registry's refusal of method m by caller c about target t, or 0.
Refusal(c, m, t) ==
    CASE m \in Methods(VerifierWrites) /\ c \notin verifiers -> KycErrors.NotVerifier
      [] m \in Methods(AdminWrites) /\ c \notin admins -> KycErrors.NotAdmin
      [] m = "update_tier" /\ record = "None" -> KycErrors.NoRecord
      [] m = "update_tier" /\ record # "Approved" -> KycErrors.NotApproved
      [] m = "remove_admin" /\ Cardinality(admins) = 1 -> KycErrors.EmptyAdminList
      [] OTHER -> 0

\* withAuth turns what looks like Unauthorized into an AuthError; the frontend's clients add nothing.
Refuse(c, code) ==
    Finish(c, IF Guarded(call[c].op) /\ isUnauthorizedError(call[c].op[2], code) THEN "AuthError" ELSE "error")

\* The host has no such function, or other arguments for it.
HostRefuses(c) ==
    /\ call[c].phase = "send"
    /\ call[c].op[2] # "app"
    /\ ~Decodes(call[c].op[1], call[c].op[2], call[c].op[3])
    /\ call' = Finish(c, "malformed")
    /\ UNCHANGED chain

RegistryWrite(c, t) ==
    LET m == call[c].op[3] IN
    /\ call[c].phase = "send"
    /\ call[c].op[2] = "kyc" /\ m \in Methods(KycWrites)
    /\ Decodes(call[c].op[1], "kyc", m)
    /\ LET code == Refusal(c, m, t) IN
       IF code # 0
       THEN call' = Refuse(c, code) /\ UNCHANGED chain
       ELSE /\ admins' = CASE m = "add_admin" -> admins \cup {t} [] m = "remove_admin" -> admins \ {t}
                           [] OTHER -> admins
            /\ verifiers' = CASE m = "add_verifier" -> verifiers \cup {t} [] m = "remove_verifier" -> verifiers \ {t}
                              [] OTHER -> verifiers
            /\ record' = CASE m = "approve" -> "Approved" [] m = "reject" -> "Rejected" [] m = "revoke" -> "Revoked"
                           [] OTHER -> record
            /\ expired' = (expired /\ m # "approve")
            /\ call' = Watch(Finish(c, "ok"), admins', verifiers', FALSE, IsActive(record', expired'))
            /\ UNCHANGED <<paused, unclaimed>>

\* Every other call the contracts can decode: of those, only pausing and evaluating are followed further.
OtherCall(c) ==
    LET op == call[c].op IN
    /\ call[c].phase = "send"
    /\ op[2] # "app" /\ (op[2] = "kyc" => op[3] \notin Methods(KycWrites))
    /\ Decodes(op[1], op[2], op[3])
    /\ paused' = IF op[2] = "compliance" /\ op[3] \in {"pause", "unpause"} THEN op[3] = "pause" ELSE paused
    /\ call' = Finish(c, "ok")
    /\ UNCHANGED <<admins, verifiers, record, expired, unclaimed>>

ApprovalExpires ==
    /\ record = "Approved" /\ ~expired
    /\ expired' = TRUE
    /\ UNCHANGED <<admins, verifiers, record, paused, unclaimed, call>>

DividendDeposited ==
    /\ unclaimed < MaxDividend
    /\ unclaimed' = unclaimed + 1
    /\ call' = Watch(call, admins, verifiers, TRUE, FALSE)
    /\ UNCHANGED <<admins, verifiers, record, expired, paused>>

----------------------------------------------------------------------------
(* Calls the frontend composes *)

\* claimDividend: the pending amount is read before the write and returned after it.
ReadPending(c) ==
    /\ call[c].phase = "first" /\ call[c].op[3] = "claim"
    /\ call' = [call EXCEPT ![c].phase = "second", ![c].value = unclaimed]
    /\ UNCHANGED chain

\* The contract refuses a claim of nothing.
ClaimDividend(c) ==
    /\ call[c].phase = "second" /\ call[c].op[3] = "claim"
    /\ IF unclaimed = 0 THEN call' = Finish(c, "error") /\ UNCHANGED unclaimed
       ELSE /\ call' = Watch([Finish(c, "ok") EXCEPT ![c].seen = unclaimed], admins, verifiers, TRUE, FALSE)
            /\ unclaimed' = 0
    /\ UNCHANGED <<admins, verifiers, record, expired, paused>>

\* An enum without data arrives as a list holding its name, so no comparison with a name succeeds.
StatusIs(rec, name) == FALSE

\* holderSnapshot: the status check of the token and the record of the registry, each at its own moment, each
\* replaced by nothing when it fails. The record counts only when the status failed, so it is read last.
ReadStatus(c) ==
    /\ call[c].phase = "first" /\ call[c].op[3] = "holder"
    /\ \E answer \in {"failed", IF IsActive(record, expired) THEN "active" ELSE "inactive"} :
           call' = [call EXCEPT ![c].phase = "second", ![c].seen = answer]
    /\ UNCHANGED chain

ReadRecord(c) ==
    /\ call[c].phase = "second" /\ call[c].op[3] = "holder"
    /\ \E rec \in {"None", record} :
           LET active == IF call[c].seen # "failed" THEN call[c].seen = "active" ELSE StatusIs(rec, "Approved")
           IN call' = Finish(c, IF active THEN "active" ELSE "inactive")
    /\ UNCHANGED chain

\* The engine's answer to evaluate_transfer as it arrives: the reason, an enum without data, is a list.
WireDecision == IF paused THEN [tag |-> "Deny", reason |-> "list"] ELSE [tag |-> "Allow", reason |-> "none"]

decodeTransferDecision(raw) == ~(raw.tag = "Deny" /\ raw.reason = "text")

Evaluate(c) ==
    /\ call[c].phase = "first" /\ call[c].op[3] = "evaluate"
    /\ call' = [Finish(c, IF decodeTransferDecision(WireDecision) THEN "allowed" ELSE "denied")
                    EXCEPT ![c].seen = IF paused THEN "denied" ELSE "allowed"]
    /\ UNCHANGED chain

----------------------------------------------------------------------------

Answer(c) ==
    \/ CheckRoster(c) \/ Fails(c) \/ HostRefuses(c) \/ OtherCall(c)
    \/ \E t \in Callers \ MalformedCallers : RegistryWrite(c, t)
    \/ ReadPending(c) \/ ClaimDividend(c) \/ ReadStatus(c) \/ ReadRecord(c) \/ Evaluate(c)

Next ==
    /\ \/ \E c \in Callers : \E op \in menu[c] : Begin(c, op)
       \/ UNCHANGED begun /\ (ApprovalExpires \/ DividendDeposited \/ \E c \in Callers : Answer(c))
    /\ UNCHANGED menu

Spec == Init /\ [][Next]_vars

----------------------------------------------------------------------------
(* Properties *)

\* The calls that the contracts refuse for their shape are exactly those listed: every other method of the three
\* families encodes what its contract declares (clients/*.ts, lib/contracts/*.ts against the contracts' lib.rs).
AnswerableExactly ==
    \A c \in Callers :
        call[c].phase = "done" /\ call[c].op[2] # "app" /\ call[c].out \in {"ok", "malformed"}
            => (call[c].out = "malformed" <=> call[c].op[3] \in Unanswerable[call[c].op[1]][call[c].op[2]])

\* A claim that nothing disturbed returns the amount that was paid (lib/contracts/propertyToken.ts, claimDividend).
UndisturbedClaimExact ==
    \A c \in Callers :
        call[c].phase = "done" /\ call[c].op[3] = "claim" /\ call[c].out = "ok" /\ ~call[c].moved
            => call[c].value = call[c].seen

\* A holder shown as active was active at some moment of the snapshot, whichever of its reads failed
\* (lib/readApi.ts, holderSnapshot).
ActiveMeansActive ==
    \A c \in Callers : call[c].phase = "done" /\ call[c].out = "active" => call[c].bestActive


\* The decision the engine took is the one the caller reads (sdk/src/codec.ts, decodeTransferDecision).
DenialReachesCaller ==
    \A c \in Callers : call[c].phase = "done" /\ call[c].op[3] = "evaluate" => call[c].out = call[c].seen

\* Whatever other callers do meanwhile, an answer is about the call it answers.
AnswersSound == AnswerableExactly /\ UndisturbedClaimExact /\ ActiveMeansActive
=============================================================================
