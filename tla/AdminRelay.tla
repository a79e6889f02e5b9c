----------------------------- MODULE AdminRelay -----------------------------
(***************************************************************************)
(* Nonce-protected calls between the operator who signs them and the       *)
(* ledger that applies them.  An operator reads admin_nonce and signs a    *)
(* call for it; the submission may then arrive late, out of order, many    *)
(* times or never, while recoveries and handovers replace the admin.       *)
(*                                                                         *)
(* Which entry point a call names and with which arguments is chosen when  *)
(* it arrives: a call is its signer, its nonce and what its signer saw.    *)
(***************************************************************************)
EXTENDS RwaAdmin

CONSTANT MaxSigned  \* bound on the distinct calls signed

\* What a use of these modules has to assume of its constants.
AdminAssumption == RolesKnown /\ GuardiansAreAccounts /\ NumbersAreNats /\ MaxSigned \in Nat

VARIABLES
    signed,         \* calls signed so far; any of them may arrive at any time
    applied         \* history: the calls that took effect, in order

relayVars == <<signed, applied>>

SignedCall == [caller : Accounts, nonce : Nat, epoch : Nat, seen : Nat]

RelayInit == Init /\ signed = {} /\ applied = <<>>

\* admin_nonce is read, and the call signed for its answer.
Sign(caller) ==
    /\ Cardinality(signed) < MaxSigned
    /\ signed' = signed \cup {[caller |-> caller, nonce |-> adminNonce,
                               epoch  |-> recoveries, seen |-> Len(applied)]}
    /\ UNCHANGED <<vars, applied>>

\* A call arrives and is accepted; it may arrive again.
Deliver(call) ==
    /\ ProtectedNext(call.caller, call.nonce)
    /\ applied' = Append(applied, [call |-> call, epoch |-> recoveries])
    /\ UNCHANGED signed

RelayNext ==
    \/ UnprotectedNext /\ UNCHANGED relayVars
    \/ \E c \in Accounts : Sign(c)
    \/ \E call \in signed : Deliver(call)

RelaySpec == RelayInit /\ [][RelayNext]_<<vars, relayVars>>

----------------------------------------------------------------------------
(* Properties *)

\* Every variable has its type.
RelayTypeOK ==
    /\ TypeOK
    /\ signed \in SUBSET SignedCall
    /\ applied \in Seq([call : SignedCall, epoch : Nat])

\* A call takes effect only if no other call took effect since it was signed:
\* a repeated, overtaken or competing submission changes nothing.
AppliedInContext == \A i \in DOMAIN applied : applied[i].call.seen = i - 1

\* A recovery voids every call signed before it, those of role holders who keep
\* their role included (contracts/rwa-token/src/lib.rs:1184 "bumps AdminNonce
\* (invalidating prior nonce-protected ops)").
RecoveryVoidsSigned ==
    \A i \in DOMAIN applied : applied[i].call.epoch = applied[i].epoch
=============================================================================
