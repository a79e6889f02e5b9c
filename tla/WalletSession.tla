--------------------------- MODULE WalletSession ---------------------------
(***************************************************************************)
(* The wallet of the frontend: connection attempts that overlap (header,   *)
(* guard, reconnection at page load), the store they land in, what is      *)
(* remembered across reloads, and the role looked up for the address.      *)
(*                                                                         *)
(* Every attempt makes one provider instance, named by the attempt. The    *)
(* store holds an instance and the address, which is the account that the  *)
(* instance returned.                                                      *)
(***************************************************************************)
EXTENDS Naturals, FiniteSets

CONSTANTS
    Attempts,   \* 1..n, the connection attempts, numbered as they start: a bound
    Accounts,   \* addresses the wallets may return
    Verifiers,  \* accounts on the registry's list of verifiers
    Operators,  \* accounts with a tier of at least 2
    MaxReloads  \* bound: page loads

VARIABLES
    wallet,     \* the store: provider instance, type, address
    attempt,    \* the attempts and their instances
    remembered, \* localStorage: the provider type, the WalletConnect session
    closing,    \* the instance that disconnect is waiting for, if any
    roles,      \* roleStore, the address its effect ran for, and the lookups under way
    loads,      \* page loads so far
    forgotten   \* history: the user disconnected while nothing was under way, and chose no wallet since

walletVars == <<wallet, attempt, remembered, closing, roles, loads, forgotten>>

None == "none"
NoInstance == 0

Types == {"freighter", "ledger", "walletconnect"}

Disconnected == [provider |-> NoInstance, type |-> None, address |-> None]
Unused == [phase |-> "unused", via |-> None, type |-> None, account |-> None]
Over == [Unused EXCEPT !.phase = "over"]
NoRole == [role |-> None, resolvedFor |-> None, seen |-> None, lookups |-> {}]

Init ==
    /\ wallet = Disconnected
    /\ attempt = [a \in Attempts |-> Unused]
    /\ remembered = [type |-> None, session |-> None]
    /\ closing = NoInstance
    /\ roles = NoRole
    /\ loads = 0
    /\ forgotten = FALSE

At(a, phase) == attempt[a].phase = phase

Fresh(a) == At(a, "unused") /\ \A b \in 1..(a - 1) : ~At(b, "unused")

Under(a) == attempt[a].phase \in {"probing", "starting", "connecting", "pairing"}

Move(a, phase) == attempt' = [attempt EXCEPT ![a].phase = phase]

----------------------------------------------------------------------------
(* Starting an attempt *)

\* The header's button, the guard's cards, and the guard's own way with WalletConnect, all shown while no address is.
Choose(a, via, type) ==
    /\ Fresh(a)
    /\ wallet.address = None
    /\ via = "header" => type = "freighter"
    /\ via = "guard" => type # "walletconnect"
    /\ via = "pairing" => type = "walletconnect"
    /\ attempt' = [attempt EXCEPT ![a] = [Unused EXCEPT !.phase = CASE via = "header" -> "probing"
                                                                  [] via = "guard" -> "starting"
                                                                  [] OTHER -> "connecting", !.via = via, !.type = type]]
    /\ forgotten' = FALSE
    /\ UNCHANGED <<wallet, remembered, closing, roles, loads>>

Probed(a) == At(a, "probing") /\ Move(a, "starting") /\ UNCHANGED <<wallet, remembered, closing, roles, loads, forgotten>>

\* What disconnecting an instance removes of the storage.
Dropped(i) == IF attempt[i].type = "walletconnect" THEN [remembered EXCEPT !.session = None] ELSE remembered

\* selectProvider first disconnects the instance in the store, which stays there.
selectProvider(a) ==
    /\ At(a, "starting")
    /\ remembered' = IF wallet.provider = NoInstance THEN remembered ELSE Dropped(wallet.provider)
    /\ Move(a, "connecting")
    /\ UNCHANGED <<wallet, closing, roles, loads, forgotten>>

Reconnectable == remembered.type \in {"freighter", "walletconnect"}

\* A page load: the instances and the calls under way are gone, and the remembered type is connected again.
autoReconnect(a) ==
    /\ loads < MaxReloads
    /\ Fresh(a)
    /\ attempt' = [b \in Attempts |->
                     IF b = a /\ Reconnectable THEN [Unused EXCEPT !.phase = "connecting", !.via = "load", !.type = remembered.type]
                     ELSE IF Under(b) THEN Over ELSE attempt[b]]
    /\ loads' = loads + 1
    /\ wallet' = Disconnected
    /\ roles' = NoRole
    /\ closing' = NoInstance
    /\ UNCHANGED <<remembered, forgotten>>

----------------------------------------------------------------------------
(* Ending it *)

\* An instance that is in the store already is kept.
Landed_Kept(a, account) ==
    [provider |-> IF wallet.provider = NoInstance THEN a ELSE wallet.provider, type |-> attempt[a].type, address |-> account]

Landed(a, account) == [provider |-> a, type |-> attempt[a].type, address |-> account]

\* The store is written whatever it holds by now. Only a reconnection does not save the type.
Land(a, account, session) ==
    /\ wallet' = Landed(a, account)
    /\ attempt' = [attempt EXCEPT ![a] = [Over EXCEPT !.type = attempt[a].type, !.account = account]]
    /\ remembered' = [type |-> IF attempt[a].via = "load" THEN remembered.type ELSE attempt[a].type, session |-> session]
    /\ UNCHANGED <<closing, roles, loads, forgotten>>

connect(a, account) ==
    /\ At(a, "connecting")
    /\ attempt[a].type # "walletconnect" \/ account = remembered.session
    /\ Land(a, account, remembered.session)

\* Without a stored session WalletConnect shows a pairing code and waits for the phone.
Pair(a) ==
    /\ At(a, "connecting")
    /\ attempt[a].type = "walletconnect" /\ remembered.session = None
    /\ Move(a, "pairing")
    /\ UNCHANGED <<wallet, remembered, closing, roles, loads, forgotten>>

Approve(a, account) == At(a, "pairing") /\ Land(a, account, account)

Fail(a) == Under(a) /\ attempt' = [attempt EXCEPT ![a] = Over] /\ UNCHANGED <<wallet, remembered, closing, roles, loads, forgotten>>

----------------------------------------------------------------------------
(* Disconnecting, and losing a session *)

Disconnect ==
    /\ wallet.address # None /\ closing = NoInstance
    /\ closing' = wallet.provider
    /\ UNCHANGED <<wallet, attempt, remembered, roles, loads, forgotten>>

Forget(i) == [Dropped(i) EXCEPT !.type = None]

Clear ==
    /\ closing # NoInstance
    /\ closing' = NoInstance
    /\ remembered' = Forget(closing)
    /\ wallet' = Disconnected
    /\ forgotten' = \A a \in Attempts : ~Under(a)
    /\ UNCHANGED <<attempt, roles, loads>>

\* A signature request answered with "expired" drops the session; the store goes on showing the address.
Expire ==
    /\ wallet.type = "walletconnect"
    /\ remembered' = [remembered EXCEPT !.session = None]
    /\ UNCHANGED <<wallet, attempt, closing, roles, loads, forgotten>>

----------------------------------------------------------------------------
(* The role *)

clearRole == [roles EXCEPT !.role = None, !.seen = None, !.resolvedFor = None]

\* The effect runs once the address has changed; an address that was resolved last is not looked up again.
Effect ==
    /\ roles.seen # wallet.address
    /\ roles' = IF wallet.address = None THEN clearRole
                ELSE IF roles.resolvedFor = wallet.address THEN [roles EXCEPT !.seen = wallet.address]
                ELSE [roles EXCEPT !.seen = wallet.address, !.lookups = @ \cup {wallet.address}]
    /\ UNCHANGED <<wallet, attempt, remembered, closing, loads, forgotten>>

\* The roles that the reads of a lookup may give, the refused ones counting as empty.
Resolved(address) ==
    {"user"} \cup (IF address \in Verifiers THEN {"verifier"} ELSE {}) \cup (IF address \in Operators THEN {"admin"} ELSE {})

resolveRole(address, role) ==
    /\ address \in roles.lookups
    /\ role \in Resolved(address)
    /\ roles' = [roles EXCEPT !.role = role, !.resolvedFor = address, !.lookups = @ \ {address}]
    /\ UNCHANGED <<wallet, attempt, remembered, closing, loads, forgotten>>

----------------------------------------------------------------------------

Next ==
    \/ \E a \in Attempts :
          \/ \E type \in Types, via \in {"header", "guard", "pairing"} : Choose(a, via, type)
          \/ Probed(a) \/ selectProvider(a) \/ autoReconnect(a) \/ Pair(a) \/ Fail(a)
          \/ \E account \in Accounts : connect(a, account) \/ Approve(a, account)
    \/ Disconnect \/ Clear \/ Expire \/ Effect
    \/ \E address \in roles.lookups, role \in {"user", "verifier", "admin"} : resolveRole(address, role)

Spec == Init /\ [][Next]_walletVars

----------------------------------------------------------------------------
(* Properties *)

\* The address shown is the account of the instance that signs, whichever attempts raced to the store
\* (wallet.ts, selectProvider and autoReconnect; WalletGuard.tsx, handleSelect).
AddressIsProviders == wallet.provider # NoInstance => attempt[wallet.provider].account = wallet.address

\* Who disconnects while nothing is under way stays disconnected over page loads until choosing a wallet
\* (wallet.ts, disconnect and autoReconnect).
ForgottenStaysForgotten == forgotten => wallet = Disconnected /\ remembered.type = None

\* Once the lookups are over a connected user has a role (roleStore.ts, resolveRole and clearRole; Layout.tsx, effect).
RoleNotWithheld ==
    wallet.address # None /\ roles.seen = wallet.address /\ roles.lookups = {} => roles.role # None

\* The session, what the browser remembers of it, and the role that is looked up for it.
SessionSound == AddressIsProviders /\ ForgottenStaysForgotten /\ RoleNotWithheld
=============================================================================
