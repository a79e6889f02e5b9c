----------------------------- MODULE AdminDesk -----------------------------
(***************************************************************************)
(* The admin page, open at several administrators: the rules form, the     *)
(* confirmation dialog, the emergency switch and the queued rule change,   *)
(* against one engine whose calls are lost, refused or answered late.      *)
(*                                                                         *)
(* Rules are a limit and the pause flag: the flag is a field of the form   *)
(* that only a fetch fills in. The page and the engine's answers are       *)
(* modelled; the engine's own rules are those of ComplianceEngine.         *)
(***************************************************************************)
EXTENDS Naturals, FiniteSets

CONSTANTS
    Admins,     \* browsers, one administrator each
    Calls,      \* 1..n, the actions confirmed, numbered as they are: a bound
    Limits,     \* values of the transfer limit
    MaxReloads  \* bound: page loads

VARIABLES
    engine,     \* rules, queued rules (None when there are none)
    desk,       \* per browser: form, isPaused, pendingRules, dialog, proposeMode and whether the page was reloaded
    calls,      \* the actions confirmed
    registry,   \* per browser: types of the actions in localStorage "pending_admin_actions"
    log,        \* calls with an entry in the governance log
    spoiled,    \* history: a dialog was opened during a call, a call was not answered, or a fetch failed
    loads       \* page loads so far

deskVars == <<engine, desk, calls, registry, log, spoiled, loads>>

None == "none"
NoRules == [limit |-> 0, paused |-> FALSE]
NoQueue == [queued |-> FALSE, rules |-> NoRules]

\* The page as the fetches at load leave it.
Loaded == [form |-> engine.rules, isPaused |-> engine.rules.paused, pending |-> engine.pending.queued,
           dialog |-> None, rules |-> NoRules]

\* DEFAULT_RULES, when they fail.
Blank == [form |-> NoRules, isPaused |-> FALSE, pending |-> FALSE, dialog |-> None, rules |-> NoRules]

Free == [admin |-> None, kind |-> None, rules |-> NoRules, phase |-> "free", landed |-> FALSE, got |-> NoRules]

Init ==
    /\ engine = [rules |-> NoRules, pending |-> NoQueue]
    /\ desk = [o \in Admins |-> Blank]
    /\ calls = [c \in Calls |-> Free]
    /\ registry = [o \in Admins |-> {}]
    /\ log = {}
    /\ spoiled = FALSE
    /\ loads = 0

\* What is left of a call that is over.
Ended(c) == [Free EXCEPT !.admin = calls[c].admin, !.phase = "done", !.landed = calls[c].landed]

Running(c) == calls[c].phase \in {"sent", "fetch", "served"}

Of(o) == {c \in Calls : Running(c) /\ calls[c].admin = o}

Fetching(o) == \E c \in Of(o) : calls[c].phase \in {"fetch", "served"}

Switching(o) == \E c \in Of(o) : calls[c].kind \in {"pause", "unpause"}

Activating(o) == \E c \in Of(o) : calls[c].kind = "activate"

----------------------------------------------------------------------------
(* The page *)

\* Bound: the form and the dialogs are used while there is a call left to make.
CallLeft == \E c \in Calls : calls[c] = Free

Edit(o, limit) ==
    /\ CallLeft
    /\ ~Fetching(o) /\ desk[o].dialog = None
    /\ desk' = [desk EXCEPT ![o].form.limit = limit]
    /\ UNCHANGED <<engine, calls, registry, log, spoiled, loads>>

\* Which dialogs the page offers.
Offered(o, kind) ==
    CASE kind \in {"save", "propose"} -> ~Fetching(o)
      [] kind = "activate" -> desk[o].pending /\ ~Activating(o)
      [] kind = "pause" -> ~desk[o].isPaused /\ ~Switching(o)
      [] kind = "unpause" -> desk[o].isPaused /\ ~Switching(o)

\* The dialog holds the form as it is now.
Open(o, kind) ==
    /\ CallLeft
    /\ desk[o].dialog = None
    /\ Offered(o, kind)
    /\ desk' = [desk EXCEPT ![o].dialog = kind, ![o].rules = desk[o].form]
    /\ spoiled' = (spoiled \/ \E c \in Calls : Running(c))
    /\ UNCHANGED <<engine, calls, registry, log, loads>>

Cancel(o) ==
    /\ desk[o].dialog # None
    /\ desk' = [desk EXCEPT ![o].dialog = None, ![o].rules = NoRules]
    /\ UNCHANGED <<engine, calls, registry, log, spoiled, loads>>

Registered(o, kind) == IF kind \in {"pause", "unpause"} THEN registry[o] \cup {kind} ELSE registry[o]

Logged(c, kind) == log

Confirm(o, c) ==
    /\ desk[o].dialog # None
    /\ calls[c] = Free /\ \A d \in 1..(c - 1) : calls[d] # Free
    /\ calls' = [calls EXCEPT ![c] = [Free EXCEPT !.admin = o, !.kind = desk[o].dialog, !.rules = desk[o].rules, !.phase = "sent"]]
    /\ registry' = [registry EXCEPT ![o] = Registered(o, desk[o].dialog)]
    /\ log' = Logged(c, desk[o].dialog)
    /\ desk' = [desk EXCEPT ![o].dialog = None, ![o].rules = NoRules]
    /\ UNCHANGED <<engine, spoiled, loads>>

\* A page load ends what the page was doing; what was sent may still land.
Reload(o, fetched) ==
    /\ loads < MaxReloads
    /\ loads' = loads + 1
    /\ calls' = [c \in Calls |-> IF c \notin Of(o) THEN calls[c]
                            ELSE IF calls[c].phase = "sent" THEN [calls[c] EXCEPT !.phase = "unheard"] ELSE Ended(c)]
    /\ desk' = [desk EXCEPT ![o] = IF fetched THEN Loaded ELSE Blank]
    /\ spoiled' = TRUE
    /\ UNCHANGED <<engine, registry, log>>

----------------------------------------------------------------------------
(* The engine *)

Effect(c) ==
    CASE calls[c].kind = "save" -> [engine EXCEPT !.rules = calls[c].rules]
      [] calls[c].kind = "propose" -> [engine EXCEPT !.pending = [queued |-> TRUE, rules |-> calls[c].rules]]
      [] calls[c].kind = "activate" -> [rules |-> engine.pending.rules, pending |-> NoQueue]
      [] calls[c].kind = "pause" -> [engine EXCEPT !.rules.paused = TRUE]
      [] calls[c].kind = "unpause" -> [engine EXCEPT !.rules.paused = FALSE]

Land(c) ==
    /\ calls[c].phase \in {"sent", "unheard"} /\ ~calls[c].landed
    /\ calls[c].kind = "activate" => engine.pending.queued
    /\ engine' = Effect(c)
    /\ calls' = [calls EXCEPT ![c].landed = TRUE]
    /\ UNCHANGED <<desk, registry, log, spoiled, loads>>

----------------------------------------------------------------------------
(* Answers *)

\* Every entry of the type goes.
resolveAction(c, answered) == [registry EXCEPT ![calls[c].admin] = @ \ {calls[c].kind}]

Recorded(c) == IF calls[c].kind = "activate" THEN log ELSE log \cup {c}

\* Pausing relies on its own flag.
Refetches_Unpaused(kind) == kind \in {"save", "activate", "unpause"}

\* The calls that are followed by a fetch of the rules.
Refetches(kind) == kind \in {"save", "activate", "pause", "unpause"}

\* What the page sets before it fetches.
Shown(o, kind) == [desk EXCEPT ![o].isPaused = IF kind \in {"pause", "unpause"} THEN kind = "pause" ELSE @,
                               ![o].pending = IF kind = "activate" THEN FALSE ELSE IF kind = "propose" THEN engine.pending.queued ELSE @]

Answered(c) ==
    /\ calls[c].phase = "sent" /\ calls[c].landed
    /\ calls' = [calls EXCEPT ![c] = IF Refetches(calls[c].kind) THEN [@ EXCEPT !.phase = "fetch"] ELSE Ended(c)]
    /\ registry' = resolveAction(c, TRUE)
    /\ log' = Recorded(c)
    /\ desk' = Shown(calls[c].admin, calls[c].kind)
    /\ UNCHANGED <<engine, spoiled, loads>>

\* The call is refused, or its answer is lost and it may land later or have landed.
Unanswered(c, refused) ==
    /\ calls[c].phase = "sent"
    /\ refused => ~calls[c].landed
    /\ calls' = [calls EXCEPT ![c] = IF refused THEN Ended(c) ELSE [@ EXCEPT !.phase = "unheard"]]
    /\ registry' = resolveAction(c, FALSE)
    /\ spoiled' = (spoiled \/ ~refused)
    /\ UNCHANGED <<engine, desk, log, loads>>

Serve(c) ==
    /\ calls[c].phase = "fetch"
    /\ calls' = [calls EXCEPT ![c].phase = "served", ![c].got = engine.rules]
    /\ UNCHANGED <<engine, desk, registry, log, spoiled, loads>>

\* The fetched rules replace the form, edited or not.
fetchRules(c) ==
    /\ calls[c].phase = "served"
    /\ desk' = [desk EXCEPT ![calls[c].admin].form = calls[c].got, ![calls[c].admin].isPaused = calls[c].got.paused]
    /\ calls' = [calls EXCEPT ![c] = Ended(c)]
    /\ UNCHANGED <<engine, registry, log, spoiled, loads>>

FetchFails(c) ==
    /\ calls[c].phase = "fetch"
    /\ calls' = [calls EXCEPT ![c] = Ended(c)]
    /\ spoiled' = TRUE
    /\ UNCHANGED <<engine, desk, registry, log, loads>>

----------------------------------------------------------------------------

Next ==
    \/ \E o \in Admins :
          \/ \E limit \in Limits : Edit(o, limit)
          \/ \E kind \in {"save", "propose", "activate", "pause", "unpause"} : Open(o, kind)
          \/ Cancel(o)
          \/ \E c \in Calls : Confirm(o, c)
          \/ \E fetched \in BOOLEAN : Reload(o, fetched)
    \/ \E c \in Calls :
          \/ Land(c) \/ Answered(c) \/ Serve(c) \/ fetchRules(c) \/ FetchFails(c)
          \/ \E refused \in BOOLEAN : Unanswered(c, refused)

Spec == Init /\ [][Next]_deskVars

----------------------------------------------------------------------------
(* Properties *)

\* The governance log holds only what the engine did, whatever was refused, lost or interrupted
\* (GovernanceLog.tsx, recordGovernanceAction "Call this after a confirmed on-chain action").
LogIsTrue == \A c \in log : calls[c].landed

\* No action stays registered as in flight once the calls of a page that was never reloaded are over
\* (conflictDetection.ts, resolveAction; AdminPage.tsx, pauseAction and unpauseAction).
NothingLeftInFlight == loads = 0 => \A o \in Admins : registry[o] # {} => Switching(o)

Alone == \E o \in Admins : \A c \in Calls : calls[c] = Free \/ calls[c].admin = o

LandsNow(kind) == \E c \in Calls : calls'[c].landed /\ ~calls[c].landed /\ calls[c].kind = kind

\* A save by the only administrator at work never ends a pause, as long as the calls were answered, one
\* after the other, and the fetches succeeded (AdminPage.tsx, saveRulesAction and the fetch that follows pause).
SaveKeepsPause == [][engine.rules.paused /\ ~engine'.rules.paused /\ Alone /\ ~spoiled => ~LandsNow("save")]_<<engine, calls>>

\* What a browser keeps about the calls of its administrator, and what these do to a pause.
DeskSound == [](LogIsTrue /\ NothingLeftInFlight) /\ SaveKeepsPause
=============================================================================
