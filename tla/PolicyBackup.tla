---------------------------- MODULE PolicyBackup ----------------------------
(***************************************************************************)
(* Backing up and restoring the policy of a compliance engine: snapshots,  *)
(* whose reads are answered one by one and may fail, files and presets,    *)
(* and the calls that write a configuration one after the other, which may *)
(* be refused, lost or late while another administrator writes.            *)
(*                                                                         *)
(* The policy is the rules, here their transfer limit, an amount for each  *)
(* pair of tiers that has a policy, and the risk configuration. What a     *)
(* file may hold in place of an amount is told apart by what the checks of *)
(* it do. The page's own Apply converts and announces, and writes nothing. *)
(***************************************************************************)
EXTENDS Naturals, Sequences

CONSTANTS
    Grid,       \* the pairs of tiers that policySnapshot reads, in order
    Wildcard,   \* the pair with a wildcard tier on both sides, which it does not read
    Files,      \* contents of the files that may be picked
    MAX_SNAPSHOTS,
    MaxActions  \* bound: snapshots, imports, applications and writes of others

VARIABLES
    engine,     \* rules, policies, risk
    saved,      \* the browser's snapshots, newest first
    capture,    \* the snapshot being taken: what its reads returned
    imported,   \* the configuration in the preview
    apply,      \* the configuration being written, and how far it is
    alone,      \* history: nobody else wrote since apply began
    actions     \* the bound's counter

backupVars == <<engine, saved, capture, imported, apply, alone, actions>>

None == "none"

\* Amounts: "empty" is the empty string, "bare" a JSON number, "text" no number at all.
Numbers == {"zero", "one", "two"}

Sampled == {Grid[i] : i \in DOMAIN Grid}

Pairs == Sampled \cup {Wildcard}

Entry(p, amount) == [pair |-> p, amount |-> amount]

\* Basic, institutional (every pair asks for tier 2) and restricted (the last pair is blocked).
POLICY_TEMPLATES ==
    {[rules |-> "zero", policies |-> <<>>, risk |-> None],
     [rules |-> "zero", policies |-> <<Entry(Wildcard, "zero")>>, risk |-> "two"],
     [rules |-> "two", policies |-> <<Entry(Grid[Len(Grid)], "zero")>>, risk |-> "one"]}

NoConfig == [rules |-> None, policies |-> <<>>, risk |-> None]
NoPolicy == [rules |-> "zero", policies |-> [p \in Pairs |-> None], risk |-> None]
Untaken == [on |-> FALSE, got |-> [q \in {} |-> None], was |-> NoPolicy, clean |-> FALSE]
Unapplied == [phase |-> "idle", config |-> NoConfig, step |-> 0, landed |-> FALSE, base |-> NoPolicy]

Init ==
    /\ engine = NoPolicy
    /\ saved = <<>>
    /\ capture = Untaken
    /\ imported = NoConfig
    /\ apply = Unapplied
    /\ alone = FALSE
    /\ actions = 0

Act == actions < MaxActions /\ actions' = actions + 1

----------------------------------------------------------------------------
(* Snapshots *)

handleTakeSnapshot ==
    /\ ~capture.on
    /\ Act
    /\ capture' = [Untaken EXCEPT !.on = TRUE, !.was = engine, !.clean = TRUE]
    /\ UNCHANGED <<engine, saved, imported, apply, alone>>

\* safeCall: a read that fails is answered like one that finds nothing.
policySnapshot(q, failed) ==
    /\ capture.on /\ q \notin DOMAIN capture.got
    /\ capture' = [capture EXCEPT
          !.got = [r \in DOMAIN @ \cup {q} |->
                     IF r # q THEN @[r] ELSE IF failed THEN None ELSE IF q \in Sampled THEN engine.policies[q] ELSE engine[q]],
          !.clean = @ /\ ~failed]
    /\ UNCHANGED <<engine, saved, imported, apply, alone, actions>>

\* The amounts are taken by place before the filter.
exportConfig_Misplaced(got) ==
    LET Held(p) == got[p] # None
        kept == SelectSeq(Grid, Held)
    IN  [rules |-> got["rules"], risk |-> got["risk"], policies |-> [i \in DOMAIN kept |-> Entry(kept[i], got[Grid[i]])]]

\* The pairs that have a policy, in order.
Kept(got) ==
    LET kept[n \in 0..Len(Grid)] ==
          IF n = 0 THEN <<>>
          ELSE IF got[Grid[n]] = None THEN kept[n - 1]
          ELSE Append(kept[n - 1], Entry(Grid[n], got[Grid[n]]))
    IN  kept[Len(Grid)]

exportConfig(got) == [rules |-> got["rules"], risk |-> got["risk"], policies |-> Kept(got)]

\* Without the rules the snapshot fails; the oldest one gives way.
addSnapshot ==
    /\ capture.on /\ DOMAIN capture.got = {"rules", "risk"} \cup Sampled
    /\ LET snapshot == [config |-> exportConfig(capture.got), was |-> capture.was, clean |-> capture.clean]
           kept == IF Len(saved) < MAX_SNAPSHOTS THEN saved ELSE SubSeq(saved, 1, MAX_SNAPSHOTS - 1)
       IN  saved' = IF capture.got["rules"] = None THEN saved ELSE <<snapshot>> \o kept
    /\ capture' = Untaken
    /\ UNCHANGED <<engine, imported, apply, alone, actions>>

removeSnapshot(i) ==
    /\ i \in DOMAIN saved
    /\ saved' = [j \in 1..(Len(saved) - 1) |-> saved[IF j < i THEN j ELSE j + 1]]
    /\ UNCHANGED <<engine, capture, imported, apply, alone, actions>>

handleRestoreSnapshot(i) ==
    /\ i \in DOMAIN saved
    /\ Act
    /\ imported' = saved[i].config
    /\ UNCHANGED <<engine, saved, capture, apply, alone>>

----------------------------------------------------------------------------
(* Files *)

\* The rules' fields only have to be there.
Parsed(file) == file.rules # None /\ \A i \in DOMAIN file.policies : file.policies[i].amount \in Numbers \cup {"negative"}

\* A file that is refused leaves no preview.
handleFileChange(file) ==
    /\ Act
    /\ imported' = IF Parsed(file) THEN file ELSE NoConfig
    /\ UNCHANGED <<engine, saved, capture, apply, alone>>

\* What BigInt takes and is not negative; the empty string is zero to it.
ValidAmount(amount) == amount \in Numbers \cup {"empty", "bare"}

validateConfigForApply(config) ==
    /\ ValidAmount(config.rules)
    /\ \A i \in DOMAIN config.policies : config.policies[i].amount # "negative"
    /\ config.risk # "over100"

\* configToRules and configToTierPolicies, which throw on the others.
RulesConvert(config) == config.rules \in Numbers

PoliciesConvert(config) == \A i \in DOMAIN config.policies : config.policies[i].amount # "text"

----------------------------------------------------------------------------
(* Writing a configuration *)

\* setRules, then setTierPolicy for each entry, then setRiskConfig if there is one.
Writes(config) ==
    <<[what |-> "rules", value |-> config.rules]>>
      \o [i \in DOMAIN config.policies |-> [what |-> config.policies[i].pair, value |-> config.policies[i].amount]]
      \o IF config.risk = None THEN <<>> ELSE <<[what |-> "risk", value |-> config.risk]>>

Written(policy, w) ==
    CASE w.what = "rules" -> [policy EXCEPT !.rules = w.value]
      [] w.what = "risk" -> [policy EXCEPT !.risk = w.value]
      [] OTHER -> [policy EXCEPT !.policies[w.what] = w.value]

\* Called for a preset, and for an import whose errors the caller looked at first.
applyComplianceConfig(config) ==
    /\ apply.phase # "sent"
    /\ config \in POLICY_TEMPLATES \/ (config = imported /\ imported # NoConfig /\ validateConfigForApply(config))
    /\ Act
    /\ apply' = [Unapplied EXCEPT !.phase = IF RulesConvert(config) THEN "sent" ELSE "threw", !.config = config, !.step = 1, !.base = engine]
    /\ alone' = TRUE
    /\ UNCHANGED <<engine, saved, capture, imported>>

\* A call whose answer is lost may still land.
Land ==
    /\ apply.phase \in {"sent", "lost"} /\ ~apply.landed
    /\ Writes(apply.config)[apply.step].value # "negative"
    /\ engine' = Written(engine, Writes(apply.config)[apply.step])
    /\ apply' = [apply EXCEPT !.landed = TRUE]
    /\ capture' = [capture EXCEPT !.clean = FALSE]
    /\ UNCHANGED <<saved, imported, alone, actions>>

\* The entries are converted once the rules are written.
Onwards ==
    IF apply.step = 1 /\ ~PoliciesConvert(apply.config) THEN [apply EXCEPT !.phase = "threw"]
    ELSE IF apply.step = Len(Writes(apply.config)) THEN [apply EXCEPT !.phase = "done"]
    ELSE [apply EXCEPT !.step = @ + 1, !.landed = FALSE]

Answered ==
    /\ apply.phase = "sent" /\ apply.landed
    /\ apply' = Onwards
    /\ UNCHANGED <<engine, saved, capture, imported, alone, actions>>

Stopped(lost) == [apply EXCEPT !.phase = IF lost THEN "lost" ELSE "refused"]

Unanswered(lost) ==
    /\ apply.phase = "sent"
    /\ ~lost => ~apply.landed
    /\ apply' = Stopped(lost)
    /\ UNCHANGED <<engine, saved, capture, imported, alone, actions>>

\* Another administrator writes, or removes the policy of a pair.
Other(w) ==
    /\ Act
    /\ engine' = Written(engine, w)
    /\ engine' # engine
    /\ alone' = FALSE
    /\ capture' = [capture EXCEPT !.clean = FALSE]
    /\ UNCHANGED <<saved, imported, apply>>

----------------------------------------------------------------------------

Next ==
    \/ handleTakeSnapshot \/ addSnapshot
    \/ \E q \in {"rules", "risk"} \cup Sampled, failed \in BOOLEAN : policySnapshot(q, failed)
    \/ \E i \in DOMAIN saved : removeSnapshot(i) \/ handleRestoreSnapshot(i)
    \/ \E file \in Files : handleFileChange(file)
    \/ \E config \in POLICY_TEMPLATES \cup {imported} : applyComplianceConfig(config)
    \/ Land \/ Answered
    \/ \E lost \in BOOLEAN : Unanswered(lost)
    \/ \E w \in [what : Pairs, value : {None, "two"}] : Other(w)

Spec == Init /\ [][Next]_backupVars

----------------------------------------------------------------------------
(* Properties *)

Overlay[k \in 0..Len(Writes(apply.config))] ==
    IF k = 0 THEN apply.base ELSE Written(Overlay[k - 1], Writes(apply.config)[k])

\* What the calls so far make of the policy, the one under way landed or not.
APrefix == engine = Overlay[IF apply.landed THEN apply.step ELSE apply.step - 1]

\* However the writing of a configuration ends, and nobody else writing meanwhile, the engine holds the first of its
\* writes and nothing of the rest; one that its own conversions stop has written nothing (complianceConfig.ts,
\* applyComplianceConfig with parseConfigJson and validateConfigForApply).
StopsCleanly ==
    /\ alone /\ apply.phase \notin {"idle", "threw"} => APrefix
    /\ alone /\ apply.phase = "threw" => engine = apply.base

Agrees(config, policy) ==
    /\ config.rules = policy.rules /\ config.risk = policy.risk
    /\ \A p \in Sampled : policy.policies[p] # None <=> \E i \in DOMAIN config.policies : config.policies[i] = Entry(p, policy.policies[p])

\* A snapshot whose reads were all answered while nobody wrote agrees with the engine on the pairs it reads
\* (readApi.ts, policySnapshot; complianceConfig.ts, exportConfig).
SnapshotExact == \A i \in DOMAIN saved : saved[i].clean => Agrees(saved[i].config, saved[i].was)

\* What a snapshot took and what a restoration leaves.
BackupSound == SnapshotExact /\ StopsCleanly
=============================================================================
