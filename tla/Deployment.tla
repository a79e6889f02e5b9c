----------------------------- MODULE Deployment -----------------------------
(***************************************************************************)
(* The deployment script, run again and again over one manifest file while *)
(* the builds move on, calls fail or go unconfirmed, and the process dies. *)
(*                                                                         *)
(* A run loads the manifest, walks the configured contracts in their order *)
(* and writes the manifest once, at its end. A contract whose build hash   *)
(* is the recorded one is skipped; any other is uploaded, created under a  *)
(* fresh address, and initialised with the addresses of its dependencies.  *)
(* The address of an instance is its place in the ledger. A hash is the    *)
(* version of the build it was taken from.                                 *)
(***************************************************************************)
EXTENDS Naturals, Sequences, SequencesExt, FiniteSets

CONSTANTS
    Names,          \* contracts
    DependsOn,      \* name -> names its initial arguments refer to
    Configs,        \* the lists of enabled contracts that a config may hold
    MaxVersion,     \* bound: builds of a contract
    MaxInstances,   \* bound: instances created
    MaxFaults       \* bound: failed calls, unconfirmed transactions and kills

DeploymentAssumption ==
    /\ DependsOn \in [Names -> SUBSET Names]
    /\ Configs \subseteq Seq(Names)
    /\ {MaxVersion, MaxInstances, MaxFaults} \subseteq Nat

VARIABLES
    config,     \* the enabled contracts, in order
    build,      \* name -> version of the compiled artifact
    ledger,     \* the instances created, each with the dependencies it was initialised with
    file,       \* the manifest on disk: name -> [id, version]
    run,        \* the script
    verdict,    \* of the last verification: "none", "ok", "failed" or "unreachable"
    faults      \* failed calls, unconfirmed transactions and kills so far

vars == <<config, build, ledger, file, run, verdict, faults>>

Empty == [n \in {} |-> 0]

Set(f, n, v) == [m \in DOMAIN f \cup {n} |-> IF m = n THEN v ELSE f[m]]

Off == [step |-> "off", at |-> 0, existing |-> Empty, resolved |-> Empty, entries |-> Empty, wasm |-> 0, id |-> 0]

Init ==
    /\ config \in Configs
    /\ build = [n \in Names |-> 1]
    /\ ledger = <<>>
    /\ file = Empty
    /\ run = Off
    /\ verdict = "none"
    /\ faults = 0

----------------------------------------------------------------------------
(* Around the script *)

Rebuild(n) ==
    /\ build[n] < MaxVersion
    /\ build' = [build EXCEPT ![n] = @ + 1]
    /\ UNCHANGED <<config, ledger, file, run, verdict, faults>>

Fault == faults < MaxFaults /\ faults' = faults + 1

\* Kept apart from the disk, nothing of a run survives: a kill, and equally an error that main does not catch.
Die ==
    /\ run.step # "off"
    /\ Fault
    /\ run' = Off
    /\ UNCHANGED <<config, build, ledger, file, verdict>>

----------------------------------------------------------------------------
(* main *)

Ids(manifest) == [n \in DOMAIN manifest |-> manifest[n].id]

\* The entries of a run start from nothing, so that the contracts it skips fall out of the manifest.
Entries_Fresh(manifest) == Empty

Entries(manifest) == manifest

\* Load the manifest; seed the addresses and the entries from it.
Start ==
    /\ run.step = "off"
    /\ Len(ledger) + Len(config) <= MaxInstances
    /\ run' = [Off EXCEPT !.step = "next", !.at = 1, !.existing = file, !.resolved = Ids(file),
                          !.entries = Entries(file)]
    /\ UNCHANGED <<config, build, ledger, file, verdict, faults>>

This == config[run.at]

\* A contract that the manifest names is left alone.
Unchanged_Known == This \in DOMAIN run.existing

Unchanged == This \in DOMAIN run.existing /\ run.existing[This].version = build[This]

Skip ==
    /\ run.step = "next" /\ run.at <= Len(config)
    /\ Unchanged
    /\ run' = [run EXCEPT !.resolved = Set(@, This, run.existing[This].id), !.at = @ + 1]
    /\ UNCHANGED <<config, build, ledger, file, verdict, faults>>

\* The artifact is read once: its bytes are hashed, uploaded and instantiated.
Upload ==
    /\ run.step = "next" /\ run.at <= Len(config)
    /\ ~Unchanged
    /\ run' = [run EXCEPT !.wasm = build[This], !.step = "create"]
    /\ UNCHANGED <<config, build, ledger, file, verdict, faults>>

NewInstance == [name |-> This, version |-> run.wasm, ready |-> FALSE, deps |-> Empty]

Resolve(id) == Set(run.resolved, This, id)

\* The salt is random: every creation has an address of its own.
Create ==
    /\ run.step = "create"
    /\ ledger' = Append(ledger, NewInstance)
    /\ run' = [run EXCEPT !.id = Len(ledger'), !.resolved = Resolve(Len(ledger')), !.step = "initialize"]
    /\ UNCHANGED <<config, build, file, verdict, faults>>

\* waitForTransaction gives up on a creation that lands all the same.
CreateUnconfirmed ==
    /\ run.step = "create"
    /\ Fault
    /\ ledger' = Append(ledger, NewInstance)
    /\ run' = Off
    /\ UNCHANGED <<config, build, file, verdict>>

\* interpolateArgs throws for a dependency without an address.
Interpolable(n) == DependsOn[n] \subseteq DOMAIN run.resolved

Wired == [ledger EXCEPT ![run.id].ready = TRUE,
                        ![run.id].deps = [d \in DependsOn[This] |-> IF d \in DOMAIN run.resolved THEN run.resolved[d] ELSE 0]]

Recorded == [run EXCEPT !.entries = Set(@, This, [id |-> run.id, version |-> run.wasm]),
                        !.at = @ + 1, !.step = "next"]

Initialize ==
    /\ run.step = "initialize"
    /\ Interpolable(This)
    /\ ledger' = Wired
    /\ run' = Recorded
    /\ UNCHANGED <<config, build, file, verdict, faults>>

InitializeUnconfirmed ==
    /\ run.step = "initialize"
    /\ Interpolable(This)
    /\ Fault
    /\ ledger' = Wired
    /\ run' = Off
    /\ UNCHANGED <<config, build, file, verdict>>

\* The failure is logged and the loop goes on.
Unresolved_Continues ==
    /\ run.step = "initialize"
    /\ ~Interpolable(This)
    /\ run' = Recorded
    /\ UNCHANGED <<config, build, ledger, file, verdict, faults>>

Unresolved ==
    /\ run.step = "initialize"
    /\ ~Interpolable(This)
    /\ run' = Off
    /\ UNCHANGED <<config, build, ledger, file, verdict, faults>>

Write ==
    /\ run.step = "next" /\ run.at > Len(config)
    /\ file' = run.entries
    /\ run' = Off
    /\ UNCHANGED <<config, build, ledger, verdict, faults>>

----------------------------------------------------------------------------
(* verify-manifest *)

\* A simulation that fails still shows a contract that exists.
Answers(n) == TRUE

\* Every entry is looked up, then called. A manifest that names none passes.
Verify ==
    /\ verdict' = IF \A n \in DOMAIN file : file[n].id \in DOMAIN ledger /\ Answers(n) THEN "ok" ELSE "failed"
    /\ UNCHANGED <<config, build, ledger, file, run, faults>>

\* A lookup that throws counts as a contract that is not there.
VerifyUnreachable ==
    /\ DOMAIN file # {}
    /\ Fault
    /\ verdict' = "unreachable"
    /\ UNCHANGED <<config, build, ledger, file, run>>

----------------------------------------------------------------------------

Script == Start \/ Skip \/ Upload \/ Create \/ Initialize \/ Unresolved \/ Write

Next ==
    \/ \E n \in Names : Rebuild(n)
    \/ Die
    \/ Script
    \/ CreateUnconfirmed
    \/ InitializeUnconfirmed
    \/ Verify
    \/ VerifyUnreachable

\* The script never waits on anything but its own calls, and a pipeline starts it again for every push.
Fairness == WF_vars(Script)

Spec == Init /\ [][Next]_vars /\ Fairness

----------------------------------------------------------------------------
(* Properties *)

Enabled == Range(config)

\* The manifest names instances that were initialised, each of the contract and of the build it says, whatever
\* failed or died in the runs that led to it (deploy.ts, main).
ManifestServes ==
    \A n \in DOMAIN file :
        /\ file[n].id \in DOMAIN ledger
        /\ LET i == ledger[file[n].id] IN i.name = n /\ i.version = file[n].version /\ i.ready

\* An initialised instance holds the addresses of initialised instances of what it depends on (interpolateArgs).
DependenciesServe ==
    \A k \in DOMAIN ledger :
        \A d \in DOMAIN ledger[k].deps :
            LET id == ledger[k].deps[d] IN id \in DOMAIN ledger /\ ledger[id].name = d /\ ledger[id].ready

\* A contract of the manifest that holds another address of a dependency than the manifest does is older than that
\* dependency: nothing is ever created against an address that its own run replaced (deploy.ts, resolvedIds).
OutdatedMeansOlder ==
    \A n \in DOMAIN file :
        \A d \in DependsOn[n] \cap DOMAIN file :
            ledger[file[n].id].deps[d] = file[d].id \/ file[d].id > file[n].id

\* A manifest forgets no contract, and a contract moves only with a new build (deploy.ts, change detection).
OnlyChangesMove ==
    [][\A n \in DOMAIN file :
          n \in DOMAIN file' /\ (file'[n].id # file[n].id => file'[n].version # file[n].version)]_file

\* Verification complains about no manifest that the script wrote (verify-manifest.ts, verifyManifest).
NoFalseAlarm == verdict # "failed"

Ordered == \A k \in DOMAIN config : DependsOn[config[k]] \subseteq {config[j] : j \in 1..(k - 1)}

\* Once the builds rest and nothing fails any more, the manifest of an ordered config agrees with them for good
\* (deploy.ts, main).
CatchesUp == Ordered => <>[](\A n \in Enabled : n \in DOMAIN file /\ file[n].version = build[n])

\* What a manifest names can be used, as it says, with all it depends on.
ManifestSound == ManifestServes /\ DependenciesServe /\ OutdatedMeansOlder /\ NoFalseAlarm
=============================================================================
