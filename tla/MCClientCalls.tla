---------------------------- MODULE MCClientCalls ----------------------------
(* Instances of ClientCalls for TLC. *)
EXTENDS ClientCalls, TLC

EveryMethod(f, k) == {<<f, k, m>> : m \in Methods(Families[f][k])}

Kyc(ms) == {<<"sdk", "kyc", m>> : m \in ms}

App(ms) == {<<"web", "app", m>> : m \in ms}

\* Officers and a rival who takes the office away, beside a caller whose address is malformed; two who claim for the
\* same holder; and, client by client, one who tries every method of it.
MCMenus ==
    {"alice" :> Kyc({"approve", "revoke", "update_tier", "add_verifier", "remove_admin"}) \cup App({"holder"})
     @@ "bob" :> (Kyc({"remove_verifier", "add_admin"}) \cup {<<"web", "kyc", "remove_verifier">>})
     @@ "mallory" :> Kyc({"approve"}),
     "alice" :> App({"claim", "evaluate"})
     @@ "bob" :> (App({"claim"}) \cup {<<"sdk", "compliance", "pause">>})
     @@ "mallory" :> {}}
    \cup {"alice" :> EveryMethod(f, k) @@ "bob" :> {} @@ "mallory" :> {} : f \in DOMAIN Families, k \in Contracts}
==============================================================================
