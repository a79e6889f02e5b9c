---------------------------- MODULE AddressList ----------------------------
(***************************************************************************)
(* The address lists of the compliance engine (contracts/compliance-engine)*)
(* as values: one persistent entry per listed address, a numbered member   *)
(* slot for each, and a size, which the contract keeps in agreement by     *)
(* hand.  Blocklist and allowlist are both such lists; schema v1 kept each *)
(* as one vector, which migrate_schema(2) turns into entries and slots.    *)
(***************************************************************************)
EXTENDS Integers, Sequences

EmptyList == [entry |-> {}, member |-> [i \in {} |-> i], size |-> 0]

\* A new entry takes the slot after the last.
Added(list, addr) ==
    [entry  |-> list.entry \cup {addr},
     member |-> [i \in DOMAIN list.member \cup {list.size} |->
                   IF i = list.size THEN addr ELSE list.member[i]],
     size   |-> list.size + 1]

Positions(list, addr) == {i \in 0..(list.size - 1) : list.member[i] = addr}

\* The last member moves into the freed slot; an address found in no slot loses
\* its entry only.
Removed(list, addr) ==
    IF Positions(list, addr) = {}
    THEN [list EXCEPT !.entry = @ \ {addr}]
    ELSE LET pos  == CHOOSE i \in Positions(list, addr) :
                        \A j \in Positions(list, addr) : i <= j
             last == list.size - 1
         IN  [entry  |-> list.entry \ {addr},
              member |-> [i \in DOMAIN list.member \ {last} |->
                            IF i = pos THEN list.member[last] ELSE list.member[i]],
              size   |-> last]

Migrated_SkipsLast(list, old) ==
    LET upTo[i \in 0..Len(old)] ==
          IF i = 0 THEN list
          ELSE IF i = Len(old) \/ old[i] \in upTo[i - 1].entry THEN upTo[i - 1]
          ELSE Added(upTo[i - 1], old[i])
    IN  upTo[Len(old)]

\* apply_v2_migration: the old vector is appended, address by address, to what
\* was listed since the upgrade; addresses that have an entry are skipped.
Migrated(list, old) ==
    LET upTo[i \in 0..Len(old)] ==
          IF i = 0 THEN list
          ELSE IF old[i] \in upTo[i - 1].entry THEN upTo[i - 1]
          ELSE Added(upTo[i - 1], old[i])
    IN  upTo[Len(old)]

\* The slots 0..size-1 are filled, no others, and they hold every listed address
\* once: pages of get_blocklist show exactly the addresses that are enforced,
\* and the scan of a removal finds its address and never meets an empty slot.
ListSound(list) ==
    /\ DOMAIN list.member = 0..(list.size - 1)
    /\ \A i, j \in DOMAIN list.member : list.member[i] = list.member[j] => i = j
    /\ list.entry = {list.member[i] : i \in DOMAIN list.member}
=============================================================================
