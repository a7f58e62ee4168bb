---------------------------- MODULE MCPublishing ----------------------------
(* Small instances of Publishing. *)
EXTENDS Publishing

CONSTANTS a1, a2, d1, d2, t1, t2

MCTwoAgents == {a1, a2}
MCDigests == {d1, d2}
MCTabs == {t1, t2}

\* One agent has been imported, as Upload, Number and Insert lead to; the other
\* begins with nothing.
MCInit ==
    /\ versions = [a \in Agents |->
                     IF a = a1 THEN {[number |-> 1, digest |-> d1, revision |-> None]} ELSE {}]
    /\ saved = [a \in Agents |-> <<>>]
    /\ active = [a \in Agents |-> None]
    /\ ledger = [a \in Agents |-> <<>>]
    /\ tab = [t \in Tabs |-> Idle]

MCSpec == MCInit /\ [][Next]_vars
=============================================================================
