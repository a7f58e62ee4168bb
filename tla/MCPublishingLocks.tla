-------------------------- MODULE MCPublishingLocks --------------------------
(* The small instance of Publishing, and what its transactions lock: in the  *)
(* one story they write, in the other they wait.                             *)
EXTENDS MCPublishing, TLC

CONSTANT t3

\* Each tab has a request at the server, and one more comes from elsewhere.
MCTransactions == MCTabs \cup {t3}
MCSymmetry == Permutations(MCTabs)

VARIABLES story, rows, tx
L == INSTANCE PublishingLocks WITH Transactions <- MCTransactions

\* Whatever is published, rolled back, activated, imported and saved at one
\* time, no transactions wait for each other in a circle.
NoCircle == L!NoCircle

MCBothNext ==
    \/ story = "writes" /\ Next /\ UNCHANGED <<story, rows, tx>>
    \/ story = "waits" /\ L!Next /\ UNCHANGED <<story, vars>>

MCBothInit == MCInit /\ L!Init /\ story \in {"writes", "waits"}
MCBothSpec == MCBothInit /\ [][MCBothNext]_<<vars, story, rows, tx>>
=============================================================================
