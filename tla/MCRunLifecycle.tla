--------------------------- MODULE MCRunLifecycle ---------------------------
(* Small instances of RunLifecycle. *)
EXTENDS RunLifecycle, TLC

CONSTANTS r1, r2, s1

MCRequests  == {r1, r2}
MCOneRequest == {r1}
MCSubscriptions == {s1}
MCEvents == [s \in MCSubscriptions |-> TerminalEvents]
Symmetry == Permutations(MCRequests)
=============================================================================
