--------------------------- MODULE MCPublicStream ---------------------------
EXTENDS PublicStream

CONSTANTS r1, s1

OneRequest == {r1}
OneSubscription == {s1}
EveryOutcome == [s \in OneSubscription |-> TerminalEvents]
SomeProgress == {"tool.requested"}
=============================================================================
