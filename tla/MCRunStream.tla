---------------------------- MODULE MCRunStream -----------------------------
EXTENDS RunStream

CONSTANT r1

OneRequest == {r1}
NoEvents == [s \in {} |-> TerminalEvents]
SomeProgress == {"tool.requested"}
=============================================================================
