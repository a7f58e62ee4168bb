---------------------------- MODULE MCPublicRuns -----------------------------
(* Small instances of PublicRuns. *)
EXTENDS PublicRuns

CONSTANTS a1, a2, a3, k1, k2, k3, k4

\* a1 and a2 have one name in two projects, a1 and a3 share a project.
MCAgents == {a1, a2, a3}
MCAgentKey == [a \in MCAgents |-> IF a = a3 THEN "other" ELSE "name"]
MCProject == [a \in MCAgents |-> IF a = a2 THEN "q" ELSE "p"]

\* k1 may create and read and expires, k2 is of the other project's agent, k3
\* may only read, k4 only create.
MCKeys == {k1, k2, k3, k4}
MCKeyAgent == [k \in MCKeys |-> CASE k \in {k1, k4} -> a1 [] k = k2 -> a2 [] k = k3 -> a3]
MCKeyScopes == [k \in MCKeys |-> CASE k \in {k1, k2} -> {"runs:create", "runs:read"}
                                   [] k = k3 -> {"runs:read"}
                                   [] k = k4 -> {"runs:create"}]
MCKeyLife == [k \in MCKeys |-> IF k = k1 THEN 1 ELSE 0]

MCBuckets == {"create", "invoke"}
MCCalls == 1 .. 2
MCMaxVersions == [a \in MCAgents |-> CASE a = a1 -> 3 [] a = a2 -> 1 [] a = a3 -> 0]
MCRefuses == {<<3, "other">>}

Request(kind, path, bearer, idem, input, of) ==
    [kind |-> kind, path |-> path, bearer |-> bearer, idem |-> idem,
     input |-> input, of |-> of]

\* What is created: by a holder of a key, with one idempotency key, and by
\* visitors.
Creations ==
    {Request("create", "name", k1, "i", "input", NoOne),
     Request("invoke", "name", k1, "i", "input", NoOne),
     Request("invoke", "name", NoOne, "none", "input", NoOne)}

\* What is refused, now or later: another input, no idempotency key, no scope to
\* read, a key of another project, a name that is not published.
Refusals ==
    {Request("create", "name", k1, "i", "other", NoOne),
     Request("create", "name", k1, "none", "input", NoOne),
     Request("create", "name", k2, "i", "input", NoOne),
     Request("invoke", "name", k4, "i", "input", NoOne),
     Request("agent", "other", NoOne, "none", "none", NoOne)}

\* What is read: with a key, with a key of another agent of the project, and
\* with a capability.
Reads ==
    {Request("run", "name", k1, "none", "none", 1),
     Request("run", "other", k3, "none", "none", 1),
     Request("events", "name", 1, "none", "none", 1)}

MCRequests ==
    [c \in MCCalls |-> IF c = 1 THEN {q \in Creations : q.kind = "create" \/ q.bearer = NoOne}
                                ELSE Creations \cup Refusals \cup Reads]

\* The clients come when a1 has been published twice, as Publish and CreateKey
\* lead to.
MCInit ==
    /\ GuardInit
    /\ traffic = [a \in MCAgents |-> IF a = a1 THEN 2 ELSE 0]
    /\ latest = traffic
    /\ ledger = {a1}
    /\ moves = 0
    /\ keys = [k \in MCKeys |-> IF k = k3 THEN [state |-> "none", until |-> 0]
                                         ELSE [state |-> "live", until |-> KeyLife[k]]]
    /\ runs = <<>>
    /\ requests = {}
    /\ calls = [c \in MCCalls |-> NoCall]

MCSpec == MCInit /\ [][Next]_vars /\ Fairness
=============================================================================
