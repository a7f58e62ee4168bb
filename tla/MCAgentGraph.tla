---------------------------- MODULE MCAgentGraph ----------------------------
(* The agent of the repository's examples, and what two edits make of it.    *)
EXTENDS AgentGraph

Node(id, kind, in, out) ==
    [id |-> id, kind |-> kind, in |-> in, out |-> out,
     profile |-> IF kind = "model" THEN "profile" ELSE "absent",
     tool |-> IF kind = "tool" THEN "calculator" ELSE "absent"]
Edge(id, source, target) == [id |-> id, source |-> source, out |-> "p", target |-> target, in |-> "p"]

Calculator ==
    [agent_id |-> "own",
     nodes |-> <<Node(1, "input", <<>>, <<"p">>),
                 Node(2, "model", <<"p">>, <<"p">>),
                 Node(3, "tool", <<"p">>, <<"p">>),
                 Node(4, "output", <<"p">>, <<>>)>>,
     edges |-> <<Edge(1, 1, 2), Edge(2, 2, 3), Edge(3, 3, 4)>>,
     profiles |-> {"profile"}, tools |-> {"calculator"}, layout |-> <<1, 2, 3, 4>>]

\* The same with an edge back, of its output and of its tool.
Loops == {[Calculator EXCEPT !.nodes[1].in = <<"p">>, !.nodes[4].out = <<"p">>,
                             !.edges = Append(@, Edge(4, n, 1))] : n \in {3, 4}}

MCAgents == {Calculator} \cup Loops
=============================================================================
