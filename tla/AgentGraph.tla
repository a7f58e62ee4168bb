----------------------------- MODULE AgentGraph -----------------------------
(***************************************************************************)
(* What is checked of an AgentSpec on its way from the draft to a run, in  *)
(* three places that know nothing of each other: the studio's API when a   *)
(* draft is saved (draft_service.py), the contract's validation            *)
(* (contracts/validation.py), and the kernel, which validates once more    *)
(* and walks the graph (execution/graph.py).  The schema's own rules hold  *)
(* of every AgentSpec here: each node has an id, ports, and a reference to *)
(* a model profile or a tool where its kind asks for one.                  *)
(***************************************************************************)
EXTENDS Integers, Sequences, FiniteSets

CONSTANTS
    Agents,         \* AgentSpecs with their layouts
    Ids, Ports, Kinds,  \* what an edit can put in
    Names,          \* of model profiles and tools
    AgentIds,       \* what a spec can give as its agent's id
    DraftId,        \* the id of the agent whose draft is saved
    MaxChanges      \* bound: edits before the draft is saved

\* What the schema says of an AgentSpec: a reference that is not there is
\* "absent", and a model has its profile and a tool its manifest.  That there
\* is a node at all is left out: nothing rests on it.
NodeKinds == {"input", "model", "tool", "output"}
NodeRecords ==
    {n \in [id : Ids, kind : NodeKinds, in : Seq(Ports), out : Seq(Ports),
            profile : Names, tool : Names] :
        /\ n.kind = "model" => n.profile # "absent"
        /\ n.kind = "tool" => n.tool # "absent"}
EdgeRecords == [id : Ids \cup {0}, source : Ids, out : Ports, target : Ids, in : Ports]
AgentSpecs ==
    [agent_id : AgentIds, nodes : Seq(NodeRecords), edges : Seq(EdgeRecords),
     profiles : SUBSET Names, tools : SUBSET Names, layout : Seq(Ids)]

ASSUME KindsAssumption == Kinds \subseteq NodeKinds
ASSUME AgentsAssumption ==
    /\ Agents \subseteq AgentSpecs
    /\ {"absent", "profile", "calculator"} \subseteq Names

VARIABLES
    agent,          \* the AgentSpec, with its layout
    changes,        \* how often it was edited
    at,             \* "edit", then what the kernel is at, "done" in the end
    current,        \* position of the node the walk is at
    path,           \* positions of the nodes it has been to
    outcome         \* "none", "executable", or the error that is raised

vars == <<agent, changes, at, current, path, outcome>>

Elements(s)  == {s[i] : i \in DOMAIN s}
Distinct(s)  == Cardinality(Elements(s)) = Len(s)
NodeIds(a)   == {n.id : n \in Elements(a.nodes)}

\* by_id: of two nodes with one id, the later.
Positions(a, id) == {i \in DOMAIN a.nodes : a.nodes[i].id = id}
ById(a, id) == CHOOSE i \in Positions(a, id) : \A j \in Positions(a, id) : j <= i

-----------------------------------------------------------------------------
(* Validation.                                                             *)

\* An end of an edge, and the ports it can be at.
Ends(e) == {[node |-> e.source, port |-> e.out, side |-> "out"],
            [node |-> e.target, port |-> e.in, side |-> "in"]}
PortsAt(a, end) ==
    LET n == a.nodes[ById(a, end.node)]
    IN  Elements(IF end.side = "out" THEN n.out ELSE n.in)

M_EndIssues(a, end) ==                  \* an edge to nowhere passes
    IF end.node \in NodeIds(a) /\ end.port \notin PortsAt(a, end)
    THEN {"dangling_port_reference"} ELSE {}
EndIssues(a, end) ==
    IF end.node \notin NodeIds(a) THEN {"dangling_node_reference"}
    ELSE IF end.port \notin PortsAt(a, end) THEN {"dangling_port_reference"} ELSE {}

Profiles(a) == {n.profile : n \in Elements(a.nodes)} \ {"absent"}
Tools(a)    == {n.tool : n \in Elements(a.nodes)} \ {"absent"}

\* validate_agent_graph_issues, by code.
GraphIssues(a) ==
    (IF Distinct([i \in DOMAIN a.nodes |-> a.nodes[i].id]) THEN {} ELSE {"duplicate_node_id"})
    \cup (IF Distinct([i \in DOMAIN a.edges |-> a.edges[i].id]) THEN {} ELSE {"duplicate_edge_id"})
    \cup (IF \A n \in Elements(a.nodes) : Distinct(n.in) /\ Distinct(n.out)
          THEN {} ELSE {"duplicate_port_id"})
    \cup (IF Profiles(a) \subseteq a.profiles THEN {} ELSE {"dangling_model_profile_reference"})
    \cup (IF Tools(a) \subseteq a.tools THEN {} ELSE {"dangling_tool_reference"})
    \cup UNION {EndIssues(a, end) : end \in UNION {Ends(e) : e \in Elements(a.edges)}}

M_SaveIssues(a) ==                      \* a draft takes another agent's spec
    IF ~ Distinct(a.layout) THEN {"validation_failed"}
    ELSE GraphIssues(a)
         \cup (IF Elements(a.layout) \subseteq NodeIds(a) THEN {} ELSE {"dangling_layout_node_reference"})

\* _validate_candidate, after the request's own check of the layout.
SaveIssues(a) ==
    IF ~ Distinct(a.layout) THEN {"validation_failed"}
    ELSE GraphIssues(a)
         \cup (IF a.agent_id = DraftId THEN {} ELSE {"agent_id_mismatch"})
         \cup (IF Elements(a.layout) \subseteq NodeIds(a) THEN {} ELSE {"dangling_layout_node_reference"})

\* validate_agent_draft: an id counts as dangling where it is first seen.
Seen(a, i) == {a.layout[j] : j \in 1 .. i - 1}
DraftIssues(a) ==
    GraphIssues(a) \cup
    UNION {IF a.layout[i] \in Seen(a, i) THEN {"duplicate_layout_node_id"}
           ELSE IF a.layout[i] \notin NodeIds(a) THEN {"dangling_layout_node_reference"}
           ELSE {} : i \in DOMAIN a.layout}

-----------------------------------------------------------------------------
(* Edits, and the kernel.                                                  *)

WithNode(n, i) == [agent EXCEPT !.nodes[i] = n]
WithEdge(e, i) == [agent EXCEPT !.edges[i] = e]
But(s, i) == [j \in 1 .. Len(s) - 1 |-> IF j < i THEN s[j] ELSE s[j + 1]]
PortLists == {<<>>} \cup {<<p>> : p \in Ports} \cup {<<p, p>> : p \in Ports}

\* The schema asks a model for its profile and a tool for its manifest.
OfKind(n, k) ==
    [n EXCEPT !.kind = k, !.profile = IF k = "model" /\ @ = "absent" THEN "profile" ELSE @,
                          !.tool = IF k = "tool" /\ @ = "absent" THEN "calculator" ELSE @]

\* replaceAtPointer, and what a bulk change does besides.
Edited ==
    UNION {
        UNION {{WithNode([agent.nodes[i] EXCEPT !.id = id], i) : id \in Ids}
               \cup {WithNode(OfKind(agent.nodes[i], k), i) : k \in Kinds}
               \cup {WithNode([agent.nodes[i] EXCEPT !.in = ps], i) : ps \in PortLists}
               \cup {WithNode([agent.nodes[i] EXCEPT !.out = ps], i) : ps \in PortLists}
               \cup {[agent EXCEPT !.nodes = But(@, i)]} : i \in DOMAIN agent.nodes},
        UNION {{WithEdge([agent.edges[i] EXCEPT !.source = id], i) : id \in Ids}
               \cup {WithEdge([agent.edges[i] EXCEPT !.target = id], i) : id \in Ids}
               \cup {[agent EXCEPT !.edges = But(@, i)],
                     [agent EXCEPT !.edges = Append(@, agent.edges[i])],
                     [agent EXCEPT !.edges = Append(@, [agent.edges[i] EXCEPT !.id = 0])]}
               : i \in DOMAIN agent.edges},
        {[agent EXCEPT !.profiles = {}], [agent EXCEPT !.tools = {}]},
        {[agent EXCEPT !.agent_id = id] : id \in AgentIds},
        {[agent EXCEPT !.layout = Append(@, id)] : id \in Ids}}

Init ==
    /\ agent \in Agents
    /\ changes = 0
    /\ at = "edit" /\ current = 0 /\ path = <<>> /\ outcome = "none"

Edit ==
    /\ at = "edit" /\ changes < MaxChanges
    /\ changes' = changes + 1
    /\ agent' \in Edited
    /\ UNCHANGED <<at, current, path, outcome>>

Goes(next) == at' = next /\ UNCHANGED outcome
Finish(with) == at' = "done" /\ outcome' = with
Unsupported == Finish("unsupported_graph_shape")

\* validate_agent_spec, as execute begins.
Validate ==
    /\ at = "edit"
    /\ IF GraphIssues(agent) # {} THEN Finish("agent_spec_invalid") ELSE Goes("start")
    /\ UNCHANGED <<agent, changes, current, path>>

\* next_by_id is indexed with every source; then the one input node.
Inputs == {i \in DOMAIN agent.nodes : agent.nodes[i].kind = "input"}
StartWalk ==
    /\ at = "start"
    /\ IF \E e \in Elements(agent.edges) : e.source \notin NodeIds(agent)
         THEN Finish("key_error") /\ UNCHANGED current
       ELSE IF Cardinality(Inputs) # 1 THEN Unsupported /\ UNCHANGED current
       ELSE Goes("walk") /\ current' \in Inputs
    /\ UNCHANGED <<agent, changes, path>>

Visited == {agent.nodes[i].id : i \in Elements(path)}
EdgesFrom(i) == {e \in DOMAIN agent.edges : agent.edges[e].source = agent.nodes[i].id}

\* One turn of the loop.
Follow ==
    /\ at = "walk"
    /\ \/ /\ agent.nodes[current].id \in Visited
          /\ Unsupported
          /\ UNCHANGED <<current, path>>
       \/ /\ agent.nodes[current].id \notin Visited
          /\ path' = Append(path, current)
          /\ IF Cardinality(EdgesFrom(current)) > 1 THEN Unsupported /\ UNCHANGED current
             ELSE IF EdgesFrom(current) = {} THEN Goes("kinds") /\ UNCHANGED current
             ELSE \E e \in EdgesFrom(current) :
               IF agent.edges[e].target \notin NodeIds(agent)
                 THEN Finish("key_error") /\ UNCHANGED current
               ELSE Goes("walk") /\ current' = ById(agent, agent.edges[e].target)
    /\ UNCHANGED <<agent, changes>>

SupportedPath == <<"input", "model", "tool", "output">>
Supported ==
    /\ [i \in DOMAIN path |-> agent.nodes[path[i]].kind] = SupportedPath
    /\ Cardinality(Visited) = Len(agent.nodes)

CheckKinds ==
    /\ at = "kinds"
    /\ IF Supported THEN Goes("resolve") ELSE Unsupported
    /\ UNCHANGED <<agent, changes, current, path>>

\* _find_by_id, of the profile and of the tool.
Resolve ==
    /\ at = "resolve"
    /\ Finish(IF agent.nodes[path[2]].profile \notin agent.profiles THEN "model_profile_not_found"
             ELSE IF agent.nodes[path[3]].tool \notin agent.tools THEN "tool_manifest_not_found"
             ELSE "executable")
    /\ UNCHANGED <<agent, changes, current, path>>

Next == Edit \/ Validate \/ StartWalk \/ Follow \/ CheckKinds \/ Resolve
Spec == Init /\ [][Next]_vars

-----------------------------------------------------------------------------
\* The graph the kernel executes: four nodes in a row, and nothing else.
IsChain(a) ==
    /\ Len(a.nodes) = 4 /\ Len(a.edges) = 3
    /\ \E n \in [1 .. 4 -> DOMAIN a.nodes] :
         /\ \A i \in 1 .. 4 : a.nodes[n[i]].kind = SupportedPath[i]
         /\ {<<e.source, e.target>> : e \in Elements(a.edges)}
              = {<<a.nodes[n[i]].id, a.nodes[n[i + 1]].id>> : i \in 1 .. 3}

\* The three places agree.  The API saves what the contract calls valid, if it
\* is of the draft's own agent, which the contract does not ask; of what is
\* valid no lookup of the kernel fails; the walk ends, and accepts exactly the
\* graphs that are one chain.
VerdictsAgree ==
    /\ SaveIssues(agent) = {} <=> DraftIssues(agent) = {} /\ agent.agent_id = DraftId
    /\ Len(path) <= Len(agent.nodes)
    /\ at = "done" =>
         outcome = IF GraphIssues(agent) # {} THEN "agent_spec_invalid"
                   ELSE IF IsChain(agent) THEN "executable" ELSE "unsupported_graph_shape"

-----------------------------------------------------------------------------
(* The invariant behind them: from its first node on, the path is where    *)
(* the edges lead, whatever graph it is.                                   *)

TypeOK ==
    /\ agent \in AgentSpecs /\ changes \in Nat
    /\ at \in {"edit", "start", "walk", "kinds", "resolve", "done"}
    /\ path \in Seq(DOMAIN agent.nodes)
    /\ at = "walk" => current \in DOMAIN agent.nodes

\* The kernel walks a valid graph; before, it has been nowhere.
OnlyValidWalk ==
    /\ at \in {"start", "walk", "kinds", "resolve"} => GraphIssues(agent) = {}
    /\ at \in {"edit", "start"} => path = <<>>

NeverTwice == \A i, j \in DOMAIN path : path[i] = path[j] => i = j

\* The one edge from i goes to j.
Leads(i, j) ==
    \E e \in DOMAIN agent.edges :
        EdgesFrom(i) = {e} /\ agent.edges[e].target = agent.nodes[j].id

PathIsWalk ==
    at \in {"walk", "kinds", "resolve"} =>
        /\ Inputs = {IF path = <<>> THEN current ELSE path[1]}
        /\ \A k \in 1 .. Len(path) - 1 : Leads(path[k], path[k + 1])
        /\ IF at = "walk" THEN path # <<>> => Leads(path[Len(path)], current)
           ELSE path # <<>> /\ EdgesFrom(path[Len(path)]) = {}
        /\ at = "resolve" => Supported

IInv == TypeOK /\ OnlyValidWalk /\ NeverTwice /\ PathIsWalk /\ VerdictsAgree

=============================================================================
