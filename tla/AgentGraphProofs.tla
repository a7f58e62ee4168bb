-------------------------- MODULE AgentGraphProofs --------------------------
(***************************************************************************)
(* AgentGraph, for any AgentSpecs, however long, and any number of edits.  *)
(*                                                                         *)
(* What the kernel accepts is settled in two halves.  A walk that ends     *)
(* where it should has seen every node, and with it every edge, so that    *)
(* the graph is a chain.  And of a chain the walk takes each node in turn, *)
(* so that no other outcome is left to it.                                 *)
(***************************************************************************)
EXTENDS AgentGraph, TLAPS, FiniteSetTheorems

-----------------------------------------------------------------------------
(* Sequences whose elements differ.                                        *)

LEMMA Counted ==
    ASSUME NEW n \in Nat
    PROVE  IsFiniteSet(1 .. n) /\ Cardinality(1 .. n) = n
  <1>1. n \in Int /\ 1 \in Int
    OBVIOUS
  <1>2. IsFiniteSet(1 .. n) /\ Cardinality(1 .. n) = IF 1 > n THEN 0 ELSE n - 1 + 1
    BY <1>1, FS_Interval
  <1> QED BY <1>2

\* An id occurs once: as the size of the set of ids says it, and as code does
\* that looks at two positions.
LEMMA DistinctMeansOnce ==
    ASSUME NEW s, DOMAIN s = 1 .. Len(s), Len(s) \in Nat
    PROVE  Distinct(s) <=> \A i, j \in DOMAIN s : s[i] = s[j] => i = j
  <1> DEFINE f == [i \in DOMAIN s |-> s[i]]
  <1>1. IsFiniteSet(DOMAIN s) /\ Cardinality(DOMAIN s) = Len(s)
    BY Counted
  <1>2. f \in Surjection(DOMAIN s, Elements(s))
    BY DEF Surjection, Elements
  <1>3. Cardinality(Elements(s)) = Len(s) <=> f \in Injection(DOMAIN s, Elements(s))
    BY <1>1, <1>2, FS_Surjection
  <1>4. f \in [DOMAIN s -> Elements(s)] /\ DOMAIN f = DOMAIN s
        /\ \A i \in DOMAIN s : f[i] = s[i]
    BY DEF Elements
  <1> HIDE DEF f
  <1>5. f \in Injection(DOMAIN s, Elements(s)) <=> \A i, j \in DOMAIN s : s[i] = s[j] => i = j
    BY <1>4 DEF Injection, IsInjective
  <1> QED BY <1>3, <1>5 DEF Distinct

\* Without repetition, a sequence over 1 .. n is not longer than n.
LEMMA NotLonger ==
    ASSUME NEW n \in Nat, NEW s \in Seq(1 .. n), \A i, j \in DOMAIN s : s[i] = s[j] => i = j
    PROVE  Len(s) <= n
  <1>1. s \in [1 .. Len(s) -> 1 .. n] /\ DOMAIN s = 1 .. Len(s) /\ Len(s) \in Nat
    OBVIOUS
  <1>2. IsFiniteSet(1 .. Len(s)) /\ Cardinality(1 .. Len(s)) = Len(s)
    BY <1>1, Counted
  <1>3. IsFiniteSet(1 .. n) /\ Cardinality(1 .. n) = n
    BY Counted
  <1>4. s \in Injection(1 .. Len(s), 1 .. n)
    BY <1>1 DEF Injection, IsInjective
  <1> QED BY <1>2, <1>3, <1>4, FS_Injection

-----------------------------------------------------------------------------
(* An AgentSpec, and what a valid one is.                                  *)

LEMMA SpecParts ==
    ASSUME NEW a \in AgentSpecs
    PROVE  /\ a.nodes \in Seq(NodeRecords) /\ a.edges \in Seq(EdgeRecords)
           /\ a.layout \in Seq(Ids)
           /\ Len(a.nodes) \in Nat /\ Len(a.edges) \in Nat /\ Len(a.layout) \in Nat
           /\ DOMAIN a.nodes = 1 .. Len(a.nodes) /\ DOMAIN a.edges = 1 .. Len(a.edges)
           /\ DOMAIN a.layout = 1 .. Len(a.layout)
           /\ \A i \in DOMAIN a.nodes : a.nodes[i] \in NodeRecords
  BY DEF AgentSpecs

\* What the walk needs of a graph without issues.
LEMMA ValidGraph ==
    ASSUME NEW a \in AgentSpecs, GraphIssues(a) = {}
    PROVE  /\ \A i, j \in DOMAIN a.nodes : a.nodes[i].id = a.nodes[j].id => i = j
           /\ \A e \in DOMAIN a.edges : a.edges[e].source \in NodeIds(a)
                                        /\ a.edges[e].target \in NodeIds(a)
           /\ Profiles(a) \subseteq a.profiles /\ Tools(a) \subseteq a.tools
  <1> DEFINE ids == [i \in DOMAIN a.nodes |-> a.nodes[i].id]
  <1>1. Distinct(ids)
    BY DEF GraphIssues
  <1>2. DOMAIN ids = 1 .. Len(ids) /\ Len(ids) \in Nat /\ DOMAIN ids = DOMAIN a.nodes
    BY SpecParts
  <1>3. \A i \in DOMAIN a.nodes : ids[i] = a.nodes[i].id
    OBVIOUS
  <1> HIDE DEF ids
  <1>4. \A i, j \in DOMAIN a.nodes : a.nodes[i].id = a.nodes[j].id => i = j
    BY <1>1, <1>2, <1>3, DistinctMeansOnce
  <1>5. Profiles(a) \subseteq a.profiles /\ Tools(a) \subseteq a.tools
    BY DEF GraphIssues
  <1>6. ASSUME NEW e \in DOMAIN a.edges, NEW end \in Ends(a.edges[e])
        PROVE  end.node \in NodeIds(a)
    <2>1. EndIssues(a, end) = {}
      <3>1. end \in UNION {Ends(x) : x \in Elements(a.edges)}
        BY DEF Elements
      <3>2. UNION {EndIssues(a, x) : x \in UNION {Ends(y) : y \in Elements(a.edges)}} = {}
        BY DEF GraphIssues
      <3> QED BY <3>1, <3>2
    <2> QED BY <2>1 DEF EndIssues
  <1>7. ASSUME NEW e \in DOMAIN a.edges
        PROVE  a.edges[e].source \in NodeIds(a) /\ a.edges[e].target \in NodeIds(a)
    BY <1>6 DEF Ends
  <1> QED BY <1>4, <1>5, <1>7

\* The API saves exactly what the contract calls valid and is of the draft's agent.
LEMMA SavedIsValid ==
    ASSUME NEW a \in AgentSpecs
    PROVE  SaveIssues(a) = {} <=> DraftIssues(a) = {} /\ a.agent_id = DraftId
  <1> DEFINE Twice(i) == a.layout[i] \in Seen(a, i)
             Nowhere(i) == a.layout[i] \notin NodeIds(a)
  <1>1. SaveIssues(a) = {} <=> /\ Distinct(a.layout) /\ GraphIssues(a) = {}
                               /\ Elements(a.layout) \subseteq NodeIds(a)
                               /\ a.agent_id = DraftId
    BY DEF SaveIssues
  <1>2. DraftIssues(a) = {} <=> /\ GraphIssues(a) = {}
                                /\ \A i \in DOMAIN a.layout : ~ Twice(i) /\ ~ Nowhere(i)
    BY DEF DraftIssues
  <1>3. (\A i \in DOMAIN a.layout : ~ Nowhere(i)) <=> Elements(a.layout) \subseteq NodeIds(a)
    BY DEF Elements
  <1>4. Distinct(a.layout) <=> \A i, j \in DOMAIN a.layout : a.layout[i] = a.layout[j] => i = j
    BY SpecParts, DistinctMeansOnce
  <1>5. (\A i \in DOMAIN a.layout : ~ Twice(i))
           <=> \A i, j \in DOMAIN a.layout : a.layout[i] = a.layout[j] => i = j
    <2>1. DOMAIN a.layout = 1 .. Len(a.layout) /\ Len(a.layout) \in Nat
      BY SpecParts
    <2>2. \A i : Twice(i) <=> \E j \in 1 .. i - 1 : a.layout[i] = a.layout[j]
      BY DEF Seen
    <2> HIDE DEF Twice
    <2>3. ASSUME NEW i \in DOMAIN a.layout, NEW j \in DOMAIN a.layout,
                 a.layout[i] = a.layout[j], i # j
          PROVE  Twice(i) \/ Twice(j)
      <3>1. i \in Int /\ j \in Int /\ i >= 1 /\ j >= 1
        BY <2>1
      <3>2. j \in 1 .. i - 1 \/ i \in 1 .. j - 1
        BY <2>3, <3>1
      <3> QED BY <2>2, <2>3, <3>2
    <2>4. ASSUME NEW i \in DOMAIN a.layout, Twice(i)
          PROVE  \E j \in DOMAIN a.layout : a.layout[i] = a.layout[j] /\ i # j
      <3>1. PICK j \in 1 .. i - 1 : a.layout[i] = a.layout[j]
        BY <2>2, <2>4
      <3>2. j \in DOMAIN a.layout /\ i # j
        BY <2>1
      <3> QED BY <3>1, <3>2
    <2> QED BY <2>3, <2>4
  <1> HIDE DEF Twice, Nowhere
  <1> QED BY <1>1, <1>2, <1>3, <1>4, <1>5

-----------------------------------------------------------------------------
(* Edits make AgentSpecs of AgentSpecs.                                    *)

LEMMA PartsReplaced ==
    ASSUME NEW a \in AgentSpecs
    PROVE  /\ \A s \in Seq(NodeRecords) : [a EXCEPT !.nodes = s] \in AgentSpecs
           /\ \A s \in Seq(EdgeRecords) : [a EXCEPT !.edges = s] \in AgentSpecs
           /\ \A s \in Seq(Ids) : [a EXCEPT !.layout = s] \in AgentSpecs
           /\ [a EXCEPT !.profiles = {}] \in AgentSpecs
           /\ [a EXCEPT !.tools = {}] \in AgentSpecs
           /\ \A id \in AgentIds : [a EXCEPT !.agent_id = id] \in AgentSpecs
  <1>1. \A s \in Seq(NodeRecords) : [a EXCEPT !.nodes = s] \in AgentSpecs
    BY DEF AgentSpecs
  <1>2. \A s \in Seq(EdgeRecords) : [a EXCEPT !.edges = s] \in AgentSpecs
    BY DEF AgentSpecs
  <1>3. \A s \in Seq(Ids) : [a EXCEPT !.layout = s] \in AgentSpecs
    BY DEF AgentSpecs
  <1>4. [a EXCEPT !.profiles = {}] \in AgentSpecs /\ [a EXCEPT !.tools = {}] \in AgentSpecs
    BY DEF AgentSpecs
  <1>5. \A id \in AgentIds : [a EXCEPT !.agent_id = id] \in AgentSpecs
    BY DEF AgentSpecs
  <1> QED BY <1>1, <1>2, <1>3, <1>4, <1>5

LEMMA ButIsSeq ==
    ASSUME NEW S, NEW s \in Seq(S), NEW i \in DOMAIN s
    PROVE  But(s, i) \in Seq(S)
  <1>1. Len(s) \in Nat /\ Len(s) - 1 \in Nat /\ DOMAIN s = 1 .. Len(s)
    OBVIOUS
  <1>2. \A j \in 1 .. Len(s) - 1 : j \in DOMAIN s /\ j + 1 \in DOMAIN s
    BY <1>1
  <1>3. But(s, i) \in [1 .. Len(s) - 1 -> S]
    BY <1>2 DEF But
  <1> QED BY <1>1, <1>3

\* One field of a node is edited.
LEMMA NodeEdits ==
    ASSUME NEW n \in NodeRecords
    PROVE  /\ \A id \in Ids : [n EXCEPT !.id = id] \in NodeRecords
           /\ \A ps \in PortLists : [n EXCEPT !.in = ps] \in NodeRecords
           /\ \A ps \in PortLists : [n EXCEPT !.out = ps] \in NodeRecords
           /\ \A k \in Kinds : OfKind(n, k) \in NodeRecords
  <1>1. n \in [id : Ids, kind : NodeKinds, in : Seq(Ports), out : Seq(Ports),
               profile : Names, tool : Names]
        /\ (n.kind = "model" => n.profile # "absent") /\ (n.kind = "tool" => n.tool # "absent")
    BY DEF NodeRecords
  <1>2. PortLists \subseteq Seq(Ports)
    <2>1. <<>> \in Seq(Ports) /\ \A p \in Ports : <<p>> \in Seq(Ports) /\ <<p, p>> \in Seq(Ports)
      OBVIOUS
    <2> QED BY <2>1, Zenon DEF PortLists
  <1>3. ASSUME NEW id \in Ids PROVE [n EXCEPT !.id = id] \in NodeRecords
    BY <1>1 DEF NodeRecords
  <1>4. ASSUME NEW ps \in Seq(Ports)
        PROVE  [n EXCEPT !.in = ps] \in NodeRecords /\ [n EXCEPT !.out = ps] \in NodeRecords
    BY <1>1 DEF NodeRecords
  <1>5. ASSUME NEW k \in Kinds PROVE OfKind(n, k) \in NodeRecords
    <2>1. PICK kind \in NodeKinds : kind = k
      BY KindsAssumption
    <2>2. PICK p \in Names : /\ p = IF k = "model" /\ n.profile = "absent" THEN "profile" ELSE n.profile
      BY <1>1, AgentsAssumption
    <2>3. PICK q \in Names : q = IF k = "tool" /\ n.tool = "absent" THEN "calculator" ELSE n.tool
      BY <1>1, AgentsAssumption
    <2> DEFINE new == [n EXCEPT !.kind = kind, !.profile = p, !.tool = q]
    <2>4. OfKind(n, k) = new
      BY <2>1, <2>2, <2>3 DEF OfKind
    <2>5. /\ new \in [id : Ids, kind : NodeKinds, in : Seq(Ports), out : Seq(Ports),
                      profile : Names, tool : Names]
          /\ new.kind = k /\ new.profile = p /\ new.tool = q
      BY <1>1, <2>1
    <2> HIDE DEF new
    <2>6. (k = "model" => p # "absent") /\ (k = "tool" => q # "absent")
      BY <2>2, <2>3
    <2> QED BY <2>4, <2>5, <2>6 DEF NodeRecords
  <1> QED BY <1>2, <1>3, <1>4, <1>5

LEMMA EdgeEdits ==
    ASSUME NEW e \in EdgeRecords
    PROVE  /\ \A id \in Ids : [e EXCEPT !.source = id] \in EdgeRecords
           /\ \A id \in Ids : [e EXCEPT !.target = id] \in EdgeRecords
           /\ [e EXCEPT !.id = 0] \in EdgeRecords
  <1>1. PICK zero \in Ids \cup {0} : zero = 0
    OBVIOUS
  <1>2. [e EXCEPT !.id = zero] \in EdgeRecords
    BY DEF EdgeRecords
  <1>3. \A id \in Ids : [e EXCEPT !.source = id] \in EdgeRecords
    BY DEF EdgeRecords
  <1>4. \A id \in Ids : [e EXCEPT !.target = id] \in EdgeRecords
    BY DEF EdgeRecords
  <1> QED BY <1>1, <1>2, <1>3, <1>4

LEMMA EditedIsSpec ==
    ASSUME agent \in AgentSpecs PROVE Edited \subseteq AgentSpecs
  <1>1. PICK a \in AgentSpecs : a = agent
    OBVIOUS
  <1>2. /\ a.nodes \in Seq(NodeRecords) /\ a.edges \in Seq(EdgeRecords) /\ a.layout \in Seq(Ids)
    BY SpecParts
  <1>3. ASSUME NEW i \in DOMAIN agent.nodes, NEW n \in NodeRecords
        PROVE  WithNode(n, i) \in AgentSpecs
    <2>1. [a.nodes EXCEPT ![i] = n] \in Seq(NodeRecords)
      BY <1>1, <1>2
    <2>2. WithNode(n, i) = [a EXCEPT !.nodes = [a.nodes EXCEPT ![i] = n]]
      BY <1>1 DEF WithNode
    <2> QED BY <2>1, <2>2, PartsReplaced
  <1>4. ASSUME NEW i \in DOMAIN agent.edges, NEW e \in EdgeRecords
        PROVE  WithEdge(e, i) \in AgentSpecs
               /\ [agent EXCEPT !.edges = Append(@, e)] \in AgentSpecs
    <2>1. [a.edges EXCEPT ![i] = e] \in Seq(EdgeRecords) /\ Append(a.edges, e) \in Seq(EdgeRecords)
      BY <1>1, <1>2
    <2>2. /\ WithEdge(e, i) = [a EXCEPT !.edges = [a.edges EXCEPT ![i] = e]]
          /\ [agent EXCEPT !.edges = Append(@, e)] = [a EXCEPT !.edges = Append(a.edges, e)]
      BY <1>1 DEF WithEdge
    <2> QED BY <2>1, <2>2, PartsReplaced
  <1>5. ASSUME NEW i \in DOMAIN agent.nodes PROVE [agent EXCEPT !.nodes = But(@, i)] \in AgentSpecs
    <2>1. But(a.nodes, i) \in Seq(NodeRecords)
      BY <1>1, <1>2, ButIsSeq
    <2>2. [agent EXCEPT !.nodes = But(@, i)] = [a EXCEPT !.nodes = But(a.nodes, i)]
      BY <1>1
    <2> QED BY <2>1, <2>2, PartsReplaced
  <1>6. ASSUME NEW i \in DOMAIN agent.edges PROVE [agent EXCEPT !.edges = But(@, i)] \in AgentSpecs
    <2>1. But(a.edges, i) \in Seq(EdgeRecords)
      BY <1>1, <1>2, ButIsSeq
    <2>2. [agent EXCEPT !.edges = But(@, i)] = [a EXCEPT !.edges = But(a.edges, i)]
      BY <1>1
    <2> QED BY <2>1, <2>2, PartsReplaced
  <1>7. ASSUME NEW id \in Ids PROVE [agent EXCEPT !.layout = Append(@, id)] \in AgentSpecs
    <2>1. Append(a.layout, id) \in Seq(Ids)
      BY <1>2
    <2>2. [agent EXCEPT !.layout = Append(@, id)] = [a EXCEPT !.layout = Append(a.layout, id)]
      BY <1>1
    <2> QED BY <2>1, <2>2, PartsReplaced
  <1>8. /\ [agent EXCEPT !.profiles = {}] \in AgentSpecs
        /\ [agent EXCEPT !.tools = {}] \in AgentSpecs
        /\ \A id \in AgentIds : [agent EXCEPT !.agent_id = id] \in AgentSpecs
    BY PartsReplaced
  <1>9. \A i \in DOMAIN agent.nodes : agent.nodes[i] \in NodeRecords
    BY <1>1, <1>2
  <1>10. \A i \in DOMAIN agent.edges : agent.edges[i] \in EdgeRecords
    BY <1>1, <1>2
  <1>11. ASSUME NEW i \in DOMAIN agent.nodes
         PROVE  /\ \A id \in Ids : WithNode([agent.nodes[i] EXCEPT !.id = id], i) \in AgentSpecs
                /\ \A k \in Kinds : WithNode(OfKind(agent.nodes[i], k), i) \in AgentSpecs
                /\ \A ps \in PortLists :
                      /\ WithNode([agent.nodes[i] EXCEPT !.in = ps], i) \in AgentSpecs
                      /\ WithNode([agent.nodes[i] EXCEPT !.out = ps], i) \in AgentSpecs
    <2>1. /\ \A id \in Ids : [agent.nodes[i] EXCEPT !.id = id] \in NodeRecords
          /\ \A k \in Kinds : OfKind(agent.nodes[i], k) \in NodeRecords
          /\ \A ps \in PortLists : /\ [agent.nodes[i] EXCEPT !.in = ps] \in NodeRecords
                                   /\ [agent.nodes[i] EXCEPT !.out = ps] \in NodeRecords
      BY <1>9, NodeEdits, Zenon
    <2> QED BY <1>3, <2>1, Zenon
  <1>12. ASSUME NEW i \in DOMAIN agent.edges
         PROVE  /\ \A id \in Ids :
                      /\ WithEdge([agent.edges[i] EXCEPT !.source = id], i) \in AgentSpecs
                      /\ WithEdge([agent.edges[i] EXCEPT !.target = id], i) \in AgentSpecs
                /\ [agent EXCEPT !.edges = Append(@, agent.edges[i])] \in AgentSpecs
                /\ [agent EXCEPT !.edges = Append(@, [agent.edges[i] EXCEPT !.id = 0])] \in AgentSpecs
    <2>1. /\ \A id \in Ids : /\ [agent.edges[i] EXCEPT !.source = id] \in EdgeRecords
                             /\ [agent.edges[i] EXCEPT !.target = id] \in EdgeRecords
          /\ [agent.edges[i] EXCEPT !.id = 0] \in EdgeRecords
          /\ agent.edges[i] \in EdgeRecords
      BY <1>10, EdgeEdits, Zenon
    <2> QED BY <1>4, <2>1, Zenon
  <1> SUFFICES ASSUME NEW x \in Edited PROVE x \in AgentSpecs
    OBVIOUS
  <1> DEFINE OfNode(i) ==
               {WithNode([agent.nodes[i] EXCEPT !.id = id], i) : id \in Ids}
               \cup {WithNode(OfKind(agent.nodes[i], k), i) : k \in Kinds}
               \cup {WithNode([agent.nodes[i] EXCEPT !.in = ps], i) : ps \in PortLists}
               \cup {WithNode([agent.nodes[i] EXCEPT !.out = ps], i) : ps \in PortLists}
               \cup {[agent EXCEPT !.nodes = But(@, i)]}
             OfEdge(i) ==
               {WithEdge([agent.edges[i] EXCEPT !.source = id], i) : id \in Ids}
               \cup {WithEdge([agent.edges[i] EXCEPT !.target = id], i) : id \in Ids}
               \cup {[agent EXCEPT !.edges = But(@, i)],
                     [agent EXCEPT !.edges = Append(@, agent.edges[i])],
                     [agent EXCEPT !.edges = Append(@, [agent.edges[i] EXCEPT !.id = 0])]}
  <1>13. Edited = UNION {UNION {OfNode(i) : i \in DOMAIN agent.nodes},
                         UNION {OfEdge(i) : i \in DOMAIN agent.edges},
                         {[agent EXCEPT !.profiles = {}], [agent EXCEPT !.tools = {}]},
                         {[agent EXCEPT !.agent_id = id] : id \in AgentIds},
                         {[agent EXCEPT !.layout = Append(@, id)] : id \in Ids}}
    BY DEF Edited
  <1>14. ASSUME NEW i \in DOMAIN agent.nodes PROVE OfNode(i) \subseteq AgentSpecs
    BY <1>5, <1>11, Zenon
  <1>15. ASSUME NEW i \in DOMAIN agent.edges PROVE OfEdge(i) \subseteq AgentSpecs
    BY <1>6, <1>12, Zenon
  <1> HIDE DEF OfNode, OfEdge
  <1>16. \/ \E i \in DOMAIN agent.nodes : x \in OfNode(i)
         \/ \E i \in DOMAIN agent.edges : x \in OfEdge(i)
         \/ x = [agent EXCEPT !.profiles = {}] \/ x = [agent EXCEPT !.tools = {}]
         \/ \E id \in AgentIds : x = [agent EXCEPT !.agent_id = id]
         \/ \E id \in Ids : x = [agent EXCEPT !.layout = Append(@, id)]
    BY <1>13
  <1> QED BY <1>7, <1>8, <1>14, <1>15, <1>16, Zenon

-----------------------------------------------------------------------------
(* Chains.                                                                 *)

IdsDiffer(a) == \A i, j \in DOMAIN a.nodes : a.nodes[i].id = a.nodes[j].id => i = j

LEMMA ByIdFinds ==
    ASSUME NEW a \in AgentSpecs, IdsDiffer(a), NEW id \in NodeIds(a)
    PROVE  ById(a, id) \in DOMAIN a.nodes /\ a.nodes[ById(a, id)].id = id
  <1>1. PICK i \in DOMAIN a.nodes : a.nodes[i].id = id
    BY DEF NodeIds, Elements
  <1>2. Positions(a, id) = {i}
    BY <1>1 DEF Positions, IdsDiffer
  <1>3. i \in Int
    BY SpecParts
  <1>4. \E k \in Positions(a, id) : \A j \in Positions(a, id) : j <= k
    BY <1>2, <1>3
  <1>5. ById(a, id) \in Positions(a, id)
    BY <1>4 DEF ById
  <1> QED BY <1>1, <1>2, <1>5

LEMMA KindsOfPath ==
    /\ SupportedPath[1] = "input" /\ SupportedPath[2] = "model"
    /\ SupportedPath[3] = "tool" /\ SupportedPath[4] = "output"
    /\ DOMAIN SupportedPath = 1 .. 4 /\ Len(SupportedPath) = 4
  BY DEF SupportedPath

\* Four different positions of four are all of them; three of three likewise.
LEMMA AllFour ==
    ASSUME NEW a \in 1 .. 4, NEW b \in 1 .. 4, NEW c \in 1 .. 4, NEW d \in 1 .. 4,
           a # b, a # c, a # d, b # c, b # d, c # d
    PROVE  1 .. 4 = {a, b, c, d}
  OBVIOUS

LEMMA AllThree ==
    ASSUME NEW a \in 1 .. 3, NEW b \in 1 .. 3, NEW c \in 1 .. 3, a # b, a # c, b # c
    PROVE  1 .. 3 = {a, b, c}
  OBVIOUS

LEMMA OnlyThree ==
    ASSUME NEW n \in Nat, NEW a, NEW b, NEW c, 1 .. n = {a, b, c}, a # b, a # c, b # c
    PROVE  n = 3
  <1>1. a \in 1 .. n /\ b \in 1 .. n /\ c \in 1 .. n
    OBVIOUS
  <1>2. n >= 3
    BY <1>1
  <1>3. CASE n >= 4
    <2>1. 1 \in {a, b, c} /\ 2 \in {a, b, c} /\ 3 \in {a, b, c} /\ 4 \in {a, b, c}
      BY <1>3
    <2> QED BY <2>1
  <1> QED BY <1>2, <1>3

LEMMA FourOfSet ==
    ASSUME NEW a, NEW b, NEW c, NEW d, a # b, a # c, a # d, b # c, b # d, c # d
    PROVE  Cardinality({a, b, c, d}) = 4
  <1>1. IsFiniteSet({a}) /\ Cardinality({a}) = 1
    BY FS_Singleton
  <1>2. IsFiniteSet({a} \cup {b}) /\ Cardinality({a} \cup {b}) = 2
    BY <1>1, FS_AddElement
  <1>3. IsFiniteSet({a} \cup {b} \cup {c}) /\ Cardinality({a} \cup {b} \cup {c}) = 3
    BY <1>2, FS_AddElement
  <1>4. Cardinality({a} \cup {b} \cup {c} \cup {d}) = 4
    <2> DEFINE three == {a} \cup {b} \cup {c}
    <2>1. d \notin three
      OBVIOUS
    <2>2. IsFiniteSet(three) /\ Cardinality(three) = 3
      BY <1>3
    <2> HIDE DEF three
    <2>3. Cardinality(three \cup {d}) = 3 + 1
      BY <2>1, <2>2, FS_AddElement
    <2> QED BY <2>3 DEF three
  <1>5. {a} \cup {b} \cup {c} \cup {d} = {a, b, c, d}
    OBVIOUS
  <1> QED BY <1>4, <1>5

\* n names the nodes of a chain, in turn.
Chained(n) ==
    /\ n \in [1 .. 4 -> DOMAIN agent.nodes]
    /\ \A i \in 1 .. 4 : agent.nodes[n[i]].kind = SupportedPath[i]
    /\ {<<e.source, e.target>> : e \in Elements(agent.edges)}
         = {<<agent.nodes[n[i]].id, agent.nodes[n[i + 1]].id>> : i \in 1 .. 3}

\* In a chain every node but the last leads to the next, and no other way.
LEMMA ChainLeads ==
    ASSUME agent \in AgentSpecs, IdsDiffer(agent), Len(agent.nodes) = 4, Len(agent.edges) = 3,
           NEW n, Chained(n)
    PROVE  /\ DOMAIN agent.nodes = {n[1], n[2], n[3], n[4]}
           /\ n[1] # n[2] /\ n[1] # n[3] /\ n[1] # n[4]
           /\ n[2] # n[3] /\ n[2] # n[4] /\ n[3] # n[4]
           /\ Inputs = {n[1]}
           /\ \A i \in 1 .. 3 : Leads(n[i], n[i + 1])
           /\ EdgesFrom(n[4]) = {}
  <1> DEFINE id(i) == agent.nodes[n[i]].id
             from(e) == agent.edges[e].source
             to(e) == agent.edges[e].target
  <1>1. DOMAIN agent.nodes = 1 .. 4 /\ DOMAIN agent.edges = 1 .. 3
    BY SpecParts
  <1>2. /\ n[1] \in 1 .. 4 /\ n[2] \in 1 .. 4 /\ n[3] \in 1 .. 4 /\ n[4] \in 1 .. 4
        /\ agent.nodes[n[1]].kind = "input" /\ agent.nodes[n[2]].kind = "model"
        /\ agent.nodes[n[3]].kind = "tool" /\ agent.nodes[n[4]].kind = "output"
    BY <1>1, KindsOfPath DEF Chained
  <1>3. /\ n[1] # n[2] /\ n[1] # n[3] /\ n[1] # n[4]
        /\ n[2] # n[3] /\ n[2] # n[4] /\ n[3] # n[4]
    BY <1>2
  <1>4. DOMAIN agent.nodes = {n[1], n[2], n[3], n[4]}
    BY <1>1, <1>2, <1>3, AllFour
  <1>5. Inputs = {n[1]}
    BY <1>2, <1>4 DEF Inputs
  <1>6. /\ id(1) # id(2) /\ id(1) # id(3) /\ id(1) # id(4)
        /\ id(2) # id(3) /\ id(2) # id(4) /\ id(3) # id(4)
    BY <1>1, <1>2, <1>3 DEF IdsDiffer
  <1>7. ASSUME NEW i \in 1 .. 3
        PROVE  \E e \in 1 .. 3 : from(e) = id(i) /\ to(e) = id(i + 1)
    <2>1. <<id(i), id(i + 1)>> \in {<<e.source, e.target>> : e \in Elements(agent.edges)}
      BY DEF Chained
    <2>2. PICK e \in DOMAIN agent.edges : <<from(e), to(e)>> = <<id(i), id(i + 1)>>
      BY <2>1 DEF Elements
    <2> QED BY <1>1, <2>2
  <1>8. PICK e1 \in 1 .. 3 : from(e1) = id(1) /\ to(e1) = id(2)
    BY <1>7
  <1>9. PICK e2 \in 1 .. 3 : from(e2) = id(2) /\ to(e2) = id(3)
    BY <1>7
  <1>10. PICK e3 \in 1 .. 3 : from(e3) = id(3) /\ to(e3) = id(4)
    BY <1>7
  <1>11. 1 .. 3 = {e1, e2, e3}
    BY <1>6, <1>8, <1>9, <1>10, AllThree
  <1>12. \A i : EdgesFrom(n[i]) = {e \in 1 .. 3 : from(e) = id(i)}
    BY <1>1 DEF EdgesFrom
  <1> HIDE DEF id, from, to
  <1>13. /\ EdgesFrom(n[1]) = {e1} /\ EdgesFrom(n[2]) = {e2} /\ EdgesFrom(n[3]) = {e3}
         /\ EdgesFrom(n[4]) = {}
    BY <1>6, <1>8, <1>9, <1>10, <1>11, <1>12
  <1>14. Leads(n[1], n[2]) /\ Leads(n[2], n[3]) /\ Leads(n[3], n[4])
    BY <1>1, <1>8, <1>9, <1>10, <1>13 DEF Leads, id, to
  <1>15. ASSUME NEW i \in 1 .. 3 PROVE Leads(n[i], n[i + 1])
    <2>1. CASE i = 1
      BY <1>14, <2>1
    <2>2. CASE i = 2
      BY <1>14, <2>2
    <2>3. CASE i = 3
      BY <1>14, <2>3
    <2> QED BY <2>1, <2>2, <2>3
  <1> QED BY <1>3, <1>4, <1>5, <1>13, <1>15

\* Where one edge leads.
LEMMA LeadsToOne ==
    ASSUME IdsDiffer(agent), NEW i, NEW j \in DOMAIN agent.nodes, NEW k \in DOMAIN agent.nodes,
           Leads(i, j), Leads(i, k)
    PROVE  j = k
  <1>1. PICK e : EdgesFrom(i) = {e} /\ agent.edges[e].target = agent.nodes[j].id
    BY DEF Leads
  <1>2. PICK f : EdgesFrom(i) = {f} /\ agent.edges[f].target = agent.nodes[k].id
    BY DEF Leads
  <1>3. e = f
    BY <1>1, <1>2
  <1> QED BY <1>1, <1>2, <1>3 DEF IdsDiffer

\* A walk: from the one input, along edges that leave no choice.
Walk(w) ==
    /\ w \in Seq(DOMAIN agent.nodes) /\ w # <<>>
    /\ Inputs = {w[1]}
    /\ \A k \in 1 .. Len(w) - 1 : Leads(w[k], w[k + 1])

\* A walk through a chain takes its nodes in turn.
LEMMA WalkOfChain ==
    ASSUME agent \in AgentSpecs, IdsDiffer(agent), Len(agent.nodes) = 4, Len(agent.edges) = 3,
           NEW n, Chained(n), NEW w, Walk(w)
    PROVE  Len(w) \in 1 .. 4 /\ \A k \in 1 .. Len(w) : w[k] = n[k]
  <1>1. Len(w) \in Nat /\ Len(w) >= 1 /\ \A k \in 1 .. Len(w) : w[k] \in DOMAIN agent.nodes
    BY DEF Walk
  <1>2. \A k \in 1 .. 4 : n[k] \in DOMAIN agent.nodes
    BY DEF Chained
  <1>3. /\ Inputs = {n[1]} /\ EdgesFrom(n[4]) = {}
        /\ Leads(n[1], n[2]) /\ Leads(n[2], n[3]) /\ Leads(n[3], n[4])
    <2>1. /\ Inputs = {n[1]} /\ EdgesFrom(n[4]) = {}
          /\ \A i \in 1 .. 3 : Leads(n[i], n[i + 1])
      BY ChainLeads
    <2>2. Leads(n[1], n[1 + 1]) /\ Leads(n[2], n[2 + 1]) /\ Leads(n[3], n[3 + 1])
      BY <2>1
    <2> QED BY <2>1, <2>2
  <1>4. \A k \in 1 .. Len(w) - 1 : Leads(w[k], w[k + 1])
    BY DEF Walk
  <1>5. w[1] = n[1]
    <2>1. Inputs = {w[1]}
      BY DEF Walk
    <2> QED BY <1>3, <2>1
  <1>6. ASSUME NEW k \in 1 .. 3, k < Len(w), w[k] = n[k], Leads(n[k], n[k + 1])
        PROVE  w[k + 1] = n[k + 1]
    <2>1. Leads(n[k], w[k + 1])
      BY <1>1, <1>4, <1>6
    <2>2. w[k + 1] \in DOMAIN agent.nodes /\ n[k + 1] \in DOMAIN agent.nodes
      BY <1>1, <1>2, <1>6
    <2> QED BY <1>6, <2>1, <2>2, LeadsToOne
  <1>7. Len(w) >= 2 => w[2] = n[2]
    <2>1. Len(w) >= 2 => w[1 + 1] = n[1 + 1]
      BY <1>1, <1>3, <1>5, <1>6
    <2> QED BY <2>1
  <1>8. Len(w) >= 3 => w[3] = n[3]
    <2>1. Len(w) >= 3 => w[2 + 1] = n[2 + 1]
      BY <1>1, <1>3, <1>6, <1>7
    <2> QED BY <2>1
  <1>9. Len(w) >= 4 => w[4] = n[4]
    <2>1. Len(w) >= 4 => w[3 + 1] = n[3 + 1]
      BY <1>1, <1>3, <1>6, <1>8
    <2> QED BY <2>1
  <1>10. Len(w) <= 4
    <2> SUFFICES ASSUME Len(w) >= 5 PROVE FALSE
      BY <1>1
    <2>1. Leads(w[4], w[4 + 1])
      BY <1>1, <1>4
    <2>2. EdgesFrom(w[4]) # {}
      BY <2>1 DEF Leads
    <2> QED BY <1>3, <1>9, <2>2
  <1>11. ASSUME NEW k \in 1 .. Len(w) PROVE w[k] = n[k]
    <2>1. k \in Nat /\ k <= Len(w) /\ (k = 1 \/ k = 2 \/ k = 3 \/ k = 4)
      BY <1>1, <1>10
    <2>2. CASE k = 1
      BY <1>5, <2>2
    <2>3. CASE k = 2
      <3>1. Len(w) >= 2
        BY <1>1, <2>1, <2>3
      <3> QED BY <1>7, <2>3, <3>1
    <2>4. CASE k = 3
      <3>1. Len(w) >= 3
        BY <1>1, <2>1, <2>4
      <3> QED BY <1>8, <2>4, <3>1
    <2>5. CASE k = 4
      <3>1. Len(w) >= 4
        BY <1>1, <2>1, <2>5
      <3> QED BY <1>9, <2>5, <3>1
    <2> QED BY <2>1, <2>2, <2>3, <2>4, <2>5
  <1>12. Len(w) \in 1 .. 4
    <2>1. \A m \in Nat : m >= 1 /\ m <= 4 => m \in 1 .. 4
      OBVIOUS
    <2>2. Len(w) \in Nat /\ Len(w) >= 1
      BY <1>1
    <2> QED BY <1>10, <2>1, <2>2
  <1> QED BY <1>11, <1>12

\* A walk that ends after input, model, tool and output, and has been to every
\* node, has seen the whole graph, and it is a chain.
LEMMA SupportedIsChain ==
    ASSUME agent \in AgentSpecs, GraphIssues(agent) = {}, Walk(path), NeverTwice,
           EdgesFrom(path[Len(path)]) = {}, Supported
    PROVE  IsChain(agent)
  <1> DEFINE id(k) == agent.nodes[path[k]].id
             from(e) == agent.edges[e].source
             to(e) == agent.edges[e].target
  <1>1. IdsDiffer(agent) /\ \A e \in DOMAIN agent.edges : from(e) \in NodeIds(agent)
    BY ValidGraph DEF IdsDiffer
  <1>2. Len(path) \in Nat /\ DOMAIN path = 1 .. Len(path)
        /\ \A k \in 1 .. Len(path) : path[k] \in DOMAIN agent.nodes
    BY DEF Walk
  <1>3. Len(path) = 4
    <2> DEFINE kinds == [i \in DOMAIN path |-> agent.nodes[path[i]].kind]
    <2>1. DOMAIN kinds = 1 .. 4
      BY KindsOfPath DEF Supported
    <2>2. 1 .. Len(path) = 1 .. 4
      BY <1>2, <2>1
    <2> QED BY <1>2, <2>2
  <1>4. /\ path \in [1 .. 4 -> DOMAIN agent.nodes]
        /\ \A i \in 1 .. 4 : agent.nodes[path[i]].kind = SupportedPath[i]
    <2>1. path \in [1 .. 4 -> DOMAIN agent.nodes]
      BY <1>2, <1>3 DEF Walk
    <2>2. [i \in 1 .. 4 |-> agent.nodes[path[i]].kind] = SupportedPath
      BY <1>2, <1>3 DEF Supported
    <2>3. ASSUME NEW i \in 1 .. 4 PROVE agent.nodes[path[i]].kind = SupportedPath[i]
      <3>1. [k \in 1 .. 4 |-> agent.nodes[path[k]].kind][i] = agent.nodes[path[i]].kind
        OBVIOUS
      <3> QED BY <2>2, <3>1
    <2> QED BY <2>1, <2>3
  <1>5. /\ path[1] # path[2] /\ path[1] # path[3] /\ path[1] # path[4]
        /\ path[2] # path[3] /\ path[2] # path[4] /\ path[3] # path[4]
    BY <1>2, <1>3 DEF NeverTwice
  <1>6. /\ id(1) # id(2) /\ id(1) # id(3) /\ id(1) # id(4)
        /\ id(2) # id(3) /\ id(2) # id(4) /\ id(3) # id(4)
    BY <1>1, <1>4, <1>5 DEF IdsDiffer
  <1>7. Visited = {id(1), id(2), id(3), id(4)}
    BY <1>2, <1>3 DEF Visited, Elements
  <1>8. Len(agent.nodes) = 4
    <2>1. Visited = {id(1), id(2), id(3), id(4)} /\ Cardinality(Visited) = Len(agent.nodes)
      BY <1>7 DEF Supported
    <2> HIDE DEF id
    <2>2. Cardinality({id(1), id(2), id(3), id(4)}) = 4
      BY <1>6, FourOfSet
    <2> QED BY <2>1, <2>2
  <1>9. DOMAIN agent.nodes = {path[1], path[2], path[3], path[4]}
    <2>1. DOMAIN agent.nodes = 1 .. 4
      BY <1>8, SpecParts
    <2> QED BY <1>4, <1>5, <2>1, AllFour
  <1>10. \A k \in 1 .. 3 : Leads(path[k], path[k + 1])
    BY <1>3 DEF Walk
  <1>11. Leads(path[1], path[1 + 1]) /\ Leads(path[2], path[2 + 1]) /\ Leads(path[3], path[3 + 1])
    BY <1>10
  <1>12. PICK e1 \in DOMAIN agent.edges : EdgesFrom(path[1]) = {e1} /\ to(e1) = id(2)
    BY <1>11 DEF Leads
  <1>13. PICK e2 \in DOMAIN agent.edges : EdgesFrom(path[2]) = {e2} /\ to(e2) = id(3)
    BY <1>11 DEF Leads
  <1>14. PICK e3 \in DOMAIN agent.edges : EdgesFrom(path[3]) = {e3} /\ to(e3) = id(4)
    BY <1>11 DEF Leads
  <1>15. EdgesFrom(path[4]) = {}
    BY <1>3
  <1>16. from(e1) = id(1) /\ from(e2) = id(2) /\ from(e3) = id(3)
    BY <1>12, <1>13, <1>14 DEF EdgesFrom
  <1>17. ASSUME NEW e \in DOMAIN agent.edges PROVE e \in {e1, e2, e3}
    <2>1. PICK i \in DOMAIN agent.nodes : agent.nodes[i].id = from(e)
      BY <1>1 DEF NodeIds, Elements
    <2>2. e \in EdgesFrom(i)
      BY <2>1 DEF EdgesFrom
    <2> QED BY <1>9, <1>12, <1>13, <1>14, <1>15, <2>2
  <1>18. DOMAIN agent.edges = {e1, e2, e3} /\ e1 # e2 /\ e1 # e3 /\ e2 # e3
    BY <1>6, <1>16, <1>17
  <1>19. Len(agent.edges) = 3
    BY <1>18, SpecParts, OnlyThree
  <1>20. {<<e.source, e.target>> : e \in Elements(agent.edges)}
           = {<<agent.nodes[path[i]].id, agent.nodes[path[i + 1]].id>> : i \in 1 .. 3}
    <2>1. {<<e.source, e.target>> : e \in Elements(agent.edges)}
             = {<<from(e), to(e)>> : e \in DOMAIN agent.edges}
      BY DEF Elements
    <2>2. {<<from(e), to(e)>> : e \in DOMAIN agent.edges}
             = {<<from(e1), to(e1)>>, <<from(e2), to(e2)>>, <<from(e3), to(e3)>>}
      BY <1>18
    <2>3. {<<id(i), id(i + 1)>> : i \in 1 .. 3}
             = {<<id(1), id(2)>>, <<id(2), id(3)>>, <<id(3), id(4)>>}
      <3>1. 1 .. 3 = {1, 2, 3} /\ 1 + 1 = 2 /\ 2 + 1 = 3 /\ 3 + 1 = 4
        OBVIOUS
      <3> HIDE DEF id
      <3>2. {<<id(i), id(i + 1)>> : i \in {1, 2, 3}}
               = {<<id(1), id(1 + 1)>>, <<id(2), id(2 + 1)>>, <<id(3), id(3 + 1)>>}
        BY Zenon
      <3> QED BY <3>1, <3>2
    <2> QED BY <1>12, <1>13, <1>14, <1>16, <2>1, <2>2, <2>3
  <1> QED BY <1>4, <1>8, <1>19, <1>20 DEF IsChain

-----------------------------------------------------------------------------
(* The kernel's steps.                                                     *)

LEMMA PathIsBounded ==
    ASSUME NEW a \in AgentSpecs, NEW p \in Seq(DOMAIN a.nodes),
           \A i, j \in DOMAIN p : p[i] = p[j] => i = j
    PROVE  Len(p) <= Len(a.nodes)
  <1>1. DOMAIN a.nodes = 1 .. Len(a.nodes) /\ Len(a.nodes) \in Nat
    BY SpecParts
  <1>2. p \in Seq(1 .. Len(a.nodes))
    BY <1>1
  <1> QED BY <1>1, <1>2, NotLonger

LEMMA InvBegins == Init => IInv
  <1> SUFFICES ASSUME Init PROVE IInv
    OBVIOUS
  <1>1. agent \in AgentSpecs
    BY AgentsAssumption DEF Init
  <1>2. TypeOK /\ OnlyValidWalk /\ NeverTwice /\ PathIsWalk
    BY <1>1 DEF Init, TypeOK, OnlyValidWalk, NeverTwice, PathIsWalk
  <1>3. Len(path) <= Len(agent.nodes)
    BY <1>1, <1>2, PathIsBounded DEF TypeOK, NeverTwice
  <1>4. VerdictsAgree
    BY <1>1, <1>3, SavedIsValid DEF VerdictsAgree, Init
  <1> QED BY <1>2, <1>4 DEF IInv

LEMMA EditKeeps == ASSUME IInv, Edit PROVE IInv'
  <1>1. agent' \in AgentSpecs
    BY EditedIsSpec DEF IInv, TypeOK, Edit
  <1>2. path = <<>> /\ path' = <<>> /\ at' = "edit"
    BY DEF IInv, OnlyValidWalk, Edit
  <1>3. changes' \in Nat
    BY DEF IInv, TypeOK, Edit
  <1>4. TypeOK' /\ OnlyValidWalk' /\ NeverTwice' /\ PathIsWalk'
    BY <1>1, <1>2, <1>3 DEF TypeOK, OnlyValidWalk, NeverTwice, PathIsWalk
  <1>5. Len(path') <= Len(agent'.nodes)
    BY <1>1, <1>2, SpecParts
  <1>6. VerdictsAgree'
    BY <1>1, <1>2, <1>5, SavedIsValid DEF VerdictsAgree
  <1> QED BY <1>4, <1>6 DEF IInv

\* A step of the kernel leaves the graph as it is.
LEMMA KernelKeeps ==
    ASSUME IInv, UNCHANGED <<agent, changes>>, TypeOK', OnlyValidWalk', NeverTwice', PathIsWalk',
           at' = "done" =>
             outcome' = IF GraphIssues(agent) # {} THEN "agent_spec_invalid"
                        ELSE IF IsChain(agent) THEN "executable" ELSE "unsupported_graph_shape"
    PROVE  IInv'
  <1>1. agent' \in AgentSpecs
    BY DEF TypeOK
  <1>2. Len(path') <= Len(agent'.nodes)
    <2>1. /\ agent' \in AgentSpecs /\ path' \in Seq(DOMAIN agent'.nodes)
          /\ \A i, j \in DOMAIN path' : path'[i] = path'[j] => i = j
      BY DEF TypeOK, NeverTwice
    <2> QED BY <2>1, PathIsBounded
  <1>3. VerdictsAgree'
    BY <1>1, <1>2, SavedIsValid DEF VerdictsAgree
  <1> QED BY <1>3 DEF IInv

LEMMA ValidateKeeps == ASSUME IInv, Validate PROVE IInv'
  <1>1. UNCHANGED <<agent, changes, path>> /\ path = <<>>
    BY DEF Validate, IInv, OnlyValidWalk
  <1>2. \/ at' = "start" /\ GraphIssues(agent) = {}
        \/ at' = "done" /\ GraphIssues(agent) # {} /\ outcome' = "agent_spec_invalid"
    BY DEF Validate, Goes, Finish
  <1>3. TypeOK' /\ OnlyValidWalk' /\ NeverTwice' /\ PathIsWalk'
    BY <1>1, <1>2 DEF IInv, TypeOK, OnlyValidWalk, NeverTwice, PathIsWalk
  <1> QED BY <1>1, <1>2, <1>3, KernelKeeps

LEMMA OneOfOne ==
    ASSUME NEW S, IsFiniteSet(S), NEW x \in S, ~ (Cardinality(S) > 1)
    PROVE  S = {x}
  <1>1. IsFiniteSet({x}) /\ Cardinality({x}) = 1
    BY FS_Singleton
  <1>2. {x} \in SUBSET S
    OBVIOUS
  <1>3. Cardinality({x}) <= Cardinality(S) /\ (Cardinality(S) = Cardinality({x}) => S = {x})
    BY <1>2, FS_Subset
  <1>4. Cardinality(S) \in Nat
    BY FS_CardinalityType
  <1> QED BY <1>1, <1>3, <1>4

\* A chain has one input.
LEMMA ChainHasInput ==
    ASSUME agent \in AgentSpecs, GraphIssues(agent) = {}, IsChain(agent)
    PROVE  Cardinality(Inputs) = 1
  <1>1. IdsDiffer(agent)
    BY ValidGraph DEF IdsDiffer
  <1>2. PICK n : Chained(n)
    BY DEF IsChain, Chained
  <1>3. Inputs = {n[1]}
    BY <1>1, <1>2, ChainLeads DEF IsChain
  <1> QED BY <1>3, FS_Singleton

LEMMA StartWalkKeeps == ASSUME IInv, StartWalk PROVE IInv'
  <1>1. /\ agent \in AgentSpecs /\ GraphIssues(agent) = {} /\ path = <<>>
        /\ UNCHANGED <<agent, changes, path>>
    BY DEF StartWalk, IInv, TypeOK, OnlyValidWalk
  <1>2. \A e \in Elements(agent.edges) : e.source \in NodeIds(agent)
    BY <1>1, ValidGraph DEF Elements
  <1>3. CASE Cardinality(Inputs) # 1
    <2>1. at' = "done" /\ outcome' = "unsupported_graph_shape" /\ UNCHANGED current
      BY <1>2, <1>3 DEF StartWalk, Unsupported, Finish
    <2>2. ~ IsChain(agent)
      BY <1>1, <1>3, ChainHasInput
    <2>3. TypeOK' /\ OnlyValidWalk' /\ NeverTwice' /\ PathIsWalk'
      BY <1>1, <2>1 DEF IInv, TypeOK, OnlyValidWalk, NeverTwice, PathIsWalk
    <2> QED BY <1>1, <2>1, <2>2, <2>3, KernelKeeps
  <1>4. CASE Cardinality(Inputs) = 1
    <2>1. at' = "walk" /\ current' \in Inputs
      BY <1>2, <1>4 DEF StartWalk, Goes
    <2>2. IsFiniteSet(DOMAIN agent.nodes)
      BY <1>1, SpecParts, Counted
    <2>3. IsFiniteSet(Inputs)
      BY <2>2, FS_Subset DEF Inputs
    <2>4. Inputs = {current'}
      BY <1>4, <2>1, <2>3, OneOfOne
    <2>5. current' \in DOMAIN agent.nodes /\ Inputs' = Inputs
      BY <1>1, <2>1 DEF Inputs
    <2>6. TypeOK' /\ OnlyValidWalk' /\ NeverTwice'
      BY <1>1, <2>1, <2>5 DEF IInv, TypeOK, OnlyValidWalk, NeverTwice
    <2>7. PathIsWalk'
      BY <1>1, <2>1, <2>4, <2>5 DEF PathIsWalk
    <2> QED BY <1>1, <2>1, <2>6, <2>7, KernelKeeps
  <1> QED BY <1>3, <1>4

\* What PathIsWalk says while the kernel walks, and when it has.
LEMMA WalkSays ==
    ASSUME IInv
    PROVE  /\ at = "walk" => Walk(Append(path, current))
           /\ at \in {"kinds", "resolve"} => Walk(path) /\ EdgesFrom(path[Len(path)]) = {}
  <1>1. path \in Seq(DOMAIN agent.nodes) /\ Len(path) \in Nat
    BY DEF IInv, TypeOK
  <1>2. ASSUME at = "walk" PROVE Walk(Append(path, current))
    <2> DEFINE w == Append(path, current)
    <2>1. current \in DOMAIN agent.nodes
      BY <1>2 DEF IInv, TypeOK
    <2>2. /\ w \in Seq(DOMAIN agent.nodes) /\ Len(w) = Len(path) + 1 /\ w # <<>>
          /\ w[Len(path) + 1] = current
          /\ \A k \in 1 .. Len(path) : w[k] = path[k]
      BY <1>1, <2>1
    <2>3. Inputs = {w[1]}
      <3>1. CASE path = <<>>
        <4>1. Inputs = {current} /\ Len(path) + 1 = 1
          BY <1>2, <3>1 DEF IInv, PathIsWalk
        <4> QED BY <2>2, <4>1
      <3>2. CASE path # <<>>
        <4>1. Inputs = {path[1]} /\ 1 \in 1 .. Len(path)
          BY <1>1, <1>2, <3>2 DEF IInv, PathIsWalk
        <4> QED BY <2>2, <4>1
      <3> QED BY <3>1, <3>2
    <2> HIDE DEF w
    <2>4. ASSUME NEW k \in 1 .. Len(w) - 1 PROVE Leads(w[k], w[k + 1])
      <3>1. k \in 1 .. Len(path) /\ w[k] = path[k]
        BY <1>1, <2>2
      <3>2. CASE k = Len(path)
        <4>1. Leads(path[Len(path)], current)
          BY <1>1, <1>2, <3>1, <3>2 DEF IInv, PathIsWalk
        <4> QED BY <2>2, <3>1, <3>2, <4>1
      <3>3. CASE k # Len(path)
        <4>1. k \in 1 .. Len(path) - 1 /\ k + 1 \in 1 .. Len(path)
          BY <1>1, <3>1, <3>3
        <4>2. Leads(path[k], path[k + 1])
          BY <1>2, <4>1 DEF IInv, PathIsWalk
        <4> QED BY <2>2, <3>1, <4>1, <4>2
      <3> QED BY <3>2, <3>3
    <2> QED BY <2>2, <2>3, <2>4 DEF Walk, w
  <1>3. ASSUME at \in {"kinds", "resolve"}
        PROVE  Walk(path) /\ EdgesFrom(path[Len(path)]) = {}
    BY <1>1, <1>3 DEF IInv, PathIsWalk, Walk
  <1> QED BY <1>2, <1>3

\* In a chain, the node a walk has come to is not one it has been to, and it
\* has one edge, or it is the fourth and has none.
LEMMA ChainGoesOn ==
    ASSUME agent \in AgentSpecs, GraphIssues(agent) = {}, IsChain(agent), NEW w, Walk(w)
    PROVE  /\ \A k \in 1 .. Len(w) - 1 : w[k] # w[Len(w)]
           /\ Cardinality(EdgesFrom(w[Len(w)])) <= 1
           /\ EdgesFrom(w[Len(w)]) = {} => Len(w) = 4
           /\ \A k \in 1 .. Len(w) : agent.nodes[w[k]].kind = SupportedPath[k]
  <1>1. IdsDiffer(agent)
    BY ValidGraph DEF IdsDiffer
  <1>2. PICK n : Chained(n)
    BY DEF IsChain, Chained
  <1>3. Len(w) \in 1 .. 4 /\ \A k \in 1 .. Len(w) : w[k] = n[k]
    BY <1>1, <1>2, WalkOfChain DEF IsChain
  <1>4. /\ n[1] # n[2] /\ n[1] # n[3] /\ n[1] # n[4]
        /\ n[2] # n[3] /\ n[2] # n[4] /\ n[3] # n[4]
        /\ \A i \in 1 .. 3 : Leads(n[i], n[i + 1])
        /\ EdgesFrom(n[4]) = {}
    BY <1>1, <1>2, ChainLeads DEF IsChain
  <1>5. ASSUME NEW i \in 1 .. 4, NEW j \in 1 .. 4, i # j PROVE n[i] # n[j]
    <2>1. (i = 1 \/ i = 2 \/ i = 3 \/ i = 4) /\ (j = 1 \/ j = 2 \/ j = 3 \/ j = 4)
      OBVIOUS
    <2> QED BY <1>4, <1>5, <2>1
  <1>6. ASSUME NEW k \in 1 .. Len(w) - 1 PROVE w[k] # w[Len(w)]
    <2>1. k \in 1 .. 4 /\ Len(w) \in 1 .. 4 /\ k # Len(w) /\ k \in 1 .. Len(w)
          /\ Len(w) \in 1 .. Len(w)
      BY <1>3
    <2> QED BY <1>3, <1>5, <2>1
  <1>7. w[Len(w)] = n[Len(w)]
    BY <1>3
  <1>8. Cardinality(EdgesFrom(n[4])) <= 1
    BY <1>4, FS_EmptySet
  <1>9. ASSUME NEW i \in 1 .. 3
        PROVE  EdgesFrom(n[i]) # {} /\ Cardinality(EdgesFrom(n[i])) <= 1
    <2>1. PICK e : EdgesFrom(n[i]) = {e}
      BY <1>4 DEF Leads
    <2>2. Cardinality({e}) = 1
      BY FS_Singleton
    <2> QED BY <2>1, <2>2
  <1>10. Len(w) = 4 \/ Len(w) \in 1 .. 3
    BY <1>3
  <1>11. ASSUME NEW k \in 1 .. Len(w) PROVE agent.nodes[w[k]].kind = SupportedPath[k]
    <2>1. k \in 1 .. 4 /\ w[k] = n[k]
      BY <1>3
    <2> QED BY <1>2, <2>1 DEF Chained
  <1> QED BY <1>6, <1>7, <1>8, <1>9, <1>10, <1>11

\* A step that leaves the graph, and ends in a walk.
LEMMA WalkGoesOn ==
    ASSUME agent' = agent, Walk(path'),
           \/ at' = "walk" /\ Leads(path'[Len(path')], current')
           \/ at' = "kinds" /\ EdgesFrom(path'[Len(path')]) = {}
           \/ at' = "resolve" /\ EdgesFrom(path'[Len(path')]) = {} /\ Supported'
    PROVE  PathIsWalk'
  <1>1. /\ Inputs' = Inputs /\ path' # <<>> /\ Inputs = {path'[1]}
        /\ \A k \in 1 .. Len(path') - 1 : Leads(path'[k], path'[k + 1])
    BY DEF Walk, Inputs
  <1>2. EdgesFrom(path[Len(path)])' = EdgesFrom(path'[Len(path')])
    BY DEF EdgesFrom
  <1>3. Leads(path[Len(path)], current)' <=> Leads(path'[Len(path')], current')
    BY DEF Leads, EdgesFrom
  <1>4. \A k : Leads(path[k], path[k + 1])' <=> Leads(path'[k], path'[k + 1])
    BY DEF Leads, EdgesFrom
  <1> QED BY <1>1, <1>2, <1>3, <1>4 DEF PathIsWalk

\* The kernel gives a graph up that is no chain.
LEMMA GivesUp ==
    ASSUME IInv, UNCHANGED <<agent, changes>>, GraphIssues(agent) = {}, ~ IsChain(agent),
           at' = "done", outcome' = "unsupported_graph_shape",
           path' \in Seq(DOMAIN agent.nodes), NeverTwice'
    PROVE  IInv'
  <1>1. TypeOK' /\ OnlyValidWalk' /\ PathIsWalk'
    BY DEF IInv, TypeOK, OnlyValidWalk, PathIsWalk
  <1> QED BY <1>1, KernelKeeps

LEMMA FollowKeeps == ASSUME IInv, Follow PROVE IInv'
  <1> DEFINE w == Append(path, current)
             last == w[Len(w)]
  <1>1. /\ at = "walk" /\ agent \in AgentSpecs /\ GraphIssues(agent) = {} /\ Walk(w)
        /\ path \in Seq(DOMAIN agent.nodes) /\ Len(path) \in Nat
        /\ current \in DOMAIN agent.nodes /\ NeverTwice
        /\ UNCHANGED <<agent, changes>>
    BY WalkSays DEF Follow, IInv, TypeOK, OnlyValidWalk
  <1>2. /\ w \in Seq(DOMAIN agent.nodes) /\ Len(w) = Len(path) + 1 /\ last = current
        /\ DOMAIN path = 1 .. Len(path) /\ DOMAIN w = 1 .. Len(path) + 1
        /\ \A k \in 1 .. Len(path) : w[k] = path[k] /\ path[k] \in DOMAIN agent.nodes
    BY <1>1
  <1>3. IdsDiffer(agent) /\ \A e \in DOMAIN agent.edges : agent.edges[e].target \in NodeIds(agent)
    BY <1>1, ValidGraph DEF IdsDiffer
  <1>4. IsChain(agent) => /\ \A k \in 1 .. Len(path) : path[k] # current
                          /\ Cardinality(EdgesFrom(current)) <= 1
    <2> SUFFICES ASSUME IsChain(agent)
                 PROVE  /\ \A k \in 1 .. Len(path) : path[k] # current
                        /\ Cardinality(EdgesFrom(current)) <= 1
      OBVIOUS
    <2> HIDE DEF w
    <2>1. /\ \A k \in 1 .. Len(w) - 1 : w[k] # w[Len(w)]
          /\ Cardinality(EdgesFrom(w[Len(w)])) <= 1
      BY <1>1, ChainGoesOn
    <2>2. Len(w) - 1 = Len(path)
      BY <1>1, <1>2
    <2> QED BY <1>2, <2>1, <2>2
  <1>5. CASE agent.nodes[current].id \in Visited
    <2>1. at' = "done" /\ outcome' = "unsupported_graph_shape" /\ path' = path
      BY <1>5 DEF Follow, Unsupported, Finish
    <2>2. PICK k \in 1 .. Len(path) : agent.nodes[path[k]].id = agent.nodes[current].id
      BY <1>2, <1>5 DEF Visited, Elements
    <2>3. ~ IsChain(agent)
      BY <1>1, <1>2, <1>3, <1>4, <2>2 DEF IdsDiffer
    <2>4. NeverTwice'
      BY <1>1, <2>1 DEF NeverTwice
    <2> QED BY <1>1, <2>1, <2>3, <2>4, GivesUp
  <1>6. CASE agent.nodes[current].id \notin Visited
    <2>1. path' = w
      BY <1>6 DEF Follow
    <2>2. \A k \in 1 .. Len(path) : path[k] # current
      BY <1>2, <1>6 DEF Visited, Elements
    <2>3. \A k \in 1 .. Len(w) : k \in 1 .. Len(path) \/ k = Len(w)
      BY <1>1, <1>2
    <2>4. NeverTwice'
      <3> SUFFICES ASSUME NEW i \in 1 .. Len(w), NEW j \in 1 .. Len(w), w[i] = w[j]
                   PROVE  i = j
        BY <1>2, <2>1 DEF NeverTwice
      <3> HIDE DEF w
      <3>1. i \in 1 .. Len(path) \/ i = Len(w)
        BY <2>3
      <3>2. j \in 1 .. Len(path) \/ j = Len(w)
        BY <2>3
      <3> QED BY <1>1, <1>2, <2>2, <3>1, <3>2 DEF NeverTwice
    <2>5. CASE Cardinality(EdgesFrom(current)) > 1
      <3>1. at' = "done" /\ outcome' = "unsupported_graph_shape"
        BY <1>6, <2>5 DEF Follow, Unsupported, Finish
      <3>2. ~ IsChain(agent)
        <4>1. IsFiniteSet(DOMAIN agent.edges)
          BY <1>1, SpecParts, Counted
        <4>2. IsFiniteSet(EdgesFrom(current))
          BY <4>1, FS_Subset DEF EdgesFrom
        <4>3. Cardinality(EdgesFrom(current)) \in Nat
          BY <4>2, FS_CardinalityType
        <4> QED BY <1>4, <2>5, <4>3
      <3> QED BY <1>1, <1>2, <2>1, <2>4, <3>1, <3>2, GivesUp
    <2>6. CASE ~ (Cardinality(EdgesFrom(current)) > 1) /\ EdgesFrom(current) = {}
      <3>1. at' = "kinds"
        BY <1>6, <2>6 DEF Follow, Goes
      <3>2. TypeOK' /\ OnlyValidWalk'
        BY <1>1, <1>2, <2>1, <3>1 DEF IInv, TypeOK, OnlyValidWalk
      <3>3. PathIsWalk'
        <4>1. Walk(path') /\ EdgesFrom(path'[Len(path')]) = {}
          BY <1>1, <1>2, <2>1, <2>6
        <4> QED BY <1>1, <3>1, <4>1, WalkGoesOn
      <3> QED BY <1>1, <2>4, <3>1, <3>2, <3>3, KernelKeeps
    <2>7. CASE ~ (Cardinality(EdgesFrom(current)) > 1) /\ EdgesFrom(current) # {}
      <3>1. PICK e \in EdgesFrom(current) :
              at' = "walk" /\ current' = ById(agent, agent.edges[e].target)
        <4>1. \A e \in EdgesFrom(current) : agent.edges[e].target \in NodeIds(agent)
          BY <1>3 DEF EdgesFrom
        <4> QED BY <1>6, <2>7, <4>1 DEF Follow, Goes
      <3>2. e \in DOMAIN agent.edges
        BY DEF EdgesFrom
      <3>3. current' \in DOMAIN agent.nodes
            /\ agent.nodes[current'].id = agent.edges[e].target
        BY <1>1, <1>3, <3>1, <3>2, ByIdFinds
      <3>4. EdgesFrom(current) = {e}
        <4>1. IsFiniteSet(DOMAIN agent.edges)
          BY <1>1, SpecParts, Counted
        <4>2. IsFiniteSet(EdgesFrom(current))
          BY <4>1, FS_Subset DEF EdgesFrom
        <4> QED BY <2>7, <4>2, OneOfOne
      <3>5. Leads(current, current')
        BY <3>2, <3>3, <3>4 DEF Leads
      <3>6. TypeOK' /\ OnlyValidWalk'
        BY <1>1, <1>2, <2>1, <3>1, <3>3 DEF IInv, TypeOK, OnlyValidWalk
      <3>7. PathIsWalk'
        <4>1. Walk(path') /\ Leads(path'[Len(path')], current')
          BY <1>1, <1>2, <2>1, <3>5
        <4> QED BY <1>1, <3>1, <4>1, WalkGoesOn
      <3> QED BY <1>1, <2>4, <3>1, <3>6, <3>7, KernelKeeps
    <2> QED BY <2>5, <2>6, <2>7
  <1> QED BY <1>5, <1>6

\* Of a chain the walk has been to four nodes, of the kinds the kernel asks for.
LEMMA ChainIsSupported ==
    ASSUME agent \in AgentSpecs, GraphIssues(agent) = {}, IsChain(agent), NeverTwice,
           Walk(path), EdgesFrom(path[Len(path)]) = {}
    PROVE  Supported
  <1> DEFINE id(k) == agent.nodes[path[k]].id
             kinds == [i \in DOMAIN path |-> agent.nodes[path[i]].kind]
  <1>1. Len(path) = 4 /\ \A k \in 1 .. 4 : agent.nodes[path[k]].kind = SupportedPath[k]
    BY ChainGoesOn
  <1>2. DOMAIN path = 1 .. 4 /\ \A k \in 1 .. 4 : path[k] \in DOMAIN agent.nodes
    <2>1. DOMAIN path = 1 .. Len(path) /\ \A k \in 1 .. Len(path) : path[k] \in DOMAIN agent.nodes
      BY DEF Walk
    <2> QED BY <1>1, <2>1
  <1>3. kinds = SupportedPath
    <2>1. SupportedPath = [k \in 1 .. 4 |-> SupportedPath[k]]
      BY DEF SupportedPath
    <2>2. kinds = [k \in 1 .. 4 |-> SupportedPath[k]]
      BY <1>1, <1>2
    <2> QED BY <2>1, <2>2
  <1>4. IdsDiffer(agent)
    BY ValidGraph DEF IdsDiffer
  <1>5. /\ path[1] # path[2] /\ path[1] # path[3] /\ path[1] # path[4]
        /\ path[2] # path[3] /\ path[2] # path[4] /\ path[3] # path[4]
    BY <1>2 DEF NeverTwice
  <1>6. /\ id(1) # id(2) /\ id(1) # id(3) /\ id(1) # id(4)
        /\ id(2) # id(3) /\ id(2) # id(4) /\ id(3) # id(4)
    BY <1>2, <1>4, <1>5 DEF IdsDiffer
  <1>7. Visited = {id(1), id(2), id(3), id(4)}
    BY <1>2 DEF Visited, Elements
  <1>8. Cardinality(Visited) = 4
    <2> HIDE DEF id
    <2>1. Cardinality({id(1), id(2), id(3), id(4)}) = 4
      BY <1>6, FourOfSet
    <2> QED BY <1>7, <2>1
  <1> QED BY <1>3, <1>8 DEF Supported, IsChain

LEMMA CheckKindsKeeps == ASSUME IInv, CheckKinds PROVE IInv'
  <1>1. /\ at = "kinds" /\ agent \in AgentSpecs /\ GraphIssues(agent) = {} /\ NeverTwice
        /\ Walk(path) /\ EdgesFrom(path[Len(path)]) = {}
        /\ path \in Seq(DOMAIN agent.nodes)
        /\ UNCHANGED <<agent, changes, current, path>>
    BY WalkSays DEF CheckKinds, IInv, TypeOK, OnlyValidWalk
  <1>2. NeverTwice'
    BY <1>1 DEF NeverTwice
  <1>3. CASE Supported
    <2>1. at' = "resolve"
      BY <1>3 DEF CheckKinds, Goes
    <2>2. Supported'
      BY <1>1, <1>3 DEF Supported, Visited
    <2>3. TypeOK' /\ OnlyValidWalk'
      BY <1>1, <2>1 DEF IInv, TypeOK, OnlyValidWalk
    <2>4. PathIsWalk'
      <3>1. path' = path /\ Walk(path') /\ EdgesFrom(path'[Len(path')]) = {}
        BY <1>1
      <3> QED BY <1>1, <2>1, <2>2, <3>1, WalkGoesOn
    <2> QED BY <1>1, <1>2, <2>1, <2>3, <2>4, KernelKeeps
  <1>4. CASE ~ Supported
    <2>1. at' = "done" /\ outcome' = "unsupported_graph_shape"
      BY <1>4 DEF CheckKinds, Unsupported, Finish
    <2>2. ~ IsChain(agent)
      BY <1>1, <1>4, ChainIsSupported
    <2> QED BY <1>1, <1>2, <2>1, <2>2, GivesUp
  <1> QED BY <1>3, <1>4

\* The lookups of the profile and of the tool find what validation found.
LEMMA ResolveKeeps == ASSUME IInv, Resolve PROVE IInv'
  <1>1. /\ at = "resolve" /\ agent \in AgentSpecs /\ GraphIssues(agent) = {} /\ NeverTwice
        /\ Walk(path) /\ EdgesFrom(path[Len(path)]) = {} /\ Supported
        /\ path \in Seq(DOMAIN agent.nodes)
        /\ UNCHANGED <<agent, changes, current, path>>
    BY WalkSays DEF Resolve, IInv, TypeOK, OnlyValidWalk, PathIsWalk
  <1>2. IsChain(agent)
    BY <1>1, SupportedIsChain
  <1>3. Len(path) = 4 /\ \A k \in 1 .. 4 : /\ agent.nodes[path[k]].kind = SupportedPath[k]
                                          /\ path[k] \in DOMAIN agent.nodes
    <2>1. Len(path) = 4 /\ \A k \in 1 .. Len(path) : agent.nodes[path[k]].kind = SupportedPath[k]
      BY <1>1, <1>2, ChainGoesOn
    <2>2. \A k \in 1 .. Len(path) : path[k] \in DOMAIN agent.nodes
      <3>1. path \in Seq(DOMAIN agent.nodes)
        BY <1>1
      <3>2. DOMAIN path = 1 .. Len(path) /\ path \in [1 .. Len(path) -> DOMAIN agent.nodes]
        BY <3>1
      <3> QED BY <3>2
    <2> QED BY <2>1, <2>2
  <1>4. agent.nodes[path[2]].profile \in agent.profiles
    <2>1. PICK n \in NodeRecords : n = agent.nodes[path[2]]
      BY <1>1, <1>3, SpecParts
    <2>2. n.kind = "model" /\ n \in Elements(agent.nodes)
      BY <1>3, <2>1, KindsOfPath DEF Elements
    <2>3. n.profile # "absent"
      BY <2>2 DEF NodeRecords
    <2>4. n.profile \in Profiles(agent)
      BY <2>2, <2>3 DEF Profiles
    <2> QED BY <1>1, <2>1, <2>4, ValidGraph
  <1>5. agent.nodes[path[3]].tool \in agent.tools
    <2>1. PICK n \in NodeRecords : n = agent.nodes[path[3]]
      BY <1>1, <1>3, SpecParts
    <2>2. n.kind = "tool" /\ n \in Elements(agent.nodes)
      BY <1>3, <2>1, KindsOfPath DEF Elements
    <2>3. n.tool # "absent"
      BY <2>2 DEF NodeRecords
    <2>4. n.tool \in Tools(agent)
      BY <2>2, <2>3 DEF Tools
    <2> QED BY <1>1, <2>1, <2>4, ValidGraph
  <1>6. at' = "done" /\ outcome' = "executable"
    BY <1>4, <1>5 DEF Resolve, Finish
  <1>7. TypeOK' /\ OnlyValidWalk' /\ NeverTwice' /\ PathIsWalk'
    BY <1>1, <1>6 DEF IInv, TypeOK, OnlyValidWalk, NeverTwice, PathIsWalk
  <1> QED BY <1>1, <1>2, <1>6, <1>7, KernelKeeps

LEMMA StutterKeeps == ASSUME IInv, UNCHANGED vars PROVE IInv'
  <1>1. TypeOK' /\ OnlyValidWalk' /\ NeverTwice'
    BY DEF vars, IInv, TypeOK, OnlyValidWalk, NeverTwice
  <1>2. PathIsWalk'
    BY DEF vars, IInv, PathIsWalk, Inputs, Leads, EdgesFrom, Supported, Visited
  <1>3. agent' = agent /\ at' = at /\ outcome' = outcome /\ changes' = changes
    BY DEF vars
  <1> QED BY <1>1, <1>2, <1>3, KernelKeeps DEF IInv, VerdictsAgree

LEMMA NextKeeps == IInv /\ [Next]_vars => IInv'
  BY EditKeeps, ValidateKeeps, StartWalkKeeps, FollowKeeps, CheckKindsKeeps, ResolveKeeps,
     StutterKeeps DEF Next

-----------------------------------------------------------------------------
\* Whatever the graph, the kernel walks only one that is valid, never comes to
\* a node twice, and its path is where the edges lead from the one input
\* (draft_service.py, contracts/validation.py and the kernel's graph.py).
THEOREM GraphInvariant == Spec => []IInv
  BY InvBegins, NextKeeps, PTL DEF Spec

\* The three places agree, for AgentSpecs of any size: the API saves what the
\* contract calls valid and is of the draft's own agent, the kernel's walk ends within the number of nodes and
\* fails no lookup, and it accepts exactly the graphs that are one chain.
THEOREM ThreePlacesAgree == Spec => []VerdictsAgree
  <1>1. IInv => VerdictsAgree
    BY DEF IInv
  <1> QED BY <1>1, GraphInvariant, PTL

=============================================================================
