------------------------------ MODULE Communities ------------------------------
(***************************************************************************)
(* How discovery groups the files of a source (docker/indexer/discover.py, *)
(* build_graph to build_group): copies fold into documents, evidence that  *)
(* two documents belong together combines to the strength of a link, and   *)
(* the communities of the link graph that hold enough different documents  *)
(* are the groups.                                                         *)
(*                                                                         *)
(* What is evidence is given by constants, in tenths; the strength of a    *)
(* link is in per cents.                                                   *)
(***************************************************************************)
EXTENDS Integers, SequencesExt

CONSTANTS
    Path,           \* Path[f] \in Nat: the files in the order of their paths, the newest copy first
    Copy,           \* Copy[f]: what a file is a backup copy or a sidecar of
    Base,           \* Base[f]: its name less version words
    Shared,         \* Shared[t][u]: the strength of the names two texts share
    RefersTo,       \* RefersTo[t]: the base names a text refers to
    Close,          \* Close[t][u]: the strength of two meanings
    Near,           \* pairs of files of one folder or week
    LinkMin, LinksPerNode, MinDocuments, MaxSize,
    Resolutions     \* of the partitions, coarse to fine

ASSUME CommunitiesAssumption ==
    /\ \A f, g \in DOMAIN Path : Path[f] \in Nat /\ (Path[f] = Path[g] => f = g)
    /\ Len(Resolutions) \in Nat \ {0}

\* The function f; comparing it makes TLC evaluate it once.
Table(f) == IF f = f THEN f ELSE f

\* fold_nodes: each document stands for its copies.
Nodes(files) == {f \in files : \A g \in files : Copy[g] = Copy[f] => Path[f] <= Path[g]}
Members(nodes, files) == {f \in files : \E n \in nodes : Copy[n] = Copy[f]}

-------------------------------------------------------------------------------
(* The link graph. *)

\* The signals of two documents that say t and u and mean v and w.
Signals(a, b, t, u, v, w) ==
    <<Shared[t][u],
      IF Base[a] = Base[b] THEN 9 ELSE 0,
      IF Base[b] \in RefersTo[t] THEN 8 ELSE 0,
      IF Base[a] \in RefersTo[u] THEN 8 ELSE 0,
      Close[v][w]>>

\* Graph.combine: independent evidence; time and place only add to it.
Strength(signals, near) ==
    LET doubt == FoldLeft(LAMBDA d, s : d * (10 - s), 1, signals)
        all == 10 ^ Len(signals)
    IN  IF doubt = all THEN 0
        ELSE IF near THEN 100 - (doubt * 90) \div all ELSE 100 - (doubt * 100) \div all

\* The strongest links of each document, among those that begin or end with it.
Kept(strengths, pairs) ==
    LET earlier(q, p) == \/ Path[q[1]] < Path[p[1]]
                         \/ q[1] = p[1] /\ Path[q[2]] < Path[p[2]]
        before(q, p) == strengths[q] > strengths[p] \/ (strengths[q] = strengths[p] /\ earlier(q, p))
        rank(p, end) == Cardinality({q \in pairs : q[end] = p[end] /\ before(q, p)})
    IN  {p \in pairs : \E end \in {1, 2} : rank(p, end) < LinksPerNode}

\* Graph.link: the links between documents, each as a pair in the order of paths.
Linked(nodes, says, means) ==
    LET pairs == {p \in nodes \X nodes : Path[p[1]] < Path[p[2]]}
        signals(p) == Signals(p[1], p[2], says[p[1]], says[p[2]], means[p[1]], means[p[2]])
        strengths == Table([p \in pairs |-> Strength(signals(p), p \in Near)])
        strong == Kept(strengths, {p \in pairs : strengths[p] >= LinkMin})
    IN  Table([p \in strong |-> strengths[p]])

\* Graph.adjacency
Adjacency(links) ==
    LET ends == UNION {{p[1], p[2]} : p \in DOMAIN links} IN
    Table([a \in ends |-> Table([b \in ends |->
        IF <<a, b>> \in DOMAIN links THEN links[<<a, b>>]
        ELSE IF <<b, a>> \in DOMAIN links THEN links[<<b, a>>] ELSE 0])])

-------------------------------------------------------------------------------
(* Louvain communities: comm[u] is the community of a node. *)

Degree(graph, u) == MapThenSumSet(LAMBDA v : graph[u][v], DOMAIN graph)
Volume(graph, nodes) == MapThenSumSet(LAMBDA u : Degree(graph, u), nodes)

\* What a node gains by being in a community, times the weight of the graph.
GainFrom(graph, gamma, u, others) ==
    MapThenSumSet(LAMBDA v : graph[u][v], others) * Volume(graph, DOMAIN graph)
        - gamma * Volume(graph, others) * Degree(graph, u)
Gains(graph, gamma, comm, u, cs) ==
    Table([c \in cs |-> GainFrom(graph, gamma, u, {v \in DOMAIN graph \ {u} : comm[v] = c})])

\* To the first of the neighbouring communities that gains most, if it gains more.
Around(graph, comm, u) == {comm[v] : v \in {v \in DOMAIN graph \ {u} : graph[u][v] > 0}}
Most(near, gain, own) == {c \in near : gain[c] > gain[own] /\ \A d \in near : gain[c] >= gain[d]}
To(comm, u, best) ==
    IF best = {} THEN comm ELSE [comm EXCEPT ![u] = CHOOSE c \in best : \A d \in best : Path[c] <= Path[d]]
Move(graph, gamma, comm, u, near) ==
    To(comm, u, Most(near, Gains(graph, gamma, comm, u, near \cup {comm[u]}), comm[u]))

InOrder(nodes) == SetToSortSeq(nodes, LAMBDA a, b : Path[a] < Path[b])
PassOver(graph, gamma, comm) ==
    FoldLeft(LAMBDA c, u : Move(graph, gamma, c, u, Around(graph, c, u)), comm, InOrder(DOMAIN graph))

\* What f makes of its argument in n steps, or in fewer if nothing changes.
Repeat(f, before, after, n) == IF after = before \/ n = 1 THEN after ELSE f[after, n - 1]

\* _one_level: passes over the nodes until nothing moves, at most fifty.
OneLevel(graph, gamma) ==
    LET pass[comm \in [DOMAIN graph -> DOMAIN graph], passes \in 1..50] ==
            Repeat(pass, comm, PassOver(graph, gamma, comm), passes)
    IN  pass[[u \in DOMAIN graph |-> u], 50]

\* The graph of the communities; a community's inner weight counts both ways.
Within(graph, comm, c) == {u \in DOMAIN graph : comm[u] = c}
Weight(graph, from, to) == MapThenSumSet(LAMBDA u : MapThenSumSet(LAMBDA v : graph[u][v], to), from)
Between(graph, comm, ends) ==
    Table([c \in ends |-> Table([d \in ends |-> Weight(graph, Within(graph, comm, c), Within(graph, comm, d))])])
Merged(graph, comm) == Between(graph, comm, {comm[u] : u \in DOMAIN graph})

\* louvain: the communities become nodes, level by level; a level that changes
\* nothing is the last that does.
Composed(comm, level) == Table([u \in DOMAIN comm |-> level[comm[u]]])
NextLevel(graph, gamma, comm) == Composed(comm, OneLevel(Merged(graph, comm), gamma))
Parts(comm) == {{u \in DOMAIN comm : comm[u] = c} : c \in {comm[u] : u \in DOMAIN comm}}
Partition(graph, gamma) ==
    LET comm[n \in 0..20] ==
            IF n = 0 THEN Table([u \in DOMAIN graph |-> u]) ELSE NextLevel(graph, gamma, comm[n - 1])
    IN  Parts(comm[20])

\* communities: those that are too big are split again, level by level, and cut
\* in the end, or at once if nothing splits them.
Cut(adjacency, nodes) ==
    LET inner(u) == MapThenSumSet(LAMBDA v : adjacency[u][v], nodes)
        before(u, v) == inner(u) > inner(v) \/ (inner(u) = inner(v) /\ Path[u] < Path[v])
    IN  {u \in nodes : Cardinality({v \in nodes : before(v, u)}) < MaxSize}

Inner(adjacency, nodes) == Table([u \in nodes |-> Table([v \in nodes |-> adjacency[u][v]])])
Split(adjacency, nodes, level) ==
    LET parts == Partition(Inner(adjacency, nodes), Resolutions[level]) IN
    IF Cardinality(nodes) <= MaxSize THEN {nodes}
    ELSE IF Cardinality(parts) = 1 THEN {Cut(adjacency, nodes)} ELSE parts

Communities(adjacency) ==
    LET pieces[level \in 1..Len(Resolutions)] ==
            IF level = 1 THEN Partition(adjacency, Resolutions[1])
            ELSE UNION {Split(adjacency, nodes, level) : nodes \in pieces[level - 1]}
    IN  {IF Cardinality(nodes) <= MaxSize THEN nodes ELSE Cut(adjacency, nodes) :
            nodes \in pieces[Len(Resolutions)]}

\* build_group: what holds enough different documents, versions folded, with
\* every copy of each.
GroupsOf(says, means) ==
    LET files == {f \in DOMAIN says : says[f] \in DOMAIN RefersTo}
        nodes == Nodes(files)
        links == Linked(nodes, says, means)
        enough(part) == Cardinality({Base[n] : n \in part}) >= MinDocuments
    IN  IF Cardinality(nodes) < MinDocuments \/ links = <<>> THEN {}
        ELSE {Members(part, files) : part \in {p \in Communities(Adjacency(links)) : enough(p)}}
================================================================================
