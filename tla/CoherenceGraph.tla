--------------------------- MODULE CoherenceGraph ---------------------------
(***************************************************************************)
(* The coherence engine of rvm-coherence: a graph of who talks to whom,     *)
(* kept in fixed arrays with linked edge lists, a hashed node index, an      *)
(* adjacency matrix and cached sums, all of them redundant and updated by    *)
(* hand; and the engine that decays it every epoch, scores every partition   *)
(* and recommends splits and merges.  Weights are small enough that none of  *)
(* the saturating sums saturates.                                            *)
(***************************************************************************)
EXTENDS Integers, FiniteSets, FiniteSetsExt, Sequences, SequencesExt

CONSTANTS
    GraphPartition,  \* partition identifiers, natural numbers
    MAX_NODES, GRAPH_EDGES,
    NODE_INDEX_SIZE, \* buckets of the node index
    CommWeight,      \* weights of a communication, 0 among them
    MaxWeight,       \* bound: weight of an edge
    EDGE_DECAY_BP,   \* decay per epoch, in basis points
    SPLIT_THRESHOLD_BP, MERGE_COHERENCE_THRESHOLD_BP,
    NoPartition      \* an empty node slot

ASSUME GraphSizes == {MAX_NODES, GRAPH_EDGES, NODE_INDEX_SIZE, MaxWeight} \subseteq Nat
ASSUME GraphWeights == CommWeight \subseteq Nat /\ GraphPartition \subseteq Nat
ASSUME DecayIsShare == EDGE_DECAY_BP \in 0 .. 10000

VARIABLES
    graph,    \* CoherenceGraph
    slots,    \* the engine's entries: id, score, pressure, active
    adaptive, \* epochs since the last computation, and whether there was one
    advice    \* the last recommendation

coherenceVars == <<graph, slots, adaptive, advice>>

NodeIdx == 0 .. MAX_NODES - 1
EdgeIdx == 0 .. GRAPH_EDGES - 1
INVALID == GRAPH_EDGES
NoNode == MAX_NODES
EmptyNode == [partition |-> NoPartition, first_edge |-> INVALID]
EmptyEdge == [from |-> 0, to |-> 0, weight |-> 0, next_from |-> INVALID, active |-> FALSE]
CoherenceGraphNew ==
    [nodes |-> [i \in NodeIdx |-> EmptyNode], edges |-> [e \in EdgeIdx |-> EmptyEdge],
     id_to_node |-> [h \in 0 .. NODE_INDEX_SIZE - 1 |-> NoNode],
     adj |-> [i, j \in NodeIdx |-> 0],
     out |-> [i \in NodeIdx |-> 0], inc |-> [i \in NodeIdx |-> 0],
     node_count |-> 0, edge_count |-> 0]

Minus(a, b) == IF a < b THEN 0 ELSE a - b
Bucket(p) == p % NODE_INDEX_SIZE
ActiveEdges(g) == {e \in EdgeIdx : g.edges[e].active}

-----------------------------------------------------------------------------
(* The graph *)

\* The index first, then a scan: a bucket may have been taken by another partition.
find_node(g, p) ==
    LET i == g.id_to_node[Bucket(p)]
        here == {n \in NodeIdx : g.nodes[n].partition = p} IN
    IF i # NoNode /\ g.nodes[i].partition = p THEN i
    ELSE IF here = {} THEN NoNode ELSE Min(here)

FreeNodes(g) == {n \in NodeIdx : g.nodes[n].partition = NoPartition}

add_node(g, p) ==
    LET i == Min(FreeNodes(g)) IN
    [g EXCEPT !.nodes[i] = [partition |-> p, first_edge |-> INVALID],
              !.node_count = @ + 1, !.id_to_node[Bucket(p)] = i]

\* The edge whose list successor is e, walking from the source's first edge.
ListFrom(g, n) ==
    LET step[k \in 0 .. GRAPH_EDGES] ==
          IF k = 0 THEN g.nodes[n].first_edge
          ELSE LET e == step[k - 1] IN IF e = INVALID THEN e ELSE g.edges[e].next_from
    IN step
Chained(g, n) == {ListFrom(g, n)[k] : k \in 0 .. GRAPH_EDGES} \ {INVALID}

BugUnlinked(g, e) ==
    LET n == g.edges[e].from IN
    IF g.nodes[n].first_edge = e
    THEN [g EXCEPT !.nodes[n].first_edge = g.edges[e].next_from]
    ELSE g

Unlinked(g, e) ==
    LET n == g.edges[e].from
        before == {c \in Chained(g, n) : g.edges[c].next_from = e} IN
    IF g.nodes[n].first_edge = e
    THEN [g EXCEPT !.nodes[n].first_edge = g.edges[e].next_from]
    ELSE IF before = {} THEN g
    ELSE LET c == CHOOSE c \in before : TRUE IN
         [g EXCEPT !.edges[c].next_from = g.edges[e].next_from]

\* The sums first, then the list, then the slot; what an inactive slot still holds is
\* never read, so the model clears it.
remove_edge_by_index(g, e) ==
    LET f == g.edges[e].from
        t == g.edges[e].to
        w == g.edges[e].weight
        sums == [g EXCEPT !.adj[f, t] = Minus(@, w), !.out[f] = Minus(@, w),
                          !.inc[t] = Minus(@, w)] IN
    IF ~g.edges[e].active THEN g
    ELSE [Unlinked(sums, e) EXCEPT !.edges[e] = EmptyEdge,
                                   !.edge_count = Minus(@, 1)]

\* Over the edge slots in order.
EachEdge(g, op(_, _)) ==
    LET after[k \in 0 .. GRAPH_EDGES] == IF k = 0 THEN g ELSE op(after[k - 1], k - 1)
    IN after[GRAPH_EDGES]

remove_node(g, p) ==
    LET i == find_node(g, p)
        Drop(h, e) == IF h.edges[e].active /\ i \in {h.edges[e].from, h.edges[e].to}
                      THEN remove_edge_by_index(h, e) ELSE h
        bare == EachEdge(g, Drop) IN
    [bare EXCEPT
        !.id_to_node[Bucket(p)] = IF @ = i THEN NoNode ELSE @,
        !.nodes[i] = EmptyNode,
        !.adj = [m, n \in NodeIdx |-> IF i \in {m, n} THEN 0 ELSE bare.adj[m, n]],
        !.out[i] = 0, !.inc[i] = 0, !.node_count = Minus(@, 1)]

alloc_edge(g) == Min(EdgeIdx \ ActiveEdges(g))

add_edge(g, f, t, w) ==
    LET e == alloc_edge(g) IN
    [g EXCEPT !.edges[e] = [from |-> f, to |-> t, weight |-> w,
                            next_from |-> g.nodes[f].first_edge, active |-> TRUE],
              !.nodes[f].first_edge = e, !.edge_count = @ + 1,
              !.adj[f, t] = @ + w, !.out[f] = @ + w, !.inc[t] = @ + w]

update_weight(g, e, delta) ==
    LET f == g.edges[e].from
        t == g.edges[e].to
        old == g.edges[e].weight
        new == old + delta IN
    [g EXCEPT !.edges[e].weight = new,
              !.adj[f, t] = Minus(@, old) + new, !.out[f] = Minus(@, old) + new,
              !.inc[t] = Minus(@, old) + new]

\* A zero in the matrix answers "no edge" without walking the list.
find_directed_edge(g, f, t) ==
    LET at(k) == ListFrom(g, f)[k]
        hits == {k \in 0 .. GRAPH_EDGES : /\ at(k) # INVALID /\ g.edges[at(k)].active
                                        /\ g.edges[at(k)].to = t} IN
    IF g.adj[f, t] = 0 \/ hits = {} THEN INVALID ELSE at(Min(hits))

decay_weights(g) ==
    LET Decay(h, e) ==
          LET old == h.edges[e].weight
              new == (old * (10000 - EDGE_DECAY_BP)) \div 10000
              f == h.edges[e].from
              t == h.edges[e].to IN
          IF ~h.edges[e].active THEN h
          ELSE IF new = 0 THEN remove_edge_by_index(h, e)
          ELSE [h EXCEPT !.edges[e].weight = new, !.adj[f, t] = Minus(@, old - new),
                         !.out[f] = Minus(@, old - new), !.inc[t] = Minus(@, old - new)]
    IN EachEdge(g, Decay)

total_weight(g, n) == g.out[n] + g.inc[n]
internal_weight(g, n) ==
    MapThenSumSet(LAMBDA e : g.edges[e].weight,
                  {e \in ActiveEdges(g) : g.edges[e].from = n /\ g.edges[e].to = n})
edge_weight_between(g, a, b) == g.adj[a, b] + g.adj[b, a]

-----------------------------------------------------------------------------
(* Scores, pressures and recommendations *)

compute_coherence_score(g, n) ==
    LET total == total_weight(g, n) IN
    IF total = 0 THEN 10000 ELSE (internal_weight(g, n) * 10000) \div total

compute_cut_pressure(g, n) ==
    LET total == total_weight(g, n) IN
    IF total = 0 THEN 0
    ELSE (Minus(total, internal_weight(g, n)) * 10000) \div total

evaluate_merge(g, a, b) ==
    LET combined == total_weight(g, a) + total_weight(g, b) IN
    IF combined = 0 THEN 0
    ELSE Min({10000, (edge_weight_between(g, a, b) * 10000) \div combined})

NoAction == <<"NoAction">>
EmptySlot == [id |-> NoPartition, score |-> 10000, pressure |-> 0, active |-> FALSE]
LiveNodes(s) == {i \in NodeIdx : s[i].active}

\* The first slot of the highest pressure above the threshold; otherwise the first
\* pair of the highest mutual coherence that reaches the other threshold.
recommend(g, s) ==
    LET split == {i \in LiveNodes(s) : s[i].pressure > SPLIT_THRESHOLD_BP}
        Mutual(x) == evaluate_merge(g, find_node(g, s[x[1]].id), find_node(g, s[x[2]].id))
        merge == {x \in LiveNodes(s) \X LiveNodes(s) :
                     x[1] < x[2] /\ Mutual(x) >= MERGE_COHERENCE_THRESHOLD_BP} IN
    IF split # {}
    THEN <<"Split", s[CHOOSE i \in split : \A j \in split :
              \/ s[i].pressure > s[j].pressure
              \/ s[i].pressure = s[j].pressure /\ i <= j].id>>
    ELSE IF merge # {}
    THEN LET x == CHOOSE x \in merge : \A y \in merge :
                    \/ Mutual(x) > Mutual(y)
                    \/ Mutual(x) = Mutual(y) /\ (x[1] < y[1] \/ (x[1] = y[1] /\ x[2] <= y[2]))
         IN <<"Merge", s[x[1]].id, s[x[2]].id>>
    ELSE NoAction

-----------------------------------------------------------------------------
(* The engine *)

CoherenceInit ==
    /\ graph = CoherenceGraphNew
    /\ slots = [i \in NodeIdx |-> EmptySlot]
    /\ adaptive = [since |-> 0, computed |-> FALSE]
    /\ advice = NoAction

add_partition(p) ==
    /\ find_node(graph, p) = NoNode /\ FreeNodes(graph) # {}
    /\ graph' = add_node(graph, p)
    /\ LET free == {i \in NodeIdx : ~slots[i].active} IN
       slots' = IF free = {} THEN slots
                ELSE [slots EXCEPT ![Min(free)] =
                        [id |-> p, score |-> 10000, pressure |-> 0, active |-> TRUE]]
    /\ UNCHANGED <<adaptive, advice>>

remove_partition(p) ==
    /\ find_node(graph, p) # NoNode
    /\ graph' = remove_node(graph, p)
    /\ LET mine == {i \in NodeIdx : slots[i].active /\ slots[i].id = p} IN
       slots' = IF mine = {} THEN slots ELSE [slots EXCEPT ![Min(mine)] = EmptySlot]
    /\ UNCHANGED <<adaptive, advice>>

record_communication(p, q, w) ==
    LET f == find_node(graph, p)
        t == find_node(graph, q) IN
    /\ f # NoNode /\ t # NoNode
    /\ LET e == find_directed_edge(graph, f, t) IN
       \/ /\ e # INVALID /\ graph.edges[e].weight + w <= MaxWeight
          /\ graph' = update_weight(graph, e, w)
       \/ /\ e = INVALID /\ ActiveEdges(graph) # EdgeIdx
          /\ graph' = add_edge(graph, f, t, w)
    /\ UNCHANGED <<slots, adaptive, advice>>

\* How many epochs may pass between two computations, by load.
Interval(load) == CASE load = "high" -> 4 [] load = "medium" -> 2 [] OTHER -> 1

\* The computation is due on the first tick, and then after the interval of the load
\* of the moment.
Due(load) == ~adaptive.computed \/ adaptive.since + 1 >= Interval(load)

tick(load) ==
    LET g == decay_weights(graph)
        scored == [i \in NodeIdx |->
            IF ~slots[i].active THEN slots[i]
            ELSE LET n == find_node(g, slots[i].id) IN
                 [slots[i] EXCEPT !.score = compute_coherence_score(g, n),
                                  !.pressure = compute_cut_pressure(g, n)]] IN
    /\ graph' = g
    /\ slots' = IF Due(load) THEN scored ELSE slots
    /\ adaptive' = [computed |-> adaptive.computed \/ Due(load),
                    since |-> IF Due(load) THEN 0 ELSE adaptive.since + 1]
    /\ advice' = recommend(g, slots')

CoherenceNext ==
    \/ \E p \in GraphPartition : add_partition(p) \/ remove_partition(p)
    \/ \E p, q \in GraphPartition, w \in CommWeight : record_communication(p, q, w)
    \/ \E load \in {"low", "medium", "high"} : tick(load)

CoherenceSpec == CoherenceInit /\ [][CoherenceNext]_coherenceVars

-----------------------------------------------------------------------------
(* Properties *)

SumOf(g, E) == MapThenSumSet(LAMBDA e : g.edges[e].weight, E)

\* Everything the graph keeps twice agrees, after any sequence of additions,
\* removals, communications and decays: the matrix and the cached sums are the sums
\* of the live edges; each node's list holds exactly its live outgoing edges; live
\* edges join live nodes; every partition is found, index collisions or not; a pair
\* has at most one edge that carries weight; and the counters count.
GraphConsistent ==
    /\ \A m, n \in NodeIdx : graph.adj[m, n] =
          SumOf(graph, {e \in ActiveEdges(graph) :
                           graph.edges[e].from = m /\ graph.edges[e].to = n})
    /\ \A n \in NodeIdx :
          LET from == {e \in ActiveEdges(graph) : graph.edges[e].from = n} IN
          /\ graph.out[n] = SumOf(graph, from)
          /\ graph.inc[n] =
                SumOf(graph, {e \in ActiveEdges(graph) : graph.edges[e].to = n})
          /\ Chained(graph, n) = from
          /\ ListFrom(graph, n)[Cardinality(from)] = INVALID
          /\ from # {} => graph.nodes[n].partition # NoPartition
          /\ graph.nodes[n].partition # NoPartition =>
                find_node(graph, graph.nodes[n].partition) = n
    /\ \A e, d \in ActiveEdges(graph) :
          (/\ e # d /\ graph.edges[e].from = graph.edges[d].from
           /\ graph.edges[e].to = graph.edges[d].to) =>
              0 \in {graph.edges[e].weight, graph.edges[d].weight}
    /\ graph.edge_count = Cardinality(ActiveEdges(graph))
    /\ graph.node_count = MAX_NODES - Cardinality(FreeNodes(graph))

\* The engine's entries are the graph's partitions, one each, so that a score is
\* never computed for a partition that is gone; and whatever the load does, scores
\* are never more than three epochs old.
ScoresCurrent ==
    /\ {slots[i].id : i \in LiveNodes(slots)} =
          {graph.nodes[n].partition : n \in NodeIdx} \ {NoPartition}
    /\ Cardinality(LiveNodes(slots)) = graph.node_count
    /\ adaptive.since <= 3

-----------------------------------------------------------------------------
(***************************************************************************)
(* MinCutBridge of rvm-coherence: the budgeted Stoer-Wagner minimum cut of  *)
(* the subgraph around one partition, whose last result is kept and handed  *)
(* out again.  The arrays of the code are functions; its "any active node"  *)
(* and "most tightly connected node" are the lowest index that qualifies,   *)
(* as its loops find them.                                                  *)
(***************************************************************************)

CONSTANTS
    CutNode,          \* nodes of the graph, an interval of natural numbers from 0
    CutWeight,        \* weights of the directed edges
    MINCUT_MAX_NODES, \* nodes of a subgraph
    IterationBudget,  \* values of max_iterations
    Unbounded,        \* u64::MAX
    MaxQueries        \* bound: cuts asked for

ASSUME CutBounds == {MINCUT_MAX_NODES, MaxQueries, Unbounded} \subseteq Nat
ASSUME CutNumbers == CutNode \subseteq Nat /\ CutWeight \subseteq Nat /\ IterationBudget \subseteq Nat

VARIABLES
    comm,     \* directed weights between nodes
    budget,   \* max_iterations
    asked,    \* the partition the last cut was asked for
    last_cut, \* last_known_cut
    counts    \* epoch, compute_count and budget_exceeded_count

cutVars == <<comm, budget, asked, last_cut, counts>>

EmptyCut == [left |-> {}, right |-> {}, cut_weight |-> 0, within_budget |-> TRUE]

\* edge_weight_between: both directions.
Mutual(i, j) == comm[i, j] + comm[j, i]

\* The root, then where its edges lead, then who has edges to it, up to the limit.
SubNodes(root) ==
    LET Rank(S) == SetToSortSeq(S, LAMBDA a, b : a < b)
        outs == {n \in CutNode \ {root} : comm[root, n] > 0}
        ins == {n \in CutNode \ ({root} \cup outs) : comm[n, root] > 0}
        all == <<root>> \o Rank(outs) \o Rank(ins)
    IN SubSeq(all, 1, Min({Len(all), MINCUT_MAX_NODES}))

-----------------------------------------------------------------------------
(* One phase: the order in which nodes join A, always the most tightly connected *)

PhaseStep(w, active, p) ==
    LET rest == active \ p.in_a
        tight == {i \in rest : \A j \in rest : p.key[i] >= p.key[j]}
        i == Min(tight) IN
    [in_a |-> p.in_a \cup {i}, second |-> p.last, last |-> i,
     key |-> [j \in DOMAIN p.key |->
                IF j \in rest \ {i} THEN p.key[j] + w[i, j] ELSE p.key[j]]]

minimum_cut_phase(w, active) ==
    LET start == Min(active)
        first == [in_a |-> {start}, second |-> start, last |-> start,
                  key |-> [j \in active |-> IF j = start THEN 0 ELSE w[start, j]]]
        run[k \in 1 .. Cardinality(active)] ==
            IF k = 1 THEN first ELSE LET p == run[k - 1] IN PhaseStep(w, active, p)
    IN run[Cardinality(active)]

\* The cut of the phase separates the last node's group; it is then merged into the
\* node before it.
MergePhase(st) ==
    LET p == minimum_cut_phase(st.w, st.active)
        s == p.second
        t == p.last
        better == p.key[t] < st.best IN
    [st EXCEPT
        !.best = IF better THEN p.key[t] ELSE @,
        !.node = IF better THEN t ELSE @,
        !.w = [i, j \in st.nodes |->
                 IF i = s /\ j \in st.active \ {s, t} THEN st.w[s, j] + st.w[t, j]
                 ELSE IF j = s /\ i \in st.active \ {s, t} THEN st.w[i, s] + st.w[i, t]
                 ELSE st.w[i, j]],
        !.groups[s] = @ \cup st.groups[t],
        !.active = @ \ {t}, !.iterations = @ + 1]

\* As many phases as there are nodes but one, or as the budget allows.
stoer_wagner_mincut(sub) ==
    LET n == 1 .. Len(sub)
        begin == [nodes |-> n, active |-> n, best |-> Unbounded, node |-> 1, iterations |-> 0,
                  w |-> [i, j \in n |-> IF i = j THEN 0 ELSE Mutual(sub[i], sub[j])],
                  groups |-> [i \in n |-> {i}]]
        after[k \in 0 .. Len(sub)] ==
            IF k = 0 THEN begin
            ELSE LET st == after[k - 1] IN
                 IF Cardinality(st.active) = 1 \/ st.iterations >= budget THEN st
                 ELSE MergePhase(st)
    IN after[Len(sub)]

build_result(sub, st) ==
    [left |-> {sub[i] : i \in st.groups[st.node]},
     right |-> {sub[i] : i \in st.nodes \ st.groups[st.node]},
     cut_weight |-> st.best, within_budget |-> Cardinality(st.active) = 1]

find_min_cut(root) ==
    LET sub == SubNodes(root)
        small == Len(sub) < 2
        cut == IF small THEN [EmptyCut EXCEPT !.left = {root}]
               ELSE build_result(sub, stoer_wagner_mincut(sub)) IN
    /\ last_cut' = cut /\ asked' = root
    /\ counts' = [counts EXCEPT !.epoch = @ + 1,
                    !.computed = IF cut.within_budget THEN @ + 1 ELSE @,
                    !.exceeded = IF cut.within_budget THEN @ ELSE @ + 1]
    /\ UNCHANGED <<comm, budget>>

CutInit ==
    /\ comm \in [CutNode \X CutNode -> CutWeight]
    /\ \A i \in CutNode : comm[i, i] = 0
    /\ budget \in IterationBudget
    /\ asked = 0 /\ last_cut = EmptyCut
    /\ counts = [epoch |-> 0, computed |-> 0, exceeded |-> 0]

CutNext == counts.epoch < MaxQueries /\ \E root \in CutNode : find_min_cut(root)

CutSpec == CutInit /\ [][CutNext]_cutVars

-----------------------------------------------------------------------------
(* Properties *)

WeightAcross(L, R) == MapThenSumSet(LAMBDA p : Mutual(p[1], p[2]), L \X R)
CutsOf(S) == {L \in SUBSET S : L # {} /\ L # S}

\* After any sequence of cuts: the last one is marked within the budget exactly when a
\* phase for every node but one was allowed, and is then a minimum cut of the subgraph
\* around the partition asked for: both sides are there, together they are the subgraph,
\* the weight is what crosses them, and no other split crosses less.  Every cut is
\* counted once (MinCutBridge::find_min_cut).
CutIsMinimum ==
    LET nodes == ToSet(SubNodes(asked)) IN
    /\ counts.epoch = counts.computed + counts.exceeded
    /\ counts.epoch > 0 =>
        /\ last_cut.within_budget <=> Cardinality(nodes) <= budget + 1
        /\ last_cut.within_budget =>
              /\ last_cut.left \cup last_cut.right = nodes
              /\ last_cut.left \cap last_cut.right = {}
        /\ last_cut.within_budget /\ Cardinality(nodes) > 1 =>
              /\ last_cut.right # {} /\ last_cut.left # {}
              /\ last_cut.cut_weight = WeightAcross(last_cut.left, last_cut.right)
              /\ \A L \in CutsOf(nodes) : last_cut.cut_weight <= WeightAcross(L, nodes \ L)

\* "If the computation exceeds the iteration budget, the last known cut is returned and
\* `within_budget` is set to `false`." (mincut.rs:102-103)
LastKnownCutKept ==
    [][counts'.exceeded > counts.exceeded /\ counts.computed > 0 =>
          last_cut' = [last_cut EXCEPT !.within_budget = FALSE]]_cutVars
=============================================================================
