--------------------------- MODULE AdjacencyList ---------------------------
(***************************************************************************)
(* libs/DSA/adjacency_list: a graph whose nodes each keep a list of edges.  *)
(* A directed edge is in the list of its node_1, a bidirectional one (the   *)
(* same edge_t) in the lists of both its nodes.                             *)
(*                                                                         *)
(* A call names a node by its datum and gets the first node of node_list    *)
(* with an equal one, which hides the others; a call is written here with   *)
(* the node it gets.  The lists are what DataList says of them.  Nothing    *)
(* else depends on the order of node_list, so that it is a set, with the    *)
(* nodes of each datum in their order beside it (named).  Weights are left  *)
(* out: no operation reads them.                                            *)
(*                                                                         *)
(* custom_free either does nothing or frees what it is given.  It is given  *)
(* the data, and, as node_list was created with it, the nodes too.          *)
(*                                                                         *)
(* Reading an edge or a node that was freed is undefined and ends the       *)
(* behaviour, as does the use of node_list after graph_clear.  A traversal  *)
(* that fails frees nodes that stay in the graph: every later call reads    *)
(* them, so that the behaviour ends there too ("dangling").                 *)
(***************************************************************************)
EXTENDS Naturals, Sequences, FiniteSets, SequencesExt

CONSTANTS Data,
          Nodes,     \* the node_t objects, each allocated at most once
          Edges,     \* the edge_t objects, the same
          MAX_STACK_SIZE,
          NULL

EdgeType == [node_1 : Nodes, node_2 : Nodes, is_directed : BOOLEAN]

ASSUME GraphConstants ==
  /\ IsFiniteSet(Nodes) /\ Edges \intersect Nodes = {}
  /\ NULL \notin EdgeType
  /\ MAX_STACK_SIZE \in Nat \ {0}

INSTANCE Stack WITH Capacity <- MAX_STACK_SIZE

VARIABLES
  node_list, node_count,
  named,                   \* the nodes of node_list with each datum, in order
  edge_list, edge_count,   \* of each node
  edge,                    \* each edge_t: its nodes and is_directed
  freed,                   \* the edges and nodes that were freed
  custom_free,             \* what it does: it "keeps" or "frees" its argument
  status

vars == <<node_list, node_count, named, edge_list, edge_count, edge, freed,
          custom_free, status>>

TypeOK ==
  /\ node_list \in SUBSET Nodes /\ node_count \in Nat
  /\ named \in [Data -> Seq(Nodes)] /\ custom_free \in {"keeps", "frees"}
  /\ edge_list \in [Nodes -> Seq(Edges)]
  /\ edge_count \in [Nodes -> Nat]
  /\ edge \in [Edges -> EdgeType \union {NULL}]
  /\ freed \in SUBSET (Edges \union Nodes)
  /\ status \in {"ok", "cleared", "destroyed", "dangling", "undefined"}

(* graph_create                                                             *)
Init ==
  /\ node_list = {} /\ node_count = 0 /\ named = [v \in Data |-> <<>>]
  /\ custom_free \in {"keeps", "frees"}
  /\ edge_list = [d \in Nodes |-> <<>>] /\ edge_count = [d \in Nodes |-> 0]
  /\ edge = [e \in Edges |-> NULL]
  /\ freed = {} /\ status = "ok"

----------------------------------------------------------------------------
(* What the loops over the edges change: g.list, g.count, g.freed, and the  *)
(* exit code of the last call.                                              *)
Graph == [list |-> edge_list, count |-> edge_count, freed |-> freed, code |-> "success"]

Connects(e, n1, n2) ==
  \/ edge[e].node_1 = n1 /\ edge[e].node_2 = n2
  \/ edge[e].node_1 = n2 /\ edge[e].node_2 = n1 /\ ~edge[e].is_directed

(* The direction of the edge searched for counts, that of the edge it is    *)
(* compared with does not.                                                  *)
edge_compare(a, b) ==
  \/ edge[a].node_1 = edge[b].node_1 /\ edge[a].node_2 = edge[b].node_2
  \/ edge[a].node_1 = edge[b].node_2 /\ edge[a].node_2 = edge[b].node_1 /\ ~edge[a].is_directed

(* list_push_head, and find_node and list_remove_data with edge_compare.    *)
push_head(g, n, e) ==
  [g EXCEPT !.list[n] = <<e>> \o @, !.count[n] = @ + 1]

find_node(g, n, e) == SelectInSeq(g.list[n], LAMBDA x : edge_compare(e, x))

remove_data(g, n, e) ==
  [g EXCEPT !.list[n] = RemoveAt(@, find_node(g, n, e)), !.count[n] = @ - 1]

(* Walking a list to its i-th entry, or to its end, meets a freed edge.     *)
MeetsFreed(g, n, i) ==
  \E j \in 1..(IF i = 0 THEN Len(g.list[n]) ELSE i) : g.list[n][j] \in g.freed

----------------------------------------------------------------------------
(* graph_find_node finds the first node with the datum, also for the datum  *)
(* of a node.                                                               *)
Found      == {n \in node_list : \E v \in Data : named[v] # <<>> /\ Head(named[v]) = n}
DatumOf(n) == CHOOSE v \in Data : Contains(named[v], n)
FoundBy(n) == Head(named[DatumOf(n)])

graph_add_node(n, v) ==
  /\ status = "ok" /\ n \notin node_list \union freed
  /\ node_list' = node_list \union {n} /\ node_count' = node_count + 1
  /\ named' = [named EXCEPT ![v] = <<n>> \o @]
  /\ UNCHANGED <<edge_list, edge_count, edge, freed, custom_free, status>>

Put(g) == edge_list' = g.list /\ edge_count' = g.count /\ freed' = g.freed

(* A new edge_t between two nodes of the graph.                             *)
NewEdge(e, n1, n2, bidirectional) ==
  /\ status = "ok" /\ edge[e] = NULL /\ {n1, n2} \subseteq Found
  /\ edge' = [edge EXCEPT ![e] = [node_1 |-> n1, node_2 |-> n2,
                                  is_directed |-> ~bidirectional]]
  /\ UNCHANGED <<node_list, node_count, named, custom_free, status>>

WithEdge(g, e, n1, n2, bidirectional) ==
  IF bidirectional THEN push_head(push_head(g, n1, e), n2, e) ELSE push_head(g, n1, e)

graph_add_edge(e, n1, n2, bidirectional) ==
  /\ NewEdge(e, n1, n2, bidirectional)
  /\ Put(WithEdge(Graph, e, n1, n2, bidirectional))

(* The edge cannot be pushed to the second list: list_remove_data takes it  *)
(* back from the first, where it is the head and equal to itself, whatever  *)
(* edges lie behind it; and it is freed.                                    *)
graph_add_edge_fails(e, n1, n2) ==
  /\ NewEdge(e, n1, n2, TRUE)
  /\ Put([Graph EXCEPT !.freed = @ \union {e}])

----------------------------------------------------------------------------
(* The place of the first edge in the list of n1 that connects it with n2,  *)
(* and the edge graph_find_edge returns: without such an edge, the last one *)
(* it has looked at.                                                        *)
PlaceOf(g, n1, n2) == SelectInSeq(g.list[n1], LAMBDA e : Connects(e, n1, n2))

graph_find_edge(g, n1, n2) ==
  LET i == PlaceOf(g, n1, n2) IN
  IF i = 0 THEN Last(g.list[n1]) ELSE g.list[n1][i]

Fails(g, code) == [g EXCEPT !.code = code]

(* Mutant: the edge stays in the list of the second node.                   *)
RemoveSecond_skipped(g, n1, n2, e) == [g EXCEPT !.freed = @ \union {e}]

(* Mutant: the rollback puts the edge back and forgets the count.           *)
RemoveSecond_miscounted(g, n1, n2, e) ==
  IF find_node(g, n2, e) = 0
    THEN Fails([g EXCEPT !.list[n1] = <<e>> \o @], "failure")
    ELSE [remove_data(g, n2, e) EXCEPT !.freed = @ \union {e}]

(* The second half of the removal: from the list of node 2, then free; or,  *)
(* when the edge is not there, the rollback.                                *)
RemoveSecond(g, n1, n2, e) ==
  LET i == find_node(g, n2, e) IN
  IF MeetsFreed(g, n2, i) THEN Fails(g, "undefined")
  ELSE IF i = 0 THEN Fails(push_head(g, n1, e), "failure")
  ELSE [remove_data(g, n2, e) EXCEPT !.freed = @ \union {e}]

(* graph_remove_edge after the nodes were found.                            *)
RemoveEdge(g, n1, n2) ==
  IF g.list[n1] = <<>> THEN Fails(g, "failure")
  ELSE IF MeetsFreed(g, n1, PlaceOf(g, n1, n2)) THEN Fails(g, "undefined")
  ELSE LET e == graph_find_edge(g, n1, n2)
           h == remove_data(g, n1, e)
       IN  IF edge[e].is_directed THEN [h EXCEPT !.freed = @ \union {e}]
                                  ELSE RemoveSecond(h, n1, n2, e)

graph_remove_edge(n1, n2) ==
  LET g == RemoveEdge(Graph, n1, n2) IN
  /\ status = "ok" /\ {n1, n2} \subseteq Found
  /\ IF g.code = "undefined"
       THEN status' = "undefined" /\ UNCHANGED <<edge_list, edge_count, freed>>
       ELSE Put(g) /\ UNCHANGED status
  /\ UNCHANGED <<node_list, node_count, named, edge, custom_free>>

(* One turn of the loop of remove_edges: the nodes of the edge are searched *)
(* for by their data.                                                       *)
RemoveCollected(g, e) ==
  IF g.code # "success" THEN g
  ELSE IF {e, edge[e].node_1, edge[e].node_2} \intersect g.freed # {} THEN Fails(g, "undefined")
  ELSE LET n1 == FoundBy(edge[e].node_1)
           n2 == FoundBy(edge[e].node_2)
       IN  IF {n1, n2} \subseteq node_list THEN RemoveEdge(g, n1, n2) ELSE Fails(g, "failure")

(* Mutant: one edge too few is collected.                                   *)
collect_edges_short(n) == SubSeq(edge_list[n], 2, Len(edge_list[n]))

collect_edges(n) == edge_list[n]

(* after[i] is the graph after i turns.                                     *)
remove_edges(n) ==
  LET edges == collect_edges(n)
      after[i \in 0..Len(edges)] ==
        IF i = 0 THEN Graph ELSE RemoveCollected(after[i - 1], edges[i])
  IN  after[Len(edges)]

(* cleanup_node: what is left of its edge list is given up, not freed.      *)
cleanup_node(g, ns) ==
  [g EXCEPT !.list = [n \in Nodes |-> IF n \in ns THEN <<>> ELSE @[n]],
            !.count = [n \in Nodes |-> IF n \in ns THEN 0 ELSE @[n]],
            !.freed = @ \union ns]

(* list_remove_data gives the node_t to custom_free, and cleanup_node reads *)
(* it afterwards.                                                           *)
graph_remove_node(n) ==
  LET g == remove_edges(n) IN
  /\ status = "ok" /\ n \in Found
  /\ \/ /\ g.code = "success" /\ custom_free = "keeps"
        /\ Put(cleanup_node(g, {n}))
        /\ node_list' = node_list \ {n} /\ node_count' = node_count - 1
        /\ named' = [named EXCEPT ![DatumOf(n)] = Tail(@)]
        /\ UNCHANGED status
     \/ /\ g.code = "failure" /\ Put(g)
        /\ UNCHANGED <<node_list, node_count, named, status>>
     \/ /\ \/ g.code = "undefined"
           \/ g.code = "success" /\ custom_free = "frees"
        /\ status' = "undefined"
        /\ UNCHANGED <<node_list, node_count, named, edge_list, edge_count, freed>>
  /\ UNCHANGED <<edge, custom_free>>

(* graph_clear, also as a part of graph_destroy, gives node_list up, whose  *)
(* list_delete gives each node_t, freed by cleanup_node, to custom_free.    *)
ClearTo(result) ==
  /\ status = "ok"
  /\ \/ /\ custom_free = "keeps" \/ node_list = {}
        /\ status' = result
        /\ Put(cleanup_node(Graph, node_list))
        /\ node_list' = {} /\ node_count' = 0 /\ named' = [v \in Data |-> <<>>]
     \/ /\ custom_free = "frees" /\ node_list # {}
        /\ status' = "undefined"
        /\ UNCHANGED <<node_list, node_count, named, edge_list, edge_count, freed>>
  /\ UNCHANGED <<edge, custom_free>>

graph_clear   == ClearTo("cleared")
graph_destroy == ClearTo("destroyed")

(* Clearing or destroying a graph that was cleared reads node_list->head.   *)
ClearAgain ==
  /\ status = "cleared" /\ status' = "undefined"
  /\ UNCHANGED <<node_list, node_count, named, edge_list, edge_count, edge, freed,
                 custom_free>>

----------------------------------------------------------------------------
(* The traversals: todo is the stack or the queue, visited the list of what *)
(* was ever put into it, acted the nodes given to the action, in order.  Of *)
(* the allocations, the first memory succeed.                               *)
Begin(memory) ==
  [todo |-> stack_init, visited |-> <<>>, acted |-> <<>>, memory |-> memory, ok |-> TRUE]

(* Mutant: a node is marked when it is put into todo a second time only.    *)
visit_node_unmarked(s, n, full) ==
  IF ~s.ok \/ Contains(s.visited, n) THEN s
  ELSE IF full \/ s.memory = 0 THEN [s EXCEPT !.ok = FALSE]
  ELSE [s EXCEPT !.todo = stack_push(@, n), !.memory = @ - 1,
                 !.visited = IF Contains(s.todo, n) THEN Append(@, n) ELSE @]

(* list_contains, and the visit of a node that was not there: it goes into  *)
(* todo and then into visited, and each needs a piece of memory.            *)
visit_node(s, n, full) ==
  IF ~s.ok \/ Contains(s.visited, n) THEN s
  ELSE IF full \/ s.memory = 0 THEN [s EXCEPT !.ok = FALSE]
  ELSE IF s.memory = 1 THEN [s EXCEPT !.todo = stack_push(@, n), !.ok = FALSE]
  ELSE [s EXCEPT !.todo = stack_push(@, n), !.visited = Append(@, n),
                 !.memory = @ - 2]

dfs_visit_node(s, n) == visit_node(s, n, stack_is_full(s.todo))
bfs_visit_node(s, n) == visit_node(s, n, FALSE)

Neighbours(n) == [i \in DOMAIN edge_list[n] |-> edge[edge_list[n][i]].node_2]

Act(s, n, rest) == [s EXCEPT !.todo = rest, !.acted = Append(@, n)]

(* The loop over the edges of n; after[i] is the state after i of them.     *)
VisitAll(todo_is, s, n) ==
  LET after[i \in 0..Len(edge_list[n])] ==
        IF i = 0 THEN s
        ELSE IF todo_is = "stack" THEN dfs_visit_node(after[i - 1], Neighbours(n)[i])
        ELSE bfs_visit_node(after[i - 1], Neighbours(n)[i])
  IN  after[Len(edge_list[n])]

dfs_turn(s) ==
  LET n == stack_pop_data(s.todo) IN VisitAll("stack", Act(s, n, stack_pop(s.todo)), n)

bfs_turn(s) ==
  LET n == Head(s.todo) IN VisitAll("queue", Act(s, n, Tail(s.todo)), n)

Turn(todo_is, s) ==
  IF ~s.ok \/ stack_is_empty(s.todo) THEN s
  ELSE IF todo_is = "stack" THEN dfs_turn(s) ELSE bfs_turn(s)

(* A traversal; after[i] is its state after at most i turns of its loop.    *)
Traverse(todo_is, begin) ==
  LET after[i \in 0..Cardinality(Nodes)] ==
        IF i = 0 THEN begin ELSE Turn(todo_is, after[i - 1])
  IN  after[Cardinality(Nodes)]

graph_dfs(start, memory) == Traverse("stack", dfs_visit_node(Begin(memory), start))
graph_bfs(start, memory) == Traverse("queue", bfs_visit_node(Begin(memory), start))

EnoughMemory == 2 * Cardinality(Nodes)

Traversals(start, memory) == {graph_dfs(start, memory), graph_bfs(start, memory)}

(* What stack_destroy and queue_destroy give to free: the nodes that were   *)
(* waiting for their turn.                                                  *)
Waiting(s) == stack_destroy(s.todo)

ReadsFreed(s) ==
  \E n \in Range(s.acted) : n \in freed \/ MeetsFreed(Graph, n, 0)

traverse(start, memory) ==
  /\ status = "ok" /\ start \in Found
  /\ \E s \in Traversals(start, memory) :
       IF ReadsFreed(s)
         THEN status' = "undefined" /\ UNCHANGED freed
         ELSE /\ freed' = freed \union Waiting(s)
              /\ status' = IF Waiting(s) = {} THEN "ok" ELSE "dangling"
  /\ UNCHANGED <<node_list, node_count, named, edge_list, edge_count, edge, custom_free>>

Next ==
  \/ \E n \in Nodes : graph_remove_node(n) \/ \E v \in Data : graph_add_node(n, v)
  \/ \E e \in Edges, n1, n2 \in Nodes :
       graph_add_edge_fails(e, n1, n2) \/ \E b \in BOOLEAN : graph_add_edge(e, n1, n2, b)
  \/ \E n1, n2 \in Nodes : graph_remove_edge(n1, n2)
  \/ \E n \in Nodes, memory \in 0..EnoughMemory : traverse(n, memory)
  \/ graph_clear \/ graph_destroy \/ ClearAgain

Spec == Init /\ [][Next]_vars

----------------------------------------------------------------------------
(* The counters agree with the lists, through every rollback and every      *)
(* removal that fails half way; size_t cannot wrap below zero (TypeOK).     *)
CountsAgree ==
  /\ TypeOK
  /\ node_count = Cardinality(node_list)
  /\ \A d \in Nodes : edge_count[d] = Len(edge_list[d])

Live == {e \in Edges : edge[e] # NULL} \ freed

Copies(e, d) == Cardinality({i \in DOMAIN edge_list[d] : edge_list[d][i] = e})
Due(e, d)    == (IF edge[e].node_1 = d THEN 1 ELSE 0)
                + (IF edge[e].node_2 = d /\ ~edge[e].is_directed THEN 1 ELSE 0)

(* Every edge that was not freed is in the lists it belongs in, once for    *)
(* each of its ends, and no list holds another; its nodes are in the graph. *)
Whole ==
  /\ \A e \in Live, d \in Nodes : Copies(e, d) = Due(e, d)
  /\ \A e \in Live : {edge[e].node_1, edge[e].node_2} \subseteq node_list
  /\ \A d \in Nodes : \A i \in DOMAIN edge_list[d] : edge_list[d][i] \in Live

(* The calls that the graph does not survive: removing an edge between nodes *)
(* that have none; removing one of several parallel edges of which some are *)
(* directed; removing a node that a directed edge of another node leads to, *)
(* that has a bidirectional edge to itself, or one to a node that is hidden *)
(* by a later one with the same datum; clearing twice; with a custom_free   *)
(* that frees, removing a node or clearing at all; and a traversal that     *)
(* fails while nodes wait for their turn.                                   *)
Mixed(n1, n2) ==
  \E e, f \in Live : /\ Connects(e, n1, n2) /\ edge_compare(e, f)
                     /\ edge[f].is_directed # edge[e].is_directed

Hidden(n) == FoundBy(n) # n

Unsafe(n) ==
  \/ \E e \in Live : /\ edge[e].node_2 = n
                     /\ IF edge[e].node_1 = n THEN ~edge[e].is_directed ELSE edge[e].is_directed
  \/ \E e \in Live : n \in {edge[e].node_1, edge[e].node_2} /\
                     (Hidden(edge[e].node_1) \/ Hidden(edge[e].node_2))

Gap ==
  \/ ClearAgain
  \/ \E n1, n2 \in node_list :
       /\ graph_remove_edge(n1, n2)
       /\ PlaceOf(Graph, n1, n2) = 0 \/ Mixed(n1, n2)
  \/ \E n \in node_list : graph_remove_node(n) /\ (Unsafe(n) \/ custom_free = "frees")
  \/ (graph_clear \/ graph_destroy) /\ custom_free = "frees" /\ node_list # {}
  \/ \E n \in node_list, memory \in 0..EnoughMemory :
       traverse(n, memory) /\ \E s \in Traversals(n, memory) : ~s.ok

(* The lists stay whole, and nothing undefined happens, through every       *)
(* operation but those.                                                     *)
WholeOutsideGaps ==
  [][Whole => \/ status' \notin {"undefined", "dangling"} /\ (status' = "ok" => Whole')
              \/ Gap]_vars

(* Removal removes what it is asked to, and nothing else: one edge between  *)
(* the two nodes, or a node with all the edges that have an end there.      *)
RemovesWhatItShould ==
  [][Whole =>
     /\ \A n1, n2 \in node_list :
          PlaceOf(Graph, n1, n2) # 0 /\ graph_remove_edge(n1, n2) =>
            \E e \in Live : Connects(e, n1, n2) /\ Live' = Live \ {e}
     /\ \A n \in node_list :
          ~Unsafe(n) /\ custom_free = "keeps" /\ graph_remove_node(n) =>
            /\ node_list' = node_list \ {n}
            /\ Live' = {e \in Live : n \notin {edge[e].node_1, edge[e].node_2}}]_vars

(* An edge leads from its node_1 to its node_2, and a bidirectional one back. *)
Leads(e, m, n) ==
  \/ edge[e].node_1 = m /\ edge[e].node_2 = n
  \/ edge[e].node_2 = m /\ edge[e].node_1 = n /\ ~edge[e].is_directed

(* The least set with the start node that no edge leads out of.             *)
Reach(start) ==
  {n \in node_list : \A S \in SUBSET node_list :
     start \in S /\ (\A e \in Live : \A m \in S, k \in node_list \ S : ~Leads(e, m, k))
       => n \in S}

AllDirected == \A e \in Live : edge[e].is_directed

(* Both traversals act on no node twice and on none that edges do not lead  *)
(* to.  With enough memory they end: the breadth-first one always, the      *)
(* depth-first one unless its stack is full, which takes a graph with two   *)
(* nodes more than MAX_STACK_SIZE.  In a graph of directed edges one that   *)
(* ends has acted on every node that edges lead to.                         *)
TraversalsReach ==
  Whole => \A start \in node_list :
    LET dfs == graph_dfs(start, EnoughMemory)
        bfs == graph_bfs(start, EnoughMemory)
        led == Reach(start)
    IN  /\ bfs.ok /\ (Cardinality(node_list) <= MAX_STACK_SIZE + 1 => dfs.ok)
        /\ \A s \in {dfs, bfs} :
             /\ IsInjective(s.acted) /\ Range(s.acted) \subseteq led
             /\ s.ok => s.todo = <<>> /\ (AllDirected => Range(s.acted) = led)

----------------------------------------------------------------------------
(* What the documentation says.  A bidirectional edge is an undirected one: *)
(* a traversal that ends has acted on whatever edges lead to.               *)
UndirectedReach ==
  Whole => \A start \in node_list :
    LET bfs == graph_bfs(start, EnoughMemory) IN bfs.ok => Range(bfs.acted) = Reach(start)

(* graph_remove_edge removes an edge between the two nodes, no other.       *)
RemovesBetween ==
  [][\A n1, n2 \in node_list :
       graph_remove_edge(n1, n2) => \A e \in Live \ Live' : Connects(e, n1, n2)]_vars

(* graph_remove_node removes all edges connected to the node: no edge ends  *)
(* at a node that is not in the graph.                                      *)
EdgesEndInGraph ==
  status = "ok" => \A e \in Live : {edge[e].node_1, edge[e].node_2} \subseteq node_list

(* graph_destroy frees all associated memory.                               *)
DestroyFreesAll == status = "destroyed" => Live = {}

(* A graph can be destroyed with a custom_free that frees the data.         *)
DestroySafe ==
  [][Whole /\ graph_destroy => status' # "undefined"]_vars
=============================================================================
