------------------------------ MODULE PathFinder ------------------------------
(***************************************************************************)
(* PathFinder::find_all_paths (dex/smart_routing/pathfinder.rs): three     *)
(* searches, one after the other, over the pools between two tokens.  A    *)
(* pool is its two tokens and the weight of its edges.  Which of the       *)
(* cheapest nodes Dijkstra's heap yields is left open.  The two tokens     *)
(* differ: of a token to itself every search finds the token alone.        *)
(***************************************************************************)
EXTENDS Integers, Sequences, SequencesExt, FiniteSets, FiniteSetsExt, Maps

CONSTANTS RouteTokens, TokenIn, TokenOut,
          PoolLists,   \* what the router may pass: sequences of pools
          HopLimits    \* values of max_hops

RoutePools == [a : RouteTokens, b : RouteTokens, weight : Nat]

ASSUME PathAssumption ==
    /\ {TokenIn, TokenOut} \subseteq RouteTokens /\ TokenIn # TokenOut
    /\ IsFiniteSet(RouteTokens) /\ \A list \in PoolLists : list \in Seq(RoutePools)
    /\ HopLimits \subseteq Nat \ {0}

VARIABLES
    pools, maxHops,   \* the arguments
    search,           \* the search under way, or the outcome
    agenda,           \* the heap, queue or stack of [path, cost]
    distances,        \* Dijkstra's labels: token -> cost
    arrived,          \* the paths this search has found
    allPaths          \* the paths of the searches before, at the end the result

pathVars == <<pools, maxHops, search, agenda, distances, arrived, allPaths>>

PathInit ==
    /\ pools = <<>> /\ maxHops = 0 /\ search = "idle"
    /\ agenda = <<>> /\ distances = <<>> /\ arrived = <<>> /\ allPaths = <<>>

Start == <<[path |-> <<TokenIn>>, cost |-> 0]>>

FindAllPaths(list, hops) ==
    /\ search = "idle" /\ search' = "dijkstra"
    /\ pools' = list /\ maxHops' = hops
    /\ agenda' = Start /\ distances' = Put(<<>>, TokenIn, 0)
    /\ UNCHANGED <<arrived, allPaths>>

(* sort_by_key: the positions in DOMAIN key by their keys, equal ones in    *)
(* the order they have.                                                     *)
SortsBefore(key, i) == {j \in DOMAIN key : key[j] < key[i] \/ (key[j] = key[i] /\ j < i)}

Sorted(key) ==
    [k \in 1 .. Cardinality(DOMAIN key) |->
        CHOOSE i \in DOMAIN key : Cardinality(SortsBefore(key, i)) = k - 1]

(* build_graph: the edges of a token, lightest first, each pool both ways.  *)
EdgeOf(t, p) == [to |-> IF p.a = t THEN p.b ELSE p.a, weight |-> p.weight]

Edges(t) ==
    LET touching == {i \in DOMAIN pools : t \in {pools[i].a, pools[i].b}}
        at == Sorted([i \in touching |-> pools[i].weight])
    IN [k \in DOMAIN at |-> EdgeOf(t, pools[at[k]])]

Here(node) == Last(node.path)
Arrives(node) == Here(node) = TokenOut /\ Len(node.path) <= maxHops + 1

HopsLeft_OneLess(node) == Len(node.path) < maxHops
HopsLeft(node) == Len(node.path) <= maxHops

-----------------------------------------------------------------------------
(* dijkstra: up to three arrivals.  A label is the cost alone, whatever the *)
(* hops; the end's label keeps nothing out.                                 *)

Relax(node, s, e) ==
    LET cost == node.cost + e.weight
    IN IF \/ Contains(node.path, e.to)
          \/ e.to # TokenOut /\ e.to \in DOMAIN s.labels /\ cost >= s.labels[e.to]
       THEN s
       ELSE [labels |-> Put(s.labels, e.to, cost),
             nodes |-> Append(s.nodes, [path |-> Append(node.path, e.to), cost |-> cost])]

Relaxed(node, s, edges) ==
    LET upTo[n \in 0 .. Len(edges)] == IF n = 0 THEN s ELSE Relax(node, upTo[n - 1], edges[n])
    IN  upTo[Len(edges)]

PopsCheapest(k) ==
    /\ search = "dijkstra" /\ Len(arrived) < 3
    /\ \A j \in DOMAIN agenda : agenda[k].cost <= agenda[j].cost

DijkstraArrives(k) ==
    /\ PopsCheapest(k) /\ Arrives(agenda[k])
    /\ arrived' = Append(arrived, agenda[k].path)
    /\ agenda' = RemoveAt(agenda, k)
    /\ UNCHANGED <<pools, maxHops, search, distances, allPaths>>

DijkstraExpands(k) ==
    /\ PopsCheapest(k) /\ ~Arrives(agenda[k])
    /\ LET node == agenda[k]
           rest == [labels |-> distances, nodes |-> RemoveAt(agenda, k)]
           after == IF HopsLeft(node) /\ node.cost <= distances[Here(node)]
                    THEN Relaxed(node, rest, Edges(Here(node)))
                    ELSE rest
       IN agenda' = after.nodes /\ distances' = after.labels
    /\ UNCHANGED <<pools, maxHops, search, arrived, allPaths>>

-----------------------------------------------------------------------------
(* bfs_paths and dfs_paths: every simple path, from the front of the agenda *)

Extensions(node) ==
    LET all == Edges(Here(node))
        edges == Retained(all, {k \in DOMAIN all : ~Contains(node.path, all[k].to)})
    IN IF HopsLeft(node)
       THEN [k \in DOMAIN edges |-> [path |-> Append(node.path, edges[k].to), cost |-> 0]]
       ELSE <<>>

Limit == CASE search = "bfs" -> 3 [] search = "dfs" -> 5 [] OTHER -> 0

WalkArrives ==
    /\ agenda # <<>> /\ Len(arrived) < Limit /\ Here(Head(agenda)) = TokenOut
    /\ arrived' = Append(arrived, Head(agenda).path)
    /\ agenda' = Tail(agenda)
    /\ UNCHANGED <<pools, maxHops, search, distances, allPaths>>

WalkExpands ==
    /\ agenda # <<>> /\ Len(arrived) < Limit /\ Here(Head(agenda)) # TokenOut
    /\ agenda' = IF search = "bfs" THEN Tail(agenda) \o Extensions(Head(agenda))
                                   ELSE Extensions(Head(agenda)) \o Tail(agenda)
    /\ UNCHANGED <<pools, maxHops, search, distances, arrived, allPaths>>

-----------------------------------------------------------------------------
(* The next search, and the result of all: deduplicate_paths keeps the      *)
(* first of equal paths and sorts by length.  No arrival of Dijkstra's ends *)
(* the call.                                                                *)

Deduplicated(ps) ==
    LET firsts == {i \in DOMAIN ps : \A j \in 1 .. i - 1 : ps[j] # ps[i]}
        at == Sorted([i \in firsts |-> Len(ps[i])])
    IN [k \in DOMAIN at |-> ps[at[k]]]

DijkstraEnds ==
    /\ search = "dijkstra" /\ (agenda = <<>> \/ Len(arrived) = 3)
    /\ IF arrived = <<>>
       THEN search' = "failed" /\ UNCHANGED <<agenda, allPaths>>
       ELSE search' = "bfs" /\ agenda' = Start /\ allPaths' = arrived
    /\ arrived' = <<>>
    /\ UNCHANGED <<pools, maxHops, distances>>

WalkEnds ==
    /\ Limit > 0 /\ (agenda = <<>> \/ Len(arrived) = Limit)
    /\ IF search = "bfs"
       THEN search' = "dfs" /\ agenda' = Start /\ allPaths' = allPaths \o arrived
       ELSE search' = "done" /\ agenda' = <<>> /\ allPaths' = Deduplicated(allPaths \o arrived)
    /\ arrived' = <<>>
    /\ UNCHANGED <<pools, maxHops, distances>>

PathNext ==
    \/ \E list \in PoolLists, hops \in HopLimits : FindAllPaths(list, hops)
    \/ \E k \in DOMAIN agenda : DijkstraArrives(k) \/ DijkstraExpands(k)
    \/ DijkstraEnds \/ WalkArrives \/ WalkExpands \/ WalkEnds

-----------------------------------------------------------------------------
(* The reference: the routes of at most h hops are the paths without a      *)
(* repeated token from pool to pool; a route costs its cheapest pools.      *)
Between(t, u) == {i \in DOMAIN pools : {pools[i].a, pools[i].b} = {t, u}}

Routes(h) ==
    {p \in UNION {[1 .. n -> RouteTokens] : n \in 2 .. h + 1} :
        /\ p[1] = TokenIn /\ Last(p) = TokenOut /\ IsInjective(p)
        /\ \A k \in 1 .. Len(p) - 1 : Between(p[k], p[k + 1]) # {}}

HopCosts(p) == [k \in 1 .. Len(p) - 1 |-> Min({pools[i].weight : i \in Between(p[k], p[k + 1])})]
RouteCost(p) == SumFunctionOnSet(HopCosts(p), 1 .. Len(p) - 1)

(* Each pool touches an end, as those of get_relevant_pools do, or the hops *)
(* are no limit.                                                            *)
LabelsSuffice ==
    \/ \A i \in DOMAIN pools : {pools[i].a, pools[i].b} \cap {TokenIn, TokenOut} # {}
    \/ maxHops >= Cardinality(RouteTokens) - 1

(* PathsFound: the result of find_all_paths is routes within the hops, each *)
(* once, a route of the fewest hops first.  With the pools that the router  *)
(* passes, or hops enough, the call fails only when there is no route, and  *)
(* the first path that Dijkstra finds is a cheapest one.  (Otherwise a      *)
(* cheap detour labels a token so low that the shorter way over it is never *)
(* followed, and the call may fail although a route exists.)                *)
PathsFound ==
    /\ search = "done" =>
          /\ \A k \in DOMAIN allPaths : allPaths[k] \in Routes(maxHops)
          /\ IsInjective(allPaths)
          /\ \A r \in Routes(maxHops) : Len(allPaths[1]) <= Len(r)
    /\ LabelsSuffice =>
          /\ search = "failed" => Routes(maxHops) = {}
          /\ search = "dijkstra" /\ arrived # <<>> =>
                \A r \in Routes(maxHops) : RouteCost(arrived[1]) <= RouteCost(r)
=============================================================================
