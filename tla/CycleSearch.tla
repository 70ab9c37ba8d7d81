---------------------------- MODULE CycleSearch ----------------------------
(***************************************************************************)
(* The recursion of dfs_find_cycle (netting.rs), with the visited set and  *)
(* the path threaded through the calls as the code mutates them.  Module   *)
(* MultilateralNetting describes what the search finds without recursion;  *)
(* the property here says that the description is right, on every graph    *)
(* that multilateral_net comes across.                                     *)
(***************************************************************************)
EXTENDS MultilateralNetting, SequencesExt

\* Mutant: settled edges stay in the graph.
Adjacent_KeepSettled(s, account) ==
    SetToSortSeq({i \in DOMAIN obs : obs[i].deliverer = account}, <)

\* adj.get(account): the edges of an account, in index order.
Adjacent(s, account) ==
    SetToSortSeq({i \in Edges(s) : obs[i].deliverer = account}, <)

RECURSIVE dfs_find_cycle(_, _, _, _, _, _), TryEdges(_, _, _, _, _)

(***************************************************************************)
(* The body of dfs_find_cycle, with the visited set as the loop over the   *)
(* edges leaves it.                                                        *)
(***************************************************************************)
dfs_find_cycle(s, account, target, visited, path_edges, is_start) ==
    IF ~is_start /\ account = target
    THEN [found |-> TRUE, visited |-> visited, path |-> path_edges]
    ELSE IF account \in visited
    THEN [found |-> FALSE, visited |-> visited, path |-> path_edges]
    ELSE LET tried == TryEdges(s, Adjacent(s, account), target,
                               visited \cup {account}, path_edges)
         IN  IF tried.found THEN tried
             ELSE [tried EXCEPT !.visited = @ \ {account}]

TryEdges(s, edges, target, visited, path_edges) ==
    IF edges = <<>>
    THEN [found |-> FALSE, visited |-> visited, path |-> path_edges]
    ELSE LET deeper == dfs_find_cycle(s, obs[edges[1]].receiver, target, visited,
                                      Append(path_edges, edges[1]), FALSE)
         IN  IF deeper.found THEN deeper
             ELSE TryEdges(s, Tail(edges), target, deeper.visited, Front(deeper.path))

SearchFrom(s, start) == dfs_find_cycle(s, start, start, {}, <<>>, TRUE)

(***************************************************************************)
(* The search from an account finds the least simple cycle through it; it  *)
(* finds none exactly when there is none, and then leaves no account       *)
(* marked and no edge on the path.                                         *)
(***************************************************************************)
SearchFindsTheLeastCycle ==
    \A s \in Symbols : \A start \in Starts(s) :
        LET search == SearchFrom(s, start)
        IN  IF search.found
            THEN FoundFrom(s, start) = {search.path}
            ELSE /\ Cycles(s, start) = {}
                 /\ search.visited = {}
                 /\ search.path = <<>>
=============================================================================
