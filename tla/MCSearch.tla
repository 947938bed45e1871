------------------------------ MODULE MCSearch ------------------------------
(* Bounded instances of RouteSearch. *)
EXTENDS RouteSearch

E(id, s, d, r, w) == [id |-> id, source |-> s, destination |-> d, relation |-> r, weight |-> w]
G(nodes, relations, edges) == [nodes |-> nodes, relations |-> relations, edges |-> edges]

\* Ids are neither dense nor in the order of the edges.  A diamond with equal
\* sums, parallel edges, a back edge and a node without edges; a zero-weight
\* cycle with a self loop; two parallel edges cut by a partition boundary.
Diamond ==
    G({2, 4, 5, 9}, {3, 7},
      {E(1, 4, 9, 3, 1), E(2, 2, 5, 3, 1), E(3, 2, 4, 7, 2), E(4, 5, 9, 7, 2), E(6, 2, 9, 7, 4),
       E(8, 9, 2, 3, 1)})
ZeroCycle ==
    G({2, 4, 5}, {3},
      {E(1, 5, 4, 3, 0), E(2, 4, 5, 3, 0), E(3, 2, 4, 3, 1), E(5, 2, 5, 3, 1), E(6, 4, 4, 3, 0)})
Detour ==
    G({1, 2, 3, 4, 6}, {3},
      {E(1, 1, 2, 3, 6), E(2, 1, 3, 3, 1), E(3, 3, 2, 3, 1), E(4, 2, 4, 3, 3)})
Bare == G({1, 2}, {3}, {})

MCGraphs == {Diamond, ZeroCycle, Detour, Bare}
MCFans == {<<3, 2>>, <<0, 1>>}

C(target, hard, total) == [target |-> target, hard |-> hard, total |-> total]
\* One partition; one edge a partition; a target below one edge; too few bytes.
MCConfigs == {C(200, 200, 5000), C(48, 60, 5000), C(1, 96, 5000), C(60, 72, 5000),
               C(200, 100, 5000), C(48, 60, 500)}

R(origin, destinations, profile, paths, budget) ==
    [origin |-> origin, destinations |-> destinations, profile |-> profile,
     paths |-> paths, budget |-> budget]

Plain == <<<<3, 1>>>>
Both == <<<<3, 1>>, <<7, 1>>>>
Double == <<<<3, 2>>>>
One == <<<<7, Disabled>>, <<3, 2>>>>

MCRequests ==
    {R(2, <<9, 8, 9, 2>>, Both, TRUE, Unlimited),
     R(2, <<9, 4>>, One, FALSE, 3),
     R(2, <<5>>, Plain, TRUE, Unlimited),
     R(2, <<9>>, Both, TRUE, 2),
     R(1, <<4, 2, 6>>, Plain, TRUE, Unlimited),
     R(1, <<4, 2>>, Double, FALSE, Unlimited),
     R(1, <<4>>, <<<<3, 3>>>>, FALSE, Unlimited),
     R(1, <<1, 7>>, Plain, FALSE, 0)}

\* A distance so large that the next heavy edge is lost in its rounding.
Chain == G({1, 2, 3, 4}, {3}, {E(1, 1, 2, 3, 16), E(2, 2, 3, 3, 2), E(3, 3, 4, 3, 2)})
ChainGraphs == {Chain}
ChainConfigs == {C(200, 200, 5000)}
ChainRequests == {R(1, <<4>>, Plain, FALSE, Unlimited)}
NoFans == {}
=============================================================================
