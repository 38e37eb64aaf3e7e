---------------------------- MODULE PointerChase ----------------------------
(***************************************************************************)
(* The linked lists that the cache analyzer and the memory explorer follow *)
(* to measure latency: node n points to node next[n], and a walk starts at *)
(* node 0.                                                                 *)
(***************************************************************************)
EXTENDS Integers, Functions

NodesOf(n) == 0 .. n - 1

\* PointerChaseList: the nodes in a random order, and the last points to the
\* first.  order is a permutation of the nodes.
Chain(order, n) ==
  [node \in NodesOf(n) |-> order[(Inverse(order, NodesOf(n), NodesOf(n))[node] + 1) % n]]

Swap(next, i, j) == [next EXCEPT ![i] = next[j], ![j] = next[i]]

\* pointer_chase of the memory explorer: a ring, in which the successor of
\* each node but the last is swapped with that of a node drawn[i] >= i.
Shuffled(drawn, n) ==
  LET after[i \in 0 .. n - 1] ==
        IF i = 0 THEN [node \in NodesOf(n) |-> (node + 1) % n]
                 ELSE Swap(after[i - 1], i - 1, drawn[i - 1])
  IN after[n - 1]
Draws(n) == {d \in [0 .. n - 2 -> NodesOf(n)] : \A i \in DOMAIN d : d[i] >= i}

\* Where the walk is after so many steps, and what it has seen after n.
Walk(next, steps) ==
  LET at[k \in 0 .. steps] == IF k = 0 THEN 0 ELSE next[at[k - 1]] IN at
Visited(next, n) == {Walk(next, n)[k] : k \in 1 .. n}

Orders(n) == Bijection(NodesOf(n), NodesOf(n))
=============================================================================
