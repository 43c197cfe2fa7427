-------------------------------- MODULE Dfs --------------------------------
(***************************************************************************)
(* The graph searches of utils/dfs: the search for a cycle and the order   *)
(* of a depth first search.  A graph m gives each node the list of the     *)
(* nodes it leads to.  The loops over a Go map take its keys in an order   *)
(* of their own each time, the argument keys.                              *)
(***************************************************************************)
EXTENDS Naturals, Sequences, SequencesExt

\* The orders in which a loop over a map with the keys S may go.
Orders(S) == {s \in [1 .. Cardinality(S) -> S] : \A i, j \in DOMAIN s : s[i] = s[j] => i = j}

\* The nodes from v back to w, w left out, along edgeTo.
RECURSIVE Back(_, _, _)
Back(edgeTo, v, w) == IF v = w THEN <<>> ELSE <<v>> \o Back(edgeTo, edgeTo[v], w)

RECURSIVE CycleDfs(_, _, _), CycleEdges(_, _, _, _)

\* Mutant: a node that is met again is taken for one on the stack.
CycleEdgesMarked(m, dc, v, i) ==
  IF i > Len(m[v]) THEN [dc EXCEPT !.onStack = @ \ {v}]
  ELSE IF dc.cycle # <<>> THEN dc
  ELSE LET w == m[v][i] IN
       IF w \notin dc.marked
       THEN CycleEdges(m, CycleDfs(m, [dc EXCEPT !.edgeTo[w] = v], w), v, i + 1)
       ELSE CycleEdges(m, [dc EXCEPT !.cycle = <<w, v>>], v, i + 1)

\* The loop of dfs over the edges of v, from the i-th one.
CycleEdges(m, dc, v, i) ==
  IF i > Len(m[v]) THEN [dc EXCEPT !.onStack = @ \ {v}]
  ELSE IF dc.cycle # <<>> THEN dc
  ELSE LET w == m[v][i] IN
       IF w \notin dc.marked
       THEN CycleEdges(m, CycleDfs(m, [dc EXCEPT !.edgeTo[w] = v], w), v, i + 1)
       ELSE CycleEdges(m, [dc EXCEPT !.cycle = IF w \in dc.onStack
                                               THEN Back(dc.edgeTo, v, w) \o <<w, v>>
                                               ELSE @], v, i + 1)

CycleDfs(m, dc, v) ==
  CycleEdges(m, [dc EXCEPT !.marked = @ \cup {v}, !.onStack = @ \cup {v}], v, 1)

\* NewDirectedCycle(m).Cycle(): a cycle of m from its end to its start, or <<>>.
Cycle(m, keys) ==
  FoldLeft(LAMBDA dc, k : IF k \in dc.marked THEN dc ELSE CycleDfs(m, dc, k),
           [marked |-> {}, onStack |-> {}, edgeTo |-> [k \in DOMAIN m |-> k], cycle |-> <<>>],
           keys).cycle

RECURSIVE OrderDfs(_, _, _), OrderEach(_, _, _)

\* dfs, for each of the nodes vs that is not marked.
OrderEach(m, do, vs) ==
  FoldLeft(LAMBDA d, w : IF w \in d.marked THEN d ELSE OrderDfs(m, d, w), do, vs)

\* Mutant: a node is put down before those it leads to.
OrderDfsPre(m, do, v) ==
  OrderEach(m, [marked |-> do.marked \cup {v}, postOrder |-> Append(do.postOrder, v)], m[v])

\* DfsOrder.dfs; the pre order, which nobody asks for, is left out.
OrderDfs(m, do, v) ==
  LET d == OrderEach(m, [do EXCEPT !.marked = @ \cup {v}], m[v])
  IN  [d EXCEPT !.postOrder = Append(@, v)]

\* NewDfsOrder(m).PostOrder()
PostOrder(m, keys) == OrderEach(m, [marked |-> {}, postOrder |-> <<>>], keys).postOrder
=============================================================================
