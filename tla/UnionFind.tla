------------------------------ MODULE UnionFind ------------------------------
(* The union-find forest that thread_join consults (src/src/thread.c,         *)
(* uf_find and uf_union; src/src/thread_mn.c holds the same two functions).   *)
(*                                                                            *)
(* uf = [parent |-> f, rank |-> r] stands for the fields parent and rank of   *)
(* thread_cold_t, one node per descriptor.  A node is its own parent exactly  *)
(* when it is the root of its tree.                                           *)
EXTENDS Integers, FiniteSets

(* 2 ^ n, as a recursion: the proof system has no rule for exponents.         *)
PowerOfTwo(n) == LET p[k \in 0 .. n] == IF k = 0 THEN 1 ELSE 2 * p[k - 1] IN p[n]

(* The forest where every node is alone.                                      *)
UfInit(nodes) == [parent |-> [x \in nodes |-> x], rank |-> [x \in nodes |-> 0]]

(* thread_cold_reset, its two assignments to the forest.                      *)
MutUfReset(uf, x) == [uf EXCEPT !.parent[x] = 1]  \* mutant: left at zero, which is main
UfReset(uf, x) == [parent |-> [uf.parent EXCEPT ![x] = x],
                   rank   |-> [uf.rank EXCEPT ![x] = 0]]

(* uf_find with path halving: the root of x and the parents it leaves.  The   *)
(* body of the loop changes nothing once it is at a root, so a round per node *)
(* is enough.                                                                 *)
MutUfFind(parent, x) == [root |-> parent[x], parent |-> parent]  \* mutant: no loop
UfFind(parent, x) ==
  LET walk[k \in 0 .. Cardinality(DOMAIN parent)] ==
        IF k = 0
        THEN [root |-> x, parent |-> parent]
        ELSE LET w == walk[k - 1]
                 g == w.parent[w.parent[w.root]]
             IN  [root |-> g, parent |-> [w.parent EXCEPT ![w.root] = g]]
  IN  walk[Cardinality(DOMAIN parent)]

(* uf_union: ok is FALSE when the code returns -1 because x and y already     *)
(* have the same root; the halved paths are kept in both cases.               *)
UfUnion(uf, x, y) ==
  LET fx   == UfFind(uf.parent, x)
      fy   == UfFind(fx.parent, y)
      swap == uf.rank[fx.root] < uf.rank[fy.root]
      a    == IF swap THEN fy.root ELSE fx.root
      b    == IF swap THEN fx.root ELSE fy.root
  IN  IF fx.root = fy.root
      THEN [ok |-> FALSE, uf |-> [uf EXCEPT !.parent = fy.parent]]
      ELSE [ok |-> TRUE,
            uf |-> [parent |-> [fy.parent EXCEPT ![b] = a],
                    rank   |-> IF uf.rank[a] = uf.rank[b]
                               THEN [uf.rank EXCEPT ![a] = @ + 1]
                               ELSE uf.rank]]
=============================================================================
