----------------------------- MODULE UnionFind -----------------------------
(***************************************************************************)
(* The two union-find forests of the code: the crystallizer's, in which the *)
(* first root is hung below the second, and the entity merger's, by rank.   *)
(* A pair is a tuple of two ids.                                            *)
(***************************************************************************)
EXTENDS Integers, Sequences, FiniteSets
LOCAL INSTANCE SequencesExt

Ends(pairs) == UNION {{pairs[i][1], pairs[i][2]} : i \in DOMAIN pairs}

\* The root of x, and the forest after the halving of the path to it.
RECURSIVE find(_, _)
find(parent, x) ==
    IF parent[x] = x THEN [root |-> x, parent |-> parent]
    ELSE find([parent EXCEPT ![x] = parent[parent[x]]], parent[parent[x]])

UnionOfEnds(parent, pair) == [parent EXCEPT ![pair[1]] = pair[2]]
union(parent, pair) ==
    LET a == find(parent, pair[1])
        b == find(a.parent, pair[2])
    IN [b.parent EXCEPT ![a.root] = b.root]

\* The member sets of the trees.
Trees(parent) == {{x \in DOMAIN parent : find(parent, x).root = r} : r \in {find(parent, x).root : x \in DOMAIN parent}}

build_clusters(pairs) == Trees(FoldLeft(union, [x \in Ends(pairs) |-> x], pairs))

entity_uf_union(forest, pair) ==
    LET a == find(forest.parent, pair[1])
        b == find(a.parent, pair[2])
        rank == forest.rank
        top == IF rank[a.root] < rank[b.root] THEN b.root ELSE a.root
        low == IF top = a.root THEN b.root ELSE a.root
    IN IF a.root = b.root THEN [forest EXCEPT !.parent = b.parent]
       ELSE [parent |-> [b.parent EXCEPT ![low] = top],
             rank |-> IF rank[top] = rank[low] THEN [rank EXCEPT ![top] = @ + 1] ELSE rank]

entity_clusters(pairs) ==
    Trees(FoldLeft(entity_uf_union, [parent |-> [x \in Ends(pairs) |-> x], rank |-> [x \in Ends(pairs) |-> 0]],
                   pairs).parent)

-----------------------------------------------------------------------------
(* What a clustering should be.                                            *)

RECURSIVE Reach(_, _)
Reach(S, pairs) ==
    LET T == S \cup UNION {{pairs[i][1], pairs[i][2]} : i \in {j \in DOMAIN pairs : pairs[j][1] \in S \/ pairs[j][2] \in S}}
    IN IF T = S THEN S ELSE Reach(T, pairs)

Components(pairs) == {Reach({x}, pairs) : x \in Ends(pairs)}
=============================================================================
