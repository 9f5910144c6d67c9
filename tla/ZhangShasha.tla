---------------------------- MODULE ZhangShasha ----------------------------
(***************************************************************************)
(* The recovery of small subtrees by tree edit distance                    *)
(* (internal/engine/zs.go).  A tree is a sequence of nodes in post-order,  *)
(* each a record [kind, label, size]; the nodes of the subtree of node i   *)
(* are the size of them that end at i.                                     *)
(*                                                                         *)
(* forestdist[i][j] is the cost of turning the nodes up to i, from the     *)
(* leftmost leaf of the current key root on, into those up to j;           *)
(* treedist[i][j] the cost of turning the subtree of i into that of j.     *)
(* Both are kept in one record of tables and filled key root by key root.  *)
(*                                                                         *)
(* The roots are inner nodes, so the kinds of their parents never count.   *)
(***************************************************************************)
EXTENDS SeqAlign

Incompatible == 1000

\* The node before the leftmost leaf of i (computeLLD, whose indices count from 0).
LLD(T, i) == i - T[i].size

\* computeKeyRoots: the highest node of every leftmost path, from the last node down.
KeyRoots(T) == SelectSeq(Reverse(Numbers(Len(T))), LAMBDA i : \A k \in (i + 1)..Len(T) : LLD(T, k) # LLD(T, i))

IsLeaf(T, i) == T[i].size = 1
ParentKind(T, i) ==
  LET above == {k \in (i + 1)..Len(T) : LLD(T, k) < i} IN IF above = {} THEN "" ELSE T[Min(above)].kind

\* zsMatchCost; two nodes are of matching types when their kinds are equal.
MatchCost(T, U, i, j) ==
  CASE T[i].kind # U[j].kind -> Incompatible
    [] T[i].kind = U[j].kind /\ T[i].label = U[j].label -> 0
    [] OTHER -> IF IsLeaf(T, i) /\ IsLeaf(U, j) /\ ParentKind(T, i) # ParentKind(U, j) THEN 2 ELSE 1

Smallest(a, b, c) == Least(a, Least(b, c))

\* Always so: the test has TLC evaluate the tables before it goes on filling them.
Filled(tables) == DOMAIN tables = {"forest", "tree"}

\* zsForestDist for the key roots i and j: the tables afterwards.
ForestDist(T, U, i, j, tables) ==
  LET fi == LLD(T, i)
      fj == LLD(U, j)
      Cell(t, di, dj) ==
        LET onPath == LLD(T, di) = fi /\ LLD(U, dj) = fj
            sub == IF onPath THEN t.forest[di - 1][dj - 1] + MatchCost(T, U, di, dj)
                   ELSE t.forest[LLD(T, di)][LLD(U, dj)] + t.tree[di][dj]
            cost == Smallest(t.forest[di - 1][dj] + 1, t.forest[di][dj - 1] + 1, sub)
        IN [forest |-> [t.forest EXCEPT ![di][dj] = cost],
            tree |-> IF onPath THEN [t.tree EXCEPT ![di][dj] = cost] ELSE t.tree]
      Edge(f) == [a \in DOMAIN f |-> [b \in DOMAIN f[a] |->
                    CASE b = fj /\ a \in fi..i -> a - fi
                      [] a = fi /\ b \in fj..j -> b - fj
                      [] OTHER -> f[a][b]]]
      Row(t, di) == IF Filled(t) THEN FoldLeft(LAMBDA s, k : Cell(s, di, fj + k), t, Numbers(j - fj)) ELSE t
  IN IF Filled(tables) THEN FoldLeft(LAMBDA s, k : Row(s, fi + k), [tables EXCEPT !.forest = Edge(@)], Numbers(i - fi))
     ELSE tables

NoTables(T, U) ==
  LET zero == [a \in 0..Len(T) |-> [b \in 0..Len(U) |-> 0]] IN [forest |-> zero, tree |-> zero]

\* The double loop of RunZSRecovery over the key roots of both trees.
Distances(T, U) ==
  LET Inner(t, i) == IF Filled(t) THEN FoldLeft(LAMBDA s, j : ForestDist(T, U, i, j, s), t, KeyRoots(U)) ELSE t
  IN FoldLeft(Inner, NoTables(T, U), KeyRoots(T))

\* Mutant: one of the two nodes is enough.
BothOnPathEither(T, U, s) == LLD(T, s.row) = s.fi \/ LLD(U, s.col) = s.fj

\* The nodes the walk is at are on the leftmost paths of the subtrees it walks.
BothOnPath(T, U, s) == LLD(T, s.row) = s.fi /\ LLD(U, s.col) = s.fj

\* A step of the walk of zsBacktrack through the table of a pair of subtrees: the two nodes
\* are paired, the pair of their subtrees is left for later, or one of them is passed over.
Walk(T, U, s) ==
  LET f == s.tables.forest
      both == s.row > s.fi /\ s.col > s.fj
  IN CASE s.row <= s.fi /\ s.col <= s.fj -> s
       [] both /\ BothOnPath(T, U, s) /\ f[s.row - 1][s.col - 1] + MatchCost(T, U, s.row, s.col) = f[s.row][s.col] ->
            [s EXCEPT !.pairs = Append(@, <<s.row, s.col>>), !.row = @ - 1, !.col = @ - 1]
       [] both /\ ~BothOnPath(T, U, s) /\ f[LLD(T, s.row)][LLD(U, s.col)] + s.tables.tree[s.row][s.col] = f[s.row][s.col] ->
            [s EXCEPT !.todo = <<<<s.row, s.col>>>> \o @, !.row = LLD(T, s.row), !.col = LLD(U, s.col)]
       [] OTHER -> IF s.row > s.fi /\ f[s.row - 1][s.col] + 1 = f[s.row][s.col] THEN [s EXCEPT !.row = @ - 1]
                   ELSE IF s.col > s.fj /\ f[s.row][s.col - 1] + 1 = f[s.row][s.col] THEN [s EXCEPT !.col = @ - 1]
                   ELSE s

\* The next pair of subtrees: its tables are filled again and walked through.
WalkStart(T, U, s) ==
  LET p == Head(s.todo)
  IN [pairs |-> s.pairs, todo |-> Tail(s.todo), row |-> p[1], col |-> p[2],
      fi |-> LLD(T, p[1]), fj |-> LLD(U, p[2]), tables |-> ForestDist(T, U, p[1], p[2], s.tables)]
VisitPair(T, U, s) ==
  IF s.todo = <<>> THEN s
  ELSE FoldLeft(LAMBDA t, k : Walk(T, U, t), WalkStart(T, U, s),
                Numbers(T[Head(s.todo)[1]].size + U[Head(s.todo)[2]].size))

\* zsBacktrack: the pairs it finds (edits are dropped), in the order it finds them.  The
\* subtrees left for later by one visit are disjoint and smaller in one tree at least, so
\* Len(T) + Len(U) visits empty the stack.
Backtrack(T, U, tables) ==
  FoldLeft(LAMBDA s, k : VisitPair(T, U, s), [pairs |-> <<>>, todo |-> <<<<Len(T), Len(U)>>>>, tables |-> tables],
           Numbers(Len(T) + Len(U))).pairs

\* RunZSRecovery without the mapping it adds to: the pairs it proposes, in the order it adds them.
ZSPairs(T, U) ==
  LET found == Reverse(Backtrack(T, U, Distances(T, U)))
  IN Chosen(found, {k \in DOMAIN found : T[found[k][1]].kind = U[found[k][2]].kind})
=============================================================================
