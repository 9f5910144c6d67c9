------------------------------- MODULE Syntax -------------------------------
(***************************************************************************)
(* Syntax trees as every pass sees them (internal/treesitter/ast.go,       *)
(* ast_index.go, internal/engine/utils.go): a tree is the sequence of its  *)
(* nodes in pre-order, so a node is its index (its ID plus one) and the    *)
(* subtree of n is the size of n nodes from n on.                          *)
(*                                                                         *)
(* A node is a record with at least                                        *)
(*   kind, label, parent (0 for the root), size, row, end                  *)
(* where row and end are its first and last line.  0 stands for no node.   *)
(*                                                                         *)
(* A mapping is a sequence of pairs of nodes, one to one, in the order the *)
(* pairs were added (see Mapping).                                         *)
(***************************************************************************)
EXTENDS SeqAlign

CONSTANT
  Rules   \* the language rules: for each role, the kinds of node that play it

Role(role, kind) == kind \in Rules[role]
IsBlock(kind) == Role("block", kind)
IsDeclaration(kind) == Role("declaration", kind)
IsLocalVarDeclaration(kind) == Role("local", kind)
IsContainerDeclaration(kind) == Role("container", kind)
IsClosure(kind) == Role("closure", kind)
IsWrapper(kind) == Role("wrapper", kind)
IsIdentifier(kind) == Role("identifier", kind)
IsAssignment(kind) == Role("assignment", kind)
IsOperatorLiteral(kind) == Role("operator", kind)
IsStatement(kind) == Role("statement", kind)
IsCaseClause(kind) == Role("case", kind)
IsCall(kind) == Role("call", kind)

Scope(kind) == IsBlock(kind) \/ IsDeclaration(kind) \/ IsWrapper(kind)

-----------------------------------------------------------------------------
\* The tree.
Subtree(T, n) == n..(n + T[n].size - 1)
Descendants(T, n) == (n + 1)..(n + T[n].size - 1)
Encloses(T, n, c) == c \in Descendants(T, n)
Children(T, n) == SelectSeq([k \in 1..(T[n].size - 1) |-> n + k], LAMBDA c : T[c].parent = n)
ChildSet(T, n) == {c \in Descendants(T, n) : T[c].parent = n}
Leaf(T, n) == T[n].size = 1
Ancestors(T, n) == {a \in 1..(n - 1) : Encloses(T, a, n)}

\* The child index, -1 for the root.
ChildIndex(T, n) ==
  IF T[n].parent = 0 THEN -1 ELSE Cardinality({c \in ChildSet(T, T[n].parent) : c < n})

\* The closest ancestor with a property, 0 when there is none.
Closest(S) == IF S = {} THEN 0 ELSE Max(S)
First(S) == IF S = {} THEN 0 ELSE Min(S)

\* The height of a subtree; a leaf has height 1.
DepthTo(T, n, anc) == Cardinality({a \in Ancestors(T, n) : a >= anc})
Height(T, n) == 1 + Max({DepthTo(T, d, n) : d \in Subtree(T, n)})

\* The nodes of a subtree in post-order: what ends first, and of two that end together the
\* lower one, comes first.
EndsBefore(T, x, y) ==
  x + T[x].size < y + T[y].size \/ (x + T[x].size = y + T[y].size /\ x > y)
PostOrder(T, n) ==
  LET Below(x) == {y \in Subtree(T, n) : EndsBefore(T, y, x)}
  IN Append([k \in 1..(T[n].size - 1) |-> CHOOSE x \in Subtree(T, n) : Cardinality(Below(x)) = k - 1], n)
InPostOrder(T, n) ==
  LET order == PostOrder(T, n)
  IN [k \in DOMAIN order |-> [kind |-> T[order[k]].kind, label |-> T[order[k]].label, size |-> T[order[k]].size]]

\* Equal hashes (a collision of the 64 bit hashes is left out), with and without labels.
SameShape(T, a, U, b) ==
  /\ T[a].size = U[b].size
  /\ \A k \in 0..(T[a].size - 1) : T[a + k].kind = U[b + k].kind /\ T[a + k].size = U[b + k].size
Isomorphic(T, a, U, b) ==
  SameShape(T, a, U, b) /\ \A k \in 0..(T[a].size - 1) : T[a + k].label = U[b + k].label
StructureIsomorphic(T, a, U, b) == SameShape(T, a, U, b)

-----------------------------------------------------------------------------
\* Names and scopes.
Labelled(T, S) == {x \in S : IsIdentifier(T[x].kind) /\ T[x].label # ""}

\* getDeclarationName: an identifier right below the declaration, else the first one two
\* or three levels down, outside its blocks and wrappers.
DeclarationName(T, n) ==
  LET direct == Labelled(T, ChildSet(T, n))
      heads == {c \in ChildSet(T, n) : ~IsBlock(T[c].kind) /\ ~IsWrapper(T[c].kind)}
      below == Labelled(T, {x \in Descendants(T, n) : DepthTo(T, x, n) \in 2..3 /\ \E c \in heads : Encloses(T, c, x)})
  IN CASE ~IsDeclaration(T[n].kind) /\ ~IsLocalVarDeclaration(T[n].kind) -> ""
       [] direct # {} -> T[Min(direct)].label
       [] OTHER -> IF below = {} THEN "" ELSE T[Min(below)].label

HasClosureChild(T, n) == \E d \in Descendants(T, n) : IsClosure(T[d].kind)

\* getClosureDeclarationName: the first identifier in front of the assignment operator.
ClosureDeclarationName(T, n) ==
  LET op == First({c \in ChildSet(T, n) : IsAssignment(T[c].kind) \/ IsOperatorLiteral(T[c].kind)})
      heads == {c \in ChildSet(T, n) : ~IsBlock(T[c].kind) /\ (op # 0 => c < op)}
      names == Labelled(T, UNION {Subtree(T, c) : c \in heads})
  IN IF ~HasClosureChild(T, n) \/ names = {} THEN "" ELSE T[Min(names)].label

EnclosingContainerDeclaration(T, n) ==
  Closest({a \in Ancestors(T, n) : IsContainerDeclaration(T[a].kind) \/ IsClosure(T[a].kind)})

\* The root is a scope whatever its kind.
FindEnclosingScope(T, n) == Closest({a \in Ancestors(T, n) : Scope(T[a].kind) \/ T[a].parent = 0})
GetEnclosingDeclaration(T, n) ==
  Closest({a \in Ancestors(T, n) : IsDeclaration(T[a].kind) \/ IsLocalVarDeclaration(T[a].kind)})

\* FindImmediateStatement: the statement, declaration, case or block item n belongs to.
IsStatementOrBranch(T, n) ==
  \/ IsStatement(T[n].kind) \/ IsDeclaration(T[n].kind) \/ IsCaseClause(T[n].kind)
  \/ T[n].parent # 0 /\ ~IsBlock(T[n].kind) /\ IsBlock(T[T[n].parent].kind)
FindImmediateStatement(T, n) ==
  LET S == {a \in Ancestors(T, n) \cup {n} : IsStatementOrBranch(T, a)} IN IF S = {} THEN n ELSE Max(S)

\* findBodyBlock, isDeclarationHeader: the signature of a container, not its body.
FindBodyBlock(T, n) == First({c \in ChildSet(T, n) : IsBlock(T[c].kind)})
IsDeclarationHeader(T, n) ==
  LET decl == Closest({a \in Ancestors(T, n) : IsContainerDeclaration(T[a].kind)})
      body == IF decl = 0 THEN 0 ELSE FindBodyBlock(T, decl)
  IN body # 0 /\ n \notin Subtree(T, body)

-----------------------------------------------------------------------------
\* The mapping, as the passes after the matcher read it.
Get(pairs, s) == LET K == {k \in DOMAIN pairs : pairs[k][1] = s} IN IF K = {} THEN 0 ELSE pairs[Min(K)][2]
GetSrc(pairs, d) == LET K == {k \in DOMAIN pairs : pairs[k][2] = d} IN IF K = {} THEN 0 ELSE pairs[Min(K)][1]

\* AdjustedLineDistance: the distance of the rows, or a smaller one relative to the closest
\* mapped ancestor around both, or to a mapped child of it in front of both.
AdjustedLineDistance(S, D, pairs, s, d) ==
  LET anchors == {a \in Ancestors(S, s) : Get(pairs, a) # 0 /\ Encloses(D, Get(pairs, a), d)}
      a == Closest(anchors)
      b == Get(pairs, a)
      SrcOffset(n) == S[n].row - S[a].row
      DstOffset(n) == D[n].row - D[b].row
      before == {c \in ChildSet(S, a) : /\ \A e \in ChildSet(S, a) : e <= c => S[e].row < S[s].row
                                        /\ Get(pairs, c) # 0
                                        /\ D[Get(pairs, c)].row < D[d].row
                                        /\ Encloses(D, b, Get(pairs, c))}
      drifts == {0} \cup {DstOffset(Get(pairs, c)) - SrcOffset(c) : c \in before}
  IN IF anchors = {} THEN Distance(S[s].row, D[d].row)
     ELSE Min({Distance(S[s].row, D[d].row)} \cup {Distance(DstOffset(d), SrcOffset(s) + x) : x \in drifts})
=============================================================================
