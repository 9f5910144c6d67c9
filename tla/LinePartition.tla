--------------------------- MODULE LinePartition ---------------------------
(***************************************************************************)
(* The division of the nodes into untouched and edited ones                *)
(* (internal/engine/partition.go): a node is in group 1 when all its lines *)
(* are matched, in one run, to lines of the same declaration, and it is    *)
(* not a lonely trivial match.  Passes only pair nodes that CanMatch.      *)
(*                                                                         *)
(* A partition is a record [matchedA, matchedB, subA, subB, scopeA,        *)
(* scopeB] of functions of the 1-based line numbers: the matched line or   *)
(* 0, whether the line is substantive, the name of its declaration.        *)
(***************************************************************************)
EXTENDS LineDiff, Syntax

Lines(n) == 1..n

\* NewLinePartition.
MatchedFrom(pairs, n, side) ==
  [i \in Lines(n) |-> LET K == {k \in DOMAIN pairs : pairs[k][side] = i} IN
                      IF K = {} THEN 0 ELSE pairs[CHOOSE k \in K : TRUE][3 - side]]
Substantive(lines) == [i \in DOMAIN lines |-> LineWeight(lines[i]) > 1]

\* AttachRoots: the innermost named declaration of every line; a later declaration in
\* pre-order takes the line over.
ScopeName(T, n) ==
  CASE IsContainerDeclaration(T[n].kind) -> DeclarationName(T, n)
    [] ~IsContainerDeclaration(T[n].kind) /\ (IsLocalVarDeclaration(T[n].kind) \/ IsAssignment(T[n].kind)) ->
         ClosureDeclarationName(T, n)
    [] OTHER -> ""
Scopes(T, count) ==
  LET named == {n \in DOMAIN T : ScopeName(T, n) # ""}
  IN [i \in Lines(count) |-> LET S == {n \in named : i \in T[n].row..T[n].end} IN
                             IF S = {} THEN "" ELSE ScopeName(T, Max(S))]

PartitionBy(pairs, A, B, S, D) ==
  [matchedA |-> MatchedFrom(pairs, Len(A), 1), matchedB |-> MatchedFrom(pairs, Len(B), 2),
   subA |-> Substantive(A), subB |-> Substantive(B),
   scopeA |-> Scopes(S, Len(A)), scopeB |-> Scopes(D, Len(B))]
NewLinePartition(A, B, S, D) == PartitionBy(LineDiff(A, B), A, B, S, D)

\* hasSubstantiveNeighborInRun: a substantive line in the run of matches around the line.
HasSubstantiveNeighborInRun(matched, sub, row, other) ==
  \E r \in DOMAIN matched \ {row} :
    /\ sub[r]
    /\ \A q \in Least(r, row)..Greatest(r, row) : matched[q] # 0 /\ matched[q] = other + (q - row)

\* Mutant: the matches of the lines need not be one run.
IsGroup1Scattered(matched, sub, own, other, row, end) ==
  LET start == matched[row]
      matches == Cardinality({i \in DOMAIN matched : matched[i] # 0})
  IN /\ \A r \in row..end : matched[r] # 0
     /\ own[row] = other[start]
     /\ row = end /\ matches > 1 => HasSubstantiveNeighborInRun(matched, sub, row, start)

\* isGroup1
IsGroup1(matched, sub, own, other, row, end) ==
  LET start == matched[row]
      matches == Cardinality({i \in DOMAIN matched : matched[i] # 0})
  IN /\ start # 0
     /\ \A r \in row..end : matched[r] = start + (r - row)
     /\ own[row] = other[start]
     /\ row = end /\ matches > 1 => HasSubstantiveNeighborInRun(matched, sub, row, start)

IsGroup1A(part, T, n) == IsGroup1(part.matchedA, part.subA, part.scopeA, part.scopeB, T[n].row, T[n].end)
IsGroup1B(part, T, n) == IsGroup1(part.matchedB, part.subB, part.scopeB, part.scopeA, T[n].row, T[n].end)

CanMatch(part, S, s, D, d) ==
  LET a == IsGroup1A(part, S, s)
      b == IsGroup1B(part, D, d)
  IN /\ a <=> b
     /\ a => D[d].row = part.matchedA[S[s].row] /\ S[s].row = part.matchedB[D[d].row]
=============================================================================
