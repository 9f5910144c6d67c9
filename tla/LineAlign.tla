----------------------------- MODULE LineAlign -----------------------------
(***************************************************************************)
(* The rows of the side-by-side view (internal/serialize/align.go): every  *)
(* line of both files is put on a row, alone or next to a line of the      *)
(* other file.  Lines that did not change, mapped statements and statements*)
(* moved in place become anchors; the gaps between the anchors are aligned *)
(* by Gotoh's affine-gap dynamic programming, on a band when the gap is    *)
(* large, divided by another line diff when it is huge.                    *)
(*                                                                         *)
(* Everything is computed from one input record                            *)
(*   [A, B      lines of the files, as in LineDiff                         *)
(*    S, D      their syntax trees, whose nodes also have lead, the first  *)
(*              line with their leading comments, and tail, the text of    *)
(*              their last line up to their end                            *)
(*    pairs     the mapping                                                *)
(*    edits     the moves of the edit script, [node, dest, subtree], dest  *)
(*              being 0 when the mapping says where the node went          *)
(*    comments] the line mappings of the comment diff, as pairs in the     *)
(*              order the map of the code happens to be iterated           *)
(* Lines are numbered from 1; 0 is the filler of a row.                    *)
(***************************************************************************)
EXTENDS LineDiff, Syntax

CONSTANTS
  Near,          \* lines a statement may drift and stay in place (5 in the code)
  Similarity,    \* twenty times the bigram similarity of two keys, rounded
  SharedWords,   \* the pairs of keys that have a word in common
  MaxCells,      \* the largest gap that gets a table (1000000)
  DenseSide, DenseCells,   \* the gaps that get a full table (40, 3600)
  BandWidth, BandSlack     \* the half width of the band (64, 32)

GapOpen == -15
GapExtend == -2
NegInf == -1000000

SameText(in, s, d) == ~Blank(in.A[s]) /\ in.A[s].key = in.B[d].key
Meaningful(line) == ~Blank(line) /\ line.key \notin Punctuation

\* isScopePreserved: the enclosing scopes are mapped to each other, or the nodes are close
\* and in the same declaration.
IsScopePreserved(in, s, d) ==
  LET s1 == FindEnclosingScope(in.S, s)
      s2 == FindEnclosingScope(in.D, d)
      d1 == EnclosingContainerDeclaration(in.S, s)
      d2 == EnclosingContainerDeclaration(in.D, d)
  IN \/ s1 = 0 /\ s2 = 0
     \/ s1 # 0 /\ s2 # 0 /\ Get(in.pairs, s1) = s2
     \/ /\ Distance(in.S[s].row, in.D[d].row) <= Near
        /\ IF d1 # 0 /\ d2 # 0 THEN Get(in.pairs, d1) = d2 ELSE d1 = d2

-----------------------------------------------------------------------------
\* The moves.
Target(in, edit) == IF edit.dest # 0 THEN edit.dest ELSE Get(in.pairs, edit.node)

\* markMoved: a node, or its whole subtree; no node for 0.
Marked(T, n, subtree) == CASE n = 0 -> {} [] n # 0 /\ subtree -> Subtree(T, n) [] OTHER -> {n}
MarkedBy(in, edits) ==
  [src |-> UNION {Marked(in.S, e.node, e.subtree) : e \in edits},
   dst |-> UNION {Marked(in.D, Target(in, e), e.subtree) : e \in edits}]
MovedNodes(in) == MarkedBy(in, Range(in.edits))

\* crosses: the pair of lines inverts the order of one of the statements.
Crosses(stmts, s, d) == \E p \in stmts : (p[1] < s /\ p[2] > d) \/ (p[1] > s /\ p[2] < d)

\* The lines of a move (a moveRange of the code), with the leading comments.
MoveRange(in, edit) ==
  LET d == Target(in, edit)
  IN [sStart |-> in.S[edit.node].lead, sEnd |-> in.S[edit.node].end,
      dStart |-> IF d = 0 THEN 0 ELSE in.D[d].lead, dEnd |-> IF d = 0 THEN 0 ELSE in.D[d].end,
      hasDst |-> d # 0]

\* A move inverts the order of a matched line that means something, or of a statement.
Inverts(in, r, matched, stmts) ==
  \E p \in {<<r.sStart, r.dStart>>, <<r.sEnd, r.dEnd>>} :
    Crosses({q \in matched : Meaningful(in.A[q[1]])} \cup stmts, p[1], p[2])

\* A move that keeps its place: same scope, little drift, nothing inverted.
IsInPlace(in, edit, matched, stmts) ==
  LET d == Target(in, edit)
      r == MoveRange(in, edit)
  IN /\ d # 0
     /\ IsScopePreserved(in, edit.node, d)
     /\ AdjustedLineDistance(in.S, in.D, in.pairs, edit.node, d) <= Near
     /\ ~Inverts(in, r, matched, stmts)

IsMacroStructural(T, n) ==
  T[n].size >= 4 \/ IsStatement(T[n].kind) \/ IsBlock(T[n].kind) \/ IsDeclaration(T[n].kind)

\* collectMoveRanges: the moves that drive the alignment, and the nodes moved in place.
InPlaceNodes(in, matched, stmts) == MarkedBy(in, {e \in Range(in.edits) : IsInPlace(in, e, matched, stmts)})
CollectMoveRanges(in, matched, stmts) ==
  LET Drives(e) == LET r == MoveRange(in, e) IN
        /\ ~IsInPlace(in, e, matched, stmts)
        /\ r.hasDst => r.sStart # r.dStart \/ r.sEnd - r.sStart # r.dEnd - r.dStart
        /\ IsMacroStructural(in.S, e.node)
      drivers == SelectSeq(in.edits, Drives)
  IN [k \in DOMAIN drivers |-> MoveRange(in, drivers[k])]

SrcInside(move, s) == s \in move.sStart..move.sEnd
DstInside(move, d) == move.hasDst /\ d \in move.dStart..move.dEnd
IsInsideMove(moves, s, d) == \E k \in DOMAIN moves : SrcInside(moves[k], s) \/ DstInside(moves[k], d)

\* isCrossMoveMismatch: the shortest moves around the two lines (the first of equally short
\* ones) are not the same.
IsCrossMoveMismatch(moves, s, d) ==
  LET Shortest(K, len(_)) == CHOOSE k \in K : \A l \in K : len(k) < len(l) \/ (len(k) = len(l) /\ k <= l)
      around == {k \in DOMAIN moves : SrcInside(moves[k], s)}
      target == {k \in DOMAIN moves : DstInside(moves[k], d)}
  IN /\ around # {} \/ target # {}
     /\ around # {} /\ target # {} =>
          moves[Shortest(around, LAMBDA k : moves[k].sEnd - moves[k].sStart)]
            # moves[Shortest(target, LAMBDA k : moves[k].dEnd - moves[k].dStart)]
IsIntraMove(moves, s, d) == IsInsideMove(moves, s, d) /\ ~IsCrossMoveMismatch(moves, s, d)

-----------------------------------------------------------------------------
\* The mapped statements.
IsIgnored(node) ==
  \/ IsOperatorLiteral(node.kind) \/ IsIdentifier(node.kind) \/ IsWrapper(node.kind) \/ IsBlock(node.kind)
  \/ Role("flattened", node.kind) \/ Role("punctuation", node.kind) \/ node.label \in Punctuation

\* A node that fills the lines of its parent is left to the parent.
FillsParent(T, n) ==
  LET p == T[n].parent IN p # 0 /\ ~IsBlock(T[p].kind) /\ T[p].row = T[n].row /\ T[p].end = T[n].end

IsStatementPair(in, s, d, allowed) ==
  /\ <<s, d>> \in allowed
  /\ in.S[s].kind = in.D[d].kind
  /\ IsScopePreserved(in, s, d)
  /\ ~IsIgnored(in.S[s])
  /\ ~FillsParent(in.S, s)

\* findSnappedTrailingBlock, mate being the mapping as seen from S: n2 reaches beyond the
\* block that ended it; the block.
SnappedTrailingBlock(S, n1, D, n2, mate, allowed) ==
  LET Down(s, k) ==
        LET next == {c \in ChildSet(S, s.n1) : /\ S[c].end = S[s.n1].end
                                               /\ mate[c] # 0 /\ D[mate[c]].parent = s.n2 /\ <<c, mate[c]>> \in allowed
                                               /\ IsBlock(S[c].kind) \/ ~Leaf(S, c)}
            c == Min(next)
        IN CASE s.done \/ next = {} -> [s EXCEPT !.done = TRUE]
             [] ~s.done /\ next # {} /\ IsBlock(S[c].kind) ->
                  [s EXCEPT !.done = TRUE, !.block = IF D[mate[c]].end # D[s.n2].end THEN mate[c] ELSE 0]
             [] OTHER -> [s EXCEPT !.n1 = c, !.n2 = mate[c]]
  IN FoldLeft(Down, [n1 |-> n1, n2 |-> n2, done |-> FALSE, block |-> 0], Numbers(S[n1].size)).block

\* The last lines of two statements: those of the snapped blocks, where there are.
EndNodes(in, s, d, allowed) ==
  LET mate == [n \in DOMAIN in.S |-> Get(in.pairs, n)]
      back == [n \in DOMAIN in.D |-> GetSrc(in.pairs, n)]
      c2 == SnappedTrailingBlock(in.S, s, in.D, d, mate, allowed)
      c1 == SnappedTrailingBlock(in.D, d, in.S, s, back, {<<p[2], p[1]>> : p \in allowed})
  IN <<IF c1 # 0 THEN c1 ELSE s, IF c2 # 0 THEN c2 ELSE d>>

\* collectMappedStatements: the first and the last lines of the allowed pairs of statements,
\* in the order of the mapping, no line taken twice.
Free(lines, x, y) == \A p \in lines : p[1] # x /\ p[2] # y
AddLines(mapped, x, y) == IF Free(mapped, x, y) THEN mapped \cup {<<x, y>>} ELSE mapped
AddStart(in, mapped, x, y) == IF Meaningful(in.A[x]) /\ Meaningful(in.B[y]) THEN AddLines(mapped, x, y) ELSE mapped
AddEnd(mapped, c1, c2) == IF c1.tail # "" /\ c1.tail = c2.tail THEN AddLines(mapped, c1.end, c2.end) ELSE mapped
AddEndNodes(in, mapped, e) == AddEnd(mapped, in.S[e[1]], in.D[e[2]])
CollectMappedStatements(in, allowed) ==
  LET Multi(s, d) == in.S[s].end > in.S[s].row /\ in.D[d].end > in.D[d].row
      Start(mapped, s, d) ==
        IF IsStatementPair(in, s, d, allowed) THEN AddStart(in, mapped, in.S[s].row, in.D[d].row) ELSE mapped
      End(mapped, s, d) ==
        IF IsStatementPair(in, s, d, allowed) /\ Multi(s, d)
        THEN AddEndNodes(in, mapped, EndNodes(in, s, d, allowed)) ELSE mapped
  IN FoldLeft(LAMBDA mapped, p : End(Start(mapped, p[1], p[2]), p[1], p[2]), {}, in.pairs)

-----------------------------------------------------------------------------
\* Anchors: pairs of lines.

\* filterMonotonic: of the candidates, sorted by source line and, on one source line, from
\* the last destination line to the first, a longest chain that goes forward on both sides.
FilterMonotonic(cands) ==
  LongestIncreasing(SetToSortSeq(cands, LAMBDA p, q : p[1] < q[1] \/ (p[1] = q[1] /\ p[2] > q[2])), TRUE)

\* The line of a declaration that is paired: that of its first mapped child that is not a
\* block, else its own.
DeclarationLines(in, s, d) ==
  LET heads == {c \in ChildSet(in.S, s) : /\ ~IsBlock(in.S[c].kind)
                                          /\ Get(in.pairs, c) \in ChildSet(in.D, d)
                                          /\ ~IsBlock(in.D[Get(in.pairs, c)].kind)}
      c == Min(heads)
  IN IF heads = {} THEN <<in.S[s].row, in.D[d].row>> ELSE <<in.S[c].row, in.D[Get(in.pairs, c)].row>>

\* collectDeclarationAndCommentAnchors
DeclarationAndCommentAnchors(in, moved, moves) ==
  LET IsDecl(s, d) == /\ s \notin moved.src /\ d \notin moved.dst
                      /\ IsDeclaration(in.S[s].kind) /\ in.S[s].kind = in.D[d].kind
                      /\ IsScopePreserved(in, s, d)
      AddDecl(cands, p) ==
        LET l == DeclarationLines(in, p[1], p[2])
        IN IF IsDecl(p[1], p[2]) THEN AddStart(in, cands, l[1], l[2]) ELSE cands
      AddComment(cands, l) == IF IsInsideMove(moves, l[1], l[2]) THEN cands ELSE AddLines(cands, l[1], l[2])
  IN FilterMonotonic(FoldLeft(AddComment, FoldLeft(AddDecl, {}, in.pairs), in.comments))

\* collectUnchangedAnchors: tier 1.
UnchangedAnchors(in, moved, moves, stmts, matched) ==
  LET statements == {p \in stmts : SameText(in, p[1], p[2])}
      lines == {p \in matched : /\ \A q \in stmts : q[1] # p[1]
                                /\ SameText(in, p[1], p[2]) /\ Meaningful(in.A[p[1]])
                                /\ ~IsInsideMove(moves, p[1], p[2])
                                /\ ~Crosses(stmts, p[1], p[2])}
  IN FilterMonotonic(Range(DeclarationAndCommentAnchors(in, moved, moves)) \cup statements \cup lines)

\* mergeAnchors: what of the second list fits between the anchors of the first.
MergeAnchors(primary, secondary) ==
  LET K == Len(primary)
      From(k) == IF k = 0 THEN 0 ELSE primary[k][1]
      Between(k) == SelectSeq(secondary, LAMBDA s : s[1] >= From(k - 1) /\ s[1] < primary[k][1] /\ s[2] < primary[k][2])
      behind == SelectSeq(secondary, LAMBDA s : s[1] >= From(K))
      offered == FlattenSeq([k \in 1..K |-> Append(Between(k), primary[k])]) \o behind
      Take(res, p) == IF res = <<>> \/ (p[1] > Last(res)[1] /\ p[2] > Last(res)[2]) THEN Append(res, p) ELSE res
  IN IF primary = <<>> THEN secondary ELSE FoldLeft(Take, <<>>, offered)

\* Tier 2: stationary statements that share a word; tier 3: those moved in place, unchanged.
StatementAnchors(in, stmts, tier1) ==
  MergeAnchors(tier1, FilterMonotonic(
    {p \in stmts : /\ Meaningful(in.A[p[1]]) /\ Meaningful(in.B[p[2]])
                   /\ in.A[p[1]].key # in.B[p[2]].key
                   /\ <<in.A[p[1]].key, in.B[p[2]].key>> \in SharedWords}))
MoveAnchors(in, inPlace, tier2) ==
  MergeAnchors(tier2, FilterMonotonic({p \in inPlace : SameText(in, p[1], p[2])}))

-----------------------------------------------------------------------------
\* Gaps.

\* What a statement's line is worth on another line.
Prior(stmts, s, d) ==
  CASE <<s, d>> \in stmts -> 35
    [] \E p \in stmts : p[1] = s /\ p[2] # d -> -20
    [] OTHER -> 0

LineMatchScore(in, ctx, s, d) ==
  LET x == in.A[s]
      y == in.B[d]
      bonus == Prior(ctx.stmts, s, d)
      same == IF x.key \in Punctuation THEN 2 ELSE IF x = y THEN 30 ELSE 25
  IN CASE bonus <= 0 /\ IsCrossMoveMismatch(ctx.moves, s, d) -> -1000
       [] OTHER -> IF Blank(x) /\ Blank(y) THEN 10
                   ELSE IF Blank(x) \/ Blank(y) THEN -20
                   ELSE IF x.key = y.key THEN same + bonus
                   ELSE IF bonus > 0 THEN bonus
                   ELSE Similarity[x.key, y.key] - 10 + bonus

\* A cell: the best scores of the prefixes that end in a match (M), with a line of the
\* source alone (X), with a line of the destination alone (Y).
Cell(m, x, y) == [M |-> m, X |-> x, Y |-> y]
Best(c) == Greatest(c.M, Greatest(c.X, c.Y))
\* Mutant: a line of the destination alone cannot follow one of the source.
NextCellWithoutTurn(diagonal, up, left, score) ==
  Cell(Best(diagonal) + score, Greatest(up.M + GapOpen, up.X + GapExtend), Greatest(left.M + GapOpen, left.Y + GapExtend))
NextCell(diagonal, up, left, score) ==
  Cell(Best(diagonal) + score,
       Greatest(Greatest(up.M, up.Y) + GapOpen, up.X + GapExtend),
       Greatest(Greatest(left.M, left.X) + GapOpen, left.Y + GapExtend))

\* The table of a gap of m and n lines, cell (i, j) at tab[i + 1][j + 1]; score is what a pair
\* of lines is worth, band the cells that are filled: the others stay at minus infinity.
Border(k) == GapOpen + (k - 1) * GapExtend
FirstRow(n) == [j \in 1..(n + 1) |-> IF j = 1 THEN Cell(0, NegInf, NegInf) ELSE Cell(NegInf, NegInf, Border(j - 1))]
Gotoh(m, n, score, band) ==
  LET Outside == Cell(NegInf, NegInf, NegInf)
      Row(prev, i) ==
        FoldLeft(LAMBDA row, j : Append(row, IF <<i, j>> \in band THEN NextCell(prev[j], prev[j + 1], row[j], score[i, j])
                                             ELSE Outside),
                 <<Cell(NegInf, Border(i), NegInf)>>, Numbers(n))
  IN FoldLeft(LAMBDA tab, i : Append(tab, Row(Last(tab), i)), <<FirstRow(n)>>, Numbers(m))

\* selectState: the state of the best score of a cell; ties depend on the side of the diagonal.
SelectState(c, i, j) ==
  LET M == c.M = Best(c) /\ i > 0 /\ j > 0
      X == c.X = Best(c) /\ i > 0
      Y == c.Y = Best(c) /\ j > 0
  IN CASE i = j -> IF M THEN "M" ELSE IF Y THEN "Y" ELSE IF X THEN "X" ELSE "M"
       [] i > j -> IF X /\ c.Y # Best(c) THEN "X" ELSE IF Y THEN "Y" ELSE IF M THEN "M" ELSE "X"
       [] i < j -> IF Y THEN "Y" ELSE IF M THEN "M" ELSE IF X THEN "X" ELSE "Y"

\* The state before a line of the source, or of the destination, alone.
BeforeX(tab, i, j) ==
  LET v == tab[i + 1][j + 1].X
      p == tab[i][j + 1]
  IN IF v = p.X + GapExtend THEN "X" ELSE IF v = p.M + GapOpen THEN "M" ELSE "Y"
BeforeY(tab, i, j) ==
  LET v == tab[i + 1][j + 1].Y
      p == tab[i + 1][j]
  IN IF v = p.Y + GapExtend THEN "Y" ELSE IF v = p.X + GapOpen THEN "X" ELSE "M"

\* The walk back through the table: rows of the gap, positions from 1; it stops on the
\* first cell on the edge of the band.
WalkBack(tab, m, n, edge) ==
  LET corner == tab[m + 1][n + 1]
      start == IF corner.Y = Best(corner) THEN "Y" ELSE IF corner.X = Best(corner) THEN "X" ELSE "M"
      Step(s, k) ==
        LET i == s.i
            j == s.j
        IN CASE (i = 0 /\ j = 0) \/ s.edge -> s
             [] <<i, j>> \in edge -> [s EXCEPT !.edge = TRUE]
             [] OTHER ->
                  CASE s.state = "M" -> [s EXCEPT !.rows = <<<<i, j>>>> \o @, !.i = i - 1, !.j = j - 1,
                                                  !.state = SelectState(tab[i][j], i - 1, j - 1)]
                    [] s.state = "X" -> [s EXCEPT !.rows = <<<<i, 0>>>> \o @, !.i = i - 1,
                                                  !.state = IF j = 0 THEN "X" ELSE BeforeX(tab, i, j)]
                    [] s.state = "Y" -> [s EXCEPT !.rows = <<<<0, j>>>> \o @, !.j = j - 1,
                                                  !.state = IF i = 0 THEN "Y" ELSE BeforeY(tab, i, j)]
  IN FoldLeft(Step, [i |-> m, j |-> n, state |-> start, rows |-> <<>>, edge |-> FALSE], Numbers(m + n + 1))

DenseRows(m, n, score) == WalkBack(Gotoh(m, n, score, (1..m) \X (1..n)), m, n, {}).rows

\* The band around the diagonals (bandBounds); the quotient i * n / m is exact here.
BandCentre(m, n, i) == [low |-> Least((i * n) \div m, Least(i, i + n - m)),
                        high |-> Greatest((i * n + m - 1) \div m, Greatest(i, i + n - m))]
HalfWidth(m, n) == Greatest(BandWidth, Distance(m, n) \div 2 + BandSlack)
InBand(m, n, i, j) ==
  LET c == BandCentre(m, n, i)
      k == HalfWidth(m, n)
  IN IF i <= 1 THEN j <= Greatest((n + m - 1) \div m, Greatest(0, n - m)) + k
     ELSE j \in (c.low - k)..(c.high + k)
OnBandEdge(m, n, i, j) ==
  LET c == BandCentre(m, n, i)
      k == HalfWidth(m, n)
  IN /\ i \in 1..(m - 1) /\ j \in 1..(n - 1)
     /\ \/ c.low - k > 1 /\ j = c.low - k
        \/ c.high + k < n /\ j = c.high + k

Band(m, n) == {c \in (1..m) \X (1..n) : InBand(m, n, c[1], c[2])}
BandEdge(m, n) == {c \in (1..m) \X (1..n) : OnBandEdge(m, n, c[1], c[2])}

\* Mutant: the walk that stopped at the edge is taken for the whole.
BandedRowsPartial(m, n, score) == WalkBack(Gotoh(m, n, score, Band(m, n)), m, n, BandEdge(m, n)).rows

\* alignGapGotohBanded: a path that touches the edge of the band is not trusted.
BandedRows(m, n, score) ==
  LET walk == WalkBack(Gotoh(m, n, score, Band(m, n)), m, n, BandEdge(m, n))
  IN IF walk.edge THEN DenseRows(m, n, score) ELSE walk.rows

Alone(sFrom, m, dFrom, n) == [k \in 1..m |-> <<sFrom + k, 0>>] \o [k \in 1..n |-> <<0, dFrom + k>>]
Shifted(rows, sFrom, dFrom) ==
  [k \in DOMAIN rows |-> <<IF rows[k][1] = 0 THEN 0 ELSE sFrom + rows[k][1],
                           IF rows[k][2] = 0 THEN 0 ELSE dFrom + rows[k][2]>>]

IsDense(m, n) == m <= DenseSide \/ n <= DenseSide \/ m * n <= DenseCells

\* alignGapGotoh on the lines behind sFrom and dFrom.
AlignedTable(sFrom, m, dFrom, n, score) ==
  Shifted(IF IsDense(m, n) THEN DenseRows(m, n, score) ELSE BandedRows(m, n, score), sFrom, dFrom)

\* The line diff of the gap, as long as it goes forward.
Forward(pairs) ==
  FoldLeft(LAMBDA res, p : IF res = <<>> \/ p[2] > Last(res)[2] THEN Append(res, p) ELSE res, <<>>, pairs)
SubAnchors(in, sFrom, m, dFrom, n) ==
  Forward(ShiftedBy(sFrom, dFrom, LineDiff(SubSeq(in.A, sFrom + 1, sFrom + m), SubSeq(in.B, dFrom + 1, dFrom + n))))

\* The gaps between anchors, the first behind the lines sFrom and dFrom, the last before the
\* two lines of the last pair.
Before(anchors, k, sFrom, dFrom) == IF k = 1 THEN <<sFrom, dFrom>> ELSE anchors[k - 1]
RowsBetween(gaps, anchors, sFrom, dFrom) ==
  LET Gap(p, q) == gaps[p[1], q[1] - p[1] - 1, p[2], q[2] - p[2] - 1]
      Up(k) == Gap(Before(anchors, k, sFrom, dFrom), anchors[k])
                 \o (IF k = Len(anchors) THEN <<>> ELSE <<anchors[k]>>)
  IN FoldLeft(LAMBDA rows, k : rows \o Up(k), <<>>, Numbers(Len(anchors)))

\* What the pairs of lines behind i0 and j0 are worth.
LineScores(in, ctx, i0, m, j0, n) ==
  [p \in (1..m) \X (1..n) |-> LineMatchScore(in, ctx, i0 + p[1], j0 + p[2])]

\* alignGapGotoh on the m and n lines behind sFrom and dFrom, as a function of the gap.
AlignGap(in, ctx) ==
  LET Divided(gaps, sub, sFrom, m, dFrom, n) ==
        IF sub = <<>> THEN Alone(sFrom, m, dFrom, n)
        ELSE RowsBetween(gaps, Append(sub, <<sFrom + m + 1, dFrom + n + 1>>), sFrom, dFrom)
      rows[sFrom \in 0..Len(in.A), m \in 0..Len(in.A), dFrom \in 0..Len(in.B), n \in 0..Len(in.B)] ==
        CASE m = 0 \/ n = 0 -> Alone(sFrom, m, dFrom, n)
          [] m > 0 /\ n > 0 /\ m * n > MaxCells -> Divided(rows, SubAnchors(in, sFrom, m, dFrom, n), sFrom, m, dFrom, n)
          [] OTHER -> AlignedTable(sFrom, m, dFrom, n, LineScores(in, ctx, sFrom, m, dFrom, n))
  IN rows

\* emitGrid
EmitGrid(in, ctx) ==
  RowsBetween(AlignGap(in, ctx), Append(ctx.anchors, <<Len(in.A) + 1, Len(in.B) + 1>>), 0, 0)

-----------------------------------------------------------------------------
\* AlignLines, and the values its parts hand on: the stationary statements, the moves, the
\* anchors after each tier, the statements Gotoh prefers.
Empty(lines) == Len(lines) = 1 /\ Blank(lines[1]) /\ lines[1].ind = 0

Unmoved(moved, s, d) == s \notin moved.src /\ d \notin moved.dst
Stationary(in, moved) == CollectMappedStatements(in, {p \in Range(in.pairs) : Unmoved(moved, p[1], p[2])})
InPlace(in, moved, still) ==
  CollectMappedStatements(in, {p \in Range(in.pairs) : \/ p[1] \in still.src /\ p[2] \in still.dst
                                                       \/ IsBlock(in.S[p[1]].kind) /\ Unmoved(moved, p[1], p[2])})
Intra(in, moves) ==
  CollectMappedStatements(in, {p \in Range(in.pairs) : IsIntraMove(moves, in.S[p[1]].row, in.D[p[2]].row)})

\* The statements of a second kind that start on no line of the first.
AndUnder(over, stmts) == over \cup {p \in stmts : \A q \in over : q[1] # p[1]}

Tiers(in, stmts, moves, inPlace, tier1) ==
  [moves |-> moves, stmts |-> AndUnder(AndUnder(stmts, inPlace), Intra(in, moves)),
   tier1 |-> tier1, anchors |-> MoveAnchors(in, inPlace, StatementAnchors(in, stmts, tier1))]
AnchoringOn(in, matched, moved, stmts, moves) ==
  Tiers(in, stmts, moves, InPlace(in, moved, InPlaceNodes(in, matched, stmts)),
        UnchangedAnchors(in, moved, moves, stmts, matched))
AnchoringBy(in, matched, moved, stmts) == AnchoringOn(in, matched, moved, stmts, CollectMoveRanges(in, matched, stmts))
AnchoringOf(in, matched, moved) == AnchoringBy(in, matched, moved, Stationary(in, moved))
Anchoring(in) == AnchoringOf(in, Range(LineDiff(in.A, in.B)), MovedNodes(in))

AlignLines(in) ==
  IF Empty(in.A) THEN Alone(0, 0, 0, Len(in.B))
  ELSE IF Empty(in.B) THEN Alone(0, Len(in.A), 0, 0)
  ELSE EmitGrid(in, Anchoring(in))

-----------------------------------------------------------------------------
\* The lines of a side, in the order of the rows.
Side(grid, side) == SelectSeq([k \in DOMAIN grid |-> grid[k][side]], LAMBDA line : line # 0)

\* All the ways to put m and n lines on rows, and what one of them scores.
Walks(m, n) ==
  LET walks[i \in 0..m, j \in 0..n] ==
        IF i = 0 /\ j = 0 THEN {<<>>}
        ELSE (IF i > 0 /\ j > 0 THEN {Append(w, <<i, j>>) : w \in walks[i - 1, j - 1]} ELSE {})
             \cup (IF i > 0 THEN {Append(w, <<i, 0>>) : w \in walks[i - 1, j]} ELSE {})
             \cup (IF j > 0 THEN {Append(w, <<0, j>>) : w \in walks[i, j - 1]} ELSE {})
  IN walks[m, n]
\* The walk stays on the band, or on its first row or column.
StaysInBand(rows, m, n) ==
  LET Done(k, side) == Max({0} \cup {rows[l][side] : l \in 1..k})
  IN \A k \in DOMAIN rows : Done(k, 1) = 0 \/ Done(k, 2) = 0 \/ InBand(m, n, Done(k, 1), Done(k, 2))
WalkScore(rows, score) ==
  LET Shape(k) == CASE rows[k][1] = 0 -> "Y" [] rows[k][2] = 0 -> "X" [] OTHER -> "M"
      Worth(k) == CASE Shape(k) = "M" -> score[rows[k][1], rows[k][2]]
                    [] OTHER -> IF k > 1 /\ Shape(k - 1) = Shape(k) THEN GapExtend ELSE GapOpen
  IN FoldLeft(LAMBDA sum, k : sum + Worth(k), 0, Numbers(Len(rows)))
=============================================================================
