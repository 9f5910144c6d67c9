------------------------------ MODULE LineDiff ------------------------------
(***************************************************************************)
(* The line diff under the matcher, the comment diff and the alignment of  *)
(* rows (internal/engine/linediff.go): trimmed heads and tails, a weighted *)
(* alignment of the middle (or patience anchors when the middle is too     *)
(* large), then a compaction that slides every group of changed lines to   *)
(* the boundary that reads best.                                           *)
(*                                                                         *)
(* A line is a record [key, ind]: its text without surrounding blanks and  *)
(* the width of its indentation; two lines are equal when the records are. *)
(* A diff is a sequence of pairs of 1-based line numbers.                  *)
(***************************************************************************)
EXTENDS SeqAlign, FiniteSets, FiniteSetsExt, Functions

CONSTANTS
  Punctuation,   \* the keys of at most five characters that are punctuation only
  WindowCells    \* the largest table alignLineWindow fills (1000000 in the code)

ASSUME WindowAssumption == WindowCells \in Nat

Blank(line) == line.key = ""
BlockEnds == {"}", "};"}
Ends == BlockEnds \cup {"end", ");", "})"}

\* lineIndent: -1 for a line of blanks only.
LineIndent(line) == IF Blank(line) THEN -1 ELSE line.ind

LineWeight(line) == IF Blank(line) \/ line.key \in Punctuation THEN 1 ELSE 10

\* matchWeight of alignLineWindow: equal lines count what the line of A counts, a
\* substantive line that was only indented counts a little less.
MatchWeight(x, y) ==
  IF x = y THEN LineWeight(x) ELSE IF LineWeight(x) > 1 /\ x.key = y.key THEN 8 ELSE 0
MatchWeights(winA, winB) == [p \in (DOMAIN winA) \X (DOMAIN winB) |-> MatchWeight(winA[p[1]], winB[p[2]])]

\* alignLineWindow on the lines behind offA and offB.
ShiftedBy(offA, offB, pairs) == [k \in DOMAIN pairs |-> <<offA + pairs[k][1], offB + pairs[k][2]>>]
AlignLineWindow(winA, winB, offA, offB) ==
  IF Len(winA) = 0 \/ Len(winB) = 0 \/ Len(winA) * Len(winB) > WindowCells THEN <<>>
  ELSE ShiftedBy(offA, offB, AlignWeighted(Len(winA), Len(winB), MatchWeights(winA, winB), TRUE))

ComputeLIS(cands) == LongestIncreasing(cands, FALSE)

\* lineDiffPatience: the lines that occur once on both sides are the candidates, a longest
\* increasing run of them the anchors, the windows between the anchors are aligned.
UniqueLines(subA, subB) ==
  LET Once(s, l) == Cardinality({i \in DOMAIN s : s[i] = l}) = 1
      rows == Chosen(Numbers(Len(subA)), {i \in DOMAIN subA : Once(subA, subA[i]) /\ Once(subB, subA[i])})
  IN [k \in DOMAIN rows |-> <<rows[k], CHOOSE j \in DOMAIN subB : subB[j] = subA[rows[k]]>>]

\* The window behind the last anchor, then the anchor, the end of both sides being one more.
UpToAnchor(s, anchor, subA, subB) ==
  [i |-> anchor[1], j |-> anchor[2],
   pairs |-> s.pairs \o AlignLineWindow(SubSeq(subA, s.i + 1, anchor[1] - 1), SubSeq(subB, s.j + 1, anchor[2] - 1), s.i, s.j)
               \o (IF anchor[1] > Len(subA) THEN <<>> ELSE <<anchor>>)]
LineDiffPatience(subA, subB) ==
  FoldLeft(LAMBDA s, anchor : UpToAnchor(s, anchor, subA, subB), [i |-> 0, j |-> 0, pairs |-> <<>>],
           Append(ComputeLIS(UniqueLines(subA, subB)), <<Len(subA) + 1, Len(subB) + 1>>)).pairs

\* LineDiff up to the compaction.
AlignedMiddle(subA, subB) ==
  IF Len(subA) * Len(subB) > WindowCells THEN LineDiffPatience(subA, subB) ELSE AlignLineWindow(subA, subB, 0, 0)
AlignedBehind(A, B, prefix, suffix) ==
  CombineMatches(prefix, AlignedMiddle(SubSeq(A, prefix + 1, Len(A) - suffix), SubSeq(B, prefix + 1, Len(B) - suffix)),
                 suffix, Len(A), Len(B))
AlignedFrom(A, B, equal, prefix) == AlignedBehind(A, B, prefix, TrimSuffix(Len(A), Len(B), prefix, equal))
EqualLines(A, B) == {p \in (DOMAIN A) \X (DOMAIN B) : A[p[1]] = B[p[2]]}
AlignedLines(A, B) == AlignedFrom(A, B, EqualLines(A, B), TrimPrefix(Len(A), Len(B), EqualLines(A, B)))

-----------------------------------------------------------------------------
\* How well the text splits before line pos (scoreBoundary).
ScoreBoundary(lines, pos) ==
  LET prev == lines[pos - 1]
      curr == lines[pos]
      p == LineIndent(prev)
      c == LineIndent(curr)
      margin == CASE Blank(prev) /\ Blank(curr) -> 80
                  [] Blank(prev) # Blank(curr) -> 100
                  [] OTHER -> Greatest(0, 40 - 2 * Least(p, c)) + (IF c < p THEN 30 ELSE IF c > p THEN 20 ELSE 0)
  IN IF pos = 1 \/ pos = Len(lines) + 1 THEN 50
     ELSE margin + (IF prev.key \in Ends THEN 40 ELSE 0) - (IF curr.key \in BlockEnds THEN 30 ELSE 0)

ScoreChangeGroup(lines, start, len) == ScoreBoundary(lines, start) + ScoreBoundary(lines, start + len)

\* Mutant: the group slides down over lines that differ.
GroupStartsOverAny(lines, changed, start, len) ==
  LET Back(p) == \A q \in (p + 1)..start : lines[q - 1] = lines[q + len - 1] /\ ~changed[q - 1]
      Forth(p) == \A q \in start..(p - 1) : q + len <= Len(lines) /\ ~changed[q + len]
  IN {p \in 1..start : Back(p)} \cup {p \in start..(Len(lines) - len + 1) : Forth(p)}

\* Where a group of changed lines can start: it slides as long as the line it gives up
\* equals the one it takes in, and never over another changed line.
GroupStarts(lines, changed, start, len) ==
  LET Back(p) == \A q \in (p + 1)..start : lines[q - 1] = lines[q + len - 1] /\ ~changed[q - 1]
      Forth(p) == \A q \in start..(p - 1) : q + len <= Len(lines) /\ lines[q] = lines[q + len] /\ ~changed[q + len]
  IN {p \in 1..start : Back(p)} \cup {p \in start..(Len(lines) - len + 1) : Forth(p)}

\* The first of the best starts, unless the group is as good where it is.
BestStart(lines, starts, start, len) ==
  LET Score(p) == ScoreChangeGroup(lines, p, len)
      best == {p \in starts : \A q \in starts : Score(p) >= Score(q)}
  IN IF start \in best THEN start ELSE Min(best)

\* compactChanges: groups are visited from the top; a group that moved down is not
\* looked at again, a group that moved up is left behind.
GroupLength(changed, i) ==
  CHOOSE l \in 1..(Len(changed) - i + 1) : /\ \A k \in i..(i + l - 1) : changed[k]
                                           /\ i + l <= Len(changed) => ~changed[i + l]
MoveGroup(changed, i, len, to) ==
  [next |-> Greatest(i, to) + len,
   changed |-> [k \in DOMAIN changed |-> k \in to..(to + len - 1) \/ (changed[k] /\ k \notin i..(i + len - 1))]]
CompactGroup(lines, changed, i, len) ==
  MoveGroup(changed, i, len, BestStart(lines, GroupStarts(lines, changed, i, len), i, len))
CompactChanges(lines, changed) ==
  FoldLeft(LAMBDA s, i : IF i < s.next \/ ~s.changed[i] THEN s ELSE CompactGroup(lines, s.changed, i, GroupLength(s.changed, i)),
           [next |-> 1, changed |-> changed], Numbers(Len(lines))).changed

\* compactLineDiff: both sides are compacted on their own, then the unchanged lines of
\* A and B are paired again in order.
Unchanged(changed) == Chosen(Numbers(Len(changed)), {i \in DOMAIN changed : ~changed[i]})
PairedInOrder(ks, ls) == [k \in 1..Least(Len(ks), Len(ls)) |-> <<ks[k], ls[k]>>]
CompactSide(lines, paired) == Unchanged(CompactChanges(lines, [i \in DOMAIN lines |-> i \notin paired]))
CompactLineDiff(A, B, pairs) ==
  IF pairs = <<>> THEN pairs
  ELSE PairedInOrder(CompactSide(A, {pairs[k][1] : k \in DOMAIN pairs}), CompactSide(B, {pairs[k][2] : k \in DOMAIN pairs}))

LineDiff(A, B) == CompactLineDiff(A, B, AlignedLines(A, B))
=============================================================================
