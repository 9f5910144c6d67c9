------------------------------- MODULE Hunks -------------------------------
(***************************************************************************)
(* From the rows of two aligned files to hunks and to the unified view     *)
(* (internal/renderutil/hunks.go, internal/renderutil/style.go,            *)
(* internal/unified/render.go).                                            *)
(*                                                                         *)
(* A file is the sequence of its lines, split at every newline: the last   *)
(* one is empty when the file ends with a newline, and an empty file is    *)
(* one empty line.  A line is [key, ind] as in LineDiff.  A row is a pair  *)
(* of line numbers, 0 where a side has no line.  A hunk is an interval     *)
(* <<first, last>> of rows.                                                *)
(***************************************************************************)
EXTENDS LineDiff

EmptyFile(file) == Len(file) = 1 /\ Blank(file[1]) /\ file[1].ind = 0
EndsWithNewline(file) == Len(file) > 1 /\ Blank(Last(file)) /\ Last(file).ind = 0
LastLine(file) == IF EndsWithNewline(file) THEN Len(file) - 1 ELSE Len(file)

\* EqualIgnoringStyle
EqualIgnoringStyle(x, y, significant) == x.key = y.key /\ (significant => x.ind = y.ind)

-----------------------------------------------------------------------------
\* The rows that are shown: the empty line behind the last newline is no line.
WithoutEOF(grid, A, B) ==
  LET a == IF EndsWithNewline(A) THEN Len(A) ELSE -1
      b == IF EndsWithNewline(B) THEN Len(B) ELSE -1
      Row(p) == <<IF p[1] = a THEN 0 ELSE p[1], IF p[2] = b THEN 0 ELSE p[2]>>
      shown == SelectSeq(grid, LAMBDA p : Row(p) # <<0, 0>>)
  IN [k \in DOMAIN shown |-> Row(shown[k])]

\* IsPairChanged; a row of the two last lines also changes with the final newline.  The
\* sets left and right are the lines with highlighted text.
IsPairChanged(p, A, B, left, right, style, significant) ==
  \/ p[1] = 0 \/ p[2] = 0
  \/ p[1] \in left \/ p[2] \in right
  \/ p = <<LastLine(A), LastLine(B)>> /\ EndsWithNewline(A) # EndsWithNewline(B)
  \/ /\ A[p[1]] # B[p[2]]
     /\ style \/ ~EqualIgnoringStyle(A[p[1]], B[p[2]], significant)

Changed(rows, A, B, left, right, style, significant) ==
  {k \in DOMAIN rows : IsPairChanged(rows[k], A, B, left, right, style, significant)}

\* BuildChangeIntervals: the runs of changed rows.
ChangeIntervals(changed) ==
  LET starts == SetToSortSeq({k \in changed : k - 1 \notin changed}, <)
      ends == SetToSortSeq({k \in changed : k + 1 \notin changed}, <)
  IN [i \in DOMAIN starts |-> <<starts[i], ends[i]>>]

\* Mutant: hunks that touch are kept apart only when they overlap by more than a row.
MergeHunksLate(intervals, total, context) ==
  LET Add(hunks, r) ==
        LET h == <<Greatest(1, r[1] - context), Least(total, r[2] + context)>>
        IN IF hunks # <<>> /\ h[1] <= Last(hunks)[2] - 1 THEN [hunks EXCEPT ![Len(hunks)][2] = h[2]] ELSE Append(hunks, h)
  IN FoldLeft(Add, <<>>, intervals)

\* MergeHunks
MergeHunks(intervals, total, context) ==
  LET Add(hunks, r) ==
        LET h == <<Greatest(1, r[1] - context), Least(total, r[2] + context)>>
        IN IF hunks # <<>> /\ h[1] <= Last(hunks)[2] + 1 THEN [hunks EXCEPT ![Len(hunks)][2] = h[2]] ELSE Append(hunks, h)
  IN FoldLeft(Add, <<>>, intervals)

\* ComputeHunkRange of one side: the first line and the number of lines; of a hunk without
\* lines on the side, the line before it, or 1, or 0 for a file with no content.
HunkRange(rows, h, side, hasContent) ==
  LET inside == {k \in h[1]..h[2] : rows[k][side] # 0}
      before == {k \in 1..(h[1] - 1) : rows[k][side] # 0}
  IN [count |-> Cardinality(inside),
      start |-> CASE inside # {} -> rows[Min(inside)][side]
                  [] inside = {} /\ before # {} -> rows[Max(before)][side]
                  [] OTHER -> IF hasContent THEN 1 ELSE 0]

-----------------------------------------------------------------------------
\* The body of a hunk of the unified view: the rows of a run of changes are given as
\* deletions followed by insertions.
BodyLine(kind, src, dst, paired) == [kind |-> kind, src |-> src, dst |-> dst, paired |-> paired]
RunLines(rows, run) ==
  LET these == SubSeq(rows, run[1], run[2])
      gone == SelectSeq(these, LAMBDA p : p[1] # 0)
      new == SelectSeq(these, LAMBDA p : p[2] # 0)
  IN [k \in DOMAIN gone |-> BodyLine("delete", gone[k][1], 0, gone[k][2] # 0)]
       \o [k \in DOMAIN new |-> BodyLine("insert", 0, new[k][2], new[k][1] # 0)]
HunkBody(rows, changed, h) ==
  LET EndOfRun(k) == CHOOSE e \in k..h[2] : k..e \subseteq changed /\ (e < h[2] => e + 1 \notin changed)
      Next(k) == IF k \notin changed THEN <<BodyLine("context", rows[k][1], rows[k][2], TRUE)>>
                 ELSE IF k > h[1] /\ k - 1 \in changed THEN <<>>
                 ELSE RunLines(rows, <<k, EndOfRun(k)>>)
  IN FlattenSeq([i \in 1..(h[2] - h[1] + 1) |-> Next(h[1] + i - 1)])

\* The "\ No newline at end of file" that follows a line of the body.
NoNewlineMarker(line, A, B) ==
  CASE line.kind = "context" -> /\ ~EndsWithNewline(A) /\ ~EndsWithNewline(B)
                                /\ line.src = LastLine(A) /\ line.dst = LastLine(B)
    [] line.kind = "delete" -> ~EndsWithNewline(A) /\ line.src = LastLine(A)
    [] line.kind = "insert" -> ~EndsWithNewline(B) /\ line.dst = LastLine(B)

\* The context of a line's style: a line without a partner is painted as a whole when it
\* has highlighted text or is punctuation (ShouldStyleStandalone).
LineContext(line, A, B, left, right) ==
  LET Bare(text) == Blank(text) \/ text.key \in Punctuation
  IN CASE line.kind = "delete" /\ ~line.paired /\ (line.src \in left \/ Bare(A[line.src])) -> "delete"
       [] line.kind = "insert" /\ ~line.paired /\ (line.dst \in right \/ Bare(B[line.dst])) -> "insert"
       [] OTHER -> "aligned"

\* Render: the hunks of the unified view, none when nothing has to be shown.  The envelope
\* [binary, fallback, grid, acts, left, right] has the rows, whether there are actions, and
\* the lines with highlighted text; opts is [context, style, significant].
RenderUnified(env, A, B, opts) ==
  LET rows == WithoutEOF(env.grid, A, B)
      changed == Changed(rows, A, B, env.left, env.right, opts.style, env.fallback /\ opts.significant)
      hunks == MergeHunks(ChangeIntervals(changed), Len(rows), IF opts.context < 0 THEN 3 ELSE opts.context)
      Hunk(h) == [src |-> HunkRange(rows, h, 1, ~EmptyFile(A)), dst |-> HunkRange(rows, h, 2, ~EmptyFile(B)),
                  body |-> HunkBody(rows, changed, h)]
      same == ~env.acts /\ env.left = {} /\ env.right = {} /\ A = B
  IN IF env.grid = <<>> \/ same THEN <<>> ELSE [k \in DOMAIN hunks |-> Hunk(hunks[k])]

-----------------------------------------------------------------------------
\* What a reader takes from the unified view: the lines of a side outside the hunks are
\* common, those inside are what the body says.
BodySide(body, side) ==
  LET lines == [k \in DOMAIN body |-> IF side = 1 THEN body[k].src ELSE body[k].dst]
  IN SelectSeq(lines, LAMBDA n : n # 0)

\* The lines of a side a hunk covers, read off its header.
Covered(range) == IF range.count = 0 THEN {} ELSE range.start..(range.start + range.count - 1)

\* The header of a hunk as diff and patch define it: without lines on a side it names the
\* line the hunk comes after.
StandardStart(rows, h, side) ==
  LET before == {k \in 1..(h[1] - 1) : rows[k][side] # 0}
  IN IF before = {} THEN 0 ELSE rows[Max(before)][side]
=============================================================================
