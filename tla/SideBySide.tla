----------------------------- MODULE SideBySide -----------------------------
(***************************************************************************)
(* The side-by-side view (internal/sidebyside): each hunk is given two     *)
(* columns, or the whole width when only one side changes; a file without  *)
(* a counterpart is given the whole width at once.                         *)
(*                                                                         *)
(* Unlike the unified view it keeps the empty line behind a final newline  *)
(* as a row of its own.                                                    *)
(***************************************************************************)
EXTENDS Hunks

CONSTANT
  RowsOf   \* the terminal rows that the text of a line takes, by its key

\* The last line of a file as this view counts; 0 when the file is empty.
FinalLine(file) == IF EmptyFile(file) THEN 0 ELSE Len(file)

\* A row changes as in the unified view, but for the last lines.
RowChanged(p, A, B, env, opts) ==
  LET significant == env.fallback /\ opts.significant IN
  \/ p[1] = 0 \/ p[2] = 0
  \/ p[1] \in env.left \/ p[2] \in env.right
  \/ p = <<FinalLine(A), FinalLine(B)>> /\ EndsWithNewline(A) # EndsWithNewline(B)
  \/ /\ A[p[1]] # B[p[2]]
     /\ opts.style \/ ~EqualIgnoringStyle(A[p[1]], B[p[2]], significant)

\* The sides on which a changed row changes: of two paired lines, those with highlighted
\* text, or both.
SidesOf(p, env) ==
  LET painted == {side \in {1, 2} : (side = 1 /\ p[1] \in env.left) \/ (side = 2 /\ p[2] \in env.right)}
  IN CASE p[1] = 0 -> {2}
       [] p[2] = 0 -> {1}
       [] OTHER -> IF painted = {} THEN {1, 2} ELSE painted

\* Mutant: only rows without a partner count.
ClassifyUnpairedOnly(rows, changed, h, env, opts) ==
  LET sides == UNION {SidesOf(rows[k], env) : k \in {r \in h[1]..h[2] : r \in changed /\ 0 \in {rows[r][1], rows[r][2]}}}
  IN CASE opts.force -> "dual" [] sides = {1} -> "left" [] sides = {2} -> "right" [] OTHER -> "dual"

\* ClassifyHunk
ClassifyHunk(rows, changed, h, env, opts) ==
  LET sides == UNION {SidesOf(rows[k], env) : k \in (h[1]..h[2]) \cap changed}
  IN CASE opts.force \/ sides \in {{}, {1, 2}} -> "dual"
       [] ~opts.force /\ sides = {1} -> "left"
       [] ~opts.force /\ sides = {2} -> "right"

\* The "\ No newline" warnings below a row.
Warnings(p, A, B) ==
  {side \in {1, 2} : \/ side = 1 /\ ~EndsWithNewline(A) /\ p[1] = FinalLine(A)
                     \/ side = 2 /\ ~EndsWithNewline(B) /\ p[2] = FinalLine(B)}

\* A row of the screen shows a line number or 0 on each side, the text of a side or of
\* both, and is followed by warnings.
ScreenRow(p, text, part, warn) == [nums |-> IF part = 1 THEN p ELSE <<0, 0>>, line |-> p, text |-> text, part |-> part, warn |-> warn]
Parts(p, text, A, B) ==
  LET H(side) == IF side \notin text \/ p[side] = 0 THEN 0 ELSE RowsOf[IF side = 1 THEN A[p[1]].key ELSE B[p[2]].key]
      last == Greatest(1, Greatest(H(1), H(2)))
  IN [k \in 1..last |-> ScreenRow(p, {side \in text : k <= H(side)}, k, IF k = last THEN Warnings(p, A, B) ELSE {})]

\* renderSideBySideHunk
DualHunk(rows, h, A, B) == FlattenSeq([k \in 1..(h[2] - h[1] + 1) |-> Parts(rows[h[1] + k - 1], {1, 2}, A, B)])

\* renderSingleColumnHunk: a common row shows the new text; of a changed pair the side of
\* the layout is shown.
SingleHunk(rows, changed, h, layout, A, B) ==
  LET Shown(k) == CASE rows[k][2] = 0 -> {1}
                    [] rows[k][2] # 0 /\ (rows[k][1] = 0 \/ k \notin changed) -> {2}
                    [] OTHER -> IF layout = "right" THEN {2} ELSE {1}
  IN FlattenSeq([i \in 1..(h[2] - h[1] + 1) |-> LET k == h[1] + i - 1 IN Parts(rows[k], Shown(k), A, B)])

\* renderWholeFileSingleColumn: the file that has content, line by line.
WholeFile(A, B) ==
  LET side == IF EmptyFile(A) THEN 2 ELSE 1
      file == IF side = 2 THEN B ELSE A
      Row(n) == IF side = 1 THEN <<n, 0>> ELSE <<0, n>>
      Last1(n) == n = Len(file) /\ ~EndsWithNewline(file)
      Line(n) == [k \in 1..Greatest(1, RowsOf[file[n].key]) |->
                    ScreenRow(Row(n), {side}, k, IF Last1(n) /\ k = Greatest(1, RowsOf[file[n].key]) THEN {side} ELSE {})]
  IN FlattenSeq([n \in 1..Len(file) |-> Line(n)])

\* Render: the hunks [layout, src, dst, screen].  On a narrow terminal the unified view
\* takes over: the caller gives opts.narrow.
RenderSideBySide(env, A, B, opts) ==
  LET rows == env.grid
      changed == {k \in DOMAIN rows : RowChanged(rows[k], A, B, env, opts)}
      context == IF opts.context < 0 THEN Len(rows) ELSE opts.context
      hunks == MergeHunks(ChangeIntervals(changed), Len(rows), context)
      Hunk(h) ==
        LET layout == ClassifyHunk(rows, changed, h, env, opts)
        IN [layout |-> layout, src |-> HunkRange(rows, h, 1, ~EmptyFile(A)), dst |-> HunkRange(rows, h, 2, ~EmptyFile(B)),
            screen |-> IF layout = "dual" THEN DualHunk(rows, h, A, B) ELSE SingleHunk(rows, changed, h, layout, A, B)]
      Whole == [layout |-> "whole",
                src |-> IF EmptyFile(A) THEN [start |-> 0, count |-> 0] ELSE [start |-> 1, count |-> Len(A)],
                dst |-> IF EmptyFile(A) THEN [start |-> 1, count |-> Len(B)] ELSE [start |-> 0, count |-> 0],
                screen |-> WholeFile(A, B)]
  IN CASE rows = <<>> -> <<>>
       [] rows # <<>> /\ ~opts.force /\ (EmptyFile(A) \/ EmptyFile(B)) -> <<Whole>>
       [] OTHER -> [k \in DOMAIN hunks |-> Hunk(hunks[k])]

\* CountLineStats: what the banner of the file counts.
CountLineStats(env, A, B, opts) ==
  LET rows == WithoutEOF(env.grid, A, B)
      Updated(p) == /\ p[1] # 0 /\ p[2] # 0
                    /\ IsPairChanged(p, A, B, {}, {}, opts.style, env.fallback /\ opts.significant)
      Count(P(_)) == Cardinality({k \in DOMAIN rows : P(rows[k])})
  IN [insertions |-> Count(LAMBDA p : p[1] = 0), deletions |-> Count(LAMBDA p : p[2] = 0), updates |-> Count(Updated)]
=============================================================================
