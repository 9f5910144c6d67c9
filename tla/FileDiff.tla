------------------------------ MODULE FileDiff ------------------------------
(***************************************************************************)
(* The diff of two files, from their lines to what is shown                *)
(* (internal/pipeline/pipeline.go): the decision between the syntax trees  *)
(* and the plain line diff, the two parses side by side, the matching, the *)
(* edit script and the comment diff side by side, the rows, and the view.  *)
(*                                                                         *)
(* The parts are those of the modules below; two are abstract here: the    *)
(* matcher may give any mapping that is one to one, keeps the kinds and    *)
(* maps the roots, and the edit script may move any mapped statement or    *)
(* declaration, whatever the cost.                                         *)
(***************************************************************************)
EXTENDS LineAlign, CommentDiff, Ingest, SideBySide, LinePartition

CONSTANTS
  Inputs,        \* the records [A, B, langs, binary, opts]
  Parse(_),      \* the nodes the parser gives for the lines of a file
  LineLimit      \* MaxASTFileLines

\* Files are sequences of lines, and every node of a tree lies on the lines of its file.
ASSUME InputsAssumption == \A in \in Inputs : {in.A, in.B} \subseteq Seq([key : STRING, ind : Nat])
ASSUME ParseAssumption ==
  \A in \in Inputs : \A file \in {in.A, in.B} : \A T \in {Tree(Parse(file))} :
    \A n \in DOMAIN T : T[n].row \in 1..Len(file) /\ T[n].end \in T[n].row..Len(file)

VARIABLES
  input,    \* the files, their languages, whether they are binary, the options
  pc,       \* where the run is
  parsed,   \* the trees of the sides, <<>> before they are there
  pairs,    \* the mapping
  edits,    \* the moves of the edit script
  res,      \* the result of the comment diff
  env,      \* the envelope
  view      \* what is shown: both views and the numbers of the banner

vars == <<input, pc, parsed, pairs, edits, res, env, view>>

Sides == {"src", "dst"}
NotYet == <<>>
File(side) == IF side = "src" THEN input.A ELSE input.B

Init ==
  /\ input \in Inputs
  /\ pc = "decide"
  /\ parsed = [side \in Sides |-> NotYet]
  /\ pairs = <<>> /\ edits = NotYet /\ res = NotYet /\ env = NotYet /\ view = NotYet

-----------------------------------------------------------------------------
\* BuildLineDiffEnvelopeWithOptions: rows without anchors; of a row that changes the sides
\* with text of their own are highlighted.
PlainInput(A, B) == [A |-> A, B |-> B, S |-> <<>>, D |-> <<>>, pairs |-> <<>>, edits |-> <<>>, comments |-> <<>>]
OwnText(x, y) == (x.key # y.key /\ ~Blank(x)) \/ (x.ind # y.ind /\ x.ind > 0)
EnvelopeOf(grid, A, B, opts) ==
  LET Edited(p) == /\ p[1] # 0 /\ p[2] # 0 /\ A[p[1]] # B[p[2]]
                   /\ opts.style \/ ~EqualIgnoringStyle(A[p[1]], B[p[2]], opts.significant)
      edited == {p \in Range(grid) : Edited(p)}
      gone == {p[1] : p \in {q \in Range(grid) : q[2] = 0}}
      new == {p[2] : p \in {q \in Range(grid) : q[1] = 0}}
  IN [binary |-> FALSE, fallback |-> TRUE, grid |-> grid, acts |-> edited # {} \/ gone # {} \/ new # {},
      left |-> {i \in gone : ~Blank(A[i])} \cup {p[1] : p \in {q \in edited : OwnText(A[q[1]], B[q[2]])}},
      right |-> {j \in new : ~Blank(B[j])} \cup {p[2] : p \in {q \in edited : OwnText(B[q[2]], A[q[1]])}}]
LineDiffEnvelope(A, B, opts) == EnvelopeOf(AlignLines(PlainInput(A, B)), A, B, opts)

\* An empty file has the language of the other one.
Language(side) ==
  LET own == IF side = "src" THEN input.langs[1] ELSE input.langs[2]
      other == IF side = "src" THEN input.langs[2] ELSE input.langs[1]
  IN IF own = "none" /\ EmptyFile(File(side)) THEN other ELSE own

HasConflictMarkers(file) == \E i, j \in DOMAIN file : file[i].key = "<<<<<<<" /\ file[j].key = ">>>>>>>" /\ j > 1
CountFileLines(file) == IF EmptyFile(file) THEN 0 ELSE LastLine(file)

MustFallBack ==
  \/ Language("src") = "none" \/ Language("src") # Language("dst")
  \/ \E side \in Sides : HasConflictMarkers(File(side)) \/ CountFileLines(File(side)) > LineLimit

FallBack ==
  /\ env' = LineDiffEnvelope(input.A, input.B, input.opts)
  /\ pc' = "render"
  /\ UNCHANGED <<input, parsed, pairs, edits, res, view>>

\* Run up to the parses.
Decide ==
  /\ pc = "decide"
  /\ CASE input.binary ->
            /\ env' = [binary |-> TRUE, fallback |-> FALSE, grid |-> <<>>, acts |-> FALSE, left |-> {}, right |-> {}]
            /\ pc' = "render"
            /\ UNCHANGED <<input, parsed, pairs, edits, res, view>>
       [] ~input.binary /\ MustFallBack -> FallBack
       [] OTHER -> pc' = "parse" /\ UNCHANGED <<input, parsed, pairs, edits, res, env, view>>

\* Each side is parsed by a goroutine of its own.
ParseSide(side) ==
  /\ pc = "parse" /\ parsed[side] = NotYet
  /\ LET C == Parse(File(side))
     IN parsed' = [parsed EXCEPT ![side] =
          [tree |-> Tree(C), comments |-> CommentBlocks(C), errors |-> Errors(C)]]
  /\ UNCHANGED <<input, pc, pairs, edits, res, env, view>>

BothParsed == \A side \in Sides : parsed[side] # NotYet

JoinParses ==
  /\ pc = "parse" /\ BothParsed
  /\ IF \E side \in Sides : parsed[side].errors > 0 THEN FallBack
     ELSE pc' = "match" /\ UNCHANGED <<input, parsed, pairs, edits, res, env, view>>

-----------------------------------------------------------------------------
S == parsed["src"].tree
D == parsed["dst"].tree

\* Mappings of declarations and statements; what is below a pair of equal size follows it.
Units(T) == {n \in DOMAIN T : IsDeclaration(T[n].kind) \/ IsStatement(T[n].kind)}
Body(T, n) == {c \in Descendants(T, n) : \A u \in Units(T) : Encloses(T, n, u) => c \notin Subtree(T, u)}
OneToOne(M) == \A p, q \in M : p[1] = q[1] <=> p[2] = q[2]
UnitMappings == {M \in SUBSET {p \in Units(S) \X Units(D) : S[p[1]].kind = D[p[2]].kind} : OneToOne(M)}
WithBodies(M) ==
  LET Paired(p) == LET xs == SetToSortSeq(Body(S, p[1]), <)
                       ys == SetToSortSeq(Body(D, p[2]), <)
                   IN {<<xs[k], ys[k]>> : k \in 1..Least(Len(xs), Len(ys))}
  IN M \cup UNION {Paired(p) : p \in M} \cup {<<1, 1>>}
InOrder(M) == SetToSortSeq(M, LAMBDA p, q : p[1] < q[1])

\* engine.Match, abstractly.
Match ==
  /\ pc = "match"
  /\ \E M \in UnitMappings : pairs' = InOrder(WithBodies(M))
  /\ pc' = "post"
  /\ UNCHANGED <<input, parsed, edits, res, env, view>>

\* GenerateEditScript, abstractly: the moves.
Script ==
  /\ pc = "post" /\ edits = NotYet
  /\ \E moved \in SUBSET {n \in Units(S) : Get(pairs, n) # 0} :
       edits' = <<[k \in 1..Cardinality(moved) |-> [node |-> SetToSortSeq(moved, <)[k], dest |-> 0, subtree |-> TRUE]]>>
  /\ UNCHANGED <<input, pc, parsed, pairs, res, env, view>>

CommentInput == [C |-> parsed["src"].comments, E |-> parsed["dst"].comments, S |-> S, D |-> D, pairs |-> pairs]

\* The comment diff, in a goroutine of its own; the scopes are visited in any order.
Comment ==
  /\ pc = "post" /\ res = NotYet
  /\ \E order \in SetToSeqs(ScopesOf(CommentInput)) : res' = <<DiffComments(CommentInput, order)>>
  /\ UNCHANGED <<input, pc, parsed, pairs, edits, env, view>>

-----------------------------------------------------------------------------
\* The lines the actions touch: of nodes that are gone, new or relabelled, of moved
\* subtrees, of edited comments.
Touched(T, own, moved) == {T[n].row : n \in own} \cup {T[n].end : n \in own} \cup UNION {T[n].row..T[n].end : n \in moved}
CommentLines(r, list, side) ==
  LET At(i, k) == list[i].row + k - 1
      Acts(verb) == {a \in Range(r.acts) : a.action = verb}
      verb == IF side = "src" THEN "delete" ELSE "insert"
      mine == IF side = "src" THEN 1 ELSE 2
  IN UNION {IF a.line = Whole THEN {At(a.comment, k) : k \in DOMAIN list[a.comment].text} ELSE {At(a.comment, a.line)}
            : a \in Acts(verb)}
       \cup {At(a.comment[mine], a.lines[mine]) : a \in Acts("reword")}

\* The mappings of comment lines, in the order a map happens to be iterated.
Iterations(r) == SetToSeqs(Range(r.lines))

\* Join of both goroutines, and BuildEnvelope.
Assemble ==
  /\ pc = "post" /\ edits # NotYet /\ res # NotYet
  /\ LET moved == {edits[1][k].node : k \in DOMAIN edits[1]}
         relabelled == {k \in DOMAIN pairs : S[pairs[k][1]].label # D[pairs[k][2]].label}
         gone == {n \in DOMAIN S : Get(pairs, n) = 0}
         new == {n \in DOMAIN D : GetSrc(pairs, n) = 0}
         left == Touched(S, gone \cup {pairs[k][1] : k \in relabelled}, moved) \cup CommentLines(res[1], parsed["src"].comments, "src")
         right == Touched(D, new \cup {pairs[k][2] : k \in relabelled}, {Get(pairs, n) : n \in moved})
                    \cup CommentLines(res[1], parsed["dst"].comments, "dst")
     IN \E lines \in Iterations(res[1]) :
          env' = [binary |-> FALSE, fallback |-> FALSE,
                  grid |-> AlignLines([A |-> input.A, B |-> input.B, S |-> S, D |-> D, pairs |-> pairs,
                                       edits |-> edits[1], comments |-> lines]),
                  acts |-> gone \cup new \cup moved \cup relabelled # {} \/ res[1].acts # <<>>,
                  left |-> {i \in left : ~Blank(input.A[i])}, right |-> {j \in right : ~Blank(input.B[j])}]
  /\ pc' = "render"
  /\ UNCHANGED <<input, parsed, pairs, edits, res, view>>

\* Both views and the banner.
Render ==
  /\ pc = "render"
  /\ view' = [unified |-> RenderUnified(env, input.A, input.B, input.opts),
              columns |-> RenderSideBySide(env, input.A, input.B, input.opts),
              stats |-> CountLineStats(env, input.A, input.B, input.opts)]
  /\ pc' = "done"
  /\ UNCHANGED <<input, parsed, pairs, edits, res, env>>

Done == pc = "done" /\ UNCHANGED vars

Next ==
  \/ Decide \/ JoinParses \/ Match \/ Script \/ Comment \/ Assemble \/ Render \/ Done
  \/ \E side \in Sides : ParseSide(side)

Spec == Init /\ [][Next]_vars

-----------------------------------------------------------------------------
\* Every line of both files is on one row, in order (an empty file has no line): whatever
\* the matcher maps, the edit script moves and the comments are paired with.
EveryLineOnce ==
  env # NotYet /\ ~env.binary =>
    /\ Side(env.grid, 1) = IF EmptyFile(input.A) THEN <<>> ELSE Numbers(Len(input.A))
    /\ Side(env.grid, 2) = IF EmptyFile(input.B) /\ ~EmptyFile(input.A) THEN <<>> ELSE Numbers(Len(input.B))

\* Without anchors the rows score as much as the best of all ways to put the lines on rows;
\* in a gap that is too large for a full table, of all ways that stay on the band.
NoBetterRows(in, ctx, m, n) ==
  ctx.anchors = <<>> /\ m * n \in 1..MaxCells =>
    \E score \in {LineScores(in, ctx, 0, m, 0, n)} : \E got \in {WalkScore(env.grid, score)} :
      \A walk \in Walks(m, n) : IsDense(m, n) \/ StaysInBand(walk, m, n) => WalkScore(walk, score) <= got
BestRows ==
  pc = "render" /\ env.fallback /\ ~EmptyFile(input.A) /\ ~EmptyFile(input.B) =>
    \E in \in {PlainInput(input.A, input.B)} : NoBetterRows(in, Anchoring(in), Len(input.A), Len(input.B))

\* No comment is lost and none is used twice by the passes of the comment diff: comments
\* without a partner are deleted or inserted as a whole, and what is left of the lines of
\* two partners, once the deleted, inserted and reworded ones are gone, is the same.
CommentsAccounted ==
  res # NotYet =>
    LET r == res[1]
        C == parsed["src"].comments
        E == parsed["dst"].comments
        KeptSrc(i) == {k \in DOMAIN C[i].text : /\ ~DeletedLine(r.acts, i, k)
                                               /\ \A a \in Reworded(r.acts) : <<a.comment[1], a.lines[1]>> # <<i, k>>}
        KeptDst(j) == {k \in DOMAIN E[j].text : /\ ~InsertedLine(r.acts, j, k)
                                               /\ \A a \in Reworded(r.acts) : <<a.comment[2], a.lines[2]>> # <<j, k>>}
        Times(text, kept, line) == Cardinality({k \in kept : text[k] = line})
    IN /\ OneToOne(r.taken)
       /\ \A i \in DOMAIN C : SrcFree(r, i) => KeptSrc(i) = {}
       /\ \A j \in DOMAIN E : DstFree(r, j) => KeptDst(j) = {}
       /\ \A p \in r.taken : \A line \in Range(C[p[1]].text) \cup Range(E[p[2]].text) :
            Times(C[p[1]].text, KeptSrc(p[1]), line) = Times(E[p[2]].text, KeptDst(p[2]), line)

\* The unified view is a patch: the headers agree with the bodies, hunks do not overlap, and
\* outside of them the files have the same lines, up to the style that is not shown.
UnifiedIsPatch ==
  view # NotYet =>
    LET hunks == view.unified
        Range1(h, side) == IF side = 1 THEN h.src ELSE h.dst
        Lines1(file) == IF EmptyFile(file) THEN <<>> ELSE Numbers(LastLine(file))
        Outside(side, file) ==
          SelectSeq(Lines1(file), LAMBDA n : \A k \in DOMAIN hunks : n \notin Covered(Range1(hunks[k], side)))
        a == Outside(1, input.A)
        b == Outside(2, input.B)
    IN ~env.binary =>
         /\ \A k \in DOMAIN hunks, side \in {1, 2} :
              LET r == Range1(hunks[k], side)
              IN /\ BodySide(hunks[k].body, side) = [i \in 1..r.count |-> r.start + i - 1]
                 /\ \A l \in 1..(k - 1) : \A x \in Covered(Range1(hunks[l], side)), y \in Covered(r) : x < y
         /\ Len(a) = Len(b)
         /\ \A k \in DOMAIN a : EqualIgnoringStyle(input.A[a[k]], input.B[b[k]],
                                                    env.fallback /\ input.opts.significant)

\* Side by side, the text of every side that changed is on the screen once, also where a
\* hunk is given a single column.
ColumnsComplete ==
  view # NotYet /\ ~env.binary =>
    LET screen == FlattenSeq([k \in DOMAIN view.columns |-> view.columns[k].screen])
        Times(p, side) == Cardinality({k \in DOMAIN screen : screen[k].line = p /\ screen[k].part = 1 /\ side \in screen[k].text})
    IN \A p \in Range(env.grid) :
         RowChanged(p, input.A, input.B, env, input.opts) => \A side \in SidesOf(p, env) : Times(p, side) = 1

\* The two sides of the partition agree: a node of the source is untouched only when a node
\* on the lines it is matched to would be.
UntouchedOnBothSides ==
  pc = "match" =>
    \A part \in {NewLinePartition(input.A, input.B, S, D)} : \A s \in DOMAIN S, d \in DOMAIN D :
         /\ IsGroup1A(part, S, s)
         /\ D[d].row = part.matchedA[S[s].row] /\ D[d].end - D[d].row = S[s].end - S[s].row
         => IsGroup1B(part, D, d)

\* Sliding the groups of changed lines to a better boundary keeps the pairs of the line
\* diff: as many, in order, of the same texts.
CompactionKeepsText ==
  pc = "decide" =>
    \A x \in {AlignedLines(input.A, input.B)}, y \in {LineDiff(input.A, input.B)} :
      /\ Monotone(y) /\ Len(x) = Len(y)
      /\ \A k \in DOMAIN x : input.A[x[k][1]] = input.A[y[k][1]] /\ input.B[x[k][2]] = input.B[y[k][2]]
=============================================================================
