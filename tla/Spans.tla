-------------------------------- MODULE Spans --------------------------------
(***************************************************************************)
(* The coloured spans of one side of a diff (internal/serialize/spans.go,  *)
(* line.go): the ranges of the actions are cut at the lines, absorb the    *)
(* delimiters around them, are merged over small gaps, and where actions   *)
(* overlap the innermost one is shown.                                     *)
(*                                                                         *)
(* A text is a sequence of characters, NewLine among them; a range has the *)
(* characters first..(end - 1).  A reference to a node is a range with its *)
(* tree and kind, an action is a record                                    *)
(*   [action, node, dest, parent, oldParent, orig, destOrig, trivia,       *)
(*    destTrivia, group, color, lines, comment]                            *)
(* where orig and destOrig are the ranges of the whole nodes and trivia is *)
(* the separator behind a node; what is absent is None or NoRef.  A        *)
(* span of a line is [first, end, action, ref, color], where ref is        *)
(* the number of its action, 0 for a delimiter without one.                *)
(*                                                                         *)
(* Equal elements keep their order when they are sorted (what the sort     *)
(* does for less than twelve of them).                                     *)
(***************************************************************************)
EXTENDS Syntax

CONSTANTS
  WordChars,         \* letters, digits, underscore
  OperatorChars      \* the operators isOnlyNonCharacters looks for

IsDelimitedContainer(kind) == Role("delimited", kind)
NewLine == "nl"
Blanks == {"sp", "tab"}
White == Blanks \cup {NewLine}
None == [first |-> 0, end |-> 0]
NoRef == [tree |-> "none", kind |-> "none", first |-> 0, end |-> 0]
Length(r) == Greatest(0, r.end - r.first)
Within(r, outer) == outer.first <= r.first /\ r.end <= outer.end

At(text, i) == IF i \in DOMAIN text THEN text[i] ELSE "none"


-----------------------------------------------------------------------------
\* Lines.
LineIndex(text) == <<1>> \o [k \in 1..Cardinality({i \in DOMAIN text : text[i] = NewLine}) |->
                               1 + SelectSeq(Numbers(Len(text)), LAMBDA i : text[i] = NewLine)[k]]
LineOf(text, at) == 1 + Cardinality({i \in 1..(at - 1) : At(text, i) = NewLine})
LineRange(text, l) ==
  LET starts == LineIndex(text)
  IN [first |-> starts[l], end |-> IF l = Len(starts) THEN Len(text) + 1 ELSE starts[l + 1] - 1]

\* ForEachLineSpan and the trimming of addSpan: blanks in front stay when the span starts its line.
Trimmed(text, piece, line) ==
  LET ink == {i \in piece.first..(piece.end - 1) : text[i] \notin White}
      front == {i \in piece.first..(piece.end - 1) : text[i] \notin Blanks}
      from == IF piece.first = line.first THEN piece.first ELSE IF front = {} THEN piece.end ELSE Min(front)
  IN [first |-> from, end |-> IF ink = {} THEN from ELSE Max(ink) + 1]
LinePiece(text, range, l) ==
  LET line == LineRange(text, l)
      piece == [first |-> Greatest(range.first, line.first), end |-> Least(range.end, line.end)]
  IN IF piece.first >= piece.end THEN None ELSE Trimmed(text, piece, line)

\* actionLineCount
ActionLineCount(text, a, side) ==
  LET range == IF side = "left" THEN IF Length(a.orig) > 0 THEN a.orig ELSE a.node
               ELSE IF Length(a.destOrig) > 0 THEN a.destOrig ELSE a.dest
      ink == {i \in range.first..(range.end - 1) : At(text, i) \notin White}
      last == Max(ink \cup {range.first})
  IN IF range.first = 0 THEN 0 ELSE LineOf(text, last) - LineOf(text, range.first) + 1
LineCount(text, a, side) == IF a.lines > 0 THEN a.lines ELSE ActionLineCount(text, a, side)

\* The groups with a move of several lines.
MultiLineGroups(text, actions, side) ==
  {a.group : a \in {b \in Range(actions) : b.group # 0 /\ b.action = "move" /\ LineCount(text, b, side) > 1}}

MaxUngroupedHighlightLines == 3
ResolveMoveColor(a, lines, groupIsMultiLine) ==
  CASE a.group = 0 -> IF lines <= MaxUngroupedHighlightLines THEN a.color ELSE 0
    [] OTHER -> IF lines > 1 \/ groupIsMultiLine THEN 0 ELSE a.color

\* nodeLen
NodeLen(a, side) ==
  CASE side = "left" -> IF Length(a.orig) > 0 THEN Length(a.orig) ELSE Length(a.node)
    [] OTHER -> CASE Length(a.destOrig) > 0 -> Length(a.destOrig)
                  [] Length(a.destOrig) = 0 /\ a.action = "insert" /\ Length(a.orig) > 0 -> Length(a.orig)
                  [] OTHER -> IF Length(a.dest) > 0 THEN Length(a.dest) ELSE Length(a.node)

SharesLineage(n1, n2) ==
  \/ n1 = n2
  \/ n1 # NoRef /\ n2 # NoRef /\ n1.tree = n2.tree /\ (Within(n1, n2) \/ Within(n2, n1))

\* Mutant: only the old place of a move is looked at.
CarriedAlongOnSource(actions, r, k) == Within(r.node, k.node)

-----------------------------------------------------------------------------
\* nestedMoveActions: the moves that an outer one carries along on both sides, with no
\* deleted or inserted container in between.
Between(S, r, outer) == \E n \in S : Length(n) > 0 /\ Within(r, n) /\ Within(n, outer)
CarriedAlong(actions, r, k) ==
  LET Nodes(kind) == {a.node : a \in {b \in Range(actions) : b.action = kind}}
      hasDest == Length(r.dest) > 0
  IN /\ Within(r.node, k.node)
     /\ hasDest = (Length(k.dest) > 0)
     /\ hasDest => Within(r.dest, k.dest)
     /\ ~Between(Nodes("delete"), r.node, k.node)
     /\ hasDest => ~Between(Nodes("insert"), r.dest, k.dest)

NestedMoves(actions) ==
  LET moves == SelectSeq(Numbers(Len(actions)), LAMBDA i : actions[i].action = "move" /\ Length(actions[i].node) > 0)
      Size(i) == Length(actions[i].node) + Length(actions[i].dest)
      sorted == Sorted(moves, [k \in DOMAIN moves |-> <<-Size(moves[k]), actions[moves[k]].node.first>>])
      Keep(kept, i) == IF \E k \in kept : CarriedAlong(actions, actions[i], actions[k]) THEN kept ELSE kept \cup {i}
  IN Range(moves) \ FoldLeft(Keep, {}, sorted)

-----------------------------------------------------------------------------
\* absorbSyntacticDelimiters, in its order: trailing trivia, member operators behind and in
\* front, the comma of an element, the arrow of a case.
PastBlanks(text, i, limit) == Min({j \in i..limit : j = limit \/ text[j] \notin Blanks})
BeforeBlanks(text, i, limit) == Max({j \in limit..i : j = limit \/ text[j - 1] \notin Blanks})
Pair(text, i, one, two) == At(text, i) = one /\ At(text, i + 1) = two
MemberOperator(text, i) == Pair(text, i, ":", ":") \/ Pair(text, i, "-", ">")
SingleDot(text, i) == At(text, i) = "." /\ At(text, i - 1) # "." /\ At(text, i + 1) # "."

AbsorbTrivia(text, r, trivia, parent) ==
  LET from == Least(trivia.first, parent.end)
      to == Least(trivia.end, parent.end)
      adjacent == r.end <= from /\ from < to /\ \A i \in r.end..(from - 1) : text[i] \in White
  IN IF Length(trivia) = 0 \/ ~adjacent THEN r
     ELSE [r EXCEPT !.end = IF IsDelimitedContainer(parent.kind) THEN PastBlanks(text, to, parent.end) ELSE to,
                    !.absorbed = TRUE]

AbsorbOperatorBehind(text, r, parent) ==
  CASE r.absorbed \/ r.end >= parent.end -> r
    [] ~r.absorbed /\ r.end + 2 <= parent.end /\ MemberOperator(text, r.end) -> [r EXCEPT !.end = @ + 2]
    [] OTHER -> IF SingleDot(text, r.end) THEN [r EXCEPT !.end = @ + 1] ELSE r

AbsorbOperatorInFront(text, r, parent) ==
  CASE r.first <= parent.first -> r
    [] r.first >= parent.first + 2 /\ MemberOperator(text, r.first - 2) -> [r EXCEPT !.first = @ - 2]
    [] OTHER -> IF SingleDot(text, r.first - 1) THEN [r EXCEPT !.first = @ - 1] ELSE r

AbsorbComma(text, r, trivia, parent) ==
  LET behind == PastBlanks(text, r.end, parent.end)
      front == BeforeBlanks(text, r.first, parent.first)
  IN CASE ~IsDelimitedContainer(parent.kind) \/ r.absorbed -> r
       [] /\ IsDelimitedContainer(parent.kind) /\ ~r.absorbed
          /\ behind < parent.end /\ text[behind] = "," ->
            [r EXCEPT !.end = PastBlanks(text, behind + 1, parent.end), !.absorbed = TRUE]
       [] OTHER -> IF Length(trivia) = 0 /\ front > parent.first /\ text[front - 1] = ","
                   THEN [r EXCEPT !.first = front - 1] ELSE r

AbsorbArrow(text, r, parent) ==
  LET at == PastBlanks(text, r.end, parent.end)
      arrow == IF at + 2 <= parent.end /\ (Pair(text, at, "=", ">") \/ Pair(text, at, "-", ">")) THEN 2
               ELSE IF at < parent.end /\ text[at] = ":" THEN 1 ELSE 0
  IN IF r.absorbed \/ ~IsCaseClause(parent.kind) \/ arrow = 0 THEN r
     ELSE [r EXCEPT !.end = PastBlanks(text, at + arrow, parent.end)]

AbsorbWithin(text, r, parent, trivia) ==
  AbsorbArrow(text,
    AbsorbComma(text,
      AbsorbOperatorInFront(text,
        AbsorbOperatorBehind(text, AbsorbTrivia(text, r, trivia, parent), parent), parent), trivia, parent), parent)
AbsorbDelimiters(text, node, parent, trivia) ==
  LET r == [first |-> node.first, end |-> node.end, absorbed |-> FALSE]
  IN IF parent = NoRef \/ node.first > node.end \/ ~Within(node, parent) \/ node.end > Len(text) + 1 THEN r
     ELSE AbsorbWithin(text, r, [parent EXCEPT !.end = Least(@, Len(text) + 1)], trivia)

\* The ranges an action paints on a side: delimiters around a move are not part of it.
Surrounded(node, r, around) ==
  <<[first |-> r.first, end |-> node.first, action |-> around],
    [first |-> node.first, end |-> node.end, action |-> "move"],
    [first |-> node.end, end |-> r.end, action |-> around]>>
MovePaint(text, node, parent, trivia, around) ==
  Surrounded(node, AbsorbDelimiters(text, node, parent, trivia), around)
WholePaint(r, kind) == <<[first |-> r.first, end |-> r.end, action |-> kind]>>

ActionPaint(text, a, side, nested) ==
  CASE a.action = "delete" /\ side = "left" -> WholePaint(AbsorbDelimiters(text, a.node, a.parent, a.trivia), "delete")
    [] a.action = "insert" /\ side = "right" -> WholePaint(AbsorbDelimiters(text, a.node, a.parent, a.trivia), "insert")
    [] a.action = "update" -> WholePaint(IF side = "left" THEN a.node ELSE a.dest, "update")
    [] a.action = "move" /\ ~nested ->
         IF side = "left" THEN MovePaint(text, a.node, a.oldParent, a.trivia, "delete")
         ELSE IF Length(a.dest) > 0 THEN MovePaint(text, a.dest, a.parent, a.destTrivia, "insert") ELSE <<>>
    [] OTHER -> <<>>

\* The pieces of line l, in the order of the actions; delimiters of the envelope come last.
Painting(paint, ref) == [k \in DOMAIN paint |-> paint[k] @@ [ref |-> ref, color |-> 0]]
Shown(side) == {"move", IF side = "left" THEN "delete" ELSE "insert"}
AllPaint(text, actions, nested, extras, side) ==
  FlattenSeq([i \in DOMAIN actions |-> Painting(ActionPaint(text, actions[i], side, i \in nested), i)])
    \o SelectSeq([k \in DOMAIN extras |-> extras[k] @@ [color |-> 0]], LAMBDA x : x.action \in Shown(side))
OnLine(text, paint, l) ==
  SelectSeq([k \in DOMAIN paint |-> LinePiece(text, paint[k], l) @@ paint[k]], LAMBDA s : Length(s) > 0)
Pieces(text, actions, extras, side, l) ==
  OnLine(text, AllPaint(text, actions, NestedMoves(actions), extras, side), l)

-----------------------------------------------------------------------------
\* Brackets.
Opener == [c \in {")", "]", "}"} |-> CASE c = ")" -> "(" [] c = "]" -> "[" [] OTHER -> "{"]
Closers == DOMAIN Opener
Openers == Range(Opener)
CountOf(text, first, end, c) == Cardinality({i \in first..(end - 1) : text[i] = c})
Unclosed(text, first, end, closer) == CountOf(text, first, end, Opener[closer]) > CountOf(text, first, end, closer)

\* closeTrailingDelimiter: a span grows over the brackets behind it that it opens.
CloseTrailing(text, s) ==
  LET Closes(e) == e \in DOMAIN text /\ text[e] \in Closers /\ Unclosed(text, s.first, e, text[e])
  IN [s EXCEPT !.end = Min({e \in @..(Len(text) + 1) : ~Closes(e)})]

\* The bracket that closes the one at i, 0 when the line has none.
ClosePos(text, i, end) ==
  LET closer == CHOOSE c \in Closers : Opener[c] = text[i]
  IN First({p \in (i + 1)..(end - 1) : text[p] = closer /\ ~Unclosed(text, i, p + 1, closer)})

IsOnlyNonCharacters(text, from, to) == \A i \in from..(to - 1) : text[i] \notin WordChars \cup OperatorChars

\* canMergeActionSpans
CanMergeActionSpans(actions, action, r, s) ==
  \/ action \in {"delete", "insert"}
  \/ /\ r # 0 /\ s # 0
     /\ LET a == actions[r]
            b == actions[s]
        IN /\ a.color = b.color
           /\ \/ a.group # 0 /\ a.group = b.group
              \/ /\ SharesLineage(a.parent, b.parent)
                 /\ action = "move" => SharesLineage(a.oldParent, b.oldParent)

\* areGapDelimitersBalanced: the gap closes only what the span opens, and what it opens is
\* closed within the spans that the merge goes on to take in.
MaxGap == 3
Chain(text, actions, action, sim, cand) ==
  LET gap == cand.first - sim.end
      taken == gap <= 0 \/ /\ gap <= MaxGap
                           /\ IsOnlyNonCharacters(text, sim.end, cand.first)
                           /\ CanMergeActionSpans(actions, action, sim.ref, cand.ref)
  IN CASE sim.stopped \/ cand.end <= sim.end -> sim
       [] ~sim.stopped /\ cand.end > sim.end /\ ~taken -> [sim EXCEPT !.stopped = TRUE]
       [] OTHER -> CloseTrailing(text, [sim EXCEPT !.end = cand.end, !.ref = cand.ref])
GapBalanced(text, actions, action, curr, next, later, lineEnd) ==
  LET gap == curr.end..(next.first - 1)
      opened == {i \in gap : text[i] \in Openers}
      closing == {ClosePos(text, i, lineEnd) : i \in opened}
      start == CloseTrailing(text, [first |-> curr.first, end |-> Greatest(curr.end, next.end), ref |-> next.ref,
                                    stopped |-> FALSE])
      reach == FoldLeft(LAMBDA sim, cand : Chain(text, actions, action, sim, cand), start, later)
  IN /\ \A i \in gap : text[i] \in Closers => Unclosed(text, curr.first, i, text[i])
     /\ 0 \notin closing
     /\ \A p \in closing : p < reach.end

\* Mutant: what lies in the gap is not looked at.
MergeableAnyGap(text, actions, action, curr, next, later, lineEnd) ==
  /\ next.first - curr.end <= MaxGap
  /\ CanMergeActionSpans(actions, action, curr.ref, next.ref)

Mergeable(text, actions, action, curr, next, later, lineEnd) ==
  /\ next.first - curr.end <= MaxGap
  /\ next.first > curr.end => /\ IsOnlyNonCharacters(text, curr.end, next.first)
                              /\ GapBalanced(text, actions, action, curr, next, later, lineEnd)
  /\ CanMergeActionSpans(actions, action, curr.ref, next.ref)

\* The spans of one action kind on a line, merged from left to right.
WiderRef(actions, side, r, s) ==
  IF r # 0 /\ s # 0 /\ NodeLen(actions[s], side) > NodeLen(actions[r], side) THEN s ELSE r
MergeStep(text, actions, side, action, sorted, lineEnd, st, k) ==
  LET curr == st.curr
      next == sorted[k]
      Emit(s) == Append(st.out, CloseTrailing(text, s))
      both == curr.first = next.first /\ curr.ref # 0 /\ next.ref # 0 /\ curr.ref # next.ref
      later == SubSeq(sorted, k + 1, Len(sorted))
  IN CASE Within(next, curr) -> IF next.ref = curr.ref THEN st ELSE [st EXCEPT !.out = Emit(next)]
       [] ~Within(next, curr) /\ Mergeable(text, actions, action, curr, next, later, lineEnd) ->
            IF next.end <= curr.end THEN st
            ELSE [out |-> IF both THEN Emit(curr) ELSE st.out,
                  curr |-> [curr EXCEPT !.ref = WiderRef(actions, side, @, next.ref), !.end = next.end]]
       [] OTHER -> [out |-> Emit(curr), curr |-> next]

SortSpans(spans) == Sorted(spans, [k \in DOMAIN spans |-> <<spans[k].first, spans[k].end>>])
LastEmitted(text, st) == Append(st.out, CloseTrailing(text, st.curr))
MergeGroup(text, actions, side, action, sorted, lineEnd) ==
  LET Step(st, k) == MergeStep(text, actions, side, action, sorted, lineEnd, st, k + 1)
  IN IF sorted = <<>> THEN <<>>
     ELSE LastEmitted(text, FoldLeft(Step, [out |-> <<>>, curr |-> sorted[1]], Numbers(Len(sorted) - 1)))

-----------------------------------------------------------------------------
\* partitionLineSpans: where spans overlap, the line is cut at their ends, and each segment
\* shows the span of the smallest node, then the narrowest, then the first kind.
Overlap(s, t) == s.first < t.end /\ t.first < s.end

\* Mutant: only neighbours are compared.
HasOverlapOfNeighbours(spans) == \E i \in DOMAIN spans : i + 1 \in DOMAIN spans /\ Overlap(spans[i], spans[i + 1])

HasOverlap(spans) == \E i, j \in DOMAIN spans : i < j /\ Overlap(spans[i], spans[j])

Priority(action) ==
  CASE action = "update" -> 4 [] action = "move" -> 3 [] action = "insert" -> 2 [] action = "delete" -> 1
ASTLength(actions, side, s) ==
  LET n == IF s.ref = 0 THEN 0 ELSE NodeLen(actions[s.ref], side) IN IF n > 0 THEN n ELSE Length(s)

MoveColor(text, actions, side, s) ==
  LET a == actions[s.ref]
  IN IF s.ref = 0 THEN 0
     ELSE ResolveMoveColor(a, LineCount(text, a, side), a.group \in MultiLineGroups(text, actions, side))
Coloured(text, actions, side, s) ==
  IF s.action = "move" THEN [s EXCEPT !.color = MoveColor(text, actions, side, s)] ELSE s

\* The first of the smallest ones, 0 when there is none.
Winner(over, ranks) == FoldLeft(LAMBDA w, k : IF w = 0 \/ Precedes(ranks[k], ranks[w]) THEN k ELSE w, 0, over)
AsSegment(text, actions, side, spans, first, end, s, m) ==
  LET both == /\ m # 0 /\ s.action # "move"
              /\ s.action = "update" \/ (s.ref # 0 /\ actions[s.ref].comment)
  IN <<[first |-> first, end |-> end, ref |-> s.ref, action |-> IF both THEN "move_update" ELSE s.action,
        color |-> IF both THEN MoveColor(text, actions, side, spans[m]) ELSE Coloured(text, actions, side, s).color]>>
Segment(text, actions, side, spans, first, end, over) ==
  LET size == [k \in DOMAIN spans |-> ASTLength(actions, side, spans[k])]
      ranks == [k \in DOMAIN spans |-> <<size[k], Length(spans[k]), -Priority(spans[k].action)>>]
      moves == SelectSeq(over, LAMBDA k : spans[k].action = "move")
  IN IF over = <<>> THEN <<>>
     ELSE AsSegment(text, actions, side, spans, first, end, spans[Winner(over, ranks)],
                    Winner(moves, [k \in DOMAIN spans |-> <<size[k]>>]))

\* Neighbours that look the same become one, moves only when they are of one action.
Coalesce(out, s) ==
  LET t == Last(out)
      same == /\ out # <<>> /\ t.action = s.action /\ t.end = s.first
              /\ s.action \in {"move", "move_update"} => t.ref = s.ref /\ t.color = s.color
  IN IF same THEN [out EXCEPT ![Len(out)].end = s.end] ELSE Append(out, s)

Segments(text, actions, side, spans, bounds) ==
  LET Over(first, end) ==
        SelectSeq(Numbers(Len(spans)), LAMBDA k : spans[k].first <= first /\ end <= spans[k].end)
  IN FlattenSeq([k \in 1..(Len(bounds) - 1) |->
       Segment(text, actions, side, spans, bounds[k], bounds[k + 1], Over(bounds[k], bounds[k + 1]))])
PartitionLineSpans(text, actions, side, spans) ==
  LET bounds == SelectSeq(Numbers(Len(text) + 1), LAMBDA i : \E s \in Range(spans) : i \in {s.first, s.end})
  IN IF ~HasOverlap(spans) THEN [k \in DOMAIN spans |-> Coloured(text, actions, side, spans[k])]
     ELSE FoldLeft(Coalesce, <<>>, Segments(text, actions, side, spans, bounds))

Kinds == <<"delete", "insert", "update", "move">>
MergePieces(text, actions, side, pieces, lineEnd) ==
  LET Group(kind) == SortSpans(SelectSeq(pieces, LAMBDA s : s.action = kind))
  IN FlattenSeq([k \in 1..4 |-> MergeGroup(text, actions, side, Kinds[k], Group(Kinds[k]), lineEnd)])
LineSpans(text, actions, extras, side, l) ==
  SortSpans(PartitionLineSpans(text, actions, side,
    MergePieces(text, actions, side, Pieces(text, actions, extras, side, l), LineRange(text, l).end)))

\* BuildHighlightSpans: the spans of every line.
BuildHighlightSpans(text, actions, extras, side) ==
  [l \in 1..Len(LineIndex(text)) |-> LineSpans(text, actions, extras, side, l)]
=============================================================================
