------------------------------ MODULE Envelope ------------------------------
(***************************************************************************)
(* What the edit script becomes before it is painted                       *)
(* (internal/serialize/json.go): every edit is an action with the ranges   *)
(* it touches on both sides, a container that changes without its body is  *)
(* clipped to its header and its closing delimiter, separators that a      *)
(* mapped node gained or lost and the comments in front of a moved node    *)
(* are painted along, and moves close to each other get different colours. *)
(*                                                                         *)
(* The nodes of the trees have, besides the fields of Syntax, their range  *)
(* of the text, the ranges of the separator behind them (trailing), of     *)
(* their closing delimiter, and of the comments in front of them (leading).*)
(* An edit is [type, node, dest, parent, subtree, group], its parent being *)
(* [tree, node]; 0 stands for no node and no group.                        *)
(*                                                                         *)
(* Positions among the children and labels are left out.                   *)
(***************************************************************************)
EXTENDS Spans

CONSTANTS
  Indented,          \* whether indentation closes the blocks of the language
  MaxTokensPerLine

Words == INSTANCE WordDiff WITH BlankChars <- Blanks, EndChars <- {NewLine}

NodeRef(T, n, tree) ==
  IF n = 0 THEN NoRef ELSE [tree |-> tree, kind |-> T[n].kind, first |-> T[n].range.first, end |-> T[n].range.end]

-----------------------------------------------------------------------------
\* findDirectOrEnclosedBlock: a block right below, or, in a call of several lines, below
\* the innermost children that have its lines.
IsCallOrCallStatement(T, n) ==
  LET kids == Children(T, n) IN
  /\ ~IsBlock(T[n].kind) /\ ~IsDeclaration(T[n].kind)
  /\ \/ IsCall(T[n].kind)
     \/ /\ Len(kids) \in 1..2 /\ IsCall(T[kids[1]].kind)
        /\ Len(kids) = 2 => T[kids[1]].end = T[n].end
EnclosedBlock(T, n) ==
  LET Down(s, k) ==
        IF s.at = 0 \/ s.block # 0 THEN s
        ELSE [block |-> FindBodyBlock(T, s.at),
              at |-> Closest({c \in ChildSet(T, s.at) : T[c].row = T[n].row /\ T[c].end = T[n].end})]
  IN FoldLeft(Down, [at |-> n, block |-> 0], Numbers(T[n].size)).block
FindDirectOrEnclosedBlock(T, n) ==
  CASE FindBodyBlock(T, n) # 0 -> FindBodyBlock(T, n)
    [] OTHER -> IF T[n].row # T[n].end /\ IsCallOrCallStatement(T, n) THEN EnclosedBlock(T, n) ELSE 0

IsIndentationConstruct(T, n, block) ==
  Indented /\ (block # 0 \/ ~(IsWrapper(T[n].kind) \/ Role("indexed", T[n].kind)))

\* isClosingDelimiter
ClosingTokens == {<<"}">>, <<"]">>, <<")">>, <<"e", "n", "d">>}
IsClosingDelimiter(text, range) ==
  LET ink == {i \in range.first..(range.end - 1) : text[i] \notin White \cup {",", ";"}}
  IN ink # {} /\ SubSeq(text, Min(ink), Max(ink)) \in ClosingTokens

\* A container clipped in front of a child, or of the comment in front of that child; its
\* footer is the closing delimiter of a node, or what is left behind another one.
ClippedAt(T, text, n, start, child, owner, last, isBlock) ==
  LET whole == T[n].range
      lead == T[child].leading
      at == T[child].range.first
      header == IF lead # <<>> /\ lead[1].first \in (start + 1)..(at - 1) THEN lead[1].first ELSE at
      rest == [first |-> T[last].range.end, end |-> whole.end]
      footer == CASE IsIndentationConstruct(T, n, IF isBlock THEN child ELSE 0) -> None
                  [] Length(T[owner].closing) > 0 -> T[owner].closing
                  [] OTHER -> IF T[last].range.end > at /\ Length(rest) > 0 /\ IsClosingDelimiter(text, rest)
                              THEN rest ELSE None
  IN [first |-> start, end |-> header, footer |-> footer]

\* The first child that belongs to the body of a construct of several lines.
FirstBodyChild(T, n, inside) ==
  LET kids == ChildSet(T, n) \cap inside
      body == {c \in kids : T[c].row > T[n].row \/ IsDeclaration(T[c].kind) \/ IsBlock(T[c].kind)}
  IN IF body # {} THEN Min(body)
     ELSE First({c \in kids : T[c].end > T[n].row /\ FindDirectOrEnclosedBlock(T, c) # 0})

\* adjustRangeForContainer: behind which position, in front of which child, and up to which
\* node a container is clipped.
NoCut == [start |-> 0, child |-> 0, owner |-> 0, last |-> 0, isBlock |-> FALSE]
CutAround(T, n, kids, block, inside) ==
  LET Cut(start, child) == [start |-> start, child |-> child, owner |-> n, last |-> Last(kids), isBlock |-> FALSE]
      indexed == /\ Role("indexed", T[n].kind) /\ Len(kids) >= 2
                 /\ T[kids[2]].range.first > T[kids[1]].range.end /\ T[kids[2]].range.first <= T[n].range.end
      wrapper == kids # <<>> /\ IsWrapper(T[n].kind) /\ kids[1] \in inside
      start == T[n].range.first
  IN CASE block \in inside -> [start |-> start, child |-> block, owner |-> block, last |-> block, isBlock |-> TRUE]
       [] block \notin inside /\ indexed -> Cut(T[kids[1]].range.end, kids[2])
       [] block \notin inside /\ ~indexed /\ wrapper -> Cut(start, kids[1])
       [] OTHER -> IF T[n].row = T[n].end \/ kids = <<>> THEN NoCut ELSE Cut(start, FirstBodyChild(T, n, inside))
Clip(T, text, n, cut) ==
  IF cut.child = 0 THEN [first |-> T[n].range.first, end |-> T[n].range.end, footer |-> None]
  ELSE ClippedAt(T, text, n, cut.start, cut.child, cut.owner, cut.last, cut.isBlock)
AdjustRange(T, text, n) ==
  LET inside == {c \in DOMAIN T : T[n].range.first < T[c].range.first /\ T[c].range.first < T[n].range.end}
  IN Clip(T, text, n, CutAround(T, n, Children(T, n), FindDirectOrEnclosedBlock(T, n), inside))
RangeOf(T, text, n, subtree) ==
  IF subtree THEN [first |-> T[n].range.first, end |-> T[n].range.end, footer |-> None] ELSE AdjustRange(T, text, n)
Bounds(r) == [first |-> r.first, end |-> r.end]

-----------------------------------------------------------------------------
\* The actions.  I is [A, B, S, D, pairs, edits, comments]: the texts, their trees, the mapping,
\* the edits of the script and the pairs of comments that differ.
Bare == [action |-> "none", node |-> None, dest |-> None, parent |-> NoRef, oldParent |-> NoRef,
         orig |-> None, destOrig |-> None, trivia |-> None, destTrivia |-> None, group |-> 0, color |-> 0,
         lines |-> 0, comment |-> FALSE, n |-> 0, d |-> 0, footer |-> None, destFooter |-> None]

\* The parent of a move in the new tree; 0 when it cannot be resolved.
MoveParent(I, e) ==
  LET given == IF e.parent.node = 0 /\ e.dest # 0 THEN [tree |-> "after", node |-> I.D[e.dest].parent] ELSE e.parent
      mapped == IF given.node = 0 THEN {}
                ELSE {a \in Ancestors(I.S, given.node) \cup {given.node} : Get(I.pairs, a) # 0}
  IN CASE given.tree = "after" -> given.node
       [] given.tree = "before" /\ given.node # 0 /\ mapped # {} -> Get(I.pairs, Max(mapped))
       [] OTHER -> IF given.node # 0 /\ e.dest # 0 THEN I.D[e.dest].parent ELSE 0

\* A node of one tree only; the footer is shown unless its block is mapped.
Unpaired(T, n, r, tree) ==
  [Bare EXCEPT !.node = Bounds(r), !.orig = T[n].range, !.parent = NodeRef(T, T[n].parent, tree),
               !.trivia = T[n].trailing, !.n = n]
FooterOf(r, mate) == IF mate # 0 THEN None ELSE r.footer
Inserted(I, n, r) ==
  [Unpaired(I.D, n, r, "after") EXCEPT !.action = "insert", !.destOrig = I.D[n].range,
     !.destFooter = FooterOf(r, GetSrc(I.pairs, FindDirectOrEnclosedBlock(I.D, n)))]
Deleted(I, n, r) ==
  [Unpaired(I.S, n, r, "before") EXCEPT !.action = "delete",
     !.footer = FooterOf(r, Get(I.pairs, FindDirectOrEnclosedBlock(I.S, n)))]
InsertAction(I, e) == Inserted(I, e.node, RangeOf(I.D, I.B, e.node, e.subtree))
DeleteAction(I, e) == Deleted(I, e.node, RangeOf(I.S, I.A, e.node, e.subtree))

DestOf(I, e) == IF e.dest # 0 THEN e.dest ELSE Get(I.pairs, e.node)
RangeOfDest(I, e, d) ==
  IF d = 0 THEN [first |-> 0, end |-> 0, footer |-> None] ELSE RangeOf(I.D, I.B, d, e.subtree)
UpdateAction(I, e) ==
  LET d == DestOf(I, e)
      to == IF d = 0 THEN None ELSE I.D[d].range
  IN [Bare EXCEPT !.action = "update", !.node = I.S[e.node].range, !.orig = I.S[e.node].range,
                  !.dest = to, !.destOrig = to, !.n = e.node, !.d = d]
MovedTo(I, e, r, d, to) ==
  [Bare EXCEPT !.action = "move", !.node = Bounds(r), !.orig = I.S[e.node].range, !.dest = Bounds(to),
               !.destOrig = IF d = 0 THEN None ELSE I.D[d].range, !.n = e.node, !.d = d,
               !.parent = NodeRef(I.D, MoveParent(I, e), "after"),
               !.oldParent = NodeRef(I.S, I.S[e.node].parent, "before"),
               !.trivia = I.S[e.node].trailing, !.destTrivia = IF d = 0 THEN None ELSE I.D[d].trailing,
               !.footer = r.footer, !.destFooter = to.footer]
MoveAction(I, e) ==
  MovedTo(I, e, RangeOf(I.S, I.A, e.node, e.subtree), DestOf(I, e), RangeOfDest(I, e, DestOf(I, e)))

\* The word diff of two comments of one line: an update, a delete or an insert of every
\* range of words, with a node of their own.
CommentAction(I, c, op) ==
  LET Shift(r, at) == IF Words!Covers(r) THEN [first |-> at.first + r[1] - 1, end |-> at.first + r[2]] ELSE None
      src == Shift(op.src, c.src)
      dst == Shift(op.dst, c.dst)
      own == IF op.action = "insert" THEN dst ELSE src
      update == op.action = "update"
  IN [Bare EXCEPT !.action = op.action, !.node = own, !.orig = own, !.comment = TRUE, !.group = 0,
                  !.parent = IF update THEN NoRef ELSE IF op.action = "insert" THEN c.dstParent ELSE c.srcParent,
                  !.dest = IF update THEN dst ELSE None,
                  !.destOrig = IF op.action = "delete" THEN None ELSE dst]
EachWordOp(I, c, ops) == [k \in DOMAIN ops |-> CommentAction(I, c, ops[k])]
CommentActions(I, c) ==
  EachWordOp(I, c, Words!DiffWords(SubSeq(I.A, c.src.first, c.src.end - 1), SubSeq(I.B, c.dst.first, c.dst.end - 1)))

ActionOf(I, e) ==
  CASE e.type = "insert" -> InsertAction(I, e)
    [] e.type = "delete" -> DeleteAction(I, e)
    [] e.type = "update" -> UpdateAction(I, e)
    [] e.type = "move" -> MoveAction(I, e)
Grouped(a, group) == [a EXCEPT !.group = group]
EnvelopeActions(I) ==
  [k \in DOMAIN I.edits |-> Grouped(ActionOf(I, I.edits[k]), I.edits[k].group)]
    \o FlattenSeq([k \in DOMAIN I.comments |-> CommentActions(I, I.comments[k])])

-----------------------------------------------------------------------------
\* ownTrailingSeparator: the text of the separator behind a node, and its range.
NoSeparator == [text |-> <<>>, first |-> 0, end |-> 0]
OwnTrailingSeparator(T, text, n) ==
  LET up == T[n].parent
      limit == IF up = 0 THEN Len(text) + 1 ELSE Least(Len(text) + 1, T[up].range.end)
      from == Least(T[n].trailing.first, limit)
      to == Least(T[n].trailing.end, limit)
  IN IF Length(T[n].trailing) = 0 \/ to <= from \/ from < T[n].range.end THEN NoSeparator
     ELSE [text |-> SubSeq(text, from, to - 1), first |-> from,
           end |-> IF up # 0 /\ IsDelimitedContainer(T[up].kind) THEN PastBlanks(text, to, limit) ELSE to]

\* hasMatchingTrailingSeparator: the partner has the separator further out, behind an
\* ancestor that ends with it, or behind its place below the partner of the parent.
HasMatchingTrailingSeparator(T, n, U, mate, tok, text) ==
  LET Owns(a) == OwnTrailingSeparator(U, text, a).text = tok
      up == IF T[n].parent = 0 THEN 0 ELSE mate[T[n].parent]
      EndsWith(a) == \A b \in (Ancestors(U, mate[n]) \cup {mate[n]}) : b >= a => U[b].range.end = U[mate[n]].range.end
  IN \/ \E a \in Ancestors(U, mate[n]) : EndsWith(a) /\ Owns(a)
     \/ up # 0 /\ \E a \in Ancestors(U, mate[n]) \cup {mate[n]} : U[a].parent = up /\ Owns(a)

\* collectMappedTrailingDelimiters: what one side alone has behind a mapped node.
Delimiter(r, kind, ref) == [first |-> r.first, end |-> r.end, action |-> kind, ref |-> ref]
SortedDelimiters(S) ==
  SetToSortSeq(S, LAMBDA r, s : r.first < s.first \/ (r.first = s.first /\ r.end < s.end))
LostSeparators(T, textT, U, textU, mate, kind) ==
  LET Lost(n) == LET own == OwnTrailingSeparator(T, textT, n)
                     other == OwnTrailingSeparator(U, textU, mate[n])
                 IN /\ own # NoSeparator /\ other.text # own.text
                    /\ ~HasMatchingTrailingSeparator(T, n, U, mate, own.text, textU)
      lost == {n \in DOMAIN T : mate[n] # 0 /\ Lost(n)}
  IN SortedDelimiters({Delimiter(OwnTrailingSeparator(T, textT, n), kind, 0) : n \in lost})

\* The comments in front of a moved node go with it, except those that are deleted or new.
DocComments(T, acts, k, n, kind) ==
  LET gone == {a.orig.first : a \in {b \in Range(acts) : b.action = kind /\ b.comment}}
      kept == IF n = 0 THEN <<>> ELSE SelectSeq(T[n].leading, LAMBDA r : r.first \notin gone)
  IN [j \in DOMAIN kept |-> Delimiter(kept[j], "move", k)]

\* All that is painted besides the actions themselves.
Footers(acts, footers) ==
  LET with == SelectSeq(Numbers(Len(acts)), LAMBDA k : Length(footers[k]) > 0)
  IN [j \in DOMAIN with |-> Delimiter(footers[with[j]], acts[with[j]].action, with[j])]
Moves(acts) == SelectSeq(Numbers(Len(acts)), LAMBDA k : acts[k].action = "move")
Extras(I, acts, side) ==
  LET moves == Moves(acts)
      left == side = "left"
      Docs(k) == IF left THEN DocComments(I.S, acts, k, acts[k].n, "delete")
                 ELSE DocComments(I.D, acts, k, acts[k].d, "insert")
  IN Footers(acts, [k \in DOMAIN acts |-> IF left THEN acts[k].footer ELSE acts[k].destFooter])
       \o (IF left THEN LostSeparators(I.S, I.A, I.D, I.B, [n \in DOMAIN I.S |-> Get(I.pairs, n)], "delete")
           ELSE LostSeparators(I.D, I.B, I.S, I.A, [n \in DOMAIN I.D |-> GetSrc(I.pairs, n)], "insert"))
       \o FlattenSeq([j \in DOMAIN moves |-> Docs(moves[j])])

-----------------------------------------------------------------------------
\* isChildCoMover, isContainerBodyCoMover: a move that goes with another one, as its child
\* or inside its body, in both trees.
SameNode(ref, r, kind) == ref # NoRef /\ ref.first = r.first /\ ref.kind = kind
ChildCoMover(I, child, parent) ==
  /\ SameNode(child.oldParent, parent.node, I.S[parent.n].kind)
  /\ parent.d # 0 /\ SameNode(child.parent, I.D[parent.d].range, I.D[parent.d].kind)
OwnBlock(T, n) == IF IsBlock(T[n].kind) THEN n ELSE FindDirectOrEnclosedBlock(T, n)
InBlock(T, block, n) == block # 0 /\ n \in Subtree(T, block)
ContainerBodyCoMover(I, child, parent) ==
  /\ InBlock(I.S, OwnBlock(I.S, parent.n), child.n)
  /\ parent.d # 0 /\ child.d # 0 /\ InBlock(I.D, OwnBlock(I.D, parent.d), child.d)
CoMovers(I, a, b) ==
  \E p \in {<<a, b>>, <<b, a>>} : ChildCoMover(I, p[1], p[2]) \/ ContainerBodyCoMover(I, p[1], p[2])

\* Within two lines of each other, before or after the move.
NearRows(text, r, s) ==
  LET Row(at) == IF at = 0 THEN 1 ELSE LineOf(text, at)
  IN Greatest(Row(r.first), Row(s.first)) <= Least(Row(r.end), Row(s.end)) + 2
NearMoves(I, a, b) == NearRows(I.A, a.node, b.node) \/ NearRows(I.B, a.dest, b.dest)
Slot(used) == IF 0 \in used /\ 1 \notin used THEN 1 ELSE 0

\* The colour of a move outside the groups: that of the first one it goes with, else one
\* that no coloured move nearby has.
SlotOfMove(I, acts, colored, k) ==
  LET mates == {j \in DOMAIN colored : CoMovers(I, acts[k], acts[j])}
      near == {j \in DOMAIN colored \ mates : NearMoves(I, acts[k], acts[j])}
  IN IF mates # {} THEN colored[Min(mates)] ELSE Slot({colored[j] : j \in near})

\* AssignMoveColors: the largest groups first, then the other moves in their order.
Members(acts, g) == {k \in Range(Moves(acts)) : acts[k].group = g}
GroupRank(I, acts, g) ==
  LET K == Members(acts, g)
  IN <<-Cardinality(K), -MapThenSumSet(LAMBDA k : Length(acts[k].node), K),
       Min({LineOf(I.A, acts[k].node.first) : k \in K}), g>>
GroupsInOrder(I, acts) ==
  SetToSortSeq({acts[k].group : k \in Range(Moves(acts))} \ {0},
               LAMBDA g, h : Precedes(GroupRank(I, acts, g), GroupRank(I, acts, h)))
SlotOfGroup(I, acts, colored, g) ==
  LET Clash(a, b) == NearMoves(I, a, b) /\ ~CoMovers(I, a, b)
  IN Slot({colored[j] : j \in {i \in DOMAIN colored : \E k \in Members(acts, g) : Clash(acts[k], acts[i])}})
Give(colored, K, slot) == [k \in K |-> slot] @@ colored
WithColors(acts, colored) ==
  [k \in DOMAIN acts |-> IF k \in DOMAIN colored THEN [acts[k] EXCEPT !.color = colored[k]] ELSE acts[k]]
AssignMoveColors(I, acts) ==
  LET ColorGroup(colored, g) == Give(colored, Members(acts, g), SlotOfGroup(I, acts, colored, g))
      ColorMove(colored, k) == Give(colored, {k}, SlotOfMove(I, acts, colored, k))
      alone == SelectSeq(Moves(acts), LAMBDA k : acts[k].group = 0)
  IN IF Len(Moves(acts)) <= 1 THEN acts
     ELSE WithColors(acts, FoldLeft(ColorMove, FoldLeft(ColorGroup, [k \in {} |-> 0], GroupsInOrder(I, acts)), alone))

\* BuildEnvelopeWithOptions, up to the highlights: the actions with the lines they span and
\* their colours, or no actions when the parent of a move is not in the new tree.
Unresolved(I) == \E k \in DOMAIN I.edits : I.edits[k].type = "move" /\ MoveParent(I, I.edits[k]) = 0
Counted(I, a) ==
  IF a.action = "move"
  THEN [a EXCEPT !.lines = Greatest(ActionLineCount(I.A, a, "left"), ActionLineCount(I.B, a, "right"))]
  ELSE a
CountLines(I, acts) == [k \in DOMAIN acts |-> Counted(I, acts[k])]
BuildActions(I) == AssignMoveColors(I, CountLines(I, EnvelopeActions(I)))
=============================================================================
