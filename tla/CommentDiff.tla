---------------------------- MODULE CommentDiff ----------------------------
(***************************************************************************)
(* The diff of the comments (internal/comments/diff.go).  Comments are no  *)
(* nodes of the syntax tree: they are paired in five passes that use the   *)
(* mapping of the nodes they hang on, from the most to the least certain,  *)
(* and every pass only sees what the ones before left over.                *)
(*                                                                         *)
(* A comment is a record                                                   *)
(*   [text    its lines, each [key, ind]                                   *)
(*    row     its first line                                               *)
(*    anchor  the node it is attached to, decl the declaration around it,  *)
(*            nodes of the tree of its side, 0 for none                    *)
(*    path]   where it is in the declaration                               *)
(* The two lists of comments, the trees and the mapping are one record     *)
(* [C, E, S, D, pairs].                                                    *)
(***************************************************************************)
EXTENDS LineDiff, Syntax

CONSTANTS
  Alike,          \* the bigram similarity of two texts, in percent
  AlikeLines,     \* the same of two lines of text
  CommentWindow,  \* how far an equal comment may have gone to another scope (25)
  FuzzyWindow     \* how far an edited comment may be (60)

Multi(c) == Len(c.text) > 1
MinThreshold(c, e) == IF Multi(c) /\ Multi(e) THEN 20 ELSE 40
RowDistance(c, e) == Distance(c.row, e.row)

\* canonicalScopeKey: scopes of the source are named after the declaration they are mapped
\* to; a declaration that is gone keeps its comments for itself.
SrcScope(in, c) ==
  CASE c.decl = 0 -> <<"root", 0, c.path>>
    [] c.decl # 0 /\ Get(in.pairs, c.decl) # 0 -> <<"decl", Get(in.pairs, c.decl), c.path>>
    [] OTHER -> <<"unmapped", c.decl, c.path>>
DstScope(e) == IF e.decl = 0 THEN <<"root", 0, e.path>> ELSE <<"decl", e.decl, e.path>>
SameScope(in, i, j) == SrcScope(in, in.C[i]) = DstScope(in.E[j])

OnMappedAnchor(in, i, j) ==
  LET a == in.C[i].anchor IN a # 0 /\ Get(in.pairs, a) # 0 /\ Get(in.pairs, a) = in.E[j].anchor

\* findEnclosingBlock
FindEnclosingBlock(T, n, decl) ==
  LET blocks == {b \in Ancestors(T, n) \cup {n} : (IsBlock(T[b].kind) \/ IsCaseClause(T[b].kind)) /\ b > decl}
  IN IF blocks = {} THEN decl ELSE Max(blocks)

\* Two anchors whose blocks are mapped elsewhere keep their comments apart.
BlocksAgree(in, i, j) ==
  LET c == in.C[i]
      e == in.E[j]
      x == FindEnclosingBlock(in.S, c.anchor, c.decl)
      y == FindEnclosingBlock(in.D, e.anchor, e.decl)
  IN \/ c.anchor = 0 \/ e.anchor = 0 \/ OnMappedAnchor(in, i, j)
     \/ x = 0 \/ y = 0
     \/ IF Get(in.pairs, x) # 0 THEN Get(in.pairs, x) = y ELSE GetSrc(in.pairs, y) \in {0, x}

-----------------------------------------------------------------------------
\* What is known so far: the pairs of comments, the line mappings (a function of the rows of
\* the source, a later entry replacing an earlier one), the actions.
Nothing == [taken |-> {}, lines |-> <<>>, acts |-> <<>>]
SrcFree(res, i) == \A p \in res.taken : p[1] # i
\* Mutant: the comment of the destination is not marked.
DstFreeAlways(res, j) == TRUE
DstFree(res, j) == \A p \in res.taken : p[2] # j

\* Map assignments, later ones first in the record of the pairs of rows.
Assign(lines, s, d) == SelectSeq(lines, LAMBDA p : p[1] # s) \o <<<<s, d>>>>
AssignRows(lines, c, e, rows) == FoldLeft(LAMBDA l, p : Assign(l, c.row + p[1] - 1, e.row + p[2] - 1), lines, rows)

\* Two equal comments: their lines are mapped one by one.
Pair(in, res, i, j) ==
  LET c == in.C[i]
      e == in.E[j]
      n == Least(Len(c.text), Len(e.text))
  IN [res EXCEPT !.taken = @ \cup {<<i, j>>}, !.lines = AssignRows(@, c, e, [k \in 1..n |-> <<k, k>>])]

Act(action, side, comment, line) == [action |-> action, side |-> side, comment |-> comment, line |-> line]
Whole == 0   \* the line of an action on a whole comment

\* The lines of two edited comments of several lines: a line diff, then, line by line, the
\* most similar line that is left.
MatchCommentLines(c, e) ==
  LET Best(pairs, k) ==
        LET J == {j \in DOMAIN e.text : /\ \A p \in pairs : p[2] # j
                                        /\ AlikeLines[c.text[k].key, e.text[j].key] > 45}
            Worth(j) == AlikeLines[c.text[k].key, e.text[j].key]
        IN IF J = {} \/ \E p \in pairs : p[1] = k THEN {}
           ELSE {<<k, CHOOSE j \in J : \A l \in J : Worth(j) > Worth(l) \/ (Worth(j) = Worth(l) /\ j <= l)>>}
  IN FoldLeft(LAMBDA pairs, k : pairs \cup Best(pairs, k), Range(LineDiff(c.text, e.text)), Numbers(Len(c.text)))

\* diffCommentBlock: the lines that are paired and differ are reworded, the others are
\* deleted and inserted.
InSrcOrder(pairs) == SetToSortSeq(pairs, LAMBDA p, q : p[1] < q[1])
DiffCommentLines(in, res, i, j, pairs) ==
  LET c == in.C[i]
      e == in.E[j]
      edited == SelectSeq(pairs, LAMBDA p : c.text[p[1]] # e.text[p[2]])
      gone == SelectSeq(Numbers(Len(c.text)), LAMBDA k : \A p \in Range(pairs) : p[1] # k)
      new == SelectSeq(Numbers(Len(e.text)), LAMBDA k : \A p \in Range(pairs) : p[2] # k)
  IN [taken |-> res.taken, lines |-> AssignRows(res.lines, c, e, pairs),
      acts |-> res.acts \o [k \in DOMAIN edited |-> [action |-> "reword", comment |-> <<i, j>>, lines |-> edited[k]]]
                        \o [k \in DOMAIN gone |-> Act("delete", "src", i, gone[k])]
                        \o [k \in DOMAIN new |-> Act("insert", "dst", j, new[k])]]
DiffCommentBlock(in, res, i, j) ==
  DiffCommentLines(in, res, i, j,
                   IF ~Multi(in.C[i]) /\ ~Multi(in.E[j]) THEN <<<<1, 1>>>>
                   ELSE InSrcOrder(MatchCommentLines(in.C[i], in.E[j])))

\* The candidates of a fuzzy pass are taken in order, then the pairs are diffed in the order
\* of the source.
Fuzzy(in, res, cands, exact) ==
  LET Sim(p) == Alike[in.C[p[1]].text, in.E[p[2]].text]
      Far(p) == RowDistance(in.C[p[1]], in.E[p[2]])
      Rank(p) == <<IF p \in exact THEN 0 ELSE 1, -Sim(p), Far(p), p[1], p[2]>>
      Closer(p, q) == Precedes(Rank(p), Rank(q))
      Apart(chosen, p) == \A q \in chosen : q[1] # p[1] /\ q[2] # p[2]
      chosen == FoldLeft(LAMBDA ch, p : IF Apart(ch, p) THEN ch \cup {p} ELSE ch, {}, SetToSortSeq(cands, Closer))
  IN FoldLeft(LAMBDA r, p : DiffCommentBlock(in, r, p[1], p[2]), [res EXCEPT !.taken = @ \cup chosen], InSrcOrder(chosen))

Similar(in, i, j) == Alike[in.C[i].text, in.E[j].text] >= MinThreshold(in.C[i], in.E[j])
Left(in, res) == {p \in (DOMAIN in.C) \X (DOMAIN in.E) : SrcFree(res, p[1]) /\ DstFree(res, p[2])}

-----------------------------------------------------------------------------
\* Pass 0: comments on mapped anchors, first the equal ones.
AnchoredEqual(in, res0) ==
  LET Lock(res, i) ==
        LET J == {j \in DOMAIN in.E : DstFree(res, j) /\ OnMappedAnchor(in, i, j) /\ in.C[i].text = in.E[j].text}
        IN IF J = {} THEN res ELSE Pair(in, res, i, Min(J))
  IN FoldLeft(Lock, res0, Numbers(Len(in.C)))
AnchoredSimilar(in, res) ==
  LET anchored == {p \in Left(in, res) : OnMappedAnchor(in, p[1], p[2]) /\ Similar(in, p[1], p[2])}
  IN Fuzzy(in, res, anchored, anchored)

\* Pass 1: scope by scope, a longest common subsequence of the texts.  The code ranges over
\* a map of scopes: order is any order of them.
WithinScopes(in, res0, order) ==
  LET InScope(res, scope) ==
        LET xs == SelectSeq(Numbers(Len(in.C)), LAMBDA i : SrcFree(res0, i) /\ SrcScope(in, in.C[i]) = scope)
            ys == SelectSeq(Numbers(Len(in.E)), LAMBDA j : DstFree(res0, j) /\ DstScope(in.E[j]) = scope)
            common == AlignUniform(Len(xs), Len(ys),
                        {p \in (DOMAIN xs) \X (DOMAIN ys) : in.C[xs[p[1]]].text = in.E[ys[p[2]]].text})
        IN FoldLeft(LAMBDA r, p : Pair(in, r, xs[p[1]], ys[p[2]]), res, Reverse(common))
  IN FoldLeft(InScope, res0, order)
ScopesOf(in) == {SrcScope(in, in.C[i]) : i \in DOMAIN in.C}

\* Pass 2: an equal comment not far away.  In another scope it was deleted and inserted.
AcrossScopes(in, res0) ==
  LET Find(res, i) ==
        LET J == {j \in DOMAIN in.E : /\ DstFree(res, j) /\ in.C[i].text = in.E[j].text
                                      /\ RowDistance(in.C[i], in.E[j]) < CommentWindow}
            j == CHOOSE b \in J : \A l \in J : LET x == RowDistance(in.C[i], in.E[b])
                                                   y == RowDistance(in.C[i], in.E[l])
                                               IN x < y \/ (x = y /\ b <= l)
        IN CASE ~SrcFree(res, i) \/ J = {} -> res
             [] SrcFree(res, i) /\ J # {} /\ SameScope(in, i, j) -> Pair(in, res, i, j)
             [] OTHER -> [res EXCEPT !.taken = @ \cup {<<i, j>>},
                                     !.acts = @ \o <<Act("delete", "src", i, Whole), Act("insert", "dst", j, Whole)>>]
  IN FoldLeft(Find, res0, Numbers(Len(in.C)))

\* Pass 3: edited comments of the same scope, those on mapped anchors first.
EditedInScope(in, res) ==
  Fuzzy(in, res, {p \in Left(in, res) : /\ SameScope(in, p[1], p[2]) /\ BlocksAgree(in, p[1], p[2])
                                        /\ Similar(in, p[1], p[2])
                                        /\ RowDistance(in.C[p[1]], in.E[p[2]]) <= FuzzyWindow},
        {p \in Left(in, res) : OnMappedAnchor(in, p[1], p[2])})

\* Pass 4: the rest.
Leftovers(in, res) ==
  LET gone == SelectSeq(Numbers(Len(in.C)), LAMBDA i : SrcFree(res, i))
      new == SelectSeq(Numbers(Len(in.E)), LAMBDA j : DstFree(res, j))
  IN [res EXCEPT !.acts = @ \o [k \in DOMAIN gone |-> Act("delete", "src", gone[k], Whole)]
                            \o [k \in DOMAIN new |-> Act("insert", "dst", new[k], Whole)]]

\* DiffComments
DiffComments(in, order) ==
  Leftovers(in, EditedInScope(in, AcrossScopes(in,
    WithinScopes(in, AnchoredSimilar(in, AnchoredEqual(in, Nothing)), order))))

-----------------------------------------------------------------------------
\* What the actions leave of the lines of the comments: the lines of the source that are
\* neither deleted nor reworded, by their comment.
DeletedLine(acts, i, k) == \E a \in Range(acts) : a.action = "delete" /\ a.comment = i /\ a.line \in {Whole, k}
InsertedLine(acts, j, k) == \E a \in Range(acts) : a.action = "insert" /\ a.comment = j /\ a.line \in {Whole, k}
Reworded(acts) == {a \in Range(acts) : a.action = "reword"}
=============================================================================
