-------------------------------- MODULE Paint --------------------------------
(***************************************************************************)
(* From the edit script to the rows of the terminal: the envelope is built *)
(* and its moves are coloured (json.go), each side gets its spans          *)
(* (spans.go), and each line, with its badge, is cut into rows             *)
(* (badges.go, slicer.go).  When the files were compared as plain lines,   *)
(* the words of rewritten lines are painted instead.                       *)
(***************************************************************************)
EXTENDS Badges

CONSTANTS
  Inputs,        \* the records [A, B, S, D, pairs, edits, comments, rows, hunks, plain, opts, cfg]
  CharWidth,     \* the columns of a character
  BadgeWidth     \* the columns of a badge

Rows == INSTANCE Slicer WITH Breaks <- {",", ";"}

VARIABLES
  input,
  pc,       \* "build", "paint", "failed"
  acts,     \* the actions of the envelope
  spans,    \* the spans of each line, by side
  rows      \* the rows of each line, by side

vars == <<input, pc, acts, spans, rows>>

Sides == {"left", "right"}
NotYet == <<>>
Text(side) == IF side = "left" THEN input.A ELSE input.B
LineNumbers(side) == 1..Len(LineIndex(Text(side)))

Init ==
  /\ input \in Inputs
  /\ pc = "build" /\ acts = <<>>
  /\ spans = [side \in Sides |-> NotYet] /\ rows = [side \in Sides |-> NotYet]

-----------------------------------------------------------------------------
\* BuildLineDiffEnvelopeWithOptions: a line without a counterpart is painted up to its
\* trailing blanks, of a rewritten line the words that differ, unless only its blanks do and
\* they are not asked for.
LineText(text, l) == LET r == LineRange(text, l) IN SubSeq(text, r.first, r.end - 1)
WordOps(p) == Words!DiffWords(LineText(input.A, p[1]), LineText(input.B, p[2]))
PlainSpan(first, end, kind) == [first |-> first, end |-> end, action |-> kind, ref |-> 0, color |-> 0]
WholeLine(text, l, kind) ==
  LET r == LineRange(text, l)
      ink == {i \in r.first..(r.end - 1) : text[i] \notin White}
  IN IF ink = {} THEN <<>> ELSE <<PlainSpan(r.first, Max(ink) + 1, kind)>>
WordSpans(side, p) ==
  LET at == LineRange(Text(side), IF side = "left" THEN p[1] ELSE p[2]).first - 1
      On(op) == IF side = "left" THEN op.src ELSE op.dst
      mine == SelectSeq(WordOps(p), LAMBDA op : Words!Covers(On(op)))
  IN [k \in DOMAIN mine |-> PlainSpan(at + On(mine[k])[1], at + On(mine[k])[2] + 1, mine[k].action)]

\* EqualIgnoringStyle: the words of the lines are the same, and their indentation where it counts.
Inked(line) ==
  LET ink == SelectSeq(Numbers(Len(line)), LAMBDA i : line[i] \notin White)
  IN [k \in DOMAIN ink |-> [char |-> line[ink[k]], first |-> k = 1 \/ ink[k - 1] # ink[k] - 1]]
Indent(line) == SubSeq(line, 1, Min({i \in DOMAIN line : line[i] \notin White} \cup {Len(line) + 1}) - 1)
EqualIgnoringStyle(s, d, significant) == Inked(s) = Inked(d) /\ (significant => Indent(s) = Indent(d))
Restyled(p) ==
  ~input.opts.style /\ EqualIgnoringStyle(LineText(input.A, p[1]), LineText(input.B, p[2]), input.opts.significant)

PlainSpans(side, l) ==
  LET me == IF side = "left" THEN 1 ELSE 2
      mine == {p \in Range(input.rows) : p[me] = l}
      p == CHOOSE q \in mine : TRUE
  IN IF p[3 - me] = 0 THEN WholeLine(Text(side), l, IF side = "left" THEN "delete" ELSE "insert")
     ELSE IF LineText(input.A, p[1]) = LineText(input.B, p[2]) \/ Restyled(p) THEN <<>> ELSE WordSpans(side, p)

\* The envelope: an error when the parent of a move is not found.
Build ==
  /\ pc = "build"
  /\ IF ~input.plain /\ Unresolved(input) THEN pc' = "failed" /\ UNCHANGED acts
     ELSE pc' = "paint" /\ acts' = IF input.plain THEN <<>> ELSE BuildActions(input)
  /\ UNCHANGED <<input, spans, rows>>

\* The highlights of the envelope.
Highlight(side) ==
  /\ pc = "paint" /\ spans[side] = NotYet
  /\ spans' = [spans EXCEPT ![side] =
       IF input.plain THEN [l \in LineNumbers(side) |-> PlainSpans(side, l)]
       ELSE BuildHighlightSpans(Text(side), acts, Extras(input, acts, side), side)]
  /\ UNCHANGED <<input, pc, acts, rows>>

\* The kind of a span and, for a move, its colour.
Style(s) ==
  CASE s.action = "move" /\ s.color = 1 -> "move magenta"
    [] s.action = "move_update" /\ s.color = 1 -> "move_update magenta"
    [] OTHER -> s.action
SpansOf(side, l) ==
  LET at == LineRange(Text(side), l).first - 1
      these == spans[side][l]
  IN [k \in DOMAIN these |-> [first |-> these[k].first - at, end |-> these[k].end - at, action |-> Style(these[k])]]
MoveBadges == BuildMoveBadges(input, acts, Candidates(input, acts, input.rows, input.hunks))
WidthOfBadge(badges, side, l) ==
  IF l \in DOMAIN (IF side = "left" THEN badges.src ELSE badges.dst) THEN BadgeWidth ELSE 0

\* SliceLineToChunks for every line.
Draw(side) ==
  /\ pc = "paint" /\ rows[side] = NotYet
  /\ \A s \in Sides : spans[s] # NotYet
  /\ \E badges \in {MoveBadges} :
       rows' = [rows EXCEPT ![side] = [l \in LineNumbers(side) |->
         Rows!SliceLineToChunks(LineText(Text(side), l), WidthOfBadge(badges, side, l), SpansOf(side, l), input.cfg)]]
  /\ UNCHANGED <<input, pc, acts, spans>>

Finished == pc = "failed" \/ \A side \in Sides : rows[side] # NotYet
Done == Finished /\ UNCHANGED vars

Next == Build \/ (\E side \in Sides : Highlight(side) \/ Draw(side)) \/ Done

Spec == Init /\ [][Next]_vars

-----------------------------------------------------------------------------
Painted(side) == {i \in 1..Len(Text(side)) : \E l \in LineNumbers(side) : \E s \in Range(spans[side][l]) :
                                               i \in s.first..(s.end - 1)}
Highlighted(side) == spans[side] # NotYet

\* What the actions touch on a side, the moves that an outer one carries along included.
Touched(side) ==
  LET OfAction(a) ==
        CASE a.action = "delete" -> IF side = "left" THEN {a.node} ELSE {}
          [] a.action = "insert" -> IF side = "right" THEN {a.node} ELSE {}
          [] OTHER -> {IF side = "left" THEN a.node ELSE a.dest}
      shown == {"move", IF side = "left" THEN "delete" ELSE "insert"}
      extras == {Bounds(x) : x \in {y \in Range(Extras(input, acts, side)) : y.action \in shown}}
  IN UNION {r.first..(r.end - 1) : r \in extras \cup UNION {OfAction(a) : a \in Range(acts)}}

\* The spans of a line are in order, not empty, on the line and do not overlap: the cursor
\* of the renderer never goes back and takes the first span that ends behind a character.
SpansInOrder ==
  \A side \in Sides : Highlighted(side) => \A l \in LineNumbers(side) :
    LET these == spans[side][l]
        line == LineRange(Text(side), l)
    IN \A k \in DOMAIN these : /\ these[k].first < these[k].end /\ Within(these[k], line)
                               /\ k + 1 \in DOMAIN these => these[k].end <= these[k + 1].first

\* Nothing an action touches stays plain, on either side, whatever was merged, skipped or
\* painted over.
ChangesArePainted ==
  \A side \in Sides : Highlighted(side) /\ ~input.plain =>
    \A i \in Touched(side) : Text(side)[i] \in White \/ i \in Painted(side)

\* No word is painted that no action touches: only punctuation is absorbed or bridged.
OnlyChangesArePainted ==
  \A side \in Sides : Highlighted(side) /\ ~input.plain =>
    \A i \in Painted(side) : Text(side)[i] \in WordChars => i \in Touched(side)

\* Every character of a line is shown once, in order, in the colour of the span it is in,
\* with the badge behind it; a row is not wider than the terminal and does not leave it
\* in the colour of a change.
RowsShowTheLine ==
  \A side \in Sides : rows[side] # NotYet => \A badges \in {MoveBadges} : \A l \in LineNumbers(side) :
    /\ Rows!Ink(rows[side][l])
         = Rows!InkOf(LineText(Text(side), l), WidthOfBadge(badges, side, l), SpansOf(side, l), input.cfg.color)
    /\ \A k \in DOMAIN rows[side][l] : Rows!LeftIn(rows[side][l][k]) = "none"
    /\ input.cfg.width > 0 => \A k \in DOMAIN rows[side][l] : Rows!RowWidth(rows[side][l][k]) <= input.cfg.width

\* Of two lines that were compared word by word the plain text is the same; both stay plain
\* when they have the same words and changes of style are not to be shown.
PlainWordsAgree ==
  input.plain /\ (\A side \in Sides : Highlighted(side)) =>
    \A p \in Range(input.rows) : p[1] # 0 /\ p[2] # 0 =>
      LET PlainText(side, l) == LET r == LineRange(Text(side), l)
                                    kept == SelectSeq(Numbers(Len(Text(side))), LAMBDA i :
                                              i \in r.first..(r.end - 1) /\ i \notin Painted(side))
                                IN [k \in DOMAIN kept |-> Text(side)[kept[k]]]
      IN IF Restyled(p)
         THEN PlainText("left", p[1]) = LineText(input.A, p[1]) /\ PlainText("right", p[2]) = LineText(input.B, p[2])
         ELSE PlainText("left", p[1]) = PlainText("right", p[2])

\* A moved construct that is shown in a hunk has an arrow on the line it left, or stayed
\* inside an outer move that has one or needs none; only one that is close to its new place,
\* follows a line of its group or starts where something is deleted goes without.
MovesAreSignposted ==
  pc = "paint" /\ ~input.plain =>
    \A cands \in {Candidates(input, acts, input.rows, input.hunks)} :
    \A followers \in {FlatFollowers(input, acts, cands)} :
    \A signed \in {DOMAIN BuildMoveBadges(input, acts, cands).src} :
      \A c \in Range(cands) :
        \/ ~c.inSrc \/ c.near \/ c.act \in followers \/ c.sStart \in signed
        \/ \E b \in Range(acts) : b.action = "delete" /\ b.node.first = acts[c.act].node.first
        \/ \E p \in Range(cands) : /\ Within(c.src, p.src) /\ Within(c.dst, p.dst) /\ c # p
                                   /\ p.near \/ p.sStart \in signed
=============================================================================
