------------------------------- MODULE Slicer -------------------------------
(***************************************************************************)
(* One line of text as rows of the terminal (internal/renderutil/slicer.go,*)
(* cursor.go): the line is broken at blanks, commas and semicolons, tabs   *)
(* become spaces, every character gets the colour of the span it is in,    *)
(* and a move badge follows the text.                                      *)
(*                                                                         *)
(* A line is a sequence of characters; a span is [first, end, action], the *)
(* characters first..(end - 1).  A row is a sequence of cells [ch, style], *)
(* where style is what the terminal shows, given all the escape sequences  *)
(* written so far.                                                         *)
(***************************************************************************)
EXTENDS SeqAlign

CONSTANTS
  Blanks,        \* space and tab
  Breaks,        \* comma and semicolon
  CharWidth      \* the columns of a character (0 for a combining one)

Space == "sp"
Tab == "tab"

\* ActionAt: the cursor stops at the first span that ends behind the position.
ActionAt(spans, at) ==
  LET ahead == {k \in DOMAIN spans : at < spans[k].end}
  IN IF ahead # {} /\ spans[Min(ahead)].first <= at THEN spans[Min(ahead)].action ELSE "none"

\* nextToken: a blank, or a word up to a blank or up to a comma or semicolon.
EndsToken(line, i) == \/ line[i] \in Blanks \/ i = Len(line)
                      \/ line[i + 1] \in Blanks \/ line[i] \in Breaks
Tokens(line) ==
  LET ends == SelectSeq(Numbers(Len(line)), LAMBDA i : EndsToken(line, i))
  IN [k \in DOMAIN ends |-> <<IF k = 1 THEN 1 ELSE ends[k - 1] + 1, ends[k]>>]

\* resolveStyle
StyleAt(line, spans, at) ==
  LET text == {i \in DOMAIN line : line[i] \notin Blanks}
  IN CASE ActionAt(spans, at) # "none" -> ActionAt(spans, at)
       [] OTHER -> IF \A i \in text : at < i THEN "lead" ELSE "plain"

\* The state of the slicer: the finished rows, the current one, its columns, the style it
\* believes in, what the terminal shows, and whether blanks are being dropped.
Clean == [rows |-> <<>>, row |-> <<>>, col |-> 0, active |-> "unset", shown |-> "none", dropping |-> FALSE]

Padding(n) == [k \in 1..n |-> [ch |-> Space, style |-> "none"]]
Margin(style) == [ch |-> "end", style |-> style]

\* finishChunk: the colours are reset before the padding; the margin shows what colour the
\* terminal is left in.
Ended(st, cfg, shown) ==
  LET pad == IF cfg.pad THEN Greatest(0, cfg.width - st.col) ELSE 0
  IN [st EXCEPT !.rows = Append(@, st.row \o Padding(pad) \o <<Margin(shown)>>),
                !.row = <<>>, !.col = 0, !.active = "unset", !.shown = shown]

\* Mutant: a row ends in the colour of its last character.
FinishWithoutReset(st, cfg) == Ended(st, cfg, st.shown)

Finish(st, cfg) ==
  Ended(st, cfg, IF cfg.color /\ st.active \notin {"unset", "lead"} THEN "none" ELSE st.shown)

\* appendTransition: leading blanks only end another style, the others set their own.
Turn(st, style, cfg) ==
  IF ~cfg.color \/ style = st.active THEN st
  ELSE [st EXCEPT !.active = style,
                  !.shown = IF style # "lead" THEN style ELSE IF st.active \in {"unset", "lead"} THEN @ ELSE "none"]

\* A character of a width, in the style of its place.
Put(st, line, spans, i, ch, width, cfg) ==
  LET t == Turn(st, StyleAt(line, spans, i), cfg)
  IN [t EXCEPT !.row = Append(@, [ch |-> ch, style |-> t.shown]), !.col = @ + width, !.dropping = FALSE]

Overflows(st, width, cfg) == cfg.width > 0 /\ st.col + width > cfg.width
Fit(st, width, cfg) == IF Overflows(st, width, cfg) THEN Finish(st, cfg) ELSE st

\* A space that does not fit ends the row; unless rows are padded, all the blanks behind
\* it are dropped with it.
AddSpace(st, line, spans, i, cfg) ==
  IF Overflows(st, 1, cfg) THEN [Finish(st, cfg) EXCEPT !.dropping = ~cfg.pad]
  ELSE Put(st, line, spans, i, Space, 1, cfg)

\* A tab that does not fit is expanded at the start of the next row.
AddTab(st, line, spans, i, cfg) ==
  LET here == cfg.tab - (st.col % cfg.tab)
      t == Fit(st, here, cfg)
  IN FoldLeft(LAMBDA u, k : Put(u, line, spans, i, Space, 1, cfg), t,
              Numbers(IF Overflows(st, here, cfg) THEN cfg.tab ELSE here))

\* A word that does not fit starts a row; one that is wider than a row is broken anywhere.
AddWord(st, line, spans, t, cfg) ==
  LET Cols(i) == Greatest(1, CharWidth[line[i]])
      wide == FoldLeft(LAMBDA w, k : w + CharWidth[line[k]], 0, [k \in 1..(t[2] - t[1] + 1) |-> t[1] + k - 1])
      breakable == cfg.width > 0 /\ wide > cfg.width
      start == IF breakable THEN st ELSE Fit(st, wide, cfg)
  IN FoldLeft(LAMBDA u, k : LET i == t[1] + k - 1
                                v == IF breakable THEN Fit(u, Cols(i), cfg) ELSE u
                            IN Put(v, line, spans, i, line[i], Cols(i), cfg),
              start, Numbers(t[2] - t[1] + 1))

AddToken(st, line, spans, t, cfg) ==
  CASE line[t[1]] \in Blanks /\ st.dropping -> st
    [] line[t[1]] = Space /\ ~st.dropping -> AddSpace(st, line, spans, t[1], cfg)
    [] line[t[1]] = Tab /\ ~st.dropping -> AddTab(st, line, spans, t[1], cfg)
    [] OTHER -> AddWord(st, line, spans, t, cfg)

\* The badge goes behind the text, on a row of its own when there is no room.
AddBadge(st, badge, cfg) ==
  LET t == IF st.col > 0 THEN Fit(st, badge, cfg) ELSE st
  IN IF badge = 0 THEN st
     ELSE [t EXCEPT !.row = @ \o [k \in 1..badge |-> [ch |-> "badge", style |-> IF cfg.color THEN "badge" ELSE "none"]],
                    !.col = @ + badge,
                    !.active = IF cfg.color /\ @ \notin {"unset", "lead"} THEN "unset" ELSE @,
                    !.shown = IF cfg.color THEN "none" ELSE @]

\* SliceLineToChunks.  cfg is [width, tab, color, pad]; badge is the width of the badge.
Slices(st, cfg) == IF st.rows = <<>> \/ st.row # <<>> THEN Finish(st, cfg).rows ELSE st.rows
SliceIn(line, badge, spans, cfg) ==
  LET Add(st, t) == AddToken(st, line, spans, t, cfg)
  IN Slices(AddBadge(FoldLeft(Add, Clean, Tokens(line)), badge, cfg), cfg)
SliceLineToChunks(line, badge, spans, cfg) ==
  SliceIn(line, badge, spans,
          [cfg EXCEPT !.width = IF cfg.pad /\ @ <= 0 THEN 10 ELSE @, !.tab = IF @ <= 0 THEN 4 ELSE @])

-----------------------------------------------------------------------------
\* What the reader sees: the characters that are not blanks, in order, with their styles,
\* and the badge at the end.
Ink(rows) == SelectSeq(FlattenSeq(rows), LAMBDA cell : cell.ch \notin {Space, "end"})

\* What should be seen, by the spans alone (sorted and disjoint).
SpanStyle(spans, i) ==
  LET around == {k \in DOMAIN spans : i \in spans[k].first..(spans[k].end - 1)}
  IN IF around = {} THEN "plain" ELSE spans[CHOOSE k \in around : TRUE].action
InkOf(line, badge, spans, color) ==
  LET text == SelectSeq(Numbers(Len(line)), LAMBDA i : line[i] \notin Blanks)
  IN [k \in DOMAIN text |-> [ch |-> line[text[k]], style |-> IF color THEN SpanStyle(spans, text[k]) ELSE "none"]]
       \o [k \in 1..badge |-> [ch |-> "badge", style |-> IF color THEN "badge" ELSE "none"]]

\* The columns of a row, and the colour it leaves the terminal in.
RowWidth(row) == FoldLeft(LAMBDA w, cell : w + (IF cell.ch \in DOMAIN CharWidth THEN CharWidth[cell.ch] ELSE 1), 0, Front(row))
LeftIn(row) == Last(row).style
=============================================================================
