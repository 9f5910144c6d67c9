------------------------------ MODULE WordDiff ------------------------------
(***************************************************************************)
(* The word diff that paints the changed parts of two paired lines         *)
(* (internal/engine/worddiff.go).  A line is a sequence of characters; it  *)
(* is cut into words, runs of blanks and single other characters, the      *)
(* tokens are aligned, and what lies between two matched tokens becomes    *)
(* one delete, insert or update.                                           *)
(*                                                                         *)
(* A token or a range of text is <<first, last>>, empty when last < first. *)
(***************************************************************************)
EXTENDS SeqAlign

CONSTANTS
  WordChars,          \* letters, digits, underscore
  BlankChars,         \* space and tab
  EndChars,           \* carriage return and line feed
  MaxTokensPerLine

\* strings.TrimRight(line, "\r\n")
TrimEnd(line) ==
  LET kept == {i \in DOMAIN line : line[i] \notin EndChars}
  IN SubSeq(line, 1, IF kept = {} THEN 0 ELSE Max(kept))

SameRun(c, d) == \E Chars \in {WordChars, BlankChars} : c \in Chars /\ d \in Chars

\* tokenize: a character that does not continue the run of the one before starts a token.
Tokenize(line) ==
  LET starts == SelectSeq(Numbers(Len(line)), LAMBDA i : i = 1 \/ ~SameRun(line[i - 1], line[i]))
  IN [k \in DOMAIN starts |-> <<starts[k], IF k = Len(starts) THEN Len(line) ELSE starts[k + 1] - 1>>]

NoText == <<1, 0>>
Covers(range) == range[1] <= range[2]
WordOp(action, src, dst) == [action |-> action, src |-> src, dst |-> dst]
DeleteWord(src) == WordOp("delete", src, NoText)
InsertWord(dst) == WordOp("insert", NoText, dst)

\* The text of the tokens first..last.
TokenSpan(tokens, first, last) == IF first > last THEN NoText ELSE <<tokens[first][1], tokens[last][2]>>

\* The operation of a slot: tokens on both sides are an update.
SlotOp(src, dst) ==
  CASE Covers(src) /\ Covers(dst) -> <<WordOp("update", src, dst)>>
    [] Covers(src) /\ ~Covers(dst) -> <<DeleteWord(src)>>
    [] ~Covers(src) /\ Covers(dst) -> <<InsertWord(dst)>>
    [] OTHER -> <<>>

\* Mutant: the slot behind the last match is forgotten.
SlotsWithoutTail(ts, td, matches) ==
  LET K == Len(matches)
      Slot(k) == LET from == IF k = 1 THEN <<0, 0>> ELSE matches[k - 1]
                 IN SlotOp(TokenSpan(ts, from[1] + 1, matches[k][1] - 1), TokenSpan(td, from[2] + 1, matches[k][2] - 1))
  IN FlattenSeq([k \in 1..K |-> Slot(k)])

\* One slot before each match and one behind the last.
Slots(ts, td, matches) ==
  LET K == Len(matches)
      Bound(k) == CASE k = 0 -> <<0, 0>>
                    [] k \in 1..K -> matches[k]
                    [] OTHER -> <<Len(ts) + 1, Len(td) + 1>>
      Slot(k) == SlotOp(TokenSpan(ts, Bound(k - 1)[1] + 1, Bound(k)[1] - 1),
                        TokenSpan(td, Bound(k - 1)[2] + 1, Bound(k)[2] - 1))
  IN FlattenSeq([k \in 1..(K + 1) |-> Slot(k)])

WholeLines(src, dst) ==
  (IF Len(src) > 0 THEN <<DeleteWord(<<1, Len(src)>>)>> ELSE <<>>)
    \o (IF Len(dst) > 0 THEN <<InsertWord(<<1, Len(dst)>>)>> ELSE <<>>)

\* Diff.  A line of too many tokens, or two lines that share no token, are rewritten as a whole.
DiffMatched(src, dst, ts, td, matches) ==
  IF matches = <<>> THEN WholeLines(src, dst) ELSE Slots(ts, td, matches)
DiffBetween(src, dst, ts, td, equal, prefix, suffix) ==
  LET n == Len(ts) - prefix - suffix
      m == Len(td) - prefix - suffix
      middle == AlignUniform(n, m, {p \in (1..n) \X (1..m) : <<prefix + p[1], prefix + p[2]>> \in equal})
  IN IF n = 0 \/ m = 0
     THEN SlotOp(TokenSpan(ts, prefix + 1, Len(ts) - suffix), TokenSpan(td, prefix + 1, Len(td) - suffix))
     ELSE DiffMatched(src, dst, ts, td, CombineMatches(prefix, middle, suffix, Len(ts), Len(td)))
DiffBehind(src, dst, ts, td, equal, prefix) ==
  DiffBetween(src, dst, ts, td, equal, prefix, TrimSuffix(Len(ts), Len(td), prefix, equal))
DiffTokens(src, dst, ts, td) ==
  LET equal == {p \in (DOMAIN ts) \X (DOMAIN td) :
                  SubSeq(src, ts[p[1]][1], ts[p[1]][2]) = SubSeq(dst, td[p[2]][1], td[p[2]][2])}
  IN IF \E n \in {Len(ts), Len(td)} : n > MaxTokensPerLine \/ n = 0 THEN WholeLines(src, dst)
     ELSE DiffBehind(src, dst, ts, td, equal, TrimPrefix(Len(ts), Len(td), equal))
DiffTrimmed(src, dst) == DiffTokens(src, dst, Tokenize(src), Tokenize(dst))
DiffWords(srcLine, dstLine) == DiffTrimmed(TrimEnd(srcLine), TrimEnd(dstLine))

-----------------------------------------------------------------------------
\* The characters of a line that no operation touches.
Untouched(line, ranges) == SelectSeq(Numbers(Len(line)), LAMBDA i : \A r \in ranges : i \notin r[1]..r[2])
KeptText(line, ranges) == LET kept == Untouched(line, ranges) IN [k \in DOMAIN kept |-> line[kept[k]]]
SrcRanges(ops) == {ops[k].src : k \in DOMAIN ops}
DstRanges(ops) == {ops[k].dst : k \in DOMAIN ops}

\* Nothing that is painted as an update has a token in common on both sides.
SharesToken(src, dst, op) ==
  LET Words(line, r) == LET t == Tokenize(SubSeq(line, r[1], r[2])) IN
        {SubSeq(line, r[1] + t[k][1] - 1, r[1] + t[k][2] - 1) : k \in DOMAIN t}
  IN Words(src, op.src) \cap Words(dst, op.dst) # {}
=============================================================================
