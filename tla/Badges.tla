------------------------------- MODULE Badges -------------------------------
(***************************************************************************)
(* The arrows behind moved lines (internal/renderutil/badges.go): the line *)
(* a move starts on names the line it went to, and the other way round,    *)
(* unless the two stand close together in one hunk, or an outer move that  *)
(* carries it along, or the line in front that moved with it, shows it.    *)
(*                                                                         *)
(* rows are the pairs of lines that are shown and hunks the intervals of   *)
(* rows, as in Hunks.                                                      *)
(***************************************************************************)
EXTENDS Envelope

CONSTANT
  MaxSuppressAlignDist

\* The row and the hunk a line is shown in, 0 when it is not.
RowOf(rows, hunks, side, line) ==
  First({k \in DOMAIN rows : rows[k][side] = line /\ \E h \in DOMAIN hunks : k \in hunks[h][1]..hunks[h][2]})
HunkOf(rows, hunks, side, line) ==
  LET k == RowOf(rows, hunks, side, line) IN Closest({h \in DOMAIN hunks : k \in hunks[h][1]..hunks[h][2]})

\* A move as the badges see it: the lines it starts and ends on, its whole ranges.
Candidate(I, acts, rows, hunks, k) ==
  LET a == acts[k]
      sStart == LineOf(I.A, a.node.first)
      dStart == LineOf(I.B, a.dest.first)
      hSrc == HunkOf(rows, hunks, 1, sStart)
      hDst == HunkOf(rows, hunks, 2, dStart)
  IN [act |-> k, sStart |-> sStart, sEnd |-> LineOf(I.A, a.orig.end), dStart |-> dStart,
      dEnd |-> LineOf(I.B, a.destOrig.end), src |-> a.orig, dst |-> a.destOrig, inSrc |-> hSrc # 0, inDst |-> hDst # 0,
      near |-> /\ hSrc # 0 /\ hSrc = hDst
               /\ Distance(RowOf(rows, hunks, 1, sStart), RowOf(rows, hunks, 2, dStart)) <= MaxSuppressAlignDist]
WorthABadge(kind, c) ==
  \/ IsDeclaration(kind) \/ IsBlock(kind) \/ IsStatement(kind) \/ IsCall(kind)
  \/ c.sEnd > c.sStart \/ c.dEnd > c.dStart
Candidates(I, acts, rows, hunks) ==
  LET with == SelectSeq(Moves(acts), LAMBDA k : acts[k].d # 0)
      all == [j \in DOMAIN with |-> Candidate(I, acts, rows, hunks, with[j])]
      worth == SelectSeq(all, LAMBDA c : WorthABadge(I.S[acts[c.act].n].kind, c))
  IN Sorted(worth, [k \in DOMAIN worth |-> <<-Length(worth[k].src), -Length(worth[k].dst), worth[k].sStart>>])

BadgeLines(acts, c) ==
  IF acts[c.act].lines > 0 THEN acts[c.act].lines ELSE Greatest(c.sEnd - c.sStart + 1, c.dEnd - c.dStart + 1)
BadgeColor(acts, cands, c) ==
  LET a == acts[c.act]
      multi == \E e \in Range(cands) : acts[e.act].group = a.group /\ BadgeLines(acts, e) > 1
  IN ResolveMoveColor(a, BadgeLines(acts, c), a.group # 0 /\ multi)

\* isTriviaOrBlankLine
TriviaOrBlankLine(text, line) ==
  LET r == LineRange(text, line)
      ink == {i \in r.first..(r.end - 1) : text[i] \notin White}
      at == Min(ink)
  IN ink = {} \/ text[at] \in {"*", "#"} \/ Pair(text, at, "/", "/") \/ Pair(text, at, "/", "*") \/ Pair(text, at, "-", "-")
Contiguous(text, prev, next) == next > prev /\ \A l \in (prev + 1)..(next - 1) : TriviaOrBlankLine(text, l)

\* The single lines of a group that follow another one of it on both sides.
FlatFollowers(I, acts, cands) ==
  LET Single(c) == c.sStart = c.sEnd /\ c.dStart = c.dEnd
      Of(g) == SelectSeq(cands, LAMBDA c : acts[c.act].group = g)
      Group(g) == Sorted(Of(g), [k \in DOMAIN Of(g) |-> <<Of(g)[k].sStart, Of(g)[k].src.first>>])
      Followers(grp) == {grp[i].act : i \in {j \in 2..Len(grp) :
                           /\ Single(grp[j - 1]) /\ Single(grp[j])
                           /\ Contiguous(I.A, grp[j - 1].sEnd, grp[j].sStart)
                           /\ Contiguous(I.B, grp[j - 1].dEnd, grp[j].dStart)}}
  IN UNION {Followers(Group(g)) : g \in {acts[c.act].group : c \in Range(cands)} \ {0}}

Inside(r, outer) == Within(r, outer) /\ r # outer

\* Mutant: it is enough that an outer move carried it away.
CarriedFromThere(c, p) == Inside(c.src, p.src)

\* A move that stayed inside an outer one.
Carried(c, p) == Inside(c.src, p.src) /\ Inside(c.dst, p.dst)

Starts(acts, kind) == {a.node.first : a \in {b \in Range(acts) : b.action = kind}}
Badge(to, color) == [to |-> to, color |-> color]

\* BuildMoveBadges.  A side is [at, shown]: its badges by line, and the moves that have one.
Hidden(cands, followers, k, shown) ==
  \/ cands[k].near \/ cands[k].act \in followers
  \/ \E j \in 1..(k - 1) : Carried(cands[k], cands[j]) /\ (cands[j].near \/ cands[j].act \in shown)
Claimed(st, line, act, badge) == [at |-> (line :> badge) @@ st.at, shown |-> st.shown \cup {act}]
ClaimSrc(acts, cands, followers, st, k) ==
  LET c == cands[k]
      free == /\ c.inSrc /\ c.sStart \notin DOMAIN st.at /\ ~Hidden(cands, followers, k, st.shown)
              /\ acts[c.act].node.first \notin Starts(acts, "delete")
  IN IF free THEN Claimed(st, c.sStart, c.act, Badge(c.dStart, BadgeColor(acts, cands, c))) ELSE st
ClaimDst(acts, cands, followers, st, k) ==
  LET c == cands[k]
      free == /\ c.inDst /\ c.dStart \notin DOMAIN st.at /\ ~Hidden(cands, followers, k, st.shown)
              /\ acts[c.act].dest.first \notin Starts(acts, "insert")
  IN IF free THEN Claimed(st, c.dStart, c.act, Badge(c.sStart, BadgeColor(acts, cands, c))) ELSE st
NoBadges == [at |-> [l \in {} |-> Badge(0, 0)], shown |-> {}]
BadgesOf(acts, cands, followers) ==
  [src |-> FoldLeft(LAMBDA st, k : ClaimSrc(acts, cands, followers, st, k), NoBadges, Numbers(Len(cands))).at,
   dst |-> FoldLeft(LAMBDA st, k : ClaimDst(acts, cands, followers, st, k), NoBadges, Numbers(Len(cands))).at]
BuildMoveBadges(I, acts, cands) == BadgesOf(acts, cands, FlatFollowers(I, acts, cands))
=============================================================================
