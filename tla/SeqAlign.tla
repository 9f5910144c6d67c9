------------------------------ MODULE SeqAlign ------------------------------
(***************************************************************************)
(* The sequence alignment every diff of the program is built on            *)
(* (internal/engine/seqdiff.go): common heads and tails are trimmed, the   *)
(* middle is aligned by dynamic programming, and the three parts are       *)
(* spliced together again.                                                 *)
(*                                                                         *)
(* Sequences are positions 1..n and 1..m; equal is the set of the pairs of *)
(* positions that agree, weight what each pair is worth.  An alignment is  *)
(* a sequence of pairs of positions.  A table of scores is built row by    *)
(* row, tab[i + 1][j + 1] being the score of the first i and the first j   *)
(* items.                                                                  *)
(***************************************************************************)
EXTENDS Integers, Sequences, SequencesExt, FiniteSets, FiniteSetsExt

Numbers(n) == [i \in 1..n |-> i]
Least(x, y) == IF x < y THEN x ELSE y
Greatest(x, y) == IF x < y THEN y ELSE x
Distance(i, j) == Greatest(i - j, j - i)

\* The entries of seq at the places I, what slices.DeleteFunc leaves.
Chosen(seq, I) ==
  FoldLeft(LAMBDA acc, k : IF k \in I THEN Append(acc, seq[k]) ELSE acc, <<>>, Numbers(Len(seq)))

\* The number of leading items that agree.
TrimPrefix(n, m, equal) ==
  CHOOSE p \in 0..Least(n, m) :
    /\ \A i \in 1..p : <<i, i>> \in equal
    /\ p < Least(n, m) => <<p + 1, p + 1>> \notin equal

\* The number of trailing items that agree, outside the prefix.
TrimSuffix(n, m, prefix, equal) ==
  LET limit == Least(n, m) - prefix IN
  CHOOSE s \in 0..limit :
    /\ \A k \in 0..(s - 1) : <<n - k, m - k>> \in equal
    /\ s < limit => <<n - s, m - s>> \notin equal

\* Prefix, middle (whose positions start behind the prefix) and suffix.
CombineMatches(prefix, middle, suffix, n, m) ==
  [p \in 1..prefix |-> <<p, p>>]
    \o [k \in DOMAIN middle |-> <<prefix + middle[k][1], prefix + middle[k][2]>>]
    \o [k \in 1..suffix |-> <<n - suffix + k, m - suffix + k>>]

\* The table of AlignWeighted: an item is skipped on either side, or a pair of
\* positive weight is taken.
Scores(n, m, weight) ==
  LET Cell(prev, row, i, j) ==
        LET skip == Greatest(prev[j + 1], row[j]) IN
        IF weight[i, j] > 0 THEN Greatest(skip, prev[j] + weight[i, j]) ELSE skip
      Row(prev, i) == FoldLeft(LAMBDA row, j : Append(row, Cell(prev, row, i, j)), <<0>>, Numbers(m))
  IN FoldLeft(LAMBDA tab, i : Append(tab, Row(Last(tab), i)), <<[j \in 1..(m + 1) |-> 0]>>, Numbers(n))

\* The partner the backtracking takes for item i: j, or, when ties are broken, the pair of
\* the same score that is closest to the diagonal (of two equally close ones the later).
Partner(tab, i, j, weight, tieBreakDiagonal) ==
  LET ties == {j} \cup {k \in 1..(j - 1) : /\ tieBreakDiagonal
                                           /\ weight[i, k] > 0
                                           /\ tab[i][k] + weight[i, k] = tab[i + 1][j + 1]}
  IN CHOOSE k \in ties : \A l \in ties :
       \/ Distance(i, k) < Distance(i, l)
       \/ Distance(i, k) = Distance(i, l) /\ k >= l

\* Backtracking from the end of the table; ties between the two ways to skip an item skip
\* the one of the first sequence.
TakePair(s, k) == [i |-> s.i - 1, j |-> k - 1, pairs |-> <<<<s.i, k>>>> \o s.pairs]
StepBack(s, tab, weight, tieBreakDiagonal) ==
  CASE s.i = 0 \/ s.j = 0 -> s
    [] s.i > 0 /\ s.j > 0 /\ weight[s.i, s.j] > 0 /\ tab[s.i + 1][s.j + 1] = tab[s.i][s.j] + weight[s.i, s.j] ->
         TakePair(s, Partner(tab, s.i, s.j, weight, tieBreakDiagonal))
    [] OTHER -> IF tab[s.i][s.j + 1] >= tab[s.i + 1][s.j] THEN [s EXCEPT !.i = @ - 1] ELSE [s EXCEPT !.j = @ - 1]
TraceBack(n, m, tab, weight, tieBreakDiagonal) ==
  FoldLeft(LAMBDA s, step : StepBack(s, tab, weight, tieBreakDiagonal),
           [i |-> n, j |-> m, pairs |-> <<>>], Numbers(n + m)).pairs

AlignWeighted(n, m, weight, tieBreakDiagonal) ==
  TraceBack(n, m, Scores(n, m, weight), weight, tieBreakDiagonal)

AlignUniform(n, m, equal) ==
  AlignWeighted(n, m, [p \in (1..n) \X (1..m) |-> IF p \in equal THEN 1 ELSE 0], FALSE)

\* A longest chain of candidates, sorted by their first component, whose second component
\* increases.  Patience sorting: tails[k] is the candidate with the smallest end among the
\* chains of length k, parent[x] the one before x.  A candidate that ends where a tail
\* does takes its place, or is passed over when the first one is kept.
Pile(cands, keepFirst, s, x) ==
  LET low == Cardinality({t \in DOMAIN s.tails : cands[s.tails[t]][2] < cands[x][2]})
      taken == keepFirst /\ \E t \in DOMAIN s.tails : cands[s.tails[t]][2] = cands[x][2]
  IN [tails |-> IF taken THEN s.tails
                ELSE IF low = Len(s.tails) THEN Append(s.tails, x) ELSE [s.tails EXCEPT ![low + 1] = x],
      parent |-> Append(s.parent, IF low > 0 THEN s.tails[low] ELSE 0)]
Piles(cands, keepFirst) ==
  FoldLeft(LAMBDA s, x : Pile(cands, keepFirst, s, x), [tails |-> <<>>, parent |-> <<>>], Numbers(Len(cands)))
LongestChain(cands, piles) ==
  LET at[k \in DOMAIN piles.tails] == IF k = Len(piles.tails) THEN piles.tails[k] ELSE piles.parent[at[k + 1]]
  IN [k \in DOMAIN piles.tails |-> cands[at[k]]]
LongestIncreasing(cands, keepFirst) ==
  IF cands = <<>> THEN <<>> ELSE LongestChain(cands, Piles(cands, keepFirst))

\* A stable sort (the library's): items whose ranks, tuples of integers, do not differ keep
\* their order.
Precedes(r, s) == \E k \in DOMAIN r : r[k] < s[k] /\ \A l \in 1..(k - 1) : r[l] = s[l]
Sorted(seq, ranks) ==
  LET Place(out, k) == InsertAt(out, 1 + Cardinality({l \in DOMAIN out : ~Precedes(ranks[k], ranks[out[l]])}), k)
      order == FoldLeft(Place, <<>>, Numbers(Len(seq)))
  IN [k \in DOMAIN order |-> seq[order[k]]]

-----------------------------------------------------------------------------
\* An alignment goes forward on both sides.
Monotone(pairs) == \A k, l \in DOMAIN pairs : k < l => pairs[k][1] < pairs[l][1] /\ pairs[k][2] < pairs[l][2]
=============================================================================
