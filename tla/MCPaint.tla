------------------------------- MODULE MCPaint -------------------------------
(***************************************************************************)
(* Paint on small texts with their trees: the arguments of a call, a block *)
(* whose statements are unwrapped, the arms of a case, comments in front   *)
(* of statements; and on pairs of plain lines.                             *)
(***************************************************************************)
EXTENDS Paint

Range2(first, end) == [first |-> first, end |-> end]
Node(kind, label, parent, first, end) ==
  [kind |-> kind, label |-> label, parent |-> parent, range |-> Range2(first, end),
   trailing |-> None, closing |-> None, leading |-> <<>>]
With(node, field, value) == [node EXCEPT ![field] = value]

\* The sizes and the lines of the nodes.
Grown(text, nodes) ==
  LET Up(n) == IF n = 0 THEN 0 ELSE nodes[n].parent
      Above(n) == {n, Up(n), Up(Up(n)), Up(Up(Up(n))), Up(Up(Up(Up(n))))}
  IN [n \in DOMAIN nodes |->
        [size |-> Cardinality({m \in DOMAIN nodes : n \in Above(m)}),
         row |-> LineOf(text, nodes[n].range.first), end |-> LineOf(text, nodes[n].range.end)] @@ nodes[n]]

\* f(a, b).g and f(b).h(a)
CallA == <<"f", "(", "a", ",", "sp", "b", ")", ".", "g">>
CallTreeA == Grown(CallA,
  <<Node("file", "", 0, 1, 10), Node("access", "", 1, 1, 10), Node("call", "", 2, 1, 8), Node("id", "f", 3, 1, 2),
    Node("args", "", 3, 2, 8), With(Node("id", "a", 5, 3, 4), "trailing", Range2(4, 5)), Node("id", "b", 5, 6, 7),
    Node("id", "g", 2, 9, 10)>>)
CallB == <<"f", "(", "b", ")", ".", "h", "(", "a", ")">>
CallTreeB == Grown(CallB,
  <<Node("file", "", 0, 1, 10), Node("call", "", 1, 1, 10), Node("access", "", 2, 1, 7), Node("call", "", 3, 1, 5),
    Node("id", "f", 4, 1, 2), Node("args", "", 4, 2, 5), Node("id", "b", 6, 3, 4), Node("id", "h", 3, 6, 7),
    Node("args", "", 2, 7, 10), Node("id", "a", 9, 8, 9)>>)
CallPairs == {<<<<1, 1>>, <<3, 4>>, <<4, 5>>, <<5, 6>>, <<7, 7>>, <<8, 8>>, <<6, 10>>>>,
              <<<<1, 1>>, <<2, 3>>, <<3, 4>>, <<4, 5>>, <<5, 9>>, <<6, 10>>, <<7, 7>>>>}

\* if x { y; } z and z { y; q } with the block on lines of its own.
BlockA == <<"i", "sp", "x", "{", "nl", "sp", "y", ";", "nl", "}", "nl", "#", "c", "nl", "z">>
BlockTreeA == Grown(BlockA,
  <<Node("file", "", 0, 1, 16), Node("stmt", "", 1, 1, 11), Node("id", "x", 2, 3, 4),
    With(Node("block", "", 2, 4, 11), "closing", Range2(10, 11)), With(Node("stmt", "y", 4, 7, 8), "trailing", Range2(8, 9)),
    With(Node("stmt", "z", 1, 15, 16), "leading", <<Range2(12, 14)>>)>>)
BlockB == <<"y", "nl", "i", "sp", "w", "{", "nl", "sp", "z", ";", "nl", "}", "nl", "#", "d">>
BlockTreeB == Grown(BlockB,
  <<Node("file", "", 0, 1, 16), Node("stmt", "y", 1, 1, 2), Node("stmt", "", 1, 3, 13), Node("id", "w", 3, 5, 6),
    With(Node("block", "", 3, 6, 13), "closing", Range2(12, 13)), With(Node("stmt", "z", 5, 9, 10), "trailing", Range2(10, 11))>>)
BlockPairs == {<<<<1, 1>>, <<2, 3>>, <<3, 4>>, <<4, 5>>, <<5, 2>>, <<6, 6>>>>, <<<<1, 1>>, <<4, 5>>, <<5, 6>>, <<6, 2>>>>}
BlockComments == <<[src |-> Range2(12, 14), dst |-> Range2(14, 16),
                    srcParent |-> NodeRef(BlockTreeA, 1, "before"), dstParent |-> NodeRef(BlockTreeB, 1, "after")]>>

\* The arms a=>b,.. and wide characters.
CaseA == <<"a", "sp", "=", ">", "wide", "nl", "b", ":", "c", "acute">>
CaseTreeA == Grown(CaseA,
  <<Node("file", "", 0, 1, 11), Node("arm", "", 1, 1, 6), Node("id", "a", 2, 1, 2), Node("id", "wide", 2, 5, 6),
    Node("arm", "", 1, 7, 11), Node("id", "b", 5, 7, 8), Node("id", "c", 5, 9, 11)>>)
CaseB == <<"b", "=", ">", "wide", "nl", "a", ":", "-", ">", "c", "acute">>
CaseTreeB == Grown(CaseB,
  <<Node("file", "", 0, 1, 12), Node("arm", "", 1, 1, 5), Node("id", "b", 2, 1, 2), Node("id", "wide", 2, 4, 5),
    Node("arm", "", 1, 6, 12), Node("id", "a", 5, 6, 7), Node("id", "c", 5, 10, 12)>>)
CasePairs == {<<<<1, 1>>, <<2, 2>>, <<3, 3>>, <<4, 4>>, <<5, 5>>, <<6, 6>>, <<7, 7>>>>,
              <<<<1, 1>>, <<2, 5>>, <<3, 6>>, <<5, 2>>, <<6, 3>>, <<4, 4>>>>}

MCRules ==
  [block |-> {"block"}, declaration |-> {}, container |-> {}, local |-> {}, closure |-> {}, wrapper |-> {"access"},
   identifier |-> {"id"}, assignment |-> {}, operator |-> {}, statement |-> {"stmt"}, case |-> {"arm"}, call |-> {"call"},
   delimited |-> {"args"}, indexed |-> {}]

-----------------------------------------------------------------------------
\* The scripts of a mapping: what is not mapped is deleted or inserted, one by one or as
\* whole subtrees, what is relabelled is updated, and any two mapped nodes may move.
Edit(type, node, dest, parent, subtree, group) ==
  [type |-> type, node |-> node, dest |-> dest, parent |-> parent, subtree |-> subtree, group |-> group]
NoParent == [tree |-> "after", node |-> 0]
Unmapped(T, side, pairs) == {n \in DOMAIN T : \A p \in Range(pairs) : p[side] # n}
Edits(S, D, pairs, moved, subtree, group) ==
  LET Whole(T, side, n) == Subtree(T, n) \subseteq Unmapped(T, side, pairs)
      Gone(T, side) == {n \in Unmapped(T, side, pairs) : subtree /\ T[n].parent # 0 => ~Whole(T, side, T[n].parent)}
      Each(N, T, side, type) ==
        LET order == SetToSortSeq(N, <)
        IN [k \in DOMAIN order |-> Edit(type, order[k], 0, NoParent, subtree /\ Whole(T, side, order[k]), 0)]
      updated == {n \in DOMAIN S : Get(pairs, n) # 0 /\ S[n].label # D[Get(pairs, n)].label}
      moves == SetToSortSeq(moved, <)
  IN Each(Gone(S, 1), S, 1, "delete") \o Each(Gone(D, 2), D, 2, "insert") \o Each(updated, S, 1, "update")
       \o [k \in DOMAIN moves |-> Edit("move", moves[k], Get(pairs, moves[k]),
                                       [tree |-> "after", node |-> D[Get(pairs, moves[k])].parent], subtree, group)]

RowsOf(A, B) ==
  LET n == Len(LineIndex(A))
      m == Len(LineIndex(B))
  IN [k \in 1..Greatest(n, m) |-> <<IF k <= n THEN k ELSE 0, IF k <= m THEN k ELSE 0>>]
Opts(style, significant) == [style |-> style, significant |-> significant]
Cfg(width, tab, color, pad) == [width |-> width, tab |-> tab, color |-> color, pad |-> pad]
Case(A, S, B, D, pairs, comments, moved, subtree, group, hunks, cfg) ==
  [A |-> A, B |-> B, S |-> S, D |-> D, pairs |-> pairs, edits |-> Edits(S, D, pairs, moved, subtree, group),
   comments |-> comments, rows |-> RowsOf(A, B), hunks |-> hunks, plain |-> FALSE, opts |-> Opts(TRUE, FALSE),
   cfg |-> cfg]
Hunks(A, B) == LET n == Len(RowsOf(A, B)) IN {<<<<1, n>>>>} \cup (IF n > 2 THEN {<<<<1, 1>>, <<3, n>>>>} ELSE {})
Moved(pairs) == UNION {kSubset(k, {p[1] : p \in Range(pairs)} \ {1}) : k \in 0..3}
Cases(A, S, B, D, mappings, comments, cfgs) ==
  UNION {{Case(A, S, B, D, pairs, comments, moved, subtree, group, hunks, cfg)
           : moved \in Moved(pairs), subtree \in BOOLEAN, group \in {0, 1}, hunks \in Hunks(A, B), cfg \in cfgs}
         : pairs \in mappings}

\* A move whose parent is gone.
Lost == [Case(CallA, CallTreeA, CallB, CallTreeB, <<<<6, 10>>>>, <<>>, {6}, TRUE, 0, <<<<1, 1>>>>, Cfg(0, 4, TRUE, FALSE))
           EXCEPT !.edits = <<Edit("move", 6, 0, [tree |-> "before", node |-> 3], TRUE, 0)>>]

\* Plain lines.
PlainChars == {"a", "b", "sp", "tab", ","}
PlainLines == UNION {[1..n -> PlainChars] : n \in 0..2} \cup {<<"a", ",", "b", "sp", "a">>, <<"b", "sp", "a", "tab">>}
\* Lines of one or two words, blanks in front of, between and behind them.
BlankLines == UNION {[1..n -> {"a", "sp", "tab"}] : n \in 0..3} \cup {<<"sp", "a", "sp", "a">>, <<"a", "sp", "b", "tab">>}
Plain(A, B, pairing, opts, cfg) ==
  [A |-> A, B |-> B, S |-> <<>>, D |-> <<>>, pairs |-> <<>>, edits |-> <<>>, comments |-> <<>>, rows |-> pairing,
   hunks |-> <<<<1, Len(pairing)>>>>, plain |-> TRUE, opts |-> opts, cfg |-> cfg]
Plains ==
  {Plain(A, B, <<<<1, 1>>>>, Opts(TRUE, FALSE), cfg) : A \in PlainLines, B \in PlainLines, cfg \in {Cfg(3, 2, TRUE, TRUE)}}
    \cup {Plain(A, B, <<<<1, 1>>>>, Opts(FALSE, significant), Cfg(0, 4, TRUE, FALSE))
            : A \in BlankLines, B \in BlankLines, significant \in BOOLEAN}
    \cup {Plain(A, A, <<<<1, 0>>, <<0, 1>>>>, Opts(FALSE, FALSE), cfg) : A \in PlainLines,
            cfg \in {Cfg(3, 2, TRUE, FALSE), Cfg(4, 0, FALSE, FALSE), Cfg(0, 4, TRUE, TRUE)}}

MCInputs ==
  Plains \cup {Lost}
    \cup Cases(CallA, CallTreeA, CallB, CallTreeB, CallPairs, <<>>, {Cfg(0, 4, TRUE, FALSE)})
    \cup Cases(BlockA, BlockTreeA, BlockB, BlockTreeB, BlockPairs, BlockComments, {Cfg(5, 2, TRUE, TRUE)})
    \cup Cases(CaseA, CaseTreeA, CaseB, CaseTreeB, CasePairs, <<>>, {Cfg(4, 4, TRUE, FALSE)})

Letters == {"a", "b", "c", "d", "f", "g", "h", "i", "w", "x", "y", "z", "wide", "acute"}
MCCharWidth == [c \in Letters \cup {"sp", "tab", "nl", "#", "=", ">", "-", ":", ".", ",", ";", "(", ")", "{", "}"} |->
                  CASE c = "wide" -> 2 [] c = "acute" -> 0 [] OTHER -> 1]
=============================================================================
