----------------------------- MODULE MCFileDiff -----------------------------
(***************************************************************************)
(* FileDiff on small files.  A line of the key f opens a function that the *)
(* line } closes, ! one without a name, c and d are comments, xc is a      *)
(* statement followed by a comment, m and the line behind it are a comment *)
(* of two lines, every other line is a statement or blank.                 *)
(***************************************************************************)
EXTENDS FileDiff

Text(keys) == [k \in DOMAIN keys |-> [key |-> keys[k], ind |-> 0]]

\* The grammar: the nodes of the open declaration, its block and the root get their sizes
\* at the end.
CommentKeys == {"c", "d"}
AddLine(s, line) ==
  LET i == s.i + 1
      key == line.key
      n == Len(s.nodes)
      up == IF s.open = 0 THEN 1 ELSE s.open + 2
      Leaf1(type, text, parent, from, to, end) ==
        [type |-> type, text |-> text, parent |-> parent, size |-> 1, row |-> i, end |-> end,
         from |-> 10 * i + from, to |-> 10 * i + to, named |-> type # "token", error |-> key = "?",
         missing |-> key = "!" /\ type = "id", tail |-> key]
      Add(nodes) == [s EXCEPT !.i = i, !.skip = FALSE, !.nodes = @ \o nodes]
  IN CASE s.skip \/ key = "" \/ (key = "}" /\ s.open = 0) -> Add(<<>>)
       [] ~s.skip /\ key \in {"f", "!"} /\ s.open = 0 ->
            [Add(<<Leaf1("decl", "", 1, 0, 9, i),
                   IF key = "f" THEN Leaf1("id", "f", n + 1, 0, 1, i) ELSE Leaf1("id", "", n + 1, 0, 0, i),
                   Leaf1("block", "", n + 1, 2, 3, i), Leaf1("token", "{", n + 3, 2, 3, i)>>) EXCEPT !.open = n + 1]
       [] ~s.skip /\ key = "}" /\ s.open # 0 ->
            [Add(<<Leaf1("token", "}", up, 0, 1, i)>>) EXCEPT !.open = 0,
               !.nodes[s.open].end = i, !.nodes[s.open].to = 10 * i + 1, !.nodes[s.open].tail = "}",
               !.nodes[up].end = i, !.nodes[up].to = 10 * i + 1, !.nodes[up].tail = "}"]
       [] ~s.skip /\ key \in CommentKeys -> Add(<<Leaf1("comment", <<line>>, up, 0, 1, i)>>)
       [] ~s.skip /\ key = "m" ->
            [Add(<<Leaf1("comment", <<line, s.file[i + 1]>>, up, 0, 11, i + 1)>>) EXCEPT !.skip = TRUE]
       [] ~s.skip /\ key = "xc" ->
            Add(<<Leaf1("stmt", "x", up, 0, 1, i), Leaf1("comment", <<[key |-> "c", ind |-> 0]>>, up, 2, 3, i)>>)
       [] OTHER -> Add(<<Leaf1("stmt", key, up, 0, 1, i)>>)

MCParse(file) ==
  LET root == [type |-> "file", text |-> "", parent |-> 0, size |-> 1, row |-> 1, end |-> Len(file),
               from |-> 0, to |-> 10 * Len(file) + 9, named |-> TRUE, error |-> FALSE, missing |-> FALSE,
               tail |-> ""]
      s == FoldLeft(AddLine, [i |-> 0, open |-> 0, skip |-> FALSE, file |-> file, nodes |-> <<root>>], file)
      Up1(n) == IF n = 0 THEN 0 ELSE s.nodes[n].parent
      Above(n) == {n, Up1(n), Up1(Up1(n)), Up1(Up1(Up1(n)))}
  IN [n \in DOMAIN s.nodes |-> [s.nodes[n] EXCEPT !.size = Cardinality({m \in DOMAIN s.nodes : n \in Above(m)})]]

MCRules ==
  [block |-> {"block"}, declaration |-> {"decl"}, container |-> {"decl"}, local |-> {}, closure |-> {}, wrapper |-> {},
   identifier |-> {"id"}, assignment |-> {}, operator |-> {}, statement |-> {"stmt"}, case |-> {}, call |-> {},
   flattened |-> {}, punctuation |-> {"token"}, delimiter |-> {}, comment |-> {"comment"},
   ignored |-> {"comment", "token"}, unordered |-> {}, indexed |-> {}]

\* How alike texts are.
Keys == {"x", "y", "z", "p", "q", "f", "!", "c", "d", "xc", "m", "n", "o", "", "}", "?", "<<<<<<<", ">>>>>>>"}
AlikePairs == {<<"x", "y">>, <<"c", "d">>, <<"n", "o">>, <<"x", "p">>, <<"y", "q">>}
AlikeKeys(k, l) == <<k, l>> \in AlikePairs \/ <<l, k>> \in AlikePairs
MCSimilarity == [p \in Keys \X Keys |-> IF p[1] = p[2] THEN 20 ELSE IF AlikeKeys(p[1], p[2]) THEN 13 ELSE 0]
MCSharedWords == {p \in Keys \X Keys : AlikeKeys(p[1], p[2])}
MCAlikeLines == [p \in Keys \X Keys |-> IF p[1] = p[2] THEN 100 ELSE IF AlikeKeys(p[1], p[2]) THEN 60 ELSE 0]
CommentTexts == {Text(<<"c">>), Text(<<"d">>), Text(<<"m", "n">>), Text(<<"m", "o">>), Text(<<"m", "x">>)}
MCAlike == [p \in CommentTexts \X CommentTexts |->
              IF p[1] = p[2] THEN 100
              ELSE IF Len(p[1]) = Len(p[2]) /\ \A k \in DOMAIN p[1] : MCAlikeLines[p[1][k].key, p[2][k].key] > 0 THEN 60 ELSE 0]
MCRowsOf == [k \in Keys |-> IF k = "xc" THEN 2 ELSE 1]

\* The files with a grammar.
Programs ==
  {Text(keys) : keys \in
    {<<"x", "y", "z">>, <<"c", "x", "y", "">>, <<"y", "c", "x">>, <<"d", "x", "c", "y">>, <<"xc", "y">>,
     <<"f", "x", "}">>, <<"f", "c", "x", "y", "}", "">>, <<"y", "f", "d", "x", "}">>, <<"f", "d", "}", "c", "y">>, <<"f", "y", "}", "x", "}">>,
     <<"m", "n", "x">>, <<"x", "m", "o", "">>, <<"">>, <<"x", "?">>, <<"!", "x", "}">>}}

\* The others: short ones with two indentations, longer ones whose lines are only similar.
Kinds == {[key |-> "x", ind |-> 0], [key |-> "x", ind |-> 1], [key |-> "}", ind |-> 0], [key |-> "", ind |-> 0]}
Short == UNION {[1..n -> Kinds] : n \in 1..3}
Long(keys) == {Text(t) : t \in [1..4 -> keys]}
Conflict == Text(<<"<<<<<<<", "x", ">>>>>>>">>)

Opts(context, style, significant, force) == [context |-> context, style |-> style, significant |-> significant, force |-> force]
Few == {Opts(0, FALSE, FALSE, FALSE), Opts(1, TRUE, FALSE, TRUE)}
File2(A, B, langs, binary, opts) == [A |-> A, B |-> B, langs |-> langs, binary |-> binary, opts |-> opts]

MCInputs ==
  {File2(A, B, <<"go", "go">>, FALSE, o) : A \in Programs, B \in Programs, o \in {Opts(1, FALSE, FALSE, FALSE)}}
    \cup {File2(A, B, <<"go", "c">>, FALSE, o) : A \in Short, B \in Short, o \in {Opts(1, FALSE, TRUE, FALSE)}}
    \cup {File2(A, B, <<"none", "go">>, FALSE, o) : A \in Short, B \in {t \in Short : Len(t) < 3}, o \in Few}
    \cup {File2(A, B, <<"none", "none">>, FALSE, Opts(1, FALSE, FALSE, FALSE))
            : A \in Long({"x", "y", ""}), B \in Long({"p", "q"})}
    \cup {File2(Conflict, Text(<<"x">>), <<"go", "go">>, b, Opts(-1, FALSE, FALSE, FALSE)) : b \in BOOLEAN}
=============================================================================
