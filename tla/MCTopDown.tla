----------------------------- MODULE MCTopDown -----------------------------
(***************************************************************************)
(* TopDown on small programs: one or two functions of up to three          *)
(* statements that occur several times, inside and outside a condition,    *)
(* on lines that are unchanged or not.                                     *)
(***************************************************************************)
EXTENDS TopDown

\* A subtree of its own, from the row offsets and the subtrees of the children.
Node(kind, label, kids) ==
  LET Join(t, k) == t \o [x \in DOMAIN k[2] |-> [k[2][x] EXCEPT !.parent = IF @ = 0 THEN 1 ELSE @ + Len(t),
                                                                 !.row = @ + k[1], !.end = @ + k[1]]]
      whole == FoldLeft(Join, <<[kind |-> kind, label |-> label, parent |-> 0, size |-> 1, row |-> 0, end |-> 0]>>, kids)
  IN [whole EXCEPT ![1].size = Len(whole), ![1].end = Max({whole[x].end : x \in DOMAIN whole})]
Here(kids) == [k \in DOMAIN kids |-> <<0, kids[k]>>]
Id(l) == Node("id", l, <<>>)
Ids(kind, ls) == Node(kind, "", Here([k \in DOMAIN ls |-> Id(ls[k])]))
Mark(l) == Node("mark", l, <<>>)

\* A statement is its tree and the keys of its lines.
Item(tree, keys) == [tree |-> tree, keys |-> keys]
Statement(parts, key) == Item(Node("stmt", "", Here(parts)), <<key>>)
Call(f) == Statement(<<Node("call", "", Here(<<Id(f), Ids("args", <<"x">>)>>))>>, f)
Again(item) == [item EXCEPT !.keys[1] = @ \o " //"]
X == Statement(<<Id("x")>>, "x")
XAgain == Again(X)
One == Statement(<<Node("num", "1", <<>>)>>, "1")
Sum(key, a, b, c) == Statement(<<Ids("bin", <<a, b>>), Id(c)>>, key)
Late(key, a, b, c) == Statement(<<Id(c), Ids("bin", <<a, b>>)>>, key)
Lists(key, lists) == Statement(<<Node("list", "", Here([k \in DOMAIN lists |-> Ids("list", lists[k])]))>>, key)

\* The statements of a function from row 1 on, then the functions of a file.
Stack(items, first) ==
  FoldLeft(LAMBDA s, i : [kids |-> Append(s.kids, <<first + Len(s.keys), i.tree>>), keys |-> s.keys \o i.keys],
           [kids |-> <<>>, keys |-> <<>>], items)
Block(items, first, end) == Node("block", "", Append(Stack(items, first).kids, <<end, Mark("}")>>))
If(condition, items) ==
  LET keys == Stack(items, 1).keys
      head == [k \in DOMAIN condition |-> IF k = 1 THEN Id(condition[k]) ELSE Node("num", condition[k], <<>>)]
  IN Item(Node("if", "", Here(Append(head, Block(items, 1, Len(keys) + 1)))), <<FoldLeft(\o, "if ", condition)>> \o keys \o <<"}">>)
Function(name, items) ==
  LET keys == Stack(items, 1).keys
  IN Item(Node("decl", "", Here(<<Id(name), Block(items, 1, Len(keys) + 1)>>)), <<name>> \o keys \o <<"}">>)
File(functions) ==
  LET all == Stack(functions, 1)
  IN [tree |-> [Node("file", "", all.kids) EXCEPT ![1].row = 1], lines |-> [k \in DOMAIN all.keys |-> [key |-> all.keys[k], ind |-> 0]]]

Bodies == {<<X>>, <<X, X>>, <<XAgain, One>>, <<One, X, XAgain>>, <<XAgain, XAgain, One>>, <<If(<<"c">>, <<X>>), X>>, <<X, If(<<"c">>, <<XAgain>>)>>,
           <<If(<<"d">>, <<XAgain>>), One>>, <<Call("g"), Call("h")>>, <<Call("h"), XAgain>>, <<Call("g"), X, Call("g")>>, <<One, Again(Call("g")), Again(Call("g"))>>,
           <<Sum("s", "a", "b", "x")>>, <<Sum("t", "a", "d", "x"), Sum("s", "a", "b", "x")>>, <<Late("u", "b", "a", "x")>>,
           <<Lists("l", <<<<"a", "b">>, <<"c">>>>)>>, <<Lists("m", <<<<"c">>, <<"a", "e">>, <<"a", "b">>>>)>>}
\* Equal calls under conditions and next to statements that pull them apart.
G == Call("g")
Leaf1(word) == Item(Node("stmt", word, <<>>), <<word>>)
Under(number, call, first, last) == If(<<"c", number, number>>, <<call, Leaf1(first), Leaf1(last)>>)
Apart == {<<Under("1", G, "p", "q"), Under("2", G, "r", "s")>>,
          <<Under("2", Again(G), "p", "v"), Under("1", Again(G), "r", "w")>>}
Few == {<<X, X>>, <<If(<<"c">>, <<X>>), X>>, <<Call("h"), XAgain>>}
Single == {File(<<Function("f", b)>>) : b \in Bodies \cup Apart}
\* The same operand, alone and at the bottom of an expression: the walk back meets more pairs
\* of subtrees than the smaller statement has nodes.
Nest(words, last) == FoldLeft(LAMBDA t, w : Node("bin", "", Here(<<Id(w), t>>)), last, words)
Flat == File(<<Function("f", <<Statement(<<Ids("bin", <<"a", "b">>), Id("x"), Id("y")>>, "v")>>)>>)
Deep == File(<<Function("f", <<Statement(<<Ids("bin", <<"a", "b">>), Id("p"),
                                           Nest(<<"q", "r", "t", "u", "v", "w">>, Id("y"))>>, "w")>>)>>)
Double == {File(<<Function("f", b), Function("k", c)>>) : b \in Few, c \in Few}

MCRules ==
  [block |-> {"block"}, declaration |-> {"decl"}, container |-> {"decl"}, local |-> {}, closure |-> {}, wrapper |-> {"args"},
   identifier |-> {"id"}, assignment |-> {}, operator |-> {}, statement |-> {"stmt", "if"}, case |-> {}, call |-> {"call"},
   delimited |-> {"args", "list"}, symbol |-> {"mark"}, punctuation |-> {"mark"}, ignored |-> {}, scaffolding |-> {"args"},
   jump |-> {}, keyword |-> {}, glue |-> {"mark"}]

\* Equal trees are not handed to the pass.
MCInputs ==
  {[S |-> p[1].tree, D |-> p[2].tree, part |-> NewLinePartition(p[1].lines, p[2].lines, p[1].tree, p[2].tree)]
     : p \in {<<Flat, Deep>>, <<Deep, Flat>>}
               \cup {q \in (Single \X Single) \cup (Double \X Double) : ~Isomorphic(q[1].tree, 1, q[2].tree, 1)}}
=============================================================================
