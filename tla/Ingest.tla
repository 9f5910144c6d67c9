------------------------------- MODULE Ingest -------------------------------
(***************************************************************************)
(* From the nodes of the parser to the tree the passes see                 *)
(* (internal/treesitter/bridge_ingest.go, ast_index.go,                    *)
(* internal/comments/extract.go): ignored nodes are left out, the children *)
(* of a flattened node are replaced by their own children, delimiters are  *)
(* remembered next to the nodes they belong to, and every comment is hung  *)
(* on the node in front of it, behind it or around it.                     *)
(*                                                                         *)
(* The parser gives the sequence of its nodes in pre-order, each a record  *)
(*   [type, text, parent, size, row, end, from, to, named, error, missing, *)
(*    tail]                                                                *)
(* with the first and the last line, the position of the first character   *)
(* and the one behind the last, and the text of the last line.  The text   *)
(* of a comment is the sequence of its lines; a missing node is one the    *)
(* parser put in to go on, with no text.                                   *)
(***************************************************************************)
EXTENDS Syntax

CONSTANTS
  Opening, Closing,   \* the tokens that open and close a container
  Separators          \* the tokens that follow an item of a list

NewLine == "\n"
IsComment(type) == Role("comment", type)
Under(C, n) == {a \in 1..(n - 1) : n < a + C[a].size}
Below(C, n) == (n + 1)..(n + C[n].size - 1)
Siblings(C, n) == {c \in Below(C, C[n].parent) : C[c].parent = C[n].parent}

-----------------------------------------------------------------------------
\* buildFromIndex: the nodes that get an ASTNode, and those that stay in the tree.  The
\* children of a flattened node get one and are dropped again.
RawType(node) == (IF node.missing THEN "MISSING " ELSE "") \o (IF node.error THEN "ERROR" ELSE node.type)
Kept(C) == {n \in DOMAIN C : \A a \in Under(C, n) \cup {n} : ~Role("ignored", RawType(C[a]))}
Flattened(C, n) == Role("flattened", RawType(C[n]))
Dropped(C) == {n \in Kept(C) : C[n].parent # 0 /\ Flattened(C, C[n].parent)}
InTree(C) == Kept(C) \ Dropped(C)

\* The parent of an ASTNode: a dropped one keeps its parent, grandchildren are adopted.
Up(C, n) == IF n \in Dropped(C) THEN C[n].parent ELSE Closest(Under(C, n) \cap InTree(C))

\* The tokens kept out of the tree: the first one that opens a container and the last one
\* that closes it, and the separator that follows a node, comments between them skipped.
Token(C, n) == C[n].size = 1 /\ C[n].to > C[n].from
Delimiters(C, n) ==
  {c \in Below(C, n) : C[c].parent = n /\ Token(C, c) /\ (~C[c].named \/ Role("ignored", C[c].type))}
IsContainer(type) == IsWrapper(type) \/ IsBlock(type) \/ Role("unordered", type) \/ Role("indexed", type)
Trivia(C, n) ==
  LET opens == {c \in Delimiters(C, n) : C[c].text \in Opening}
      bar(c) == C[c].text # "|" \/ (opens # {} /\ c > Min(opens))
      closes == {c \in Delimiters(C, n) : C[c].text \in Closing /\ bar(c) /\ ~(C[c].text \in Opening /\ c = Min(opens))}
      next == IF C[n].parent = 0 THEN {}
              ELSE {c \in Siblings(C, n) : c > n /\ ~IsComment(C[c].type) /\ C[c].type # NewLine}
      sep == First(next)
  IN [open |-> IF IsContainer(C[n].type) THEN First(opens) ELSE 0,
      close |-> IF IsContainer(C[n].type) THEN Closest(closes) ELSE 0,
      sep |-> IF sep # 0 /\ Token(C, sep) /\ C[sep].text \in Separators THEN sep ELSE 0]

\* The tree, as the sequence of its nodes in pre-order (EnsureIndex), and where a node of
\* the parser went to.  A dropped node keeps the index of the root.
Order(C) == SetToSortSeq(InTree(C), <)
Place(C, n) == IF n \in InTree(C) THEN Cardinality({a \in InTree(C) : a <= n}) ELSE 1

\* The trivia of a place: the last of the nodes that claim it.
TriviaAt(C, n) == LET claims == {m \in Kept(C) : Place(C, m) = Place(C, n)} IN Trivia(C, Max(claims))

-----------------------------------------------------------------------------
\* attachTrivia.  Comments inside comments are part of them.
Comments(C) == {n \in DOMAIN C : IsComment(C[n].type) /\ \A a \in Under(C, n) : ~IsComment(C[a].type)}

IsCode(type) ==
  /\ ~IsComment(type) /\ type # NewLine
  /\ ~Role("ignored", type) /\ ~Role("delimiter", type) /\ ~Role("punctuation", type)

\* findEnclosingDecl, from n upwards through the parents.
DeclOrAbove(C, n) ==
  Closest({a \in {n} \cup (Under(C, n) \cap InTree(C)) :
             IsDeclaration(C[a].type) /\ ~IsLocalVarDeclaration(C[a].type)})

Attached(place, node, decl, path) == [place |-> place, node |-> node, decl |-> decl, path |-> path]
InBody(C, place, node) ==
  LET decl == DeclOrAbove(C, node)
  IN IF decl # 0 THEN Attached(place, node, decl, "body") ELSE Attached(place, node, node, "")

\* Mutant: the comment is only hung on code that is found.
AttachSiblingsOnly(C, n) ==
  LET code == {c \in Siblings(C, n) : IsCode(C[c].type) /\ c \in Kept(C)}
      prev == Closest({c \in code : c < n})
      next == First({c \in code : c > n})
  IN CASE prev # 0 /\ C[prev].end = C[n].row /\ C[prev].to <= C[n].from -> InBody(C, "trailing", prev)
       [] OTHER -> InBody(C, "leading", next)

\* A comment behind a node that ends on its line; else in front of the next node of the
\* same parent; else inside the node around it.  A node that was ignored takes no comment:
\* it has no ASTNode below it either.
Attach(C, n) ==
  LET code == {c \in Siblings(C, n) : IsCode(C[c].type)}
      prev == Closest({c \in code : c < n})
      next == First({c \in code : c > n})
      around == Closest(Under(C, n) \cap Kept(C))
      Leading == LET doc == IsDeclaration(C[next].type) /\ ~IsLocalVarDeclaration(C[next].type)
                     above == IF Up(C, next) = 0 THEN 0 ELSE DeclOrAbove(C, Up(C, next))
                 IN CASE doc -> Attached("leading", next, next, "doc")
                      [] ~doc /\ above # 0 -> Attached("leading", next, above, "body")
                      [] OTHER -> Attached("leading", next, next, "")
  IN CASE prev \in Kept(C) /\ C[prev].end = C[n].row /\ C[prev].to <= C[n].from -> InBody(C, "trailing", prev)
       [] next \in Kept(C) /\ ~(prev \in Kept(C) /\ C[prev].end = C[n].row /\ C[prev].to <= C[n].from) -> Leading
       [] OTHER -> InBody(C, "dangling", around)

\* CollectTrivia and ExtractComments: of every node of the tree, the leading and the
\* trailing comments, then those below it, then the dangling ones.
HangsOn(attached, node, place) == attached.node = node /\ attached.place = place
On(C, node, place) == SetToSortSeq({n \in Comments(C) : HangsOn(Attach(C, n), node, place)}, <)

\* The nodes that end behind n, the lower ones first.
EndingAt(C, n) ==
  SetToSortSeq({a \in (Under(C, n) \cup {n}) \cap InTree(C) : \A m \in InTree(C) : m > n => m > a + C[a].size - 1},
               LAMBDA x, y : x > y)
AtEach(C, nodes, places) ==
  FlattenSeq([k \in DOMAIN nodes |-> FlattenSeq([l \in DOMAIN places |-> On(C, nodes[k], places[l])])])
EnterAndLeave(C, n) == AtEach(C, <<n>>, <<"leading", "trailing">>) \o AtEach(C, EndingAt(C, n), <<"dangling">>)
ExtractComments(C) == FlattenSeq([k \in DOMAIN Order(C) |-> EnterAndLeave(C, Order(C)[k])])

-----------------------------------------------------------------------------
\* IngestFlatAST: the tree, and its comments in the order ExtractComments gives them.
Errors(C) == Cardinality({n \in DOMAIN C : C[n].error})

TreeNode(C, n) ==
  [kind |-> RawType(C[n]), label |-> IF C[n].size = 1 \/ Flattened(C, n) THEN C[n].text ELSE "",
   parent |-> IF Up(C, n) = 0 THEN 0 ELSE Place(C, Up(C, n)),
   size |-> Cardinality(({n} \cup Below(C, n)) \cap InTree(C)), row |-> C[n].row, end |-> C[n].end,
   lead |-> Min({C[c].row : c \in Range(On(C, n, "leading"))} \cup {C[n].row}), tail |-> C[n].tail]
Tree(C) == [k \in DOMAIN Order(C) |-> TreeNode(C, Order(C)[k])]

\* A comment as the comment diff sees it (a dropped node has no place in the mapping).
PlaceOf(C, m) == IF m \in InTree(C) THEN Place(C, m) ELSE 0
CommentBlock(C, n, attached) ==
  [text |-> C[n].text, row |-> C[n].row, anchor |-> PlaceOf(C, attached.node), decl |-> PlaceOf(C, attached.decl),
   path |-> attached.path]
BlocksOf(C, nodes) == [k \in DOMAIN nodes |-> CommentBlock(C, nodes[k], Attach(C, nodes[k]))]
CommentBlocks(C) == BlocksOf(C, ExtractComments(C))
=============================================================================
