----------------------------- MODULE EditScript -----------------------------
(***************************************************************************)
(* GenerateEditScript (internal/actions/chawathe.go): a working copy of    *)
(* the source tree is edited into the destination tree, one destination    *)
(* node at a time in level order, and every edit is an action of the       *)
(* script.  The edits of the working copy are modelled; the script is the  *)
(* history of which node was inserted, updated, moved and deleted.         *)
(*                                                                         *)
(* Nodes are numbers: source nodes 1 .. SrcSize, destination nodes above   *)
(* DstBase; a node's parent has a smaller number and its children are in   *)
(* the order of their numbers, which gives every ordered tree.  An         *)
(* inserted working node is named by its destination node.  The roots are  *)
(* mapped to each other and their labels agree, as engine.Match and the    *)
(* parser provide them.                                                    *)
(*                                                                         *)
(* One step is one node of the level order with the first half of its      *)
(* alignChildren (Visit), one move of the second half (Realign), or the    *)
(* final pass of deletions.                                                *)
(***************************************************************************)
EXTENDS Integers, Sequences, FiniteSets, SequencesExt

CONSTANTS SrcSize, DstSize   \* the largest trees considered

ASSUME SizeAssumption == SrcSize \in Nat \ {0} /\ DstSize \in Nat \ {0}

DstBase == SrcSize
Root == 1
DstRoot == DstBase + 1
SureSize == 4                \* up to so many children lcs returns a longest sequence

VARIABLES
  src, dst,    \* [non-root node -> parent] of the two trees
  partner,     \* the mapping: [mapped destination node -> source node]
  relabelled,  \* destination nodes whose label differs from the source's
  unordered,   \* nodes with IsUnordered
  kids,        \* the working copy: [node -> sequence of children]
  label,       \* [working node -> "old" or "new"]
  match,       \* cpyDstToSrc: [destination node -> working node]
  srcInOrder, dstInOrder,
  queue,       \* the rest of LevelOrder
  misplaced,   \* children of the node visited last that alignChildren has yet to move
  moves,       \* [working node -> how often the script moves it]
  deleted,     \* the deletions of the script
  phase        \* "edit", "done"

input == <<src, dst, partner, relabelled, unordered>>
order == <<srcInOrder, dstInOrder, misplaced>>
vars == <<input, kids, label, match, order, queue, moves, deleted, phase>>

SrcNodes == {Root} \cup DOMAIN src
DstNodes == {DstRoot} \cup DOMAIN dst
Nodes == SrcNodes \cup DstNodes
Parents(root, n) == {p \in [root + 1 .. root + n - 1 -> root .. root + n - 2] :
                       \A i \in DOMAIN p : p[i] < i}
ChildSet(par, n) == {c \in DOMAIN par : par[c] = n}
Children(par, n) == LET S == ChildSet(par, n) IN
  CHOOSE s \in [1 .. Cardinality(S) -> S] : \A i, j \in DOMAIN s : i < j => s[i] < s[j]
PartialInjections(S, T) ==
  UNION {{f \in [D -> T] : \A a, b \in D : f[a] = f[b] => a = b} : D \in SUBSET S}

IndexIn(seq, e) == CHOOSE i \in 1 .. Len(seq) : seq[i] = e
Before(seq, a, b) == \E i, j \in 1 .. Len(seq) : i < j /\ seq[i] = a /\ seq[j] = b

Init ==
  /\ \E ns \in 1 .. SrcSize, nd \in 1 .. DstSize :
       src \in Parents(Root, ns) /\ dst \in Parents(DstRoot, nd)
  /\ \E f \in PartialInjections(DOMAIN dst, DOMAIN src) :
       partner = [x \in DOMAIN f \cup {DstRoot} |-> IF x = DstRoot THEN Root ELSE f[x]]
  /\ relabelled \in SUBSET (DOMAIN partner \ {DstRoot})
  /\ unordered \in {{}} \cup {{n} : n \in Nodes}
  /\ kids = [n \in Nodes |-> IF n \in SrcNodes THEN Children(src, n) ELSE <<>>]
  /\ label = [n \in Nodes |-> "old"]
  /\ match = partner
  /\ srcInOrder = {} /\ dstInOrder = {} /\ misplaced = {}
  /\ queue = <<DstRoot>> /\ phase = "edit"
  /\ moves = [n \in Nodes |-> 0] /\ deleted = {}

\* deleteChild: c is cut out of its parent's children.
Detach(k, c) ==
  [n \in DOMAIN k |-> IF Contains(k[n], c) THEN RemoveAt(k[n], IndexIn(k[n], c)) ELSE k[n]]

\* Mutant: deleteChild is not called for a child that has a parent already.
InsertChildNoDetach(k, p, c, at) == [k EXCEPT ![p] = InsertAt(@, at + 1, c)]

\* insertChild detaches the child first; the position is then clamped.
InsertChild(k, p, c, at) ==
  LET cut == Detach(k, c)
      pos == IF at > Len(cut[p]) THEN Len(cut[p]) ELSE at
  IN [cut EXCEPT ![p] = InsertAt(@, pos + 1, c)]

\* The children of x's parent to the left of x that are in order, with partners
\* in order under z.
Anchors(x, z, k, m, sIn, dIn) ==
  {v \in DOMAIN m : /\ v < x /\ v \in DOMAIN dst /\ dst[v] = dst[x]
                    /\ v \in dIn /\ m[v] \in sIn /\ Contains(k[z], m[v])}

\* Mutant: the position of the nearest left sibling, not the one after it.
FindPosBefore(x, z, k, m, sIn, dIn) ==
  LET A == Anchors(x, z, k, m, sIn, dIn)
  IN IF A = {} THEN 0
     ELSE IndexIn(k[z], m[CHOOSE v \in A : \A u \in A : u <= v]) - 1

\* findPos: after the partner of the nearest such sibling, else leftmost.
FindPos(x, z, k, m, sIn, dIn) ==
  LET A == Anchors(x, z, k, m, sIn, dIn)
  IN IF A = {} THEN 0
     ELSE IndexIn(k[z], m[CHOOSE v \in A : \A u \in A : u <= v])

\* Children of the destination node x whose partner is a child of w (s2).
Common(x, w, k, m) ==
  {c \in DOMAIN m : c \in ChildSet(dst, x) /\ Contains(k[w], m[c])}

\* A set of those children whose partners stand in the same order under w.
InSequence(S, w, k, m) == \A a, b \in S : a < b => Before(k[w], m[a], m[b])

\* Mutant: a sequence nothing can be added to, which need not be a longest.
LongestGreedy(C, w, k, m) ==
  {S \in SUBSET C : /\ InSequence(S, w, k, m)
                    /\ \A c \in C \ S : ~InSequence(S \cup {c}, w, k, m)}

\* lcs: children in the same order on both sides.  Its scores prefer stationary
\* children by source coordinates; up to four children the best score is always a
\* longest sequence, and which of several it picks is left open.
Longest(C, w, k, m) ==
  {S \in SUBSET C : /\ InSequence(S, w, k, m)
                    /\ Cardinality(C) <= SureSize =>
                         \A R \in SUBSET C : InSequence(R, w, k, m) =>
                                               Cardinality(R) <= Cardinality(S)}

WantedLabel(x) == IF x \in relabelled THEN "new" ELSE "old"

\* One iteration over LevelOrder: x is inserted, or its partner's label is updated and
\* the partner moved under the partner of x's parent; alignChildren marks the children
\* that are in sequence, all of them in an unordered container.
Visit ==
  /\ phase = "edit" /\ misplaced = {} /\ queue # <<>>
  /\ LET x == Head(queue)
         inserted == x \notin DOMAIN match
         w == IF inserted THEN x ELSE match[x]
         m == [y \in DOMAIN match \cup {x} |-> IF y = x THEN w ELSE match[y]]
         stays == x = DstRoot \/ Contains(kids[match[dst[x]]], w)
         z == match[dst[x]]
         k == IF stays THEN kids
              ELSE InsertChild(kids, z, w, FindPos(x, z, kids, match, srcInOrder, dstInOrder))
         C == Common(x, w, k, m)
     IN /\ match' = m /\ kids' = k
        /\ label' = IF x = DstRoot THEN label ELSE [label EXCEPT ![w] = WantedLabel(x)]
        /\ moves' = IF stays \/ inserted THEN moves ELSE [moves EXCEPT ![w] = @ + 1]
        /\ \E keep \in IF x \in unordered \/ w \in unordered THEN {C} ELSE Longest(C, w, k, m) :
             /\ srcInOrder' = ((srcInOrder \cup {w}) \ ToSet(k[w])) \cup {m[b] : b \in keep}
             /\ dstInOrder' = ((dstInOrder \cup {x}) \ ChildSet(dst, x)) \cup keep
             /\ misplaced' = C \ keep
        /\ queue' = Tail(queue) \o Children(dst, x)
  /\ UNCHANGED <<input, deleted, phase>>

\* The loop of alignChildren: the next of the other children, left to right, is moved
\* to where findPos puts it.
Realign ==
  /\ misplaced # {}
  /\ LET b == CHOOSE c \in misplaced : \A d \in misplaced : c <= d
         a == match[b]
         w == match[dst[b]]
         cut == Detach(kids, a)
     IN /\ kids' = InsertChild(cut, w, a, FindPos(b, w, cut, match, srcInOrder, dstInOrder))
        /\ moves' = [moves EXCEPT ![a] = @ + 1]
        /\ srcInOrder' = srcInOrder \cup {a} /\ dstInOrder' = dstInOrder \cup {b}
        /\ misplaced' = misplaced \ {b}
  /\ UNCHANGED <<input, label, match, queue, deleted, phase>>

Mapped(w) == \E x \in DOMAIN match : match[x] = w

\* The nodes PostOrder comes to: those in every set that has the root and, with a node,
\* its children.
Listed(k) == {Root} \cup UNION {ToSet(k[p]) : p \in DOMAIN k}
Closed(k, S) == Root \in S /\ \A p \in S : ToSet(k[p]) \subseteq S
Reached(k) == {n \in Listed(k) : \A S \in SUBSET Listed(k) : Closed(k, S) => n \in S}

\* The final pass over the working copy: unmapped nodes are deleted.  That children
\* come before their parents is left out.
DeleteUnmapped ==
  /\ phase = "edit" /\ misplaced = {} /\ queue = <<>>
  /\ deleted' = {w \in Reached(kids) : ~Mapped(w)}
  /\ phase' = "done"
  /\ UNCHANGED <<input, kids, label, match, order, queue, moves>>

Done == phase = "done" /\ UNCHANGED vars

Next == Visit \/ Realign \/ DeleteUnmapped \/ Done
Spec == Init /\ [][Next]_vars

-----------------------------------------------------------------------------
Inserted == DOMAIN match \ DOMAIN partner
Working == SrcNodes \cup Inserted
Ordered(x) == x \notin unordered /\ match[x] \notin unordered

\* While nodes are detached and reattached the working copy stays one tree: every
\* working node is below the root, and no node is listed twice.
WorkingCopyIsTree ==
  /\ Reached(kids) = Working
  /\ \A p \in Working : Root \notin ToSet(kids[p])
  /\ \A p, q \in Working : \A i \in 1 .. Len(kids[p]), j \in 1 .. Len(kids[q]) :
       kids[p][i] = kids[q][j] => p = q /\ i = j

\* The script does what it is for (chawathe.go:10-11 "the insert, delete, move, and
\* update actions needed to turn src into dst"): in the end the nodes that are left are
\* the partners of the destination nodes, with their labels, under the partners of their
\* parents, and in their order wherever order counts.
TurnsSrcIntoDst ==
  phase = "done" =>
    /\ DOMAIN match = DstNodes
    /\ Working \ deleted = {match[x] : x \in DstNodes}
    /\ \A x \in DstNodes :
         /\ label[match[x]] = WantedLabel(x)
         /\ ToSet(kids[match[x]]) \ deleted = {match[c] : c \in ChildSet(dst, x)}
         /\ Ordered(x) => \A a, b \in ChildSet(dst, x) :
                            a < b => Before(kids[match[x]], match[a], match[b])

\* Children that keep their parent, and the most of them that keep their order, by
\* the two input trees alone.
Staying(x) == {c \in DOMAIN partner \ {DstRoot} :
                 dst[c] = x /\ x \in DOMAIN partner /\ src[partner[c]] = partner[x]}
KeepsOrder(S) == \A a, b \in S : a < b => partner[a] < partner[b]
MostInOrder(x) ==
  CHOOSE n \in 0 .. DstSize :
    /\ \E S \in SUBSET Staying(x) : Cardinality(S) = n /\ KeepsOrder(S)
    /\ \A S \in SUBSET Staying(x) : KeepsOrder(S) => Cardinality(S) <= n

\* The script is no longer than needed: a node that changes its parent is moved once,
\* of the others only those outside a longest sequence in order, whatever nodes were
\* inserted, moved in or moved away meanwhile (up to the number of children for which
\* the scores of lcs find a longest); no node is moved twice, and neither an inserted
\* nor a deleted node is moved at all.
MovesAreMinimal ==
  phase = "done" =>
    /\ \A n \in Nodes : moves[n] <= 1
    /\ \A n \in Nodes : moves[n] = 1 => \E x \in DOMAIN partner : partner[x] = n
    /\ \A x \in DOMAIN partner \ {DstRoot} : x \notin Staying(dst[x]) => moves[partner[x]] = 1
    /\ \A x \in DstNodes :
         LET moved == {c \in Staying(x) : moves[partner[c]] = 1} IN
         IF Ordered(x)
         THEN Cardinality(Staying(x)) <= SureSize =>
                Cardinality(moved) = Cardinality(Staying(x)) - MostInOrder(x)
         ELSE moved = {}
=============================================================================
