--------------------------- MODULE EditScriptProofs ---------------------------
(***************************************************************************)
(* GenerateEditScript for source trees, destination trees and mappings of  *)
(* every size and shape: the working copy stays one tree, the finished     *)
(* script has turned it into the destination tree, and it moves no more    *)
(* nodes than it must.                                                     *)
(*                                                                         *)
(* None of the three is inductive.  The invariant IInv says that some set  *)
(* V of destination nodes has been visited, which with the root and the    *)
(* queue is the top of the destination tree (Frontier).  The partners of V *)
(* hang together under the root of the working copy, because a visited     *)
(* node that is in order is listed under its parent's partner (Placed):    *)
(* moving a node below one of them therefore never cuts anything off       *)
(* (TopIsReached, TreeStays), which is why no move makes a cycle.  What    *)
(* alignChildren has marked in order does stand in order (Aligned), since  *)
(* findPos puts a child behind the marked siblings to its left and before  *)
(* those to its right (FindPosSplits).  A node not moved yet is still a    *)
(* child of its source parent, in the order of the source (AtHome), so     *)
(* what alignChildren finds is given by the two trees alone (CommonAre)    *)
(* and each move made is one of those that must be made (Thrift).          *)
(*                                                                         *)
(* The lemmas come in that order: sequences, the invariant, the edits of a *)
(* list, trees, a visit, the number of moves, the steps, the results.  A   *)
(* step PICKs names for the present values of the variables, so that they  *)
(* can be spoken of after the step.                                        *)
(***************************************************************************)
EXTENDS EditScript, FiniteSetTheorems, SequenceTheorems, TLAPS

\* Induction over the numbers, for a set.
LEMMA NatSet ==
  ASSUME NEW P, 0 \in P, \A n \in Nat : n \in P => n + 1 \in P
  PROVE  Nat \subseteq P
<1> SUFFICES ASSUME NEW m \in Nat, m \notin P PROVE FALSE
  OBVIOUS
<1> DEFINE I == {i \in 0 .. m : i \notin P}
           f == [i \in I |-> i - 1]
<1>1. IsFiniteSet(I) /\ m \in I
  <2>1. IsFiniteSet(0 .. m)
    <3>1. 0 \in Int /\ m \in Int
      OBVIOUS
    <3> QED BY <3>1, FS_Interval
  <2> QED BY <2>1, FS_Subset
<1>2. \A i \in I : i - 1 \in I
  OBVIOUS
<1>3. f \in Injection(I, I)
  BY <1>2 DEF Injection, IsInjective
<1>4. f \in Surjection(I, I)
  <2> HIDE DEF I, f
  <2> QED BY <1>1, <1>3, FS_Injection
<1>5. \E i \in I : f[i] = m
  BY <1>1, <1>4 DEF Surjection
<1> QED BY <1>5

\* What is left when one element of a sequence is cut out.
LEMMA RemoveAtIs ==
  ASSUME NEW T, NEW s \in Seq(T), NEW i \in 1 .. Len(s)
  PROVE  /\ RemoveAt(s, i) \in Seq(T)
         /\ Len(RemoveAt(s, i)) = Len(s) - 1
         /\ \A n \in 1 .. Len(s) - 1 : RemoveAt(s, i)[n] = IF n < i THEN s[n] ELSE s[n + 1]
<1> DEFINE a == SubSeq(s, 1, i - 1)
           b == SubSeq(s, i + 1, Len(s))
<1>1. a \in Seq(T) /\ Len(a) = i - 1 /\ \A n \in 1 .. i - 1 : a[n] = s[n]
  BY SubSeqProperties
<1>2. b \in Seq(T) /\ Len(b) = Len(s) - i /\ \A n \in 1 .. Len(s) - i : b[n] = s[i + n]
  BY SubSeqProperties
<1>3. RemoveAt(s, i) = a \o b
  BY DEF RemoveAt
<1> HIDE DEF a, b
<1>4. /\ a \o b \in Seq(T)
      /\ Len(a \o b) = Len(a) + Len(b)
      /\ \A n \in 1 .. Len(a) + Len(b) : (a \o b)[n] = IF n <= Len(a) THEN a[n] ELSE b[n - Len(a)]
  BY <1>1, <1>2, ConcatProperties
<1>5. \A n \in 1 .. Len(s) - 1 : (a \o b)[n] = IF n < i THEN s[n] ELSE s[n + 1]
  <2> TAKE n \in 1 .. Len(s) - 1
  <2>1. CASE n < i
    BY <1>1, <1>2, <1>4, <2>1
  <2>2. CASE ~(n < i)
    <3>1. n - (i - 1) \in 1 .. Len(s) - i /\ i + (n - (i - 1)) = n + 1
      BY <2>2
    <3>2. (a \o b)[n] = b[n - (i - 1)]
      BY <1>1, <1>2, <1>4, <2>2
    <3> QED BY <1>2, <2>2, <3>1, <3>2
  <2> QED BY <2>1, <2>2
<1> QED BY <1>1, <1>2, <1>3, <1>4, <1>5

\* A sequence with one element more.
LEMMA InsertAtIs ==
  ASSUME NEW T, NEW s \in Seq(T), NEW i \in 1 .. Len(s) + 1, NEW e \in T
  PROVE  /\ InsertAt(s, i, e) \in Seq(T)
         /\ Len(InsertAt(s, i, e)) = Len(s) + 1
         /\ \A n \in 1 .. Len(s) + 1 :
              InsertAt(s, i, e)[n] = IF n < i THEN s[n] ELSE IF n = i THEN e ELSE s[n - 1]
<1> DEFINE a == SubSeq(s, 1, i - 1)
           b == SubSeq(s, i, Len(s))
           c == a \o <<e>>
<1>1. a \in Seq(T) /\ Len(a) = i - 1 /\ \A n \in 1 .. i - 1 : a[n] = s[n]
  BY SubSeqProperties
<1>2. b \in Seq(T) /\ Len(b) = Len(s) - i + 1 /\ \A n \in 1 .. Len(s) - i + 1 : b[n] = s[i + n - 1]
  BY SubSeqProperties
<1>3. InsertAt(s, i, e) = c \o b
  BY DEF InsertAt
<1>4. <<e>> \in Seq(T) /\ Len(<<e>>) = 1 /\ <<e>>[1] = e
  OBVIOUS
<1> HIDE DEF a, b
<1>5. c \in Seq(T) /\ Len(c) = i /\ (\A n \in 1 .. i - 1 : c[n] = s[n]) /\ c[i] = e
  <2>1. /\ c \in Seq(T)
        /\ Len(c) = Len(a) + 1
        /\ \A n \in 1 .. Len(a) + 1 : c[n] = IF n <= Len(a) THEN a[n] ELSE <<e>>[n - Len(a)]
    <3> HIDE DEF c
    <3> QED BY <1>1, <1>4, ConcatProperties DEF c
  <2> HIDE DEF c
  <2> QED BY <1>1, <1>4, <2>1
<1> HIDE DEF c
<1>6. /\ c \o b \in Seq(T)
      /\ Len(c \o b) = Len(c) + Len(b)
      /\ \A n \in 1 .. Len(c) + Len(b) : (c \o b)[n] = IF n <= Len(c) THEN c[n] ELSE b[n - Len(c)]
  BY <1>2, <1>5, ConcatProperties
<1>7. \A n \in 1 .. Len(s) + 1 :
        (c \o b)[n] = IF n < i THEN s[n] ELSE IF n = i THEN e ELSE s[n - 1]
  <2> TAKE n \in 1 .. Len(s) + 1
  <2>1. CASE n <= i
    BY <1>2, <1>5, <1>6, <2>1
  <2>2. CASE ~(n <= i)
    <3>1. n - i \in 1 .. Len(s) - i + 1 /\ i + (n - i) - 1 = n - 1
      BY <2>2
    <3>2. (c \o b)[n] = b[n - i]
      BY <1>2, <1>5, <1>6, <2>2
    <3> QED BY <1>2, <2>2, <3>1, <3>2
  <2> QED BY <2>1, <2>2
<1> QED BY <1>2, <1>3, <1>5, <1>6, <1>7

\* The position of an element that is listed.
LEMMA IndexInIs ==
  ASSUME NEW s, NEW e, \E i \in 1 .. Len(s) : s[i] = e
  PROVE  IndexIn(s, e) \in 1 .. Len(s) /\ s[IndexIn(s, e)] = e
BY DEF IndexIn

\* No element is listed twice.
Alone(s) == \A i, j \in 1 .. Len(s) : s[i] = s[j] => i = j

\* The elements of a sequence, by their numbers.
LEMMA Listing ==
  ASSUME NEW T, NEW s \in Seq(T), NEW e
  PROVE  e \in ToSet(s) <=> \E i \in 1 .. Len(s) : s[i] = e
BY LenProperties DEF ToSet

\* Cutting an element out leaves the others, in their order.
LEMMA RemoveLeaves ==
  ASSUME NEW T, NEW s \in Seq(T), Alone(s), NEW i \in 1 .. Len(s)
  PROVE  /\ ToSet(RemoveAt(s, i)) = ToSet(s) \ {s[i]}
         /\ Alone(RemoveAt(s, i))
         /\ \A a, b : a # s[i] /\ b # s[i] /\ Before(s, a, b) => Before(RemoveAt(s, i), a, b)
<1> DEFINE r == RemoveAt(s, i)
<1>1. /\ r \in Seq(T)
      /\ Len(r) = Len(s) - 1
      /\ \A n \in 1 .. Len(s) - 1 : r[n] = IF n < i THEN s[n] ELSE s[n + 1]
  BY RemoveAtIs
<1> HIDE DEF r
<1>2. \A n \in 1 .. Len(s) : n # i =>
        \E p \in 1 .. Len(r) : r[p] = s[n] /\ p = IF n < i THEN n ELSE n - 1
  <2> SUFFICES ASSUME NEW n \in 1 .. Len(s), n # i
               PROVE  \E p \in 1 .. Len(r) : r[p] = s[n] /\ p = IF n < i THEN n ELSE n - 1
    OBVIOUS
  <2>1. CASE n < i
    BY <1>1, <2>1
  <2>2. CASE n > i
    <3>1. n - 1 \in 1 .. Len(s) - 1 /\ ~(n - 1 < i) /\ (n - 1) + 1 = n /\ ~(n < i)
      BY <2>2
    <3>2. r[n - 1] = s[n]
      BY <1>1, <3>1
    <3> QED BY <1>1, <3>1, <3>2
  <2> QED BY <2>1, <2>2
<1>3. \A p \in 1 .. Len(r) : \E n \in 1 .. Len(s) : n # i /\ r[p] = s[n] /\ n = IF p < i THEN p ELSE p + 1
  BY <1>1
<1>4. \A e : e \in ToSet(r) <=> e \in ToSet(s) \ {s[i]}
  <2> TAKE e
  <2>1. ASSUME e \in ToSet(r) PROVE e \in ToSet(s) \ {s[i]}
    <3>1. PICK p \in 1 .. Len(r) : r[p] = e
      BY <1>1, <2>1, Listing
    <3>2. PICK n \in 1 .. Len(s) : n # i /\ e = s[n]
      BY <1>3, <3>1
    <3> QED BY <3>2, Listing DEF Alone
  <2>2. ASSUME e \in ToSet(s) \ {s[i]} PROVE e \in ToSet(r)
    <3>1. PICK n \in 1 .. Len(s) : s[n] = e /\ n # i
      BY <2>2, Listing
    <3>2. \E p \in 1 .. Len(r) : r[p] = e
      BY <1>2, <3>1
    <3> QED BY <1>1, <3>2, Listing
  <2> QED BY <2>1, <2>2
<1>5. Alone(r)
  <2> SUFFICES ASSUME NEW p \in 1 .. Len(r), NEW q \in 1 .. Len(r), r[p] = r[q] PROVE p = q
    BY DEF Alone
  <2>1. PICK n \in 1 .. Len(s) : r[p] = s[n] /\ n = IF p < i THEN p ELSE p + 1
    BY <1>3
  <2>2. PICK l \in 1 .. Len(s) : r[q] = s[l] /\ l = IF q < i THEN q ELSE q + 1
    BY <1>3
  <2>3. n = l
    BY <2>1, <2>2 DEF Alone
  <2> QED BY <1>1, <2>1, <2>2, <2>3
<1>6. \A a, b : a # s[i] /\ b # s[i] /\ Before(s, a, b) => Before(r, a, b)
  <2> SUFFICES ASSUME NEW a, NEW b, a # s[i], b # s[i], Before(s, a, b) PROVE Before(r, a, b)
    OBVIOUS
  <2>1. PICK n, l \in 1 .. Len(s) : n < l /\ s[n] = a /\ s[l] = b
    BY DEF Before
  <2>2. PICK p \in 1 .. Len(r) : r[p] = a /\ p = IF n < i THEN n ELSE n - 1
    BY <1>2, <2>1
  <2>3. PICK q \in 1 .. Len(r) : r[q] = b /\ q = IF l < i THEN l ELSE l - 1
    BY <1>2, <2>1
  <2>4. p < q
    BY <2>1, <2>2, <2>3
  <2> QED BY <2>2, <2>3, <2>4 DEF Before
<1> QED BY <1>4, <1>5, <1>6 DEF r

\* Inserting a new element keeps the others in order, and puts it behind the first ones.
LEMMA InsertAdds ==
  ASSUME NEW T, NEW s \in Seq(T), Alone(s), NEW at \in 0 .. Len(s), NEW e \in T, e \notin ToSet(s)
  PROVE  LET r == InsertAt(s, at + 1, e) IN
         /\ r \in Seq(T)
         /\ ToSet(r) = ToSet(s) \cup {e}
         /\ Alone(r)
         /\ \A a, b : Before(s, a, b) => Before(r, a, b)
         /\ \A i \in 1 .. Len(s) : IF i <= at THEN Before(r, s[i], e) ELSE Before(r, e, s[i])
<1> DEFINE here == at + 1
           r == InsertAt(s, here, e)
<1>1. /\ r \in Seq(T)
      /\ Len(r) = Len(s) + 1
      /\ \A n \in 1 .. Len(s) + 1 :
           r[n] = IF n < here THEN s[n] ELSE IF n = here THEN e ELSE s[n - 1]
  <2>1. here \in 1 .. Len(s) + 1
    OBVIOUS
  <2> HIDE DEF here
  <2> QED BY <2>1, InsertAtIs
<1> HIDE DEF r
<1>2. \A n \in 1 .. Len(s) :
        \E p \in 1 .. Len(r) : r[p] = s[n] /\ p = IF n <= at THEN n ELSE n + 1
  <2> SUFFICES ASSUME NEW n \in 1 .. Len(s)
               PROVE  \E p \in 1 .. Len(r) : r[p] = s[n] /\ p = IF n <= at THEN n ELSE n + 1
    OBVIOUS
  <2>1. CASE n <= at
    BY <1>1, <2>1
  <2>2. CASE n > at
    <3>1. n + 1 \in 1 .. Len(r) /\ ~(n + 1 < at + 1) /\ n + 1 # at + 1 /\ (n + 1) - 1 = n
      BY <1>1, <2>2
    <3> QED BY <1>1, <2>2, <3>1
  <2> QED BY <2>1, <2>2
<1>3. at + 1 \in 1 .. Len(r) /\ r[at + 1] = e
  BY <1>1
<1>4. \A p \in 1 .. Len(r) : p # at + 1 =>
        \E n \in 1 .. Len(s) : r[p] = s[n] /\ n = IF p < at + 1 THEN p ELSE p - 1
  BY <1>1
<1>5. \A n \in 1 .. Len(s) : s[n] # e
  BY Listing
<1>6. \A f : f \in ToSet(r) <=> f \in ToSet(s) \cup {e}
  <2> TAKE f
  <2>1. ASSUME f \in ToSet(r) PROVE f \in ToSet(s) \cup {e}
    <3>1. PICK p \in 1 .. Len(r) : r[p] = f
      BY <1>1, <2>1, Listing
    <3>2. CASE p = at + 1
      BY <1>3, <3>1, <3>2
    <3>3. CASE p # at + 1
      <4>1. PICK n \in 1 .. Len(s) : f = s[n]
        BY <1>4, <3>1, <3>3
      <4> QED BY <4>1, Listing
    <3> QED BY <3>2, <3>3
  <2>2. ASSUME f \in ToSet(s) PROVE f \in ToSet(r)
    <3>1. PICK n \in 1 .. Len(s) : s[n] = f
      BY <2>2, Listing
    <3>2. \E p \in 1 .. Len(r) : r[p] = f
      BY <1>2, <3>1
    <3> QED BY <1>1, <3>2, Listing
  <2>3. e \in ToSet(r)
    BY <1>1, <1>3, Listing
  <2> QED BY <2>1, <2>2, <2>3
<1>7. Alone(r)
  <2> SUFFICES ASSUME NEW p \in 1 .. Len(r), NEW q \in 1 .. Len(r), r[p] = r[q] PROVE p = q
    BY DEF Alone
  <2>1. CASE p # at + 1 /\ q # at + 1
    <3>1. PICK n \in 1 .. Len(s) : r[p] = s[n] /\ n = IF p < at + 1 THEN p ELSE p - 1
      BY <1>4, <2>1
    <3>2. PICK l \in 1 .. Len(s) : r[q] = s[l] /\ l = IF q < at + 1 THEN q ELSE q - 1
      BY <1>4, <2>1
    <3>3. n = l
      BY <3>1, <3>2 DEF Alone
    <3> QED BY <1>1, <2>1, <3>1, <3>2, <3>3
  <2>2. CASE p = at + 1 /\ q # at + 1
    BY <1>3, <1>4, <1>5, <2>2
  <2>3. CASE p # at + 1 /\ q = at + 1
    BY <1>3, <1>4, <1>5, <2>3
  <2> QED BY <2>1, <2>2, <2>3
<1>8. \A a, b : Before(s, a, b) => Before(r, a, b)
  <2> SUFFICES ASSUME NEW a, NEW b, Before(s, a, b) PROVE Before(r, a, b)
    OBVIOUS
  <2>1. PICK n, l \in 1 .. Len(s) : n < l /\ s[n] = a /\ s[l] = b
    BY DEF Before
  <2>2. PICK p \in 1 .. Len(r) : r[p] = a /\ p = IF n <= at THEN n ELSE n + 1
    BY <1>2, <2>1
  <2>3. PICK q \in 1 .. Len(r) : r[q] = b /\ q = IF l <= at THEN l ELSE l + 1
    BY <1>2, <2>1
  <2>4. p < q
    BY <2>1, <2>2, <2>3
  <2> QED BY <2>2, <2>3, <2>4 DEF Before
<1>9. \A i \in 1 .. Len(s) : IF i <= at THEN Before(r, s[i], e) ELSE Before(r, e, s[i])
  <2> TAKE i \in 1 .. Len(s)
  <2>1. PICK p \in 1 .. Len(r) : r[p] = s[i] /\ p = IF i <= at THEN i ELSE i + 1
    BY <1>2
  <2>2. CASE i <= at
    <3>1. p < at + 1
      BY <2>1, <2>2
    <3> QED BY <1>3, <2>1, <2>2, <3>1 DEF Before
  <2>3. CASE ~(i <= at)
    <3>1. at + 1 < p
      BY <2>1, <2>3
    <3> QED BY <1>3, <2>1, <2>3, <3>1 DEF Before
  <2> QED BY <2>2, <2>3
<1> QED BY <1>1, <1>6, <1>7, <1>8, <1>9 DEF r

-----------------------------------------------------------------------------
\* The invariant.

\* What the program is given: two trees and a mapping that pairs their roots.
Given ==
  /\ DOMAIN src \subseteq 2 .. SrcSize
  /\ DOMAIN dst \subseteq DstRoot + 1 .. DstBase + DstSize
  /\ \A c \in DOMAIN src : src[c] \in SrcNodes /\ src[c] < c
  /\ \A c \in DOMAIN dst : dst[c] \in DstNodes /\ dst[c] < c
  /\ DstRoot \in DOMAIN partner /\ DOMAIN partner \subseteq DstNodes
  /\ partner[DstRoot] = Root
  /\ \A x \in DOMAIN partner : partner[x] \in SrcNodes
  /\ \A x, y \in DOMAIN partner : partner[x] = partner[y] => x = y
  /\ relabelled \subseteq DOMAIN partner \ {DstRoot}

\* What a destination node is matched with: its partner, or the node inserted for it.
Matching(m) ==
  /\ DOMAIN partner \subseteq DOMAIN m /\ DOMAIN m \subseteq DstNodes
  /\ m = [x \in DOMAIN m |-> IF x \in DOMAIN partner THEN partner[x] ELSE x]

\* The working nodes: the source's and the inserted ones.
WorkingOf(m) == SrcNodes \cup (DOMAIN m \ DOMAIN partner)

\* The values of the variables.
Types ==
  /\ kids \in [Nodes -> Seq(Nodes)]
  /\ label \in [Nodes -> {"old", "new"}]
  /\ moves \in [Nodes -> Nat]
  /\ queue \in Seq(DstNodes)
  /\ Matching(match)

\* Only working nodes have children or are children; the root is nobody's child.
Tidy(k, W) ==
  \A p \in Nodes : ToSet(k[p]) \subseteq W \ {Root} /\ (p \notin W => ToSet(k[p]) = {})

\* No node is listed twice.
Once(k) == \A p, q \in Nodes : \A i \in 1 .. Len(k[p]), j \in 1 .. Len(k[q]) :
             k[p][i] = k[q][j] => p = q /\ i = j

\* No working node is cut off from the root.
Connected(k, W) == \A S \in SUBSET W : Closed(k, S) => S = W

\* The working copy is one tree.
OneTree(k, W) == Tidy(k, W) /\ Once(k) /\ Connected(k, W)

\* Of the destination nodes V have been visited: none of them waits in the queue, their
\* children do or have been visited as well.
Frontier(V, q) ==
  /\ Alone(q)
  /\ V \cap ToSet(q) = {}
  /\ DstRoot \in V \cup ToSet(q)
  /\ \A c \in DOMAIN dst : dst[c] \in V <=> c \in V \cup ToSet(q)

\* A visited node has a partner with its label, and is in order.
Visited(V) ==
  /\ DOMAIN match = DOMAIN partner \cup V
  /\ V \subseteq dstInOrder
  /\ label[Root] = "old"
  /\ \A v \in V : label[match[v]] = WantedLabel(v)

\* The children of a visited node that are in order, or will be when alignChildren has
\* ended, are those whose partners are listed under its partner.
Placed(V, k, m, sIn, dIn, rest) ==
  /\ \A c \in dIn \cup rest : c = DstRoot \/ (c \in DOMAIN dst /\ dst[c] \in V)
  /\ \A c \in DOMAIN dst : dst[c] \in V =>
       (c \in dIn \cup rest <=> c \in DOMAIN m /\ m[c] \in ToSet(k[m[dst[c]]]))
  /\ \A c \in dIn : m[c] \in sIn

\* Those in order stand as in the destination.
Aligned(V, k, m, dIn) ==
  \A a, b \in dIn \cap DOMAIN dst :
    /\ a < b /\ dst[a] = dst[b] /\ dst[a] \in V
    /\ dst[a] \notin unordered /\ m[dst[a]] \notin unordered
    => Before(k[m[dst[a]]], m[a], m[b])

\* At most the children of one node are still to be moved.
Ending ==
  phase = "done" => /\ queue = <<>> /\ misplaced = {}
                    /\ deleted = {w \in Working : ~Mapped(w)}

\* How far the script has come: V are the nodes visited.
Progress(V) ==
  /\ V \subseteq DstNodes
  /\ Frontier(V, queue)
  /\ Visited(V)
  /\ Placed(V, kids, match, srcInOrder, dstInOrder, misplaced)
  /\ Aligned(V, kids, match, dstInOrder)
  /\ misplaced \subseteq DOMAIN dst \ V

\* A node that has not been moved is a child of its parent in the source, and such siblings
\* keep their order.
AtHome(k, mv) ==
  /\ \A n \in DOMAIN src : mv[n] = 0 => n \in ToSet(k[src[n]])
  /\ \A a, b \in DOMAIN src :
       a < b /\ src[a] = src[b] /\ mv[a] = 0 /\ mv[b] = 0 => Before(k[src[a]], a, b)

\* The children of visited nodes that keep their parent.
StayingOf(V) == {c \in DOMAIN partner \ {DstRoot} : dst[c] \in V /\ c \in Staying(dst[c])}

\* The visited nodes that do not.
Shifted(V) == {c \in V \ {DstRoot} : c \in DOMAIN partner /\ c \notin Staying(dst[c])}

\* Order counts among the children of x.
Sorted(x) == x \notin unordered /\ (x \in DOMAIN partner => partner[x] \notin unordered)

\* Of the children of x that keep their parent, no more than these can stay where they are.
Best(x, keep) ==
  IF Sorted(x)
  THEN Cardinality(Staying(x)) <= SureSize =>
         /\ KeepsOrder(keep)
         /\ \A S \in SUBSET Staying(x) : KeepsOrder(S) => Cardinality(S) <= Cardinality(keep)
  ELSE keep = Staying(x)

\* The moves so far: one for each visited node whose parent changes, and one for each of R,
\* the children that have been realigned.  Those still to be realigned have not been moved.
Thrift(V, R, k, mv, rest) ==
  /\ R \subseteq StayingOf(V) /\ rest \subseteq StayingOf(V) \ R
  /\ mv = [n \in Nodes |-> IF \E c \in Shifted(V) \cup R : partner[c] = n THEN 1 ELSE 0]
  /\ AtHome(k, mv)
  /\ \A c \in R : partner[c] \in ToSet(k[partner[dst[c]]])
  /\ \A x \in V : Best(x, Staying(x) \ (R \cup rest))

\* The inductive invariant.
IInv ==
  /\ Given
  /\ Types
  /\ OneTree(kids, Working)
  /\ Ending
  /\ \E V \in SUBSET DstNodes, R \in SUBSET DstNodes :
       Progress(V) /\ Thrift(V, R, kids, moves, misplaced)
-----------------------------------------------------------------------------
\* Trees and their children.

\* A set of numbers that is bounded has a largest.
LEMMA LargestIn ==
  ASSUME NEW n \in Nat, NEW S \in SUBSET (1 .. n), S # {}
  PROVE  \E x \in S : \A y \in S : y <= x
<1> DEFINE P == {k \in Nat : \A t \in SUBSET (1 .. k) : t # {} => \E x \in t : \A y \in t : y <= x}
<1>1. 0 \in P
  <2>1. 1 .. 0 = {}
    OBVIOUS
  <2> QED BY <2>1
<1>2. ASSUME NEW k \in Nat, k \in P PROVE k + 1 \in P
  <2> SUFFICES ASSUME NEW t \in SUBSET (1 .. k + 1), t # {} PROVE \E x \in t : \A y \in t : y <= x
    OBVIOUS
  <2>1. CASE k + 1 \in t
    BY <2>1
  <2>2. CASE k + 1 \notin t
    <3>1. t \in SUBSET (1 .. k)
      BY <2>2
    <3> QED BY <1>2, <3>1
  <2> QED BY <2>1, <2>2
<1>3. n \in P
  <2> HIDE DEF P
  <2> QED BY <1>1, <1>2, NatSet
<1> QED BY <1>3

\* The numbers of a set can be listed in order.
Rising(s) == \A i, j \in DOMAIN s : i < j => s[i] < s[j]

\* Every set of numbers up to n has such a listing.
LEMMA RisingExists ==
  ASSUME NEW n \in Nat, NEW S \in SUBSET (1 .. n)
  PROVE  IsFiniteSet(S) /\ \E s \in [1 .. Cardinality(S) -> S] : Rising(s)
<1> DEFINE Good(t) == \E s \in [1 .. Cardinality(t) -> t] : Rising(s)
           P == {k \in Nat : \A t \in SUBSET (1 .. k) : Good(t)}
<1>0. \A k \in Nat : \A t \in SUBSET (1 .. k) : IsFiniteSet(t)
  <2> SUFFICES ASSUME NEW k \in Nat, NEW t \in SUBSET (1 .. k) PROVE IsFiniteSet(t)
    OBVIOUS
  <2>1. 1 \in Int /\ k \in Int
    OBVIOUS
  <2>2. IsFiniteSet(1 .. k)
    BY <2>1, FS_Interval
  <2> QED BY <2>2, FS_Subset
<1>1. 0 \in P
  <2>1. 1 .. 0 = {}
    OBVIOUS
  <2>2. Cardinality({}) = 0
    BY FS_EmptySet
  <2>3. [i \in {} |-> 0] \in [1 .. Cardinality({}) -> {}] /\ Rising([i \in {} |-> 0])
    BY <2>1, <2>2 DEF Rising
  <2>4. Good({})
    BY <2>3
  <2>5. \A t \in SUBSET (1 .. 0) : t = {}
    BY <2>1
  <2> HIDE DEF Good
  <2> QED BY <2>4, <2>5
<1>2. ASSUME NEW k \in Nat, k \in P PROVE k + 1 \in P
  <2> SUFFICES ASSUME NEW t \in SUBSET (1 .. k + 1) PROVE Good(t)
    OBVIOUS
  <2>1. CASE k + 1 \notin t
    <3>1. t \in SUBSET (1 .. k)
      BY <2>1
    <3> HIDE DEF Good
    <3> QED BY <1>2, <3>1
  <2>2. CASE k + 1 \in t
    <3> DEFINE u == t \ {k + 1}
               c == Cardinality(u)
    <3>1. u \in SUBSET (1 .. k)
      OBVIOUS
    <3>2. Good(u) /\ IsFiniteSet(u)
      <4> HIDE DEF Good, u
      <4> QED BY <1>0, <1>2, <3>1
    <3>3. PICK s \in [1 .. c -> u] : Rising(s)
      BY <3>2
    <3>4. c \in Nat
      <4> HIDE DEF u
      <4> QED BY <3>2, FS_CardinalityType
    <3>5. t = u \cup {k + 1} /\ k + 1 \notin u
      BY <2>2
    <3>6. Cardinality(t) = c + 1
      <4> HIDE DEF u
      <4>1. Cardinality(u \cup {k + 1}) = Cardinality(u) + 1
        BY <3>2, <3>5, FS_AddElement
      <4> QED BY <3>5, <4>1
    <3> DEFINE r == [i \in 1 .. c + 1 |-> IF i = c + 1 THEN k + 1 ELSE s[i]]
    <3>7. r \in [1 .. c + 1 -> t]
      <4> HIDE DEF c
      <4> QED BY <3>3, <3>4, <3>5
    <3>8. Rising(r)
      <4> SUFFICES ASSUME NEW i \in 1 .. c + 1, NEW j \in 1 .. c + 1, i < j PROVE r[i] < r[j]
        BY DEF Rising
      <4> HIDE DEF c
      <4>1. i \in 1 .. c /\ s[i] \in u /\ r[i] = s[i]
        BY <3>3, <3>4
      <4>2. CASE j = c + 1
        <5>1. s[i] \in 1 .. k
          <6> HIDE DEF u
          <6> QED BY <3>1, <4>1
        <5>2. r[j] = k + 1
          BY <4>2
        <5> QED BY <4>1, <5>1, <5>2
      <4>3. CASE j # c + 1
        BY <3>3, <3>4, <4>1, <4>3 DEF Rising
      <4> QED BY <4>2, <4>3
    <3> HIDE DEF r, c
    <3> QED BY <3>6, <3>7, <3>8
  <2> QED BY <2>1, <2>2
<1>3. n \in P
  <2> HIDE DEF P
  <2> QED BY <1>1, <1>2, NatSet
<1> QED BY <1>0, <1>3

\* Children lists the children of a node in the order of their numbers.
LEMMA ChildrenAre ==
  ASSUME NEW n \in Nat, NEW par, DOMAIN par \in SUBSET (1 .. n), NEW p
  PROVE  /\ Children(par, p) \in Seq(ChildSet(par, p))
         /\ ToSet(Children(par, p)) = ChildSet(par, p)
         /\ Alone(Children(par, p))
         /\ Rising(Children(par, p))
<1> DEFINE S == ChildSet(par, p)
           c == Cardinality(S)
           s == Children(par, p)
<1>1. S \in SUBSET (1 .. n)
  BY DEF ChildSet
<1>2. IsFiniteSet(S) /\ \E q \in [1 .. c -> S] : Rising(q)
  <2> HIDE DEF S
  <2> QED BY <1>1, RisingExists
<1>3. c \in Nat
  <2> HIDE DEF S
  <2> QED BY <1>2, FS_CardinalityType
<1>4. s \in [1 .. c -> S] /\ Rising(s)
  <2> HIDE DEF S
  <2> QED BY <1>2 DEF Children, S, Rising
<1> HIDE DEF s, c
<1>5. \A i, j \in 1 .. c : s[i] = s[j] => i = j
  <2> SUFFICES ASSUME NEW i \in 1 .. c, NEW j \in 1 .. c, i # j PROVE s[i] # s[j]
    OBVIOUS
  <2>1. s[i] \in 1 .. n /\ s[j] \in 1 .. n
    BY <1>1, <1>4
  <2>2. i < j \/ j < i
    BY <1>3
  <2>3. s[i] < s[j] \/ s[j] < s[i]
    BY <1>4, <2>2 DEF Rising
  <2> QED BY <2>1, <2>3
<1>6. s \in Surjection(1 .. c, S)
  <2>1. s \in Injection(1 .. c, S)
    BY <1>4, <1>5 DEF Injection, IsInjective
  <2>2. Cardinality(1 .. c) = c
    <3>1. 1 \in Int /\ c \in Int
      BY <1>3
    <3>2. Cardinality(1 .. c) = IF 1 > c THEN 0 ELSE c - 1 + 1
      BY <3>1, FS_Interval
    <3> QED BY <1>3, <3>2
  <2> HIDE DEF S
  <2>3. Cardinality(1 .. c) = Cardinality(S)
    BY <2>2 DEF c
  <2> QED BY <1>2, <2>1, <2>3, FS_Injection
<1>7. s \in Seq(S) /\ Len(s) = c /\ DOMAIN s = 1 .. c
  BY <1>3, <1>4
<1>8. ToSet(s) = S
  <2> HIDE DEF S
  <2> QED BY <1>4, <1>6, <1>7 DEF ToSet, Surjection
<1> QED BY <1>4, <1>5, <1>7, <1>8 DEF s, Alone

-----------------------------------------------------------------------------
\* The edits of the working copy.

\* Listed once: within a list, and in one list only.
LEMMA OnceIs ==
  ASSUME NEW k \in [Nodes -> Seq(Nodes)]
  PROVE  Once(k) <=> /\ \A p \in Nodes : Alone(k[p])
                     /\ \A p, q \in Nodes : p # q => ToSet(k[p]) \cap ToSet(k[q]) = {}
<1>1. ASSUME Once(k), NEW p \in Nodes PROVE Alone(k[p])
  BY <1>1 DEF Once, Alone
<1>2. ASSUME Once(k), NEW p \in Nodes, NEW q \in Nodes, p # q PROVE ToSet(k[p]) \cap ToSet(k[q]) = {}
  <2> SUFFICES ASSUME NEW e, e \in ToSet(k[p]), e \in ToSet(k[q]) PROVE FALSE
    OBVIOUS
  <2>1. PICK i \in 1 .. Len(k[p]) : k[p][i] = e
    BY Listing
  <2>2. PICK j \in 1 .. Len(k[q]) : k[q][j] = e
    BY Listing
  <2> QED BY <1>2, <2>1, <2>2 DEF Once
<1>3. ASSUME \A p \in Nodes : Alone(k[p]),
             \A p, q \in Nodes : p # q => ToSet(k[p]) \cap ToSet(k[q]) = {}
      PROVE  Once(k)
  <2> SUFFICES ASSUME NEW p \in Nodes, NEW q \in Nodes, NEW i \in 1 .. Len(k[p]),
                      NEW j \in 1 .. Len(k[q]), k[p][i] = k[q][j]
               PROVE  p = q /\ i = j
    BY DEF Once
  <2>1. k[p][i] \in ToSet(k[p]) /\ k[q][j] \in ToSet(k[q])
    <3>1. k[p] \in Seq(Nodes) /\ k[q] \in Seq(Nodes)
      OBVIOUS
    <3> QED BY <3>1, Listing
  <2>2. p = q
    BY <1>3, <2>1
  <2> QED BY <1>3, <2>2 DEF Alone
<1> QED BY <1>1, <1>2, <1>3

\* Cutting c out of the working copy leaves everything else as it is.
LEMMA DetachLeaves ==
  ASSUME NEW k \in [Nodes -> Seq(Nodes)], Once(k), NEW c
  PROVE  /\ Detach(k, c) \in [Nodes -> Seq(Nodes)]
         /\ Once(Detach(k, c))
         /\ \A p \in Nodes :
              /\ ToSet(Detach(k, c)[p]) = ToSet(k[p]) \ {c}
              /\ c \notin ToSet(k[p]) => Detach(k, c)[p] = k[p]
              /\ \A a, b : a # c /\ b # c /\ Before(k[p], a, b) => Before(Detach(k, c)[p], a, b)
<1> DEFINE d == Detach(k, c)
<1>1. \A p \in Nodes : Alone(k[p])
  BY OnceIs
<1>2. \A p \in Nodes : Contains(k[p], c) <=> c \in ToSet(k[p])
  <2> TAKE p \in Nodes
  <2>1. k[p] \in Seq(Nodes)
    OBVIOUS
  <2> QED BY <2>1, Listing DEF Contains
<1>3. d = [p \in Nodes |-> IF Contains(k[p], c) THEN RemoveAt(k[p], IndexIn(k[p], c)) ELSE k[p]]
  BY DEF Detach
<1> HIDE DEF d
<1>4. ASSUME NEW p \in Nodes
      PROVE  /\ d[p] \in Seq(Nodes)
             /\ Alone(d[p])
             /\ ToSet(d[p]) = ToSet(k[p]) \ {c}
             /\ c \notin ToSet(k[p]) => d[p] = k[p]
             /\ \A a, b : a # c /\ b # c /\ Before(k[p], a, b) => Before(d[p], a, b)
  <2>0. k[p] \in Seq(Nodes)
    OBVIOUS
  <2>1. CASE c \in ToSet(k[p])
    <3> DEFINE at == IndexIn(k[p], c)
    <3>1. at \in 1 .. Len(k[p]) /\ k[p][at] = c
      BY <2>0, <2>1, Listing, IndexInIs
    <3>2. d[p] = RemoveAt(k[p], at)
      BY <1>2, <1>3, <2>1
    <3> HIDE DEF at
    <3>3. d[p] \in Seq(Nodes)
      BY <2>0, <3>1, <3>2, RemoveAtIs
    <3>4. /\ ToSet(RemoveAt(k[p], at)) = ToSet(k[p]) \ {k[p][at]}
          /\ Alone(RemoveAt(k[p], at))
          /\ \A a, b : a # k[p][at] /\ b # k[p][at] /\ Before(k[p], a, b)
                         => Before(RemoveAt(k[p], at), a, b)
      BY <1>1, <2>0, <3>1, RemoveLeaves
    <3> QED BY <2>1, <3>1, <3>2, <3>3, <3>4
  <2>2. CASE c \notin ToSet(k[p])
    <3>1. d[p] = k[p]
      BY <1>2, <1>3, <2>2
    <3> QED BY <1>1, <2>0, <2>2, <3>1
  <2> QED BY <2>1, <2>2
<1>5. d \in [Nodes -> Seq(Nodes)]
  BY <1>3, <1>4
<1>6. \A p, q \in Nodes : p # q => ToSet(d[p]) \cap ToSet(d[q]) = {}
  <2>1. \A p, q \in Nodes : p # q => ToSet(k[p]) \cap ToSet(k[q]) = {}
    BY OnceIs
  <2> QED BY <1>4, <2>1
<1>7. Once(d)
  BY <1>4, <1>5, <1>6, OnceIs
<1> QED BY <1>4, <1>5, <1>7 DEF d

\* r is k with c under p; everything else is as it was.
Rehung(k, r, p, c) ==
  /\ r \in [Nodes -> Seq(Nodes)]
  /\ Once(r)
  /\ ToSet(r[p]) = ToSet(k[p]) \cup {c}
  /\ \A q \in Nodes \ {p} : ToSet(r[q]) = ToSet(k[q]) \ {c}
  /\ \A q \in Nodes : \A a, b : a # c /\ b # c /\ Before(k[q], a, b) => Before(r[q], a, b)

\* c stands behind the first nodes of s.
Behind(s, r, c, at) ==
  \A i \in 1 .. Len(s) : IF i <= at THEN Before(r, s[i], c) ELSE Before(r, c, s[i])

\* What insertChild does, at a position of the list without the child.
LEMMA InsertChildAdds ==
  ASSUME NEW k \in [Nodes -> Seq(Nodes)], Once(k), NEW p \in Nodes, NEW c \in Nodes,
         NEW at \in 0 .. Len(Detach(k, c)[p])
  PROVE  /\ Rehung(k, InsertChild(k, p, c, at), p, c)
         /\ Behind(Detach(k, c)[p], InsertChild(k, p, c, at)[p], c, at)
<1> DEFINE d == Detach(k, c)
           r == InsertChild(k, p, c, at)
           s == d[p]
           t == InsertAt(s, at + 1, c)
<1>1. /\ d \in [Nodes -> Seq(Nodes)]
      /\ Once(d)
      /\ \A q \in Nodes :
              /\ ToSet(d[q]) = ToSet(k[q]) \ {c}
              /\ \A a, b : a # c /\ b # c /\ Before(k[q], a, b) => Before(d[q], a, b)
  BY DetachLeaves
<1>2. r = [q \in Nodes |-> IF q = p THEN t ELSE d[q]]
  <2>1. at <= Len(s) /\ ~(at > Len(s))
    <3>1. Len(s) \in Nat
      BY <1>1, LenProperties
    <3> QED BY <3>1
  <2>2. r = [d EXCEPT ![p] = InsertAt(d[p], at + 1, c)]
    BY <2>1 DEF InsertChild
  <2> HIDE DEF d
  <2> QED BY <1>1, <2>2
<1> HIDE DEF d, r
<1>3. s \in Seq(Nodes) /\ Alone(s) /\ c \notin ToSet(s) /\ at \in 0 .. Len(s)
  BY <1>1, OnceIs DEF d
<1> HIDE DEF s
<1>4. /\ t \in Seq(Nodes)
      /\ ToSet(t) = ToSet(s) \cup {c}
      /\ Alone(t)
      /\ \A a, b : Before(s, a, b) => Before(t, a, b)
      /\ \A i \in 1 .. Len(s) : IF i <= at THEN Before(t, s[i], c) ELSE Before(t, c, s[i])
  BY <1>3, InsertAdds
<1> HIDE DEF t
<1>5. r \in [Nodes -> Seq(Nodes)] /\ r[p] = t /\ \A q \in Nodes \ {p} : r[q] = d[q]
  BY <1>1, <1>2, <1>4
<1>6. ToSet(t) = ToSet(k[p]) \cup {c}
  BY <1>1, <1>4 DEF s
<1>7. Once(r)
  <2>1. \A q \in Nodes : Alone(d[q])
    BY <1>1, OnceIs
  <2>2. \A q, o \in Nodes : q # o => ToSet(d[q]) \cap ToSet(d[o]) = {}
    BY <1>1, OnceIs
  <2>3. \A q \in Nodes : Alone(r[q])
    BY <1>4, <1>5, <2>1
  <2>4. \A q \in Nodes : ToSet(r[q]) = IF q = p THEN ToSet(d[q]) \cup {c} ELSE ToSet(d[q])
    BY <1>4, <1>5 DEF s
  <2>5. \A q \in Nodes : c \notin ToSet(d[q])
    BY <1>1
  <2>6. \A q, o \in Nodes : q # o => ToSet(r[q]) \cap ToSet(r[o]) = {}
    <3> SUFFICES ASSUME NEW q \in Nodes, NEW o \in Nodes, q # o, NEW e,
                        e \in ToSet(r[q]), e \in ToSet(r[o])
                 PROVE  FALSE
      OBVIOUS
    <3>1. e \in ToSet(d[q]) \/ (q = p /\ e = c)
      BY <2>4
    <3>2. e \in ToSet(d[o]) \/ (o = p /\ e = c)
      BY <2>4
    <3> QED BY <2>2, <2>5, <3>1, <3>2
  <2> QED BY <1>5, <2>3, <2>6, OnceIs
<1>8. \A q \in Nodes : \A a, b : a # c /\ b # c /\ Before(k[q], a, b) => Before(r[q], a, b)
  BY <1>1, <1>4, <1>5 DEF s
<1>9. Rehung(k, r, p, c)
  BY <1>1, <1>5, <1>6, <1>7, <1>8 DEF Rehung
<1>10. Behind(s, r[p], c, at)
  BY <1>4, <1>5 DEF Behind
<1> QED BY <1>9, <1>10 DEF d, r, s

\* The siblings of x that are in order.
Siblings(x, dIn) == {a \in dIn \cap DOMAIN dst : dst[a] = dst[x] /\ a # x}

\* findPos is a position of the list.
LEMMA FindPosIn ==
  ASSUME NEW n \in Nat, DOMAIN dst \in SUBSET (1 .. n),
         NEW x, NEW z, NEW k, NEW m, NEW sIn, NEW dIn, NEW T, k[z] \in Seq(T)
  PROVE  FindPos(x, z, k, m, sIn, dIn) \in 0 .. Len(k[z])
<1> DEFINE A == Anchors(x, z, k, m, sIn, dIn)
           near == CHOOSE v \in A : \A u \in A : u <= v
<1>1. CASE A = {}
  BY <1>1, LenProperties DEF FindPos
<1>2. CASE A # {}
  <2>1. A \in SUBSET (1 .. n)
    BY DEF Anchors
  <2>2. near \in A
    <3> HIDE DEF A
    <3> QED BY <1>2, <2>1, LargestIn
  <2>3. \E i \in 1 .. Len(k[z]) : k[z][i] = m[near]
    <3> HIDE DEF near
    <3> QED BY <2>2 DEF Anchors, Contains
  <2>4. FindPos(x, z, k, m, sIn, dIn) = IndexIn(k[z], m[near])
    BY <1>2 DEF FindPos
  <2> HIDE DEF near
  <2>5. IndexIn(k[z], m[near]) \in 1 .. Len(k[z])
    BY <2>3, IndexInIs
  <2> QED BY <2>4, <2>5, LenProperties
<1> QED BY <1>1, <1>2

\* It is behind the siblings in order to the left of x and before those to the right.
LEMMA FindPosSplits ==
  ASSUME NEW n \in Nat, DOMAIN dst \in SUBSET (1 .. n),
         NEW x \in DOMAIN dst, NEW z, NEW k, NEW m, NEW sIn, NEW dIn,
         NEW T, k[z] \in Seq(T), Alone(k[z]),
         \A a \in Siblings(x, dIn) : a \in DOMAIN m /\ m[a] \in sIn /\ m[a] \in ToSet(k[z]),
         \A a, b \in Siblings(x, dIn) : a < b => Before(k[z], m[a], m[b])
  PROVE  \A a \in Siblings(x, dIn) :
           \E i \in 1 .. Len(k[z]) :
             k[z][i] = m[a] /\ (i <= FindPos(x, z, k, m, sIn, dIn) <=> a < x)
<1> DEFINE A == Anchors(x, z, k, m, sIn, dIn)
           near == CHOOSE v \in A : \A u \in A : u <= v
           s == k[z]
           at == FindPos(x, z, k, m, sIn, dIn)
<1>0. s \in Seq(T) /\ Alone(s) /\ Len(s) \in Nat
  BY LenProperties
<1>1. A = {a \in Siblings(x, dIn) : a < x}
  <2>1. \A a \in Siblings(x, dIn) : Contains(s, m[a])
    <3> HIDE DEF s
    <3>1. \A a \in Siblings(x, dIn) : m[a] \in ToSet(s)
      BY DEF s
    <3> QED BY <1>0, <3>1, Listing DEF Contains
  <2>2. \A v \in A : v \in Siblings(x, dIn) /\ v < x
    BY DEF Anchors, Siblings
  <2>3. \A v \in Siblings(x, dIn) : v < x => v \in A
    BY <2>1 DEF Anchors, Siblings
  <2> QED BY <2>2, <2>3
<1>2. \A a \in Siblings(x, dIn) : a \in 1 .. n /\ a # x
  BY DEF Siblings
<1>3. \A a \in Siblings(x, dIn) : \E i \in 1 .. Len(s) : s[i] = m[a]
  <2> HIDE DEF s
  <2>1. \A a \in Siblings(x, dIn) : m[a] \in ToSet(s)
    BY DEF s
  <2> QED BY <1>0, <2>1, Listing
<1> SUFFICES ASSUME NEW a \in Siblings(x, dIn)
             PROVE  \E i \in 1 .. Len(s) : s[i] = m[a] /\ (i <= at <=> a < x)
  OBVIOUS
<1>4. PICK i \in 1 .. Len(s) : s[i] = m[a]
  BY <1>3
<1>5. CASE A = {}
  <2>1. at = 0
    BY <1>5 DEF FindPos
  <2>2. ~(a < x)
    BY <1>1, <1>5
  <2> HIDE DEF at, s
  <2> QED BY <1>4, <2>1, <2>2
<1>6. CASE A # {}
  <2>1. A \in SUBSET (1 .. n)
    BY DEF Anchors
  <2>2. near \in A /\ \A u \in A : u <= near
    <3> HIDE DEF A
    <3> QED BY <1>6, <2>1, LargestIn
  <2>3. at = IndexIn(s, m[near])
    BY <1>6 DEF FindPos
  <2> HIDE DEF near, A, at, s
  <2>4. near \in Siblings(x, dIn) /\ near < x
    BY <1>1, <2>2
  <2>5. at \in 1 .. Len(s) /\ s[at] = m[near]
    BY <1>3, <2>3, <2>4, IndexInIs
  <2>6. \A b, c \in Siblings(x, dIn) : b < c => Before(s, m[b], m[c])
    BY DEF s
  <2>7. ASSUME NEW b, NEW c, Before(s, b, c), NEW p \in 1 .. Len(s), NEW q \in 1 .. Len(s),
               s[p] = b, s[q] = c
        PROVE  p < q
    BY <1>0, <2>7 DEF Before, Alone
  <2>8. CASE a < x
    <3>1. a <= near
      BY <1>1, <2>2, <2>8
    <3>2. CASE a = near
      <4>1. i = at
        BY <1>0, <1>4, <2>5, <3>2 DEF Alone
      <4> QED BY <1>4, <2>8, <4>1
    <3>3. CASE a # near
      <4>1. a < near
        BY <1>2, <2>4, <3>1, <3>3
      <4>2. Before(s, m[a], m[near])
        BY <2>4, <2>6, <4>1
      <4>3. i < at
        BY <1>4, <2>5, <2>7, <4>2
      <4> QED BY <1>0, <1>4, <2>5, <2>8, <4>3
    <3> QED BY <3>2, <3>3
  <2>9. CASE ~(a < x)
    <3>1. near < a
      BY <1>2, <2>4, <2>9
    <3>2. Before(s, m[near], m[a])
      BY <2>4, <2>6, <3>1
    <3>3. at < i
      BY <1>4, <2>5, <2>7, <3>2
    <3> QED BY <1>0, <1>4, <2>5, <2>9, <3>3
  <2> QED BY <2>8, <2>9
<1> QED BY <1>5, <1>6

-----------------------------------------------------------------------------
\* Staying one tree.

\* Every set that has the root and, with a node, its children has the partners of the
\* visited nodes: each is listed under the partner of a visited node.
LEMMA TopIsReached ==
  ASSUME NEW V \in SUBSET Nat, NEW m, NEW r, NEW S, Closed(r, S), m[DstRoot] = Root,
         \A v \in V \ {DstRoot} : /\ dst[v] \in V /\ dst[v] < v
                                  /\ m[v] \in ToSet(r[m[dst[v]]])
  PROVE  \A v \in V : m[v] \in S
<1> DEFINE P == {n \in Nat : \A v \in V : v <= n => m[v] \in S}
<1>0. ASSUME NEW v \in V, v # DstRoot => m[dst[v]] \in S PROVE m[v] \in S
  <2>1. CASE v = DstRoot
    BY <2>1 DEF Closed
  <2>2. CASE v # DstRoot
    <3>1. m[v] \in ToSet(r[m[dst[v]]])
      BY <2>2
    <3>2. ToSet(r[m[dst[v]]]) \subseteq S
      BY <1>0, <2>2 DEF Closed
    <3> QED BY <3>1, <3>2
  <2> QED BY <2>1, <2>2
<1>1. 0 \in P
  <2> SUFFICES ASSUME NEW v \in V, v <= 0 PROVE m[v] \in S
    OBVIOUS
  <2>1. v = DstRoot
    <3> SUFFICES ASSUME v # DstRoot PROVE FALSE
      OBVIOUS
    <3>1. dst[v] \in Nat /\ v \in Nat /\ dst[v] < v
      OBVIOUS
    <3> QED BY <3>1
  <2> QED BY <1>0, <2>1
<1>2. ASSUME NEW n \in Nat, n \in P PROVE n + 1 \in P
  <2> SUFFICES ASSUME NEW v \in V, v <= n + 1 PROVE m[v] \in S
    OBVIOUS
  <2>1. v # DstRoot => m[dst[v]] \in S
    <3> SUFFICES ASSUME v # DstRoot PROVE m[dst[v]] \in S
      OBVIOUS
    <3>1. dst[v] \in V /\ dst[v] \in Nat /\ v \in Nat /\ dst[v] < v
      OBVIOUS
    <3>2. dst[v] <= n
      BY <3>1
    <3> QED BY <1>2, <3>1, <3>2
  <2> QED BY <1>0, <2>1
<1>3. Nat \subseteq P
  <2> HIDE DEF P
  <2> QED BY <1>1, <1>2, NatSet
<1> QED BY <1>3

\* A node put under one that no such set misses keeps the working copy a tree.
LEMMA TreeStays ==
  ASSUME NEW W \in SUBSET Nodes, NEW k, OneTree(k, W), NEW z \in W, NEW c \in Nodes, c # Root,
         Root \in W, NEW r, Rehung(k, r, z, c), \A S : Closed(r, S) => z \in S
  PROVE  OneTree(r, W \cup {c})
<1>1. Tidy(r, W \cup {c})
  <2> SUFFICES ASSUME NEW p \in Nodes
               PROVE  /\ ToSet(r[p]) \subseteq (W \cup {c}) \ {Root}
                      /\ p \notin W \cup {c} => ToSet(r[p]) = {}
    BY DEF Tidy
  <2>1. ToSet(k[p]) \subseteq W \ {Root} /\ (p \notin W => ToSet(k[p]) = {})
    BY DEF OneTree, Tidy
  <2>2. CASE p = z
    <3>1. ToSet(r[p]) = ToSet(k[p]) \cup {c}
      BY <2>2 DEF Rehung
    <3> QED BY <2>1, <2>2, <3>1
  <2>3. CASE p # z
    <3>1. ToSet(r[p]) = ToSet(k[p]) \ {c}
      BY <2>3 DEF Rehung
    <3> QED BY <2>1, <3>1
  <2> QED BY <2>2, <2>3
<1>2. Once(r)
  BY DEF Rehung
<1>3. Connected(r, W \cup {c})
  <2> SUFFICES ASSUME NEW S \in SUBSET (W \cup {c}), Closed(r, S) PROVE S = W \cup {c}
    BY DEF Connected
  <2>1. z \in S /\ c \in ToSet(r[z]) /\ \A p \in S : ToSet(r[p]) \subseteq S
    BY DEF Closed, Rehung
  <2>2. c \in S
    BY <2>1
  <2> DEFINE U == S \cap W
  <2>3. Closed(k, U)
    <3>1. Root \in U
      BY DEF Closed
    <3>2. ASSUME NEW p \in U PROVE ToSet(k[p]) \subseteq U
      <4>1. ToSet(k[p]) \subseteq W
        BY DEF OneTree, Tidy
      <4>2. ToSet(k[p]) \ {c} \subseteq ToSet(r[p])
        BY DEF Rehung
      <4> QED BY <2>1, <2>2, <4>1, <4>2
    <3> QED BY <3>1, <3>2 DEF Closed
  <2>4. U = W
    BY <2>3 DEF OneTree, Connected
  <2> QED BY <2>2, <2>4
<1> QED BY <1>1, <1>2, <1>3 DEF OneTree

\* A node that is moved within its list as well.
LEMMA TreeSame ==
  ASSUME NEW W, NEW k, OneTree(k, W), NEW r, Once(r), \A p \in Nodes : ToSet(r[p]) = ToSet(k[p]),
         W \subseteq Nodes
  PROVE  OneTree(r, W)
<1>1. Tidy(r, W)
  BY DEF OneTree, Tidy
<1>2. Connected(r, W)
  <2> SUFFICES ASSUME NEW S \in SUBSET W, Closed(r, S) PROVE S = W
    BY DEF Connected
  <2>1. Closed(k, S)
    BY DEF Closed
  <2> QED BY <2>1 DEF OneTree, Connected
<1> QED BY <1>1, <1>2 DEF OneTree

\* In such a tree no node is cut off.
LEMMA TreeReached ==
  ASSUME NEW W \in SUBSET Nodes, Root \in W, NEW k \in [Nodes -> Seq(Nodes)], OneTree(k, W)
  PROVE  Reached(k) = W
<1>1. Listed(k) \subseteq W
  BY DEF Listed, OneTree, Tidy
<1>2. Closed(k, Listed(k))
  <2>1. \A p \in Listed(k) : ToSet(k[p]) \subseteq Listed(k)
    BY <1>1 DEF Listed
  <2> QED BY <2>1 DEF Closed, Listed
<1>3. Listed(k) = W
  BY <1>1, <1>2 DEF OneTree, Connected
<1>4. \A S \in SUBSET W : Closed(k, S) => S = W
  BY DEF OneTree, Connected
<1> QED BY <1>3, <1>4 DEF Reached

\* x, whose partner c was put behind the first nodes of its siblings' list, is in order.
LEMMA AlignedStays ==
  ASSUME NEW V, NEW k, NEW r, NEW m, NEW dIn, Aligned(V, k, m, dIn),
         NEW x \in DOMAIN dst, dst[x] \in V, m[dst[x]] \in Nodes,
         Rehung(k, r, m[dst[x]], m[x]),
         \A a \in dIn : a # x => m[a] # m[x],
         \A a \in dIn \cap DOMAIN dst : m[dst[a]] \in Nodes,
         NEW s, NEW at, Behind(s, r[m[dst[x]]], m[x], at),
         dst[x] \notin unordered /\ m[dst[x]] \notin unordered =>
           \A a \in Siblings(x, dIn) :
             \E i \in 1 .. Len(s) : s[i] = m[a] /\ (i <= at <=> a < x),
         \A a \in dIn \cap DOMAIN dst : a \in Nat, x \in Nat
  PROVE  Aligned(V, r, m, dIn \cup {x})
<1> SUFFICES ASSUME NEW a \in (dIn \cup {x}) \cap DOMAIN dst, NEW b \in (dIn \cup {x}) \cap DOMAIN dst,
                    a < b, dst[a] = dst[b], dst[a] \in V,
                    dst[a] \notin unordered, m[dst[a]] \notin unordered
             PROVE  Before(r[m[dst[a]]], m[a], m[b])
  BY DEF Aligned
<1>1. CASE a # x /\ b # x
  <2>1. a \in dIn \cap DOMAIN dst /\ b \in dIn \cap DOMAIN dst
    BY <1>1
  <2>2. Before(k[m[dst[a]]], m[a], m[b])
    BY <2>1 DEF Aligned
  <2>3. m[a] # m[x] /\ m[b] # m[x] /\ m[dst[a]] \in Nodes
    BY <1>1, <2>1
  <2> QED BY <2>2, <2>3 DEF Rehung
<1>2. CASE a = x
  <2>1. b \in Siblings(x, dIn) /\ ~(b < x)
    BY <1>2 DEF Siblings
  <2>2. PICK i \in 1 .. Len(s) : s[i] = m[b] /\ ~(i <= at)
    BY <1>2, <2>1
  <2> QED BY <1>2, <2>2 DEF Behind
<1>3. CASE b = x
  <2>1. a \in Siblings(x, dIn) /\ a < x
    BY <1>3 DEF Siblings
  <2>2. PICK i \in 1 .. Len(s) : s[i] = m[a] /\ i <= at
    BY <1>3, <2>1
  <2> QED BY <1>3, <2>2 DEF Behind
<1> QED BY <1>1, <1>2, <1>3

-----------------------------------------------------------------------------
\* The nodes of the two trees, and who is matched with whom.

\* The sizes are numbers.
LEMMA SizesAre == SrcSize \in Nat /\ DstSize \in Nat /\ SrcSize >= 1 /\ DstSize >= 1
BY SizeAssumption

\* The nodes of the two trees are numbers, and no number is a node of both.
LEMMA TreesApart ==
  ASSUME Given
  PROVE  /\ SrcNodes \in SUBSET Nat
         /\ DstNodes \in SUBSET Nat
         /\ SrcNodes \cap DstNodes = {}
         /\ DstRoot \notin DOMAIN dst
<1>1. \A c \in SrcNodes : c \in Nat /\ c <= SrcSize
  BY SizesAre DEF Given, SrcNodes, Root
<1>2. \A c \in DstNodes : c \in Nat /\ c > SrcSize
  BY SizesAre DEF Given, DstNodes, DstRoot, DstBase
<1>3. \A c \in DOMAIN dst : c > DstRoot
  BY SizesAre DEF Given, DstRoot, DstBase
<1>4. DstRoot \in Nat
  BY SizesAre DEF DstRoot, DstBase
<1>5. SrcNodes \cap DstNodes = {}
  <2> SUFFICES ASSUME NEW c \in SrcNodes, c \in DstNodes PROVE FALSE
    OBVIOUS
  <2> QED BY <1>1, <1>2, SizesAre
<1>6. DstRoot \notin DOMAIN dst
  BY <1>3, <1>4
<1> QED BY <1>1, <1>2, <1>5, <1>6

\* The destination nodes lie below a bound.
LEMMA DstBounded ==
  ASSUME Given
  PROVE  DstBase + DstSize \in Nat /\ DOMAIN dst \in SUBSET (1 .. DstBase + DstSize)
<1>1. DstBase + DstSize \in Nat /\ DstRoot + 1 >= 1 /\ DstRoot + 1 \in Nat
  BY SizesAre DEF DstBase, DstRoot
<1>2. \A c \in DOMAIN dst : c \in DstRoot + 1 .. DstBase + DstSize
  BY DEF Given
<1>3. \A c \in DOMAIN dst : c \in 1 .. DstBase + DstSize
  BY <1>1, <1>2
<1> QED BY <1>1, <1>3

\* Two destination nodes have different partners, and only the roots have the root.
LEMMA MatchedOnce ==
  ASSUME Given, NEW m, Matching(m)
  PROVE  /\ \A x, y \in DOMAIN m : m[x] = m[y] => x = y
         /\ DstRoot \in DOMAIN m /\ m[DstRoot] = Root
         /\ \A x \in DOMAIN m : m[x] \in WorkingOf(m)
         /\ WorkingOf(m) \in SUBSET Nodes
<1>1. \A x \in DOMAIN m : m[x] = IF x \in DOMAIN partner THEN partner[x] ELSE x
  BY DEF Matching
<1>2. \A x \in DOMAIN partner : partner[x] \in SrcNodes
  BY DEF Given
<1>3. DOMAIN m \subseteq DstNodes
  BY DEF Matching
<1>4. \A x, y \in DOMAIN partner : partner[x] = partner[y] => x = y
  BY DEF Given
<1>5. SrcNodes \cap DstNodes = {}
  BY TreesApart
<1>6. \A x, y \in DOMAIN m : m[x] = m[y] => x = y
  BY <1>1, <1>2, <1>3, <1>4, <1>5
<1>7. DstRoot \in DOMAIN m /\ m[DstRoot] = Root
  BY <1>1 DEF Given, Matching
<1>8. \A x \in DOMAIN m : m[x] \in WorkingOf(m)
  BY <1>1, <1>2 DEF WorkingOf
<1>9. WorkingOf(m) \in SUBSET Nodes
  BY <1>3 DEF WorkingOf, Nodes
<1> QED BY <1>6, <1>7, <1>8, <1>9

-----------------------------------------------------------------------------
\* A visit, first half: x comes under the partner of its parent.

\* The definitions of Visit.
Visiting(x, w, m, k) ==
  /\ x = Head(queue)
  /\ w = IF x \notin DOMAIN match THEN x ELSE match[x]
  /\ m = [y \in DOMAIN match \cup {x} |-> IF y = x THEN w ELSE match[y]]
  /\ k = IF x = DstRoot \/ Contains(kids[match[dst[x]]], w) THEN kids
         ELSE InsertChild(kids, match[dst[x]], w,
                          FindPos(x, match[dst[x]], kids, match, srcInOrder, dstInOrder))

\* A queue without its head and with other nodes behind it.
LEMMA QueueMoves ==
  ASSUME NEW T, NEW q \in Seq(T), q # <<>>, Alone(q), NEW s \in Seq(T), Alone(s),
         ToSet(q) \cap ToSet(s) = {}
  PROVE  /\ Tail(q) \o s \in Seq(T)
         /\ Alone(Tail(q) \o s)
         /\ ToSet(Tail(q) \o s) = (ToSet(q) \ {Head(q)}) \cup ToSet(s)
         /\ Head(q) \in T /\ Head(q) \in ToSet(q)
<1> DEFINE t == Tail(q)
           r == t \o s
<1>1. /\ t \in Seq(T) /\ Len(t) = Len(q) - 1 /\ Head(q) = q[1] /\ Len(q) >= 1
      /\ \A i \in 1 .. Len(t) : t[i] = q[i + 1]
  <2>1. Len(q) \in Nat \ {0}
    BY EmptySeq
  <2>2. Head(q) = q[1]
    OBVIOUS
  <2>3. t \in Seq(T) /\ Len(t) = Len(q) - 1 /\ \A i \in 1 .. Len(t) : t[i] = q[i + 1]
    BY HeadTailProperties
  <2> QED BY <2>1, <2>2, <2>3
<1> HIDE DEF t
<1>2. /\ r \in Seq(T) /\ Len(r) = Len(t) + Len(s)
      /\ \A i \in 1 .. Len(t) + Len(s) : r[i] = IF i <= Len(t) THEN t[i] ELSE s[i - Len(t)]
  BY <1>1, ConcatProperties
<1> HIDE DEF r
<1>3. Len(t) \in Nat /\ Len(s) \in Nat /\ Len(q) \in Nat
  BY <1>1, LenProperties
<1>4. \A i \in 1 .. Len(q) : q[i] \in ToSet(q)
  BY Listing
<1>5. \A i \in 1 .. Len(s) : s[i] \in ToSet(s)
  BY Listing
<1>6. \A i \in 1 .. Len(r) : \/ i <= Len(t) /\ i + 1 \in 1 .. Len(q) /\ r[i] = q[i + 1]
                             \/ i > Len(t) /\ i - Len(t) \in 1 .. Len(s) /\ r[i] = s[i - Len(t)]
  BY <1>1, <1>2, <1>3
<1>10. \A i \in 1 .. Len(r) : i <= Len(t) => r[i] \in ToSet(q)
  <2> SUFFICES ASSUME NEW i \in 1 .. Len(r), i <= Len(t) PROVE r[i] \in ToSet(q)
    OBVIOUS
  <2>1. i + 1 \in 1 .. Len(q) /\ r[i] = q[i + 1]
    BY <1>3, <1>6
  <2> QED BY <1>4, <2>1
<1>11. \A i \in 1 .. Len(r) : i > Len(t) => r[i] \in ToSet(s)
  <2> SUFFICES ASSUME NEW i \in 1 .. Len(r), i > Len(t) PROVE r[i] \in ToSet(s)
    OBVIOUS
  <2>1. i - Len(t) \in 1 .. Len(s) /\ r[i] = s[i - Len(t)]
    BY <1>3, <1>6
  <2> QED BY <1>5, <2>1
<1>7. Alone(r)
  <2> SUFFICES ASSUME NEW i \in 1 .. Len(r), NEW j \in 1 .. Len(r), r[i] = r[j] PROVE i = j
    BY DEF Alone
  <2>1. CASE i <= Len(t) /\ j <= Len(t)
    BY <1>3, <1>6, <2>1 DEF Alone
  <2>2. CASE i > Len(t) /\ j > Len(t)
    <3>1. /\ i - Len(t) \in 1 .. Len(s) /\ r[i] = s[i - Len(t)]
          /\ j - Len(t) \in 1 .. Len(s) /\ r[j] = s[j - Len(t)]
      BY <1>3, <1>6, <2>2
    <3>2. s[i - Len(t)] = s[j - Len(t)]
      BY <3>1
    <3>3. i - Len(t) = j - Len(t)
      BY <3>1, <3>2 DEF Alone
    <3> QED BY <1>3, <3>3
  <2>3. CASE i <= Len(t) /\ j > Len(t)
    <3>1. r[i] \in ToSet(q) /\ r[j] \in ToSet(s)
      BY <1>10, <1>11, <2>3
    <3> QED BY <3>1
  <2>4. CASE i > Len(t) /\ j <= Len(t)
    <3>1. r[i] \in ToSet(s) /\ r[j] \in ToSet(q)
      BY <1>10, <1>11, <2>4
    <3> QED BY <3>1
  <2> QED BY <1>3, <2>1, <2>2, <2>3, <2>4
<1>8. \A e : e \in ToSet(r) <=> e \in (ToSet(q) \ {Head(q)}) \cup ToSet(s)
  <2> TAKE e
  <2>1. ASSUME e \in ToSet(r) PROVE e \in (ToSet(q) \ {Head(q)}) \cup ToSet(s)
    <3>1. PICK i \in 1 .. Len(r) : r[i] = e
      BY <1>2, <2>1, Listing
    <3>2. CASE i <= Len(t)
      <4>1. i + 1 \in 1 .. Len(q) /\ e = q[i + 1] /\ i + 1 # 1
        BY <1>3, <1>6, <3>1, <3>2
      <4>2. e # q[1]
        <5>1. 1 \in 1 .. Len(q)
          BY <1>1, <1>3
        <5> QED BY <4>1, <5>1 DEF Alone
      <4> QED BY <1>1, <1>4, <4>1, <4>2
    <3>3. CASE i > Len(t)
      BY <1>3, <1>5, <1>6, <3>1, <3>3
    <3> QED BY <1>3, <3>2, <3>3
  <2>2. ASSUME e \in ToSet(q) \ {Head(q)} PROVE e \in ToSet(r)
    <3>1. PICK i \in 1 .. Len(q) : q[i] = e
      BY <2>2, Listing
    <3>2. i # 1
      BY <1>1, <2>2, <3>1
    <3>3. i - 1 \in 1 .. Len(t) /\ (i - 1) + 1 = i /\ i - 1 \in 1 .. Len(r)
      BY <1>1, <1>2, <1>3, <3>2
    <3>4. r[i - 1] = t[i - 1]
      BY <1>2, <1>3, <3>3
    <3>5. r[i - 1] = e
      BY <1>1, <3>1, <3>3, <3>4
    <3> QED BY <1>2, <3>3, <3>5, Listing
  <2>3. ASSUME e \in ToSet(s) PROVE e \in ToSet(r)
    <3>1. PICK i \in 1 .. Len(s) : s[i] = e
      BY <2>3, Listing
    <3>2. Len(t) + i \in 1 .. Len(r) /\ ~(Len(t) + i <= Len(t)) /\ (Len(t) + i) - Len(t) = i
      BY <1>2, <1>3
    <3>3. r[Len(t) + i] = s[i]
      BY <1>2, <3>2
    <3> QED BY <1>2, <3>1, <3>2, <3>3, Listing
  <2> QED BY <2>1, <2>2, <2>3
<1>9. Head(q) \in T /\ Head(q) \in ToSet(q)
  <2>1. 1 \in 1 .. Len(q)
    BY <1>1, <1>3
  <2> QED BY <1>1, <1>4, <2>1, ElementOfSeq
<1> QED BY <1>2, <1>7, <1>8, <1>9 DEF r, t

\* Where a visited node stands: its parent has been visited, and its partner is listed
\* under the partner of its parent.
LEMMA VisitedStand ==
  ASSUME Given, Types, NEW V, Progress(V), NEW v \in V, v # DstRoot
  PROVE  /\ v \in DOMAIN dst /\ dst[v] \in V /\ dst[v] < v
         /\ match[v] \in ToSet(kids[match[dst[v]]])
<1>1. v \in DOMAIN dst
  BY DEF Progress, DstNodes
<1>2. dst[v] \in V /\ dst[v] < v
  BY <1>1 DEF Progress, Frontier, Given
<1>3. v \in dstInOrder
  BY DEF Progress, Visited
<1>4. match[v] \in ToSet(kids[match[dst[v]]])
  BY <1>1, <1>2, <1>3 DEF Progress, Placed
<1> QED BY <1>1, <1>2, <1>4

\* What a visit finds: an unvisited node whose parent has been visited.
Found(V, x, w, m) ==
  /\ x \in DstNodes /\ x \notin V /\ x \in ToSet(queue)
  /\ x # DstRoot => /\ x \in DOMAIN dst /\ dst[x] \in V /\ dst[x] \in DOMAIN match
                    /\ match[dst[x]] \in Working
  /\ Matching(m) /\ DOMAIN m = DOMAIN match \cup {x} /\ m[x] = w
  /\ \A y \in DOMAIN match : m[y] = match[y]
  /\ WorkingOf(m) = Working \cup {w}
  /\ w \in Nodes

\* A visit finds its node so, whatever was visited before.
LEMMA VisitFinds ==
  ASSUME Given, Types, NEW V, Progress(V), queue # <<>>, NEW x, NEW w, NEW m, NEW k,
         Visiting(x, w, m, k)
  PROVE  Found(V, x, w, m)
<1>1. queue \in Seq(DstNodes) /\ Matching(match)
  BY DEF Types
<1>2. x \in DstNodes /\ x \in ToSet(queue)
  <2>1. <<>> \in Seq(DstNodes) /\ Alone(<<>>) /\ ToSet(<<>>) = {}
    BY DEF Alone, ToSet
  <2>2. Alone(queue)
    BY DEF Progress, Frontier
  <2>3. Head(queue) \in DstNodes /\ Head(queue) \in ToSet(queue)
    BY <1>1, <2>1, <2>2, QueueMoves
  <2> QED BY <2>3 DEF Visiting
<1>3. x \notin V
  BY <1>2 DEF Progress, Frontier
<1>4. ASSUME x # DstRoot
      PROVE  x \in DOMAIN dst /\ dst[x] \in V /\ dst[x] \in DOMAIN match /\ match[dst[x]] \in Working
  <2>1. x \in DOMAIN dst
    BY <1>2, <1>4 DEF DstNodes
  <2>2. dst[x] \in V
    BY <1>2, <2>1 DEF Progress, Frontier
  <2>3. dst[x] \in DOMAIN match
    BY <2>2 DEF Progress, Visited
  <2>4. match[dst[x]] \in Working
    BY <1>1, <2>3, MatchedOnce DEF Working, WorkingOf, Inserted
  <2> QED BY <2>1, <2>2, <2>3, <2>4
<1>5. DOMAIN m = DOMAIN match \cup {x} /\ m[x] = w /\ \A y \in DOMAIN match : m[y] = match[y]
  BY DEF Visiting
<1>6. w = IF x \in DOMAIN partner THEN partner[x] ELSE x
  BY <1>1 DEF Visiting, Matching
<1>7. Matching(m)
  <2>1. DOMAIN partner \subseteq DOMAIN m /\ DOMAIN m \subseteq DstNodes
    BY <1>1, <1>2, <1>5 DEF Matching
  <2>2. \A y \in DOMAIN m : m[y] = IF y \in DOMAIN partner THEN partner[y] ELSE y
    BY <1>1, <1>5, <1>6 DEF Matching
  <2>3. m = [y \in DOMAIN m |-> m[y]]
    BY <1>5 DEF Visiting
  <2> QED BY <2>1, <2>2, <2>3 DEF Matching
<1>8. WorkingOf(m) = Working \cup {w}
  <2>1. CASE x \in DOMAIN partner
    <3>1. x \in DOMAIN match /\ w \in SrcNodes
      BY <1>1, <1>6, <2>1 DEF Given, Matching
    <3> QED BY <1>5, <3>1 DEF WorkingOf, Working, Inserted
  <2>2. CASE x \notin DOMAIN partner
    BY <1>5, <1>6, <2>2 DEF WorkingOf, Working, Inserted
  <2> QED BY <2>1, <2>2
<1>9. w \in Nodes
  BY <1>2, <1>6 DEF Given, Nodes
<1> QED BY <1>2, <1>3, <1>4, <1>5, <1>7, <1>8, <1>9 DEF Found

\* The working copy is a tree in which the visited nodes and x are placed and in order.
Half(V, W, k, m, sIn, dIn) ==
  /\ k \in [Nodes -> Seq(Nodes)]
  /\ OneTree(k, W)
  /\ Placed(V, k, m, sIn, dIn, {})
  /\ Aligned(V, k, m, dIn)

\* Nodes in order have partners, and a list knows its elements.
LEMMA InOrderMatched ==
  ASSUME Given, Types, NEW V, Progress(V), NEW c \in dstInOrder \cup misplaced, c # DstRoot
  PROVE  /\ c \in DOMAIN dst /\ dst[c] \in V /\ dst[c] \in DOMAIN match
         /\ c \in DOMAIN match /\ match[c] \in ToSet(kids[match[dst[c]]])
         /\ c \in dstInOrder => match[c] \in srcInOrder
<1>1. c \in DOMAIN dst /\ dst[c] \in V
  BY DEF Progress, Placed
<1>2. dst[c] \in DOMAIN match
  BY <1>1 DEF Progress, Visited
<1> QED BY <1>1, <1>2 DEF Progress, Placed

\* A list contains its elements.
LEMMA ContainsIs ==
  ASSUME NEW k \in [Nodes -> Seq(Nodes)], NEW p \in Nodes, NEW c
  PROVE  Contains(k[p], c) <=> c \in ToSet(k[p])
<1>1. k[p] \in Seq(Nodes)
  OBVIOUS
<1> QED BY <1>1, Listing DEF Contains

\* A node that is where it belongs already is in order already.
LEMMA VisitStays ==
  ASSUME Given, Types, OneTree(kids, Working), NEW V, Progress(V), misplaced = {}, queue # <<>>,
         NEW x, NEW w, NEW m, NEW k, Visiting(x, w, m, k),
         x = DstRoot \/ Contains(kids[match[dst[x]]], w)
  PROVE  Half(V, Working \cup {w}, k, m, srcInOrder \cup {w}, dstInOrder \cup {x})
<1>1. k = kids /\ kids \in [Nodes -> Seq(Nodes)]
  BY DEF Visiting, Types
<1>2. x \in DOMAIN match /\ (x # DstRoot => x \in dstInOrder)
  <2>1. CASE x = DstRoot
    BY <2>1, MatchedOnce DEF Types
  <2>2. CASE x # DstRoot
    <3>1. /\ x \in DOMAIN dst /\ dst[x] \in V /\ match[dst[x]] \in Working
          /\ x \in DstNodes
      BY <2>2, VisitFinds DEF Found
    <3>2. match[dst[x]] \in Nodes
      BY <3>1, MatchedOnce DEF Types, Working, WorkingOf, Inserted
    <3>3. w \in ToSet(kids[match[dst[x]]])
      BY <1>1, <2>2, <3>2, ContainsIs
    <3>4. w \in Working
      BY <3>2, <3>3 DEF OneTree, Tidy
    <3>5. x \in DOMAIN match
      <4> SUFFICES ASSUME x \notin DOMAIN match PROVE FALSE
        OBVIOUS
      <4>1. w = x /\ x \notin SrcNodes
        BY <3>1, TreesApart DEF Visiting
      <4> QED BY <3>4, <4>1 DEF Working, Inserted
    <3>6. w = match[x]
      BY <3>5 DEF Visiting
    <3>7. x \in dstInOrder
      BY <3>1, <3>3, <3>5, <3>6 DEF Progress, Placed
    <3> QED BY <3>5, <3>7
  <2> QED BY <2>1, <2>2
<1>3. w = match[x] /\ m = match
  <2>1. w = match[x]
    BY <1>2 DEF Visiting
  <2>2. m = [y \in DOMAIN match |-> match[y]]
    BY <1>2, <2>1 DEF Visiting
  <2>3. match = [y \in DOMAIN match |-> match[y]]
    BY DEF Types, Matching
  <2> QED BY <2>1, <2>2, <2>3
<1>4. Working \cup {w} = Working
  <2>1. match[x] \in Working
    BY <1>2, MatchedOnce DEF Types, Working, WorkingOf, Inserted
  <2> QED BY <1>3, <2>1
<1>5. Placed(V, kids, match, srcInOrder \cup {w}, dstInOrder \cup {x}, {})
  <2>1. \A c \in dstInOrder \cup {x} : c = DstRoot \/ (c \in DOMAIN dst /\ dst[c] \in V)
    BY <1>2, InOrderMatched
  <2>2. ASSUME NEW c \in DOMAIN dst, dst[c] \in V
        PROVE  c \in dstInOrder \cup {x} <=>
                 c \in DOMAIN match /\ match[c] \in ToSet(kids[match[dst[c]]])
    <3>1. c \in dstInOrder <=> c \in DOMAIN match /\ match[c] \in ToSet(kids[match[dst[c]]])
      BY <2>2 DEF Progress, Placed
    <3>2. c # DstRoot
      BY TreesApart
    <3> QED BY <1>2, <3>1, <3>2
  <2>3. \A c \in dstInOrder \cup {x} : match[c] \in srcInOrder \cup {w}
    BY <1>3 DEF Progress, Placed
  <2> QED BY <2>1, <2>2, <2>3 DEF Placed
<1>6. Aligned(V, kids, match, dstInOrder \cup {x})
  <2>1. (dstInOrder \cup {x}) \cap DOMAIN dst = dstInOrder \cap DOMAIN dst
    BY <1>2, TreesApart
  <2>2. Aligned(V, kids, match, dstInOrder)
    BY DEF Progress
  <2> QED BY <2>1, <2>2 DEF Aligned
<1> QED BY <1>1, <1>3, <1>4, <1>5, <1>6 DEF Half

\* A node that is inserted, or moved to its parent's partner, is taken out of any other list
\* and put where findPos says.
LEMMA VisitRehangs ==
  ASSUME Given, Types, OneTree(kids, Working), NEW V, Progress(V), misplaced = {}, queue # <<>>,
         NEW x, NEW w, NEW m, NEW k, Visiting(x, w, m, k),
         ~(x = DstRoot \/ Contains(kids[match[dst[x]]], w))
  PROVE  /\ Rehung(kids, k, match[dst[x]], w)
         /\ LET at == FindPos(x, match[dst[x]], kids, match, srcInOrder, dstInOrder) IN
            /\ at \in 0 .. Len(kids[match[dst[x]]])
            /\ Behind(kids[match[dst[x]]], k[match[dst[x]]], w, at)
<1> DEFINE z == match[dst[x]]
           at == FindPos(x, z, kids, match, srcInOrder, dstInOrder)
           s == kids[z]
<1>1. /\ x \in DOMAIN dst /\ dst[x] \in V /\ dst[x] \in DOMAIN match /\ z \in Working
      /\ x \in DstNodes /\ x \notin V /\ w \in Nodes
      /\ Matching(m) /\ DOMAIN m = DOMAIN match \cup {x} /\ m[x] = w
      /\ \A y \in DOMAIN match : m[y] = match[y]
  <2>0. Found(V, x, w, m)
    BY VisitFinds
  <2>1. x # DstRoot
    OBVIOUS
  <2>2. x \in DstNodes /\ x \notin V /\ w \in Nodes
    BY <2>0 DEF Found
  <2>4. Matching(m) /\ DOMAIN m = DOMAIN match \cup {x} /\ m[x] = w
    BY <2>0 DEF Found
  <2>5. \A y \in DOMAIN match : m[y] = match[y]
    BY <2>0 DEF Found
  <2>3. x \in DOMAIN dst /\ dst[x] \in V /\ dst[x] \in DOMAIN match /\ match[dst[x]] \in Working
    BY <2>0, <2>1 DEF Found
  <2> QED BY <2>2, <2>3, <2>4, <2>5
<1>2. Working \in SUBSET Nodes /\ Root \in Working
  BY MatchedOnce DEF Types, Working, WorkingOf, Inserted, SrcNodes
<1>3. kids \in [Nodes -> Seq(Nodes)] /\ Once(kids) /\ Aligned(V, kids, match, dstInOrder)
  BY DEF Types, OneTree, Progress
<1>4. w # Root
  <2>1. x # DstRoot /\ DstRoot \in DOMAIN m /\ m[DstRoot] = Root /\ x \in DOMAIN m
    BY <1>1, MatchedOnce
  <2> QED BY <1>1, <2>1, MatchedOnce
<1>5. \A y \in DOMAIN match : y # x => match[y] # w
  BY <1>1, MatchedOnce
<1>6. z \in Nodes /\ w \notin ToSet(s)
  BY <1>1, <1>2, <1>3, ContainsIs
<1>7. Detach(kids, w)[z] = s
  BY <1>3, <1>6, DetachLeaves
<1>8. at \in 0 .. Len(s)
  <2>1. s \in Seq(Nodes)
    BY <1>3, <1>6
  <2> HIDE DEF z
  <2> QED BY <2>1, DstBounded, FindPosIn
<1>9. k = InsertChild(kids, z, w, at)
  BY DEF Visiting
<1> HIDE DEF at
<1>10. Rehung(kids, k, z, w) /\ Behind(s, k[z], w, at)
  <2> HIDE DEF z, s
  <2> QED BY <1>1, <1>3, <1>6, <1>7, <1>8, <1>9, InsertChildAdds
<1> QED BY <1>8, <1>10 DEF at

\* A node that is inserted, or moved to its parent's partner, is put where it belongs.
LEMMA VisitMoves ==
  ASSUME Given, Types, OneTree(kids, Working), NEW V, Progress(V), misplaced = {}, queue # <<>>,
         NEW x, NEW w, NEW m, NEW k, Visiting(x, w, m, k),
         ~(x = DstRoot \/ Contains(kids[match[dst[x]]], w))
  PROVE  Half(V, Working \cup {w}, k, m, srcInOrder \cup {w}, dstInOrder \cup {x})
<1> DEFINE z == match[dst[x]]
           at == FindPos(x, z, kids, match, srcInOrder, dstInOrder)
           s == kids[z]
<1>1. /\ x \in DOMAIN dst /\ dst[x] \in V /\ dst[x] \in DOMAIN match /\ z \in Working
      /\ x \in DstNodes /\ x \notin V /\ w \in Nodes
      /\ Matching(m) /\ DOMAIN m = DOMAIN match \cup {x} /\ m[x] = w
      /\ \A y \in DOMAIN match : m[y] = match[y]
  <2>0. Found(V, x, w, m)
    BY VisitFinds
  <2>1. x # DstRoot
    OBVIOUS
  <2>2. x \in DstNodes /\ x \notin V /\ w \in Nodes
    BY <2>0 DEF Found
  <2>4. Matching(m) /\ DOMAIN m = DOMAIN match \cup {x} /\ m[x] = w
    BY <2>0 DEF Found
  <2>5. \A y \in DOMAIN match : m[y] = match[y]
    BY <2>0 DEF Found
  <2>3. x \in DOMAIN dst /\ dst[x] \in V /\ dst[x] \in DOMAIN match /\ match[dst[x]] \in Working
    BY <2>0, <2>1 DEF Found
  <2> QED BY <2>2, <2>3, <2>4, <2>5
<1>2. Working \in SUBSET Nodes /\ Root \in Working
  BY MatchedOnce DEF Types, Working, WorkingOf, Inserted, SrcNodes
<1>3. kids \in [Nodes -> Seq(Nodes)] /\ Once(kids) /\ Aligned(V, kids, match, dstInOrder)
  BY DEF Types, OneTree, Progress
<1>4. w # Root
  <2>1. x # DstRoot /\ DstRoot \in DOMAIN m /\ m[DstRoot] = Root /\ x \in DOMAIN m
    BY <1>1, MatchedOnce
  <2> QED BY <1>1, <2>1, MatchedOnce
<1>5. \A y \in DOMAIN match : y # x => match[y] # w
  BY <1>1, MatchedOnce
<1>6. z \in Nodes /\ w \notin ToSet(s)
  BY <1>1, <1>2, <1>3, ContainsIs
<1>10. Rehung(kids, k, z, w) /\ Behind(s, k[z], w, at)
  BY VisitRehangs
<1> HIDE DEF at
<1>11. k \in [Nodes -> Seq(Nodes)] /\ Once(k)
  BY <1>10 DEF Rehung
\* Who is listed where.
<1>12. ASSUME NEW c, c # w, NEW p \in Nodes PROVE c \in ToSet(k[p]) <=> c \in ToSet(kids[p])
  <2> HIDE DEF z
  <2>1. CASE p = z
    BY <1>10, <1>12, <2>1 DEF Rehung
  <2>2. CASE p # z
    BY <1>10, <1>12, <2>2 DEF Rehung
  <2> QED BY <2>1, <2>2
<1>13. w \in ToSet(k[z])
  BY <1>10 DEF Rehung
<1>14. \A y \in DOMAIN match : match[y] \in Nodes
  BY MatchedOnce DEF Types
<1>15. OneTree(k, Working \cup {w})
  <2>1. \A v \in V \ {DstRoot} : /\ dst[v] \in V /\ dst[v] < v
                                 /\ match[v] \in ToSet(k[match[dst[v]]])
    <3> SUFFICES ASSUME NEW v \in V, v # DstRoot
                 PROVE  /\ dst[v] \in V /\ dst[v] < v
                        /\ match[v] \in ToSet(k[match[dst[v]]])
      OBVIOUS
    <3>1. dst[v] \in V /\ dst[v] < v /\ match[v] \in ToSet(kids[match[dst[v]]])
      BY VisitedStand
    <3>2. v \in DOMAIN match /\ dst[v] \in DOMAIN match /\ v # x
      BY <1>1, <3>1 DEF Progress, Visited
    <3> QED BY <1>5, <1>12, <1>14, <3>1, <3>2
  <2>2. V \in SUBSET Nat /\ match[DstRoot] = Root
    BY TreesApart, MatchedOnce DEF Types, Progress
  <2>3. \A S : Closed(k, S) => z \in S
    <3> SUFFICES ASSUME NEW S, Closed(k, S) PROVE z \in S
      OBVIOUS
    <3>1. \A v \in V : match[v] \in S
      BY <2>1, <2>2, TopIsReached
    <3> QED BY <1>1, <3>1
  <2> HIDE DEF z
  <2> QED BY <1>1, <1>2, <1>4, <1>10, <2>3, TreeStays
<1>16. Placed(V, k, m, srcInOrder \cup {w}, dstInOrder \cup {x}, {})
  <2>1. \A c \in dstInOrder \cup {x} : c = DstRoot \/ (c \in DOMAIN dst /\ dst[c] \in V)
    BY <1>1, InOrderMatched
  <2>2. ASSUME NEW c \in DOMAIN dst, dst[c] \in V
        PROVE  c \in dstInOrder \cup {x} <=> c \in DOMAIN m /\ m[c] \in ToSet(k[m[dst[c]]])
    <3>1. dst[c] \in DOMAIN match /\ m[dst[c]] = match[dst[c]]
      BY <1>1, <2>2 DEF Progress, Visited
    <3>2. CASE c = x
      BY <1>1, <1>13, <3>1, <3>2
    <3>3. CASE c # x
      <4>1. c \in dstInOrder <=> c \in DOMAIN match /\ match[c] \in ToSet(kids[match[dst[c]]])
        BY <2>2 DEF Progress, Placed
      <4>2. c \in DOMAIN m <=> c \in DOMAIN match
        BY <1>1, <3>3
      <4>3. c \in DOMAIN match =>
              (m[c] \in ToSet(k[m[dst[c]]]) <=> match[c] \in ToSet(kids[match[dst[c]]]))
        BY <1>1, <1>5, <1>12, <1>14, <3>1, <3>3
      <4> QED BY <3>3, <4>1, <4>2, <4>3
    <3> QED BY <3>2, <3>3
  <2>3. ASSUME NEW c \in dstInOrder \cup {x} PROVE m[c] \in srcInOrder \cup {w}
    <3>1. CASE c = x
      BY <1>1, <3>1
    <3>2. CASE c # x
      <4>1. match[c] \in srcInOrder
        BY <3>2 DEF Progress, Placed
      <4>2. c \in DOMAIN match
        BY <3>2, InOrderMatched, MatchedOnce DEF Types
      <4> QED BY <1>1, <4>1, <4>2
    <3> QED BY <3>1, <3>2
  <2> QED BY <2>1, <2>2, <2>3 DEF Placed
<1>17. Aligned(V, k, m, dstInOrder \cup {x})
  <2>1. \A a \in dstInOrder \cap DOMAIN dst :
          /\ a \in DOMAIN match /\ dst[a] \in V /\ dst[a] \in DOMAIN match
          /\ match[a] \in ToSet(kids[match[dst[a]]]) /\ match[a] \in srcInOrder
    BY InOrderMatched, TreesApart
  <2>2. \A a \in dstInOrder \cap DOMAIN dst : m[a] = match[a] /\ m[dst[a]] = match[dst[a]]
    BY <1>1, <2>1
  <2>3. Aligned(V, kids, m, dstInOrder)
    BY <1>3, <2>2 DEF Aligned
  <2>4. m[dst[x]] = z
    BY <1>1
  <2>5. \A a \in dstInOrder : a # x => m[a] # m[x]
    <3>1. \A a \in dstInOrder : a \in DOMAIN m
      BY <1>1, <2>1, InOrderMatched, MatchedOnce DEF Types
    <3> QED BY <1>1, <3>1, MatchedOnce
  <2>6. \A a \in dstInOrder \cap DOMAIN dst : m[dst[a]] \in Nodes
    BY <1>14, <2>1, <2>2
  <2>7. \A a \in dstInOrder \cap DOMAIN dst : a \in Nat
    BY TreesApart DEF DstNodes
  <2>8. x \in Nat
    BY <1>1, TreesApart
  <2>9. ASSUME dst[x] \notin unordered, m[dst[x]] \notin unordered
        PROVE  \A a \in Siblings(x, dstInOrder) :
                 \E i \in 1 .. Len(s) : s[i] = m[a] /\ (i <= at <=> a < x)
    <3>1. \A a \in Siblings(x, dstInOrder) :
            a \in DOMAIN match /\ match[a] \in srcInOrder /\ match[a] \in ToSet(s)
      BY <2>1 DEF Siblings
    <3>2. \A a, b \in Siblings(x, dstInOrder) : a < b => Before(s, match[a], match[b])
      <4> SUFFICES ASSUME NEW a \in Siblings(x, dstInOrder), NEW b \in Siblings(x, dstInOrder), a < b
                   PROVE  Before(s, match[a], match[b])
        OBVIOUS
      <4>1. /\ a \in dstInOrder \cap DOMAIN dst /\ b \in dstInOrder \cap DOMAIN dst
            /\ dst[a] = dst[x] /\ dst[b] = dst[x]
        BY DEF Siblings
      <4> QED BY <1>1, <1>3, <2>4, <2>9, <4>1 DEF Aligned
    <3>3. Alone(s) /\ s \in Seq(Nodes)
      BY <1>3, <1>6, OnceIs
    <3>4. \A a \in Siblings(x, dstInOrder) :
            \E i \in 1 .. Len(s) : s[i] = match[a] /\ (i <= at <=> a < x)
      <4> HIDE DEF z
      <4> QED BY <1>1, <3>1, <3>2, <3>3, DstBounded, FindPosSplits DEF at
    <3>5. \A a \in Siblings(x, dstInOrder) : m[a] = match[a]
      BY <2>2 DEF Siblings
    <3> QED BY <3>4, <3>5
  <2> HIDE DEF z, s
  <2> QED BY <1>1, <1>6, <1>10, <2>3, <2>4, <2>5, <2>6, <2>7, <2>8, <2>9, AlignedStays
<1> QED BY <1>11, <1>15, <1>16, <1>17 DEF Half

-----------------------------------------------------------------------------
\* The children of x are marked.
Marked(V, x, k, m, sIn, dIn, rest) ==
  /\ Placed(V \cup {x}, k, m, sIn, dIn, rest)
  /\ Aligned(V \cup {x}, k, m, dIn)
  /\ V \cup {x} \subseteq dIn
  /\ rest \subseteq DOMAIN dst \ (V \cup {x})

\* A visit, second half: alignChildren marks the children of x that are in sequence.
LEMMA VisitMarks ==
  ASSUME Given, Types, NEW V, Progress(V), NEW x, NEW w, NEW m, NEW k, Found(V, x, w, m),
         NEW sIn, NEW dIn, NEW W, Half(V, W, k, m, sIn, dIn), V \cup {x} \subseteq dIn,
         NEW C, C = Common(x, w, k, m), NEW keep, keep \subseteq C,
         x \notin unordered /\ w \notin unordered => InSequence(keep, w, k, m),
         NEW sNew, sNew = (sIn \ ToSet(k[w])) \cup {m[b] : b \in keep},
         NEW dNew, dNew = (dIn \ ChildSet(dst, x)) \cup keep
  PROVE  Marked(V, x, k, m, sNew, dNew, C \ keep)
<1>1. x \in DstNodes /\ x \notin V /\ w \in Nodes
  BY DEF Found
<1>2. Matching(m) /\ DOMAIN m = DOMAIN match \cup {x} /\ m[x] = w
  BY DEF Found
<1>3. k \in [Nodes -> Seq(Nodes)] /\ Placed(V, k, m, sIn, dIn, {}) /\ Aligned(V, k, m, dIn)
  BY DEF Half
<1>4. Once(k) /\ Tidy(k, W)
  BY DEF Half, OneTree
<1>5. \A c : c \in C <=> c \in DOMAIN m /\ c \in DOMAIN dst /\ dst[c] = x /\ m[c] \in ToSet(k[w])
  BY <1>1, <1>3, ContainsIs DEF Common, ChildSet
<1>6. \A c \in dIn : c = DstRoot \/ (c \in DOMAIN dst /\ dst[c] \in V)
  BY <1>3 DEF Placed
<1>7. dIn \cap ChildSet(dst, x) = {}
  BY <1>1, <1>6, TreesApart DEF ChildSet
<1>8. dNew = dIn \cup keep
  BY <1>7
<1>9. \A v \in V : v \in DOMAIN m
  BY <1>2 DEF Progress, Visited
<1>10. V \cup {x} \subseteq dNew
  BY <1>8
<1>11. C \cap (V \cup {x}) = {}
  <2> SUFFICES ASSUME NEW c \in C, c \in V \cup {x} PROVE FALSE
    OBVIOUS
  <2>1. c \in DOMAIN dst /\ dst[c] = x /\ c # DstRoot
    BY <1>5, TreesApart
  <2>2. c \in dIn
    OBVIOUS
  <2> QED BY <1>1, <1>6, <2>1, <2>2
<1>12. keep \subseteq C
  OBVIOUS
<1>13. Placed(V \cup {x}, k, m, sNew, dNew, C \ keep)
  <2>1. \A c \in dNew \cup (C \ keep) : c = DstRoot \/ (c \in DOMAIN dst /\ dst[c] \in V \cup {x})
    BY <1>5, <1>6, <1>8, <1>12
  <2>2. ASSUME NEW c \in DOMAIN dst, dst[c] \in V \cup {x}
        PROVE  c \in dNew \cup (C \ keep) <=> c \in DOMAIN m /\ m[c] \in ToSet(k[m[dst[c]]])
    <3>1. c \in dNew \cup (C \ keep) <=> c \in dIn \/ c \in C
      BY <1>8, <1>12
    <3>2. CASE dst[c] = x
      <4>1. c \notin dIn
        BY <1>7, <3>2 DEF ChildSet
      <4> QED BY <1>2, <1>5, <3>1, <3>2, <4>1
    <3>3. CASE dst[c] # x
      <4>1. dst[c] \in V /\ c \notin C
        BY <1>5, <2>2, <3>3
      <4>2. c \in dIn <=> c \in DOMAIN m /\ m[c] \in ToSet(k[m[dst[c]]])
        BY <1>3, <4>1 DEF Placed
      <4> QED BY <3>1, <4>1, <4>2
    <3> QED BY <3>2, <3>3
  <2>3. ASSUME NEW c \in dNew PROVE m[c] \in sNew
    <3>1. CASE c \in keep
      BY <3>1
    <3>2. CASE c \notin keep
      <4>1. c \in dIn /\ m[c] \in sIn
        BY <1>3, <1>8, <3>2 DEF Placed
      <4>2. m[c] \notin ToSet(k[w])
        <5>1. CASE c = DstRoot
          <6>1. m[c] = Root
            BY <1>2, <5>1, MatchedOnce
          <6>2. Root \notin ToSet(k[w])
            BY <1>1, <1>4 DEF Tidy
          <6> QED BY <6>1, <6>2
        <5>2. CASE c # DstRoot
          <6>1. c \in DOMAIN dst /\ dst[c] \in V
            BY <1>6, <4>1, <5>2
          <6>2. m[c] \in ToSet(k[m[dst[c]]])
            BY <1>3, <4>1, <6>1 DEF Placed
          <6>3. m[dst[c]] # m[x] /\ m[dst[c]] \in Nodes
            BY <1>1, <1>2, <1>9, <6>1, MatchedOnce
          <6>4. ToSet(k[m[dst[c]]]) \cap ToSet(k[w]) = {}
            BY <1>1, <1>2, <1>3, <1>4, <6>3, OnceIs
          <6> QED BY <6>2, <6>4
        <5> QED BY <5>1, <5>2
      <4> QED BY <4>1, <4>2
    <3> QED BY <3>1, <3>2
  <2> QED BY <2>1, <2>2, <2>3 DEF Placed
<1>14. Aligned(V \cup {x}, k, m, dNew)
  <2> SUFFICES ASSUME NEW a \in dNew \cap DOMAIN dst, NEW b \in dNew \cap DOMAIN dst,
                      a < b, dst[a] = dst[b], dst[a] \in V \cup {x},
                      dst[a] \notin unordered, m[dst[a]] \notin unordered
               PROVE  Before(k[m[dst[a]]], m[a], m[b])
    BY DEF Aligned
  <2>1. CASE dst[a] = x
    <3>1. a \in keep /\ b \in keep
      BY <1>7, <1>8, <2>1 DEF ChildSet
    <3>2. InSequence(keep, w, k, m)
      BY <1>2, <2>1
    <3> QED BY <1>2, <2>1, <3>1, <3>2 DEF InSequence
  <2>2. CASE dst[a] # x
    <3>1. a \in dIn /\ b \in dIn /\ dst[a] \in V
      BY <1>5, <1>8, <1>12, <2>2
    <3> QED BY <1>3, <3>1 DEF Aligned
  <2> QED BY <2>1, <2>2
<1> QED BY <1>5, <1>10, <1>11, <1>13, <1>14 DEF Marked

\* The queue after a visit.
LEMMA FrontierMoves ==
  ASSUME Given, Types, NEW V, Progress(V), queue # <<>>, NEW x, x = Head(queue),
         x \in DstNodes, x \notin V
  PROVE  /\ Frontier(V \cup {x}, Tail(queue) \o Children(dst, x))
         /\ Tail(queue) \o Children(dst, x) \in Seq(DstNodes)
<1> DEFINE s == Children(dst, x)
           q == Tail(queue) \o s
<1>1. s \in Seq(ChildSet(dst, x)) /\ ToSet(s) = ChildSet(dst, x) /\ Alone(s)
  BY DstBounded, ChildrenAre
<1> HIDE DEF s
<1>2. ChildSet(dst, x) \subseteq DstNodes
  BY DEF ChildSet, DstNodes
<1>3. s \in Seq(DstNodes)
  BY <1>1, <1>2, SeqMonotonic
<1>4. Frontier(V, queue) /\ queue \in Seq(DstNodes)
  BY DEF Progress, Types
<1>5. Alone(queue) /\ V \cap ToSet(queue) = {} /\ DstRoot \in V \cup ToSet(queue)
  BY <1>4 DEF Frontier
<1>6. \A c \in DOMAIN dst : dst[c] \in V <=> c \in V \cup ToSet(queue)
  BY <1>4 DEF Frontier
<1>7. ToSet(queue) \cap ToSet(s) = {}
  BY <1>1, <1>6 DEF ChildSet
<1>8. /\ q \in Seq(DstNodes)
      /\ Alone(q)
      /\ ToSet(q) = (ToSet(queue) \ {x}) \cup ToSet(s)
      /\ x \in ToSet(queue)
  <2>1. /\ Tail(queue) \o s \in Seq(DstNodes)
        /\ Alone(Tail(queue) \o s)
        /\ ToSet(Tail(queue) \o s) = (ToSet(queue) \ {Head(queue)}) \cup ToSet(s)
        /\ Head(queue) \in DstNodes /\ Head(queue) \in ToSet(queue)
    <3> HIDE DEF q
    <3> QED BY <1>1, <1>3, <1>4, <1>5, <1>7, QueueMoves
  <2> QED BY <2>1
<1> HIDE DEF q
<1>9. x \notin ToSet(s)
  BY <1>7, <1>8
<1>10. V \cap ToSet(s) = {}
  BY <1>1, <1>6 DEF ChildSet
<1>11. (V \cup {x}) \cap ToSet(q) = {}
  BY <1>5, <1>8, <1>9, <1>10
<1>12. \A c \in DOMAIN dst : dst[c] \in V \cup {x} <=> c \in (V \cup {x}) \cup ToSet(q)
  <2> TAKE c \in DOMAIN dst
  <2>1. dst[c] = x <=> c \in ToSet(s)
    BY <1>1 DEF ChildSet
  <2> QED BY <1>6, <1>8, <2>1
<1>13. DstRoot \in (V \cup {x}) \cup ToSet(q)
  BY <1>5, <1>8
<1> QED BY <1>8, <1>11, <1>12, <1>13 DEF Frontier, q, s

-----------------------------------------------------------------------------
\* How often nodes are moved.

\* The children of a source node are source nodes and not the root.
LEMMA HomesAre ==
  ASSUME Given
  PROVE  /\ \A n \in DOMAIN src : src[n] \in SrcNodes /\ src[n] \in Nodes /\ n \in SrcNodes /\ n \in Nat
         /\ \A c \in DOMAIN partner \ {DstRoot} :
              partner[c] \in DOMAIN src /\ partner[c] \in Nodes /\ c \in DOMAIN dst
<1>1. \A n \in DOMAIN src : src[n] \in SrcNodes /\ n \in SrcNodes
  BY DEF Given, SrcNodes
<1>2. \A n \in SrcNodes : n \in Nat /\ n \in Nodes
  BY TreesApart DEF Nodes
<1>3. \A c \in DOMAIN partner \ {DstRoot} : partner[c] \in SrcNodes /\ partner[c] # Root /\ c \in DOMAIN dst
  BY DEF Given, DstNodes
<1>4. \A c \in DOMAIN partner \ {DstRoot} : partner[c] \in DOMAIN src
  BY <1>3 DEF SrcNodes
<1> QED BY <1>1, <1>2, <1>3, <1>4

\* Whoever stays keeps its parent.
LEMMA StayingIs ==
  ASSUME Given, NEW c, NEW x
  PROVE  c \in Staying(x) <=> /\ c \in DOMAIN partner \ {DstRoot} /\ dst[c] = x
                              /\ x \in DOMAIN partner /\ src[partner[c]] = partner[x]
BY DEF Staying

\* Hanging up one node elsewhere leaves those alone that have not been moved.
LEMMA OthersAtHome ==
  ASSUME Given, NEW k, NEW r, NEW p, NEW w, Rehung(k, r, p, w), NEW mv, AtHome(k, mv),
         NEW new, \A n \in DOMAIN src : new[n] = 0 => mv[n] = 0 /\ n # w
  PROVE  AtHome(r, new)
<1>1. \A n \in DOMAIN src : src[n] \in Nodes
  BY HomesAre
<1>2. ASSUME NEW n \in DOMAIN src, new[n] = 0 PROVE n \in ToSet(r[src[n]])
  <2>1. n \in ToSet(k[src[n]]) /\ n # w
    BY <1>2 DEF AtHome
  <2>2. CASE src[n] = p
    BY <2>1, <2>2 DEF Rehung
  <2>3. CASE src[n] # p
    BY <1>1, <2>1, <2>3 DEF Rehung
  <2> QED BY <2>2, <2>3
<1>3. ASSUME NEW a \in DOMAIN src, NEW b \in DOMAIN src, a < b, src[a] = src[b], new[a] = 0, new[b] = 0
      PROVE  Before(r[src[a]], a, b)
  <2>1. Before(k[src[a]], a, b) /\ a # w /\ b # w
    BY <1>3 DEF AtHome
  <2> QED BY <1>1, <2>1 DEF Rehung
<1> QED BY <1>2, <1>3 DEF AtHome

\* A node that has been moved once is the partner of a visited or realigned one.
Count(V, R) == [n \in Nodes |-> IF \E c \in Shifted(V) \cup R : partner[c] = n THEN 1 ELSE 0]

\* A mapped node has been moved if it is one of these.
LEMMA CountIs ==
  ASSUME Given, NEW V \in SUBSET DstNodes, NEW R, R \subseteq StayingOf(V),
         NEW c \in DOMAIN partner \ {DstRoot}
  PROVE  /\ Count(V, R)[partner[c]] \in {0, 1}
         /\ Count(V, R)[partner[c]] = 1 <=> c \in Shifted(V) \cup R
<1>1. partner[c] \in Nodes
  BY HomesAre
<1>2. \A d \in Shifted(V) \cup R : d \in DOMAIN partner
  BY DEF Shifted, StayingOf
<1>3. (\E d \in Shifted(V) \cup R : partner[d] = partner[c]) <=> c \in Shifted(V) \cup R
  BY <1>2 DEF Given
<1> QED BY <1>1, <1>3 DEF Count

\* Before its parent has been visited a node has not been moved, or kept in place.
LEMMA Untouched ==
  ASSUME Given, Types, NEW V \in SUBSET DstNodes, Progress(V), NEW R, R \subseteq StayingOf(V),
         NEW x \in DstNodes, x \notin V, NEW c \in DOMAIN dst, dst[c] = x
  PROVE  c \notin V /\ c # x /\ c \notin Shifted(V) \cup R /\ c \notin Shifted(V \cup {x})
<1>1. c # DstRoot
  BY TreesApart
<1>2. c \notin V
  BY <1>1, VisitedStand
<1>3. c # x
  <2>1. dst[c] < c /\ c \in Nat /\ x \in Nat
    BY TreesApart DEF Given, DstNodes
  <2> QED BY <2>1
<1>4. c \notin R
  BY DEF StayingOf
<1> QED BY <1>2, <1>3, <1>4 DEF Shifted

\* The node visited stays under its parent's partner exactly if both trees have it there.
LEMMA StaysIs ==
  ASSUME Given, Types, OneTree(kids, Working), NEW V \in SUBSET DstNodes, Progress(V),
         NEW R, Thrift(V, R, kids, moves, misplaced),
         NEW x \in DOMAIN partner \ {DstRoot}, x \notin V, dst[x] \in V
  PROVE  partner[x] \in ToSet(kids[match[dst[x]]]) <=> x \in Staying(dst[x])
<1>1. /\ R \subseteq StayingOf(V) /\ moves = Count(V, R) /\ AtHome(kids, moves)
      /\ \A c \in R : partner[c] \in ToSet(kids[partner[dst[c]]])
  BY DEF Thrift, Count
<1>2. /\ moves[partner[x]] \in {0, 1}
      /\ moves[partner[x]] = 1 <=> x \in R
  <2>1. x \notin Shifted(V)
    BY DEF Shifted
  <2> QED BY <1>1, <2>1, CountIs
<1>3. partner[x] \in DOMAIN src /\ src[partner[x]] \in SrcNodes /\ src[partner[x]] \in Nodes
  BY HomesAre
<1>4. /\ dst[x] \in DOMAIN match /\ match[dst[x]] \in Nodes
      /\ match[dst[x]] = IF dst[x] \in DOMAIN partner THEN partner[dst[x]] ELSE dst[x]
  <2>1. dst[x] \in DOMAIN match
    BY DEF Progress, Visited
  <2>2. match[dst[x]] \in Nodes
    BY <2>1, MatchedOnce DEF Types
  <2> QED BY <2>1, <2>2 DEF Types, Matching
<1>5. CASE moves[partner[x]] = 0
  <2>1. partner[x] \in ToSet(kids[src[partner[x]]])
    BY <1>1, <1>3, <1>5 DEF AtHome
  <2>2. partner[x] \in ToSet(kids[match[dst[x]]]) <=> match[dst[x]] = src[partner[x]]
    <3>1. match[dst[x]] # src[partner[x]] =>
            ToSet(kids[match[dst[x]]]) \cap ToSet(kids[src[partner[x]]]) = {}
      BY <1>3, <1>4, OnceIs DEF Types, OneTree
    <3> QED BY <2>1, <3>1
  <2>3. match[dst[x]] = src[partner[x]] <=>
          dst[x] \in DOMAIN partner /\ partner[dst[x]] = src[partner[x]]
    <3>1. dst[x] \in DstNodes /\ SrcNodes \cap DstNodes = {}
      BY TreesApart
    <3> QED BY <1>3, <1>4, <3>1
  <2> QED BY <2>2, <2>3, StayingIs
<1>6. CASE moves[partner[x]] = 1
  <2>1. x \in R
    BY <1>2, <1>6
  <2>2. x \in Staying(dst[x]) /\ partner[x] \in ToSet(kids[partner[dst[x]]])
    BY <1>1, <2>1 DEF StayingOf
  <2>3. dst[x] \in DOMAIN partner
    BY <2>2, StayingIs
  <2> QED BY <1>4, <2>2, <2>3
<1> QED BY <1>2, <1>5, <1>6

\* The nodes that stay where they are listed stay listed when another one is hung up elsewhere.
LEMMA OthersInPlace ==
  ASSUME Given, NEW k, NEW r, NEW p, NEW w, Rehung(k, r, p, w),
         NEW c, c \in DOMAIN partner, NEW y \in DOMAIN partner,
         partner[c] \in ToSet(k[partner[y]]), partner[c] # w
  PROVE  partner[c] \in ToSet(r[partner[y]])
<1>1. partner[y] \in Nodes
  BY DEF Given, Nodes
<1>2. CASE partner[y] = p
  BY <1>2 DEF Rehung
<1>3. CASE partner[y] # p
  BY <1>1, <1>3 DEF Rehung
<1> QED BY <1>2, <1>3

\* The counter of the moves after a visit.
Moving(x, w, new) ==
  new = IF (x = DstRoot \/ Contains(kids[match[dst[x]]], w)) \/ x \notin DOMAIN match
        THEN moves ELSE [moves EXCEPT ![w] = @ + 1]

\* What a visit does to the moves: x's partner is moved exactly if its parent changes.
LEMMA VisitCounts ==
  ASSUME Given, Types, OneTree(kids, Working), NEW V \in SUBSET DstNodes, Progress(V),
         misplaced = {}, queue # <<>>, NEW R, Thrift(V, R, kids, moves, misplaced),
         NEW x, NEW w, NEW m, NEW k, Visiting(x, w, m, k),
         NEW new, Moving(x, w, new)
  PROVE  /\ new = Count(V \cup {x}, R)
         /\ AtHome(k, new)
         /\ \A c \in R : partner[c] \in ToSet(k[partner[dst[c]]])
<1>1. /\ R \subseteq StayingOf(V) /\ moves = Count(V, R) /\ AtHome(kids, moves)
      /\ \A c \in R : partner[c] \in ToSet(kids[partner[dst[c]]])
  BY DEF Thrift, Count
<1>2. /\ x \in DstNodes /\ x \notin V /\ w \in Nodes
      /\ x # DstRoot => /\ x \in DOMAIN dst /\ dst[x] \in V /\ dst[x] \in DOMAIN match
                        /\ match[dst[x]] \in Working
  BY VisitFinds DEF Found
<1>3. x \in DOMAIN match <=> x \in DOMAIN partner
  BY <1>2 DEF Progress, Visited
<1>4. w = IF x \in DOMAIN partner THEN partner[x] ELSE x
  <2>1. x \in DOMAIN match => match[x] = IF x \in DOMAIN partner THEN partner[x] ELSE x
    BY DEF Types, Matching
  <2> QED BY <1>3, <2>1 DEF Visiting
<1>5. x # DstRoot => (Contains(kids[match[dst[x]]], w) <=> w \in ToSet(kids[match[dst[x]]]))
  <2>1. x # DstRoot => match[dst[x]] \in Nodes
    BY <1>2, MatchedOnce DEF Types
  <2> QED BY <2>1, ContainsIs DEF Types
<1>6. \A c \in R : c \in DOMAIN partner /\ dst[c] \in DOMAIN partner /\ c # DstRoot
  BY <1>1, StayingIs DEF StayingOf
<1>7. Shifted(V \cup {x}) = Shifted(V) \cup
        (IF x # DstRoot /\ x \in DOMAIN partner /\ x \notin Staying(dst[x]) THEN {x} ELSE {})
  BY DEF Shifted
<1>8. CASE x = DstRoot
  <2>1. new = moves /\ k = kids
    BY <1>8 DEF Visiting, Moving
  <2>2. Shifted(V \cup {x}) = Shifted(V)
    BY <1>7, <1>8
  <2> QED BY <1>1, <2>1, <2>2 DEF Count
<1>9. CASE x # DstRoot /\ x \notin DOMAIN partner
  <2>1. new = moves
    BY <1>3, <1>9 DEF Moving
  <2>2. Shifted(V \cup {x}) = Shifted(V)
    BY <1>7, <1>9
  <2>3. w = x /\ w \notin DOMAIN src /\ \A c \in DOMAIN partner : partner[c] # w
    BY <1>2, <1>4, <1>9, TreesApart, HomesAre DEF Given
  <2>4. CASE w \in ToSet(kids[match[dst[x]]])
    <3>1. k = kids
      BY <1>5, <1>9, <2>4 DEF Visiting
    <3> QED BY <1>1, <2>1, <2>2, <3>1 DEF Count
  <2>5. CASE w \notin ToSet(kids[match[dst[x]]])
    <3>1. Rehung(kids, k, match[dst[x]], w)
      BY <1>5, <1>9, <2>5, VisitRehangs
    <3>2. AtHome(k, moves)
      BY <1>1, <2>3, <3>1, OthersAtHome
    <3>3. \A c \in R : partner[c] \in ToSet(k[partner[dst[c]]])
      BY <1>1, <1>6, <2>3, <3>1, OthersInPlace
    <3> QED BY <1>1, <2>1, <2>2, <3>2, <3>3 DEF Count
  <2> QED BY <2>4, <2>5
<1>10. CASE x # DstRoot /\ x \in DOMAIN partner
  <2>1. w = partner[x] /\ w \in Nodes /\ x \in DOMAIN match
    BY <1>2, <1>3, <1>4, <1>10
  <2>2. w \in ToSet(kids[match[dst[x]]]) <=> x \in Staying(dst[x])
    BY <1>2, <1>10, <2>1, StaysIs
  <2>3. CASE x \in Staying(dst[x])
    <3>1. k = kids /\ new = moves
      BY <1>5, <1>10, <2>2, <2>3 DEF Visiting, Moving
    <3>2. Shifted(V \cup {x}) = Shifted(V)
      BY <1>7, <2>3
    <3> QED BY <1>1, <3>1, <3>2 DEF Count
  <2>4. CASE x \notin Staying(dst[x])
    <3>1. new = [moves EXCEPT ![w] = @ + 1]
      BY <1>5, <1>10, <2>1, <2>2, <2>4 DEF Moving
    <3>2. Rehung(kids, k, match[dst[x]], w)
      BY <1>5, <1>10, <2>2, <2>4, VisitRehangs
    <3>3. x \notin R
      BY <1>1, <2>4 DEF StayingOf
    <3>4. Shifted(V \cup {x}) = Shifted(V) \cup {x} /\ x \notin Shifted(V)
      BY <1>2, <1>7, <1>10, <2>4 DEF Shifted
    <3>5. \A c \in Shifted(V) \cup R : c \in DOMAIN partner /\ c # x
      BY <1>6, <3>3, <3>4 DEF Shifted
    <3>6. \A c \in Shifted(V) \cup R : partner[c] # w
      BY <1>10, <2>1, <3>5 DEF Given
    <3>7. new = Count(V \cup {x}, R)
      <4>1. \A n \in Nodes : (\E c \in Shifted(V \cup {x}) \cup R : partner[c] = n)
                         <=> n = w \/ \E c \in Shifted(V) \cup R : partner[c] = n
        BY <2>1, <3>4
      <4>2. moves = [n \in Nodes |-> IF \E c \in Shifted(V) \cup R : partner[c] = n THEN 1 ELSE 0]
        BY <1>1 DEF Count
      <4>3. moves[w] = 0
        BY <2>1, <3>6, <4>2
      <4>4. new = [n \in Nodes |-> IF n = w THEN 1 ELSE moves[n]]
        BY <3>1, <4>2, <4>3
      <4>5. \A n \in Nodes : (IF n = w THEN 1 ELSE moves[n])
                = IF \E c \in Shifted(V \cup {x}) \cup R : partner[c] = n THEN 1 ELSE 0
        <5> TAKE n \in Nodes
        <5>1. moves[n] = IF \E c \in Shifted(V) \cup R : partner[c] = n THEN 1 ELSE 0
          BY <4>2
        <5> QED BY <4>1, <5>1
      <4>6. [n \in Nodes |-> IF n = w THEN 1 ELSE moves[n]] = Count(V \cup {x}, R)
        <5> DEFINE one(n) == IF n = w THEN 1 ELSE moves[n]
                   other(n) == IF \E c \in Shifted(V \cup {x}) \cup R : partner[c] = n THEN 1 ELSE 0
        <5>1. \A n \in Nodes : one(n) = other(n)
          BY <4>5
        <5> HIDE DEF one, other
        <5>2. [n \in Nodes |-> one(n)] = [n \in Nodes |-> other(n)]
          BY <5>1
        <5> QED BY <5>2 DEF Count, one, other
      <4> QED BY <4>4, <4>6
    <3>8. AtHome(k, new)
      <4>1. \A n \in DOMAIN src : new[n] = 0 => moves[n] = 0 /\ n # w
        <5>1. \A n \in DOMAIN src : n \in Nodes
          BY HomesAre DEF Nodes
        <5>2. new[w] = 1
          <6>1. x \in Shifted(V \cup {x}) \cup R
            BY <3>4
          <6> QED BY <2>1, <3>7, <6>1 DEF Count
        <5>3. \A n \in Nodes : n # w => new[n] = moves[n]
          BY <1>1, <3>1 DEF Count
        <5> QED BY <5>1, <5>2, <5>3
      <4> QED BY <1>1, <3>2, <4>1, OthersAtHome
    <3>9. \A c \in R : partner[c] \in ToSet(k[partner[dst[c]]])
      BY <1>1, <1>6, <3>2, <3>6, OthersInPlace
    <3> QED BY <3>7, <3>8, <3>9
  <2> QED BY <2>3, <2>4
<1> QED BY <1>8, <1>9, <1>10

\* The children of x whose partners alignChildren finds under w are those that stay.
LEMMA CommonAre ==
  ASSUME Given, Types, NEW V \in SUBSET DstNodes, Progress(V), NEW R, R \subseteq StayingOf(V),
         NEW x, NEW w, NEW m, NEW k, Found(V, x, w, m),
         k \in [Nodes -> Seq(Nodes)], Once(k), AtHome(k, Count(V \cup {x}, R))
  PROVE  /\ Common(x, w, k, m) = Staying(x)
         /\ \A a, b \in Staying(x) : a < b =>
              (Before(k[w], m[a], m[b]) <=> partner[a] < partner[b])
<1> DEFINE mv == Count(V \cup {x}, R)
<1>1. /\ x \in DstNodes /\ x \notin V /\ w \in Nodes /\ V \cup {x} \in SUBSET DstNodes
      /\ DOMAIN m = DOMAIN match \cup {x} /\ Matching(m) /\ m[x] = w
  BY DEF Found
<1>2. DOMAIN m = DOMAIN partner \cup V \cup {x}
  BY <1>1 DEF Progress, Visited
<1>3. R \subseteq StayingOf(V \cup {x})
  BY DEF StayingOf
<1>4. ASSUME NEW c \in DOMAIN dst, dst[c] = x
      PROVE  /\ c \notin V /\ c # x /\ c # DstRoot
             /\ c \in DOMAIN partner => mv[partner[c]] = 0
  <2>1. c \notin V /\ c # x /\ c \notin Shifted(V \cup {x}) \cup R
    <3> HIDE DEF mv
    <3>1. c \notin V /\ c # x /\ c \notin Shifted(V) \cup R /\ c \notin Shifted(V \cup {x})
      BY <1>1, <1>4, Untouched
    <3> QED BY <3>1
  <2>2. c # DstRoot
    BY TreesApart
  <2>3. c \in DOMAIN partner => mv[partner[c]] \in {0, 1} /\ mv[partner[c]] # 1
    BY <1>1, <1>3, <2>1, <2>2, CountIs
  <2> QED BY <2>1, <2>2, <2>3
<1> HIDE DEF mv
<1>5. AtHome(k, mv)
  BY DEF mv
<1>6. \A c \in DOMAIN m : m[c] = IF c \in DOMAIN partner THEN partner[c] ELSE c
  BY <1>1 DEF Matching
<1>7. ASSUME NEW c \in DOMAIN partner, c \in DOMAIN dst, dst[c] = x
      PROVE  partner[c] \in ToSet(k[w]) <=> c \in Staying(x)
  <2>1. c # DstRoot /\ mv[partner[c]] = 0
    BY <1>4, <1>7
  <2>2. /\ partner[c] \in DOMAIN src /\ src[partner[c]] \in SrcNodes /\ src[partner[c]] \in Nodes
    BY <2>1, HomesAre
  <2>3. partner[c] \in ToSet(k[src[partner[c]]])
    BY <1>5, <2>1, <2>2 DEF AtHome
  <2>4. partner[c] \in ToSet(k[w]) <=> w = src[partner[c]]
    <3>1. w # src[partner[c]] => ToSet(k[w]) \cap ToSet(k[src[partner[c]]]) = {}
      BY <1>1, <2>2, OnceIs
    <3> QED BY <2>3, <3>1
  <2>5. w = src[partner[c]] <=> x \in DOMAIN partner /\ partner[x] = src[partner[c]]
    <3>1. SrcNodes \cap DstNodes = {} /\ x \in DOMAIN m
      BY <1>2, TreesApart
    <3> QED BY <1>1, <1>6, <2>2, <3>1
  <2> QED BY <1>7, <2>1, <2>4, <2>5, StayingIs
<1>8. ASSUME NEW c PROVE c \in Common(x, w, k, m) <=> c \in Staying(x)
  <2>1. c \in Common(x, w, k, m) <=> c \in DOMAIN m /\ c \in DOMAIN dst /\ dst[c] = x /\ m[c] \in ToSet(k[w])
    BY <1>1, ContainsIs DEF Common, ChildSet
  <2>2. c \in Staying(x) => c \in DOMAIN partner /\ c \in DOMAIN dst /\ dst[c] = x
    BY StayingIs, HomesAre
  <2>3. c \in DOMAIN dst /\ dst[c] = x => (c \in DOMAIN m <=> c \in DOMAIN partner)
    BY <1>2, <1>4
  <2> QED BY <1>2, <1>6, <1>7, <2>1, <2>2, <2>3
<1>9. ASSUME NEW a \in Staying(x), NEW b \in Staying(x), a < b
      PROVE  Before(k[w], m[a], m[b]) <=> partner[a] < partner[b]
  <2>1. /\ a \in DOMAIN partner \ {DstRoot} /\ b \in DOMAIN partner \ {DstRoot} /\ dst[a] = x /\ dst[b] = x
        /\ x \in DOMAIN partner /\ src[partner[a]] = partner[x] /\ src[partner[b]] = partner[x]
    BY StayingIs
  <2>2. /\ partner[a] \in DOMAIN src /\ partner[b] \in DOMAIN src /\ a \in DOMAIN dst /\ b \in DOMAIN dst
        /\ partner[a] \in Nat /\ partner[b] \in Nat
    BY <2>1, HomesAre
  <2>3. mv[partner[a]] = 0 /\ mv[partner[b]] = 0
    BY <1>4, <2>1, <2>2
  <2>4. m[a] = partner[a] /\ m[b] = partner[b] /\ w = partner[x]
    BY <1>1, <1>2, <1>6, <2>1
  <2>5. partner[a] # partner[b]
    <3>1. a \in Nat /\ b \in Nat
      BY <2>2, TreesApart DEF DstNodes
    <3> QED BY <1>9, <2>1, <3>1 DEF Given
  <2>6. partner[a] < partner[b] => Before(k[w], partner[a], partner[b])
    BY <1>5, <2>1, <2>2, <2>3, <2>4 DEF AtHome
  <2>7. partner[b] < partner[a] => Before(k[w], partner[b], partner[a])
    BY <1>5, <2>1, <2>2, <2>3, <2>4 DEF AtHome
  <2>8. ~(Before(k[w], partner[a], partner[b]) /\ Before(k[w], partner[b], partner[a]))
    <3>1. Alone(k[w]) /\ k[w] \in Seq(Nodes)
      BY <1>1, OnceIs
    <3>2. Len(k[w]) \in Nat
      BY <3>1, LenProperties
    <3> SUFFICES ASSUME NEW i \in 1 .. Len(k[w]), NEW j \in 1 .. Len(k[w]), i < j,
                        k[w][i] = partner[a], k[w][j] = partner[b],
                        NEW p \in 1 .. Len(k[w]), NEW q \in 1 .. Len(k[w]), p < q,
                        k[w][p] = partner[b], k[w][q] = partner[a]
                 PROVE  FALSE
      BY DEF Before
    <3>3. i = q /\ j = p
      BY <3>1 DEF Alone
    <3> QED BY <3>2, <3>3
  <2> QED BY <2>2, <2>4, <2>5, <2>6, <2>7, <2>8
<1> QED BY <1>8, <1>9

\* Where order counts is known before the visit.
LEMMA SortedIs ==
  ASSUME Given, NEW m, Matching(m), NEW x \in DOMAIN m
  PROVE  Sorted(x) <=> x \notin unordered /\ m[x] \notin unordered
<1>1. m[x] = IF x \in DOMAIN partner THEN partner[x] ELSE x
  BY DEF Matching
<1> QED BY <1>1 DEF Sorted

\* What lcs picks is, where it is sure to find a longest sequence, a best choice of those
\* that may stay.
LEMMA KeepsBest ==
  ASSUME NEW x, NEW w, NEW k, NEW m,
         \A a, b \in Staying(x) : a < b => (Before(k[w], m[a], m[b]) <=> partner[a] < partner[b]),
         Sorted(x) <=> x \notin unordered /\ w \notin unordered,
         NEW keep \in IF x \in unordered \/ w \in unordered THEN {Staying(x)}
                     ELSE Longest(Staying(x), w, k, m)
  PROVE  keep \subseteq Staying(x) /\ Best(x, keep)
<1>1. \A S \in SUBSET Staying(x) : InSequence(S, w, k, m) <=> KeepsOrder(S)
  BY DEF InSequence, KeepsOrder
<1>2. CASE ~Sorted(x)
  BY <1>2 DEF Best
<1>3. CASE Sorted(x)
  <2>1. /\ keep \in SUBSET Staying(x) /\ InSequence(keep, w, k, m)
        /\ Cardinality(Staying(x)) <= SureSize =>
             \A S \in SUBSET Staying(x) : InSequence(S, w, k, m) => Cardinality(S) <= Cardinality(keep)
    BY <1>3 DEF Longest
  <2> QED BY <1>1, <1>3, <2>1 DEF Best
<1> QED BY <1>2, <1>3

\* A visit makes no move that is not needed.
LEMMA VisitThrift ==
  ASSUME Given, Types, OneTree(kids, Working), NEW V \in SUBSET DstNodes, Progress(V),
         misplaced = {}, queue # <<>>, NEW R, Thrift(V, R, kids, moves, misplaced),
         NEW x, NEW w, NEW m, NEW k, Visiting(x, w, m, k), Found(V, x, w, m),
         k \in [Nodes -> Seq(Nodes)], Once(k),
         NEW new, Moving(x, w, new),
         NEW C, C = Common(x, w, k, m),
         NEW keep \in IF x \in unordered \/ w \in unordered THEN {C} ELSE Longest(C, w, k, m)
  PROVE  Thrift(V \cup {x}, R, k, new, C \ keep)
<1>1. R \subseteq StayingOf(V) /\ \A y \in V : Best(y, Staying(y) \ (R \cup misplaced))
  BY DEF Thrift
<1>2. /\ new = Count(V \cup {x}, R)
      /\ AtHome(k, new)
      /\ \A c \in R : partner[c] \in ToSet(k[partner[dst[c]]])
  BY VisitCounts
<1>3. /\ x \in DstNodes /\ x \notin V /\ Matching(m) /\ x \in DOMAIN m /\ m[x] = w
  BY DEF Found
<1>4. /\ C = Staying(x)
      /\ \A a, b \in C : a < b => (Before(k[w], m[a], m[b]) <=> partner[a] < partner[b])
  <2>1. AtHome(k, Count(V \cup {x}, R))
    BY <1>2
  <2>2. /\ Common(x, w, k, m) = Staying(x)
        /\ \A a, b \in Staying(x) : a < b =>
              (Before(k[w], m[a], m[b]) <=> partner[a] < partner[b])
    BY <1>1, <2>1, CommonAre
  <2> QED BY <2>2
<1>5. keep \subseteq C /\ Best(x, keep)
  <2>1. Sorted(x) <=> x \notin unordered /\ w \notin unordered
    BY <1>3, SortedIs
  <2>2. \A a, b \in Staying(x) : a < b =>
              (Before(k[w], m[a], m[b]) <=> partner[a] < partner[b])
    BY <1>4
  <2>3. keep \in IF x \in unordered \/ w \in unordered THEN {Staying(x)}
                 ELSE Longest(Staying(x), w, k, m)
    BY <1>4
  <2> QED BY <1>4, <2>1, <2>2, <2>3, KeepsBest
<1>6. \A c \in R : dst[c] \in V
  BY <1>1 DEF StayingOf
<1>7. \A c \in C : dst[c] = x /\ c \in DOMAIN partner \ {DstRoot}
  BY <1>4, StayingIs
<1>8. R \subseteq StayingOf(V \cup {x}) /\ C \ keep \subseteq StayingOf(V \cup {x}) \ R
  <2>1. R \subseteq StayingOf(V \cup {x})
    BY <1>1 DEF StayingOf
  <2>2. C \cap R = {}
    BY <1>3, <1>6, <1>7
  <2>3. C \subseteq StayingOf(V \cup {x})
    BY <1>4, <1>7 DEF StayingOf
  <2> QED BY <2>1, <2>2, <2>3
<1>9. ASSUME NEW y \in V \cup {x} PROVE Best(y, Staying(y) \ (R \cup (C \ keep)))
  <2>1. CASE y = x
    <3>1. Staying(x) \ (R \cup (C \ keep)) = keep
      BY <1>3, <1>4, <1>5, <1>6, <1>7
    <3> QED BY <1>5, <2>1, <3>1
  <2>2. CASE y # x
    <3>1. y \in V /\ \A c \in Staying(y) : c \notin C
      BY <1>7, <2>2, StayingIs
    <3>2. Staying(y) \ (R \cup (C \ keep)) = Staying(y) \ (R \cup misplaced)
      BY <3>1
    <3> QED BY <1>1, <3>1, <3>2
  <2> QED BY <2>1, <2>2
<1>10. new = [n \in Nodes |-> IF \E c \in Shifted(V \cup {x}) \cup R : partner[c] = n THEN 1 ELSE 0]
  BY <1>2 DEF Count
<1> QED BY <1>2, <1>8, <1>9, <1>10 DEF Thrift

\* The counter of the moves with one move more.
MovesOne(n, new) == new = [moves EXCEPT ![n] = @ + 1]

\* Neither does alignChildren.
LEMMA RealignThrift ==
  ASSUME Given, Types, NEW V \in SUBSET DstNodes, Progress(V),
         NEW R, Thrift(V, R, kids, moves, misplaced),
         NEW b \in misplaced, NEW r, Rehung(kids, r, match[dst[b]], match[b]),
         NEW new, MovesOne(match[b], new)
  PROVE  Thrift(V, R \cup {b}, r, new, misplaced \ {b})
<1>1. /\ R \subseteq StayingOf(V) /\ misplaced \subseteq StayingOf(V) \ R
      /\ AtHome(kids, moves)
      /\ moves = [n \in Nodes |-> IF \E c \in Shifted(V) \cup R : partner[c] = n THEN 1 ELSE 0]
      /\ \A c \in R : partner[c] \in ToSet(kids[partner[dst[c]]])
      /\ \A x \in V : Best(x, Staying(x) \ (R \cup misplaced))
  BY DEF Thrift
<1>2. /\ b \in StayingOf(V) /\ b \notin R /\ b \notin Shifted(V)
      /\ b \in DOMAIN partner \ {DstRoot} /\ dst[b] \in DOMAIN partner
  <2>1. b \in StayingOf(V) /\ b \notin R
    BY <1>1
  <2>2. b \in Staying(dst[b]) /\ b \in DOMAIN partner \ {DstRoot}
    BY <2>1 DEF StayingOf
  <2>3. dst[b] \in DOMAIN partner
    BY <2>2, StayingIs
  <2> QED BY <2>1, <2>2, <2>3 DEF Shifted
<1> DEFINE a == partner[b]
<1>3. match[b] = a /\ match[dst[b]] = partner[dst[b]]
  BY <1>2 DEF Types, Matching
<1>4. a \in Nodes
  BY <1>2, HomesAre
<1>5. \A c \in Shifted(V) \cup R : c \in DOMAIN partner /\ partner[c] # a
  BY <1>1, <1>2 DEF Given, Shifted, StayingOf
<1>6. new = [n \in Nodes |-> IF \E c \in Shifted(V) \cup (R \cup {b}) : partner[c] = n THEN 1 ELSE 0]
  <2> DEFINE P(n) == \E c \in Shifted(V) \cup R : partner[c] = n
             Q(n) == \E c \in Shifted(V) \cup (R \cup {b}) : partner[c] = n
  <2>1. \A n : Q(n) <=> n = a \/ P(n)
    OBVIOUS
  <2>2. ~P(a)
    BY <1>5
  <2>3. moves = [n \in Nodes |-> IF P(n) THEN 1 ELSE 0]
    BY <1>1
  <2> HIDE DEF P, Q, a
  <2>4. moves[a] = 0
    BY <1>4, <2>2, <2>3
  <2>5. new = [n \in Nodes |-> IF n = a THEN 1 ELSE moves[n]]
    BY <1>3, <2>3, <2>4 DEF MovesOne
  <2>6. \A n \in Nodes : (IF n = a THEN 1 ELSE moves[n]) = IF Q(n) THEN 1 ELSE 0
    BY <2>1, <2>3
  <2>7. new = [n \in Nodes |-> IF Q(n) THEN 1 ELSE 0]
    BY <2>5, <2>6
  <2> QED BY <2>7 DEF Q
<1>7. AtHome(r, new)
  <2>1. \A n \in DOMAIN src : n \in Nodes
    BY HomesAre DEF Nodes
  <2>2. new[a] = 1
    BY <1>4, <1>6
  <2>3. \A n \in Nodes : n # a => new[n] = moves[n]
    BY <1>1, <1>3 DEF MovesOne
  <2>4. \A n \in DOMAIN src : new[n] = 0 => moves[n] = 0 /\ n # match[b]
    BY <1>3, <2>1, <2>2, <2>3
  <2> QED BY <1>1, <2>4, OthersAtHome
<1>8. ASSUME NEW c \in R \cup {b} PROVE partner[c] \in ToSet(r[partner[dst[c]]])
  <2>1. CASE c = b
    BY <1>3, <2>1 DEF Rehung
  <2>2. CASE c # b
    <3>1. c \in DOMAIN partner /\ dst[c] \in DOMAIN partner /\ partner[c] # match[b]
      BY <1>1, <1>3, <1>5, <2>2, StayingIs DEF StayingOf
    <3> QED BY <1>1, <2>2, <3>1, OthersInPlace
  <2> QED BY <2>1, <2>2
<1>9. (R \cup {b}) \cup (misplaced \ {b}) = R \cup misplaced
  OBVIOUS
<1>10. R \cup {b} \subseteq StayingOf(V) /\ misplaced \ {b} \subseteq StayingOf(V) \ (R \cup {b})
  BY <1>1, <1>2
<1> QED BY <1>1, <1>6, <1>7, <1>8, <1>9, <1>10 DEF Thrift

-----------------------------------------------------------------------------
\* The steps.

\* A step leaves the two trees, their nodes and the mapping alone.
LEMMA SameInput ==
  ASSUME UNCHANGED input
  PROVE  /\ src' = src /\ dst' = dst /\ partner' = partner
         /\ relabelled' = relabelled /\ unordered' = unordered
         /\ SrcNodes' = SrcNodes /\ DstNodes' = DstNodes /\ Nodes' = Nodes
BY DEF input, SrcNodes, DstNodes, Nodes

\* What the program is given stays as it is.
LEMMA GivenStays ==
  ASSUME Given, UNCHANGED input
  PROVE  Given'
BY SameInput DEF Given

\* The labels of the visited nodes.
Labelled(V, m, l) ==
  /\ l \in [Nodes -> {"old", "new"}]
  /\ l[Root] = "old"
  /\ \A v \in V : l[m[v]] = WantedLabel(v)

\* The labels after a visit.
LEMMA VisitLabels ==
  ASSUME Given, Types, NEW V, Progress(V), NEW x, NEW w, NEW m, Found(V, x, w, m),
         NEW l, l = IF x = DstRoot THEN label ELSE [label EXCEPT ![w] = WantedLabel(x)]
  PROVE  Labelled(V \cup {x}, m, l)
<1>1. /\ w \in Nodes /\ Matching(m) /\ DOMAIN m = DOMAIN match \cup {x} /\ m[x] = w /\ x \notin V
      /\ \A y \in DOMAIN match : m[y] = match[y]
  BY DEF Found
<1>2. /\ \A y, z \in DOMAIN m : m[y] = m[z] => y = z
      /\ DstRoot \in DOMAIN m /\ m[DstRoot] = Root
  BY <1>1, MatchedOnce
<1>3. label \in [Nodes -> {"old", "new"}] /\ label[Root] = "old"
  BY DEF Types, Progress, Visited
<1>4. \A v \in V : v \in DOMAIN match /\ label[match[v]] = WantedLabel(v)
  BY DEF Progress, Visited
<1>5. \A v \in V : match[v] \in Nodes /\ Root \in Nodes
  BY <1>4, MatchedOnce DEF Types, Nodes, SrcNodes
<1>6. CASE x = DstRoot
  <2>1. WantedLabel(x) = "old"
    BY <1>6 DEF WantedLabel, Given
  <2> QED BY <1>1, <1>2, <1>3, <1>4, <1>6, <2>1 DEF Labelled
<1>7. CASE x # DstRoot
  <2>1. l = [label EXCEPT ![w] = WantedLabel(x)] /\ WantedLabel(x) \in {"old", "new"}
    BY <1>7 DEF WantedLabel
  <2>2. w # Root /\ \A v \in V : match[v] # w
    BY <1>1, <1>2, <1>4, <1>7
  <2>3. Root \in Nodes
    BY DEF Nodes, SrcNodes
  <2> HIDE DEF WantedLabel
  <2> QED BY <1>1, <1>3, <1>4, <1>5, <2>1, <2>2, <2>3 DEF Labelled
<1> QED BY <1>6, <1>7

\* What an operator says of the working copy does not depend on anything but its arguments
\* and the input.
LEMMA TreePrime ==
  ASSUME UNCHANGED input, NEW k, NEW W, OneTree(k, W), kids' = k, Working' = W
  PROVE  OneTree(kids, Working)'
<1>1. Nodes' = Nodes
  BY SameInput
<1>2. Tidy(kids, Working)'
  BY <1>1 DEF OneTree, Tidy
<1>3. Once(kids)'
  BY <1>1 DEF OneTree, Once
<1>4. Connected(kids, Working)'
  BY DEF OneTree, Connected, Closed
<1> QED BY <1>2, <1>3, <1>4 DEF OneTree

\* All that Progress says, of given values.
Step(V, q, k, m, sIn, dIn, rest, l) ==
  /\ V \subseteq DstNodes
  /\ Frontier(V, q)
  /\ DOMAIN m = DOMAIN partner \cup V
  /\ V \subseteq dIn
  /\ Labelled(V, m, l)
  /\ Placed(V, k, m, sIn, dIn, rest)
  /\ Aligned(V, k, m, dIn)
  /\ rest \subseteq DOMAIN dst \ V

\* After a step Progress holds of the new values of the variables.
LEMMA ProgressPrime ==
  ASSUME UNCHANGED input, NEW V, NEW q, NEW k, NEW m, NEW s, NEW d, NEW r, NEW l,
         Step(V, q, k, m, s, d, r, l),
         queue' = q, kids' = k, match' = m, srcInOrder' = s, dstInOrder' = d,
         misplaced' = r, label' = l
  PROVE  Progress(V)'
<1>1. /\ src' = src /\ dst' = dst /\ partner' = partner
      /\ relabelled' = relabelled /\ unordered' = unordered
      /\ DstNodes' = DstNodes
  BY SameInput
<1>2. Frontier(V, queue)'
  BY <1>1 DEF Frontier, Step
<1>3. Visited(V)'
  BY <1>1 DEF Visited, WantedLabel, Labelled, Step
<1>4. Placed(V, kids, match, srcInOrder, dstInOrder, misplaced)'
  BY <1>1 DEF Placed, Step
<1>5. Aligned(V, kids, match, dstInOrder)'
  BY <1>1 DEF Aligned, Step
<1> QED BY <1>1, <1>2, <1>3, <1>4, <1>5 DEF Progress, Step

\* The same of the moves.
LEMMA ThriftPrime ==
  ASSUME UNCHANGED input, NEW V, NEW R, NEW k, NEW mv, NEW r, Thrift(V, R, k, mv, r),
         kids' = k, moves' = mv, misplaced' = r
  PROVE  Thrift(V, R, kids, moves, misplaced)'
<1>1. /\ src' = src /\ dst' = dst /\ partner' = partner /\ unordered' = unordered
      /\ Nodes' = Nodes
  BY SameInput
<1>2. \A x : Staying(x)' = Staying(x)
  BY <1>1 DEF Staying
<1>3. StayingOf(V)' = StayingOf(V) /\ Shifted(V)' = Shifted(V)
  BY <1>1, <1>2 DEF StayingOf, Shifted
<1>4. AtHome(kids, moves)'
  BY <1>1 DEF AtHome, Thrift
<1>5. \A x, keep : Best(x, keep)' <=> Best(x, keep)
  BY <1>1, <1>2 DEF Best, Sorted, KeepsOrder, SureSize
<1>6. /\ R \subseteq StayingOf(V)' /\ misplaced' \subseteq StayingOf(V)' \ R
      /\ moves' = [n \in Nodes' |-> IF \E c \in Shifted(V)' \cup R : partner'[c] = n THEN 1 ELSE 0]
  BY <1>1, <1>3 DEF Thrift
<1>7. \A c \in R : partner'[c] \in ToSet(kids'[partner'[dst'[c]]])
  BY <1>1 DEF Thrift
<1>8. \A x \in V : Best(x, Staying(x) \ (R \cup misplaced))'
  BY <1>2, <1>5 DEF Thrift
<1> QED BY <1>4, <1>6, <1>7, <1>8 DEF Thrift

\* The same of the matching and of the working nodes.
LEMMA MatchingPrime ==
  ASSUME UNCHANGED input, NEW m, Matching(m), m = match'
  PROVE  Matching(match)' /\ Working' = WorkingOf(m)
<1>1. partner' = partner /\ DstNodes' = DstNodes /\ SrcNodes' = SrcNodes
  BY SameInput
<1>2. Matching(match)'
  BY <1>1 DEF Matching
<1>3. Working' = WorkingOf(m)
  BY <1>1 DEF Working, Inserted, WorkingOf
<1> QED BY <1>2, <1>3

\* A visit, its values named.
VisitOf(x, w, m, k, C, keep) ==
  /\ x = Head(queue)
  /\ w = IF x \notin DOMAIN match THEN x ELSE match[x]
  /\ m = [y \in DOMAIN match \cup {x} |-> IF y = x THEN w ELSE match[y]]
  /\ k = IF x = DstRoot \/ Contains(kids[match[dst[x]]], w) THEN kids
         ELSE InsertChild(kids, match[dst[x]], w,
                 FindPos(x, match[dst[x]], kids, match, srcInOrder, dstInOrder))
  /\ C = Common(x, w, k, m)
  /\ keep \in IF x \in unordered \/ w \in unordered THEN {C} ELSE Longest(C, w, k, m)
  /\ match' = m /\ kids' = k
  /\ label' = IF x = DstRoot THEN label ELSE [label EXCEPT ![w] = WantedLabel(x)]
  /\ Moving(x, w, moves')
  /\ srcInOrder' = ((srcInOrder \cup {w}) \ ToSet(k[w])) \cup {m[b] : b \in keep}
  /\ dstInOrder' = ((dstInOrder \cup {x}) \ ChildSet(dst, x)) \cup keep
  /\ misplaced' = C \ keep
  /\ queue' = Tail(queue) \o Children(dst, x)

\* Every visit has such values.
LEMMA VisitSplits ==
  ASSUME Visit
  PROVE  \E x, w, m, k, C, keep : VisitOf(x, w, m, k, C, keep)
<1> DEFINE x == Head(queue)
           w == IF x \notin DOMAIN match THEN x ELSE match[x]
           m == [y \in DOMAIN match \cup {x} |-> IF y = x THEN w ELSE match[y]]
           k == IF x = DstRoot \/ Contains(kids[match[dst[x]]], w) THEN kids
                ELSE InsertChild(kids, match[dst[x]], w,
                          FindPos(x, match[dst[x]], kids, match, srcInOrder, dstInOrder))
           C == Common(x, w, k, m)
<1>1. match' = m /\ kids' = k
  BY Zenon DEF Visit
<1>2. label' = IF x = DstRoot THEN label ELSE [label EXCEPT ![w] = WantedLabel(x)]
  BY Zenon DEF Visit
<1>3. queue' = Tail(queue) \o Children(dst, x)
  BY Zenon DEF Visit
<1>4. \E keep \in IF x \in unordered \/ w \in unordered THEN {C} ELSE Longest(C, w, k, m) :
        /\ srcInOrder' = ((srcInOrder \cup {w}) \ ToSet(k[w])) \cup {m[b] : b \in keep}
        /\ dstInOrder' = ((dstInOrder \cup {x}) \ ChildSet(dst, x)) \cup keep
        /\ misplaced' = C \ keep
  BY Zenon DEF Visit
<1>5. Moving(x, w, moves')
  BY Zenon DEF Visit, Moving
<1> QED
  <2> HIDE DEF x, w, m, k, C
  <2>1. PICK keep \in IF x \in unordered \/ w \in unordered THEN {C} ELSE Longest(C, w, k, m) :
        /\ srcInOrder' = ((srcInOrder \cup {w}) \ ToSet(k[w])) \cup {m[b] : b \in keep}
        /\ dstInOrder' = ((dstInOrder \cup {x}) \ ChildSet(dst, x)) \cup keep
        /\ misplaced' = C \ keep
    BY <1>4
  <2>2. /\ x = Head(queue)
        /\ w = IF x \notin DOMAIN match THEN x ELSE match[x]
        /\ m = [y \in DOMAIN match \cup {x} |-> IF y = x THEN w ELSE match[y]]
        /\ k = IF x = DstRoot \/ Contains(kids[match[dst[x]]], w) THEN kids
               ELSE InsertChild(kids, match[dst[x]], w,
                       FindPos(x, match[dst[x]], kids, match, srcInOrder, dstInOrder))
        /\ C = Common(x, w, k, m)
    BY Zenon DEF x, w, m, k, C
  <2>3. VisitOf(x, w, m, k, C, keep)
    BY <1>1, <1>2, <1>3, <1>5, <2>1, <2>2, Zenon DEF VisitOf
  <2> QED BY <2>3

\* One iteration over LevelOrder keeps the invariant.
LEMMA VisitKeeps ==
  ASSUME IInv, Visit
  PROVE  IInv'
<1>1. PICK x, w, m, k, C, keep : VisitOf(x, w, m, k, C, keep)
  BY VisitSplits
<1>2. phase = "edit" /\ misplaced = {} /\ queue # <<>> /\ UNCHANGED <<input, deleted, phase>>
  BY DEF Visit
<1>3. keep \subseteq C /\ (x \notin unordered /\ w \notin unordered => InSequence(keep, w, k, m))
  BY <1>1 DEF Longest, VisitOf
<1>4. PICK V \in SUBSET DstNodes, R \in SUBSET DstNodes :
        Progress(V) /\ Thrift(V, R, kids, moves, misplaced)
  BY DEF IInv
<1>5. Given /\ Types /\ OneTree(kids, Working)
  BY DEF IInv
<1>6. Visiting(x, w, m, k)
  BY <1>1 DEF Visiting, VisitOf
<1>7. Found(V, x, w, m)
  BY <1>1, <1>2, <1>4, <1>5, <1>6, VisitFinds DEF VisitOf
<1>8. Half(V, Working \cup {w}, k, m, srcInOrder \cup {w}, dstInOrder \cup {x})
  BY <1>1, <1>2, <1>4, <1>5, <1>6, VisitStays, VisitMoves DEF VisitOf
<1>9. /\ x \in DstNodes /\ x \notin V /\ w \in Nodes
      /\ Matching(m) /\ DOMAIN m = DOMAIN match \cup {x} /\ WorkingOf(m) = Working \cup {w}
  BY <1>7 DEF Found
<1>10. V \cup {x} \subseteq dstInOrder \cup {x}
  BY <1>4 DEF Progress, Visited
<1> PICK sNew : sNew = srcInOrder'
  OBVIOUS
<1> PICK dNew : dNew = dstInOrder'
  OBVIOUS
<1>11. Marked(V, x, k, m, sNew, dNew, C \ keep)
  <2>1. C = Common(x, w, k, m)
    BY <1>1 DEF VisitOf
  <2>2. sNew = ((srcInOrder \cup {w}) \ ToSet(k[w])) \cup {m[b] : b \in keep}
    BY <1>1 DEF VisitOf
  <2>3. dNew = ((dstInOrder \cup {x}) \ ChildSet(dst, x)) \cup keep
    BY <1>1 DEF VisitOf
  <2> QED BY <1>3, <1>4, <1>5, <1>7, <1>8, <1>10, <2>1, <2>2, <2>3, VisitMarks
<1>12. /\ Frontier(V \cup {x}, Tail(queue) \o Children(dst, x))
       /\ Tail(queue) \o Children(dst, x) \in Seq(DstNodes)
  BY <1>1, <1>2, <1>4, <1>5, <1>9, FrontierMoves DEF VisitOf
<1> PICK l : l = label'
  OBVIOUS
<1>13. Labelled(V \cup {x}, m, l)
  <2>1. l = IF x = DstRoot THEN label ELSE [label EXCEPT ![w] = WantedLabel(x)]
    BY <1>1 DEF VisitOf
  <2> QED BY <1>4, <1>5, <1>7, <2>1, VisitLabels
<1>14. moves' \in [Nodes -> Nat]
  <2>1. moves \in [Nodes -> Nat] /\ moves[w] + 1 \in Nat
    BY <1>5, <1>9 DEF Types
  <2>2. Moving(x, w, moves')
    BY <1>1 DEF VisitOf
  <2>3. [moves EXCEPT ![w] = @ + 1] \in [Nodes -> Nat]
    BY <2>1
  <2> QED BY <2>1, <2>2, <2>3 DEF Moving
<1>15. UNCHANGED input
  BY <1>2
<1>16. Given'
  BY <1>5, <1>15, GivenStays
<1>17. Matching(match)' /\ Working' = Working \cup {w}
  BY <1>1, <1>9, <1>15, MatchingPrime DEF VisitOf
<1>18. Types'
  <2>1. kids' \in [Nodes -> Seq(Nodes)] /\ label' \in [Nodes -> {"old", "new"}]
    BY <1>1, <1>8, <1>13 DEF Half, Labelled, VisitOf
  <2>2. queue' \in Seq(DstNodes)
    BY <1>1, <1>12 DEF VisitOf
  <2> QED BY <1>14, <1>15, <1>17, <2>1, <2>2, SameInput DEF Types
<1>19. OneTree(kids, Working)'
  <2>1. OneTree(k, Working \cup {w})
    BY <1>8 DEF Half
  <2> QED BY <1>1, <1>15, <1>17, <2>1, TreePrime DEF VisitOf
<1>20. Ending'
  BY <1>2 DEF Ending
<1>21. Step(V \cup {x}, Tail(queue) \o Children(dst, x), k, m, sNew, dNew, C \ keep, l)
  <2>1. DOMAIN m = DOMAIN partner \cup (V \cup {x})
    BY <1>4, <1>9 DEF Progress, Visited
  <2>2. V \cup {x} \subseteq DstNodes
    BY <1>9
  <2> QED BY <1>11, <1>12, <1>13, <2>1, <2>2 DEF Step, Marked
<1> PICK U : U = V \cup {x}
  OBVIOUS
<1> PICK q : q = Tail(queue) \o Children(dst, x)
  OBVIOUS
<1> PICK r : r = C \ keep
  OBVIOUS
<1>22. Progress(U)'
  <2>1. Step(U, q, k, m, sNew, dNew, r, l)
    BY <1>21
  <2>2. queue' = q /\ misplaced' = r
    BY <1>1 DEF VisitOf
  <2> QED BY <1>1, <1>15, <2>1, <2>2, ProgressPrime DEF VisitOf
<1> PICK new : new = moves'
  OBVIOUS
<1>23. Thrift(V \cup {x}, R, k, new, C \ keep)
  <2>1. Moving(x, w, new) /\ C = Common(x, w, k, m)
    BY <1>1 DEF VisitOf
  <2>2. keep \in IF x \in unordered \/ w \in unordered THEN {C} ELSE Longest(C, w, k, m)
    BY <1>1 DEF VisitOf
  <2>3. k \in [Nodes -> Seq(Nodes)] /\ Once(k)
    BY <1>8 DEF Half, OneTree
  <2> QED BY <1>2, <1>4, <1>5, <1>6, <1>7, <2>1, <2>2, <2>3, VisitThrift
<1>24. Thrift(U, R, kids, moves, misplaced)'
  <2>1. Thrift(U, R, k, new, r)
    BY <1>23
  <2>2. kids' = k /\ moves' = new /\ misplaced' = r
    BY <1>1 DEF VisitOf
  <2> QED BY <1>15, <2>1, <2>2, ThriftPrime
<1>25. U \in SUBSET DstNodes' /\ R \in SUBSET DstNodes'
  BY <1>9, <1>15, SameInput
<1> QED BY <1>16, <1>18, <1>19, <1>20, <1>22, <1>24, <1>25 DEF IInv

\* A set of numbers has a least one.
LEMMA LeastIn ==
  ASSUME NEW S \in SUBSET Nat, S # {}
  PROVE  \E x \in S : \A y \in S : x <= y
<1> DEFINE Good(t) == \E x \in t : \A y \in t : x <= y
           P == {n \in Nat : \A t \in SUBSET Nat : (\E i \in t : i <= n) => Good(t)}
<1>1. 0 \in P
  <2> SUFFICES ASSUME NEW t \in SUBSET Nat, NEW i \in t, i <= 0 PROVE Good(t)
    OBVIOUS
  <2>1. i = 0
    OBVIOUS
  <2> QED BY <2>1
<1>2. ASSUME NEW n \in Nat, n \in P PROVE n + 1 \in P
  <2> SUFFICES ASSUME NEW t \in SUBSET Nat, \E i \in t : i <= n + 1 PROVE Good(t)
    OBVIOUS
  <2>1. CASE \E i \in t : i <= n
    <3> HIDE DEF Good
    <3> QED BY <1>2, <2>1
  <2>2. CASE ~\E i \in t : i <= n
    <3>1. n + 1 \in t /\ \A y \in t : n + 1 <= y
      BY <2>2
    <3> QED BY <3>1
  <2> QED BY <2>1, <2>2
<1>3. Nat \subseteq P
  <2> HIDE DEF P
  <2> QED BY <1>1, <1>2, NatSet
<1>4. PICK n \in S : TRUE
  OBVIOUS
<1>5. n \in P
  BY <1>3
<1>6. Good(S)
  <2> HIDE DEF Good
  <2> QED BY <1>5
<1> QED BY <1>6

\* The definitions of Realign.
Realigning(b, a, w, cut, at, r) ==
  /\ a = match[b] /\ w = match[dst[b]] /\ cut = Detach(kids, a)
  /\ at = FindPos(b, w, cut, match, srcInOrder, dstInOrder)
  /\ r = InsertChild(cut, w, a, at)

\* One move of alignChildren: b's partner a is taken out of the list of w and put back where
\* it belongs.
LEMMA RealignMoves ==
  ASSUME Given, Types, OneTree(kids, Working), NEW V, Progress(V),
         NEW b \in misplaced, NEW a, NEW w, NEW cut, NEW at, NEW r,
         Realigning(b, a, w, cut, at, r)
  PROVE  /\ r \in [Nodes -> Seq(Nodes)]
         /\ OneTree(r, Working)
         /\ Placed(V, r, match, srcInOrder \cup {a}, dstInOrder \cup {b}, misplaced \ {b})
         /\ Aligned(V, r, match, dstInOrder \cup {b})
         /\ a \in Nodes
         /\ Rehung(kids, r, w, a)
<1>0. /\ a = match[b] /\ w = match[dst[b]] /\ cut = Detach(kids, a)
      /\ at = FindPos(b, w, cut, match, srcInOrder, dstInOrder)
      /\ r = InsertChild(cut, w, a, at)
  BY DEF Realigning
<1>1. /\ b \in DOMAIN dst /\ dst[b] \in V /\ dst[b] \in DOMAIN match
      /\ b \in DOMAIN match /\ a \in ToSet(kids[w])
  <2>1. b # DstRoot
    BY TreesApart DEF Progress
  <2> QED BY <1>0, <2>1, InOrderMatched
<1>2. Working \in SUBSET Nodes
  BY MatchedOnce DEF Types, Working, WorkingOf, Inserted
<1>3. \A y \in DOMAIN match : match[y] \in Nodes
  BY MatchedOnce DEF Types
<1>4. a \in Nodes /\ w \in Nodes
  BY <1>0, <1>1, <1>3
<1>5. kids \in [Nodes -> Seq(Nodes)] /\ Once(kids) /\ Aligned(V, kids, match, dstInOrder)
  BY DEF Types, OneTree, Progress
<1>6. /\ cut \in [Nodes -> Seq(Nodes)] /\ Once(cut)
      /\ \A p \in Nodes :
           /\ ToSet(cut[p]) = ToSet(kids[p]) \ {a}
           /\ \A c, d : c # a /\ d # a /\ Before(kids[p], c, d) => Before(cut[p], c, d)
  <2>1. cut \in [Nodes -> Seq(Nodes)] /\ Once(cut)
    BY <1>0, <1>5, DetachLeaves
  <2>2. ASSUME NEW p \in Nodes PROVE ToSet(cut[p]) = ToSet(kids[p]) \ {a}
    <3>1. ToSet(Detach(kids, a)[p]) = ToSet(kids[p]) \ {a}
      BY <1>5, DetachLeaves
    <3> QED BY <1>0, <3>1
  <2>3. ASSUME NEW p \in Nodes, NEW c, NEW d, c # a, d # a, Before(kids[p], c, d)
        PROVE  Before(cut[p], c, d)
    <3>1. Before(Detach(kids, a)[p], c, d)
      BY <1>5, <2>3, DetachLeaves
    <3> QED BY <1>0, <3>1
  <2> QED BY <2>1, <2>2, <2>3
<1>7. cut[w] \in Seq(Nodes) /\ Alone(cut[w]) /\ a \notin ToSet(cut[w])
  <2>1. \A p \in Nodes : Alone(cut[p])
    BY <1>6, OnceIs
  <2> QED BY <1>4, <1>6, <2>1
<1>8. Detach(cut, a)[w] = cut[w]
  <2>1. \A p \in Nodes : a \notin ToSet(cut[p]) => Detach(cut, a)[p] = cut[p]
    BY <1>6, DetachLeaves
  <2> QED BY <1>4, <1>7, <2>1
<1>9. at \in 0 .. Len(cut[w])
  BY <1>0, <1>7, DstBounded, FindPosIn
<1>10. Rehung(cut, r, w, a) /\ Behind(cut[w], r[w], a, at)
  BY <1>0, <1>4, <1>6, <1>8, <1>9, InsertChildAdds
<1>11. r \in [Nodes -> Seq(Nodes)] /\ Once(r)
  BY <1>10 DEF Rehung
<1>12. \A p \in Nodes : ToSet(r[p]) = ToSet(kids[p])
  <2> TAKE p \in Nodes
  <2>1. CASE p = w
    <3>1. ToSet(r[w]) = ToSet(cut[w]) \cup {a}
      BY <1>10 DEF Rehung
    <3> QED BY <1>1, <1>4, <1>6, <2>1, <3>1
  <2>2. CASE p # w
    <3>1. ToSet(r[p]) = ToSet(cut[p]) \ {a}
      BY <1>10, <2>2 DEF Rehung
    <3>2. ToSet(kids[p]) \cap ToSet(kids[w]) = {}
      BY <1>4, <1>5, <2>2, OnceIs
    <3> QED BY <1>1, <1>6, <3>1, <3>2
  <2> QED BY <2>1, <2>2
<1>13. OneTree(r, Working)
  BY <1>2, <1>11, <1>12, TreeSame
<1>14. Placed(V, r, match, srcInOrder \cup {a}, dstInOrder \cup {b}, misplaced \ {b})
  <2>1. (dstInOrder \cup {b}) \cup (misplaced \ {b}) = dstInOrder \cup misplaced
    OBVIOUS
  <2>2. Placed(V, kids, match, srcInOrder, dstInOrder, misplaced)
    BY DEF Progress
  <2>3. \A c \in dstInOrder \cup misplaced : c = DstRoot \/ (c \in DOMAIN dst /\ dst[c] \in V)
    BY <2>2 DEF Placed
  <2>4. ASSUME NEW c \in DOMAIN dst, dst[c] \in V
        PROVE  c \in dstInOrder \cup misplaced <=>
                 c \in DOMAIN match /\ match[c] \in ToSet(r[match[dst[c]]])
    <3>1. match[dst[c]] \in Nodes
      BY <1>3, <2>4 DEF Progress, Visited
    <3>2. c \in dstInOrder \cup misplaced <=>
                 c \in DOMAIN match /\ match[c] \in ToSet(kids[match[dst[c]]])
      BY <2>2, <2>4 DEF Placed
    <3> QED BY <1>12, <3>1, <3>2
  <2>5. \A c \in dstInOrder \cup {b} : match[c] \in srcInOrder \cup {a}
    BY <1>0, <2>2 DEF Placed
  <2> QED BY <2>1, <2>3, <2>4, <2>5 DEF Placed
<1>15. Rehung(kids, r, w, a)
  <2>1. ToSet(r[w]) = ToSet(kids[w]) \cup {a}
    BY <1>1, <1>4, <1>12
  <2>2. \A q \in Nodes \ {w} : ToSet(r[q]) = ToSet(kids[q]) \ {a}
    BY <1>6, <1>10 DEF Rehung
  <2>3. \A q \in Nodes : \A c, d : c # a /\ d # a /\ Before(kids[q], c, d) => Before(r[q], c, d)
    BY <1>6, <1>10 DEF Rehung
  <2> QED BY <1>11, <2>1, <2>2, <2>3 DEF Rehung
<1>16. Aligned(V, r, match, dstInOrder \cup {b})
  <2>1. \A c \in dstInOrder \cap DOMAIN dst :
          /\ c \in DOMAIN match /\ dst[c] \in V /\ dst[c] \in DOMAIN match
          /\ match[c] \in ToSet(kids[match[dst[c]]]) /\ match[c] \in srcInOrder
    BY InOrderMatched, TreesApart
  <2>2. \A c \in dstInOrder : c # b => match[c] # match[b]
    <3>1. \A c \in dstInOrder : c \in DOMAIN match
      BY InOrderMatched, MatchedOnce DEF Types
    <3> QED BY <1>1, <3>1, MatchedOnce DEF Types
  <2>3. \A c \in dstInOrder \cap DOMAIN dst : match[dst[c]] \in Nodes
    BY <1>3, <2>1
  <2>4. \A c \in DOMAIN dst : c \in Nat
    BY TreesApart DEF DstNodes
  <2>5. ASSUME dst[b] \notin unordered, match[dst[b]] \notin unordered
        PROVE  \A c \in Siblings(b, dstInOrder) :
                 \E i \in 1 .. Len(cut[w]) : cut[w][i] = match[c] /\ (i <= at <=> c < b)
    <3>1. \A c \in Siblings(b, dstInOrder) :
            /\ c \in DOMAIN match /\ match[c] \in srcInOrder /\ match[c] \in ToSet(kids[w])
            /\ match[c] # a
      BY <1>0, <2>1, <2>2 DEF Siblings
    <3>2. \A c \in Siblings(b, dstInOrder) :
            c \in DOMAIN match /\ match[c] \in srcInOrder /\ match[c] \in ToSet(cut[w])
      BY <1>4, <1>6, <3>1
    <3>3. \A c, d \in Siblings(b, dstInOrder) : c < d => Before(cut[w], match[c], match[d])
      <4> SUFFICES ASSUME NEW c \in Siblings(b, dstInOrder), NEW d \in Siblings(b, dstInOrder), c < d
                   PROVE  Before(cut[w], match[c], match[d])
        OBVIOUS
      <4>1. /\ c \in dstInOrder \cap DOMAIN dst /\ d \in dstInOrder \cap DOMAIN dst
            /\ dst[c] = dst[b] /\ dst[d] = dst[b]
        BY DEF Siblings
      <4>2. Before(kids[w], match[c], match[d])
        BY <1>0, <1>1, <1>5, <2>5, <4>1 DEF Aligned
      <4> QED BY <1>4, <1>6, <3>1, <4>2
    <3>4. DstBase + DstSize \in Nat /\ DOMAIN dst \in SUBSET (1 .. DstBase + DstSize)
      BY DstBounded
    <3>5. \A c \in Siblings(b, dstInOrder) :
             \E i \in 1 .. Len(cut[w]) :
               cut[w][i] = match[c] /\ (i <= FindPos(b, w, cut, match, srcInOrder, dstInOrder) <=> c < b)
      BY <1>1, <1>7, <3>2, <3>3, <3>4, FindPosSplits
    <3> QED BY <1>0, <3>5
  <2>6. match[dst[b]] \in Nodes /\ b \in Nat /\ \A c \in dstInOrder \cap DOMAIN dst : c \in Nat
    BY <1>0, <1>1, <1>4, <2>4
  <2>7. Rehung(kids, r, match[dst[b]], match[b]) /\ Behind(cut[w], r[match[dst[b]]], match[b], at)
    BY <1>0, <1>10, <1>15
  <2> QED BY <1>1, <1>5, <2>2, <2>3, <2>5, <2>6, <2>7, AlignedStays
<1> QED BY <1>4, <1>11, <1>13, <1>14, <1>15, <1>16

\* Which nodes have been visited does not change.
LEMMA RealignProgress ==
  ASSUME Given, Types, NEW V, Progress(V), UNCHANGED <<input, label, match, queue>>,
         NEW a, NEW b, NEW r, kids' = r,
         Placed(V, r, match, srcInOrder \cup {a}, dstInOrder \cup {b}, misplaced \ {b}),
         Aligned(V, r, match, dstInOrder \cup {b}),
         srcInOrder' = srcInOrder \cup {a}, dstInOrder' = dstInOrder \cup {b},
         misplaced' = misplaced \ {b}
  PROVE  Progress(V)'
<1> PICK m : m = match
  OBVIOUS
<1> PICK s : s = srcInOrder \cup {a}
  OBVIOUS
<1> PICK d : d = dstInOrder \cup {b}
  OBVIOUS
<1> PICK rest : rest = misplaced \ {b}
  OBVIOUS
<1> PICK q : q = queue
  OBVIOUS
<1> PICK l : l = label
  OBVIOUS
<1>1. Step(V, q, r, m, s, d, rest, l)
  <2>1. /\ V \subseteq DstNodes /\ Frontier(V, q) /\ DOMAIN m = DOMAIN partner \cup V /\ V \subseteq d
        /\ rest \subseteq DOMAIN dst \ V
    BY DEF Progress, Visited
  <2>2. Labelled(V, m, l)
    BY DEF Progress, Visited, Types, Labelled
  <2> QED BY <2>1, <2>2 DEF Step
<1>2. /\ queue' = q /\ match' = m /\ srcInOrder' = s /\ dstInOrder' = d
      /\ misplaced' = rest /\ label' = l
  OBVIOUS
<1>3. UNCHANGED input
  OBVIOUS
<1> QED BY <1>1, <1>2, <1>3, ProgressPrime

\* One move of alignChildren keeps the invariant.
LEMMA RealignKeeps ==
  ASSUME IInv, Realign
  PROVE  IInv'
<1>1. PICK V \in SUBSET DstNodes, R \in SUBSET DstNodes :
        Progress(V) /\ Thrift(V, R, kids, moves, misplaced)
  BY DEF IInv
<1>2. Given /\ Types /\ OneTree(kids, Working)
  BY DEF IInv
<1>0. PICK b, a, w, cut, at, r :
        /\ b = CHOOSE c \in misplaced : \A d \in misplaced : c <= d
        /\ Realigning(b, a, w, cut, at, r)
  BY DEF Realigning
<1>3. b \in misplaced
  <2>1. misplaced \in SUBSET Nat /\ misplaced # {}
    BY <1>1, <1>2, TreesApart DEF Progress, DstNodes, Realign
  <2> QED BY <1>0, <2>1, LeastIn
<1>4. /\ kids' = r /\ moves' = [moves EXCEPT ![a] = @ + 1]
      /\ srcInOrder' = srcInOrder \cup {a} /\ dstInOrder' = dstInOrder \cup {b}
      /\ misplaced' = misplaced \ {b}
      /\ UNCHANGED <<input, label, match, queue, deleted, phase>>
  BY <1>0 DEF Realign, Realigning
<1>5. /\ r \in [Nodes -> Seq(Nodes)]
      /\ OneTree(r, Working)
      /\ Placed(V, r, match, srcInOrder \cup {a}, dstInOrder \cup {b}, misplaced \ {b})
      /\ Aligned(V, r, match, dstInOrder \cup {b})
      /\ a \in Nodes
      /\ Rehung(kids, r, w, a)
  BY <1>0, <1>1, <1>2, <1>3, RealignMoves
<1>7. UNCHANGED input
  BY <1>4
<1>8. Progress(V)'
  BY <1>1, <1>2, <1>3, <1>4, <1>5, RealignProgress
<1>9. Given'
  BY <1>2, <1>7, GivenStays
<1>10. Matching(match)' /\ Working' = Working
  <2> PICK m : m = match
    OBVIOUS
  <2>1. Matching(m) /\ WorkingOf(m) = Working /\ m = match'
    BY <1>2, <1>4 DEF Types, WorkingOf, Working, Inserted
  <2> QED BY <1>7, <2>1, MatchingPrime
<1>11. OneTree(kids, Working)'
  BY <1>4, <1>5, <1>7, <1>10, TreePrime
<1>12. Types'
  <2>1. kids' \in [Nodes -> Seq(Nodes)]
    BY <1>4, <1>5
  <2>2. moves' \in [Nodes -> Nat]
    <3>1. moves \in [Nodes -> Nat] /\ moves[a] + 1 \in Nat
      BY <1>2, <1>5 DEF Types
    <3> QED BY <1>4, <3>1
  <2>3. queue' = queue /\ label' = label
    BY <1>4
  <2> QED BY <1>2, <1>7, <1>10, <2>1, <2>2, <2>3, SameInput DEF Types
<1>13. Ending'
  BY <1>3, <1>4 DEF IInv, Ending
<1> PICK U : U = R \cup {b}
  OBVIOUS
<1> PICK new : new = moves'
  OBVIOUS
<1> PICK rest : rest = misplaced \ {b}
  OBVIOUS
<1>14. Thrift(V, U, kids, moves, misplaced)'
  <2>1. a = match[b] /\ w = match[dst[b]]
    BY <1>0 DEF Realigning
  <2>2. MovesOne(match[b], new) /\ Rehung(kids, r, match[dst[b]], match[b])
    BY <1>4, <1>5, <2>1 DEF MovesOne
  <2>3. Thrift(V, R \cup {b}, r, new, misplaced \ {b})
    BY <1>1, <1>2, <1>3, <2>2, RealignThrift
  <2>4. Thrift(V, U, r, new, rest)
    BY <2>3
  <2>5. kids' = r /\ moves' = new /\ misplaced' = rest
    BY <1>4
  <2> QED BY <1>7, <2>4, <2>5, ThriftPrime
<1>15. V \in SUBSET DstNodes' /\ U \in SUBSET DstNodes'
  <2>1. b \in DstNodes
    BY <1>1, <1>3 DEF Progress, DstNodes
  <2> QED BY <1>7, <2>1, SameInput
<1> QED BY <1>8, <1>9, <1>11, <1>12, <1>13, <1>14, <1>15 DEF IInv

\* The final pass.
LEMMA DeleteKeeps ==
  ASSUME IInv, DeleteUnmapped
  PROVE  IInv'
<1>1. /\ UNCHANGED <<input, kids, label, match, order, queue, moves>>
      /\ queue = <<>> /\ misplaced = {} /\ deleted' = {w \in Reached(kids) : ~Mapped(w)}
  BY DEF DeleteUnmapped
<1>2. UNCHANGED input
  BY <1>1
<1>3. /\ kids' = kids /\ label' = label /\ match' = match /\ queue' = queue /\ moves' = moves
      /\ srcInOrder' = srcInOrder /\ dstInOrder' = dstInOrder /\ misplaced' = misplaced
  BY <1>1 DEF order
<1>4. PICK V \in SUBSET DstNodes, R \in SUBSET DstNodes :
        Progress(V) /\ Thrift(V, R, kids, moves, misplaced)
  BY DEF IInv
<1>5. Given /\ Types /\ OneTree(kids, Working)
  BY DEF IInv
<1>6. Given' /\ V \in SUBSET DstNodes' /\ R \in SUBSET DstNodes'
  BY <1>2, <1>5, GivenStays, SameInput
<1>7. Progress(V)'
  BY <1>2, <1>3, <1>4, SameInput
     DEF Progress, Frontier, Visited, WantedLabel, Placed, Aligned
<1>8. Types'
  BY <1>2, <1>3, <1>5, SameInput DEF Types, Matching
<1>9. Working' = Working
  BY <1>2, <1>3, SameInput DEF Working, Inserted
<1>10. OneTree(kids, Working)'
  <2> PICK k : k = kids
    OBVIOUS
  <2> PICK W : W = Working
    OBVIOUS
  <2> QED BY <1>2, <1>3, <1>5, <1>9, TreePrime
<1>11. Ending'
  <2>1. Working \in SUBSET Nodes /\ Root \in Working
    BY <1>5, MatchedOnce DEF Types, Working, WorkingOf, Inserted, SrcNodes
  <2>2. Reached(kids) = Working
    BY <1>5, <2>1, TreeReached DEF Types
  <2> QED BY <1>1, <1>3, <1>9, <2>2 DEF Ending, Mapped
<1>12. Thrift(V, R, kids, moves, misplaced)'
  <2> PICK k : k = kids
    OBVIOUS
  <2> PICK mv : mv = moves
    OBVIOUS
  <2> PICK r : r = misplaced
    OBVIOUS
  <2>1. Thrift(V, R, k, mv, r) /\ kids' = k /\ moves' = mv /\ misplaced' = r
    BY <1>3, <1>4
  <2> QED BY <1>2, <2>1, ThriftPrime
<1> QED BY <1>6, <1>7, <1>8, <1>10, <1>11, <1>12 DEF IInv

\* The end.
LEMMA StopKeeps ==
  ASSUME IInv, UNCHANGED vars
  PROVE  IInv'
<1>1. UNCHANGED input
  BY DEF vars
<1>3. /\ kids' = kids /\ label' = label /\ match' = match /\ queue' = queue /\ moves' = moves
      /\ srcInOrder' = srcInOrder /\ dstInOrder' = dstInOrder /\ misplaced' = misplaced
      /\ deleted' = deleted /\ phase' = phase
  BY DEF vars, order
<1>4. PICK V \in SUBSET DstNodes, R \in SUBSET DstNodes :
        Progress(V) /\ Thrift(V, R, kids, moves, misplaced)
  BY DEF IInv
<1>5. Given /\ Types /\ OneTree(kids, Working) /\ Ending
  BY DEF IInv
<1>6. Given' /\ V \in SUBSET DstNodes' /\ R \in SUBSET DstNodes'
  BY <1>1, <1>5, GivenStays, SameInput
<1>7. Progress(V)'
  BY <1>1, <1>3, <1>4, SameInput
     DEF Progress, Frontier, Visited, WantedLabel, Placed, Aligned
<1>8. Types'
  BY <1>1, <1>3, <1>5, SameInput DEF Types, Matching
<1>9. Working' = Working
  BY <1>1, <1>3, SameInput DEF Working, Inserted
<1>10. OneTree(kids, Working)'
  <2> PICK k : k = kids
    OBVIOUS
  <2> PICK W : W = Working
    OBVIOUS
  <2> QED BY <1>1, <1>3, <1>5, <1>9, TreePrime
<1>11. Ending'
  BY <1>3, <1>5, <1>9 DEF Ending, Mapped
<1>12. Thrift(V, R, kids, moves, misplaced)'
  <2> PICK k : k = kids
    OBVIOUS
  <2> PICK mv : mv = moves
    OBVIOUS
  <2> PICK r : r = misplaced
    OBVIOUS
  <2>1. Thrift(V, R, k, mv, r) /\ kids' = k /\ moves' = mv /\ misplaced' = r
    BY <1>3, <1>4
  <2> QED BY <1>1, <2>1, ThriftPrime
<1> QED BY <1>6, <1>7, <1>8, <1>10, <1>11, <1>12 DEF IInv

-----------------------------------------------------------------------------
\* The start.

\* The program is given two trees and a mapping that pairs their roots.
LEMMA GivenAtFirst ==
  ASSUME Init
  PROVE  Given
<1>1. PICK ns \in 1 .. SrcSize, nd \in 1 .. DstSize :
        src \in Parents(Root, ns) /\ dst \in Parents(DstRoot, nd)
  BY DEF Init
<1>2. PICK f \in PartialInjections(DOMAIN dst, DOMAIN src) :
        partner = [x \in DOMAIN f \cup {DstRoot} |-> IF x = DstRoot THEN Root ELSE f[x]]
  BY DEF Init
<1>3. SrcSize \in Nat /\ DstSize \in Nat /\ ns \in Nat /\ nd \in Nat /\ ns >= 1 /\ nd >= 1
  BY SizesAre
<1>4. /\ DOMAIN src = 2 .. ns /\ DOMAIN src \subseteq 2 .. SrcSize
      /\ \A c \in DOMAIN src : src[c] \in SrcNodes /\ src[c] < c
  <2>1. /\ DOMAIN src = 2 .. ns
        /\ \A c \in DOMAIN src : src[c] \in 1 .. ns - 1 /\ src[c] < c
    BY <1>1, <1>3 DEF Parents, Root
  <2>2. \A i \in 1 .. ns - 1 : i \in SrcNodes
    BY <1>3, <2>1 DEF SrcNodes, Root
  <2> QED BY <1>3, <2>1, <2>2
<1>5. /\ DOMAIN dst \subseteq DstRoot + 1 .. DstBase + DstSize
      /\ \A c \in DOMAIN dst : dst[c] \in DstNodes /\ dst[c] < c
  <2>0. DstRoot \in Nat /\ DstBase \in Nat /\ DstRoot = DstBase + 1
    BY <1>3 DEF DstRoot, DstBase
  <2>1. /\ DOMAIN dst = DstRoot + 1 .. DstRoot + nd - 1
        /\ \A c \in DOMAIN dst : dst[c] \in DstRoot .. DstRoot + nd - 2 /\ dst[c] < c
    BY <1>1, <1>3, <2>0 DEF Parents
  <2>2. \A i \in DstRoot .. DstRoot + nd - 2 : i = DstRoot \/ i \in DstRoot + 1 .. DstRoot + nd - 1
    BY <1>3, <2>0
  <2>3. \A i \in DstRoot .. DstRoot + nd - 2 : i \in DstNodes
    BY <2>1, <2>2 DEF DstNodes
  <2>4. DstRoot + 1 .. DstRoot + nd - 1 \subseteq DstRoot + 1 .. DstBase + DstSize
    BY <1>3, <2>0
  <2> QED BY <2>1, <2>3, <2>4
<1>6. /\ DOMAIN f \subseteq DOMAIN dst /\ \A x \in DOMAIN f : f[x] \in DOMAIN src
      /\ \A x, y \in DOMAIN f : f[x] = f[y] => x = y
  BY <1>2 DEF PartialInjections
<1>7. Root \notin DOMAIN src
  BY <1>3, <1>4 DEF Root
<1>8. DOMAIN partner = DOMAIN f \cup {DstRoot} /\ partner[DstRoot] = Root
      /\ \A x \in DOMAIN f : x # DstRoot => partner[x] = f[x]
  BY <1>2
<1>9. \A x, y \in DOMAIN partner : partner[x] = partner[y] => x = y
  BY <1>6, <1>7, <1>8
<1>10. \A x \in DOMAIN partner : partner[x] \in SrcNodes
  BY <1>6, <1>8 DEF SrcNodes
<1>11. DstRoot \in DOMAIN partner /\ DOMAIN partner \subseteq DstNodes
  BY <1>6, <1>8 DEF DstNodes
<1>12. relabelled \subseteq DOMAIN partner \ {DstRoot}
  BY DEF Init
<1> QED BY <1>4, <1>5, <1>8, <1>9, <1>10, <1>11, <1>12 DEF Given

\* The working copy is the source tree.
LEMMA TreeAtFirst ==
  ASSUME Init, Given
  PROVE  kids \in [Nodes -> Seq(Nodes)] /\ OneTree(kids, SrcNodes)
<1>1. SrcSize \in Nat /\ DOMAIN src \in SUBSET (1 .. SrcSize) /\ Root \notin DOMAIN src
  <2>1. \A c \in DOMAIN src : c \in 2 .. SrcSize
    BY DEF Given
  <2> QED BY <2>1, SizesAre DEF Root
<1>2. \A n : /\ Children(src, n) \in Seq(ChildSet(src, n))
             /\ ToSet(Children(src, n)) = ChildSet(src, n)
             /\ Alone(Children(src, n))
  BY <1>1, ChildrenAre
<1>3. kids = [n \in Nodes |-> IF n \in SrcNodes THEN Children(src, n) ELSE <<>>]
  BY DEF Init
<1>4. \A n : ChildSet(src, n) \subseteq Nodes /\ ChildSet(src, n) \subseteq SrcNodes \ {Root}
  BY <1>1 DEF ChildSet, SrcNodes, Nodes
<1>5. ToSet(<<>>) = {} /\ Alone(<<>>) /\ <<>> \in Seq(Nodes)
  BY DEF ToSet, Alone
<1>6. ASSUME NEW p \in Nodes
      PROVE  /\ kids[p] \in Seq(Nodes) /\ Alone(kids[p])
             /\ ToSet(kids[p]) = IF p \in SrcNodes THEN ChildSet(src, p) ELSE {}
  <2>1. CASE p \in SrcNodes
    <3>1. Children(src, p) \in Seq(ChildSet(src, p)) /\ ChildSet(src, p) \subseteq Nodes
      BY <1>2, <1>4
    <3>2. Children(src, p) \in Seq(Nodes)
      BY <3>1, SeqMonotonic
    <3> QED BY <1>2, <1>3, <2>1, <3>2
  <2>2. CASE p \notin SrcNodes
    BY <1>3, <1>5, <2>2
  <2> QED BY <2>1, <2>2
<1>7. kids \in [Nodes -> Seq(Nodes)]
  BY <1>3, <1>6
<1>8. Tidy(kids, SrcNodes)
  BY <1>4, <1>6 DEF Tidy
<1>9. Once(kids)
  <2>1. \A p, q \in Nodes : p # q => ToSet(kids[p]) \cap ToSet(kids[q]) = {}
    <3> SUFFICES ASSUME NEW p \in Nodes, NEW q \in Nodes, p # q,
                        NEW e \in ToSet(kids[p]), e \in ToSet(kids[q])
                 PROVE  FALSE
      OBVIOUS
    <3>1. e \in ChildSet(src, p)
      BY <1>6
    <3>2. e \in ChildSet(src, q)
      BY <1>6
    <3> QED BY <3>1, <3>2 DEF ChildSet
  <2> QED BY <1>6, <1>7, <2>1, OnceIs
<1>10. Connected(kids, SrcNodes)
  <2> SUFFICES ASSUME NEW S \in SUBSET SrcNodes, Closed(kids, S), S # SrcNodes PROVE FALSE
    BY DEF Connected
  <2>1. SrcNodes \ S \in SUBSET Nat /\ SrcNodes \ S # {}
    BY TreesApart
  <2>2. PICK c \in SrcNodes \ S : \A d \in SrcNodes \ S : c <= d
    BY <2>1, LeastIn
  <2>3. Root \in S /\ \A p \in S : ToSet(kids[p]) \subseteq S
    BY DEF Closed
  <2>4. c \in DOMAIN src
    BY <2>2, <2>3 DEF SrcNodes
  <2>5. src[c] \in SrcNodes /\ src[c] < c
    BY <2>4 DEF Given
  <2>6. src[c] \in S
    <3>1. src[c] \in Nat /\ c \in Nat
      BY <2>1, <2>2, <2>5, TreesApart
    <3> QED BY <2>2, <2>5, <3>1
  <2>7. c \in ToSet(kids[src[c]])
    BY <1>6, <2>4, <2>5 DEF ChildSet, Nodes
  <2> QED BY <2>2, <2>3, <2>6, <2>7
<1> QED BY <1>7, <1>8, <1>9, <1>10 DEF OneTree

\* Nothing has been moved: the children stand in the order of their numbers.
LEMMA ThriftAtFirst ==
  ASSUME Init, Given
  PROVE  Thrift({}, {}, kids, moves, misplaced)
<1>1. SrcSize \in Nat /\ DOMAIN src \in SUBSET (1 .. SrcSize)
  <2>1. \A c \in DOMAIN src : c \in 2 .. SrcSize
    BY DEF Given
  <2> QED BY <2>1, SizesAre
<1>2. \A n \in DOMAIN src : src[n] \in SrcNodes /\ src[n] \in Nodes /\ n \in Nat
  BY HomesAre
<1>3. \A p : /\ Children(src, p) \in Seq(ChildSet(src, p))
             /\ ToSet(Children(src, p)) = ChildSet(src, p)
             /\ Rising(Children(src, p))
  BY <1>1, ChildrenAre
<1>4. \A n \in DOMAIN src : kids[src[n]] = Children(src, src[n])
  BY <1>2 DEF Init
<1>5. \A n \in DOMAIN src : n \in ToSet(kids[src[n]])
  BY <1>3, <1>4 DEF ChildSet
<1>6. ASSUME NEW a \in DOMAIN src, NEW b \in DOMAIN src, a < b, src[a] = src[b]
      PROVE  Before(kids[src[a]], a, b)
  <2> PICK s : s = Children(src, src[a])
    OBVIOUS
  <2>1. s \in Seq(ChildSet(src, src[a])) /\ Rising(s)
    BY <1>3
  <2>2. kids[src[a]] = s /\ a \in ToSet(s) /\ b \in ToSet(s)
    BY <1>4, <1>5, <1>6
  <2>3. PICK i \in 1 .. Len(s), j \in 1 .. Len(s) : s[i] = a /\ s[j] = b
    BY <2>1, <2>2, Listing
  <2>4. Len(s) \in Nat /\ DOMAIN s = 1 .. Len(s)
    BY <2>1, LenProperties
  <2>5. a \in Nat /\ b \in Nat
    BY <1>2
  <2>6. ~(j < i)
    <3>1. j < i => s[j] < s[i]
      BY <2>1, <2>3, <2>4 DEF Rising
    <3> QED BY <1>6, <2>3, <2>5, <3>1
  <2>7. i # j
    BY <1>6, <2>3, <2>5
  <2>8. i < j
    BY <2>4, <2>6, <2>7
  <2> QED BY <2>2, <2>3, <2>8 DEF Before
<1>7. AtHome(kids, moves)
  BY <1>5, <1>6 DEF AtHome
<1>8. moves = [n \in Nodes |-> 0] /\ misplaced = {}
  BY DEF Init
<1>9. Shifted({}) = {} /\ StayingOf({}) = {}
  BY DEF Shifted, StayingOf
<1> QED BY <1>7, <1>8, <1>9 DEF Thrift

\* The invariant holds at the start.
LEMMA InitHolds ==
  ASSUME Init
  PROVE  IInv
<1>1. Given
  BY GivenAtFirst
<1>2. kids \in [Nodes -> Seq(Nodes)] /\ OneTree(kids, SrcNodes)
  BY <1>1, TreeAtFirst
<1>3. /\ label = [n \in Nodes |-> "old"] /\ moves = [n \in Nodes |-> 0] /\ match = partner
      /\ srcInOrder = {} /\ dstInOrder = {} /\ misplaced = {} /\ queue = <<DstRoot>>
      /\ phase = "edit"
  BY DEF Init
<1>4. Working = SrcNodes
  BY <1>3 DEF Working, Inserted
<1>5. Matching(match)
  <2>1. partner = [x \in DOMAIN partner |-> partner[x]]
    <3>1. PICK f : partner = [x \in DOMAIN f \cup {DstRoot} |-> IF x = DstRoot THEN Root ELSE f[x]]
      BY DEF Init
    <3> QED BY <3>1
  <2> QED BY <1>1, <1>3, <2>1 DEF Matching, Given
<1>6. Types
  <2>1. <<DstRoot>> \in Seq(DstNodes)
    BY DEF DstNodes
  <2> QED BY <1>2, <1>3, <1>5, <2>1 DEF Types
<1>7. Ending
  BY <1>3 DEF Ending
<1>8. Frontier({}, queue)
  <2>1. Len(<<DstRoot>>) = 1 /\ <<DstRoot>>[1] = DstRoot
    OBVIOUS
  <2>2. Alone(queue)
    BY <1>3, <2>1 DEF Alone
  <2>3. ToSet(queue) = {DstRoot}
    BY <1>3, <2>1 DEF ToSet
  <2>4. DstRoot \notin DOMAIN dst
    BY <1>1, TreesApart
  <2> QED BY <2>2, <2>3, <2>4 DEF Frontier
<1>9. Visited({})
  <2>1. Root \in Nodes
    BY DEF Nodes, SrcNodes
  <2> QED BY <1>3, <2>1 DEF Visited
<1>10. Placed({}, kids, match, srcInOrder, dstInOrder, misplaced) /\ Aligned({}, kids, match, dstInOrder)
  BY <1>3 DEF Placed, Aligned
<1>11. Progress({})
  BY <1>3, <1>8, <1>9, <1>10 DEF Progress
<1>12. Thrift({}, {}, kids, moves, misplaced)
  BY <1>1, ThriftAtFirst
<1>13. \E V \in SUBSET DstNodes, R \in SUBSET DstNodes :
         Progress(V) /\ Thrift(V, R, kids, moves, misplaced)
  <2>1. {} \in SUBSET DstNodes
    OBVIOUS
  <2> QED BY <1>11, <1>12, <2>1
<1> QED BY <1>1, <1>2, <1>4, <1>6, <1>7, <1>13 DEF IInv

\* Every step keeps the invariant.
LEMMA StepKeeps ==
  ASSUME IInv, [Next]_vars
  PROVE  IInv'
BY VisitKeeps, RealignKeeps, DeleteKeeps, StopKeeps DEF Next, Done

\* In every state of GenerateEditScript, for trees and mappings of every size, some set of
\* destination nodes has been visited: they are the top of the destination tree, their
\* partners hang together under the root of the working copy, and their children that are
\* marked in order stand in order.
THEOREM EditScriptInvariant == Spec => []IInv
BY InitHolds, StepKeeps, PTL DEF Spec

\* When no node waits, every destination node has been visited.
LEMMA AllVisited ==
  ASSUME Given, NEW V \in SUBSET DstNodes, Frontier(V, <<>>)
  PROVE  V = DstNodes
<1>1. ToSet(<<>>) = {}
  BY DEF ToSet
<1>2. DstRoot \in V /\ \A c \in DOMAIN dst : dst[c] \in V <=> c \in V
  BY <1>1 DEF Frontier
<1> SUFFICES ASSUME V # DstNodes PROVE FALSE
  OBVIOUS
<1>3. DstNodes \ V \in SUBSET Nat /\ DstNodes \ V # {}
  BY TreesApart
<1>4. PICK c \in DstNodes \ V : \A d \in DstNodes \ V : c <= d
  BY <1>3, LeastIn
<1>5. c \in DOMAIN dst
  BY <1>2, <1>4 DEF DstNodes
<1>6. dst[c] \in DstNodes /\ dst[c] < c /\ dst[c] \notin V
  BY <1>2, <1>4, <1>5 DEF Given
<1>7. dst[c] \in Nat /\ c \in Nat
  BY <1>4, <1>6, TreesApart
<1> QED BY <1>4, <1>6, <1>7

\* The invariant says that the working copy is a tree.
LEMMA InvIsTree ==
  ASSUME IInv
  PROVE  WorkingCopyIsTree
<1>1. Given /\ Types /\ OneTree(kids, Working)
  BY DEF IInv
<1>2. Working \in SUBSET Nodes /\ Root \in Working
  BY <1>1, MatchedOnce DEF Types, Working, WorkingOf, Inserted, SrcNodes
<1>3. Reached(kids) = Working
  BY <1>1, <1>2, TreeReached DEF Types
<1>4. \A p \in Working : Root \notin ToSet(kids[p])
  BY <1>1, <1>2 DEF OneTree, Tidy
<1>5. \A p, q \in Working : \A i \in 1 .. Len(kids[p]), j \in 1 .. Len(kids[q]) :
        kids[p][i] = kids[q][j] => p = q /\ i = j
  BY <1>1, <1>2 DEF OneTree, Once
<1> QED BY <1>3, <1>4, <1>5 DEF WorkingCopyIsTree

\* The invariant says that the finished script is right.
LEMMA InvTurns ==
  ASSUME IInv
  PROVE  TurnsSrcIntoDst
<1> SUFFICES ASSUME phase = "done"
             PROVE  /\ DOMAIN match = DstNodes
                    /\ Working \ deleted = {match[x] : x \in DstNodes}
                    /\ \A x \in DstNodes :
                         /\ label[match[x]] = WantedLabel(x)
                         /\ ToSet(kids[match[x]]) \ deleted = {match[c] : c \in ChildSet(dst, x)}
                         /\ Ordered(x) => \A a, b \in ChildSet(dst, x) :
                                            a < b => Before(kids[match[x]], match[a], match[b])
  BY DEF TurnsSrcIntoDst
<1>1. Given /\ Types /\ OneTree(kids, Working)
  BY DEF IInv
<1>2. queue = <<>> /\ misplaced = {} /\ deleted = {w \in Working : ~Mapped(w)}
  BY DEF IInv, Ending
<1>3. Progress(DstNodes)
  <2>1. PICK V \in SUBSET DstNodes : Progress(V)
    BY DEF IInv
  <2>2. V = DstNodes
    BY <1>1, <1>2, <2>1, AllVisited DEF Progress
  <2> QED BY <2>1, <2>2
<1>4. /\ DOMAIN match = DstNodes /\ DstNodes \subseteq dstInOrder
      /\ \A x \in DstNodes : label[match[x]] = WantedLabel(x)
  BY <1>1, <1>3 DEF Progress, Visited, Given
<1>5. \A w : Mapped(w) <=> \E x \in DstNodes : match[x] = w
  BY <1>4 DEF Mapped
<1>6. \A x \in DstNodes : match[x] \in Working /\ match[x] \in Nodes
  BY <1>1, <1>4, MatchedOnce DEF Types, Working, WorkingOf, Inserted
<1>7. Working \ deleted = {match[x] : x \in DstNodes}
  BY <1>2, <1>5, <1>6
<1>8. \A c \in DOMAIN dst : c \in DstNodes /\ dst[c] \in DstNodes /\ c # DstRoot
  BY <1>1, TreesApart DEF Given, DstNodes
<1>9. \A c \in DOMAIN dst : match[c] \in ToSet(kids[match[dst[c]]])
  BY <1>3, <1>4, <1>8 DEF Progress, Placed
<1>10. ASSUME NEW x \in DstNodes
       PROVE  ToSet(kids[match[x]]) \ deleted = {match[c] : c \in ChildSet(dst, x)}
  <2>1. ASSUME NEW c \in ChildSet(dst, x) PROVE match[c] \in ToSet(kids[match[x]]) \ deleted
    <3>1. c \in DOMAIN dst /\ dst[c] = x
      BY DEF ChildSet
    <3>2. match[c] \in ToSet(kids[match[x]])
      BY <1>9, <3>1
    <3> QED BY <1>2, <1>5, <1>8, <3>1, <3>2
  <2>2. ASSUME NEW w \in ToSet(kids[match[x]]), w \notin deleted
        PROVE  \E c \in ChildSet(dst, x) : match[c] = w
    <3>1. w \in Working /\ w # Root
      BY <1>1, <1>6 DEF OneTree, Tidy
    <3>2. PICK c \in DstNodes : match[c] = w
      BY <1>2, <1>5, <2>2, <3>1
    <3>3. c # DstRoot
      BY <1>1, <3>1, <3>2, MatchedOnce DEF Types
    <3>4. c \in DOMAIN dst
      BY <3>3 DEF DstNodes
    <3>5. w \in ToSet(kids[match[dst[c]]]) /\ dst[c] \in DstNodes
      BY <1>8, <1>9, <3>2, <3>4
    <3>6. match[dst[c]] = match[x]
      <4>1. match[dst[c]] # match[x] => ToSet(kids[match[dst[c]]]) \cap ToSet(kids[match[x]]) = {}
        BY <1>1, <1>6, <3>5, OnceIs DEF Types, OneTree
      <4> QED BY <3>5, <4>1
    <3>7. dst[c] = x
      BY <1>1, <1>4, <3>5, <3>6, MatchedOnce DEF Types
    <3> QED BY <3>2, <3>4, <3>7 DEF ChildSet
  <2> QED BY <2>1, <2>2
<1>11. ASSUME NEW x \in DstNodes, Ordered(x), NEW a \in ChildSet(dst, x), NEW b \in ChildSet(dst, x), a < b
       PROVE  Before(kids[match[x]], match[a], match[b])
  <2>1. a \in DOMAIN dst /\ b \in DOMAIN dst /\ dst[a] = x /\ dst[b] = x
    BY DEF ChildSet
  <2>2. a \in dstInOrder /\ b \in dstInOrder
    BY <1>4, <1>8, <2>1
  <2>3. x \notin unordered /\ match[x] \notin unordered
    BY <1>11 DEF Ordered
  <2> QED BY <1>3, <1>11, <2>1, <2>2, <2>3 DEF Progress, Aligned
<1> QED BY <1>4, <1>7, <1>10, <1>11

\* MostInOrder is the size of a best choice.
LEMMA MostIs ==
  ASSUME Given, NEW x, NEW keep \in SUBSET Staying(x), KeepsOrder(keep),
         \A S \in SUBSET Staying(x) : KeepsOrder(S) => Cardinality(S) <= Cardinality(keep)
  PROVE  /\ IsFiniteSet(Staying(x))
         /\ MostInOrder(x) = Cardinality(keep)
<1>1. DstBase \in Nat /\ DstSize \in Nat
  BY SizesAre DEF DstBase
<1>2. Staying(x) \in SUBSET (DstBase + 1 .. DstBase + DstSize)
  <2>1. \A c \in Staying(x) : c \in DOMAIN dst
    BY StayingIs, HomesAre
  <2>2. \A c \in DOMAIN dst : c \in DstRoot + 1 .. DstBase + DstSize
    BY DEF Given
  <2> QED BY <1>1, <2>1, <2>2 DEF DstRoot
<1>3. IsFiniteSet(DstBase + 1 .. DstBase + DstSize) /\ Cardinality(DstBase + 1 .. DstBase + DstSize) = DstSize
  <2> PICK lo, hi : lo = DstBase + 1 /\ hi = DstBase + DstSize
    OBVIOUS
  <2>1. lo \in Int /\ hi \in Int /\ hi - lo + 1 = DstSize /\ (lo > hi => DstSize = 0)
    BY <1>1
  <2>2. /\ IsFiniteSet(lo .. hi)
        /\ Cardinality(lo .. hi) = IF lo > hi THEN 0 ELSE hi - lo + 1
    BY <2>1, FS_Interval
  <2> QED BY <2>1, <2>2
<1>4. IsFiniteSet(Staying(x))
  BY <1>2, <1>3, FS_Subset
<1>5. Cardinality(keep) \in 0 .. DstSize
  <2>1. keep \in SUBSET (DstBase + 1 .. DstBase + DstSize)
    BY <1>2
  <2>2. IsFiniteSet(keep) /\ Cardinality(keep) <= DstSize
    BY <1>3, <2>1, FS_Subset
  <2>3. Cardinality(keep) \in Nat
    BY <2>2, FS_CardinalityType
  <2> QED BY <1>1, <2>2, <2>3
<1> DEFINE P(n) == /\ \E S \in SUBSET Staying(x) : Cardinality(S) = n /\ KeepsOrder(S)
                   /\ \A S \in SUBSET Staying(x) : KeepsOrder(S) => Cardinality(S) <= n
<1>6. MostInOrder(x) = CHOOSE n \in 0 .. DstSize : P(n)
  BY DEF MostInOrder
<1>7. P(Cardinality(keep))
  OBVIOUS
<1>8. ASSUME NEW n \in 0 .. DstSize, P(n) PROVE n = Cardinality(keep)
  <2>1. PICK S \in SUBSET Staying(x) : Cardinality(S) = n /\ KeepsOrder(S)
    BY <1>8
  <2>2. n <= Cardinality(keep) /\ Cardinality(keep) <= n
    BY <1>8, <2>1
  <2> QED BY <1>1, <1>5, <2>2
<1> HIDE DEF P
<1>9. MostInOrder(x) = Cardinality(keep)
  BY <1>5, <1>6, <1>7, <1>8
<1> QED BY <1>4, <1>9

\* The invariant says that a finished script moves no more than it must.
LEMMA InvThrift ==
  ASSUME IInv
  PROVE  MovesAreMinimal
<1> SUFFICES ASSUME phase = "done"
             PROVE  /\ \A n \in Nodes : moves[n] <= 1
                    /\ \A n \in Nodes : moves[n] = 1 => \E x \in DOMAIN partner : partner[x] = n
                    /\ \A x \in DOMAIN partner \ {DstRoot} :
                         x \notin Staying(dst[x]) => moves[partner[x]] = 1
                    /\ \A x \in DstNodes :
                         LET moved == {c \in Staying(x) : moves[partner[c]] = 1} IN
                         IF Ordered(x)
                         THEN Cardinality(Staying(x)) <= SureSize =>
                                Cardinality(moved) = Cardinality(Staying(x)) - MostInOrder(x)
                         ELSE moved = {}
  BY DEF MovesAreMinimal
<1>1. Given /\ Types
  BY DEF IInv
<1>2. queue = <<>> /\ misplaced = {}
  BY DEF IInv, Ending
<1>3. PICK R \in SUBSET DstNodes : Progress(DstNodes) /\ Thrift(DstNodes, R, kids, moves, misplaced)
  <2>1. PICK V \in SUBSET DstNodes, R \in SUBSET DstNodes :
          Progress(V) /\ Thrift(V, R, kids, moves, misplaced)
    BY DEF IInv
  <2>2. V = DstNodes
    BY <1>1, <1>2, <2>1, AllVisited DEF Progress
  <2> QED BY <2>1, <2>2
<1>4. /\ R \subseteq StayingOf(DstNodes)
      /\ moves = [n \in Nodes |-> IF \E c \in Shifted(DstNodes) \cup R : partner[c] = n THEN 1 ELSE 0]
      /\ \A x \in DstNodes : Best(x, Staying(x) \ R)
  <2>1. \A x : Staying(x) \ (R \cup misplaced) = Staying(x) \ R
    BY <1>2
  <2> QED BY <1>3, <2>1 DEF Thrift
<1>5. moves = Count(DstNodes, R)
  BY <1>4 DEF Count
<1>6. \A n \in Nodes : moves[n] <= 1
  BY <1>4
<1>7. ASSUME NEW n \in Nodes, moves[n] = 1 PROVE \E x \in DOMAIN partner : partner[x] = n
  <2>1. PICK c \in Shifted(DstNodes) \cup R : partner[c] = n
    BY <1>4, <1>7
  <2>2. c \in DOMAIN partner
    BY <1>4 DEF Shifted, StayingOf
  <2> QED BY <2>1, <2>2
<1>8. \A c \in DOMAIN partner \ {DstRoot} : moves[partner[c]] = 1 <=> c \in Shifted(DstNodes) \cup R
  BY <1>1, <1>4, <1>5, CountIs
<1>9. \A x \in DOMAIN partner \ {DstRoot} : x \notin Staying(dst[x]) => moves[partner[x]] = 1
  <2>1. \A x \in DOMAIN partner \ {DstRoot} : x \notin Staying(dst[x]) => x \in Shifted(DstNodes)
    BY <1>1 DEF Shifted, Given
  <2> QED BY <1>8, <2>1
<1>10. ASSUME NEW x \in DstNodes
       PROVE  LET moved == {c \in Staying(x) : moves[partner[c]] = 1} IN
              IF Ordered(x)
              THEN Cardinality(Staying(x)) <= SureSize =>
                     Cardinality(moved) = Cardinality(Staying(x)) - MostInOrder(x)
              ELSE moved = {}
  <2> DEFINE moved == {c \in Staying(x) : moves[partner[c]] = 1}
             keep == Staying(x) \ R
  <2>1. moved = Staying(x) \cap R
    <3>1. \A c \in Staying(x) : c \in DOMAIN partner \ {DstRoot} /\ c \notin Shifted(DstNodes)
      BY StayingIs, <1>1 DEF Shifted
    <3> QED BY <1>8, <3>1
  <2>2. Ordered(x) <=> Sorted(x)
    <3>1. x \in DOMAIN match /\ Matching(match)
      BY <1>1, <1>3 DEF Progress, Visited, Types
    <3> QED BY <1>1, <3>1, SortedIs DEF Ordered
  <2>3. Best(x, keep)
    BY <1>4
  <2>4. CASE ~Ordered(x)
    <3>1. Staying(x) \ R = Staying(x)
      BY <2>2, <2>3, <2>4 DEF Best
    <3>2. moved = {}
      BY <2>1, <3>1
    <3> QED BY <2>4, <3>2
  <2>5. CASE Ordered(x)
    <3> SUFFICES ASSUME Cardinality(Staying(x)) <= SureSize
                 PROVE  Cardinality(moved) = Cardinality(Staying(x)) - MostInOrder(x)
      BY <2>5
    <3>1. /\ KeepsOrder(keep)
          /\ \A S \in SUBSET Staying(x) : KeepsOrder(S) => Cardinality(S) <= Cardinality(keep)
      BY <2>2, <2>3, <2>5 DEF Best
    <3>2. IsFiniteSet(Staying(x)) /\ MostInOrder(x) = Cardinality(keep)
      BY <1>1, <3>1, MostIs
    <3>3. moved = Staying(x) \ keep /\ keep = Staying(x) \cap keep
      BY <2>1
    <3> HIDE DEF moved, keep
    <3>4. Cardinality(Staying(x) \ keep) = Cardinality(Staying(x)) - Cardinality(Staying(x) \cap keep)
      BY <3>2, FS_Difference
    <3> QED BY <3>2, <3>3, <3>4
  <2> QED BY <2>4, <2>5
<1> QED BY <1>6, <1>7, <1>9, <1>10

\* While insertChild and deleteChild detach and reattach nodes (chawathe.go insertChild,
\* deleteChild), the working copy is one tree, for source and destination trees and mappings
\* of every size and shape: no node is listed twice, none is cut off, the root stays on top.
THEOREM WorkingCopyStaysTree == Spec => []WorkingCopyIsTree
<1>1. IInv => WorkingCopyIsTree
  BY InvIsTree
<1> QED BY <1>1, EditScriptInvariant, PTL

\* When GenerateEditScript ends, its inserts, updates, moves and deletions have turned the
\* working copy into the destination tree: the nodes left are the partners of the destination
\* nodes, with their labels, under the partners of their parents and, wherever order counts,
\* in their order; again for trees and mappings of every size and shape, and whichever
\* sequence lcs picks.
THEOREM ScriptTurnsSrcIntoDst == Spec => []TurnsSrcIntoDst
<1>1. IInv => TurnsSrcIntoDst
  BY InvTurns
<1> QED BY <1>1, EditScriptInvariant, PTL

\* The script moves no more nodes than it must: a node whose parent changes is moved once; of
\* the children that keep their parent as many stay as can (up to the number for which lcs is
\* sure to find a longest sequence), all of them where order does not count; nothing is moved
\* twice and nothing without a partner at all.  What alignChildren works on is still in the
\* order of the source, whatever was inserted, moved in or moved away before.
THEOREM ScriptMovesLeast == Spec => []MovesAreMinimal
<1>1. IInv => MovesAreMinimal
  BY InvThrift
<1> QED BY <1>1, EditScriptInvariant, PTL
===============================================================================
