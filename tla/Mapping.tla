------------------------------ MODULE Mapping ------------------------------
(***************************************************************************)
(* engine.Mapping (internal/engine/mapping.go): the 1:1 node mapping that  *)
(* every matching pass writes and every later pass of the pipeline reads.  *)
(* Two maps answer who is mapped to whom and Pairs keeps the order in      *)
(* which the passes iterate, so three structures have to agree after any   *)
(* sequence of Add, Remove and RemoveSet.                                  *)
(*                                                                         *)
(* Nodes are their pre-order IDs.  A key missing from a Go map reads as    *)
(* nil, so a map is a total function here and None is the missing entry;   *)
(* Add refuses nil nodes, so no present entry is nil.  engine.Match adds,  *)
(* removes and sorts, the last of its passes ends with a sort, and the     *)
(* post-processing that follows only removes.                              *)
(***************************************************************************)
EXTENDS Integers, Sequences, FiniteSets

CONSTANTS
  T1, T2,   \* the nodes of the two trees
  None      \* nil

ASSUME NodesAssumption == T1 \subseteq Nat /\ T2 \subseteq Nat /\ None \notin T1 \cup T2

VARIABLES
  src,     \* [t1 -> t2]
  dst,     \* [t2 -> t1]
  pairs,   \* Pairs, <<Src, Dst>>
  phase    \* "match", then "post"

vars == <<src, dst, pairs, phase>>

Init ==
  /\ src = [a \in T1 |-> None]
  /\ dst = [b \in T2 |-> None]
  /\ pairs = <<>>
  /\ phase = "match"

\* The entries of seq at the places I, in the order R of these places: the k-th has k - 1
\* before it.
Arranged(seq, I, R) ==
  [k \in 1 .. Cardinality(I) |->
     seq[CHOOSE i \in I : Cardinality({j \in I : <<j, i>> \in R}) = k - 1]]

InPlace(I) == {r \in I \X I : r[1] < r[2]}

\* slices.DeleteFunc on Pairs.
Without(seq, S) ==
  LET I == {i \in DOMAIN seq : seq[i][1] \notin S} IN Arranged(seq, I, InPlace(I))

PlacesOf(seq, a) == {i \in DOMAIN seq : seq[i][1] = a}

\* Mutant: the old pair is dropped and the new one goes to the end.
PutPairLast(seq, a, b) == Append(Without(seq, {a}), <<a, b>>)

\* The pair of a is replaced where it stands if a is mapped; a pair that has no place
\* is appended.
PutPair(seq, a, b) ==
  IF src[a] = None \/ PlacesOf(seq, a) = {}
  THEN Append(seq, <<a, b>>)
  ELSE [seq EXCEPT ![CHOOSE i \in PlacesOf(seq, a) : \A j \in PlacesOf(seq, a) : i <= j] = <<a, b>>]

\* Mutant: the destination a was mapped to before stays claimed.
AddKeepsOldDst(a, b) ==
  LET rival == {dst[b]} \ {a} IN
  /\ phase = "match" /\ src[a] # b
  /\ src' = [x \in T1 |-> IF x = a THEN b ELSE IF x \in rival THEN None ELSE src[x]]
  /\ dst' = [dst EXCEPT ![b] = a]
  /\ pairs' = PutPair(Without(pairs, rival), a, b)
  /\ UNCHANGED phase

\* Mutant: the pair of an evicted source stays in Pairs.
AddKeepsRivalPair(a, b) ==
  LET rival == {dst[b]} \ {a} IN
  /\ phase = "match" /\ src[a] # b
  /\ src' = [x \in T1 |-> IF x = a THEN b ELSE IF x \in rival THEN None ELSE src[x]]
  /\ dst' = [y \in T2 |-> IF y = b THEN a ELSE IF y = src[a] THEN None ELSE dst[y]]
  /\ pairs' = PutPair(pairs, a, b)
  /\ UNCHANGED phase

\* Add: the source that claimed b is evicted, the destination a had is released.
\* A pair that is there already changes nothing.
Add(a, b) ==
  LET rival == {dst[b]} \ {a} IN
  /\ phase = "match" /\ src[a] # b
  /\ src' = [x \in T1 |-> IF x = a THEN b ELSE IF x \in rival THEN None ELSE src[x]]
  /\ dst' = [y \in T2 |-> IF y = b THEN a ELSE IF y = src[a] THEN None ELSE dst[y]]
  /\ pairs' = PutPair(Without(pairs, rival), a, b)
  /\ UNCHANGED phase

\* Remove, and RemoveSet for a batch: the partners are released one after the other
\* and Pairs is filtered once.
RemoveSet(S) ==
  /\ src' = [x \in T1 |-> IF x \in S THEN None ELSE src[x]]
  /\ dst' = [y \in T2 |-> IF \E x \in S : src[x] = y THEN None ELSE dst[y]]
  /\ pairs' = Without(pairs, S)
  /\ UNCHANGED phase

Remove(a) == RemoveSet({a})

\* sortMappingsByPreOrder: a stable sort by the source's ID.
ByPreOrder(seq) ==
  LET I == DOMAIN seq
  IN Arranged(seq, I, {r \in I \X I : \/ seq[r[1]][1] < seq[r[2]][1]
                                      \/ seq[r[1]][1] = seq[r[2]][1] /\ r[1] < r[2]})

\* RecoverGlueAnchors ends with a sort, and more matching follows.
Sort ==
  /\ phase = "match"
  /\ pairs' = ByPreOrder(pairs)
  /\ UNCHANGED <<src, dst, phase>>

\* RevokeOrphanedGlue, the last pass of engine.Match, ends with a sort; so does the
\* short cut for identical trees.
Matched ==
  /\ phase = "match"
  /\ pairs' = ByPreOrder(pairs)
  /\ phase' = "post"
  /\ UNCHANGED <<src, dst>>

Next ==
  \/ \E a \in T1, b \in T2 : Add(a, b)
  \/ \E a \in T1 : Remove(a)
  \/ phase = "post" /\ \E S \in SUBSET T1 : RemoveSet(S)
  \/ Sort
  \/ Matched

Spec == Init /\ [][Next]_vars

-----------------------------------------------------------------------------
MapsOK == src \in [T1 -> T2 \cup {None}] /\ dst \in [T2 -> T1 \cup {None}]

\* "strict 1:1 bijection" (mapping.go:50): the two maps are inverse to each other.  A
\* pass that evicts a rival and releases the old partner in one call must not leave a
\* node that is claimed in one direction only: Has and HasDst would then disagree.
OneToOne == \A a \in T1, b \in T2 : src[a] = b <=> dst[b] = a

\* What the passes iterate over is the mapping: Pairs holds every mapped source once,
\* with its present partner.
PairsAgree ==
  /\ {pairs[i] : i \in DOMAIN pairs} = {<<a, src[a]>> : a \in {x \in T1 : src[x] # None}}
  /\ \A i, j \in DOMAIN pairs : pairs[i][1] = pairs[j][1] => i = j

Sources(seq) == [i \in DOMAIN seq |-> seq[i][1]]
SourcesIn(seq, S) ==
  LET I == {i \in DOMAIN seq : seq[i][1] \in S} IN Arranged(Sources(seq), I, InPlace(I))

\* "preserve insertion order" (mapping.go:52): outside the sorts, sources that stay
\* mapped keep their order in Pairs, a re-mapped one included, and a new one is last.
InsertionOrderKept ==
  [][LET old == {a \in T1 : src[a] # None}
         new == {a \in T1 : src'[a] # None}
     IN pairs' # ByPreOrder(pairs) =>
          SourcesIn(pairs', T1) = SourcesIn(pairs, old \cap new) \o SourcesIn(pairs', new \ old)]_vars
=============================================================================
