--------------------------- MODULE MappingProofs ---------------------------
(***************************************************************************)
(* engine.Mapping after every sequence of calls, for trees of any size:     *)
(* the two maps are inverse to each other, Pairs holds every mapped source  *)
(* once with its present partner, and outside the sorts Pairs keeps its     *)
(* order.                                                                   *)
(*                                                                          *)
(* The maps never depend on Pairs, so MapsInv is inductive with the types   *)
(* of the maps alone.  PairsInv adds that Pairs lists the map src (Lists),  *)
(* and every call is shown to turn a list of one map into a list of the     *)
(* next.  What slices.DeleteFunc and the sort leave is taken by rank, so    *)
(* lemmas on finite sets come first: a strict total order gives n places    *)
(* the ranks 0 to n - 1, each once.                                         *)
(***************************************************************************)
EXTENDS Mapping, FiniteSetTheorems, TLAPS

MapsInv == MapsOK /\ OneToOne

LEMMA InitMaps == Init => MapsInv
  BY NodesAssumption DEF Init, MapsInv, MapsOK, OneToOne

\* Add evicts the rival and releases the old partner before it claims both ends.
LEMMA AddKeepsMaps ==
  ASSUME MapsInv, NEW a \in T1, NEW b \in T2, Add(a, b)
  PROVE  MapsInv'
<1>1. MapsOK'
  BY DEF MapsInv, MapsOK, Add
<1>2. ASSUME NEW x \in T1, NEW y \in T2
      PROVE  src'[x] = y <=> dst'[y] = x
  <2>1. CASE x = a /\ y = b
    BY <2>1 DEF MapsInv, MapsOK, Add
  <2>2. CASE x = a /\ y # b
    <3>1. src'[x] = b /\ src'[x] # y
      BY <2>2 DEF Add
    <3>2. dst'[y] # a
      BY <2>2, NodesAssumption DEF MapsInv, MapsOK, OneToOne, Add
    <3> QED
      BY <2>2, <3>1, <3>2
  <2>3. CASE x # a /\ y = b
    <3>1. dst'[y] = a
      BY <2>3 DEF Add
    <3>2. src'[x] # b
      BY <2>3, NodesAssumption DEF MapsInv, MapsOK, OneToOne, Add
    <3> QED
      BY <2>3, <3>1, <3>2
  <2>4. CASE x # a /\ y # b
    <3>1. src'[x] = y <=> x # dst[b] /\ src[x] = y
      BY <2>4, NodesAssumption DEF Add
    <3>2. dst'[y] = x <=> y # src[a] /\ dst[y] = x
      BY <2>4, NodesAssumption DEF Add
    <3> QED
      BY <2>4, <3>1, <3>2 DEF MapsInv, OneToOne
  <2> QED
    BY <2>1, <2>2, <2>3, <2>4
<1> QED
  BY <1>1, <1>2 DEF MapsInv, OneToOne

\* A batch of removals releases exactly the partners of its members.
LEMMA RemoveSetKeepsMaps ==
  ASSUME MapsInv, NEW S \in SUBSET T1, RemoveSet(S)
  PROVE  MapsInv'
<1>1. MapsOK'
  BY DEF MapsInv, MapsOK, RemoveSet
<1>2. ASSUME NEW x \in T1, NEW y \in T2
      PROVE  src'[x] = y <=> dst'[y] = x
  <2>1. src'[x] = y <=> x \notin S /\ src[x] = y
    BY NodesAssumption DEF RemoveSet
  <2>2. dst'[y] = x <=> ~(\E z \in S : src[z] = y) /\ dst[y] = x
    BY NodesAssumption DEF RemoveSet
  <2> QED
    BY <2>1, <2>2 DEF MapsInv, OneToOne
<1> QED
  BY <1>1, <1>2 DEF MapsInv, OneToOne

LEMMA NextMaps == MapsInv /\ [Next]_vars => MapsInv'
<1> SUFFICES ASSUME MapsInv, [Next]_vars
             PROVE  MapsInv'
  OBVIOUS
<1>1. ASSUME NEW a \in T1, NEW b \in T2, Add(a, b)
      PROVE  MapsInv'
  BY <1>1, AddKeepsMaps
<1>2. ASSUME NEW a \in T1, Remove(a)
      PROVE  MapsInv'
  BY <1>2, RemoveSetKeepsMaps DEF Remove
<1>3. ASSUME NEW S \in SUBSET T1, RemoveSet(S)
      PROVE  MapsInv'
  BY <1>3, RemoveSetKeepsMaps
<1>4. CASE Sort
  BY <1>4 DEF Sort, MapsInv, MapsOK, OneToOne
<1>5. CASE Matched
  BY <1>5 DEF Matched, MapsInv, MapsOK, OneToOne
<1>6. CASE UNCHANGED vars
  BY <1>6 DEF vars, MapsInv, MapsOK, OneToOne
<1> QED
  BY <1>1, <1>2, <1>3, <1>4, <1>5, <1>6 DEF Next

\* Has and HasDst never disagree: whatever the matching passes add and remove, a node
\* is claimed in one direction exactly when its partner is claimed in the other.
THEOREM MappingIsBijection == Spec => []OneToOne
<1>1. Init => MapsInv
  BY InitMaps
<1>2. MapsInv /\ [Next]_vars => MapsInv'
  BY NextMaps
<1>3. MapsInv => OneToOne
  BY DEF MapsInv
<1> QED
  BY <1>1, <1>2, <1>3, PTL DEF Spec

-----------------------------------------------------------------------------
(***************************************************************************)
(* Arranging entries: every rank is taken by exactly one place.            *)
(***************************************************************************)
Orders(R, I) ==
  /\ \A i \in I : <<i, i>> \notin R
  /\ \A i, j, k \in I : <<i, j>> \in R /\ <<j, k>> \in R => <<i, k>> \in R
  /\ \A i, j \in I : i = j \/ <<i, j>> \in R \/ <<j, i>> \in R

Rank(i, I, R) == Cardinality({j \in I : <<j, i>> \in R})

LEMMA RankGrows ==
  ASSUME NEW I, IsFiniteSet(I), NEW R, Orders(R, I)
  PROVE  /\ Cardinality(I) \in Nat
         /\ \A i \in I : Rank(i, I, R) \in Nat /\ Rank(i, I, R) < Cardinality(I)
         /\ \A i, j \in I : <<i, j>> \in R => Rank(i, I, R) < Rank(j, I, R)
<1> DEFINE Below(i) == {j \in I : <<j, i>> \in R}
<1>1. Cardinality(I) \in Nat
  BY FS_CardinalityType
<1>2. ASSUME NEW i \in I
      PROVE  IsFiniteSet(Below(i)) /\ Rank(i, I, R) \in Nat /\ Rank(i, I, R) = Cardinality(Below(i))
  BY FS_Subset, FS_CardinalityType DEF Rank
<1>3. ASSUME NEW i \in I PROVE Rank(i, I, R) < Cardinality(I)
  <2>1. Below(i) \in SUBSET I /\ Below(i) # I
    BY DEF Orders
  <2>2. /\ Cardinality(Below(i)) <= Cardinality(I)
        /\ Cardinality(I) = Cardinality(Below(i)) => I = Below(i)
    BY <2>1, FS_Subset
  <2> HIDE DEF Below
  <2> QED BY <1>1, <1>2, <2>1, <2>2
<1>4. ASSUME NEW i \in I, NEW j \in I, <<i, j>> \in R PROVE Rank(i, I, R) < Rank(j, I, R)
  <2>1. Below(i) \in SUBSET Below(j) /\ Below(i) # Below(j)
    BY <1>4 DEF Orders
  <2>2. IsFiniteSet(Below(j))
    BY <1>2
  <2>3. /\ Cardinality(Below(i)) <= Cardinality(Below(j))
        /\ Cardinality(Below(j)) = Cardinality(Below(i)) => Below(j) = Below(i)
    BY <2>1, <2>2, FS_Subset
  <2> HIDE DEF Below
  <2> QED BY <1>2, <2>1, <2>3
<1> QED BY <1>1, <1>2, <1>3, <1>4

LEMMA EveryRank ==
  ASSUME NEW I, IsFiniteSet(I), NEW R, Orders(R, I)
  PROVE  /\ \A k \in 1 .. Cardinality(I) : \E i \in I : Rank(i, I, R) = k - 1
         /\ \A i, j \in I : Rank(i, I, R) = Rank(j, I, R) => i = j
<1> DEFINE n == Cardinality(I)
           f == [i \in I |-> Rank(i, I, R) + 1]
<1>1. /\ n \in Nat
      /\ \A i \in I : Rank(i, I, R) \in Nat /\ Rank(i, I, R) < n
      /\ \A i, j \in I : <<i, j>> \in R => Rank(i, I, R) < Rank(j, I, R)
  BY RankGrows
<1>2. ASSUME NEW i \in I, NEW j \in I, Rank(i, I, R) = Rank(j, I, R) PROVE i = j
  <2>1. ~(Rank(i, I, R) < Rank(j, I, R)) /\ ~(Rank(j, I, R) < Rank(i, I, R))
    BY <1>1, <1>2
  <2> QED BY <1>1, <2>1 DEF Orders
<1>3. \A i \in I : Rank(i, I, R) + 1 \in 1 .. n
  BY <1>1
<1>4. \A i, j \in I : Rank(i, I, R) + 1 = Rank(j, I, R) + 1 => i = j
  BY <1>1, <1>2
<1>5. f \in Injection(I, 1 .. n)
  BY <1>3, <1>4 DEF Injection, IsInjective
<1>6. IsFiniteSet(1 .. n) /\ Cardinality(1 .. n) = n
  <2>1. 1 \in Int /\ n \in Int
    BY <1>1
  <2>2. IsFiniteSet(1 .. n) /\ Cardinality(1 .. n) = IF 1 > n THEN 0 ELSE n - 1 + 1
    BY <2>1, FS_Interval, Zenon
  <2> QED BY <1>1, <2>2
<1>7. f \in Surjection(I, 1 .. n)
  BY <1>5, <1>6, FS_Injection
<1>8. \A k \in 1 .. n : \E i \in I : f[i] = k
  BY <1>7 DEF Surjection
<1>9. \A k \in 1 .. n : \E i \in I : Rank(i, I, R) = k - 1
  BY <1>1, <1>8
<1> QED BY <1>2, <1>9

\* The place of the k-th entry.
Nth(k, I, R) == CHOOSE i \in I : Rank(i, I, R) = k - 1

PlacesTaken(seq, I, R) ==
  /\ \A k \in 1 .. Cardinality(I) : Nth(k, I, R) \in I /\ Rank(Nth(k, I, R), I, R) = k - 1
  /\ \A i \in I : Rank(i, I, R) + 1 \in 1 .. Cardinality(I) /\ Nth(Rank(i, I, R) + 1, I, R) = i
  /\ Arranged(seq, I, R) = [k \in 1 .. Cardinality(I) |-> seq[Nth(k, I, R)]]

LEMMA NthPlace ==
  ASSUME NEW seq, NEW I, IsFiniteSet(I), NEW R, Orders(R, I)
  PROVE  PlacesTaken(seq, I, R)
<1>1. /\ Cardinality(I) \in Nat
      /\ \A i \in I : Rank(i, I, R) \in Nat /\ Rank(i, I, R) < Cardinality(I)
  BY RankGrows
<1>2. ASSUME NEW k \in 1 .. Cardinality(I)
      PROVE  Nth(k, I, R) \in I /\ Rank(Nth(k, I, R), I, R) = k - 1
  BY EveryRank DEF Nth
<1>3. ASSUME NEW i \in I
      PROVE  Rank(i, I, R) + 1 \in 1 .. Cardinality(I) /\ Nth(Rank(i, I, R) + 1, I, R) = i
  <2>1. Rank(i, I, R) + 1 \in 1 .. Cardinality(I) /\ Rank(i, I, R) + 1 - 1 = Rank(i, I, R)
    BY <1>1
  <2>2. /\ Nth(Rank(i, I, R) + 1, I, R) \in I
        /\ Rank(Nth(Rank(i, I, R) + 1, I, R), I, R) = (Rank(i, I, R) + 1) - 1
    <3> DEFINE k == Rank(i, I, R) + 1
    <3>1. k \in 1 .. Cardinality(I)
      BY <2>1
    <3> HIDE DEF k
    <3>2. Nth(k, I, R) \in I /\ Rank(Nth(k, I, R), I, R) = k - 1
      BY <1>2, <3>1
    <3> QED BY <3>2 DEF k
  <2>3. Rank(Nth(Rank(i, I, R) + 1, I, R), I, R) = Rank(i, I, R)
    <3>1. \A r \in Nat : (r + 1) - 1 = r
      OBVIOUS
    <3> QED BY <1>1, <2>2, <3>1, Zenon
  <2> QED BY <2>1, <2>2, <2>3, EveryRank
<1>4. Arranged(seq, I, R) = [k \in 1 .. Cardinality(I) |-> seq[Nth(k, I, R)]]
  BY DEF Arranged, Nth, Rank
<1> QED BY <1>2, <1>3, <1>4 DEF PlacesTaken

\* The order of the places themselves.
LEMMA InPlaceOrders == \A I \in SUBSET Int : Orders(InPlace(I), I)
BY DEF Orders, InPlace

Distinct(seq) == \A i, j \in DOMAIN seq : seq[i][1] = seq[j][1] => i = j

Entries(q, seq, I, S) ==
  /\ q \in Seq(S)
  /\ \A k \in DOMAIN q : \E i \in I : q[k] = seq[i]
  /\ \A i \in I : \E k \in DOMAIN q : q[k] = seq[i]
  /\ Distinct(seq) => Distinct(q)

\* An arrangement has the entries of its places, each once.
LEMMA ArrangedEntries ==
  ASSUME NEW S, NEW seq \in Seq(S), NEW I \in SUBSET DOMAIN seq, NEW R, Orders(R, I),
         NEW q, q = Arranged(seq, I, R)
  PROVE  Entries(q, seq, I, S)
<1> DEFINE n == Cardinality(I)
<1>1. IsFiniteSet(I) /\ n \in Nat /\ DOMAIN seq = 1 .. Len(seq) /\ Len(seq) \in Nat
  <2>1. DOMAIN seq = 1 .. Len(seq) /\ Len(seq) \in Nat
    OBVIOUS
  <2>2. IsFiniteSet(1 .. Len(seq))
    BY <2>1, FS_Interval
  <2> QED BY <2>1, <2>2, FS_Subset, FS_CardinalityType
<1>2. /\ \A k \in 1 .. n : Nth(k, I, R) \in I /\ Rank(Nth(k, I, R), I, R) = k - 1
      /\ \A i \in I : Rank(i, I, R) + 1 \in 1 .. n /\ Nth(Rank(i, I, R) + 1, I, R) = i
      /\ q = [k \in 1 .. n |-> seq[Nth(k, I, R)]]
  <2>1. PlacesTaken(seq, I, R)
    BY <1>1, NthPlace
  <2> QED BY <2>1 DEF PlacesTaken
<1>3. DOMAIN q = 1 .. n /\ \A k \in 1 .. n : q[k] = seq[Nth(k, I, R)]
  BY <1>2
<1> HIDE DEF n
<1>4. \A k \in 1 .. n : q[k] \in S
  BY <1>1, <1>2, <1>3
<1>5. q \in Seq(S)
  <2>1. q = [k \in 1 .. n |-> q[k]]
    BY <1>2
  <2> QED BY <1>1, <1>4, <2>1
<1>6. ASSUME Distinct(seq) PROVE Distinct(q)
  <2> SUFFICES ASSUME NEW k \in 1 .. n, NEW l \in 1 .. n, q[k][1] = q[l][1] PROVE k = l
    BY <1>3 DEF Distinct
  <2>1. Nth(k, I, R) = Nth(l, I, R)
    BY <1>1, <1>2, <1>3, <1>6 DEF Distinct
  <2>2. k - 1 = l - 1
    BY <1>2, <2>1
  <2> QED BY <1>1, <2>2
<1> QED BY <1>2, <1>3, <1>5, <1>6 DEF Entries

-----------------------------------------------------------------------------
(***************************************************************************)
(* Pairs lists the mapping.                                                *)
(***************************************************************************)
Lists(seq, f) ==
  /\ seq \in Seq(T1 \X T2)
  /\ Distinct(seq)
  /\ \A i \in DOMAIN seq : f[seq[i][1]] = seq[i][2]
  /\ \A a \in T1 : f[a] # None => \E i \in DOMAIN seq : seq[i][1] = a

PairsInv == MapsInv /\ Lists(pairs, src)

LEMMA PairsType ==
  ASSUME NEW seq \in Seq(T1 \X T2)
  PROVE  /\ DOMAIN seq = 1 .. Len(seq) /\ Len(seq) \in Nat
         /\ \A i \in DOMAIN seq : /\ seq[i] = <<seq[i][1], seq[i][2]>>
                                  /\ seq[i][1] \in T1 /\ seq[i][2] \in T2
<1>1. DOMAIN seq = 1 .. Len(seq) /\ Len(seq) \in Nat /\ \A i \in DOMAIN seq : seq[i] \in T1 \X T2
  OBVIOUS
<1> QED BY <1>1

LEMMA ListsAgree == PairsInv => PairsAgree
<1> SUFFICES ASSUME PairsInv PROVE PairsAgree
  OBVIOUS
<1>1. /\ pairs \in Seq(T1 \X T2) /\ Distinct(pairs)
      /\ \A i \in DOMAIN pairs : src[pairs[i][1]] = pairs[i][2]
      /\ \A a \in T1 : src[a] # None => \E i \in DOMAIN pairs : pairs[i][1] = a
  BY DEF PairsInv, Lists
<1>2. ASSUME NEW i \in DOMAIN pairs
      PROVE  /\ pairs[i] = <<pairs[i][1], src[pairs[i][1]]>>
             /\ pairs[i][1] \in T1 /\ src[pairs[i][1]] # None
  BY <1>1, PairsType, NodesAssumption
<1>3. {pairs[i] : i \in DOMAIN pairs} = {<<a, src[a]>> : a \in {x \in T1 : src[x] # None}}
  <2>1. {pairs[i] : i \in DOMAIN pairs} \subseteq {<<a, src[a]>> : a \in {x \in T1 : src[x] # None}}
    BY <1>2
  <2>2. ASSUME NEW a \in T1, src[a] # None PROVE <<a, src[a]>> \in {pairs[i] : i \in DOMAIN pairs}
    <3>1. PICK i \in DOMAIN pairs : pairs[i][1] = a
      BY <1>1, <2>2
    <3>2. pairs[i] = <<a, src[a]>>
      BY <1>2, <3>1
    <3> QED BY <3>2
  <2> QED BY <2>1, <2>2
<1> QED BY <1>1, <1>3 DEF PairsAgree, Distinct

\* slices.DeleteFunc keeps the other entries.
LEMMA WithoutEntries ==
  ASSUME NEW seq \in Seq(T1 \X T2), NEW S
  PROVE  LET q == Without(seq, S) IN
         /\ q \in Seq(T1 \X T2)
         /\ \A k \in DOMAIN q : \E i \in DOMAIN seq : q[k] = seq[i] /\ seq[i][1] \notin S
         /\ \A i \in DOMAIN seq : seq[i][1] \notin S => \E k \in DOMAIN q : q[k] = seq[i]
         /\ Distinct(seq) => Distinct(q)
<1> DEFINE I == {i \in DOMAIN seq : seq[i][1] \notin S}
<1>1. I \in SUBSET DOMAIN seq /\ I \in SUBSET Int
  BY PairsType
<1>2. Orders(InPlace(I), I)
  BY <1>1, InPlaceOrders
<1>3. Without(seq, S) = Arranged(seq, I, InPlace(I))
  BY DEF Without
<1> DEFINE q == Without(seq, S)
<1>4. /\ q \in Seq(T1 \X T2)
      /\ \A k \in DOMAIN q : \E i \in I : q[k] = seq[i]
      /\ \A i \in I : \E k \in DOMAIN q : q[k] = seq[i]
      /\ Distinct(seq) => Distinct(q)
  <2> HIDE DEF I, q
  <2>1. q = Arranged(seq, I, InPlace(I))
    BY <1>3 DEF q
  <2>2. Entries(q, seq, I, T1 \X T2)
    BY <1>1, <1>2, <2>1, ArrangedEntries
  <2> QED BY <2>2 DEF Entries
<1> HIDE DEF q
<1>5. \A k \in DOMAIN q : \E i \in DOMAIN seq : q[k] = seq[i] /\ seq[i][1] \notin S
  BY <1>4
<1>6. \A i \in DOMAIN seq : seq[i][1] \notin S => \E k \in DOMAIN q : q[k] = seq[i]
  BY <1>4
<1> QED BY <1>4, <1>5, <1>6 DEF q

\* Sorting changes the places of the entries only.
LEMMA SortedEntries ==
  ASSUME NEW seq \in Seq(T1 \X T2)
  PROVE  LET q == ByPreOrder(seq) IN
         /\ q \in Seq(T1 \X T2)
         /\ \A k \in DOMAIN q : \E i \in DOMAIN seq : q[k] = seq[i]
         /\ \A i \in DOMAIN seq : \E k \in DOMAIN q : q[k] = seq[i]
         /\ Distinct(seq) => Distinct(q)
<1> DEFINE I == DOMAIN seq
           order == {r \in I \X I :
                       \/ seq[r[1]][1] < seq[r[2]][1]
                       \/ seq[r[1]][1] = seq[r[2]][1] /\ r[1] < r[2]}
<1>1. \A i \in I : i \in Nat /\ seq[i][1] \in Nat
  <2>1. I \subseteq Nat
    BY PairsType
  <2>2. \A i \in I : seq[i][1] \in T1
    BY PairsType
  <2>3. T1 \subseteq Nat
    BY NodesAssumption
  <2> HIDE DEF I
  <2> QED BY <2>1, <2>2, <2>3
<1>2. \A i, j \in I :
        <<i, j>> \in order <=> seq[i][1] < seq[j][1] \/ (seq[i][1] = seq[j][1] /\ i < j)
  OBVIOUS
<1>3. ByPreOrder(seq) = Arranged(seq, I, order)
  BY DEF ByPreOrder
<1> HIDE DEF order
<1>4. Orders(order, I)
  BY <1>1, <1>2 DEF Orders
<1> DEFINE q == ByPreOrder(seq)
<1>5. I \in SUBSET DOMAIN seq /\ q = Arranged(seq, I, order)
  BY <1>3
<1> HIDE DEF I, q
<1>6. /\ q \in Seq(T1 \X T2)
      /\ \A k \in DOMAIN q : \E i \in I : q[k] = seq[i]
      /\ \A i \in I : \E k \in DOMAIN q : q[k] = seq[i]
      /\ Distinct(seq) => Distinct(q)
  <2>1. Entries(q, seq, I, T1 \X T2)
    BY <1>4, <1>5, ArrangedEntries
  <2> QED BY <2>1 DEF Entries
<1> QED BY <1>6 DEF I, q

LEMMA SortedLists ==
  ASSUME NEW f, NEW seq, Lists(seq, f)
  PROVE  Lists(ByPreOrder(seq), f)
BY SortedEntries DEF Lists

LEMMA WithoutLists ==
  ASSUME NEW f, NEW g, NEW seq, NEW S, Lists(seq, f),
         \A x \in T1 : g[x] = IF x \in S THEN None ELSE f[x]
  PROVE  Lists(Without(seq, S), g)
<1> DEFINE q == Without(seq, S)
<1>1. /\ seq \in Seq(T1 \X T2) /\ Distinct(seq)
      /\ \A i \in DOMAIN seq : f[seq[i][1]] = seq[i][2] /\ seq[i][1] \in T1
      /\ \A a \in T1 : f[a] # None => \E i \in DOMAIN seq : seq[i][1] = a
  BY PairsType DEF Lists
<1>2. /\ q \in Seq(T1 \X T2)
      /\ \A k \in DOMAIN q : \E i \in DOMAIN seq : q[k] = seq[i] /\ seq[i][1] \notin S
      /\ \A i \in DOMAIN seq : seq[i][1] \notin S => \E k \in DOMAIN q : q[k] = seq[i]
      /\ Distinct(q)
  BY <1>1, WithoutEntries
<1> HIDE DEF q
<1>3. \A k \in DOMAIN q : g[q[k][1]] = q[k][2]
  BY <1>1, <1>2
<1>4. ASSUME NEW a \in T1, g[a] # None PROVE \E k \in DOMAIN q : q[k][1] = a
  <2>1. a \notin S /\ f[a] # None
    BY <1>4
  <2>2. PICK i \in DOMAIN seq : seq[i][1] = a
    BY <1>1, <2>1
  <2> QED BY <1>2, <2>1, <2>2
<1>5. Lists(q, g)
  BY <1>2, <1>3, <1>4 DEF Lists
<1> QED BY <1>5 DEF q

\* Add replaces the one entry of a where it stands, or appends the first one.
LEMMA PutPairLists ==
  ASSUME NEW seq, NEW g, Lists(seq, g), NEW a \in T1, NEW b \in T2, g[a] = src[a],
         NEW h, \A x \in T1 : h[x] = IF x = a THEN b ELSE g[x]
  PROVE  /\ Lists(PutPair(seq, a, b), h)
         /\ src[a] = None => PutPair(seq, a, b) = Append(seq, <<a, b>>)
         /\ src[a] # None => /\ DOMAIN PutPair(seq, a, b) = DOMAIN seq
                             /\ \A i \in DOMAIN seq : PutPair(seq, a, b)[i][1] = seq[i][1]
<1> DEFINE q == PutPair(seq, a, b)
<1>1. /\ seq \in Seq(T1 \X T2) /\ Distinct(seq) /\ None \notin T2
      /\ DOMAIN seq = 1 .. Len(seq) /\ Len(seq) \in Nat
      /\ \A i \in DOMAIN seq : /\ g[seq[i][1]] = seq[i][2] /\ seq[i][1] \in T1
                               /\ seq[i][2] \in T2
      /\ \A x \in T1 : g[x] # None => \E i \in DOMAIN seq : seq[i][1] = x
  BY PairsType, NodesAssumption DEF Lists
<1>2. CASE src[a] = None
  <2>1. q = Append(seq, <<a, b>>)
    BY <1>2 DEF PutPair
  <2>2. \A i \in DOMAIN seq : seq[i][1] # a
    BY <1>1, <1>2
  <2>3. /\ q \in Seq(T1 \X T2) /\ DOMAIN q = 1 .. Len(seq) + 1
        /\ \A i \in DOMAIN seq : q[i] = seq[i]
        /\ q[Len(seq) + 1] = <<a, b>>
    BY <1>1, <2>1
  <2> HIDE DEF q
  <2>4. \A i \in DOMAIN q : i \in DOMAIN seq \/ i = Len(seq) + 1
    BY <1>1, <2>3
  <2>5. DOMAIN seq \subseteq DOMAIN q /\ Len(seq) + 1 \in DOMAIN q
    BY <1>1, <2>3
  <2>6. q[Len(seq) + 1][1] = a /\ q[Len(seq) + 1][2] = b
    BY <2>3
  <2>7. Distinct(q)
    BY <1>1, <2>2, <2>3, <2>4, <2>6 DEF Distinct
  <2>8. \A i \in DOMAIN q : h[q[i][1]] = q[i][2]
    BY <1>1, <2>2, <2>3, <2>4, <2>6
  <2>9. \A x \in T1 : h[x] # None => \E i \in DOMAIN q : q[i][1] = x
    BY <1>1, <2>3, <2>5, <2>6
  <2>10. Lists(q, h)
    BY <2>3, <2>7, <2>8, <2>9 DEF Lists
  <2> QED BY <1>2, <2>1, <2>10 DEF q
<1>3. CASE src[a] # None
  <2>1. PICK p \in DOMAIN seq : seq[p][1] = a
    BY <1>1, <1>3
  <2>2. PlacesOf(seq, a) = {p} /\ p \in Nat
    BY <1>1, <2>1 DEF PlacesOf, Distinct
  <2>3. (CHOOSE i \in PlacesOf(seq, a) : \A j \in PlacesOf(seq, a) : i <= j) = p
    BY <2>2
  <2>4. q = [seq EXCEPT ![p] = <<a, b>>]
    BY <1>3, <2>2, <2>3 DEF PutPair
  <2>5. <<a, b>> \in T1 \X T2
    OBVIOUS
  <2>6. /\ q \in Seq(T1 \X T2) /\ DOMAIN q = DOMAIN seq
        /\ \A i \in DOMAIN seq : i # p => q[i] = seq[i]
        /\ q[p] = <<a, b>>
    BY <1>1, <2>1, <2>4, <2>5
  <2> HIDE DEF q
  <2>7. q[p][1] = a /\ q[p][2] = b /\ \A i \in DOMAIN seq : q[i][1] = seq[i][1]
    BY <2>1, <2>6
  <2>8. \A i \in DOMAIN seq : i # p => seq[i][1] # a
    BY <1>1, <2>1 DEF Distinct
  <2>9. Distinct(q)
    BY <1>1, <2>6, <2>7 DEF Distinct
  <2>10. \A i \in DOMAIN q : h[q[i][1]] = q[i][2]
    BY <1>1, <2>6, <2>7, <2>8
  <2>11. \A x \in T1 : h[x] # None => \E i \in DOMAIN q : q[i][1] = x
    <3> SUFFICES ASSUME NEW x \in T1, h[x] # None PROVE \E i \in DOMAIN q : q[i][1] = x
      OBVIOUS
    <3>1. CASE x = a
      BY <2>1, <2>6, <2>7, <3>1
    <3>2. CASE x # a
      <4>1. g[x] # None
        BY <3>2
      <4>2. PICK i \in DOMAIN seq : seq[i][1] = x
        BY <1>1, <4>1
      <4> QED BY <2>6, <2>7, <4>2
    <3> QED BY <3>1, <3>2
  <2>12. Lists(q, h)
    BY <2>6, <2>9, <2>10, <2>11 DEF Lists
  <2> QED BY <1>3, <2>6, <2>7, <2>12 DEF q
<1> QED BY <1>2, <1>3

\* Add leaves the entries of the others, less the rival's, and puts its own.
LEMMA AddPairs ==
  ASSUME PairsInv, NEW a \in T1, NEW b \in T2, Add(a, b)
  PROVE  LET rival == {dst[b]} \ {a}
             g == [x \in T1 |-> IF x \in rival THEN None ELSE src[x]]
         IN /\ Lists(Without(pairs, rival), g)
            /\ g[a] = src[a]
            /\ pairs' = PutPair(Without(pairs, rival), a, b)
            /\ \A x \in T1 : src'[x] = IF x = a THEN b ELSE g[x]
            /\ Lists(pairs', src')
<1> DEFINE rival == {dst[b]} \ {a}
           g == [x \in T1 |-> IF x \in rival THEN None ELSE src[x]]
<1>1. a \notin rival /\ g[a] = src[a]
  OBVIOUS
<1>2. /\ pairs' = PutPair(Without(pairs, rival), a, b)
      /\ \A x \in T1 : src'[x] = IF x = a THEN b ELSE g[x]
  BY DEF Add
<1>3. \A x \in T1 : g[x] = IF x \in rival THEN None ELSE src[x]
  OBVIOUS
<1> HIDE DEF g, rival
<1>4. Lists(Without(pairs, rival), g)
  BY <1>3, WithoutLists DEF PairsInv
<1>5. Lists(pairs', src')
  BY <1>1, <1>2, <1>4, PutPairLists
<1> QED BY <1>1, <1>2, <1>4, <1>5 DEF g, rival

LEMMA NextPairs == PairsInv /\ [Next]_vars => PairsInv'
<1> SUFFICES ASSUME PairsInv, [Next]_vars PROVE PairsInv'
  OBVIOUS
<1>1. MapsInv'
  BY NextMaps DEF PairsInv
<1>2. ASSUME NEW a \in T1, NEW b \in T2, Add(a, b) PROVE Lists(pairs', src')
  BY <1>2, AddPairs
<1>3. ASSUME NEW S \in SUBSET T1, RemoveSet(S) PROVE Lists(pairs', src')
  <2>1. pairs' = Without(pairs, S) /\ \A x \in T1 : src'[x] = IF x \in S THEN None ELSE src[x]
    BY <1>3 DEF RemoveSet
  <2> QED BY <2>1, WithoutLists DEF PairsInv
<1>4. ASSUME NEW a \in T1, Remove(a) PROVE Lists(pairs', src')
  <2>1. {a} \in SUBSET T1 /\ RemoveSet({a})
    BY <1>4 DEF Remove
  <2> QED BY <1>3, <2>1
<1>5. ASSUME Sort PROVE Lists(pairs', src')
  BY <1>5, SortedLists DEF Sort, PairsInv
<1>6. ASSUME Matched PROVE Lists(pairs', src')
  BY <1>6, SortedLists DEF Matched, PairsInv
<1>7. ASSUME UNCHANGED vars PROVE Lists(pairs', src')
  BY <1>7 DEF vars, PairsInv
<1>8. Lists(pairs', src')
  BY <1>2, <1>3, <1>4, <1>5, <1>6, <1>7 DEF Next
<1> QED BY <1>1, <1>8 DEF PairsInv, Lists, Distinct

LEMMA PairsAlways == Spec => []PairsInv
<1>1. Init => PairsInv
  <2> SUFFICES ASSUME Init PROVE PairsInv
    OBVIOUS
  <2>1. pairs = <<>> /\ \A a \in T1 : src[a] = None
    BY DEF Init
  <2>2. Lists(pairs, src)
    BY <2>1 DEF Lists, Distinct
  <2> QED BY <2>2, InitMaps DEF PairsInv
<1> QED BY <1>1, NextPairs, PTL DEF Spec

\* What a pass iterates over is the mapping, for trees of any size: after any calls of Add,
\* Remove and RemoveSet and any sorts, Pairs holds every mapped source once, with the
\* partner it has now.
THEOREM MappingPairsAgree == Spec => []PairsAgree
BY PairsAlways, ListsAgree, PTL

-----------------------------------------------------------------------------
(***************************************************************************)
(* The order of Pairs.                                                     *)
(***************************************************************************)
\* Places in their own order: the k-th of the first n is k.
LEMMA RankInPlace ==
  ASSUME NEW n \in Nat, NEW i \in 1 .. n
  PROVE  Rank(i, 1 .. n, InPlace(1 .. n)) = i - 1
<1>1. {j \in 1 .. n : <<j, i>> \in InPlace(1 .. n)} = 1 .. i - 1
  BY DEF InPlace
<1>2. Cardinality(1 .. i - 1) = IF 1 > i - 1 THEN 0 ELSE i - 1 - 1 + 1
  <2>1. 1 \in Int /\ i - 1 \in Int
    OBVIOUS
  <2> QED BY <2>1, FS_Interval
<1>3. Cardinality(1 .. i - 1) = i - 1
  BY <1>2
<1> QED BY <1>1, <1>3 DEF Rank

\* Taking all places changes nothing.
LEMMA AllPlaces ==
  ASSUME NEW s, NEW n \in Nat, s = [k \in 1 .. n |-> s[k]]
  PROVE  Arranged(s, 1 .. n, InPlace(1 .. n)) = s
<1> DEFINE I == 1 .. n
<1>1. IsFiniteSet(I) /\ Cardinality(I) = n /\ I \in SUBSET Int
  <2>1. 1 \in Int /\ n \in Int
    OBVIOUS
  <2>2. IsFiniteSet(1 .. n) /\ Cardinality(1 .. n) = IF 1 > n THEN 0 ELSE n - 1 + 1
    BY <2>1, FS_Interval, Zenon
  <2> QED BY <2>2
<1>2. Orders(InPlace(I), I)
  BY <1>1, InPlaceOrders
<1>3. PlacesTaken(s, I, InPlace(I))
  <2> HIDE DEF I
  <2> QED BY <1>1, <1>2, NthPlace
<1>4. /\ \A k \in 1 .. n : Nth(k, I, InPlace(I)) \in 1 .. n
                        /\ Rank(Nth(k, I, InPlace(I)), I, InPlace(I)) = k - 1
      /\ Arranged(s, I, InPlace(I)) = [k \in 1 .. n |-> s[Nth(k, I, InPlace(I))]]
  BY <1>1, <1>3 DEF PlacesTaken
<1>5. ASSUME NEW k \in 1 .. n PROVE Nth(k, I, InPlace(I)) = k
  <2> DEFINE i == Nth(k, I, InPlace(I))
  <2>1. i \in 1 .. n /\ Rank(i, 1 .. n, InPlace(1 .. n)) = k - 1
    BY <1>4
  <2> HIDE DEF i
  <2>2. i - 1 = k - 1
    BY <2>1, RankInPlace
  <2>3. i = k
    BY <2>1, <2>2
  <2> QED BY <2>3 DEF i
<1>6. Arranged(s, I, InPlace(I)) = [k \in 1 .. n |-> s[k]]
  BY <1>4, <1>5
<1> QED BY <1>6

LEMMA AllSources ==
  ASSUME NEW seq \in Seq(T1 \X T2)
  PROVE  SourcesIn(seq, T1) = Sources(seq)
<1>1. /\ DOMAIN seq = 1 .. Len(seq) /\ Len(seq) \in Nat
      /\ {i \in DOMAIN seq : seq[i][1] \in T1} = 1 .. Len(seq)
  BY PairsType
<1>2. Sources(seq) = [k \in 1 .. Len(seq) |-> Sources(seq)[k]]
  BY <1>1 DEF Sources
<1>3. Arranged(Sources(seq), 1 .. Len(seq), InPlace(1 .. Len(seq))) = Sources(seq)
  BY <1>1, <1>2, AllPlaces
<1> QED BY <1>1, <1>3 DEF SourcesIn

LEMMA NoSources ==
  ASSUME NEW seq
  PROVE  SourcesIn(seq, {}) = <<>>
<1>1. SourcesIn(seq, {}) = Arranged(Sources(seq), {}, InPlace({}))
  BY DEF SourcesIn
<1>2. Cardinality({}) = 0
  BY FS_EmptySet
<1> QED BY <1>1, <1>2 DEF Arranged

\* What slices.DeleteFunc leaves, in the words of the property.
LEMMA SourcesWithout ==
  ASSUME NEW seq \in Seq(T1 \X T2), NEW S, NEW T,
         \A i \in DOMAIN seq : seq[i][1] \notin S <=> seq[i][1] \in T
  PROVE  Sources(Without(seq, S)) = SourcesIn(seq, T)
<1> DEFINE I == {i \in DOMAIN seq : seq[i][1] \notin S}
           n == Cardinality(I)
<1>1. I = {i \in DOMAIN seq : seq[i][1] \in T}
  OBVIOUS
<1>2. Without(seq, S) = Arranged(seq, I, InPlace(I))
      /\ SourcesIn(seq, T) = Arranged(Sources(seq), I, InPlace(I))
  BY <1>1 DEF Without, SourcesIn
<1>3. I \in SUBSET DOMAIN seq /\ I \in SUBSET Int /\ IsFiniteSet(I)
  <2>1. DOMAIN seq = 1 .. Len(seq) /\ Len(seq) \in Nat
    BY PairsType
  <2>2. IsFiniteSet(1 .. Len(seq))
    BY <2>1, FS_Interval
  <2> QED BY <2>1, <2>2, FS_Subset
<1> HIDE DEF I
<1>4. Orders(InPlace(I), I)
  BY <1>3, InPlaceOrders
<1> DEFINE at(k) == Nth(k, I, InPlace(I))
<1>5. /\ \A k \in 1 .. n : at(k) \in I
      /\ Arranged(seq, I, InPlace(I)) = [k \in 1 .. n |-> seq[at(k)]]
      /\ Arranged(Sources(seq), I, InPlace(I)) = [k \in 1 .. n |-> Sources(seq)[at(k)]]
  <2>1. PlacesTaken(seq, I, InPlace(I)) /\ PlacesTaken(Sources(seq), I, InPlace(I))
    BY <1>3, <1>4, NthPlace
  <2> QED BY <2>1 DEF PlacesTaken
<1>6. \A k \in 1 .. n : Sources(seq)[at(k)] = seq[at(k)][1]
  BY <1>3, <1>5 DEF Sources
<1> HIDE DEF n, at
<1>7. Sources([k \in 1 .. n |-> seq[at(k)]]) = [k \in 1 .. n |-> seq[at(k)][1]]
  BY DEF Sources
<1> QED BY <1>2, <1>5, <1>6, <1>7

LEMMA SourcesType ==
  ASSUME NEW seq \in Seq(T1 \X T2)
  PROVE  Sources(seq) \in Seq(T1) /\ DOMAIN Sources(seq) = DOMAIN seq
<1>1. /\ DOMAIN seq = 1 .. Len(seq) /\ Len(seq) \in Nat
      /\ \A i \in DOMAIN seq : seq[i][1] \in T1
  BY PairsType
<1> QED BY <1>1 DEF Sources

LEMMA AppendIs ==
  ASSUME NEW S, NEW s \in Seq(S), NEW e \in S
  PROVE  Append(s, e) = [i \in 1 .. Len(s) + 1 |-> IF i = Len(s) + 1 THEN e ELSE s[i]]
<1> DEFINE q == Append(s, e)
           n == Len(s) + 1
<1>1. /\ q \in Seq(S) /\ Len(q) = n /\ n \in Nat /\ q[n] = e
      /\ \A i \in 1 .. Len(s) : q[i] = s[i]
  OBVIOUS
<1>2. \A i \in 1 .. n : i = n \/ i \in 1 .. Len(s)
  OBVIOUS
<1> HIDE DEF q, n
<1>3. q = [i \in 1 .. n |-> q[i]]
  BY <1>1
<1>4. \A i \in 1 .. n : q[i] = IF i = n THEN e ELSE s[i]
  BY <1>1, <1>2
<1>5. q = [i \in 1 .. n |-> IF i = n THEN e ELSE s[i]]
  BY <1>3, <1>4
<1> QED BY <1>5 DEF q, n

LEMMA EmptyIsUnit == ASSUME NEW S, NEW s \in Seq(S) PROVE s \o <<>> = s
OBVIOUS

LEMMA SourcesAppend ==
  ASSUME NEW seq \in Seq(T1 \X T2), NEW a \in T1, NEW b \in T2,
         \A i \in DOMAIN seq : seq[i][1] # a,
         NEW q, q = Append(seq, <<a, b>>)
  PROVE  Sources(q) = Append(Sources(seq), a) /\ SourcesIn(q, {a}) = <<a>>
<1> DEFINE n == Len(seq) + 1
<1>1. /\ DOMAIN seq = 1 .. Len(seq) /\ Len(seq) \in Nat /\ n \in Nat
      /\ DOMAIN q = 1 .. n /\ q[n] = <<a, b>>
      /\ \A i \in DOMAIN seq : q[i] = seq[i]
  OBVIOUS
<1>2. /\ Sources(seq) \in Seq(T1) /\ DOMAIN Sources(seq) = DOMAIN seq
      /\ \A i \in DOMAIN seq : Sources(seq)[i] = seq[i][1]
  BY SourcesType DEF Sources
<1>3. \A i \in 1 .. n : i \in DOMAIN seq \/ i = n
  BY <1>1
<1>4. Sources(q) = Append(Sources(seq), a)
  <2>1. Len(Sources(seq)) = Len(seq)
    BY <1>1, <1>2
  <2>2. Append(Sources(seq), a) = [i \in 1 .. n |-> IF i = n THEN a ELSE Sources(seq)[i]]
    BY <1>2, <2>1, AppendIs
  <2>3. \A i \in 1 .. n : q[i][1] = IF i = n THEN a ELSE Sources(seq)[i]
    BY <1>1, <1>2, <1>3
  <2> QED BY <1>1, <2>2, <2>3 DEF Sources
<1>5. {i \in DOMAIN q : q[i][1] \in {a}} = {n}
  <2>1. n \in DOMAIN q /\ q[n][1] = a
    BY <1>1
  <2>2. \A i \in DOMAIN q : i # n => q[i][1] # a
    BY <1>1, <1>3
  <2> HIDE DEF n
  <2> QED BY <2>1, <2>2
<1>6. SourcesIn(q, {a}) = Arranged(Sources(q), {n}, InPlace({n}))
  BY <1>5 DEF SourcesIn
<1>7. PlacesTaken(Sources(q), {n}, InPlace({n}))
  <2>1. {n} \in SUBSET Int
    BY <1>1
  <2> HIDE DEF n
  <2>2. IsFiniteSet({n})
    BY FS_Singleton
  <2>3. Orders(InPlace({n}), {n})
    BY <2>1, InPlaceOrders
  <2> QED BY <2>2, <2>3, NthPlace
<1>8. Arranged(Sources(q), {n}, InPlace({n})) = [k \in 1 .. 1 |-> Sources(q)[n]]
  <2> HIDE DEF n
  <2>1. Cardinality({n}) = 1
    BY FS_Singleton
  <2> QED BY <1>7, <2>1 DEF PlacesTaken
<1>9. Sources(q)[n] = a
  BY <1>1 DEF Sources
<1>10. [k \in 1 .. 1 |-> a] = <<a>>
  OBVIOUS
<1> QED BY <1>4, <1>6, <1>8, <1>9, <1>10

LEMMA KeptOrder ==
  ASSUME PairsInv, [Next]_vars, pairs' # ByPreOrder(pairs),
         NEW old, old = {a \in T1 : src[a] # None}, NEW new, new = {a \in T1 : src'[a] # None}
  PROVE  SourcesIn(pairs', T1) = SourcesIn(pairs, old \cap new) \o SourcesIn(pairs', new \ old)
<1>1. /\ pairs \in Seq(T1 \X T2) /\ pairs' \in Seq(T1 \X T2)
      /\ \A i \in DOMAIN pairs : pairs[i][1] \in T1 /\ src[pairs[i][1]] # None
  <2>1. pairs \in Seq(T1 \X T2) /\ \A i \in DOMAIN pairs : src[pairs[i][1]] = pairs[i][2]
    BY DEF PairsInv, Lists
  <2>2. PairsInv'
    BY NextPairs
  <2>3. pairs' \in Seq(T1 \X T2)
    BY <2>2 DEF PairsInv, Lists
  <2>4. \A i \in DOMAIN pairs : pairs[i][1] \in T1 /\ pairs[i][2] \in T2
    BY <2>1, PairsType
  <2> QED BY <2>1, <2>3, <2>4, NodesAssumption
<1>2. SourcesIn(pairs', T1) = Sources(pairs')
  BY <1>1, AllSources
\* No new source: what stays is what slices.DeleteFunc leaves.
<1>3. ASSUME NEW S, Sources(pairs') = Sources(Without(pairs, S)),
             \A x \in T1 : src[x] # None => (src'[x] # None <=> x \notin S),
             \A x \in T1 : src'[x] # None => src[x] # None
      PROVE  SourcesIn(pairs', T1) = SourcesIn(pairs, old \cap new) \o SourcesIn(pairs', new \ old)
  <2>1. new \ old = {}
    BY <1>3
  <2>2. \A i \in DOMAIN pairs : pairs[i][1] \notin S <=> pairs[i][1] \in old \cap new
    BY <1>1, <1>3
  <2>3. Sources(pairs') = SourcesIn(pairs, old \cap new)
    BY <1>1, <1>3, <2>2, SourcesWithout
  <2>4. SourcesIn(pairs', new \ old) = <<>>
    BY <2>1, NoSources
  <2>5. Sources(pairs') \in Seq(T1)
    BY <1>1, SourcesType
  <2>6. Sources(pairs') \o <<>> = Sources(pairs')
    BY <2>5, EmptyIsUnit
  <2> QED BY <1>2, <2>3, <2>4, <2>6
<1>4. ASSUME NEW S \in SUBSET T1, RemoveSet(S)
      PROVE  SourcesIn(pairs', T1) = SourcesIn(pairs, old \cap new) \o SourcesIn(pairs', new \ old)
  <2>1. pairs' = Without(pairs, S) /\ \A x \in T1 : src'[x] = IF x \in S THEN None ELSE src[x]
    BY <1>4 DEF RemoveSet
  <2>2. /\ \A x \in T1 : src[x] # None => (src'[x] # None <=> x \notin S)
        /\ \A x \in T1 : src'[x] # None => src[x] # None
    BY <2>1
  <2> QED BY <1>3, <2>1, <2>2
<1>5. ASSUME NEW a \in T1, NEW b \in T2, Add(a, b)
      PROVE  SourcesIn(pairs', T1) = SourcesIn(pairs, old \cap new) \o SourcesIn(pairs', new \ old)
  <2> DEFINE rival == {dst[b]} \ {a}
             g == [x \in T1 |-> IF x \in rival THEN None ELSE src[x]]
             W == Without(pairs, rival)
  <2>1. /\ Lists(W, g) /\ g[a] = src[a] /\ pairs' = PutPair(W, a, b)
        /\ \A x \in T1 : src'[x] = IF x = a THEN b ELSE g[x]
    BY <1>5, AddPairs
  <2>2. a \notin rival /\ b # None /\ \A x \in T1 : g[x] = IF x \in rival THEN None ELSE src[x]
    BY NodesAssumption
  <2> HIDE DEF g, rival, W
  <2>3. W \in Seq(T1 \X T2)
    BY <2>1 DEF Lists
  <2>4. CASE src[a] # None
    <3>1. DOMAIN pairs' = DOMAIN W /\ \A i \in DOMAIN W : pairs'[i][1] = W[i][1]
      BY <2>1, <2>4, PutPairLists
    <3>2. Sources(pairs') = Sources(W)
      BY <3>1 DEF Sources
    <3>3. /\ \A x \in T1 : src[x] # None => (src'[x] # None <=> x \notin rival)
          /\ \A x \in T1 : src'[x] # None => src[x] # None
      BY <2>1, <2>2, <2>4
    <3> QED BY <1>3, <3>2, <3>3 DEF W
  <2>5. CASE src[a] = None
    <3>1. pairs' = Append(W, <<a, b>>)
      BY <2>1, <2>5, PutPairLists
    <3>2. new \ old = {a} /\ \A x \in T1 : x \in old \cap new <=> src[x] # None /\ x \notin rival
      BY <2>1, <2>2, <2>5
    <3>3. \A i \in DOMAIN pairs : pairs[i][1] \notin rival <=> pairs[i][1] \in old \cap new
      BY <1>1, <3>2
    <3>4. Sources(W) = SourcesIn(pairs, old \cap new)
      BY <1>1, <3>3, SourcesWithout DEF W
    <3>5. \A i \in DOMAIN W : W[i][1] # a
      BY <2>1, <2>2, <2>3, <2>5, PairsType, NodesAssumption DEF Lists
    <3>6. Sources(pairs') = Append(Sources(W), a) /\ SourcesIn(pairs', {a}) = <<a>>
      BY <2>3, <3>1, <3>5, SourcesAppend
    <3>7. Sources(W) \in Seq(T1)
      BY <2>3, SourcesType
    <3>8. Append(Sources(W), a) = Sources(W) \o <<a>>
      BY <3>7
    <3> QED BY <1>2, <3>2, <3>4, <3>6, <3>8
  <2> QED BY <2>4, <2>5
<1>6. ASSUME NEW a \in T1, Remove(a)
      PROVE  SourcesIn(pairs', T1) = SourcesIn(pairs, old \cap new) \o SourcesIn(pairs', new \ old)
  <2>1. {a} \in SUBSET T1 /\ RemoveSet({a})
    BY <1>6 DEF Remove
  <2> QED BY <1>4, <2>1
<1>7. ASSUME UNCHANGED vars
      PROVE  SourcesIn(pairs', T1) = SourcesIn(pairs, old \cap new) \o SourcesIn(pairs', new \ old)
  <2>1. pairs' = pairs /\ src' = src /\ old = new
    BY <1>7 DEF vars
  <2>2. {i \in DOMAIN pairs : pairs[i][1] \in T1} = {i \in DOMAIN pairs : pairs[i][1] \in old \cap new}
    BY <1>1, <2>1
  <2>3. SourcesIn(pairs, T1) = SourcesIn(pairs, old \cap new)
    BY <2>2 DEF SourcesIn
  <2>4. SourcesIn(pairs', new \ old) = <<>>
    BY <2>1, NoSources
  <2>5. SourcesIn(pairs, T1) \in Seq(T1)
    BY <1>1, AllSources, SourcesType
  <2>6. SourcesIn(pairs, T1) \o <<>> = SourcesIn(pairs, T1)
    BY <2>5, EmptyIsUnit
  <2> QED BY <2>1, <2>3, <2>4, <2>6
<1>8. ~Sort /\ ~Matched
  BY DEF Sort, Matched
<1> QED BY <1>4, <1>5, <1>6, <1>7, <1>8 DEF Next

\* For trees of any size, a source that stays mapped keeps its place among the others, also
\* when Add gives it another partner, and a new one comes last; only the sorts reorder.
THEOREM MappingInsertionOrderKept == Spec => InsertionOrderKept
<1> DEFINE Kept == LET old == {a \in T1 : src[a] # None}
                       new == {a \in T1 : src'[a] # None}
                   IN pairs' # ByPreOrder(pairs) =>
                        SourcesIn(pairs', T1)
                          = SourcesIn(pairs, old \cap new) \o SourcesIn(pairs', new \ old)
<1>1. PairsInv /\ [Next]_vars => [Kept]_vars
  <2> SUFFICES ASSUME PairsInv, [Next]_vars PROVE Kept
    OBVIOUS
  <2> QED BY KeptOrder
<1>2. InsertionOrderKept <=> [][Kept]_vars
  BY DEF InsertionOrderKept
<1> HIDE DEF Kept
<1> QED BY <1>1, <1>2, PairsAlways, PTL DEF Spec
=============================================================================
