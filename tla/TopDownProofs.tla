---------------------------- MODULE TopDownProofs ----------------------------
(***************************************************************************)
(* The top-down pass only adds whole, equal and free subtrees, and the     *)
(* recovery inside containers proposes edits, on trees of any size and     *)
(* shape and for every language and partition of the lines.                *)
(*                                                                         *)
(* The invariant (IInv) is about the nodes the pass still has to do with:  *)
(* those in the priority lists are roots of free subtrees, those that wait *)
(* among the pairs put aside are mapped whole or not at all, and no two of *)
(* them overlap.  A level maps pairs without a rival below nodes of the    *)
(* lists, so two of its pairs never meet (BlocksApart), and opening only   *)
(* what is neither mapped nor put aside keeps the nodes apart.             *)
(*                                                                         *)
(* The pass is a fold inside a fold inside a fold.  Induction is stated    *)
(* with sets (NatSet); a fold runs through values given step by step       *)
(* (Runs), which is shown once for every fold of the model from the        *)
(* recursion it stands for (FoldExists, FoldRuns).                         *)
(*                                                                         *)
(* What recovery proposes is an edit whatever the tables of distances      *)
(* hold.  A place in post-order is the number of nodes before it           *)
(* (PostOrderLists), and a subtree is a block of such places (BlockBefore).*)
(* Throughout a walk the pairs found, the pairs of subtrees left for later *)
(* and the rectangle not walked yet agree with each other (Walking).       *)
(***************************************************************************)
EXTENDS TopDown, FiniteSetTheorems, TLAPS

\* The pairs a mapping can hold.
Pairs == Nat \X Nat

\* The pairs of two equal subtrees, in order.
Block(T, s, d) == {<<s + k, d + k>> : k \in 0 .. T[s].size - 1}

\* A node is free if nothing in its subtree is mapped, and whole if it is free or mapped.
Free(T, m, side, n) == \A x \in Subtree(T, n) : ~Mapped(m, side, x)
Whole(T, m, side, n) == Mapped(m, side, n) \/ Free(T, m, side, n)
Separate(T, a, b) == a = b \/ Subtree(T, a) \cap Subtree(T, b) = {}

\* The pairs put aside, before and after they are ranked.
Candidates == IF pc = "levels" THEN Range(aside) ELSE {x.pair : x \in Range(aside)}
Sides(P, side) == {p[side] : p \in P}

\* Candidates are equal subtrees.
Equal(P, T, U) == \A p \in P : p \in (DOMAIN T) \X (DOMAIN U) /\ Isomorphic(T, p[1], U, p[2])

\* The nodes N still to be looked at are roots of free subtrees that are apart from each
\* other and from the nodes W that wait.
Looking(T, m, side, N, W) ==
  /\ N \subseteq DOMAIN T
  /\ \A n \in N : Free(T, m, side, n)
  /\ \A a \in N, b \in N : Separate(T, a, b)
  /\ \A a \in N, b \in W : a # b /\ Separate(T, a, b)

\* The nodes that wait are apart, and each is matched as a whole or not at all.
Held(T, m, side, W) ==
  /\ \A n \in W : Whole(T, m, side, n)
  /\ \A a \in W, b \in W : Separate(T, a, b)

Types ==
  /\ input \in Inputs /\ pairs \in Seq(Pairs)
  /\ DOMAIN open = 1 .. 2
  /\ aside \in Seq(Range(aside))
  /\ pc = "levels" => aside \in Seq(Pairs)
  /\ Equal(Candidates, S, D)
Fronts ==
  \A side \in 1 .. 2 :
    /\ pc = "levels" => Looking(TreeOf(side), pairs, side, open[side], Sides(Candidates, side))
    /\ Held(TreeOf(side), pairs, side, Sides(Candidates, side))

IInv == pc \in {"levels", "greedy"} => Types /\ Fronts

\* What the matching of a level starts from: two sets of free nodes that are apart.
FreeRoots(side, H) ==
  /\ WellFormed(TreeOf(side)) /\ H \subseteq DOMAIN TreeOf(side)
  /\ \A n \in H : Free(TreeOf(side), pairs, side, n)
  /\ \A a \in H, b \in H : Separate(TreeOf(side), a, b)
Ready(H1, H2) ==
  /\ pairs \in Seq(Pairs) /\ aside \in Seq(Pairs)
  /\ FreeRoots(1, H1) /\ FreeRoots(2, H2)

\* The pairs without a rival, and the states the matching of a level runs through.
Unique(H1, H2) == {p \in H1 \X H2 : Isomorphic(S, p[1], D, p[2]) /\ ~Ambiguous(H1, H2, p[1], p[2])}
States == [m : Seq(Pairs), A : Seq(Pairs)]
Grown(m, H1, H2) ==
  /\ Range(pairs) \subseteq Range(m)
  /\ \A q \in Range(m) : q \in Range(pairs) \/ \E p \in Unique(H1, H2) :
                            q \in Block(S, p[1], p[2]) /\ Block(S, p[1], p[2]) \subseteq Range(m)
PutAside(A, H1, H2) ==
  /\ Range(aside) \subseteq Range(A)
  /\ \A q \in Range(A) : q \in Range(aside) \/ (q \in H1 \X H2 /\ Isomorphic(S, q[1], D, q[2]))
Reached(H1, H2) == {st \in States : Grown(st.m, H1, H2) /\ PutAside(st.A, H1, H2)}

\* A mapping keeps what is mapped, and what is new is in the subtrees of the nodes H that it maps.
Grows(T, m0, m, side, H) ==
  /\ \A x : Mapped(m0, side, x) => Mapped(m, side, x)
  /\ \A x : Mapped(m, side, x) => \/ Mapped(m0, side, x)
                                  \/ \E r \in H : x \in Subtree(T, r) /\ Mapped(m, side, r)

-----------------------------------------------------------------------------
\* Induction, and folds.

\* Induction over the numbers, for a set.
LEMMA NatSet ==
  ASSUME NEW P, 0 \in P, \A n \in Nat : n \in P => n + 1 \in P
  PROVE  Nat \subseteq P
<1> SUFFICES ASSUME NEW m \in Nat, m \notin P PROVE FALSE
  OBVIOUS
<1> DEFINE I == {i \in 0 .. m : i \notin P}
           f == [i \in I |-> i - 1]
<1>1. IsFiniteSet(I) /\ m \in I
  <2>1. IsFiniteSet(0 .. m)
    <3>1. 0 \in Int /\ m \in Int
      OBVIOUS
    <3> QED BY <3>1, FS_Interval
  <2> QED BY <2>1, FS_Subset
<1>2. \A i \in I : i - 1 \in I
  OBVIOUS
<1>3. f \in Injection(I, I)
  BY <1>2 DEF Injection, IsInjective
<1>4. f \in Surjection(I, I)
  <2> HIDE DEF I, f
  <2> QED BY <1>1, <1>3, FS_Injection
<1>5. \E i \in I : f[i] = m
  BY <1>1, <1>4 DEF Surjection
<1> QED BY <1>5

\* v runs through the values of a fold of n steps, step by step by g.
Runs(v, A, base, g, n) ==
  /\ v \in [0 .. n -> A]
  /\ v[0] = base
  /\ \A k \in 1 .. n : v[k] = g[<<v[k - 1], k>>]

\* The first k numbers.
LEMMA FirstNumbers ==
  ASSUME NEW n \in Nat, NEW k \in 1 .. n
  PROVE  (1 .. k) \in SUBSET (1 .. n) /\ 1 .. k # {} /\ (1 .. k) \ {k} = 1 .. k - 1
<1>1. (1 .. k) \in SUBSET (1 .. n)
  OBVIOUS
<1>2. k \in 1 .. k
  OBVIOUS
<1>3. \A i : i \in (1 .. k) \ {k} <=> i \in 1 .. k - 1
  OBVIOUS
<1> QED BY <1>1, <1>2, <1>3

\* The largest number of a set whose last place is k.
LEMMA MaxIs ==
  ASSUME NEW k \in Nat, NEW s \in SUBSET (1 .. k), k \in s
  PROVE  Max(s) = k
<1>1. \A y \in s : k >= y /\ y \in Int
  OBVIOUS
<1>2. \A x \in s : (\A y \in s : x >= y) => x = k
  BY <1>1
<1>3. Max(s) = CHOOSE x \in s : \A y \in s : x >= y
  BY DEF Max
<1> QED BY <1>1, <1>2, <1>3

\* A set of numbers up to n has a largest.
LEMMA MaxIn ==
  ASSUME NEW n \in Nat, NEW s \in SUBSET (0 .. n), s # {}
  PROVE  Max(s) \in s
<1> DEFINE P == {k \in Nat : \A t \in SUBSET (0 .. k) : t # {} => \E x \in t : \A y \in t : x >= y}
<1>1. 0 \in P
  <2>1. ASSUME NEW t \in SUBSET (0 .. 0), t # {} PROVE \E x \in t : \A y \in t : x >= y
    <3>1. \A y \in t : y = 0
      OBVIOUS
    <3>2. 0 \in t
      BY <2>1, <3>1
    <3> QED BY <3>1, <3>2
  <2> QED BY <2>1
<1>2. ASSUME NEW k \in Nat, k \in P PROVE k + 1 \in P
  <2> SUFFICES ASSUME NEW t \in SUBSET (0 .. k + 1), t # {} PROVE \E x \in t : \A y \in t : x >= y
    OBVIOUS
  <2>1. CASE k + 1 \in t
    BY <2>1
  <2>2. CASE k + 1 \notin t
    <3>1. t \in SUBSET (0 .. k)
      BY <2>2
    <3> QED BY <1>2, <3>1
  <2> QED BY <2>1, <2>2
<1>3. n \in P
  <2> HIDE DEF P
  <2> QED BY <1>1, <1>2, NatSet
<1>4. \E x \in s : \A y \in s : x >= y
  BY <1>3
<1> QED BY <1>4 DEF Max

\* A solution h of the recursion in MapThenFoldSet.
Solves(h, A, base, g, n) ==
  /\ h \in [SUBSET (1 .. n) -> A]
  /\ h = [s \in SUBSET (1 .. n) |-> IF s = {} THEN base ELSE g[<<h[s \ {Max(s)}], Max(s)>>]]

\* The recursion has a solution.
LEMMA FoldExists ==
  ASSUME NEW A, NEW base \in A, NEW n \in Nat, NEW g \in [A \X (1 .. n) -> A]
  PROVE  \E h : Solves(h, A, base, g, n)
<1> DEFINE Step(h, s) == IF s = {} THEN base ELSE g[<<h[s \ {Max(s)}], Max(s)>>]
           Good(k) == \E h \in [SUBSET (1 .. n) -> A] :
                        \A s \in SUBSET (1 .. n) : s \subseteq 1 .. k => h[s] = Step(h, s)
           P == {k \in Nat : k <= n => Good(k)}
<1>1. 0 \in P
  <2>1. [s \in SUBSET (1 .. n) |-> base] \in [SUBSET (1 .. n) -> A]
    OBVIOUS
  <2>2. \A s \in SUBSET (1 .. n) : s \subseteq 1 .. 0 => s = {}
    OBVIOUS
  <2>3. Good(0)
    BY <2>1, <2>2
  <2> QED BY <2>3
<1>2. ASSUME NEW k \in Nat, k \in P, k + 1 <= n PROVE Good(k + 1)
  <2>1. PICK h \in [SUBSET (1 .. n) -> A] :
          \A s \in SUBSET (1 .. n) : s \subseteq 1 .. k => h[s] = Step(h, s)
    <3>1. k <= n
      BY <1>2
    <3> HIDE DEF Step
    <3> QED BY <1>2, <3>1
  <2> DEFINE last == k + 1
             h1 == [s \in SUBSET (1 .. n) |->
                      IF last \in s /\ s \subseteq 1 .. last THEN g[<<h[s \ {last}], last>>] ELSE h[s]]
  <2>2. last \in 1 .. n
    BY <1>2
  <2>3. h1 \in [SUBSET (1 .. n) -> A]
    <3>1. ASSUME NEW s \in SUBSET (1 .. n) PROVE g[<<h[s \ {last}], last>>] \in A
      <4>1. s \ {last} \in SUBSET (1 .. n)
        OBVIOUS
      <4>2. h[s \ {last}] \in A
        BY <4>1
      <4> QED BY <2>2, <4>2
    <3> QED BY <3>1
  <2>4. ASSUME NEW s \in SUBSET (1 .. n), s \subseteq 1 .. last PROVE h1[s] = Step(h1, s)
    <3>1. CASE last \in s
      <4>1. Max(s) = last /\ s # {}
        BY <1>2, <2>2, <2>4, <3>1, MaxIs
      <4>2. s \ {last} \in SUBSET (1 .. n) /\ last \notin s \ {last}
        OBVIOUS
      <4>3. h1[s \ {last}] = h[s \ {last}]
        BY <4>2
      <4>4. h1[s] = g[<<h[s \ {last}], last>>]
        BY <2>4, <3>1
      <4> QED BY <4>1, <4>3, <4>4
    <3>2. CASE last \notin s
      <4>1. s \subseteq 1 .. k
        BY <2>4, <3>2
      <4>2. h1[s] = h[s] /\ h[s] = Step(h, s)
        BY <2>1, <3>2, <4>1
      <4>3. CASE s = {}
        BY <4>2, <4>3
      <4>4. CASE s # {}
        <5>1. s \ {Max(s)} \in SUBSET (1 .. n) /\ last \notin s \ {Max(s)}
          BY <3>2
        <5>2. h1[s \ {Max(s)}] = h[s \ {Max(s)}]
          BY <5>1
        <5> QED BY <4>2, <4>4, <5>2
      <4> QED BY <4>3, <4>4
    <3> QED BY <3>1, <3>2
  <2> HIDE DEF h1, Step
  <2> QED BY <2>3, <2>4
<1>3. \A k \in Nat : k \in P => k + 1 \in P
  <2> SUFFICES ASSUME NEW k \in Nat, k \in P PROVE k + 1 \in P
    OBVIOUS
  <2>1. k + 1 <= n => Good(k + 1)
    BY <1>2
  <2> HIDE DEF Good
  <2> QED BY <2>1
<1>4. n \in P
  <2> HIDE DEF P
  <2> QED BY <1>1, <1>3, NatSet
<1>5. PICK h \in [SUBSET (1 .. n) -> A] : \A s \in SUBSET (1 .. n) : h[s] = Step(h, s)
  <2>1. Good(n)
    <3> HIDE DEF Good
    <3> QED BY <1>4
  <2>2. \A s \in SUBSET (1 .. n) : s \subseteq 1 .. n
    OBVIOUS
  <2> HIDE DEF Step
  <2> QED BY <2>1, <2>2
<1>6. h = [s \in SUBSET (1 .. n) |-> Step(h, s)]
  <2> HIDE DEF Step
  <2> QED BY <1>5
<1> QED BY <1>6 DEF Solves

\* Any solution runs through the same values on the beginnings of the sequence.
LEMMA FoldRuns ==
  ASSUME NEW A, NEW base \in A, NEW n \in Nat, NEW g \in [A \X (1 .. n) -> A], NEW h,
         h[{}] = base,
         \A k \in 1 .. n : h[1 .. k - 1] \in A => h[1 .. k] = g[<<h[1 .. k - 1], k>>]
  PROVE  Runs([k \in 0 .. n |-> h[1 .. k]], A, base, g, n)
<1> DEFINE P == {k \in Nat : k <= n => h[1 .. k] \in A}
<1>1. 0 \in P
  <2>1. 1 .. 0 = {}
    OBVIOUS
  <2> QED BY <2>1
<1>2. ASSUME NEW k \in Nat, k \in P PROVE k + 1 \in P
  <2> SUFFICES ASSUME k + 1 <= n PROVE h[1 .. k + 1] \in A
    OBVIOUS
  <2>1. h[1 .. k] \in A /\ k + 1 \in 1 .. n /\ (k + 1) - 1 = k
    BY <1>2
  <2>2. h[1 .. k + 1] = g[<<h[1 .. k], k + 1>>]
    BY <2>1
  <2> QED BY <2>1, <2>2
<1>3. Nat \subseteq P
  <2> HIDE DEF P
  <2> QED BY <1>1, <1>2, NatSet
<1>4. \A k \in 0 .. n : h[1 .. k] \in A
  BY <1>3
<1>5. 1 .. 0 = {}
  OBVIOUS
<1>6. \A k \in 1 .. n : k - 1 \in 0 .. n /\ k \in 0 .. n
  OBVIOUS
<1> QED BY <1>4, <1>5, <1>6 DEF Runs

\* A step of Chosen, from the value before and the number of the step.
ChosenStep(seq, I, p) == IF p[2] \in I THEN Append(p[1], seq[p[2]]) ELSE p[1]

\* The entries chosen so far: what a fold stands for is the same recursion every time,
\* but no lemma can take its step as a parameter.
LEMMA ChosenRuns ==
  ASSUME NEW E, NEW seq \in Seq(E), NEW I
  PROVE  \E v : /\ Runs(v, Seq(E), <<>>, [p \in Seq(E) \X (1 .. Len(seq)) |-> ChosenStep(seq, I, p)], Len(seq))
               /\ Chosen(seq, I) = v[Len(seq)]
<1> DEFINE n == Len(seq)
           A == Seq(E)
           g == [p \in Seq(E) \X (1 .. n) |-> ChosenStep(seq, I, p)]
           ks == Numbers(n)
           h == CHOOSE iter : iter = [s \in SUBSET DOMAIN ks |->
                               IF s = {} THEN <<>>
                               ELSE IF ks[Max(s)] \in I THEN Append(iter[s \ {Max(s)}], seq[ks[Max(s)]]) ELSE iter[s \ {Max(s)}]]
<1>1. n \in Nat /\ <<>> \in A /\ g \in [A \X (1 .. n) -> A]
  BY DEF ChosenStep
<1>2. Chosen(seq, I) = h[DOMAIN ks]
  BY DEF Chosen, FoldLeft, MapThenFoldSet
<1>3. DOMAIN ks = 1 .. n /\ \A k \in 1 .. n : ks[k] = k
  BY DEF Numbers
<1> DEFINE Body(iter, s) ==
             IF s = {} THEN <<>>
             ELSE IF ks[Max(s)] \in I THEN Append(iter[s \ {Max(s)}], seq[ks[Max(s)]]) ELSE iter[s \ {Max(s)}]
<1>4. \E iter : iter = [s \in SUBSET DOMAIN ks |-> Body(iter, s)]
  <2>0. PICK iter : Solves(iter, A, <<>>, g, n)
    <3> HIDE DEF A, g, n
    <3> QED BY <1>1, FoldExists
  <2>1. /\ iter \in [SUBSET (1 .. n) -> A]
        /\ iter = [s \in SUBSET (1 .. n) |-> IF s = {} THEN <<>> ELSE g[<<iter[s \ {Max(s)}], Max(s)>>]]
    BY <2>0 DEF Solves
  <2>2. ASSUME NEW s \in SUBSET (1 .. n), s # {}
        PROVE  g[<<iter[s \ {Max(s)}], Max(s)>>] = Body(iter, s)
    <3>1. Max(s) \in 1 .. n
      <4>1. s \in SUBSET (0 .. n)
        OBVIOUS
      <4> QED BY <1>1, <2>2, <4>1, MaxIn
    <3>2. iter[s \ {Max(s)}] \in A
      BY <2>1
    <3> QED BY <1>3, <2>2, <3>1, <3>2 DEF ChosenStep
  <2>3. iter = [s \in SUBSET (1 .. n) |-> Body(iter, s)]
    <3> HIDE DEF g, A
    <3>1. \A s \in SUBSET (1 .. n) : (IF s = {} THEN <<>> ELSE g[<<iter[s \ {Max(s)}], Max(s)>>]) = Body(iter, s)
      <4>1. Body(iter, {}) = <<>>
        OBVIOUS
      <4> HIDE DEF Body
      <4> QED BY <2>2, <4>1
    <3> HIDE DEF Body
    <3> QED BY <2>1, <3>1
  <2> QED BY <1>3, <2>3
<1>5. h = [s \in SUBSET (1 .. n) |-> Body(h, s)]
  BY <1>3, <1>4
<1> HIDE DEF h
<1>6. h[{}] = <<>>
  <2>1. {} \in SUBSET (1 .. n) /\ Body(h, {}) = <<>>
    OBVIOUS
  <2> HIDE DEF Body
  <2> QED BY <1>5, <2>1
<1>7. ASSUME NEW k \in 1 .. n, h[1 .. k - 1] \in A PROVE h[1 .. k] = g[<<h[1 .. k - 1], k>>]
  <2>1. (1 .. k) \in SUBSET (1 .. n) /\ 1 .. k # {} /\ (1 .. k) \ {k} = 1 .. k - 1
    BY <1>1, FirstNumbers
  <2>2. Max(1 .. k) = k
    BY MaxIs
  <2>3. h[1 .. k] = Body(h, 1 .. k)
    <3> HIDE DEF Body
    <3> QED BY <1>5, <2>1
  <2>4. Body(h, 1 .. k) = ChosenStep(seq, I, <<h[1 .. k - 1], k>>)
    BY <1>3, <2>1, <2>2 DEF ChosenStep
  <2> HIDE DEF Body
  <2> QED BY <1>7, <2>3, <2>4
<1>8. Runs([k \in 0 .. n |-> h[1 .. k]], A, <<>>, g, n)
  <2> HIDE DEF A, g, n
  <2> QED BY <1>1, <1>6, <1>7, FoldRuns
<1>9. Chosen(seq, I) = [k \in 0 .. n |-> h[1 .. k]][n]
  BY <1>1, <1>2, <1>3
<1> QED BY <1>8, <1>9

\* What every step of a fold preserves holds at its end.
LEMMA RunsStay ==
  ASSUME NEW A, NEW base, NEW n \in Nat, NEW g, NEW v, Runs(v, A, base, g, n), NEW G,
         base \in G[0], \A k \in 1 .. n : \A a \in A : a \in G[k - 1] => g[<<a, k>>] \in G[k]
  PROVE  v[n] \in G[n]
<1> DEFINE P == {k \in Nat : k <= n => v[k] \in G[k]}
<1>1. v \in [0 .. n -> A] /\ v[0] = base /\ \A k \in 1 .. n : v[k] = g[<<v[k - 1], k>>]
  BY DEF Runs
<1>2. 0 \in P
  BY <1>1
<1>3. ASSUME NEW k \in Nat, k \in P PROVE k + 1 \in P
  <2> SUFFICES ASSUME k + 1 <= n PROVE v[k + 1] \in G[k + 1]
    OBVIOUS
  <2>1. v[k] \in G[k] /\ v[k] \in A /\ k + 1 \in 1 .. n /\ (k + 1) - 1 = k
    BY <1>1, <1>3
  <2>2. g[<<v[k], k + 1>>] \in G[k + 1]
    BY <2>1
  <2> QED BY <1>1, <2>1, <2>2
<1>4. n \in P
  <2> HIDE DEF P
  <2> QED BY <1>2, <1>3, NatSet
<1> QED BY <1>4

\* The longer sequence, entry by entry.
LEMMA AppendIs ==
  ASSUME NEW E, NEW s \in Seq(E), NEW e \in E
  PROVE  Append(s, e) = [i \in 1 .. Len(s) + 1 |-> IF i = Len(s) + 1 THEN e ELSE s[i]]
<1> DEFINE q == Append(s, e)
           n == Len(s) + 1
<1>1. /\ q \in Seq(E) /\ Len(q) = n /\ n \in Nat /\ q[n] = e
      /\ \A i \in 1 .. Len(s) : q[i] = s[i]
  OBVIOUS
<1>2. \A i \in 1 .. n : i = n \/ i \in 1 .. Len(s)
  OBVIOUS
<1> HIDE DEF q, n
<1>3. q = [i \in 1 .. n |-> q[i]]
  BY <1>1
<1>4. \A i \in 1 .. n : q[i] = IF i = n THEN e ELSE s[i]
  BY <1>1, <1>2
<1>5. q = [i \in 1 .. n |-> IF i = n THEN e ELSE s[i]]
  BY <1>3, <1>4
<1> QED BY <1>5 DEF q, n

\* Only chosen entries are left.
LEMMA ChosenIn ==
  ASSUME NEW E, NEW seq \in Seq(E), NEW I
  PROVE  Chosen(seq, I) \in Seq({seq[k] : k \in I \cap DOMAIN seq}) /\ Chosen(seq, I) \in Seq(E)
<1> DEFINE n == Len(seq)
           A == Seq(E)
           F == {seq[k] : k \in I \cap DOMAIN seq}
           g == [p \in Seq(E) \X (1 .. n) |-> ChosenStep(seq, I, p)]
           G == [k \in 0 .. n |-> Seq(F)]
<1>1. PICK v : Runs(v, A, <<>>, g, n) /\ Chosen(seq, I) = v[n]
  BY ChosenRuns
<1>2. n \in Nat /\ <<>> \in G[0] /\ DOMAIN seq = 1 .. n
  OBVIOUS
<1>3. ASSUME NEW k \in 1 .. n, NEW a \in A, a \in G[k - 1] PROVE g[<<a, k>>] \in G[k]
  <2>1. a \in Seq(F) /\ G[k] = Seq(F)
    BY <1>3
  <2>2. ChosenStep(seq, I, <<a, k>>) \in Seq(F)
    <3>1. CASE k \in I
      <4>1. seq[k] \in F
        BY <1>2, <3>1
      <4> HIDE DEF F
      <4> QED BY <2>1, <3>1, <4>1 DEF ChosenStep
    <3>2. CASE k \notin I
      BY <2>1, <3>2 DEF ChosenStep
    <3> QED BY <3>1, <3>2
  <2> HIDE DEF F
  <2> QED BY <2>1, <2>2
<1>4. v[n] \in G[n]
  <2> HIDE DEF A, g, G, n
  <2> QED BY <1>1, <1>2, <1>3, RunsStay
<1>5. G[n] = Seq(F)
  BY <1>2
<1>6. v[n] \in A
  BY <1>1, <1>2 DEF Runs
<1> QED BY <1>1, <1>4, <1>5, <1>6

\* If all are chosen nothing changes.
LEMMA ChosenAll ==
  ASSUME NEW E, NEW seq \in Seq(E), NEW I, DOMAIN seq \subseteq I
  PROVE  Chosen(seq, I) = seq
<1> DEFINE n == Len(seq)
           A == Seq(E)
           g == [p \in Seq(E) \X (1 .. n) |-> ChosenStep(seq, I, p)]
           head(k) == [i \in 1 .. k |-> seq[i]]
           G == [k \in 0 .. n |-> {head(k)}]
<1>1. PICK v : Runs(v, A, <<>>, g, n) /\ Chosen(seq, I) = v[n]
  BY ChosenRuns
<1>2. n \in Nat /\ DOMAIN seq = 1 .. n
  OBVIOUS
<1>3. <<>> \in G[0]
  <2>1. head(0) = <<>>
    OBVIOUS
  <2> QED BY <1>2, <2>1
<1>4. ASSUME NEW k \in 1 .. n, NEW a \in A, a \in G[k - 1] PROVE g[<<a, k>>] \in G[k]
  <2>1. k - 1 \in 0 .. n /\ k \in I /\ seq[k] \in E
    BY <1>2
  <2>2. a = head(k - 1)
    BY <1>4, <2>1
  <2>3. Len(a) = k - 1
    BY <2>1, <2>2
  <2>4. Append(a, seq[k]) = [i \in 1 .. k |-> IF i = k THEN seq[k] ELSE a[i]]
    <3>1. Append(a, seq[k]) = [i \in 1 .. Len(a) + 1 |-> IF i = Len(a) + 1 THEN seq[k] ELSE a[i]]
      BY <2>1, AppendIs
    <3>2. Len(a) + 1 = k
      BY <2>3
    <3> QED BY <3>1, <3>2
  <2>5. \A i \in 1 .. k : (IF i = k THEN seq[k] ELSE a[i]) = seq[i]
    BY <2>2
  <2>6. Append(a, seq[k]) = head(k)
    BY <2>4, <2>5
  <2>7. g[<<a, k>>] = Append(a, seq[k])
    BY <2>1 DEF ChosenStep
  <2> QED BY <2>6, <2>7
<1>5. v[n] \in G[n]
  <2> HIDE DEF A, g, G, n
  <2> QED BY <1>1, <1>2, <1>3, <1>4, RunsStay
<1>6. v[n] = head(n)
  BY <1>2, <1>5
<1>7. head(n) = seq
  BY <1>2
<1> QED BY <1>1, <1>6, <1>7

-----------------------------------------------------------------------------
\* Trees, blocks and the addition of a pair.

\* A score keeps the pair it is the score of.
LEMMA PairKept ==
  ASSUME NEW m, NEW p
  PROVE  Score(m, p).pair = <<p[1], p[2]>>
BY DEF Score, ScoreIn

\* Subtrees lie inside the tree.
LEMMA SubtreeInside ==
  ASSUME NEW T, WellFormed(T), NEW n \in DOMAIN T
  PROVE  /\ n \in Nat \ {0} /\ T[n].size \in Nat \ {0}
         /\ n \in Subtree(T, n) /\ Subtree(T, n) \subseteq DOMAIN T
         /\ Descendants(T, n) \subseteq Subtree(T, n) /\ ChildSet(T, n) \subseteq Descendants(T, n)
BY DEF WellFormed, Subtree, Descendants, ChildSet

\* The subtree of a child is inside, without its parent.
LEMMA ChildInside ==
  ASSUME NEW T, WellFormed(T), NEW n \in DOMAIN T, NEW c \in ChildSet(T, n)
  PROVE  c \in DOMAIN T /\ c # n /\ Subtree(T, c) \subseteq Subtree(T, n)
<1>1. /\ n \in Nat \ {0} /\ T[n].size \in Nat \ {0}
      /\ c \in Descendants(T, n) /\ c \in DOMAIN T
  BY SubtreeInside
<1>2. c \in Nat /\ T[c].size \in Nat \ {0} /\ c + T[c].size <= n + T[n].size
  BY <1>1 DEF WellFormed
<1> QED BY <1>1, <1>2 DEF Subtree, Descendants

\* The subtrees of two children do not overlap.
LEMMA ChildrenApart ==
  ASSUME NEW T, WellFormed(T), NEW n \in DOMAIN T, NEW c \in ChildSet(T, n), NEW e \in ChildSet(T, n), c # e
  PROVE  Subtree(T, c) \cap Subtree(T, e) = {}
<1>1. ASSUME NEW x \in ChildSet(T, n), NEW y \in ChildSet(T, n), x < y
      PROVE  Subtree(T, x) \cap Subtree(T, y) = {}
  <2>1. /\ n \in Nat /\ T[n].size \in Nat /\ x \in DOMAIN T /\ y \in DOMAIN T
        /\ x \in Descendants(T, n) /\ T[y].parent = n
    BY SubtreeInside DEF ChildSet
  <2>2. /\ x \in Nat /\ y \in Nat /\ T[x].size \in Nat /\ T[y].size \in Nat /\ n < x
    BY <2>1, SubtreeInside DEF Descendants
  <2>3. y \notin Descendants(T, x)
    <3>1. SUFFICES ASSUME y \in Descendants(T, x) PROVE FALSE
      OBVIOUS
    <3>2. T[y].parent \in Subtree(T, x)
      BY <2>1, <3>1 DEF WellFormed
    <3> QED BY <2>1, <2>2, <3>2 DEF Subtree
  <2>4. x + T[x].size <= y
    BY <1>1, <2>2, <2>3 DEF Descendants
  <2> QED BY <2>2, <2>4 DEF Subtree
<1>2. c \in Nat /\ e \in Nat
  BY SubtreeInside DEF Descendants
<1>3. CASE c < e
  BY <1>1, <1>3
<1>4. CASE e < c
  BY <1>1, <1>4
<1> QED BY <1>2, <1>3, <1>4

\* Under a pair of equal subtrees the nodes in order are equal subtrees themselves.
LEMMA BlockWhole ==
  ASSUME NEW T, NEW U, WellFormed(T), WellFormed(U), NEW s \in DOMAIN T, NEW d \in DOMAIN U,
         Isomorphic(T, s, U, d), NEW p \in Block(T, s, d)
  PROVE  /\ p \in Subtree(T, s) \X Subtree(U, d)
         /\ Isomorphic(T, p[1], U, p[2])
         /\ Block(T, p[1], p[2]) \subseteq Block(T, s, d)
<1>1. PICK k \in 0 .. T[s].size - 1 : p = <<s + k, d + k>>
  BY DEF Block
<1>2. /\ s \in Nat \ {0} /\ T[s].size \in Nat \ {0} /\ d \in Nat \ {0} /\ U[d].size = T[s].size
  BY SubtreeInside DEF Isomorphic, SameShape
<1>3. /\ s + k \in Subtree(T, s) /\ d + k \in Subtree(U, d)
  BY <1>2 DEF Subtree
<1>4. /\ s + k \in DOMAIN T /\ T[s + k].size \in Nat \ {0} /\ U[d + k].size = T[s + k].size
  BY <1>2, <1>3, SubtreeInside DEF Isomorphic, SameShape
<1>5. s + k + T[s + k].size <= s + T[s].size
  <2>1. CASE k = 0
    BY <1>2, <2>1
  <2>2. CASE k # 0
    <3>1. s + k \in Descendants(T, s)
      BY <1>2, <2>2 DEF Descendants
    <3>2. (s + k) + T[s + k].size <= s + T[s].size
      BY <3>1 DEF WellFormed
    <3> QED BY <1>2, <1>4, <3>2
  <2> QED BY <2>1, <2>2
<1>6. ASSUME NEW j \in 0 .. T[s + k].size - 1
      PROVE  k + j \in 0 .. T[s].size - 1 /\ (s + k) + j = s + (k + j) /\ (d + k) + j = d + (k + j)
  BY <1>2, <1>4, <1>5
<1>7. Isomorphic(T, s + k, U, d + k)
  BY <1>4, <1>6 DEF Isomorphic, SameShape
<1>8. Block(T, s + k, d + k) \subseteq Block(T, s, d)
  BY <1>6 DEF Block
<1> QED BY <1>1, <1>3, <1>7, <1>8

\* Whoever is in a block is there with the partner in order.
LEMMA BlockOffset ==
  ASSUME NEW T, NEW s \in Nat, NEW d \in Nat, NEW p \in Block(T, s, d)
  PROVE  p[2] - d = p[1] - s
BY DEF Block

\* The root pair is in its block.
LEMMA BlockRoot ==
  ASSUME NEW T, WellFormed(T), NEW s \in DOMAIN T, NEW d \in Nat
  PROVE  <<s, d>> \in Block(T, s, d)
<1>1. s \in Nat /\ T[s].size \in Nat \ {0}
  BY SubtreeInside
<1>2. 0 \in 0 .. T[s].size - 1 /\ s + 0 = s /\ d + 0 = d
  BY <1>1
<1> QED BY <1>2 DEF Block

\* Whatever was mapped, adding a pair leaves a list of pairs.
LEMMA AddPairType ==
  ASSUME NEW m \in Seq(Pairs), NEW s \in Nat, NEW d \in Nat
  PROVE  AddPair(m, s, d) \in Seq(Pairs)
<1> DEFINE I == {k \in DOMAIN m : m[k][2] # d \/ m[k][1] = s}
           kept == Chosen(m, I)
<1>1. kept \in Seq(Pairs)
  BY ChosenIn
<1>2. <<s, d>> \in Pairs
  BY DEF Pairs
<1> HIDE DEF kept, Pairs
<1>3. [k \in DOMAIN kept |-> IF kept[k][1] = s THEN <<s, d>> ELSE kept[k]] \in Seq(Pairs)
  <2>1. DOMAIN kept = 1 .. Len(kept) /\ Len(kept) \in Nat /\ \A k \in DOMAIN kept : kept[k] \in Pairs
    BY <1>1
  <2>2. \A k \in 1 .. Len(kept) : (IF kept[k][1] = s THEN <<s, d>> ELSE kept[k]) \in Pairs
    BY <1>2, <2>1
  <2> QED BY <2>1, <2>2
<1>4. Append(kept, <<s, d>>) \in Seq(Pairs)
  BY <1>1, <1>2
<1> QED BY <1>3, <1>4 DEF AddPair, kept

\* If nobody else has either partner the pair is added and nothing else changes.
LEMMA AddPairAdds ==
  ASSUME NEW m \in Seq(Pairs), NEW s \in Nat, NEW d \in Nat,
         \A p \in Range(m) : p[1] = s \/ p[2] = d => p = <<s, d>>
  PROVE  Range(AddPair(m, s, d)) = Range(m) \cup {<<s, d>>}
<1> DEFINE I == {k \in DOMAIN m : m[k][2] # d \/ m[k][1] = s}
           kept == Chosen(m, I)
<1>1. \A k \in DOMAIN m : m[k][1] = s \/ m[k][2] = d => m[k] = <<s, d>>
  BY DEF Range
<1>2. kept = m
  <2>1. DOMAIN m \subseteq I
    BY <1>1
  <2> QED BY <2>1, ChosenAll
<1>3. CASE Mapped(m, 1, s)
  <2>1. PICK j \in DOMAIN m : m[j][1] = s
    BY <1>3 DEF Mapped, Range
  <2>2. AddPair(m, s, d) = [k \in DOMAIN m |-> IF m[k][1] = s THEN <<s, d>> ELSE m[k]]
    <3> HIDE DEF kept
    <3> QED BY <1>2, <1>3 DEF AddPair, kept
  <2>3. \A k \in DOMAIN m : (IF m[k][1] = s THEN <<s, d>> ELSE m[k]) = m[k]
    BY <1>1
  <2>4. Range(AddPair(m, s, d)) = Range(m)
    BY <2>2, <2>3 DEF Range
  <2>5. <<s, d>> \in Range(m)
    BY <1>1, <2>1 DEF Range
  <2> QED BY <2>4, <2>5
<1>4. CASE ~Mapped(m, 1, s)
  <2>1. AddPair(m, s, d) = Append(m, <<s, d>>)
    <3> HIDE DEF kept
    <3> QED BY <1>2, <1>4 DEF AddPair, kept
  <2>2. <<s, d>> \in Pairs
    BY DEF Pairs
  <2> HIDE DEF Pairs
  <2>3. Append(m, <<s, d>>) = [i \in 1 .. Len(m) + 1 |-> IF i = Len(m) + 1 THEN <<s, d>> ELSE m[i]]
    BY <2>2, AppendIs
  <2>4. DOMAIN m = 1 .. Len(m) /\ Len(m) \in Nat
    OBVIOUS
  <2>5. \A i \in 1 .. Len(m) + 1 : i \in 1 .. Len(m) \/ i = Len(m) + 1
    BY <2>4
  <2>6. /\ Len(m) + 1 \notin 1 .. Len(m) /\ Len(m) + 1 \in 1 .. Len(m) + 1
        /\ 1 .. Len(m) \subseteq 1 .. Len(m) + 1
    BY <2>4
  <2> QED BY <2>1, <2>3, <2>4, <2>5, <2>6 DEF Range
<1> QED BY <1>3, <1>4

-----------------------------------------------------------------------------
\* The addition of a block.

\* A step of AddIsomorphicPairs.
AddStep(s, d, p) == AddPair(p[1], s + p[2] - 1, d + p[2] - 1)

\* The mappings between the pair at the roots and the last pair of two subtrees.
LEMMA AddRuns ==
  ASSUME NEW m \in Seq(Pairs), NEW s \in Nat, NEW d \in Nat, S[s].size \in Nat
  PROVE  \E v : /\ Runs(v, Seq(Pairs), m, [p \in Seq(Pairs) \X (1 .. S[s].size) |-> AddStep(s, d, p)], S[s].size)
               /\ AddIsomorphicPairs(m, s, d) = v[S[s].size]
<1> DEFINE n == S[s].size
           A == Seq(Pairs)
           g == [p \in Seq(Pairs) \X (1 .. n) |-> AddStep(s, d, p)]
           ks == Numbers(n)
           h == CHOOSE iter : iter = [t \in SUBSET DOMAIN ks |->
                               IF t = {} THEN m
                               ELSE AddPair(iter[t \ {Max(t)}], s + ks[Max(t)] - 1, d + ks[Max(t)] - 1)]
<1>1. n \in Nat /\ m \in A /\ g \in [A \X (1 .. n) -> A]
  <2>1. ASSUME NEW a \in A, NEW k \in 1 .. n PROVE AddStep(s, d, <<a, k>>) \in A
    <3>1. s + k - 1 \in Nat /\ d + k - 1 \in Nat
      OBVIOUS
    <3> QED BY <3>1, AddPairType DEF AddStep
  <2> HIDE DEF A
  <2>2. \A p \in A \X (1 .. n) : AddStep(s, d, p) \in A
    BY <2>1
  <2> QED BY <2>2 DEF A
<1>2. AddIsomorphicPairs(m, s, d) = h[DOMAIN ks]
  BY DEF AddIsomorphicPairs, FoldLeft, MapThenFoldSet
<1>3. DOMAIN ks = 1 .. n /\ \A k \in 1 .. n : ks[k] = k
  BY DEF Numbers
<1> DEFINE Body(iter, t) ==
             IF t = {} THEN m ELSE AddPair(iter[t \ {Max(t)}], s + ks[Max(t)] - 1, d + ks[Max(t)] - 1)
<1>4. ASSUME NEW iter, NEW t \in SUBSET (1 .. n), t # {}, iter[t \ {Max(t)}] \in A
      PROVE  g[<<iter[t \ {Max(t)}], Max(t)>>] = Body(iter, t)
  <2>1. t \in SUBSET (0 .. n)
    OBVIOUS
  <2>2. Max(t) \in 1 .. n
    BY <1>1, <1>4, <2>1, MaxIn
  <2> QED BY <1>3, <1>4, <2>2 DEF AddStep
<1>5. \E iter : iter = [t \in SUBSET DOMAIN ks |-> Body(iter, t)]
  <2>0. PICK iter : Solves(iter, A, m, g, n)
    <3> HIDE DEF A, g, n
    <3> QED BY <1>1, FoldExists
  <2>1. /\ iter \in [SUBSET (1 .. n) -> A]
        /\ iter = [t \in SUBSET (1 .. n) |-> IF t = {} THEN m ELSE g[<<iter[t \ {Max(t)}], Max(t)>>]]
    BY <2>0 DEF Solves
  <2>2. ASSUME NEW t \in SUBSET (1 .. n), t # {} PROVE iter[t \ {Max(t)}] \in A
    BY <2>1
  <2>3. iter = [t \in SUBSET (1 .. n) |-> Body(iter, t)]
    <3> HIDE DEF g, A
    <3>1. \A t \in SUBSET (1 .. n) : (IF t = {} THEN m ELSE g[<<iter[t \ {Max(t)}], Max(t)>>]) = Body(iter, t)
      <4>1. Body(iter, {}) = m
        OBVIOUS
      <4> HIDE DEF Body
      <4> QED BY <1>4, <2>2, <4>1
    <3> HIDE DEF Body
    <3> QED BY <2>1, <3>1
  <2> HIDE DEF Body, ks
  <2> QED BY <1>3, <2>3
<1>6. h = [t \in SUBSET (1 .. n) |-> Body(h, t)]
  BY <1>3, <1>5
<1> HIDE DEF h
<1>7. h[{}] = m
  <2>1. {} \in SUBSET (1 .. n) /\ Body(h, {}) = m
    OBVIOUS
  <2> HIDE DEF Body
  <2> QED BY <1>6, <2>1
<1>8. ASSUME NEW k \in 1 .. n, h[1 .. k - 1] \in A PROVE h[1 .. k] = g[<<h[1 .. k - 1], k>>]
  <2>1. (1 .. k) \in SUBSET (1 .. n) /\ 1 .. k # {} /\ (1 .. k) \ {k} = 1 .. k - 1
    BY <1>1, FirstNumbers
  <2>2. Max(1 .. k) = k
    BY MaxIs
  <2>3. h[1 .. k] = Body(h, 1 .. k)
    <3> HIDE DEF Body
    <3> QED BY <1>6, <2>1
  <2>4. h[(1 .. k) \ {Max(1 .. k)}] \in A
    <3> HIDE DEF A
    <3> QED BY <1>8, <2>1, <2>2
  <2>5. g[<<h[(1 .. k) \ {Max(1 .. k)}], Max(1 .. k)>>] = Body(h, 1 .. k)
    <3> HIDE DEF Body, g, A
    <3> QED BY <1>4, <2>1, <2>4
  <2> HIDE DEF Body, g, A
  <2> QED BY <2>1, <2>2, <2>3, <2>5
<1>9. Runs([k \in 0 .. n |-> h[1 .. k]], A, m, g, n)
  <2> HIDE DEF A, g, n
  <2> QED BY <1>1, <1>7, <1>8, FoldRuns
<1>10. AddIsomorphicPairs(m, s, d) = [k \in 0 .. n |-> h[1 .. k]][n]
  BY <1>1, <1>2, <1>3
<1> QED BY <1>9, <1>10

\* Whatever was mapped, adding a block leaves a list of pairs.
LEMMA AddIsomorphicType ==
  ASSUME NEW m \in Seq(Pairs), NEW s \in Nat, NEW d \in Nat, S[s].size \in Nat
  PROVE  AddIsomorphicPairs(m, s, d) \in Seq(Pairs)
<1>1. S[s].size \in 0 .. S[s].size
  OBVIOUS
<1> HIDE DEF Pairs
<1>2. PICK v : /\ Runs(v, Seq(Pairs), m, [p \in Seq(Pairs) \X (1 .. S[s].size) |-> AddStep(s, d, p)], S[s].size)
               /\ AddIsomorphicPairs(m, s, d) = v[S[s].size]
  BY AddRuns
<1> QED BY <1>1, <1>2 DEF Runs

\* If whoever is mapped in the two subtrees is mapped in order, the block is added and
\* nothing else changes.
LEMMA AddIsomorphicAdds ==
  ASSUME NEW m \in Seq(Pairs), NEW s \in Nat, NEW d \in Nat, S[s].size \in Nat,
         \A p \in Range(m) : p[1] \in Subtree(S, s) \/ p[2] \in d .. d + S[s].size - 1 => p[2] - d = p[1] - s
  PROVE  Range(AddIsomorphicPairs(m, s, d)) = Range(m) \cup Block(S, s, d)
<1> DEFINE n == S[s].size
           A == Seq(Pairs)
           g == [p \in Seq(Pairs) \X (1 .. n) |-> AddStep(s, d, p)]
           first(k) == {<<s + j, d + j>> : j \in 0 .. k - 1}
           G == [k \in 0 .. n |-> {a \in A : Range(a) = Range(m) \cup first(k)}]
<1>1. PICK v : Runs(v, A, m, g, n) /\ AddIsomorphicPairs(m, s, d) = v[n]
  BY AddRuns
<1>2. m \in G[0]
  <2>1. first(0) = {}
    OBVIOUS
  <2> QED BY <2>1
<1>3. ASSUME NEW k \in 1 .. n, NEW a \in A, a \in G[k - 1] PROVE g[<<a, k>>] \in G[k]
  <2> DEFINE s1 == s + k - 1
             d1 == d + k - 1
  <2>1. s1 \in Nat /\ d1 \in Nat /\ k - 1 \in 0 .. n /\ k \in 0 .. n
    OBVIOUS
  <2>2. Range(a) = Range(m) \cup first(k - 1)
    BY <1>3, <2>1
  <2>3. ASSUME NEW p \in Range(a) PROVE p[1] \in Nat /\ p[2] \in Nat /\ p = <<p[1], p[2]>>
    <3>1. p \in Pairs
      <4> HIDE DEF Pairs
      <4> QED BY DEF Range
    <3> QED BY <3>1 DEF Pairs
  <2>4. s1 \in Subtree(S, s) /\ d1 \in d .. d + S[s].size - 1
    BY DEF Subtree
  <2>5. ASSUME NEW p \in Range(a), p[1] = s1 \/ p[2] = d1 PROVE p = <<s1, d1>>
    <3>1. CASE p \in Range(m)
      <4>1. p[2] - d = p[1] - s
        BY <2>4, <2>5, <3>1
      <4>2. p[1] = s1 /\ p[2] = d1
        BY <2>3, <2>5, <4>1
      <4> QED BY <2>3, <4>2
    <3>2. CASE p \in first(k - 1)
      BY <2>5, <3>2
    <3> QED BY <2>2, <3>1, <3>2
  <2>6. Range(AddPair(a, s1, d1)) = Range(a) \cup {<<s1, d1>>} /\ AddPair(a, s1, d1) \in A
    <3> HIDE DEF s1, d1
    <3> QED BY <2>1, <2>5, AddPairAdds, AddPairType
  <2>7. first(k) = first(k - 1) \cup {<<s1, d1>>}
    <3>1. \A j \in 0 .. k - 1 : j \in 0 .. (k - 1) - 1 \/ j = k - 1
      OBVIOUS
    <3>2. 0 .. (k - 1) - 1 \subseteq 0 .. k - 1 /\ k - 1 \in 0 .. k - 1 /\ s1 = s + (k - 1) /\ d1 = d + (k - 1)
      OBVIOUS
    <3> HIDE DEF s1, d1
    <3> QED BY <3>1, <3>2
  <2>8. g[<<a, k>>] = AddPair(a, s1, d1)
    BY DEF AddStep
  <2> HIDE DEF s1, d1, first, g, A
  <2> QED BY <2>1, <2>2, <2>6, <2>7, <2>8
<1>4. v[n] \in G[n]
  <2>1. n \in Nat
    OBVIOUS
  <2> HIDE DEF A, g, G, n
  <2> QED BY <1>1, <1>2, <1>3, <2>1, RunsStay
<1>5. Range(v[n]) = Range(m) \cup first(n)
  <2>1. n \in 0 .. n
    OBVIOUS
  <2> HIDE DEF first, n, A
  <2> QED BY <1>4, <2>1
<1>6. first(n) = Block(S, s, d)
  BY DEF Block
<1> HIDE DEF first, n
<1> QED BY <1>1, <1>5, <1>6

-----------------------------------------------------------------------------
\* The matching of a level.

\* Of two pairs without a rival neither partner is the same.
LEMMA UniqueOnce ==
  ASSUME NEW H1, NEW H2, NEW p \in Unique(H1, H2), NEW q \in Unique(H1, H2), p[1] = q[1] \/ p[2] = q[2]
  PROVE  p = q
<1>1. /\ p[1] \in H1 /\ p[2] \in H2 /\ q[1] \in H1 /\ q[2] \in H2 /\ p = <<p[1], p[2]>> /\ q = <<q[1], q[2]>>
      /\ Isomorphic(S, p[1], D, p[2]) /\ ~Ambiguous(H1, H2, p[1], p[2])
      /\ Isomorphic(S, q[1], D, q[2])
  BY DEF Unique
<1>2. p[1] = q[1] /\ p[2] = q[2]
  BY <1>1 DEF Ambiguous
<1> QED BY <1>1, <1>2

\* An entry more.
LEMMA RangeAppend ==
  ASSUME NEW E, NEW s \in Seq(E), NEW e \in E
  PROVE  Range(Append(s, e)) = Range(s) \cup {e}
<1>1. Append(s, e) = [i \in 1 .. Len(s) + 1 |-> IF i = Len(s) + 1 THEN e ELSE s[i]]
  BY AppendIs
<1>2. DOMAIN s = 1 .. Len(s) /\ Len(s) \in Nat
  OBVIOUS
<1>3. \A i \in 1 .. Len(s) + 1 : i \in 1 .. Len(s) \/ i = Len(s) + 1
  BY <1>2
<1>4. /\ Len(s) + 1 \notin 1 .. Len(s) /\ Len(s) + 1 \in 1 .. Len(s) + 1
      /\ 1 .. Len(s) \subseteq 1 .. Len(s) + 1
  BY <1>2
<1> QED BY <1>1, <1>2, <1>3, <1>4 DEF Range

\* The roots a pair of a level is made of.
LEMMA RootFacts ==
  ASSUME NEW H1, NEW H2, Ready(H1, H2), NEW s \in H1, NEW d \in H2, Isomorphic(S, s, D, d)
  PROVE  /\ WellFormed(S) /\ WellFormed(D) /\ s \in DOMAIN S /\ d \in DOMAIN D
         /\ s \in Nat /\ d \in Nat /\ S[s].size \in Nat
         /\ Subtree(D, d) = d .. d + S[s].size - 1
         /\ \A p \in Range(pairs) : p[1] \notin Subtree(S, s) /\ p[2] \notin Subtree(D, d)
<1>1. /\ WellFormed(S) /\ WellFormed(D) /\ s \in DOMAIN S /\ d \in DOMAIN D
      /\ Free(S, pairs, 1, s) /\ Free(D, pairs, 2, d)
  BY DEF Ready, FreeRoots, TreeOf
<1>2. /\ s \in Nat /\ d \in Nat /\ S[s].size \in Nat
  BY <1>1, SubtreeInside
<1>3. Subtree(D, d) = d .. d + S[s].size - 1
  BY DEF Isomorphic, SameShape, Subtree
<1>4. \A p \in Range(pairs) : p[1] \notin Subtree(S, s) /\ p[2] \notin Subtree(D, d)
  BY <1>1 DEF Free, Mapped
<1> QED BY <1>1, <1>2, <1>3, <1>4

\* Whoever is in two blocks of a level is in the same.
LEMMA BlocksApart ==
  ASSUME NEW H1, NEW H2, Ready(H1, H2), NEW p \in Unique(H1, H2), NEW q \in Unique(H1, H2),
         NEW x \in Block(S, q[1], q[2]),
         x[1] \in Subtree(S, p[1]) \/ x[2] \in Subtree(D, p[2])
  PROVE  p = q
<1>1. /\ p[1] \in H1 /\ p[2] \in H2 /\ q[1] \in H1 /\ q[2] \in H2
      /\ Isomorphic(S, q[1], D, q[2])
  BY DEF Unique
<1>2. /\ WellFormed(S) /\ WellFormed(D) /\ q[1] \in DOMAIN S /\ q[2] \in DOMAIN D
  BY <1>1, RootFacts
<1>3. x[1] \in Subtree(S, q[1]) /\ x[2] \in Subtree(D, q[2])
  BY <1>1, <1>2, BlockWhole
<1>4. Separate(S, p[1], q[1]) /\ Separate(D, p[2], q[2])
  BY <1>1 DEF Ready, FreeRoots, TreeOf
<1>5. p[1] = q[1] \/ p[2] = q[2]
  BY <1>3, <1>4 DEF Separate
<1> QED BY <1>5, UniqueOnce

\* Trying a pair of a level: it is skipped, put aside or mapped as a whole.
LEMMA TryPairReached ==
  ASSUME NEW H1, NEW H2, Ready(H1, H2), NEW st \in Reached(H1, H2), NEW s \in H1, NEW d \in H2
  PROVE  TryPair(st, H1, H2, s, d) \in Reached(H1, H2)
<1>1. st \in States /\ Grown(st.m, H1, H2) /\ PutAside(st.A, H1, H2)
  BY DEF Reached
<1>2. CASE ~MayPair(st.m, s, d) \/ (~Ambiguous(H1, H2, s, d) /\ HasDelimitedContainerConflict(st.m, s, d))
  BY <1>2 DEF TryPair
<1>3. CASE MayPair(st.m, s, d) /\ Ambiguous(H1, H2, s, d)
  <2>1. TryPair(st, H1, H2, s, d) = [st EXCEPT !.A = Append(@, <<s, d>>)]
    BY <1>3 DEF TryPair
  <2>2. Isomorphic(S, s, D, d)
    BY <1>3 DEF MayPair
  <2>3. <<s, d>> \in Pairs
    BY <2>2, RootFacts DEF Pairs
  <2>4. [st EXCEPT !.A = Append(@, <<s, d>>)] = [m |-> st.m, A |-> Append(st.A, <<s, d>>)]
    <3> DEFINE a1 == Append(st.A, <<s, d>>)
    <3>1. [st EXCEPT !.A = a1] = [m |-> st.m, A |-> a1]
      <4> HIDE DEF a1
      <4> QED BY <1>1 DEF States
    <3> QED BY <3>1
  <2>5. st.m \in Seq(Pairs) /\ st.A \in Seq(Pairs)
    BY <1>1 DEF States
  <2> HIDE DEF Pairs
  <2>6. Append(st.A, <<s, d>>) \in Seq(Pairs) /\ Range(Append(st.A, <<s, d>>)) = Range(st.A) \cup {<<s, d>>}
    <3> DEFINE e == <<s, d>>
    <3>1. e \in Pairs
      BY <2>3
    <3> HIDE DEF e
    <3>2. Append(st.A, e) \in Seq(Pairs) /\ Range(Append(st.A, e)) = Range(st.A) \cup {e}
      BY <2>5, <3>1, RangeAppend
    <3> QED BY <3>2 DEF e
  <2>7. PutAside(Append(st.A, <<s, d>>), H1, H2)
    <3>1. <<s, d>> \in H1 \X H2 /\ <<s, d>>[1] = s /\ <<s, d>>[2] = d
      OBVIOUS
    <3> QED BY <1>1, <2>2, <2>6, <3>1 DEF PutAside
  <2> DEFINE u == [m |-> st.m, A |-> Append(st.A, <<s, d>>)]
  <2>8. u \in States /\ u.m = st.m /\ u.A = Append(st.A, <<s, d>>)
    BY <2>5, <2>6 DEF States
  <2> HIDE DEF u
  <2>9. u \in Reached(H1, H2)
    BY <1>1, <2>7, <2>8 DEF Reached
  <2> QED BY <2>1, <2>4, <2>9 DEF u
<1>4. CASE MayPair(st.m, s, d) /\ ~Ambiguous(H1, H2, s, d) /\ ~HasDelimitedContainerConflict(st.m, s, d)
  <2> DEFINE m1 == AddIsomorphicPairs(st.m, s, d)
             u == [m |-> m1, A |-> st.A]
             p == <<s, d>>
  <2>1. TryPair(st, H1, H2, s, d) = [st EXCEPT !.m = AddIsomorphicPairs(@, s, d)]
    BY <1>4 DEF TryPair
  <2>2. TryPair(st, H1, H2, s, d) = u
    BY <1>1, <2>1 DEF States
  <2>3. Isomorphic(S, s, D, d)
    BY <1>4 DEF MayPair
  <2>4. /\ WellFormed(S) /\ s \in DOMAIN S /\ s \in Nat /\ d \in Nat /\ S[s].size \in Nat
        /\ Subtree(D, d) = d .. d + S[s].size - 1
        /\ \A q \in Range(pairs) : q[1] \notin Subtree(S, s) /\ q[2] \notin Subtree(D, d)
    BY <2>3, RootFacts
  <2>5. p \in Unique(H1, H2) /\ p[1] = s /\ p[2] = d
    BY <1>4, <2>3 DEF Unique
  <2>6. st.m \in Seq(Pairs) /\ st.A \in Seq(Pairs)
    BY <1>1 DEF States
  <2>7. ASSUME NEW x \in Range(st.m), x[1] \in Subtree(S, s) \/ x[2] \in Subtree(D, d)
        PROVE  x[2] - d = x[1] - s
    <3>1. x \notin Range(pairs)
      BY <2>4, <2>7
    <3>2. PICK q \in Unique(H1, H2) : x \in Block(S, q[1], q[2])
      BY <1>1, <3>1 DEF Grown
    <3>3. p = q
      <4> HIDE DEF p
      <4> QED BY <2>5, <2>7, <3>2, BlocksApart
    <3>4. x \in Block(S, s, d)
      BY <2>5, <3>2, <3>3
    <3> QED BY <2>4, <3>4, BlockOffset
  <2>8. Range(m1) = Range(st.m) \cup Block(S, s, d)
    <3>1. \A q \in Range(st.m) : q[1] \in Subtree(S, s) \/ q[2] \in d .. d + S[s].size - 1 => q[2] - d = q[1] - s
      BY <2>4, <2>7
    <3> QED BY <2>4, <2>6, <3>1, AddIsomorphicAdds
  <2>9. m1 \in Seq(Pairs)
    BY <2>4, <2>6, AddIsomorphicType
  <2>10. Grown(m1, H1, H2)
    <3>1. Range(pairs) \subseteq Range(m1)
      BY <1>1, <2>8 DEF Grown
    <3>2. ASSUME NEW x \in Range(m1), x \notin Range(pairs)
          PROVE  \E q \in Unique(H1, H2) : x \in Block(S, q[1], q[2]) /\ Block(S, q[1], q[2]) \subseteq Range(m1)
      <4>1. CASE x \in Range(st.m)
        <5>1. PICK q \in Unique(H1, H2) : x \in Block(S, q[1], q[2]) /\ Block(S, q[1], q[2]) \subseteq Range(st.m)
          BY <1>1, <3>2, <4>1 DEF Grown
        <5> HIDE DEF m1
        <5> QED BY <2>8, <5>1
      <4>2. CASE x \in Block(S, s, d)
        <5> HIDE DEF m1, p
        <5> QED BY <2>5, <2>8, <4>2
      <4> QED BY <2>8, <3>2, <4>1, <4>2
    <3> HIDE DEF m1
    <3> QED BY <3>1, <3>2 DEF Grown
  <2>11. u \in States /\ u.m = m1 /\ u.A = st.A
    <3> HIDE DEF m1
    <3> QED BY <2>6, <2>9 DEF States
  <2> HIDE DEF u, m1
  <2> QED BY <1>1, <2>2, <2>10, <2>11 DEF Reached
<1> QED BY <1>2, <1>3, <1>4

\* The nodes of a set in pre-order.
LEMMA PreOrderIn ==
  ASSUME NEW n \in Nat, NEW N \in SUBSET (1 .. n)
  PROVE  InPreOrder(N) \in Seq(N)
<1>1. CASE N = {}
  BY <1>1 DEF InPreOrder
<1>2. CASE N # {}
  <2>1. Max(N) \in N
    <3>1. N \in SUBSET (0 .. n)
      OBVIOUS
    <3> QED BY <1>2, <3>1, MaxIn
  <2> DEFINE ks == Numbers(Max(N))
             F == {ks[k] : k \in N \cap DOMAIN ks}
  <2>2. ks \in Seq(Nat) /\ DOMAIN ks = 1 .. Max(N) /\ \A k \in DOMAIN ks : ks[k] = k
    <3>1. Max(N) \in Nat
      <4> HIDE DEF ks, F
      <4>1. Max(N) \in 1 .. n
        BY <2>1
      <4> QED BY <4>1
    <3> HIDE DEF F
    <3> QED BY <3>1 DEF Numbers
  <2>3. F \subseteq N
    BY <2>2
  <2>4. Chosen(ks, N) \in Seq(F)
    <3> HIDE DEF ks, F
    <3>1. ks \in Seq(Nat)
      BY <2>2
    <3>2. Chosen(ks, N) \in Seq({ks[k] : k \in N \cap DOMAIN ks})
      BY <3>1, ChosenIn, Zenon
    <3> QED BY <3>2 DEF F
  <2>5. Chosen(ks, N) \in Seq(N)
    <3> DEFINE c == Chosen(ks, N)
    <3>1. c \in Seq(F)
      BY <2>4
    <3> HIDE DEF c, ks, F
    <3>2. c \in [1 .. Len(c) -> F] /\ Len(c) \in Nat
      BY <3>1
    <3>3. c \in [1 .. Len(c) -> N]
      BY <2>3, <3>2
    <3>4. c \in Seq(N)
      BY <3>2, <3>3
    <3> QED BY <3>4 DEF c
  <2> QED BY <1>2, <2>5 DEF InPreOrder
<1> QED BY <1>1, <1>2

\* Trying a node with every node of the other side.
LEMMA TryNodeReached ==
  ASSUME NEW H1, NEW H2, Ready(H1, H2), NEW st \in Reached(H1, H2), NEW s \in H1,
         NEW ks, ks = InPreOrder(H2), ks \in Seq(H2)
  PROVE  TryNode(st, H1, H2, s) \in Reached(H1, H2)
<1> DEFINE n == Len(ks)
           A == Reached(H1, H2)
           g == [p \in A \X (1 .. n) |-> TryPair(p[1], H1, H2, s, ks[p[2]])]
           h == CHOOSE iter : iter = [t \in SUBSET DOMAIN ks |->
                               IF t = {} THEN st ELSE TryPair(iter[t \ {Max(t)}], H1, H2, s, ks[Max(t)])]
           Body(iter, t) == IF t = {} THEN st ELSE TryPair(iter[t \ {Max(t)}], H1, H2, s, ks[Max(t)])
<1>1. n \in Nat /\ DOMAIN ks = 1 .. n /\ st \in A
  OBVIOUS
<1>2. g \in [A \X (1 .. n) -> A]
  <2>1. ASSUME NEW a \in A, NEW k \in 1 .. n PROVE TryPair(a, H1, H2, s, ks[k]) \in A
    BY TryPairReached
  <2> HIDE DEF A
  <2> QED BY <2>1
<1>3. TryNode(st, H1, H2, s) = h[DOMAIN ks]
  BY DEF TryNode, FoldLeft, MapThenFoldSet
<1>4. ASSUME NEW iter, NEW t \in SUBSET (1 .. n), t # {}, iter[t \ {Max(t)}] \in A
      PROVE  g[<<iter[t \ {Max(t)}], Max(t)>>] = Body(iter, t)
  <2>1. t \in SUBSET (0 .. n)
    OBVIOUS
  <2>2. Max(t) \in 1 .. n
    BY <1>1, <1>4, <2>1, MaxIn
  <2> HIDE DEF A, n
  <2> QED BY <1>4, <2>2
<1>5. \E iter : iter = [t \in SUBSET DOMAIN ks |-> Body(iter, t)]
  <2>1. PICK iter : Solves(iter, A, st, g, n)
    <3> HIDE DEF A, g, n
    <3> QED BY <1>1, <1>2, FoldExists
  <2>2. /\ iter \in [SUBSET (1 .. n) -> A]
        /\ iter = [t \in SUBSET (1 .. n) |-> IF t = {} THEN st ELSE g[<<iter[t \ {Max(t)}], Max(t)>>]]
    <3> HIDE DEF A, g, n
    <3> QED BY <2>1 DEF Solves
  <2>3. ASSUME NEW t \in SUBSET (1 .. n), t # {} PROVE iter[t \ {Max(t)}] \in A
    <3> HIDE DEF A, g, n
    <3> QED BY <2>2
  <2>4. \A t \in SUBSET (1 .. n) : (IF t = {} THEN st ELSE g[<<iter[t \ {Max(t)}], Max(t)>>]) = Body(iter, t)
    <3>1. Body(iter, {}) = st
      OBVIOUS
    <3> HIDE DEF Body, A, g, n
    <3> QED BY <1>4, <2>3, <3>1
  <2> HIDE DEF Body, A, g, n
  <2>5. iter = [t \in SUBSET (1 .. n) |-> Body(iter, t)]
    BY <2>2, <2>4
  <2> QED BY <1>1, <2>5
<1>6. h = [t \in SUBSET (1 .. n) |-> Body(h, t)]
  BY <1>1, <1>5
<1> HIDE DEF h
<1>7. h[{}] = st
  <2>1. {} \in SUBSET (1 .. n) /\ Body(h, {}) = st
    OBVIOUS
  <2> HIDE DEF Body
  <2> QED BY <1>6, <2>1
<1>8. ASSUME NEW k \in 1 .. n, h[1 .. k - 1] \in A PROVE h[1 .. k] = g[<<h[1 .. k - 1], k>>]
  <2> HIDE DEF Body, g, A, n
  <2>1. (1 .. k) \in SUBSET (1 .. n) /\ 1 .. k # {} /\ (1 .. k) \ {k} = 1 .. k - 1
    BY <1>1, FirstNumbers
  <2>2. Max(1 .. k) = k
    BY MaxIs
  <2>3. h[1 .. k] = Body(h, 1 .. k)
    BY <1>6, <2>1
  <2>4. h[(1 .. k) \ {Max(1 .. k)}] \in A
    BY <1>8, <2>1, <2>2
  <2>5. g[<<h[(1 .. k) \ {Max(1 .. k)}], Max(1 .. k)>>] = Body(h, 1 .. k)
    BY <1>4, <2>1, <2>4
  <2> QED BY <2>1, <2>2, <2>3, <2>5
<1>9. Runs([k \in 0 .. n |-> h[1 .. k]], A, st, g, n)
  <2> HIDE DEF A, g, n
  <2> QED BY <1>1, <1>2, <1>7, <1>8, FoldRuns
<1>10. [k \in 0 .. n |-> h[1 .. k]][n] \in A /\ n \in 0 .. n
  <2> HIDE DEF A, g, n
  <2> QED BY <1>1, <1>9 DEF Runs
<1>11. h[DOMAIN ks] = [k \in 0 .. n |-> h[1 .. k]][n]
  <2> HIDE DEF n
  <2> QED BY <1>1, <1>10
<1> HIDE DEF A, g, n
<1> QED BY <1>3, <1>10, <1>11 DEF A

\* Trying all pairs of a level.
LEMMA TryAllReached ==
  ASSUME NEW H1, NEW H2, Ready(H1, H2), NEW js, js = InPreOrder(H2), js \in Seq(H2),
         NEW ks, ks = InPreOrder(H1), ks \in Seq(H1)
  PROVE  TryAll(H1, H2) \in Reached(H1, H2)
<1> DEFINE n == Len(ks)
           A == Reached(H1, H2)
           g == [p \in A \X (1 .. n) |-> TryNode(p[1], H1, H2, ks[p[2]])]
           h == CHOOSE iter : iter = [t \in SUBSET DOMAIN ks |->
                               IF t = {} THEN [m |-> pairs, A |-> aside] ELSE TryNode(iter[t \ {Max(t)}], H1, H2, ks[Max(t)])]
           Body(iter, t) == IF t = {} THEN [m |-> pairs, A |-> aside] ELSE TryNode(iter[t \ {Max(t)}], H1, H2, ks[Max(t)])
<1>1. n \in Nat /\ DOMAIN ks = 1 .. n /\ [m |-> pairs, A |-> aside] \in A
  BY DEF Reached, States, Grown, PutAside, Ready
<1>2. g \in [A \X (1 .. n) -> A]
  <2>1. ASSUME NEW a \in A, NEW k \in 1 .. n PROVE TryNode(a, H1, H2, ks[k]) \in A
    BY TryNodeReached
  <2> HIDE DEF A
  <2> QED BY <2>1
<1>3. TryAll(H1, H2) = h[DOMAIN ks]
  BY DEF TryAll, FoldLeft, MapThenFoldSet
<1>4. ASSUME NEW iter, NEW t \in SUBSET (1 .. n), t # {}, iter[t \ {Max(t)}] \in A
      PROVE  g[<<iter[t \ {Max(t)}], Max(t)>>] = Body(iter, t)
  <2>1. t \in SUBSET (0 .. n)
    OBVIOUS
  <2>2. Max(t) \in 1 .. n
    BY <1>1, <1>4, <2>1, MaxIn
  <2> HIDE DEF A, n
  <2> QED BY <1>4, <2>2
<1>5. \E iter : iter = [t \in SUBSET DOMAIN ks |-> Body(iter, t)]
  <2>1. PICK iter : Solves(iter, A, [m |-> pairs, A |-> aside], g, n)
    <3> HIDE DEF A, g, n
    <3> QED BY <1>1, <1>2, FoldExists
  <2>2. /\ iter \in [SUBSET (1 .. n) -> A]
        /\ iter = [t \in SUBSET (1 .. n) |-> IF t = {} THEN [m |-> pairs, A |-> aside] ELSE g[<<iter[t \ {Max(t)}], Max(t)>>]]
    <3> HIDE DEF A, g, n
    <3> QED BY <2>1 DEF Solves
  <2>3. ASSUME NEW t \in SUBSET (1 .. n), t # {} PROVE iter[t \ {Max(t)}] \in A
    <3> HIDE DEF A, g, n
    <3> QED BY <2>2
  <2>4. \A t \in SUBSET (1 .. n) : (IF t = {} THEN [m |-> pairs, A |-> aside] ELSE g[<<iter[t \ {Max(t)}], Max(t)>>]) = Body(iter, t)
    <3>1. Body(iter, {}) = [m |-> pairs, A |-> aside]
      OBVIOUS
    <3> HIDE DEF Body, A, g, n
    <3> QED BY <1>4, <2>3, <3>1
  <2> HIDE DEF Body, A, g, n
  <2>5. iter = [t \in SUBSET (1 .. n) |-> Body(iter, t)]
    BY <2>2, <2>4
  <2> QED BY <1>1, <2>5
<1>6. h = [t \in SUBSET (1 .. n) |-> Body(h, t)]
  BY <1>1, <1>5
<1> HIDE DEF h
<1>7. h[{}] = [m |-> pairs, A |-> aside]
  <2>1. {} \in SUBSET (1 .. n) /\ Body(h, {}) = [m |-> pairs, A |-> aside]
    OBVIOUS
  <2> HIDE DEF Body
  <2> QED BY <1>6, <2>1
<1>8. ASSUME NEW k \in 1 .. n, h[1 .. k - 1] \in A PROVE h[1 .. k] = g[<<h[1 .. k - 1], k>>]
  <2> HIDE DEF Body, g, A, n
  <2>1. (1 .. k) \in SUBSET (1 .. n) /\ 1 .. k # {} /\ (1 .. k) \ {k} = 1 .. k - 1
    BY <1>1, FirstNumbers
  <2>2. Max(1 .. k) = k
    BY MaxIs
  <2>3. h[1 .. k] = Body(h, 1 .. k)
    BY <1>6, <2>1
  <2>4. h[(1 .. k) \ {Max(1 .. k)}] \in A
    BY <1>8, <2>1, <2>2
  <2>5. g[<<h[(1 .. k) \ {Max(1 .. k)}], Max(1 .. k)>>] = Body(h, 1 .. k)
    BY <1>4, <2>1, <2>4
  <2> QED BY <2>1, <2>2, <2>3, <2>5
<1>9. Runs([k \in 0 .. n |-> h[1 .. k]], A, [m |-> pairs, A |-> aside], g, n)
  <2> HIDE DEF A, g, n
  <2> QED BY <1>1, <1>2, <1>7, <1>8, FoldRuns
<1>10. [k \in 0 .. n |-> h[1 .. k]][n] \in A /\ n \in 0 .. n
  <2> HIDE DEF A, g, n
  <2> QED BY <1>1, <1>9 DEF Runs
<1>11. h[DOMAIN ks] = [k \in 0 .. n |-> h[1 .. k]][n]
  <2> HIDE DEF n
  <2> QED BY <1>1, <1>10
<1> HIDE DEF A, g, n
<1> QED BY <1>3, <1>10, <1>11 DEF A

-----------------------------------------------------------------------------
\* The nodes the pass still has to do with.

\* Nodes that wait stay whole when a mapping grows below nodes that are apart from them
\* or among them.
LEMMA HeldStays ==
  ASSUME NEW T, NEW m0, NEW m, NEW side, NEW H, NEW W, Grows(T, m0, m, side, H),
         \A a \in W, b \in H \cup W : Separate(T, a, b),
         \A a \in W : Whole(T, m0, side, a)
  PROVE  Held(T, m, side, W)
<1>1. ASSUME NEW w \in W PROVE Whole(T, m, side, w)
  <2>1. CASE Mapped(m0, side, w)
    BY <2>1 DEF Grows, Whole
  <2>2. CASE Free(T, m0, side, w)
    <3> SUFFICES ASSUME NEW x \in Subtree(T, w), Mapped(m, side, x) PROVE Mapped(m, side, w)
      BY DEF Whole, Free
    <3>1. PICK r \in H : x \in Subtree(T, r) /\ Mapped(m, side, r)
      BY <2>2 DEF Grows, Free
    <3>2. w = r
      BY <3>1 DEF Separate
    <3> QED BY <3>1, <3>2
  <2> QED BY <2>1, <2>2 DEF Whole
<1> QED BY <1>1 DEF Held

\* Some of the nodes are looked at: those that are neither mapped nor put aside are opened.
LEMMA LookingStays ==
  ASSUME NEW T, WellFormed(T), NEW m0, NEW m, NEW side, NEW N0, NEW W0, NEW N, NEW W,
         NEW H \in SUBSET N0,
         Looking(T, m0, side, N0, W0), Held(T, m0, side, W0), Grows(T, m0, m, side, H),
         \A a \in N : a \in N0 \ H \/ \E h \in H \ W : a \in ChildSet(T, h) /\ ~Mapped(m, side, h),
         W \subseteq W0 \cup H
  PROVE  Looking(T, m, side, N, W) /\ Held(T, m, side, W)
<1> DEFINE From(a, h) == /\ h \in N0 /\ a \in DOMAIN T /\ a \in Subtree(T, a)
                         /\ Subtree(T, a) \subseteq Subtree(T, h)
                         /\ \/ a = h /\ h \notin H
                            \/ h \in H \ W /\ a \in ChildSet(T, h) /\ ~Mapped(m, side, h)
<1>1. ASSUME NEW a \in N PROVE \E h : From(a, h)
  <2>1. CASE a \in N0 \ H
    <3>1. a \in DOMAIN T
      BY <2>1 DEF Looking
    <3> QED BY <2>1, <3>1, SubtreeInside
  <2>2. CASE \E h \in H \ W : a \in ChildSet(T, h) /\ ~Mapped(m, side, h)
    <3>1. PICK h \in H \ W : a \in ChildSet(T, h) /\ ~Mapped(m, side, h)
      BY <2>2
    <3>2. h \in DOMAIN T
      BY DEF Looking
    <3>3. a \in DOMAIN T /\ Subtree(T, a) \subseteq Subtree(T, h)
      BY <3>1, <3>2, ChildInside
    <3> QED BY <3>1, <3>3, SubtreeInside
  <2> QED BY <2>1, <2>2
<1>2. ASSUME NEW a \in N PROVE Free(T, m, side, a)
  <2>1. PICK h : From(a, h)
    BY <1>1
  <2> SUFFICES ASSUME NEW x \in Subtree(T, a), Mapped(m, side, x) PROVE FALSE
    BY DEF Free
  <2>2. ~Mapped(m0, side, x) /\ x \in Subtree(T, h)
    BY <2>1 DEF Looking, Free
  <2>3. PICK r \in H : x \in Subtree(T, r) /\ Mapped(m, side, r)
    BY <2>2 DEF Grows
  <2>4. h = r
    BY <2>1, <2>2, <2>3 DEF Looking, Separate
  <2> QED BY <2>1, <2>3, <2>4
<1>3. ASSUME NEW a \in N, NEW b \in N PROVE Separate(T, a, b)
  <2>1. PICK g : From(a, g)
    BY <1>1
  <2>2. PICK h : From(b, h)
    BY <1>1
  <2>3. CASE g = h
    <3>1. CASE g \in H
      <4>1. g \in DOMAIN T /\ a \in ChildSet(T, g) /\ b \in ChildSet(T, g)
        BY <2>1, <2>2, <2>3, <3>1 DEF Looking
      <4> QED BY <4>1, ChildrenApart DEF Separate
    <3>2. CASE g \notin H
      BY <2>1, <2>2, <2>3, <3>2 DEF Separate
    <3> QED BY <3>1, <3>2
  <2>4. CASE g # h
    BY <2>1, <2>2, <2>4 DEF Looking, Separate
  <2> QED BY <2>3, <2>4
<1>4. ASSUME NEW a \in N, NEW b \in W PROVE a # b /\ Separate(T, a, b)
  <2>1. PICK h : From(a, h)
    BY <1>1
  <2>2. h # b /\ Separate(T, h, b)
    BY <2>1 DEF Looking
  <2>3. Subtree(T, a) \cap Subtree(T, b) = {}
    BY <2>1, <2>2 DEF Separate
  <2> QED BY <2>1, <2>3 DEF Separate
<1>5. \A a \in N : a \in DOMAIN T
  BY <1>1
<1>6. Looking(T, m, side, N, W)
  <2> HIDE DEF From
  <2> QED BY <1>2, <1>3, <1>4, <1>5 DEF Looking
<1>7. Held(T, m, side, W)
  <2>1. \A a \in W, b \in H \cup W : Separate(T, a, b)
    BY DEF Looking, Held, Separate
  <2>2. \A a \in W : Whole(T, m0, side, a)
    BY DEF Looking, Held, Whole
  <2> QED BY <2>1, <2>2, HeldStays
<1> QED BY <1>6, <1>7

-----------------------------------------------------------------------------
\* The ranking.

\* Entries of both sequences.
LEMMA InsertAtIn ==
  ASSUME NEW E, NEW s \in Seq(E), NEW e \in E, NEW i \in 1 .. Len(s) + 1
  PROVE  InsertAt(s, i, e) \in Seq(E)
<1>1. InsertAt(s, i, e) = SubSeq(s, 1, i - 1) \o <<e>> \o SubSeq(s, i, Len(s))
  BY DEF InsertAt
<1>2. SubSeq(s, 1, i - 1) \in Seq(E) /\ SubSeq(s, i, Len(s)) \in Seq(E)
  OBVIOUS
<1> QED BY <1>1, <1>2

\* Insertion into a ranking, wherever the comparison puts the score.
LEMMA InsertIn ==
  ASSUME NEW E, NEW seq \in Seq(E), NEW x \in E
  PROVE  Insert(seq, x) \in Seq(E)
<1> DEFINE K == {0} \cup {k \in DOMAIN seq : ~Before(x, seq[k])}
           at == Max(K)
<1>1. at \in K
  <2>1. K \in SUBSET (0 .. Len(seq)) /\ K # {} /\ Len(seq) \in Nat
    OBVIOUS
  <2> HIDE DEF K
  <2> QED BY <2>1, MaxIn
<1>2. Insert(seq, x) = InsertAt(seq, at + 1, x)
  BY Zenon DEF Insert
<1>3. at + 1 \in 1 .. Len(seq) + 1
  <2>1. at \in 0 .. Len(seq) /\ Len(seq) \in Nat
    <3> HIDE DEF at
    <3> QED BY <1>1
  <2> HIDE DEF at, K
  <2> QED BY <2>1
<1> HIDE DEF at, K
<1> QED BY <1>2, <1>3, InsertAtIn

\* The ranking holds scores of the pairs it ranks, even where the comparison is not
\* transitive.
LEMMA RankedIn ==
  ASSUME NEW m, NEW P \in Seq(Pairs), NEW E, E = {Score(m, P[k]) : k \in DOMAIN P}
  PROVE  Ranked(m, P) \in Seq(E)
<1> DEFINE ks == [k \in DOMAIN P |-> Score(m, P[k])]
           n == Len(P)
           A == Seq(E)
           g == [p \in A \X (1 .. n) |-> Insert(p[1], ks[p[2]])]
           h == CHOOSE iter : iter = [t \in SUBSET DOMAIN ks |->
                               IF t = {} THEN <<>> ELSE Insert(iter[t \ {Max(t)}], ks[Max(t)])]
           Body(iter, t) == IF t = {} THEN <<>> ELSE Insert(iter[t \ {Max(t)}], ks[Max(t)])
<1>1. n \in Nat /\ DOMAIN ks = 1 .. n /\ <<>> \in A
  OBVIOUS
<1>2. g \in [A \X (1 .. n) -> A]
  <2>1. ASSUME NEW a \in A, NEW k \in 1 .. n PROVE Insert(a, ks[k]) \in A
    <3>1. ks[k] \in E
      OBVIOUS
    <3> QED BY <3>1, InsertIn
  <2> HIDE DEF A
  <2> QED BY <2>1
<1>3. Ranked(m, P) = h[DOMAIN ks]
  BY DEF Ranked, FoldLeft, MapThenFoldSet
<1>4. ASSUME NEW iter, NEW t \in SUBSET (1 .. n), t # {}, iter[t \ {Max(t)}] \in A
      PROVE  g[<<iter[t \ {Max(t)}], Max(t)>>] = Body(iter, t)
  <2>1. t \in SUBSET (0 .. n)
    OBVIOUS
  <2>2. Max(t) \in 1 .. n
    BY <1>1, <1>4, <2>1, MaxIn
  <2> HIDE DEF ks, A, n
  <2> QED BY <1>4, <2>2
<1>5. \E iter : iter = [t \in SUBSET DOMAIN ks |-> Body(iter, t)]
  <2>1. PICK iter : Solves(iter, A, <<>>, g, n)
    <3> HIDE DEF ks, A, g, n
    <3> QED BY <1>1, <1>2, FoldExists
  <2>2. /\ iter \in [SUBSET (1 .. n) -> A]
        /\ iter = [t \in SUBSET (1 .. n) |-> IF t = {} THEN <<>> ELSE g[<<iter[t \ {Max(t)}], Max(t)>>]]
    <3> HIDE DEF ks, A, g, n
    <3> QED BY <2>1 DEF Solves
  <2>3. ASSUME NEW t \in SUBSET (1 .. n), t # {} PROVE iter[t \ {Max(t)}] \in A
    <3> HIDE DEF ks, A, g, n
    <3> QED BY <2>2
  <2>4. \A t \in SUBSET (1 .. n) : (IF t = {} THEN <<>> ELSE g[<<iter[t \ {Max(t)}], Max(t)>>]) = Body(iter, t)
    <3>1. Body(iter, {}) = <<>>
      OBVIOUS
    <3> HIDE DEF ks, Body, A, g, n
    <3> QED BY <1>4, <2>3, <3>1
  <2> HIDE DEF ks, Body, A, g, n
  <2>5. iter = [t \in SUBSET (1 .. n) |-> Body(iter, t)]
    BY <2>2, <2>4
  <2> QED BY <1>1, <2>5
<1>6. h = [t \in SUBSET (1 .. n) |-> Body(h, t)]
  BY <1>1, <1>5
<1> HIDE DEF h
<1>7. h[{}] = <<>>
  <2>1. {} \in SUBSET (1 .. n) /\ Body(h, {}) = <<>>
    OBVIOUS
  <2> HIDE DEF Body
  <2> QED BY <1>6, <2>1
<1>8. ASSUME NEW k \in 1 .. n, h[1 .. k - 1] \in A PROVE h[1 .. k] = g[<<h[1 .. k - 1], k>>]
  <2> HIDE DEF ks, Body, g, A, n
  <2>1. (1 .. k) \in SUBSET (1 .. n) /\ 1 .. k # {} /\ (1 .. k) \ {k} = 1 .. k - 1
    BY <1>1, FirstNumbers
  <2>2. Max(1 .. k) = k
    BY MaxIs
  <2>3. h[1 .. k] = Body(h, 1 .. k)
    BY <1>6, <2>1
  <2>4. h[(1 .. k) \ {Max(1 .. k)}] \in A
    BY <1>8, <2>1, <2>2
  <2>5. g[<<h[(1 .. k) \ {Max(1 .. k)}], Max(1 .. k)>>] = Body(h, 1 .. k)
    BY <1>4, <2>1, <2>4
  <2> QED BY <2>1, <2>2, <2>3, <2>5
<1>9. Runs([k \in 0 .. n |-> h[1 .. k]], A, <<>>, g, n)
  <2> HIDE DEF ks, A, g, n
  <2> QED BY <1>1, <1>2, <1>7, <1>8, FoldRuns
<1>10. [k \in 0 .. n |-> h[1 .. k]][n] \in A /\ n \in 0 .. n
  <2> HIDE DEF ks, A, g, n
  <2> QED BY <1>1, <1>9 DEF Runs
<1>11. h[DOMAIN ks] = [k \in 0 .. n |-> h[1 .. k]][n]
  <2> HIDE DEF ks, n
  <2> QED BY <1>1, <1>10
<1> HIDE DEF ks, A, g, n
<1> QED BY <1>3, <1>10, <1>11 DEF A

-----------------------------------------------------------------------------
\* The actions.

\* A sequence is one of its entries.
LEMMA SeqRange ==
  ASSUME NEW E, NEW s \in Seq(E)
  PROVE  s \in Seq(Range(s)) /\ Range(s) \subseteq E
<1>1. Len(s) \in Nat /\ DOMAIN s = 1 .. Len(s) /\ s = [i \in 1 .. Len(s) |-> s[i]] /\ \A i \in DOMAIN s : s[i] \in E
  OBVIOUS
<1>2. \A i \in DOMAIN s : s[i] \in Range(s)
  BY DEF Range
<1>3. s \in [1 .. Len(s) -> Range(s)]
  BY <1>1, <1>2
<1>4. s \in Seq(Range(s))
  BY <1>1, <1>3
<1>5. Range(s) \subseteq E
  BY <1>1 DEF Range
<1> QED BY <1>4, <1>5

\* The trees the pass is given.
LEMMA InputTrees ==
  ASSUME input \in Inputs
  PROVE  /\ WellFormed(S) /\ WellFormed(D)
         /\ \A side \in 1 .. 2 : WellFormed(TreeOf(side))
BY TreesAssumption DEF S, D, TreeOf

\* What the matching of a level adds is in order below the roots it adds.
LEMMA GrownGrows ==
  ASSUME NEW H1, NEW H2, Ready(H1, H2), NEW m, Grown(m, H1, H2)
  PROVE  /\ Grows(S, pairs, m, 1, H1) /\ Grows(D, pairs, m, 2, H2)
         /\ \A q \in Range(m) \ Range(pairs) : /\ Isomorphic(S, q[1], D, q[2])
                                              /\ Block(S, q[1], q[2]) \subseteq Range(m)
<1>1. ASSUME NEW q \in Range(m) \ Range(pairs)
      PROVE  \E p \in H1 \X H2 : /\ q[1] \in Subtree(S, p[1]) /\ q[2] \in Subtree(D, p[2])
                                 /\ <<p[1], p[2]>> \in Range(m)
                                 /\ Isomorphic(S, q[1], D, q[2])
                                 /\ Block(S, q[1], q[2]) \subseteq Range(m)
  <2>1. PICK p \in Unique(H1, H2) : q \in Block(S, p[1], p[2]) /\ Block(S, p[1], p[2]) \subseteq Range(m)
    BY DEF Grown
  <2>2. p \in H1 \X H2 /\ p[1] \in H1 /\ p[2] \in H2 /\ Isomorphic(S, p[1], D, p[2])
    BY DEF Unique
  <2>3. WellFormed(S) /\ WellFormed(D) /\ p[1] \in DOMAIN S /\ p[2] \in DOMAIN D /\ p[2] \in Nat
    BY <2>2, RootFacts
  <2>4. <<p[1], p[2]>> \in Range(m)
    BY <2>1, <2>3, BlockRoot
  <2>5. /\ q \in Subtree(S, p[1]) \X Subtree(D, p[2])
        /\ Isomorphic(S, q[1], D, q[2])
        /\ Block(S, q[1], q[2]) \subseteq Block(S, p[1], p[2])
    BY <2>1, <2>2, <2>3, BlockWhole
  <2> QED BY <2>1, <2>2, <2>4, <2>5
<1>2. Range(pairs) \subseteq Range(m)
  BY DEF Grown
<1>3. Grows(S, pairs, m, 1, H1)
  <2>1. ASSUME NEW x, Mapped(m, 1, x), ~Mapped(pairs, 1, x)
        PROVE  \E r \in H1 : x \in Subtree(S, r) /\ Mapped(m, 1, r)
    <3>1. PICK q \in Range(m) \ Range(pairs) : q[1] = x
      BY <2>1 DEF Mapped
    <3> QED BY <1>1, <3>1 DEF Mapped
  <2> QED BY <1>2, <2>1 DEF Grows, Mapped
<1>4. Grows(D, pairs, m, 2, H2)
  <2>1. ASSUME NEW x, Mapped(m, 2, x), ~Mapped(pairs, 2, x)
        PROVE  \E r \in H2 : x \in Subtree(D, r) /\ Mapped(m, 2, r)
    <3>1. PICK q \in Range(m) \ Range(pairs) : q[2] = x
      BY <2>1 DEF Mapped
    <3> QED BY <1>1, <3>1 DEF Mapped
  <2> QED BY <1>2, <2>1 DEF Grows, Mapped
<1> QED BY <1>1, <1>3, <1>4

\* Before the first step only the roots are to be looked at, and nothing is mapped.
LEMMA InitHolds == Init => IInv
<1> SUFFICES ASSUME Init PROVE Types /\ Fronts
  BY DEF IInv
<1>1. input \in Inputs /\ open = <<{1}, {1}>> /\ aside = <<>> /\ pairs = <<>> /\ pc = "levels"
  BY DEF Init
<1>2. Range(aside) = {} /\ Range(pairs) = {} /\ Candidates = {}
  BY <1>1 DEF Range, Candidates
<1>3. Types
  <2>1. <<>> \in Seq(Pairs) /\ <<>> \in Seq({}) /\ DOMAIN open = 1 .. 2
    BY <1>1
  <2> QED BY <1>1, <1>2, <2>1 DEF Types, Equal
<1>4. ASSUME NEW side \in 1 .. 2
      PROVE  /\ Looking(TreeOf(side), pairs, side, open[side], Sides(Candidates, side))
             /\ Held(TreeOf(side), pairs, side, Sides(Candidates, side))
  <2>1. open[side] = {1} /\ Sides(Candidates, side) = {}
    BY <1>1, <1>2 DEF Sides
  <2>2. 1 \in DOMAIN TreeOf(side)
    <3>1. WellFormed(TreeOf(side))
      BY <1>1, InputTrees
    <3> QED BY <3>1 DEF WellFormed
  <2>3. \A x : ~Mapped(pairs, side, x)
    BY <1>2 DEF Mapped
  <2> QED BY <2>1, <2>2, <2>3 DEF Looking, Held, Free, Separate
<1> QED BY <1>3, <1>4 DEF Fronts

\* Opening the highest nodes of a side.
LEMMA OpenHigherKeeps ==
  ASSUME IInv, NEW side \in 1 .. 2, OpenHigher(side)
  PROVE  Types' /\ Fronts'
<1>1. /\ pc = "levels" /\ pc' = pc /\ input' = input /\ aside' = aside /\ pairs' = pairs
      /\ open' = [open EXCEPT ![side] = (@ \ Highest(side)) \cup AllChildren(side, Highest(side))]
  BY DEF OpenHigher, Level
<1>2. Types /\ Fronts
  BY <1>1 DEF IInv
<1>3. S' = S /\ D' = D /\ Candidates' = Candidates
  BY <1>1 DEF S, D, Candidates
<1>4. \A i \in 1 .. 2 : TreeOf(i)' = TreeOf(i)
  BY <1>3 DEF TreeOf
<1>5. Types'
  <2>1. DOMAIN open' = 1 .. 2
    BY <1>1, <1>2 DEF Types
  <2> QED BY <1>1, <1>2, <1>3, <2>1 DEF Types
<1>6. ASSUME NEW i \in 1 .. 2
      PROVE  /\ Looking(TreeOf(i), pairs, i, open'[i], Sides(Candidates, i))
             /\ Held(TreeOf(i), pairs, i, Sides(Candidates, i))
  <2> DEFINE T == TreeOf(i)
             W == Sides(Candidates, i)
  <2>1. Looking(T, pairs, i, open[i], W) /\ Held(T, pairs, i, W) /\ WellFormed(T)
    BY <1>1, <1>2, InputTrees DEF Fronts, Types
  <2>2. CASE i # side
    <3>1. open'[i] = open[i]
      BY <1>1, <1>2, <2>2 DEF Types
    <3> QED BY <2>1, <3>1
  <2>3. CASE i = side
    <3> DEFINE H == Highest(i)
               N == (open[i] \ H) \cup AllChildren(i, H)
    <3>1. open'[i] = N
      BY <1>1, <1>2, <2>3 DEF Types
    <3>2. H \in SUBSET open[i]
      BY DEF Highest
    <3> HIDE DEF H, T, W
    <3>3. Grows(T, pairs, pairs, i, H)
      BY DEF Grows
    <3>4. ASSUME NEW h \in H PROVE h \notin W /\ ~Mapped(pairs, i, h)
      <4>1. h \in DOMAIN T /\ h \in Subtree(T, h)
        BY <2>1, <3>2, SubtreeInside DEF Looking
      <4> QED BY <2>1, <3>2, <4>1 DEF Looking, Free
    <3>5. \A a \in N : a \in open[i] \ H \/ \E h \in H \ W : a \in ChildSet(T, h) /\ ~Mapped(pairs, i, h)
      BY <3>4 DEF AllChildren, T
    <3>6. W \subseteq W \cup H
      OBVIOUS
    <3> HIDE DEF N
    <3>7. Looking(T, pairs, i, N, W) /\ Held(T, pairs, i, W)
      BY <2>1, <3>2, <3>3, <3>5, <3>6, LookingStays
    <3> QED BY <3>1, <3>7 DEF T, W
  <2> QED BY <2>2, <2>3
<1>7. Fronts'
  BY <1>1, <1>3, <1>4, <1>6 DEF Fronts
<1> QED BY <1>5, <1>7

\* The highest nodes of both sides are the free roots the matching of a level starts from.
LEMMA HighestReady ==
  ASSUME IInv, pc = "levels"
  PROVE  /\ Ready(Highest(1), Highest(2))
         /\ InPreOrder(Highest(1)) \in Seq(Highest(1)) /\ InPreOrder(Highest(2)) \in Seq(Highest(2))
<1>1. Types /\ Fronts
  BY DEF IInv
<1>2. ASSUME NEW side \in 1 .. 2
      PROVE  FreeRoots(side, Highest(side)) /\ InPreOrder(Highest(side)) \in Seq(Highest(side))
  <2>1. /\ WellFormed(TreeOf(side))
        /\ Looking(TreeOf(side), pairs, side, open[side], Sides(Candidates, side))
    BY <1>1, InputTrees DEF Types, Fronts
  <2>2. Highest(side) \subseteq open[side]
    BY DEF Highest
  <2>3. FreeRoots(side, Highest(side))
    BY <2>1, <2>2 DEF FreeRoots, Looking
  <2>4. PICK n \in Nat : Highest(side) \in SUBSET (1 .. n)
    BY <2>1, <2>2 DEF Looking, WellFormed
  <2> QED BY <2>3, <2>4, PreOrderIn
<1>3. 1 \in 1 .. 2 /\ 2 \in 1 .. 2
  OBVIOUS
<1> QED BY <1>1, <1>2, <1>3 DEF Ready, Types

\* The matching of a level.
LEMMA MatchLevelKeeps ==
  ASSUME IInv, MatchLevel
  PROVE  Types' /\ Fronts' /\ WholeSubtreesAdded
<1> DEFINE H1 == Highest(1)
           H2 == Highest(2)
           st == TryAll(H1, H2)
           H(i) == IF i = 1 THEN H1 ELSE H2
           N(i) == (open[i] \ H(i)) \cup OpenUnmatched(i, H(i), st.m, st.A)
<1>1. /\ pc = "levels" /\ pc' = pc /\ input' = input
      /\ pairs' = st.m /\ aside' = st.A /\ open' = <<N(1), N(2)>>
  BY DEF MatchLevel, Level
<1>2. Types /\ Fronts
  BY <1>1 DEF IInv
<1>3. S' = S /\ D' = D /\ \A i \in 1 .. 2 : TreeOf(i)' = TreeOf(i)
  BY <1>1 DEF S, D, TreeOf
<1>4. Ready(H1, H2)
  BY <1>1, HighestReady
<1>5. st \in Reached(H1, H2)
  BY <1>1, HighestReady, TryAllReached
<1> HIDE DEF st
<1>6. st.m \in Seq(Pairs) /\ st.A \in Seq(Pairs) /\ Grown(st.m, H1, H2) /\ PutAside(st.A, H1, H2)
  BY <1>5 DEF Reached, States
<1>7. /\ Grows(S, pairs, st.m, 1, H1) /\ Grows(D, pairs, st.m, 2, H2)
      /\ \A q \in Range(st.m) \ Range(pairs) : /\ Isomorphic(S, q[1], D, q[2])
                                              /\ Block(S, q[1], q[2]) \subseteq Range(st.m)
  BY <1>4, <1>6, GrownGrows
<1>8. Candidates = Range(aside) /\ Candidates' = Range(st.A)
  BY <1>1 DEF Candidates
<1>9. Types'
  <2>1. st.A \in Seq(Range(st.A))
    BY <1>6, SeqRange
  <2>2. Equal(Range(st.A), S, D)
    <3>1. Equal(Range(aside), S, D)
      BY <1>2, <1>8 DEF Types
    <3>2. H1 \subseteq DOMAIN S /\ H2 \subseteq DOMAIN D
      BY <1>4 DEF Ready, FreeRoots, TreeOf
    <3> HIDE DEF H1, H2
    <3>3. ASSUME NEW q \in Range(st.A)
          PROVE  q \in (DOMAIN S) \X (DOMAIN D) /\ Isomorphic(S, q[1], D, q[2])
      <4>1. q \in Range(aside) \/ (q \in H1 \X H2 /\ Isomorphic(S, q[1], D, q[2]))
        BY <1>6 DEF PutAside
      <4> QED BY <3>1, <3>2, <4>1 DEF Equal
    <3> QED BY <3>3 DEF Equal
  <2>3. DOMAIN open' = 1 .. 2
    <3> HIDE DEF N
    <3> QED BY <1>1
  <2> QED BY <1>1, <1>2, <1>3, <1>6, <1>8, <2>1, <2>2, <2>3 DEF Types
<1>10. ASSUME NEW i \in 1 .. 2
       PROVE  /\ Looking(TreeOf(i), st.m, i, open'[i], Sides(Range(st.A), i))
              /\ Held(TreeOf(i), st.m, i, Sides(Range(st.A), i))
  <2> DEFINE T == TreeOf(i)
             W0 == Sides(Range(aside), i)
             W == Sides(Range(st.A), i)
             G == H(i)
  <2>1. Looking(T, pairs, i, open[i], W0) /\ Held(T, pairs, i, W0) /\ WellFormed(T)
    BY <1>1, <1>2, <1>8, InputTrees DEF Fronts, Types
  <2>2. G \in SUBSET open[i]
    BY DEF Highest
  <2>3. Grows(T, pairs, st.m, i, G)
    <3> HIDE DEF H1, H2
    <3> QED BY <1>7 DEF TreeOf
  <2>4. open'[i] = N(i)
    <3> HIDE DEF N
    <3> QED BY <1>1
  <2>5. \A a \in N(i) : a \in open[i] \ G \/ \E h \in G \ W : a \in ChildSet(T, h) /\ ~Mapped(st.m, i, h)
    <3> HIDE DEF H
    <3>1. \A h : ~Mapped(st.A, i, h) => h \notin W
      BY DEF Mapped, Sides
    <3> HIDE DEF W
    <3> QED BY <3>1 DEF OpenUnmatched, AllChildren
  <2>6. W \subseteq W0 \cup G
    <3> SUFFICES ASSUME NEW q \in Range(st.A), q \notin Range(aside) PROVE q[i] \in G
      BY DEF Sides
    <3>1. q \in H1 \X H2
      BY <1>6 DEF PutAside
    <3> HIDE DEF H1, H2
    <3> QED BY <3>1
  <2> HIDE DEF T, W0, W, G, N
  <2>7. Looking(T, st.m, i, N(i), W) /\ Held(T, st.m, i, W)
    <3> DEFINE M == N(i)
    <3>1. \A a \in M : a \in open[i] \ G \/ \E h \in G \ W : a \in ChildSet(T, h) /\ ~Mapped(st.m, i, h)
      BY <2>5
    <3> HIDE DEF M
    <3>2. Looking(T, st.m, i, M, W) /\ Held(T, st.m, i, W)
      BY <2>1, <2>2, <2>3, <2>6, <3>1, LookingStays
    <3> QED BY <3>2 DEF M
  <2> QED BY <2>4, <2>7 DEF T, W
<1>11. Fronts'
  BY <1>1, <1>3, <1>8, <1>10 DEF Fronts
<1>12. WholeSubtreesAdded
  <2>1. Range(pairs) \subseteq Range(st.m)
    BY <1>6 DEF Grown
  <2> QED BY <1>1, <1>7, <2>1 DEF WholeSubtreesAdded, Block
<1> QED BY <1>9, <1>11, <1>12

\* Ranking changes what is known of the pairs put aside, not which they are.
LEMMA RankKeeps ==
  ASSUME IInv, Rank
  PROVE  Types' /\ Fronts' /\ WholeSubtreesAdded
<1>1. /\ pc = "levels" /\ pc' = "greedy" /\ input' = input /\ open' = open /\ pairs' = pairs
      /\ aside' = Ranked(pairs, aside)
  BY DEF Rank
<1>2. Types /\ Fronts
  BY <1>1 DEF IInv
<1>3. S' = S /\ D' = D /\ \A i \in 1 .. 2 : TreeOf(i)' = TreeOf(i)
  BY <1>1 DEF S, D, TreeOf
<1> DEFINE E == {Score(pairs, aside[k]) : k \in DOMAIN aside}
<1>4. aside \in Seq(Pairs)
  BY <1>1, <1>2 DEF Types
<1>5. aside' \in Seq(E)
  BY <1>1, <1>4, RankedIn
<1>6. \A x \in E : x.pair \in Range(aside)
  <2>1. \A k \in DOMAIN aside : aside[k] = <<aside[k][1], aside[k][2]>>
    BY <1>4 DEF Pairs
  <2> QED BY <2>1, PairKept DEF Range
<1>7. aside' \in Seq(Range(aside')) /\ Range(aside') \subseteq E
  <2> HIDE DEF E
  <2> QED BY <1>5, SeqRange
<1>8. Candidates' \subseteq Candidates
  <2>1. Candidates = Range(aside) /\ Candidates' = {x.pair : x \in Range(aside')}
    BY <1>1 DEF Candidates
  <2> HIDE DEF E
  <2> QED BY <1>6, <1>7, <2>1
<1>9. Types'
  <2>1. pc' # "levels"
    BY <1>1
  <2>2. Equal(Candidates', S, D)
    BY <1>2, <1>8 DEF Types, Equal
  <2> QED BY <1>1, <1>2, <1>3, <1>7, <2>1, <2>2 DEF Types
<1>10. Fronts'
  <2>1. ASSUME NEW i \in 1 .. 2 PROVE Held(TreeOf(i), pairs, i, Sides(Candidates', i))
    <3>1. Sides(Candidates', i) \subseteq Sides(Candidates, i)
      BY <1>8 DEF Sides
    <3>2. Held(TreeOf(i), pairs, i, Sides(Candidates, i))
      BY <1>2 DEF Fronts
    <3> QED BY <3>1, <3>2 DEF Held
  <2>2. pc' # "levels"
    BY <1>1
  <2> QED BY <1>1, <1>3, <2>1, <2>2 DEF Fronts
<1>11. WholeSubtreesAdded
  BY <1>1 DEF WholeSubtreesAdded
<1> QED BY <1>9, <1>10, <1>11

\* The best candidate is free on both sides when it is taken.
LEMMA TakenFree ==
  ASSUME Types, Fronts, NEW p \in Candidates, ~Mapped(pairs, 1, p[1]), ~Mapped(pairs, 2, p[2])
  PROVE  /\ p[1] \in DOMAIN S /\ p[2] \in DOMAIN D /\ WellFormed(S) /\ WellFormed(D)
         /\ p[1] \in Nat /\ p[2] \in Nat /\ S[p[1]].size \in Nat
         /\ Isomorphic(S, p[1], D, p[2])
         /\ Free(S, pairs, 1, p[1]) /\ Free(D, pairs, 2, p[2])
<1>1. /\ WellFormed(S) /\ WellFormed(D) /\ p \in (DOMAIN S) \X (DOMAIN D) /\ Isomorphic(S, p[1], D, p[2])
  BY InputTrees DEF Types, Equal
<1>2. p[1] \in Nat /\ p[2] \in Nat /\ S[p[1]].size \in Nat
  BY <1>1, SubtreeInside
<1>3. p[1] \in Sides(Candidates, 1) /\ p[2] \in Sides(Candidates, 2)
  BY DEF Sides
<1>4. 1 \in 1 .. 2 /\ 2 \in 1 .. 2 /\ TreeOf(1) = S /\ TreeOf(2) = D
  BY DEF TreeOf
<1>5. Held(S, pairs, 1, Sides(Candidates, 1)) /\ Held(D, pairs, 2, Sides(Candidates, 2))
  BY <1>4 DEF Fronts
<1>6. Free(S, pairs, 1, p[1]) /\ Free(D, pairs, 2, p[2])
  BY <1>3, <1>5 DEF Held, Whole
<1> QED BY <1>1, <1>2, <1>6

\* Mapping it adds its block, and that only.
LEMMA TakenAdds ==
  ASSUME Types, Fronts, NEW p \in Candidates, ~Mapped(pairs, 1, p[1]), ~Mapped(pairs, 2, p[2]),
         NEW m, m = AddIsomorphicPairs(pairs, p[1], p[2])
  PROVE  /\ m \in Seq(Pairs) /\ Range(m) = Range(pairs) \cup Block(S, p[1], p[2])
         /\ \A q \in Block(S, p[1], p[2]) : /\ Isomorphic(S, q[1], D, q[2])
                                            /\ Block(S, q[1], q[2]) \subseteq Range(m)
         /\ Grows(S, pairs, m, 1, {p[1]}) /\ Grows(D, pairs, m, 2, {p[2]})
<1> DEFINE s == p[1]
           d == p[2]
<1>1. /\ s \in DOMAIN S /\ d \in DOMAIN D /\ WellFormed(S) /\ WellFormed(D)
      /\ s \in Nat /\ d \in Nat /\ S[s].size \in Nat
      /\ Isomorphic(S, s, D, d)
      /\ Free(S, pairs, 1, s) /\ Free(D, pairs, 2, d)
  BY TakenFree
<1>2. pairs \in Seq(Pairs)
  BY DEF Types
<1> HIDE DEF s, d
<1>3. Subtree(D, d) = d .. d + S[s].size - 1
  BY <1>1 DEF Isomorphic, SameShape, Subtree
<1>4. \A q \in Range(pairs) : q[1] \notin Subtree(S, s) /\ q[2] \notin Subtree(D, d)
  BY <1>1 DEF Free, Mapped
<1>5. \A q \in Range(pairs) : q[1] \in Subtree(S, s) \/ q[2] \in d .. d + S[s].size - 1 => q[2] - d = q[1] - s
  BY <1>3, <1>4
<1>6. m \in Seq(Pairs) /\ Range(m) = Range(pairs) \cup Block(S, s, d)
  BY <1>1, <1>2, <1>5, AddIsomorphicType, AddIsomorphicAdds DEF s, d
<1>7. \A q \in Block(S, s, d) : /\ q \in Subtree(S, s) \X Subtree(D, d)
                                /\ Isomorphic(S, q[1], D, q[2])
                                /\ Block(S, q[1], q[2]) \subseteq Block(S, s, d)
  BY <1>1, BlockWhole
<1>8. <<s, d>> \in Range(m)
  BY <1>1, <1>6, BlockRoot
<1>9. Mapped(m, 1, s) /\ Mapped(m, 2, d)
  BY <1>8 DEF Mapped
<1>10. Grows(S, pairs, m, 1, {s}) /\ Grows(D, pairs, m, 2, {d})
  BY <1>6, <1>7, <1>9 DEF Grows, Mapped
<1> QED BY <1>6, <1>7, <1>10 DEF s, d

\* Taking the best candidate or passing it over.
LEMMA TakeBestKeeps ==
  ASSUME IInv, TakeBest
  PROVE  Types' /\ Fronts' /\ WholeSubtreesAdded
<1> DEFINE x == Head(aside)
           rest == Tail(aside)
           p == x.pair
           I == {k \in DOMAIN rest : rest[k].pair[1] # x.pair[1] /\ rest[k].pair[2] # x.pair[2]}
<1>1. /\ pc = "greedy" /\ pc' = pc /\ aside # <<>> /\ input' = input /\ open' = open
      /\ IF PassedOver(x) THEN aside' = rest /\ pairs' = pairs
         ELSE pairs' = AddIsomorphicPairs(pairs, x.pair[1], x.pair[2]) /\ aside' = Chosen(rest, I)
  BY DEF TakeBest
<1>2. Types /\ Fronts
  BY <1>1 DEF IInv
<1>3. S' = S /\ D' = D /\ \A i \in 1 .. 2 : TreeOf(i)' = TreeOf(i)
  BY <1>1 DEF S, D, TreeOf
<1> DEFINE E == Range(aside)
<1>4. aside \in Seq(E) /\ aside # <<>>
  BY <1>1, <1>2 DEF Types
<1>5. x \in E /\ rest \in Seq(E)
  <2> HIDE DEF E
  <2> QED BY <1>4
<1>6. aside' \in Seq(E)
  <2> HIDE DEF E, rest, x, I
  <2> QED BY <1>1, <1>5, ChosenIn
<1>7. aside' \in Seq(Range(aside')) /\ Range(aside') \subseteq E
  <2> HIDE DEF E
  <2> QED BY <1>6, SeqRange
<1>8. /\ Candidates = {y.pair : y \in E} /\ Candidates' = {y.pair : y \in Range(aside')}
      /\ Candidates' \subseteq Candidates /\ p \in Candidates
  <2>1. Candidates = {y.pair : y \in E} /\ Candidates' = {y.pair : y \in Range(aside')}
    BY <1>1 DEF Candidates
  <2> HIDE DEF E, x
  <2> QED BY <1>5, <1>7, <2>1
<1>9. /\ pairs' \in Seq(Pairs) /\ WholeSubtreesAdded
      /\ \A i \in 1 .. 2 : \E H \in SUBSET Sides(Candidates, i) : Grows(TreeOf(i), pairs, pairs', i, H)
  <2>1. CASE PassedOver(x)
    <3>1. pairs' = pairs
      BY <1>1, <2>1
    <3>2. \A i \in 1 .. 2 : Grows(TreeOf(i), pairs, pairs', i, {})
      BY <3>1 DEF Grows
    <3> QED BY <1>2, <3>1, <3>2 DEF WholeSubtreesAdded, Types
  <2>2. CASE ~PassedOver(x)
    <3>1. pairs' = AddIsomorphicPairs(pairs, p[1], p[2])
      BY <1>1, <2>2
    <3>2. ~Mapped(pairs, 1, p[1]) /\ ~Mapped(pairs, 2, p[2])
      BY <2>2 DEF PassedOver
    <3> HIDE DEF p
    <3>3. /\ pairs' \in Seq(Pairs) /\ Range(pairs') = Range(pairs) \cup Block(S, p[1], p[2])
          /\ \A q \in Block(S, p[1], p[2]) : /\ Isomorphic(S, q[1], D, q[2])
                                             /\ Block(S, q[1], q[2]) \subseteq Range(pairs')
          /\ Grows(S, pairs, pairs', 1, {p[1]}) /\ Grows(D, pairs, pairs', 2, {p[2]})
      BY <1>2, <1>8, <3>1, <3>2, TakenAdds
    <3>4. WholeSubtreesAdded
      BY <3>3 DEF WholeSubtreesAdded, Block
    <3>5. \A i \in 1 .. 2 : {p[i]} \in SUBSET Sides(Candidates, i) /\ Grows(TreeOf(i), pairs, pairs', i, {p[i]})
      <4> SUFFICES ASSUME NEW i \in 1 .. 2
                   PROVE  {p[i]} \in SUBSET Sides(Candidates, i) /\ Grows(TreeOf(i), pairs, pairs', i, {p[i]})
        OBVIOUS
      <4>1. {p[i]} \in SUBSET Sides(Candidates, i)
        BY <1>8 DEF Sides, p
      <4>2. i = 1 \/ i = 2
        OBVIOUS
      <4>3. CASE i = 1
        BY <3>3, <4>1, <4>3 DEF TreeOf
      <4>4. CASE i = 2
        BY <3>3, <4>1, <4>4 DEF TreeOf
      <4> QED BY <4>2, <4>3, <4>4
    <3> QED BY <3>3, <3>4, <3>5
  <2> QED BY <2>1, <2>2
<1>10. Types'
  <2>1. pc' # "levels"
    BY <1>1
  <2>2. Equal(Candidates', S, D)
    BY <1>2, <1>8 DEF Types, Equal
  <2> QED BY <1>1, <1>2, <1>3, <1>7, <1>9, <2>1, <2>2 DEF Types
<1>11. Fronts'
  <2>1. ASSUME NEW i \in 1 .. 2 PROVE Held(TreeOf(i), pairs', i, Sides(Candidates', i))
    <3>1. Sides(Candidates', i) \subseteq Sides(Candidates, i)
      BY <1>8 DEF Sides
    <3>2. Held(TreeOf(i), pairs, i, Sides(Candidates, i))
      BY <1>2 DEF Fronts
    <3>3. PICK H \in SUBSET Sides(Candidates, i) : Grows(TreeOf(i), pairs, pairs', i, H)
      BY <1>9
    <3>4. /\ \A a \in Sides(Candidates', i), b \in H \cup Sides(Candidates', i) : Separate(TreeOf(i), a, b)
          /\ \A a \in Sides(Candidates', i) : Whole(TreeOf(i), pairs, i, a)
      BY <3>1, <3>2 DEF Held
    <3> QED BY <3>3, <3>4, HeldStays
  <2>2. pc' # "levels"
    BY <1>1
  <2> QED BY <1>1, <1>3, <2>1, <2>2 DEF Fronts
<1> QED BY <1>9, <1>10, <1>11

\* Every step of the pass keeps the invariant and adds whole subtrees; the recovery comes
\* after the pass.
LEMMA StepKeeps ==
  ASSUME IInv, [Next]_vars
  PROVE  IInv' /\ (pc \in {"levels", "greedy"} => WholeSubtreesAdded \/ vars' = vars)
<1>1. CASE \E side \in 1 .. 2 : OpenHigher(side)
  <2>1. PICK side \in 1 .. 2 : OpenHigher(side)
    BY <1>1
  <2>2. pairs' = pairs
    BY <2>1 DEF OpenHigher
  <2> QED BY <2>1, <2>2, OpenHigherKeeps DEF IInv, WholeSubtreesAdded
<1>2. CASE MatchLevel
  BY <1>2, MatchLevelKeeps DEF IInv
<1>3. CASE Rank
  BY <1>3, RankKeeps DEF IInv
<1>4. CASE TakeBest
  BY <1>4, TakeBestKeeps DEF IInv
<1>5. CASE Matched
  BY <1>5 DEF Matched, IInv, WholeSubtreesAdded
<1>6. CASE \E s \in DOMAIN S, d \in DOMAIN D : Recover(s, d)
  BY <1>6 DEF Recover, IInv
<1>7. CASE UNCHANGED vars
  <2>1. /\ input' = input /\ open' = open /\ aside' = aside /\ pairs' = pairs /\ pc' = pc /\ vars' = vars
    BY <1>7 DEF vars
  <2>2. S' = S /\ D' = D /\ Candidates' = Candidates /\ \A i \in 1 .. 2 : TreeOf(i)' = TreeOf(i)
    BY <2>1 DEF S, D, Candidates, TreeOf
  <2>3. Types => Types'
    BY <2>1, <2>2 DEF Types
  <2>4. Fronts => Fronts'
    BY <2>1, <2>2 DEF Fronts
  <2> QED BY <2>1, <2>3, <2>4 DEF IInv
<1> QED BY <1>1, <1>2, <1>3, <1>4, <1>5, <1>6, <1>7 DEF Next

\* The nodes the pass has still to do with are apart and free, or whole (top-down.go,
\* openUnmatched and the loops around it), in every reachable state.
THEOREM TopDownFronts == Spec => []IInv
<1>1. IInv /\ [Next]_vars => IInv'
  BY StepKeeps
<1> QED BY <1>1, InitHolds, PTL DEF Spec

\* The top-down pass takes back no pair it made, and below every pair it makes all nodes are
\* paired in order, for all well-formed trees (top-down.go, addIsomorphicPairs).
THEOREM TopDownOnlyWholeFreeSubtrees == Spec => OnlyWholeFreeSubtrees
<1>1. IInv /\ [Next]_vars => [(pc \in {"levels", "greedy"}) => WholeSubtreesAdded]_vars
  BY StepKeeps
<1> QED BY <1>1, TopDownFronts, PTL DEF Spec, OnlyWholeFreeSubtrees

-----------------------------------------------------------------------------
\* The recovery by edit distance: trees in post-order, and the walk back through the tables.

\* Of two nodes one is inside the other or they are apart, and who ends first follows from that.
LEMMA Nesting ==
  ASSUME NEW T, WellFormed(T), NEW x \in DOMAIN T, NEW y \in DOMAIN T
  PROVE  /\ Subtree(T, x) \subseteq DOMAIN T
         /\ y \in Subtree(T, x) => y = x \/ (Encloses(T, x, y) /\ EndsBefore(T, y, x))
         /\ Encloses(T, x, y) => y \in Subtree(T, x) /\ x < y /\ ~Encloses(T, y, x)
         /\ Encloses(T, x, y) => Subtree(T, y) \subseteq Subtree(T, x)
         /\ x < y <=> Encloses(T, x, y) \/ (EndsBefore(T, x, y) /\ ~Encloses(T, y, x))
         /\ \A z \in Subtree(T, x) : (y = x \/ EndsBefore(T, y, x)) /\ (y = z \/ EndsBefore(T, z, y))
                                       => y \in Subtree(T, x)
<1>1. /\ \A z \in DOMAIN T : z \in Nat /\ T[z].size \in Nat \ {0}
      /\ \A z \in DOMAIN T : \A c \in Descendants(T, z) : c + T[c].size <= z + T[z].size
      /\ \A z \in DOMAIN T : Subtree(T, z) \subseteq DOMAIN T
  BY SubtreeInside DEF WellFormed
<1>2. \A z, c \in DOMAIN T : /\ c \in Descendants(T, z) <=> z + 1 <= c /\ c <= z + T[z].size - 1
                             /\ c \in Subtree(T, z) <=> z <= c /\ c <= z + T[z].size - 1
  BY <1>1 DEF Descendants, Subtree
<1>3. y \in Subtree(T, x) => y = x \/ (Encloses(T, x, y) /\ EndsBefore(T, y, x))
  BY <1>1, <1>2 DEF Encloses, EndsBefore
<1>4. Encloses(T, x, y) => y \in Subtree(T, x) /\ x < y /\ ~Encloses(T, y, x)
  BY <1>1, <1>2 DEF Encloses
<1>5. Encloses(T, x, y) => Subtree(T, y) \subseteq Subtree(T, x)
  <2> SUFFICES ASSUME Encloses(T, x, y), NEW z \in Subtree(T, y) PROVE z \in Subtree(T, x)
    OBVIOUS
  <2>1. z \in DOMAIN T
    BY <1>1
  <2> QED BY <1>1, <1>2, <2>1 DEF Encloses
<1>6. x < y <=> Encloses(T, x, y) \/ (EndsBefore(T, x, y) /\ ~Encloses(T, y, x))
  BY <1>1, <1>2 DEF Encloses, EndsBefore
<1>7. ASSUME NEW z \in Subtree(T, x), y = x \/ EndsBefore(T, y, x), y = z \/ EndsBefore(T, z, y)
      PROVE  y \in Subtree(T, x)
  <2>1. z \in DOMAIN T
    BY <1>1
  <2>2. CASE y = x
    BY <1>1, <1>2, <2>2
  <2>3. CASE y = z
    BY <2>3
  <2>4. CASE EndsBefore(T, y, x) /\ EndsBefore(T, z, y)
    <3>1. z >= x /\ z + T[z].size <= y + T[y].size /\ y + T[y].size <= x + T[x].size
      BY <1>1, <1>2, <2>1, <2>4 DEF EndsBefore
    <3>2. y <= x + T[x].size - 1
      BY <1>1, <3>1
    <3>3. CASE y < x
      <4>1. x \in Descendants(T, y)
        BY <1>1, <1>2, <2>1, <3>1, <3>3
      <4> QED BY <1>1, <2>4, <3>1, <3>3, <4>1 DEF EndsBefore
    <3> QED BY <1>1, <1>2, <3>2, <3>3
  <2> QED BY <1>7, <2>2, <2>3, <2>4
<1> QED BY <1>1, <1>3, <1>4, <1>5, <1>6, <1>7

\* Post-order is a strict total order of the nodes.
LEMMA EndsBeforeOrders ==
  ASSUME NEW T, WellFormed(T), NEW x \in DOMAIN T, NEW y \in DOMAIN T
  PROVE  /\ ~EndsBefore(T, x, x)
         /\ EndsBefore(T, x, y) => ~EndsBefore(T, y, x)
         /\ x # y => EndsBefore(T, x, y) \/ EndsBefore(T, y, x)
         /\ \A z \in DOMAIN T : EndsBefore(T, x, y) /\ EndsBefore(T, y, z) => EndsBefore(T, x, z)
<1>1. \A z \in DOMAIN T : z \in Nat /\ T[z].size \in Nat
  BY DEF WellFormed
<1> QED BY <1>1 DEF EndsBefore

\* How many nodes of the subtree of n come before x.
Place(T, n, x) == Cardinality({y \in Subtree(T, n) : EndsBefore(T, y, x)})

\* The nodes of a subtree have the places 0 to size - 1, each once.
LEMMA EveryPlace ==
  ASSUME NEW T, WellFormed(T), NEW n \in DOMAIN T
  PROVE  /\ \A k \in 1 .. T[n].size : \E x \in Subtree(T, n) : Place(T, n, x) = k - 1
         /\ \A x \in Subtree(T, n) : Place(T, n, x) + 1 \in 1 .. T[n].size
         /\ \A x, y \in Subtree(T, n) : Place(T, n, x) < Place(T, n, y) <=> EndsBefore(T, x, y)
         /\ \A x, y \in Subtree(T, n) : Place(T, n, x) = Place(T, n, y) => x = y
<1> DEFINE M == Subtree(T, n)
           N == T[n].size
           Below(x) == {y \in M : EndsBefore(T, y, x)}
           f == [x \in M |-> Place(T, n, x) + 1]
<1>1. n \in Nat \ {0} /\ N \in Nat \ {0} /\ M \subseteq DOMAIN T
  BY SubtreeInside
<1>2. IsFiniteSet(M) /\ Cardinality(M) = N
  <2> DEFINE hi == n + T[n].size - 1
  <2>1. n \in Int /\ hi \in Int /\ n <= hi /\ hi - n + 1 = N
    BY <1>1
  <2>2. M = n .. hi
    BY DEF Subtree
  <2> HIDE DEF hi
  <2>3. IsFiniteSet(n .. hi) /\ Cardinality(n .. hi) = IF n > hi THEN 0 ELSE hi - n + 1
    BY <2>1, FS_Interval, Zenon
  <2> HIDE DEF M, N
  <2> QED BY <2>1, <2>2, <2>3
<1>3. ASSUME NEW x \in M
      PROVE  IsFiniteSet(Below(x)) /\ Place(T, n, x) \in Nat /\ Place(T, n, x) = Cardinality(Below(x))
  <2>1. Below(x) \in SUBSET M
    OBVIOUS
  <2>2. IsFiniteSet(Below(x))
    BY <1>2, <2>1, FS_Subset
  <2>3. Cardinality(Below(x)) \in Nat
    BY <2>2, FS_CardinalityType
  <2> QED BY <2>2, <2>3 DEF Place
<1>0. \A x \in M : Place(T, n, x) \in Nat
  BY <1>3
<1>4. ASSUME NEW x \in M PROVE Place(T, n, x) < N
  <2>1. Below(x) \in SUBSET M /\ Below(x) # M
    BY <1>1, EndsBeforeOrders
  <2>2. /\ Cardinality(Below(x)) <= Cardinality(M)
        /\ Cardinality(M) = Cardinality(Below(x)) => M = Below(x)
    BY <1>2, <2>1, FS_Subset
  <2> HIDE DEF Below, M
  <2> QED BY <1>1, <1>2, <1>3, <2>1, <2>2
<1>5. ASSUME NEW x \in M, NEW y \in M, EndsBefore(T, x, y) PROVE Place(T, n, x) < Place(T, n, y)
  <2>0. \A z \in M : z \in DOMAIN T
    BY <1>1
  <2>1. Below(x) \in SUBSET Below(y)
    <3> SUFFICES ASSUME NEW z \in M, EndsBefore(T, z, x) PROVE EndsBefore(T, z, y)
      OBVIOUS
    <3>1. x \in DOMAIN T /\ y \in DOMAIN T /\ z \in DOMAIN T
      BY <2>0
    <3> QED BY <1>5, <3>1, EndsBeforeOrders
  <2>2. x \in Below(y) /\ x \notin Below(x)
    BY <1>5, <2>0, EndsBeforeOrders
  <2>3. IsFiniteSet(Below(y))
    BY <1>3
  <2> HIDE DEF Below
  <2>4. /\ Cardinality(Below(x)) <= Cardinality(Below(y))
        /\ Cardinality(Below(y)) = Cardinality(Below(x)) => Below(y) = Below(x)
    BY <2>1, <2>3, FS_Subset
  <2> QED BY <1>3, <2>2, <2>4
<1>6. ASSUME NEW x \in M, NEW y \in M PROVE x = y \/ EndsBefore(T, x, y) \/ EndsBefore(T, y, x)
  BY <1>1, EndsBeforeOrders
<1> HIDE DEF M, N, f
<1>7. \A x, y \in M : Place(T, n, x) = Place(T, n, y) => x = y
  BY <1>0, <1>5, <1>6
<1>8. \A x, y \in M : Place(T, n, x) < Place(T, n, y) <=> EndsBefore(T, x, y)
  BY <1>0, <1>5, <1>6
<1>9. \A x \in M : Place(T, n, x) + 1 \in 1 .. N
  BY <1>0, <1>1, <1>4
<1>10. f \in Injection(M, 1 .. N)
  <2>1. \A x, y \in M : Place(T, n, x) + 1 = Place(T, n, y) + 1 => x = y
    BY <1>0, <1>7
  <2> QED BY <1>9, <2>1 DEF Injection, IsInjective, f
<1>11. IsFiniteSet(1 .. N) /\ Cardinality(1 .. N) = N
  <2>1. 1 \in Int /\ N \in Int
    BY <1>1
  <2>2. IsFiniteSet(1 .. N) /\ Cardinality(1 .. N) = IF 1 > N THEN 0 ELSE N - 1 + 1
    BY <2>1, FS_Interval, Zenon
  <2> QED BY <1>1, <2>2
<1>12. f \in Surjection(M, 1 .. N)
  <2> QED BY <1>2, <1>10, <1>11, FS_Injection
<1>13. \A k \in 1 .. N : \E x \in M : f[x] = k
  <2> QED BY <1>12 DEF Surjection
<1>14. \A k \in 1 .. N : \E x \in M : Place(T, n, x) = k - 1
  <2>1. \A x \in M : f[x] = Place(T, n, x) + 1
    BY DEF f
  <2> QED BY <1>0, <1>13, <2>1
<1> QED BY <1>7, <1>8, <1>9, <1>14 DEF M, N

\* A sequence that lists the nodes of a subtree in post-order.
Listing(T, n, o) ==
  /\ o \in [1 .. T[n].size -> Subtree(T, n)]
  /\ \A x \in Subtree(T, n) : \E k \in 1 .. T[n].size : o[k] = x
  /\ \A i, j \in 1 .. T[n].size : i < j <=> EndsBefore(T, o[i], o[j])
  /\ \A i, j \in 1 .. T[n].size : o[i] = o[j] => i = j

\* PostOrder does (ast.go, PostOrder).
LEMMA PostOrderLists ==
  ASSUME NEW T, WellFormed(T), NEW n \in DOMAIN T
  PROVE  Listing(T, n, PostOrder(T, n))
<1> DEFINE M == Subtree(T, n)
           N == T[n].size
           o == PostOrder(T, n)
<1>1. /\ \A k \in 1 .. N : \E x \in M : Place(T, n, x) = k - 1
      /\ \A x \in M : Place(T, n, x) + 1 \in 1 .. N
      /\ \A x, y \in M : Place(T, n, x) < Place(T, n, y) <=> EndsBefore(T, x, y)
      /\ \A x, y \in M : Place(T, n, x) = Place(T, n, y) => x = y
  BY EveryPlace
<1>0. N \in Nat \ {0} /\ n \in M /\ M \subseteq DOMAIN T
  BY SubtreeInside
<1>2. o = [k \in 1 .. N |-> CHOOSE x \in M : Place(T, n, x) = k - 1]
  <2> DEFINE At(k) == CHOOSE x \in M : Place(T, n, x) = k - 1
             first == [k \in 1 .. (N - 1) |-> At(k)]
  <2>1. o = Append(first, n)
    BY DEF PostOrder, Place
  <2>2. \A k \in 1 .. N : At(k) \in M /\ Place(T, n, At(k)) = k - 1
    <3> HIDE DEF M, N
    <3> QED BY <1>1
  <2>3. At(N) = n
    <3>1. N \in 1 .. N
      BY <1>0
    <3>2. At(N) \in M /\ Place(T, n, At(N)) = N - 1
      <4> HIDE DEF At, M, N
      <4> QED BY <2>2, <3>1
    <3>3. CASE At(N) # n
      <4>1. EndsBefore(T, At(N), n)
        <5> HIDE DEF At
        <5>1. At(N) \in Subtree(T, n) /\ At(N) \in DOMAIN T
          BY <1>0, <3>2
        <5> QED BY <3>3, <5>1, Nesting
      <4>2. Place(T, n, At(N)) < Place(T, n, n)
        <5> HIDE DEF At, M, N
        <5> QED BY <1>0, <1>1, <3>2, <4>1
      <4>3. Place(T, n, n) + 1 \in 1 .. N
        <5> HIDE DEF M, N
        <5> QED BY <1>0, <1>1
      <4>4. Place(T, n, n) \in Nat
        <5>1. IsFiniteSet(M)
          <6> DEFINE hi == n + T[n].size - 1
          <6>1. n \in Int /\ hi \in Int
            BY SubtreeInside
          <6> HIDE DEF hi
          <6>2. IsFiniteSet(n .. hi)
            BY <6>1, FS_Interval, Zenon
          <6> QED BY <6>2 DEF Subtree, hi
        <5>2. {y \in M : EndsBefore(T, y, n)} \in SUBSET M
          OBVIOUS
        <5> QED BY <5>1, <5>2, FS_Subset, FS_CardinalityType DEF Place
      <4> HIDE DEF At, N
      <4> QED BY <1>0, <3>2, <4>2, <4>3, <4>4
    <3> QED BY <3>3
  <2>4. first \in Seq(M) /\ Len(first) = N - 1 /\ \A k \in 1 .. N - 1 : first[k] = At(k)
    <3> HIDE DEF At, M, N
    <3>1. \A k \in 1 .. (N - 1) : At(k) \in M
      BY <1>0, <2>2
    <3> QED BY <1>0, <3>1
  <2> HIDE DEF first, At, M, N
  <2>5. o = [i \in 1 .. (N - 1) + 1 |-> IF i = (N - 1) + 1 THEN n ELSE first[i]]
    BY <1>0, <2>1, <2>4, AppendIs
  <2>6. (N - 1) + 1 = N
    BY <1>0
  <2>7. \A i \in 1 .. N : (IF i = N THEN n ELSE first[i]) = At(i)
    BY <1>0, <2>3, <2>4
  <2>8. o = [i \in 1 .. N |-> At(i)]
    BY <2>5, <2>6, <2>7
  <2> QED BY <2>8 DEF At
<1>3. \A k \in 1 .. N : o[k] \in M /\ Place(T, n, o[k]) = k - 1
  <2> HIDE DEF M, N, o
  <2> QED BY <1>1, <1>2
<1>4. o \in [1 .. N -> M]
  <2> HIDE DEF M, N, o
  <2> QED BY <1>2, <1>3
<1>5. \A x \in M : \E k \in 1 .. N : o[k] = x
  <2> SUFFICES ASSUME NEW x \in M PROVE \E k \in 1 .. N : o[k] = x
    OBVIOUS
  <2> DEFINE k == Place(T, n, x) + 1
  <2>0. Cardinality({y \in M : EndsBefore(T, y, x)}) \in Nat
    <3>1. IsFiniteSet(M)
      <4>1. n \in Int /\ T[n].size - 1 \in Int
        BY SubtreeInside
      <4> DEFINE hi == n + T[n].size - 1
      <4>2. hi \in Int
        BY <4>1
      <4> HIDE DEF hi
      <4>3. IsFiniteSet(n .. hi)
        BY <4>1, <4>2, FS_Interval, Zenon
      <4> QED BY <4>3 DEF Subtree, hi
    <3>2. {y \in M : EndsBefore(T, y, x)} \in SUBSET M
      OBVIOUS
    <3> QED BY <3>1, <3>2, FS_Subset, FS_CardinalityType
  <2>1. k \in 1 .. N /\ k - 1 = Place(T, n, x)
    BY <1>1, <2>0 DEF Place
  <2> HIDE DEF k, M, N, o
  <2>2. o[k] \in M /\ Place(T, n, o[k]) = Place(T, n, x)
    BY <1>3, <2>1
  <2> QED BY <1>1, <2>1, <2>2
<1>6. \A i, j \in 1 .. N : i < j <=> EndsBefore(T, o[i], o[j])
  <2> HIDE DEF M, N, o
  <2>1. \A i, j \in 1 .. N : (i - 1 < j - 1) <=> EndsBefore(T, o[i], o[j])
    BY <1>1, <1>3
  <2>2. N \in Nat
    BY SubtreeInside DEF N
  <2> QED BY <2>1, <2>2
<1>7. \A i, j \in 1 .. N : o[i] = o[j] => i = j
  <2> HIDE DEF M, N, o
  <2>1. \A i, j \in 1 .. N : o[i] = o[j] => i - 1 = j - 1
    BY <1>3
  <2>2. N \in Nat
    BY SubtreeInside DEF N
  <2> QED BY <2>1, <2>2
<1> HIDE DEF M, N, o
<1>8. /\ o \in [1 .. N -> M]
      /\ \A x \in M : \E k \in 1 .. N : o[k] = x
      /\ \A i, j \in 1 .. N : i < j <=> EndsBefore(T, o[i], o[j])
      /\ \A i, j \in 1 .. N : o[i] = o[j] => i = j
  BY <1>4, <1>5, <1>6, <1>7
<1> QED BY <1>8 DEF Listing, M, N, o

\* In post-order the subtree of a node are the nodes up to it, as many as it has.
LEMMA BlockBefore ==
  ASSUME NEW T, WellFormed(T), NEW n \in DOMAIN T, NEW o, Listing(T, n, o), NEW i \in 1 .. T[n].size
  PROVE  /\ T[o[i]].size \in Nat \ {0} /\ i - T[o[i]].size >= 0
         /\ \A k \in 1 .. T[n].size : o[k] \in Subtree(T, o[i]) <=> i - T[o[i]].size < k /\ k <= i
<1> DEFINE N == T[n].size
           x == o[i]
           size == T[x].size
           K == {k \in 1 .. N : o[k] \in Subtree(T, x)}
           I == i - size + 1 .. i
<1>1. N \in Nat /\ i \in 1 .. N
  BY SubtreeInside
<1>2. /\ o \in [1 .. N -> Subtree(T, n)]
      /\ \A y \in Subtree(T, n) : \E k \in 1 .. N : o[k] = y
      /\ \A k, l \in 1 .. N : k < l <=> EndsBefore(T, o[k], o[l])
      /\ \A k, l \in 1 .. N : o[k] = o[l] => k = l
  BY DEF Listing
<1>3. /\ x \in Subtree(T, n) /\ x \in DOMAIN T /\ size \in Nat \ {0} /\ x \in Subtree(T, x)
      /\ \A k \in 1 .. N : o[k] \in DOMAIN T
  <2>1. Subtree(T, n) \subseteq DOMAIN T
    BY SubtreeInside
  <2>2. x \in Subtree(T, n) /\ \A k \in 1 .. N : o[k] \in Subtree(T, n)
    <3> HIDE DEF N
    <3> QED BY <1>1, <1>2
  <2>3. x \in DOMAIN T /\ \A k \in 1 .. N : o[k] \in DOMAIN T
    <3> HIDE DEF N
    <3> QED BY <2>1, <2>2
  <2> QED BY <2>2, <2>3, SubtreeInside
<1>4. Subtree(T, x) \subseteq Subtree(T, n)
  <2>1. x = n \/ Encloses(T, n, x)
    BY <1>3, Nesting
  <2> QED BY <1>3, <2>1, Nesting
<1>5. i \in K /\ \A k \in K : k <= i
  <2>1. i \in K
    BY <1>1, <1>3
  <2>2. ASSUME NEW k \in K PROVE k <= i
    <3>1. o[k] = x \/ EndsBefore(T, o[k], x)
      <4>1. o[k] \in DOMAIN T /\ o[k] \in Subtree(T, x)
        BY <1>3
      <4> QED BY <1>3, <4>1, Nesting
    <3>2. k = i \/ k < i
      <4> HIDE DEF N
      <4> QED BY <1>1, <1>2, <3>1
    <3> QED BY <1>1, <3>2
  <2> QED BY <2>1, <2>2
<1>6. ASSUME NEW k \in K, NEW l \in 1 .. N, k <= l, l <= i PROVE l \in K
  <2>1. o[l] = x \/ EndsBefore(T, o[l], x)
    <3>1. l = i \/ l < i
      BY <1>1, <1>6
    <3> HIDE DEF N
    <3> QED BY <1>1, <1>2, <3>1
  <2>2. o[l] = o[k] \/ EndsBefore(T, o[k], o[l])
    <3>1. (l = k \/ k < l) /\ k \in 1 .. N
      BY <1>1, <1>6
    <3> HIDE DEF N, K
    <3> QED BY <1>1, <1>2, <3>1
  <2>3. o[l] \in DOMAIN T /\ o[k] \in Subtree(T, x)
    BY <1>3
  <2>4. o[l] \in Subtree(T, x)
    BY <1>3, <2>1, <2>2, <2>3, Nesting
  <2> QED BY <2>4
<1>7. IsFiniteSet(K) /\ Cardinality(K) = size
  <2> DEFINE f == [k \in K |-> o[k]]
             hi == x + T[x].size - 1
  <2>1. IsFiniteSet(Subtree(T, x)) /\ Cardinality(Subtree(T, x)) = size
    <3>1. x \in Int /\ hi \in Int /\ x <= hi /\ hi - x + 1 = size
      BY <1>3, SubtreeInside
    <3>2. Subtree(T, x) = x .. hi
      BY DEF Subtree
    <3> HIDE DEF hi, x
    <3>3. IsFiniteSet(x .. hi) /\ Cardinality(x .. hi) = IF x > hi THEN 0 ELSE hi - x + 1
      BY <3>1, FS_Interval, Zenon
    <3> HIDE DEF size
    <3> QED BY <3>1, <3>2, <3>3
  <2>2. f \in Injection(K, Subtree(T, x))
    <3>1. \A k \in K : o[k] \in Subtree(T, x) /\ k \in 1 .. N
      OBVIOUS
    <3> HIDE DEF K, N, x
    <3> QED BY <1>2, <3>1 DEF Injection, IsInjective
  <2>3. f \in Surjection(K, Subtree(T, x))
    <3>1. \A y \in Subtree(T, x) : \E k \in K : o[k] = y
      <4> SUFFICES ASSUME NEW y \in Subtree(T, x) PROVE \E k \in K : o[k] = y
        OBVIOUS
      <4>1. PICK k \in 1 .. N : o[k] = y
        <5>1. y \in Subtree(T, n)
          BY <1>4
        <5> HIDE DEF N, x
        <5> QED BY <1>2, <5>1
      <4> QED BY <4>1
    <3>2. \A k \in K : o[k] \in Subtree(T, x)
      OBVIOUS
    <3> HIDE DEF K, x
    <3> QED BY <3>1, <3>2 DEF Surjection
  <2> HIDE DEF f, K, x, size
  <2> QED BY <2>1, <2>2, <2>3, FS_Injection
<1>8. IsFiniteSet(I) /\ Cardinality(I) = size
  <2> DEFINE lo == i - size + 1
  <2>1. lo \in Int /\ i \in Int /\ lo <= i /\ i - lo + 1 = size
    BY <1>1, <1>3
  <2> HIDE DEF lo, size
  <2>2. IsFiniteSet(lo .. i) /\ Cardinality(lo .. i) = IF lo > i THEN 0 ELSE i - lo + 1
    BY <2>1, FS_Interval, Zenon
  <2>3. I = lo .. i
    BY DEF lo
  <2> HIDE DEF I
  <2> QED BY <2>1, <2>2, <2>3
<1>9. K = I
  <2>1. CASE \E k \in K : k < i - size + 1
    <3>1. PICK k \in K : k < i - size + 1
      BY <2>1
    <3>2. I \in SUBSET K
      <4> SUFFICES ASSUME NEW l \in I PROVE l \in K
        OBVIOUS
      <4>1. l \in 1 .. N /\ k <= l /\ l <= i
        BY <1>1, <1>3, <3>1
      <4> HIDE DEF K, N, I
      <4> QED BY <1>6, <3>1, <4>1
    <3> HIDE DEF K, I
    <3> QED BY <1>7, <1>8, <3>2, FS_Subset
  <2>2. CASE ~\E k \in K : k < i - size + 1
    <3>1. K \in SUBSET I
      <4> SUFFICES ASSUME NEW k \in K PROVE k \in I
        OBVIOUS
      <4>1. k <= i /\ ~(k < i - size + 1) /\ k \in 1 .. N
        BY <1>5, <2>2
      <4> QED BY <1>1, <1>3, <4>1
    <3> HIDE DEF K, I
    <3> QED BY <1>7, <1>8, <3>1, FS_Subset
  <2> QED BY <2>1, <2>2
<1>10. i - size >= 0
  <2>1. i - size + 1 \in I
    BY <1>1, <1>3
  <2>2. i - size + 1 \in 1 .. N
    BY <1>9, <2>1
  <2> QED BY <1>1, <1>3, <2>2
<1>11. ASSUME NEW k \in 1 .. N PROVE o[k] \in Subtree(T, x) <=> i - size < k /\ k <= i
  <2>1. o[k] \in Subtree(T, x) <=> k \in I
    BY <1>9
  <2> QED BY <1>1, <1>3, <2>1
<1> QED BY <1>3, <1>10, <1>11

\* Node b is inside the subtree of node a, by their places in post-order.
Under(P, a, b) == LLD(P, a) < b /\ b < a

\* A tree in post-order: subtrees are inside one another or apart.
Nested(P) ==
  \A i \in 1 .. Len(P) :
    /\ P[i].size \in Nat \ {0} /\ LLD(P, i) \in Nat /\ LLD(P, i) < i
    /\ \A k \in 1 .. i : LLD(P, i) < k => LLD(P, i) <= LLD(P, k)

\* What InPostOrder gives is such a tree, and who is inside whom can be told from the places.
LEMMA InPostOrderNests ==
  ASSUME NEW T, WellFormed(T), NEW n \in DOMAIN T
  PROVE  /\ Len(InPostOrder(T, n)) = T[n].size /\ T[n].size \in Nat \ {0}
         /\ Listing(T, n, PostOrder(T, n))
         /\ \A i \in 1 .. T[n].size : PostOrder(T, n)[i] \in Subtree(T, n)
         /\ Nested(InPostOrder(T, n))
         /\ \A i, j \in 1 .. T[n].size :
              LET o == PostOrder(T, n)
                  P == InPostOrder(T, n)
              IN /\ o[i] = o[j] <=> i = j
                 /\ Under(P, i, j) <=> Encloses(T, o[i], o[j])
                 /\ o[i] < o[j] <=> Under(P, i, j) \/ (i < j /\ ~Under(P, j, i))
<1> DEFINE o == PostOrder(T, n)
           P == InPostOrder(T, n)
           N == T[n].size
<1>1. N \in Nat \ {0} /\ Subtree(T, n) \subseteq DOMAIN T
  BY SubtreeInside
<1>2. Listing(T, n, o)
  BY PostOrderLists
<1>3. /\ DOMAIN o = 1 .. N
      /\ \A i \in 1 .. N : o[i] \in Subtree(T, n)
      /\ \A i, j \in 1 .. N : i < j <=> EndsBefore(T, o[i], o[j])
      /\ \A i, j \in 1 .. N : o[i] = o[j] <=> i = j
  <2> HIDE DEF o
  <2> QED BY <1>2 DEF Listing
<1>4. /\ DOMAIN P = 1 .. N /\ \A i \in 1 .. N : P[i].size = T[o[i]].size
      /\ P = [i \in 1 .. N |-> P[i]]
  <2>1. P = [k \in DOMAIN o |-> [kind |-> T[o[k]].kind, label |-> T[o[k]].label, size |-> T[o[k]].size]]
    BY DEF InPostOrder
  <2> HIDE DEF o, P, N
  <2> QED BY <1>3, <2>1
<1>5. Len(P) = N
  <2> DEFINE X == {P[i] : i \in 1 .. N}
  <2>1. P \in [1 .. N -> X]
    <3> HIDE DEF P, N
    <3> QED BY <1>4
  <2> HIDE DEF P, N, X
  <2>2. P \in Seq(X)
    BY <1>1, <2>1
  <2> QED BY <1>1, <1>4, <2>2
<1> HIDE DEF o, P, N
<1>6. \A i \in 1 .. N : LLD(P, i) = i - T[o[i]].size
  BY <1>4 DEF LLD
<1>7. \A i \in 1 .. N : /\ T[o[i]].size \in Nat \ {0} /\ i - T[o[i]].size >= 0
                        /\ \A k \in 1 .. N : o[k] \in Subtree(T, o[i]) <=> i - T[o[i]].size < k /\ k <= i
  BY <1>2, BlockBefore DEF N
<1>8. \A i \in 1 .. N : /\ P[i].size \in Nat \ {0} /\ LLD(P, i) \in Nat /\ LLD(P, i) < i
                        /\ \A k \in 1 .. N : o[k] \in Subtree(T, o[i]) <=> LLD(P, i) < k /\ k <= i
  BY <1>1, <1>4, <1>6, <1>7
<1>9. \A i \in 1 .. N : o[i] \in DOMAIN T
  BY <1>1, <1>3
<1>10. ASSUME NEW i \in 1 .. N, NEW j \in 1 .. N
       PROVE  Under(P, i, j) <=> Encloses(T, o[i], o[j])
  <2>1. o[j] \in Subtree(T, o[i]) <=> LLD(P, i) < j /\ j <= i
    BY <1>8
  <2>2. j = i <=> o[j] = o[i]
    BY <1>3
  <2>3. LLD(P, i) \in Nat /\ i \in Nat /\ j \in Nat
    BY <1>1, <1>8
  <2>4. o[i] \in DOMAIN T /\ o[j] \in DOMAIN T
    BY <1>9
  <2>5. ~Encloses(T, o[i], o[i])
    BY <2>4, Nesting
  <2>6. Encloses(T, o[i], o[j]) <=> o[j] \in Subtree(T, o[i]) /\ o[j] # o[i]
    BY <2>4, <2>5, Nesting
  <2> QED BY <2>1, <2>2, <2>3, <2>6 DEF Under
<1>11. ASSUME NEW i \in 1 .. N, NEW k \in 1 .. i, LLD(P, i) < k PROVE LLD(P, i) <= LLD(P, k)
  <2>1. k \in 1 .. N /\ k <= i
    BY <1>1
  <2>2. o[k] \in Subtree(T, o[i])
    BY <1>8, <1>11, <2>1
  <2>3. o[k] = o[i] \/ Encloses(T, o[i], o[k])
    BY <1>9, <2>1, <2>2, Nesting
  <2>4. Subtree(T, o[k]) \subseteq Subtree(T, o[i])
    BY <1>9, <2>1, <2>3, Nesting
  <2> DEFINE l == LLD(P, k) + 1
  <2>5. l \in 1 .. N /\ LLD(P, k) < l /\ l <= k
    BY <1>1, <1>8, <2>1
  <2> HIDE DEF l
  <2>6. o[l] \in Subtree(T, o[i])
    BY <1>8, <2>1, <2>4, <2>5
  <2>7. LLD(P, i) < l
    BY <1>8, <2>5, <2>6
  <2> QED BY <1>8, <2>1, <2>7 DEF l
<1>12. Nested(P)
  BY <1>5, <1>8, <1>11 DEF Nested
<1>13. ASSUME NEW i \in 1 .. N, NEW j \in 1 .. N
       PROVE  o[i] < o[j] <=> Under(P, i, j) \/ (i < j /\ ~Under(P, j, i))
  <2>1. o[i] \in DOMAIN T /\ o[j] \in DOMAIN T
    BY <1>9
  <2>2. o[i] < o[j] <=> Encloses(T, o[i], o[j]) \/ (EndsBefore(T, o[i], o[j]) /\ ~Encloses(T, o[j], o[i]))
    BY <2>1, Nesting
  <2> QED BY <1>3, <1>10, <2>2
<1> QED BY <1>1, <1>2, <1>3, <1>5, <1>10, <1>12, <1>13 DEF o, P, N

\* Two pairs of nodes agree: neither changes places with the other or gets inside it.
Agree(T, U, p, q) ==
  /\ p[1] = q[1] <=> p[2] = q[2]
  /\ p[1] < q[1] <=> p[2] < q[2]
  /\ q[1] < p[1] <=> q[2] < p[2]
  /\ Under(T, p[1], q[1]) <=> Under(U, p[2], q[2])
  /\ Under(T, q[1], p[1]) <=> Under(U, q[2], p[2])
AllAgree(T, U, X, Y) == \A p \in X, q \in Y : Agree(T, U, p, q)

\* The pairs that can come of a pair of subtrees, and of what is left of it.
Between(a, b, c, d) == (a + 1 .. b) \X (c + 1 .. d)
Region(T, U, t) == Between(LLD(T, t[1]), t[1], LLD(U, t[2]), t[2])

\* The pairs found agree with each other and with whatever comes of the pairs of subtrees
\* left to visit, and so do any two of these.
NodePairs(T, U) == (1 .. Len(T)) \X (1 .. Len(U))
Found(T, U, found, todo) ==
  /\ found \in Seq(NodePairs(T, U)) /\ todo \in Seq(NodePairs(T, U))
  /\ AllAgree(T, U, Range(found), Range(found))
  /\ \A k \in DOMAIN todo : AllAgree(T, U, Range(found), Region(T, U, todo[k]))
  /\ \A k, l \in DOMAIN todo : k # l => AllAgree(T, U, Region(T, U, todo[k]), Region(T, U, todo[l]))

\* In the midst of a walk the same holds of the rectangle that has not been walked yet.
Walking(T, U, s) ==
  /\ Found(T, U, s.pairs, s.todo)
  /\ s.fi <= s.row /\ s.row <= Len(T) /\ s.fj <= s.col /\ s.col <= Len(U)
  /\ \A k \in 1 .. s.row : s.fi < k => s.fi <= LLD(T, k)
  /\ \A k \in 1 .. s.col : s.fj < k => s.fj <= LLD(U, k)
  /\ AllAgree(T, U, Range(s.pairs), Between(s.fi, s.row, s.fj, s.col))
  /\ \A k \in DOMAIN s.todo :
       AllAgree(T, U, Region(T, U, s.todo[k]), Between(s.fi, s.row, s.fj, s.col))

\* The states of a walk.
Walks(T, U, tables) ==
  {s \in [pairs : Seq(NodePairs(T, U)), todo : Seq(NodePairs(T, U)), row : Nat, col : Nat,
          fi : Nat, fj : Nat, tables : {tables}] : Walking(T, U, s)}

\* Agreement goes both ways.
LEMMA AgreeBack ==
  ASSUME NEW T, NEW U, NEW X, NEW Y, AllAgree(T, U, X, Y)
  PROVE  AllAgree(T, U, Y, X)
BY DEF AllAgree, Agree

\* A rectangle inside another.
LEMMA BetweenIn ==
  ASSUME NEW a \in Int, NEW b \in Int, NEW c \in Int, NEW d \in Int,
         NEW a1 \in Int, NEW b1 \in Int, NEW c1 \in Int, NEW d1 \in Int,
         a <= a1, b1 <= b, c <= c1, d1 <= d
  PROVE  Between(a1, b1, c1, d1) \subseteq Between(a, b, c, d)
<1>1. a1 + 1 .. b1 \subseteq a + 1 .. b /\ c1 + 1 .. d1 \subseteq c + 1 .. d
  OBVIOUS
<1> QED BY <1>1 DEF Between

\* The walk only gets into a smaller rectangle.
LEMMA LessToWalk ==
  ASSUME NEW T, NEW U, NEW tables, NEW s \in Walks(T, U, tables), NEW r,
         r \in [pairs : {s.pairs}, todo : {s.todo}, row : Nat, col : Nat, fi : {s.fi}, fj : {s.fj}, tables : {tables}],
         s.fi <= r.row, r.row <= s.row, s.fj <= r.col, r.col <= s.col, Len(T) \in Nat, Len(U) \in Nat
  PROVE  r \in Walks(T, U, tables)
<1>1. /\ s.fi \in Nat /\ s.fj \in Nat /\ s.row \in Nat /\ s.col \in Nat /\ Walking(T, U, s)
      /\ r.row \in Nat /\ r.col \in Nat
      /\ r.pairs = s.pairs /\ r.todo = s.todo /\ r.fi = s.fi /\ r.fj = s.fj
  BY DEF Walks
<1>2. Between(r.fi, r.row, r.fj, r.col) \subseteq Between(s.fi, s.row, s.fj, s.col)
  BY <1>1, BetweenIn
<1>3. r.row <= Len(T) /\ r.col <= Len(U) /\ 1 .. r.row \subseteq 1 .. s.row /\ 1 .. r.col \subseteq 1 .. s.col
  BY <1>1 DEF Walking
<1>4. AllAgree(T, U, Range(r.pairs), Between(r.fi, r.row, r.fj, r.col))
  BY <1>1, <1>2 DEF Walking, AllAgree
<1>5. \A k \in DOMAIN r.todo : AllAgree(T, U, Region(T, U, r.todo[k]), Between(r.fi, r.row, r.fj, r.col))
  BY <1>1, <1>2 DEF Walking, AllAgree
<1>6. Walking(T, U, r)
  BY <1>1, <1>3, <1>4, <1>5 DEF Walking
<1>7. r \in [pairs : Seq(NodePairs(T, U)), todo : Seq(NodePairs(T, U)), row : Nat, col : Nat,
             fi : Nat, fj : Nat, tables : {tables}]
  BY DEF Walks
<1> QED BY <1>6, <1>7 DEF Walks

\* Two nodes on the leftmost paths enclose all that is left to walk, and so agree with it.
LEMMA PathAgrees ==
  ASSUME NEW T, NEW U, NEW row \in Nat, NEW col \in Nat, LLD(T, row) \in Nat, LLD(U, col) \in Nat
  PROVE  /\ Agree(T, U, <<row, col>>, <<row, col>>)
         /\ \A q \in Between(LLD(T, row), row - 1, LLD(U, col), col - 1) : Agree(T, U, <<row, col>>, q)
<1>1. Agree(T, U, <<row, col>>, <<row, col>>)
  BY DEF Agree, Under
<1>2. ASSUME NEW q \in Between(LLD(T, row), row - 1, LLD(U, col), col - 1)
      PROVE  Agree(T, U, <<row, col>>, q)
  <2>1. q[1] \in Int /\ q[2] \in Int /\ LLD(T, row) < q[1] /\ q[1] < row /\ LLD(U, col) < q[2] /\ q[2] < col
    BY DEF Between
  <2>2. Under(T, row, q[1]) /\ ~Under(T, q[1], row) /\ Under(U, col, q[2]) /\ ~Under(U, q[2], col)
    BY <2>1 DEF Under
  <2> QED BY <2>1, <2>2 DEF Agree
<1> QED BY <1>1, <1>2

\* Where a pair of a rectangle lies.
LEMMA InBetween ==
  ASSUME NEW a \in Int, NEW b \in Int, NEW c \in Int, NEW d \in Int, NEW p \in Between(a, b, c, d)
  PROVE  p[1] \in Int /\ a < p[1] /\ p[1] <= b /\ p[2] \in Int /\ c < p[2] /\ p[2] <= d
<1>1. p[1] \in a + 1 .. b /\ p[2] \in c + 1 .. d
  BY DEF Between
<1> QED BY <1>1

\* A node of a block, and a place before the block: neither lies below the other.
LEMMA BeforeBlock ==
  ASSUME NEW T, Nested(T), Len(T) \in Nat, NEW t \in 1 .. Len(T), NEW p \in Int, NEW q \in Int,
         LLD(T, t) < p, p <= t, q <= LLD(T, t)
  PROVE  ~Under(T, p, q) /\ ~Under(T, q, p)
<1>1. t \in Nat /\ LLD(T, t) \in Nat
  BY DEF Nested
<1>2. p \in 1 .. t
  BY <1>1
<1>3. LLD(T, t) <= LLD(T, p)
  BY <1>2 DEF Nested
<1>4. p \in 1 .. Len(T)
  BY <1>2
<1>5. LLD(T, p) \in Nat
  BY <1>4 DEF Nested
<1>6. ~(LLD(T, p) < q)
  BY <1>1, <1>3, <1>5
<1>7. ~(p < q) /\ p # q
  BY <1>1
<1>8. ~(q = p) /\ ~(p <= q)
  BY <1>1
<1> QED BY <1>6, <1>7, <1>8 DEF Under

\* What is below two nodes agrees with what the walk goes on with before their subtrees.
LEMMA BlockAgrees ==
  ASSUME NEW T, NEW U, Nested(T), Nested(U), NEW t \in NodePairs(T, U), NEW a \in Nat, NEW b \in Nat,
         Len(T) \in Nat, Len(U) \in Nat
  PROVE  AllAgree(T, U, Region(T, U, t), Between(a, LLD(T, t[1]), b, LLD(U, t[2])))
<1>1. /\ t[1] \in 1 .. Len(T) /\ t[2] \in 1 .. Len(U)
      /\ LLD(T, t[1]) \in Nat /\ LLD(U, t[2]) \in Nat
  BY DEF Nested, NodePairs
<1> SUFFICES ASSUME NEW p \in Region(T, U, t), NEW q \in Between(a, LLD(T, t[1]), b, LLD(U, t[2]))
             PROVE  Agree(T, U, p, q)
  BY DEF AllAgree
<1>2. /\ p[1] \in Int /\ LLD(T, t[1]) < p[1] /\ p[1] <= t[1]
      /\ p[2] \in Int /\ LLD(U, t[2]) < p[2] /\ p[2] <= t[2]
  <2>1. t[1] \in Int /\ t[2] \in Int /\ LLD(T, t[1]) \in Int /\ LLD(U, t[2]) \in Int
    BY <1>1
  <2>2. p \in Between(LLD(T, t[1]), t[1], LLD(U, t[2]), t[2])
    BY DEF Region
  <2> QED BY <2>1, <2>2, InBetween
<1>3. q[1] \in Int /\ q[1] <= LLD(T, t[1]) /\ q[2] \in Int /\ q[2] <= LLD(U, t[2])
  <2>1. a \in Int /\ b \in Int /\ LLD(T, t[1]) \in Int /\ LLD(U, t[2]) \in Int
    BY <1>1
  <2> QED BY <2>1, InBetween
<1>4. ~Under(T, p[1], q[1]) /\ ~Under(T, q[1], p[1])
  BY <1>1, <1>2, <1>3, BeforeBlock
<1>5. ~Under(U, p[2], q[2]) /\ ~Under(U, q[2], p[2])
  BY <1>1, <1>2, <1>3, BeforeBlock
<1>6. q[1] < p[1]
  BY <1>1, <1>2, <1>3
<1>7. q[2] < p[2]
  BY <1>1, <1>2, <1>3
<1>8. ~(p[1] = q[1]) /\ ~(p[1] < q[1]) /\ ~(p[2] = q[2]) /\ ~(p[2] < q[2])
  BY <1>2, <1>3, <1>6, <1>7
<1> QED BY <1>4, <1>5, <1>6, <1>7, <1>8 DEF Agree

\* A walk's state once more, by its parts.
LEMMA WalkParts ==
  ASSUME NEW T, NEW U, NEW tables, NEW s \in Walks(T, U, tables)
  PROVE  /\ s.pairs \in Seq(NodePairs(T, U)) /\ s.todo \in Seq(NodePairs(T, U))
         /\ s.row \in Nat /\ s.col \in Nat /\ s.fi \in Nat /\ s.fj \in Nat /\ s.tables = tables
         /\ Walking(T, U, s)
         /\ s = [pairs |-> s.pairs, todo |-> s.todo, row |-> s.row, col |-> s.col,
                 fi |-> s.fi, fj |-> s.fj, tables |-> s.tables]
BY DEF Walks

\* Two nodes are paired.
LEMMA PairTaken ==
  ASSUME NEW T, NEW U, Len(T) \in Nat, Len(U) \in Nat, NEW tables, NEW s \in Walks(T, U, tables),
         s.fi < s.row, s.fj < s.col, LLD(T, s.row) = s.fi, LLD(U, s.col) = s.fj
  PROVE  [s EXCEPT !.pairs = Append(@, <<s.row, s.col>>), !.row = @ - 1, !.col = @ - 1] \in Walks(T, U, tables)
<1> DEFINE e == <<s.row, s.col>>
           found == Append(s.pairs, e)
           W == Between(s.fi, s.row, s.fj, s.col)
           W1 == Between(s.fi, s.row - 1, s.fj, s.col - 1)
           r == [s EXCEPT !.pairs = Append(@, e), !.row = @ - 1, !.col = @ - 1]
<1>1. /\ s.pairs \in Seq(NodePairs(T, U)) /\ s.todo \in Seq(NodePairs(T, U))
      /\ s.row \in Nat /\ s.col \in Nat /\ s.fi \in Nat /\ s.fj \in Nat
      /\ Walking(T, U, s)
  BY WalkParts
<1>2. r = [pairs |-> found, todo |-> s.todo, row |-> s.row - 1, col |-> s.col - 1,
           fi |-> s.fi, fj |-> s.fj, tables |-> tables]
  <2>1. s \in [pairs : Seq(NodePairs(T, U)), todo : Seq(NodePairs(T, U)), row : Nat, col : Nat,
               fi : Nat, fj : Nat, tables : {tables}]
    BY DEF Walks
  <2>2. r = [s EXCEPT !.pairs = found, !.row = s.row - 1, !.col = s.col - 1]
    OBVIOUS
  <2> HIDE DEF r, found
  <2> QED BY <2>1, <2>2
<1>3. /\ s.row <= Len(T) /\ s.col <= Len(U)
      /\ \A k \in 1 .. s.row : s.fi < k => s.fi <= LLD(T, k)
      /\ \A k \in 1 .. s.col : s.fj < k => s.fj <= LLD(U, k)
      /\ Found(T, U, s.pairs, s.todo)
      /\ AllAgree(T, U, Range(s.pairs), W)
      /\ \A k \in DOMAIN s.todo : AllAgree(T, U, Region(T, U, s.todo[k]), W)
  BY <1>1 DEF Walking
<1>4. e \in NodePairs(T, U) /\ e \in W
  BY <1>1, <1>3 DEF NodePairs, Between
<1>5. found \in Seq(NodePairs(T, U)) /\ Range(found) = Range(s.pairs) \cup {e}
  <2> HIDE DEF e
  <2> QED BY <1>1, <1>4, RangeAppend
<1>6. W1 \subseteq W
  <2>1. /\ s.row \in Int /\ s.col \in Int /\ s.fi \in Int /\ s.fj \in Int
        /\ s.row - 1 \in Int /\ s.col - 1 \in Int /\ s.row - 1 <= s.row /\ s.col - 1 <= s.col
        /\ s.fi <= s.fi /\ s.fj <= s.fj
    BY <1>1
  <2> QED BY <2>1, BetweenIn
<1>7. Agree(T, U, e, e) /\ \A q \in W1 : Agree(T, U, e, q)
  BY <1>1, PathAgrees
<1> HIDE DEF e, W, W1, found
<1>8. \A p \in Range(s.pairs) : Agree(T, U, p, e) /\ Agree(T, U, e, p)
  <2>1. \A p \in Range(s.pairs) : Agree(T, U, p, e)
    BY <1>3, <1>4 DEF AllAgree
  <2> QED BY <2>1 DEF Agree
<1>9. AllAgree(T, U, Range(found), Range(found))
  <2>1. AllAgree(T, U, Range(s.pairs), Range(s.pairs))
    BY <1>3 DEF Found
  <2> QED BY <1>5, <1>7, <1>8, <2>1 DEF AllAgree
<1>10. AllAgree(T, U, Range(found), W1)
  BY <1>3, <1>5, <1>6, <1>7 DEF AllAgree
<1>11. ASSUME NEW k \in DOMAIN s.todo
       PROVE  AllAgree(T, U, Range(found), Region(T, U, s.todo[k])) /\ AllAgree(T, U, Region(T, U, s.todo[k]), W1)
  <2>1. AllAgree(T, U, Range(s.pairs), Region(T, U, s.todo[k]))
    BY <1>3 DEF Found
  <2>2. \A p \in Region(T, U, s.todo[k]) : Agree(T, U, p, e)
    BY <1>3, <1>4 DEF AllAgree
  <2>3. \A p \in Region(T, U, s.todo[k]) : Agree(T, U, e, p)
    BY <2>2 DEF Agree
  <2>4. AllAgree(T, U, Region(T, U, s.todo[k]), W1)
    BY <1>3, <1>6 DEF AllAgree
  <2> QED BY <1>5, <2>1, <2>3, <2>4 DEF AllAgree
<1>12. Found(T, U, found, s.todo)
  BY <1>3, <1>5, <1>9, <1>11 DEF Found
<1>13. /\ r.pairs = found /\ r.todo = s.todo /\ r.row = s.row - 1 /\ r.col = s.col - 1
       /\ r.fi = s.fi /\ r.fj = s.fj /\ r.tables = tables
  <2> HIDE DEF r
  <2> QED BY <1>2
<1>14. /\ s.fi <= s.row - 1 /\ s.row - 1 <= Len(T) /\ s.fj <= s.col - 1 /\ s.col - 1 <= Len(U)
       /\ s.row - 1 \in Nat /\ s.col - 1 \in Nat
       /\ \A k \in 1 .. s.row - 1 : k \in 1 .. s.row
       /\ \A k \in 1 .. s.col - 1 : k \in 1 .. s.col
  <2>1. /\ s.row \in Int /\ s.col \in Int /\ s.fi \in Nat /\ s.fj \in Nat
        /\ Len(T) \in Int /\ Len(U) \in Int
    BY <1>1
  <2>2. s.fi <= s.row - 1 /\ s.row - 1 <= Len(T) /\ s.row - 1 \in Nat
    BY <1>3, <2>1
  <2>3. s.fj <= s.col - 1 /\ s.col - 1 <= Len(U) /\ s.col - 1 \in Nat
    BY <1>3, <2>1
  <2>4. /\ \A k \in 1 .. s.row - 1 : k \in 1 .. s.row
        /\ \A k \in 1 .. s.col - 1 : k \in 1 .. s.col
    BY <2>1
  <2> QED BY <2>2, <2>3, <2>4
<1>15. r \in [pairs : Seq(NodePairs(T, U)), todo : Seq(NodePairs(T, U)), row : Nat, col : Nat,
              fi : Nat, fj : Nat, tables : {tables}]
  BY <1>1, <1>2, <1>5, <1>14
<1> HIDE DEF r
<1>16. Walking(T, U, r)
  BY <1>3, <1>10, <1>11, <1>12, <1>13, <1>14 DEF Walking, W1
<1> QED BY <1>15, <1>16 DEF Walks, r, e

\* A sequence behind one entry.
LEMMA Behind ==
  ASSUME NEW E, NEW s \in Seq(E), NEW e \in E
  PROVE  /\ <<e>> \o s \in Seq(E) /\ DOMAIN (<<e>> \o s) = 1 .. Len(s) + 1
         /\ (<<e>> \o s)[1] = e
         /\ \A k \in 1 .. Len(s) + 1 : k # 1 => k - 1 \in DOMAIN s /\ (<<e>> \o s)[k] = s[k - 1]
<1>1. /\ <<e>> \o s \in Seq(E) /\ Len(<<e>> \o s) = Len(s) + 1 /\ Len(s) \in Nat /\ DOMAIN s = 1 .. Len(s)
      /\ (<<e>> \o s)[1] = e
      /\ \A k \in 1 .. Len(s) + 1 : k # 1 => (<<e>> \o s)[k] = s[k - 1]
  OBVIOUS
<1>2. DOMAIN (<<e>> \o s) = 1 .. Len(s) + 1
  BY <1>1
<1>3. \A k \in 1 .. Len(s) + 1 : k # 1 => k - 1 \in DOMAIN s
  BY <1>1
<1> QED BY <1>1, <1>2, <1>3

\* The pair of two subtrees is left for later.
LEMMA SubtreesLeft ==
  ASSUME NEW T, NEW U, Len(T) \in Nat, Len(U) \in Nat, Nested(T), Nested(U),
         NEW tables, NEW s \in Walks(T, U, tables), s.fi < s.row, s.fj < s.col
  PROVE  [s EXCEPT !.todo = <<<<s.row, s.col>>>> \o @, !.row = LLD(T, s.row), !.col = LLD(U, s.col)]
           \in Walks(T, U, tables)
<1> DEFINE t == <<s.row, s.col>>
           todo == <<t>> \o s.todo
           row == LLD(T, s.row)
           col == LLD(U, s.col)
           W == Between(s.fi, s.row, s.fj, s.col)
           W1 == Between(s.fi, row, s.fj, col)
           r == [s EXCEPT !.todo = <<t>> \o @, !.row = row, !.col = col]
<1>1. /\ s.pairs \in Seq(NodePairs(T, U)) /\ s.todo \in Seq(NodePairs(T, U))
      /\ s.row \in Nat /\ s.col \in Nat /\ s.fi \in Nat /\ s.fj \in Nat
      /\ Walking(T, U, s)
  BY WalkParts
<1>2. r = [pairs |-> s.pairs, todo |-> todo, row |-> row, col |-> col,
           fi |-> s.fi, fj |-> s.fj, tables |-> tables]
  <2>1. s \in [pairs : Seq(NodePairs(T, U)), todo : Seq(NodePairs(T, U)), row : Nat, col : Nat,
               fi : Nat, fj : Nat, tables : {tables}]
    BY DEF Walks
  <2>2. r = [s EXCEPT !.todo = todo, !.row = row, !.col = col]
    OBVIOUS
  <2> HIDE DEF r, todo, row, col
  <2> QED BY <2>1, <2>2
<1>3. /\ s.row <= Len(T) /\ s.col <= Len(U)
      /\ \A k \in 1 .. s.row : s.fi < k => s.fi <= LLD(T, k)
      /\ \A k \in 1 .. s.col : s.fj < k => s.fj <= LLD(U, k)
      /\ Found(T, U, s.pairs, s.todo)
      /\ AllAgree(T, U, Range(s.pairs), W)
      /\ \A k \in DOMAIN s.todo : AllAgree(T, U, Region(T, U, s.todo[k]), W)
  BY <1>1 DEF Walking
<1>4. /\ t \in NodePairs(T, U) /\ s.row \in 1 .. s.row /\ s.col \in 1 .. s.col
      /\ s.row \in 1 .. Len(T) /\ s.col \in 1 .. Len(U)
  BY <1>1, <1>3 DEF NodePairs
<1>5. row \in Nat /\ col \in Nat /\ row < s.row /\ col < s.col /\ s.fi <= row /\ s.fj <= col
  BY <1>3, <1>4 DEF Nested
<1>6. W1 \subseteq W
  <2> HIDE DEF row, col
  <2>1. /\ s.row \in Int /\ s.col \in Int /\ s.fi \in Int /\ s.fj \in Int /\ row \in Int /\ col \in Int
        /\ row <= s.row /\ col <= s.col /\ s.fi <= s.fi /\ s.fj <= s.fj
    BY <1>1, <1>5
  <2> QED BY <2>1, BetweenIn
<1>7. Region(T, U, t) \subseteq W
  <2>1. Region(T, U, t) = Between(row, s.row, col, s.col)
    BY DEF Region
  <2>2. \A a, c \in Nat : s.fi <= a /\ s.fj <= c =>
          Between(a, s.row, c, s.col) \subseteq Between(s.fi, s.row, s.fj, s.col)
    <3> SUFFICES ASSUME NEW a \in Nat, NEW c \in Nat, s.fi <= a, s.fj <= c
                 PROVE  Between(a, s.row, c, s.col) \subseteq Between(s.fi, s.row, s.fj, s.col)
      OBVIOUS
    <3>1. /\ s.row \in Int /\ s.col \in Int /\ s.fi \in Int /\ s.fj \in Int /\ a \in Int /\ c \in Int
          /\ s.row <= s.row /\ s.col <= s.col
      BY <1>1
    <3> QED BY <3>1, BetweenIn
  <2>3. row \in Nat /\ col \in Nat /\ s.fi <= row /\ s.fj <= col
    BY <1>5
  <2> HIDE DEF row, col, t
  <2> QED BY <2>1, <2>2, <2>3
<1>8. AllAgree(T, U, Region(T, U, t), W1)
  <2>1. AllAgree(T, U, Region(T, U, t), Between(s.fi, LLD(T, t[1]), s.fj, LLD(U, t[2])))
    BY <1>1, <1>4, BlockAgrees, Zenon
  <2>2. t[1] = s.row /\ t[2] = s.col
    OBVIOUS
  <2> QED BY <2>1, <2>2
<1>9. /\ todo \in Seq(NodePairs(T, U)) /\ DOMAIN todo = 1 .. Len(s.todo) + 1 /\ todo[1] = t
      /\ \A k \in 1 .. Len(s.todo) + 1 : k # 1 => k - 1 \in DOMAIN s.todo /\ todo[k] = s.todo[k - 1]
  <2> HIDE DEF t
  <2> QED BY <1>1, <1>4, Behind
<1> HIDE DEF t, todo, row, col, W, W1
<1>10. ASSUME NEW k \in DOMAIN todo
       PROVE  /\ AllAgree(T, U, Range(s.pairs), Region(T, U, todo[k]))
              /\ AllAgree(T, U, Region(T, U, todo[k]), W1)
  <2>1. CASE k = 1
    <3>1. AllAgree(T, U, Range(s.pairs), Region(T, U, t))
      BY <1>3, <1>7 DEF AllAgree
    <3> QED BY <1>8, <1>9, <2>1, <3>1
  <2>2. CASE k # 1
    <3>1. k - 1 \in DOMAIN s.todo /\ todo[k] = s.todo[k - 1]
      BY <1>9, <2>2
    <3>2. AllAgree(T, U, Range(s.pairs), Region(T, U, todo[k]))
      BY <1>3, <3>1 DEF Found
    <3>3. AllAgree(T, U, Region(T, U, todo[k]), W)
      BY <1>3, <3>1
    <3>4. AllAgree(T, U, Region(T, U, todo[k]), W1)
      BY <1>6, <3>3 DEF AllAgree
    <3> QED BY <3>2, <3>4
  <2> QED BY <2>1, <2>2
<1>11. ASSUME NEW k \in DOMAIN s.todo
       PROVE  /\ AllAgree(T, U, Region(T, U, s.todo[k]), Region(T, U, t))
              /\ AllAgree(T, U, Region(T, U, t), Region(T, U, s.todo[k]))
  <2>1. AllAgree(T, U, Region(T, U, s.todo[k]), Region(T, U, t))
    BY <1>3, <1>7 DEF AllAgree
  <2> QED BY <2>1, AgreeBack
<1>12. ASSUME NEW k \in DOMAIN todo, NEW l \in DOMAIN todo, k # l
       PROVE  AllAgree(T, U, Region(T, U, todo[k]), Region(T, U, todo[l]))
  <2>1. CASE k = 1
    <3>1. l - 1 \in DOMAIN s.todo /\ todo[l] = s.todo[l - 1]
      BY <1>9, <1>12, <2>1
    <3> QED BY <1>9, <1>11, <2>1, <3>1
  <2>2. CASE l = 1
    <3>1. k - 1 \in DOMAIN s.todo /\ todo[k] = s.todo[k - 1]
      BY <1>9, <1>12, <2>2
    <3> QED BY <1>9, <1>11, <2>2, <3>1
  <2>3. CASE k # 1 /\ l # 1
    <3>1. k - 1 \in DOMAIN s.todo /\ todo[k] = s.todo[k - 1] /\ l - 1 \in DOMAIN s.todo /\ todo[l] = s.todo[l - 1]
      BY <1>9, <2>3
    <3>2. k - 1 # l - 1
      <4>1. k \in Int /\ l \in Int
        BY <1>1, <1>9
      <4> QED BY <1>12, <4>1
    <3>3. AllAgree(T, U, Region(T, U, s.todo[k - 1]), Region(T, U, s.todo[l - 1]))
      BY <1>3, <3>1, <3>2 DEF Found
    <3> QED BY <3>1, <3>3
  <2> QED BY <2>1, <2>2, <2>3
<1>13. Found(T, U, s.pairs, todo)
  <2>1. AllAgree(T, U, Range(s.pairs), Range(s.pairs))
    BY <1>3 DEF Found
  <2> QED BY <1>1, <1>9, <1>10, <1>12, <2>1 DEF Found
<1>14. AllAgree(T, U, Range(s.pairs), W1)
  BY <1>3, <1>6 DEF AllAgree
<1>15. /\ r.pairs = s.pairs /\ r.todo = todo /\ r.row = row /\ r.col = col
       /\ r.fi = s.fi /\ r.fj = s.fj /\ r.tables = tables
  BY <1>2
<1>16. r \in [pairs : Seq(NodePairs(T, U)), todo : Seq(NodePairs(T, U)), row : Nat, col : Nat,
              fi : Nat, fj : Nat, tables : {tables}]
  BY <1>1, <1>2, <1>5, <1>9
<1>17. /\ row <= Len(T) /\ col <= Len(U)
       /\ \A k \in 1 .. row : k \in 1 .. s.row
       /\ \A k \in 1 .. col : k \in 1 .. s.col
  BY <1>1, <1>3, <1>5
<1> HIDE DEF r
<1>18. Walking(T, U, r)
  BY <1>3, <1>5, <1>10, <1>13, <1>14, <1>15, <1>17 DEF Walking, W1
<1> QED BY <1>16, <1>18 DEF Walks, r, t, row, col

\* Whatever a step of a walk does, what is found agrees with what is left.
LEMMA WalkKeeps ==
  ASSUME NEW T, NEW U, Len(T) \in Nat, Len(U) \in Nat, Nested(T), Nested(U),
         NEW tables, NEW s \in Walks(T, U, tables)
  PROVE  Walk(T, U, s) \in Walks(T, U, tables)
<1>1. /\ s.row \in Nat /\ s.col \in Nat /\ s.fi \in Nat /\ s.fj \in Nat
      /\ s.fi <= s.row /\ s.fj <= s.col
  BY WalkParts DEF Walking
<1>2. s \in [pairs : {s.pairs}, todo : {s.todo}, row : Nat, col : Nat, fi : {s.fi}, fj : {s.fj}, tables : {tables}]
  BY DEF Walks
<1> DEFINE pair == [s EXCEPT !.pairs = Append(@, <<s.row, s.col>>), !.row = @ - 1, !.col = @ - 1]
           later == [s EXCEPT !.todo = <<<<s.row, s.col>>>> \o @, !.row = LLD(T, s.row), !.col = LLD(U, s.col)]
           up == [s EXCEPT !.row = @ - 1]
           back == [s EXCEPT !.col = @ - 1]
           both == s.row > s.fi /\ s.col > s.fj
           f == s.tables.forest
           free == f[s.row - 1][s.col - 1] + MatchCost(T, U, s.row, s.col) = f[s.row][s.col]
           apart == f[LLD(T, s.row)][LLD(U, s.col)] + s.tables.tree[s.row][s.col] = f[s.row][s.col]
           gone == f[s.row - 1][s.col] + 1 = f[s.row][s.col]
           new == f[s.row][s.col - 1] + 1 = f[s.row][s.col]
<1>3. ASSUME both, BothOnPath(T, U, s) PROVE pair \in Walks(T, U, tables)
  <2>1. LLD(T, s.row) = s.fi /\ LLD(U, s.col) = s.fj /\ s.fi < s.row /\ s.fj < s.col
    BY <1>1, <1>3 DEF BothOnPath
  <2> QED BY <2>1, PairTaken
<1>4. ASSUME both PROVE later \in Walks(T, U, tables)
  <2>1. s.fi < s.row /\ s.fj < s.col
    BY <1>1, <1>4
  <2> QED BY <2>1, SubtreesLeft
<1>5. ASSUME s.row > s.fi PROVE up \in Walks(T, U, tables)
  <2>1. /\ up \in [pairs : {s.pairs}, todo : {s.todo}, row : Nat, col : Nat, fi : {s.fi}, fj : {s.fj}, tables : {tables}]
        /\ up.row = s.row - 1 /\ up.col = s.col
    BY <1>1, <1>2, <1>5
  <2> HIDE DEF up
  <2>2. s.fi <= up.row /\ up.row <= s.row /\ s.fj <= up.col /\ up.col <= s.col
    BY <1>1, <1>5, <2>1
  <2> QED BY <2>1, <2>2, LessToWalk
<1>6. ASSUME s.col > s.fj PROVE back \in Walks(T, U, tables)
  <2>1. /\ back \in [pairs : {s.pairs}, todo : {s.todo}, row : Nat, col : Nat, fi : {s.fi}, fj : {s.fj}, tables : {tables}]
        /\ back.row = s.row /\ back.col = s.col - 1
    BY <1>1, <1>2, <1>6
  <2> HIDE DEF back
  <2>2. s.fi <= back.row /\ back.row <= s.row /\ s.fj <= back.col /\ back.col <= s.col
    BY <1>1, <1>6, <2>1
  <2> QED BY <2>1, <2>2, LessToWalk
<1>7. Walk(T, U, s) = CASE s.row <= s.fi /\ s.col <= s.fj -> s
                        [] both /\ BothOnPath(T, U, s) /\ free -> pair
                        [] both /\ ~BothOnPath(T, U, s) /\ apart -> later
                        [] OTHER -> IF s.row > s.fi /\ gone THEN up
                                    ELSE IF s.col > s.fj /\ new THEN back ELSE s
  BY DEF Walk
<1> HIDE DEF pair, later, up, back, both, free, apart, gone, new, f
<1>8. ~(s.row <= s.fi /\ s.col <= s.fj /\ both)
  BY <1>1 DEF both
<1>9. \/ Walk(T, U, s) = s
      \/ both /\ BothOnPath(T, U, s) /\ Walk(T, U, s) = pair
      \/ both /\ Walk(T, U, s) = later
      \/ s.row > s.fi /\ Walk(T, U, s) = up
      \/ s.col > s.fj /\ Walk(T, U, s) = back
  BY <1>7, <1>8
<1> QED BY <1>3, <1>4, <1>5, <1>6, <1>9

\* A sequence without its first entry.
LEMMA TailIs ==
  ASSUME NEW E, NEW s \in Seq(E), s # <<>>
  PROVE  /\ Tail(s) \in Seq(E) /\ Head(s) = s[1] /\ 1 \in DOMAIN s /\ s[1] \in E
         /\ \A k \in DOMAIN Tail(s) : k + 1 \in DOMAIN s /\ k + 1 # 1 /\ Tail(s)[k] = s[k + 1]
         /\ \A k, l \in DOMAIN Tail(s) : k # l => k + 1 # l + 1
<1>1. Tail(s) \in Seq(E) /\ Head(s) = s[1] /\ Len(s) \in Nat \ {0} /\ DOMAIN s = 1 .. Len(s)
      /\ Len(Tail(s)) = Len(s) - 1
      /\ \A k \in 1 .. Len(s) - 1 : Tail(s)[k] = s[k + 1]
  OBVIOUS
<1>2. DOMAIN Tail(s) = 1 .. Len(s) - 1
  BY <1>1
<1>3. 1 \in DOMAIN s /\ s[1] \in E
  BY <1>1
<1>4. \A k \in 1 .. Len(s) - 1 : k \in Nat /\ k + 1 \in 1 .. Len(s) /\ k + 1 # 1
  BY <1>1
<1>5. \A k, l \in 1 .. Len(s) - 1 : k # l => k + 1 # l + 1
  BY <1>4
<1> QED BY <1>1, <1>2, <1>3, <1>4, <1>5

\* A walk starts as it should.
LEMMA StartIn ==
  ASSUME NEW T, NEW U, Len(T) \in Nat, Len(U) \in Nat, Nested(T), Nested(U),
         NEW s, Found(T, U, s.pairs, s.todo), s.todo # <<>>
  PROVE  /\ WalkStart(T, U, s) \in Walks(T, U, WalkStart(T, U, s).tables)
         /\ T[Head(s.todo)[1]].size + U[Head(s.todo)[2]].size \in Nat
<1> DEFINE r == WalkStart(T, U, s)
           p == Head(s.todo)
           todo == Tail(s.todo)
<1>1. /\ s.pairs \in Seq(NodePairs(T, U)) /\ s.todo \in Seq(NodePairs(T, U))
      /\ AllAgree(T, U, Range(s.pairs), Range(s.pairs))
      /\ \A k \in DOMAIN s.todo : AllAgree(T, U, Range(s.pairs), Region(T, U, s.todo[k]))
      /\ \A k, l \in DOMAIN s.todo : k # l => AllAgree(T, U, Region(T, U, s.todo[k]), Region(T, U, s.todo[l]))
  BY DEF Found
<1>2. /\ todo \in Seq(NodePairs(T, U)) /\ p = s.todo[1] /\ 1 \in DOMAIN s.todo /\ p \in NodePairs(T, U)
      /\ \A k \in DOMAIN todo : k + 1 \in DOMAIN s.todo /\ k + 1 # 1 /\ todo[k] = s.todo[k + 1]
      /\ \A k, l \in DOMAIN todo : k # l => k + 1 # l + 1
  BY <1>1, TailIs
<1>3. r = [pairs |-> s.pairs, todo |-> todo, row |-> p[1], col |-> p[2],
           fi |-> LLD(T, p[1]), fj |-> LLD(U, p[2]), tables |-> ForestDist(T, U, p[1], p[2], s.tables)]
  BY DEF WalkStart
<1> HIDE DEF r, p, todo
<1>4. /\ p[1] \in 1 .. Len(T) /\ p[2] \in 1 .. Len(U) /\ p[1] \in Nat /\ p[2] \in Nat
      /\ p[1] <= Len(T) /\ p[2] <= Len(U)
  BY <1>2 DEF NodePairs
<1>5. /\ T[p[1]].size \in Nat \ {0} /\ LLD(T, p[1]) \in Nat /\ LLD(T, p[1]) < p[1]
      /\ \A k \in 1 .. p[1] : LLD(T, p[1]) < k => LLD(T, p[1]) <= LLD(T, k)
      /\ U[p[2]].size \in Nat \ {0} /\ LLD(U, p[2]) \in Nat /\ LLD(U, p[2]) < p[2]
      /\ \A k \in 1 .. p[2] : LLD(U, p[2]) < k => LLD(U, p[2]) <= LLD(U, k)
  BY <1>4 DEF Nested
<1>6. Region(T, U, p) = Between(LLD(T, p[1]), p[1], LLD(U, p[2]), p[2])
  BY DEF Region
<1>7. Found(T, U, s.pairs, todo)
  <2>1. ASSUME NEW k \in DOMAIN todo PROVE AllAgree(T, U, Range(s.pairs), Region(T, U, todo[k]))
    BY <1>1, <1>2
  <2>2. ASSUME NEW k \in DOMAIN todo, NEW l \in DOMAIN todo, k # l
        PROVE  AllAgree(T, U, Region(T, U, todo[k]), Region(T, U, todo[l]))
    <3>1. k + 1 \in DOMAIN s.todo /\ l + 1 \in DOMAIN s.todo /\ k + 1 # l + 1
      BY <1>2, <2>2
    <3>2. AllAgree(T, U, Region(T, U, s.todo[k + 1]), Region(T, U, s.todo[l + 1]))
      BY <1>1, <3>1
    <3> QED BY <1>2, <3>2
  <2> QED BY <1>1, <1>2, <2>1, <2>2 DEF Found
<1>8. AllAgree(T, U, Range(s.pairs), Region(T, U, p))
  BY <1>1, <1>2
<1>9. ASSUME NEW k \in DOMAIN todo PROVE AllAgree(T, U, Region(T, U, todo[k]), Region(T, U, p))
  <2>1. AllAgree(T, U, Region(T, U, s.todo[k + 1]), Region(T, U, s.todo[1]))
    BY <1>1, <1>2
  <2> QED BY <1>2, <2>1
<1>10. /\ r.pairs = s.pairs /\ r.todo = todo /\ r.row = p[1] /\ r.col = p[2]
       /\ r.fi = LLD(T, p[1]) /\ r.fj = LLD(U, p[2])
  BY <1>3
<1>11. Walking(T, U, r)
  BY <1>4, <1>5, <1>6, <1>7, <1>8, <1>9, <1>10 DEF Walking
<1>12. r \in [pairs : Seq(NodePairs(T, U)), todo : Seq(NodePairs(T, U)), row : Nat, col : Nat,
              fi : Nat, fj : Nat, tables : {r.tables}]
  <2> DEFINE tb == ForestDist(T, U, p[1], p[2], s.tables)
  <2> HIDE DEF tb
  <2>1. r = [pairs |-> s.pairs, todo |-> todo, row |-> p[1], col |-> p[2],
             fi |-> LLD(T, p[1]), fj |-> LLD(U, p[2]), tables |-> tb]
    BY <1>3 DEF tb
  <2>2. r.tables = tb
    BY <2>1
  <2> QED BY <1>1, <1>2, <1>4, <1>5, <2>1, <2>2
<1>13. r \in Walks(T, U, r.tables)
  BY <1>11, <1>12 DEF Walks
<1>14. T[p[1]].size + U[p[2]].size \in Nat
  <2>1. \A x, y \in Nat : x + y \in Nat
    OBVIOUS
  <2>2. T[p[1]].size \in Nat /\ U[p[2]].size \in Nat
    BY <1>5
  <2> QED BY <2>1, <2>2
<1> QED BY <1>13, <1>14 DEF r, p

\* And so does everything a walk comes through.
LEMMA WalksOn ==
  ASSUME NEW T, NEW U, Len(T) \in Nat, Len(U) \in Nat, Nested(T), Nested(U),
         NEW tables, NEW start \in Walks(T, U, tables), NEW n \in Nat
  PROVE  FoldLeft(LAMBDA t, k : Walk(T, U, t), start, Numbers(n)) \in Walks(T, U, tables)
<1> DEFINE A == Walks(T, U, tables)
           g == [p \in A \X (1 .. n) |-> Walk(T, U, p[1])]
           ks == Numbers(n)
           Body(iter, s) == IF s = {} THEN start ELSE Walk(T, U, iter[s \ {Max(s)}])
           h == CHOOSE iter : iter = [s \in SUBSET DOMAIN ks |-> Body(iter, s)]
<1>1. g \in [A \X (1 .. n) -> A]
  <2>1. \A t \in A : Walk(T, U, t) \in A
    BY WalkKeeps
  <2> HIDE DEF A
  <2> QED BY <2>1
<1>2. FoldLeft(LAMBDA t, k : Walk(T, U, t), start, Numbers(n)) = h[DOMAIN ks]
  BY DEF FoldLeft, MapThenFoldSet
<1>3. DOMAIN ks = 1 .. n
  BY DEF Numbers
<1>4. \E iter : iter = [s \in SUBSET DOMAIN ks |-> Body(iter, s)]
  <2>0. PICK iter : Solves(iter, A, start, g, n)
    <3> HIDE DEF A, g
    <3>1. start \in A
      BY DEF A
    <3> QED BY <1>1, <3>1, FoldExists
  <2>1. /\ iter \in [SUBSET (1 .. n) -> A]
        /\ iter = [s \in SUBSET (1 .. n) |-> IF s = {} THEN start ELSE g[<<iter[s \ {Max(s)}], Max(s)>>]]
    BY <2>0 DEF Solves
  <2>2. ASSUME NEW s \in SUBSET (1 .. n), s # {}
        PROVE  g[<<iter[s \ {Max(s)}], Max(s)>>] = Body(iter, s)
    <3>1. Max(s) \in 1 .. n
      <4>1. s \in SUBSET (0 .. n)
        OBVIOUS
      <4> QED BY <2>2, <4>1, MaxIn
    <3>2. iter[s \ {Max(s)}] \in A
      BY <2>1
    <3> HIDE DEF A
    <3> QED BY <2>2, <3>1, <3>2
  <2>3. iter = [s \in SUBSET (1 .. n) |-> Body(iter, s)]
    <3> HIDE DEF g, A
    <3>1. \A s \in SUBSET (1 .. n) : (IF s = {} THEN start ELSE g[<<iter[s \ {Max(s)}], Max(s)>>]) = Body(iter, s)
      <4>1. Body(iter, {}) = start
        OBVIOUS
      <4> HIDE DEF Body
      <4> QED BY <2>2, <4>1
    <3> HIDE DEF Body
    <3> QED BY <2>1, <3>1
  <2> QED BY <1>3, <2>3
<1>5. h = [s \in SUBSET (1 .. n) |-> Body(h, s)]
  BY <1>3, <1>4
<1> HIDE DEF h
<1>6. h[{}] = start
  <2>1. {} \in SUBSET (1 .. n) /\ Body(h, {}) = start
    OBVIOUS
  <2> HIDE DEF Body
  <2> QED BY <1>5, <2>1
<1>7. ASSUME NEW k \in 1 .. n, h[1 .. k - 1] \in A PROVE h[1 .. k] = g[<<h[1 .. k - 1], k>>]
  <2>1. (1 .. k) \in SUBSET (1 .. n) /\ 1 .. k # {} /\ (1 .. k) \ {k} = 1 .. k - 1
    BY FirstNumbers
  <2>2. Max(1 .. k) = k
    BY MaxIs
  <2>3. h[1 .. k] = Body(h, 1 .. k)
    <3> HIDE DEF Body
    <3> QED BY <1>5, <2>1
  <2>4. Body(h, 1 .. k) = Walk(T, U, h[1 .. k - 1])
    BY <2>1, <2>2
  <2> HIDE DEF Body, A
  <2> QED BY <1>7, <2>3, <2>4
<1>8. Runs([k \in 0 .. n |-> h[1 .. k]], A, start, g, n)
  <2>1. start \in A
    OBVIOUS
  <2> HIDE DEF A, g
  <2> QED BY <1>1, <1>6, <1>7, <2>1, FoldRuns
<1>9. [k \in 0 .. n |-> h[1 .. k]][n] \in A
  <2> HIDE DEF A, g
  <2> QED BY <1>8 DEF Runs
<1>10. [k \in 0 .. n |-> h[1 .. k]][n] = h[1 .. n]
  OBVIOUS
<1> QED BY <1>2, <1>3, <1>9, <1>10

\* So the visit of a pair of subtrees leaves what is found and what is left in agreement.
LEMMA VisitKeeps ==
  ASSUME NEW T, NEW U, Len(T) \in Nat, Len(U) \in Nat, Nested(T), Nested(U),
         NEW s, Found(T, U, s.pairs, s.todo)
  PROVE  Found(T, U, VisitPair(T, U, s).pairs, VisitPair(T, U, s).todo)
<1>1. CASE s.todo = <<>>
  BY <1>1 DEF VisitPair
<1>2. CASE s.todo # <<>>
  <2> DEFINE n == T[Head(s.todo)[1]].size + U[Head(s.todo)[2]].size
             start == WalkStart(T, U, s)
             r == FoldLeft(LAMBDA t, k : Walk(T, U, t), start, Numbers(n))
  <2>1. start \in Walks(T, U, start.tables) /\ n \in Nat
    BY <1>2, StartIn
  <2>2. VisitPair(T, U, s) = r
    BY <1>2 DEF VisitPair
  <2>3. r \in Walks(T, U, start.tables)
    <3> HIDE DEF start, n
    <3> QED BY <2>1, WalksOn
  <2> HIDE DEF start, n, r
  <2>4. Found(T, U, r.pairs, r.todo)
    BY <2>3, WalkParts DEF Walking
  <2> QED BY <2>2, <2>4
<1> QED BY <1>1, <1>2

\* The recursion the visits of Backtrack stand for has a solution; their states hold tables,
\* of which no set is known to hold all, so that it is not one of the folds above.
VisitStep(T, U, base, h, s) == IF s = {} THEN base ELSE VisitPair(T, U, h[s \ {Max(s)}])
Visits(T, U, base, n, h) == h = [s \in SUBSET (1 .. n) |-> VisitStep(T, U, base, h, s)]
LEMMA VisitsExist ==
  ASSUME NEW T, NEW U, NEW base, NEW n \in Nat
  PROVE  \E h : Visits(T, U, base, n, h)
<1> DEFINE Good(k) == \E h : /\ h = [s \in SUBSET (1 .. n) |-> h[s]]
                             /\ \A s \in SUBSET (1 .. n) : s \subseteq 1 .. k => h[s] = VisitStep(T, U, base, h, s)
           P == {k \in Nat : k <= n => Good(k)}
<1>1. 0 \in P
  <2> DEFINE h == [s \in SUBSET (1 .. n) |-> base]
  <2>1. h = [s \in SUBSET (1 .. n) |-> h[s]]
    OBVIOUS
  <2>2. \A s \in SUBSET (1 .. n) : s \subseteq 1 .. 0 => s = {}
    OBVIOUS
  <2>3. \A s \in SUBSET (1 .. n) : s \subseteq 1 .. 0 => h[s] = VisitStep(T, U, base, h, s)
    BY <2>2 DEF VisitStep
  <2> HIDE DEF h
  <2>4. Good(0)
    BY <2>1, <2>3
  <2> HIDE DEF Good
  <2> QED BY <2>4
<1>2. ASSUME NEW k \in Nat, k \in P, k + 1 <= n PROVE Good(k + 1)
  <2>1. PICK h : /\ h = [s \in SUBSET (1 .. n) |-> h[s]]
                 /\ \A s \in SUBSET (1 .. n) : s \subseteq 1 .. k => h[s] = VisitStep(T, U, base, h, s)
    <3>1. k <= n
      BY <1>2
    <3> QED BY <1>2, <3>1
  <2> DEFINE last == k + 1
             h1 == [s \in SUBSET (1 .. n) |->
                      IF last \in s /\ s \subseteq 1 .. last THEN VisitPair(T, U, h[s \ {last}]) ELSE h[s]]
  <2>2. last \in 1 .. n
    BY <1>2
  <2>3. h1 = [s \in SUBSET (1 .. n) |-> h1[s]]
    OBVIOUS
  <2>4. ASSUME NEW s \in SUBSET (1 .. n), s \subseteq 1 .. last PROVE h1[s] = VisitStep(T, U, base, h1, s)
    <3>1. CASE last \in s
      <4>1. Max(s) = last /\ s # {}
        BY <1>2, <2>2, <2>4, <3>1, MaxIs
      <4>2. s \ {last} \in SUBSET (1 .. n) /\ last \notin s \ {last}
        OBVIOUS
      <4>3. h1[s \ {last}] = h[s \ {last}]
        BY <4>2
      <4>4. h1[s] = VisitPair(T, U, h[s \ {last}])
        BY <2>4, <3>1
      <4> QED BY <4>1, <4>3, <4>4 DEF VisitStep
    <3>2. CASE last \notin s
      <4>1. s \subseteq 1 .. k
        BY <2>4, <3>2
      <4>2. h1[s] = h[s] /\ h[s] = VisitStep(T, U, base, h, s)
        BY <2>1, <3>2, <4>1
      <4>3. CASE s = {}
        BY <4>2, <4>3 DEF VisitStep
      <4>4. CASE s # {}
        <5>1. s \ {Max(s)} \in SUBSET (1 .. n) /\ last \notin s \ {Max(s)}
          BY <3>2
        <5>2. h1[s \ {Max(s)}] = h[s \ {Max(s)}]
          BY <5>1
        <5> QED BY <4>2, <4>4, <5>2 DEF VisitStep
      <4> QED BY <4>3, <4>4
    <3> QED BY <3>1, <3>2
  <2> HIDE DEF h1
  <2> QED BY <2>3, <2>4
<1>3. \A k \in Nat : k \in P => k + 1 \in P
  <2> SUFFICES ASSUME NEW k \in Nat, k \in P PROVE k + 1 \in P
    OBVIOUS
  <2>1. k + 1 <= n => Good(k + 1)
    BY <1>2
  <2> HIDE DEF Good
  <2> QED BY <2>1
<1>4. n \in P
  <2> HIDE DEF P
  <2> QED BY <1>1, <1>3, NatSet
<1>5. Good(n)
  <2> HIDE DEF Good
  <2> QED BY <1>4
<1>6. PICK h : /\ h = [s \in SUBSET (1 .. n) |-> h[s]]
               /\ \A s \in SUBSET (1 .. n) : s \subseteq 1 .. n => h[s] = VisitStep(T, U, base, h, s)
  BY <1>5
<1>7. \A s \in SUBSET (1 .. n) : h[s] = VisitStep(T, U, base, h, s)
  <2>1. \A s \in SUBSET (1 .. n) : s \subseteq 1 .. n
    OBVIOUS
  <2> QED BY <1>6, <2>1
<1>8. h = [s \in SUBSET (1 .. n) |-> VisitStep(T, U, base, h, s)]
  BY <1>6, <1>7
<1> QED BY <1>8 DEF Visits

\* Whatever the tables hold, the pairs the walk back finds agree.
LEMMA BacktrackAgrees ==
  ASSUME NEW T, NEW U, NEW tables, Len(T) \in Nat \ {0}, Len(U) \in Nat \ {0}, Nested(T), Nested(U)
  PROVE  LET found == Backtrack(T, U, tables)
         IN found \in Seq(NodePairs(T, U)) /\ AllAgree(T, U, Range(found), Range(found))
<1> DEFINE n == Len(T) + Len(U)
           base == [pairs |-> <<>>, todo |-> <<<<Len(T), Len(U)>>>>, tables |-> tables]
           ks == Numbers(n)
           Body(iter, s) == IF s = {} THEN base ELSE VisitPair(T, U, iter[s \ {Max(s)}])
           h == CHOOSE iter : iter = [s \in SUBSET DOMAIN ks |-> Body(iter, s)]
           P == {k \in Nat : k <= n => Found(T, U, h[1 .. k].pairs, h[1 .. k].todo)}
<1>1. n \in Nat
  OBVIOUS
<1>2. Backtrack(T, U, tables) = h[DOMAIN ks].pairs
  BY DEF Backtrack, FoldLeft, MapThenFoldSet
<1>3. DOMAIN ks = 1 .. n
  BY DEF Numbers
<1>4. \E iter : iter = [s \in SUBSET DOMAIN ks |-> Body(iter, s)]
  <2> HIDE DEF n, base
  <2>1. PICK iter : Visits(T, U, base, n, iter)
    BY <1>1, VisitsExist
  <2> QED BY <1>3, <2>1 DEF Visits, VisitStep
<1>5. h = [s \in SUBSET (1 .. n) |-> Body(h, s)]
  <2> HIDE DEF n, base, Body, ks
  <2> QED BY <1>3, <1>4
<1> HIDE DEF h, n
<1>6. h[{}] = base
  <2>1. {} \in SUBSET (1 .. n) /\ Body(h, {}) = base
    OBVIOUS
  <2> HIDE DEF Body
  <2> QED BY <1>5, <2>1
<1>7. ASSUME NEW k \in 1 .. n PROVE h[1 .. k] = VisitPair(T, U, h[1 .. k - 1])
  <2>1. (1 .. k) \in SUBSET (1 .. n) /\ 1 .. k # {} /\ (1 .. k) \ {k} = 1 .. k - 1
    BY <1>1, FirstNumbers
  <2>2. Max(1 .. k) = k
    BY MaxIs
  <2>3. h[1 .. k] = Body(h, 1 .. k)
    <3> HIDE DEF Body
    <3> QED BY <1>5, <2>1
  <2>4. Body(h, 1 .. k) = VisitPair(T, U, h[1 .. k - 1])
    BY <2>1, <2>2
  <2> HIDE DEF Body
  <2> QED BY <2>3, <2>4
<1>8. 0 \in P
  <2> DEFINE todo == <<<<Len(T), Len(U)>>>>
             none == <<>>
  <2>1. /\ todo \in Seq(NodePairs(T, U)) /\ DOMAIN todo = {1} /\ none \in Seq(NodePairs(T, U))
        /\ Range(none) = {}
    <3> DEFINE e == <<Len(T), Len(U)>>
    <3>1. e \in NodePairs(T, U)
      BY DEF NodePairs
    <3> HIDE DEF e
    <3>2. <<e>> \in Seq(NodePairs(T, U)) /\ DOMAIN <<e>> = {1}
      BY <3>1
    <3> QED BY <3>2 DEF e, Range
  <2> HIDE DEF todo, none
  <2>2. Found(T, U, none, todo)
    BY <2>1 DEF Found, AllAgree
  <2>3. 1 .. 0 = {} /\ base.pairs = none /\ base.todo = todo
    BY DEF none, todo
  <2> HIDE DEF base
  <2>4. Found(T, U, h[1 .. 0].pairs, h[1 .. 0].todo)
    BY <1>6, <2>2, <2>3
  <2> QED BY <2>4
<1>9. ASSUME NEW k \in Nat, k \in P PROVE k + 1 \in P
  <2> SUFFICES ASSUME k + 1 <= n PROVE Found(T, U, h[1 .. k + 1].pairs, h[1 .. k + 1].todo)
    OBVIOUS
  <2>1. k <= n /\ k + 1 \in 1 .. n /\ (k + 1) - 1 = k
    BY <1>1
  <2>2. Found(T, U, h[1 .. k].pairs, h[1 .. k].todo)
    BY <1>9, <2>1
  <2>3. h[1 .. k + 1] = VisitPair(T, U, h[1 .. k])
    <3>1. h[1 .. k + 1] = VisitPair(T, U, h[1 .. (k + 1) - 1])
      BY <1>7, <2>1
    <3> QED BY <2>1, <3>1
  <2> DEFINE s == h[1 .. k]
  <2> HIDE DEF s
  <2>4. Found(T, U, VisitPair(T, U, s).pairs, VisitPair(T, U, s).todo)
    BY <2>2, VisitKeeps DEF s
  <2> QED BY <2>3, <2>4 DEF s
<1>10. n \in P
  <2> HIDE DEF P
  <2> QED BY <1>1, <1>8, <1>9, NatSet
<1>11. Found(T, U, h[1 .. n].pairs, h[1 .. n].todo)
  BY <1>1, <1>10
<1> QED BY <1>2, <1>3, <1>11 DEF Found

\* The pairs the other way round.
LEMMA ReverseIn ==
  ASSUME NEW E, NEW s \in Seq(E)
  PROVE  Reverse(s) \in Seq(E) /\ Range(Reverse(s)) \subseteq Range(s)
<1>1. Reverse(s) = [i \in 1 .. Len(s) |-> s[(Len(s) - i) + 1]]
  BY DEF Reverse
<1>2. Len(s) \in Nat /\ DOMAIN s = 1 .. Len(s) /\ \A i \in 1 .. Len(s) : (Len(s) - i) + 1 \in 1 .. Len(s)
  OBVIOUS
<1>3. \A i \in 1 .. Len(s) : s[(Len(s) - i) + 1] \in E /\ s[(Len(s) - i) + 1] \in Range(s)
  BY <1>2 DEF Range
<1>4. Reverse(s) \in [1 .. Len(s) -> E]
  BY <1>1, <1>3
<1>5. Reverse(s) \in Seq(E)
  BY <1>2, <1>4
<1>6. Range(Reverse(s)) \subseteq Range(s)
  <2> SUFFICES ASSUME NEW x \in Range(Reverse(s)) PROVE x \in Range(s)
    OBVIOUS
  <2>1. PICK i \in 1 .. Len(s) : x = Reverse(s)[i]
    BY <1>1 DEF Range
  <2>2. x = s[(Len(s) - i) + 1]
    BY <1>1, <2>1
  <2> QED BY <1>3, <2>2
<1> QED BY <1>5, <1>6

\* What is proposed of two trees in post-order.
LEMMA PairsAgree ==
  ASSUME NEW T, NEW U, Len(T) \in Nat \ {0}, Len(U) \in Nat \ {0}, Nested(T), Nested(U)
  PROVE  ZSPairs(T, U) \in Seq(NodePairs(T, U)) /\ AllAgree(T, U, Range(ZSPairs(T, U)), Range(ZSPairs(T, U)))
<1> DEFINE walked == Backtrack(T, U, Distances(T, U))
           found == Reverse(walked)
           I == {k \in DOMAIN found : T[found[k][1]].kind = U[found[k][2]].kind}
           E == NodePairs(T, U)
<1>1. walked \in Seq(E) /\ AllAgree(T, U, Range(walked), Range(walked))
  BY BacktrackAgrees
<1>2. ZSPairs(T, U) = Chosen(found, I)
  BY DEF ZSPairs
<1> HIDE DEF walked, E
<1>3. found \in Seq(E) /\ Range(found) \subseteq Range(walked)
  BY <1>1, ReverseIn
<1> HIDE DEF found, I
<1>4. Chosen(found, I) \in Seq({found[k] : k \in I \cap DOMAIN found}) /\ Chosen(found, I) \in Seq(E)
  BY <1>3, ChosenIn
<1>5. Range(Chosen(found, I)) \subseteq Range(found)
  <2>1. Range(Chosen(found, I)) \subseteq {found[k] : k \in I \cap DOMAIN found}
    <3> DEFINE F == {found[k] : k \in I \cap DOMAIN found}
    <3> HIDE DEF F
    <3>1. Chosen(found, I) \in Seq(F)
      BY <1>4 DEF F
    <3> QED BY <3>1, SeqRange DEF F
  <2> QED BY <2>1 DEF Range
<1> QED BY <1>1, <1>2, <1>3, <1>4, <1>5 DEF AllAgree, E

\* What recovery proposes for two subtrees is an edit of one into the other.
IsAnEdit(s, d, found) ==
  \A p, q \in Range(found) :
    /\ p[1] \in Subtree(S, s) /\ p[2] \in Subtree(D, d)
    /\ p[1] = q[1] <=> p[2] = q[2]
    /\ p[1] < q[1] <=> p[2] < q[2]
    /\ Encloses(S, p[1], q[1]) <=> Encloses(D, p[2], q[2])
LEMMA ProposedIsAnEdit ==
  ASSUME WellFormed(S), WellFormed(D), NEW s \in DOMAIN S, NEW d \in DOMAIN D
  PROVE  IsAnEdit(s, d, Proposed(s, d))
<1> DEFINE T == InPostOrder(S, s)
           U == InPostOrder(D, d)
           o == PostOrder(S, s)
           u == PostOrder(D, d)
           found == ZSPairs(T, U)
           n == S[s].size
           m == D[d].size
<1>1. /\ Len(T) = n /\ n \in Nat \ {0} /\ Nested(T)
      /\ \A i \in 1 .. n : o[i] \in Subtree(S, s)
      /\ \A i, j \in 1 .. n :
           /\ o[i] = o[j] <=> i = j
           /\ Under(T, i, j) <=> Encloses(S, o[i], o[j])
           /\ o[i] < o[j] <=> Under(T, i, j) \/ (i < j /\ ~Under(T, j, i))
  BY InPostOrderNests
<1>2. /\ Len(U) = m /\ m \in Nat \ {0} /\ Nested(U)
      /\ \A i \in 1 .. m : u[i] \in Subtree(D, d)
      /\ \A i, j \in 1 .. m :
           /\ u[i] = u[j] <=> i = j
           /\ Under(U, i, j) <=> Encloses(D, u[i], u[j])
           /\ u[i] < u[j] <=> Under(U, i, j) \/ (i < j /\ ~Under(U, j, i))
  BY InPostOrderNests
<1>3. found \in Seq(NodePairs(T, U)) /\ AllAgree(T, U, Range(found), Range(found))
  <2> HIDE DEF T, U, n, m
  <2> QED BY <1>1, <1>2, PairsAgree
<1>4. Proposed(s, d) = [k \in DOMAIN found |-> <<o[found[k][1]], u[found[k][2]]>>]
  BY DEF Proposed, NodesOf
<1> HIDE DEF T, U, o, u, found, n, m
<1>5. ASSUME NEW p \in Range(Proposed(s, d))
      PROVE  \E f \in Range(found) : p = <<o[f[1]], u[f[2]]>> /\ f[1] \in 1 .. n /\ f[2] \in 1 .. m
  <2>1. PICK k \in DOMAIN found : p = <<o[found[k][1]], u[found[k][2]]>>
    BY <1>4 DEF Range
  <2>2. found[k] \in NodePairs(T, U) /\ found[k] \in Range(found)
    BY <1>3 DEF Range
  <2> QED BY <1>1, <1>2, <2>1, <2>2 DEF NodePairs
<1> SUFFICES ASSUME NEW p \in Range(Proposed(s, d)), NEW q \in Range(Proposed(s, d))
             PROVE  /\ p[1] \in Subtree(S, s) /\ p[2] \in Subtree(D, d)
                    /\ p[1] = q[1] <=> p[2] = q[2]
                    /\ p[1] < q[1] <=> p[2] < q[2]
                    /\ Encloses(S, p[1], q[1]) <=> Encloses(D, p[2], q[2])
  BY DEF IsAnEdit
<1>6. PICK f \in Range(found) : p = <<o[f[1]], u[f[2]]>> /\ f[1] \in 1 .. n /\ f[2] \in 1 .. m
  BY <1>5
<1>7. PICK g \in Range(found) : q = <<o[g[1]], u[g[2]]>> /\ g[1] \in 1 .. n /\ g[2] \in 1 .. m
  BY <1>5
<1>8. Agree(T, U, f, g)
  BY <1>3 DEF AllAgree
<1>9. p[1] = o[f[1]] /\ p[2] = u[f[2]] /\ q[1] = o[g[1]] /\ q[2] = u[g[2]]
  BY <1>6, <1>7
<1>10. o[f[1]] \in Subtree(S, s) /\ u[f[2]] \in Subtree(D, d)
  BY <1>1, <1>2, <1>6
<1>11. o[f[1]] = o[g[1]] <=> u[f[2]] = u[g[2]]
  BY <1>1, <1>2, <1>6, <1>7, <1>8 DEF Agree
<1>12. Encloses(S, o[f[1]], o[g[1]]) <=> Encloses(D, u[f[2]], u[g[2]])
  BY <1>1, <1>2, <1>6, <1>7, <1>8 DEF Agree
<1>13. o[f[1]] < o[g[1]] <=> u[f[2]] < u[g[2]]
  BY <1>1, <1>2, <1>6, <1>7, <1>8 DEF Agree
<1> QED BY <1>9, <1>10, <1>11, <1>12, <1>13

\* What recovery has proposed so far is a sequence, of edits.
Recovered ==
  /\ input \in Inputs
  /\ recovered \in Seq(Range(recovered))
  /\ RecoveryIsAnEdit

LEMMA RecoverKeeps ==
  ASSUME Recovered, NEW s \in DOMAIN S, NEW d \in DOMAIN D, Recover(s, d)
  PROVE  Recovered'
<1> DEFINE r == <<s, d, Proposed(s, d)>>
           E == Range(recovered) \cup {r}
<1>1. input' = input /\ S' = S /\ D' = D /\ recovered' = Append(recovered, r)
  BY DEF Recover, S, D
<1>2. WellFormed(S) /\ WellFormed(D)
  BY InputTrees DEF Recovered
<1>3. IsAnEdit(s, d, Proposed(s, d))
  BY <1>2, ProposedIsAnEdit
<1>4. r[1] = s /\ r[2] = d /\ r[3] = Proposed(s, d)
  OBVIOUS
<1> HIDE DEF r
<1>5. recovered \in Seq(E) /\ r \in E
  <2>1. recovered \in Seq(Range(recovered))
    BY DEF Recovered
  <2>2. Len(recovered) \in Nat /\ recovered \in [1 .. Len(recovered) -> Range(recovered)]
    BY <2>1
  <2>3. recovered \in [1 .. Len(recovered) -> E]
    BY <2>2
  <2> HIDE DEF E
  <2>4. recovered \in Seq(E)
    BY <2>2, <2>3
  <2> QED BY <2>4 DEF E
<1> HIDE DEF E
<1>6. Range(Append(recovered, r)) = Range(recovered) \cup {r} /\ Append(recovered, r) \in Seq(E)
  BY <1>5, RangeAppend
<1>7. Append(recovered, r) \in Seq(Range(Append(recovered, r)))
  BY <1>6, SeqRange
<1>8. ASSUME NEW x \in Range(recovered) \cup {r} PROVE IsAnEdit(x[1], x[2], x[3])
  <2>1. CASE x = r
    BY <1>3, <1>4, <2>1
  <2>2. CASE x \in Range(recovered)
    BY <2>2 DEF Recovered, RecoveryIsAnEdit, IsAnEdit
  <2> QED BY <2>1, <2>2
<1>9. RecoveryIsAnEdit'
  <2>1. \A x \in Range(recovered') : IsAnEdit(x[1], x[2], x[3])
    BY <1>1, <1>6, <1>8
  <2> QED BY <1>1, <2>1 DEF RecoveryIsAnEdit, IsAnEdit
<1>10. input' \in Inputs /\ recovered' \in Seq(Range(recovered'))
  BY <1>1, <1>7 DEF Recovered
<1> QED BY <1>9, <1>10 DEF Recovered

\* What the edit distance proposes inside two containers is an edit, for all well-formed trees
\* and whatever the refilled tables hold (zs.go, zsBacktrack): one to one, in order, and the
\* same nodes inside one another on both sides.
THEOREM TopDownRecoveryIsAnEdit == Spec => []RecoveryIsAnEdit
<1>1. Init => Recovered
  <2> SUFFICES ASSUME Init PROVE Recovered
    OBVIOUS
  <2>1. input \in Inputs /\ recovered = <<>>
    BY DEF Init
  <2>2. Range(recovered) = {}
    BY <2>1 DEF Range
  <2>3. recovered \in Seq(Range(recovered))
    <3>1. <<>> \in Seq({})
      OBVIOUS
    <3> QED BY <2>1, <2>2, <3>1
  <2> QED BY <2>1, <2>2, <2>3 DEF Recovered, RecoveryIsAnEdit
<1>2. Recovered /\ [Next]_vars => Recovered'
  <2> SUFFICES ASSUME Recovered, [Next]_vars PROVE Recovered'
    OBVIOUS
  <2>1. CASE \E s \in DOMAIN S, d \in DOMAIN D : Recover(s, d)
    BY <2>1, RecoverKeeps
  <2>2. CASE input' = input /\ recovered' = recovered
    <3>1. S' = S /\ D' = D
      BY <2>2 DEF S, D
    <3> QED BY <2>2, <3>1 DEF Recovered, RecoveryIsAnEdit
  <2>3. CASE (\E side \in 1 .. 2 : OpenHigher(side)) \/ MatchLevel \/ Rank \/ TakeBest \/ Matched \/ UNCHANGED vars
    <3>1. input' = input /\ recovered' = recovered
      BY <2>3 DEF OpenHigher, MatchLevel, Rank, TakeBest, Matched, vars
    <3> QED BY <2>2, <3>1
  <2> QED BY <2>1, <2>3 DEF Next
<1>3. Recovered => RecoveryIsAnEdit
  BY DEF Recovered
<1> QED BY <1>1, <1>2, <1>3, PTL DEF Spec

=============================================================================
