--------------------------- MODULE FileDiffProofs ---------------------------
(***************************************************************************)
(* Proofs about the line diff of a run of FileDiff and what the matching   *)
(* makes of it, for all files that InputsAssumption and ParseAssumption    *)
(* admit.                                                                  *)
(*                                                                         *)
(* The line diff is a tower of folds: trimming, the table of a window, the *)
(* patience piles, the compaction of each side.  The library's folds are   *)
(* recursive functions that no lemma can take the step of as a parameter;  *)
(* so Runs says that a function v runs through the values of a fold, one   *)
(* lemma per fold shows that it does, and RunsStay carries an invariant of *)
(* the steps to the end.                                                   *)
(*                                                                         *)
(* Two facts come out of it.  The alignment pairs lines of the same text   *)
(* and goes forward on both sides (AlignedIn, in the words of Within);     *)
(* from it follows that the compaction keeps the text and that the         *)
(* partition of the lines is the same seen from either side.               *)
(***************************************************************************)
EXTENDS FileDiff, FiniteSetTheorems, TLAPS

-----------------------------------------------------------------------------
\* Folds.  What a step preserves, the end of a fold has; for Chosen first.

\* Induction over the numbers, for a set.
LEMMA NatSet ==
  ASSUME NEW P, 0 \in P, \A n \in Nat : n \in P => n + 1 \in P
  PROVE  Nat \subseteq P
<1> SUFFICES ASSUME NEW m \in Nat, m \notin P PROVE FALSE
  OBVIOUS
<1> DEFINE I == {i \in 0 .. m : i \notin P}
           f == [i \in I |-> i - 1]
<1>1. IsFiniteSet(I) /\ m \in I
  <2>1. IsFiniteSet(0 .. m)
    <3>1. 0 \in Int /\ m \in Int
      OBVIOUS
    <3> QED BY <3>1, FS_Interval
  <2> QED BY <2>1, FS_Subset
<1>2. \A i \in I : i - 1 \in I
  OBVIOUS
<1>3. f \in Injection(I, I)
  BY <1>2 DEF Injection, IsInjective
<1>4. f \in Surjection(I, I)
  <2> HIDE DEF I, f
  <2> QED BY <1>1, <1>3, FS_Injection
<1>5. \E i \in I : f[i] = m
  BY <1>1, <1>4 DEF Surjection
<1> QED BY <1>5

\* v runs through the values of a fold of n steps, step by step by g.
Runs(v, A, base, g, n) ==
  /\ v \in [0 .. n -> A]
  /\ v[0] = base
  /\ \A k \in 1 .. n : v[k] = g[<<v[k - 1], k>>]

\* The first k numbers.
LEMMA FirstNumbers ==
  ASSUME NEW n \in Nat, NEW k \in 1 .. n
  PROVE  (1 .. k) \in SUBSET (1 .. n) /\ 1 .. k # {} /\ (1 .. k) \ {k} = 1 .. k - 1
<1>1. (1 .. k) \in SUBSET (1 .. n)
  OBVIOUS
<1>2. k \in 1 .. k
  OBVIOUS
<1>3. \A i : i \in (1 .. k) \ {k} <=> i \in 1 .. k - 1
  OBVIOUS
<1> QED BY <1>1, <1>2, <1>3

\* The largest number of a set whose last place is k.
LEMMA MaxIs ==
  ASSUME NEW k \in Nat, NEW s \in SUBSET (1 .. k), k \in s
  PROVE  Max(s) = k
<1>1. \A y \in s : k >= y /\ y \in Int
  OBVIOUS
<1>2. \A x \in s : (\A y \in s : x >= y) => x = k
  BY <1>1
<1>3. Max(s) = CHOOSE x \in s : \A y \in s : x >= y
  BY DEF Max
<1> QED BY <1>1, <1>2, <1>3

\* A set of numbers up to n has a largest.
LEMMA MaxIn ==
  ASSUME NEW n \in Nat, NEW s \in SUBSET (0 .. n), s # {}
  PROVE  Max(s) \in s
<1> DEFINE P == {k \in Nat : \A t \in SUBSET (0 .. k) : t # {} => \E x \in t : \A y \in t : x >= y}
<1>1. 0 \in P
  <2>1. ASSUME NEW t \in SUBSET (0 .. 0), t # {} PROVE \E x \in t : \A y \in t : x >= y
    <3>1. \A y \in t : y = 0
      OBVIOUS
    <3>2. 0 \in t
      BY <2>1, <3>1
    <3> QED BY <3>1, <3>2
  <2> QED BY <2>1
<1>2. ASSUME NEW k \in Nat, k \in P PROVE k + 1 \in P
  <2> SUFFICES ASSUME NEW t \in SUBSET (0 .. k + 1), t # {} PROVE \E x \in t : \A y \in t : x >= y
    OBVIOUS
  <2>1. CASE k + 1 \in t
    BY <2>1
  <2>2. CASE k + 1 \notin t
    <3>1. t \in SUBSET (0 .. k)
      BY <2>2
    <3> QED BY <1>2, <3>1
  <2> QED BY <2>1, <2>2
<1>3. n \in P
  <2> HIDE DEF P
  <2> QED BY <1>1, <1>2, NatSet
<1>4. \E x \in s : \A y \in s : x >= y
  BY <1>3
<1> QED BY <1>4 DEF Max

\* A solution h of the recursion in MapThenFoldSet.
Solves(h, A, base, g, n) ==
  /\ h \in [SUBSET (1 .. n) -> A]
  /\ h = [s \in SUBSET (1 .. n) |-> IF s = {} THEN base ELSE g[<<h[s \ {Max(s)}], Max(s)>>]]

\* The recursion has a solution.
LEMMA FoldExists ==
  ASSUME NEW A, NEW base \in A, NEW n \in Nat, NEW g \in [A \X (1 .. n) -> A]
  PROVE  \E h : Solves(h, A, base, g, n)
<1> DEFINE Step(h, s) == IF s = {} THEN base ELSE g[<<h[s \ {Max(s)}], Max(s)>>]
           Good(k) == \E h \in [SUBSET (1 .. n) -> A] :
                        \A s \in SUBSET (1 .. n) : s \subseteq 1 .. k => h[s] = Step(h, s)
           P == {k \in Nat : k <= n => Good(k)}
<1>1. 0 \in P
  <2>1. [s \in SUBSET (1 .. n) |-> base] \in [SUBSET (1 .. n) -> A]
    OBVIOUS
  <2>2. \A s \in SUBSET (1 .. n) : s \subseteq 1 .. 0 => s = {}
    OBVIOUS
  <2>3. Good(0)
    BY <2>1, <2>2
  <2> QED BY <2>3
<1>2. ASSUME NEW k \in Nat, k \in P, k + 1 <= n PROVE Good(k + 1)
  <2>1. PICK h \in [SUBSET (1 .. n) -> A] :
          \A s \in SUBSET (1 .. n) : s \subseteq 1 .. k => h[s] = Step(h, s)
    <3>1. k <= n
      BY <1>2
    <3> HIDE DEF Step
    <3> QED BY <1>2, <3>1
  <2> DEFINE last == k + 1
             h1 == [s \in SUBSET (1 .. n) |->
                      IF last \in s /\ s \subseteq 1 .. last THEN g[<<h[s \ {last}], last>>] ELSE h[s]]
  <2>2. last \in 1 .. n
    BY <1>2
  <2>3. h1 \in [SUBSET (1 .. n) -> A]
    <3>1. ASSUME NEW s \in SUBSET (1 .. n) PROVE g[<<h[s \ {last}], last>>] \in A
      <4>1. s \ {last} \in SUBSET (1 .. n)
        OBVIOUS
      <4>2. h[s \ {last}] \in A
        BY <4>1
      <4> QED BY <2>2, <4>2
    <3> QED BY <3>1
  <2>4. ASSUME NEW s \in SUBSET (1 .. n), s \subseteq 1 .. last PROVE h1[s] = Step(h1, s)
    <3>1. CASE last \in s
      <4>1. Max(s) = last /\ s # {}
        BY <1>2, <2>2, <2>4, <3>1, MaxIs
      <4>2. s \ {last} \in SUBSET (1 .. n) /\ last \notin s \ {last}
        OBVIOUS
      <4>3. h1[s \ {last}] = h[s \ {last}]
        BY <4>2
      <4>4. h1[s] = g[<<h[s \ {last}], last>>]
        BY <2>4, <3>1
      <4> QED BY <4>1, <4>3, <4>4
    <3>2. CASE last \notin s
      <4>1. s \subseteq 1 .. k
        BY <2>4, <3>2
      <4>2. h1[s] = h[s] /\ h[s] = Step(h, s)
        BY <2>1, <3>2, <4>1
      <4>3. CASE s = {}
        BY <4>2, <4>3
      <4>4. CASE s # {}
        <5>1. s \ {Max(s)} \in SUBSET (1 .. n) /\ last \notin s \ {Max(s)}
          BY <3>2
        <5>2. h1[s \ {Max(s)}] = h[s \ {Max(s)}]
          BY <5>1
        <5> QED BY <4>2, <4>4, <5>2
      <4> QED BY <4>3, <4>4
    <3> QED BY <3>1, <3>2
  <2> HIDE DEF h1, Step
  <2> QED BY <2>3, <2>4
<1>3. \A k \in Nat : k \in P => k + 1 \in P
  <2> SUFFICES ASSUME NEW k \in Nat, k \in P PROVE k + 1 \in P
    OBVIOUS
  <2>1. k + 1 <= n => Good(k + 1)
    BY <1>2
  <2> HIDE DEF Good
  <2> QED BY <2>1
<1>4. n \in P
  <2> HIDE DEF P
  <2> QED BY <1>1, <1>3, NatSet
<1>5. PICK h \in [SUBSET (1 .. n) -> A] : \A s \in SUBSET (1 .. n) : h[s] = Step(h, s)
  <2>1. Good(n)
    <3> HIDE DEF Good
    <3> QED BY <1>4
  <2>2. \A s \in SUBSET (1 .. n) : s \subseteq 1 .. n
    OBVIOUS
  <2> HIDE DEF Step
  <2> QED BY <2>1, <2>2
<1>6. h = [s \in SUBSET (1 .. n) |-> Step(h, s)]
  <2> HIDE DEF Step
  <2> QED BY <1>5
<1> QED BY <1>6 DEF Solves

\* Any solution runs through the same values on the beginnings of the sequence.
LEMMA FoldRuns ==
  ASSUME NEW A, NEW base \in A, NEW n \in Nat, NEW g \in [A \X (1 .. n) -> A], NEW h,
         h[{}] = base,
         \A k \in 1 .. n : h[1 .. k - 1] \in A => h[1 .. k] = g[<<h[1 .. k - 1], k>>]
  PROVE  Runs([k \in 0 .. n |-> h[1 .. k]], A, base, g, n)
<1> DEFINE P == {k \in Nat : k <= n => h[1 .. k] \in A}
<1>1. 0 \in P
  <2>1. 1 .. 0 = {}
    OBVIOUS
  <2> QED BY <2>1
<1>2. ASSUME NEW k \in Nat, k \in P PROVE k + 1 \in P
  <2> SUFFICES ASSUME k + 1 <= n PROVE h[1 .. k + 1] \in A
    OBVIOUS
  <2>1. h[1 .. k] \in A /\ k + 1 \in 1 .. n /\ (k + 1) - 1 = k
    BY <1>2
  <2>2. h[1 .. k + 1] = g[<<h[1 .. k], k + 1>>]
    BY <2>1
  <2> QED BY <2>1, <2>2
<1>3. Nat \subseteq P
  <2> HIDE DEF P
  <2> QED BY <1>1, <1>2, NatSet
<1>4. \A k \in 0 .. n : h[1 .. k] \in A
  BY <1>3
<1>5. 1 .. 0 = {}
  OBVIOUS
<1>6. \A k \in 1 .. n : k - 1 \in 0 .. n /\ k \in 0 .. n
  OBVIOUS
<1> QED BY <1>4, <1>5, <1>6 DEF Runs

\* A step of Chosen, from the value before and the number of the step.
ChosenStep(seq, I, p) == IF p[2] \in I THEN Append(p[1], seq[p[2]]) ELSE p[1]
\* The steps as a function, for Runs.
ChosenSteps(E, seq, I) == [p \in Seq(E) \X (1 .. Len(seq)) |-> ChosenStep(seq, I, p)]

\* The entries chosen so far: what a fold stands for is the same recursion every time,
\* but no lemma can take its step as a parameter.
LEMMA ChosenRuns ==
  ASSUME NEW E, NEW seq \in Seq(E), NEW I
  PROVE  \E v : /\ Runs(v, Seq(E), <<>>, ChosenSteps(E, seq, I), Len(seq))
               /\ Chosen(seq, I) = v[Len(seq)]
<1> DEFINE n == Len(seq)
           A == Seq(E)
           g == [p \in Seq(E) \X (1 .. n) |-> ChosenStep(seq, I, p)]
           ks == Numbers(n)
           h == CHOOSE iter : iter = [s \in SUBSET DOMAIN ks |->
                               IF s = {} THEN <<>>
                               ELSE IF ks[Max(s)] \in I THEN Append(iter[s \ {Max(s)}], seq[ks[Max(s)]]) ELSE iter[s \ {Max(s)}]]
<1>1. n \in Nat /\ <<>> \in A /\ g \in [A \X (1 .. n) -> A]
  BY DEF ChosenStep
<1>2. Chosen(seq, I) = h[DOMAIN ks]
  BY DEF Chosen, FoldLeft, MapThenFoldSet
<1>3. DOMAIN ks = 1 .. n /\ \A k \in 1 .. n : ks[k] = k
  BY DEF Numbers
<1> DEFINE Unfolded(iter, s) ==
             IF s = {} THEN <<>>
             ELSE IF ks[Max(s)] \in I THEN Append(iter[s \ {Max(s)}], seq[ks[Max(s)]]) ELSE iter[s \ {Max(s)}]
<1>4. \E iter : iter = [s \in SUBSET DOMAIN ks |-> Unfolded(iter, s)]
  <2>0. PICK iter : Solves(iter, A, <<>>, g, n)
    <3> HIDE DEF A, g, n
    <3> QED BY <1>1, FoldExists
  <2>1. /\ iter \in [SUBSET (1 .. n) -> A]
        /\ iter = [s \in SUBSET (1 .. n) |-> IF s = {} THEN <<>> ELSE g[<<iter[s \ {Max(s)}], Max(s)>>]]
    BY <2>0 DEF Solves
  <2>2. ASSUME NEW s \in SUBSET (1 .. n), s # {}
        PROVE  g[<<iter[s \ {Max(s)}], Max(s)>>] = Unfolded(iter, s)
    <3>1. Max(s) \in 1 .. n
      <4>1. s \in SUBSET (0 .. n)
        OBVIOUS
      <4> QED BY <1>1, <2>2, <4>1, MaxIn
    <3>2. iter[s \ {Max(s)}] \in A
      BY <2>1
    <3> QED BY <1>3, <2>2, <3>1, <3>2 DEF ChosenStep
  <2>3. iter = [s \in SUBSET (1 .. n) |-> Unfolded(iter, s)]
    <3> HIDE DEF g, A
    <3>1. \A s \in SUBSET (1 .. n) : (IF s = {} THEN <<>> ELSE g[<<iter[s \ {Max(s)}], Max(s)>>]) = Unfolded(iter, s)
      <4>1. Unfolded(iter, {}) = <<>>
        OBVIOUS
      <4> HIDE DEF Unfolded
      <4> QED BY <2>2, <4>1
    <3> HIDE DEF Unfolded
    <3> QED BY <2>1, <3>1
  <2> QED BY <1>3, <2>3, ZenonT(40)
<1>5. h = [s \in SUBSET (1 .. n) |-> Unfolded(h, s)]
  BY <1>3, <1>4
<1> HIDE DEF h
<1>6. h[{}] = <<>>
  <2>1. {} \in SUBSET (1 .. n) /\ Unfolded(h, {}) = <<>>
    OBVIOUS
  <2> HIDE DEF Unfolded
  <2> QED BY <1>5, <2>1
<1>7. ASSUME NEW k \in 1 .. n, h[1 .. k - 1] \in A PROVE h[1 .. k] = g[<<h[1 .. k - 1], k>>]
  <2>1. (1 .. k) \in SUBSET (1 .. n) /\ 1 .. k # {} /\ (1 .. k) \ {k} = 1 .. k - 1
    BY <1>1, FirstNumbers
  <2>2. Max(1 .. k) = k
    BY MaxIs
  <2>3. h[1 .. k] = Unfolded(h, 1 .. k)
    <3> HIDE DEF Unfolded
    <3> QED BY <1>5, <2>1
  <2>4. Unfolded(h, 1 .. k) = ChosenStep(seq, I, <<h[1 .. k - 1], k>>)
    BY <1>3, <2>1, <2>2 DEF ChosenStep
  <2> HIDE DEF Unfolded
  <2> QED BY <1>7, <2>3, <2>4
<1>8. Runs([k \in 0 .. n |-> h[1 .. k]], A, <<>>, g, n)
  <2> HIDE DEF A, g, n
  <2> QED BY <1>1, <1>6, <1>7, FoldRuns
<1>9. Chosen(seq, I) = [k \in 0 .. n |-> h[1 .. k]][n]
  BY <1>1, <1>2, <1>3
<1> QED BY <1>8, <1>9 DEF ChosenSteps

\* What every step of a fold preserves holds at its end.
LEMMA RunsStay ==
  ASSUME NEW A, NEW base, NEW n \in Nat, NEW g, NEW v, Runs(v, A, base, g, n), NEW G,
         base \in G[0], \A k \in 1 .. n : \A a \in A : a \in G[k - 1] => g[<<a, k>>] \in G[k]
  PROVE  v[n] \in G[n]
<1> DEFINE P == {k \in Nat : k <= n => v[k] \in G[k]}
<1>1. v \in [0 .. n -> A] /\ v[0] = base /\ \A k \in 1 .. n : v[k] = g[<<v[k - 1], k>>]
  BY DEF Runs
<1>2. 0 \in P
  BY <1>1
<1>3. ASSUME NEW k \in Nat, k \in P PROVE k + 1 \in P
  <2> SUFFICES ASSUME k + 1 <= n PROVE v[k + 1] \in G[k + 1]
    OBVIOUS
  <2>1. v[k] \in G[k] /\ v[k] \in A /\ k + 1 \in 1 .. n /\ (k + 1) - 1 = k
    BY <1>1, <1>3
  <2>2. g[<<v[k], k + 1>>] \in G[k + 1]
    BY <2>1
  <2> QED BY <1>1, <2>1, <2>2
<1>4. n \in P
  <2> HIDE DEF P
  <2> QED BY <1>2, <1>3, NatSet
<1> QED BY <1>4

\* The longer sequence, entry by entry.
LEMMA AppendIs ==
  ASSUME NEW E, NEW s \in Seq(E), NEW e \in E
  PROVE  Append(s, e) = [i \in 1 .. Len(s) + 1 |-> IF i = Len(s) + 1 THEN e ELSE s[i]]
<1> DEFINE q == Append(s, e)
           n == Len(s) + 1
<1>1. /\ q \in Seq(E) /\ Len(q) = n /\ n \in Nat /\ q[n] = e
      /\ \A i \in 1 .. Len(s) : q[i] = s[i]
  OBVIOUS
<1>2. \A i \in 1 .. n : i = n \/ i \in 1 .. Len(s)
  OBVIOUS
<1> HIDE DEF q, n
<1>3. q = [i \in 1 .. n |-> q[i]]
  BY <1>1
<1>4. \A i \in 1 .. n : q[i] = IF i = n THEN e ELSE s[i]
  BY <1>1, <1>2
<1>5. q = [i \in 1 .. n |-> IF i = n THEN e ELSE s[i]]
  BY <1>3, <1>4
<1> QED BY <1>5 DEF q, n

\* Only chosen entries are left.
LEMMA ChosenIn ==
  ASSUME NEW E, NEW seq \in Seq(E), NEW I
  PROVE  Chosen(seq, I) \in Seq({seq[k] : k \in I \cap DOMAIN seq}) /\ Chosen(seq, I) \in Seq(E)
<1> DEFINE n == Len(seq)
           A == Seq(E)
           F == {seq[k] : k \in I \cap DOMAIN seq}
           g == ChosenSteps(E, seq, I)
           G == [k \in 0 .. n |-> Seq(F)]
<1>1. PICK v : Runs(v, A, <<>>, g, n) /\ Chosen(seq, I) = v[n]
  BY ChosenRuns
<1>2. n \in Nat /\ <<>> \in G[0] /\ DOMAIN seq = 1 .. n
  OBVIOUS
<1>3. ASSUME NEW k \in 1 .. n, NEW a \in A, a \in G[k - 1] PROVE g[<<a, k>>] \in G[k]
  <2>1. a \in Seq(F) /\ G[k] = Seq(F)
    BY <1>3
  <2>2. ChosenStep(seq, I, <<a, k>>) \in Seq(F)
    <3>1. CASE k \in I
      <4>1. seq[k] \in F
        BY <1>2, <3>1
      <4> HIDE DEF F
      <4> QED BY <2>1, <3>1, <4>1 DEF ChosenStep
    <3>2. CASE k \notin I
      BY <2>1, <3>2 DEF ChosenStep
    <3> QED BY <3>1, <3>2
  <2>3. g[<<a, k>>] = ChosenStep(seq, I, <<a, k>>)
    BY DEF ChosenSteps
  <2> HIDE DEF F
  <2> QED BY <2>1, <2>2, <2>3
<1>4. v[n] \in G[n]
  <2> HIDE DEF A, g, G, n
  <2> QED BY <1>1, <1>2, <1>3, RunsStay
<1>5. G[n] = Seq(F)
  BY <1>2
<1>6. v[n] \in A
  BY <1>1, <1>2 DEF Runs
<1> QED BY <1>1, <1>4, <1>5, <1>6

-----------------------------------------------------------------------------
\* Numbers and alignments: an alignment lies within a window.

\* Of some numbers up to n one has the most of a measure.
LEMMA MostBy ==
  ASSUME NEW n \in Nat, NEW s \in SUBSET (0 .. n), s # {}, NEW f, \A k \in s : f[k] \in Int
  PROVE  \E k \in s : \A l \in s : f[k] >= f[l]
<1> DEFINE P == {k \in Nat : \A t \in SUBSET (0 .. k) : t # {} /\ t \subseteq s => \E x \in t : \A y \in t : f[x] >= f[y]}
<1>1. 0 \in P
  <2>1. ASSUME NEW t \in SUBSET (0 .. 0), t # {}, t \subseteq s PROVE \E x \in t : \A y \in t : f[x] >= f[y]
    <3>1. \A y \in t : y = 0
      OBVIOUS
    <3>2. 0 \in t /\ f[0] \in Int
      BY <2>1, <3>1
    <3> QED BY <3>1, <3>2
  <2> QED BY <2>1
<1>2. ASSUME NEW k \in Nat, k \in P PROVE k + 1 \in P
  <2> SUFFICES ASSUME NEW t \in SUBSET (0 .. k + 1), t # {}, t \subseteq s PROVE \E x \in t : \A y \in t : f[x] >= f[y]
    OBVIOUS
  <2>1. CASE k + 1 \notin t
    <3>1. t \in SUBSET (0 .. k)
      BY <2>1
    <3> QED BY <1>2, <3>1
  <2>2. CASE t = {k + 1}
    <3>1. f[k + 1] \in Int
      BY <2>2
    <3> QED BY <2>2, <3>1
  <2>3. CASE k + 1 \in t /\ t # {k + 1}
    <3>1. t \ {k + 1} \in SUBSET (0 .. k) /\ t \ {k + 1} # {} /\ t \ {k + 1} \subseteq s
      BY <2>3
    <3>2. PICK x \in t \ {k + 1} : \A y \in t \ {k + 1} : f[x] >= f[y]
      BY <1>2, <3>1
    <3>3. \A y \in t : f[y] \in Int
      OBVIOUS
    <3>4. CASE f[x] >= f[k + 1]
      BY <3>2, <3>4
    <3>5. CASE ~(f[x] >= f[k + 1])
      <4>1. \A y \in t : f[k + 1] >= f[y]
        BY <2>3, <3>2, <3>3, <3>5
      <4> QED BY <2>3, <4>1
    <3> QED BY <3>4, <3>5
  <2> QED BY <2>1, <2>2, <2>3
<1>3. n \in P
  <2> HIDE DEF P
  <2> QED BY <1>1, <1>2, NatSet
<1> QED BY <1>3

\* Some numbers up to n have a largest one, and a smallest one.
LEMMA Largest ==
  ASSUME NEW n \in Nat, NEW s \in SUBSET (0 .. n), s # {}
  PROVE  \E k \in s : \A l \in s : k >= l
<1> DEFINE f == [k \in s |-> k]
<1>1. \A k \in s : f[k] \in Int
  OBVIOUS
<1>2. \E k \in s : \A l \in s : f[k] >= f[l]
  <2> HIDE DEF f
  <2> QED BY <1>1, MostBy
<1> QED BY <1>2

\* Numbers up to n have a smallest one.
LEMMA Smallest ==
  ASSUME NEW n \in Nat, NEW s \in SUBSET (0 .. n), s # {}
  PROVE  Min(s) \in s /\ \A l \in s : Min(s) <= l
<1> DEFINE f == [k \in s |-> -k]
<1>1. \A k \in s : f[k] \in Int
  OBVIOUS
<1>2. \E k \in s : \A l \in s : f[k] >= f[l]
  <2> HIDE DEF f
  <2> QED BY <1>1, MostBy
<1>3. \E k \in s : \A l \in s : k <= l
  BY <1>2
<1> QED BY <1>3 DEF Min

\* The first numbers, up to the first one without a property.
LEMMA Initial ==
  ASSUME NEW n \in Nat, NEW good
  PROVE  \E p \in 0 .. n : (\A i \in 1 .. p : i \in good) /\ (p < n => p + 1 \notin good)
<1> DEFINE s == {p \in 0 .. n : \A i \in 1 .. p : i \in good}
<1>1. 0 \in s /\ s \in SUBSET (0 .. n)
  OBVIOUS
<1>2. PICK p \in s : \A l \in s : p >= l
  <2> HIDE DEF s
  <2> QED BY <1>1, Largest
<1>3. ASSUME p < n, p + 1 \in good PROVE FALSE
  <2>1. p + 1 \in 0 .. n
    BY <1>3
  <2>2. \A i \in 1 .. p + 1 : i \in 1 .. p \/ i = p + 1
    BY <1>2
  <2>3. p + 1 \in s
    BY <1>3, <2>1, <2>2
  <2> QED BY <1>2, <2>3
<1> QED BY <1>2, <1>3

\* The alignments of the lines behind a and c, up to b and d.
Within(E, a, b, c, d) ==
  {q \in Seq(E) : Monotone(q) /\ \A k \in DOMAIN q : q[k][1] \in a + 1 .. b /\ q[k][2] \in c + 1 .. d}

\* The empty alignment lies in every window.
LEMMA NothingWithin ==
  ASSUME NEW E, NEW a, NEW b, NEW c, NEW d
  PROVE  <<>> \in Within(E, a, b, c, d)
BY DEF Within, Monotone

\* An alignment of one pair lies in every window that holds the pair.
LEMMA OneWithin ==
  ASSUME NEW E, NEW i \in Int, NEW j \in Int, <<i, j>> \in E,
         NEW a \in Int, NEW b \in Int, NEW c \in Int, NEW d \in Int, a < i, i <= b, c < j, j <= d
  PROVE  <<<<i, j>>>> \in Within(E, a, b, c, d)
<1>1. <<<<i, j>>>> \in Seq(E) /\ DOMAIN <<<<i, j>>>> = {1}
  OBVIOUS
<1> QED BY <1>1 DEF Within, Monotone

\* An alignment of a window is one of every wider window.
LEMMA Widen ==
  ASSUME NEW E, NEW a \in Int, NEW b \in Int, NEW c \in Int, NEW d \in Int, NEW q \in Within(E, a, b, c, d),
         NEW a2 \in Int, NEW b2 \in Int, NEW c2 \in Int, NEW d2 \in Int, a2 <= a, b <= b2, c2 <= c, d <= d2
  PROVE  q \in Within(E, a2, b2, c2, d2)
<1>1. \A x \in a + 1 .. b : x \in a2 + 1 .. b2
  OBVIOUS
<1>2. \A x \in c + 1 .. d : x \in c2 + 1 .. d2
  OBVIOUS
<1> QED BY <1>1, <1>2 DEF Within

\* The entries of two sequences on end.
LEMMA ConcatIs ==
  ASSUME NEW E, NEW p \in Seq(E), NEW q \in Seq(E)
  PROVE  /\ p \o q \in Seq(E) /\ Len(p \o q) = Len(p) + Len(q)
         /\ DOMAIN (p \o q) = 1 .. Len(p) + Len(q)
         /\ \A k \in 1 .. Len(p) + Len(q) :
              \/ k \in 1 .. Len(p) /\ k \in DOMAIN p /\ (p \o q)[k] = p[k]
              \/ k > Len(p) /\ k - Len(p) \in DOMAIN q /\ (p \o q)[k] = q[k - Len(p)]
<1>1. Len(p) \in Nat /\ Len(q) \in Nat /\ DOMAIN p = 1 .. Len(p) /\ DOMAIN q = 1 .. Len(q)
  OBVIOUS
<1>2. p \o q \in Seq(E) /\ Len(p \o q) = Len(p) + Len(q) /\ DOMAIN (p \o q) = 1 .. Len(p) + Len(q)
  OBVIOUS
<1>3. \A k \in 1 .. Len(p) : (p \o q)[k] = p[k]
  OBVIOUS
<1>4. \A k \in 1 .. Len(p) + Len(q) : k > Len(p) => (p \o q)[k] = q[k - Len(p)]
  OBVIOUS
<1>5. \A k \in 1 .. Len(p) + Len(q) : k \in 1 .. Len(p) \/ (k > Len(p) /\ k - Len(p) \in 1 .. Len(q))
  BY <1>1
<1> QED BY <1>1, <1>2, <1>3, <1>4, <1>5

\* Two alignments on end.
LEMMA Join ==
  ASSUME NEW E, NEW a \in Int, NEW b \in Int, NEW c \in Int, NEW d \in Int, NEW e \in Int, NEW f \in Int,
         a <= b, b <= e, c <= d, d <= f,
         NEW p \in Within(E, a, b, c, d), NEW q \in Within(E, b, e, d, f)
  PROVE  p \o q \in Within(E, a, e, c, f)
<1> DEFINE r == p \o q
           n == Len(p)
<1>1. p \in Seq(E) /\ q \in Seq(E)
  BY DEF Within
<1>2. /\ r \in Seq(E) /\ DOMAIN r = 1 .. n + Len(q)
      /\ \A k \in 1 .. n + Len(q) :
           \/ k \in 1 .. n /\ k \in DOMAIN p /\ r[k] = p[k]
           \/ k > n /\ k - n \in DOMAIN q /\ r[k] = q[k - n]
  BY <1>1, ConcatIs
<1>3. n \in Nat /\ Len(q) \in Nat
  BY <1>1
<1> HIDE DEF r, n
<1>4. \A k \in DOMAIN p : p[k][1] \in a + 1 .. b /\ p[k][2] \in c + 1 .. d
  BY DEF Within
<1>5. \A k \in DOMAIN q : q[k][1] \in b + 1 .. e /\ q[k][2] \in d + 1 .. f
  BY DEF Within
<1>6. ASSUME NEW k \in DOMAIN r PROVE r[k][1] \in a + 1 .. e /\ r[k][2] \in c + 1 .. f
  <2>1. CASE k \in 1 .. n /\ k \in DOMAIN p /\ r[k] = p[k]
    <3>1. p[k][1] \in a + 1 .. b /\ p[k][2] \in c + 1 .. d
      BY <1>4, <2>1
    <3> QED BY <2>1, <3>1
  <2>2. CASE k > n /\ k - n \in DOMAIN q /\ r[k] = q[k - n]
    <3>1. q[k - n][1] \in b + 1 .. e /\ q[k - n][2] \in d + 1 .. f
      BY <1>5, <2>2
    <3> QED BY <2>2, <3>1
  <2> QED BY <1>2, <2>1, <2>2
<1>7. ASSUME NEW k \in DOMAIN r, NEW l \in DOMAIN r, k < l PROVE r[k][1] < r[l][1] /\ r[k][2] < r[l][2]
  <2>1. CASE k \in 1 .. n /\ l \in 1 .. n
    <3>1. k \in DOMAIN p /\ l \in DOMAIN p /\ r[k] = p[k] /\ r[l] = p[l]
      BY <1>2, <1>3, <2>1
    <3> QED BY <1>7, <3>1 DEF Within, Monotone
  <2>2. CASE k \in 1 .. n /\ l > n
    <3>1. k \in DOMAIN p /\ l - n \in DOMAIN q /\ r[k] = p[k] /\ r[l] = q[l - n]
      BY <1>2, <1>3, <2>2
    <3>2. p[k][1] \in a + 1 .. b /\ p[k][2] \in c + 1 .. d /\ q[l - n][1] \in b + 1 .. e /\ q[l - n][2] \in d + 1 .. f
      BY <1>4, <1>5, <3>1
    <3> QED BY <3>1, <3>2
  <2>3. CASE k > n /\ l > n
    <3>1. k - n \in DOMAIN q /\ l - n \in DOMAIN q /\ r[k] = q[k - n] /\ r[l] = q[l - n]
      BY <1>2, <1>3, <2>3
    <3>2. k - n < l - n
      BY <1>2, <1>3, <1>7
    <3> QED BY <3>1, <3>2 DEF Within, Monotone
  <2> QED BY <1>2, <1>3, <1>7, <2>1, <2>2, <2>3, SMTT(30)
<1> QED BY <1>2, <1>6, <1>7 DEF Within, Monotone, r

-----------------------------------------------------------------------------
\* AlignWeighted: the backtracking through the table of the weights.

\* Where the backtracking starts, and its step.
TraceStart(n1, m1) == [i |-> n1, j |-> m1, pairs |-> <<>>]
\* A step goes back to the pair StepBack takes, whatever the number of the step.
TraceSteps(St, n, tab, weight, tie) == [p \in St \X (1 .. n) |-> StepBack(p[1], tab, weight, tie)]

\* The values of the backtracking stay in what its steps do not leave.
LEMMA TraceRuns ==
  ASSUME NEW n1 \in Nat, NEW m1 \in Nat, NEW St, TraceStart(n1, m1) \in St, NEW tab, NEW weight, NEW tie,
         \A s \in St : StepBack(s, tab, weight, tie) \in St
  PROVE  \E v : /\ Runs(v, St, TraceStart(n1, m1), TraceSteps(St, n1 + m1, tab, weight, tie), n1 + m1)
               /\ TraceBack(n1, m1, tab, weight, tie) = v[n1 + m1].pairs
<1> DEFINE n == n1 + m1
           A == St
           base == TraceStart(n1, m1)
           g == [p \in St \X (1 .. n) |-> StepBack(p[1], tab, weight, tie)]
           ks == Numbers(n1 + m1)
           Unfolded(iter, s) == IF s = {} THEN base ELSE StepBack(iter[s \ {Max(s)}], tab, weight, tie)
           h == CHOOSE iter : iter = [s \in SUBSET DOMAIN ks |-> Unfolded(iter, s)]
<1>1. n \in Nat /\ base \in A /\ g \in [A \X (1 .. n) -> A]
  OBVIOUS
<1>2. TraceBack(n1, m1, tab, weight, tie) = h[DOMAIN ks].pairs
  BY DEF TraceBack, TraceStart, FoldLeft, MapThenFoldSet
<1>3. DOMAIN ks = 1 .. n
  BY DEF Numbers
<1>4. ASSUME NEW iter \in [SUBSET (1 .. n) -> A], NEW s \in SUBSET (1 .. n), s # {}, Max(s) \in 1 .. n, iter[s \ {Max(s)}] \in A
      PROVE  g[<<iter[s \ {Max(s)}], Max(s)>>] = Unfolded(iter, s)
  BY <1>4
<1>5. h = [s \in SUBSET (1 .. n) |-> Unfolded(h, s)]
  <2>1. PICK iter : Solves(iter, A, base, g, n)
    <3> HIDE DEF A, base, g, n
    <3> QED BY <1>1, FoldExists
  <2>2. /\ iter \in [SUBSET (1 .. n) -> A]
        /\ iter = [s \in SUBSET (1 .. n) |-> IF s = {} THEN base ELSE g[<<iter[s \ {Max(s)}], Max(s)>>]]
    BY <2>1 DEF Solves
  <2>3. ASSUME NEW s \in SUBSET (1 .. n), s # {}
        PROVE  g[<<iter[s \ {Max(s)}], Max(s)>>] = Unfolded(iter, s)
    <3>1. Max(s) \in 1 .. n
      <4>1. s \in SUBSET (0 .. n)
        OBVIOUS
      <4> QED BY <1>1, <2>3, <4>1, MaxIn
    <3>2. iter[s \ {Max(s)}] \in A
      BY <2>2
    <3> HIDE DEF A, base, g, n, Unfolded, ks
    <3> QED BY <1>4, <2>2, <2>3, <3>1, <3>2
  <2>4. Unfolded(iter, {}) = base
    OBVIOUS
  <2> HIDE DEF A, base, g, n, Unfolded, ks
  <2>5. iter = [s \in SUBSET (1 .. n) |-> Unfolded(iter, s)]
    <3>1. \A s \in SUBSET (1 .. n) : (IF s = {} THEN base ELSE g[<<iter[s \ {Max(s)}], Max(s)>>]) = Unfolded(iter, s)
      BY <2>3, <2>4
    <3> QED BY <2>2, <3>1
  <2> QED BY <1>3, <2>5 DEF h
<1> HIDE DEF h
<1>6. h[{}] = base
  <2>1. {} \in SUBSET (1 .. n) /\ Unfolded(h, {}) = base
    OBVIOUS
  <2> HIDE DEF A, base, g, n, Unfolded, ks
  <2> QED BY <1>5, <2>1
<1>7. ASSUME NEW k \in 1 .. n, h[1 .. k - 1] \in A PROVE h[1 .. k] = g[<<h[1 .. k - 1], k>>]
  <2>1. (1 .. k) \in SUBSET (1 .. n) /\ 1 .. k # {} /\ (1 .. k) \ {k} = 1 .. k - 1
    BY <1>1, FirstNumbers
  <2>2. Max(1 .. k) = k
    BY MaxIs
  <2>3. h[1 .. k] = Unfolded(h, 1 .. k)
    <3> HIDE DEF A, base, g, n, Unfolded, ks
    <3> QED BY <1>5, <2>1
  <2>4. Unfolded(h, 1 .. k) = g[<<h[1 .. k - 1], k>>]
  BY <1>7, <2>1, <2>2
  <2> HIDE DEF A, base, g, n, Unfolded, ks
  <2> QED BY <2>3, <2>4
<1>8. Runs([k \in 0 .. n |-> h[1 .. k]], A, base, g, n)
  <2> HIDE DEF A, base, g, n, Unfolded, ks
  <2> QED BY <1>1, <1>6, <1>7, FoldRuns
<1>9. TraceBack(n1, m1, tab, weight, tie) = [k \in 0 .. n |-> h[1 .. k]][n].pairs
  <2> HIDE DEF A, base, g, Unfolded, ks
  <2>1. [k \in 0 .. n |-> h[1 .. k]][n] = h[DOMAIN ks]
    BY <1>1, <1>3
  <2> QED BY <1>2, <2>1
<1> QED BY <1>8, <1>9 DEF TraceSteps

\* A pair of positive weight, and another partner of the same score.
Worth(weight, i, j) == weight[i, j] > 0
\* The item k is another partner that gives the same score: the tie of AlignWeighted.
Tied(tab, i, j, k, weight, tie) == tie /\ Worth(weight, i, k) /\ tab[i][k] + weight[i, k] = tab[i + 1][j + 1]

\* The partner of an item is one it has: of the closest pairs the later one.
LEMMA PartnerIn ==
  ASSUME NEW tab, NEW i \in Nat, NEW j \in Nat \ {0}, NEW weight, NEW tie, Worth(weight, i, j)
  PROVE  Partner(tab, i, j, weight, tie) \in 1 .. j /\ Worth(weight, i, Partner(tab, i, j, weight, tie))
<1> DEFINE ties == {j} \cup {k \in 1 .. (j - 1) : Tied(tab, i, j, k, weight, tie)}
           Good(k) == \A l \in ties :
                        \/ Distance(i, k) < Distance(i, l)
                        \/ Distance(i, k) = Distance(i, l) /\ k >= l
           f == [k \in ties |-> -2 * Distance(i, k) + (IF k >= i THEN 1 ELSE 0)]
<1>1. ties \in SUBSET (0 .. j) /\ ties # {} /\ ties \subseteq 1 .. j
  OBVIOUS
<1>2. \A k \in ties : Worth(weight, i, k)
  BY Zenon DEF Tied
<1>3. Partner(tab, i, j, weight, tie) = CHOOSE x \in ties : Good(x)
  BY DEF Partner, Tied, Worth
<1> HIDE DEF ties
<1>4. \A k \in ties : Distance(i, k) = (IF k >= i THEN k - i ELSE i - k) /\ Distance(i, k) \in Int /\ k \in Int
  BY <1>1 DEF Distance, Greatest
<1>5. \A k \in ties : f[k] = -2 * Distance(i, k) + (IF k >= i THEN 1 ELSE 0) /\ f[k] \in Int
  BY <1>4
<1> HIDE DEF f
<1>6. PICK k \in ties : \A l \in ties : f[k] >= f[l]
  BY <1>1, <1>5, MostBy
<1>7. ASSUME NEW l \in ties PROVE Distance(i, k) < Distance(i, l) \/ (Distance(i, k) = Distance(i, l) /\ k >= l)
  <2>1. f[k] >= f[l] /\ k \in Int /\ l \in Int
    BY <1>4, <1>6
  <2>2. /\ f[k] = -2 * Distance(i, k) + (IF k >= i THEN 1 ELSE 0)
        /\ f[l] = -2 * Distance(i, l) + (IF l >= i THEN 1 ELSE 0)
    BY <1>5
  <2>3. /\ Distance(i, k) = IF k >= i THEN k - i ELSE i - k
        /\ Distance(i, l) = IF l >= i THEN l - i ELSE i - l
    BY <1>4
  <2> HIDE <1>6
  <2> QED BY <2>1, <2>2, <2>3
<1>8. Good(k)
  BY <1>7
<1>9. Partner(tab, i, j, weight, tie) \in ties
  <2> HIDE DEF Good
  <2> QED BY <1>3, <1>8
<1> QED BY <1>1, <1>2, <1>9

\* One step back keeps the alignment behind it.
LEMMA StepBackIn ==
  ASSUME NEW n1 \in Nat, NEW m1 \in Nat, NEW tab, NEW weight, NEW tie, NEW E,
         \A i \in 1 .. n1, j \in 1 .. m1 : Worth(weight, i, j) => <<i, j>> \in E,
         NEW s \in {r \in [i : 0 .. n1, j : 0 .. m1, pairs : Seq(E)] : r.pairs \in Within(E, r.i, n1, r.j, m1)}
  PROVE  StepBack(s, tab, weight, tie)
           \in {r \in [i : 0 .. n1, j : 0 .. m1, pairs : Seq(E)] : r.pairs \in Within(E, r.i, n1, r.j, m1)}
<1> DEFINE St == {r \in [i : 0 .. n1, j : 0 .. m1, pairs : Seq(E)] : r.pairs \in Within(E, r.i, n1, r.j, m1)}
           Fits == s.i > 0 /\ s.j > 0 /\ weight[s.i, s.j] > 0 /\ tab[s.i + 1][s.j + 1] = tab[s.i][s.j] + weight[s.i, s.j]
           UpFirst == tab[s.i][s.j + 1] >= tab[s.i + 1][s.j]
           back == StepBack(s, tab, weight, tie)
<1>0. /\ back = CASE s.i = 0 \/ s.j = 0 -> s
               [] Fits -> TakePair(s, Partner(tab, s.i, s.j, weight, tie))
               [] OTHER -> IF UpFirst THEN [s EXCEPT !.i = @ - 1] ELSE [s EXCEPT !.j = @ - 1]
      /\ Fits => s.i > 0 /\ s.j > 0 /\ Worth(weight, s.i, s.j)
  BY Zenon DEF StepBack, Worth
<1> HIDE DEF Fits, UpFirst, back
<1>1. s \in [i : 0 .. n1, j : 0 .. m1, pairs : Seq(E)] /\ s.pairs \in Within(E, s.i, n1, s.j, m1)
  OBVIOUS
<1>2. s.i \in 0 .. n1 /\ s.j \in 0 .. m1 /\ s.i \in Int /\ s.j \in Int /\ s.pairs \in Seq(E) /\ n1 \in Int /\ m1 \in Int
  BY <1>1
<1>3. CASE s.i = 0 \/ s.j = 0
  <2>1. ~Fits
    BY <1>0, <1>2, <1>3
  <2>2. back = s
    BY <1>0, <1>3, <2>1
  <2> QED BY <2>2 DEF back
<1>4. CASE s.i # 0 /\ s.j # 0 /\ Fits
  <2> DEFINE k == Partner(tab, s.i, s.j, weight, tie)
  <2>1. back = TakePair(s, k)
    BY <1>0, <1>4
  <2>2. k \in 1 .. s.j /\ Worth(weight, s.i, k)
    <3>1. s.i \in Nat /\ s.j \in Nat \ {0}
      BY <1>2, <1>4
    <3> QED BY <1>0, <1>4, <3>1, PartnerIn
  <2> HIDE DEF k
  <2>3. k \in Int /\ k - 1 \in Int /\ s.i - 1 \in Int /\ s.i \in 1 .. n1 /\ k \in 1 .. m1 /\ k - 1 \in 0 .. m1 /\ s.i - 1 \in 0 .. n1
    BY <1>2, <1>4, <2>2
  <2>4. <<s.i, k>> \in E
    BY <2>2, <2>3
  <2>5. <<<<s.i, k>>>> \in Within(E, s.i - 1, s.i, k - 1, k)
    <3>1. s.i - 1 < s.i /\ s.i <= s.i /\ k - 1 < k /\ k <= k
      BY <2>3
    <3> QED BY <1>2, <2>3, <2>4, <3>1, OneWithin
  <2>6. s.pairs \in Within(E, s.i, n1, k, m1)
    <3>1. k <= s.j /\ s.i <= s.i /\ n1 <= n1 /\ m1 <= m1
      BY <1>2, <2>2, <2>3
    <3> QED BY <1>1, <1>2, <2>3, <3>1, Widen
  <2>7. <<<<s.i, k>>>> \o s.pairs \in Within(E, s.i - 1, n1, k - 1, m1)
    <3>1. s.i - 1 <= s.i /\ s.i <= n1 /\ k - 1 <= k /\ k <= m1
      BY <2>3
    <3> QED BY <1>2, <2>3, <2>5, <2>6, <3>1, Join
  <2>8. <<<<s.i, k>>>> \o s.pairs \in Seq(E)
    BY <2>7 DEF Within
  <2>9. TakePair(s, k) \in St
    BY <2>3, <2>7, <2>8 DEF TakePair
  <2> QED BY <2>1, <2>9 DEF back
<1>5. CASE s.i # 0 /\ s.j # 0 /\ ~Fits
  <2>1. back = IF UpFirst THEN [s EXCEPT !.i = @ - 1] ELSE [s EXCEPT !.j = @ - 1]
    BY <1>0, <1>5
  <2>2. [s EXCEPT !.i = @ - 1] = [i |-> s.i - 1, j |-> s.j, pairs |-> s.pairs]
    BY <1>1
  <2>3. [s EXCEPT !.j = @ - 1] = [i |-> s.i, j |-> s.j - 1, pairs |-> s.pairs]
    BY <1>1
  <2>4. s.i - 1 \in 0 .. n1 /\ s.j - 1 \in 0 .. m1 /\ s.i - 1 <= s.i /\ s.j - 1 <= s.j /\ s.i - 1 \in Int /\ s.j - 1 \in Int
        /\ n1 <= n1 /\ m1 <= m1 /\ s.i <= s.i /\ s.j <= s.j
    BY <1>2, <1>5
  <2>5. s.pairs \in Within(E, s.i - 1, n1, s.j, m1)
    BY <1>1, <1>2, <2>4, Widen
  <2>6. s.pairs \in Within(E, s.i, n1, s.j - 1, m1)
    BY <1>1, <1>2, <2>4, Widen
  <2>7. [i |-> s.i - 1, j |-> s.j, pairs |-> s.pairs] \in St
    BY <1>2, <2>4, <2>5
  <2>8. [i |-> s.i, j |-> s.j - 1, pairs |-> s.pairs] \in St
    BY <1>2, <2>4, <2>6
  <2> HIDE DEF St
  <2>9. back \in St
    BY <2>1, <2>2, <2>3, <2>7, <2>8
  <2> QED BY <2>9 DEF back, St
<1> QED BY <1>2, <1>3, <1>4, <1>5

\* The alignment is made of pairs of positive weight, forward on both sides.
LEMMA AlignWeightedIn ==
  ASSUME NEW n1 \in Nat, NEW m1 \in Nat, NEW weight, NEW tie, NEW E,
         \A i \in 1 .. n1, j \in 1 .. m1 : Worth(weight, i, j) => <<i, j>> \in E
  PROVE  AlignWeighted(n1, m1, weight, tie) \in Within(E, 0, n1, 0, m1)
<1> DEFINE St == {r \in [i : 0 .. n1, j : 0 .. m1, pairs : Seq(E)] : r.pairs \in Within(E, r.i, n1, r.j, m1)}
           tab == Scores(n1, m1, weight)
           base == TraceStart(n1, m1)
           g == TraceSteps(St, n1 + m1, tab, weight, tie)
<1>1. base \in St
  <2>1. <<>> \in Within(E, n1, n1, m1, m1)
    BY NothingWithin
  <2> QED BY <2>1 DEF TraceStart
<1>2. \A s \in St : StepBack(s, tab, weight, tie) \in St
  <2> SUFFICES ASSUME NEW s \in St PROVE StepBack(s, tab, weight, tie) \in St
    OBVIOUS
  <2> HIDE DEF tab
  <2> QED BY StepBackIn
<1>3. \E v : Runs(v, St, base, g, n1 + m1) /\ TraceBack(n1, m1, tab, weight, tie) = v[n1 + m1].pairs
  <2> HIDE DEF St, tab
  <2> QED BY <1>1, <1>2, TraceRuns
<1>4. PICK v : Runs(v, St, base, g, n1 + m1) /\ TraceBack(n1, m1, tab, weight, tie) = v[n1 + m1].pairs
  <2> HIDE DEF St, tab, base, g
  <2> QED BY <1>3
<1>5. v[n1 + m1] \in St
  <2> HIDE DEF St, base, g
  <2> QED BY <1>4 DEF Runs
<1> DEFINE s == v[n1 + m1]
<1>6. s.pairs \in Within(E, s.i, n1, s.j, m1) /\ s.i \in 0 .. n1 /\ s.j \in 0 .. m1
  BY <1>5
<1>7. s.pairs \in Within(E, 0, n1, 0, m1)
  <2>1. s.i \in Int /\ s.j \in Int /\ n1 \in Int /\ m1 \in Int /\ 0 <= s.i /\ 0 <= s.j /\ n1 <= n1 /\ m1 <= m1 /\ 0 \in Int
    BY <1>6
  <2> HIDE DEF s
  <2> QED BY <1>6, <2>1, Widen
<1> HIDE DEF St, base, g
<1> QED BY <1>4, <1>7 DEF AlignWeighted

-----------------------------------------------------------------------------
\* alignLineWindow: a window pairs lines of the same text.

\* The lines the files of FileDiff are made of.
Text1 == [key : STRING, ind : Nat]

\* The pairs of lines of the same text, whatever their indentation.
Twins(A, B) == {p \in (DOMAIN A) \X (DOMAIN B) : A[p[1]].key = B[p[2]].key}

\* An alignment of a window, seen from the file.
LEMMA ShiftedWithin ==
  ASSUME NEW E, NEW F, NEW a \in Int, NEW c \in Int, NEW n \in Nat, NEW m \in Nat, NEW q \in Within(E, 0, n, 0, m),
         \A i \in 1 .. n, j \in 1 .. m : <<i, j>> \in E => <<a + i, c + j>> \in F,
         E \subseteq Int \X Int
  PROVE  ShiftedBy(a, c, q) \in Within(F, a, a + n, c, c + m)
<1> DEFINE r == ShiftedBy(a, c, q)
<1>1. /\ q \in Seq(E) /\ Monotone(q)
      /\ \A k \in DOMAIN q : q[k][1] \in 1 .. n /\ q[k][2] \in 1 .. m
  BY DEF Within
<1>2. \A k \in DOMAIN q : q[k] \in E /\ q[k] = <<q[k][1], q[k][2]>>
  BY <1>1
<1>3. DOMAIN r = DOMAIN q /\ \A k \in DOMAIN q : r[k] = <<a + q[k][1], c + q[k][2]>>
  BY DEF ShiftedBy
<1>4. \A k \in DOMAIN q : r[k] \in F /\ r[k][1] = a + q[k][1] /\ r[k][2] = c + q[k][2]
  <2> SUFFICES ASSUME NEW k \in DOMAIN q PROVE r[k] \in F /\ r[k][1] = a + q[k][1] /\ r[k][2] = c + q[k][2]
    OBVIOUS
  <2>1. <<q[k][1], q[k][2]>> \in E /\ q[k][1] \in 1 .. n /\ q[k][2] \in 1 .. m
    BY <1>1, <1>2
  <2>2. <<a + q[k][1], c + q[k][2]>> \in F
    BY <2>1
  <2> HIDE DEF r
  <2> QED BY <1>3, <2>2
<1> HIDE DEF r
<1>5. r \in Seq(F)
  <2>1. Len(q) \in Nat /\ DOMAIN q = 1 .. Len(q)
    BY <1>1
  <2>2. r = [k \in 1 .. Len(q) |-> r[k]]
    BY <1>3, <2>1 DEF r, ShiftedBy
  <2>3. \A k \in 1 .. Len(q) : r[k] \in F
    BY <1>4, <2>1
  <2> QED BY <2>1, <2>2, <2>3
<1>6. \A k \in DOMAIN q : r[k][1] \in a + 1 .. a + n /\ r[k][2] \in c + 1 .. c + m
  <2> SUFFICES ASSUME NEW k \in DOMAIN q PROVE r[k][1] \in a + 1 .. a + n /\ r[k][2] \in c + 1 .. c + m
    OBVIOUS
  <2>1. q[k][1] \in 1 .. n /\ q[k][2] \in 1 .. m /\ r[k][1] = a + q[k][1] /\ r[k][2] = c + q[k][2]
    BY <1>1, <1>4
  <2> QED BY <2>1
<1>7. ASSUME NEW k \in DOMAIN q, NEW l \in DOMAIN q, k < l PROVE r[k][1] < r[l][1] /\ r[k][2] < r[l][2]
  <2>1. q[k][1] < q[l][1] /\ q[k][2] < q[l][2]
    BY <1>1, <1>7 DEF Monotone
  <2>2. q[k][1] \in Int /\ q[l][1] \in Int /\ q[k][2] \in Int /\ q[l][2] \in Int
    BY <1>1
  <2>3. r[k][1] = a + q[k][1] /\ r[k][2] = c + q[k][2] /\ r[l][1] = a + q[l][1] /\ r[l][2] = c + q[l][2]
    BY <1>4
  <2> QED BY <2>1, <2>2, <2>3
<1> QED BY <1>3, <1>5, <1>6, <1>7 DEF Within, Monotone, r

\* A window only pairs lines of the same text.
LEMMA WindowPairs ==
  ASSUME NEW A \in Seq(Text1), NEW B \in Seq(Text1), NEW F, NEW a \in Int, NEW c \in Int,
         \A p \in Twins(A, B) : <<a + p[1], c + p[2]>> \in F
  PROVE  AlignLineWindow(A, B, a, c) \in Within(F, a, a + Len(A), c, c + Len(B))
<1> DEFINE n == Len(A)
           m == Len(B)
           w == MatchWeights(A, B)
           E == Twins(A, B)
<1>1. n \in Nat /\ m \in Nat /\ DOMAIN A = 1 .. n /\ DOMAIN B = 1 .. m
  OBVIOUS
<1>2. CASE Len(A) = 0 \/ Len(B) = 0 \/ Len(A) * Len(B) > WindowCells
  <2>1. AlignLineWindow(A, B, a, c) = <<>>
    BY <1>2 DEF AlignLineWindow
  <2> QED BY <2>1, NothingWithin
<1>3. CASE ~(Len(A) = 0 \/ Len(B) = 0 \/ Len(A) * Len(B) > WindowCells)
  <2>1. AlignLineWindow(A, B, a, c) = ShiftedBy(a, c, AlignWeighted(n, m, w, TRUE))
    BY <1>3 DEF AlignLineWindow
  <2>2. ASSUME NEW i \in 1 .. n, NEW j \in 1 .. m, Worth(w, i, j) PROVE <<i, j>> \in E
    <3>1. <<i, j>> \in (DOMAIN A) \X (DOMAIN B)
      BY <1>1
    <3>2. w[i, j] = MatchWeight(A[i], B[j])
      BY <3>1 DEF MatchWeights
    <3>3. MatchWeight(A[i], B[j]) > 0
      BY <2>2, <3>2 DEF Worth
    <3>4. A[i].key = B[j].key
      BY <3>3 DEF MatchWeight
    <3> QED BY <3>1, <3>4 DEF Twins
  <2>3. AlignWeighted(n, m, w, TRUE) \in Within(E, 0, n, 0, m)
    <3> HIDE DEF n, m, w, E
    <3> QED BY <1>1, <2>2, AlignWeightedIn
  <2>4. E \subseteq Int \X Int
    BY <1>1 DEF Twins
  <2>5. \A i \in 1 .. n, j \in 1 .. m : <<i, j>> \in E => <<a + i, c + j>> \in F
    <3> HIDE DEF E
    <3>1. \A i, j : <<i, j>> \in E => <<a + i, c + j>> \in F
      BY DEF E
    <3> QED BY <3>1
  <2> HIDE DEF n, m, w, E
  <2>6. ShiftedBy(a, c, AlignWeighted(n, m, w, TRUE)) \in Within(F, a, a + n, c, c + m)
    BY <1>1, <2>3, <2>4, <2>5, ShiftedWithin
  <2> QED BY <2>1, <2>6 DEF n, m
<1> QED BY <1>2, <1>3

\* The lines of a window.
LEMMA WindowIs ==
  ASSUME NEW E, NEW A \in Seq(E), NEW a \in 0 .. Len(A), NEW b \in a .. Len(A)
  PROVE  /\ SubSeq(A, a + 1, b) \in Seq(E) /\ Len(SubSeq(A, a + 1, b)) = b - a
         /\ \A i \in 1 .. b - a : SubSeq(A, a + 1, b)[i] = A[a + i]
<1>1. \A i \in 1 .. b - a : a + i \in 1 .. Len(A)
  OBVIOUS
<1> QED BY <1>1

\* A window that ends where it starts has no lines.
LEMMA WindowEmpty ==
  ASSUME NEW E, NEW A \in Seq(E), NEW a \in Nat, NEW b \in Int, b <= a
  PROVE  Len(SubSeq(A, a + 1, b)) = 0
OBVIOUS

\* Lines of the same text of two windows are lines of the same text of the files.
LEMMA WindowTwins ==
  ASSUME NEW A \in Seq(Text1), NEW B \in Seq(Text1),
         NEW a \in 0 .. Len(A), NEW b \in a .. Len(A), NEW c \in 0 .. Len(B), NEW d \in c .. Len(B),
         NEW p \in Twins(SubSeq(A, a + 1, b), SubSeq(B, c + 1, d))
  PROVE  <<a + p[1], c + p[2]>> \in Twins(A, B)
<1> DEFINE x == SubSeq(A, a + 1, b)
           y == SubSeq(B, c + 1, d)
<1>1. x \in Seq(Text1) /\ Len(x) = b - a /\ \A i \in 1 .. b - a : x[i] = A[a + i]
  BY WindowIs
<1>2. y \in Seq(Text1) /\ Len(y) = d - c /\ \A i \in 1 .. d - c : y[i] = B[c + i]
  BY WindowIs
<1> HIDE DEF x, y
<1>3. p \in (DOMAIN x) \X (DOMAIN y) /\ x[p[1]].key = y[p[2]].key
  BY DEF Twins, x, y
<1>4. DOMAIN x = 1 .. b - a /\ DOMAIN y = 1 .. d - c
  BY <1>1, <1>2
<1>5. PICK i \in 1 .. b - a, j \in 1 .. d - c : p = <<i, j>>
  BY <1>3, <1>4
<1>6. p[1] = i /\ p[2] = j /\ x[i].key = y[j].key
  BY <1>3, <1>5
<1>7. a + i \in 1 .. Len(A) /\ c + j \in 1 .. Len(B)
  OBVIOUS
<1>8. A[a + i].key = B[c + j].key
  BY <1>1, <1>2, <1>6
<1>9. <<a + i, c + j>> \in (DOMAIN A) \X (DOMAIN B)
  BY <1>7
<1>10. <<a + i, c + j>> \in Twins(A, B)
  BY <1>8, <1>9 DEF Twins
<1> QED BY <1>6, <1>10

\* alignLineWindow gives pairs of lines of the same text inside its window, both sides going
\* forward, whatever the size of the window.
LEMMA WindowIn ==
  ASSUME NEW A \in Seq(Text1), NEW B \in Seq(Text1),
         NEW a \in 0 .. Len(A), NEW b \in a .. Len(A), NEW c \in 0 .. Len(B), NEW d \in c .. Len(B)
  PROVE  AlignLineWindow(SubSeq(A, a + 1, b), SubSeq(B, c + 1, d), a, c) \in Within(Twins(A, B), a, b, c, d)
<1> DEFINE x == SubSeq(A, a + 1, b)
           y == SubSeq(B, c + 1, d)
           F == Twins(A, B)
<1>1. x \in Seq(Text1) /\ Len(x) = b - a /\ y \in Seq(Text1) /\ Len(y) = d - c
  BY WindowIs
<1>2. \A p \in Twins(x, y) : <<a + p[1], c + p[2]>> \in F
  BY WindowTwins
<1>3. a \in Int /\ c \in Int /\ a + (b - a) = b /\ c + (d - c) = d
  OBVIOUS
<1> HIDE DEF x, y, F
<1>4. AlignLineWindow(x, y, a, c) \in Within(F, a, a + Len(x), c, c + Len(y))
  BY <1>1, <1>2, <1>3, WindowPairs
<1>5. AlignLineWindow(x, y, a, c) \in Within(F, a, b, c, d)
  BY <1>1, <1>3, <1>4
<1> QED BY <1>5 DEF x, y, F

-----------------------------------------------------------------------------
\* Lists of numbers that rise.

\* A sequence of numbers that rise, and the set of these.
RisingTo(u) == \A k, l \in DOMAIN u : k < l => u[k] < u[l]
\* u lists the numbers of I, each once, in their order.
Lists(u, I) ==
  /\ u \in Seq(Int) /\ RisingTo(u)
  /\ \A x : x \in I <=> \E k \in DOMAIN u : u[k] = x

\* A set of numbers that holds all before each of its own is an interval.
LEMMA DownClosed ==
  ASSUME NEW n \in Nat, NEW s \in SUBSET (1 .. n), \A t \in s : \A u \in 1 .. t : u \in s
  PROVE  Cardinality(s) \in 0 .. n /\ s = 1 .. Cardinality(s)
<1>1. CASE s = {}
  <2>1. Cardinality(s) = 0
    BY <1>1, FS_EmptySet
  <2> QED BY <1>1, <2>1
<1>2. CASE s # {}
  <2>1. s \in SUBSET (0 .. n)
    OBVIOUS
  <2>2. PICK k \in s : \A l \in s : k >= l
    BY <1>2, <2>1, Largest
  <2>3. k \in 1 .. n /\ k \in Int /\ 1 \in Int
    OBVIOUS
  <2>4. s = 1 .. k
    <3>1. \A l \in s : l \in 1 .. k
      BY <2>2, <2>3
    <3>2. \A l \in 1 .. k : l \in s
      OBVIOUS
    <3> QED BY <3>1, <3>2
  <2>5. Cardinality(1 .. k) = IF 1 > k THEN 0 ELSE k - 1 + 1
    BY <2>3, FS_Interval
  <2>6. Cardinality(s) = k
    BY <2>3, <2>4, <2>5
  <2> QED BY <2>3, <2>4, <2>6
<1> QED BY <1>1, <1>2

\* What grows from one place to the next rises.
LEMMA Neighbours ==
  ASSUME NEW n \in Nat, NEW f, \A k \in 1 .. n : f[k] \in Int, \A k \in 1 .. n : k < n => f[k] < f[k + 1]
  PROVE  \A k, l \in 1 .. n : k < l => f[k] < f[l]
<1> DEFINE P == {d \in Nat : \A k \in 1 .. n : k + d + 1 <= n => f[k] < f[k + d + 1]}
<1>1. 0 \in P
  BY SMT
<1>2. ASSUME NEW d \in Nat, d \in P PROVE d + 1 \in P
  <2> SUFFICES ASSUME NEW k \in 1 .. n, k + (d + 1) + 1 <= n PROVE f[k] < f[k + (d + 1) + 1]
    OBVIOUS
  <2>1. f[k] < f[k + d + 1]
    BY <1>2
  <2>2. k + d + 1 \in 1 .. n /\ k + d + 1 < n /\ (k + d + 1) + 1 = k + (d + 1) + 1 /\ k + (d + 1) + 1 \in 1 .. n
    OBVIOUS
  <2>3. f[k + d + 1] < f[k + (d + 1) + 1]
    BY <2>2
  <2>4. f[k] \in Int /\ f[k + d + 1] \in Int /\ f[k + (d + 1) + 1] \in Int
    BY <2>2
  <2> QED BY <2>1, <2>3, <2>4
<1>3. Nat \subseteq P
  <2> HIDE DEF P
  <2> QED BY <1>1, <1>2, NatSet
<1>4. ASSUME NEW k \in 1 .. n, NEW l \in 1 .. n, k < l PROVE f[k] < f[l]
  <2> DEFINE d == l - k - 1
  <2>1. d \in Nat /\ k + d + 1 = l /\ l <= n
    BY <1>4
  <2>2. d \in P
    BY <1>3, <2>1
  <2> HIDE DEF d
  <2> QED BY <2>1, <2>2
<1> QED BY <1>4

\* Numbers(n) is 1, 2, ..., n.
LEMMA NumbersAre ==
  ASSUME NEW n \in Nat
  PROVE  Numbers(n) \in Seq(1 .. n) /\ Len(Numbers(n)) = n /\ DOMAIN Numbers(n) = 1 .. n /\ \A k \in 1 .. n : Numbers(n)[k] = k
BY DEF Numbers

\* A further number behind a list.
LEMMA ListsAppend ==
  ASSUME NEW u, NEW I, Lists(u, I), NEW x \in Int, \A y \in I : y < x
  PROVE  Lists(Append(u, x), I \cup {x})
<1> DEFINE w == Append(u, x)
           n == Len(u)
<1>1. u \in Seq(Int) /\ RisingTo(u) /\ \A y : y \in I <=> \E k \in DOMAIN u : u[k] = y
  BY DEF Lists
<1>2. w \in Seq(Int) /\ Len(w) = n + 1 /\ n \in Nat /\ w[n + 1] = x /\ \A i \in 1 .. n : w[i] = u[i]
  BY <1>1
<1>3. DOMAIN w = 1 .. n + 1 /\ DOMAIN u = 1 .. n
  BY <1>1, <1>2
<1> HIDE DEF w, n
<1>4. \A i \in 1 .. n : u[i] < x
  BY <1>1, <1>3
<1>5. ASSUME NEW k \in 1 .. n + 1, NEW l \in 1 .. n + 1, k < l PROVE w[k] < w[l]
  <2>1. k \in 1 .. n
    BY <1>2, <1>5
  <2>2. CASE l = n + 1
    BY <1>2, <1>4, <2>1, <2>2
  <2>3. CASE l # n + 1
    <3>1. l \in 1 .. n
      BY <1>2, <2>3
    <3>2. u[k] < u[l]
      BY <1>1, <1>3, <1>5, <2>1, <3>1 DEF RisingTo
    <3> QED BY <1>2, <2>1, <3>1, <3>2
  <2> QED BY <2>2, <2>3
<1>6. ASSUME NEW y \in I \cup {x} PROVE \E k \in 1 .. n + 1 : w[k] = y
  <2>1. CASE y = x
    BY <1>2, <2>1
  <2>2. CASE y \in I
    <3>1. PICK k \in 1 .. n : u[k] = y
      BY <1>1, <1>3, <2>2
    <3>2. k \in 1 .. n + 1
      BY <1>2
    <3> QED BY <1>2, <3>1, <3>2
  <2> QED BY <2>1, <2>2
<1>7. ASSUME NEW k \in 1 .. n + 1 PROVE w[k] \in I \cup {x}
  <2>1. CASE k = n + 1
    BY <1>2, <2>1
  <2>2. CASE k # n + 1
    <3>1. k \in 1 .. n
      BY <1>2, <2>2
    <3> QED BY <1>1, <1>2, <1>3, <3>1
  <2> QED BY <2>1, <2>2
<1> QED BY <1>2, <1>3, <1>5, <1>6, <1>7 DEF Lists, RisingTo, w

\* What is chosen of the first numbers lists the places.
LEMMA ChosenLists ==
  ASSUME NEW n \in Nat, NEW I \in SUBSET (1 .. n)
  PROVE  Lists(Chosen(Numbers(n), I), I)
<1> DEFINE seq == Numbers(n)
           A == Seq(1 .. n)
           g == ChosenSteps(1 .. n, seq, I)
           G == [k \in 0 .. n |-> {u \in A : Lists(u, I \cap (1 .. k))}]
<1>1. seq \in Seq(1 .. n) /\ Len(seq) = n /\ DOMAIN seq = 1 .. n /\ \A k \in 1 .. n : seq[k] = k
  BY NumbersAre
<1> HIDE DEF seq
<1>2. PICK v : Runs(v, A, <<>>, g, n) /\ Chosen(seq, I) = v[n]
  <2>1. \E v : Runs(v, A, <<>>, g, Len(seq)) /\ Chosen(seq, I) = v[Len(seq)]
    BY <1>1, ChosenRuns
  <2> HIDE DEF A, g
  <2> QED BY <1>1, <2>1
<1>3. <<>> \in G[0]
  <2>1. Lists(<<>>, {})
    BY DEF Lists, RisingTo
  <2>2. I \cap (1 .. 0) = {}
    OBVIOUS
  <2>3. <<>> \in A
    OBVIOUS
  <2> QED BY <2>1, <2>2, <2>3
<1>4. ASSUME NEW k \in 1 .. n, NEW a \in A, a \in G[k - 1] PROVE g[<<a, k>>] \in G[k]
  <2>1. Lists(a, I \cap (1 .. k - 1)) /\ k \in Int /\ k - 1 \in 0 .. n /\ k \in 0 .. n
    BY <1>4
  <2>2. g[<<a, k>>] = IF k \in I THEN Append(a, k) ELSE a
    <3>1. <<a, k>> \in Seq(1 .. n) \X (1 .. Len(seq))
      BY <1>1
    <3>2. g[<<a, k>>] = ChosenStep(seq, I, <<a, k>>)
      BY <3>1 DEF ChosenSteps
    <3> HIDE DEF g
    <3> QED BY <1>1, <3>2 DEF ChosenStep
  <2>3. CASE k \in I
    <3>1. \A y \in I \cap (1 .. k - 1) : y < k
      OBVIOUS
    <3>2. Lists(Append(a, k), (I \cap (1 .. k - 1)) \cup {k})
      BY <2>1, <3>1, ListsAppend
    <3>3. (I \cap (1 .. k - 1)) \cup {k} = I \cap (1 .. k)
      BY <2>3
    <3>4. Append(a, k) \in A
      OBVIOUS
    <3> HIDE DEF g, A
    <3> QED BY <2>1, <2>2, <2>3, <3>2, <3>3, <3>4
  <2>4. CASE k \notin I
    <3>1. I \cap (1 .. k - 1) = I \cap (1 .. k)
      BY <2>4
    <3> HIDE DEF g, A
    <3> QED BY <2>1, <2>2, <2>4, <3>1
  <2> QED BY <2>3, <2>4
<1>5. v[n] \in G[n]
  <2>1. Runs(v, A, <<>>, g, n)
    BY <1>2
  <2> HIDE DEF A, g, G
  <2> HIDE <1>2
  <2> QED BY <1>3, <1>4, <2>1, RunsStay, ZenonT(40)
<1>6. I \cap (1 .. n) = I /\ G[n] = {u \in A : Lists(u, I \cap (1 .. n))}
  <2>1. n \in 0 .. n
    OBVIOUS
  <2>2. G[n] = {u \in A : Lists(u, I \cap (1 .. n))}
    <3> HIDE DEF A
    <3> QED BY <2>1
  <2>3. I \cap (1 .. n) = I
    <3> HIDE DEF G, A
    <3> QED OBVIOUS
  <2> QED BY <2>2, <2>3
<1>7. Lists(v[n], I)
  <2> HIDE DEF A, G
  <2> QED BY <1>5, <1>6
<1> QED BY <1>2, <1>7 DEF seq

-----------------------------------------------------------------------------
\* The piles of the patience diff, and its candidates.

\* What the sorting into piles works on.
PileStates(n) == [tails : Seq(1 .. n), parent : Seq(0 .. n)]
\* No pile, before the first candidate.
PileStart == [tails |-> <<>>, parent |-> <<>>]
\* The steps of Piles as a function, for Runs.
PileSteps(cands, keepFirst) ==
  [p \in PileStates(Len(cands)) \X (1 .. Len(cands)) |-> Pile(cands, keepFirst, p[1], p[2])]

\* The piles whose tails end before a candidate.
End2(cands, x) == cands[x][2]
\* A pile is lower when its last candidate ends before x does on the other side.
Lower(cands, s, x) == {t \in DOMAIN s.tails : End2(cands, s.tails[t]) < End2(cands, x)}

\* The candidate x goes on one of the piles or behind the last one: the number of the lower
\* piles is at most that of all.
LEMMA LowerIs ==
  ASSUME NEW n \in Nat, NEW cands, NEW s \in PileStates(n), NEW x
  PROVE  Cardinality(Lower(cands, s, x)) \in 0 .. Len(s.tails)
<1>1. s.tails \in Seq(1 .. n)
  BY DEF PileStates
<1>2. Len(s.tails) \in Nat /\ DOMAIN s.tails = 1 .. Len(s.tails) /\ Len(s.tails) \in Int /\ 1 \in Int
  BY <1>1
<1>3. IsFiniteSet(1 .. Len(s.tails)) /\ Cardinality(1 .. Len(s.tails)) = IF 1 > Len(s.tails) THEN 0 ELSE Len(s.tails) - 1 + 1
  BY <1>2, FS_Interval
<1>4. Lower(cands, s, x) \in SUBSET (1 .. Len(s.tails))
  BY <1>2 DEF Lower
<1>5. /\ IsFiniteSet(Lower(cands, s, x))
      /\ Cardinality(Lower(cands, s, x)) <= Cardinality(1 .. Len(s.tails))
  BY <1>3, <1>4, FS_Subset
<1>6. Cardinality(Lower(cands, s, x)) \in Nat
  BY <1>5, FS_CardinalityType
<1> QED BY <1>2, <1>3, <1>5, <1>6

\* Sorting one more candidate leaves tails and parents that are candidates seen so far.
LEMMA PileIn ==
  ASSUME NEW n \in Nat, NEW cands, NEW keepFirst, NEW s \in PileStates(n), NEW x \in 1 .. n
  PROVE  Pile(cands, keepFirst, s, x) \in PileStates(n)
<1> DEFINE low == Cardinality(Lower(cands, s, x))
           taken == keepFirst /\ \E t \in DOMAIN s.tails : cands[s.tails[t]][2] = cands[x][2]
           tails == IF taken THEN s.tails
                    ELSE IF low = Len(s.tails) THEN Append(s.tails, x) ELSE [s.tails EXCEPT ![low + 1] = x]
           parent == Append(s.parent, IF low > 0 THEN s.tails[low] ELSE 0)
<1>1. Pile(cands, keepFirst, s, x) = [tails |-> tails, parent |-> parent]
  BY Zenon DEF Pile, Lower, End2
<1>2. low \in 0 .. Len(s.tails)
  BY LowerIs
<1>3. s.tails \in Seq(1 .. n) /\ s.parent \in Seq(0 .. n)
  BY DEF PileStates
<1> HIDE DEF low, taken
<1>4. [s.tails EXCEPT ![low + 1] = x] \in Seq(1 .. n)
  <2> DEFINE u == s.tails
             k == low + 1
             e == [u EXCEPT ![k] = x]
  <2>1. u \in Seq(1 .. n) /\ Len(u) \in Nat /\ DOMAIN u = 1 .. Len(u)
    BY <1>3
  <2> HIDE DEF k, u
  <2>2. e = [i \in 1 .. Len(u) |-> IF i = k THEN x ELSE u[i]]
    BY <2>1
  <2>3. \A i \in 1 .. Len(u) : (IF i = k THEN x ELSE u[i]) \in 1 .. n
    BY <2>1
  <2>4. [i \in 1 .. Len(u) |-> IF i = k THEN x ELSE u[i]] \in Seq(1 .. n)
    BY <2>1, <2>3
  <2> QED BY <2>2, <2>4 DEF u, k
<1>5. Append(s.tails, x) \in Seq(1 .. n)
  BY <1>3
<1>6. tails \in Seq(1 .. n)
  BY <1>3, <1>4, <1>5
<1>7. (IF low > 0 THEN s.tails[low] ELSE 0) \in 0 .. n
  BY <1>2, <1>3
<1>8. parent \in Seq(0 .. n)
  BY <1>3, <1>7
<1> HIDE DEF tails, parent
<1> QED BY <1>1, <1>6, <1>8 DEF PileStates

\* The values of the sorting into piles.
LEMMA PileRuns ==
  ASSUME NEW E, NEW cands \in Seq(E), NEW keepFirst
  PROVE  \E v : /\ Runs(v, PileStates(Len(cands)), PileStart, PileSteps(cands, keepFirst), Len(cands))
               /\ Piles(cands, keepFirst) = v[Len(cands)]
<1> DEFINE n == Len(cands)
           A == PileStates(Len(cands))
           base == PileStart
           g == PileSteps(cands, keepFirst)
           ks == Numbers(Len(cands))
           Unfolded(iter, s) == IF s = {} THEN base ELSE Pile(cands, keepFirst, iter[s \ {Max(s)}], ks[Max(s)])
           h == CHOOSE iter : iter = [s \in SUBSET DOMAIN ks |-> Unfolded(iter, s)]
<1>1. n \in Nat /\ base \in A /\ g \in [A \X (1 .. n) -> A]
  <2>1. base \in A
    BY DEF PileStart, PileStates
  <2>2. \A a \in A, k \in 1 .. n : Pile(cands, keepFirst, a, k) \in A
    BY PileIn
  <2>3. g = [p \in A \X (1 .. n) |-> Pile(cands, keepFirst, p[1], p[2])]
    BY DEF PileSteps
  <2> HIDE DEF A, g
  <2> QED BY <2>1, <2>2, <2>3
<1>2. Piles(cands, keepFirst) = h[DOMAIN ks]
  BY DEF Piles, PileStart, FoldLeft, MapThenFoldSet
<1>3. DOMAIN ks = 1 .. n
  BY NumbersAre
<1>4. ASSUME NEW iter \in [SUBSET (1 .. n) -> A], NEW s \in SUBSET (1 .. n), s # {}, Max(s) \in 1 .. n, iter[s \ {Max(s)}] \in A
      PROVE  g[<<iter[s \ {Max(s)}], Max(s)>>] = Unfolded(iter, s)
  <2>1. ks[Max(s)] = Max(s)
    BY <1>1, <1>4, NumbersAre
  <2>2. g = [p \in A \X (1 .. n) |-> Pile(cands, keepFirst, p[1], p[2])]
    BY DEF PileSteps
  <2> HIDE DEF A, g, ks, n
  <2> QED BY <1>4, <2>1, <2>2
<1>5. h = [s \in SUBSET (1 .. n) |-> Unfolded(h, s)]
  <2>1. PICK iter : Solves(iter, A, base, g, n)
    <3> HIDE DEF A, base, g, n
    <3> QED BY <1>1, FoldExists
  <2>2. /\ iter \in [SUBSET (1 .. n) -> A]
        /\ iter = [s \in SUBSET (1 .. n) |-> IF s = {} THEN base ELSE g[<<iter[s \ {Max(s)}], Max(s)>>]]
    BY <2>1 DEF Solves
  <2>3. ASSUME NEW s \in SUBSET (1 .. n), s # {}
        PROVE  g[<<iter[s \ {Max(s)}], Max(s)>>] = Unfolded(iter, s)
    <3>1. Max(s) \in 1 .. n
      <4>1. s \in SUBSET (0 .. n)
        OBVIOUS
      <4> QED BY <1>1, <2>3, <4>1, MaxIn
    <3>2. iter[s \ {Max(s)}] \in A
      BY <2>2
    <3> HIDE DEF A, base, g, n, Unfolded, ks
    <3> QED BY <1>4, <2>2, <2>3, <3>1, <3>2
  <2>4. Unfolded(iter, {}) = base
    OBVIOUS
  <2> HIDE DEF A, base, g, n, Unfolded, ks
  <2>5. iter = [s \in SUBSET (1 .. n) |-> Unfolded(iter, s)]
    <3>1. \A s \in SUBSET (1 .. n) : (IF s = {} THEN base ELSE g[<<iter[s \ {Max(s)}], Max(s)>>]) = Unfolded(iter, s)
      BY <2>3, <2>4
    <3> QED BY <2>2, <3>1
  <2> QED BY <1>3, <2>5 DEF h
<1> HIDE DEF h
<1>6. h[{}] = base
  <2>1. {} \in SUBSET (1 .. n) /\ Unfolded(h, {}) = base
    OBVIOUS
  <2> HIDE DEF A, base, g, n, Unfolded, ks
  <2> QED BY <1>5, <2>1
<1>7. ASSUME NEW k \in 1 .. n, h[1 .. k - 1] \in A PROVE h[1 .. k] = g[<<h[1 .. k - 1], k>>]
  <2>1. (1 .. k) \in SUBSET (1 .. n) /\ 1 .. k # {} /\ (1 .. k) \ {k} = 1 .. k - 1
    BY <1>1, FirstNumbers
  <2>2. Max(1 .. k) = k
    BY MaxIs
  <2>3. h[1 .. k] = Unfolded(h, 1 .. k)
    <3> HIDE DEF A, base, g, n, Unfolded, ks
    <3> QED BY <1>5, <2>1
  <2>4. Unfolded(h, 1 .. k) = g[<<h[1 .. k - 1], k>>]
    <3>1. ks[k] = k
      BY <1>1, NumbersAre
    <3>2. g = [p \in A \X (1 .. n) |-> Pile(cands, keepFirst, p[1], p[2])]
      BY DEF PileSteps
    <3> HIDE DEF A, g, ks, n
    <3> QED BY <1>7, <2>1, <2>2, <3>1, <3>2
  <2> HIDE DEF A, base, g, n, Unfolded, ks
  <2> QED BY <2>3, <2>4
<1>8. Runs([k \in 0 .. n |-> h[1 .. k]], A, base, g, n)
  <2> HIDE DEF A, base, g, n, Unfolded, ks
  <2> QED BY <1>1, <1>6, <1>7, FoldRuns
<1>9. Piles(cands, keepFirst) = [k \in 0 .. n |-> h[1 .. k]][n]
  <2> HIDE DEF A, base, g, Unfolded, ks
  <2>1. [k \in 0 .. n |-> h[1 .. k]][n] = h[DOMAIN ks]
    BY <1>1, <1>3
  <2> QED BY <1>2, <2>1
<1> QED BY <1>8, <1>9

\* The lines that occur once on both sides pair up with themselves, downwards in A.
LEMMA UniqueIn ==
  ASSUME NEW A \in Seq(Text1), NEW B \in Seq(Text1)
  PROVE  /\ UniqueLines(A, B) \in Seq(Twins(A, B))
         /\ \A k, l \in DOMAIN UniqueLines(A, B) : k < l => UniqueLines(A, B)[k][1] < UniqueLines(A, B)[l][1]
<1> DEFINE Places(s, l) == {j \in DOMAIN s : s[j] = l}
           Once(s, l) == Cardinality(Places(s, l)) = 1
           I == {i \in DOMAIN A : Once(A, A[i]) /\ Once(B, A[i])}
           rows == Chosen(Numbers(Len(A)), I)
           mate(i) == CHOOSE j \in DOMAIN B : B[j] = A[i]
           q == [k \in DOMAIN rows |-> <<rows[k], mate(rows[k])>>]
<1>1. UniqueLines(A, B) = q
  BY DEF UniqueLines
<1>2. Len(A) \in Nat /\ DOMAIN A = 1 .. Len(A)
  OBVIOUS
<1>3. ASSUME NEW i \in I PROVE i \in DOMAIN A /\ <<i, mate(i)>> \in Twins(A, B)
  <2>1. i \in DOMAIN A /\ Once(B, A[i])
    <3> HIDE DEF Once
    <3> QED BY <1>3
  <2>2. {j \in DOMAIN B : B[j] = A[i]} # {}
    <3>1. Cardinality(Places(B, A[i])) = 1
      BY <2>1
    <3>2. Cardinality({}) = 0
      BY FS_EmptySet
    <3>3. Places(B, A[i]) # {}
      <4>1. 0 # 1
        OBVIOUS
      <4> HIDE DEF Places
      <4> QED BY <3>1, <3>2, <4>1, Zenon
    <3> QED BY <3>3
  <2>3. mate(i) \in DOMAIN B /\ B[mate(i)] = A[i]
    BY <2>2
  <2> HIDE DEF mate
  <2> QED BY <2>1, <2>3 DEF Twins
<1>4. Lists(rows, I)
  <2>1. I \in SUBSET (1 .. Len(A))
    BY <1>2
  <2> HIDE DEF I
  <2> QED BY <1>2, <2>1, ChosenLists
<1> HIDE DEF rows, I, mate
<1>5. rows \in Seq(Int) /\ RisingTo(rows) /\ \A k \in DOMAIN rows : rows[k] \in I
  BY <1>4 DEF Lists
<1>6. Len(rows) \in Nat /\ DOMAIN rows = 1 .. Len(rows)
  BY <1>5
<1>7. \A k \in DOMAIN rows : q[k] \in Twins(A, B) /\ q[k][1] = rows[k]
  BY <1>3, <1>5
<1>8. q = [k \in 1 .. Len(rows) |-> q[k]] /\ DOMAIN q = DOMAIN rows
  BY <1>6
<1> HIDE DEF q
<1>9. q \in Seq(Twins(A, B))
  BY <1>6, <1>7, <1>8
<1>10. \A k, l \in DOMAIN q : k < l => q[k][1] < q[l][1]
  <2> SUFFICES ASSUME NEW k \in DOMAIN rows, NEW l \in DOMAIN rows, k < l PROVE q[k][1] < q[l][1]
    BY <1>8
  <2>1. rows[k] < rows[l]
    BY <1>5 DEF RisingTo
  <2>2. q[k][1] = rows[k] /\ q[l][1] = rows[l]
    BY <1>7
  <2> QED BY <2>1, <2>2
<1> QED BY <1>1, <1>9, <1>10

-----------------------------------------------------------------------------
\* A pile's tails rise, and a parent ends before its child.

\* The length of the chain that ends with each candidate: a parent's is one less.
Depths(cands, s, k, depth) ==
  /\ depth \in [1 .. k -> Nat]
  /\ \A t \in DOMAIN s.tails : depth[s.tails[t]] = t
  /\ \A x \in 1 .. k :
       /\ depth[x] >= 1
       /\ depth[x] > 1 => /\ s.parent[x] \in 1 .. x - 1
                          /\ depth[s.parent[x]] = depth[x] - 1
                          /\ End2(cands, s.parent[x]) < End2(cands, x)
\* After k candidates: the tails of the piles end later and later, and the parents have depths.
PilesGood(cands, k) ==
  {s \in PileStates(Len(cands)) :
     /\ s.tails \in Seq(1 .. k) /\ Len(s.parent) = k
     /\ \A t, u \in DOMAIN s.tails : t < u => End2(cands, s.tails[t]) < End2(cands, s.tails[u])
     /\ \E depth : Depths(cands, s, k, depth)}

\* The next candidate goes on the pile behind the last one that ends before it.
LEMMA PileKeepsGood ==
  ASSUME NEW cands, Len(cands) \in Nat, \A x \in 1 .. Len(cands) : End2(cands, x) \in Int,
         NEW k \in 1 .. Len(cands), NEW s \in PilesGood(cands, k - 1)
  PROVE  Pile(cands, FALSE, s, k) \in PilesGood(cands, k)
<1> DEFINE n == Len(cands)
           T == s.tails
           P == s.parent
           L == Len(T)
           low == Cardinality(Lower(cands, s, k))
           T2 == IF low = L THEN Append(T, k) ELSE [T EXCEPT ![low + 1] = k]
           L2 == IF low = L THEN L + 1 ELSE L
           up == IF low > 0 THEN T[low] ELSE 0
           P2 == Append(P, up)
           s2 == [tails |-> T2, parent |-> P2]
           c(x) == End2(cands, x)
<1>1. Pile(cands, FALSE, s, k) = s2
  BY Zenon DEF Pile, Lower, End2
<1>2. s \in PileStates(n) /\ T \in Seq(1 .. k - 1) /\ T \in Seq(1 .. n) /\ P \in Seq(0 .. n) /\ Len(P) = k - 1
  BY DEF PilesGood, PileStates
<1>3. \A t, u \in DOMAIN T : t < u => c(T[t]) < c(T[u])
  BY DEF PilesGood
<1>4. PICK depth : Depths(cands, s, k - 1, depth)
  BY DEF PilesGood
<1>5. L \in Nat /\ DOMAIN T = 1 .. L /\ DOMAIN P = 1 .. k - 1 /\ \A t \in 1 .. L : T[t] \in 1 .. k - 1
  <2>1. L \in Nat /\ DOMAIN T = 1 .. L
    BY <1>2
  <2>2. DOMAIN P = 1 .. k - 1
    BY <1>2
  <2>3. \A t \in 1 .. L : T[t] \in 1 .. k - 1
    BY <1>2, SMTT(30)
  <2> QED BY <2>1, <2>2, <2>3
<1>6. Lower(cands, s, k) = {t \in 1 .. L : c(T[t]) < c(k)}
  BY <1>5 DEF Lower
<1>7. \A x \in 1 .. n : c(x) \in Int
  OBVIOUS
<1>8. k \in Int /\ n \in Nat /\ k <= n /\ 1 <= k /\ \A x \in 1 .. k - 1 : x \in 1 .. n
  OBVIOUS
<1>9. s2 \in PileStates(n)
  <2>1. Pile(cands, FALSE, s, k) \in PileStates(n)
    BY <1>2, PileIn
  <2> HIDE DEF s2
  <2> QED BY <1>1, <2>1
<1> HIDE DEF c
<1>10. \A t \in 1 .. L : c(T[t]) \in Int /\ T[t] \in 1 .. n
  BY <1>5, <1>7, <1>8
<1>11. low \in 0 .. L /\ Lower(cands, s, k) = 1 .. low
  <2> DEFINE S2 == Lower(cands, s, k)
  <2>1. S2 \in SUBSET (1 .. L)
    BY <1>6
  <2>2. ASSUME NEW t \in S2, NEW u \in 1 .. t PROVE u \in S2
    <3>1. t \in 1 .. L /\ u \in 1 .. L /\ c(T[t]) < c(k) /\ c(k) \in Int
      BY <1>5, <1>6, <1>7
    <3>2. CASE u = t
      BY <3>2
    <3>3. CASE u # t
      <4>1. u < t
        BY <3>1, <3>3
      <4>2. c(T[u]) < c(T[t])
        BY <1>3, <1>5, <3>1, <4>1
      <4>3. c(T[u]) < c(k)
        BY <1>10, <3>1, <4>2, SMTT(30)
      <4> QED BY <1>6, <3>1, <4>3
    <3> QED BY <3>2, <3>3
  <2> HIDE DEF S2, L
  <2>3. Cardinality(S2) \in 0 .. L /\ S2 = 1 .. Cardinality(S2)
    BY <1>5, <2>1, <2>2, DownClosed
  <2> QED BY <2>3 DEF S2
<1>12. \A t \in 1 .. L : t <= low <=> c(T[t]) < c(k)
  BY <1>5, <1>6, <1>11
<1> HIDE DEF low
<1>13. T2 \in Seq(1 .. k) /\ DOMAIN T2 = 1 .. L2 /\ T2[low + 1] = k /\ low + 1 \in 1 .. L2
       /\ \A t \in 1 .. L2 : t # low + 1 => t \in 1 .. L /\ T2[t] = T[t]
  <2>0. \A t \in 1 .. L : T[t] \in 1 .. k
    BY <1>5, <1>8
  <2>1. CASE low = L
    <3>1. T2 = Append(T, k) /\ L2 = L + 1
      BY <2>1
    <3>2. T \in Seq(1 .. k) /\ k \in 1 .. k
      BY <1>2, <1>8
    <3>3. Append(T, k) \in Seq(1 .. k) /\ Len(Append(T, k)) = L + 1 /\ Append(T, k)[L + 1] = k
          /\ \A t \in 1 .. L : Append(T, k)[t] = T[t]
      BY <3>2
    <3>4. DOMAIN Append(T, k) = 1 .. L + 1
      BY <3>3
    <3>5. \A t \in 1 .. L + 1 : t # L + 1 => t \in 1 .. L
      BY <1>5
    <3>6. L + 1 \in 1 .. L + 1
      BY <1>5
    <3> HIDE DEF T2, L2, T, L
    <3> QED BY <2>1, <3>1, <3>3, <3>4, <3>5, <3>6
  <2>2. CASE low # L
    <3>1. T2 = [T EXCEPT ![low + 1] = k] /\ L2 = L
      BY <2>2
    <3>2. low + 1 \in 1 .. L
      BY <1>5, <1>11, <2>2
    <3> HIDE DEF T2, L2
    <3>3. T2 = [t \in 1 .. L |-> IF t = low + 1 THEN k ELSE T[t]]
      BY <1>5, <3>1
    <3>4. \A t \in 1 .. L : (IF t = low + 1 THEN k ELSE T[t]) \in 1 .. k
      BY <1>8, <2>0
    <3>5. T2 \in Seq(1 .. k)
      <4>1. L \in Nat
        BY <1>5
      <4> HIDE DEF T, L
      <4> QED BY <3>3, <3>4, <4>1
    <3> QED BY <3>1, <3>2, <3>3, <3>5
  <2> QED BY <2>1, <2>2
<1>14. P2 \in Seq(0 .. n) /\ Len(P2) = k /\ P2[k] = up /\ \A x \in 1 .. k - 1 : P2[x] = P[x]
  <2>1. up \in 0 .. n
    BY <1>10, <1>11, <1>5
  <2> HIDE DEF up, P
  <2> QED BY <1>2, <1>8, <2>1
<1>15. ASSUME NEW t \in 1 .. L2, NEW u \in 1 .. L2, t < u PROVE c(T2[t]) < c(T2[u])
  <2> HIDE DEF T2, T, L
  <2>1. CASE t # low + 1 /\ u # low + 1
    BY <1>3, <1>5, <1>13, <1>15, <2>1
  <2>2. CASE u = low + 1
    <3>1. t # low + 1 /\ t \in 1 .. L /\ t <= low
      BY <1>5, <1>11, <1>13, <1>15, <2>2
    <3> QED BY <1>12, <1>13, <2>2, <3>1
  <2>3. CASE t = low + 1 /\ u # low + 1
    <3>1. u \in 1 .. L /\ T2[u] = T[u] /\ T2[t] = k
      BY <1>13, <2>3
    <3>2. low + 1 \in 1 .. L /\ low + 1 < u
      BY <1>5, <1>11, <1>15, <2>3, <3>1
    <3>3. ~(c(T[low + 1]) < c(k))
      <4>1. ~(low + 1 <= low)
        BY <1>11
      <4> QED BY <1>12, <3>2, <4>1
    <3>4. c(T[low + 1]) < c(T[u])
      BY <1>3, <1>5, <3>1, <3>2
    <3>5. c(T[low + 1]) \in Int /\ c(T[u]) \in Int /\ c(k) \in Int
      BY <1>7, <1>10, <3>1, <3>2
    <3>6. c(k) < c(T[u])
      BY <3>3, <3>4, <3>5
    <3> QED BY <3>1, <3>6
  <2> QED BY <2>1, <2>2, <2>3
<1> DEFINE depth2 == [x \in 1 .. k |-> IF x = k THEN low + 1 ELSE depth[x]]
<1>16. /\ depth \in [1 .. k - 1 -> Nat]
       /\ \A t \in 1 .. L : depth[T[t]] = t
       /\ \A x \in 1 .. k - 1 : /\ depth[x] >= 1
                               /\ depth[x] > 1 => P[x] \in 1 .. x - 1 /\ depth[P[x]] = depth[x] - 1 /\ c(P[x]) < c(x)
  BY <1>4, <1>5 DEF Depths, c
<1>17. \A x \in 1 .. k - 1 : depth[x] >= 1
  BY <1>4 DEF Depths
<1>18. depth2 \in [1 .. k -> Nat] /\ depth2[k] = low + 1 /\ \A x \in 1 .. k - 1 : x \in 1 .. k /\ x # k /\ depth2[x] = depth[x]
  <2>1. low + 1 \in Nat
    BY <1>5, <1>11
  <2>2. \A x \in 1 .. k : x # k => x \in 1 .. k - 1
    BY <1>8
  <2>3. \A x \in 1 .. k - 1 : x \in 1 .. k /\ x # k
    BY <1>8
  <2>4. k \in 1 .. k
    BY <1>8
  <2>5. \A x \in 1 .. k - 1 : depth[x] \in Nat
    BY <1>16
  <2> HIDE DEF T, P, L
  <2> QED BY <2>1, <2>2, <2>3, <2>4, <2>5
<1> HIDE DEF depth2
<1>19. ASSUME NEW t \in 1 .. L2 PROVE depth2[T2[t]] = t
  <2> HIDE DEF T2, T, L, L2
  <2>1. CASE t = low + 1
    BY <1>13, <1>18, <2>1
  <2>2. CASE t # low + 1
    <3>1. t \in 1 .. L /\ T2[t] = T[t] /\ T[t] \in 1 .. k - 1
      BY <1>5, <1>13, <2>2
    <3> QED BY <1>16, <1>18, <3>1
  <2> QED BY <2>1, <2>2
<1>20. ASSUME NEW x \in 1 .. k
       PROVE  /\ depth2[x] >= 1
              /\ depth2[x] > 1 => P2[x] \in 1 .. x - 1 /\ depth2[P2[x]] = depth2[x] - 1 /\ c(P2[x]) < c(x)
  <2> HIDE DEF T2, L2, P2
  <2>1. CASE x = k
    <3>1. depth2[x] = low + 1 /\ low \in Nat /\ P2[x] = up
      BY <1>5, <1>11, <1>14, <1>18, <2>1
    <3>2. ASSUME low > 0 PROVE up \in 1 .. k - 1 /\ depth2[up] = low /\ c(up) < c(k)
      <4>1. low \in 1 .. L /\ low <= low
        BY <1>5, <1>11, <3>2
      <4>2. up = T[low]
        BY <3>2
      <4> HIDE DEF up, T, L
      <4>3. up \in 1 .. k - 1 /\ depth[up] = low /\ c(up) < c(k)
        BY <1>5, <1>12, <1>16, <4>1, <4>2
      <4> QED BY <1>18, <4>3
    <3> HIDE DEF up
    <3> QED BY <2>1, <3>1, <3>2
  <2>2. CASE x # k
    <3>1. x \in 1 .. k - 1 /\ depth2[x] = depth[x] /\ P2[x] = P[x]
      BY <1>8, <1>14, <1>18, <2>2, SMTT(30)
    <3>2. ASSUME depth[x] > 1 PROVE P[x] \in 1 .. x - 1 /\ depth2[P[x]] = depth[x] - 1 /\ c(P[x]) < c(x)
      <4>1. P[x] \in 1 .. x - 1 /\ depth[P[x]] = depth[x] - 1 /\ c(P[x]) < c(x)
        BY <1>16, <3>1, <3>2
      <4>2. P[x] \in 1 .. k - 1
        <5>1. x \in Int /\ x <= k - 1 /\ k \in Int
          BY <1>8, <3>1
        <5>2. \A y \in 1 .. x - 1 : y \in 1 .. k - 1
          BY <5>1
        <5>3. P[x] \in 1 .. x - 1
          BY <4>1
        <5> HIDE DEF P
        <5> QED BY <5>2, <5>3, Zenon
      <4> QED BY <1>18, <4>1, <4>2
    <3>3. depth[x] >= 1
      BY <1>17, <3>1
    <3> HIDE DEF P
    <3> QED BY <3>1, <3>2, <3>3
  <2> QED BY <2>1, <2>2
<1> HIDE DEF T2, P2, L2, T, P, L
<1>21. s2.tails = T2 /\ s2.parent = P2
  OBVIOUS
<1> HIDE DEF s2
<1>22. Depths(cands, s2, k, depth2)
  BY <1>13, <1>18, <1>19, <1>20, <1>21 DEF Depths, c
<1>23. \A t, u \in DOMAIN s2.tails : t < u => End2(cands, s2.tails[t]) < End2(cands, s2.tails[u])
  BY <1>13, <1>15, <1>21 DEF c
<1>24. s2 \in PilesGood(cands, k)
  BY <1>9, <1>13, <1>14, <1>21, <1>22, <1>23 DEF PilesGood
<1> QED BY <1>1, <1>24

-----------------------------------------------------------------------------
\* The chain along the parents.

\* All candidates sorted, the tails of the piles end later and later.
LEMMA PilesEnd ==
  ASSUME NEW E, NEW cands \in Seq(E), \A x \in 1 .. Len(cands) : End2(cands, x) \in Int
  PROVE  Piles(cands, FALSE) \in PilesGood(cands, Len(cands))
<1> DEFINE n == Len(cands)
           A == PileStates(Len(cands))
           g == PileSteps(cands, FALSE)
           G == [k \in 0 .. n |-> PilesGood(cands, k)]
<1>1. n \in Nat
  OBVIOUS
<1>2. PICK v : Runs(v, A, PileStart, g, n) /\ Piles(cands, FALSE) = v[n]
  <2>1. \E v : Runs(v, A, PileStart, g, n) /\ Piles(cands, FALSE) = v[n]
    BY PileRuns
  <2> HIDE DEF A, g, n
  <2> QED BY <2>1
<1>3. PileStart \in G[0]
  <2>1. 0 \in 0 .. n /\ 1 .. 0 = {}
    BY <1>1
  <2>2. PileStart.tails = <<>> /\ PileStart.parent = <<>> /\ PileStart \in PileStates(n)
    BY DEF PileStart, PileStates
  <2>3. Depths(cands, PileStart, 0, [x \in 1 .. 0 |-> 0])
    <3>1. DOMAIN PileStart.tails = {}
      BY <2>2
    <3>2. [x \in 1 .. 0 |-> 0] \in [1 .. 0 -> Nat]
      OBVIOUS
    <3> QED BY <2>1, <3>1, <3>2 DEF Depths
  <2>4. PileStart \in PilesGood(cands, 0)
    <3>1. PileStart.tails \in Seq(1 .. 0) /\ Len(PileStart.parent) = 0 /\ DOMAIN PileStart.tails = {}
      BY <2>2
    <3> QED BY <2>2, <2>3, <3>1 DEF PilesGood
  <2> QED BY <2>1, <2>4
<1>4. ASSUME NEW k \in 1 .. n, NEW a \in A, a \in G[k - 1] PROVE g[<<a, k>>] \in G[k]
  <2>1. a \in PilesGood(cands, k - 1) /\ k - 1 \in 0 .. n /\ k \in 0 .. n
    <3>1. k - 1 \in 0 .. n /\ k \in 0 .. n
      BY <1>1
    <3> QED BY <1>4, <3>1
  <2>2. Pile(cands, FALSE, a, k) \in PilesGood(cands, k)
    <3>1. k \in 1 .. Len(cands) /\ Len(cands) \in Nat
      BY <1>1
    <3> HIDE DEF n, A, G
    <3> QED BY <2>1, <3>1, PileKeepsGood
  <2>3. g[<<a, k>>] = Pile(cands, FALSE, a, k)
    BY DEF PileSteps
  <2> HIDE DEF g, A
  <2> QED BY <2>1, <2>2, <2>3
<1>5. v[n] \in G[n]
  <2>1. Runs(v, A, PileStart, g, n)
    BY <1>2
  <2> HIDE DEF A, g, G, n
  <2> HIDE <1>2
  <2> QED BY <1>1, <1>3, <1>4, <2>1, RunsStay
<1>6. G[n] = PilesGood(cands, n)
  BY <1>1
<1> HIDE DEF G
<1> QED BY <1>2, <1>5, <1>6

\* A solution of the recursion along the parents, from the last tail.
ChainAt(at, s) == at = [k \in DOMAIN s.tails |-> IF k = Len(s.tails) THEN s.tails[k] ELSE s.parent[at[k + 1]]]

\* The recursion from the last tail along the parents has a solution, for every pile
\* the code can have built: there is a parent wherever it asks for one.
LEMMA ChainExists ==
  ASSUME NEW cands, Len(cands) \in Nat, NEW s \in PilesGood(cands, Len(cands))
  PROVE  \E at : ChainAt(at, s)
<1> DEFINE n == Len(cands)
           T == s.tails
           L == Len(T)
           Next1(a, k) == IF k = L THEN T[k] ELSE s.parent[a[k + 1]]
<1>1. PICK depth : Depths(cands, s, n, depth)
  BY DEF PilesGood
<1>2. T \in Seq(1 .. n)
  BY DEF PilesGood
<1>3. n \in Nat /\ L \in Nat /\ DOMAIN T = 1 .. L /\ \A t \in 1 .. L : T[t] \in 1 .. n
  BY <1>2
<1>4. \A t \in 1 .. L : depth[T[t]] = t
  BY <1>1, <1>3 DEF Depths
<1>5. \A x \in 1 .. n : depth[x] > 1 => s.parent[x] \in 1 .. x - 1 /\ depth[s.parent[x]] = depth[x] - 1
  BY <1>1 DEF Depths
<1>6. \A x \in 1 .. n : \A y \in 1 .. x - 1 : y \in 1 .. n
  BY <1>3
<1> HIDE DEF n, T, L
<1> DEFINE Fits(a, k) == a[k] = Next1(a, k) /\ depth[a[k]] = k
           P == {j \in Nat : j < L => \E a \in [1 .. L -> 1 .. n] : \A k \in L - j .. L : Fits(a, k)}
<1>7. 0 \in P
  <2> SUFFICES ASSUME 0 < L PROVE \E a \in [1 .. L -> 1 .. n] : \A k \in L - 0 .. L : Fits(a, k)
    OBVIOUS
  <2> DEFINE a == [i \in 1 .. L |-> T[L]]
  <2>1. L \in 1 .. L /\ \A k \in L - 0 .. L : k = L
    BY <1>3
  <2>2. a \in [1 .. L -> 1 .. n] /\ a[L] = T[L] /\ depth[T[L]] = L
    BY <1>3, <1>4, <2>1
  <2> HIDE DEF a
  <2>3. Fits(a, L)
    BY <2>2
  <2> HIDE DEF Fits
  <2> QED BY <2>1, <2>2, <2>3
<1>8. ASSUME NEW j \in Nat, j \in P PROVE j + 1 \in P
  <2> SUFFICES ASSUME j + 1 < L PROVE \E a \in [1 .. L -> 1 .. n] : \A k \in L - (j + 1) .. L : Fits(a, k)
    OBVIOUS
  <2> DEFINE i == L - (j + 1)
  <2>1. i \in 1 .. L /\ i + 1 \in 1 .. L /\ i + 1 = L - j /\ i # L /\ i + 1 > 1 /\ j < L
    BY <1>3
  <2>2. PICK a \in [1 .. L -> 1 .. n] : \A k \in L - j .. L : Fits(a, k)
    <3> HIDE DEF Fits
    <3> QED BY <1>8, <2>1
  <2> HIDE DEF i
  <2>3. depth[a[i + 1]] = i + 1 /\ a[i + 1] \in 1 .. n
    <3>1. i + 1 \in L - j .. L
      BY <1>3, <2>1
    <3>2. Fits(a, i + 1)
      <4> HIDE DEF Fits
      <4> QED BY <2>2, <3>1
    <3> QED BY <2>1, <3>2
  <2> DEFINE p == s.parent[a[i + 1]]
             b == [a EXCEPT ![i] = p]
  <2>4. p \in 1 .. n /\ depth[p] = i
    <3>1. p \in 1 .. a[i + 1] - 1 /\ depth[p] = depth[a[i + 1]] - 1
      BY <1>5, <2>1, <2>3
    <3>2. i + 1 - 1 = i
      BY <2>1
    <3> HIDE DEF p
    <3>3. p \in 1 .. n
      BY <1>6, <2>3, <3>1
    <3>4. depth[p] = i
      BY <2>1, <2>3, <3>1, <3>2
    <3> QED BY <3>3, <3>4
  <2>5. b \in [1 .. L -> 1 .. n] /\ b[i] = p /\ \A k \in 1 .. L : k # i => b[k] = a[k]
    <3> HIDE DEF p
    <3> QED BY <2>1, <2>2, <2>4
  <2>6. ASSUME NEW k \in L - (j + 1) .. L PROVE Fits(b, k)
    <3>1. CASE k = i
      <4>1. b[i + 1] = a[i + 1]
        BY <2>1, <2>5
      <4> HIDE DEF b
      <4> QED BY <2>1, <2>4, <2>5, <3>1, <4>1
    <3>2. CASE k # i
      <4>1. k \in L - j .. L /\ k \in 1 .. L /\ (k # L => k + 1 \in 1 .. L /\ k + 1 # i)
        BY <1>3, <2>1, <3>2
      <4>2. a[k] = Next1(a, k) /\ depth[a[k]] = k
        BY <2>2, <4>1
      <4>3. b[k] = a[k] /\ (k # L => b[k + 1] = a[k + 1])
        BY <2>5, <3>2, <4>1
      <4>4. Next1(b, k) = Next1(a, k)
        <5> HIDE DEF b
        <5> QED BY <4>3
      <4> HIDE DEF b, Next1
      <4> QED BY <4>2, <4>3, <4>4
    <3> QED BY <3>1, <3>2
  <2> HIDE DEF b, Fits
  <2> QED BY <2>5, <2>6
<1>9. CASE L = 0
  <2>1. DOMAIN T = {}
    BY <1>3, <1>9
  <2>2. ChainAt([k \in {} |-> 0], s)
    BY <2>1 DEF ChainAt, T
  <2> QED BY <2>2
<1>10. CASE L # 0
  <2>1. L - 1 \in Nat /\ L - 1 < L /\ L - (L - 1) = 1
    BY <1>3, <1>10
  <2>2. L - 1 \in P
    <3> HIDE DEF P
    <3> QED BY <1>7, <1>8, <2>1, NatSet
  <2>3. PICK a \in [1 .. L -> 1 .. n] : \A k \in 1 .. L : Fits(a, k)
    <3> HIDE DEF Fits
    <3> QED BY <2>1, <2>2
  <2>4. a = [k \in 1 .. L |-> Next1(a, k)]
    BY <2>3
  <2> HIDE DEF Next1
  <2>5. ChainAt(a, s)
    BY <1>3, <2>4 DEF ChainAt, Next1, T, L
  <2> QED BY <2>5
<1> QED BY <1>9, <1>10

\* The chain goes up on both sides.
LEMMA ChainRises ==
  ASSUME NEW E, NEW cands \in Seq(E), \A x \in 1 .. Len(cands) : End2(cands, x) \in Int,
         NEW s \in PilesGood(cands, Len(cands)), NEW at, ChainAt(at, s)
  PROVE  /\ \A k \in 1 .. Len(s.tails) : at[k] \in 1 .. Len(cands)
         /\ \A k, l \in 1 .. Len(s.tails) : k < l => at[k] < at[l] /\ End2(cands, at[k]) < End2(cands, at[l])
<1> DEFINE n == Len(cands)
           T == s.tails
           L == Len(T)
           c(x) == End2(cands, x)
<1>1. PICK depth : Depths(cands, s, n, depth)
  BY DEF PilesGood
<1>2. T \in Seq(1 .. n)
  BY DEF PilesGood
<1>3. n \in Nat /\ L \in Nat /\ DOMAIN T = 1 .. L /\ \A t \in 1 .. L : T[t] \in 1 .. n
  BY <1>2
<1>4. \A t \in 1 .. L : depth[T[t]] = t
  BY <1>1, <1>3 DEF Depths
<1>5. \A x \in 1 .. n : depth[x] > 1 => s.parent[x] \in 1 .. x - 1 /\ depth[s.parent[x]] = depth[x] - 1 /\ c(s.parent[x]) < c(x)
  BY <1>1 DEF Depths
<1>6. \A x \in 1 .. n : \A y \in 1 .. x - 1 : y \in 1 .. n
  BY <1>3
<1>7. \A k \in 1 .. L : at[k] = IF k = L THEN T[k] ELSE s.parent[at[k + 1]]
  BY <1>3 DEF ChainAt
<1>8. \A x \in 1 .. n : c(x) \in Int
  OBVIOUS
<1> HIDE DEF n, T, L, c
<1> DEFINE P == {j \in Nat : j < L => at[L - j] \in 1 .. n /\ depth[at[L - j]] = L - j}
<1>9. 0 \in P
  <2> SUFFICES ASSUME 0 < L PROVE at[L - 0] \in 1 .. n /\ depth[at[L - 0]] = L - 0
    OBVIOUS
  <2>1. L - 0 = L /\ L \in 1 .. L
    BY <1>3
  <2>2. at[L] = T[L]
    BY <1>7, <2>1
  <2> QED BY <1>3, <1>4, <2>1, <2>2
<1>10. ASSUME NEW j \in Nat, j \in P PROVE j + 1 \in P
  <2> SUFFICES ASSUME j + 1 < L PROVE at[L - (j + 1)] \in 1 .. n /\ depth[at[L - (j + 1)]] = L - (j + 1)
    OBVIOUS
  <2> DEFINE i == L - (j + 1)
  <2>1. i \in 1 .. L /\ i + 1 = L - j /\ i # L /\ i + 1 > 1 /\ j < L /\ i + 1 - 1 = i
    BY <1>3
  <2>2. at[L - j] \in 1 .. n /\ depth[at[L - j]] = L - j
    BY <1>10, <2>1
  <2> HIDE DEF i
  <2>3. at[i + 1] \in 1 .. n /\ depth[at[i + 1]] = i + 1
    BY <2>1, <2>2
  <2>4. at[i] = s.parent[at[i + 1]]
    BY <1>7, <2>1
  <2>5. at[i] \in 1 .. at[i + 1] - 1 /\ depth[at[i]] = depth[at[i + 1]] - 1
    BY <1>5, <2>1, <2>3, <2>4
  <2>6. at[i] \in 1 .. n /\ depth[at[i]] = i
    BY <1>6, <2>1, <2>3, <2>5
  <2> QED BY <2>6 DEF i
<1>11. Nat \subseteq P
  <2> HIDE DEF P
  <2> QED BY <1>9, <1>10, NatSet
<1>12. ASSUME NEW k \in 1 .. L PROVE at[k] \in 1 .. n /\ depth[at[k]] = k
  <2>1. L - k \in Nat /\ L - k < L /\ L - (L - k) = k
    BY <1>3
  <2>2. L - k \in P
    <3> HIDE DEF P
    <3> QED BY <1>11, <2>1
  <2> QED BY <2>1, <2>2
<1>13. ASSUME NEW k \in 1 .. L, k < L PROVE at[k] < at[k + 1] /\ c(at[k]) < c(at[k + 1])
  <2>1. k + 1 \in 1 .. L /\ k # L /\ k + 1 > 1
    BY <1>3, <1>13
  <2>2. at[k + 1] \in 1 .. n /\ depth[at[k + 1]] = k + 1
    BY <1>12, <2>1
  <2>3. at[k] = s.parent[at[k + 1]]
    BY <1>7, <2>1
  <2>4. at[k] \in 1 .. at[k + 1] - 1 /\ c(at[k]) < c(at[k + 1])
    BY <1>5, <2>1, <2>2, <2>3
  <2>5. at[k + 1] \in Int
    BY <1>3, <2>2
  <2> QED BY <2>4, <2>5
<1>14. \A k, l \in 1 .. L : k < l => at[k] < at[l]
  <2>1. \A k \in 1 .. L : at[k] \in Int
    BY <1>3, <1>12
  <2> QED BY <1>3, <1>13, <2>1, Neighbours
<1> DEFINE d == [k \in 1 .. L |-> c(at[k])]
<1>15. \A k, l \in 1 .. L : k < l => d[k] < d[l]
  <2>1. \A k \in 1 .. L : d[k] \in Int
    BY <1>8, <1>12
  <2>2. \A k \in 1 .. L : k < L => d[k] < d[k + 1]
    <3> SUFFICES ASSUME NEW k \in 1 .. L, k < L PROVE d[k] < d[k + 1]
      OBVIOUS
    <3>1. k + 1 \in 1 .. L
      BY <1>3
    <3> QED BY <1>13, <3>1
  <2> HIDE DEF d
  <2> QED BY <1>3, <2>1, <2>2, Neighbours
<1>16. \A k, l \in 1 .. L : k < l => at[k] < at[l] /\ c(at[k]) < c(at[l])
  BY <1>14, <1>15
<1> QED BY <1>12, <1>16 DEF n, L, T, c

-----------------------------------------------------------------------------
\* lineDiffPatience, anchor by anchor.

\* A function of the first n numbers is a sequence.
LEMMA FirstNumbersSeq ==
  ASSUME NEW E, NEW n \in Nat, NEW f \in [1 .. n -> E]
  PROVE  f \in Seq(E) /\ Len(f) = n /\ DOMAIN f = 1 .. n
OBVIOUS

\* The longest increasing run is one.
LEMMA LISIn ==
  ASSUME NEW n \in Nat, NEW m \in Nat, NEW E \in SUBSET ((1 .. n) \X (1 .. m)), NEW cands \in Seq(E),
         \A k, l \in DOMAIN cands : k < l => cands[k][1] < cands[l][1]
  PROVE  ComputeLIS(cands) \in Within(E, 0, n, 0, m)
<1>1. CASE cands = <<>>
  <2>1. ComputeLIS(cands) = <<>>
    BY <1>1 DEF ComputeLIS, LongestIncreasing
  <2> QED BY <2>1, NothingWithin
<1>2. CASE cands # <<>>
  <2> DEFINE s == Piles(cands, FALSE)
             at == CHOOSE at : ChainAt(at, s)
             L == Len(s.tails)
             q == [k \in 1 .. L |-> cands[at[k]]]
  <2>1. \A x \in 1 .. Len(cands) : cands[x] \in E /\ cands[x][1] \in 1 .. n /\ cands[x][2] \in 1 .. m
    <3>1. \A p \in E : p[1] \in 1 .. n /\ p[2] \in 1 .. m
      OBVIOUS
    <3>2. \A x \in 1 .. Len(cands) : cands[x] \in E
      OBVIOUS
    <3> QED BY <3>1, <3>2
  <2>2. \A x \in 1 .. Len(cands) : End2(cands, x) \in Int
    BY <2>1 DEF End2
  <2>3. s \in PilesGood(cands, Len(cands))
    BY <2>2, PilesEnd
  <2> HIDE DEF s
  <2>4. Len(cands) \in Nat /\ DOMAIN cands = 1 .. Len(cands)
    OBVIOUS
  <2>5. ChainAt(at, s)
    <3>1. \E a : ChainAt(a, s)
      BY <2>3, <2>4, ChainExists
    <3> QED BY <3>1
  <2>6. L \in Nat /\ DOMAIN s.tails = 1 .. L
    <3>1. s.tails \in Seq(1 .. Len(cands))
      BY <2>3 DEF PilesGood
    <3> QED BY <3>1
  <2>7. ComputeLIS(cands) = q
    <3>1. ComputeLIS(cands) = LongestChain(cands, s)
      BY <1>2 DEF ComputeLIS, LongestIncreasing, s
    <3>2. LongestChain(cands, s) = [k \in DOMAIN s.tails |-> cands[at[k]]]
      BY DEF LongestChain, ChainAt
    <3> HIDE DEF L, at
    <3> QED BY <2>6, <3>1, <3>2
  <2> HIDE DEF at
  <2>8. /\ \A k \in 1 .. L : at[k] \in 1 .. Len(cands)
        /\ \A k, l \in 1 .. L : k < l => at[k] < at[l] /\ End2(cands, at[k]) < End2(cands, at[l])
    BY <2>2, <2>3, <2>5, ChainRises
  <2> HIDE DEF L
  <2>9. \A k \in 1 .. L : q[k] \in E /\ q[k][1] \in 0 + 1 .. n /\ q[k][2] \in 0 + 1 .. m
    BY <2>1, <2>8
  <2>10. q \in Seq(E)
    <3>1. \A k \in 1 .. L : cands[at[k]] \in E
      BY <2>1, <2>8
    <3>2. q \in [1 .. L -> E]
      <4> HIDE DEF at
      <4> QED BY <3>1
    <3> HIDE DEF q
    <3> QED BY <2>6, <3>2, FirstNumbersSeq
  <2>11. ASSUME NEW k \in 1 .. L, NEW l \in 1 .. L, k < l PROVE q[k][1] < q[l][1] /\ q[k][2] < q[l][2]
    <3>1. at[k] < at[l] /\ End2(cands, at[k]) < End2(cands, at[l]) /\ at[k] \in DOMAIN cands /\ at[l] \in DOMAIN cands
      BY <2>4, <2>8, <2>11
    <3>2. cands[at[k]][1] < cands[at[l]][1]
      BY <3>1
    <3>3. cands[at[k]][2] < cands[at[l]][2]
      BY <3>1 DEF End2
    <3> QED BY <3>2, <3>3
  <2>12. DOMAIN q = 1 .. L
    OBVIOUS
  <2> HIDE DEF q
  <2> QED BY <2>7, <2>9, <2>10, <2>11, <2>12 DEF Within, Monotone
<1> QED BY <1>1, <1>2

\* What the patience diff works on.
PatienceStates(A, B) == [i : 0 .. Len(A) + 1, j : 0 .. Len(B) + 1, pairs : Seq(Twins(A, B))]
\* Nothing is paired before the first anchor.
PatienceStart == [i |-> 0, j |-> 0, pairs |-> <<>>]
\* The steps of lineDiffPatience as a function, for Runs.
PatienceSteps(A, B, chain) ==
  [p \in PatienceStates(A, B) \X (1 .. Len(chain)) |-> UpToAnchor(p[1], chain[p[2]], A, B)]

\* Twins are pairs of line numbers.
LEMMA TwinsAre ==
  ASSUME NEW A \in Seq(Text1), NEW B \in Seq(Text1)
  PROVE  Twins(A, B) \in SUBSET ((1 .. Len(A)) \X (1 .. Len(B))) /\ Len(A) \in Nat /\ Len(B) \in Nat
BY DEF Twins

\* The window in front of an anchor.
WindowTo(s, anchor, A, B) ==
  AlignLineWindow(SubSeq(A, s.i + 1, anchor[1] - 1), SubSeq(B, s.j + 1, anchor[2] - 1), s.i, s.j)

\* The diff up to an anchor has pairs of lines of the same text: those so far, those of the
\* window in front of the anchor, and the anchor unless it is the end of the files.
LEMMA UpToIn ==
  ASSUME NEW A \in Seq(Text1), NEW B \in Seq(Text1), NEW s \in PatienceStates(A, B),
         NEW anchor \in Twins(A, B) \cup {<<Len(A) + 1, Len(B) + 1>>}
  PROVE  UpToAnchor(s, anchor, A, B) \in PatienceStates(A, B)
<1> DEFINE n == Len(A)
           m == Len(B)
           E == Twins(A, B)
           x == anchor[1]
           y == anchor[2]
           window == WindowTo(s, anchor, A, B)
           last == IF x > n THEN <<>> ELSE <<anchor>>
<1>1. n \in Nat /\ m \in Nat /\ E \in SUBSET ((1 .. n) \X (1 .. m))
  BY TwinsAre
<1>2. s.i \in 0 .. n + 1 /\ s.j \in 0 .. m + 1 /\ s.pairs \in Seq(E)
  BY DEF PatienceStates
<1>3. (anchor \in E /\ x \in 1 .. n /\ y \in 1 .. m) \/ (anchor \notin E /\ x = n + 1 /\ y = m + 1)
  <2> HIDE DEF E
  <2>1. CASE anchor \in E
    BY <1>1, <2>1
  <2>2. CASE anchor = <<n + 1, m + 1>>
    <3>1. anchor \notin E
      BY <1>1, <2>2
    <3> QED BY <2>2, <3>1
  <2> QED BY <2>1, <2>2 DEF E
<1>4. UpToAnchor(s, anchor, A, B) = [i |-> x, j |-> y, pairs |-> s.pairs \o window \o last]
  BY DEF UpToAnchor, WindowTo
<1>5. x \in 0 .. n + 1 /\ y \in 0 .. m + 1
  BY <1>1, <1>3
<1>6. window \in Seq(E)
  <2>1. CASE s.i < x /\ s.j < y
    <3>1. s.i \in 0 .. n /\ x - 1 \in s.i .. n /\ s.j \in 0 .. m /\ y - 1 \in s.j .. m
      BY <1>1, <1>2, <1>5, <2>1
    <3>2. window \in Within(E, s.i, x - 1, s.j, y - 1)
      BY <3>1, WindowIn DEF WindowTo
    <3> QED BY <3>2 DEF Within
  <2>2. CASE x <= s.i
    <3>1. s.i \in Nat /\ x - 1 \in Int /\ x - 1 <= s.i
      BY <1>1, <1>2, <1>5, <2>2
    <3>2. Len(SubSeq(A, s.i + 1, x - 1)) = 0
      BY <3>1, WindowEmpty
    <3>3. window = <<>>
      BY <3>2 DEF WindowTo, AlignLineWindow
    <3> QED BY <3>3
  <2>3. CASE y <= s.j
    <3>1. s.j \in Nat /\ y - 1 \in Int /\ y - 1 <= s.j
      BY <1>1, <1>2, <1>5, <2>3
    <3>2. Len(SubSeq(B, s.j + 1, y - 1)) = 0
      BY <3>1, WindowEmpty
    <3>3. window = <<>>
      BY <3>2 DEF WindowTo, AlignLineWindow
    <3> QED BY <3>3
  <2> HIDE DEF x, y
  <2> QED BY <1>1, <1>2, <1>5, <2>1, <2>2, <2>3
<1>7. last \in Seq(E)
  <2>1. CASE anchor \in E
    <3>1. <<anchor>> \in Seq(E)
      BY <2>1
    <3> QED BY <3>1
  <2>2. CASE anchor \notin E
    <3>1. x > n
      BY <1>1, <1>3, <2>2
    <3> QED BY <3>1
  <2> QED BY <2>1, <2>2
<1> HIDE DEF window, last, x, y, E
<1>8. s.pairs \o window \o last \in Seq(E)
  BY <1>2, <1>6, <1>7
<1> QED BY <1>4, <1>5, <1>8 DEF PatienceStates, E

\* The values of the patience diff, anchor by anchor.
LEMMA PatienceRuns ==
  ASSUME NEW A \in Seq(Text1), NEW B \in Seq(Text1), NEW chain \in Seq(Twins(A, B) \cup {<<Len(A) + 1, Len(B) + 1>>}),
         chain = Append(ComputeLIS(UniqueLines(A, B)), <<Len(A) + 1, Len(B) + 1>>)
  PROVE  \E v : /\ Runs(v, PatienceStates(A, B), PatienceStart, PatienceSteps(A, B, chain), Len(chain))
               /\ LineDiffPatience(A, B) = v[Len(chain)].pairs
<1> DEFINE n == Len(chain)
           St == PatienceStates(A, B)
           base == PatienceStart
           g == PatienceSteps(A, B, chain)
           ks == chain
           Unfolded(iter, s) == IF s = {} THEN base ELSE UpToAnchor(iter[s \ {Max(s)}], ks[Max(s)], A, B)
           h == CHOOSE iter : iter = [s \in SUBSET DOMAIN ks |-> Unfolded(iter, s)]
<1>1. n \in Nat /\ base \in St /\ g \in [St \X (1 .. n) -> St]
  <2>0. n \in Nat /\ \A k \in 1 .. n : chain[k] \in Twins(A, B) \cup {<<Len(A) + 1, Len(B) + 1>>}
    OBVIOUS
  <2>1. base \in PatienceStates(A, B)
    BY DEF PatienceStart, PatienceStates
  <2>2. \A a \in PatienceStates(A, B), k \in 1 .. n : UpToAnchor(a, chain[k], A, B) \in PatienceStates(A, B)
    BY <2>0, UpToIn
  <2>3. g = [p \in PatienceStates(A, B) \X (1 .. n) |-> UpToAnchor(p[1], chain[p[2]], A, B)]
    BY DEF PatienceSteps
  <2> HIDE DEF g, n, base
  <2> QED BY <2>0, <2>1, <2>2, <2>3
<1>2. LineDiffPatience(A, B) = h[DOMAIN ks].pairs
  BY DEF LineDiffPatience, PatienceStart, FoldLeft, MapThenFoldSet
<1>3. DOMAIN ks = 1 .. n
  OBVIOUS
<1>4. ASSUME NEW iter \in [SUBSET (1 .. n) -> St], NEW s \in SUBSET (1 .. n), s # {}, Max(s) \in 1 .. n, iter[s \ {Max(s)}] \in St
      PROVE  g[<<iter[s \ {Max(s)}], Max(s)>>] = Unfolded(iter, s)
  <2>1. g = [p \in St \X (1 .. n) |-> UpToAnchor(p[1], ks[p[2]], A, B)]
    BY DEF PatienceSteps
  <2> HIDE DEF St, g, ks, n, base
  <2> QED BY <1>4, <2>1
<1>5. h = [s \in SUBSET (1 .. n) |-> Unfolded(h, s)]
  <2>1. PICK iter : Solves(iter, St, base, g, n)
    <3> HIDE DEF St, base, g, n
    <3> QED BY <1>1, FoldExists
  <2>2. /\ iter \in [SUBSET (1 .. n) -> St]
        /\ iter = [s \in SUBSET (1 .. n) |-> IF s = {} THEN base ELSE g[<<iter[s \ {Max(s)}], Max(s)>>]]
    BY <2>1 DEF Solves
  <2>3. ASSUME NEW s \in SUBSET (1 .. n), s # {}
        PROVE  g[<<iter[s \ {Max(s)}], Max(s)>>] = Unfolded(iter, s)
    <3>1. Max(s) \in 1 .. n
      <4>1. s \in SUBSET (0 .. n)
        OBVIOUS
      <4> QED BY <1>1, <2>3, <4>1, MaxIn
    <3>2. iter[s \ {Max(s)}] \in St
      BY <2>2
    <3> HIDE DEF St, base, g, n, Unfolded, ks
    <3> QED BY <1>4, <2>2, <2>3, <3>1, <3>2
  <2>4. Unfolded(iter, {}) = base
    OBVIOUS
  <2> HIDE DEF St, base, g, n, Unfolded, ks
  <2>5. iter = [s \in SUBSET (1 .. n) |-> Unfolded(iter, s)]
    <3>1. \A s \in SUBSET (1 .. n) : (IF s = {} THEN base ELSE g[<<iter[s \ {Max(s)}], Max(s)>>]) = Unfolded(iter, s)
      BY <2>3, <2>4
    <3> QED BY <2>2, <3>1
  <2> QED BY <1>3, <2>5 DEF h
<1> HIDE DEF h
<1>6. h[{}] = base
  <2>1. {} \in SUBSET (1 .. n) /\ Unfolded(h, {}) = base
    OBVIOUS
  <2> HIDE DEF St, base, g, n, Unfolded, ks
  <2> QED BY <1>5, <2>1
<1>7. ASSUME NEW k \in 1 .. n, h[1 .. k - 1] \in St PROVE h[1 .. k] = g[<<h[1 .. k - 1], k>>]
  <2>1. (1 .. k) \in SUBSET (1 .. n) /\ 1 .. k # {} /\ (1 .. k) \ {k} = 1 .. k - 1
    BY <1>1, FirstNumbers
  <2>2. Max(1 .. k) = k
    BY MaxIs
  <2>3. h[1 .. k] = Unfolded(h, 1 .. k)
    <3> HIDE DEF St, base, g, n, Unfolded, ks
    <3> QED BY <1>5, <2>1
  <2>4. Unfolded(h, 1 .. k) = g[<<h[1 .. k - 1], k>>]
    <3>1. g = [p \in St \X (1 .. n) |-> UpToAnchor(p[1], ks[p[2]], A, B)]
      BY DEF PatienceSteps
    <3> HIDE DEF St, g, ks, n, base
    <3> QED BY <1>7, <2>1, <2>2, <3>1
  <2> HIDE DEF St, base, g, n, Unfolded, ks
  <2> QED BY <2>3, <2>4
<1>8. Runs([k \in 0 .. n |-> h[1 .. k]], St, base, g, n)
  <2> HIDE DEF St, base, g, n, Unfolded, ks
  <2> QED BY <1>1, <1>6, <1>7, FoldRuns
<1>9. LineDiffPatience(A, B) = [k \in 0 .. n |-> h[1 .. k]][n].pairs
  <2> HIDE DEF St, base, g, Unfolded, ks
  <2>1. [k \in 0 .. n |-> h[1 .. k]][n] = h[DOMAIN ks]
    BY <1>1, <1>3
  <2> QED BY <1>2, <2>1
<1> QED BY <1>8, <1>9

-----------------------------------------------------------------------------
\* The patience diff as a whole.

\* One anchor further: the pairs so far, the window in front of the anchor, the anchor.
LEMMA UpToWithin ==
  ASSUME NEW A \in Seq(Text1), NEW B \in Seq(Text1), NEW s \in PatienceStates(A, B),
         NEW anchor \in Twins(A, B) \cup {<<Len(A) + 1, Len(B) + 1>>},
         s.i < anchor[1], s.j < anchor[2], s.pairs \in Within(Twins(A, B), 0, s.i, 0, s.j)
  PROVE  /\ UpToAnchor(s, anchor, A, B).i = anchor[1] /\ UpToAnchor(s, anchor, A, B).j = anchor[2]
         /\ UpToAnchor(s, anchor, A, B).pairs \in Within(Twins(A, B), 0, anchor[1], 0, anchor[2])
<1> DEFINE n == Len(A)
           m == Len(B)
           E == Twins(A, B)
           x == anchor[1]
           y == anchor[2]
           window == WindowTo(s, anchor, A, B)
           last == IF x > n THEN <<>> ELSE <<anchor>>
<1>1. n \in Nat /\ m \in Nat /\ E \in SUBSET ((1 .. n) \X (1 .. m))
  BY TwinsAre
<1>2. s.i \in Nat /\ s.j \in Nat
  BY <1>1 DEF PatienceStates
<1>3. \/ anchor \in E /\ x \in 1 .. n /\ y \in 1 .. m /\ anchor = <<x, y>>
      \/ anchor \notin E /\ x = n + 1 /\ y = m + 1
  <2> HIDE DEF E
  <2>1. CASE anchor \in E
    BY <1>1, <2>1
  <2>2. CASE anchor = <<n + 1, m + 1>>
    <3>1. anchor \notin E
      BY <1>1, <2>2
    <3> QED BY <2>2, <3>1
  <2> QED BY <2>1, <2>2 DEF E
<1>4. UpToAnchor(s, anchor, A, B) = [i |-> x, j |-> y, pairs |-> s.pairs \o window \o last]
  BY DEF UpToAnchor, WindowTo
<1>5. /\ s.i \in 0 .. n /\ x - 1 \in s.i .. n /\ s.j \in 0 .. m /\ y - 1 \in s.j .. m
      /\ x \in Int /\ y \in Int /\ x - 1 \in Int /\ y - 1 \in Int
  <2>1. x \in 1 .. n + 1 /\ y \in 1 .. m + 1
    BY <1>1, <1>3
  <2>2. s.i < x /\ s.j < y
    OBVIOUS
  <2> HIDE DEF x, y, n, m
  <2> QED BY <1>1, <1>2, <2>1, <2>2, SMTT(30)
<1>6. window \in Within(E, s.i, x - 1, s.j, y - 1)
  BY <1>5, WindowIn DEF WindowTo
<1>7. last \in Within(E, x - 1, x, y - 1, y)
  <2>1. CASE anchor \in E
    <3>1. <<x, y>> \in E /\ last = <<<<x, y>>>>
      <4> HIDE DEF E, n, m, x, y
      <4>1. x \in 1 .. n /\ anchor = <<x, y>>
        BY <1>3, <2>1
      <4>2. ~(x > n)
        BY <1>1, <4>1
      <4> QED BY <2>1, <4>1, <4>2
    <3>2. x - 1 < x /\ x <= x /\ y - 1 < y /\ y <= y
      BY <1>5
    <3> HIDE DEF x, y, E, last
    <3>3. <<<<x, y>>>> \in Within(E, x - 1, x, y - 1, y)
      BY <1>5, <3>1, <3>2, OneWithin
    <3> QED BY <3>1, <3>3
  <2>2. CASE anchor \notin E
    <3>1. last = <<>>
      BY <1>1, <1>3, <2>2
    <3> QED BY <3>1, NothingWithin
  <2> QED BY <2>1, <2>2
<1>8. s.pairs \in Within(E, 0, s.i, 0, s.j)
  OBVIOUS
<1> HIDE DEF window, last, x, y, E, n, m
<1>9. s.pairs \o window \in Within(E, 0, x - 1, 0, y - 1)
  <2>1. s.i \in Int /\ s.j \in Int /\ 0 <= s.i /\ s.i <= x - 1 /\ 0 <= s.j /\ s.j <= y - 1
    BY <1>1, <1>2, <1>5
  <2> QED BY <1>5, <1>6, <1>8, <2>1, Join
<1>10. (s.pairs \o window) \o last \in Within(E, 0, x, 0, y)
  <2>1. 0 <= x - 1 /\ x - 1 <= x /\ 0 <= y - 1 /\ y - 1 <= y
    BY <1>1, <1>2, <1>5
  <2> QED BY <1>5, <1>7, <1>9, <2>1, Join
<1>11. UpToAnchor(s, anchor, A, B).i = x /\ UpToAnchor(s, anchor, A, B).j = y
       /\ UpToAnchor(s, anchor, A, B).pairs = (s.pairs \o window) \o last
  BY <1>4
<1> QED BY <1>10, <1>11 DEF x, y, E

\* A chain of twins, closed by the end of both files.
LEMMA ClosedChain ==
  ASSUME NEW n \in Nat, NEW m \in Nat, NEW E \in SUBSET ((1 .. n) \X (1 .. m)), NEW q \in Within(E, 0, n, 0, m)
  PROVE  /\ Append(q, <<n + 1, m + 1>>) \in Seq(E \cup {<<n + 1, m + 1>>})
         /\ \A k \in 1 .. Len(q) + 1 :
              /\ Append(q, <<n + 1, m + 1>>)[k][1] \in Nat \ {0} /\ Append(q, <<n + 1, m + 1>>)[k][2] \in Nat \ {0}
              /\ \A l \in 1 .. Len(q) + 1 : k < l =>
                   /\ Append(q, <<n + 1, m + 1>>)[k][1] < Append(q, <<n + 1, m + 1>>)[l][1]
                   /\ Append(q, <<n + 1, m + 1>>)[k][2] < Append(q, <<n + 1, m + 1>>)[l][2]
         /\ Append(q, <<n + 1, m + 1>>)[Len(q) + 1] = <<n + 1, m + 1>>
<1> DEFINE end == <<n + 1, m + 1>>
           c == Append(q, end)
           L == Len(q)
<1>1. q \in Seq(E) /\ Monotone(q) /\ \A k \in DOMAIN q : q[k][1] \in 1 .. n /\ q[k][2] \in 1 .. m
  BY DEF Within
<1>2. L \in Nat /\ DOMAIN q = 1 .. L
  BY <1>1
<1>3. c \in Seq(E \cup {end}) /\ c[L + 1] = end /\ \A k \in 1 .. L : c[k] = q[k]
  <2> HIDE DEF end
  <2>1. q \in Seq(E \cup {end}) /\ end \in E \cup {end}
    BY <1>1
  <2> QED BY <1>2, <2>1
<1>4. \A k \in 1 .. L : c[k][1] \in 1 .. n /\ c[k][2] \in 1 .. m
  BY <1>1, <1>2, <1>3
<1>5. end[1] = n + 1 /\ end[2] = m + 1
  OBVIOUS
<1> HIDE DEF c, end, L
<1>6. \A k \in 1 .. L + 1 : k \in 1 .. L \/ k = L + 1
  BY <1>2
<1>7. ASSUME NEW k \in 1 .. L + 1 PROVE c[k][1] \in Nat \ {0} /\ c[k][2] \in Nat \ {0}
  BY <1>3, <1>4, <1>5, <1>6, SMTT(30)
<1>8. ASSUME NEW k \in 1 .. L + 1, NEW l \in 1 .. L + 1, k < l PROVE c[k][1] < c[l][1] /\ c[k][2] < c[l][2]
  <2>1. k \in 1 .. L
    BY <1>2, <1>8
  <2>2. CASE l \in 1 .. L
    BY <1>1, <1>2, <1>3, <1>8, <2>1, <2>2 DEF Monotone
  <2>3. CASE l = L + 1
    <3>1. c[l][1] = n + 1 /\ c[l][2] = m + 1
      BY <1>3, <1>5, <2>3
    <3>2. c[k][1] \in 1 .. n /\ c[k][2] \in 1 .. m
      BY <1>4, <2>1
    <3> QED BY <3>1, <3>2
  <2> QED BY <1>6, <2>2, <2>3
<1> QED BY <1>3, <1>7, <1>8 DEF c, end, L

\* The patience diff pairs lines of the same text and goes forward.
LEMMA PatienceIn ==
  ASSUME NEW A \in Seq(Text1), NEW B \in Seq(Text1)
  PROVE  LineDiffPatience(A, B) \in Within(Twins(A, B), 0, Len(A), 0, Len(B))
<1> DEFINE n == Len(A)
           m == Len(B)
           E == Twins(A, B)
           end == <<n + 1, m + 1>>
           lis == ComputeLIS(UniqueLines(A, B))
           chain == Append(lis, end)
           L == Len(lis)
           At(k, side) == IF k = 0 THEN 0 ELSE chain[k][side]
           G == [k \in 0 .. L + 1 |-> {s \in PatienceStates(A, B) :
                   s.i = At(k, 1) /\ s.j = At(k, 2) /\ s.pairs \in Within(E, 0, s.i, 0, s.j)}]
           g == PatienceSteps(A, B, chain)
<1>1. n \in Nat /\ m \in Nat /\ E \in SUBSET ((1 .. n) \X (1 .. m))
  BY TwinsAre
<1>2. lis \in Within(E, 0, n, 0, m)
  BY <1>1, UniqueIn, LISIn
<1>3. L \in Nat
  BY <1>2 DEF Within
<1> HIDE DEF lis, E, L
<1>4. /\ chain \in Seq(E \cup {end})
      /\ \A k \in 1 .. L + 1 :
           /\ chain[k][1] \in Nat \ {0} /\ chain[k][2] \in Nat \ {0}
           /\ \A l \in 1 .. L + 1 : k < l => chain[k][1] < chain[l][1] /\ chain[k][2] < chain[l][2]
      /\ chain[L + 1] = end
  <2> HIDE DEF n, m
  <2> QED BY <1>1, <1>2, ClosedChain DEF L
<1>5. Len(chain) = L + 1
  <2>1. lis \in Seq(E)
    BY <1>2 DEF Within
  <2> QED BY <2>1 DEF L
<1>6. PICK v : /\ Runs(v, PatienceStates(A, B), PatienceStart, g, L + 1)
               /\ LineDiffPatience(A, B) = v[L + 1].pairs
  <2>1. chain \in Seq(Twins(A, B) \cup {<<Len(A) + 1, Len(B) + 1>>})
    BY <1>4 DEF E
  <2>2. \E v : /\ Runs(v, PatienceStates(A, B), PatienceStart, g, Len(chain))
               /\ LineDiffPatience(A, B) = v[Len(chain)].pairs
    <3>1. chain = Append(ComputeLIS(UniqueLines(A, B)), <<Len(A) + 1, Len(B) + 1>>)
      BY DEF lis
    <3> HIDE DEF chain
    <3> QED BY <2>1, <3>1, PatienceRuns
  <2> HIDE DEF g, chain
  <2> QED BY <1>5, <2>2
<1> HIDE DEF chain
<1>7. PatienceStart \in G[0]
  <2>1. PatienceStart \in PatienceStates(A, B)
    <3>1. 0 \in 0 .. n + 1 /\ 0 \in 0 .. m + 1 /\ <<>> \in Seq(Twins(A, B))
      BY <1>1
    <3> QED BY <3>1 DEF PatienceStart, PatienceStates
  <2>2. PatienceStart.i = 0 /\ PatienceStart.j = 0 /\ PatienceStart.pairs \in Within(E, 0, 0, 0, 0)
    BY NothingWithin DEF PatienceStart
  <2>3. 0 \in 0 .. L + 1
    BY <1>3
  <2> QED BY <2>1, <2>2, <2>3
<1>8. ASSUME NEW k \in 1 .. L + 1, NEW s \in PatienceStates(A, B), s \in G[k - 1]
      PROVE  g[<<s, k>>] \in G[k]
  <2>1. k \in 0 .. L + 1 /\ k - 1 \in 0 .. L + 1 /\ k # 0
    BY <1>3
  <2>2. s.i = At(k - 1, 1) /\ s.j = At(k - 1, 2) /\ s.pairs \in Within(E, 0, s.i, 0, s.j)
    BY <1>8, <2>1
  <2>3. chain[k] \in Twins(A, B) \cup {<<Len(A) + 1, Len(B) + 1>>}
    <3>1. k \in DOMAIN chain
      BY <1>3, <1>4, <1>5
    <3> QED BY <1>4, <3>1 DEF E
  <2>4. At(k - 1, 1) < chain[k][1] /\ At(k - 1, 2) < chain[k][2]
    <3>1. CASE k = 1
      <4>1. k - 1 = 0
        BY <3>1
      <4>2. chain[k][1] \in Nat \ {0} /\ chain[k][2] \in Nat \ {0}
        BY <1>4
      <4> QED BY <4>1, <4>2
    <3>2. CASE k # 1
      <4>1. k - 1 \in 1 .. L + 1 /\ k - 1 < k /\ k - 1 # 0
        BY <1>3, <3>2
      <4>2. chain[k - 1][1] < chain[k][1] /\ chain[k - 1][2] < chain[k][2]
        BY <1>4, <4>1
      <4> QED BY <4>1, <4>2
    <3> QED BY <3>1, <3>2
  <2> DEFINE r == UpToAnchor(s, chain[k], A, B)
  <2>5. g[<<s, k>>] = r
    BY <1>5 DEF PatienceSteps
  <2>6. r \in PatienceStates(A, B)
    <3> HIDE DEF r
    <3> QED BY <2>3, UpToIn DEF r
  <2>7. r.i = chain[k][1] /\ r.j = chain[k][2] /\ r.pairs \in Within(E, 0, chain[k][1], 0, chain[k][2])
    <3>1. s.i < chain[k][1] /\ s.j < chain[k][2] /\ s.pairs \in Within(Twins(A, B), 0, s.i, 0, s.j)
      <4> HIDE DEF At
      <4> QED BY <2>2, <2>4 DEF E
    <3> QED BY <2>3, <3>1, UpToWithin DEF E
  <2> HIDE DEF r, g
  <2>8. r \in {x \in PatienceStates(A, B) :
                 x.i = At(k, 1) /\ x.j = At(k, 2) /\ x.pairs \in Within(E, 0, x.i, 0, x.j)}
    <3>1. At(k, 1) = chain[k][1] /\ At(k, 2) = chain[k][2]
      BY <2>1
    <3> HIDE DEF At
    <3> QED BY <2>6, <2>7, <3>1
  <2> HIDE DEF At
  <2> QED BY <2>1, <2>5, <2>8
<1> HIDE DEF G, g
<1>9. v[L + 1] \in G[L + 1]
  <2>1. L + 1 \in Nat
    BY <1>3
  <2> QED BY <1>6, <1>7, <1>8, <2>1, RunsStay
<1>10. v[L + 1].pairs \in Within(E, 0, n + 1, 0, m + 1)
  <2>1. L + 1 \in 0 .. L + 1 /\ L + 1 # 0
    BY <1>3
  <2>2. At(L + 1, 1) = n + 1 /\ At(L + 1, 2) = m + 1
    BY <1>4, <2>1
  <2>3. v[L + 1].i = n + 1 /\ v[L + 1].j = m + 1 /\ v[L + 1].pairs \in Within(E, 0, v[L + 1].i, 0, v[L + 1].j)
    <3>1. v[L + 1] \in {s \in PatienceStates(A, B) :
                   s.i = At(L + 1, 1) /\ s.j = At(L + 1, 2) /\ s.pairs \in Within(E, 0, s.i, 0, s.j)}
      <4> HIDE DEF At
      <4> QED BY <1>9, <2>1 DEF G
    <3> HIDE DEF At
    <3> QED BY <2>2, <3>1
  <2> QED BY <2>3
<1>11. v[L + 1].pairs \in Within(E, 0, n, 0, m)
  <2> DEFINE q == v[L + 1].pairs
  <2>1. q \in Seq(E) /\ Monotone(q)
    BY <1>10 DEF Within
  <2> HIDE DEF q
  <2>2. \A k \in DOMAIN q : q[k] \in E
    BY <2>1
  <2>3. \A k \in DOMAIN q : q[k][1] \in 0 + 1 .. n /\ q[k][2] \in 0 + 1 .. m
    <3>1. \A p \in E : p[1] \in 1 .. n /\ p[2] \in 1 .. m
      BY <1>1
    <3>2. 0 + 1 = 1
      OBVIOUS
    <3> HIDE DEF n, m
    <3> QED BY <2>2, <3>1, <3>2
  <2> QED BY <2>1, <2>3 DEF Within, q
<1> QED BY <1>6, <1>11 DEF E

-----------------------------------------------------------------------------
\* LineDiff before the compaction: trimming, the middle, the ends.

\* The leading and the trailing lines that agree.
LEMMA PrefixIs ==
  ASSUME NEW n \in Nat, NEW m \in Nat, NEW equal
  PROVE  /\ TrimPrefix(n, m, equal) \in 0 .. Least(n, m)
         /\ \A i \in 1 .. TrimPrefix(n, m, equal) : <<i, i>> \in equal
<1> DEFINE good == {i \in Nat : <<i, i>> \in equal}
           Is(p) == /\ \A i \in 1 .. p : <<i, i>> \in equal
                    /\ p < Least(n, m) => <<p + 1, p + 1>> \notin equal
<1>1. Least(n, m) \in Nat
  BY DEF Least
<1>2. PICK p \in 0 .. Least(n, m) : (\A i \in 1 .. p : i \in good) /\ (p < Least(n, m) => p + 1 \notin good)
  <2> HIDE DEF good
  <2> QED BY <1>1, Initial
<1>3. Is(p)
  <2>1. \A i \in 1 .. p : <<i, i>> \in equal
    BY <1>2
  <2>2. p + 1 \in Nat
    BY <1>1
  <2>3. p < Least(n, m) => <<p + 1, p + 1>> \notin equal
    BY <1>2, <2>2
  <2> QED BY <2>1, <2>3
<1>4. TrimPrefix(n, m, equal) = CHOOSE q \in 0 .. Least(n, m) : Is(q)
  BY DEF TrimPrefix
<1>5. Is(CHOOSE q \in 0 .. Least(n, m) : Is(q)) /\ (CHOOSE q \in 0 .. Least(n, m) : Is(q)) \in 0 .. Least(n, m)
  <2> HIDE DEF Is
  <2> QED BY <1>2, <1>3
<1> QED BY <1>4, <1>5

\* TrimSuffix takes lines that agree, and none that the prefix has taken.
LEMMA SuffixIs ==
  ASSUME NEW n \in Nat, NEW m \in Nat, NEW prefix \in 0 .. Least(n, m), NEW equal
  PROVE  /\ TrimSuffix(n, m, prefix, equal) \in 0 .. Least(n, m) - prefix
         /\ \A k \in 0 .. TrimSuffix(n, m, prefix, equal) - 1 : <<n - k, m - k>> \in equal
<1> DEFINE limit == Least(n, m) - prefix
           good == {i \in Nat : <<n - (i - 1), m - (i - 1)>> \in equal}
           Is(s) == /\ \A k \in 0 .. s - 1 : <<n - k, m - k>> \in equal
                    /\ s < limit => <<n - s, m - s>> \notin equal
<1>1. limit \in Nat
  BY DEF Least
<1> HIDE DEF limit
<1>2. PICK p \in 0 .. limit : (\A i \in 1 .. p : i \in good) /\ (p < limit => p + 1 \notin good)
  <2> HIDE DEF good
  <2> QED BY <1>1, Initial
<1>3. Is(p)
  <2>1. ASSUME NEW k \in 0 .. p - 1 PROVE <<n - k, m - k>> \in equal
    <3>1. k + 1 \in 1 .. p /\ (k + 1) - 1 = k
      BY <1>1
    <3>2. k + 1 \in good
      BY <1>2, <3>1
    <3> QED BY <3>1, <3>2
  <2>2. p + 1 \in Nat /\ (p + 1) - 1 = p
    BY <1>1
  <2>3. p < limit => <<n - p, m - p>> \notin equal
    BY <1>2, <2>2
  <2> QED BY <2>1, <2>3
<1>4. TrimSuffix(n, m, prefix, equal) = CHOOSE q \in 0 .. limit : Is(q)
  BY DEF TrimSuffix, limit
<1>5. Is(CHOOSE q \in 0 .. limit : Is(q)) /\ (CHOOSE q \in 0 .. limit : Is(q)) \in 0 .. limit
  <2> HIDE DEF Is
  <2> QED BY <1>2, <1>3
<1> QED BY <1>4, <1>5 DEF limit

\* A run of pairs on a diagonal.
LEMMA DiagonalWithin ==
  ASSUME NEW E, NEW a \in Int, NEW c \in Int, NEW n \in Nat, \A k \in 1 .. n : <<a + k, c + k>> \in E
  PROVE  [k \in 1 .. n |-> <<a + k, c + k>>] \in Within(E, a, a + n, c, c + n)
<1> DEFINE q == [k \in 1 .. n |-> <<a + k, c + k>>]
<1>1. q \in Seq(E) /\ DOMAIN q = 1 .. n
  BY FirstNumbersSeq
<1>2. \A k \in 1 .. n : q[k][1] = a + k /\ q[k][2] = c + k
  OBVIOUS
<1> HIDE DEF q
<1>3. \A k \in DOMAIN q : q[k][1] \in a + 1 .. a + n /\ q[k][2] \in c + 1 .. c + n
  BY <1>1, <1>2
<1>4. Monotone(q)
  BY <1>1, <1>2 DEF Monotone
<1> QED BY <1>1, <1>3, <1>4 DEF Within, q

\* The middle, by either way.
LEMMA MiddleIn ==
  ASSUME NEW A \in Seq(Text1), NEW B \in Seq(Text1)
  PROVE  AlignedMiddle(A, B) \in Within(Twins(A, B), 0, Len(A), 0, Len(B))
<1>1. LineDiffPatience(A, B) \in Within(Twins(A, B), 0, Len(A), 0, Len(B))
  BY PatienceIn
<1>2. AlignLineWindow(A, B, 0, 0) \in Within(Twins(A, B), 0, Len(A), 0, Len(B))
  <2>1. \A p \in Twins(A, B) : <<0 + p[1], 0 + p[2]>> \in Twins(A, B)
    <3>1. Twins(A, B) \in SUBSET ((1 .. Len(A)) \X (1 .. Len(B)))
      BY TwinsAre
    <3>2. \A p \in Twins(A, B) : p = <<p[1], p[2]>> /\ p[1] \in Int /\ p[2] \in Int
      BY <3>1
    <3>3. \A x \in Int : 0 + x = x
      OBVIOUS
    <3> SUFFICES ASSUME NEW p \in Twins(A, B) PROVE <<0 + p[1], 0 + p[2]>> \in Twins(A, B)
      OBVIOUS
    <3>4. p = <<p[1], p[2]>> /\ 0 + p[1] = p[1] /\ 0 + p[2] = p[2]
      BY <3>2, <3>3
    <3>5. <<0 + p[1], 0 + p[2]>> = p
      BY <3>4, Zenon
    <3> QED BY <3>5
  <2>2. AlignLineWindow(A, B, 0, 0) \in Within(Twins(A, B), 0, 0 + Len(A), 0, 0 + Len(B))
    <3>1. 0 \in Int
      OBVIOUS
    <3> QED BY <2>1, <3>1, WindowPairs, Zenon
  <2>3. 0 + Len(A) = Len(A) /\ 0 + Len(B) = Len(B)
    OBVIOUS
  <2> QED BY <2>2, <2>3
<1> QED BY <1>1, <1>2 DEF AlignedMiddle

\* The alignment of the lines pairs lines of the same text and goes forward.
LEMMA AlignedIn ==
  ASSUME NEW A \in Seq(Text1), NEW B \in Seq(Text1)
  PROVE  AlignedLines(A, B) \in Within(Twins(A, B), 0, Len(A), 0, Len(B))
<1> DEFINE n == Len(A)
           m == Len(B)
           E == Twins(A, B)
           Eq == EqualLines(A, B)
           p == TrimPrefix(n, m, Eq)
           s == TrimSuffix(n, m, p, Eq)
           x == SubSeq(A, p + 1, n - s)
           y == SubSeq(B, p + 1, m - s)
           mid == AlignedMiddle(x, y)
           back == [k \in 1 .. s |-> <<n - s + k, m - s + k>>]
<1>1. n \in Nat /\ m \in Nat
  OBVIOUS
<1>2. \A q \in Eq : q \in E
  BY DEF EqualLines, Twins
<1> HIDE DEF Eq, E
<1>3. /\ p \in 0 .. Least(n, m) /\ s \in 0 .. Least(n, m) - p
      /\ \A i \in 1 .. p : <<i, i>> \in Eq
      /\ \A k \in 0 .. s - 1 : <<n - k, m - k>> \in Eq
  <2>1. p \in 0 .. Least(n, m) /\ \A i \in 1 .. p : <<i, i>> \in Eq
    BY <1>1, PrefixIs
  <2> HIDE DEF p
  <2>2. s \in 0 .. Least(n, m) - p /\ \A k \in 0 .. s - 1 : <<n - k, m - k>> \in Eq
    BY <1>1, <2>1, SuffixIs
  <2> QED BY <2>1, <2>2
<1>4. AlignedLines(A, B) = CombineMatches(p, mid, s, n, m)
  BY DEF AlignedLines, AlignedFrom, AlignedBehind, Eq
<1> HIDE DEF p, s
<1>5. /\ p \in Nat /\ s \in Nat /\ p \in 0 .. n /\ n - s \in p .. n /\ p \in 0 .. m /\ m - s \in p .. m
      /\ n - s \in Int /\ m - s \in Int /\ n - s + s = n /\ m - s + s = m
  BY <1>1, <1>3 DEF Least
<1> DEFINE front == [k \in 1 .. p |-> <<k, k>>]
           middle == ShiftedBy(p, p, mid)
<1>6. CombineMatches(p, mid, s, n, m) = (front \o middle) \o back
  BY DEF CombineMatches, ShiftedBy
<1>7. front \in Within(E, 0, p, 0, p)
  <2>1. \A k \in 1 .. p : 0 + k = k
    OBVIOUS
  <2>2. front = [k \in 1 .. p |-> <<0 + k, 0 + k>>] /\ 0 + p = p
    BY <1>5, <2>1
  <2>3. \A k \in 1 .. p : <<0 + k, 0 + k>> \in E
    <3>1. \A k \in 1 .. p : <<k, k>> \in E
      BY <1>2, <1>3
    <3> QED BY <2>1, <3>1
  <2>4. [k \in 1 .. p |-> <<0 + k, 0 + k>>] \in Within(E, 0, 0 + p, 0, 0 + p)
    <3>1. 0 \in Int
      OBVIOUS
    <3> QED BY <1>5, <2>3, <3>1, DiagonalWithin, Zenon
  <2> HIDE DEF front
  <2> QED BY <2>2, <2>4
<1>8. middle \in Within(E, p, n - s, p, m - s)
  <2>1. /\ x \in Seq(Text1) /\ Len(x) = (n - s) - p
        /\ y \in Seq(Text1) /\ Len(y) = (m - s) - p
    BY <1>1, <1>5, WindowIs
  <2>2. mid \in Within(Twins(x, y), 0, Len(x), 0, Len(y))
    <3> HIDE DEF x, y
    <3> QED BY <2>1, MiddleIn
  <2>3. \A q \in Twins(x, y) : <<p + q[1], p + q[2]>> \in E
    BY <1>5, WindowTwins DEF E
  <2> HIDE DEF x, y, mid
  <2>4. \A i \in 1 .. Len(x), j \in 1 .. Len(y) : <<i, j>> \in Twins(x, y) => <<p + i, p + j>> \in E
    BY <2>3
  <2>5. Len(x) \in Nat /\ Len(y) \in Nat /\ Twins(x, y) \subseteq Int \X Int
    <3>1. Twins(x, y) \in SUBSET ((1 .. Len(x)) \X (1 .. Len(y))) /\ Len(x) \in Nat /\ Len(y) \in Nat
      BY <2>1, TwinsAre
    <3> QED BY <3>1
  <2>6. p \in Int
    BY <1>5
  <2>7. middle \in Within(E, p, p + Len(x), p, p + Len(y))
    BY <2>2, <2>4, <2>5, <2>6, ShiftedWithin
  <2>8. p + Len(x) = n - s /\ p + Len(y) = m - s
    BY <1>1, <1>5, <2>1
  <2> HIDE DEF middle
  <2> QED BY <2>7, <2>8
<1>9. back \in Within(E, n - s, n, m - s, m)
  <2>1. \A k \in 1 .. s : <<n - s + k, m - s + k>> \in E
    <3> SUFFICES ASSUME NEW k \in 1 .. s PROVE <<n - s + k, m - s + k>> \in E
      OBVIOUS
    <3>1. s - k \in 0 .. s - 1 /\ n - (s - k) = n - s + k /\ m - (s - k) = m - s + k
      BY <1>1, <1>5
    <3>2. <<n - (s - k), m - (s - k)>> \in Eq
      BY <1>3, <3>1
    <3> HIDE DEF n, m
    <3> QED BY <1>2, <3>1, <3>2
  <2>2. back \in Within(E, n - s, (n - s) + s, m - s, (m - s) + s)
    BY <1>5, <2>1, DiagonalWithin
  <2> HIDE DEF back
  <2> QED BY <1>5, <2>2
<1> HIDE DEF front, middle, back, mid, x, y, n, m
<1>10. front \o middle \in Within(E, 0, n - s, 0, m - s)
  <2>1. p \in Int /\ 0 <= p /\ p <= n - s /\ p <= m - s /\ n - s \in Int /\ m - s \in Int
    BY <1>1, <1>5
  <2> QED BY <1>7, <1>8, <2>1, Join
<1>11. (front \o middle) \o back \in Within(E, 0, n, 0, m)
  <2>1. 0 <= n - s /\ n - s <= n /\ 0 <= m - s /\ m - s <= m /\ n \in Int /\ m \in Int
    BY <1>1, <1>5
  <2> QED BY <1>5, <1>9, <1>10, <2>1, Join
<1> QED BY <1>4, <1>6, <1>11 DEF E, n, m

-----------------------------------------------------------------------------
\* A set of numbers has one list, and a function that rises moves it.

\* Two lists of the same numbers that agree so far do not part.
LEMMA ListsNotLess ==
  ASSUME NEW I, NEW u, Lists(u, I), NEW w, Lists(w, I), NEW k \in DOMAIN u, k \in DOMAIN w,
         \A j \in 1 .. k - 1 : u[j] = w[j]
  PROVE  ~(u[k] < w[k])
<1> SUFFICES ASSUME u[k] < w[k] PROVE FALSE
  OBVIOUS
<1>1. u \in Seq(Int) /\ w \in Seq(Int) /\ RisingTo(u) /\ RisingTo(w)
  BY DEF Lists
<1>2. \A l \in DOMAIN u : u[l] \in Int /\ l \in Nat \ {0} /\ \A j \in 1 .. l : j \in DOMAIN u
  BY <1>1
<1>3. \A l \in DOMAIN w : w[l] \in Int /\ l \in Nat \ {0} /\ \A j \in 1 .. l : j \in DOMAIN w
  BY <1>1
<1>4. PICK l \in DOMAIN w : w[l] = u[k]
  <2>1. u[k] \in I
    BY DEF Lists
  <2> QED BY <2>1 DEF Lists
<1>5. k \in Nat \ {0} /\ l \in Nat \ {0} /\ u[k] \in Int /\ w[k] \in Int /\ w[l] \in Int
  BY <1>2, <1>3
<1>6. l < k
  <2>1. CASE l = k
    BY <1>4, <1>5, <2>1
  <2>2. CASE k < l
    <3>1. w[k] < w[l]
      BY <1>1, <2>2 DEF RisingTo
    <3> QED BY <1>4, <1>5, <3>1
  <2> QED BY <1>5, <2>1, <2>2
<1>7. l \in 1 .. k - 1 /\ l \in DOMAIN u
  <2>1. l \in 1 .. k - 1 /\ l \in 1 .. k
    BY <1>5, <1>6
  <2> QED BY <1>2, <2>1
<1>8. u[l] = u[k] /\ u[l] < u[k]
  BY <1>1, <1>4, <1>6, <1>7 DEF RisingTo
<1> QED BY <1>5, <1>8

\* A set of numbers has one list.
LEMMA OneList ==
  ASSUME NEW I, NEW u, Lists(u, I), NEW w, Lists(w, I)
  PROVE  Len(u) = Len(w) /\ \A k \in DOMAIN u : u[k] = w[k]
<1> DEFINE P == {n \in Nat : \A k \in 1 .. n : k \in DOMAIN u /\ k \in DOMAIN w => u[k] = w[k]}
<1>1. /\ u \in Seq(Int) /\ Len(u) \in Nat /\ DOMAIN u = 1 .. Len(u) /\ RisingTo(u)
      /\ w \in Seq(Int) /\ Len(w) \in Nat /\ DOMAIN w = 1 .. Len(w) /\ RisingTo(w)
  BY DEF Lists
<1>2. 0 \in P
  OBVIOUS
<1>3. ASSUME NEW n \in Nat, n \in P PROVE n + 1 \in P
  <2>1. ASSUME n + 1 \in DOMAIN u, n + 1 \in DOMAIN w PROVE u[n + 1] = w[n + 1]
    <3>1. \A j \in 1 .. n : j \in DOMAIN u /\ j \in DOMAIN w
      BY <1>1, <2>1
    <3>2. \A j \in 1 .. n : u[j] = w[j]
      BY <1>3, <3>1
    <3>3. (n + 1) - 1 = n
      OBVIOUS
    <3>4. \A j \in 1 .. (n + 1) - 1 : u[j] = w[j] /\ w[j] = u[j]
      BY <3>2, <3>3
    <3>5. ~(u[n + 1] < w[n + 1])
      BY <2>1, <3>4, ListsNotLess
    <3>6. ~(w[n + 1] < u[n + 1])
      BY <2>1, <3>4, ListsNotLess
    <3>7. u[n + 1] \in Int /\ w[n + 1] \in Int
      BY <1>1, <2>1
    <3> QED BY <3>5, <3>6, <3>7
  <2>2. \A k \in 1 .. n + 1 : k \in 1 .. n \/ k = n + 1
    OBVIOUS
  <2>3. \A k \in 1 .. n : k \in DOMAIN u /\ k \in DOMAIN w => u[k] = w[k]
    BY <1>3
  <2>4. \A k \in 1 .. n + 1 : k \in DOMAIN u /\ k \in DOMAIN w => u[k] = w[k]
    BY <2>1, <2>2, <2>3
  <2> QED BY <2>4
<1>4. Nat \subseteq P
  <2> HIDE DEF P
  <2> QED BY <1>2, <1>3, NatSet
<1>5. \A k \in DOMAIN u : k \in DOMAIN w => u[k] = w[k]
  <2> SUFFICES ASSUME NEW k \in DOMAIN u, k \in DOMAIN w PROVE u[k] = w[k]
    OBVIOUS
  <2>1. k \in Nat /\ k \in 1 .. k
    BY <1>1
  <2>2. k \in P
    BY <1>4, <2>1
  <2> QED BY <2>1, <2>2
<1>6. ASSUME NEW a, NEW b, Lists(a, I), Lists(b, I), a \in Seq(Int), b \in Seq(Int), Len(a) < Len(b),
             \A k \in DOMAIN a : k \in DOMAIN b => a[k] = b[k]
      PROVE  FALSE
  <2>1. Len(a) \in Nat /\ Len(b) \in Nat /\ DOMAIN a = 1 .. Len(a) /\ DOMAIN b = 1 .. Len(b)
    BY <1>6
  <2>2. Len(b) \in DOMAIN b
    BY <1>6, <2>1
  <2>3. PICK l \in DOMAIN a : a[l] = b[Len(b)]
    <3>1. b[Len(b)] \in I
      BY <1>6, <2>2 DEF Lists
    <3> QED BY <1>6, <3>1 DEF Lists
  <2>4. l \in DOMAIN b /\ l < Len(b)
    BY <1>6, <2>1
  <2>5. b[l] = b[Len(b)]
    BY <1>6, <2>3, <2>4
  <2>6. b[l] < b[Len(b)]
    BY <1>6, <2>2, <2>4 DEF Lists, RisingTo
  <2>7. b[l] \in Int
    BY <1>6, <2>4
  <2> QED BY <2>5, <2>6, <2>7
<1>7. ~(Len(u) < Len(w))
  BY <1>1, <1>5, <1>6
<1>8. ~(Len(w) < Len(u))
  BY <1>1, <1>5, <1>6
<1>9. Len(u) = Len(w)
  <2> DEFINE a == Len(u)
             b == Len(w)
  <2>1. a \in Nat /\ b \in Nat /\ ~(a < b) /\ ~(b < a)
    BY <1>1, <1>7, <1>8
  <2> HIDE DEF a, b
  <2>2. a = b
    BY <2>1
  <2> QED BY <2>2 DEF a, b
<1>10. DOMAIN w = DOMAIN u
  BY <1>1, <1>9
<1> QED BY <1>5, <1>9, <1>10

\* A list, moved by a function that rises.
LEMMA MovedList ==
  ASSUME NEW I, NEW u, Lists(u, I), NEW f, NEW J,
         \A x \in I : f[x] \in J /\ f[x] \in Int,
         \A x \in I : \A y \in I : x < y => f[x] < f[y],
         \A z \in J : \E x \in I : f[x] = z
  PROVE  /\ Lists([k \in 1 .. Len(u) |-> f[u[k]]], J)
         /\ Len([k \in 1 .. Len(u) |-> f[u[k]]]) = Len(u)
<1> DEFINE w == [k \in 1 .. Len(u) |-> f[u[k]]]
<1>1. u \in Seq(Int) /\ RisingTo(u) /\ (\A k \in DOMAIN u : u[k] \in I) /\ \A x \in I : \E k \in DOMAIN u : u[k] = x
  BY DEF Lists
<1>2. Len(u) \in Nat /\ DOMAIN u = 1 .. Len(u)
  BY <1>1
<1>3. w \in [1 .. Len(u) -> Int]
  BY <1>1, <1>2
<1>4. w \in Seq(Int) /\ Len(w) = Len(u) /\ DOMAIN w = 1 .. Len(u)
  <2> HIDE DEF w
  <2> QED BY <1>2, <1>3, FirstNumbersSeq
<1>5. \A k \in 1 .. Len(u) : w[k] = f[u[k]]
  OBVIOUS
<1> HIDE DEF w
<1>6. RisingTo(w)
  <2> SUFFICES ASSUME NEW k \in DOMAIN w, NEW l \in DOMAIN w, k < l PROVE w[k] < w[l]
    BY DEF RisingTo
  <2>1. k \in DOMAIN u /\ l \in DOMAIN u
    BY <1>2, <1>4
  <2>2. u[k] < u[l] /\ u[k] \in I /\ u[l] \in I
    BY <1>1, <2>1 DEF RisingTo
  <2>3. w[k] = f[u[k]] /\ w[l] = f[u[l]]
    BY <1>4, <1>5
  <2> QED BY <2>2, <2>3
<1>7. \A k \in DOMAIN w : w[k] \in J
  BY <1>1, <1>2, <1>4, <1>5
<1>8. ASSUME NEW z \in J PROVE \E k \in DOMAIN w : w[k] = z
  <2>1. PICK x \in I : f[x] = z
    OBVIOUS
  <2>2. PICK k \in DOMAIN u : u[k] = x
    BY <1>1
  <2> QED BY <1>2, <1>4, <1>5, <2>1, <2>2
<1> QED BY <1>4, <1>6, <1>7, <1>8 DEF Lists, w

-----------------------------------------------------------------------------
\* compactChanges: a group that moves over lines equal to those behind it.

\* The lines that are not changed; they are as many as before, of the same texts.
Rest(changed) == {k \in DOMAIN changed : ~changed[k]}
\* There are as many unchanged lines as in u0, with the same texts in the same order.
Keeps(lines, u0, changed) ==
  \E u : /\ Lists(u, Rest(changed)) /\ Len(u) = Len(u0)
         /\ \A k \in 1 .. Len(u0) : lines[u[k]] = lines[u0[k]]

\* The unchanged lines go to other lines of the same text, in order.
Carries(f, lines, changed, changed2) ==
  /\ \A x \in Rest(changed) : f[x] \in Rest(changed2) /\ f[x] \in Int /\ lines[f[x]] = lines[x]
  /\ \A x \in Rest(changed) : \A y \in Rest(changed) : x < y => f[x] < f[y]
  /\ \A z \in Rest(changed2) : \E x \in Rest(changed) : f[x] = z

\* Unchanged lines that go, in order, to lines of the same text are kept.
LEMMA KeepsMoved ==
  ASSUME NEW lines, NEW u0, Len(u0) \in Nat, NEW changed, Keeps(lines, u0, changed), NEW f, NEW changed2,
         Carries(f, lines, changed, changed2)
  PROVE  Keeps(lines, u0, changed2)
<1>1. PICK u : /\ Lists(u, Rest(changed)) /\ Len(u) = Len(u0)
               /\ \A k \in 1 .. Len(u0) : lines[u[k]] = lines[u0[k]]
  BY DEF Keeps
<1> DEFINE I == Rest(changed)
           J == Rest(changed2)
           w == [k \in 1 .. Len(u) |-> f[u[k]]]
<1>2. Lists(w, J) /\ Len(w) = Len(u)
  <2>1. Lists(u, I)
    BY <1>1
  <2>2. /\ \A x \in I : f[x] \in J /\ f[x] \in Int
        /\ \A x \in I : \A y \in I : x < y => f[x] < f[y]
        /\ \A z \in J : \E x \in I : f[x] = z
    BY DEF Carries
  <2> HIDE DEF I, J
  <2> QED BY <2>1, <2>2, MovedList
<1>3. ASSUME NEW k \in 1 .. Len(u0) PROVE lines[w[k]] = lines[u0[k]]
  <2>1. k \in DOMAIN u /\ w[k] = f[u[k]]
    <3>1. u \in Seq(Int)
      BY <1>1 DEF Lists
    <3> QED BY <1>1, <3>1
  <2>2. u[k] \in Rest(changed)
    BY <1>1, <2>1 DEF Lists
  <2>3. lines[f[u[k]]] = lines[u[k]]
    BY <2>2 DEF Carries
  <2> QED BY <1>1, <2>1, <2>3
<1> HIDE DEF w, J
<1> QED BY <1>1, <1>2, <1>3 DEF Keeps, J

\* Moving a group over lines that are the same as those behind it keeps the unchanged lines.
LEMMA GroupMoves ==
  ASSUME NEW lines, NEW n \in Nat, Len(lines) = n, NEW changed \in [1 .. n -> BOOLEAN],
         NEW i \in 1 .. n, NEW len \in 1 .. n - i + 1, \A k \in i .. i + len - 1 : changed[k],
         NEW to \in GroupStarts(lines, changed, i, len),
         NEW u0, Len(u0) \in Nat, Keeps(lines, u0, changed)
  PROVE  /\ MoveGroup(changed, i, len, to).next \in Nat
         /\ MoveGroup(changed, i, len, to).changed \in [1 .. n -> BOOLEAN]
         /\ Keeps(lines, u0, MoveGroup(changed, i, len, to).changed)
<1> DEFINE c2 == [k \in 1 .. n |-> k \in to .. (to + len - 1) \/ (changed[k] /\ k \notin i .. (i + len - 1))]
           f == [p \in 1 .. n |-> IF p \in to .. i - 1 THEN p + len ELSE IF p \in i + len .. to + len - 1 THEN p - len ELSE p]
           R == Rest(changed)
           R2 == Rest(c2)
<1>1. i \in Nat \ {0} /\ len \in Nat \ {0} /\ i + len - 1 <= n /\ to \in Int /\ to >= 1 /\ to + len - 1 <= n
  <2>1. i \in Nat \ {0} /\ len \in Nat \ {0} /\ i + len - 1 <= n
    OBVIOUS
  <2>2. to \in 1 .. i \/ to \in i .. n - len + 1
    BY DEF GroupStarts
  <2> QED BY <2>1, <2>2
<1>2. \A p \in to .. i - 1 : p \in R /\ lines[p] = lines[p + len]
  <2> SUFFICES ASSUME NEW p \in to .. i - 1 PROVE p \in R /\ lines[p] = lines[p + len]
    OBVIOUS
  <2>1. p + 1 \in to + 1 .. i /\ (p + 1) - 1 = p /\ (p + 1) + len - 1 = p + len /\ p \in 1 .. n /\ ~(to \in i .. n - len + 1)
    BY <1>1
  <2>2. \A q \in to + 1 .. i : lines[q - 1] = lines[q + len - 1] /\ ~changed[q - 1]
    BY <2>1 DEF GroupStarts
  <2>3. lines[(p + 1) - 1] = lines[(p + 1) + len - 1] /\ ~changed[(p + 1) - 1]
    BY <2>1, <2>2
  <2>4. lines[p] = lines[p + len] /\ ~changed[p]
    BY <2>1, <2>3
  <2> QED BY <2>1, <2>4 DEF Rest
<1>3. \A p \in i + len .. to + len - 1 : p \in R /\ lines[p] = lines[p - len]
  <2> SUFFICES ASSUME NEW p \in i + len .. to + len - 1 PROVE p \in R /\ lines[p] = lines[p - len]
    OBVIOUS
  <2>1. p - len \in i .. to - 1 /\ (p - len) + len = p /\ p \in 1 .. n /\ ~(to \in 1 .. i)
    BY <1>1
  <2>2. \A q \in i .. to - 1 : q + len <= Len(lines) /\ lines[q] = lines[q + len] /\ ~changed[q + len]
    BY <2>1 DEF GroupStarts
  <2>3. lines[p - len] = lines[(p - len) + len] /\ ~changed[(p - len) + len]
    BY <2>1, <2>2
  <2>4. lines[p - len] = lines[p] /\ ~changed[p]
    BY <2>1, <2>3
  <2> QED BY <2>1, <2>4 DEF Rest
<1>4. R \in SUBSET (1 .. n) /\ \A x \in R : x \notin i .. i + len - 1
  <2>1. DOMAIN changed = 1 .. n
    OBVIOUS
  <2> QED BY <2>1 DEF Rest
<1>5. \A z : z \in R2 <=> z \in 1 .. n /\ z \notin to .. to + len - 1 /\ (z \in R \/ z \in i .. i + len - 1)
  <2>1. DOMAIN changed = 1 .. n /\ DOMAIN c2 = 1 .. n
    OBVIOUS
  <2> QED BY <2>1 DEF Rest
<1>6. \A p \in 1 .. n : f[p] = IF p \in to .. i - 1 THEN p + len ELSE IF p \in i + len .. to + len - 1 THEN p - len ELSE p
  OBVIOUS
<1>7. c2 \in [1 .. n -> BOOLEAN]
  OBVIOUS
<1>8. MoveGroup(changed, i, len, to).changed = c2 /\ MoveGroup(changed, i, len, to).next = Greatest(i, to) + len
  <2>1. DOMAIN changed = 1 .. n
    OBVIOUS
  <2> QED BY <2>1 DEF MoveGroup
<1>9. Greatest(i, to) + len \in Nat
  BY <1>1 DEF Greatest
<1> HIDE DEF f, c2, R, R2
<1>10. ASSUME NEW x \in R PROVE f[x] \in R2 /\ f[x] \in Int /\ lines[f[x]] = lines[x]
  <2>1. x \in 1 .. n /\ x \notin i .. i + len - 1 /\ x \in Int
    BY <1>4
  <2>2. CASE x \in to .. i - 1
    <3>1. f[x] = x + len
      BY <1>6, <2>1, <2>2
    <3>2. /\ x + len \in 1 .. n /\ x + len \notin to .. to + len - 1
          /\ x + len \in i .. i + len - 1 \/ x + len \in to .. i - 1
      <4>1. x \in Int /\ to <= x /\ x <= i - 1
        BY <1>1, <2>1, <2>2
      <4>2. x + len >= to + len /\ x + len <= i + len - 1 /\ x + len \in Int
        BY <1>1, <4>1
      <4> QED BY <1>1, <4>1, <4>2
    <3>3. x + len \in R2
      <4>1. x + len \in R \/ x + len \in i .. i + len - 1
        BY <1>2, <3>2
      <4>2. x + len \in 1 .. n /\ x + len \notin to .. to + len - 1
        BY <3>2
      <4> QED BY <1>5, <4>1, <4>2
    <3> QED BY <1>1, <1>2, <2>1, <2>2, <3>1, <3>3
  <2>3. CASE x \in i + len .. to + len - 1
    <3>1. f[x] = x - len
      <4>1. x \notin to .. i - 1
        BY <1>1, <2>3
      <4> QED BY <1>6, <2>1, <2>3, <4>1
    <3>2. /\ x - len \in 1 .. n /\ x - len \notin to .. to + len - 1
          /\ x - len \in i .. i + len - 1 \/ x - len \in i + len .. to + len - 1
      BY <1>1, <2>1, <2>3
    <3>3. x - len \in R2
      BY <1>3, <1>5, <3>2
    <3> QED BY <1>1, <1>3, <2>1, <2>3, <3>1, <3>3
  <2>4. CASE x \notin to .. i - 1 /\ x \notin i + len .. to + len - 1
    <3>1. f[x] = x
      BY <1>6, <2>1, <2>4
    <3>2. x \notin to .. to + len - 1
      BY <1>1, <2>1, <2>4
    <3> QED BY <1>5, <2>1, <3>1, <3>2
  <2> QED BY <2>2, <2>3, <2>4
<1>11. ASSUME NEW x \in R, NEW y \in R, x < y PROVE f[x] < f[y]
  <2>1. x \in 1 .. n /\ x \notin i .. i + len - 1 /\ y \in 1 .. n /\ y \notin i .. i + len - 1
    BY <1>4
  <2>2. /\ f[x] = IF x \in to .. i - 1 THEN x + len ELSE IF x \in i + len .. to + len - 1 THEN x - len ELSE x
        /\ f[y] = IF y \in to .. i - 1 THEN y + len ELSE IF y \in i + len .. to + len - 1 THEN y - len ELSE y
    BY <1>6, <2>1
  <2> QED BY <1>1, <1>11, <2>1, <2>2
<1>12. ASSUME NEW z \in R2 PROVE \E x \in R : f[x] = z
  <2>1. z \in 1 .. n /\ z \notin to .. to + len - 1 /\ (z \in R \/ z \in i .. i + len - 1) /\ z \in Int
    BY <1>5
  <2>2. CASE z \in to + len .. i + len - 1
    <3>1. z - len \in to .. i - 1 /\ z - len \in 1 .. n /\ (z - len) + len = z
      BY <1>1, <2>1, <2>2
    <3>2. f[z - len] = z
      BY <1>6, <3>1
    <3> QED BY <1>2, <3>1, <3>2
  <2>3. CASE z \in i .. to - 1
    <3>1. z + len \in i + len .. to + len - 1 /\ z + len \in 1 .. n /\ (z + len) - len = z /\ z + len \notin to .. i - 1
      BY <1>1, <2>1, <2>3
    <3>2. f[z + len] = z
      BY <1>6, <3>1
    <3> QED BY <1>3, <3>1, <3>2
  <2>4. CASE z \notin to + len .. i + len - 1 /\ z \notin i .. to - 1
    <3>1. z \notin i .. i + len - 1 /\ z \notin to .. i - 1 /\ z \notin i + len .. to + len - 1
      BY <1>1, <2>1, <2>4
    <3>2. f[z] = z
      BY <1>6, <2>1, <3>1
    <3> QED BY <2>1, <3>1, <3>2
  <2> QED BY <2>2, <2>3, <2>4
<1>13. Keeps(lines, u0, c2)
  <2>1. Carries(f, lines, changed, c2)
    BY <1>10, <1>11, <1>12 DEF R, R2, Carries
  <2> QED BY <2>1, KeepsMoved
<1> QED BY <1>7, <1>8, <1>9, <1>13

-----------------------------------------------------------------------------
\* The compaction of a side, line by line.

\* A group of changed lines has a length.
LEMMA GroupLengthIs ==
  ASSUME NEW n \in Nat, NEW changed \in [1 .. n -> BOOLEAN], Len(changed) = n, NEW i \in 1 .. n, changed[i]
  PROVE  /\ GroupLength(changed, i) \in 1 .. n - i + 1
         /\ \A k \in i .. i + GroupLength(changed, i) - 1 : changed[k]
<1> DEFINE limit == n - i + 1
           good == {l \in Nat : changed[i + l - 1]}
           Is(l) == /\ \A k \in i .. (i + l - 1) : changed[k]
                    /\ i + l <= n => ~changed[i + l]
<1>1. limit \in Nat /\ limit > 0 /\ i \in Nat
  OBVIOUS
<1>2. PICK p \in 0 .. limit : (\A l \in 1 .. p : l \in good) /\ (p < limit => p + 1 \notin good)
  <2> HIDE DEF good, limit
  <2> QED BY <1>1, Initial
<1>3. p \in Nat /\ p # 0
  <2>1. CASE p = 0
    <3>1. i + 1 - 1 = i /\ 0 < limit /\ 0 + 1 = 1
      BY <1>1
    <3>2. 1 \in good
      BY <3>1
    <3> QED BY <1>2, <2>1, <3>1, <3>2
  <2> QED BY <1>1, <2>1
<1>4. p \in 1 .. limit /\ Is(p)
  <2>1. ASSUME NEW k \in i .. (i + p - 1) PROVE changed[k]
    <3>1. k - i + 1 \in 1 .. p /\ i + (k - i + 1) - 1 = k
      BY <1>1, <1>3
    <3>2. k - i + 1 \in good
      BY <1>2, <3>1
    <3>3. changed[i + (k - i + 1) - 1]
      BY <3>2
    <3> QED BY <3>1, <3>3
  <2>2. ASSUME i + p <= n PROVE ~changed[i + p]
    <3>1. p < limit /\ i + (p + 1) - 1 = i + p /\ p + 1 \in Nat
      BY <1>1, <1>3, <2>2
    <3>2. p + 1 \notin good
      BY <1>2, <3>1
    <3> QED BY <3>1, <3>2
  <2>3. p \in 1 .. limit
    BY <1>1, <1>2, <1>3
  <2> QED BY <2>1, <2>2, <2>3
<1>5. GroupLength(changed, i) = CHOOSE l \in 1 .. limit : Is(l)
  BY DEF GroupLength
<1>6. (CHOOSE l \in 1 .. limit : Is(l)) \in 1 .. limit /\ Is(CHOOSE l \in 1 .. limit : Is(l))
  <2> HIDE DEF Is, limit
  <2> QED BY <1>4
<1> QED BY <1>5, <1>6

\* Boundaries have scores.
LEMMA BoundaryScored ==
  ASSUME NEW lines \in Seq(Text1), NEW pos \in 1 .. Len(lines) + 1
  PROVE  ScoreBoundary(lines, pos) \in Int
<1>1. CASE pos = 1 \/ pos = Len(lines) + 1
  <2>1. ScoreBoundary(lines, pos) = 50
    BY <1>1 DEF ScoreBoundary
  <2> QED BY <2>1
<1>2. CASE ~(pos = 1 \/ pos = Len(lines) + 1)
  <2> DEFINE prev == lines[pos - 1]
             curr == lines[pos]
             p == LineIndent(prev)
             c == LineIndent(curr)
             margin == CASE Blank(prev) /\ Blank(curr) -> 80
                         [] Blank(prev) # Blank(curr) -> 100
                         [] OTHER -> Greatest(0, 40 - 2 * Least(p, c)) + (IF c < p THEN 30 ELSE IF c > p THEN 20 ELSE 0)
  <2>1. pos - 1 \in 1 .. Len(lines) /\ pos \in 1 .. Len(lines)
    BY <1>2
  <2>2. prev \in Text1 /\ curr \in Text1
    BY <2>1
  <2> HIDE DEF prev, curr
  <2>3. p \in Int /\ c \in Int
    BY <2>2 DEF LineIndent, Text1
  <2> HIDE DEF p, c
  <2>4. Greatest(0, 40 - 2 * Least(p, c)) + (IF c < p THEN 30 ELSE IF c > p THEN 20 ELSE 0) \in Int
    BY <2>3 DEF Greatest, Least
  <2>5. margin \in Int
    <3>1. Blank(prev) \in BOOLEAN /\ Blank(curr) \in BOOLEAN
      BY DEF Blank
    <3> QED BY <2>4, <3>1
  <2>6. ScoreBoundary(lines, pos) = margin + (IF prev.key \in Ends THEN 40 ELSE 0) - (IF curr.key \in BlockEnds THEN 30 ELSE 0)
    BY <1>2, Zenon DEF ScoreBoundary, prev, curr, p, c
  <2> HIDE DEF margin
  <2>7. margin + (IF prev.key \in Ends THEN 40 ELSE 0) - (IF curr.key \in BlockEnds THEN 30 ELSE 0) \in Int
    BY <2>5
  <2> QED BY <2>6, <2>7
<1> QED BY <1>1, <1>2

\* The best start of a group is one of its starts.
LEMMA BestStartIn ==
  ASSUME NEW lines \in Seq(Text1), NEW changed, NEW i \in 1 .. Len(lines), NEW len \in 1 .. Len(lines) - i + 1
  PROVE  BestStart(lines, GroupStarts(lines, changed, i, len), i, len) \in GroupStarts(lines, changed, i, len)
<1> DEFINE n == Len(lines)
           starts == GroupStarts(lines, changed, i, len)
           Score(p) == ScoreChangeGroup(lines, p, len)
           best == {p \in starts : \A q \in starts : Score(p) >= Score(q)}
           f == [p \in starts |-> Score(p)]
<1>1. n \in Nat /\ i \in Nat \ {0} /\ len \in Nat \ {0} /\ i + len - 1 <= n
  OBVIOUS
<1>2. \A p \in starts : p \in 1 .. i \/ p \in i .. n - len + 1
  BY DEF GroupStarts
<1>3. i \in starts
  <2>1. i \in 1 .. i /\ i + 1 .. i = {}
    BY <1>1
  <2> QED BY <2>1 DEF GroupStarts
<1> HIDE DEF starts
<1>4. \A p \in starts : p \in 1 .. n - len + 1 /\ p \in 0 .. n
  BY <1>1, <1>2
<1>5. \A p \in starts : Score(p) \in Int
  <2> SUFFICES ASSUME NEW p \in starts PROVE Score(p) \in Int
    OBVIOUS
  <2>1. p \in 1 .. n + 1 /\ p + len \in 1 .. n + 1
    BY <1>1, <1>4
  <2>2. ScoreBoundary(lines, p) \in Int /\ ScoreBoundary(lines, p + len) \in Int
    BY <2>1, BoundaryScored
  <2> QED BY <2>2 DEF ScoreChangeGroup
<1>6. starts \in SUBSET (0 .. n) /\ starts # {}
  BY <1>3, <1>4
<1>7. best # {}
  <2>1. \A p \in starts : f[p] \in Int /\ f[p] = Score(p)
    BY <1>5
  <2> HIDE DEF f, Score
  <2>2. \E k \in starts : \A l \in starts : f[k] >= f[l]
    BY <1>1, <1>6, <2>1, MostBy
  <2> QED BY <2>1, <2>2
<1>8. BestStart(lines, starts, i, len) = IF i \in best THEN i ELSE Min(best)
  BY DEF BestStart
<1>9. best \in SUBSET (0 .. n) /\ best \subseteq starts
  BY <1>6
<1> HIDE DEF best
<1>10. Min(best) \in best
  BY <1>1, <1>7, <1>9, Smallest
<1>11. BestStart(lines, starts, i, len) \in starts
  BY <1>3, <1>8, <1>9, <1>10
<1> QED BY <1>11 DEF starts

\* What the compaction of a side works on: every value keeps the unchanged lines.
CompactStates(lines, u0) ==
  {s \in [next : Nat, changed : [1 .. Len(lines) -> BOOLEAN]] : Keeps(lines, u0, s.changed)}
\* A line that is behind the last group and changed starts the next group.
CompactStep(lines, s, i) ==
  IF i < s.next \/ ~s.changed[i] THEN s ELSE CompactGroup(lines, s.changed, i, GroupLength(s.changed, i))
\* The steps of compactChanges as a function, for Runs.
CompactSteps(lines, u0) ==
  [p \in CompactStates(lines, u0) \X (1 .. Len(lines)) |-> CompactStep(lines, p[1], p[2])]

\* One step of compactChanges keeps the unchanged lines: a group only slides over lines that
\* are the same as the ones it leaves behind.
LEMMA CompactStepIn ==
  ASSUME NEW lines \in Seq(Text1), NEW u0, Len(u0) \in Nat, NEW s \in CompactStates(lines, u0), NEW i \in 1 .. Len(lines)
  PROVE  CompactStep(lines, s, i) \in CompactStates(lines, u0)
<1> DEFINE n == Len(lines)
           changed == s.changed
           len == GroupLength(changed, i)
           to == BestStart(lines, GroupStarts(lines, changed, i, len), i, len)
           r == MoveGroup(changed, i, len, to)
<1>1. CASE i < s.next \/ ~changed[i]
  <2>1. CompactStep(lines, s, i) = s
    BY <1>1 DEF CompactStep
  <2> QED BY <2>1
<1>2. CASE ~(i < s.next) /\ changed[i]
  <2>1. n \in Nat /\ changed \in [1 .. n -> BOOLEAN] /\ Keeps(lines, u0, changed)
    BY DEF CompactStates
  <2>2. Len(changed) = n
    BY <2>1, FirstNumbersSeq
  <2>3. CompactStep(lines, s, i) = r
    BY <1>2 DEF CompactStep, CompactGroup
  <2> HIDE DEF changed
  <2>4. len \in 1 .. n - i + 1 /\ \A k \in i .. i + len - 1 : changed[k]
    BY <1>2, <2>1, <2>2, GroupLengthIs
  <2> HIDE DEF len
  <2>5. to \in GroupStarts(lines, changed, i, len)
    BY <2>4, BestStartIn
  <2> HIDE DEF to
  <2>6. r.next \in Nat /\ r.changed \in [1 .. n -> BOOLEAN] /\ Keeps(lines, u0, r.changed)
    BY <2>1, <2>4, <2>5, GroupMoves
  <2>7. r = [next |-> r.next, changed |-> r.changed]
    BY DEF MoveGroup
  <2> HIDE DEF r
  <2>8. r \in [next : Nat, changed : [1 .. n -> BOOLEAN]]
    BY <2>6, <2>7
  <2> QED BY <2>3, <2>6, <2>8 DEF CompactStates
<1> QED BY <1>1, <1>2

\* The values of the compaction, line by line.
LEMMA CompactRuns ==
  ASSUME NEW lines \in Seq(Text1), NEW u0, Len(u0) \in Nat, NEW changed,
         [next |-> 1, changed |-> changed] \in CompactStates(lines, u0)
  PROVE  \E v : /\ Runs(v, CompactStates(lines, u0), [next |-> 1, changed |-> changed], CompactSteps(lines, u0), Len(lines))
               /\ CompactChanges(lines, changed) = v[Len(lines)].changed
<1> DEFINE n == Len(lines)
           A == CompactStates(lines, u0)
           base == [next |-> 1, changed |-> changed]
           g == CompactSteps(lines, u0)
           ks == Numbers(Len(lines))
           Unfolded(iter, s) == IF s = {} THEN base ELSE CompactStep(lines, iter[s \ {Max(s)}], ks[Max(s)])
           h == CHOOSE iter : iter = [s \in SUBSET DOMAIN ks |-> Unfolded(iter, s)]
<1>1. n \in Nat /\ base \in A /\ g \in [A \X (1 .. n) -> A]
  <2>1. base \in A
    OBVIOUS
  <2>2. \A a \in A, k \in 1 .. n : CompactStep(lines, a, k) \in A
    BY CompactStepIn
  <2>3. g = [p \in A \X (1 .. n) |-> CompactStep(lines, p[1], p[2])]
    BY DEF CompactSteps
  <2>4. n \in Nat
    OBVIOUS
  <2> HIDE DEF A, g, base
  <2> QED BY <2>1, <2>2, <2>3, <2>4
<1>2. CompactChanges(lines, changed) = h[DOMAIN ks].changed
  BY DEF CompactChanges, CompactStep, FoldLeft, MapThenFoldSet
<1>3. DOMAIN ks = 1 .. n
  BY NumbersAre
<1>4. ASSUME NEW iter \in [SUBSET (1 .. n) -> A], NEW s \in SUBSET (1 .. n), s # {}, Max(s) \in 1 .. n, iter[s \ {Max(s)}] \in A
      PROVE  g[<<iter[s \ {Max(s)}], Max(s)>>] = Unfolded(iter, s)
  <2>1. ks[Max(s)] = Max(s)
    BY <1>1, <1>4, NumbersAre
  <2>2. g = [p \in A \X (1 .. n) |-> CompactStep(lines, p[1], p[2])]
    BY DEF CompactSteps
  <2> HIDE DEF A, g, ks, n, base
  <2> QED BY <1>4, <2>1, <2>2
<1>5. h = [s \in SUBSET (1 .. n) |-> Unfolded(h, s)]
  <2>1. PICK iter : Solves(iter, A, base, g, n)
    <3> HIDE DEF A, base, g, n
    <3> QED BY <1>1, FoldExists
  <2>2. /\ iter \in [SUBSET (1 .. n) -> A]
        /\ iter = [s \in SUBSET (1 .. n) |-> IF s = {} THEN base ELSE g[<<iter[s \ {Max(s)}], Max(s)>>]]
    BY <2>1 DEF Solves
  <2>3. ASSUME NEW s \in SUBSET (1 .. n), s # {}
        PROVE  g[<<iter[s \ {Max(s)}], Max(s)>>] = Unfolded(iter, s)
    <3>1. Max(s) \in 1 .. n
      <4>1. s \in SUBSET (0 .. n)
        OBVIOUS
      <4> QED BY <1>1, <2>3, <4>1, MaxIn
    <3>2. iter[s \ {Max(s)}] \in A
      BY <2>2
    <3> HIDE DEF A, base, g, n, Unfolded, ks
    <3> QED BY <1>4, <2>2, <2>3, <3>1, <3>2
  <2>4. Unfolded(iter, {}) = base
    OBVIOUS
  <2> HIDE DEF A, base, g, n, Unfolded, ks
  <2>5. iter = [s \in SUBSET (1 .. n) |-> Unfolded(iter, s)]
    <3>1. \A s \in SUBSET (1 .. n) : (IF s = {} THEN base ELSE g[<<iter[s \ {Max(s)}], Max(s)>>]) = Unfolded(iter, s)
      BY <2>3, <2>4
    <3> QED BY <2>2, <3>1
  <2> QED BY <1>3, <2>5 DEF h
<1> HIDE DEF h
<1>6. h[{}] = base
  <2>1. {} \in SUBSET (1 .. n) /\ Unfolded(h, {}) = base
    OBVIOUS
  <2> HIDE DEF A, base, g, n, Unfolded, ks
  <2> QED BY <1>5, <2>1
<1>7. ASSUME NEW k \in 1 .. n, h[1 .. k - 1] \in A PROVE h[1 .. k] = g[<<h[1 .. k - 1], k>>]
  <2>1. (1 .. k) \in SUBSET (1 .. n) /\ 1 .. k # {} /\ (1 .. k) \ {k} = 1 .. k - 1
    BY <1>1, FirstNumbers
  <2>2. Max(1 .. k) = k
    BY MaxIs
  <2>3. h[1 .. k] = Unfolded(h, 1 .. k)
    <3> HIDE DEF A, base, g, n, Unfolded, ks
    <3> QED BY <1>5, <2>1
  <2>4. Unfolded(h, 1 .. k) = g[<<h[1 .. k - 1], k>>]
    <3>1. ks[k] = k
      BY <1>1, NumbersAre
    <3>2. g = [p \in A \X (1 .. n) |-> CompactStep(lines, p[1], p[2])]
      BY DEF CompactSteps
    <3> HIDE DEF A, g, ks, n, base
    <3> QED BY <1>7, <2>1, <2>2, <3>1, <3>2
  <2> HIDE DEF A, base, g, n, Unfolded, ks
  <2> QED BY <2>3, <2>4
<1>8. Runs([k \in 0 .. n |-> h[1 .. k]], A, base, g, n)
  <2> HIDE DEF A, base, g, n, Unfolded, ks
  <2> QED BY <1>1, <1>6, <1>7, FoldRuns
<1>9. CompactChanges(lines, changed) = [k \in 0 .. n |-> h[1 .. k]][n].changed
  <2> HIDE DEF A, base, g, Unfolded, ks
  <2>1. [k \in 0 .. n |-> h[1 .. k]][n] = h[DOMAIN ks]
    BY <1>1, <1>3
  <2> QED BY <1>2, <2>1
<1> QED BY <1>8, <1>9

-----------------------------------------------------------------------------
\* The compaction of both sides, and the theorem about it.

\* As many numbers, in order, of lines of the same texts.
KeptOf(lines, u, K) ==
  /\ K \in Seq(Int) /\ RisingTo(K) /\ Len(K) = Len(u)
  /\ \A k \in 1 .. Len(u) : K[k] \in 1 .. Len(lines) /\ lines[K[k]] = lines[u[k]]

\* The compaction of a side leaves as many lines unchanged, in order, of the same texts.
LEMMA SideKeeps ==
  ASSUME NEW lines \in Seq(Text1), NEW u, NEW paired, Lists(u, paired), paired \in SUBSET (1 .. Len(lines))
  PROVE  KeptOf(lines, u, CompactSide(lines, paired))
<1> DEFINE n == Len(lines)
           c0 == [i \in DOMAIN lines |-> i \notin paired]
           start == [next |-> 1, changed |-> c0]
           c == CompactChanges(lines, c0)
           K == CompactSide(lines, paired)
<1>1. n \in Nat /\ DOMAIN lines = 1 .. n
  OBVIOUS
<1>2. u \in Seq(Int) /\ Len(u) \in Nat
  BY DEF Lists
<1>3. c0 \in [1 .. n -> BOOLEAN] /\ Rest(c0) = paired
  BY <1>1 DEF Rest
<1> HIDE DEF c0
<1>4. start \in CompactStates(lines, u)
  <2>1. Keeps(lines, u, c0)
    BY <1>3 DEF Keeps
  <2> QED BY <1>3, <2>1 DEF CompactStates
<1>5. c \in [1 .. n -> BOOLEAN] /\ Keeps(lines, u, c)
  <2>1. PICK v : /\ Runs(v, CompactStates(lines, u), start, CompactSteps(lines, u), Len(lines))
                 /\ c = v[Len(lines)].changed
    BY <1>2, <1>4, CompactRuns
  <2>2. v[n] \in CompactStates(lines, u)
    <3> HIDE DEF start, c
    <3> QED BY <1>1, <2>1 DEF Runs
  <2> HIDE DEF c
  <2> QED BY <2>1, <2>2 DEF CompactStates
<1>6. K = Chosen(Numbers(Len(c)), Rest(c))
  BY DEF CompactSide, Unchanged, Rest, c0
<1> HIDE DEF c, K, start
<1>7. Len(c) = n /\ DOMAIN c = 1 .. n
  BY <1>1, <1>5, FirstNumbersSeq
<1>8. Lists(K, Rest(c))
  <2>1. Rest(c) \in SUBSET (1 .. n)
    BY <1>7 DEF Rest
  <2> QED BY <1>1, <1>6, <1>7, <2>1, ChosenLists
<1>9. PICK w : Lists(w, Rest(c)) /\ Len(w) = Len(u) /\ \A k \in 1 .. Len(u) : lines[w[k]] = lines[u[k]]
  BY <1>5 DEF Keeps
<1>10. Len(K) = Len(w) /\ \A k \in DOMAIN K : K[k] = w[k]
  BY <1>8, <1>9, OneList
<1>11. K \in Seq(Int) /\ RisingTo(K) /\ DOMAIN K = 1 .. Len(K)
  BY <1>8 DEF Lists
<1>12. ASSUME NEW k \in 1 .. Len(u) PROVE K[k] \in 1 .. n /\ lines[K[k]] = lines[u[k]]
  <2>1. k \in DOMAIN K
    BY <1>9, <1>10, <1>11
  <2>2. K[k] \in Rest(c)
    BY <1>8, <2>1 DEF Lists
  <2>3. Rest(c) \in SUBSET (1 .. n)
    BY <1>7 DEF Rest
  <2> QED BY <1>9, <1>10, <2>1, <2>2, <2>3
<1> QED BY <1>9, <1>10, <1>11, <1>12 DEF K, n, KeptOf

\* The numbers of one side of an alignment are listed by it.
OneSide(q, side) == [k \in 1 .. Len(q) |-> q[k][side]]
\* The set of the numbers of one side.
SideSet(q, side) == {q[k][side] : k \in DOMAIN q}
\* The numbers of one side are among the first n and rise.
GoesUp(q, side, n) ==
  /\ Len(q) \in Nat /\ DOMAIN q = 1 .. Len(q)
  /\ \A k \in 1 .. Len(q) : q[k][side] \in 1 .. n
  /\ \A k, l \in 1 .. Len(q) : k < l => q[k][side] < q[l][side]

\* The lines of a side of an alignment that goes forward are listed by it, as many as pairs.
LEMMA SideOf ==
  ASSUME NEW q, NEW n \in Nat, NEW side, GoesUp(q, side, n)
  PROVE  /\ Lists(OneSide(q, side), SideSet(q, side)) /\ Len(OneSide(q, side)) = Len(q)
         /\ SideSet(q, side) \in SUBSET (1 .. n)
         /\ \A k \in 1 .. Len(q) : OneSide(q, side)[k] = q[k][side]
<1> DEFINE L == Len(q)
<1>0. /\ L \in Nat /\ DOMAIN q = 1 .. L
      /\ \A k \in 1 .. L : q[k][side] \in 1 .. n
      /\ \A k, l \in 1 .. L : k < l => q[k][side] < q[l][side]
  BY DEF GoesUp
<1> HIDE DEF L
<1> DEFINE u == [k \in 1 .. L |-> q[k][side]]
           I == {q[k][side] : k \in DOMAIN q}
<1>1. u \in [1 .. L -> Int]
  BY <1>0
<1>2. \A k \in 1 .. L : u[k] = q[k][side]
  OBVIOUS
<1>3. \A x : x \in I <=> \E k \in 1 .. L : q[k][side] = x
  BY <1>0
<1>4. I \in SUBSET (1 .. n)
  BY <1>0
<1> HIDE DEF u, I
<1>5. u \in Seq(Int) /\ Len(u) = L /\ DOMAIN u = 1 .. L
  BY <1>0, <1>1, FirstNumbersSeq
<1>6. RisingTo(u)
  BY <1>0, <1>2, <1>5 DEF RisingTo
<1>7. \A x : x \in I <=> \E k \in DOMAIN u : u[k] = x
  BY <1>2, <1>3, <1>5
<1>8. u = OneSide(q, side) /\ I = SideSet(q, side)
  BY DEF u, I, L, OneSide, SideSet
<1> QED BY <1>2, <1>4, <1>5, <1>6, <1>7, <1>8 DEF Lists, L

\* The compaction keeps the pairs of an alignment: as many, in order, of the same texts.
LEMMA CompactionKeeps ==
  ASSUME NEW A \in Seq(Text1), NEW B \in Seq(Text1), NEW E \in SUBSET ((1 .. Len(A)) \X (1 .. Len(B))),
         NEW x \in Within(E, 0, Len(A), 0, Len(B))
  PROVE  /\ Monotone(CompactLineDiff(A, B, x)) /\ Len(x) = Len(CompactLineDiff(A, B, x))
         /\ \A k \in DOMAIN x : /\ A[x[k][1]] = A[CompactLineDiff(A, B, x)[k][1]]
                                /\ B[x[k][2]] = B[CompactLineDiff(A, B, x)[k][2]]
         /\ CompactLineDiff(A, B, x) \in Seq((1 .. Len(A)) \X (1 .. Len(B)))
<1>1. CASE x = <<>>
  <2>1. CompactLineDiff(A, B, x) = x
    BY <1>1 DEF CompactLineDiff
  <2>2. x \in Seq((1 .. Len(A)) \X (1 .. Len(B)))
    BY <1>1
  <2> QED BY <2>1, <2>2 DEF Within
<1>2. CASE x # <<>>
  <2> DEFINE n == Len(A)
             m == Len(B)
             L == Len(x)
             a == OneSide(x, 1)
             b == OneSide(x, 2)
             SA == SideSet(x, 1)
             SB == SideSet(x, 2)
             K == CompactSide(A, SA)
             M == CompactSide(B, SB)
             y == CompactLineDiff(A, B, x)
  <2>1. n \in Nat /\ m \in Nat
    OBVIOUS
  <2>2. /\ x \in Seq(E) /\ Monotone(x) /\ \A k \in DOMAIN x : x[k][1] \in 0 + 1 .. n /\ x[k][2] \in 0 + 1 .. m
    BY DEF Within
  <2>3. L \in Nat /\ DOMAIN x = 1 .. L
    BY <2>2
  <2>4. \A k \in 1 .. L : x[k][1] \in 1 .. n /\ x[k][2] \in 1 .. m
    BY <2>2, <2>3
  <2>5. \A k, l \in 1 .. L : k < l => x[k][1] < x[l][1] /\ x[k][2] < x[l][2]
    BY <2>2, <2>3 DEF Monotone
  <2>6. /\ Lists(a, SA) /\ Len(a) = L /\ SA \in SUBSET (1 .. n)
        /\ \A k \in 1 .. L : a[k] = x[k][1]
    <3>1. GoesUp(x, 1, n)
      BY <2>3, <2>4, <2>5 DEF GoesUp
    <3> QED BY <2>1, <3>1, SideOf
  <2>7. /\ Lists(b, SB) /\ Len(b) = L /\ SB \in SUBSET (1 .. m)
        /\ \A k \in 1 .. L : b[k] = x[k][2]
    <3>1. GoesUp(x, 2, m)
      BY <2>3, <2>4, <2>5 DEF GoesUp
    <3> QED BY <2>1, <3>1, SideOf
  <2>8. (\A k \in 1 .. L : a[k] = x[k][1]) /\ (\A k \in 1 .. L : b[k] = x[k][2])
    BY <2>6, <2>7
  <2>9. y = PairedInOrder(K, M)
    BY <1>2 DEF CompactLineDiff, SideSet
  <2> HIDE DEF a, b, SA, SB, L
  <2> HIDE DEF n, m
  <2>10. K \in Seq(Int) /\ RisingTo(K) /\ Len(K) = L /\ \A k \in 1 .. L : K[k] \in 1 .. n /\ A[K[k]] = A[a[k]]
    <3>1. SA \in SUBSET (1 .. Len(A)) /\ Lists(a, SA)
      BY <2>6 DEF n
    <3>2. /\ K \in Seq(Int) /\ RisingTo(K) /\ Len(K) = Len(a)
          /\ \A k \in 1 .. Len(a) : K[k] \in 1 .. Len(A) /\ A[K[k]] = A[a[k]]
      <4>1. KeptOf(A, a, K)
        BY <3>1, SideKeeps
      <4> HIDE DEF K
      <4> QED BY <4>1 DEF KeptOf
    <3> HIDE DEF K
    <3>3. Len(A) = n
      BY DEF n
    <3> QED BY <2>6, <3>2, <3>3
  <2>11. M \in Seq(Int) /\ RisingTo(M) /\ Len(M) = L /\ \A k \in 1 .. L : M[k] \in 1 .. m /\ B[M[k]] = B[b[k]]
    <3>1. SB \in SUBSET (1 .. Len(B)) /\ Lists(b, SB)
      BY <2>7 DEF m
    <3>2. /\ M \in Seq(Int) /\ RisingTo(M) /\ Len(M) = Len(b)
          /\ \A k \in 1 .. Len(b) : M[k] \in 1 .. Len(B) /\ B[M[k]] = B[b[k]]
      <4>1. KeptOf(B, b, M)
        BY <3>1, SideKeeps
      <4> HIDE DEF M
      <4> QED BY <4>1 DEF KeptOf
    <3> HIDE DEF M
    <3>3. Len(B) = m
      BY DEF m
    <3> QED BY <2>7, <3>2, <3>3
  <2> HIDE DEF K, M, y
  <2>12. Least(Len(K), Len(M)) = L
    BY <2>3, <2>10, <2>11 DEF Least
  <2>13. y = [k \in 1 .. L |-> <<K[k], M[k]>>]
    BY <2>9, <2>12 DEF PairedInOrder
  <2>14. Len(y) = L /\ DOMAIN y = 1 .. L /\ \A k \in 1 .. L : y[k][1] = K[k] /\ y[k][2] = M[k]
    <3>1. [k \in 1 .. L |-> <<K[k], M[k]>>] \in [1 .. L -> {<<K[k], M[k]>> : k \in 1 .. L}]
      OBVIOUS
    <3>2. Len(y) = L /\ DOMAIN y = 1 .. L
      BY <2>3, <2>13, <3>1, FirstNumbersSeq
    <3>3. \A k \in 1 .. L : y[k][1] = K[k] /\ y[k][2] = M[k]
      BY <2>13
    <3> QED BY <3>2, <3>3
  <2>15. Monotone(y)
    <3> SUFFICES ASSUME NEW k \in DOMAIN y, NEW l \in DOMAIN y, k < l PROVE y[k][1] < y[l][1] /\ y[k][2] < y[l][2]
      BY DEF Monotone
    <3>1. k \in DOMAIN K /\ l \in DOMAIN K /\ k \in DOMAIN M /\ l \in DOMAIN M
      BY <2>10, <2>11, <2>14
    <3>2. K[k] < K[l] /\ M[k] < M[l]
      BY <2>10, <2>11, <3>1 DEF RisingTo
    <3> QED BY <2>14, <3>2
  <2>16. Len(x) = Len(y)
    BY <2>14 DEF L
  <2>17. ASSUME NEW k \in DOMAIN x PROVE A[x[k][1]] = A[y[k][1]] /\ B[x[k][2]] = B[y[k][2]]
    <3>1. k \in 1 .. L
      BY <2>3
    <3>2. y[k][1] = K[k] /\ y[k][2] = M[k] /\ a[k] = x[k][1] /\ b[k] = x[k][2]
      BY <2>8, <2>14, <3>1
    <3> QED BY <2>10, <2>11, <3>1, <3>2
  <2>18. y \in Seq((1 .. n) \X (1 .. m))
    <3>1. \A k \in 1 .. L : <<K[k], M[k]>> \in (1 .. n) \X (1 .. m)
      BY <2>10, <2>11
    <3>2. y \in [1 .. L -> (1 .. n) \X (1 .. m)]
      BY <2>13, <3>1
    <3> QED BY <2>3, <3>2, FirstNumbersSeq
  <2> QED BY <2>15, <2>16, <2>17, <2>18 DEF y, n, m
<1> QED BY <1>1, <1>2

\* The files of a run are those it was given, and they are sequences of lines.
FilesGiven == input \in Inputs

\* No step of a run touches the input.
LEMMA FilesAreGiven == Spec => []FilesGiven
<1>1. Init => FilesGiven
  BY DEF Init, FilesGiven
<1>2. FilesGiven /\ [Next]_vars => FilesGiven'
  <2> SUFFICES ASSUME FilesGiven, [Next]_vars PROVE FilesGiven'
    OBVIOUS
  <2>1. input' = input
    <3>1. CASE Decide
      BY <3>1, Zenon DEF Decide, FallBack
    <3>2. CASE JoinParses
      BY <3>2, Zenon DEF JoinParses, FallBack
    <3>3. CASE Match
      BY <3>3, Zenon DEF Match
    <3>4. CASE Script
      BY <3>4, Zenon DEF Script
    <3>5. CASE Comment
      BY <3>5, Zenon DEF Comment
    <3>6. CASE Assemble
      BY <3>6, Zenon DEF Assemble
    <3>7. CASE Render
      BY <3>7, Zenon DEF Render
    <3>8. CASE Done \/ UNCHANGED vars
      BY <3>8, Zenon DEF Done, vars
    <3>9. ASSUME NEW side \in Sides, ParseSide(side) PROVE input' = input
      BY <3>9, Zenon DEF ParseSide
    <3> QED BY <3>1, <3>2, <3>3, <3>4, <3>5, <3>6, <3>7, <3>8, <3>9, Zenon DEF Next
  <2> QED BY <2>1 DEF FilesGiven
<1> QED BY <1>1, <1>2, PTL DEF Spec

\* CompactionKeepsText follows from the files alone.
LEMMA KeepsText ==
  ASSUME FilesGiven PROVE CompactionKeepsText
<1> DEFINE A == input.A
           B == input.B
<1>1. A \in Seq(Text1) /\ B \in Seq(Text1)
  BY InputsAssumption DEF FilesGiven, Text1
<1> HIDE DEF A, B
<1>2. Twins(A, B) \in SUBSET ((1 .. Len(A)) \X (1 .. Len(B)))
  BY <1>1, TwinsAre
<1> DEFINE x == AlignedLines(A, B)
<1>3. x \in Within(Twins(A, B), 0, Len(A), 0, Len(B))
  BY <1>1, AlignedIn
<1> HIDE DEF x
<1> DEFINE y == CompactLineDiff(A, B, x)
<1>4. /\ Monotone(y) /\ Len(x) = Len(y)
      /\ \A k \in DOMAIN x : A[x[k][1]] = A[y[k][1]] /\ B[x[k][2]] = B[y[k][2]]
  BY <1>1, <1>2, <1>3, CompactionKeeps
<1>5. y = LineDiff(A, B)
  BY DEF LineDiff, x
<1> HIDE DEF y
<1> QED BY <1>4, <1>5 DEF CompactionKeepsText, A, B, x

\* Whatever the two files, compactLineDiff leaves as many unchanged lines on both sides as
\* the diff had pairs, and pairs lines of the same text as the diff did, in the same order:
\* it only moves changes over lines that repeat.
THEOREM CompactionIsHarmless == Spec => []CompactionKeepsText
<1>1. FilesGiven => CompactionKeepsText
  BY KeepsText
<1> QED BY <1>1, FilesAreGiven, PTL

-----------------------------------------------------------------------------
\* The partition: partners seen from both sides.

\* The line diff pairs lines of the same text, forward on both sides.
LEMMA LineDiffIn ==
  ASSUME NEW A \in Seq(Text1), NEW B \in Seq(Text1)
  PROVE  /\ LineDiff(A, B) \in Seq((1 .. Len(A)) \X (1 .. Len(B))) /\ Monotone(LineDiff(A, B))
         /\ \A k \in DOMAIN LineDiff(A, B) : A[LineDiff(A, B)[k][1]].key = B[LineDiff(A, B)[k][2]].key
<1> DEFINE E == Twins(A, B)
           x == AlignedLines(A, B)
           y == CompactLineDiff(A, B, x)
<1>1. E \in SUBSET ((1 .. Len(A)) \X (1 .. Len(B)))
  BY TwinsAre
<1>2. x \in Within(E, 0, Len(A), 0, Len(B))
  BY AlignedIn
<1> HIDE DEF x
<1>3. /\ Monotone(y) /\ Len(x) = Len(y)
      /\ \A k \in DOMAIN x : A[x[k][1]] = A[y[k][1]] /\ B[x[k][2]] = B[y[k][2]]
      /\ y \in Seq((1 .. Len(A)) \X (1 .. Len(B)))
  BY <1>1, <1>2, CompactionKeeps
<1>4. LineDiff(A, B) = y
  BY DEF LineDiff, x
<1> HIDE DEF y
<1>5. x \in Seq(E)
  BY <1>2 DEF Within
<1>6. ASSUME NEW k \in DOMAIN y PROVE A[y[k][1]].key = B[y[k][2]].key
  <2>1. k \in DOMAIN x
    BY <1>3, <1>5
  <2>2. x[k] \in E
    BY <1>5, <2>1
  <2>3. A[x[k][1]].key = B[x[k][2]].key
    BY <2>2 DEF Twins
  <2> QED BY <1>3, <2>1, <2>3
<1> QED BY <1>3, <1>4, <1>6

\* Partners of lines, the same seen from both sides.
Mutual(f, g, n, m) ==
  /\ f \in [1 .. n -> 0 .. m] /\ g \in [1 .. m -> 0 .. n]
  /\ \A i \in 1 .. n : f[i] # 0 => g[f[i]] = i
  /\ \A j \in 1 .. m : g[j] # 0 => f[g[j]] = j

\* A line and its partner are a pair of the alignment.
PairedBy(q, i, j) == \E k \in DOMAIN q : q[k][1] = i /\ q[k][2] = j

\* matchedA of an alignment that goes forward holds the partner of every line of A that has
\* one, and 0 for the others.
LEMMA MatchedSrc ==
  ASSUME NEW n \in Nat, NEW m \in Nat, NEW q \in Seq((1 .. n) \X (1 .. m)), Monotone(q)
  PROVE  /\ MatchedFrom(q, n, 1) \in [1 .. n -> 0 .. m]
         /\ \A i \in 1 .. n, j \in 1 .. m : MatchedFrom(q, n, 1)[i] = j <=> PairedBy(q, i, j)
<1> DEFINE K(i) == {k \in DOMAIN q : q[k][1] = i}
           c(i) == CHOOSE k \in K(i) : TRUE
           f == [i \in 1 .. n |-> IF K(i) = {} THEN 0 ELSE q[c(i)][2]]
<1>1. MatchedFrom(q, n, 1) = f
  BY DEF MatchedFrom, Lines
<1>2. \A i : K(i) # {} => c(i) \in K(i)
  OBVIOUS
<1> HIDE DEF c
<1>3. \A k \in DOMAIN q : q[k][1] \in 1 .. n /\ q[k][2] \in 1 .. m /\ k \in Int
  OBVIOUS
<1>4. \A k, l \in DOMAIN q : q[k][1] = q[l][1] => k = l
  <2> SUFFICES ASSUME NEW k \in DOMAIN q, NEW l \in DOMAIN q, q[k][1] = q[l][1], k # l PROVE FALSE
    OBVIOUS
  <2>1. k \in Int /\ l \in Int /\ q[k][1] \in Int /\ q[l][1] \in Int
    BY <1>3
  <2>2. k < l \/ l < k
    BY <2>1
  <2>3. q[k][1] < q[l][1] \/ q[l][1] < q[k][1]
    BY <2>2 DEF Monotone
  <2> QED BY <2>1, <2>3
<1>5. f \in [1 .. n -> 0 .. m]
  <2>1. \A i \in 1 .. n : (IF K(i) = {} THEN 0 ELSE q[c(i)][2]) \in 0 .. m
    BY <1>2, <1>3
  <2> HIDE DEF K
  <2> QED BY <2>1
<1>6. ASSUME NEW i \in 1 .. n, NEW j \in 1 .. m PROVE f[i] = j <=> PairedBy(q, i, j)
  <2>0. f[i] = IF K(i) = {} THEN 0 ELSE q[c(i)][2]
    OBVIOUS
  <2>1. CASE K(i) = {}
    <3>1. ~PairedBy(q, i, j)
      BY <2>1 DEF PairedBy
    <3>2. f[i] # j
      BY <2>0, <2>1
    <3> QED BY <3>1, <3>2
  <2>2. CASE K(i) # {}
    <3>1. c(i) \in DOMAIN q /\ q[c(i)][1] = i /\ f[i] = q[c(i)][2]
      BY <1>2, <2>0, <2>2
    <3>2. ASSUME PairedBy(q, i, j) PROVE f[i] = j
      <4>1. PICK k \in DOMAIN q : q[k][1] = i /\ q[k][2] = j
        BY <3>2 DEF PairedBy
      <4>2. k = c(i)
        BY <1>4, <3>1, <4>1
      <4> QED BY <3>1, <4>1, <4>2
    <3>3. ASSUME f[i] = j PROVE PairedBy(q, i, j)
      BY <3>1, <3>3 DEF PairedBy
    <3> QED BY <3>2, <3>3
  <2> QED BY <2>1, <2>2
<1> QED BY <1>1, <1>5, <1>6

\* matchedB of an alignment that goes forward holds the partner of every line of B that has
\* one, and 0 for the others.
LEMMA MatchedDst ==
  ASSUME NEW n \in Nat, NEW m \in Nat, NEW q \in Seq((1 .. n) \X (1 .. m)), Monotone(q)
  PROVE  /\ MatchedFrom(q, m, 2) \in [1 .. m -> 0 .. n]
         /\ \A i \in 1 .. n, j \in 1 .. m : MatchedFrom(q, m, 2)[j] = i <=> PairedBy(q, i, j)
<1> DEFINE K(i) == {k \in DOMAIN q : q[k][2] = i}
           c(i) == CHOOSE k \in K(i) : TRUE
           f == [i \in 1 .. m |-> IF K(i) = {} THEN 0 ELSE q[c(i)][1]]
<1>1. MatchedFrom(q, m, 2) = f
  BY DEF MatchedFrom, Lines
<1>2. \A i : K(i) # {} => c(i) \in K(i)
  OBVIOUS
<1> HIDE DEF c
<1>3. \A k \in DOMAIN q : q[k][1] \in 1 .. n /\ q[k][2] \in 1 .. m /\ k \in Int
  OBVIOUS
<1>4. \A k, l \in DOMAIN q : q[k][2] = q[l][2] => k = l
  <2> SUFFICES ASSUME NEW k \in DOMAIN q, NEW l \in DOMAIN q, q[k][2] = q[l][2], k # l PROVE FALSE
    OBVIOUS
  <2>1. k \in Int /\ l \in Int /\ q[k][2] \in Int /\ q[l][2] \in Int
    BY <1>3
  <2>2. k < l \/ l < k
    BY <2>1
  <2>3. q[k][2] < q[l][2] \/ q[l][2] < q[k][2]
    BY <2>2 DEF Monotone
  <2> QED BY <2>1, <2>3
<1>5. f \in [1 .. m -> 0 .. n]
  <2>1. \A i \in 1 .. m : (IF K(i) = {} THEN 0 ELSE q[c(i)][1]) \in 0 .. n
    BY <1>2, <1>3
  <2> HIDE DEF K
  <2> QED BY <2>1
<1>6. ASSUME NEW i \in 1 .. n, NEW j \in 1 .. m PROVE f[j] = i <=> PairedBy(q, i, j)
  <2>0. f[j] = IF K(j) = {} THEN 0 ELSE q[c(j)][1]
    OBVIOUS
  <2>1. CASE K(j) = {}
    <3>1. ~PairedBy(q, i, j)
      BY <2>1 DEF PairedBy
    <3>2. f[j] # i
      BY <2>0, <2>1
    <3> QED BY <3>1, <3>2
  <2>2. CASE K(j) # {}
    <3>1. c(j) \in DOMAIN q /\ q[c(j)][2] = j /\ f[j] = q[c(j)][1]
      BY <1>2, <2>0, <2>2
    <3>2. ASSUME PairedBy(q, i, j) PROVE f[j] = i
      <4>1. PICK k \in DOMAIN q : q[k][1] = i /\ q[k][2] = j
        BY <3>2 DEF PairedBy
      <4>2. k = c(j)
        BY <1>4, <3>1, <4>1
      <4> QED BY <3>1, <4>1, <4>2
    <3>3. ASSUME f[j] = i PROVE PairedBy(q, i, j)
      BY <3>1, <3>3 DEF PairedBy
    <3> QED BY <3>2, <3>3
  <2> QED BY <2>1, <2>2
<1> QED BY <1>1, <1>5, <1>6

\* matchedA and matchedB are inverse to each other, and their pairs are those of the diff.
LEMMA MatchedMutual ==
  ASSUME NEW n \in Nat, NEW m \in Nat, NEW q \in Seq((1 .. n) \X (1 .. m)), Monotone(q)
  PROVE  /\ Mutual(MatchedFrom(q, n, 1), MatchedFrom(q, m, 2), n, m)
         /\ \A i \in 1 .. n : MatchedFrom(q, n, 1)[i] # 0 => PairedBy(q, i, MatchedFrom(q, n, 1)[i])
<1> DEFINE f == MatchedFrom(q, n, 1)
           g == MatchedFrom(q, m, 2)
<1>1. f \in [1 .. n -> 0 .. m] /\ \A i \in 1 .. n, j \in 1 .. m : f[i] = j <=> PairedBy(q, i, j)
  BY MatchedSrc
<1>2. g \in [1 .. m -> 0 .. n] /\ \A i \in 1 .. n, j \in 1 .. m : g[j] = i <=> PairedBy(q, i, j)
  BY MatchedDst
<1> HIDE DEF f, g
<1>3. ASSUME NEW i \in 1 .. n, f[i] # 0 PROVE f[i] \in 1 .. m /\ PairedBy(q, i, f[i]) /\ g[f[i]] = i
  <2>1. f[i] \in 1 .. m
    BY <1>1, <1>3
  <2> QED BY <1>1, <1>2, <2>1
<1>4. ASSUME NEW j \in 1 .. m, g[j] # 0 PROVE f[g[j]] = j
  <2>1. g[j] \in 1 .. n
    BY <1>2, <1>4
  <2> QED BY <1>1, <1>2, <2>1
<1> QED BY <1>1, <1>2, <1>3, <1>4 DEF Mutual, f, g

\* As many lines of the one side have a partner as of the other.
LEMMA MutualCount ==
  ASSUME NEW n \in Nat, NEW m \in Nat, NEW f, NEW g, Mutual(f, g, n, m)
  PROVE  Cardinality({i \in DOMAIN f : f[i] # 0}) = Cardinality({j \in DOMAIN g : g[j] # 0})
<1> DEFINE P == {i \in DOMAIN f : f[i] # 0}
           Q == {j \in DOMAIN g : g[j] # 0}
           h == [i \in P |-> f[i]]
<1>1. /\ f \in [1 .. n -> 0 .. m] /\ g \in [1 .. m -> 0 .. n]
      /\ \A i \in 1 .. n : f[i] # 0 => g[f[i]] = i
      /\ \A j \in 1 .. m : g[j] # 0 => f[g[j]] = j
  BY DEF Mutual
<1>2. \A i \in P : i \in 1 .. n /\ f[i] \in 1 .. m /\ g[f[i]] = i /\ i # 0
  BY <1>1
<1>3. \A j \in Q : j \in 1 .. m /\ g[j] \in 1 .. n /\ f[g[j]] = j /\ j # 0
  BY <1>1
<1>4. (\A i \in P : f[i] \in Q) /\ \A j \in Q : g[j] \in P
  BY <1>1, <1>2, <1>3
<1>5. IsFiniteSet(P)
  <2>1. 1 \in Int /\ n \in Int
    OBVIOUS
  <2>2. IsFiniteSet(1 .. n)
    BY <2>1, FS_Interval
  <2>3. P \in SUBSET (1 .. n)
    BY <1>2
  <2> HIDE DEF P
  <2> QED BY <2>2, <2>3, FS_Subset
<1> HIDE DEF P, Q
<1>6. h \in [P -> Q] /\ (\A a, b \in P : h[a] = h[b] => a = b) /\ \A t \in Q : \E s \in P : h[s] = t
  <2>1. \A i \in P : h[i] = f[i]
    OBVIOUS
  <2>2. h \in [P -> Q]
    BY <1>4
  <2> HIDE DEF h
  <2> QED BY <1>2, <1>3, <1>4, <2>1, <2>2
<1>7. h \in Bijection(P, Q)
  BY <1>6 DEF Bijection, Injection, Surjection, IsInjective
<1>8. Cardinality(Q) = Cardinality(P)
  <2>1. ExistsBijection(P, Q)
    BY <1>7 DEF ExistsBijection
  <2> QED BY <1>5, <2>1, FS_Bijection
<1> QED BY <1>8 DEF P, Q

-----------------------------------------------------------------------------
\* The groups of the partition, and the theorem about it.

\* A run of partners goes both ways.
LEMMA RunBack ==
  ASSUME NEW n \in Nat, NEW m \in Nat, NEW f, NEW g, Mutual(f, g, n, m),
         NEW row \in 1 .. n, f[row] # 0, NEW q \in 1 .. m, row + (q - f[row]) \in 1 .. n,
         f[row + (q - f[row])] = f[row] + ((row + (q - f[row])) - row)
  PROVE  g[q] = row + (q - f[row])
<1> DEFINE r == row + (q - f[row])
<1>1. f[row] \in Int /\ f[row] + (r - row) = q /\ q # 0
  BY SMTT(30) DEF Mutual
<1>2. r \in 1 .. n /\ f[r] = q
  BY <1>1
<1> HIDE DEF r
<1>3. g[f[r]] = r
  BY <1>1, <1>2 DEF Mutual
<1>4. g[q] = r
  BY <1>2, <1>3
<1> QED BY <1>4 DEF r

\* What is untouched on the one side is so on the other.
LEMMA GroupAgrees ==
  ASSUME NEW n \in Nat, NEW m \in Nat, NEW f, NEW g, Mutual(f, g, n, m),
         NEW sub1, NEW sub2, \A i \in 1 .. n : f[i] # 0 /\ sub1[i] => sub2[f[i]],
         NEW own, NEW other, NEW row \in 1 .. n, NEW end \in row .. n,
         NEW row2 \in 1 .. m, NEW end2 \in row2 .. m, row2 = f[row], end2 - row2 = end - row,
         IsGroup1(f, sub1, own, other, row, end)
  PROVE  IsGroup1(g, sub2, other, own, row2, end2)
<1>1. /\ f \in [1 .. n -> 0 .. m] /\ g \in [1 .. m -> 0 .. n] /\ DOMAIN f = 1 .. n /\ DOMAIN g = 1 .. m
      /\ \A i \in 1 .. n : f[i] # 0 => g[f[i]] = i
  BY DEF Mutual
<1>2. /\ f[row] # 0 /\ (\A r \in row .. end : f[r] = f[row] + (r - row)) /\ own[row] = other[f[row]]
      /\ row = end /\ Cardinality({i \in DOMAIN f : f[i] # 0}) > 1 => HasSubstantiveNeighborInRun(f, sub1, row, f[row])
  BY Zenon DEF IsGroup1
<1>3. g[row2] = row /\ row # 0
  BY <1>1, <1>2
<1>4. row \in Int /\ end \in Int /\ row2 \in Int /\ end2 \in Int
  OBVIOUS
<1>5. ASSUME NEW q \in row2 .. end2 PROVE g[q] = row + (q - row2)
  <2>1. /\ q \in 1 .. m /\ row + (q - row2) \in row .. end /\ row + (q - row2) \in 1 .. n
    BY <1>4
  <2>2. f[row + (q - row2)] = row2 + ((row + (q - row2)) - row)
    BY <1>2, <2>1
  <2>3. f[row] # 0 /\ row2 = f[row]
    BY <1>2
  <2> QED BY <2>1, <2>2, <2>3, RunBack
<1>6. other[row2] = own[g[row2]]
  BY <1>2, <1>3
<1>7. ASSUME row2 = end2, Cardinality({j \in DOMAIN g : g[j] # 0}) > 1
      PROVE  HasSubstantiveNeighborInRun(g, sub2, row2, g[row2])
  <2>1. row = end
    BY <1>4, <1>7
  <2>2. Cardinality({i \in DOMAIN f : f[i] # 0}) > 1
    BY <1>7, MutualCount
  <2>3. HasSubstantiveNeighborInRun(f, sub1, row, row2)
    BY <1>2, <2>1, <2>2
  <2>4. PICK r \in 1 .. n \ {row} : /\ sub1[r]
                                    /\ \A q \in Least(r, row) .. Greatest(r, row) : f[q] # 0 /\ f[q] = row2 + (q - row)
    BY <1>1, <2>3 DEF HasSubstantiveNeighborInRun
  <2> DEFINE t == row2 + (r - row)
  <2>5. r \in Int /\ r # row /\ r \in Least(r, row) .. Greatest(r, row)
    BY <1>4 DEF Least, Greatest
  <2>6. f[r] # 0 /\ f[r] = t
    BY <2>4, <2>5
  <2>7. t \in 1 .. m /\ t # row2 /\ t \in Int
    <3>1. f[r] \in 0 .. m
      BY <1>1
    <3>2. f[r] \in 1 .. m
      BY <2>6, <3>1
    <3>3. t # row2
      BY <1>4, <2>5
    <3> HIDE DEF t
    <3> QED BY <2>6, <3>2, <3>3
  <2>8. sub2[t]
    BY <2>4, <2>6
  <2>9. ASSUME NEW q \in Least(t, row2) .. Greatest(t, row2) PROVE g[q] # 0 /\ g[q] = row + (q - row2)
    <3>1. /\ q \in 1 .. m /\ row + (q - row2) \in Least(r, row) .. Greatest(r, row) /\ row + (q - row2) \in 1 .. n
      BY <1>4, <2>5, <2>7 DEF Least, Greatest
    <3>2. f[row + (q - row2)] = row2 + ((row + (q - row2)) - row)
      BY <2>4, <3>1
    <3>3. f[row] # 0 /\ row2 = f[row]
      BY <1>2
    <3>4. g[q] = row + (q - row2)
      BY <3>1, <3>2, <3>3, RunBack
    <3> QED BY <3>1, <3>4
  <2> HIDE DEF t
  <2>10. t \in DOMAIN g \ {row2}
    BY <1>1, <2>7
  <2>11. \A q \in Least(t, row2) .. Greatest(t, row2) : g[q] # 0 /\ g[q] = g[row2] + (q - row2)
    BY <1>3, <2>9
  <2> QED BY <2>8, <2>10, <2>11 DEF HasSubstantiveNeighborInRun
<1>8. \A q \in row2 .. end2 : g[q] = g[row2] + (q - row2)
  BY <1>3, <1>5
<1>9. g[row2] # 0
  BY <1>3
<1> QED BY <1>6, <1>7, <1>8, <1>9, Zenon DEF IsGroup1

\* A side is parsed from its own file, and matched once both are.
ParsedRight ==
  \A side \in Sides : parsed[side] = NotYet \/ parsed[side].tree = Tree(Parse(File(side)))
\* The invariant behind PartitionIsSymmetric: the matching only begins with both trees there.
FilesInv == FilesGiven /\ ParsedRight /\ (pc = "match" => BothParsed)

\* FilesInv is inductive: it holds at the start and ParseSide and JoinParses, the only steps
\* that touch the trees or let the matching begin, keep it.
LEMMA SidesOwnFiles == Spec => []FilesInv
<1>1. Init => FilesInv
  BY DEF Init, FilesInv, FilesGiven, ParsedRight, Sides
<1>2. FilesInv /\ [Next]_vars => FilesInv'
  <2> SUFFICES ASSUME FilesInv, [Next]_vars PROVE FilesInv'
    OBVIOUS
  <2>1. FilesGiven /\ ParsedRight /\ (pc = "match" => BothParsed)
    BY DEF FilesInv
  <2>2. ASSUME input' = input, parsed' = parsed, pc' = "match" => pc = "match" \/ BothParsed PROVE FilesInv'
    <3>1. FilesGiven'
      BY <2>1, <2>2 DEF FilesGiven
    <3>2. ParsedRight'
      <4>1. \A side \in Sides : File(side)' = File(side)
        BY <2>2 DEF File
      <4> QED BY <2>1, <2>2, <4>1 DEF ParsedRight
    <3>3. BothParsed' <=> BothParsed
      BY <2>2 DEF BothParsed
    <3> QED BY <2>1, <2>2, <3>1, <3>2, <3>3 DEF FilesInv
  <2>3. CASE Decide
    <3>1. input' = input /\ parsed' = parsed
      BY <2>3, Zenon DEF Decide, FallBack
    <3>2. pc' = "render" \/ pc' = "parse"
      BY <2>3, Zenon DEF Decide, FallBack
    <3> QED BY <2>2, <3>1, <3>2
  <2>4. CASE JoinParses
    <3>1. input' = input /\ parsed' = parsed /\ BothParsed
      BY <2>4, Zenon DEF JoinParses, FallBack
    <3> QED BY <2>2, <3>1
  <2>5. CASE Match
    BY <2>2, <2>5, Zenon DEF Match
  <2>6. CASE Script
    BY <2>2, <2>6, Zenon DEF Script
  <2>7. CASE Comment
    BY <2>2, <2>7, Zenon DEF Comment
  <2>8. CASE Assemble
    <3>1. input' = input /\ parsed' = parsed /\ pc' = "render"
      BY <2>8, Zenon DEF Assemble
    <3> QED BY <2>2, <3>1
  <2>9. CASE Render
    <3>1. input' = input /\ parsed' = parsed /\ pc' = "done"
      BY <2>9, Zenon DEF Render
    <3> QED BY <2>2, <3>1
  <2>10. CASE Done \/ UNCHANGED vars
    BY <2>2, <2>10, Zenon DEF Done, vars
  <2>11. ASSUME NEW side \in Sides, ParseSide(side) PROVE FilesInv'
    <3>1. input' = input /\ pc' = pc /\ pc = "parse"
      BY <2>11, Zenon DEF ParseSide
    <3>2. \E r : parsed' = [parsed EXCEPT ![side] = r] /\ r.tree = Tree(Parse(File(side)))
      <4> DEFINE C == Parse(File(side))
                 r == [tree |-> Tree(C), comments |-> CommentBlocks(C), errors |-> Errors(C)]
      <4>1. parsed' = [parsed EXCEPT ![side] = r]
        BY <2>11, Zenon DEF ParseSide
      <4>2. r.tree = Tree(C)
        OBVIOUS
      <4> HIDE DEF r
      <4> QED BY <4>1, <4>2
    <3>3. PICK r : parsed' = [parsed EXCEPT ![side] = r] /\ r.tree = Tree(Parse(File(side)))
      BY <3>2
    <3>4. \A other \in Sides : File(other)' = File(other)
      BY <3>1 DEF File
    <3>5. ASSUME NEW other \in Sides PROVE (parsed'[other] = NotYet \/ parsed'[other].tree = Tree(Parse(File(other)))) 
      <4>1. parsed'[other] = parsed[other] \/ (other = side /\ parsed'[other] = r)
        BY <3>3
      <4>2. parsed[other] = NotYet \/ parsed[other].tree = Tree(Parse(File(other)))
        BY <2>1 DEF ParsedRight
      <4> QED BY <3>3, <4>1, <4>2
    <3>6. ParsedRight'
      BY <3>4, <3>5 DEF ParsedRight
    <3>7. FilesGiven' /\ pc' # "match"
      BY <2>1, <3>1 DEF FilesGiven
    <3> QED BY <3>6, <3>7 DEF FilesInv
  <2> QED BY <2>3, <2>4, <2>5, <2>6, <2>7, <2>8, <2>9, <2>10, <2>11, Zenon DEF Next
<1> QED BY <1>1, <1>2, PTL DEF Spec

\* The nodes of a parsed side lie on the lines of its file.
LEMMA NodesOnLines ==
  ASSUME FilesInv, BothParsed
  PROVE  /\ \A s \in DOMAIN S : S[s].row \in 1 .. Len(input.A) /\ S[s].end \in S[s].row .. Len(input.A)
         /\ \A d \in DOMAIN D : D[d].row \in 1 .. Len(input.B) /\ D[d].end \in D[d].row .. Len(input.B)
<1>1. S = Tree(Parse(input.A)) /\ D = Tree(Parse(input.B))
  <2>1. "src" \in Sides /\ "dst" \in Sides /\ File("src") = input.A /\ File("dst") = input.B
    BY DEF Sides, File
  <2>2. parsed["src"] # NotYet /\ parsed["dst"] # NotYet
    BY <2>1 DEF BothParsed
  <2> QED BY <2>1, <2>2 DEF FilesInv, ParsedRight, S, D
<1>2. \A file \in {input.A, input.B} : \A T \in {Tree(Parse(file))} :
        \A n \in DOMAIN T : T[n].row \in 1 .. Len(file) /\ T[n].end \in T[n].row .. Len(file)
  BY ParseAssumption DEF FilesInv, FilesGiven
<1>3. \A file \in {input.A, input.B} :
        \A n \in DOMAIN Tree(Parse(file)) :
          Tree(Parse(file))[n].row \in 1 .. Len(file) /\ Tree(Parse(file))[n].end \in Tree(Parse(file))[n].row .. Len(file)
  BY <1>2, Zenon
<1> QED BY <1>1, <1>3, Zenon

\* UntouchedOnBothSides follows from FilesInv: a node whose lines have partners in a row has
\* its partner's lines in a row as well, with as many changed lines among them.
LEMMA UntouchedAgree ==
  ASSUME FilesInv PROVE UntouchedOnBothSides
<1> SUFFICES ASSUME pc = "match", NEW s \in DOMAIN S, NEW d \in DOMAIN D,
                    IsGroup1A(NewLinePartition(input.A, input.B, S, D), S, s),
                    D[d].row = NewLinePartition(input.A, input.B, S, D).matchedA[S[s].row],
                    D[d].end - D[d].row = S[s].end - S[s].row
             PROVE  IsGroup1B(NewLinePartition(input.A, input.B, S, D), D, d)
  BY Zenon DEF UntouchedOnBothSides
<1> DEFINE A == input.A
           B == input.B
           n == Len(A)
           m == Len(B)
           q == LineDiff(A, B)
           f == MatchedFrom(q, n, 1)
           g == MatchedFrom(q, m, 2)
           sub1 == Substantive(A)
           sub2 == Substantive(B)
           own == Scopes(S, n)
           other == Scopes(D, m)
           row == S[s].row
           end == S[s].end
           row2 == D[d].row
           end2 == D[d].end
           part == NewLinePartition(A, B, S, D)
<1>1. A \in Seq(Text1) /\ B \in Seq(Text1)
  BY InputsAssumption DEF FilesInv, FilesGiven, Text1
<1>2. row \in 1 .. n /\ end \in row .. n /\ row2 \in 1 .. m /\ end2 \in row2 .. m
  <2>1. BothParsed
    BY DEF FilesInv
  <2> QED BY <2>1, NodesOnLines
<1>3. part = [matchedA |-> f, matchedB |-> g, subA |-> sub1, subB |-> sub2, scopeA |-> own, scopeB |-> other]
  BY DEF NewLinePartition, PartitionBy
<1> HIDE DEF A, B, part
<1>4. n \in Nat /\ m \in Nat /\ DOMAIN A = 1 .. n /\ DOMAIN B = 1 .. m
  BY <1>1
<1>5. /\ q \in Seq((1 .. n) \X (1 .. m)) /\ Monotone(q)
      /\ \A k \in DOMAIN q : A[q[k][1]].key = B[q[k][2]].key
  BY <1>1, LineDiffIn
<1> HIDE DEF q, n, m
<1>6. Mutual(f, g, n, m) /\ \A i \in 1 .. n : f[i] # 0 => PairedBy(q, i, f[i])
  BY <1>4, <1>5, MatchedMutual
<1> HIDE DEF f, g
<1>7. ASSUME NEW i \in 1 .. n, f[i] # 0, sub1[i] PROVE sub2[f[i]]
  <2>1. PICK k \in DOMAIN q : q[k][1] = i /\ q[k][2] = f[i]
    BY <1>6, <1>7 DEF PairedBy
  <2>2. A[i].key = B[f[i]].key
    BY <1>5, <2>1
  <2>3. f[i] \in 1 .. m
    BY <1>6, <1>7 DEF Mutual
  <2>4. sub1[i] = (LineWeight(A[i]) > 1) /\ sub2[f[i]] = (LineWeight(B[f[i]]) > 1)
    BY <1>4, <2>3 DEF Substantive
  <2>5. LineWeight(A[i]) = LineWeight(B[f[i]])
    BY <2>2 DEF LineWeight, Blank
  <2> QED BY <1>7, <2>4, <2>5
<1> HIDE DEF sub1, sub2, own, other, row, end, row2, end2
<1>8. IsGroup1(f, sub1, own, other, row, end) /\ row2 = f[row] /\ end2 - row2 = end - row
  <2>1. IsGroup1A(part, S, s) /\ row2 = part.matchedA[row] /\ end2 - row2 = end - row
    BY DEF part, A, B, row, end, row2, end2
  <2> QED BY <1>3, <2>1 DEF IsGroup1A, row, end
<1>9. IsGroup1(g, sub2, other, own, row2, end2)
  BY <1>2, <1>4, <1>6, <1>7, <1>8, GroupAgrees, ZenonT(40)
<1>10. IsGroup1B(part, D, d)
  BY <1>3, <1>9 DEF IsGroup1B, row2, end2
<1> QED BY <1>10 DEF part, A, B

\* Whatever the two files and their trees, once the matching may begin: a node that
\* NewLinePartition calls untouched on the source side is untouched on the destination side
\* at the lines of its partner, so the phases may ask either side.
THEOREM PartitionIsSymmetric == Spec => []UntouchedOnBothSides
<1>1. FilesInv => UntouchedOnBothSides
  BY UntouchedAgree
<1> QED BY <1>1, SidesOwnFiles, PTL
=============================================================================
