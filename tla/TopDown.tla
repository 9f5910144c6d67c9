------------------------------ MODULE TopDown ------------------------------
(***************************************************************************)
(* The first matching pass (internal/engine/top-down.go): subtrees that    *)
(* are equal are mapped as a whole, the highest first.  A subtree with     *)
(* several equal partners is put aside, and once all heights are done the  *)
(* pairs put aside are ranked and taken greedily.  Then the recovery       *)
(* inside containers the next pass maps (recovery.go, zs.go).              *)
(*                                                                         *)
(* Trees are those of Syntax.  Dice and the similarity of leaves are exact *)
(* fractions <<n, d>>.  Kinds that the rules call equivalent are one kind, *)
(* and there are neither key-value pairs nor tags, so that pair roles are  *)
(* always compatible and no peer of a container has a better claim.        *)
(***************************************************************************)
EXTENDS LinePartition, ZhangShasha

CONSTANTS
  Inputs,      \* the records [S, D, part]: two trees and the partition of their lines
  MinHeight,   \* the least height that is matched
  MaxDrift,    \* how far a statement may be from its place in its construct (10)
  MaxRecover   \* bound: how many containers the next pass maps

\* What the pre-order numbering of the index provides (EnsureIndex): the root is the first
\* node and spans the tree, subtrees are nested, and whatever is inside one has its parent there.
WellFormed(T) ==
  /\ T[1].size \in Nat \ {0} /\ DOMAIN T = 1..T[1].size
  /\ \A n \in DOMAIN T :
       /\ T[n].size \in Nat \ {0} /\ n + T[n].size <= T[1].size + 1
       /\ \A c \in Descendants(T, n) : c + T[c].size <= n + T[n].size /\ T[c].parent \in Subtree(T, n)
ASSUME TreesAssumption == \A i \in Inputs : WellFormed(i.S) /\ WellFormed(i.D)

VARIABLES
  input,
  open,        \* the priority lists: the nodes still to be looked at, by side
  aside,       \* A, the ambiguous pairs in the order they were found
  pairs,       \* the mapping
  pc,
  recovered    \* the containers the next pass mapped, <<source, destination, what recovery found>>

vars == <<input, open, aside, pairs, pc, recovered>>

S == input.S
D == input.D
TreeOf(side) == IF side = 1 THEN S ELSE D

Mapped(m, side, n) == \E p \in Range(m) : p[side] = n

\* Add: the partners both had are released; a source keeps its place.
AddPair(m, s, d) ==
  LET kept == Chosen(m, {k \in DOMAIN m : m[k][2] # d \/ m[k][1] = s}) IN
  IF Mapped(kept, 1, s) THEN [k \in DOMAIN kept |-> IF kept[k][1] = s THEN <<s, d>> ELSE kept[k]]
  ELSE Append(kept, <<s, d>>)
AddIsomorphicPairs(m, s, d) == FoldLeft(LAMBDA n, k : AddPair(n, s + k - 1, d + k - 1), m, Numbers(S[s].size))

-----------------------------------------------------------------------------
\* Similarities, as fractions.  No node (0) has nothing in common with any.
None == <<0, 1>>
Compare(x, y) == IF x < y THEN -1 ELSE IF x > y THEN 1 ELSE 0
LessFirst(q, r) == Compare(q[1] * r[2], r[1] * q[2])
MoreFirst(q, r) == LessFirst(r, q)
AtLeast(q, r) == LessFirst(q, r) >= 0
Half(q) == <<q[1], 2 * q[2]>>
Mean(q, r) == <<q[1] * r[2] + r[1] * q[2], 2 * q[2] * r[2]>>
TwoOf(common, total) == IF total = 0 THEN None ELSE <<2 * common, total>>

Dice(m, s, d) ==
  IF s = 0 \/ d = 0 THEN None
  ELSE TwoOf(Cardinality({c \in Descendants(S, s) : Get(m, c) \in Descendants(D, d)}), S[s].size + D[d].size - 2)

Leaves(T, n) == {x \in Subtree(T, n) : Leaf(T, x) /\ T[x].label # ""}
Words(T, n) == {x \in Leaves(T, n) : ~Role("symbol", T[x].kind)}
SharedWords(ws, wd) ==
  LET Count(T, N, label) == Cardinality({x \in N : T[x].label = label})
  IN MapThenSumSet(LAMBDA l : Least(Count(S, ws, l), Count(D, wd, l)), {S[x].label : x \in ws})
LeafSimilarity(s, d) ==
  IF s = 0 \/ d = 0 THEN None
  ELSE TwoOf(SharedWords(Words(S, s), Words(D, d)), Cardinality(Words(S, s)) + Cardinality(Words(D, d)))

\* getKeyLabel: of a call its identifier, of another node the first label in front.
KeyLabel(T, n) ==
  LET ids == {c \in ChildSet(T, n) : IsIdentifier(T[c].kind)}
      front == {x \in Subtree(T, n + 1) :
                  T[x].label # "" /\ ~Role("punctuation", T[x].kind) /\ ~Role("ignored", T[x].kind)}
  IN CASE Leaf(T, n) -> ""
       [] ~Leaf(T, n) /\ IsCall(T[n].kind) /\ ids # {} -> T[Min(ids)].label
       [] OTHER -> IF front = {} THEN "" ELSE T[Min(front)].label

\* AncestorNameSimilarity: the names around a node, up to its container declaration.
NamesAround(T, n) ==
  LET last == Closest({a \in Ancestors(T, n) : IsContainerDeclaration(T[a].kind)})
      around == {a \in Ancestors(T, n) : a >= last}
      beside == UNION {ChildSet(T, a) : a \in around}
      inside == UNION {ChildSet(T, c) : c \in {b \in beside : Role("scaffolding", T[b].kind)}}
  IN ({DeclarationName(T, a) : a \in around} \cup {KeyLabel(T, a) : a \in around \cup inside}
        \cup {T[c].label : c \in Labelled(T, beside \cup inside)}) \ {""}
AncestorNameSimilarity(s, d) == Cardinality(NamesAround(S, s) \cap NamesAround(D, d))

\* parentLineageSimilarity
ParentLineageSimilarity(s, d) ==
  LET p == S[s].parent
      q == D[d].parent
      Same(a, b) == a # 0 /\ b # 0 /\ S[a].kind = D[b].kind
  IN IF ~Same(p, q) THEN 0 ELSE IF Same(S[p].parent, D[q].parent) THEN 3 ELSE 2

-----------------------------------------------------------------------------
\* getScopeName: the name of the node, of its declaration, or of the call around that one.
CallerName(T, enc) ==
  LET stop == Closest({a \in Ancestors(T, enc) : IsDeclaration(T[a].kind)})
      LastChild(c) == Max(ChildSet(T, c))
      Callee(a) == CASE T[a + 1].label # "" -> T[a + 1].label
                     [] T[a + 1].label = "" /\ ~Leaf(T, a + 1) -> T[LastChild(a + 1)].label
                     [] OTHER -> ""
      callers == {a \in Ancestors(T, enc) : a >= stop /\ IsCall(T[a].kind) /\ ~Leaf(T, a) /\ Callee(a) # ""}
  IN IF callers = {} THEN "" ELSE Callee(Max(callers))
ScopeNameOf(T, n) ==
  LET enc == GetEnclosingDeclaration(T, n)
      above == IF enc = 0 THEN <<>> ELSE <<DeclarationName(T, enc), ClosureDeclarationName(T, enc), CallerName(T, enc)>>
      names == SelectSeq(<<DeclarationName(T, n), ClosureDeclarationName(T, n)>> \o above, LAMBDA name : name # "")
  IN IF names = <<>> THEN "" ELSE Head(names)
SameName(x, y) == x # "" /\ x = y
OtherName(x, y) == x # "" /\ y # "" /\ x # y
NameMatched(s, d) == SameName(ScopeNameOf(S, s), ScopeNameOf(D, d))
NameMismatched(s, d) == OtherName(ScopeNameOf(S, s), ScopeNameOf(D, d))

HasIdentifier(T, n) == \E x \in Subtree(T, n) : IsIdentifier(T[x].kind)

\* getEnclosingConstruct: the statement right below the body of the declaration.
EnclosingConstruct(T, n) ==
  LET Up(a) == T[a].parent
  IN Max({a \in Ancestors(T, n) \cup {n} :
            Up(a) = 0 \/ Up(Up(a)) = 0 \/ IsDeclaration(T[Up(a)].kind) \/ IsDeclaration(T[Up(Up(a))].kind)})
DriftAnchor(T, n, c) == IF c # n THEN c ELSE GetEnclosingDeclaration(T, n)
BranchSlotIndex(T, n, c) ==
  LET slots == {k \in ChildSet(T, c) : n \in Subtree(T, k)} IN
  IF slots = {} THEN -1 ELSE ChildIndex(T, CHOOSE k \in slots : TRUE)
RowsBelow(T, n, anchor) == T[n].row - (IF anchor = 0 THEN 0 ELSE T[anchor].row)

CalleeLeavesOverlap(p, q) ==
  {S[x].label : x \in Leaves(S, p + 1)} \cap {D[y].label : y \in Leaves(D, q + 1)} # {}

\* hasDelimitedContainerConflict
EnclosingDelimitedContainer(T, n) ==
  LET a == Closest({x \in Ancestors(T, n) : Role("delimited", T[x].kind) \/ IsDeclaration(T[x].kind)})
  IN IF a # 0 /\ Role("delimited", T[a].kind) THEN a ELSE 0
ContainersConflict(m, e, f, outerE, outerF) ==
  /\ e # 0 /\ f # 0 /\ Get(m, e) # f
  /\ outerE # 0 /\ outerF # 0 /\ Get(m, outerE) = outerF
  /\ \/ \E x \in Descendants(D, f) : GetSrc(m, x) # 0 /\ GetSrc(m, x) \notin Subtree(S, e)
     \/ \E x \in Descendants(S, e) : Get(m, x) # 0 /\ Get(m, x) \notin Subtree(D, f)
HasDelimitedContainerConflict(m, s, d) ==
  LET itself == Role("delimited", S[s].kind)
      e == IF itself THEN s ELSE EnclosingDelimitedContainer(S, s)
      f == IF itself THEN d ELSE EnclosingDelimitedContainer(D, d)
  IN ContainersConflict(m, e, f, EnclosingDelimitedContainer(S, e), EnclosingDelimitedContainer(D, f))

-----------------------------------------------------------------------------
\* isCrossStatementDredging: a subtree must not be pulled out of a statement into another
\* one that is locked, unlike it, or far away.
Extracts(a, b) ==
  \/ \E k \in {a, b} : IsAssignment(k) \/ IsLocalVarDeclaration(k)
  \/ Role("jump", b)
PulledAcross(m, s, d, a, b) ==
  LET locked == (IsGroup1A(input.part, S, a) \/ IsGroup1B(input.part, D, b)) /\ ~CanMatch(input.part, S, a, D, b)
      unlike == S[a].kind # D[b].kind /\ ~(HasIdentifier(S, s) /\ Extracts(S[a].kind, D[b].kind))
      strangers == Dice(m, a, b)[1] = 0 /\ ~HasIdentifier(S, s) /\ ~AtLeast(LeafSimilarity(a, b), <<3, 10>>)
      far == Distance(RowsBelow(S, a, DriftAnchor(S, a, EnclosingConstruct(S, a))),
                      RowsBelow(D, b, DriftAnchor(D, b, EnclosingConstruct(D, b)))) > MaxDrift
  IN /\ ~(a = s /\ b = d)
     /\ Get(m, a) # b
     /\ locked \/ unlike \/ strangers \/ far
IsCrossStatementDredging(m, s, d) ==
  PulledAcross(m, s, d, FindImmediateStatement(S, s), FindImmediateStatement(D, d))

\* Small subtrees, signatures and subtrees without identifiers stay in their scope.
BoundToScope(s, height) == height <= 2 \/ IsDeclarationHeader(S, s) \/ ~HasIdentifier(S, s)
EffectiveHeight(s) ==
  IF IsWrapper(S[s].kind) /\ Cardinality(ChildSet(S, s)) = 1 THEN Height(S, s + 1) ELSE Height(S, s)

MayPair(m, s, d) ==
  LET p == S[s].parent
      q == D[d].parent
      arguments == p # 0 /\ q # 0 /\ IsCall(S[p].kind) /\ IsCall(D[q].kind)
  IN /\ CanMatch(input.part, S, s, D, d)
     /\ Isomorphic(S, s, D, d)
     /\ ~(BoundToScope(s, EffectiveHeight(s)) /\ NameMismatched(s, d))
     /\ ~IsCrossStatementDredging(m, s, d)
     /\ arguments => CalleeLeavesOverlap(p, q)

Init ==
  /\ input \in Inputs
  /\ open = <<{1}, {1}>>
  /\ aside = <<>> /\ pairs = <<>> /\ recovered = <<>>
  /\ pc = "levels"

\* The priority lists.
PeekMax(side) == IF open[side] = {} THEN -1 ELSE Max({Height(TreeOf(side), n) : n \in open[side]})
Highest(side) == {n \in open[side] : Height(TreeOf(side), n) = PeekMax(side)}
InPreOrder(N) == IF N = {} THEN <<>> ELSE Chosen(Numbers(Max(N)), N)
AllChildren(side, N) == UNION {ChildSet(TreeOf(side), n) : n \in N}

Level == pc = "levels" /\ Least(PeekMax(1), PeekMax(2)) >= MinHeight

\* One side is higher: its highest nodes are opened.
OpenHigher(side) ==
  /\ Level /\ PeekMax(side) > PeekMax(3 - side)
  /\ open' = [open EXCEPT ![side] = (@ \ Highest(side)) \cup AllChildren(side, Highest(side))]
  /\ UNCHANGED <<input, aside, pairs, pc, recovered>>

\* Mutant: what was put aside is opened too.
OpenUnmatchedAndAside(side, N, m, A) == AllChildren(side, {n \in N : ~Mapped(m, side, n)})

\* openUnmatched
OpenUnmatched(side, N, m, A) == AllChildren(side, {n \in N : ~Mapped(m, side, n) /\ ~Mapped(A, side, n)})

\* Equal heights: the pairs without a rival are mapped, the ambiguous ones put aside.
Ambiguous(H1, H2, s, d) ==
  (\E t \in H2 \ {d} : Isomorphic(S, s, D, t)) \/ (\E t \in H1 \ {s} : Isomorphic(S, t, D, d))
TryPair(st, H1, H2, s, d) ==
  IF ~MayPair(st.m, s, d) THEN st
  ELSE IF Ambiguous(H1, H2, s, d) THEN [st EXCEPT !.A = Append(@, <<s, d>>)]
  ELSE IF HasDelimitedContainerConflict(st.m, s, d) THEN st
  ELSE [st EXCEPT !.m = AddIsomorphicPairs(@, s, d)]
TryNode(st, H1, H2, s) == FoldLeft(LAMBDA t, d : TryPair(t, H1, H2, s, d), st, InPreOrder(H2))
TryAll(H1, H2) ==
  FoldLeft(LAMBDA st, s : TryNode(st, H1, H2, s), [m |-> pairs, A |-> aside], InPreOrder(H1))
MatchLevel ==
  /\ Level /\ PeekMax(1) = PeekMax(2)
  /\ \E H1 \in {Highest(1)}, H2 \in {Highest(2)} : \E st \in {TryAll(H1, H2)} :
       /\ pairs' = st.m /\ aside' = st.A
       /\ open' = <<(open[1] \ H1) \cup OpenUnmatched(1, H1, st.m, st.A),
                    (open[2] \ H2) \cup OpenUnmatched(2, H2, st.m, st.A)>>
  /\ UNCHANGED <<input, pc, recovered>>

-----------------------------------------------------------------------------
\* What a pair put aside is ranked by.  Rows are counted from the constructs around the two
\* when these are alike, or else from their declarations.
Alike(m, a, b) ==
  /\ S[a].kind = D[b].kind
  /\ AtLeast(LeafSimilarity(a, b), <<3, 10>>) \/ AtLeast(Dice(m, a, b), <<3, 10>>)
SameKind(a, b) == a # 0 /\ b # 0 /\ S[a].kind = D[b].kind
Anchors(m, named, a, b, e, f) ==
  CASE ~named \/ a = 0 \/ b = 0 -> <<>>
    [] named /\ a # 0 /\ b # 0 /\ Alike(m, a, b) -> <<a, b>>
    [] OTHER -> IF SameKind(e, f) THEN <<e, f>> ELSE <<>>
AnchorsOf(m, named, s, d, c1, c2) ==
  Anchors(m, named, DriftAnchor(S, s, c1), DriftAnchor(D, d, c2), GetEnclosingDeclaration(S, s), GetEnclosingDeclaration(D, d))

\* The constructs stand in for parents without anything in common.
DiceOf(direct, outer, named, elsewhere) ==
  LET isFallback == direct[1] = 0 /\ named /\ outer[1] > 0 /\ elsewhere
  IN [dice |-> IF isFallback THEN outer ELSE direct, isFallback |-> isFallback]
PlaceOf(s, d, c1, c2, anchors) ==
  [relDrift |-> IF anchors = <<>> THEN -1 ELSE Distance(RowsBelow(S, s, anchors[1]), RowsBelow(D, d, anchors[2])),
   slotMatch |-> /\ anchors = <<c1, c2>>
                 /\ BranchSlotIndex(S, s, c1) >= 0
                 /\ BranchSlotIndex(S, s, c1) = BranchSlotIndex(D, d, c2)]
ScoreIn(m, s, d, c1, c2, named) ==
  LET near == DiceOf(Dice(m, S[s].parent, D[d].parent), Half(Dice(m, c1, c2)), named, c1 # S[s].parent \/ c2 # D[d].parent)
      place == PlaceOf(s, d, c1, c2, AnchorsOf(m, named, s, d, c1, c2))
  IN [pair |-> <<s, d>>, named |-> named, mismatched |-> NameMismatched(s, d),
      ancSim |-> AncestorNameSimilarity(s, d), lineageSim |-> ParentLineageSimilarity(s, d),
      parentLeafSim |-> LeafSimilarity(S[s].parent, D[d].parent),
      stmtAffinity |-> Mean(LeafSimilarity(FindImmediateStatement(S, s), FindImmediateStatement(D, d)), LeafSimilarity(c1, c2)),
      drift |-> AdjustedLineDistance(S, D, m, s, d),
      dice |-> near.dice, isFallback |-> near.isFallback, relDrift |-> place.relDrift, slotMatch |-> place.slotMatch]
Score(m, p) ==
  ScoreIn(m, p[1], p[2], EnclosingConstruct(S, p[1]), EnclosingConstruct(D, p[2]), NameMatched(p[1], p[2]))

\* The comparison of two scores: the first criterion that tells them apart.
Yes(p, q) == IF p = q THEN 0 ELSE IF p THEN -1 ELSE 1
Criteria(x, y) ==
  LET both == x.named /\ y.named
      If(c, order) == IF c THEN order ELSE 0
  IN << Yes(x.named, y.named),
        Yes(y.mismatched, x.mismatched),
        If(x.isFallback # y.isFallback /\ ~x.isFallback /\ x.dice[1] > 0, -1),
        If(x.isFallback # y.isFallback /\ ~y.isFallback /\ y.dice[1] > 0, 1),
        MoreFirst(x.dice, y.dice),
        Compare(y.ancSim, x.ancSim),
        Compare(y.lineageSim, x.lineageSim),
        MoreFirst(x.parentLeafSim, y.parentLeafSim),
        MoreFirst(x.stmtAffinity, y.stmtAffinity),
        If(both, Yes(x.slotMatch, y.slotMatch)),
        If(both /\ x.relDrift # -1 /\ y.relDrift # -1, Compare(x.relDrift, y.relDrift)),
        If(both, Compare(x.drift, y.drift)),
        If(both, Compare(x.pair[1], y.pair[1])),
        If(both, Compare(x.pair[2], y.pair[2])) >>
Before(x, y) == LET telling == SelectSeq(Criteria(x, y), LAMBDA c : c # 0) IN telling # <<>> /\ Head(telling) = -1

\* The stable sort of up to 20 scores is an insertion sort; the comparison need not be
\* transitive, so the order it leaves depends on that.
Insert(seq, x) ==
  LET at == Max({0} \cup {k \in DOMAIN seq : ~Before(x, seq[k])}) IN InsertAt(seq, at + 1, x)
Ranked(m, A) == FoldLeft(Insert, <<>>, [k \in DOMAIN A |-> Score(m, A[k])])

Rank ==
  /\ pc = "levels" /\ ~Level
  /\ aside' = Ranked(pairs, aside)
  /\ pc' = "greedy"
  /\ UNCHANGED <<input, open, pairs, recovered>>

\* The best pair left is passed over or mapped.
PassedOver(x) ==
  LET s == x.pair[1]
      d == x.pair[2]
  IN \/ Mapped(pairs, 1, s) \/ Mapped(pairs, 2, d)
     \/ x.mismatched /\ BoundToScope(s, Height(S, s))
     \/ HasDelimitedContainerConflict(pairs, s, d)

TakeBest ==
  /\ pc = "greedy" /\ aside # <<>>
  /\ LET x == Head(aside)
         rest == Tail(aside)
     IN IF PassedOver(x) THEN aside' = rest /\ UNCHANGED pairs
        ELSE /\ pairs' = AddIsomorphicPairs(pairs, x.pair[1], x.pair[2])
             /\ aside' = Chosen(rest, {k \in DOMAIN rest : rest[k].pair[1] # x.pair[1] /\ rest[k].pair[2] # x.pair[2]})
  /\ UNCHANGED <<input, open, pc, recovered>>

Matched ==
  /\ pc = "greedy" /\ aside = <<>>
  /\ pc' = "recover"
  /\ UNCHANGED <<input, open, aside, pairs, recovered>>

-----------------------------------------------------------------------------
\* revokeSubtreeMatchUnder: the pair of a node, and of its children as far down as they are
\* mapped to children of their parent's partner.
Revoke(m, s) ==
  LET Follows(x) == Get(m, x) # 0 /\ D[Get(m, x)].parent = Get(m, S[x].parent)
      gone == {x \in Subtree(S, s) : \A y \in (Ancestors(S, x) \cup {x}) \cap Descendants(S, s) : Follows(y)}
  IN SelectSeq(m, LAMBDA p : p[1] \notin gone)

\* reclaimInParentIsomorphicChildren: a child of d that is mapped to a copy elsewhere is
\* given to the equal child of s.
Reclaim(m, s, d) ==
  LET Skipped(n, c) == Mapped(n, 1, c) \/ Role("keyword", S[c].kind) \/ Role("glue", S[c].kind)
      Taken(n, c) == {e \in ChildSet(D, d) : /\ Isomorphic(S, c, D, e)
                                             /\ GetSrc(n, e) # 0 /\ S[GetSrc(n, e)].parent # s}
      Back(n, c) == IF Skipped(n, c) \/ Taken(n, c) = {} THEN n
                    ELSE LET e == Min(Taken(n, c)) IN AddIsomorphicPairs(Revoke(n, GetSrc(n, e)), c, e)
  IN FoldLeft(Back, m, Children(S, s))

\* shouldBypassZS
CalleeLabel(T, n) ==
  LET heads == {c \in ChildSet(T, n) : ~IsBlock(T[c].kind) /\ ~IsWrapper(T[c].kind)}
      named == {x \in heads \cup UNION {ChildSet(T, c) : c \in heads} : T[x].label # ""}
  IN IF named = {} THEN "" ELSE T[Min(named)].label
LHSIdent(T, n) ==
  IF T[n + 1].label # "" THEN T[n + 1].label
  ELSE IF Cardinality(ChildSet(T, n + 1)) = 1 THEN T[n + 2].label ELSE ""
ShouldBypassZS(s, d) ==
  \/ s = 1 \/ d = 1
  \/ \E k \in {S[s].kind, D[d].kind} : Role("delimited", k) \/ IsWrapper(k)
  \/ FindBodyBlock(S, s) # 0 \/ FindBodyBlock(D, d) # 0
  \/ Cardinality(ChildSet(S, s)) = 1 /\ Cardinality(ChildSet(D, d)) = 1
  \/ IsCall(S[s].kind) /\ IsCall(D[d].kind) /\ SameName(CalleeLabel(S, s), CalleeLabel(D, d))
  \/ IsAssignment(S[s].kind) /\ IsAssignment(D[d].kind) /\ SameName(LHSIdent(S, s), LHSIdent(D, d))

\* RunZSRecovery on the nodes of two subtrees in post-order: what it proposes, and the mapping
\* with those of it whose nodes are free.
NodesOf(found, ss, ds) == [k \in DOMAIN found |-> <<ss[found[k][1]], ds[found[k][2]]>>]
Proposed(s, d) == NodesOf(ZSPairs(InPostOrder(S, s), InPostOrder(D, d)), PostOrder(S, s), PostOrder(D, d))
RunZSRecovery(m, proposed) ==
  LET AddFree(n, p) == IF Mapped(n, 1, p[1]) \/ Mapped(n, 2, p[2]) THEN n ELSE AddPair(n, p[1], p[2])
  IN FoldLeft(AddFree, m, proposed)

\* A container of the next pass and the recovery inside it, where that is by edit distance:
\* the containers are mapped to each other, or are free and have something in common.
Recover(s, d) ==
  /\ pc = "recover" /\ Len(recovered) < MaxRecover
  /\ ~Leaf(S, s) /\ ~Leaf(D, d) /\ S[s].kind = D[d].kind
  /\ \/ /\ Get(pairs, s) = d
        /\ \E c \in ChildSet(S, s) : ~Mapped(pairs, 1, c)
        /\ \E e \in ChildSet(D, d) : ~Mapped(pairs, 2, e)
     \/ ~Mapped(pairs, 1, s) /\ ~Mapped(pairs, 2, d) /\ Dice(pairs, s, d)[1] > 0
  /\ ~ShouldBypassZS(s, d) /\ S[s].size < 20 /\ D[d].size < 20
  /\ \E proposed \in {Proposed(s, d)} :
       /\ recovered' = Append(recovered, <<s, d, proposed>>)
       /\ pairs' = RunZSRecovery(Reclaim(AddPair(pairs, s, d), s, d), proposed)
  /\ UNCHANGED <<input, open, aside, pc>>

Next ==
  \/ \E side \in 1..2 : OpenHigher(side)
  \/ MatchLevel \/ Rank \/ TakeBest \/ Matched
  \/ \E s \in DOMAIN S, d \in DOMAIN D : Recover(s, d)

Spec == Init /\ [][Next]_vars

-----------------------------------------------------------------------------
\* What a step of the pass may do to the mapping.
WholeSubtreesAdded ==
  /\ Range(pairs) \subseteq Range(pairs')
  /\ \A p \in Range(pairs') \ Range(pairs) :
       /\ Isomorphic(S, p[1], D, p[2])
       /\ \A k \in 0..(S[p[1]].size - 1) : <<p[1] + k, p[2] + k>> \in Range(pairs')

\* The pass only ever adds whole subtrees that are equal and free: it takes back no pair it
\* made, and under every pair it makes all nodes are paired in order.  That holds because a
\* subtree that was put aside is not opened (openUnmatched); matching something inside it
\* first and the subtree itself later would tear pairs apart.
OnlyWholeFreeSubtrees == [][(pc \in {"levels", "greedy"}) => WholeSubtreesAdded]_vars

\* What the edit distance proposes inside a container is an edit: one to one, and it keeps
\* the order of the nodes and who is inside whom, although the walk back through the table
\* refills it for every pair of subtrees it meets.
RecoveryIsAnEdit ==
  \A r \in Range(recovered) : \A p, q \in Range(r[3]) :
    /\ p[1] \in Subtree(S, r[1]) /\ p[2] \in Subtree(D, r[2])
    /\ p[1] = q[1] <=> p[2] = q[2]
    /\ p[1] < q[1] <=> p[2] < q[2]
    /\ Encloses(S, p[1], q[1]) <=> Encloses(D, p[2], q[2])
=============================================================================
