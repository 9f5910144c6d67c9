-------------------------- MODULE StreamDiffProofs --------------------------
(***************************************************************************)
(* Proofs about the patch stream processor, for any stream, capacities,    *)
(* limits and workers.  A line of input moves through five places: the     *)
(* reader's hand, the raw buffer, the stream queue, the flusher's item,    *)
(* and out.  Control says what the reader has in hand at each of its       *)
(* steps; Flow that the places are in the order of the input; Jobs who may *)
(* still touch a hunk; Permits counts the semaphore; Accounts that no line *)
(* leaves the five places otherwise than by being settled, and Outcome     *)
(* what a result of nil means.                                             *)
(***************************************************************************)
EXTENDS StreamDiff, FiniteSetTheorems, SequenceTheorems, TLAPS

Elems(s) == {s[i] : i \in 1 .. Len(s)}
Increasing(s) == \A i, k \in 1 .. Len(s) : i < k => s[i] < s[k]
Before(S, T) == \A x \in S : \A y \in T : x < y

Tokens == {"commit", "diff", "index", "body", "note"}
Positions == 1 .. Len(input) + 1
FileHunks == [head : Lines \cup {0}, lines : Seq(Lines), oid : BOOLEAN, raw : BOOLEAN]
Items == [kind : {"raw", "job"}, job : Lines \cup {0}, text : Seq(Lines)]
Verdicts == {"none", "same", "ok", "dump", "renderErr", "cancelled"}
Sending == reader \in {"permit", "toWork", "toStream"}

ReaderTypes ==
  /\ input \in Seq(Tokens) /\ SemCap \in Nat \ {0} /\ pos \in Positions
  /\ reader \in {"check", "read", "flush", "dump", "chunk", "permit", "toWork", "toStream",
                 "lastChunk", "exited"}
  /\ rawBuf \in Seq(Lines) /\ todo \in Seq(Lines) /\ current \in FileHunks
  /\ then \in {"read", "raw", "open", "end"}
  /\ opening \in Lines \cup {0} /\ permit \in BOOLEAN

JobTypes ==
  /\ workQueue \in Seq(Lines) /\ streamQueue \in Seq(Items) /\ closed \in BOOLEAN
  /\ permits \in Nat
  /\ worker \in [Workers -> {"idle", "run", "close", "exited"}]
  /\ holding \in [Workers -> Lines \cup {0}]
  /\ lines \in [Lines -> Seq(Lines)] /\ verdict \in [Lines -> Verdicts]
  /\ done \in [Lines -> BOOLEAN]

OutTypes ==
  /\ flusher \in {"next", "await", "write", "blocked", "release", "exited"}
  /\ item \in Items /\ emitted \in Seq(Lines)
  /\ cancelled \in BOOLEAN /\ flusherErr \in BOOLEAN /\ workerErr \in BOOLEAN
  /\ readerErr \in {"none", "io", "ignored"}
  /\ main \in {"wait", "cancel", "closePager", "waitPager", "join", "returned"}
  /\ result \in {"none", "nil", "error"}
  /\ pager \in {"none", "running", "exited"} /\ readerGone \in BOOLEAN

TypeOK == ReaderTypes /\ JobTypes /\ OutTypes

-----------------------------------------------------------------------------
(***************************************************************************)
(* The reader.                                                             *)
(***************************************************************************)
\* The lines the reader has in hand: of the job it is queueing, else those it is
\* writing to the raw buffer, else those of the open hunk.
InHand == IF opening # 0 THEN lines[opening] ELSE IF todo # <<>> THEN todo ELSE current.lines

\* The first line that is in none of the places yet.
Bound == IF then \in {"raw", "open"} THEN pos - 1 ELSE pos

\* The reader has seen the end of the stream, or of the pager.
Ended == pos > Len(input) \/ pager = "exited"

Control ==
  /\ reader \in {"check", "read"} => then = "read" /\ todo = <<>> /\ opening = 0
  /\ reader = "flush" => then # "read" /\ todo = <<>> /\ opening = 0
  /\ reader \in {"dump", "chunk"} => current.lines = <<>>
  /\ reader \in {"dump", "chunk"} /\ then # "read" => current = NoHunk
  /\ reader = "dump" => opening = 0
  /\ reader = "chunk" /\ opening # 0 => todo = <<>> /\ current = NoHunk
  /\ Sending => opening # 0 /\ todo = <<>> /\ current = NoHunk /\ rawBuf = <<>>
  /\ reader = "lastChunk" => then = "read" /\ todo = <<>> /\ opening = 0 /\ current.lines = <<>>
  /\ then \in {"raw", "open"} => pos > 1
  /\ (then = "end" /\ reader # "exited") \/ reader = "lastChunk" => Ended
  /\ reader # "exited" => readerErr = "none"
  /\ closed <=> reader = "exited"

\* A hunk's lines begin with its head.
JobLines(h, s) == Len(s) > 0 /\ s[1] = h

Hunks ==
  /\ current = NoHunk \/ current.head \in Lines
  /\ current.raw => current.lines = <<>>
  /\ current # NoHunk /\ ~current.raw => JobLines(current.head, current.lines)
  /\ opening # 0 => JobLines(opening, lines[opening])
  /\ \A k \in 1 .. Len(streamQueue) : streamQueue[k].kind = "job" =>
       /\ streamQueue[k] = JobItem(streamQueue[k].job) /\ streamQueue[k].job \in Lines
       /\ JobLines(streamQueue[k].job, lines[streamQueue[k].job])
  /\ flusher \in {"await", "write", "blocked", "release"} /\ item.kind = "job" =>
       item.job \in Lines /\ JobLines(item.job, lines[item.job])
  /\ flusher \in {"await", "release"} => item.kind = "job"

-----------------------------------------------------------------------------
(***************************************************************************)
(* The five places, in the order of the input.                             *)
(***************************************************************************)
Text(it) == IF it.kind = "raw" THEN it.text ELSE lines[it.job]
Texts == [k \in 1 .. Len(streamQueue) |-> Text(streamQueue[k])]
InFlush == IF flusher \in {"await", "write", "blocked"} THEN Text(item) ELSE <<>>

\* The flusher's job, until its permit is released.
Flushed == IF flusher = "release" THEN {item.job} ELSE Elems(InFlush)

AllElems(t) == UNION {Elems(t[k]) : k \in 1 .. Len(t)}
AllOf(e, f, t, r, h) == Elems(e) \cup Elems(f) \cup AllElems(t) \cup Elems(r) \cup Elems(h)

\* Written lines e, the flusher's text f and job j, queued texts t, buffer r, hand h,
\* and the first line b that is in none of them.
InOrder(e, f, j, t, r, h, b) ==
  /\ Increasing(e) /\ Increasing(f) /\ Increasing(r) /\ Increasing(h)
  /\ \A k \in 1 .. Len(t) : Increasing(t[k])
  /\ Before(Elems(e), Elems(f) \cup AllElems(t) \cup Elems(r) \cup Elems(h))
  /\ Before(j, AllElems(t) \cup Elems(r) \cup Elems(h))
  /\ \A i, k \in 1 .. Len(t) : i < k => Before(Elems(t[i]), Elems(t[k]))
  /\ Before(AllElems(t), Elems(r) \cup Elems(h))
  /\ Before(Elems(r), Elems(h))
  /\ Before(j \cup AllOf(e, f, t, r, h), {b})

Flow == InOrder(emitted, InFlush, Flushed, Texts, rawBuf, InHand, Bound)

-----------------------------------------------------------------------------
(***************************************************************************)
(* Jobs and permits.                                                       *)
(***************************************************************************)
Started == {j \in Lines : j \in Elems(workQueue) \/ done[j] \/ \E w \in Workers : holding[w] = j}

\* The reader's job reaches the workers before the queue; no other job in hand has.
JobSent(j) == j = opening /\ reader \in {"toStream", "exited"}

Jobs ==
  /\ \A j \in Started : j < Bound /\ (JobSent(j) \/ Before({j}, Elems(InHand)))
  /\ \A i, k \in 1 .. Len(workQueue) : i # k => workQueue[i] # workQueue[k]
  /\ \A j \in Elems(workQueue) : ~done[j] /\ \A w \in Workers : holding[w] # j
  /\ \A w \in Workers : holding[w] # 0 <=> worker[w] \in {"run", "close"}
  /\ \A w \in Workers : holding[w] # 0 => ~done[holding[w]]
  /\ \A v, w \in Workers : v # w /\ holding[v] # 0 => holding[v] # holding[w]
  /\ \A w \in Workers : worker[w] = "close" => verdict[holding[w]] # "none"
  /\ \A j \in Lines : done[j] => verdict[j] # "none"
  /\ \A j \in Lines : verdict[j] = "cancelled" => cancelled
  /\ flusher \in {"write", "blocked", "release"} /\ item.kind = "job" => done[item.job]
  /\ flusher \in {"write", "blocked"} /\ item.kind = "job" => verdict[item.job] \in {"ok", "dump"}

InFlight == (Queued \cup Flushing \cup Elems(workQueue)) \ {opening}
Own == IF permit THEN 1 ELSE 0

Permits ==
  /\ permit <=> reader \in {"toWork", "toStream"}
  /\ permits <= SemCap
  /\ Cardinality(InFlight) + Own <= permits
  /\ ~cancelled => permits = Cardinality(Queued) + Cardinality(Flushing) + Own

-----------------------------------------------------------------------------
(***************************************************************************)
(* The end of the run.                                                     *)
(***************************************************************************)
\* A hunk that was rendered, or had no difference, stands for its lines.
Settled(i) ==
  \E h \in Lines : /\ done[h] /\ i \in Elems(lines[h])
                   /\ \/ verdict[h] = "same"
                      \/ verdict[h] = "ok" /\ h \in Elems(emitted)

Somewhere(i) == i \in AllOf(emitted, InFlush, Texts, rawBuf, InHand)

\* Until the run is cancelled every line the reader has passed is in one of the places,
\* or settled, and the goroutines end only when the places before them are empty.
Accounts ==
  /\ ~cancelled /\ ~workerErr => \A i \in Lines : i < Bound => Somewhere(i) \/ Settled(i)
  /\ ~cancelled /\ reader = "exited" =>
       then = "read" /\ rawBuf = <<>> /\ InHand = <<>> /\ Ended
  /\ ~cancelled /\ flusher = "exited" => closed /\ streamQueue = <<>>

\* Before the result is decided the run is cancelled for a reason it reports, or because
\* the reader of out is gone.
Reasons ==
  /\ main = "wait" <=> result = "none"
  /\ main = "wait" /\ cancelled => readerGone \/ flusherErr \/ readerErr = "io"
  /\ main = "wait" /\ pager = "exited" => readerGone

Outcome ==
  result = "nil" /\ ~readerGone =>
    /\ reader = "exited" /\ flusher = "exited"
    /\ \A i \in Lines : i \in Elems(emitted) \/ Settled(i)

IInv == TypeOK /\ Control /\ Hunks /\ Flow /\ Jobs /\ Permits
        /\ Accounts /\ Reasons /\ Outcome

USE DEF readerVars, queueVars, workerVars, jobVars, flusherVars, errVars, mainVars, pagerVars,
        ReaderTypes, JobTypes, OutTypes

-----------------------------------------------------------------------------
(***************************************************************************)
(* The moves of lines from place to place.                                 *)
(***************************************************************************)
LEMMA ElemsAppend ==
  ASSUME NEW S, NEW s \in Seq(S), NEW x \in S
  PROVE  Elems(Append(s, x)) = Elems(s) \cup {x}
<1>1. /\ Len(Append(s, x)) = Len(s) + 1 /\ Len(s) \in Nat
      /\ \A i \in 1 .. Len(s) : Append(s, x)[i] = s[i]
      /\ Append(s, x)[Len(s) + 1] = x
  OBVIOUS
<1> QED BY <1>1 DEF Elems

LEMMA ElemsAppendNat ==
  ASSUME NEW s \in Seq(Nat), NEW x \in Nat
  PROVE  Elems(Append(s, x)) = Elems(s) \cup {x}
BY ElemsAppend

LEMMA UpTo == \A n \in Nat : \A k \in 1 .. n + 1 : k \in 1 .. n \/ k = n + 1
OBVIOUS

LEMMA ElemsTail ==
  ASSUME NEW S, NEW s \in Seq(S), s # <<>>
  PROVE  /\ Tail(s) \in Seq(S) /\ Head(s) = s[1] /\ Head(s) \in S
         /\ Elems(s) = {Head(s)} \cup Elems(Tail(s))
         /\ Len(Tail(s)) = Len(s) - 1 /\ Len(s) \in Nat \ {0}
         /\ \A k \in 1 .. Len(Tail(s)) : Tail(s)[k] = s[k + 1] /\ k + 1 \in 1 .. Len(s)
<1>1. /\ Len(s) \in Nat /\ Len(s) > 0 /\ Head(s) = s[1] /\ s[1] \in S
      /\ Tail(s) \in Seq(S) /\ Len(Tail(s)) = Len(s) - 1
      /\ \A k \in 1 .. Len(s) - 1 : Tail(s)[k] = s[k + 1]
  BY EmptySeq
<1>2. ASSUME NEW i \in 1 .. Len(s) PROVE s[i] = Head(s) \/ s[i] \in Elems(Tail(s))
  <2>1. i = 1 \/ (i - 1 \in 1 .. Len(s) - 1 /\ Tail(s)[i - 1] = s[i])
    BY <1>1
  <2> QED BY <1>1, <2>1 DEF Elems
<1>3. \A k \in 1 .. Len(Tail(s)) : Tail(s)[k] = s[k + 1] /\ k + 1 \in 1 .. Len(s)
  BY <1>1
<1>4. Elems(s) = {Head(s)} \cup Elems(Tail(s))
  BY <1>1, <1>2, <1>3 DEF Elems
<1> QED BY <1>1, <1>3, <1>4

LEMMA ElemsConcat ==
  ASSUME NEW S, NEW s \in Seq(S), NEW u \in Seq(S)
  PROVE  Elems(s \o u) = Elems(s) \cup Elems(u)
<1>1. /\ Len(s \o u) = Len(s) + Len(u) /\ Len(s) \in Nat /\ Len(u) \in Nat
      /\ \A i \in 1 .. Len(s) : (s \o u)[i] = s[i]
      /\ \A i \in 1 .. Len(u) : (s \o u)[Len(s) + i] = u[i]
  OBVIOUS
<1>2. ASSUME NEW i \in 1 .. Len(s \o u) PROVE (s \o u)[i] \in Elems(s) \cup Elems(u)
  <2>1. i \in 1 .. Len(s) \/ (i - Len(s) \in 1 .. Len(u) /\ i = Len(s) + (i - Len(s)))
    BY <1>1
  <2> QED BY <1>1, <2>1 DEF Elems
<1>3. \A i \in 1 .. Len(s) : i \in 1 .. Len(s \o u)
  BY <1>1
<1>4. \A i \in 1 .. Len(u) : Len(s) + i \in 1 .. Len(s \o u)
  BY <1>1
<1>5. Elems(s \o u) \subseteq Elems(s) \cup Elems(u)
  BY <1>2 DEF Elems
<1>6. Elems(s) \subseteq Elems(s \o u)
  BY <1>1, <1>3 DEF Elems
<1>7. Elems(u) \subseteq Elems(s \o u)
  BY <1>1, <1>4 DEF Elems
<1> QED BY <1>5, <1>6, <1>7

LEMMA ElemsType ==
  ASSUME NEW S, NEW s \in Seq(S)
  PROVE  Elems(s) \subseteq S /\ (Elems(s) = {} <=> s = <<>>)
<1>1. Len(s) \in Nat /\ \A i \in 1 .. Len(s) : s[i] \in S
  OBVIOUS
<1>2. s # <<>> => 1 \in 1 .. Len(s)
  BY <1>1, EmptySeq
<1>3. Elems(<<>>) = {}
  BY DEF Elems
<1> QED BY <1>1, <1>2, <1>3 DEF Elems

LEMMA EmptyElems == Elems(<<>>) = {} /\ Increasing(<<>>) /\ Before({}, {})
BY DEF Elems, Increasing, Before

LEMMA IncreasingAppend ==
  ASSUME NEW s \in Seq(Nat), NEW x \in Nat, Increasing(s), Before(Elems(s), {x})
  PROVE  Increasing(Append(s, x))
<1>1. /\ Len(Append(s, x)) = Len(s) + 1 /\ Len(s) \in Nat
      /\ \A i \in 1 .. Len(s) : Append(s, x)[i] = s[i]
      /\ Append(s, x)[Len(s) + 1] = x
  OBVIOUS
<1> SUFFICES ASSUME NEW i \in 1 .. Len(Append(s, x)), NEW k \in 1 .. Len(Append(s, x)), i < k
             PROVE  Append(s, x)[i] < Append(s, x)[k]
  BY DEF Increasing
<1>2. i \in 1 .. Len(s)
  BY <1>1
<1>3. CASE k = Len(s) + 1
  BY <1>1, <1>2, <1>3 DEF Before, Elems
<1>4. CASE k # Len(s) + 1
  BY <1>1, <1>2, <1>4 DEF Increasing
<1> QED BY <1>3, <1>4

LEMMA IncreasingTail ==
  ASSUME NEW s \in Seq(Nat), s # <<>>, Increasing(s)
  PROVE  Increasing(Tail(s)) /\ Before({Head(s)}, Elems(Tail(s)))
<1>1. /\ Len(Tail(s)) = Len(s) - 1 /\ Len(s) \in Nat \ {0} /\ Head(s) = s[1]
      /\ \A k \in 1 .. Len(Tail(s)) : Tail(s)[k] = s[k + 1] /\ k + 1 \in 1 .. Len(s)
  BY ElemsTail
<1>2. Increasing(Tail(s))
  <2> SUFFICES ASSUME NEW i \in 1 .. Len(Tail(s)), NEW k \in 1 .. Len(Tail(s)), i < k
               PROVE  s[i + 1] < s[k + 1]
    BY <1>1 DEF Increasing
  <2> QED BY <1>1 DEF Increasing
<1>3. ASSUME NEW k \in 1 .. Len(Tail(s)) PROVE Head(s) < Tail(s)[k]
  <2>1. 1 \in 1 .. Len(s) /\ k + 1 \in 1 .. Len(s) /\ 1 < k + 1
    BY <1>1
  <2> QED BY <1>1, <2>1 DEF Increasing
<1> QED BY <1>2, <1>3 DEF Before, Elems

LEMMA IncreasingConcat ==
  ASSUME NEW s \in Seq(Nat), NEW u \in Seq(Nat), Increasing(s), Increasing(u),
         Before(Elems(s), Elems(u))
  PROVE  Increasing(s \o u)
<1>1. /\ Len(s \o u) = Len(s) + Len(u) /\ Len(s) \in Nat /\ Len(u) \in Nat
      /\ \A i \in 1 .. Len(s) : (s \o u)[i] = s[i]
      /\ \A i \in 1 .. Len(u) : (s \o u)[Len(s) + i] = u[i]
  OBVIOUS
<1> SUFFICES ASSUME NEW i \in 1 .. Len(s \o u), NEW k \in 1 .. Len(s \o u), i < k
             PROVE  (s \o u)[i] < (s \o u)[k]
  BY DEF Increasing
<1>2. \A n \in 1 .. Len(s \o u) :
        n \in 1 .. Len(s) \/ (n - Len(s) \in 1 .. Len(u) /\ n = Len(s) + (n - Len(s)))
  BY <1>1
<1>3. CASE i \in 1 .. Len(s) /\ k \in 1 .. Len(s)
  BY <1>1, <1>3 DEF Increasing
<1>4. CASE i \in 1 .. Len(s) /\ k \notin 1 .. Len(s)
  <2>1. k - Len(s) \in 1 .. Len(u) /\ (s \o u)[k] = u[k - Len(s)]
    BY <1>1, <1>2, <1>4
  <2> QED BY <1>1, <1>4, <2>1 DEF Before, Elems
<1>5. CASE i \notin 1 .. Len(s)
  <2>1. k \notin 1 .. Len(s)
    BY <1>1, <1>5
  <2>2. /\ i - Len(s) \in 1 .. Len(u) /\ (s \o u)[i] = u[i - Len(s)]
        /\ k - Len(s) \in 1 .. Len(u) /\ (s \o u)[k] = u[k - Len(s)]
        /\ i - Len(s) < k - Len(s)
    BY <1>1, <1>2, <1>5, <2>1
  <2> QED BY <2>2 DEF Increasing
<1> QED BY <1>3, <1>4, <1>5

LEMMA AllElemsAppend ==
  ASSUME NEW t \in Seq(Seq(Nat)), NEW x \in Seq(Nat)
  PROVE  AllElems(Append(t, x)) = AllElems(t) \cup Elems(x)
<1>1. /\ Len(Append(t, x)) = Len(t) + 1 /\ Len(t) \in Nat
      /\ \A i \in 1 .. Len(t) : Append(t, x)[i] = t[i]
      /\ Append(t, x)[Len(t) + 1] = x
  OBVIOUS
<1>2. \A k \in 1 .. Len(t) + 1 : k \in 1 .. Len(t) \/ k = Len(t) + 1
  BY <1>1
<1>3. \A k \in 1 .. Len(t) : k \in 1 .. Len(t) + 1
  BY <1>1
<1>4. Len(t) + 1 \in 1 .. Len(t) + 1
  BY <1>1
<1>5. AllElems(Append(t, x)) \subseteq AllElems(t) \cup Elems(x)
  BY <1>1, <1>2 DEF AllElems
<1>6. AllElems(t) \cup Elems(x) \subseteq AllElems(Append(t, x))
  BY <1>1, <1>3, <1>4 DEF AllElems
<1> QED BY <1>5, <1>6

LEMMA AllElemsTail ==
  ASSUME NEW t \in Seq(Seq(Nat)), t # <<>>
  PROVE  AllElems(t) = Elems(Head(t)) \cup AllElems(Tail(t))
<1>1. /\ Len(Tail(t)) = Len(t) - 1 /\ Len(t) \in Nat \ {0} /\ Head(t) = t[1]
      /\ \A k \in 1 .. Len(Tail(t)) : Tail(t)[k] = t[k + 1] /\ k + 1 \in 1 .. Len(t)
  BY ElemsTail
<1>2. \A k \in 1 .. Len(t) : k = 1 \/ (k - 1 \in 1 .. Len(Tail(t)) /\ t[k] = Tail(t)[k - 1])
  BY <1>1
<1>3. AllElems(t) \subseteq Elems(Head(t)) \cup AllElems(Tail(t))
  BY <1>1, <1>2 DEF AllElems
<1>4. 1 \in 1 .. Len(t)
  BY <1>1
<1>5. Elems(Head(t)) \subseteq AllElems(t)
  BY <1>1, <1>4 DEF AllElems
<1>6. AllElems(Tail(t)) \subseteq AllElems(t)
  BY <1>1 DEF AllElems
<1> QED BY <1>3, <1>5, <1>6

\* The flusher takes the first text of the queue.
LEMMA MoveToFlusher ==
  ASSUME NEW e \in Seq(Nat), NEW t \in Seq(Seq(Nat)), NEW r \in Seq(Nat), NEW h \in Seq(Nat),
         NEW b \in Nat, t # <<>>, InOrder(e, <<>>, {}, t, r, h, b)
  PROVE  /\ InOrder(e, Head(t), Elems(Head(t)), Tail(t), r, h, b)
         /\ AllOf(e, Head(t), Tail(t), r, h) = AllOf(e, <<>>, t, r, h)
<1>1. /\ Len(Tail(t)) = Len(t) - 1 /\ Len(t) \in Nat \ {0} /\ Head(t) = t[1]
      /\ \A k \in 1 .. Len(Tail(t)) : Tail(t)[k] = t[k + 1] /\ k + 1 \in 1 .. Len(t)
  BY ElemsTail
<1>2. AllElems(t) = Elems(Head(t)) \cup AllElems(Tail(t))
  BY AllElemsTail
<1>3. Before(Elems(Head(t)), AllElems(Tail(t)))
  <2> SUFFICES ASSUME NEW k \in 1 .. Len(Tail(t)) PROVE Before(Elems(Head(t)), Elems(Tail(t)[k]))
    BY DEF AllElems, Before
  <2>1. 1 \in 1 .. Len(t) /\ 1 < k + 1
    BY <1>1
  <2> QED BY <1>1, <2>1 DEF InOrder
<1>4. \A i, k \in 1 .. Len(Tail(t)) : i < k => Before(Elems(Tail(t)[i]), Elems(Tail(t)[k]))
  <2> SUFFICES ASSUME NEW i \in 1 .. Len(Tail(t)), NEW k \in 1 .. Len(Tail(t)), i < k
               PROVE  Before(Elems(t[i + 1]), Elems(t[k + 1]))
    BY <1>1
  <2> QED BY <1>1 DEF InOrder
<1>5. Increasing(Head(t)) /\ \A k \in 1 .. Len(Tail(t)) : Increasing(Tail(t)[k])
  <2>1. 1 \in 1 .. Len(t)
    BY <1>1
  <2> QED BY <1>1, <2>1 DEF InOrder
<1>6. AllOf(e, Head(t), Tail(t), r, h) = AllOf(e, <<>>, t, r, h)
  BY <1>2, EmptyElems DEF AllOf
<1>7. /\ Before(Elems(e), Elems(Head(t)) \cup AllElems(Tail(t)) \cup Elems(r) \cup Elems(h))
      /\ Before(Elems(Head(t)), AllElems(Tail(t)) \cup Elems(r) \cup Elems(h))
      /\ Before(AllElems(Tail(t)), Elems(r) \cup Elems(h))
      /\ Before(Elems(Head(t)) \cup AllOf(e, <<>>, t, r, h), {b})
  BY <1>2, <1>3 DEF InOrder, Before, AllOf
<1> QED BY <1>4, <1>5, <1>6, <1>7 DEF InOrder

\* What is written comes from the flusher's text; what remains of it is a job, if anything.
LEMMA MoveToOut ==
  ASSUME NEW e \in Seq(Nat), NEW f \in Seq(Nat), NEW t \in Seq(Seq(Nat)),
         NEW r \in Seq(Nat), NEW h \in Seq(Nat), NEW b \in Nat,
         InOrder(e, f, Elems(f), t, r, h, b),
         NEW o \in Seq(Nat), Increasing(o), Elems(o) \subseteq Elems(f),
         NEW j \in SUBSET Elems(f)
  PROVE  InOrder(e \o o, <<>>, j, t, r, h, b)
<1>1. Elems(e \o o) = Elems(e) \cup Elems(o)
  BY ElemsConcat
<1>2. Increasing(e \o o)
  <2>1. Before(Elems(e), Elems(o)) /\ Increasing(e)
    BY DEF InOrder, Before
  <2> QED BY <2>1, IncreasingConcat
<1>3. /\ Before(Elems(e \o o), Elems(<<>>) \cup AllElems(t) \cup Elems(r) \cup Elems(h))
      /\ Before(j, AllElems(t) \cup Elems(r) \cup Elems(h))
      /\ Before(j \cup AllOf(e \o o, <<>>, t, r, h), {b})
  BY <1>1, EmptyElems DEF InOrder, Before, AllOf
<1> QED BY <1>2, <1>3, EmptyElems DEF InOrder

\* The flusher is done with its text, perhaps before any of it was written.
LEMMA MoveAway ==
  ASSUME NEW e, NEW f, NEW j, NEW t, NEW r, NEW h, NEW b,
         InOrder(e, f, j, t, r, h, b), NEW i \in SUBSET j
  PROVE  InOrder(e, <<>>, i, t, r, h, b)
<1>1. /\ Before(Elems(e), Elems(<<>>) \cup AllElems(t) \cup Elems(r) \cup Elems(h))
      /\ Before(i, AllElems(t) \cup Elems(r) \cup Elems(h))
      /\ Before(i \cup AllOf(e, <<>>, t, r, h), {b})
  BY EmptyElems DEF InOrder, Before, AllOf
<1> QED BY <1>1, EmptyElems DEF InOrder

\* A text joins the end of the queue: from the raw buffer, or, past an empty one, from
\* the reader's hand.
LEMMA MoveToQueue ==
  ASSUME NEW e \in Seq(Nat), NEW f \in Seq(Nat), NEW j, NEW t \in Seq(Seq(Nat)),
         NEW r \in Seq(Nat), NEW h \in Seq(Nat), NEW b \in Nat,
         InOrder(e, f, j, t, r, h, b),
         NEW x \in Seq(Nat), NEW r2 \in Seq(Nat), NEW h2 \in Seq(Nat),
         \/ x = r /\ r2 = <<>> /\ h2 = h
         \/ r = <<>> /\ r2 = <<>> /\ x = h /\ h2 = <<>>
  PROVE  /\ InOrder(e, f, j, Append(t, x), r2, h2, b)
         /\ AllOf(e, f, Append(t, x), r2, h2) = AllOf(e, f, t, r, h)
<1>1. /\ Len(Append(t, x)) = Len(t) + 1 /\ Len(t) \in Nat
      /\ \A i \in 1 .. Len(t) : Append(t, x)[i] = t[i]
      /\ Append(t, x)[Len(t) + 1] = x
  OBVIOUS
<1>2. AllElems(Append(t, x)) = AllElems(t) \cup Elems(x)
  BY AllElemsAppend
<1>3. AllOf(e, f, Append(t, x), r2, h2) = AllOf(e, f, t, r, h)
  BY <1>2, EmptyElems DEF AllOf
<1>4. Increasing(x) /\ Increasing(r2) /\ Increasing(h2)
  BY EmptyElems DEF InOrder
<1>5. Before(AllElems(t), Elems(x)) /\ Before(Elems(x), Elems(r2) \cup Elems(h2))
      /\ Before(Elems(r2), Elems(h2))
  BY EmptyElems DEF InOrder, Before
<1>6. \A k \in 1 .. Len(Append(t, x)) : k \in 1 .. Len(t) \/ k = Len(t) + 1
  BY <1>1, UpTo
<1>7. \A k \in 1 .. Len(Append(t, x)) : Increasing(Append(t, x)[k])
  BY <1>1, <1>4, <1>6 DEF InOrder
<1>8. ASSUME NEW i \in 1 .. Len(Append(t, x)), NEW k \in 1 .. Len(Append(t, x)), i < k
      PROVE  Before(Elems(Append(t, x)[i]), Elems(Append(t, x)[k]))
  <2>1. i \in 1 .. Len(t)
    BY <1>1, <1>8
  <2>2. CASE k \in 1 .. Len(t)
    BY <1>1, <1>8, <2>1, <2>2 DEF InOrder
  <2>3. CASE k = Len(t) + 1
    BY <1>1, <1>5, <2>1, <2>3 DEF Before, AllElems
  <2> QED BY <1>6, <2>2, <2>3
<1>9. /\ Before(Elems(e), Elems(f) \cup AllElems(Append(t, x)) \cup Elems(r2) \cup Elems(h2))
      /\ Before(j, AllElems(Append(t, x)) \cup Elems(r2) \cup Elems(h2))
      /\ Before(AllElems(Append(t, x)), Elems(r2) \cup Elems(h2))
      /\ Before(j \cup AllOf(e, f, Append(t, x), r2, h2), {b})
  <2>1. Elems(x) \cup Elems(r2) \cup Elems(h2) = Elems(r) \cup Elems(h)
    BY EmptyElems
  <2> QED BY <1>2, <1>3, <1>5, <2>1 DEF InOrder, Before
<1>10. Increasing(e) /\ Increasing(f)
  BY DEF InOrder
<1>11. Before(Elems(r2), Elems(h2))
  BY <1>5
<1>12. \A i, k \in 1 .. Len(Append(t, x)) :
         i < k => Before(Elems(Append(t, x)[i]), Elems(Append(t, x)[k]))
  BY <1>8
<1>13. InOrder(e, f, j, Append(t, x), r2, h2, b)
  BY <1>4, <1>7, <1>9, <1>10, <1>11, <1>12, Zenon DEF InOrder
<1> QED BY <1>3, <1>13

\* A line moves from the hand to the raw buffer.
LEMMA MoveToBuffer ==
  ASSUME NEW e \in Seq(Nat), NEW f \in Seq(Nat), NEW j, NEW t \in Seq(Seq(Nat)),
         NEW r \in Seq(Nat), NEW h \in Seq(Nat), NEW b \in Nat,
         InOrder(e, f, j, t, r, h, b), h # <<>>
  PROVE  /\ InOrder(e, f, j, t, Append(r, Head(h)), Tail(h), b)
         /\ AllOf(e, f, t, Append(r, Head(h)), Tail(h)) = AllOf(e, f, t, r, h)
<1>1. Head(h) \in Nat /\ Elems(h) = {Head(h)} \cup Elems(Tail(h)) /\ Tail(h) \in Seq(Nat)
  BY ElemsTail
<1>2. Elems(Append(r, Head(h))) = Elems(r) \cup {Head(h)}
  BY <1>1, ElemsAppend
<1>3. Increasing(Tail(h)) /\ Before({Head(h)}, Elems(Tail(h)))
  BY IncreasingTail DEF InOrder
<1>4. Increasing(Append(r, Head(h)))
  <2>1. Before(Elems(r), {Head(h)}) /\ Increasing(r)
    BY <1>1 DEF InOrder, Before
  <2> QED BY <1>1, <2>1, IncreasingAppend
<1>5. AllOf(e, f, t, Append(r, Head(h)), Tail(h)) = AllOf(e, f, t, r, h)
  BY <1>1, <1>2 DEF AllOf
<1>6. Elems(Append(r, Head(h))) \cup Elems(Tail(h)) = Elems(r) \cup Elems(h)
  BY <1>1, <1>2
<1>7. Before(Elems(Append(r, Head(h))), Elems(Tail(h)))
  BY <1>1, <1>2, <1>3 DEF InOrder, Before
<1>8. /\ Before(Elems(e), Elems(f) \cup AllElems(t) \cup Elems(Append(r, Head(h))) \cup Elems(Tail(h)))
      /\ Before(j, AllElems(t) \cup Elems(Append(r, Head(h))) \cup Elems(Tail(h)))
      /\ Before(AllElems(t), Elems(Append(r, Head(h))) \cup Elems(Tail(h)))
  BY <1>6 DEF InOrder, Before
<1> QED BY <1>3, <1>4, <1>5, <1>7, <1>8 DEF InOrder

\* The next line comes into the hand.
LEMMA MoveToHand ==
  ASSUME NEW e \in Seq(Nat), NEW f \in Seq(Nat), NEW j \in SUBSET Nat, NEW t \in Seq(Seq(Nat)),
         NEW r \in Seq(Nat), NEW h \in Seq(Nat), NEW b \in Nat,
         InOrder(e, f, j, t, r, h, b)
  PROVE  /\ InOrder(e, f, j, t, r, Append(h, b), b + 1)
         /\ \A x : x \in AllOf(e, f, t, r, Append(h, b)) <=> x \in AllOf(e, f, t, r, h) \/ x = b
<1>1. Elems(Append(h, b)) = Elems(h) \cup {b}
  BY ElemsAppendNat
<1>2. Increasing(Append(h, b))
  <2>1. Before(Elems(h), {b}) /\ Increasing(h)
    BY DEF InOrder, Before, AllOf
  <2> QED BY <2>1, IncreasingAppend
<1>3. AllOf(e, f, t, r, Append(h, b)) = AllOf(e, f, t, r, h) \cup {b}
  BY <1>1 DEF AllOf
<1>4. j \cup AllOf(e, f, t, r, h) \subseteq Nat
  <2>1. AllElems(t) \subseteq Nat
    <3> SUFFICES ASSUME NEW k \in 1 .. Len(t) PROVE Elems(t[k]) \subseteq Nat
      BY DEF AllElems
    <3>1. t[k] \in Seq(Nat)
      OBVIOUS
    <3> QED BY <3>1, ElemsType
  <2> QED BY <2>1, ElemsType DEF AllOf
<1>5. Before(j \cup AllOf(e, f, t, r, Append(h, b)), {b + 1})
  BY <1>3, <1>4 DEF InOrder, Before
<1>6. /\ Before(Elems(e), Elems(f) \cup AllElems(t) \cup Elems(r) \cup Elems(Append(h, b)))
      /\ Before(j, AllElems(t) \cup Elems(r) \cup Elems(Append(h, b)))
      /\ Before(AllElems(t), Elems(r) \cup Elems(Append(h, b)))
      /\ Before(Elems(r), Elems(Append(h, b)))
  BY <1>1 DEF InOrder, Before, AllOf
<1>7. InOrder(e, f, j, t, r, Append(h, b), b + 1)
  BY <1>2, <1>5, <1>6 DEF InOrder
<1> QED BY <1>3, <1>7

-----------------------------------------------------------------------------
(***************************************************************************)
(* The places as sequences of numbers, and what leaves them alone.         *)
(***************************************************************************)
LEMMA LinesSeq ==
  ASSUME NEW s \in Seq(Lines)
  PROVE  s \in Seq(Nat)
BY DEF Lines

LEMMA Places ==
  ASSUME TypeOK, Hunks
  PROVE  /\ emitted \in Seq(Nat) /\ InFlush \in Seq(Nat) /\ Flushed \in SUBSET Nat
         /\ Texts \in Seq(Seq(Nat)) /\ rawBuf \in Seq(Nat) /\ InHand \in Seq(Nat)
         /\ Bound \in Nat
<1>1. emitted \in Seq(Nat) /\ rawBuf \in Seq(Nat) /\ todo \in Seq(Nat) /\ current.lines \in Seq(Nat)
  BY LinesSeq DEF TypeOK, FileHunks
<1>2. ASSUME NEW j \in Lines PROVE lines[j] \in Seq(Nat)
  <2>1. lines[j] \in Seq(Lines)
    BY DEF TypeOK
  <2> QED BY <2>1, LinesSeq
<1>3. ASSUME NEW it \in Items, it.kind = "raw" \/ it.job \in Lines PROVE Text(it) \in Seq(Nat)
  <2>1. CASE it.kind = "raw"
    <3>1. it.text \in Seq(Lines)
      BY DEF Items
    <3> QED BY <2>1, <3>1, LinesSeq DEF Text
  <2>2. CASE it.kind # "raw"
    BY <1>2, <1>3, <2>2 DEF Text
  <2> QED BY <2>1, <2>2
<1>4. InHand \in Seq(Nat)
  <2>1. opening \in Lines \cup {0}
    BY DEF TypeOK
  <2> QED BY <1>1, <1>2, <2>1 DEF InHand
<1>5. InFlush \in Seq(Nat)
  <2>1. item \in Items /\ item.kind \in {"raw", "job"}
    BY DEF TypeOK, Items
  <2>2. CASE flusher \in {"await", "write", "blocked"}
    <3>1. item.kind = "raw" \/ item.job \in Lines
      BY <2>1, <2>2 DEF Hunks
    <3> QED BY <1>3, <2>1, <2>2, <3>1 DEF InFlush
  <2> QED BY <2>2, EmptySeq DEF InFlush
<1>6. Flushed \in SUBSET Nat
  <2>1. CASE flusher = "release"
    BY <2>1 DEF Flushed, Hunks, Lines
  <2>2. CASE flusher # "release"
    BY <1>5, <2>2, ElemsType DEF Flushed
  <2> QED BY <2>1, <2>2
<1>7. Texts \in Seq(Seq(Nat))
  <2>1. ASSUME NEW k \in 1 .. Len(streamQueue) PROVE Text(streamQueue[k]) \in Seq(Nat)
    <3>1. streamQueue[k] \in Items
      BY DEF TypeOK
    <3>2. streamQueue[k].kind = "raw" \/ streamQueue[k].job \in Lines
      BY <3>1 DEF Hunks, Items
    <3> QED BY <1>3, <3>1, <3>2
  <2>2. Len(streamQueue) \in Nat
    BY DEF TypeOK
  <2> QED BY <2>1, <2>2 DEF Texts
<1>8. Bound \in Nat
  BY DEF Bound, TypeOK, Positions
<1> QED BY <1>1, <1>4, <1>5, <1>6, <1>7, <1>8

\* Who does not touch the queue, the flusher or the jobs leaves their places alone.
LEMMA OutFrame ==
  ASSUME UNCHANGED <<emitted, flusher, item, lines, streamQueue>>
  PROVE  Texts' = Texts /\ InFlush' = InFlush /\ Flushed' = Flushed
BY DEF Texts, Text, InFlush, Flushed

LEMMA HandFrame ==
  ASSUME UNCHANGED <<pos, then, current, todo, opening, lines>>
  PROVE  InHand' = InHand /\ Bound' = Bound
BY DEF InHand, Bound

\* What is settled stays settled.
LEMMA SettledStays ==
  ASSUME TypeOK, setup' = setup, emitted' = emitted \/ \E o \in Seq(Nat) : emitted' = emitted \o o,
         \A h \in Lines : done[h] => done'[h] /\ verdict'[h] = verdict[h] /\ lines'[h] = lines[h],
         NEW i, Settled(i)
  PROVE  Settled(i)'
<1>1. Lines' = Lines
  BY DEF Lines, input
<1>2. Elems(emitted) \subseteq Elems(emitted')
  <2>1. emitted \in Seq(Nat)
    BY LinesSeq DEF TypeOK
  <2>2. CASE emitted' = emitted
    BY <2>2
  <2>3. ASSUME NEW o \in Seq(Nat), emitted' = emitted \o o PROVE Elems(emitted) \subseteq Elems(emitted')
    <3>1. Elems(emitted \o o) = Elems(emitted) \cup Elems(o)
      BY <2>1, ElemsConcat
    <3> QED BY <2>3, <3>1
  <2> QED BY <2>2, <2>3
<1> QED BY <1>1, <1>2 DEF Settled

\* The heads of the jobs in the queue and with the flusher are lines in their places.
LEMMA HeadsInPlaces ==
  ASSUME TypeOK, Hunks
  PROVE  /\ \A j \in Queued : j \in AllElems(Texts)
         /\ \A j \in Flushing : j \in Flushed
         /\ opening # 0 => opening \in Elems(InHand)
<1>1. ASSUME NEW j \in Lines, JobLines(j, lines[j]) PROVE j \in Elems(lines[j])
  <2>1. lines[j] \in Seq(Lines)
    BY DEF TypeOK
  <2>2. 1 \in 1 .. Len(lines[j])
    BY <1>1, <2>1 DEF JobLines
  <2> QED BY <1>1, <2>2 DEF Elems, JobLines
<1>2. ASSUME NEW j \in Queued PROVE j \in AllElems(Texts)
  <2>1. PICK k \in 1 .. Len(streamQueue) : streamQueue[k] = JobItem(j)
    BY <1>2 DEF Queued
  <2>2. j \in Lines /\ JobLines(j, lines[j]) /\ Texts[k] = lines[j]
    BY <2>1 DEF Hunks, JobItem, Texts, Text
  <2>3. Len(Texts) = Len(streamQueue)
    BY DEF Texts, TypeOK
  <2> QED BY <1>1, <2>2, <2>3 DEF AllElems
<1>3. ASSUME NEW j \in Flushing PROVE j \in Flushed
  <2>1. flusher \in {"await", "write", "blocked", "release"} /\ item.kind = "job" /\ j = item.job
    BY <1>3 DEF Flushing
  <2>2. j \in Lines /\ JobLines(j, lines[j])
    BY <2>1 DEF Hunks
  <2> QED BY <1>1, <2>1, <2>2 DEF Flushed, InFlush, Text
<1>4. ASSUME opening # 0 PROVE opening \in Elems(InHand)
  <2>1. opening \in Lines /\ JobLines(opening, lines[opening])
    BY <1>4 DEF Hunks, TypeOK
  <2> QED BY <1>1, <1>4, <2>1 DEF InHand
<1> QED BY <1>2, <1>3, <1>4

-----------------------------------------------------------------------------
(***************************************************************************)
(* What a step must do for each part of the invariant to survive it.       *)
(***************************************************************************)
LEMMA HandFlow ==
  ASSUME Flow, UNCHANGED <<emitted, flusher, item, lines, streamQueue, rawBuf>>,
         InHand' = InHand, Bound' = Bound
  PROVE  /\ Flow'
         /\ AllOf(emitted, InFlush, Texts, rawBuf, InHand)'
              = AllOf(emitted, InFlush, Texts, rawBuf, InHand)
<1>1. Texts' = Texts /\ InFlush' = InFlush /\ Flushed' = Flushed
  BY OutFrame
<1> QED BY <1>1 DEF Flow

\* No job reaches the workers, and what comes into the hand is new.
LEMMA JobsFrame ==
  ASSUME TypeOK, Hunks, Hunks', Jobs, InHand' \in Seq(Nat), Bound' \in Nat,
         UNCHANGED <<setup, workQueue, done, holding, worker, verdict, flusher, item>>,
         Bound <= Bound', \A x \in Elems(InHand') : x \in Elems(InHand) \/ Bound <= x,
         cancelled => cancelled', \A j \in Lines : JobSent(j) => JobSent(j)' \/ InHand' = <<>>
  PROVE  Jobs'
<1>1. Lines' = Lines /\ Started' = Started /\ Lines \subseteq Nat /\ Started \subseteq Lines
  BY DEF Lines, input, Started, Elems
<1>2. Bound \in Nat /\ Elems(InHand') \subseteq Nat /\ Elems(InHand) \subseteq Nat
  BY Places, ElemsType
<1>3. ASSUME NEW j \in Started PROVE j < Bound' /\ (JobSent(j)' \/ Before({j}, Elems(InHand')))
  <2>1. j \in Nat /\ j < Bound /\ (JobSent(j) \/ Before({j}, Elems(InHand)))
    BY <1>1 DEF Jobs
  <2>2. j < Bound'
    BY <1>2, <2>1
  <2>3. CASE JobSent(j)
    <3>1. JobSent(j)' \/ InHand' = <<>>
      BY <1>1, <2>3
    <3>2. CASE InHand' = <<>>
      <4>1. Elems(InHand') = {}
        BY <3>2, EmptyElems
      <4> QED BY <2>2, <4>1 DEF Before
    <3> QED BY <2>2, <3>1, <3>2
  <2>4. CASE Before({j}, Elems(InHand))
    <3>1. ASSUME NEW x \in Elems(InHand') PROVE j < x
      BY <1>2, <2>1, <2>4, <3>1 DEF Before
    <3> QED BY <2>2, <3>1 DEF Before
  <2> QED BY <2>1, <2>3, <2>4
<1>4. (\A j \in Started : j < Bound /\ (JobSent(j) \/ Before({j}, Elems(InHand))))'
  BY <1>1, <1>3
<1> QED BY <1>1, <1>4 DEF Jobs

LEMMA FiniteJobs ==
  ASSUME TypeOK
  PROVE  /\ Queued \subseteq Lines /\ Elems(workQueue) \subseteq Lines
         /\ IsFiniteSet(Queued) /\ IsFiniteSet(Flushing) /\ IsFiniteSet(Elems(workQueue))
         /\ IsFiniteSet(InFlight)
         /\ Cardinality(Queued) \in Nat /\ Cardinality(Flushing) \in Nat
         /\ Cardinality(InFlight) \in Nat
<1>1. Len(input) \in Nat /\ IsFiniteSet(Lines)
  <2>1. Len(input) \in Nat
    BY DEF TypeOK
  <2> QED BY <2>1, FS_Interval DEF Lines
<1>2. Queued \subseteq Lines /\ Elems(workQueue) \subseteq Lines
  BY ElemsType DEF Queued, TypeOK
<1>3. IsFiniteSet(Queued) /\ IsFiniteSet(Elems(workQueue))
  BY <1>1, <1>2, FS_Subset
<1>4. IsFiniteSet(Flushing)
  BY FS_Singleton, FS_EmptySet DEF Flushing
<1>5. IsFiniteSet(Queued \cup Flushing \cup Elems(workQueue))
  BY <1>3, <1>4, FS_Union
<1>6. IsFiniteSet(InFlight)
  BY <1>5, FS_Subset DEF InFlight
<1> QED BY <1>2, <1>3, <1>4, <1>6, FS_CardinalityType

LEMMA PermitsFrame ==
  ASSUME TypeOK, Permits, UNCHANGED <<setup, permit, permits>>,
         Queued' = Queued, Flushing' = Flushing,
         reader' \in {"toWork", "toStream"} <=> reader \in {"toWork", "toStream"},
         InFlight' \subseteq InFlight, cancelled => cancelled'
  PROVE  Permits'
<1>1. Own' = Own /\ SemCap' = SemCap /\ Own \in Nat /\ permits \in Nat
  BY DEF Own, SemCap, TypeOK
<1>2. Cardinality(InFlight') <= Cardinality(InFlight) /\ Cardinality(InFlight') \in Nat
  <2>1. IsFiniteSet(InFlight)
    BY FiniteJobs
  <2> QED BY <2>1, FS_Subset, FS_CardinalityType
<1>3. Cardinality(InFlight) \in Nat
  BY FiniteJobs
<1>4. Cardinality(InFlight') + Own <= permits
  BY <1>1, <1>2, <1>3 DEF Permits
<1> QED BY <1>1, <1>4 DEF Permits

\* The step moves lines between the places, or settles them.
LEMMA AccountsFrame ==
  ASSUME TypeOK, Accounts, setup' = setup,
         emitted' = emitted \/ \E o \in Seq(Nat) : emitted' = emitted \o o,
         \A h \in Lines : done[h] => done'[h] /\ verdict'[h] = verdict[h] /\ lines'[h] = lines[h],
         \A i \in Lines : i < Bound' => i < Bound \/ Somewhere(i)',
         ~cancelled' /\ ~workerErr' => \A i \in Lines : Somewhere(i) => Somewhere(i)' \/ Settled(i)',
         ~cancelled' /\ ~workerErr' => ~cancelled /\ ~workerErr
  PROVE  (~cancelled /\ ~workerErr => \A i \in Lines : i < Bound => Somewhere(i) \/ Settled(i))'
<1>1. Lines' = Lines
  BY DEF Lines, input
<1>2. ASSUME ~cancelled', ~workerErr', NEW i \in Lines, i < Bound' PROVE Somewhere(i)' \/ Settled(i)'
  <2>1. CASE i < Bound
    <3>1. Somewhere(i) \/ Settled(i)
      BY <1>2, <2>1 DEF Accounts
    <3> QED BY <1>2, <3>1, SettledStays
  <2> QED BY <1>2, <2>1
<1> QED BY <1>1, <1>2

\* Every reader's step: the others are not concerned.
LEMMA ReaderReasons ==
  ASSUME Reasons, UNCHANGED <<main, result, readerGone, flusherErr, pager, cancelled>>,
         readerErr = "io" => readerErr' = "io"
  PROVE  Reasons'
BY DEF Reasons

LEMMA ReaderOutcome ==
  ASSUME Outcome, reader # "exited", UNCHANGED <<result, readerGone>>
  PROVE  Outcome'
BY DEF Outcome

LEMMA InitInv ==
  ASSUME Init
  PROVE  IInv
<1>1. setup \in Setups /\ input \in Seq(Tokens) /\ SemCap \in Nat \ {0} /\ Len(input) \in Nat
  BY SetupsAssumption DEF Init, input, SemCap, Tokens
<1>2. TypeOK
  <2>1. /\ pos \in 1 .. Len(input) + 1 /\ permits \in Nat
    BY <1>1 DEF Init
  <2>2. rawBuf \in Seq(Lines) /\ todo \in Seq(Lines) /\ emitted \in Seq(Lines)
        /\ workQueue \in Seq(Lines) /\ streamQueue \in Seq(Items)
    BY EmptySeq DEF Init
  <2>3. /\ current \in FileHunks
        /\ item \in Items
    BY EmptySeq DEF Init, NoHunk, Items, Raw, FileHunks
  <2>4. /\ lines \in [Lines -> Seq(Lines)] /\ verdict \in [Lines -> Verdicts]
        /\ done \in [Lines -> BOOLEAN]
        /\ worker \in [Workers -> {"idle", "run", "close", "exited"}]
        /\ holding \in [Workers -> Lines \cup {0}]
    BY EmptySeq DEF Init, Verdicts
  <2>5. pager \in {"none", "running", "exited"}
    BY DEF Init
  <2> QED BY <1>1, <2>1, <2>2, <2>3, <2>4, <2>5 DEF Init, TypeOK, Positions
<1>3. Control /\ Hunks
  BY <1>1 DEF Init, Control, Hunks, NoHunk, Sending, Raw
<1>4. Texts = <<>> /\ InFlush = <<>> /\ InHand = <<>> /\ Flushed = {} /\ Bound = 1
  BY EmptyElems DEF Init, Texts, InFlush, InHand, Flushed, Bound, NoHunk
<1>5. AllElems(<<>>) = {}
  BY DEF AllElems
<1>6. Flow
  BY <1>4, <1>5, EmptyElems DEF Init, Flow, InOrder, AllOf, Before
<1>7. Jobs
  <2>1. Started = {}
    BY EmptyElems DEF Init, Started, Lines
  <2> QED BY <2>1, EmptyElems DEF Init, Jobs
<1>8. Queued = {} /\ Flushing = {} /\ InFlight = {} /\ Own = 0
  BY EmptyElems DEF Init, Queued, Flushing, InFlight, Own
<1>9. Permits
  BY <1>1, <1>8, FS_EmptySet DEF Init, Permits
<1>10. Accounts /\ Reasons /\ Outcome
  <2>1. \A i \in Lines : ~(i < Bound)
    BY <1>1, <1>4 DEF Lines
  <2> QED BY <2>1 DEF Init, Accounts, Reasons, Outcome
<1> QED BY <1>2, <1>3, <1>6, <1>7, <1>9, <1>10 DEF IInv

LEMMA Const ==
  ASSUME setup' = setup
  PROVE  input' = input /\ Lines' = Lines /\ Items' = Items /\ SemCap' = SemCap
         /\ FileHunks' = FileHunks /\ Positions' = Positions
BY DEF input, Lines, Items, SemCap, FileHunks, Positions

-----------------------------------------------------------------------------
(***************************************************************************)
(* The reader's steps.                                                     *)
(***************************************************************************)
\* The reader's steps on its own side of the queues.
Alone ==
  UNCHANGED <<setup, opening, permit, workQueue, streamQueue, permits, lines, verdict, done,
              worker, holding, flusher, item, emitted, workerErr, result, readerGone>>

LEMMA ReaderAlone ==
  ASSUME IInv, Alone, TypeOK', Control', Hunks', Flow', Reasons',
         reader # "exited" /\ ~Sending /\ ~Sending', cancelled => cancelled',
         reader' = "exited" => cancelled',
         Bound <= Bound', \A x \in Elems(InHand') : x \in Elems(InHand) \/ Bound <= x,
         \A i \in Lines : i < Bound' => i < Bound \/ Somewhere(i)',
         \A i \in Lines : Somewhere(i) => Somewhere(i)'
  PROVE  IInv'
<1>1. Jobs'
  <2>1. InHand' \in Seq(Nat) /\ Bound' \in Nat
    <3>1. (TypeOK /\ Hunks => InHand \in Seq(Nat) /\ Bound \in Nat)'
      BY Places, PTL
    <3> QED BY <3>1
  <2>2. \A j \in Lines : ~JobSent(j)
    BY DEF JobSent, Sending
  <2> QED BY <2>1, <2>2, JobsFrame DEF IInv, Alone
<1>2. Permits'
  <2>1. Queued' = Queued /\ Flushing' = Flushing
    BY Const DEF Queued, Flushing, Alone, JobItem
  <2>2. InFlight' = InFlight
    BY <2>1 DEF InFlight, Alone
  <2> QED BY <2>1, <2>2, PermitsFrame DEF IInv, Alone, Sending, Control
<1>3. Accounts'
  <2>1. (~cancelled /\ ~workerErr => \A i \in Lines : i < Bound => Somewhere(i) \/ Settled(i))'
    BY AccountsFrame DEF IInv, Alone
  <2> QED BY <2>1 DEF IInv, Accounts, Alone, Control
<1>4. Outcome'
  BY ReaderOutcome DEF IInv, Alone
<1> QED BY <1>1, <1>2, <1>3, <1>4 DEF IInv

LEMMA ReaderCheckKeeps ==
  ASSUME IInv, ReaderCheck
  PROVE  IInv'
<1>1. /\ setup' = setup /\ reader = "check" /\ reader' \in {"exited", "flush", "read"}
      /\ then = "read" /\ then' \in {"read", "end"}
      /\ UNCHANGED <<pos, rawBuf, current, todo, opening, permit, workQueue, streamQueue,
                     permits, jobVars, cancelled, readerErr, workerVars, flusherVars,
                     flusherErr, workerErr, mainVars, pagerVars>>
  BY DEF IInv, Control, ReaderCheck, ReaderFrame
<1>2. TypeOK'
  <2>1. closed' \in BOOLEAN
    BY DEF ReaderCheck, IInv, TypeOK
  <2> QED BY <1>1, <2>1, Const DEF IInv, TypeOK
<1>3. Control'
  BY <1>1, Const DEF IInv, Control, ReaderCheck, Ended, Sending
<1>4. Hunks'
  BY <1>1, Const DEF IInv, Hunks
<1>5. InHand' = InHand /\ Bound' = Bound /\ Bound \in Nat
  BY <1>1, Places DEF InHand, Bound, IInv
<1>6. /\ Flow'
      /\ AllOf(emitted, InFlush, Texts, rawBuf, InHand)'
           = AllOf(emitted, InFlush, Texts, rawBuf, InHand)
  BY <1>1, <1>5, HandFlow DEF IInv
<1>7. Reasons'
  BY <1>1, ReaderReasons DEF IInv
<1>8. reader # "exited" /\ ~Sending /\ ~Sending' /\ (reader' = "exited" => cancelled')
  BY <1>1 DEF Sending, ReaderCheck
<1>9. Alone
  BY <1>1 DEF Alone
<1> QED BY <1>1, <1>2, <1>3, <1>4, <1>5, <1>6, <1>7, <1>8, <1>9, ReaderAlone DEF Somewhere

\* The hand is left alone, or the next line joins it.
LEMMA NextLine ==
  ASSUME IInv, Alone, rawBuf' = rawBuf, TypeOK', Control', Hunks', Reasons',
         reader # "exited" /\ ~Sending /\ ~Sending', cancelled => cancelled',
         reader' = "exited" => cancelled',
         \/ InHand' = InHand /\ Bound' = Bound
         \/ InHand' = Append(InHand, Bound) /\ Bound' = Bound + 1
  PROVE  IInv'
<1>1. /\ UNCHANGED <<emitted, flusher, item, lines, streamQueue, rawBuf>>
      /\ InHand \in Seq(Nat) /\ Bound \in Nat
  BY Places DEF Alone, IInv
<1>2. \/ InHand' = InHand /\ Bound' = Bound
      \/ InHand' = Append(InHand, Bound) /\ Bound' = Bound + 1
  OBVIOUS
<1>3. /\ Flow'
      /\ \A i : Somewhere(i) => Somewhere(i)'
      /\ Bound' = Bound \/ (Bound' = Bound + 1 /\ \A i : i = Bound => Somewhere(i)')
  <2>1. CASE InHand' = InHand /\ Bound' = Bound
    BY <1>1, <2>1, HandFlow DEF IInv, Somewhere
  <2>2. CASE InHand' = Append(InHand, Bound) /\ Bound' = Bound + 1
    <3>1. Texts' = Texts /\ InFlush' = InFlush /\ Flushed' = Flushed
      BY <1>1, OutFrame
    <3>2. InOrder(emitted, InFlush, Flushed, Texts, rawBuf, InHand, Bound)
      BY DEF IInv, Flow
    <3>3. /\ InOrder(emitted, InFlush, Flushed, Texts, rawBuf, Append(InHand, Bound), Bound + 1)
          /\ \A x : x \in AllOf(emitted, InFlush, Texts, rawBuf, Append(InHand, Bound)) <=>
                    x \in AllOf(emitted, InFlush, Texts, rawBuf, InHand) \/ x = Bound
      <4>1. TypeOK /\ Hunks
        BY DEF IInv
      <4>2. /\ emitted \in Seq(Nat) /\ InFlush \in Seq(Nat) /\ Flushed \in SUBSET Nat
            /\ Texts \in Seq(Seq(Nat)) /\ rawBuf \in Seq(Nat) /\ InHand \in Seq(Nat)
            /\ Bound \in Nat
        BY <4>1, Places
      <4>3. InOrder(emitted, InFlush, Flushed, Texts, rawBuf, Append(InHand, Bound), Bound + 1)
        BY <3>2, <4>2, MoveToHand
      <4>4. ASSUME NEW x
            PROVE  x \in AllOf(emitted, InFlush, Texts, rawBuf, Append(InHand, Bound)) <=>
                     x \in AllOf(emitted, InFlush, Texts, rawBuf, InHand) \/ x = Bound
        BY <3>2, <4>2, <4>3, MoveToHand
      <4> QED BY <4>3, <4>4
    <3>4. UNCHANGED <<emitted, rawBuf>>
      BY <1>1
    <3>5. Flow'
      BY <2>2, <3>1, <3>3, <3>4 DEF Flow
    <3>6. AllOf(emitted, InFlush, Texts, rawBuf, InHand)'
            = AllOf(emitted, InFlush, Texts, rawBuf, Append(InHand, Bound))
      BY <2>2, <3>1, <3>4
    <3>7. \A i : Somewhere(i) => Somewhere(i)'
      BY <3>3, <3>6 DEF Somewhere
    <3>8. \A i : i = Bound => Somewhere(i)'
      BY <3>3, <3>6 DEF Somewhere
    <3> QED BY <2>2, <3>5, <3>7, <3>8
  <2> QED BY <1>2, <2>1, <2>2
<1>4. Bound \in Nat /\ Bound <= Bound' /\ (\A i \in Lines : i < Bound' => i < Bound \/ Somewhere(i)')
  <2>1. Bound \in Nat /\ Bound <= Bound'
    BY <1>1, <1>3
  <2>2. ASSUME NEW i \in Lines, i < Bound' PROVE i < Bound \/ Somewhere(i)'
    <3>1. i < Bound \/ (i = Bound /\ Bound' = Bound + 1)
      BY <1>3, <2>1, <2>2 DEF Lines
    <3>2. CASE i = Bound /\ Bound' = Bound + 1
      BY <1>3, <2>1, <3>2
    <3> QED BY <3>1, <3>2
  <2> QED BY <2>1, <2>2
<1>5. \A x \in Elems(InHand') : x \in Elems(InHand) \/ Bound <= x
  <2>1. Elems(Append(InHand, Bound)) = Elems(InHand) \cup {Bound}
    BY <1>1, <1>4, ElemsAppendNat
  <2>2. CASE InHand' = InHand
    BY <2>2
  <2>3. CASE InHand' = Append(InHand, Bound)
    <3>1. Elems(InHand') = Elems(InHand) \cup {Bound}
      BY <2>1, <2>3
    <3> QED BY <1>4, <3>1
  <2> QED BY <1>2, <2>2, <2>3
<1> QED BY <1>3, <1>4, <1>5, ReaderAlone

LEMMA ReadLineKeeps ==
  ASSUME IInv, ReadLine
  PROVE  IInv'
<1> DEFINE token == input[pos]
           more == Append(current.lines, pos)
<1>1. /\ setup' = setup /\ reader = "read" /\ pos' = pos + 1 /\ pos \in Lines /\ pos \in Nat
      /\ then = "read" /\ todo = <<>> /\ opening = 0
      /\ InHand = current.lines /\ current.lines \in Seq(Lines) /\ more \in Seq(Lines)
      /\ InHand \in Seq(Nat) /\ Bound = pos
      /\ UNCHANGED <<rawBuf, opening, permit, queueVars, jobVars, cancelled, readerErr,
                     workerVars, flusherVars, flusherErr, workerErr, mainVars, pagerVars>>
  <2>1. current.lines \in Seq(Lines) /\ pos \in Nat /\ Len(input) \in Nat
    BY DEF IInv, TypeOK, FileHunks, Positions
  <2>2. reader = "read" /\ pos <= Len(input) /\ pos >= 1
    BY DEF ReadLine, IInv, TypeOK, Positions
  <2>3. pos \in Lines
    BY <2>1, <2>2 DEF Lines
  <2>4. Append(current.lines, pos) \in Seq(Lines)
    BY <2>1, <2>3
  <2>5. then = "read" /\ todo = <<>> /\ opening = 0
    BY <2>2 DEF IInv, Control
  <2> QED BY <2>1, <2>2, <2>3, <2>4, <2>5, LinesSeq DEF ReadLine, ReaderFrame, InHand, Bound
<1>2. \/ /\ reader' = "flush" /\ then' \in {"open", "raw"} /\ UNCHANGED <<current, todo>>
      \/ /\ reader' = "dump" /\ then' = "read" /\ todo' = <<pos>> /\ UNCHANGED current
         /\ current = NoHunk \/ current.raw
      \/ /\ reader' = "check" /\ then' = "read" /\ UNCHANGED todo
         /\ current # NoHunk /\ ~current.raw
         /\ current' = [current EXCEPT !.lines = more, !.oid = @ \/ token = "index"]
      \/ /\ reader' = "dump" /\ then' = "read" /\ todo' = more
         /\ current # NoHunk /\ ~current.raw
         /\ current' = [current EXCEPT !.lines = <<>>, !.raw = TRUE]
  BY DEF ReadLine
<1>3. current = NoHunk \/ current.raw => current.lines = <<>>
  BY DEF IInv, Hunks, NoHunk
<1>4. more # <<>> /\ (\A h : JobLines(h, current.lines) => JobLines(h, more))
  <2>1. Len(more) = Len(current.lines) + 1 /\ Len(current.lines) \in Nat
        /\ (Len(current.lines) > 0 => more[1] = current.lines[1])
    BY <1>1
  <2> QED BY <2>1 DEF JobLines
<1> HIDE DEF token, more
<1>5. /\ todo' \in Seq(Lines)
      /\ current' \in FileHunks
  <2>1. current \in FileHunks
    BY DEF IInv, TypeOK
  <2>2. <<pos>> \in Seq(Lines) /\ <<>> \in Seq(Lines)
    BY <1>1, EmptySeq
  <2>3. (current.oid \/ token = "index") \in BOOLEAN
    OBVIOUS
  <2> QED BY <1>1, <1>2, <2>1, <2>2, <2>3 DEF FileHunks
<1>6. TypeOK'
  <2>1. reader' \in {"check", "read", "flush", "dump", "chunk", "permit", "toWork", "toStream",
                     "lastChunk", "exited"} /\ then' \in {"read", "raw", "open", "end"}
    BY <1>2
  <2>2. pos' \in 1 .. Len(input) + 1
    BY <1>1 DEF ReadLine, IInv, TypeOK, Positions
  <2>3. TypeOK /\ setup' = setup
    BY <1>1 DEF IInv
  <2>4. UNCHANGED <<rawBuf, opening, permit, queueVars, jobVars, cancelled, readerErr,
                    workerVars, flusherVars, flusherErr, workerErr, mainVars, pagerVars>>
    BY <1>1
  <2>5. /\ input' = input /\ Lines' = Lines /\ Items' = Items /\ SemCap' = SemCap
        /\ FileHunks' = FileHunks /\ Positions' = Positions
    BY <2>3, Const
  <2>6. (input \in Seq(Tokens) /\ SemCap \in Nat \ {0} /\ pos \in Positions)'
    BY <2>2, <2>3, <2>5 DEF TypeOK, Positions
  <2>7. (current \in FileHunks
         /\ todo \in Seq(Lines))'
    BY <1>5, <2>5
  <2> QED BY <2>1, <2>3, <2>4, <2>5, <2>6, <2>7 DEF TypeOK
<1>7. /\ current' # NoHunk /\ ~current'.raw => current # NoHunk /\ ~current.raw
      /\ current.head' = current.head
      /\ reader' = "dump" => current.lines' = <<>>
      /\ current.raw' => current.lines' = <<>>
      /\ current' = NoHunk \/ (current' # NoHunk /\ current # NoHunk)
      /\ current # NoHunk /\ ~current.raw => JobLines(current.head, current.lines)
      /\ ~current'.raw => current.lines' \in {current.lines, more}
  <2>1. current \in FileHunks
    BY DEF IInv, TypeOK
  <2>2. current.raw => current.lines = <<>>
    BY DEF IInv, Hunks
  <2>3. current # NoHunk /\ ~current.raw => JobLines(current.head, current.lines)
    BY DEF IInv, Hunks
  <2>4. CASE UNCHANGED current /\ (reader' = "dump" => current = NoHunk \/ current.raw)
    BY <1>3, <2>2, <2>3, <2>4
  <2>5. CASE current' = [current EXCEPT !.lines = more, !.oid = @ \/ token = "index"]
             /\ current # NoHunk /\ ~current.raw /\ reader' = "check"
    <3>1. current.lines' = more /\ current.raw' = current.raw /\ current.head' = current.head
      BY <2>1, <2>5
    <3> QED BY <2>2, <2>3, <2>5, <3>1
  <2>6. CASE current' = [current EXCEPT !.lines = <<>>, !.raw = TRUE]
             /\ current # NoHunk /\ ~current.raw
    <3>1. current.lines' = <<>> /\ current.raw' /\ current.head' = current.head
      BY <2>1, <2>6
    <3> QED BY <2>2, <2>3, <2>6, <3>1
  <2> QED BY <1>2, <2>4, <2>5, <2>6
<1>8. Control'
  <2>1. reader' \in {"flush", "dump", "check"} /\ (reader' = "check" => todo' = <<>>)
        /\ (reader' = "flush" => then' # "read" /\ todo' = <<>>)
        /\ (reader' \in {"check", "dump"} => then' = "read") /\ then' # "end"
    BY <1>1, <1>2
  <2>2. pos' > 1
    BY <1>1 DEF IInv, TypeOK, Positions
  <2> QED BY <1>1, <1>7, <2>1, <2>2, Const DEF IInv, Control, Sending
<1>9. Hunks'
  BY <1>1, <1>4, <1>7, Const DEF IInv, Hunks
<1>10. \/ InHand' = InHand /\ Bound' = Bound
       \/ InHand' = Append(InHand, Bound) /\ Bound' = Bound + 1
  <2>1. <<pos>> = Append(<<>>, pos) /\ <<pos>> # <<>>
    OBVIOUS
  <2>2. more = Append(InHand, pos)
    BY <1>1 DEF more
  <2>3. CASE reader' = "flush"
    BY <1>1, <1>2, <2>3 DEF InHand, Bound
  <2>4. CASE reader' # "flush" /\ todo' = <<pos>> /\ (current = NoHunk \/ current.raw)
    BY <1>1, <1>2, <1>3, <2>1, <2>4 DEF InHand, Bound
  <2>5. CASE reader' = "dump" /\ todo' = more
    BY <1>1, <1>2, <1>4, <2>2, <2>5 DEF InHand, Bound
  <2>6. CASE reader' = "check"
    <3>1. current.lines' = more
      <4>1. current \in FileHunks
        BY DEF IInv, TypeOK
      <4> QED BY <1>2, <2>6, <4>1 DEF FileHunks
    <3> QED BY <1>1, <1>2, <2>2, <2>6, <3>1 DEF InHand, Bound
  <2> QED BY <1>2, <2>3, <2>4, <2>5, <2>6
<1>11. Reasons'
  BY <1>1, ReaderReasons DEF IInv
<1>12. reader # "exited" /\ ~Sending /\ ~Sending' /\ (reader' = "exited" => cancelled')
  BY <1>1, <1>2 DEF Sending
<1>13. Alone /\ rawBuf' = rawBuf
  BY <1>1 DEF Alone
<1> QED BY <1>1, <1>6, <1>8, <1>9, <1>10, <1>11, <1>12, <1>13, NextLine

LEMMA ReadEOFKeeps ==
  ASSUME IInv, ReadEOF
  PROVE  IInv'
<1>1. /\ setup' = setup /\ reader = "read" /\ reader' = "flush" /\ then = "read" /\ then' = "end"
      /\ pos > Len(input)
      /\ UNCHANGED <<pos, rawBuf, current, todo, opening, permit, queueVars, jobVars,
                     cancelled, readerErr, workerVars, flusherVars, flusherErr, workerErr,
                     mainVars, pagerVars>>
  BY DEF IInv, Control, ReadEOF, ReaderMove, ReaderFrame
<1>2. TypeOK'
  BY <1>1, Const DEF IInv, TypeOK
<1>3. Control'
  BY <1>1, Const DEF IInv, Control, Ended, Sending
<1>4. Hunks'
  BY <1>1, Const DEF IInv, Hunks
<1>5. InHand' = InHand /\ Bound' = Bound /\ Bound \in Nat
  BY <1>1, Places DEF InHand, Bound, IInv
<1>6. /\ Flow'
      /\ AllOf(emitted, InFlush, Texts, rawBuf, InHand)'
           = AllOf(emitted, InFlush, Texts, rawBuf, InHand)
  BY <1>1, <1>5, HandFlow DEF IInv
<1>7. Reasons'
  BY <1>1, ReaderReasons DEF IInv
<1>8. reader # "exited" /\ ~Sending /\ ~Sending' /\ (reader' = "exited" => cancelled')
  BY <1>1 DEF Sending
<1>9. Alone
  BY <1>1 DEF Alone
<1> QED BY <1>1, <1>2, <1>3, <1>4, <1>5, <1>6, <1>7, <1>8, <1>9, ReaderAlone DEF Somewhere

LEMMA ReadFailsKeeps ==
  ASSUME IInv, ReadFails
  PROVE  IInv'
<1>1. /\ setup' = setup /\ reader = "read" /\ reader' = "exited" /\ then = "read"
      /\ cancelled' = TRUE /\ closed' = TRUE /\ readerErr = "none"
      /\ readerErr' \in {"io", "ignored"} /\ (readerErr' = "ignored" => cancelled)
      /\ UNCHANGED <<pos, rawBuf, current, todo, then, opening, permit, workQueue,
                     streamQueue, permits, jobVars, workerVars, flusherVars, flusherErr,
                     workerErr, mainVars, pagerVars>>
  BY DEF IInv, Control, ReadFails, ReaderMove, ReaderFrame
<1>2. TypeOK'
  BY <1>1, Const DEF IInv, TypeOK
<1>3. Control'
  BY <1>1, Const DEF IInv, Control, Ended, Sending
<1>4. Hunks'
  BY <1>1, Const DEF IInv, Hunks
<1>5. InHand' = InHand /\ Bound' = Bound /\ Bound \in Nat
  BY <1>1, Places DEF InHand, Bound, IInv
<1>6. /\ Flow'
      /\ AllOf(emitted, InFlush, Texts, rawBuf, InHand)'
           = AllOf(emitted, InFlush, Texts, rawBuf, InHand)
  BY <1>1, <1>5, HandFlow DEF IInv
<1>7. Reasons'
  BY <1>1 DEF IInv, Reasons
<1>8. reader # "exited" /\ ~Sending /\ ~Sending' /\ (reader' = "exited" => cancelled')
  BY <1>1 DEF Sending
<1>9. Alone
  BY <1>1 DEF Alone
<1> QED BY <1>1, <1>2, <1>3, <1>4, <1>5, <1>6, <1>7, <1>8, <1>9, ReaderAlone DEF Somewhere

\* The open hunk is dropped (there is nothing in it) or dumped.
LEMMA FlushDumpKeeps ==
  ASSUME IInv, FlushCurrent, reader' = "dump"
  PROVE  IInv'
<1>1. /\ setup' = setup /\ reader = "flush" /\ then # "read" /\ todo = <<>> /\ opening = 0
      /\ current' = NoHunk
      /\ UNCHANGED <<pos, rawBuf, then, opening, permit, queueVars, jobVars, cancelled,
                     readerErr, workerVars, flusherVars, flusherErr, workerErr, mainVars,
                     pagerVars>>
  BY DEF IInv, Control, FlushCurrent, ReaderFrame
<1>2. todo' = current.lines
  BY DEF FlushCurrent, IInv, Hunks, NoHunk
<1>3. TypeOK'
  <2>1. todo' \in Seq(Lines) /\ TypeOK
    BY <1>2 DEF IInv, TypeOK, FileHunks
  <2>2. current' \in FileHunks
    BY <1>1, EmptySeq DEF NoHunk, FileHunks
  <2>3. reader' = "dump"
    OBVIOUS
  <2>4. /\ input' = input /\ Lines' = Lines /\ Items' = Items /\ SemCap' = SemCap
        /\ FileHunks' = FileHunks /\ Positions' = Positions
    BY <1>1, Const
  <2>5. (todo \in Seq(Lines) /\ current \in FileHunks)'
    BY <2>1, <2>2, <2>4
  <2> QED BY <1>1, <2>1, <2>3, <2>4, <2>5 DEF TypeOK
<1>4. Control'
  BY <1>1, Const DEF IInv, Control, Ended, Sending, NoHunk
<1>5. Hunks'
  BY <1>1, Const DEF IInv, Hunks, NoHunk
<1>6. InHand' = InHand /\ Bound' = Bound /\ Bound \in Nat
  BY <1>1, <1>2, Places DEF InHand, Bound, IInv, NoHunk
<1>7. /\ Flow'
      /\ AllOf(emitted, InFlush, Texts, rawBuf, InHand)'
           = AllOf(emitted, InFlush, Texts, rawBuf, InHand)
  BY <1>1, <1>6, HandFlow DEF IInv
<1>8. Reasons'
  BY <1>1, ReaderReasons DEF IInv
<1>9. reader # "exited" /\ ~Sending /\ ~Sending' /\ (reader' = "exited" => cancelled')
  BY <1>1 DEF Sending
<1>10. Alone
  BY <1>1 DEF Alone
<1> QED BY <1>1, <1>3, <1>4, <1>5, <1>6, <1>7, <1>8, <1>9, <1>10, ReaderAlone DEF Somewhere

\* A job is made of the open hunk: no job in the queues or with the flusher has its head.
LEMMA FlushJobKeeps ==
  ASSUME IInv, FlushCurrent, reader' # "dump"
  PROVE  IInv'
<1> DEFINE h == current.head
<1>1. /\ setup' = setup /\ reader = "flush" /\ reader' = "chunk" /\ then # "read"
      /\ todo = <<>> /\ todo' = <<>> /\ opening = 0 /\ current' = NoHunk /\ opening' = h
      /\ lines' = [lines EXCEPT ![h] = current.lines] /\ ~cancelled
      /\ current # NoHunk /\ ~current.raw
      /\ UNCHANGED <<pos, rawBuf, then, permit, queueVars, verdict, done, cancelled,
                     readerErr, workerVars, flusherVars, flusherErr, workerErr, mainVars,
                     pagerVars>>
  BY DEF IInv, Control, FlushCurrent, ReaderFrame
<1>2. /\ h \in Lines /\ current.lines \in Seq(Lines) /\ JobLines(h, current.lines)
      /\ lines' \in [Lines -> Seq(Lines)] /\ lines'[h] = current.lines
      /\ (\A j \in Lines : j # h => lines'[j] = lines[j]) /\ h # 0
  BY <1>1 DEF IInv, Hunks, TypeOK, Lines, FileHunks
<1>3. InHand = current.lines /\ h \in Elems(InHand) /\ InHand' = InHand /\ Bound' = Bound
  <2>1. 1 \in 1 .. Len(current.lines)
    BY <1>2 DEF JobLines
  <2>2. h \in Elems(current.lines)
    BY <1>2, <2>1 DEF Elems, JobLines
  <2> QED BY <1>1, <1>2, <2>2 DEF InHand, Bound
<1>4. /\ h \notin Queued /\ h \notin Flushing /\ h \notin Started
  <2>1. Before(AllElems(Texts), Elems(InHand)) /\ Before(Flushed, Elems(InHand))
    BY DEF IInv, Flow, InOrder, Before
  <2>2. \A j \in Queued : j \in AllElems(Texts)
    BY HeadsInPlaces DEF IInv
  <2>3. \A j \in Flushing : j \in Flushed
    BY HeadsInPlaces DEF IInv
  <2>4. \A j \in Started : Before({j}, Elems(InHand))
    BY <1>1 DEF IInv, Jobs, JobSent
  <2>5. h \in Nat
    BY <1>2 DEF Lines
  <2> QED BY <1>3, <2>1, <2>2, <2>3, <2>4, <2>5 DEF Before
<1>5. /\ \A k \in 1 .. Len(streamQueue) : streamQueue[k].kind = "job" => streamQueue[k].job # h
      /\ flusher \in {"await", "write", "blocked", "release"} /\ item.kind = "job" => item.job # h
  BY <1>2, <1>4 DEF Queued, Flushing, JobItem, IInv, Hunks
<1>6. Texts' = Texts /\ InFlush' = InFlush /\ Flushed' = Flushed
  <2>1. ASSUME NEW k \in 1 .. Len(streamQueue) PROVE Text(streamQueue[k])' = Text(streamQueue[k])
    <3>1. streamQueue[k].kind \in {"raw", "job"} /\ streamQueue'[k] = streamQueue[k]
      <4>1. streamQueue[k] \in Items
        BY DEF IInv, TypeOK
      <4> QED BY <1>1, <4>1 DEF Items
    <3> QED BY <1>2, <1>5, <3>1 DEF Text, IInv, Hunks
  <2>2. Texts' = Texts
    BY <1>1, <2>1 DEF Texts
  <2>3. InFlush' = InFlush
    <3>1. item.kind \in {"raw", "job"}
      BY DEF IInv, TypeOK, Items
    <3> QED BY <1>1, <1>2, <1>5, <3>1 DEF InFlush, Text, IInv, Hunks
  <2> QED BY <1>1, <2>2, <2>3 DEF Flushed
<1>7. /\ Flow'
      /\ AllOf(emitted, InFlush, Texts, rawBuf, InHand)'
           = AllOf(emitted, InFlush, Texts, rawBuf, InHand)
  BY <1>1, <1>3, <1>6 DEF Flow, IInv
<1>8. TypeOK'
  <2>1. current' \in FileHunks
    BY <1>1, EmptySeq DEF NoHunk, FileHunks
  <2>2. opening' \in Lines \cup {0} /\ todo' \in Seq(Lines) /\ TypeOK
    BY <1>1, <1>2, EmptySeq DEF IInv
  <2>3. /\ input' = input /\ Lines' = Lines /\ Items' = Items /\ SemCap' = SemCap
        /\ FileHunks' = FileHunks /\ Positions' = Positions
    BY <1>1, Const
  <2>4. (todo \in Seq(Lines) /\ current \in FileHunks /\ opening \in Lines \cup {0}
         /\ lines \in [Lines -> Seq(Lines)])'
    BY <1>2, <2>1, <2>2, <2>3
  <2> QED BY <1>1, <2>2, <2>3, <2>4 DEF TypeOK
<1>9. Control'
  BY <1>1, Const DEF IInv, Control, Ended, Sending, NoHunk
<1>10. Hunks'
  <2>1. (current = NoHunk /\ ~current.raw)'
    BY <1>1 DEF NoHunk
  <2>2. (opening # 0 => JobLines(opening, lines[opening]))'
    BY <1>1, <1>2 DEF JobLines
  <2>3. ASSUME NEW k \in 1 .. Len(streamQueue), streamQueue[k].kind = "job"
        PROVE  /\ streamQueue[k] = JobItem(streamQueue[k].job) /\ streamQueue[k].job \in Lines
               /\ lines'[streamQueue[k].job] = lines[streamQueue[k].job]
               /\ JobLines(streamQueue[k].job, lines[streamQueue[k].job])
    BY <1>2, <1>5, <2>3 DEF IInv, Hunks
  <2>4. flusher \in {"await", "write", "blocked", "release"} /\ item.kind = "job" =>
          /\ item.job \in Lines /\ JobLines(item.job, lines[item.job])
          /\ lines'[item.job] = lines[item.job]
    BY <1>2, <1>5 DEF IInv, Hunks
  <2>5. flusher \in {"await", "release"} => item.kind = "job"
    BY DEF IInv, Hunks
  <2> QED BY <1>1, <2>1, <2>2, <2>3, <2>4, <2>5, Const DEF Hunks, JobItem, JobLines
<1>11. Jobs'
  <2>1. InHand \in Seq(Nat) /\ Bound \in Nat
    BY Places DEF IInv
  <2>2. \A j \in Lines : ~JobSent(j)
    BY <1>1 DEF JobSent
  <2> QED BY <1>1, <1>3, <1>10, <2>1, <2>2, JobsFrame DEF IInv
<1>12. Permits'
  <2>1. Queued' = Queued /\ Flushing' = Flushing
    BY <1>1, Const DEF Queued, Flushing, JobItem
  <2>2. InFlight' \subseteq InFlight
    <3>2. Lines \subseteq Nat \ {0}
      BY DEF Lines
    <3>3. 0 \notin Queued /\ 0 \notin Elems(workQueue)
      BY <3>2, FiniteJobs DEF IInv
    <3>4. 0 \notin Flushing
      BY <3>2 DEF Flushing, IInv, Hunks
    <3> QED BY <1>1, <2>1, <3>3, <3>4 DEF InFlight
  <2> QED BY <1>1, <2>1, <2>2, PermitsFrame DEF IInv
<1>13. Accounts'
  <2>1. \A j \in Lines : done[j] => j # h
    BY <1>4 DEF Started
  <2>2. \A j \in Lines : done[j] => done'[j] /\ verdict'[j] = verdict[j] /\ lines'[j] = lines[j]
    BY <1>1, <1>2, <2>1
  <2>3. (~cancelled /\ ~workerErr => \A i \in Lines : i < Bound => Somewhere(i) \/ Settled(i))'
    BY <1>1, <1>3, <1>7, <2>2, AccountsFrame DEF IInv, Somewhere
  <2> QED BY <1>1, <2>3 DEF IInv, Accounts
<1>14. Reasons' /\ Outcome'
  BY <1>1, ReaderReasons, ReaderOutcome DEF IInv
<1> QED BY <1>7, <1>8, <1>9, <1>10, <1>11, <1>12, <1>13, <1>14 DEF IInv

LEMMA DumpLineKeeps ==
  ASSUME IInv, DumpLines, todo # <<>>
  PROVE  IInv'
<1>1. /\ setup' = setup /\ reader = "dump" /\ reader' \in {"dump", "chunk"} /\ opening = 0
      /\ rawBuf' = Append(rawBuf, Head(todo)) /\ todo' = Tail(todo) /\ current.lines = <<>>
      /\ UNCHANGED <<pos, then, current, opening, permit, queueVars, jobVars, cancelled,
                     readerErr, workerVars, flusherVars, flusherErr, workerErr, mainVars,
                     pagerVars>>
  BY DEF IInv, Control, DumpLines, ReaderFrame
<1>2. /\ rawBuf' \in Seq(Lines) /\ todo' \in Seq(Lines)
      /\ Elems(todo) = {Head(todo)} \cup Elems(Tail(todo))
  <2>1. rawBuf \in Seq(Lines) /\ todo \in Seq(Lines)
    BY DEF IInv, TypeOK
  <2>2. Head(todo) \in Lines /\ Tail(todo) \in Seq(Lines)
        /\ Elems(todo) = {Head(todo)} \cup Elems(Tail(todo))
    BY <2>1, ElemsTail
  <2> QED BY <1>1, <2>1, <2>2
<1>3. TypeOK'
  <2>1. /\ input' = input /\ Lines' = Lines /\ Items' = Items /\ SemCap' = SemCap
        /\ FileHunks' = FileHunks /\ Positions' = Positions
    BY <1>1, Const
  <2>2. TypeOK
    BY DEF IInv
  <2> QED BY <1>1, <1>2, <2>1, <2>2 DEF TypeOK
<1>4. Control'
  BY <1>1, Const DEF IInv, Control, Ended, Sending
<1>5. Hunks'
  BY <1>1, Const DEF IInv, Hunks
<1>6. InHand = todo /\ InHand' = Tail(todo) /\ Bound' = Bound /\ Bound \in Nat
  BY <1>1, Places DEF InHand, Bound, IInv
<1>7. /\ Flow'
      /\ AllOf(emitted, InFlush, Texts, rawBuf, InHand)'
           = AllOf(emitted, InFlush, Texts, rawBuf, InHand)
  <2>1. Texts' = Texts /\ InFlush' = InFlush /\ Flushed' = Flushed /\ emitted' = emitted
    BY <1>1, OutFrame
  <2>2. InOrder(emitted, InFlush, Flushed, Texts, rawBuf, InHand, Bound)
    BY DEF IInv, Flow
  <2>3. /\ emitted \in Seq(Nat) /\ InFlush \in Seq(Nat) /\ Flushed \in SUBSET Nat
        /\ Texts \in Seq(Seq(Nat)) /\ rawBuf \in Seq(Nat) /\ InHand \in Seq(Nat)
        /\ Bound \in Nat
    BY Places DEF IInv
  <2>4. InHand # <<>>
    BY <1>6
  <2>5. InOrder(emitted, InFlush, Flushed, Texts, Append(rawBuf, Head(InHand)), Tail(InHand), Bound)
    BY <2>2, <2>3, <2>4, MoveToBuffer
  <2>6. AllOf(emitted, InFlush, Texts, Append(rawBuf, Head(InHand)), Tail(InHand))
          = AllOf(emitted, InFlush, Texts, rawBuf, InHand)
    BY <2>2, <2>3, <2>4, <2>5, MoveToBuffer
  <2> QED BY <1>1, <1>6, <2>1, <2>5, <2>6 DEF Flow
<1>8. Reasons'
  BY <1>1, ReaderReasons DEF IInv
<1>9. reader # "exited" /\ ~Sending /\ ~Sending' /\ (reader' = "exited" => cancelled')
  BY <1>1 DEF Sending
<1>10. Alone
  BY <1>1 DEF Alone
<1>11. \A x \in Elems(InHand') : x \in Elems(InHand)
  BY <1>2, <1>6
<1> QED BY <1>1, <1>3, <1>4, <1>5, <1>6, <1>7, <1>8, <1>9, <1>10, <1>11, ReaderAlone DEF Somewhere

\* The end of a dump: the line after the hunk, if any, is taken into the hand.
LEMMA DumpEndKeeps ==
  ASSUME IInv, DumpLines, todo = <<>>
  PROVE  IInv'
<1>1. /\ setup' = setup /\ reader = "dump" /\ reader' \in {"check", "dump", "lastChunk"}
      /\ opening = 0 /\ rawBuf' = rawBuf /\ then' = "read" /\ current.lines = <<>>
      /\ UNCHANGED <<pos, opening, permit, queueVars, jobVars, cancelled,
                     readerErr, workerVars, flusherVars, flusherErr, workerErr, mainVars,
                     pagerVars>>
  BY DEF IInv, TypeOK, Control, DumpLines, ReaderFrame
<1>2. \/ then = "read" /\ reader' = "check" /\ UNCHANGED <<todo, current>>
      \/ then = "raw" /\ reader' = "dump" /\ todo' = <<pos - 1>> /\ UNCHANGED current
         /\ current = NoHunk
      \/ then = "open" /\ reader' = "check" /\ current' = Open(pos - 1) /\ UNCHANGED todo
         /\ current = NoHunk
      \/ then = "end" /\ reader' = "lastChunk" /\ UNCHANGED <<todo, current>> /\ current = NoHunk
  BY DEF DumpLines, IInv, TypeOK, Control
<1>3. pos \in Nat /\ (then \in {"raw", "open"} => pos - 1 \in Lines /\ pos - 1 \in Nat)
  BY DEF IInv, TypeOK, Control, Lines, Positions
<1>4. /\ TypeOK /\ todo' \in Seq(Lines) /\ current' \in FileHunks
      /\ (then = "open" => current' # NoHunk /\ ~current'.raw /\ current.lines' = <<pos - 1>>
                           /\ current.head' = pos - 1 /\ pos - 1 \in Lines
                           /\ JobLines(current'.head, current'.lines))
  <2>1. TypeOK
    BY DEF IInv
  <2>2. CASE then \notin {"raw", "open"}
    BY <1>2, <2>1, <2>2 DEF TypeOK
  <2>3. CASE then = "raw"
    <3>1. <<pos - 1>> \in Seq(Lines)
      BY <1>3, <2>3
    <3> QED BY <1>2, <2>1, <2>3, <3>1 DEF TypeOK
  <2>4. CASE then = "open"
    <3>1. <<pos - 1>> \in Seq(Lines) /\ pos - 1 \in Lines /\ <<pos - 1>>[1] = pos - 1
          /\ Len(<<pos - 1>>) > 0 /\ pos - 1 # 0
      BY <1>3, <2>4 DEF Lines
    <3>2. current' = Open(pos - 1) /\ todo' = todo
      BY <1>2, <2>4
    <3> QED BY <2>1, <2>4, <3>1, <3>2 DEF TypeOK, FileHunks, Open, NoHunk, JobLines
  <2> QED BY <2>2, <2>3, <2>4
<1>5. TypeOK'
  <2>1. /\ input' = input /\ Lines' = Lines /\ Items' = Items /\ SemCap' = SemCap
        /\ FileHunks' = FileHunks /\ Positions' = Positions
    BY <1>1, Const
  <2> QED BY <1>1, <1>4, <2>1 DEF TypeOK
<1>6. Control'
  BY <1>1, <1>2, <1>4, Const DEF IInv, Control, Ended, Sending
<1>7. Hunks'
  BY <1>1, <1>2, <1>4, Const DEF IInv, Hunks
<1>8. \/ InHand' = InHand /\ Bound' = Bound
      \/ InHand' = Append(InHand, Bound) /\ Bound' = Bound + 1
  <2>1. <<pos - 1>> = Append(<<>>, pos - 1) /\ <<pos - 1>> # <<>>
    OBVIOUS
  <2>2. InHand = <<>>
    BY <1>1 DEF InHand
  <2>3. CASE then \notin {"raw", "open"}
    BY <1>1, <1>2, <2>3 DEF InHand, Bound
  <2>4. CASE then = "raw"
    BY <1>1, <1>2, <1>3, <2>1, <2>2, <2>4 DEF InHand, Bound
  <2>5. CASE then = "open"
    BY <1>1, <1>2, <1>3, <1>4, <2>1, <2>2, <2>5 DEF InHand, Bound
  <2> QED BY <2>3, <2>4, <2>5
<1>9. Reasons'
  BY <1>1, ReaderReasons DEF IInv
<1>10. reader # "exited" /\ ~Sending /\ ~Sending' /\ (reader' = "exited" => cancelled')
  BY <1>1 DEF Sending
<1>11. Alone /\ rawBuf' = rawBuf
  BY <1>1 DEF Alone
<1> QED BY <1>1, <1>5, <1>6, <1>7, <1>8, <1>9, <1>10, <1>11, NextLine

-----------------------------------------------------------------------------
(***************************************************************************)
(* The reader's sends.                                                     *)
(***************************************************************************)
LEMMA QueueAppend ==
  ASSUME TypeOK, Hunks, setup' = setup, NEW it \in Items, it.kind = "raw" \/ it.job \in Lines,
         streamQueue' = Append(streamQueue, it), UNCHANGED <<emitted, flusher, item, lines>>
  PROVE  /\ Texts' = Append(Texts, Text(it)) /\ InFlush' = InFlush /\ Flushed' = Flushed
         /\ Text(it) \in Seq(Nat) /\ streamQueue' \in Seq(Items) /\ Flushing' = Flushing
         /\ \A k \in 1 .. Len(streamQueue') :
              (k \in 1 .. Len(streamQueue) /\ streamQueue'[k] = streamQueue[k])
              \/ streamQueue'[k] = it
         /\ Queued' = Queued \cup {i \in Lines : it = JobItem(i)}
<1>1. /\ streamQueue \in Seq(Items) /\ Len(streamQueue) \in Nat
      /\ Len(streamQueue') = Len(streamQueue) + 1 /\ streamQueue' \in Seq(Items)
      /\ (\A i \in 1 .. Len(streamQueue) : streamQueue'[i] = streamQueue[i])
      /\ streamQueue'[Len(streamQueue) + 1] = it
  <2>1. streamQueue \in Seq(Items)
    BY DEF TypeOK
  <2> QED BY <2>1
<1>2. \A k \in 1 .. Len(streamQueue') : k \in 1 .. Len(streamQueue) \/ k = Len(streamQueue) + 1
  BY <1>1, UpTo
<1>3. \A k \in 1 .. Len(streamQueue) : k \in 1 .. Len(streamQueue')
  BY <1>1
<1>4. Len(streamQueue) + 1 \in 1 .. Len(streamQueue')
  BY <1>1
<1>5. Text(it) \in Seq(Nat)
  <2>1. CASE it.kind = "raw"
    <3>1. it.text \in Seq(Lines)
      BY DEF Items
    <3> QED BY <2>1, <3>1, LinesSeq DEF Text
  <2>2. CASE it.kind # "raw"
    <3>1. lines[it.job] \in Seq(Lines)
      BY <2>2 DEF TypeOK
    <3> QED BY <2>2, <3>1, LinesSeq DEF Text
  <2> QED BY <2>1, <2>2
<1>6. Texts' = Append(Texts, Text(it))
  <2>1. \A x : Text(x)' = Text(x)
    BY DEF Text
  <2>2. /\ Len(Texts) = Len(streamQueue) /\ Texts \in Seq(Seq(Nat))
        /\ \A k \in 1 .. Len(streamQueue) : Texts[k] = Text(streamQueue[k])
    <3>1. Texts \in Seq(Seq(Nat))
      BY Places
    <3> QED BY <1>1, <3>1 DEF Texts
  <2>3. /\ Append(Texts, Text(it)) \in Seq(Seq(Nat))
        /\ Len(Append(Texts, Text(it))) = Len(streamQueue) + 1
        /\ Append(Texts, Text(it))[Len(streamQueue) + 1] = Text(it)
        /\ \A k \in 1 .. Len(streamQueue) : Append(Texts, Text(it))[k] = Text(streamQueue[k])
    BY <1>5, <2>2
  <2>4. /\ Texts' \in Seq(Seq(Nat)) /\ Len(Texts') = Len(streamQueue) + 1
        /\ \A k \in 1 .. Len(streamQueue') : Texts'[k] = Text(streamQueue'[k])
    <3>1. Texts' = [k \in 1 .. Len(streamQueue') |-> Text(streamQueue'[k])]
      BY <2>1 DEF Texts
    <3>2. \A k \in 1 .. Len(streamQueue') : Text(streamQueue'[k]) \in Seq(Nat)
      <4>1. \A k \in 1 .. Len(streamQueue) : Text(streamQueue[k]) \in Seq(Nat)
        BY <2>2
      <4> QED BY <1>1, <1>2, <1>5, <4>1
    <3> QED BY <1>1, <3>1, <3>2
  <2>5. \A k \in 1 .. Len(streamQueue) + 1 : Texts'[k] = Append(Texts, Text(it))[k]
    BY <1>1, <1>2, <2>3, <2>4
  <2> QED BY <2>3, <2>4, <2>5, SeqEqual
<1>7. Queued' = Queued \cup {i \in Lines : it = JobItem(i)}
  <2>1. Queued' = {i \in Lines : \E k \in 1 .. Len(streamQueue') : streamQueue'[k] = JobItem(i)}
    BY Const DEF Queued, JobItem
  <2>2. Queued' \subseteq Queued \cup {i \in Lines : it = JobItem(i)}
    BY <1>1, <1>2, <2>1 DEF Queued
  <2>3. Queued \subseteq Queued'
    BY <1>1, <1>3, <2>1 DEF Queued
  <2>4. {i \in Lines : it = JobItem(i)} \subseteq Queued'
    BY <1>1, <1>4, <2>1
  <2> QED BY <2>2, <2>3, <2>4
<1>8. Flushing' = Flushing /\ InFlush' = InFlush /\ Flushed' = Flushed
  BY DEF Flushing, InFlush, Flushed, Text
<1> QED BY <1>1, <1>2, <1>5, <1>6, <1>7, <1>8

\* The raw buffer joins the queue.
LEMMA ChunkSent ==
  ASSUME IInv, streamQueue' = Append(streamQueue, Raw(rawBuf)), rawBuf' = <<>>,
         UNCHANGED <<setup, emitted, flusher, item, lines, opening, todo, current, pos, then>>
  PROVE  /\ Flow' /\ Hunks' /\ streamQueue' \in Seq(Items)
         /\ Queued' = Queued /\ Flushing' = Flushing /\ InHand' = InHand /\ Bound' = Bound
         /\ AllOf(emitted, InFlush, Texts, rawBuf, InHand)'
              = AllOf(emitted, InFlush, Texts, rawBuf, InHand)
<1>1. Raw(rawBuf) \in Items /\ Raw(rawBuf).kind = "raw" /\ Text(Raw(rawBuf)) = rawBuf
      /\ \A i : Raw(rawBuf) # JobItem(i)
  BY DEF IInv, TypeOK, Items, Raw, Text, JobItem
<1>2. /\ Texts' = Append(Texts, Text(Raw(rawBuf))) /\ InFlush' = InFlush /\ Flushed' = Flushed
      /\ streamQueue' \in Seq(Items) /\ Flushing' = Flushing
      /\ Queued' = Queued \cup {i \in Lines : Raw(rawBuf) = JobItem(i)}
      /\ \A k \in 1 .. Len(streamQueue') :
           (k \in 1 .. Len(streamQueue) /\ streamQueue'[k] = streamQueue[k])
           \/ streamQueue'[k] = Raw(rawBuf)
  BY <1>1, QueueAppend DEF IInv
<1>3. Texts' = Append(Texts, rawBuf) /\ Queued' = Queued
  BY <1>1, <1>2
<1>4. InHand' = InHand /\ Bound' = Bound
  BY HandFrame
<1>5. /\ emitted \in Seq(Nat) /\ InFlush \in Seq(Nat) /\ Flushed \in SUBSET Nat
      /\ Texts \in Seq(Seq(Nat)) /\ rawBuf \in Seq(Nat) /\ InHand \in Seq(Nat)
      /\ Bound \in Nat /\ <<>> \in Seq(Nat)
  BY Places, EmptySeq DEF IInv
<1>6. InOrder(emitted, InFlush, Flushed, Texts, rawBuf, InHand, Bound)
  BY DEF IInv, Flow
<1>7. InOrder(emitted, InFlush, Flushed, Append(Texts, rawBuf), <<>>, InHand, Bound)
  BY <1>5, <1>6, MoveToQueue
<1>8. AllOf(emitted, InFlush, Append(Texts, rawBuf), <<>>, InHand)
        = AllOf(emitted, InFlush, Texts, rawBuf, InHand)
  <2>1. AllElems(Append(Texts, rawBuf)) = AllElems(Texts) \cup Elems(rawBuf)
    BY <1>5, AllElemsAppend
  <2> QED BY <2>1, EmptyElems DEF AllOf
<1>9. Hunks'
  <2>1. ASSUME NEW k \in 1 .. Len(streamQueue'), streamQueue'[k].kind = "job"
        PROVE  /\ streamQueue'[k] = JobItem(streamQueue'[k].job) /\ streamQueue'[k].job \in Lines
               /\ JobLines(streamQueue'[k].job, lines[streamQueue'[k].job])
    BY <1>1, <1>2, <2>1 DEF IInv, Hunks
  <2>2. (\A k \in 1 .. Len(streamQueue) : streamQueue[k].kind = "job" =>
          /\ streamQueue[k] = JobItem(streamQueue[k].job) /\ streamQueue[k].job \in Lines
          /\ JobLines(streamQueue[k].job, lines[streamQueue[k].job]))'
    BY <2>1, Const DEF JobItem, JobLines
  <2> QED BY <2>2, Const DEF IInv, Hunks
<1> QED BY <1>2, <1>3, <1>4, <1>7, <1>8, <1>9 DEF Flow

LEMMA ChunkKeeps ==
  ASSUME IInv, SendChunk
  PROVE  IInv'
<1>1. /\ setup' = setup /\ reader = "chunk" /\ reader' \in {"permit", "dump"}
      /\ (reader' = "permit" <=> opening # 0) /\ rawBuf' = <<>>
      /\ UNCHANGED <<pos, current, todo, then, opening, permit, workQueue, closed, permits,
                     jobVars, cancelled, readerErr, workerVars, flusherVars, flusherErr,
                     workerErr, mainVars, pagerVars>>
      /\ \/ UNCHANGED <<rawBuf, streamQueue>>
         \/ streamQueue' = Append(streamQueue, Raw(rawBuf))
  BY DEF SendChunk, ReaderFrame
<1>2. /\ Flow' /\ Hunks' /\ streamQueue' \in Seq(Items)
      /\ Queued' = Queued /\ Flushing' = Flushing /\ InHand' = InHand /\ Bound' = Bound
      /\ AllOf(emitted, InFlush, Texts, rawBuf, InHand)'
           = AllOf(emitted, InFlush, Texts, rawBuf, InHand)
  <2>1. CASE UNCHANGED <<rawBuf, streamQueue>>
    <3>1. InHand' = InHand /\ Bound' = Bound
      BY <1>1, HandFrame
    <3>2. /\ Flow'
          /\ AllOf(emitted, InFlush, Texts, rawBuf, InHand)'
               = AllOf(emitted, InFlush, Texts, rawBuf, InHand)
      BY <1>1, <2>1, <3>1, HandFlow DEF IInv
    <3>3. Hunks' /\ Queued' = Queued /\ Flushing' = Flushing
      BY <1>1, <2>1, Const DEF IInv, Hunks, Queued, Flushing, JobItem
    <3> QED BY <2>1, <3>1, <3>2, <3>3 DEF IInv, TypeOK
  <2>2. CASE streamQueue' = Append(streamQueue, Raw(rawBuf))
    BY <1>1, <2>2, ChunkSent
  <2> QED BY <1>1, <2>1, <2>2
<1>3. TypeOK'
  <2>1. /\ input' = input /\ Lines' = Lines /\ Items' = Items /\ SemCap' = SemCap
        /\ FileHunks' = FileHunks /\ Positions' = Positions
    BY <1>1, Const
  <2>2. TypeOK /\ rawBuf' \in Seq(Lines)
    BY <1>1, EmptySeq DEF IInv, TypeOK
  <2>3. (rawBuf \in Seq(Lines) /\ streamQueue \in Seq(Items))'
    BY <1>2, <2>1, <2>2
  <2> QED BY <1>1, <2>1, <2>2, <2>3 DEF TypeOK
<1>4. Control'
  BY <1>1, Const DEF IInv, Control, Ended, Sending
<1>5. Jobs'
  <2>1. InHand \in Seq(Nat) /\ Bound \in Nat
    BY Places DEF IInv
  <2>2. \A j \in Lines : ~JobSent(j)
    BY <1>1 DEF JobSent
  <2> QED BY <1>1, <1>2, <2>1, <2>2, JobsFrame DEF IInv
<1>6. Permits'
  <2>1. InFlight' = InFlight
    BY <1>1, <1>2 DEF InFlight
  <2> QED BY <1>1, <1>2, <2>1, PermitsFrame DEF IInv
<1>7. Accounts'
  <2>1. (~cancelled /\ ~workerErr => \A i \in Lines : i < Bound => Somewhere(i) \/ Settled(i))'
    BY <1>1, <1>2, AccountsFrame DEF IInv, Somewhere
  <2> QED BY <1>1, <2>1, <1>4 DEF IInv, Accounts, Control
<1>8. Reasons' /\ Outcome'
  BY <1>1, ReaderReasons, ReaderOutcome DEF IInv
<1> QED BY <1>2, <1>3, <1>4, <1>5, <1>6, <1>7, <1>8 DEF IInv

LEMMA LastChunkKeeps ==
  ASSUME IInv, LastChunk
  PROVE  IInv'
<1>1. /\ setup' = setup /\ reader = "lastChunk" /\ reader' = "exited" /\ closed' = TRUE
      /\ UNCHANGED <<pos, current, todo, then, opening, permit, workQueue, permits,
                     jobVars, cancelled, readerErr, workerVars, flusherVars, flusherErr,
                     workerErr, mainVars, pagerVars>>
      /\ rawBuf' = <<>> \/ (cancelled /\ rawBuf' = rawBuf)
      /\ \/ UNCHANGED <<rawBuf, streamQueue>>
         \/ streamQueue' = Append(streamQueue, Raw(rawBuf)) /\ rawBuf' = <<>>
  BY DEF LastChunk, ReaderMove, ReaderFrame
<1>2. /\ Flow' /\ Hunks' /\ streamQueue' \in Seq(Items)
      /\ Queued' = Queued /\ Flushing' = Flushing /\ InHand' = InHand /\ Bound' = Bound
      /\ AllOf(emitted, InFlush, Texts, rawBuf, InHand)'
           = AllOf(emitted, InFlush, Texts, rawBuf, InHand)
  <2>1. CASE UNCHANGED <<rawBuf, streamQueue>>
    <3>1. InHand' = InHand /\ Bound' = Bound
      BY <1>1, HandFrame
    <3>2. /\ Flow'
          /\ AllOf(emitted, InFlush, Texts, rawBuf, InHand)'
               = AllOf(emitted, InFlush, Texts, rawBuf, InHand)
      BY <1>1, <2>1, <3>1, HandFlow DEF IInv
    <3>3. Hunks' /\ Queued' = Queued /\ Flushing' = Flushing
      BY <1>1, <2>1, Const DEF IInv, Hunks, Queued, Flushing, JobItem
    <3> QED BY <2>1, <3>1, <3>2, <3>3 DEF IInv, TypeOK
  <2>2. CASE streamQueue' = Append(streamQueue, Raw(rawBuf)) /\ rawBuf' = <<>>
    BY <1>1, <2>2, ChunkSent
  <2> QED BY <1>1, <2>1, <2>2
<1>3. then = "read" /\ todo = <<>> /\ opening = 0 /\ current.lines = <<>> /\ Ended /\ ~closed
      /\ readerErr = "none"
  BY <1>1 DEF IInv, Control
<1>4. TypeOK'
  <2>1. /\ input' = input /\ Lines' = Lines /\ Items' = Items /\ SemCap' = SemCap
        /\ FileHunks' = FileHunks /\ Positions' = Positions
    BY <1>1, Const
  <2>2. TypeOK /\ rawBuf' \in Seq(Lines)
    BY <1>1, EmptySeq DEF IInv, TypeOK
  <2>3. (rawBuf \in Seq(Lines) /\ streamQueue \in Seq(Items))'
    BY <1>2, <2>1, <2>2
  <2> QED BY <1>1, <2>1, <2>2, <2>3 DEF TypeOK
<1>5. Control'
  BY <1>1, <1>3, Const DEF IInv, Control, Ended, Sending
<1>6. Jobs'
  <2>1. InHand \in Seq(Nat) /\ Bound \in Nat
    BY Places DEF IInv
  <2>2. \A j \in Lines : ~JobSent(j)
    BY <1>1 DEF JobSent
  <2> QED BY <1>1, <1>2, <2>1, <2>2, JobsFrame DEF IInv
<1>7. Permits'
  <2>1. InFlight' = InFlight
    BY <1>1, <1>2 DEF InFlight
  <2> QED BY <1>1, <1>2, <2>1, PermitsFrame DEF IInv
<1>8. Accounts'
  <2>1. (~cancelled /\ ~workerErr => \A i \in Lines : i < Bound => Somewhere(i) \/ Settled(i))'
    BY <1>1, <1>2, AccountsFrame DEF IInv, Somewhere
  <2>2. ~cancelled => rawBuf' = <<>> /\ InHand' = <<>>
    BY <1>1, <1>2, <1>3 DEF InHand
  <2>3. Ended'
    BY <1>1, <1>3, Const DEF Ended
  <2>4. ~cancelled /\ flusher = "exited" => closed
    BY DEF IInv, Accounts
  <2> QED BY <1>1, <1>3, <2>1, <2>2, <2>3, <2>4 DEF Accounts
<1>9. Reasons' /\ Outcome'
  BY <1>1, ReaderReasons, ReaderOutcome DEF IInv
<1> QED BY <1>2, <1>4, <1>5, <1>6, <1>7, <1>8, <1>9 DEF IInv

LEMMA TakePermitKeeps ==
  ASSUME IInv, TakePermit
  PROVE  IInv'
<1>1. /\ setup' = setup /\ reader = "permit" /\ reader' = "toWork" /\ permits < SemCap
      /\ permits' = permits + 1 /\ permit' = TRUE
      /\ UNCHANGED <<pos, rawBuf, current, todo, then, opening, workQueue, streamQueue, closed,
                     jobVars, cancelled, readerErr, workerVars, flusherVars, flusherErr,
                     workerErr, mainVars, pagerVars>>
  BY DEF TakePermit, ReaderMove, ReaderFrame
<1>2. TypeOK'
  BY <1>1, Const DEF IInv, TypeOK
<1>3. Control'
  BY <1>1, Const DEF IInv, Control, Ended, Sending
<1>4. Hunks'
  BY <1>1, Const DEF IInv, Hunks
<1>5. InHand' = InHand /\ Bound' = Bound /\ Bound \in Nat /\ InHand \in Seq(Nat)
  BY <1>1, Places, HandFrame DEF IInv
<1>6. /\ Flow'
      /\ AllOf(emitted, InFlush, Texts, rawBuf, InHand)'
           = AllOf(emitted, InFlush, Texts, rawBuf, InHand)
  BY <1>1, <1>5, HandFlow DEF IInv
<1>7. Jobs'
  <2>1. \A j \in Lines : ~JobSent(j)
    BY <1>1 DEF JobSent
  <2> QED BY <1>1, <1>4, <1>5, <2>1, JobsFrame DEF IInv
<1>8. Permits'
  <2>1. Queued' = Queued /\ Flushing' = Flushing /\ InFlight' = InFlight
    BY <1>1, Const DEF Queued, Flushing, JobItem, InFlight
  <2>2. Own = 0 /\ Own' = 1
    BY <1>1 DEF Own, IInv, Permits
  <2>3. /\ Cardinality(InFlight) \in Nat /\ Cardinality(Queued) \in Nat
        /\ Cardinality(Flushing) \in Nat /\ permits \in Nat /\ SemCap \in Nat
    BY FiniteJobs DEF IInv, TypeOK
  <2>4. Cardinality(InFlight) + Own <= permits
        /\ (~cancelled => permits = Cardinality(Queued) + Cardinality(Flushing) + Own)
    BY DEF IInv, Permits
  <2>5. /\ permits + 1 <= SemCap /\ Cardinality(InFlight) + 1 <= permits + 1
        /\ (~cancelled => permits + 1 = Cardinality(Queued) + Cardinality(Flushing) + 1)
    BY <1>1, <2>2, <2>3, <2>4
  <2> QED BY <1>1, <2>1, <2>2, <2>5, Const DEF Permits
<1>9. Accounts'
  <2>1. (~cancelled /\ ~workerErr => \A i \in Lines : i < Bound => Somewhere(i) \/ Settled(i))'
    BY <1>1, <1>5, <1>6, AccountsFrame DEF IInv, Somewhere
  <2> QED BY <1>1, <2>1 DEF IInv, Accounts
<1>10. Reasons' /\ Outcome'
  BY <1>1, ReaderReasons, ReaderOutcome DEF IInv
<1> QED BY <1>2, <1>3, <1>4, <1>6, <1>7, <1>8, <1>9, <1>10 DEF IInv

\* The reader's own job is with neither the workers nor the flusher, nor in the stream queue.
LEMMA OpeningIsOwn ==
  ASSUME IInv, Sending
  PROVE  /\ opening \in Lines /\ opening < Bound /\ opening \in Elems(InHand)
         /\ opening \notin Queued /\ opening \notin Flushing
         /\ reader # "toStream" => opening \notin Started
         /\ InHand = lines[opening] /\ JobLines(opening, lines[opening])
<1>1. opening # 0 /\ opening \in Lines /\ opening \in Nat /\ InHand = lines[opening]
      /\ JobLines(opening, lines[opening])
  <2>1. opening # 0
    BY DEF IInv, Control
  <2> QED BY <2>1 DEF IInv, TypeOK, InHand, Hunks, Lines
<1>2. opening \in Elems(InHand) /\ (\A j \in Queued : j \in AllElems(Texts))
      /\ (\A j \in Flushing : j \in Flushed)
  BY <1>1, HeadsInPlaces DEF IInv
<1>3. /\ Before(AllElems(Texts), Elems(InHand)) /\ Before(Flushed, Elems(InHand))
      /\ Before(Elems(InHand), {Bound})
  BY DEF IInv, Flow, InOrder, Before, AllOf
<1>4. opening \notin Queued /\ opening \notin Flushing /\ opening < Bound
  BY <1>1, <1>2, <1>3 DEF Before
<1>5. reader # "toStream" => opening \notin Started
  <2> SUFFICES ASSUME reader # "toStream", opening \in Started PROVE FALSE
    OBVIOUS
  <2>1. Before({opening}, Elems(InHand))
    BY DEF IInv, Jobs, JobSent, Sending
  <2> QED BY <1>1, <1>2, <2>1 DEF Before
<1> QED BY <1>1, <1>2, <1>4, <1>5

LEMMA SendToWorkersKeeps ==
  ASSUME IInv, SendToWorkers
  PROVE  IInv'
<1>1. /\ setup' = setup /\ reader = "toWork" /\ reader' = "toStream"
      /\ workQueue' = Append(workQueue, opening)
      /\ UNCHANGED <<pos, rawBuf, current, todo, then, opening, permit, streamQueue, closed,
                     permits, jobVars, cancelled, readerErr, workerVars, flusherVars,
                     flusherErr, workerErr, mainVars, pagerVars>>
  BY DEF SendToWorkers, ReaderMove, ReaderFrame
<1>2. /\ opening \in Lines /\ opening < Bound /\ opening \notin Started /\ Sending
  BY <1>1, OpeningIsOwn DEF Sending
<1>3. /\ workQueue \in Seq(Lines) /\ Len(workQueue) \in Nat /\ workQueue' \in Seq(Lines)
      /\ Len(workQueue') = Len(workQueue) + 1
      /\ (\A k \in 1 .. Len(workQueue) : workQueue'[k] = workQueue[k])
      /\ workQueue'[Len(workQueue) + 1] = opening
  <2>1. workQueue \in Seq(Lines)
    BY DEF IInv, TypeOK
  <2> QED BY <1>1, <1>2, <2>1
<1>4. Elems(workQueue') = Elems(workQueue) \cup {opening}
  BY <1>1, <1>2, <1>3, ElemsAppend
<1>5. TypeOK'
  BY <1>1, <1>3, Const DEF IInv, TypeOK
<1>6. Control'
  BY <1>1, Const DEF IInv, Control, Ended, Sending
<1>7. Hunks'
  BY <1>1, Const DEF IInv, Hunks
<1>8. InHand' = InHand /\ Bound' = Bound /\ Bound \in Nat /\ InHand \in Seq(Nat)
  BY <1>1, Places, HandFrame DEF IInv
<1>9. /\ Flow'
      /\ AllOf(emitted, InFlush, Texts, rawBuf, InHand)'
           = AllOf(emitted, InFlush, Texts, rawBuf, InHand)
  BY <1>1, <1>8, HandFlow DEF IInv
<1>10. Jobs'
  <2>1. Started' \subseteq Started \cup {opening}
    BY <1>1, <1>4, Const DEF Started
  <2>2. ASSUME NEW j \in Started' PROVE j < Bound /\ (JobSent(j)' \/ Before({j}, Elems(InHand)))
    <3>1. CASE j = opening
      BY <1>1, <1>2, <3>1 DEF JobSent
    <3>2. CASE j \in Started
      BY <1>1, <3>2 DEF IInv, Jobs, JobSent
    <3> QED BY <2>1, <3>1, <3>2
  <2>3. (\A j \in Started : j < Bound /\ (JobSent(j) \/ Before({j}, Elems(InHand))))'
    BY <1>8, <2>2
  <2>4. (\A i, k \in 1 .. Len(workQueue) : i # k => workQueue[i] # workQueue[k])'
    <3>1. \A k \in 1 .. Len(workQueue') : k \in 1 .. Len(workQueue) \/ k = Len(workQueue) + 1
      BY <1>3, UpTo
    <3>2. \A k \in 1 .. Len(workQueue) : workQueue[k] # opening
      BY <1>2 DEF Started, Elems
    <3>3. \A i, k \in 1 .. Len(workQueue) : i # k => workQueue[i] # workQueue[k]
      BY DEF IInv, Jobs
    <3> QED BY <1>3, <3>1, <3>2, <3>3
  <2>5. (\A j \in Elems(workQueue) : ~done[j] /\ \A w \in Workers : holding[w] # j)'
    BY <1>1, <1>2, <1>4 DEF IInv, Jobs, Started
  <2> QED BY <1>1, <2>3, <2>4, <2>5, Const DEF IInv, Jobs
<1>11. Permits'
  <2>1. Queued' = Queued /\ Flushing' = Flushing
    BY <1>1, Const DEF Queued, Flushing, JobItem
  <2>2. InFlight' \subseteq InFlight
    BY <1>1, <1>4, <2>1 DEF InFlight
  <2> QED BY <1>1, <2>1, <2>2, PermitsFrame DEF IInv
<1>12. Accounts'
  <2>1. (~cancelled /\ ~workerErr => \A i \in Lines : i < Bound => Somewhere(i) \/ Settled(i))'
    BY <1>1, <1>8, <1>9, AccountsFrame DEF IInv, Somewhere
  <2> QED BY <1>1, <2>1 DEF IInv, Accounts
<1>13. Reasons' /\ Outcome'
  BY <1>1, ReaderReasons, ReaderOutcome DEF IInv
<1> QED BY <1>5, <1>6, <1>7, <1>9, <1>10, <1>11, <1>12, <1>13 DEF IInv

\* The reader lets go of its job: the permit now counts it with the queue.
LEMMA SendToStreamKeeps ==
  ASSUME IInv, SendToStream
  PROVE  IInv'
<1>1. /\ setup' = setup /\ reader = "toStream" /\ reader' = "dump"
      /\ streamQueue' = Append(streamQueue, JobItem(opening))
      /\ opening' = 0 /\ permit' = FALSE /\ todo' = <<>>
      /\ UNCHANGED <<pos, rawBuf, current, then, workQueue, closed, permits, jobVars,
                     cancelled, readerErr, workerVars, flusherVars, flusherErr, workerErr,
                     mainVars, pagerVars>>
  BY DEF SendToStream, ReaderMove, ReaderFrame
<1>2. /\ opening \in Lines /\ opening \notin Queued /\ opening \notin Flushing
      /\ InHand = lines[opening] /\ JobLines(opening, lines[opening])
      /\ rawBuf = <<>> /\ current = NoHunk /\ current.lines = <<>>
  <2>1. Sending
    BY <1>1 DEF Sending
  <2> QED BY <2>1, OpeningIsOwn DEF IInv, Control, NoHunk
<1>3. /\ JobItem(opening) \in Items /\ JobItem(opening).kind = "job"
      /\ JobItem(opening).job = opening /\ Text(JobItem(opening)) = lines[opening]
      /\ \A i \in Lines : JobItem(opening) = JobItem(i) <=> i = opening
  <2>1. <<>> \in Seq(Lines)
    BY EmptySeq
  <2> QED BY <1>2, <2>1 DEF Items, JobItem, Text
<1>4. /\ Texts' = Append(Texts, lines[opening]) /\ InFlush' = InFlush /\ Flushed' = Flushed
      /\ streamQueue' \in Seq(Items) /\ Flushing' = Flushing
      /\ Queued' = Queued \cup {opening}
      /\ \A k \in 1 .. Len(streamQueue') :
           (k \in 1 .. Len(streamQueue) /\ streamQueue'[k] = streamQueue[k])
           \/ streamQueue'[k] = JobItem(opening)
  <2>1. /\ Texts' = Append(Texts, Text(JobItem(opening))) /\ InFlush' = InFlush
        /\ Flushed' = Flushed /\ streamQueue' \in Seq(Items) /\ Flushing' = Flushing
        /\ Queued' = Queued \cup {i \in Lines : JobItem(opening) = JobItem(i)}
        /\ \A k \in 1 .. Len(streamQueue') :
             (k \in 1 .. Len(streamQueue) /\ streamQueue'[k] = streamQueue[k])
             \/ streamQueue'[k] = JobItem(opening)
    BY <1>1, <1>2, <1>3, QueueAppend DEF IInv
  <2>2. {i \in Lines : JobItem(opening) = JobItem(i)} = {opening}
    BY <1>2, <1>3
  <2> QED BY <1>3, <2>1, <2>2
<1>5. TypeOK'
  <2>1. /\ input' = input /\ Lines' = Lines /\ Items' = Items /\ SemCap' = SemCap
        /\ FileHunks' = FileHunks /\ Positions' = Positions
    BY <1>1, Const
  <2>2. TypeOK /\ (streamQueue \in Seq(Items) /\ todo \in Seq(Lines))'
    BY <1>1, <1>4, <2>1, EmptySeq DEF IInv
  <2>3. /\ reader' = "dump" /\ opening' = 0 /\ permit' = FALSE /\ setup' = setup
        /\ UNCHANGED <<pos, rawBuf, current, then, workQueue, closed, permits, jobVars,
                       cancelled, readerErr, workerVars, flusherVars, flusherErr, workerErr,
                       mainVars, pagerVars>>
    BY <1>1
  <2>4. ReaderTypes'
    BY <2>1, <2>2, <2>3 DEF TypeOK
  <2>5. JobTypes'
    BY <2>1, <2>2, <2>3 DEF TypeOK
  <2>6. OutTypes'
    BY <2>1, <2>2, <2>3 DEF TypeOK
  <2> QED BY <2>4, <2>5, <2>6 DEF TypeOK
<1>6. Control'
  BY <1>1, <1>2, Const DEF IInv, Control, Ended, Sending
<1>7. Hunks'
  <2>1. ASSUME NEW k \in 1 .. Len(streamQueue'), streamQueue'[k].kind = "job"
        PROVE  /\ streamQueue'[k] = JobItem(streamQueue'[k].job) /\ streamQueue'[k].job \in Lines
               /\ JobLines(streamQueue'[k].job, lines[streamQueue'[k].job])
    BY <1>2, <1>3, <1>4, <2>1 DEF IInv, Hunks
  <2>2. (\A k \in 1 .. Len(streamQueue) : streamQueue[k].kind = "job" =>
          /\ streamQueue[k] = JobItem(streamQueue[k].job) /\ streamQueue[k].job \in Lines
          /\ JobLines(streamQueue[k].job, lines[streamQueue[k].job]))'
    BY <1>1, <2>1, Const DEF JobItem, JobLines
  <2> QED BY <1>1, <2>2, Const DEF IInv, Hunks
<1>8. InHand' = <<>> /\ Bound' = Bound /\ Bound \in Nat /\ InHand \in Seq(Nat)
  BY <1>1, <1>2, Places DEF InHand, Bound, IInv
<1>9. /\ Flow'
      /\ AllOf(emitted, InFlush, Texts, rawBuf, InHand)'
           = AllOf(emitted, InFlush, Texts, rawBuf, InHand)
  <2>1. /\ emitted \in Seq(Nat) /\ InFlush \in Seq(Nat) /\ Flushed \in SUBSET Nat
        /\ Texts \in Seq(Seq(Nat)) /\ rawBuf \in Seq(Nat) /\ InHand \in Seq(Nat)
        /\ Bound \in Nat /\ <<>> \in Seq(Nat)
    BY Places, EmptySeq DEF IInv
  <2>2. InOrder(emitted, InFlush, Flushed, Texts, rawBuf, InHand, Bound)
    BY DEF IInv, Flow
  <2>3. InOrder(emitted, InFlush, Flushed, Append(Texts, InHand), <<>>, <<>>, Bound)
    BY <1>2, <2>1, <2>2, MoveToQueue
  <2>4. AllElems(Append(Texts, InHand)) = AllElems(Texts) \cup Elems(InHand)
    BY <2>1, AllElemsAppend
  <2>5. AllOf(emitted, InFlush, Append(Texts, InHand), <<>>, <<>>)
          = AllOf(emitted, InFlush, Texts, rawBuf, InHand)
    BY <1>2, <2>4, EmptyElems DEF AllOf
  <2>6. emitted' = emitted /\ rawBuf' = <<>> /\ Texts' = Append(Texts, InHand)
    BY <1>1, <1>2, <1>4
  <2> QED BY <1>4, <1>8, <2>3, <2>5, <2>6 DEF Flow
<1>10. Jobs'
  <2>1. InHand' \in Seq(Nat)
    BY <1>8, EmptySeq
  <2>2. \A x \in Elems(InHand') : x \in Elems(InHand)
    BY <1>8, EmptyElems
  <2> QED BY <1>1, <1>7, <1>8, <2>1, <2>2, JobsFrame DEF IInv
<1>11. Permits'
  <2>1. /\ IsFiniteSet(Queued) /\ IsFiniteSet(InFlight)
        /\ Cardinality(InFlight) \in Nat /\ Cardinality(Queued) \in Nat
        /\ Cardinality(Flushing) \in Nat /\ permits \in Nat
    BY FiniteJobs DEF IInv, TypeOK
  <2>2. Cardinality(Queued') = Cardinality(Queued) + 1
    BY <1>2, <1>4, <2>1, FS_AddElement
  <2>3. InFlight' \subseteq InFlight \cup {opening}
    BY <1>1, <1>4 DEF InFlight
  <2>4. /\ IsFiniteSet(InFlight \cup {opening})
        /\ Cardinality(InFlight \cup {opening}) <= Cardinality(InFlight) + 1
    <3>1. opening \notin InFlight
      BY DEF InFlight
    <3>2. /\ IsFiniteSet(InFlight \cup {opening})
          /\ Cardinality(InFlight \cup {opening}) = Cardinality(InFlight) + 1
      BY <2>1, <3>1, FS_AddElement
    <3> QED BY <2>1, <3>2
  <2>5. Cardinality(InFlight') <= Cardinality(InFlight \cup {opening})
        /\ Cardinality(InFlight') \in Nat /\ Cardinality(InFlight \cup {opening}) \in Nat
    BY <2>3, <2>4, FS_Subset, FS_CardinalityType
  <2>6. permit /\ Own = 1 /\ Own' = 0
    BY <1>1 DEF IInv, Permits, Own
  <2>7. Cardinality(InFlight) + Own <= permits
        /\ (~cancelled => permits = Cardinality(Queued) + Cardinality(Flushing) + Own)
    BY DEF IInv, Permits
  <2>8. Cardinality(InFlight') + 0 <= permits
        /\ (~cancelled => permits = Cardinality(Queued') + Cardinality(Flushing) + 0)
    BY <2>1, <2>2, <2>4, <2>5, <2>6, <2>7
  <2> QED BY <1>1, <1>4, <2>6, <2>8, Const DEF IInv, Permits
<1>12. Accounts'
  <2>1. (~cancelled /\ ~workerErr => \A i \in Lines : i < Bound => Somewhere(i) \/ Settled(i))'
    BY <1>1, <1>8, <1>9, AccountsFrame DEF IInv, Somewhere
  <2>2. ~closed
    BY <1>1 DEF IInv, Control
  <2> QED BY <1>1, <2>1, <2>2 DEF IInv, Accounts
<1>13. Reasons' /\ Outcome'
  BY <1>1, ReaderReasons, ReaderOutcome DEF IInv
<1> QED BY <1>5, <1>6, <1>7, <1>9, <1>10, <1>11, <1>12, <1>13 DEF IInv

LEMMA ReaderCancelledKeeps ==
  ASSUME IInv, ReaderCancelled
  PROVE  IInv'
<1>1. /\ setup' = setup /\ cancelled /\ reader # "exited" /\ reader' = "exited"
      /\ closed' = TRUE /\ permit' = FALSE /\ readerErr = "none" /\ readerErr' = "ignored"
      /\ permits' = (IF permit /\ permits > 0 THEN permits - 1 ELSE permits)
      /\ UNCHANGED <<pos, rawBuf, current, todo, then, opening, workQueue, streamQueue,
                     jobVars, cancelled, workerVars, flusherVars, flusherErr, workerErr,
                     mainVars, pagerVars>>
  BY DEF IInv, Control, ReaderCancelled, ReaderFrame
<1>2. TypeOK'
  <2>1. permits' \in Nat
    BY <1>1 DEF IInv, TypeOK
  <2>2. /\ TypeOK /\ reader' = "exited" /\ closed' = TRUE /\ permit' = FALSE
        /\ readerErr' = "ignored"
        /\ UNCHANGED <<pos, rawBuf, current, todo, then, opening, workQueue, streamQueue,
                       jobVars, cancelled, workerVars, flusherVars, flusherErr, workerErr,
                       mainVars, pagerVars>>
    BY <1>1 DEF IInv
  <2>3. /\ input' = input /\ Lines' = Lines /\ Items' = Items /\ SemCap' = SemCap
        /\ FileHunks' = FileHunks /\ Positions' = Positions
    BY <1>1, Const
  <2>4. ReaderTypes'
    BY <2>1, <2>2, <2>3 DEF TypeOK
  <2>5. JobTypes'
    BY <2>1, <2>2, <2>3 DEF TypeOK
  <2>6. OutTypes'
    BY <2>1, <2>2, <2>3 DEF TypeOK
  <2> QED BY <2>4, <2>5, <2>6 DEF TypeOK
<1>3. Control'
  BY <1>1, Const DEF IInv, Control, Ended, Sending
<1>4. Hunks'
  BY <1>1, Const DEF IInv, Hunks
<1>5. InHand' = InHand /\ Bound' = Bound /\ Bound \in Nat /\ InHand \in Seq(Nat)
  BY <1>1, Places, HandFrame DEF IInv
<1>6. /\ Flow'
      /\ AllOf(emitted, InFlush, Texts, rawBuf, InHand)'
           = AllOf(emitted, InFlush, Texts, rawBuf, InHand)
  BY <1>1, <1>5, HandFlow DEF IInv
<1>7. Jobs'
  <2>1. \A j \in Lines : JobSent(j) => JobSent(j)'
    BY <1>1 DEF JobSent
  <2> QED BY <1>1, <1>4, <1>5, <2>1, JobsFrame DEF IInv
<1>8. Permits'
  <2>1. Queued' = Queued /\ Flushing' = Flushing /\ InFlight' = InFlight
    BY <1>1, Const DEF Queued, Flushing, JobItem, InFlight
  <2>2. Own = (IF permit THEN 1 ELSE 0) /\ Own' = 0
    BY <1>1 DEF Own
  <2>3. Cardinality(InFlight) \in Nat /\ permits \in Nat /\ SemCap \in Nat /\ permit \in BOOLEAN
    BY FiniteJobs DEF IInv, TypeOK
  <2>4. Cardinality(InFlight) + Own <= permits /\ permits <= SemCap
    BY DEF IInv, Permits
  <2>5. permits' <= SemCap /\ Cardinality(InFlight) + 0 <= permits'
    BY <1>1, <2>2, <2>3, <2>4
  <2> QED BY <1>1, <2>1, <2>2, <2>5, Const DEF Permits
<1>9. Accounts' /\ Reasons'
  BY <1>1 DEF IInv, Accounts, Reasons
<1>10. Outcome'
  BY <1>1, ReaderOutcome DEF IInv
<1> QED BY <1>2, <1>3, <1>4, <1>6, <1>7, <1>8, <1>9, <1>10 DEF IInv

-----------------------------------------------------------------------------
(***************************************************************************)
(* The workers' steps: what is done stays as it was found.                 *)
(***************************************************************************)
LEMMA WorkerKeeps ==
  ASSUME IInv, TypeOK', Jobs', Elems(workQueue') \subseteq Elems(workQueue),
         UNCHANGED <<setup, readerVars, flusherVars, cancelled, errVars, mainVars, pagerVars,
                     lines, streamQueue, closed, permits>>,
         \A h \in Lines : done[h] => done'[h] /\ verdict'[h] = verdict[h]
  PROVE  IInv'
<1>1. Control' /\ Reasons'
  BY Const DEF IInv, Control, Ended, Sending, Reasons
<1>2. Hunks'
  BY Const DEF IInv, Hunks
<1>3. InHand' = InHand /\ Bound' = Bound
  BY HandFrame
<1>4. /\ Flow'
      /\ AllOf(emitted, InFlush, Texts, rawBuf, InHand)'
           = AllOf(emitted, InFlush, Texts, rawBuf, InHand)
  BY <1>3, HandFlow DEF IInv
<1>5. Permits'
  <2>1. Queued' = Queued /\ Flushing' = Flushing
    BY Const DEF Queued, Flushing, JobItem
  <2>2. InFlight' \subseteq InFlight
    BY <2>1 DEF InFlight
  <2> QED BY <2>1, <2>2, PermitsFrame DEF IInv
<1>6. Accounts'
  <2>1. \A h \in Lines : done[h] => done'[h] /\ verdict'[h] = verdict[h] /\ lines'[h] = lines[h]
    OBVIOUS
  <2>2. (~cancelled /\ ~workerErr => \A i \in Lines : i < Bound => Somewhere(i) \/ Settled(i))'
    BY <1>3, <1>4, <2>1, AccountsFrame DEF IInv, Somewhere
  <2>3. Ended' = Ended
    BY Const DEF Ended
  <2> QED BY <1>3, <2>2, <2>3 DEF IInv, Accounts
<1>7. Outcome'
  <2> SUFFICES ASSUME result = "nil", ~readerGone
               PROVE  /\ reader = "exited" /\ flusher = "exited"
                      /\ \A i \in Lines : i \in Elems(emitted) \/ Settled(i)'
    BY Const DEF Outcome
  <2>1. /\ reader = "exited" /\ flusher = "exited"
        /\ \A i \in Lines : i \in Elems(emitted) \/ Settled(i)
    BY DEF IInv, Outcome
  <2>2. \A h \in Lines : done[h] => done'[h] /\ verdict'[h] = verdict[h] /\ lines'[h] = lines[h]
    OBVIOUS
  <2>3. ASSUME NEW i, Settled(i) PROVE Settled(i)'
    BY <2>2, <2>3, SettledStays DEF IInv
  <2> QED BY <2>1, <2>3
<1> QED BY <1>1, <1>2, <1>4, <1>5, <1>6, <1>7 DEF IInv

LEMMA WorkerTakeKeeps ==
  ASSUME IInv, NEW w \in Workers, WorkerTake(w)
  PROVE  IInv'
<1> DEFINE j == Head(workQueue)
<1>1. /\ setup' = setup /\ worker[w] = "idle" /\ workQueue # <<>>
      /\ worker' = [worker EXCEPT ![w] = "run"] /\ holding' = [holding EXCEPT ![w] = j]
      /\ workQueue' = Tail(workQueue)
      /\ UNCHANGED <<streamQueue, closed, permits, jobVars, readerVars, flusherVars, cancelled,
                     errVars, mainVars, pagerVars>>
  BY DEF WorkerTake, WorkerFrame
<1>2. TypeOK
  BY DEF IInv
<1>3. /\ workQueue' \in Seq(Lines) /\ j \in Lines /\ j = workQueue[1] /\ 1 \in 1 .. Len(workQueue)
      /\ Elems(workQueue) = {j} \cup Elems(workQueue')
      /\ \A k \in 1 .. Len(workQueue') :
           workQueue'[k] = workQueue[k + 1] /\ k + 1 \in 1 .. Len(workQueue) /\ k + 1 # 1
  <2>1. workQueue \in Seq(Lines)
    BY <1>2 DEF TypeOK
  <2>2. /\ Tail(workQueue) \in Seq(Lines) /\ j = workQueue[1] /\ j \in Lines
        /\ Elems(workQueue) = {j} \cup Elems(Tail(workQueue))
        /\ Len(workQueue) \in Nat \ {0} /\ Len(Tail(workQueue)) = Len(workQueue) - 1
        /\ \A k \in 1 .. Len(Tail(workQueue)) :
             Tail(workQueue)[k] = workQueue[k + 1] /\ k + 1 \in 1 .. Len(workQueue)
    BY <1>1, <2>1, ElemsTail
  <2>3. 1 \in 1 .. Len(workQueue) /\ \A k \in 1 .. Len(Tail(workQueue)) : k + 1 # 1
    BY <2>2
  <2> QED BY <1>1, <2>2, <2>3
<1> HIDE DEF j
<1>4. /\ worker' \in [Workers -> {"idle", "run", "close", "exited"}]
      /\ holding' \in [Workers -> Lines \cup {0}]
      /\ worker'[w] = "run" /\ holding'[w] = j /\ j # 0
      /\ \A v \in Workers : v # w => worker'[v] = worker[v] /\ holding'[v] = holding[v]
  BY <1>1, <1>2, <1>3 DEF TypeOK, Lines
<1>5. TypeOK'
  <2>1. /\ input' = input /\ Lines' = Lines /\ Items' = Items /\ SemCap' = SemCap
        /\ FileHunks' = FileHunks /\ Positions' = Positions
    BY <1>1, Const
  <2> QED BY <1>1, <1>2, <1>3, <1>4, <2>1 DEF TypeOK
<1>6. \A i \in Elems(workQueue') : i # j
  <2>1. \A k \in 1 .. Len(workQueue') : workQueue'[k] # j
    BY <1>3 DEF IInv, Jobs
  <2> QED BY <2>1 DEF Elems
<1>7. ~done[j] /\ \A v \in Workers : holding[v] # j
  BY <1>3 DEF IInv, Jobs
<1>8. InHand' = InHand /\ Bound' = Bound
  BY <1>1, HandFrame
<1>9. Jobs'
  <2>1. Started' \subseteq Started
    BY <1>1, <1>3, <1>4, Const DEF Started
  <2>2. (\A i \in Started : i < Bound /\ (JobSent(i) \/ Before({i}, Elems(InHand))))'
    BY <1>1, <1>8, <2>1 DEF IInv, Jobs, JobSent
  <2>3. (\A i, k \in 1 .. Len(workQueue) : i # k => workQueue[i] # workQueue[k])'
    <3> SUFFICES ASSUME NEW i \in 1 .. Len(workQueue'), NEW k \in 1 .. Len(workQueue'), i # k
                 PROVE  workQueue'[i] # workQueue'[k]
      OBVIOUS
    <3>1. i + 1 # k + 1
      OBVIOUS
    <3>2. /\ workQueue'[i] = workQueue[i + 1] /\ i + 1 \in 1 .. Len(workQueue)
          /\ workQueue'[k] = workQueue[k + 1] /\ k + 1 \in 1 .. Len(workQueue)
      BY <1>3
    <3> QED BY <3>1, <3>2 DEF IInv, Jobs
  <2>4. (\A i \in Elems(workQueue) : ~done[i] /\ \A v \in Workers : holding[v] # i)'
    BY <1>1, <1>3, <1>4, <1>6 DEF IInv, Jobs
  <2>5. (/\ \A v \in Workers : holding[v] # 0 <=> worker[v] \in {"run", "close"}
         /\ \A v \in Workers : holding[v] # 0 => ~done[holding[v]]
         /\ \A v \in Workers : worker[v] = "close" => verdict[holding[v]] # "none")'
    BY <1>1, <1>4, <1>7 DEF IInv, Jobs
  <2>6. (\A u, v \in Workers : u # v /\ holding[u] # 0 => holding[u] # holding[v])'
    BY <1>4, <1>7 DEF IInv, Jobs
  <2> QED BY <1>1, <2>2, <2>3, <2>4, <2>5, <2>6, Const DEF IInv, Jobs
<1> QED BY <1>1, <1>3, <1>5, <1>9, WorkerKeeps

LEMMA WorkerRunKeeps ==
  ASSUME IInv, NEW w \in Workers, WorkerRun(w)
  PROVE  IInv'
<1> DEFINE j == holding[w]
<1>1. /\ setup' = setup /\ worker[w] = "run" /\ worker' = [worker EXCEPT ![w] = "close"]
      /\ UNCHANGED <<holding, queueVars, lines, done, blobs, readerVars, flusherVars, cancelled,
                     errVars, mainVars, pagerVars>>
  BY DEF WorkerRun, WorkerFrame
<1>2. PICK v \in {"cancelled", "same", "ok", "dump", "renderErr"} :
        verdict' = [verdict EXCEPT ![j] = v] /\ (v = "cancelled" => cancelled)
  BY DEF WorkerRun
<1>3. TypeOK
  BY DEF IInv
<1>4. j \in Lines /\ j # 0 /\ ~done[j]
  <2>1. j # 0
    BY <1>1 DEF IInv, Jobs
  <2>2. ~done[j]
    BY <2>1 DEF IInv, Jobs
  <2>3. j \in Lines
    BY <1>3, <2>1 DEF TypeOK
  <2> QED BY <2>1, <2>2, <2>3
<1> HIDE DEF j
<1>5. /\ verdict' \in [Lines -> Verdicts] /\ verdict'[j] = v
      /\ \A i \in Lines : i # j => verdict'[i] = verdict[i]
  BY <1>2, <1>3, <1>4 DEF TypeOK, Verdicts
<1>6. /\ worker' \in [Workers -> {"idle", "run", "close", "exited"}] /\ worker'[w] = "close"
      /\ \A u \in Workers : u # w => worker'[u] = worker[u]
  BY <1>1, <1>3 DEF TypeOK
<1>7. TypeOK'
  <2>1. /\ input' = input /\ Lines' = Lines /\ Items' = Items /\ SemCap' = SemCap
        /\ FileHunks' = FileHunks /\ Positions' = Positions
    BY <1>1, Const
  <2> QED BY <1>1, <1>3, <1>5, <1>6, <2>1 DEF TypeOK
<1>8. \A h \in Lines : done[h] => done'[h] /\ verdict'[h] = verdict[h]
  BY <1>1, <1>4, <1>5
<1>9. InHand' = InHand /\ Bound' = Bound
  BY <1>1, HandFrame
<1>10. Jobs'
  <2>1. (\A i \in Started : i < Bound /\ (JobSent(i) \/ Before({i}, Elems(InHand))))'
    <3>1. Started' = Started
      BY <1>1, Const DEF Started
    <3> QED BY <1>1, <1>9, <3>1 DEF IInv, Jobs, JobSent
  <2>2. (\A u \in Workers : holding[u] # 0 <=> worker[u] \in {"run", "close"})'
    BY <1>1, <1>6 DEF IInv, Jobs
  <2>3. (\A u \in Workers : worker[u] = "close" => verdict[holding[u]] # "none")'
    <3> SUFFICES ASSUME NEW u \in Workers, worker'[u] = "close" PROVE verdict'[holding[u]] # "none"
      BY <1>1
    <3>1. CASE holding[u] = j
      BY <1>5, <3>1
    <3>2. CASE holding[u] # j
      <4>1. u # w /\ worker[u] = "close"
        BY <1>6, <3>2 DEF j
      <4>2. holding[u] # 0 /\ verdict[holding[u]] # "none"
        BY <4>1 DEF IInv, Jobs
      <4>3. holding[u] \in Lines
        BY <1>3, <4>2 DEF TypeOK
      <4> QED BY <1>5, <3>2, <4>2, <4>3
    <3> QED BY <3>1, <3>2
  <2>4. (/\ \A i \in Lines : done[i] => verdict[i] # "none"
         /\ \A i \in Lines : verdict[i] = "cancelled" => cancelled)'
    <3>1. \A i \in Lines : (done[i] => verdict'[i] # "none")
                           /\ (verdict'[i] = "cancelled" => cancelled)
      BY <1>2, <1>4, <1>5 DEF IInv, Jobs
    <3> QED BY <1>1, <3>1, Const
  <2>5. (flusher \in {"write", "blocked"} /\ item.kind = "job" => verdict[item.job] \in {"ok", "dump"})'
    <3> SUFFICES ASSUME flusher \in {"write", "blocked"}, item.kind = "job"
                 PROVE  verdict'[item.job] \in {"ok", "dump"}
      BY <1>1
    <3>1. done[item.job] /\ verdict[item.job] \in {"ok", "dump"} /\ item.job \in Lines
      BY DEF IInv, Jobs, Hunks
    <3> QED BY <1>8, <3>1
  <2> QED BY <1>1, <2>1, <2>2, <2>3, <2>4, <2>5 DEF IInv, Jobs
<1> QED BY <1>1, <1>7, <1>8, <1>10, WorkerKeeps

LEMMA WorkerCloseKeeps ==
  ASSUME IInv, NEW w \in Workers, WorkerClose(w)
  PROVE  IInv'
<1> DEFINE j == holding[w]
<1>1. /\ setup' = setup /\ worker[w] = "close" /\ worker' = [worker EXCEPT ![w] = "idle"]
      /\ holding' = [holding EXCEPT ![w] = 0] /\ done' = [done EXCEPT ![j] = TRUE]
      /\ UNCHANGED <<queueVars, lines, verdict, readerVars, flusherVars, cancelled,
                     errVars, mainVars, pagerVars>>
  BY DEF WorkerClose, WorkerFrame
<1>2. TypeOK
  BY DEF IInv
<1>3. j \in Lines /\ j # 0 /\ verdict[j] # "none"
  <2>1. j # 0 /\ verdict[j] # "none"
    BY <1>1 DEF IInv, Jobs
  <2>2. j \in Lines
    BY <1>2, <2>1 DEF TypeOK
  <2> QED BY <2>1, <2>2
<1>4. (\A i \in Elems(workQueue) : i # j) /\ (\A v \in Workers : v # w => holding[v] # j)
  <2>1. \A v \in Workers : v # w => holding[v] # j
    BY <1>3 DEF IInv, Jobs
  <2>2. \A i \in Elems(workQueue) : i # j
    BY DEF IInv, Jobs
  <2> QED BY <2>1, <2>2
<1> HIDE DEF j
<1>5. /\ done' \in [Lines -> BOOLEAN] /\ done'[j]
      /\ (\A i \in Lines : i # j => done'[i] = done[i])
      /\ worker' \in [Workers -> {"idle", "run", "close", "exited"}] /\ worker'[w] = "idle"
      /\ holding' \in [Workers -> Lines \cup {0}] /\ holding'[w] = 0
      /\ (\A v \in Workers : v # w => worker'[v] = worker[v] /\ holding'[v] = holding[v])
  BY <1>1, <1>2, <1>3 DEF TypeOK
<1>6. TypeOK'
  <2>1. /\ input' = input /\ Lines' = Lines /\ Items' = Items /\ SemCap' = SemCap
        /\ FileHunks' = FileHunks /\ Positions' = Positions
    BY <1>1, Const
  <2> QED BY <1>1, <1>2, <1>5, <2>1 DEF TypeOK
<1>7. \A h \in Lines : done[h] => done'[h] /\ verdict'[h] = verdict[h]
  BY <1>1, <1>5
<1>8. InHand' = InHand /\ Bound' = Bound
  BY <1>1, HandFrame
<1>9. Jobs'
  <2>1. (\A i \in Started : i < Bound /\ (JobSent(i) \/ Before({i}, Elems(InHand))))'
    <3>1. j \in Started
      BY <1>3 DEF Started, j
    <3>2. ASSUME NEW i \in Started' PROVE i \in Started
      <4>1. i \in Lines /\ i # 0
        BY <1>1, Const DEF Started, Lines
      <4>2. i \in Elems(workQueue) \/ done'[i] \/ \E v \in Workers : holding'[v] = i
        BY <1>1 DEF Started
      <4>3. CASE done'[i]
        BY <1>5, <3>1, <4>1, <4>3 DEF Started
      <4>4. CASE \E v \in Workers : holding'[v] = i
        BY <1>5, <4>1, <4>4 DEF Started
      <4> QED BY <4>1, <4>2, <4>3, <4>4 DEF Started
    <3> QED BY <1>1, <1>8, <3>2 DEF IInv, Jobs, JobSent
  <2>2. (\A i \in Elems(workQueue) : ~done[i] /\ \A v \in Workers : holding[v] # i)'
    <3>1. Elems(workQueue) \subseteq Lines /\ 0 \notin Lines
      BY <1>2, FiniteJobs DEF Lines
    <3> QED BY <1>1, <1>4, <1>5, <3>1 DEF IInv, Jobs
  <2>3. (\A v \in Workers : holding[v] # 0 <=> worker[v] \in {"run", "close"})'
    BY <1>5 DEF IInv, Jobs
  <2>4. (\A v \in Workers : holding[v] # 0 => ~done[holding[v]])'
    <3> SUFFICES ASSUME NEW v \in Workers, holding'[v] # 0 PROVE ~done'[holding'[v]]
      OBVIOUS
    <3>1. v # w /\ holding'[v] = holding[v] /\ holding[v] # j /\ holding[v] \in Lines
      BY <1>2, <1>4, <1>5 DEF TypeOK
    <3> QED BY <1>5, <3>1 DEF IInv, Jobs
  <2>5. (\A u, v \in Workers : u # v /\ holding[u] # 0 => holding[u] # holding[v])'
    BY <1>5 DEF IInv, Jobs
  <2>6. (\A v \in Workers : worker[v] = "close" => verdict[holding[v]] # "none")'
    BY <1>1, <1>5 DEF IInv, Jobs
  <2>7. (\A i \in Lines : done[i] => verdict[i] # "none")'
    BY <1>1, <1>3, <1>5, Const DEF IInv, Jobs
  <2>8. (flusher \in {"write", "blocked", "release"} /\ item.kind = "job" => done[item.job])'
    BY <1>1, <1>7 DEF IInv, Jobs, Hunks
  <2> QED BY <1>1, <2>1, <2>2, <2>3, <2>4, <2>5, <2>6, <2>7, <2>8, Const DEF IInv, Jobs
<1> QED BY <1>1, <1>6, <1>7, <1>9, WorkerKeeps

LEMMA WorkerExitKeeps ==
  ASSUME IInv, NEW w \in Workers, WorkerExit(w)
  PROVE  IInv'
<1>1. /\ setup' = setup /\ worker[w] = "idle" /\ worker' = [worker EXCEPT ![w] = "exited"]
      /\ UNCHANGED <<holding, queueVars, jobVars, readerVars, flusherVars, cancelled, errVars,
                     mainVars, pagerVars>>
  BY DEF WorkerExit, WorkerFrame
<1>2. /\ worker' \in [Workers -> {"idle", "run", "close", "exited"}] /\ worker'[w] = "exited"
      /\ \A v \in Workers : v # w => worker'[v] = worker[v]
  BY <1>1 DEF IInv, TypeOK
<1>3. TypeOK'
  <2>1. /\ input' = input /\ Lines' = Lines /\ Items' = Items /\ SemCap' = SemCap
        /\ FileHunks' = FileHunks /\ Positions' = Positions
    BY <1>1, Const
  <2> QED BY <1>1, <1>2, <2>1 DEF IInv, TypeOK
<1>4. InHand' = InHand /\ Bound' = Bound
  BY <1>1, HandFrame
<1>5. Jobs'
  <2>1. Started' = Started
    BY <1>1, Const DEF Started
  <2>2. (\A i \in Started : i < Bound /\ (JobSent(i) \/ Before({i}, Elems(InHand))))'
    BY <1>1, <1>4, <2>1 DEF IInv, Jobs, JobSent
  <2>3. (/\ \A v \in Workers : holding[v] # 0 <=> worker[v] \in {"run", "close"}
         /\ \A v \in Workers : worker[v] = "close" => verdict[holding[v]] # "none")'
    BY <1>1, <1>2 DEF IInv, Jobs
  <2> QED BY <1>1, <2>2, <2>3, Const DEF IInv, Jobs
<1> QED BY <1>1, <1>3, <1>5, WorkerKeeps

-----------------------------------------------------------------------------
(***************************************************************************)
(* The flusher's steps.                                                    *)
(***************************************************************************)
LEMMA FlusherKeeps ==
  ASSUME IInv, TypeOK', Hunks', Flow', Permits', Reasons', flusher # "exited",
         UNCHANGED <<setup, readerVars, workerVars, jobVars, readerErr, mainVars, pager,
                     pagerInput, monitor, workQueue, closed>>,
         emitted' = emitted \/ \E o \in Seq(Nat) : emitted' = emitted \o o,
         cancelled => cancelled', workerErr => workerErr', readerGone => readerGone',
         (flusher \in {"write", "blocked", "release"} /\ item.kind = "job" => done[item.job])',
         (flusher \in {"write", "blocked"} /\ item.kind = "job" => verdict[item.job] \in {"ok", "dump"})',
         ~cancelled' /\ ~workerErr' => \A i \in Lines : Somewhere(i) => Somewhere(i)' \/ Settled(i)',
         ~cancelled' /\ flusher' = "exited" => closed /\ streamQueue' = <<>>
  PROVE  IInv'
<1>1. Control'
  BY Const DEF IInv, Control, Ended, Sending
<1>2. InHand' = InHand /\ Bound' = Bound
  BY HandFrame
<1>3. Jobs'
  <2>1. Started' = Started
    BY Const DEF Started
  <2>2. (\A i \in Started : i < Bound /\ (JobSent(i) \/ Before({i}, Elems(InHand))))'
    BY <1>2, <2>1 DEF IInv, Jobs, JobSent
  <2>3. (\A j \in Lines : verdict[j] = "cancelled" => cancelled)'
    BY Const DEF IInv, Jobs
  <2> QED BY <2>2, <2>3, Const DEF IInv, Jobs
<1>4. Accounts'
  <2>1. \A h \in Lines : done[h] => done'[h] /\ verdict'[h] = verdict[h] /\ lines'[h] = lines[h]
    OBVIOUS
  <2>2. ~cancelled' /\ ~workerErr' => ~cancelled /\ ~workerErr
    OBVIOUS
  <2>3. \A i \in Lines : i < Bound' => i < Bound \/ Somewhere(i)'
    BY <1>2
  <2>4. (~cancelled /\ ~workerErr => \A i \in Lines : i < Bound => Somewhere(i) \/ Settled(i))'
    BY <2>1, <2>2, <2>3, AccountsFrame DEF IInv
  <2>5. Ended' = Ended
    BY Const DEF Ended
  <2> QED BY <1>2, <2>4, <2>5 DEF IInv, Accounts
<1>5. Outcome'
  BY DEF IInv, Outcome
<1> QED BY <1>1, <1>3, <1>4, <1>5 DEF IInv

\* The flusher is at the text it took from the queue: its place, and its job's.
LEMMA FlusherTakeKeeps ==
  ASSUME IInv, FlusherTake
  PROVE  IInv'
<1> DEFINE it == Head(streamQueue)
<1>1. /\ setup' = setup /\ flusher = "next" /\ streamQueue # <<>>
      /\ item' = it /\ streamQueue' = Tail(streamQueue)
      /\ flusher' = (IF it.kind = "raw" THEN "write" ELSE "await")
      /\ UNCHANGED <<workQueue, closed, permits, emitted, cancelled, flusherErr, workerErr,
                     readerGone, readerVars, workerVars, jobVars, readerErr, mainVars, pager,
                     pagerInput, monitor>>
  BY DEF FlusherTake, FlusherFrame
<1>2. TypeOK /\ streamQueue \in Seq(Items)
  BY DEF IInv, TypeOK
<1>3. /\ streamQueue' \in Seq(Items) /\ it = streamQueue[1] /\ it \in Items
      /\ Len(streamQueue) \in Nat \ {0} /\ Len(streamQueue') = Len(streamQueue) - 1
      /\ \A k \in 1 .. Len(streamQueue') :
           streamQueue'[k] = streamQueue[k + 1] /\ k + 1 \in 1 .. Len(streamQueue)
  BY <1>1, <1>2, ElemsTail
<1>4. it.kind \in {"raw", "job"} /\ 1 \in 1 .. Len(streamQueue)
  BY <1>3 DEF Items
<1>5. it.kind = "job" => it = JobItem(it.job) /\ it.job \in Lines /\ JobLines(it.job, lines[it.job])
  BY <1>3, <1>4 DEF IInv, Hunks
<1> HIDE DEF it
<1>6. TypeOK'
  <2>1. /\ input' = input /\ Lines' = Lines /\ Items' = Items /\ SemCap' = SemCap
        /\ FileHunks' = FileHunks /\ Positions' = Positions
    BY <1>1, Const
  <2>2. flusher' \in {"write", "await"} /\ item' \in Items
    BY <1>1, <1>3
  <2>3. ReaderTypes'
    BY <1>1, <1>2, <2>1 DEF TypeOK
  <2>4. JobTypes'
    BY <1>1, <1>2, <1>3, <2>1 DEF TypeOK
  <2>5. OutTypes'
    BY <1>1, <1>2, <2>1, <2>2 DEF TypeOK
  <2> QED BY <2>3, <2>4, <2>5 DEF TypeOK
<1>7. Hunks'
  <2>1. ASSUME NEW k \in 1 .. Len(streamQueue'), streamQueue'[k].kind = "job"
        PROVE  /\ streamQueue'[k] = JobItem(streamQueue'[k].job) /\ streamQueue'[k].job \in Lines
               /\ JobLines(streamQueue'[k].job, lines[streamQueue'[k].job])
    BY <1>3, <2>1 DEF IInv, Hunks
  <2>2. (\A k \in 1 .. Len(streamQueue) : streamQueue[k].kind = "job" =>
          /\ streamQueue[k] = JobItem(streamQueue[k].job) /\ streamQueue[k].job \in Lines
          /\ JobLines(streamQueue[k].job, lines[streamQueue[k].job]))'
    BY <1>1, <2>1, Const DEF JobItem, JobLines
  <2>3. (/\ flusher \in {"await", "write", "blocked", "release"} /\ item.kind = "job" =>
              item.job \in Lines /\ JobLines(item.job, lines[item.job])
         /\ flusher \in {"await", "release"} => item.kind = "job")'
    BY <1>1, <1>4, <1>5, Const DEF JobLines
  <2> QED BY <1>1, <2>2, <2>3, Const DEF IInv, Hunks
<1>8. InHand' = InHand /\ Bound' = Bound
  BY <1>1, HandFrame
<1>9. /\ Texts # <<>> /\ Head(Texts) = Text(it) /\ Texts' = Tail(Texts)
      /\ InFlush = <<>> /\ Flushed = {}
      /\ InFlush' = Text(it) /\ Flushed' = Elems(Text(it))
  <2>1. /\ Texts \in Seq(Seq(Nat)) /\ Len(Texts) = Len(streamQueue)
        /\ \A k \in 1 .. Len(streamQueue) : Texts[k] = Text(streamQueue[k])
    <3>1. Texts \in Seq(Seq(Nat))
      BY Places DEF IInv
    <3> QED BY <1>3, <3>1 DEF Texts
  <2>2. Texts # <<>> /\ Head(Texts) = Text(it)
    <3>1. Texts # <<>>
      BY <1>3, <2>1, EmptySeq
    <3> QED BY <1>3, <1>4, <2>1, <3>1, ElemsTail
  <2>3. /\ Tail(Texts) \in Seq(Seq(Nat)) /\ Len(Tail(Texts)) = Len(Texts) - 1
        /\ \A k \in 1 .. Len(Tail(Texts)) : Tail(Texts)[k] = Texts[k + 1]
    BY <2>1, <2>2, ElemsTail
  <2>4. \A x : Text(x)' = Text(x)
    BY <1>1 DEF Text
  <2>5. /\ Len(Texts') = Len(streamQueue')
        /\ \A k \in 1 .. Len(streamQueue') : Texts'[k] = Text(streamQueue'[k])
    <3>1. Texts' = [k \in 1 .. Len(streamQueue') |-> Text(streamQueue'[k])]
      BY <2>4 DEF Texts
    <3> QED BY <1>3, <3>1
  <2>6. Texts' \in Seq(Seq(Nat))
    <3>1. (TypeOK /\ Hunks => Texts \in Seq(Seq(Nat)))'
      BY Places, PTL
    <3> QED BY <1>6, <1>7, <3>1
  <2>7. ASSUME NEW k \in 1 .. Len(Texts') PROVE Texts'[k] = Tail(Texts)[k]
    <3>1. k \in 1 .. Len(streamQueue') /\ k \in 1 .. Len(Tail(Texts))
      BY <1>3, <2>1, <2>3, <2>5
    <3>2. streamQueue'[k] = streamQueue[k + 1] /\ k + 1 \in 1 .. Len(streamQueue)
      BY <1>3, <3>1
    <3> QED BY <2>1, <2>3, <2>5, <3>1, <3>2
  <2>8. Len(Texts') = Len(Tail(Texts))
    BY <1>3, <2>1, <2>3, <2>5
  <2>9. Texts' = Tail(Texts)
    BY <2>3, <2>6, <2>7, <2>8, SeqEqual
  <2>10. InFlush = <<>> /\ Flushed = {} /\ InFlush' = Text(it) /\ Flushed' = Elems(Text(it))
    BY <1>1, <2>4, EmptyElems DEF InFlush, Flushed
  <2> QED BY <2>2, <2>9, <2>10
<1>10. /\ Flow' /\ Before(Elems(Text(it)), AllElems(Texts'))
       /\ AllOf(emitted, InFlush, Texts, rawBuf, InHand)'
            = AllOf(emitted, InFlush, Texts, rawBuf, InHand)
  <2>1. /\ emitted \in Seq(Nat) /\ Texts \in Seq(Seq(Nat)) /\ rawBuf \in Seq(Nat)
        /\ InHand \in Seq(Nat) /\ Bound \in Nat
    BY Places DEF IInv
  <2>2. InOrder(emitted, <<>>, {}, Texts, rawBuf, InHand, Bound)
    BY <1>9 DEF IInv, Flow
  <2>3. InOrder(emitted, Head(Texts), Elems(Head(Texts)), Tail(Texts), rawBuf, InHand, Bound)
    BY <1>9, <2>1, <2>2, MoveToFlusher
  <2>4. AllElems(Texts) = Elems(Head(Texts)) \cup AllElems(Tail(Texts))
    BY <1>9, <2>1, AllElemsTail
  <2>5. Flow'
    BY <1>1, <1>8, <1>9, <2>3 DEF Flow
  <2>6. Before(Elems(Text(it)), AllElems(Texts'))
    BY <1>9, <2>3 DEF InOrder, Before
  <2>7. AllOf(emitted, InFlush, Texts, rawBuf, InHand)'
          = AllOf(emitted, Head(Texts), Tail(Texts), rawBuf, InHand)
    BY <1>1, <1>8, <1>9
  <2>8. AllOf(emitted, Head(Texts), Tail(Texts), rawBuf, InHand)
          = AllOf(emitted, <<>>, Texts, rawBuf, InHand)
    BY <2>4, EmptyElems DEF AllOf
  <2> QED BY <1>9, <2>5, <2>6, <2>7, <2>8
<1>11. /\ Flushing = {} /\ Queued \cup Flushing = Queued' \cup Flushing'
       /\ \A i \in Flushing' : i \notin Queued'
       /\ Flushing' = (IF it.kind = "job" THEN {it.job} ELSE {})
  <2>1. Flushing = {} /\ Flushing' = (IF it.kind = "job" THEN {it.job} ELSE {})
    BY <1>1, <1>4 DEF Flushing
  <2>2. Queued' = {i \in Lines : \E k \in 1 .. Len(streamQueue') : streamQueue'[k] = JobItem(i)}
    BY <1>1, Const DEF Queued, JobItem
  <2>3. Queued' \subseteq Queued
    BY <1>3, <2>2 DEF Queued
  <2>4. Flushing' \subseteq Queued
    BY <1>3, <1>4, <1>5, <2>1 DEF Queued
  <2>5. Queued \subseteq Queued' \cup Flushing'
    <3> SUFFICES ASSUME NEW i \in Queued PROVE i \in Queued' \cup Flushing'
      OBVIOUS
    <3>1. PICK k \in 1 .. Len(streamQueue) : streamQueue[k] = JobItem(i)
      BY DEF Queued
    <3>2. CASE k = 1
      BY <1>3, <2>1, <3>1, <3>2 DEF JobItem
    <3>3. CASE k # 1
      <4>1. k - 1 \in 1 .. Len(streamQueue') /\ k - 1 + 1 = k
        BY <1>3, <3>3
      <4>2. streamQueue'[k - 1] = JobItem(i)
        BY <1>3, <3>1, <4>1
      <4> QED BY <2>2, <4>1, <4>2 DEF Queued
    <3> QED BY <3>2, <3>3
  <2>6. \A i \in Flushing' : i \notin Queued'
    <3>1. (TypeOK /\ Hunks => /\ \A j \in Queued : j \in AllElems(Texts)
                              /\ \A j \in Flushing : j \in Flushed)'
      BY HeadsInPlaces, PTL
    <3>2. (\A j \in Queued' : j \in AllElems(Texts')) /\ (\A j \in Flushing' : j \in Elems(Text(it)))
      BY <1>6, <1>7, <1>9, <3>1
    <3>3. \A j \in Flushing' : j \in Nat
      BY <1>5, <2>1 DEF Lines
    <3> QED BY <1>10, <3>2, <3>3 DEF Before
  <2> QED BY <2>1, <2>3, <2>4, <2>5, <2>6
<1>12. Permits'
  <2>1. InFlight' = InFlight /\ Own' = Own /\ SemCap' = SemCap
    BY <1>1, <1>11, Const DEF InFlight, Own
  <2>2. Cardinality(Queued) + Cardinality(Flushing) = Cardinality(Queued') + Cardinality(Flushing')
    <3>1. Cardinality(Flushing) = 0 /\ IsFiniteSet(Queued) /\ Cardinality(Queued) \in Nat
      BY <1>11, FiniteJobs, FS_EmptySet DEF IInv
    <3>2. IsFiniteSet(Queued') /\ Cardinality(Queued') \in Nat
      <4>1. Queued' \subseteq Queued
        BY <1>11
      <4> QED BY <3>1, <4>1, FS_Subset, FS_CardinalityType
    <3>3. CASE it.kind = "job"
      <4>1. Queued = Queued' \cup {it.job} /\ it.job \notin Queued'
        BY <1>11, <3>3
      <4>2. Cardinality(Queued) = Cardinality(Queued') + 1
        BY <3>2, <4>1, FS_AddElement
      <4>3. Cardinality(Flushing') = 1
        BY <1>11, <3>3, FS_Singleton
      <4> QED BY <3>1, <3>2, <4>2, <4>3
    <3>4. CASE it.kind # "job"
      <4>1. Queued = Queued' /\ Flushing' = Flushing
        BY <1>11, <3>4
      <4> QED BY <4>1
    <3> QED BY <3>3, <3>4
  <2> QED BY <1>1, <2>1, <2>2 DEF IInv, Permits
<1>13. Reasons'
  BY <1>1 DEF IInv, Reasons
<1>14. /\ (flusher \in {"write", "blocked", "release"} /\ item.kind = "job" => done[item.job])'
       /\ (flusher \in {"write", "blocked"} /\ item.kind = "job" => verdict[item.job] \in {"ok", "dump"})'
       /\ flusher' # "exited"
  BY <1>1
<1>15. \A i \in Lines : Somewhere(i) => Somewhere(i)'
  BY <1>10 DEF Somewhere
<1> QED BY <1>1, <1>6, <1>7, <1>10, <1>12, <1>13, <1>14, <1>15, FlusherKeeps

LEMMA FlusherExitKeeps ==
  ASSUME IInv, FlusherExit
  PROVE  IInv'
<1>1. /\ setup' = setup /\ flusher \in {"next", "await"} /\ flusher' = "exited"
      /\ cancelled \/ (flusher = "next" /\ closed /\ streamQueue = <<>>)
      /\ UNCHANGED <<item, queueVars, emitted, cancelled, flusherErr, workerErr, readerGone,
                     readerVars, workerVars, jobVars, readerErr, mainVars, pager,
                     pagerInput, monitor>>
  BY DEF FlusherExit, FlusherFrame
<1>2. TypeOK'
  BY <1>1, Const DEF IInv, TypeOK
<1>3. Hunks'
  BY <1>1, Const DEF IInv, Hunks
<1>4. InHand' = InHand /\ Bound' = Bound
  BY <1>1, HandFrame
<1>5. Texts' = Texts /\ InFlush' = <<>> /\ Flushed' = {} /\ (flusher = "next" => InFlush = <<>>)
  BY <1>1, EmptyElems DEF Texts, Text, InFlush, Flushed
<1>6. Flow'
  <2>1. InOrder(emitted, InFlush, Flushed, Texts, rawBuf, InHand, Bound)
    BY DEF IInv, Flow
  <2>2. InOrder(emitted, <<>>, {}, Texts, rawBuf, InHand, Bound)
    BY <2>1, MoveAway
  <2> QED BY <1>1, <1>4, <1>5, <2>2 DEF Flow
<1>7. Queued' = Queued /\ Flushing' = {}
  BY <1>1, Const DEF Queued, JobItem, Flushing
<1>8. Permits'
  <2>1. InFlight' \subseteq InFlight /\ Own' = Own /\ SemCap' = SemCap /\ Own \in {0, 1}
    BY <1>1, <1>7, Const DEF InFlight, Own
  <2>2. IsFiniteSet(InFlight) /\ Cardinality(InFlight) \in Nat /\ permits \in Nat
    BY FiniteJobs DEF IInv, TypeOK
  <2>3. Cardinality(InFlight') <= Cardinality(InFlight) /\ Cardinality(InFlight') \in Nat
    BY <2>1, <2>2, FS_Subset, FS_CardinalityType
  <2>4. Cardinality(InFlight) + Own <= permits
    BY DEF IInv, Permits
  <2>5. Cardinality(InFlight') + Own <= permits
    BY <2>1, <2>2, <2>3, <2>4
  <2>6. ~cancelled => Flushing' = Flushing
    BY <1>1, <1>7 DEF Flushing
  <2> QED BY <1>1, <1>7, <2>1, <2>5, <2>6 DEF IInv, Permits
<1>9. Reasons'
  BY <1>1 DEF IInv, Reasons
<1>10. ~cancelled => \A i \in Lines : Somewhere(i) => Somewhere(i)'
  BY <1>1, <1>4, <1>5 DEF Somewhere
<1> QED BY <1>1, <1>2, <1>3, <1>6, <1>8, <1>9, <1>10, FlusherKeeps

\* The flusher's job is done: its lines are to be written, settled, or the run has an error.
LEMMA FlusherAwaitKeeps ==
  ASSUME IInv, FlusherAwait
  PROVE  IInv'
<1> DEFINE j == item.job
<1>1. /\ setup' = setup /\ flusher = "await" /\ done[j] /\ item.kind = "job" /\ j \in Lines
      /\ JobLines(j, lines[j])
      /\ flusher' = (CASE verdict[j] = "cancelled" -> "exited"
                       [] verdict[j] \in {"ok", "dump"} -> "write"
                       [] OTHER -> "release")
      /\ workerErr' = (workerErr \/ verdict[j] = "renderErr")
      /\ cancelled' = (cancelled \/ verdict[j] = "cancelled")
      /\ UNCHANGED <<item, queueVars, emitted, flusherErr, readerGone,
                     readerVars, workerVars, jobVars, readerErr, mainVars, pager,
                     pagerInput, monitor>>
  BY DEF FlusherAwait, FlusherFrame, IInv, Hunks
<1>2. verdict[j] \in Verdicts /\ verdict[j] # "none" /\ (verdict[j] = "cancelled" => cancelled)
      /\ cancelled \in BOOLEAN /\ workerErr \in BOOLEAN
  BY <1>1 DEF IInv, TypeOK, Jobs
<1>3. cancelled' = cancelled /\ workerErr' \in BOOLEAN /\ (workerErr => workerErr')
      /\ flusher' \in {"exited", "write", "release"}
  BY <1>1, <1>2
<1>4. /\ flusher' = "exited" => cancelled
      /\ flusher' = "write" => verdict[j] \in {"ok", "dump"}
      /\ flusher' = "release" /\ ~workerErr' => verdict[j] = "same"
  BY <1>1, <1>2 DEF Verdicts
<1>5. TypeOK'
  <2>1. TypeOK
    BY DEF IInv
  <2> QED BY <1>1, <1>3, <2>1, Const DEF TypeOK
<1>6. Hunks'
  BY <1>1, <1>3, Const DEF IInv, Hunks
<1>7. InHand' = InHand /\ Bound' = Bound
  BY <1>1, HandFrame
<1>8. j \in Elems(lines[j])
  <2>1. lines[j] \in Seq(Lines)
    BY <1>1 DEF IInv, TypeOK
  <2>2. 1 \in 1 .. Len(lines[j])
    BY <1>1, <2>1 DEF JobLines
  <2> QED BY <1>1, <2>2 DEF Elems, JobLines
<1>9. /\ Texts' = Texts /\ InFlush = lines[j] /\ Flushed = Elems(lines[j])
      /\ flusher' = "write" => InFlush' = InFlush /\ Flushed' = Flushed
      /\ flusher' # "write" => InFlush' = <<>>
      /\ flusher' = "release" => Flushed' = {j}
      /\ flusher' = "exited" => Flushed' = {}
  BY <1>1, <1>3, EmptyElems DEF Texts, Text, InFlush, Flushed
<1>10. Flow'
  <2>1. InOrder(emitted, InFlush, Flushed, Texts, rawBuf, InHand, Bound)
    BY DEF IInv, Flow
  <2>2. CASE flusher' = "write"
    BY <1>1, <1>7, <1>9, <2>1, <2>2 DEF Flow
  <2>3. CASE flusher' # "write"
    <3>1. Flushed' \in SUBSET Flushed
      BY <1>3, <1>8, <1>9, <2>3
    <3>2. InOrder(emitted, <<>>, Flushed', Texts, rawBuf, InHand, Bound)
      BY <2>1, <3>1, MoveAway
    <3> QED BY <1>1, <1>7, <1>9, <2>3, <3>2 DEF Flow
  <2> QED BY <2>2, <2>3
<1>11. Queued' = Queued /\ (flusher' # "exited" => Flushing' = Flushing)
       /\ Flushing' \subseteq Flushing
  BY <1>1, <1>3, Const DEF Queued, JobItem, Flushing
<1>12. Permits'
  <2>1. InFlight' \subseteq InFlight /\ Own' = Own /\ SemCap' = SemCap /\ Own \in {0, 1}
    BY <1>1, <1>11, Const DEF InFlight, Own
  <2>2. IsFiniteSet(InFlight) /\ Cardinality(InFlight) \in Nat /\ permits \in Nat
    BY FiniteJobs DEF IInv, TypeOK
  <2>3. Cardinality(InFlight') <= Cardinality(InFlight) /\ Cardinality(InFlight') \in Nat
    BY <2>1, <2>2, FS_Subset, FS_CardinalityType
  <2>4. Cardinality(InFlight) + Own <= permits
    BY DEF IInv, Permits
  <2>5. Cardinality(InFlight') + Own <= permits
    BY <2>1, <2>2, <2>3, <2>4
  <2>6. ~cancelled => Flushing' = Flushing
    BY <1>4, <1>11
  <2> QED BY <1>1, <1>3, <1>11, <2>1, <2>5, <2>6 DEF IInv, Permits
<1>13. Reasons'
  BY <1>1, <1>3 DEF IInv, Reasons
<1>14. (flusher \in {"write", "blocked", "release"} /\ item.kind = "job" => done[item.job])'
       /\ (flusher \in {"write", "blocked"} /\ item.kind = "job" => verdict[item.job] \in {"ok", "dump"})'
  BY <1>1, <1>4
<1>15. ASSUME ~cancelled', ~workerErr', NEW i \in Lines, Somewhere(i)
       PROVE  Somewhere(i)' \/ Settled(i)'
  <2>1. flusher' # "exited"
    BY <1>3, <1>4, <1>15
  <2>2. CASE flusher' = "write"
    BY <1>1, <1>7, <1>9, <1>15, <2>2 DEF Somewhere
  <2>3. CASE flusher' = "release"
    <3>1. i \in AllOf(emitted, <<>>, Texts, rawBuf, InHand) \/ i \in Elems(lines[j])
      BY <1>9, <1>15 DEF Somewhere, AllOf
    <3>2. CASE i \in Elems(lines[j])
      <4>1. verdict[j] = "same"
        BY <1>4, <1>15, <2>3
      <4> QED BY <1>1, <3>2, <4>1, Const DEF Settled
    <3>3. CASE i \in AllOf(emitted, <<>>, Texts, rawBuf, InHand)
      BY <1>1, <1>7, <1>9, <2>3, <3>3 DEF Somewhere
    <3> QED BY <3>1, <3>2, <3>3
  <2> QED BY <1>3, <2>1, <2>2, <2>3
<1>16. ~cancelled' => flusher' # "exited"
  BY <1>3, <1>4
<1> QED BY <1>1, <1>3, <1>5, <1>6, <1>10, <1>12, <1>13, <1>14, <1>15, <1>16, FlusherKeeps

\* The text waits for room in the pipe: it stays where it is.
LEMMA FlusherBlocksKeeps ==
  ASSUME IInv, FlusherBlocks
  PROVE  IInv'
<1>1. /\ setup' = setup /\ flusher = "write" /\ flusher' = "blocked"
      /\ UNCHANGED <<item, queueVars, emitted, cancelled, flusherErr, workerErr, readerGone,
                     readerVars, workerVars, jobVars, readerErr, mainVars, pager, pagerInput,
                     monitor>>
  BY DEF FlusherBlocks, FlusherFrame
<1>2. TypeOK'
  <2>1. /\ input' = input /\ Lines' = Lines /\ Items' = Items /\ SemCap' = SemCap
        /\ FileHunks' = FileHunks /\ Positions' = Positions
    BY <1>1, Const
  <2>2. TypeOK
    BY DEF IInv
  <2>3. ReaderTypes' /\ JobTypes'
    BY <1>1, <2>1, <2>2 DEF TypeOK
  <2>4. OutTypes'
    BY <1>1, <2>1, <2>2 DEF TypeOK
  <2> QED BY <2>3, <2>4 DEF TypeOK
<1>3. Hunks'
  BY <1>1, Const DEF IInv, Hunks
<1>4. InHand' = InHand /\ Bound' = Bound
  BY <1>1, HandFrame
<1>5. Texts' = Texts /\ InFlush' = InFlush /\ Flushed' = Flushed
  BY <1>1 DEF Texts, Text, InFlush, Flushed
<1>6. Flow'
  BY <1>1, <1>4, <1>5 DEF IInv, Flow
<1>7. Permits'
  <2>1. Queued' = Queued /\ Flushing' = Flushing
    BY <1>1, Const DEF Queued, JobItem, Flushing
  <2>2. InFlight' \subseteq InFlight
    BY <1>1, <2>1 DEF InFlight
  <2> QED BY <1>1, <2>1, <2>2, PermitsFrame DEF IInv
<1>8. Reasons'
  BY <1>1 DEF IInv, Reasons
<1>9. (flusher \in {"write", "blocked", "release"} /\ item.kind = "job" => done[item.job])'
       /\ (flusher \in {"write", "blocked"} /\ item.kind = "job" => verdict[item.job] \in {"ok", "dump"})'
  BY <1>1 DEF IInv, Jobs
<1>10. \A i \in Lines : Somewhere(i) => Somewhere(i)'
  BY <1>1, <1>4, <1>5 DEF Somewhere
<1>11. emitted' = emitted /\ (~cancelled' => flusher' # "exited")
  BY <1>1
<1> QED BY <1>1, <1>2, <1>3, <1>6, <1>7, <1>8, <1>9, <1>10, <1>11, FlusherKeeps

\* The pager, or the terminal, refuses the text: the run is cancelled.
LEMMA WriteFailsKeeps ==
  ASSUME IInv, FlusherWrite, flusher' = "exited"
  PROVE  IInv'
<1>1. /\ setup' = setup /\ flusher \in {"write", "blocked"} /\ cancelled' = TRUE
      /\ readerGone' \/ flusherErr'
      /\ (flusherErr => flusherErr') /\ (readerGone => readerGone')
      /\ flusherErr' \in BOOLEAN /\ readerGone' \in BOOLEAN
      /\ UNCHANGED <<item, queueVars, emitted, workerErr, readerVars, workerVars, jobVars,
                     readerErr, mainVars, pager, pagerInput, monitor>>
  <2>1. flusherErr \in BOOLEAN /\ readerGone \in BOOLEAN
    BY DEF IInv, TypeOK
  <2> QED BY <2>1 DEF FlusherWrite, FlusherFrame
<1>2. TypeOK'
  <2>1. /\ input' = input /\ Lines' = Lines /\ Items' = Items /\ SemCap' = SemCap
        /\ FileHunks' = FileHunks /\ Positions' = Positions
    BY <1>1, Const
  <2>2. TypeOK /\ flusher' = "exited"
    BY DEF IInv
  <2>3. ReaderTypes' /\ JobTypes'
    BY <1>1, <2>1, <2>2 DEF TypeOK
  <2>4. OutTypes'
    BY <1>1, <2>1, <2>2 DEF TypeOK
  <2> QED BY <2>3, <2>4 DEF TypeOK
<1>3. Hunks'
  BY <1>1, Const DEF IInv, Hunks
<1>4. InHand' = InHand /\ Bound' = Bound
  BY <1>1, HandFrame
<1>5. Texts' = Texts /\ InFlush' = <<>> /\ Flushed' = {}
  BY <1>1, EmptyElems DEF Texts, Text, InFlush, Flushed
<1>6. Flow'
  <2>1. InOrder(emitted, InFlush, Flushed, Texts, rawBuf, InHand, Bound)
    BY DEF IInv, Flow
  <2>2. InOrder(emitted, <<>>, {}, Texts, rawBuf, InHand, Bound)
    BY <2>1, MoveAway
  <2> QED BY <1>1, <1>4, <1>5, <2>2 DEF Flow
<1>7. Permits'
  <2>1. InFlight' \subseteq InFlight /\ Own' = Own /\ SemCap' = SemCap /\ Own \in {0, 1}
    BY <1>1, Const DEF InFlight, Own, Queued, JobItem, Flushing
  <2>2. IsFiniteSet(InFlight) /\ Cardinality(InFlight) \in Nat /\ permits \in Nat
    BY FiniteJobs DEF IInv, TypeOK
  <2>3. Cardinality(InFlight') <= Cardinality(InFlight) /\ Cardinality(InFlight') \in Nat
    BY <2>1, <2>2, FS_Subset, FS_CardinalityType
  <2>4. Cardinality(InFlight) + Own <= permits
    BY DEF IInv, Permits
  <2>5. Cardinality(InFlight') + Own <= permits
    BY <2>1, <2>2, <2>3, <2>4
  <2> QED BY <1>1, <2>1, <2>5 DEF IInv, Permits
<1>8. Reasons'
  BY <1>1 DEF IInv, Reasons
<1> QED BY <1>1, <1>2, <1>3, <1>6, <1>7, <1>8, FlusherKeeps

\* What comes out is the item's text, or the head of a rendered hunk.
LEMMA OutputOfItem ==
  ASSUME IInv, flusher \in {"write", "blocked"}
  PROVE  /\ Output \in Seq(Nat) /\ Output \in Seq(Lines) /\ Increasing(Output)
         /\ Elems(Output) \subseteq Elems(InFlush) /\ InFlush \in Seq(Nat)
         /\ item.kind = "job" => item.job \in Elems(InFlush) /\ InFlush = lines[item.job]
         /\ item.kind = "raw" \/ verdict[item.job] = "dump" => Output = InFlush
         /\ item.kind # "raw" /\ verdict[item.job] = "ok" => item.job \in Elems(Output)
<1>1. /\ item \in Items /\ item.kind \in {"raw", "job"} /\ Increasing(InFlush)
      /\ InFlush \in Seq(Nat) /\ InFlush = Text(item)
  <2>1. item \in Items
    BY DEF IInv, TypeOK
  <2> QED BY <2>1, Places DEF Items, IInv, Flow, InOrder, InFlush
<1>2. CASE item.kind = "raw"
  <2>1. Output = item.text /\ InFlush = item.text /\ item.text \in Seq(Lines)
    BY <1>1, <1>2 DEF Output, Text, Items
  <2> QED BY <1>1, <1>2, <2>1
<1>3. CASE item.kind = "job"
  <2>1. /\ item.job \in Lines /\ JobLines(item.job, lines[item.job])
        /\ verdict[item.job] \in {"ok", "dump"} /\ lines[item.job] \in Seq(Lines)
    BY <1>3 DEF IInv, Hunks, Jobs, TypeOK
  <2>2. InFlush = lines[item.job] /\ item.job \in Elems(InFlush)
    <3>1. 1 \in 1 .. Len(lines[item.job])
      BY <2>1 DEF JobLines
    <3> QED BY <1>1, <1>3, <2>1, <3>1 DEF Text, Elems, JobLines
  <2>3. CASE verdict[item.job] = "dump"
    BY <1>1, <1>3, <2>1, <2>2, <2>3 DEF Output
  <2>4. CASE verdict[item.job] = "ok"
    <3>1. Output = <<item.job>>
      BY <1>3, <2>4 DEF Output
    <3>2. /\ <<item.job>> \in Seq(Lines) /\ Len(<<item.job>>) = 1
          /\ <<item.job>>[1] = item.job
      BY <2>1
    <3>3. Elems(<<item.job>>) = {item.job} /\ Increasing(<<item.job>>)
      BY <3>2 DEF Elems, Increasing
    <3>4. Output \in Seq(Lines) /\ Output \in Seq(Nat)
      BY <3>1, <3>2, LinesSeq
    <3>5. Elems(Output) = {item.job} /\ Increasing(Output)
      BY <3>1, <3>3
    <3> QED BY <1>1, <1>3, <2>2, <2>4, <3>4, <3>5
  <2> QED BY <2>1, <2>3, <2>4
<1> QED BY <1>1, <1>2, <1>3

LEMMA WriteKeeps ==
  ASSUME IInv, FlusherWrite, flusher' # "exited"
  PROVE  IInv'
<1> DEFINE j == item.job
<1>1. /\ setup' = setup /\ flusher \in {"write", "blocked"} /\ emitted' = emitted \o Output
      /\ flusher' = (IF item.kind = "raw" THEN "next" ELSE "release")
      /\ UNCHANGED <<item, queueVars, cancelled, flusherErr, readerGone, workerErr, readerVars,
                     workerVars, jobVars, readerErr, mainVars, pager, pagerInput, monitor>>
  BY DEF FlusherWrite, FlusherFrame
<1>2. item.kind \in {"raw", "job"} /\ item \in Items
  <2>1. item \in Items
    BY DEF IInv, TypeOK
  <2> QED BY <2>1 DEF Items
<1>3. /\ Output \in Seq(Nat) /\ Output \in Seq(Lines) /\ Increasing(Output)
      /\ Elems(Output) \subseteq Elems(InFlush) /\ InFlush \in Seq(Nat)
      /\ item.kind = "job" => j \in Elems(InFlush) /\ InFlush = lines[j]
      /\ item.kind = "raw" \/ verdict[j] = "dump" => Output = InFlush
      /\ item.kind # "raw" /\ verdict[j] = "ok" => j \in Elems(Output)
  BY <1>1, OutputOfItem
<1>4. item.kind = "job" => j \in Lines /\ done[j] /\ verdict[j] \in {"ok", "dump"}
  BY <1>1 DEF IInv, Hunks, Jobs
<1>5. TypeOK'
  <2>1. /\ input' = input /\ Lines' = Lines /\ Items' = Items /\ SemCap' = SemCap
        /\ FileHunks' = FileHunks /\ Positions' = Positions
    BY <1>1, Const
  <2>2. TypeOK
    BY DEF IInv
  <2>3. emitted' \in Seq(Lines)
    BY <1>1, <1>3, <2>2 DEF TypeOK
  <2>4. ReaderTypes' /\ JobTypes'
    BY <1>1, <2>1, <2>2 DEF TypeOK
  <2>5. (emitted \in Seq(Lines) /\ item \in Items)'
    BY <1>1, <1>2, <2>1, <2>3
  <2>6. flusher' \in {"next", "release"}
    BY <1>1
  <2>7. OutTypes'
    BY <1>1, <2>2, <2>5, <2>6 DEF TypeOK
  <2> QED BY <2>4, <2>7 DEF TypeOK
<1>6. Hunks'
  BY <1>1, <1>2, Const DEF IInv, Hunks
<1>7. InHand' = InHand /\ Bound' = Bound
  BY <1>1, HandFrame
<1>8. /\ Texts' = Texts /\ InFlush' = <<>> /\ Flushed = Elems(InFlush)
      /\ Flushed' \subseteq Elems(InFlush)
  <2>1. Texts' = Texts /\ InFlush' = <<>> /\ Flushed = Elems(InFlush)
    BY <1>1 DEF Texts, Text, InFlush, Flushed
  <2>2. Flushed' = (IF item.kind = "raw" THEN {} ELSE {j})
    BY <1>1, <2>1, EmptyElems DEF Flushed
  <2> QED BY <1>2, <1>3, <2>1, <2>2
<1>9. /\ emitted \in Seq(Nat) /\ Texts \in Seq(Seq(Nat)) /\ rawBuf \in Seq(Nat)
      /\ InHand \in Seq(Nat) /\ Bound \in Nat
  BY Places DEF IInv
<1>10. Flow'
  <2>1. InOrder(emitted, InFlush, Elems(InFlush), Texts, rawBuf, InHand, Bound)
    BY <1>8 DEF IInv, Flow
  <2>2. Flushed' \in SUBSET Elems(InFlush)
    BY <1>8
  <2>3. InOrder(emitted \o Output, <<>>, Flushed', Texts, rawBuf, InHand, Bound)
    BY <1>3, <1>9, <2>1, <2>2, MoveToOut
  <2> QED BY <1>1, <1>7, <1>8, <2>3 DEF Flow
<1>11. Permits'
  <2>1. Queued' = Queued /\ Flushing' = Flushing
    BY <1>1, <1>2, Const DEF Queued, JobItem, Flushing
  <2>2. InFlight' \subseteq InFlight
    BY <1>1, <2>1 DEF InFlight
  <2> QED BY <1>1, <2>1, <2>2, PermitsFrame DEF IInv
<1>12. Reasons'
  BY <1>1 DEF IInv, Reasons
<1>13. (flusher \in {"write", "blocked", "release"} /\ item.kind = "job" => done[item.job])'
       /\ (flusher \in {"write", "blocked"} /\ item.kind = "job" => verdict[item.job] \in {"ok", "dump"})'
  BY <1>1, <1>4
<1>14. ASSUME NEW i \in Lines, Somewhere(i)
       PROVE  Somewhere(i)' \/ Settled(i)'
  <2>1. Elems(emitted') = Elems(emitted) \cup Elems(Output)
    BY <1>1, <1>3, <1>9, ElemsConcat
  <2>2. AllOf(emitted, InFlush, Texts, rawBuf, InHand)' = AllOf(emitted', <<>>, Texts, rawBuf, InHand)
    BY <1>1, <1>7, <1>8
  <2>3. i \in AllOf(emitted', <<>>, Texts, rawBuf, InHand) \/ i \in Elems(InFlush)
    BY <1>14, <2>1 DEF Somewhere, AllOf
  <2>4. CASE i \in AllOf(emitted', <<>>, Texts, rawBuf, InHand)
    BY <2>2, <2>4 DEF Somewhere
  <2>5. CASE i \in Elems(InFlush) /\ Output = InFlush
    BY <2>1, <2>2, <2>5 DEF Somewhere, AllOf
  <2>6. CASE i \in Elems(InFlush) /\ Output # InFlush
    <3>1. item.kind = "job" /\ verdict[j] = "ok" /\ j \in Elems(Output) /\ InFlush = lines[j]
      BY <1>2, <1>3, <1>4, <2>6
    <3>2. j \in Elems(emitted')
      BY <2>1, <3>1
    <3>3. j \in Lines /\ done[j]
      BY <1>4, <3>1
    <3> QED BY <1>1, <2>6, <3>1, <3>2, <3>3, Const DEF Settled
  <2> QED BY <2>3, <2>4, <2>5, <2>6
<1>15. \E o \in Seq(Nat) : emitted' = emitted \o o
  BY <1>1, <1>3
<1> QED BY <1>1, <1>5, <1>6, <1>10, <1>11, <1>12, <1>13, <1>14, <1>15, FlusherKeeps

\* The flusher returns the permit of its job, which is in no other place by now.
LEMMA FlusherJobIsOut ==
  ASSUME IInv, flusher = "release"
  PROVE  /\ Flushing = {item.job} /\ item.job \in InFlight
         /\ item.job \notin Queued /\ item.job \notin Elems(workQueue)
<1>1. /\ item.kind = "job" /\ item.job \in Lines /\ done[item.job]
      /\ Flushing = {item.job} /\ Flushed = {item.job} /\ item.job \in Nat
  <2>1. item.kind = "job"
    BY DEF IInv, Hunks
  <2> QED BY <2>1 DEF IInv, Hunks, Jobs, Flushing, Flushed, Lines
<1>2. item.job \notin Elems(workQueue)
  BY <1>1 DEF IInv, Jobs
<1>3. /\ Before(Flushed, AllElems(Texts)) /\ Before(Flushed, Elems(InHand))
  BY DEF IInv, Flow, InOrder, Before
<1>4. (\A j \in Queued : j \in AllElems(Texts)) /\ (opening # 0 => opening \in Elems(InHand))
  BY HeadsInPlaces DEF IInv
<1>5. item.job \notin Queued
  BY <1>1, <1>3, <1>4 DEF Before
<1>6. item.job # opening
  <2>1. item.job # 0
    BY <1>1 DEF Lines
  <2> QED BY <1>1, <1>3, <1>4, <2>1 DEF Before
<1> QED BY <1>1, <1>2, <1>5, <1>6 DEF InFlight

LEMMA FlusherReleaseKeeps ==
  ASSUME IInv, FlusherRelease
  PROVE  IInv'
<1> DEFINE j == item.job
<1>1. /\ setup' = setup /\ flusher = "release" /\ flusher' = "next"
      /\ permits' = (IF permits > 0 THEN permits - 1 ELSE permits)
      /\ UNCHANGED <<item, workQueue, streamQueue, closed, emitted, cancelled, flusherErr,
                     workerErr, readerGone, readerVars, workerVars, jobVars, readerErr, mainVars,
                     pager, pagerInput, monitor>>
  BY DEF FlusherRelease, FlusherFrame
<1>2. /\ Flushing = {j} /\ j \in InFlight /\ j \notin Queued /\ j \notin Elems(workQueue)
  BY <1>1, FlusherJobIsOut
<1>3. TypeOK'
  <2>1. permits' \in Nat
    BY <1>1 DEF IInv, TypeOK
  <2>2. /\ input' = input /\ Lines' = Lines /\ Items' = Items /\ SemCap' = SemCap
        /\ FileHunks' = FileHunks /\ Positions' = Positions
    BY <1>1, Const
  <2>3. TypeOK
    BY DEF IInv
  <2>4. ReaderTypes'
    BY <1>1, <2>2, <2>3 DEF TypeOK
  <2>5. JobTypes'
    BY <1>1, <2>1, <2>2, <2>3 DEF TypeOK
  <2>6. OutTypes'
    BY <1>1, <2>2, <2>3 DEF TypeOK
  <2> QED BY <2>4, <2>5, <2>6 DEF TypeOK
<1>4. Hunks'
  BY <1>1, Const DEF IInv, Hunks
<1>5. InHand' = InHand /\ Bound' = Bound
  BY <1>1, HandFrame
<1>6. Texts' = Texts /\ InFlush' = <<>> /\ Flushed' = {} /\ InFlush = <<>>
  BY <1>1, EmptyElems DEF Texts, Text, InFlush, Flushed
<1>7. Flow'
  <2>1. InOrder(emitted, InFlush, Flushed, Texts, rawBuf, InHand, Bound)
    BY DEF IInv, Flow
  <2>2. InOrder(emitted, <<>>, {}, Texts, rawBuf, InHand, Bound)
    BY <2>1, MoveAway
  <2> QED BY <1>1, <1>5, <1>6, <2>2 DEF Flow
<1>8. Permits'
  <2>1. Queued' = Queued /\ Flushing' = {} /\ Own' = Own /\ SemCap' = SemCap /\ Own \in {0, 1}
    BY <1>1, Const DEF Queued, JobItem, Flushing, Own
  <2>2. InFlight' = InFlight \ {j}
    BY <1>1, <1>2, <2>1 DEF InFlight
  <2>3. /\ IsFiniteSet(InFlight) /\ Cardinality(InFlight) \in Nat /\ permits \in Nat
        /\ SemCap \in Nat /\ Cardinality(Queued) \in Nat
    BY FiniteJobs DEF IInv, TypeOK
  <2>4. Cardinality(InFlight') = Cardinality(InFlight) - 1
    BY <1>2, <2>2, <2>3, FS_RemoveElement
  <2>5. Cardinality(InFlight') \in Nat
    BY <2>2, <2>3, FS_RemoveElement, FS_CardinalityType
  <2>6. /\ Cardinality(InFlight) + Own <= permits /\ permits <= SemCap
        /\ ~cancelled => permits = Cardinality(Queued) + Cardinality(Flushing) + Own
    BY DEF IInv, Permits
  <2>7. Cardinality(Flushing) = 1 /\ Cardinality({}) = 0
    BY <1>2, FS_Singleton, FS_EmptySet
  <2>8. permits' = permits - 1
    BY <1>1, <2>1, <2>3, <2>4, <2>5, <2>6
  <2>9. /\ Cardinality(InFlight') + Own <= permits' /\ permits' <= SemCap
        /\ ~cancelled => permits' = Cardinality(Queued) + 0 + Own
    BY <2>1, <2>3, <2>4, <2>6, <2>7, <2>8
  <2> QED BY <1>1, <2>1, <2>7, <2>9 DEF IInv, Permits
<1>9. Reasons'
  BY <1>1 DEF IInv, Reasons
<1>10. \A i \in Lines : Somewhere(i) => Somewhere(i)'
  BY <1>1, <1>5, <1>6 DEF Somewhere
<1> QED BY <1>1, <1>3, <1>4, <1>7, <1>8, <1>9, <1>10, FlusherKeeps

-----------------------------------------------------------------------------
(***************************************************************************)
(* Process, the monitor of the pager and the pager: no line moves.         *)
(***************************************************************************)
LEMMA ProcessKeeps ==
  ASSUME IInv,
         UNCHANGED <<setup, readerVars, queueVars, workerVars, jobVars, flusherVars, errVars>>,
         OutTypes', Reasons', Outcome',
         cancelled => cancelled', pager = "exited" => pager' = "exited"
  PROVE  IInv'
<1>1. /\ input' = input /\ Lines' = Lines /\ Items' = Items /\ SemCap' = SemCap
      /\ FileHunks' = FileHunks /\ Positions' = Positions
  BY Const
<1>2. TypeOK'
  BY <1>1 DEF IInv, TypeOK
<1>3. Control'
  <2>1. Ended => Ended'
    BY <1>1 DEF Ended
  <2> QED BY <1>1, <2>1 DEF IInv, Control, Sending
<1>4. Hunks'
  BY <1>1 DEF IInv, Hunks
<1>5. InHand' = InHand /\ Bound' = Bound
  BY HandFrame
<1>6. /\ Flow'
      /\ AllOf(emitted, InFlush, Texts, rawBuf, InHand)'
           = AllOf(emitted, InFlush, Texts, rawBuf, InHand)
  BY <1>5, HandFlow DEF IInv
<1>7. Jobs'
  <2>1. InHand \in Seq(Nat) /\ Bound \in Nat /\ Bound <= Bound
    BY Places DEF IInv
  <2>2. \A j \in Lines : JobSent(j) => JobSent(j)'
    BY DEF JobSent
  <2> QED BY <1>4, <1>5, <2>1, <2>2, JobsFrame DEF IInv
<1>8. Permits'
  <2>1. Queued' = Queued /\ Flushing' = Flushing
    BY <1>1 DEF Queued, JobItem, Flushing
  <2>2. InFlight' \subseteq InFlight
    BY <2>1 DEF InFlight
  <2> QED BY <2>1, <2>2, PermitsFrame DEF IInv
<1>9. Accounts'
  <2>1. \A i \in Lines : Somewhere(i) => Somewhere(i)'
    BY <1>6 DEF Somewhere
  <2>2. (~cancelled /\ ~workerErr => \A i \in Lines : i < Bound => Somewhere(i) \/ Settled(i))'
    BY <1>5, <2>1, AccountsFrame DEF IInv
  <2>3. Ended => Ended'
    BY <1>1 DEF Ended
  <2> QED BY <1>5, <2>2, <2>3 DEF IInv, Accounts
<1> QED BY <1>2, <1>3, <1>4, <1>6, <1>7, <1>8, <1>9 DEF IInv

\* A result of nil is decided when the flusher has ended with nothing left behind it: the
\* reader has, too, and so every line was written or settled.
LEMMA NilIsComplete ==
  ASSUME IInv, main = "wait", flusher = "exited", ~readerGone, ~flusherErr, readerErr # "io",
         cancelled \/ ~workerErr
  PROVE  /\ reader = "exited"
         /\ \A i \in Lines : i \in Elems(emitted) \/ Settled(i)
<1>1. ~cancelled /\ ~workerErr /\ pager # "exited"
  BY DEF IInv, Reasons
<1>2. closed /\ streamQueue = <<>> /\ reader = "exited"
  BY <1>1 DEF IInv, Accounts, Control
<1>3. then = "read" /\ rawBuf = <<>> /\ InHand = <<>> /\ pos > Len(input) /\ Bound = pos
  BY <1>1, <1>2 DEF IInv, Accounts, Ended, Bound
<1>4. InFlush = <<>> /\ Texts = <<>>
  <2>1. Len(streamQueue) = 0 /\ Len(<<>>) = 0
    BY <1>2
  <2>2. InFlush = <<>>
    BY DEF InFlush
  <2>3. Texts = [k \in 1 .. 0 |-> Text(streamQueue[k])]
    BY <2>1 DEF Texts
  <2>4. Texts = <<>>
    BY <2>3
  <2> QED BY <2>2, <2>4
<1>5. AllElems(<<>>) = {} /\ Elems(<<>>) = {}
  BY EmptyElems DEF AllElems
<1>6. ASSUME NEW i \in Lines PROVE i \in Elems(emitted) \/ Settled(i)
  <2>1. i < Bound
    <3>1. pos \in Positions /\ input \in Seq(Tokens)
      BY DEF IInv, TypeOK
    <3> QED BY <1>3, <3>1 DEF Lines, Positions
  <2>2. Somewhere(i) \/ Settled(i)
    BY <1>1, <2>1 DEF IInv, Accounts
  <2> QED BY <1>3, <1>4, <1>5, <2>2 DEF Somewhere, AllOf
<1> QED BY <1>2, <1>6

LEMMA MainResultKeeps ==
  ASSUME IInv, MainResult
  PROVE  IInv'
<1>1. /\ main = "wait" /\ flusher = "exited" /\ main' = "cancel"
      /\ result' = (IF flusherErr \/ readerErr = "io" \/ (~cancelled /\ workerErr)
                    THEN "error" ELSE "nil")
      /\ UNCHANGED <<setup, readerVars, queueVars, workerVars, jobVars, flusherVars, errVars,
                     cancelled, pager, pagerInput, monitor, readerGone>>
  BY DEF MainResult, MainFrame
<1>2. Lines' = Lines /\ Items' = Items
  BY <1>1, Const
<1>3. OutTypes'
  <2>1. result' \in {"nil", "error"}
    BY <1>1
  <2> QED BY <1>1, <1>2, <2>1 DEF IInv, TypeOK
<1>4. Reasons'
  BY <1>1 DEF Reasons
<1>5. Outcome'
  <2> SUFFICES ASSUME result' = "nil", ~readerGone
               PROVE  /\ reader = "exited" /\ flusher = "exited"
                      /\ \A i \in Lines : i \in Elems(emitted) \/ Settled(i)'
    BY <1>1, <1>2 DEF Outcome
  <2>1. ~flusherErr /\ readerErr # "io" /\ (cancelled \/ ~workerErr)
    BY <1>1
  <2>2. reader = "exited" /\ \A i \in Lines : i \in Elems(emitted) \/ Settled(i)
    BY <1>1, <2>1, NilIsComplete
  <2>3. \A i \in Lines : Settled(i) => Settled(i)'
    BY <1>1, <1>2 DEF Settled
  <2> QED BY <1>1, <2>2, <2>3
<1> QED BY <1>1, <1>3, <1>4, <1>5, ProcessKeeps

\* The teardown, after the result is decided.
LEMMA TeardownKeeps ==
  ASSUME IInv, MainCancel \/ MainClosePager \/ MainPagerGone \/ MainJoin
  PROVE  IInv'
<1>1. /\ main # "wait" /\ main' \in {"closePager", "join", "waitPager", "returned"}
      /\ cancelled' = cancelled \/ cancelled' = TRUE
      /\ UNCHANGED <<setup, readerVars, queueVars, workerVars, jobVars, flusherVars, errVars,
                     result, pager, monitor, readerGone>>
  BY DEF MainCancel, MainClosePager, MainPagerGone, MainJoin, MainFrame
<1>2. Lines' = Lines /\ Items' = Items
  BY <1>1, Const
<1>3. OutTypes'
  <2>1. cancelled' \in BOOLEAN
    BY <1>1 DEF IInv, TypeOK
  <2> QED BY <1>1, <1>2, <2>1 DEF IInv, TypeOK
<1>4. Reasons'
  BY <1>1 DEF IInv, Reasons
<1>5. Outcome'
  <2>1. \A i \in Lines : Settled(i) => Settled(i)'
    BY <1>1, <1>2 DEF Settled
  <2> QED BY <1>1, <1>2, <2>1 DEF IInv, Outcome
<1> QED BY <1>1, <1>3, <1>4, <1>5, ProcessKeeps

LEMMA MonitorKeeps ==
  ASSUME IInv, Monitor
  PROVE  IInv'
<1>1. /\ cancelled \/ pager = "exited"
      /\ cancelled' = TRUE
      /\ UNCHANGED <<setup, readerVars, queueVars, workerVars, jobVars, flusherVars, errVars,
                     mainVars, pager, readerGone>>
  BY DEF Monitor, OthersFrame
<1>2. Lines' = Lines /\ Items' = Items
  BY <1>1, Const
<1>3. OutTypes'
  BY <1>1, <1>2 DEF IInv, TypeOK
<1>4. Reasons'
  BY <1>1 DEF IInv, Reasons
<1>5. Outcome'
  <2>1. \A i \in Lines : Settled(i) => Settled(i)'
    BY <1>1, <1>2 DEF Settled
  <2> QED BY <1>1, <1>2, <2>1 DEF IInv, Outcome
<1> QED BY <1>1, <1>3, <1>4, <1>5, ProcessKeeps

LEMMA PagerExitKeeps ==
  ASSUME IInv, PagerExit
  PROVE  IInv'
<1>1. /\ pager' = "exited" /\ readerGone' = (readerGone \/ main = "wait")
      /\ UNCHANGED <<setup, readerVars, queueVars, workerVars, jobVars, flusherVars, errVars,
                     mainVars, cancelled, monitor>>
  BY DEF PagerExit, OthersFrame
<1>2. Lines' = Lines /\ Items' = Items
  BY <1>1, Const
<1>3. readerGone' \in BOOLEAN /\ (readerGone => readerGone') /\ (main = "wait" => readerGone')
  BY <1>1 DEF IInv, TypeOK
<1>4. OutTypes'
  BY <1>1, <1>2, <1>3 DEF IInv, TypeOK
<1>5. Reasons'
  BY <1>1, <1>3 DEF IInv, Reasons
<1>6. Outcome'
  <2>1. \A i \in Lines : Settled(i) => Settled(i)'
    BY <1>1, <1>2 DEF Settled
  <2> QED BY <1>1, <1>2, <1>3, <2>1 DEF IInv, Outcome
<1> QED BY <1>1, <1>4, <1>5, <1>6, ProcessKeeps

LEMMA StutterKeeps ==
  ASSUME IInv, UNCHANGED vars
  PROVE  IInv'
<1>1. UNCHANGED <<setup, readerVars, queueVars, workerVars, jobVars, flusherVars, errVars,
                  cancelled, mainVars, pagerVars>>
  BY DEF vars
<1>2. Lines' = Lines /\ Items' = Items
  BY <1>1, Const
<1>3. OutTypes' /\ Reasons'
  BY <1>1, <1>2 DEF IInv, TypeOK, Reasons
<1>4. Outcome'
  <2>1. \A i \in Lines : Settled(i) => Settled(i)'
    BY <1>1, <1>2 DEF Settled
  <2> QED BY <1>1, <1>2, <2>1 DEF IInv, Outcome
<1> QED BY <1>1, <1>3, <1>4, ProcessKeeps

-----------------------------------------------------------------------------
(***************************************************************************)
(* The theorems.                                                           *)
(***************************************************************************)
LEMMA ReaderKeeps ==
  ASSUME IInv, ReaderStep \/ ReaderInput
  PROVE  IInv'
<1>1. CASE ReaderCheck
  BY <1>1, ReaderCheckKeeps
<1>2. CASE FlushCurrent
  <2>1. CASE reader' = "dump"
    BY <1>2, <2>1, FlushDumpKeeps
  <2>2. CASE reader' # "dump"
    BY <1>2, <2>2, FlushJobKeeps
  <2> QED BY <2>1, <2>2
<1>3. CASE DumpLines
  <2>1. CASE todo # <<>>
    BY <1>3, <2>1, DumpLineKeeps
  <2>2. CASE todo = <<>>
    BY <1>3, <2>2, DumpEndKeeps
  <2> QED BY <2>1, <2>2
<1>4. CASE SendChunk
  BY <1>4, ChunkKeeps
<1>5. CASE TakePermit
  BY <1>5, TakePermitKeeps
<1>6. CASE SendToWorkers
  BY <1>6, SendToWorkersKeeps
<1>7. CASE SendToStream
  BY <1>7, SendToStreamKeeps
<1>8. CASE ReaderCancelled
  BY <1>8, ReaderCancelledKeeps
<1>9. CASE LastChunk
  BY <1>9, LastChunkKeeps
<1>10. CASE ReadLine
  BY <1>10, ReadLineKeeps
<1>11. CASE ReadEOF
  BY <1>11, ReadEOFKeeps
<1>12. CASE ReadFails
  BY <1>12, ReadFailsKeeps
<1> QED BY <1>1, <1>2, <1>3, <1>4, <1>5, <1>6, <1>7, <1>8, <1>9, <1>10, <1>11, <1>12
        DEF ReaderStep, ReaderInput

LEMMA FlusherStepKeeps ==
  ASSUME IInv, Flusher
  PROVE  IInv'
<1>1. CASE FlusherTake
  BY <1>1, FlusherTakeKeeps
<1>2. CASE FlusherExit
  BY <1>2, FlusherExitKeeps
<1>3. CASE FlusherAwait
  BY <1>3, FlusherAwaitKeeps
<1>4. CASE FlusherWrite
  <2>1. CASE flusher' = "exited"
    BY <1>4, <2>1, WriteFailsKeeps
  <2>2. CASE flusher' # "exited"
    BY <1>4, <2>2, WriteKeeps
  <2> QED BY <2>1, <2>2
<1>5. CASE FlusherRelease
  BY <1>5, FlusherReleaseKeeps
<1>6. CASE FlusherBlocks
  BY <1>6, FlusherBlocksKeeps
<1> QED BY <1>1, <1>2, <1>3, <1>4, <1>5, <1>6 DEF Flusher

LEMMA NextKeeps == IInv /\ [Next]_vars => IInv'
<1> SUFFICES ASSUME IInv, [Next]_vars PROVE IInv'
  OBVIOUS
<1>1. CASE ReaderStep \/ ReaderInput
  BY <1>1, ReaderKeeps
<1>2. ASSUME NEW w \in Workers, Worker(w) PROVE IInv'
  <2>1. CASE WorkerTake(w)
    BY <2>1, WorkerTakeKeeps
  <2>2. CASE WorkerRun(w)
    BY <2>2, WorkerRunKeeps
  <2>3. CASE WorkerClose(w)
    BY <2>3, WorkerCloseKeeps
  <2>4. CASE WorkerExit(w)
    BY <2>4, WorkerExitKeeps
  <2> QED BY <1>2, <2>1, <2>2, <2>3, <2>4 DEF Worker
<1>3. CASE Flusher
  BY <1>3, FlusherStepKeeps
<1>4. CASE Main
  <2>1. CASE MainResult
    BY <2>1, MainResultKeeps
  <2>2. CASE MainCancel \/ MainClosePager \/ MainPagerGone \/ MainJoin
    BY <2>2, TeardownKeeps
  <2> QED BY <1>4, <2>1, <2>2 DEF Main
<1>5. CASE Monitor
  BY <1>5, MonitorKeeps
<1>6. CASE PagerExit
  BY <1>6, PagerExitKeeps
<1>7. CASE Returned \/ UNCHANGED vars
  BY <1>7, StutterKeeps DEF Returned
<1> QED BY <1>1, <1>2, <1>3, <1>4, <1>5, <1>6, <1>7 DEF Next

\* The invariant of Process: types, the reader's hand, the order of the five places
\* a line passes through, the jobs, the permits, and what is accounted for.
THEOREM StreamDiffInvariant == Spec => []IInv
<1>1. Init => IInv
  BY InitInv
<1>2. IInv /\ [Next]_vars => IInv'
  BY NextKeeps
<1> QED BY <1>1, <1>2, PTL DEF Spec

\* Whatever the workers' speed and the sizes of the chunks, Process writes raw text
\* and rendered hunks in the order of the input, and no line twice.
THEOREM StreamDiffEmittedInOrder == Spec => []EmittedInOrder
<1>1. IInv => EmittedInOrder
  BY DEF IInv, Flow, InOrder, Increasing, EmittedInOrder
<1> QED BY <1>1, StreamDiffInvariant, PTL

\* A sequence without repetition is as long as the set of its elements.
LEMMA DistinctLength ==
  ASSUME NEW S, NEW s \in Seq(S), \A i, k \in 1 .. Len(s) : i # k => s[i] # s[k]
  PROVE  IsFiniteSet(Elems(s)) /\ Cardinality(Elems(s)) = Len(s)
<1>1. Len(s) \in Nat
  OBVIOUS
<1>2. IsFiniteSet(1 .. Len(s)) /\ Cardinality(1 .. Len(s)) = Len(s)
  <2>1. 1 \in Int /\ Len(s) \in Int
    BY <1>1
  <2>2. /\ IsFiniteSet(1 .. Len(s))
        /\ Cardinality(1 .. Len(s)) = IF 1 > Len(s) THEN 0 ELSE Len(s) - 1 + 1
    BY <2>1, FS_Interval, Zenon
  <2> QED BY <1>1, <2>2
<1> DEFINE f == [i \in 1 .. Len(s) |-> s[i]]
<1>3. f \in Bijection(1 .. Len(s), Elems(s))
  BY DEF Elems, Bijection, Injection, Surjection, IsInjective
<1>4. ExistsBijection(1 .. Len(s), Elems(s))
  BY <1>3 DEF ExistsBijection
<1> QED BY <1>2, <1>4, FS_Bijection

\* While the reader holds a permit for a job it has not sent, the jobs with the workers
\* leave room for it.
LEMMA RoomForJob ==
  ASSUME IInv, reader = "toWork"
  PROVE  Len(workQueue) < SemCap
<1>1. opening \notin Started /\ Own = 1 /\ permits <= SemCap /\ permits \in Nat
      /\ SemCap \in Nat /\ Cardinality(InFlight) + Own <= permits /\ workQueue \in Seq(Lines)
  <2>1. Sending /\ permit
    BY DEF Sending, IInv, Permits
  <2> QED BY <2>1, OpeningIsOwn DEF Own, IInv, Permits, TypeOK
<1>2. Elems(workQueue) \subseteq InFlight
  <2>1. Elems(workQueue) \subseteq Started
    BY <1>1, ElemsType DEF Started
  <2> QED BY <1>1, <2>1 DEF InFlight
<1>3. IsFiniteSet(InFlight) /\ Cardinality(InFlight) \in Nat
  BY FiniteJobs DEF IInv, TypeOK
<1>4. Cardinality(Elems(workQueue)) <= Cardinality(InFlight)
  BY <1>2, <1>3, FS_Subset
<1>5. Cardinality(Elems(workQueue)) = Len(workQueue) /\ Len(workQueue) \in Nat
  <2>1. \A i, k \in 1 .. Len(workQueue) : i # k => workQueue[i] # workQueue[k]
    BY DEF IInv, Jobs
  <2> QED BY <1>1, <2>1, DistinctLength
<1> QED BY <1>1, <1>3, <1>4, <1>5

\* The semaphore of Process counts exactly the jobs in flight; the flusher's
\* non-blocking receive never misses, and a job with a permit never waits for the workers.
THEOREM StreamDiffPermitsExact == Spec => []PermitsExact
<1>1. ASSUME IInv PROVE PermitsExact
  <2>1. ~cancelled =>
          permits = Cardinality(Queued) + Cardinality(Flushing) + (IF permit THEN 1 ELSE 0)
    BY <1>1 DEF IInv, Permits, Own
  <2>2. ASSUME flusher = "release" PROVE permits > 0
    <3>1. item.job \in InFlight
      BY <1>1, <2>2, FlusherJobIsOut
    <3>2. IsFiniteSet(InFlight) /\ Cardinality(InFlight) \in Nat /\ permits \in Nat
      BY <1>1, FiniteJobs DEF IInv, TypeOK
    <3>3. Cardinality(InFlight) # 0
      BY <3>1, <3>2, FS_EmptySet
    <3>4. Own \in {0, 1} /\ Cardinality(InFlight) + Own <= permits
      BY <1>1 DEF Own, IInv, Permits
    <3> QED BY <3>2, <3>3, <3>4
  <2>3. reader = "toWork" => Len(workQueue) < SemCap
    BY <1>1, RoomForJob
  <2> QED BY <2>1, <2>2, <2>3 DEF PermitsExact
<1> QED BY <1>1, StreamDiffInvariant, PTL

\* When Process returns nil and the reader of its output was there to the end, every line of
\* the input was written as it came, or stands in a hunk that was rendered or had no difference.
THEOREM StreamDiffNothingLost == Spec => []NothingLost
<1>1. ASSUME IInv, result = "nil", ~readerGone, NEW i \in Lines
      PROVE  \/ \E k \in 1 .. Len(emitted) : emitted[k] = i
             \/ \E h \in Lines :
                  /\ \E k \in 1 .. Len(lines[h]) : lines[h][k] = i
                  /\ \/ verdict[h] = "same"
                     \/ verdict[h] = "ok" /\ \E k \in 1 .. Len(emitted) : emitted[k] = h
  <2>1. i \in Elems(emitted) \/ Settled(i)
    BY <1>1 DEF IInv, Outcome
  <2> QED BY <2>1 DEF Settled, Elems
<1>2. IInv => NothingLost
  BY <1>1 DEF NothingLost
<1> QED BY <1>2, StreamDiffInvariant, PTL

=============================================================================
