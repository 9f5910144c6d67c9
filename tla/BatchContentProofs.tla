------------------------- MODULE BatchContentProofs -------------------------
(***************************************************************************)
(* Proofs about the batch blob reader, for any requests, pipe capacity and *)
(* blob size.  The answers carry nothing that says which request they      *)
(* answer, so the invariant gives every unit in the pipe a place: the spec *)
(* it answers and its position in that answer.  Places follow one another, *)
(* from the one the caller reads next to the one the process writes next.  *)
(***************************************************************************)
EXTENDS BatchContent, SequenceTheorems, TLAPS

Units == [kind : {"header", "data", "newline", "missing", "odd"}, name : Names]
Requested(n) == \E i \in Indexes(reqs) : reqs[i] = n
Listening == reader \in {"disk", "header", "data"}

TypeOK ==
  /\ reqs \in Seq(Names) /\ specs \in Seq(Names)
  /\ reader \in {"disk", "header", "data", "abort", "wait", "waitAbort", "fallback", "returned"}
  /\ at \in Nat /\ wanted \in Nat /\ got \in Seq(Names)
  /\ result \in [Names -> Names \cup {"nil", "unset", "mixed"}]
  /\ status \in {"none", "ok", "error"}
  /\ writer \in {"off", "writing", "exited"} /\ sent \in Nat
  /\ stdin \in Seq(Names) /\ stdout \in Seq(Units) /\ pending \in Seq(Units)
  /\ git \in {"running", "exited"}

\* Every request for git has a spec, and nothing else has.
SpecsAsked ==
  /\ \A i \in Indexes(specs) : Asked(specs[i]) /\ Requested(specs[i])
  /\ \A n \in Names : Requested(n) /\ Asked(n) => \E i \in Indexes(specs) : specs[i] = n

\* The specs git has taken; stdin holds those that were sent after them.
Served == sent - Len(stdin)

Queued ==
  /\ sent <= Len(specs) /\ Len(stdin) <= sent
  /\ \A i \in Indexes(stdin) : stdin[i] = specs[Served + i]

\* A place in the answers, and the one that follows.
Following(p) == IF p[2] < Len(Answer(specs[p[1]])) THEN <<p[1], p[2] + 1>> ELSE <<p[1] + 1, 1>>

ReadNext == <<at, IF reader = "data" THEN BlobUnits + 3 - wanted ELSE 1>>

WrittenNext == IF pending = <<>> THEN <<Served + 1, 1>>
               ELSE <<Served, Len(Answer(specs[Served])) - Len(pending) + 1>>

PendingIsRest ==
  pending # <<>> =>
    /\ Served \in Indexes(specs) /\ Len(pending) <= Len(Answer(specs[Served]))
    /\ \A i \in Indexes(pending) :
         pending[i] = Answer(specs[Served])[Len(Answer(specs[Served])) - Len(pending) + i]

PlacesOf(place) ==
  /\ place[1] = ReadNext /\ place[Len(stdout) + 1] = WrittenNext
  /\ \A j \in Indexes(stdout) :
       /\ place[j][1] \in Indexes(specs)
       /\ place[j][2] \in 1 .. Len(Answer(specs[place[j][1]]))
       /\ stdout[j] = Answer(specs[place[j][1]])[place[j][2]]
       /\ place[j + 1] = Following(place[j])

\* Once the process is gone and the pipe is empty there is nothing more to place: the
\* caller may have gone past a newline that never came.
Drained == git = "exited" /\ stdout = <<>>

Placed == Listening /\ ~Drained =>
            \E place \in [1 .. Len(stdout) + 1 -> Nat \X Nat] : PlacesOf(place)

\* What the caller has read of the answer in hand, and what it has of those before.
Reading ==
  /\ reader \in {"header", "data"} => at \in Indexes(specs)
  /\ reader = "disk" => at = 1
  /\ reader = "wait" => at = Len(specs) + 1
  /\ reader = "data" =>
       /\ Kind[specs[at]] = "blob"
       /\ wanted > 0 /\ Len(got) + wanted = BlobUnits + 1
       /\ \A i \in Indexes(got) : got[i] = specs[at]

Delivered ==
  /\ reader \in {"header", "data", "wait"} =>
       /\ \A n \in Names : Requested(n) /\ ~Asked(n) => result[n] # "unset"
       /\ \A i \in Indexes(specs) : i < at => result[specs[i]] # "unset"
  /\ reader # "returned" => status = "none"

IInv == TypeOK /\ SpecsAsked /\ Queued /\ PendingIsRest /\ Placed /\ Reading /\ Delivered
        /\ OwnContent /\ CompleteWhenOk

USE DEF readerVars, writerVars, gitVars, Frame, Indexes

-----------------------------------------------------------------------------
(***************************************************************************)
(* The model's operators.                                                  *)
(***************************************************************************)
\* What git answers: one line for what is no blob; for a blob a header, its contents
\* and a newline.
LEMMA AnswerShape ==
  ASSUME NEW n \in Names
  PROVE  /\ Answer(n) \in Seq(Units) /\ Len(Answer(n)) > 0
         /\ \A i \in 1 .. Len(Answer(n)) : Answer(n)[i].name = n
         /\ Kind[n] # "blob" => Len(Answer(n)) = 1 /\ Answer(n)[1].kind # "header"
         /\ Kind[n] # "blob" /\ Answer(n)[1].kind = "missing" => Kind[n] = "missing"
         /\ Kind[n] = "blob" => Len(Answer(n)) = BlobUnits + 2 /\ Answer(n)[1].kind = "header"
<1>1. CASE Kind[n] # "blob"
  <2>1. Answer(n) = <<Unit(IF Kind[n] = "missing" THEN "missing" ELSE "odd", n)>>
    <3>1. CASE Kind[n] = "missing"
      BY <3>1 DEF Answer
    <3>2. CASE Kind[n] # "missing"
      BY <1>1, <3>2 DEF Answer
    <3> QED BY <3>1, <3>2
  <2> QED BY <1>1, <2>1 DEF Unit, Units
<1>2. CASE Kind[n] = "blob"
  <2> DEFINE d == [i \in 1 .. BlobUnits |-> Unit("data", n)]
             u == <<Unit("header", n)>> \o d
  <2>1. d \in Seq(Units) /\ Len(d) = BlobUnits /\ \A i \in 1 .. BlobUnits : d[i] = Unit("data", n)
    BY PipeAssumption, IsASeq DEF Unit, Units
  <2>2. <<Unit("header", n)>> \in Seq(Units) /\ <<Unit("newline", n)>> \in Seq(Units)
    BY DEF Unit, Units
  <2>3. Answer(n) = u \o <<Unit("newline", n)>>
    BY <1>2 DEF Answer
  <2> HIDE DEF d
  <2>4. u \in Seq(Units) /\ Len(u) = BlobUnits + 1 /\ u[1] = Unit("header", n)
        /\ \A i \in 2 .. BlobUnits + 1 : u[i] = Unit("data", n)
    BY <2>1, <2>2, PipeAssumption
  <2> HIDE DEF u
  <2>5. /\ Answer(n) \in Seq(Units) /\ Len(Answer(n)) = BlobUnits + 2
        /\ \A i \in 1 .. BlobUnits + 1 : Answer(n)[i] = u[i]
        /\ Answer(n)[BlobUnits + 2] = Unit("newline", n)
    BY <2>2, <2>3, <2>4, PipeAssumption
  <2>6. ASSUME NEW i \in 1 .. Len(Answer(n)) PROVE Answer(n)[i].name = n
    <3>1. i = 1 \/ i \in 2 .. BlobUnits + 1 \/ i = BlobUnits + 2
      BY <2>5, PipeAssumption
    <3> QED BY <2>4, <2>5, <3>1, PipeAssumption DEF Unit
  <2>7. Answer(n)[1].kind = "header"
    BY <2>4, <2>5, PipeAssumption DEF Unit
  <2> QED BY <1>2, <2>5, <2>6, <2>7, PipeAssumption
<1> QED BY <1>1, <1>2

LEMMA SpecIsName ==
  ASSUME TypeOK, NEW i \in Indexes(specs)
  PROVE  specs[i] \in Names /\ Answer(specs[i]) \in Seq(Units) /\ Len(Answer(specs[i])) \in Nat \ {0}
<1>1. specs[i] \in Names
  BY DEF TypeOK
<1> QED BY <1>1, AnswerShape

\* Contents made of units of one name are that name's.
LEMMA WholeIsSpec ==
  ASSUME NEW u \in Seq(Names), \A i \in Indexes(u) : u[i] = specs[at]
  PROVE  Whole(u) = specs[at]
<1>1. CASE u = <<>>
  BY <1>1 DEF Whole
<1>2. CASE u # <<>>
  <2>1. Len(u) > 0
    BY <1>2, EmptySeq
  <2> QED BY <1>2, <2>1 DEF Whole
<1> QED BY <1>1, <1>2

-----------------------------------------------------------------------------
(***************************************************************************)
(* The pipe.                                                               *)
(***************************************************************************)
\* The unit at the head of the pipe is the one the caller's place says; the places of
\* the others do not change when it is taken.
LEMMA UnitRead ==
  ASSUME IInv, Listening, stdout # <<>>, stdout' = Tail(stdout)
  PROVE  /\ stdout' \in Seq(Units) /\ Head(stdout) \in Units
         /\ at \in Indexes(specs) /\ specs[at] \in Names
         /\ ReadNext[2] \in 1 .. Len(Answer(specs[at]))
         /\ Head(stdout) = Answer(specs[at])[ReadNext[2]]
         /\ Head(stdout).name = specs[at]
         /\ ReadNext' = Following(ReadNext) /\ UNCHANGED <<specs, sent, stdin, pending>> => Placed'
<1>1. stdout \in Seq(Units) /\ at \in Nat
  BY DEF IInv, TypeOK
<1>2. /\ Len(stdout) \in Nat /\ Len(stdout) > 0 /\ Head(stdout) = stdout[1] /\ stdout[1] \in Units
      /\ stdout' \in Seq(Units) /\ Len(stdout') = Len(stdout) - 1
      /\ \A j \in 1 .. Len(stdout) - 1 : stdout'[j] = stdout[j + 1]
  BY <1>1
<1>3. PICK place \in [1 .. Len(stdout) + 1 -> Nat \X Nat] : PlacesOf(place)
  BY DEF IInv, Placed, Drained
<1>4. /\ place[1] = ReadNext /\ place[1][1] \in Indexes(specs)
      /\ place[1][2] \in 1 .. Len(Answer(specs[place[1][1]]))
      /\ stdout[1] = Answer(specs[place[1][1]])[place[1][2]]
      /\ place[2] = Following(place[1])
  BY <1>2, <1>3 DEF PlacesOf
<1>5. ReadNext[1] = at
  BY DEF ReadNext
<1>6. at \in Indexes(specs) /\ specs[at] \in Names
  BY <1>4, <1>5, SpecIsName DEF IInv
<1>7. /\ ReadNext[2] \in 1 .. Len(Answer(specs[at]))
      /\ Head(stdout) = Answer(specs[at])[ReadNext[2]]
      /\ Head(stdout).name = specs[at]
  BY <1>2, <1>4, <1>5, <1>6, AnswerShape
<1>8. ASSUME ReadNext' = Following(ReadNext), UNCHANGED <<specs, sent, stdin, pending>>
      PROVE  Placed'
  <2>1. PICK next \in [1 .. Len(stdout') + 1 -> Nat \X Nat] :
               next = [j \in 1 .. Len(stdout') + 1 |-> place[j + 1]]
    <3>1. [j \in 1 .. Len(stdout') + 1 |-> place[j + 1]] \in [1 .. Len(stdout') + 1 -> Nat \X Nat]
      BY <1>2
    <3> QED BY <3>1
  <2>2. \A p : Following(p)' = Following(p)
    BY <1>8 DEF Following, Answer
  <2>3. WrittenNext' = WrittenNext
    BY <1>8 DEF WrittenNext, Served, Answer
  <2>4. next[1] = ReadNext' /\ next[Len(stdout') + 1] = WrittenNext'
    BY <1>2, <1>3, <1>4, <1>8, <2>1, <2>3 DEF PlacesOf
  <2>5. ASSUME NEW j \in 1 .. Len(stdout')
        PROVE  /\ next[j][1] \in 1 .. Len(specs')
               /\ next[j][2] \in 1 .. Len(Answer(specs'[next[j][1]]))
               /\ stdout'[j] = Answer(specs'[next[j][1]])[next[j][2]]
               /\ next[j + 1] = Following(next[j])
    <3>1. j + 1 \in Indexes(stdout) /\ next[j] = place[j + 1] /\ next[j + 1] = place[(j + 1) + 1]
          /\ stdout'[j] = stdout[j + 1]
      BY <1>2, <2>1
    <3> QED BY <1>3, <1>8, <3>1 DEF PlacesOf
  <2>6. PlacesOf(next)'
    BY <1>8, <2>2, <2>4, <2>5 DEF PlacesOf, Answer
  <2> QED BY <2>1, <2>6 DEF Placed
<1> QED BY <1>2, <1>6, <1>7, <1>8

\* What the requests on their way depend on.
LEMMA QueueStays ==
  ASSUME IInv, UNCHANGED <<reqs, specs, sent, stdin, pending>>
  PROVE  SpecsAsked' /\ Queued' /\ PendingIsRest'
<1>1. SpecsAsked'
  BY DEF IInv, SpecsAsked, Requested, Asked
<1>2. Served' = Served
  BY DEF Served
<1>3. Queued'
  BY <1>2 DEF IInv, Queued
<1>4. \A n : Answer(n)' = Answer(n)
  BY DEF Answer
<1>5. PendingIsRest'
  BY <1>2, <1>4 DEF IInv, PendingIsRest
<1> QED BY <1>1, <1>3, <1>5

\* Steps that neither read nor write an answer, and leave the process's place alone.
LEMMA PlacedStays ==
  ASSUME IInv, Listening, UNCHANGED <<specs, stdout>>,
         ReadNext' = ReadNext, WrittenNext' = WrittenNext, git = "exited" => git' = "exited"
  PROVE  Placed'
<1> SUFFICES ASSUME ~Drained'
             PROVE  \E place \in [1 .. Len(stdout) + 1 -> Nat \X Nat] : PlacesOf(place)'
  BY DEF Placed
<1>1. ~Drained
  BY DEF Drained
<1>2. PICK place \in [1 .. Len(stdout) + 1 -> Nat \X Nat] : PlacesOf(place)
  BY <1>1 DEF IInv, Placed
<1>3. PlacesOf(place)'
  BY <1>2 DEF PlacesOf, Following, Answer
<1> QED BY <1>3

-----------------------------------------------------------------------------
(***************************************************************************)
(* The caller's steps.                                                     *)
(***************************************************************************)
\* The answer in hand is done, with the content of its own spec.
LEMMA AnswerDoneKeeps ==
  ASSUME IInv, reader \in {"header", "data"}, NEW c, c = Content(specs[at]),
         AnswerDone(specs[at], c),
         UNCHANGED <<reqs, specs, status, sent, stdin, pending, writerVars, gitVars>>,
         stdout' \in Seq(Units), got' \in Seq(Names), wanted' \in Nat,
         Placed'
  PROVE  IInv'
<1>1. /\ at \in Indexes(specs) /\ specs[at] \in Names /\ c # "unset" /\ c \in Names \cup {"nil"}
      /\ Requested(specs[at])
  BY SpecIsName, NamesAssumption DEF IInv, Reading, Content, SpecsAsked
<1>2. /\ result' = [result EXCEPT ![specs[at]] = c] /\ at' = at + 1
      /\ reader' = (IF at' > Len(specs) THEN "wait" ELSE "header")
  BY DEF AnswerDone
<1>3. /\ result' \in [Names -> Names \cup {"nil", "unset", "mixed"}]
      /\ result'[specs[at]] = c
      /\ \A n \in Names : n # specs[at] => result'[n] = result[n]
  BY <1>1, <1>2 DEF IInv, TypeOK
<1>4. Len(specs) \in Nat /\ at \in Nat
  BY DEF IInv, TypeOK
<1>5. TypeOK'
  BY <1>2, <1>3, <1>4 DEF IInv, TypeOK
<1>6. SpecsAsked' /\ Queued' /\ PendingIsRest'
  BY QueueStays
<1>7. Reading'
  BY <1>1, <1>2, <1>4 DEF IInv, Reading
<1>8. Delivered'
  <2>1. \A n \in Names : result[n] # "unset" => result'[n] # "unset"
    BY <1>1, <1>3
  <2>2. ASSUME NEW k \in Indexes(specs), k < at' PROVE result'[specs[k]] # "unset"
    <3>1. k < at \/ k = at
      BY <1>2, <1>4, <2>2
    <3>2. specs[k] \in Names
      BY SpecIsName DEF IInv
    <3> QED BY <1>1, <1>3, <2>1, <3>1, <3>2 DEF IInv, Delivered
  <2> QED BY <1>2, <2>1, <2>2 DEF IInv, Delivered, Requested, Asked
<1>9. OwnContent'
  BY <1>1, <1>3 DEF IInv, OwnContent, Requested, Content
<1>10. CompleteWhenOk'
  BY DEF IInv, Delivered, CompleteWhenOk
<1> QED BY <1>5, <1>6, <1>7, <1>8, <1>9, <1>10 DEF IInv

\* Steps that deliver nothing and finish nothing.
LEMMA QuietKeeps ==
  ASSUME IInv, UNCHANGED <<reqs, specs, at, result>>,
         status' = status, reader' = reader \/ reader' \in {"abort", "waitAbort", "fallback"},
         reader' # "returned" \/ reader = "returned",
         reader = "returned" => reader' = "returned",
         TypeOK', Queued', PendingIsRest', Placed',
         reader' = "data" => UNCHANGED <<wanted, got>>
  PROVE  IInv'
<1>1. SpecsAsked'
  BY DEF IInv, SpecsAsked, Requested, Asked
<1>2. Reading'
  BY DEF IInv, Reading
<1>3. Delivered'
  BY DEF IInv, Delivered, Requested, Asked
<1>4. OwnContent' /\ CompleteWhenOk'
  BY DEF IInv, OwnContent, CompleteWhenOk, Content
<1> QED BY <1>1, <1>2, <1>3, <1>4 DEF IInv

LEMMA ReadDiskKeeps == IInv /\ ReadDisk => IInv'
<1> SUFFICES ASSUME IInv, ReadDisk PROVE IInv'
  OBVIOUS
<1>1. /\ reader = "disk" /\ at = 1 /\ status = "none" /\ Len(specs) \in Nat
      /\ UNCHANGED <<at, wanted, got, sent, stdin, stdinOpen, stdout, gitVars, reqs, specs>>
  BY DEF ReadDisk, IInv, Reading, Delivered, TypeOK
<1>2. CASE /\ result' = [n \in Names |-> IF ~Asked(n) /\ Requested(n) THEN Content(n) ELSE "unset"]
           /\ reader' = (IF specs = <<>> THEN "returned" ELSE "header")
           /\ status' = (IF specs = <<>> THEN "ok" ELSE "none")
           /\ writer' = (IF specs = <<>> THEN "off" ELSE "writing")
  <2>1. \A n \in Names : Content(n) # "unset" /\ Content(n) \in Names \cup {"nil"}
    BY NamesAssumption DEF Content
  <2>2. /\ result' \in [Names -> Names \cup {"nil", "unset", "mixed"}]
        /\ \A n \in Names : result'[n] # "unset" <=> ~Asked(n) /\ Requested(n)
        /\ \A n \in Names : result'[n] # "unset" => result'[n] = Content(n)
    BY <1>2, <2>1
  <2>3. specs # <<>> => 1 \in Indexes(specs)
    BY <1>1, EmptySeq DEF IInv, TypeOK
  <2>4. TypeOK'
    BY <1>1, <1>2, <2>2 DEF IInv, TypeOK
  <2>5. SpecsAsked' /\ Queued' /\ PendingIsRest'
    BY <1>1, QueueStays
  <2>6. Reading'
    BY <1>1, <1>2, <2>3 DEF Reading
  <2>7. Delivered'
    BY <1>1, <1>2, <2>2 DEF Delivered, Requested, Asked
  <2>8. Placed'
    <3>1. ReadNext' = ReadNext /\ WrittenNext' = WrittenNext
      BY <1>1, <1>2 DEF ReadNext, WrittenNext, Served, Answer
    <3> QED BY <1>1, <3>1, PlacedStays DEF Listening
  <2>9. OwnContent'
    BY <1>1, <2>2 DEF OwnContent, Requested, Content
  <2>10. CompleteWhenOk'
    <3> SUFFICES ASSUME status' = "ok", NEW i \in Indexes(reqs) PROVE result'[reqs[i]] # "unset"
      BY <1>1 DEF CompleteWhenOk
    <3>1. specs = <<>> /\ Len(specs) = 0
      BY <1>2
    <3>2. reqs[i] \in Names /\ Requested(reqs[i])
      BY DEF IInv, TypeOK, Requested
    <3>3. ~Asked(reqs[i])
      BY <3>1, <3>2 DEF IInv, SpecsAsked
    <3> QED BY <2>2, <3>2, <3>3
  <2> QED BY <2>4, <2>5, <2>6, <2>7, <2>8, <2>9, <2>10 DEF IInv
<1>3. CASE reader' = "returned" /\ status' = "error" /\ UNCHANGED <<result, writer>>
  <2>1. TypeOK'
    BY <1>1, <1>3 DEF IInv, TypeOK
  <2>2. SpecsAsked' /\ Queued' /\ PendingIsRest'
    BY <1>1, QueueStays
  <2>3. Placed' /\ Reading' /\ Delivered' /\ CompleteWhenOk'
    BY <1>3 DEF Placed, Listening, Reading, Delivered, CompleteWhenOk
  <2>4. OwnContent'
    BY <1>1, <1>3 DEF IInv, OwnContent, Content
  <2> QED BY <2>1, <2>2, <2>3, <2>4 DEF IInv
<1> QED BY <1>2, <1>3 DEF ReadDisk, Requested

LEMMA ReadHeaderKeeps == IInv /\ ReadHeader => IInv'
<1> SUFFICES ASSUME IInv, ReadHeader PROVE IInv'
  OBVIOUS
<1>1. /\ reader = "header" /\ Listening /\ stdout # <<>> /\ stdout' = Tail(stdout)
      /\ UNCHANGED <<reqs, specs, status, sent, stdin, pending, git, writer, stdinOpen>>
  BY DEF ReadHeader, Listening
<1>2. ReadNext = <<at, 1>>
  BY <1>1 DEF ReadNext
<1>3. /\ stdout' \in Seq(Units) /\ Head(stdout) \in Units
      /\ at \in Indexes(specs) /\ specs[at] \in Names /\ at \in Nat
      /\ Head(stdout) = Answer(specs[at])[1]
      /\ ReadNext' = Following(ReadNext) => Placed'
  BY <1>1, <1>2, UnitRead DEF IInv, TypeOK
<1>4. Queued' /\ PendingIsRest'
  BY <1>1, QueueStays
<1>5. CASE Head(stdout).kind = "missing"
  <2>1. AnswerDone(specs[at], "nil") /\ UNCHANGED <<wanted, got>>
    BY <1>5 DEF ReadHeader
  <2>2. Kind[specs[at]] = "missing" /\ Len(Answer(specs[at])) = 1
    BY <1>3, <1>5, AnswerShape
  <2>3. Placed'
    <3>1. Following(ReadNext) = <<at + 1, 1>>
      <4>1. ~(1 < Len(Answer(specs[at])))
        BY <2>2
      <4> QED BY <1>2, <4>1 DEF Following
    <3>2. ReadNext' = <<at + 1, 1>>
      BY <2>1 DEF AnswerDone, ReadNext
    <3> QED BY <1>3, <3>1, <3>2
  <2>4. Content(specs[at]) = "nil"
    BY <2>2 DEF Content
  <2> QED BY <1>1, <1>3, <2>1, <2>3, <2>4, AnswerDoneKeeps DEF IInv, TypeOK
<1>6. CASE Head(stdout).kind = "header"
  <2>1. reader' = "data" /\ wanted' = BlobUnits + 1 /\ got' = <<>> /\ UNCHANGED <<result, at>>
    BY <1>6 DEF ReadHeader
  <2>2. Kind[specs[at]] = "blob" /\ Len(Answer(specs[at])) = BlobUnits + 2
    BY <1>3, <1>6, AnswerShape
  <2>3. Placed'
    <3>1. Following(ReadNext) = <<at, 2>>
      BY <1>2, <2>2, PipeAssumption DEF Following
    <3>2. ReadNext' = <<at, 2>>
      BY <2>1, PipeAssumption DEF ReadNext
    <3> QED BY <1>3, <3>1, <3>2
  <2>4. TypeOK'
    BY <1>1, <1>3, <2>1, PipeAssumption DEF IInv, TypeOK
  <2>5. SpecsAsked' /\ OwnContent' /\ CompleteWhenOk'
    BY <1>1, <2>1 DEF IInv, SpecsAsked, Requested, Asked, OwnContent, CompleteWhenOk, Content
  <2>6. Reading'
    BY <1>1, <1>3, <2>1, <2>2, PipeAssumption DEF Reading
  <2>7. Delivered'
    BY <1>1, <2>1 DEF IInv, Delivered, Requested, Asked
  <2> QED BY <1>4, <2>3, <2>4, <2>5, <2>6, <2>7 DEF IInv
<1>7. CASE reader' = "abort" /\ UNCHANGED <<result, at, wanted, got>>
  <2>1. Placed'
    BY <1>7 DEF Placed, Listening
  <2>2. TypeOK'
    BY <1>1, <1>3, <1>7 DEF IInv, TypeOK
  <2> QED BY <1>1, <1>4, <1>7, <2>1, <2>2, QuietKeeps
<1> QED BY <1>5, <1>6, <1>7 DEF ReadHeader

LEMMA ReadDataKeeps == IInv /\ ReadData => IInv'
<1> SUFFICES ASSUME IInv, ReadData PROVE IInv'
  OBVIOUS
<1>1. /\ reader = "data" /\ Listening /\ stdout # <<>> /\ stdout' = Tail(stdout)
      /\ got' = Append(got, Head(stdout).name) /\ wanted' = wanted - 1
      /\ UNCHANGED <<reqs, specs, status, sent, stdin, pending, git, writer, stdinOpen>>
  BY DEF ReadData, Listening
<1>2. ReadNext = <<at, BlobUnits + 3 - wanted>>
  BY <1>1 DEF ReadNext
<1>3. /\ stdout' \in Seq(Units)
      /\ at \in Indexes(specs) /\ specs[at] \in Names /\ at \in Nat
      /\ Head(stdout).name = specs[at]
      /\ ReadNext' = Following(ReadNext) => Placed'
  BY <1>1, UnitRead DEF IInv, TypeOK
<1>4. /\ wanted \in Nat /\ wanted > 0 /\ Kind[specs[at]] = "blob" /\ Len(got) + wanted = BlobUnits + 1
      /\ got \in Seq(Names) /\ \A i \in Indexes(got) : got[i] = specs[at]
  BY <1>1 DEF IInv, TypeOK, Reading
<1>5. /\ got' \in Seq(Names) /\ Len(got') = Len(got) + 1 /\ Len(got) \in Nat
      /\ \A i \in Indexes(got') : got'[i] = specs[at]
  BY <1>1, <1>3, <1>4
<1>6. Len(Answer(specs[at])) = BlobUnits + 2
  BY <1>3, <1>4, AnswerShape
<1>7. CASE wanted > 1
  <2>1. UNCHANGED <<reader, at, result>>
    BY <1>7 DEF ReadData
  <2>2. Placed'
    <3>1. Following(ReadNext) = <<at, BlobUnits + 4 - wanted>>
      BY <1>2, <1>4, <1>6, <1>7, PipeAssumption DEF Following
    <3>2. ReadNext' = <<at, BlobUnits + 4 - wanted>>
      BY <1>1, <1>4, <2>1, PipeAssumption DEF ReadNext
    <3> QED BY <1>3, <3>1, <3>2
  <2>3. TypeOK'
    BY <1>1, <1>3, <1>4, <1>5, <2>1 DEF IInv, TypeOK
  <2>4. Queued' /\ PendingIsRest'
    BY <1>1, QueueStays
  <2>5. SpecsAsked' /\ OwnContent' /\ CompleteWhenOk'
    BY <1>1, <2>1 DEF IInv, SpecsAsked, Requested, Asked, OwnContent, CompleteWhenOk, Content
  <2>6. Reading'
    <3>1. reader' = "data" /\ at' = at /\ specs' = specs
      BY <1>1, <2>1
    <3>2. wanted' > 0 /\ Len(got') + wanted' = BlobUnits + 1
      <4>1. /\ wanted \in Nat /\ Len(got) \in Nat /\ Len(got') = Len(got) + 1
            /\ wanted' = wanted - 1 /\ Len(got) + wanted = BlobUnits + 1
        BY <1>1, <1>4, <1>5
      <4>2. BlobUnits \in Nat
        BY PipeAssumption
      <4> QED BY <1>7, <4>1, <4>2
    <3> QED BY <1>3, <1>4, <1>5, <3>1, <3>2 DEF Reading
  <2>7. Delivered'
    BY <1>1, <2>1 DEF IInv, Delivered, Requested, Asked
  <2> QED BY <2>2, <2>3, <2>4, <2>5, <2>6, <2>7 DEF IInv
<1>8. CASE ~(wanted > 1)
  <2>1. AnswerDone(specs[at], Whole(got'))
    BY <1>8 DEF ReadData
  <2>2. wanted = 1
    BY <1>4, <1>8
  <2>3. Placed'
    <3>1. Following(ReadNext) = <<at + 1, 1>>
      BY <1>2, <1>6, <2>2, PipeAssumption DEF Following
    <3>2. ReadNext' = <<at + 1, 1>>
      BY <2>1 DEF AnswerDone, ReadNext
    <3> QED BY <1>3, <3>1, <3>2
  <2>4. Whole(got') = specs[at]
    BY <1>5, WholeIsSpec
  <2>5. Content(specs[at]) = specs[at] /\ wanted' \in Nat
    BY <1>1, <1>4, <2>2 DEF Content
  <2> QED BY <1>1, <1>3, <1>5, <2>1, <2>3, <2>4, <2>5, AnswerDoneKeeps
<1> QED BY <1>7, <1>8

LEMMA ReadEOFKeeps == IInv /\ ReadEOF => IInv'
<1> SUFFICES ASSUME IInv, ReadEOF PROVE IInv'
  OBVIOUS
<1>1. /\ reader \in {"header", "data"} /\ stdout = <<>> /\ git = "exited"
      /\ UNCHANGED <<reqs, specs, got, status, sent, writer, stdin, stdinOpen, stdout, git, pending>>
  BY DEF ReadEOF
<1>2. Placed'
  BY <1>1 DEF Placed, Drained
<1>3. CASE reader = "data" /\ wanted = 1
  <2>1. wanted' = 0 /\ AnswerDone(specs[at], Whole(got))
    BY <1>3 DEF ReadEOF
  <2>2. /\ got \in Seq(Names) /\ Kind[specs[at]] = "blob"
        /\ \A i \in Indexes(got) : got[i] = specs[at]
    BY <1>3 DEF IInv, TypeOK, Reading
  <2>3. Whole(got) = specs[at] /\ Content(specs[at]) = specs[at]
    BY <2>2, WholeIsSpec DEF Content
  <2> QED BY <1>1, <1>2, <2>1, <2>2, <2>3, AnswerDoneKeeps DEF IInv, TypeOK
<1>4. CASE reader' = "abort" /\ UNCHANGED <<at, result, wanted>>
  <2>1. TypeOK'
    BY <1>1, <1>4 DEF IInv, TypeOK
  <2> QED BY <1>1, <1>2, <1>4, <2>1, QueueStays, QuietKeeps
<1> QED BY <1>3, <1>4 DEF ReadEOF

LEMMA AbortKeeps == IInv /\ Abort => IInv'
<1> SUFFICES ASSUME IInv, Abort PROVE IInv'
  OBVIOUS
<1>1. /\ reader = "abort" /\ reader' = "waitAbort"
      /\ UNCHANGED <<reqs, specs, at, wanted, got, result, status, writerVars, stdin, stdout, gitVars>>
  BY DEF Abort
<1>2. TypeOK' /\ Placed'
  BY <1>1 DEF IInv, TypeOK, Placed, Listening
<1> QED BY <1>1, <1>2, QueueStays, QuietKeeps

\* A call that ends well ends with every answer, or with a fresh map.
LEMMA ReturnKeeps ==
  ASSUME IInv, reader' = "returned",
         UNCHANGED <<reqs, specs, at, wanted, got, writerVars, stdin, stdinOpen, stdout, gitVars>>,
         result' \in [Names -> Names \cup {"nil", "unset", "mixed"}],
         status' \in {"ok", "error"}, OwnContent', CompleteWhenOk'
  PROVE  IInv'
<1>1. TypeOK'
  BY DEF IInv, TypeOK
<1>2. Placed' /\ Reading' /\ Delivered'
  BY DEF Placed, Listening, Reading, Delivered
<1> QED BY <1>1, <1>2, QueueStays DEF IInv

LEMMA WaitGitKeeps == IInv /\ WaitGit => IInv'
<1> SUFFICES ASSUME IInv, WaitGit PROVE IInv'
  OBVIOUS
<1>1. UNCHANGED <<reqs, specs, at, wanted, got, result, writerVars, stdin, stdinOpen, stdout, gitVars>>
  BY DEF WaitGit
<1>2. CASE reader = "wait" /\ reader' = "returned" /\ status' = "ok"
  <2>1. OwnContent'
    BY <1>1 DEF IInv, OwnContent, Content
  <2>2. CompleteWhenOk'
    <3> SUFFICES ASSUME NEW i \in Indexes(reqs) PROVE result[reqs[i]] # "unset"
      BY <1>1 DEF CompleteWhenOk
    <3>1. reqs[i] \in Names /\ Requested(reqs[i])
      BY DEF IInv, TypeOK, Requested
    <3>2. CASE Asked(reqs[i])
      <4>1. PICK k \in Indexes(specs) : specs[k] = reqs[i]
        BY <3>1, <3>2 DEF IInv, SpecsAsked
      <4>2. k < at
        BY <1>2, <4>1 DEF IInv, Reading, TypeOK
      <4> QED BY <1>2, <4>1, <4>2 DEF IInv, Delivered
    <3>3. CASE ~Asked(reqs[i])
      BY <1>2, <3>1, <3>3 DEF IInv, Delivered
    <3> QED BY <3>2, <3>3
  <2> QED BY <1>1, <1>2, <2>1, <2>2, ReturnKeeps DEF IInv, TypeOK
<1>3. CASE reader = "waitAbort" /\ reader' = "fallback" /\ status' = "none"
  <2>1. TypeOK' /\ Placed' /\ status = "none"
    BY <1>1, <1>3 DEF IInv, TypeOK, Placed, Listening, Delivered
  <2> QED BY <1>1, <1>3, <2>1, QueueStays, QuietKeeps
<1> QED BY <1>2, <1>3 DEF WaitGit

LEMMA FallbackKeepsIInv == IInv /\ Fallback => IInv'
<1> SUFFICES ASSUME IInv, Fallback PROVE IInv'
  OBVIOUS
<1>1. /\ reader' = "returned"
      /\ UNCHANGED <<reqs, specs, at, wanted, got, writerVars, stdin, stdinOpen, stdout, gitVars>>
  BY DEF Fallback
<1>2. CASE status' = "ok"
           /\ result' = [n \in Names |-> IF Requested(n) THEN Content(n) ELSE "unset"]
  <2>1. \A n \in Names : Content(n) # "unset" /\ Content(n) \in Names \cup {"nil"}
    BY NamesAssumption DEF Content
  <2>2. /\ result' \in [Names -> Names \cup {"nil", "unset", "mixed"}]
        /\ \A n \in Names : result'[n] # "unset" <=> Requested(n)
        /\ \A n \in Names : result'[n] # "unset" => result'[n] = Content(n)
    BY <1>2, <2>1
  <2>3. OwnContent'
    BY <1>1, <2>2 DEF OwnContent, Requested, Content
  <2>4. CompleteWhenOk'
    BY <1>1, <2>2 DEF IInv, TypeOK, CompleteWhenOk, Requested
  <2> QED BY <1>1, <1>2, <2>2, <2>3, <2>4, ReturnKeeps
<1>3. CASE status' = "error" /\ UNCHANGED result
  <2>1. OwnContent' /\ CompleteWhenOk'
    BY <1>1, <1>3 DEF IInv, OwnContent, CompleteWhenOk, Content
  <2> QED BY <1>1, <1>3, <2>1, ReturnKeeps DEF IInv, TypeOK
<1> QED BY <1>2, <1>3 DEF Fallback, Requested

-----------------------------------------------------------------------------
(***************************************************************************)
(* The writer goroutine and the process.                                   *)
(***************************************************************************)
LEMMA WriterKeeps == IInv /\ Writer => IInv'
<1> SUFFICES ASSUME IInv, Writer PROVE IInv'
  OBVIOUS
<1>1. sent \in Nat /\ stdin \in Seq(Names) /\ Len(stdin) \in Nat /\ Len(specs) \in Nat
  BY DEF IInv, TypeOK
<1>2. CASE WriteSpec
  <2>1. /\ sent < Len(specs) /\ git = "running"
        /\ stdin' = Append(stdin, specs[sent + 1]) /\ sent' = sent + 1
        /\ UNCHANGED <<reqs, specs, writer, readerVars, stdinOpen, stdout, gitVars>>
    BY <1>2 DEF WriteSpec
  <2>2. sent + 1 \in Indexes(specs) /\ specs[sent + 1] \in Names
    BY <1>1, <2>1, SpecIsName DEF IInv
  <2>3. /\ stdin' \in Seq(Names) /\ Len(stdin') = Len(stdin) + 1 /\ Served' = Served
        /\ \A i \in Indexes(stdin) : stdin'[i] = stdin[i]
        /\ stdin'[Len(stdin) + 1] = specs[sent + 1]
    BY <1>1, <2>1, <2>2 DEF Served
  <2>4. TypeOK'
    BY <1>1, <2>1, <2>3 DEF IInv, TypeOK
  <2>5. Queued'
    <3>1. sent' <= Len(specs) /\ Len(stdin') <= sent'
      BY <1>1, <2>1, <2>3 DEF IInv, Queued
    <3>2. ASSUME NEW i \in 1 .. Len(stdin') PROVE stdin'[i] = specs[Served + i]
      <4>1. CASE i = Len(stdin) + 1
        BY <1>1, <2>3, <4>1 DEF Served
      <4>2. CASE i # Len(stdin) + 1
        BY <1>1, <2>3, <4>2 DEF IInv, Queued
      <4> QED BY <4>1, <4>2
    <3> QED BY <2>1, <2>3, <3>1, <3>2 DEF Queued
  <2>6. \A n : Answer(n)' = Answer(n)
    BY DEF Answer
  <2>7. PendingIsRest' /\ WrittenNext' = WrittenNext
    BY <2>1, <2>3, <2>6 DEF IInv, PendingIsRest, WrittenNext
  <2>8. Placed'
    <3> SUFFICES ASSUME Listening' PROVE Placed'
      BY DEF Placed
    <3> QED BY <2>1, <2>7, PlacedStays DEF Listening, ReadNext
  <2> QED BY <2>1, <2>4, <2>5, <2>7, <2>8, QuietKeeps
<1>3. CASE WriterExit
  <2>1. /\ writer' = "exited"
        /\ UNCHANGED <<reqs, specs, sent, readerVars, stdin, stdout, gitVars>>
    BY <1>3 DEF WriterExit
  <2>2. TypeOK'
    BY <2>1 DEF IInv, TypeOK
  <2>3. Placed'
    <3> SUFFICES ASSUME Listening' PROVE Placed'
      BY DEF Placed
    <3> QED BY <2>1, PlacedStays DEF Listening, ReadNext, WrittenNext, Served, Answer
  <2> QED BY <2>1, <2>2, <2>3, QueueStays, QuietKeeps
<1> QED BY <1>2, <1>3 DEF Writer

LEMMA GitReadKeeps == IInv /\ GitRead => IInv'
<1> SUFFICES ASSUME IInv, GitRead PROVE IInv'
  OBVIOUS
<1>1. /\ git = "running" /\ pending = <<>> /\ stdin # <<>>
      /\ pending' = Answer(Head(stdin)) /\ stdin' = Tail(stdin)
      /\ UNCHANGED <<reqs, specs, git, readerVars, writerVars, stdinOpen, stdout>>
  BY DEF GitRead
<1>2. /\ sent \in Nat /\ stdin \in Seq(Names) /\ Len(stdin) \in Nat /\ Len(stdin) > 0
      /\ sent <= Len(specs) /\ Len(stdin) <= sent /\ Len(specs) \in Nat
  BY <1>1, EmptySeq DEF IInv, TypeOK, Queued
<1>3. /\ Head(stdin) = stdin[1] /\ stdin' \in Seq(Names) /\ Len(stdin') = Len(stdin) - 1
      /\ \A i \in 1 .. Len(stdin) - 1 : stdin'[i] = stdin[i + 1]
      /\ Served' = Served + 1 /\ Served \in Nat
  BY <1>1, <1>2 DEF Served
<1>4. Served + 1 \in Indexes(specs) /\ Head(stdin) = specs[Served + 1]
  BY <1>2, <1>3 DEF IInv, Queued, Served
<1>5. specs[Served + 1] \in Names
      /\ pending' \in Seq(Units) /\ Len(pending') \in Nat \ {0}
      /\ pending' = Answer(specs[Served + 1])
  BY <1>1, <1>4, SpecIsName DEF IInv
<1>6. TypeOK'
  BY <1>1, <1>3, <1>5 DEF IInv, TypeOK
<1>7. Queued'
  <2>1. ASSUME NEW i \in 1 .. Len(stdin') PROVE stdin'[i] = specs[Served + 1 + i]
    <3>1. i + 1 \in 1 .. Len(stdin) /\ stdin'[i] = stdin[i + 1]
      BY <1>2, <1>3
    <3>2. stdin[i + 1] = specs[Served + (i + 1)]
      BY <3>1 DEF IInv, Queued
    <3>3. Served + (i + 1) = Served + 1 + i
      BY <1>3
    <3> QED BY <3>1, <3>2, <3>3
  <2> QED BY <1>1, <1>2, <1>3, <2>1 DEF Queued
<1>8. \A n : Answer(n)' = Answer(n)
  BY DEF Answer
<1>9. PendingIsRest'
  BY <1>1, <1>3, <1>4, <1>5, <1>8 DEF PendingIsRest
<1>10. WrittenNext' = WrittenNext
  <2>1. pending' # <<>>
    BY <1>5
  <2>2. WrittenNext' = <<Served + 1, Len(pending') - Len(pending') + 1>>
    BY <1>1, <1>3, <1>5, <1>8, <2>1 DEF WrittenNext
  <2>3. Len(pending') - Len(pending') + 1 = 1
    BY <1>5
  <2> QED BY <1>1, <2>2, <2>3 DEF WrittenNext
<1>11. Placed'
  <2> SUFFICES ASSUME Listening' PROVE Placed'
    BY DEF Placed
  <2> QED BY <1>1, <1>10, PlacedStays DEF Listening, ReadNext
<1> QED BY <1>1, <1>6, <1>7, <1>9, <1>11, QuietKeeps

LEMMA GitWriteKeeps == IInv /\ GitWrite => IInv'
<1> SUFFICES ASSUME IInv, GitWrite PROVE IInv'
  OBVIOUS
<1>1. /\ git = "running" /\ pending # <<>>
      /\ stdout' = Append(stdout, Head(pending)) /\ pending' = Tail(pending)
      /\ UNCHANGED <<reqs, specs, git, readerVars, writerVars, stdin, stdinOpen>>
  BY DEF GitWrite
<1> DEFINE a == Answer(specs[Served])
<1>2. /\ stdout \in Seq(Units) /\ pending \in Seq(Units) /\ Len(stdout) \in Nat
      /\ Len(pending) \in Nat /\ Len(pending) > 0
  BY <1>1, EmptySeq DEF IInv, TypeOK
<1>3. /\ Head(pending) = pending[1] /\ pending[1] \in Units
      /\ pending' \in Seq(Units) /\ Len(pending') = Len(pending) - 1
      /\ \A i \in 1 .. Len(pending) - 1 : pending'[i] = pending[i + 1]
  BY <1>1, <1>2
<1>4. /\ stdout' \in Seq(Units) /\ Len(stdout') = Len(stdout) + 1
      /\ \A i \in 1 .. Len(stdout) : stdout'[i] = stdout[i]
      /\ stdout'[Len(stdout) + 1] = pending[1]
  BY <1>1, <1>2, <1>3
<1>5. /\ Served \in Indexes(specs) /\ a \in Seq(Units) /\ Len(a) \in Nat \ {0}
      /\ Len(pending) <= Len(a)
      /\ \A i \in Indexes(pending) : pending[i] = a[Len(a) - Len(pending) + i]
  BY <1>1, SpecIsName DEF IInv, PendingIsRest
<1>6. Served' = Served /\ ReadNext' = ReadNext /\ (\A n : Answer(n)' = Answer(n))
  BY <1>1 DEF Served, ReadNext, Answer
<1>7. a' = a
  BY <1>1, <1>6
<1> HIDE DEF a
<1>8. TypeOK'
  BY <1>1, <1>3, <1>4 DEF IInv, TypeOK
<1>9. Queued'
  BY <1>1, <1>6 DEF IInv, Queued
<1>10. PendingIsRest'
  <2>1. ASSUME NEW i \in 1 .. Len(pending') PROVE pending'[i] = a[Len(a) - Len(pending') + i]
    <3>1. i + 1 \in 1 .. Len(pending) /\ pending'[i] = pending[i + 1]
      BY <1>2, <1>3
    <3>2. pending[i + 1] = a[Len(a) - Len(pending) + (i + 1)]
      BY <1>5, <3>1
    <3>3. Len(a) - Len(pending) + (i + 1) = Len(a) - Len(pending') + i
      BY <1>2, <1>3, <1>5
    <3> QED BY <3>1, <3>2, <3>3
  <2>2. Len(pending') <= Len(a)
    BY <1>2, <1>3, <1>5
  <2> QED BY <1>1, <1>5, <1>6, <1>7, <2>1, <2>2 DEF PendingIsRest, a
<1>11. WrittenNext = <<Served, Len(a) - Len(pending) + 1>>
  BY <1>1 DEF WrittenNext, a
<1>12. WrittenNext' = Following(WrittenNext)
  <2>1. CASE Len(pending) = 1
    <3>1. pending' = <<>>
      BY <1>3, <2>1, EmptySeq
    <3>2. WrittenNext' = <<Served + 1, 1>>
      BY <1>6, <3>1 DEF WrittenNext
    <3>3. WrittenNext[1] = Served /\ ~(WrittenNext[2] < Len(a))
      BY <1>5, <1>11, <2>1
    <3> QED BY <3>2, <3>3 DEF Following, a
  <2>2. CASE Len(pending) # 1
    <3>1. Len(pending') # 0
      BY <1>2, <1>3, <2>2
    <3>2. pending' # <<>>
      BY <3>1
    <3>3. WrittenNext' = <<Served, Len(a) - Len(pending') + 1>>
      BY <1>1, <1>6, <1>7, <3>2 DEF WrittenNext, a
    <3>4. WrittenNext[1] = Served /\ WrittenNext[2] < Len(a)
          /\ WrittenNext[2] + 1 = Len(a) - Len(pending') + 1
      BY <1>2, <1>3, <1>5, <1>11, <2>2
    <3> QED BY <3>3, <3>4 DEF Following, a
  <2> QED BY <2>1, <2>2
<1>13. Placed'
  <2> SUFFICES ASSUME Listening
               PROVE  \E place \in [1 .. Len(stdout') + 1 -> Nat \X Nat] : PlacesOf(place)'
    BY <1>1 DEF Placed, Listening
  <2>1. PICK place \in [1 .. Len(stdout) + 1 -> Nat \X Nat] : PlacesOf(place)
    BY <1>1 DEF IInv, Placed, Drained
  <2>2. WrittenNext' \in Nat \X Nat
    <3>1. Served \in Nat /\ Len(a) - Len(pending) + 1 \in Nat
      BY <1>2, <1>5 DEF IInv, TypeOK
    <3> QED BY <1>5, <1>11, <1>12, <3>1 DEF Following
  <2>3. PICK next \in [1 .. Len(stdout') + 1 -> Nat \X Nat] :
             next = [j \in 1 .. Len(stdout') + 1 |->
                       IF j <= Len(stdout) + 1 THEN place[j] ELSE WrittenNext']
    <3>1. [j \in 1 .. Len(stdout') + 1 |-> IF j <= Len(stdout) + 1 THEN place[j] ELSE WrittenNext']
            \in [1 .. Len(stdout') + 1 -> Nat \X Nat]
      BY <1>2, <1>4, <2>2
    <3> QED BY <3>1
  <2>4. /\ \A j \in 1 .. Len(stdout) + 1 : next[j] = place[j]
        /\ next[Len(stdout) + 2] = WrittenNext'
    BY <1>2, <1>4, <2>3
  <2>5. \A p : Following(p)' = Following(p)
    BY <1>1, <1>6 DEF Following
  <2>6. next[1] = ReadNext' /\ next[Len(stdout') + 1] = WrittenNext'
    <3>1. place[1] = ReadNext
      BY <2>1 DEF PlacesOf
    <3> QED BY <1>2, <1>4, <1>6, <2>4, <3>1
  <2>7. ASSUME NEW j \in 1 .. Len(stdout')
        PROVE  /\ next[j][1] \in 1 .. Len(specs)
               /\ next[j][2] \in 1 .. Len(Answer(specs[next[j][1]]))
               /\ stdout'[j] = Answer(specs[next[j][1]])[next[j][2]]
               /\ next[j + 1] = Following(next[j])
    <3>1. CASE j = Len(stdout) + 1
      <4>1. next[j] = WrittenNext /\ next[j + 1] = Following(WrittenNext)
        <5>1. place[Len(stdout) + 1] = WrittenNext
          BY <2>1 DEF PlacesOf
        <5> QED BY <1>2, <1>12, <2>4, <3>1, <5>1
      <4>2. stdout'[j] = a[Len(a) - Len(pending) + 1]
        <5>1. stdout'[j] = pending[1] /\ 1 \in Indexes(pending)
          BY <1>2, <1>4, <3>1
        <5> QED BY <1>5, <5>1
      <4>3. next[j][1] = Served /\ next[j][2] = Len(a) - Len(pending) + 1
        BY <1>11, <4>1
      <4>4. Len(a) - Len(pending) + 1 \in 1 .. Len(a)
        BY <1>2, <1>5
      <4> QED BY <1>5, <4>1, <4>2, <4>3, <4>4 DEF a
    <3>2. CASE j # Len(stdout) + 1
      <4>1. j \in Indexes(stdout) /\ j + 1 \in 1 .. Len(stdout) + 1
        BY <1>2, <1>4, <3>2
      <4>2. next[j] = place[j] /\ next[j + 1] = place[j + 1] /\ stdout'[j] = stdout[j]
        BY <1>2, <1>4, <2>4, <4>1
      <4> QED BY <2>1, <4>1, <4>2 DEF PlacesOf
    <3> QED BY <3>1, <3>2
  <2>8. PlacesOf(next)'
    BY <1>1, <1>6, <2>5, <2>6, <2>7 DEF PlacesOf
  <2> QED BY <2>8
<1> QED BY <1>1, <1>8, <1>9, <1>10, <1>13, QuietKeeps

LEMMA GitEndsKeeps == IInv /\ (GitExit \/ GitDies) => IInv'
<1> SUFFICES ASSUME IInv, GitExit \/ GitDies PROVE IInv'
  OBVIOUS
<1>1. /\ git' = "exited"
      /\ UNCHANGED <<reqs, specs, pending, readerVars, writerVars, stdin, stdinOpen, stdout>>
  BY DEF GitExit, GitDies
<1>2. TypeOK'
  BY <1>1 DEF IInv, TypeOK
<1>3. Placed'
  <2> SUFFICES ASSUME Listening' PROVE Placed'
    BY DEF Placed
  <2> QED BY <1>1, PlacedStays DEF Listening, ReadNext, WrittenNext, Served, Answer
<1> QED BY <1>1, <1>2, <1>3, QueueStays, QuietKeeps

-----------------------------------------------------------------------------
(***************************************************************************)
(* The theorems.                                                           *)
(***************************************************************************)
LEMMA InitIInv == Init => IInv
<1> SUFFICES ASSUME Init PROVE IInv
  OBVIOUS
<1>1. /\ reqs \in RequestLists /\ specs \in Dedups(reqs)
      /\ reader = "disk" /\ at = 1 /\ wanted = 0 /\ got = <<>>
      /\ result = [n \in Names |-> "unset"] /\ status = "none"
      /\ writer = "off" /\ sent = 0
      /\ stdin = <<>> /\ stdout = <<>> /\ git = "running" /\ pending = <<>>
  BY DEF Init
<1>2. reqs \in Seq(Names)
  BY <1>1, NamesAssumption
<1>3. specs \in Seq(Names) /\ IsDedup(specs, reqs)
  BY <1>1 DEF Dedups
<1>4. TypeOK
  <2>1. result \in [Names -> Names \cup {"nil", "unset", "mixed"}]
    BY <1>1
  <2>2. got \in Seq(Names) /\ stdin \in Seq(Names) /\ stdout \in Seq(Units) /\ pending \in Seq(Units)
    BY <1>1
  <2> QED BY <1>1, <1>2, <1>3, <2>1, <2>2 DEF TypeOK
<1>5. SpecsAsked
  <2>1. {specs[i] : i \in Indexes(specs)} = {n \in {reqs[i] : i \in Indexes(reqs)} : Asked(n)}
    BY <1>3 DEF IsDedup
  <2> QED BY <2>1 DEF SpecsAsked, Requested
<1>6. Queued /\ PendingIsRest /\ Reading /\ Delivered /\ OwnContent /\ CompleteWhenOk
  BY <1>1, <1>3 DEF Queued, PendingIsRest, Reading, Delivered, OwnContent, CompleteWhenOk, Served
<1>7. Placed
  <2>1. ReadNext = <<1, 1>> /\ WrittenNext = <<1, 1>>
    BY <1>1 DEF ReadNext, WrittenNext, Served
  <2>2. PlacesOf(<< <<1, 1>> >>) /\ << <<1, 1>> >> \in [1 .. Len(stdout) + 1 -> Nat \X Nat]
    BY <1>1, <2>1 DEF PlacesOf
  <2> QED BY <2>2 DEF Placed
<1> QED BY <1>4, <1>5, <1>6, <1>7 DEF IInv

LEMMA NextIInv == IInv /\ [Next]_vars => IInv'
<1> SUFFICES ASSUME IInv, [Next]_vars PROVE IInv'
  OBVIOUS
<1>1. CASE Reader
  BY <1>1, ReadDiskKeeps, ReadHeaderKeeps, ReadDataKeeps, ReadEOFKeeps, AbortKeeps,
     WaitGitKeeps, FallbackKeepsIInv DEF Reader
<1>2. CASE Writer
  BY <1>2, WriterKeeps
<1>3. CASE Git
  BY <1>3, GitReadKeeps, GitWriteKeeps, GitEndsKeeps DEF Git
<1>4. CASE GitDies
  BY <1>4, GitEndsKeeps
<1>5. CASE UNCHANGED vars
  <2>1. UNCHANGED <<reqs, specs, reader, at, wanted, got, result, status, writer, sent, stdin,
                    stdout, git, pending>>
    BY <1>5 DEF vars
  <2>2. TypeOK'
    BY <2>1 DEF IInv, TypeOK
  <2>3. Placed'
    <3> SUFFICES ASSUME Listening' PROVE Placed'
      BY DEF Placed
    <3> QED BY <2>1, PlacedStays DEF Listening, ReadNext, WrittenNext, Served, Answer
  <2> QED BY <2>1, <2>2, <2>3, QueueStays, QuietKeeps
<1> QED BY <1>1, <1>2, <1>3, <1>4, <1>5 DEF Next, Returned

\* The invariant of GetBatchContent: what git has still to write, what is in the pipe and
\* what the reader holds is the sequence of answers to the requests it has sent, in order.
THEOREM BatchContentInvariant == Spec => []IInv
BY InitIInv, NextIInv, PTL DEF Spec

\* Order alone matches the answers to the requests (GetBatchContent): whatever the batch
\* delivered, the map never gives a request another's contents.
THEOREM BatchContentOwnContent == Spec => []OwnContent
<1>1. IInv => OwnContent
  BY DEF IInv
<1> QED BY <1>1, BatchContentInvariant, PTL

\* A nil error of GetBatchContent means that every request has an entry.
THEOREM BatchContentCompleteWhenOk == Spec => []CompleteWhenOk
<1>1. IInv => CompleteWhenOk
  BY DEF IInv
<1> QED BY <1>1, BatchContentInvariant, PTL
=============================================================================
