------------------------- MODULE BatchSessionProofs -------------------------
(***************************************************************************)
(* Proofs about the batch session, for any hunks, failure limit and blob   *)
(* size.  Fetching says what the reader may rely on at each of its steps;  *)
(* Pipes accounts for every unit of the one answer that may be on its way; *)
(* Reading follows the contents that are put together; Provenance and      *)
(* Costs are about the hunks that are done.                                *)
(***************************************************************************)
EXTENDS BatchSession, FiniteSetTheorems, SequenceTheorems, TLAPS

Units == [kind : {"header", "data", "newline", "missing", "odd"}, object : Objects]
Blobs == Objects \cup {"nil", "disk"}
Underway == client \in {"header", "data", "newline"}
Fetched == client \in {"write", "single", "disk", "header", "data", "newline"}
Intact(o) == Kind[o] \in {"blob", "empty", "zero"}

TypeOK ==
  /\ hunks \in HunkLists /\ hunks \in Seq(Objects \X Objects)
  /\ available \in BOOLEAN
  /\ client \in {"next", "write", "single", "disk", "header", "data", "newline", "wait", "done"}
  /\ at \in 1 .. Len(hunks) + 1 /\ side \in {1, 2}
  /\ wanted \in Nat /\ got \in Seq(Objects) /\ old \in Blobs
  /\ results \in [Hunks -> {NotYet, Raw} \cup (Blobs \X Blobs)]
  /\ failures \in Nat /\ poisoned \in BOOLEAN /\ closed \in BOOLEAN
  /\ stdin \in Seq(Objects) /\ stdinOpen \in BOOLEAN /\ stdout \in Seq(Units)
  /\ git \in {"running", "exited"} /\ pending \in Seq(Units) /\ reaped \in BOOLEAN

\* A request is for an object, and is made to a session that has not been given up.
Fetching ==
  /\ side = 2 => at \in Hunks
  /\ Fetched => at \in Hunks /\ Kind[Asked] # "zero"
  /\ client = "write" \/ Underway => available /\ ~poisoned
  /\ client = "single" => available
  /\ ~available => git = "exited"
  /\ git = "running" /\ client \notin {"wait", "done"} => stdinOpen

\* The units of the answer that have left the pipe.
Taken == IF client = "header" THEN 0 ELSE Len(got) + 1

\* git has taken the request: stdout, and after it pending, go on with its answer
\* where the reader is.  A process that is gone leaves a part of it.
Answering ==
  /\ stdin = <<>>
  /\ Kind[Asked] = "corrupt" => git = "exited" /\ Taken + Len(stdout) <= 1
  /\ Taken + Len(stdout) <= Len(Answer(Asked))
  /\ \A i \in 1 .. Len(stdout) : stdout[i] = Answer(Asked)[Taken + i]
  /\ git = "running" =>
       /\ Taken + Len(stdout) + Len(pending) = Len(Answer(Asked))
       /\ \A i \in 1 .. Len(pending) : pending[i] = Answer(Asked)[Taken + Len(stdout) + i]

Waiting == client = "header" /\ stdin = <<Asked>> /\ stdout = <<>> /\ pending = <<>>

Pipes ==
  /\ Underway => Waiting \/ Answering
  /\ ~Underway /\ git = "running" => stdin = <<>> /\ stdout = <<>> /\ pending = <<>>

\* The contents read so far are the object's, and the rest of them is still wanted.
Reading ==
  /\ client = "data" => /\ Kind[Asked] \in {"blob", "corrupt"}
                        /\ wanted > 0
  /\ client = "newline" => /\ Kind[Asked] \in {"blob", "empty"}
                           /\ wanted = 0
  /\ client \in {"data", "newline"} =>
       /\ wanted + Len(got) = Size(Asked)
       /\ \A i \in 1 .. Len(got) : got[i] = Asked

\* What stands for an object: itself or a file, and nothing exactly for the null id.
StandsFor(c, o) == c \in {o, "disk", "nil"} /\ (c = "nil" <=> Kind[o] = "zero")

Provenance ==
  /\ side = 2 => StandsFor(old, hunks[at][1])
  /\ OwnBlobs

\* The hunks whose objects git has, and that were passed through raw all the same.
Spoilt == {h \in Hunks : /\ results[h] = Raw
                         /\ available
                         /\ \A s \in {1, 2} : Kind[hunks[h][s]] \in {"blob", "empty", "zero"}}

Costs ==
  /\ failures <= FailureLimit
  /\ ~poisoned => failures < FailureLimit
  /\ available /\ client = "disk" => ~Intact(Asked)
  /\ available /\ side = 2 /\ old = "disk" => ~Intact(hunks[at][1])
  /\ Spoilt # {} => git = "exited" /\ ~Underway
  /\ IsFiniteSet(Spoilt) /\ Cardinality(Spoilt) <= failures

IInv == TypeOK /\ Fetching /\ Pipes /\ Reading /\ Provenance /\ Costs

USE DEF clientVars, sessionVars, pipeVars, gitVars

-----------------------------------------------------------------------------
(***************************************************************************)
(* The model's operators.                                                  *)
(***************************************************************************)
LEMMA LastIsNewline ==
  ASSUME NEW o \in Objects, NEW n \in Nat,
         NEW s, s = <<Unit("header", o)>> \o [i \in 1 .. n |-> Unit("data", o)]
                    \o <<Unit("newline", o)>>
  PROVE  /\ s \in Seq(Units) /\ Len(s) = n + 2
         /\ s[1] = Unit("header", o) /\ s[n + 2] = Unit("newline", o)
         /\ \A i \in 2 .. n + 1 : s[i] = Unit("data", o)
<1> DEFINE d == [i \in 1 .. n |-> Unit("data", o)]
           u == <<Unit("header", o)>> \o d
<1>1. d \in Seq(Units) /\ Len(d) = n /\ \A i \in 1 .. n : d[i] = Unit("data", o)
  BY IsASeq DEF Unit, Units
<1>2. /\ <<Unit("header", o)>> \in Seq(Units) /\ <<Unit("newline", o)>> \in Seq(Units)
  BY DEF Unit, Units
<1> HIDE DEF d
<1>3. u \in Seq(Units) /\ Len(u) = n + 1 /\ u[1] = Unit("header", o)
      /\ \A i \in 2 .. n + 1 : u[i] = Unit("data", o)
  BY <1>1, <1>2
<1> HIDE DEF u
<1>4. s = u \o <<Unit("newline", o)>>
  BY DEF u, d
<1> QED BY <1>2, <1>3, <1>4

\* What git answers: one line for an object it does not have, else a header, the
\* contents of a blob, and a newline.
LEMMA AnswerShape ==
  ASSUME NEW o \in Objects
  PROVE  /\ Answer(o) \in Seq(Units) /\ Len(Answer(o)) > 0
         /\ \A i \in 1 .. Len(Answer(o)) : Answer(o)[i].object = o
         /\ Kind[o] \in {"missing", "odd"} =>
              Len(Answer(o)) = 1 /\ Answer(o)[1].kind = Kind[o]
         /\ Kind[o] \notin {"missing", "odd"} =>
              LET n == IF Kind[o] = "blob" THEN BlobUnits ELSE 0 IN
              /\ Len(Answer(o)) = n + 2
              /\ Answer(o)[1].kind = "header" /\ Answer(o)[n + 2].kind = "newline"
              /\ \A i \in 2 .. n + 1 : Answer(o)[i].kind = "data"
<1> DEFINE n == IF Kind[o] = "blob" THEN BlobUnits ELSE 0
<1>1. CASE Kind[o] \in {"missing", "odd"}
  <2>1. Answer(o) = <<Unit(Kind[o], o)>>
    <3>1. CASE Kind[o] = "missing"
      BY <3>1 DEF Answer
    <3>2. CASE Kind[o] = "odd"
      BY <3>2 DEF Answer
    <3> QED BY <1>1, <3>1, <3>2
  <2>2. Unit(Kind[o], o) \in Units
    BY <1>1 DEF Unit, Units
  <2> QED BY <1>1, <2>1, <2>2 DEF Unit
<1>2. CASE Kind[o] \notin {"missing", "odd"}
  <2>1. n \in Nat
    BY LimitAssumption
  <2>2. Answer(o) = <<Unit("header", o)>> \o [i \in 1 .. n |-> Unit("data", o)]
                    \o <<Unit("newline", o)>>
    BY <1>2 DEF Answer
  <2> HIDE DEF n
  <2>3. /\ Answer(o) \in Seq(Units) /\ Len(Answer(o)) = n + 2
        /\ Answer(o)[1] = Unit("header", o) /\ Answer(o)[n + 2] = Unit("newline", o)
        /\ \A i \in 2 .. n + 1 : Answer(o)[i] = Unit("data", o)
    BY <2>1, <2>2, LastIsNewline
  <2>4. \A i \in 1 .. n + 2 : i = 1 \/ i \in 2 .. n + 1 \/ i = n + 2
    BY <2>1
  <2> QED BY <1>2, <2>1, <2>3, <2>4 DEF Unit, n
<1> QED BY <1>1, <1>2

LEMMA AskedIsObject ==
  ASSUME TypeOK, at \in Hunks
  PROVE  /\ Asked \in Objects
         /\ hunks[at] \in Objects \X Objects
         /\ hunks[at][1] \in Objects /\ hunks[at][2] \in Objects
<1>1. hunks[at] \in Objects \X Objects
  BY DEF TypeOK, Hunks
<1>2. side = 1 \/ side = 2
  BY DEF TypeOK
<1> QED BY <1>1, <1>2 DEF Asked

-----------------------------------------------------------------------------
(***************************************************************************)
(* What a blob in hand, or an error, does to the hunks.                    *)
(***************************************************************************)
LEMMA SpoiltSmaller ==
  ASSUME IInv, NEW S, S \subseteq Spoilt
  PROVE  IsFiniteSet(S) /\ Cardinality(S) <= Cardinality(Spoilt)
BY FS_Subset DEF IInv, Costs

\* A blob that stands for the object asked for spoils nothing: a hunk is passed
\* through raw only when neither object was there.
LEMMA HaveKeeps ==
  ASSUME IInv, at \in Hunks, NEW c \in Blobs, StandsFor(c, Asked),
         available /\ c = "disk" => ~Intact(Asked),
         Have(c), UNCHANGED <<hunks, available>>
  PROVE  /\ client' = "next" /\ at' \in 1 .. Len(hunks) + 1 /\ side' \in {1, 2}
         /\ old' \in Blobs
         /\ results' \in [Hunks -> {NotYet, Raw} \cup (Blobs \X Blobs)]
         /\ side' = 2 => at' \in Hunks
         /\ Provenance'
         /\ available /\ side' = 2 /\ old' = "disk" => ~Intact(hunks[at'][1])
         /\ Spoilt' \subseteq Spoilt
<1>1. /\ at \in Nat /\ Len(hunks) \in Nat /\ at <= Len(hunks) /\ Hunks' = Hunks
      /\ Hunks = 1 .. Len(hunks)
  BY DEF Hunks, IInv, TypeOK
<1>2. /\ hunks[at][1] \in Objects /\ hunks[at][2] \in Objects
  BY AskedIsObject DEF IInv
<1>3. CASE side = 1
  <2>1. /\ client' = "next" /\ side' = 2 /\ old' = c /\ at' = at /\ results' = results
    BY <1>3 DEF Have
  <2>2. Asked = hunks[at][1]
    BY <1>3 DEF Asked
  <2>3. Provenance' /\ Spoilt' = Spoilt
    BY <1>1, <2>1, <2>2 DEF IInv, Provenance, OwnBlobs, Rendered, StandsFor, Spoilt, NotYet, Raw
  <2> QED BY <1>1, <2>1, <2>2, <2>3 DEF IInv, TypeOK
<1>4. CASE side = 2
  <2>1. /\ client' = "next" /\ side' = 1 /\ old' = "nil" /\ at' = at + 1
        /\ results' = [results EXCEPT ![at] = Deliver(old, c)]
    BY <1>4 DEF Have
  <2>2. Asked = hunks[at][2]
    BY <1>4 DEF Asked
  <2>3. old \in Blobs /\ StandsFor(old, hunks[at][1])
        /\ (available /\ old = "disk" => ~Intact(hunks[at][1]))
    BY <1>4 DEF IInv, TypeOK, Provenance, Costs
  <2>4. \/ Deliver(old, c) = <<old, c>>
        \/ Deliver(old, c) = Raw /\ old = "disk" /\ c = "disk"
    BY DEF Deliver
  <2>5. /\ results \in [Hunks -> {NotYet, Raw} \cup (Blobs \X Blobs)]
        /\ results'[at] = Deliver(old, c)
        /\ \A h \in Hunks : h # at => results'[h] = results[h]
    BY <2>1 DEF IInv, TypeOK
  <2>6. <<old, c>> # Raw
    BY DEF Raw
  <2>7. results' \in [Hunks -> {NotYet, Raw} \cup (Blobs \X Blobs)]
    BY <2>1, <2>3, <2>4, <2>5
  <2>8. Spoilt' \subseteq Spoilt
    <3> SUFFICES ASSUME NEW h \in Spoilt' PROVE h \in Spoilt
      OBVIOUS
    <3>1. CASE h = at
      BY <1>1, <1>2, <2>2, <2>3, <2>4, <2>5, <2>6, <3>1 DEF Spoilt, Intact
    <3>2. CASE h # at
      BY <1>1, <2>5, <3>2 DEF Spoilt, Raw
    <3> QED BY <3>1, <3>2
  <2>9. OwnBlobs'
    <3> SUFFICES ASSUME NEW h \in Rendered', NEW s \in {1, 2}
                 PROVE  StandsFor(results'[h][s], hunks[h][s])
      BY DEF OwnBlobs, StandsFor
    <3>1. h \in Hunks /\ results'[h] \notin {NotYet, Raw}
      BY <1>1 DEF Rendered, NotYet, Raw
    <3>2. CASE h = at
      <4>1. results'[h] = <<old, c>>
        BY <2>4, <2>5, <3>1, <3>2
      <4> QED BY <2>2, <2>3, <3>2, <4>1
    <3>3. CASE h # at
      <4>1. h \in Rendered /\ results'[h] = results[h]
        BY <2>5, <3>1, <3>3 DEF Rendered
      <4> QED BY <4>1 DEF IInv, Provenance, OwnBlobs, StandsFor
    <3> QED BY <3>2, <3>3
  <2> QED BY <1>1, <2>1, <2>7, <2>8, <2>9 DEF Provenance, Blobs
<1> QED BY <1>3, <1>4 DEF IInv, TypeOK

\* An error costs the hunk in hand, and no other.
LEMMA GiveUpKeeps ==
  ASSUME IInv, at \in Hunks, GiveUp, UNCHANGED <<hunks, available>>
  PROVE  /\ client' = "next" /\ at' \in 1 .. Len(hunks) + 1 /\ side' = 1 /\ old' = "nil"
         /\ results' \in [Hunks -> {NotYet, Raw} \cup (Blobs \X Blobs)]
         /\ Provenance'
         /\ Spoilt' \subseteq Spoilt \cup {at}
         /\ ~available \/ ~Intact(hunks[at][1]) \/ ~Intact(hunks[at][2]) => Spoilt' \subseteq Spoilt
<1>1. /\ at \in Nat /\ Len(hunks) \in Nat /\ at <= Len(hunks) /\ Hunks' = Hunks
      /\ Hunks = 1 .. Len(hunks)
  BY DEF Hunks, IInv, TypeOK
<1>2. /\ results \in [Hunks -> {NotYet, Raw} \cup (Blobs \X Blobs)]
      /\ results'[at] = Raw
      /\ \A h \in Hunks : h # at => results'[h] = results[h]
      /\ results' \in [Hunks -> {NotYet, Raw} \cup (Blobs \X Blobs)]
  BY DEF IInv, TypeOK, GiveUp
<1>3. OwnBlobs'
  <2> SUFFICES ASSUME NEW h \in Rendered', NEW s \in {1, 2}
               PROVE  StandsFor(results'[h][s], hunks[h][s])
    BY DEF OwnBlobs, StandsFor
  <2>1. h \in Rendered /\ results'[h] = results[h]
    BY <1>1, <1>2 DEF Rendered, NotYet, Raw
  <2> QED BY <2>1 DEF IInv, Provenance, OwnBlobs, StandsFor
<1>4. /\ Spoilt' \subseteq Spoilt \cup {at}
      /\ at \in Spoilt' => available /\ Intact(hunks[at][1]) /\ Intact(hunks[at][2])
  BY <1>1, <1>2 DEF Spoilt, Raw, Intact
<1> QED BY <1>1, <1>2, <1>3, <1>4 DEF GiveUp, Provenance, Spoilt

\* Between two requests nothing is on its way, so a blob found without one changes
\* only the hunks.
LEMMA QuietHave ==
  ASSUME IInv, at \in Hunks, ~Underway, client \notin {"wait", "done"},
         NEW c \in Blobs, StandsFor(c, Asked),
         available /\ c = "disk" => ~Intact(Asked),
         Have(c),
         UNCHANGED <<hunks, available, wanted, got, sessionVars, pipeVars, gitVars>>
  PROVE  IInv'
<1>1. /\ client' = "next" /\ at' \in 1 .. Len(hunks) + 1 /\ side' \in {1, 2}
      /\ old' \in Blobs
      /\ results' \in [Hunks -> {NotYet, Raw} \cup (Blobs \X Blobs)]
      /\ side' = 2 => at' \in Hunks
      /\ Provenance'
      /\ available /\ side' = 2 /\ old' = "disk" => ~Intact(hunks[at'][1])
      /\ Spoilt' \subseteq Spoilt
  BY HaveKeeps
<1>2. Hunks' = Hunks /\ ~Underway'
  BY <1>1 DEF Hunks, Underway
<1>3. TypeOK'
  BY <1>1, <1>2 DEF IInv, TypeOK
<1>4. Fetching'
  BY <1>1, <1>2 DEF IInv, Fetching, Fetched
<1>5. Pipes' /\ Reading'
  BY <1>1, <1>2 DEF IInv, Pipes, Reading
<1>6. Costs'
  <2>1. /\ IsFiniteSet(Spoilt') /\ Cardinality(Spoilt') <= Cardinality(Spoilt)
        /\ Cardinality(Spoilt') \in Nat /\ Cardinality(Spoilt) \in Nat
    BY <1>1, SpoiltSmaller, FS_CardinalityType DEF IInv, Costs
  <2> QED BY <1>1, <1>2, <2>1, LimitAssumption DEF IInv, Costs, TypeOK, Intact
<1> QED BY <1>1, <1>3, <1>4, <1>5, <1>6 DEF IInv

\* The same for an error outside of a request.
LEMMA QuietGiveUp ==
  ASSUME IInv, client = "disk", GiveUp,
         UNCHANGED <<hunks, available, wanted, got, sessionVars, pipeVars, gitVars>>
  PROVE  IInv'
<1>0. at \in Hunks /\ ~Underway /\ (available => ~Intact(Asked))
  BY DEF IInv, Fetching, Fetched, Underway, Costs
<1>1. /\ client' = "next" /\ at' \in 1 .. Len(hunks) + 1 /\ side' = 1 /\ old' = "nil"
      /\ results' \in [Hunks -> {NotYet, Raw} \cup (Blobs \X Blobs)]
      /\ Provenance'
      /\ ~available \/ ~Intact(hunks[at][1]) \/ ~Intact(hunks[at][2]) => Spoilt' \subseteq Spoilt
  BY <1>0, GiveUpKeeps
<1>2. Hunks' = Hunks /\ ~Underway'
  BY <1>1 DEF Hunks, Underway
<1>3. Spoilt' \subseteq Spoilt
  BY <1>0, <1>1 DEF Asked, IInv, TypeOK
<1>4. TypeOK'
  BY <1>1, <1>2 DEF IInv, TypeOK, Blobs
<1>5. Fetching'
  BY <1>1, <1>2 DEF IInv, Fetching, Fetched
<1>6. Pipes' /\ Reading'
  BY <1>0, <1>1, <1>2 DEF IInv, Pipes, Reading
<1>7. Costs'
  <2>1. /\ IsFiniteSet(Spoilt') /\ Cardinality(Spoilt') <= Cardinality(Spoilt)
        /\ Cardinality(Spoilt') \in Nat /\ Cardinality(Spoilt) \in Nat
    BY <1>3, SpoiltSmaller, FS_CardinalityType DEF IInv, Costs
  <2> QED BY <1>1, <1>2, <1>3, <2>1, LimitAssumption DEF IInv, Costs, TypeOK
<1> QED BY <1>1, <1>4, <1>5, <1>6, <1>7 DEF IInv

\* A failure of the session.  The hunk may be one whose objects are intact when the
\* process is gone, and only then.
LEMMA FailureKeeps ==
  ASSUME IInv, client = "write" \/ Underway, RecordFailure,
         git = "running" => /\ stdin' = <<>> /\ stdout' = <<>> /\ pending' = <<>>
                            /\ Kind[Asked] = "odd",
         stdin' \in Seq(Objects), stdout' \in Seq(Units), pending' = pending,
         wanted' \in Nat, got' \in Seq(Objects),
         UNCHANGED <<hunks, available, closed, stdinOpen, reaped>>
  PROVE  IInv'
<1>1. /\ at \in Hunks /\ available /\ ~poisoned
      /\ failures \in Nat /\ failures < FailureLimit
  BY DEF IInv, Fetching, Fetched, Underway, Costs, TypeOK
<1>2. /\ failures' = failures + 1
      /\ IF failures' >= FailureLimit THEN poisoned' = TRUE /\ git' = "exited"
         ELSE UNCHANGED <<poisoned, git>>
      /\ GiveUp
  BY DEF RecordFailure
<1>3. /\ client' = "next" /\ at' \in 1 .. Len(hunks) + 1 /\ side' = 1 /\ old' = "nil"
      /\ results' \in [Hunks -> {NotYet, Raw} \cup (Blobs \X Blobs)]
      /\ Provenance'
      /\ Spoilt' \subseteq Spoilt \cup {at}
      /\ ~available \/ ~Intact(hunks[at][1]) \/ ~Intact(hunks[at][2]) => Spoilt' \subseteq Spoilt
  BY <1>1, <1>2, GiveUpKeeps
<1>4. Hunks' = Hunks /\ ~Underway'
  BY <1>3 DEF Hunks, Underway
<1>5. git' \in {"running", "exited"} /\ (git' = "running" => git = "running")
      /\ poisoned' \in BOOLEAN /\ failures' \in Nat
      /\ failures' <= FailureLimit /\ (~poisoned' => failures' < FailureLimit)
  <2>1. CASE failures' >= FailureLimit
    BY <1>1, <1>2, <2>1, LimitAssumption DEF IInv, TypeOK
  <2>2. CASE ~(failures' >= FailureLimit)
    BY <1>1, <1>2, <2>2, LimitAssumption DEF IInv, TypeOK
  <2> QED BY <2>1, <2>2
<1>6. TypeOK'
  BY <1>3, <1>4, <1>5 DEF IInv, TypeOK, Blobs
<1>7. Fetching'
  <2>1. available' => available
    OBVIOUS
  <2>2. ~available' => git' = "exited"
    BY <1>1
  <2>3. git' = "running" => stdinOpen'
    BY <1>5 DEF IInv, Fetching, Underway
  <2> QED BY <1>3, <1>4, <2>2, <2>3 DEF Fetching, Fetched
<1>8. Pipes' /\ Reading'
  BY <1>3, <1>4, <1>5 DEF Pipes, Reading
<1>9. Costs'
  <2>1. git = "running" => Spoilt' \subseteq Spoilt
    BY <1>3 DEF Asked, IInv, TypeOK, Intact
  <2>2. Spoilt' # {} => git' = "exited" /\ ~Underway'
    BY <1>2, <1>4, <1>5, <2>1 DEF IInv, Costs, TypeOK
  <2>3. /\ IsFiniteSet(Spoilt) /\ Cardinality(Spoilt) \in Nat
        /\ Cardinality(Spoilt) <= failures
    BY FS_CardinalityType DEF IInv, Costs
  <2>4. /\ IsFiniteSet(Spoilt \cup {at})
        /\ Cardinality(Spoilt \cup {at}) \in Nat
        /\ Cardinality(Spoilt \cup {at}) <= Cardinality(Spoilt) + 1
    <3>1. /\ IsFiniteSet(Spoilt \cup {at})
          /\ Cardinality(Spoilt \cup {at}) =
               IF at \in Spoilt THEN Cardinality(Spoilt) ELSE Cardinality(Spoilt) + 1
      BY <2>3, FS_AddElement
    <3> QED BY <2>3, <3>1
  <2>5. IsFiniteSet(Spoilt') /\ Cardinality(Spoilt') <= Cardinality(Spoilt \cup {at})
        /\ Cardinality(Spoilt') \in Nat
    <3>1. IsFiniteSet(Spoilt') /\ Cardinality(Spoilt') <= Cardinality(Spoilt \cup {at})
      BY <1>3, <2>4, FS_Subset
    <3> QED BY <3>1, FS_CardinalityType
  <2>6. Cardinality(Spoilt') <= failures'
    BY <1>1, <1>2, <2>3, <2>4, <2>5
  <2> QED BY <1>3, <1>5, <2>2, <2>5, <2>6 DEF Costs
<1> QED BY <1>3, <1>6, <1>7, <1>8, <1>9 DEF IInv

-----------------------------------------------------------------------------
(***************************************************************************)
(* What a unit taken from the pipe is.                                     *)
(***************************************************************************)
LEMMA UnitRead ==
  ASSUME IInv, Underway, stdout # <<>>, stdout' = Tail(stdout)
  PROVE  /\ stdin = <<>> /\ Taken \in Nat /\ Taken + 1 <= Len(Answer(Asked))
         /\ Asked \in Objects
         /\ Head(stdout) = Answer(Asked)[Taken + 1] /\ Head(stdout) \in Units
         /\ stdout' \in Seq(Units)
         /\ Kind[Asked] = "corrupt" => Taken = 0 /\ git = "exited"
         /\ git = "running" /\ Taken + 1 = Len(Answer(Asked)) => stdout' = <<>> /\ pending = <<>>
         /\ Taken' = Taken + 1 /\ UNCHANGED <<hunks, at, side, stdin, pending, git>> => Answering'
<1>1. /\ stdout \in Seq(Units) /\ pending \in Seq(Units) /\ got \in Seq(Objects)
      /\ at \in Hunks
  BY DEF IInv, TypeOK, Fetching, Fetched, Underway
<1>2. Asked \in Objects
  BY <1>1, AskedIsObject DEF IInv
<1>3. Answering
  BY DEF IInv, Pipes, Waiting
<1>4. Taken \in Nat
  BY <1>1 DEF Taken
<1>5. /\ Answer(Asked) \in Seq(Units)
  BY <1>2, AnswerShape
<1>6. /\ Len(stdout) \in Nat /\ Len(stdout) > 0 /\ Head(stdout) = stdout[1]
      /\ Tail(stdout) \in Seq(Units) /\ Len(Tail(stdout)) = Len(stdout) - 1
      /\ \A i \in 1 .. Len(stdout) - 1 : Tail(stdout)[i] = stdout[i + 1]
      /\ stdout[1] \in Units
  BY <1>1
<1>7. Head(stdout) = Answer(Asked)[Taken + 1]
  BY <1>3, <1>4, <1>6 DEF Answering
<1>8. Taken + 1 <= Len(Answer(Asked)) /\ (Kind[Asked] = "corrupt" => Taken = 0 /\ git = "exited")
  BY <1>3, <1>4, <1>5, <1>6 DEF Answering
<1>9. git = "running" /\ Taken + 1 = Len(Answer(Asked)) => stdout' = <<>> /\ pending = <<>>
  <2>1. ASSUME git = "running", Taken + 1 = Len(Answer(Asked))
        PROVE  Len(pending) = 0 /\ Len(Tail(stdout)) = 0
    BY <1>1, <1>3, <1>4, <1>6, <2>1 DEF Answering
  <2> QED BY <1>1, <1>6, <2>1, EmptySeq
<1>10. ASSUME Taken' = Taken + 1, UNCHANGED <<hunks, at, side, stdin, pending, git>>
       PROVE  Answering'
  <2>1. Asked' = Asked /\ Answer(Asked)' = Answer(Asked)
    BY <1>10 DEF Asked, Answer
  <2>2. \A i \in 1 .. Len(stdout') : stdout'[i] = Answer(Asked)[Taken + 1 + i]
    BY <1>3, <1>4, <1>6 DEF Answering
  <2>3. Len(pending) \in Nat
    BY <1>1
  <2>4. git = "running" => \A i \in 1 .. Len(pending) :
            pending[i] = Answer(Asked)[Taken + 1 + Len(stdout') + i]
    BY <1>3, <1>4, <1>6, <2>3 DEF Answering
  <2>5. git = "running" => Taken + 1 + Len(stdout') + Len(pending) = Len(Answer(Asked))
    BY <1>3, <1>4, <1>6, <2>3 DEF Answering
  <2>6. Taken + 1 + Len(stdout') <= Len(Answer(Asked))
        /\ (Kind[Asked] = "corrupt" => git = "exited" /\ Taken + 1 + Len(stdout') <= 1)
    BY <1>3, <1>4, <1>5, <1>6 DEF Answering
  <2>7. stdin' = <<>>
    BY <1>3, <1>10 DEF Answering
  <2> QED BY <1>10, <2>1, <2>2, <2>4, <2>5, <2>6, <2>7 DEF Answering
<1> QED BY <1>2, <1>3, <1>4, <1>6, <1>7, <1>8, <1>9, <1>10 DEF Answering

-----------------------------------------------------------------------------
(***************************************************************************)
(* The reader's steps.                                                     *)
(***************************************************************************)
LEMMA FetchNextKeeps == IInv /\ FetchNext => IInv'
<1> SUFFICES ASSUME IInv, FetchNext PROVE IInv'
  OBVIOUS
<1>1. client = "next" /\ at \in Hunks /\ ~Underway /\ Asked \in Objects
  BY AskedIsObject DEF FetchNext, Underway, IInv
<1>2. CASE Kind[Asked] = "zero"
  <2>1. Have("nil") /\ UNCHANGED <<hunks, available, wanted, got, sessionVars, pipeVars, gitVars>>
    BY <1>2 DEF FetchNext
  <2> QED BY <1>1, <1>2, <2>1, QuietHave DEF StandsFor, Blobs
<1>3. CASE Kind[Asked] # "zero"
  <2>1. /\ client' = (IF ~available THEN "disk" ELSE IF poisoned THEN "single" ELSE "write")
        /\ UNCHANGED <<at, side, old, results>>
        /\ UNCHANGED <<hunks, available, wanted, got, sessionVars, pipeVars, gitVars>>
    BY <1>3 DEF FetchNext
  <2>2. Hunks' = Hunks /\ ~Underway' /\ Asked' = Asked
    BY <2>1 DEF Hunks, Underway, Asked
  <2>3. TypeOK'
    BY <2>1, <2>2 DEF IInv, TypeOK
  <2>4. Fetching'
    BY <1>1, <1>3, <2>1, <2>2 DEF IInv, Fetching, Fetched
  <2>5. Pipes' /\ Reading'
    BY <1>1, <2>1, <2>2 DEF IInv, Pipes, Reading
  <2>6. Provenance' /\ Costs'
    BY <1>1, <2>1, <2>2 DEF IInv, Provenance, OwnBlobs, Rendered, Costs, Spoilt
  <2> QED BY <2>3, <2>4, <2>5, <2>6 DEF IInv
<1> QED BY <1>2, <1>3

LEMMA SingleFetchKeeps == IInv /\ SingleFetch => IInv'
<1> SUFFICES ASSUME IInv, SingleFetch PROVE IInv'
  OBVIOUS
<1>1. client = "single" /\ at \in Hunks /\ ~Underway /\ Asked \in Objects /\ Kind[Asked] # "zero"
      /\ Asked \notin {"nil", "disk"}
  BY AskedIsObject, ObjectsAssumption DEF SingleFetch, Underway, IInv, Fetching, Fetched
<1>2. CASE Printed(Asked)
  <2>1. Have(Asked) /\ UNCHANGED <<hunks, available, wanted, got, sessionVars, pipeVars, gitVars>>
    BY <1>2 DEF SingleFetch
  <2> QED BY <1>1, <2>1, QuietHave DEF StandsFor, Blobs
<1>3. CASE ~Printed(Asked)
  <2>1. /\ client' = "disk" /\ UNCHANGED <<at, side, old, results>>
        /\ UNCHANGED <<hunks, available, wanted, got, sessionVars, pipeVars, gitVars>>
    BY <1>3 DEF SingleFetch
  <2>2. Hunks' = Hunks /\ ~Underway' /\ Asked' = Asked /\ ~Intact(Asked)
    BY <1>1, <1>3, <2>1 DEF Hunks, Underway, Asked, Intact, Printed
  <2>3. TypeOK'
    BY <2>1, <2>2 DEF IInv, TypeOK
  <2>4. Fetching'
    BY <1>1, <2>1, <2>2 DEF IInv, Fetching, Fetched
  <2>5. Pipes' /\ Reading'
    BY <1>1, <2>1, <2>2 DEF IInv, Pipes, Reading
  <2>6. Provenance' /\ Costs'
    BY <1>1, <2>1, <2>2 DEF IInv, Provenance, OwnBlobs, Rendered, Costs, Spoilt, Intact
  <2> QED BY <2>3, <2>4, <2>5, <2>6 DEF IInv
<1> QED BY <1>2, <1>3

LEMMA ReadDiskKeeps == IInv /\ ReadDisk => IInv'
<1> SUFFICES ASSUME IInv, ReadDisk PROVE IInv'
  OBVIOUS
<1>1. /\ client = "disk" /\ at \in Hunks /\ ~Underway /\ Kind[Asked] # "zero"
      /\ UNCHANGED <<hunks, available, wanted, got, sessionVars, pipeVars, gitVars>>
  BY DEF ReadDisk, Underway, IInv, Fetching, Fetched
<1>2. CASE Have("disk")
  <2>1. StandsFor("disk", Asked) /\ (available => ~Intact(Asked))
    BY <1>1 DEF StandsFor, IInv, Costs
  <2> QED BY <1>1, <1>2, <2>1, QuietHave DEF Blobs
<1>3. CASE GiveUp
  BY <1>1, <1>3, QuietGiveUp
<1> QED BY <1>2, <1>3 DEF ReadDisk

LEMMA WriteKeeps == IInv /\ Write => IInv'
<1> SUFFICES ASSUME IInv, Write PROVE IInv'
  OBVIOUS
<1>1. /\ client = "write" /\ at \in Hunks /\ ~Underway /\ Kind[Asked] # "zero"
      /\ Asked \in Objects /\ available /\ ~poisoned
      /\ UNCHANGED <<hunks, available, wanted, got, closed, stdinOpen, stdout, pending, reaped>>
  BY AskedIsObject DEF Write, Underway, IInv, Fetching, Fetched
<1>2. CASE /\ stdinOpen /\ git = "running"
           /\ stdin' = Append(stdin, Asked) /\ client' = "header"
           /\ UNCHANGED <<at, side, old, results, failures, poisoned, git>>
  <2>1. stdin = <<>> /\ stdout = <<>> /\ pending = <<>>
    BY <1>1, <1>2 DEF IInv, Pipes
  <2>2. stdin' = <<Asked>> /\ stdin' \in Seq(Objects)
    BY <1>1, <1>2, <2>1
  <2>3. Hunks' = Hunks /\ Asked' = Asked
    BY <1>1, <1>2 DEF Hunks, Asked
  <2>4. TypeOK'
    BY <1>1, <1>2, <2>2, <2>3 DEF IInv, TypeOK
  <2>5. Fetching'
    BY <1>1, <1>2, <2>3 DEF IInv, Fetching, Fetched
  <2>6. Pipes' /\ Reading'
    BY <1>1, <1>2, <2>1, <2>2, <2>3 DEF Pipes, Reading, Waiting, Underway
  <2>7. Provenance' /\ Costs'
    BY <1>1, <1>2, <2>3 DEF IInv, Provenance, OwnBlobs, Rendered, Costs, Spoilt
  <2> QED BY <2>4, <2>5, <2>6, <2>7 DEF IInv
<1>3. CASE (~stdinOpen \/ git = "exited") /\ RecordFailure /\ UNCHANGED stdin
  <2>1. git # "running"
    BY <1>1, <1>3 DEF IInv, Fetching
  <2> QED BY <1>1, <1>3, <2>1, FailureKeeps DEF IInv, TypeOK
<1> QED BY <1>2, <1>3 DEF Write

LEMMA ReadHeaderKeeps == IInv /\ ReadHeader => IInv'
<1> SUFFICES ASSUME IInv, ReadHeader PROVE IInv'
  OBVIOUS
<1>1. /\ client = "header" /\ Underway /\ at \in Hunks /\ Kind[Asked] # "zero" /\ Asked \in Objects
      /\ available /\ ~poisoned /\ got' = <<>> /\ got' \in Seq(Objects) /\ Len(got') = 0
      /\ UNCHANGED <<hunks, available, closed, stdin, stdinOpen, pending, reaped>>
  BY AskedIsObject DEF ReadHeader, HeaderLine, Underway, IInv, Fetching, Fetched
<1>2. CASE stdout # <<>> /\ stdout' = Tail(stdout)
  <2>1. /\ stdin = <<>> /\ Taken = 0 /\ 1 <= Len(Answer(Asked))
        /\ Head(stdout) = Answer(Asked)[1] /\ Head(stdout) \in Units /\ stdout' \in Seq(Units)
        /\ git = "running" /\ Len(Answer(Asked)) = 1 => stdout' = <<>> /\ pending = <<>>
        /\ Taken' = 1 /\ UNCHANGED <<hunks, at, side, stdin, pending, git>> => Answering'
        /\ Kind[Asked] = "corrupt" => git = "exited"
    BY <1>1, <1>2, UnitRead DEF Taken
  <2>2. Head(stdout).object = Asked
    BY <1>1, <2>1, AnswerShape
  <2>3. /\ Kind[Asked] \in {"missing", "odd"} =>
             Head(stdout).kind = Kind[Asked] /\ Len(Answer(Asked)) = 1
        /\ Kind[Asked] \notin {"missing", "odd"} => Head(stdout).kind = "header"
    BY <1>1, <2>1, AnswerShape
  <2>4. CASE Kind[Asked] = "missing"
    <3>1. /\ client' = "disk" /\ failures' = 0
          /\ UNCHANGED <<wanted, at, side, old, results, poisoned, git>>
      BY <1>1, <1>2, <2>3, <2>4 DEF ReadHeader, HeaderLine
    <3>2. Hunks' = Hunks /\ ~Underway' /\ Asked' = Asked /\ ~Intact(Asked)
      BY <1>1, <2>4, <3>1 DEF Hunks, Underway, Asked, Intact
    <3>3. TypeOK'
      BY <1>1, <2>1, <3>1, <3>2 DEF IInv, TypeOK
    <3>4. Fetching'
      BY <1>1, <3>1, <3>2 DEF IInv, Fetching, Fetched
    <3>5. Pipes' /\ Reading'
      BY <1>1, <2>1, <2>3, <2>4, <3>1, <3>2 DEF Pipes, Reading
    <3>6. Provenance'
      BY <1>1, <3>1, <3>2 DEF IInv, Provenance, OwnBlobs, Rendered
    <3>7. Costs'
      <4>1. Spoilt = {} /\ Spoilt' = Spoilt
        BY <1>1, <3>1, <3>2 DEF IInv, Costs, Spoilt
      <4>2. IsFiniteSet(Spoilt') /\ Cardinality(Spoilt') = 0
        BY <4>1, FS_EmptySet
      <4> QED BY <1>1, <3>1, <3>2, <4>1, <4>2, LimitAssumption DEF IInv, Costs, Intact
    <3> QED BY <3>3, <3>4, <3>5, <3>6, <3>7 DEF IInv
  <2>5. CASE Kind[Asked] = "odd"
    <3>1. RecordFailure /\ UNCHANGED wanted
      BY <1>1, <1>2, <2>3, <2>5 DEF ReadHeader, HeaderLine
    <3>2. git = "running" => /\ stdin' = <<>> /\ stdout' = <<>> /\ pending' = <<>>
                             /\ Kind[Asked] = "odd"
      BY <1>1, <2>1, <2>3, <2>5
    <3> QED BY <1>1, <2>1, <3>1, <3>2, FailureKeeps DEF IInv, TypeOK
  <2>6. CASE Kind[Asked] \notin {"missing", "odd"}
    <3>1. /\ wanted' = Size(Asked)
          /\ client' = (IF wanted' = 0 THEN "newline" ELSE "data")
          /\ UNCHANGED <<failures, at, side, old, results, poisoned, git>>
      BY <1>1, <1>2, <2>2, <2>3, <2>6 DEF ReadHeader, HeaderLine
    <3>2. /\ wanted' \in Nat /\ (wanted' = 0 <=> Kind[Asked] \notin {"blob", "corrupt"})
      BY <3>1, LimitAssumption DEF Size
    <3>3. Hunks' = Hunks /\ Underway' /\ Asked' = Asked
      BY <1>1, <3>1 DEF Hunks, Underway, Asked
    <3>4. TypeOK'
      BY <1>1, <2>1, <3>1, <3>2, <3>3 DEF IInv, TypeOK
    <3>5. Fetching'
      BY <1>1, <3>1, <3>3 DEF IInv, Fetching, Fetched
    <3>6. Taken' = 1
      BY <1>1, <3>1 DEF Taken
    <3>7. Pipes'
      BY <1>1, <2>1, <3>1, <3>3, <3>6 DEF Pipes
    <3>8. Reading'
      <4>1. Kind[Asked] \in {"blob", "empty", "corrupt"}
        BY <1>1, <2>6, KindAssumption
      <4>2. Size(Asked)' = Size(Asked)
        BY <3>3 DEF Size
      <4> QED BY <1>1, <3>1, <3>2, <3>3, <4>1, <4>2 DEF Reading
    <3>9. Provenance' /\ Costs'
      BY <1>1, <3>1, <3>3 DEF IInv, Provenance, OwnBlobs, Rendered, Costs, Spoilt
    <3> QED BY <3>4, <3>5, <3>7, <3>8, <3>9 DEF IInv
  <2> QED BY <2>4, <2>5, <2>6
<1>3. CASE stdout = <<>> /\ git = "exited" /\ RecordFailure /\ UNCHANGED <<stdout, wanted>>
  BY <1>1, <1>3, FailureKeeps DEF IInv, TypeOK
<1> QED BY <1>2, <1>3 DEF ReadHeader, HeaderLine

LEMMA ReadDataKeeps == IInv /\ ReadData => IInv'
<1> SUFFICES ASSUME IInv, ReadData PROVE IInv'
  OBVIOUS
<1>1. /\ client = "data" /\ Underway /\ at \in Hunks /\ Kind[Asked] # "zero" /\ Asked \in Objects
      /\ available /\ ~poisoned /\ got \in Seq(Objects) /\ Len(got) \in Nat
      /\ wanted \in Nat /\ wanted > 0 /\ Kind[Asked] \in {"blob", "corrupt"}
      /\ wanted + Len(got) = Size(Asked)
      /\ UNCHANGED <<hunks, available, closed, stdin, stdinOpen, pending, reaped>>
  BY AskedIsObject DEF ReadData, Underway, IInv, TypeOK, Fetching, Fetched, Reading
<1>2. CASE /\ stdout # <<>> /\ stdout' = Tail(stdout)
           /\ got' = Append(got, Head(stdout).object) /\ wanted' = wanted - 1
           /\ client' = (IF wanted' = 0 THEN "newline" ELSE "data")
           /\ UNCHANGED <<failures, at, side, old, results, poisoned, git>>
  <2>1. /\ stdin = <<>> /\ Taken = Len(got) + 1 /\ Taken + 1 <= Len(Answer(Asked))
        /\ Head(stdout) = Answer(Asked)[Taken + 1] /\ Head(stdout) \in Units
        /\ stdout' \in Seq(Units)
        /\ Kind[Asked] = "corrupt" => Taken = 0
        /\ Taken' = Taken + 1 /\ UNCHANGED <<hunks, at, side, stdin, pending, git>> => Answering'
    BY <1>1, <1>2, UnitRead DEF Taken
  <2>2. Head(stdout).object = Asked
    BY <1>1, <2>1, AnswerShape
  <2>3. /\ got' \in Seq(Objects) /\ Len(got') = Len(got) + 1
        /\ \A i \in 1 .. Len(got') : got'[i] = Asked
    BY <1>1, <1>2, <2>2 DEF IInv, Reading
  <2>4. Hunks' = Hunks /\ Underway' /\ Asked' = Asked /\ Size(Asked)' = Size(Asked)
    BY <1>1, <1>2 DEF Hunks, Underway, Asked, Size
  <2>5. TypeOK'
    BY <1>1, <1>2, <2>1, <2>3, <2>4 DEF IInv, TypeOK
  <2>6. Fetching'
    BY <1>1, <1>2, <2>4 DEF IInv, Fetching, Fetched
  <2>7. Pipes'
    <3>1. Taken' = Taken + 1
      BY <1>1, <1>2, <2>1, <2>3 DEF Taken
    <3> QED BY <1>1, <1>2, <2>1, <2>4, <3>1 DEF Pipes
  <2>8. Reading'
    BY <1>1, <1>2, <2>1, <2>3, <2>4 DEF Reading
  <2>9. Provenance' /\ Costs'
    BY <1>1, <1>2, <2>4 DEF IInv, Provenance, OwnBlobs, Rendered, Costs, Spoilt
  <2> QED BY <2>5, <2>6, <2>7, <2>8, <2>9 DEF IInv
<1>3. CASE stdout = <<>> /\ git = "exited" /\ RecordFailure /\ UNCHANGED <<stdout, got, wanted>>
  BY <1>1, <1>3, FailureKeeps DEF IInv, TypeOK
<1> QED BY <1>2, <1>3 DEF ReadData

\* The contents that were put together are the object's own.
LEMMA BlobIsAsked == IInv /\ client = "newline" => Blob = Asked
<1> SUFFICES ASSUME IInv, client = "newline" PROVE Blob = Asked
  OBVIOUS
<1>1. CASE got = <<>>
  BY <1>1 DEF Blob
<1>2. CASE got # <<>>
  <2>1. got \in Seq(Objects) /\ Len(got) > 0 /\ \A i \in 1 .. Len(got) : got[i] = Asked
    BY <1>2, EmptySeq DEF IInv, TypeOK, Reading
  <2> QED BY <1>2, <2>1 DEF Blob
<1> QED BY <1>1, <1>2

LEMMA ReadNewlineKeeps == IInv /\ ReadNewline => IInv'
<1> SUFFICES ASSUME IInv, ReadNewline PROVE IInv'
  OBVIOUS
<1>1. /\ client = "newline" /\ Underway /\ at \in Hunks /\ Kind[Asked] # "zero" /\ Asked \in Objects
      /\ available /\ ~poisoned /\ got \in Seq(Objects) /\ Len(got) \in Nat
      /\ wanted = 0 /\ Kind[Asked] \in {"blob", "empty"} /\ Len(got) = Size(Asked)
      /\ UNCHANGED <<hunks, available, wanted, got, closed, stdin, stdinOpen, pending, reaped>>
  BY AskedIsObject DEF ReadNewline, Underway, IInv, TypeOK, Fetching, Fetched, Reading
<1>2. CASE stdout # <<>> /\ stdout' = Tail(stdout)
  <2>1. /\ stdin = <<>> /\ Taken = Len(got) + 1
        /\ Head(stdout) = Answer(Asked)[Taken + 1] /\ stdout' \in Seq(Units)
        /\ git = "running" /\ Taken + 1 = Len(Answer(Asked)) => stdout' = <<>> /\ pending = <<>>
    BY <1>1, <1>2, UnitRead DEF Taken
  <2>2. Len(Answer(Asked)) = Len(got) + 2 /\ Answer(Asked)[Len(got) + 2].kind = "newline"
    BY <1>1, AnswerShape DEF Size
  <2>3. Head(stdout).kind = "newline" /\ (git = "running" => stdout' = <<>> /\ pending = <<>>)
    BY <1>1, <2>1, <2>2
  <2>4. failures' = 0 /\ Have(Asked) /\ UNCHANGED <<poisoned, git>>
    BY <1>1, <1>2, <2>3, BlobIsAsked DEF ReadNewline
  <2>5. StandsFor(Asked, Asked) /\ Asked # "disk" /\ Asked \in Blobs
    BY <1>1, ObjectsAssumption DEF StandsFor, Blobs
  <2>6. /\ client' = "next" /\ at' \in 1 .. Len(hunks) + 1 /\ side' \in {1, 2}
        /\ old' \in Blobs
        /\ results' \in [Hunks -> {NotYet, Raw} \cup (Blobs \X Blobs)]
        /\ side' = 2 => at' \in Hunks
        /\ Provenance'
        /\ available /\ side' = 2 /\ old' = "disk" => ~Intact(hunks[at'][1])
        /\ Spoilt' \subseteq Spoilt
    BY <1>1, <2>4, <2>5, HaveKeeps
  <2>7. Hunks' = Hunks /\ ~Underway'
    BY <1>1, <2>6 DEF Hunks, Underway
  <2>8. TypeOK'
    BY <1>1, <2>1, <2>4, <2>6, <2>7 DEF IInv, TypeOK
  <2>9. Fetching'
    BY <1>1, <2>4, <2>6, <2>7 DEF IInv, Fetching, Fetched
  <2>10. Pipes' /\ Reading'
    BY <1>1, <2>1, <2>3, <2>4, <2>6, <2>7 DEF Pipes, Reading
  <2>11. Costs'
    <3>1. Spoilt' = {}
      BY <1>1, <2>6 DEF IInv, Costs
    <3>2. IsFiniteSet(Spoilt') /\ Cardinality(Spoilt') = 0
      BY <3>1, FS_EmptySet
    <3> QED BY <1>1, <2>4, <2>6, <3>1, <3>2, LimitAssumption DEF Costs, Intact
  <2> QED BY <2>6, <2>8, <2>9, <2>10, <2>11 DEF IInv
<1>3. CASE stdout = <<>> /\ git = "exited" /\ RecordFailure /\ UNCHANGED stdout
  BY <1>1, <1>3, FailureKeeps DEF IInv, TypeOK
<1> QED BY <1>2, <1>3 DEF ReadNewline

LEMMA CloseKeeps == IInv /\ (Close \/ CloseWaits) => IInv'
<1> SUFFICES ASSUME IInv, Close \/ CloseWaits PROVE IInv'
  OBVIOUS
<1>1. /\ ~Underway /\ ~Underway' /\ client' \in {"wait", "done"}
      /\ closed' \in BOOLEAN /\ stdinOpen' \in BOOLEAN
      /\ UNCHANGED <<hunks, available, at, side, wanted, got, old, results, failures, poisoned,
                     stdin, stdout, gitVars>>
  BY DEF Close, CloseWaits, Underway, IInv, TypeOK
<1>2. Hunks' = Hunks /\ Asked' = Asked
  BY <1>1 DEF Hunks, Asked
<1>3. TypeOK'
  BY <1>1, <1>2 DEF IInv, TypeOK
<1>4. Fetching'
  BY <1>1, <1>2 DEF IInv, Fetching, Fetched
<1>5. Pipes' /\ Reading'
  BY <1>1, <1>2 DEF IInv, Pipes, Reading, Underway
<1>6. Provenance' /\ Costs'
  BY <1>1, <1>2 DEF IInv, Provenance, OwnBlobs, Rendered, Costs, Spoilt
<1> QED BY <1>3, <1>4, <1>5, <1>6 DEF IInv

-----------------------------------------------------------------------------
(***************************************************************************)
(* The process, and the goroutine that waits for it.                       *)
(***************************************************************************)
\* What the other side does changes the pipes only; a process may end, none begins.
LEMMA ProcessKeeps ==
  ASSUME IInv, UNCHANGED <<hunks, available, clientVars, sessionVars>>,
         stdin' \in Seq(Objects), stdout' \in Seq(Units), pending' \in Seq(Units),
         git' \in {"running", "exited"}, git' = "running" => git = "running",
         stdinOpen' \in BOOLEAN, git' = "running" => stdinOpen' = stdinOpen,
         reaped' \in BOOLEAN,
         Pipes'
  PROVE  IInv'
<1>1. Hunks' = Hunks /\ Asked' = Asked /\ Underway' = Underway /\ Size(Asked)' = Size(Asked)
  BY DEF Hunks, Asked, Underway, Size
<1>2. TypeOK'
  BY <1>1 DEF IInv, TypeOK
<1>3. Fetching'
  BY <1>1 DEF IInv, TypeOK, Fetching, Fetched, Underway
<1>4. Reading'
  BY <1>1 DEF IInv, Reading
<1>5. Provenance'
  BY <1>1 DEF IInv, Provenance, OwnBlobs, Rendered
<1>6. Costs'
  BY <1>1 DEF IInv, TypeOK, Costs, Spoilt, Underway
<1> QED BY <1>2, <1>3, <1>4, <1>5, <1>6 DEF IInv

LEMMA ReapKeeps == IInv /\ Reap => IInv'
<1> SUFFICES ASSUME IInv, Reap PROVE IInv'
  OBVIOUS
<1>1. /\ git = "exited" /\ reaped' = TRUE /\ stdinOpen' = FALSE
      /\ UNCHANGED <<hunks, available, clientVars, sessionVars, stdin, git, pending>>
  BY DEF Reap
<1>2. PICK n \in 0 .. Len(stdout) : stdout' = SubSeq(stdout, 1, n)
  BY DEF Reap
<1>3. stdout \in Seq(Units) /\ Len(stdout) \in Nat
  BY DEF IInv, TypeOK
<1>4. /\ stdout' \in Seq(Units) /\ Len(stdout') = n /\ n \in Nat /\ n <= Len(stdout)
      /\ \A i \in 1 .. n : stdout'[i] = stdout[i]
  BY <1>2, <1>3, SubSeqProperties
<1>5. Asked' = Asked /\ Answer(Asked)' = Answer(Asked) /\ Underway' = Underway /\ Taken' = Taken
  BY <1>1 DEF Asked, Answer, Underway, Taken
<1>6. Pipes'
  <2> SUFFICES ASSUME Underway PROVE Waiting' \/ Answering'
    BY <1>1, <1>5 DEF Pipes
  <2>1. CASE Waiting
    BY <1>1, <1>4, <1>5, <2>1, EmptySeq DEF Waiting
  <2>2. CASE Answering
    <3>1. Taken \in Nat /\ Len(Answer(Asked)) \in Nat
      BY AskedIsObject, AnswerShape DEF Taken, IInv, TypeOK, Fetching, Fetched, Underway
    <3> QED BY <1>1, <1>3, <1>4, <1>5, <2>2, <3>1 DEF Answering
  <2> QED BY <2>1, <2>2 DEF IInv, Pipes
<1> QED BY <1>1, <1>4, <1>6, ProcessKeeps DEF IInv, TypeOK

LEMMA GitReadKeeps == IInv /\ GitRead => IInv'
<1> SUFFICES ASSUME IInv, GitRead PROVE IInv'
  OBVIOUS
<1>1. /\ git = "running" /\ stdin # <<>> /\ stdin' = Tail(stdin)
      /\ UNCHANGED <<hunks, available, clientVars, sessionVars, stdinOpen, reaped>>
  BY DEF GitRead
<1>2. Underway /\ Waiting /\ stdout = <<>> /\ client = "header"
  BY <1>1 DEF IInv, Pipes, Answering, Waiting
<1>3. at \in Hunks /\ Asked \in Objects
  BY <1>2, AskedIsObject DEF IInv, Fetching, Fetched
<1>4. Head(stdin) = Asked /\ stdin' = <<>>
  BY <1>1, <1>2 DEF Waiting
<1>5. Asked' = Asked /\ Answer(Asked)' = Answer(Asked) /\ Underway' /\ Taken' = 0 /\ Taken = 0
  BY <1>1, <1>2 DEF Asked, Answer, Underway, Taken
<1>6. /\ Answer(Asked) \in Seq(Units) /\ Len(Answer(Asked)) > 0
  BY <1>3, AnswerShape
<1>7. CASE Kind[Asked] # "corrupt" /\ pending' = Answer(Asked) /\ UNCHANGED <<stdout, git>>
  <2>1. Answering'
    BY <1>1, <1>2, <1>4, <1>5, <1>6, <1>7 DEF Answering
  <2> QED BY <1>1, <1>4, <1>5, <1>6, <1>7, <2>1, ProcessKeeps DEF IInv, TypeOK, Pipes
<1>8. CASE /\ Kind[Asked] = "corrupt" /\ git' = "exited"
           /\ stdout' \in {stdout, Append(stdout, Unit("header", Asked))}
           /\ UNCHANGED pending
  <2>1. Answer(Asked)[1] = Unit("header", Asked)
    <3>1. Answer(Asked)[1].kind = "header" /\ Answer(Asked)[1].object = Asked
          /\ Answer(Asked)[1] \in Units
      BY <1>3, <1>6, <1>8, AnswerShape
    <3> QED BY <3>1 DEF Units, Unit
  <2>2. \/ stdout' = <<>>
        \/ stdout' = <<Unit("header", Asked)>>
    BY <1>2, <1>8
  <2>3. Unit("header", Asked) \in Units
    BY <1>3 DEF Unit, Units
  <2>4. /\ stdout' \in Seq(Units) /\ Len(stdout') <= 1
        /\ \A i \in 1 .. Len(stdout') : stdout'[i] = Answer(Asked)[i]
    <3>1. CASE stdout' = <<>>
      BY <3>1
    <3>2. CASE stdout' = <<Unit("header", Asked)>>
      <4>1. Len(stdout') = 1 /\ stdout'[1] = Answer(Asked)[1] /\ stdout' \in Seq(Units)
        BY <2>1, <2>3, <3>2
      <4> QED BY <4>1
    <3> QED BY <2>2, <3>1, <3>2
  <2>5. Answering'
    BY <1>1, <1>2, <1>4, <1>5, <1>6, <1>8, <2>4 DEF Answering
  <2> QED BY <1>1, <1>4, <1>5, <1>8, <2>4, <2>5, ProcessKeeps DEF IInv, TypeOK, Pipes
<1> QED BY <1>4, <1>7, <1>8 DEF GitRead

LEMMA GitWriteKeeps == IInv /\ GitWrite => IInv'
<1> SUFFICES ASSUME IInv, GitWrite PROVE IInv'
  OBVIOUS
<1>1. /\ git = "running" /\ pending # <<>>
      /\ stdout' = Append(stdout, Head(pending)) /\ pending' = Tail(pending)
      /\ UNCHANGED <<hunks, available, clientVars, sessionVars, stdin, stdinOpen, git, reaped>>
  BY DEF GitWrite
<1>2. Underway /\ Answering
  BY <1>1 DEF IInv, Pipes, Waiting
<1>3. stdout \in Seq(Units) /\ pending \in Seq(Units) /\ Taken \in Nat
  BY DEF IInv, TypeOK, Taken
<1>4. /\ Len(stdout) \in Nat /\ Len(pending) \in Nat /\ Len(pending) > 0
      /\ Head(pending) = pending[1] /\ pending[1] \in Units
      /\ pending' \in Seq(Units) /\ Len(pending') = Len(pending) - 1
      /\ \A i \in 1 .. Len(pending) - 1 : pending'[i] = pending[i + 1]
  BY <1>1, <1>3
<1>5. /\ stdout' \in Seq(Units) /\ Len(stdout') = Len(stdout) + 1
      /\ \A i \in 1 .. Len(stdout) : stdout'[i] = stdout[i]
      /\ stdout'[Len(stdout) + 1] = pending[1]
  BY <1>1, <1>3, <1>4
<1>6. Asked' = Asked /\ Answer(Asked)' = Answer(Asked) /\ Underway' /\ Taken' = Taken
  BY <1>1, <1>2 DEF Asked, Answer, Underway, Taken
<1>7. Answering'
  <2>1. pending[1] = Answer(Asked)[Taken + Len(stdout) + 1]
    BY <1>1, <1>2, <1>4 DEF Answering
  <2>2. \A i \in 1 .. Len(stdout') : stdout'[i] = Answer(Asked)[Taken + i]
    <3> SUFFICES ASSUME NEW i \in 1 .. Len(stdout') PROVE stdout'[i] = Answer(Asked)[Taken + i]
      OBVIOUS
    <3>1. CASE i = Len(stdout) + 1
      BY <1>3, <1>4, <1>5, <2>1, <3>1
    <3>2. CASE i # Len(stdout) + 1
      BY <1>2, <1>4, <1>5, <3>2 DEF Answering
    <3> QED BY <3>1, <3>2
  <2>3. \A i \in 1 .. Len(pending') : pending'[i] = Answer(Asked)[Taken + Len(stdout') + i]
    <3> SUFFICES ASSUME NEW i \in 1 .. Len(pending')
                 PROVE  pending'[i] = Answer(Asked)[Taken + Len(stdout') + i]
      OBVIOUS
    <3>1. i + 1 \in 1 .. Len(pending) /\ pending'[i] = pending[i + 1]
      BY <1>4
    <3>2. pending[i + 1] = Answer(Asked)[Taken + Len(stdout) + (i + 1)]
      BY <1>1, <1>2, <3>1 DEF Answering
    <3>3. Taken + Len(stdout) + (i + 1) = Taken + Len(stdout') + i
      BY <1>3, <1>4, <1>5
    <3> QED BY <3>1, <3>2, <3>3
  <2>4. Taken + Len(stdout') + Len(pending') = Len(Answer(Asked))
    BY <1>1, <1>2, <1>3, <1>4, <1>5 DEF Answering
  <2> QED BY <1>1, <1>2, <1>3, <1>4, <1>5, <1>6, <2>2, <2>3, <2>4 DEF Answering
<1> QED BY <1>1, <1>4, <1>5, <1>6, <1>7, ProcessKeeps DEF IInv, TypeOK, Pipes

LEMMA GitEndsKeeps == IInv /\ (GitExit \/ GitDies) => IInv'
<1> SUFFICES ASSUME IInv, GitExit \/ GitDies PROVE IInv'
  OBVIOUS
<1>1. /\ git' = "exited"
      /\ UNCHANGED <<hunks, available, clientVars, sessionVars, pipeVars, pending, reaped>>
  BY DEF GitExit, GitDies
<1>2. Asked' = Asked /\ Answer(Asked)' = Answer(Asked) /\ Underway' = Underway /\ Taken' = Taken
  BY <1>1 DEF Asked, Answer, Underway, Taken
<1>3. Pipes'
  BY <1>1, <1>2 DEF IInv, Pipes, Waiting, Answering
<1> QED BY <1>1, <1>3, ProcessKeeps DEF IInv, TypeOK

-----------------------------------------------------------------------------
(***************************************************************************)
(* The theorems.                                                           *)
(***************************************************************************)
LEMMA InitIInv == Init => IInv
<1> SUFFICES ASSUME Init PROVE IInv
  OBVIOUS
<1>1. /\ hunks \in HunkLists /\ available \in BOOLEAN
      /\ client = "next" /\ at = 1 /\ side = 1 /\ wanted = 0 /\ got = <<>> /\ old = "nil"
      /\ results = [h \in Hunks |-> NotYet]
      /\ failures = 0 /\ poisoned = FALSE /\ closed = FALSE
      /\ stdin = <<>> /\ stdinOpen = available /\ stdout = <<>>
      /\ git = (IF available THEN "running" ELSE "exited") /\ pending = <<>>
      /\ reaped \in BOOLEAN
  BY DEF Init
<1>2. hunks \in Seq(Objects \X Objects) /\ Len(hunks) \in Nat /\ Hunks = 1 .. Len(hunks)
  BY <1>1, KindAssumption DEF Hunks
<1>3. TypeOK
  <2>1. /\ stdinOpen \in BOOLEAN /\ poisoned \in BOOLEAN /\ closed \in BOOLEAN
    BY <1>1
  <2>2. /\ results \in [Hunks -> {NotYet, Raw} \cup (Blobs \X Blobs)] /\ old \in Blobs
    BY <1>1 DEF Blobs
  <2>3. got \in Seq(Objects) /\ stdin \in Seq(Objects) /\ stdout \in Seq(Units)
        /\ pending \in Seq(Units)
    BY <1>1
  <2>4. at \in 1 .. Len(hunks) + 1 /\ side \in {1, 2} /\ wanted \in Nat /\ failures \in Nat
        /\ git \in {"running", "exited"}
    BY <1>1, <1>2
  <2> QED BY <1>1, <1>2, <2>1, <2>2, <2>3, <2>4 DEF TypeOK
<1>4. Rendered = {} /\ Spoilt = {} /\ ~Underway /\ ~Fetched
  BY <1>1 DEF Rendered, Spoilt, NotYet, Raw, Underway, Fetched
<1>5. IsFiniteSet(Spoilt) /\ Cardinality(Spoilt) = 0
  BY <1>4, FS_EmptySet
<1>6. Fetching /\ Pipes /\ Reading
  BY <1>1, <1>4 DEF Fetching, Pipes, Reading
<1>7. Provenance /\ Costs
  BY <1>1, <1>4, <1>5, LimitAssumption DEF Provenance, OwnBlobs, Costs
<1> QED BY <1>3, <1>6, <1>7 DEF IInv

LEMMA NextIInv == IInv /\ [Next]_vars => IInv'
<1> SUFFICES ASSUME IInv, [Next]_vars PROVE IInv'
  OBVIOUS
<1>1. CASE Client
  BY <1>1, FetchNextKeeps, SingleFetchKeeps, ReadDiskKeeps, WriteKeeps, ReadHeaderKeeps,
     ReadDataKeeps, ReadNewlineKeeps, CloseKeeps DEF Client
<1>2. CASE Reap
  BY <1>2, ReapKeeps
<1>3. CASE Git
  BY <1>3, GitReadKeeps, GitWriteKeeps, GitEndsKeeps DEF Git
<1>4. CASE GitDies
  BY <1>4, GitEndsKeeps
<1>5. CASE UNCHANGED vars
  <2>1. /\ UNCHANGED <<hunks, available, clientVars, sessionVars>>
        /\ UNCHANGED <<stdin, stdinOpen, stdout, git, pending, reaped>>
    BY <1>5 DEF vars
  <2>2. Asked' = Asked /\ Answer(Asked)' = Answer(Asked) /\ Underway' = Underway /\ Taken' = Taken
    BY <2>1 DEF Asked, Answer, Underway, Taken
  <2>3. Pipes'
    BY <2>1, <2>2 DEF IInv, Pipes, Waiting, Answering
  <2> QED BY <2>1, <2>3, ProcessKeeps DEF IInv, TypeOK
<1> QED BY <1>1, <1>2, <1>3, <1>4, <1>5 DEF Next, Done

\* The invariant of the batch session under its caller (Fetch, Close, fetchBlob,
\* fetchBuffers): the pipes and the unread rest of an answer are what git owes for the one
\* request on the way, and the failures recorded account for the hunks given up.
THEOREM BatchSessionInvariant == Spec => []IInv
BY InitIInv, NextIInv, PTL DEF Spec

\* Requests and answers stay in step (BatchSession.Fetch): whatever failed before, when
\* the reader is about to ask, nothing of an earlier answer is left in a running process
\* or its pipes.
THEOREM BatchSessionInStep == Spec => []InStep
<1>1. IInv => InStep
  BY DEF IInv, Pipes, Underway, InStep
<1> QED BY <1>1, BatchSessionInvariant, PTL

\* A rendered hunk shows its own objects, or a file in place of one (fetchBuffers): the
\* contents of another object never get into it, after any failures.
THEOREM BatchSessionOwnBlobs == Spec => []OwnBlobs
<1>1. IInv => OwnBlobs
  BY DEF IInv, Provenance
<1> QED BY <1>1, BatchSessionInvariant, PTL

\* A process that dies costs at most FailureLimit hunks of intact objects their rendering,
\* however many follow (recordFailure and the fallback of fetchBlob).
THEOREM BatchSessionDeathCostsLittle == Spec => []DeathCostsLittle
<1>1. IInv => DeathCostsLittle
  <2> SUFFICES ASSUME IInv PROVE Cardinality(Spoilt) <= FailureLimit
    BY DEF DeathCostsLittle, Spoilt
  <2>1. Cardinality(Spoilt) \in Nat /\ Cardinality(Spoilt) <= failures
        /\ failures <= FailureLimit /\ failures \in Nat
    BY FS_CardinalityType DEF IInv, TypeOK, Costs
  <2> QED BY <2>1, LimitAssumption
<1> QED BY <1>1, BatchSessionInvariant, PTL
=============================================================================
