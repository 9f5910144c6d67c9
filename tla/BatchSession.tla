---------------------------- MODULE BatchSession ----------------------------
(***************************************************************************)
(* git.BatchSession (internal/git/batch.go) as the stream processor uses   *)
(* it: fetchBuffers (internal/streamdiff/stream.go) asks for the two blobs *)
(* of a hunk, one request at a time, over one long-lived git cat-file      *)
(* --batch process.  Three failures in a row poison the session; from then *)
(* on every blob costs a git command of its own.  A goroutine waits for    *)
(* the process and closes both pipes when it has exited, whether or not    *)
(* everything it wrote has been read.                                      *)
(*                                                                         *)
(* A hunk is a pair of objects, old and new.  Kind says what git knows:    *)
(*   zero     the null object id: nothing is asked                         *)
(*   blob     a header, contents, a newline                                *)
(*   empty    a header and a newline                                       *)
(*   corrupt  git dies on it, perhaps after the header                     *)
(*   missing  "<oid> missing" (or "ambiguous")                             *)
(*   odd      a line of fewer than three words that is neither             *)
(* A blob that was fetched is its object, a file read instead is "disk".   *)
(***************************************************************************)
EXTENDS Integers, Sequences, FiniteSets

CONSTANTS Objects,
          Kind,         \* [Objects -> {"zero", "blob", "empty", "corrupt", "missing", "odd"}]
          HunkLists,    \* the sequences of hunks considered
          SamePath,     \* the positions whose hunk keeps its path
          FailureLimit, \* consecutive failures that poison the session: 3 in the code
          BlobUnits     \* how many units of contents a blob has

ASSUME KindAssumption ==
  /\ Kind \in [Objects -> {"zero", "blob", "empty", "corrupt", "missing", "odd"}]
  /\ \A s \in HunkLists : s \in Seq(Objects \X Objects)
\* Object ids are hexadecimal digits: none is a name of what stands for a blob.
ASSUME ObjectsAssumption == {"nil", "disk"} \cap Objects = {}
ASSUME LimitAssumption == FailureLimit \in Nat \ {0} /\ BlobUnits \in Nat \ {0}

VARIABLES
  hunks,        \* the hunks of the stream
  available,    \* gitAvailable: StartBatchSession succeeded
  client,       \* pc of the reader goroutine
  at, side,     \* the hunk, and which of its two blobs, being fetched
  wanted, got,  \* units of contents still to read, and those read
  old,          \* oldBytes
  results,      \* [hunk -> NotYet, Raw or <<old, new>>]
  failures,     \* consecutiveFailures
  poisoned, closed,
  stdin, stdinOpen, stdout,
  git, pending, \* the process, and the rest of its answer
  reaped        \* doneChan is closed

clientVars == <<client, at, side, wanted, got, old, results>>
sessionVars == <<failures, poisoned, closed>>
pipeVars == <<stdin, stdinOpen, stdout>>
gitVars == <<git, pending, reaped>>
vars == <<hunks, available, clientVars, sessionVars, pipeVars, gitVars>>

Hunks == 1 .. Len(hunks)
Asked == hunks[at][side]
NotYet == <<>>
Raw == <<"raw">>
Rendered == {h \in Hunks : results[h] \notin {NotYet, Raw}}
Unit(k, o) == [kind |-> k, object |-> o]

\* The answer of git cat-file --batch to one object id.
Answer(o) ==
  CASE Kind[o] = "missing" -> <<Unit("missing", o)>>
    [] Kind[o] = "odd"     -> <<Unit("odd", o)>>
    [] OTHER -> <<Unit("header", o)>>
                \o [i \in 1 .. (IF Kind[o] = "blob" THEN BlobUnits ELSE 0) |-> Unit("data", o)]
                \o <<Unit("newline", o)>>

\* What git cat-file -p prints; it fails on every other object.
Printed(o) == Kind[o] \in {"blob", "empty"}

\* The size a header announces.
Size(o) == IF Kind[o] \in {"blob", "corrupt"} THEN BlobUnits ELSE 0

Init ==
  /\ hunks \in HunkLists
  /\ available \in BOOLEAN
  /\ client = "next" /\ at = 1 /\ side = 1 /\ wanted = 0 /\ got = <<>> /\ old = "nil"
  /\ results = [h \in Hunks |-> NotYet]
  /\ failures = 0 /\ poisoned = FALSE /\ closed = FALSE
  /\ stdin = <<>> /\ stdinOpen = available /\ stdout = <<>>
  /\ git = (IF available THEN "running" ELSE "exited") /\ pending = <<>>
  /\ reaped = ~available

-----------------------------------------------------------------------------
(***************************************************************************)
(* fetchBuffers and fetchBlob.                                             *)
(***************************************************************************)
\* Both blobs are there.  If neither came from git and both would be the same file
\* of the working tree, the objects are missing: the hunk is passed through raw.
Deliver(o, n) ==
  LET h == hunks[at] IN
  IF /\ o = "disk" /\ n = "disk" /\ at \in SamePath
     /\ h[1] # h[2] /\ Kind[h[1]] # "zero" /\ Kind[h[2]] # "zero"
  THEN Raw ELSE <<o, n>>

\* The blob in hand is c: go on with the other side, or the next hunk.
Have(c) ==
  /\ client' = "next"
  /\ IF side = 1
     THEN side' = 2 /\ old' = c /\ UNCHANGED <<at, results>>
     ELSE /\ results' = [results EXCEPT ![at] = Deliver(old, c)]
          /\ at' = at + 1 /\ side' = 1 /\ old' = "nil"

\* An error: flushCurrent dumps the hunk.
GiveUp ==
  /\ results' = [results EXCEPT ![at] = Raw]
  /\ at' = at + 1 /\ side' = 1 /\ old' = "nil" /\ client' = "next"

\* Mutant: a broken session is asked for ever.
FetchNextUnpoisoned ==
  /\ client = "next" /\ at \in Hunks
  /\ \/ Kind[Asked] = "zero" /\ Have("nil")
     \/ /\ Kind[Asked] # "zero"
        /\ client' = (IF available THEN "write" ELSE "disk")
        /\ UNCHANGED <<at, side, old, results>>
  /\ UNCHANGED <<hunks, available, wanted, got, sessionVars, pipeVars, gitVars>>

FetchNext ==
  /\ client = "next" /\ at \in Hunks
  /\ \/ Kind[Asked] = "zero" /\ Have("nil")
     \/ /\ Kind[Asked] # "zero"
        /\ client' = (IF ~available THEN "disk" ELSE IF poisoned THEN "single" ELSE "write")
        /\ UNCHANGED <<at, side, old, results>>
  /\ UNCHANGED <<hunks, available, wanted, got, sessionVars, pipeVars, gitVars>>

\* git cat-file -p: a command that fails is taken for an object that is not there.
SingleFetch ==
  /\ client = "single"
  /\ IF Printed(Asked) THEN Have(Asked)
     ELSE client' = "disk" /\ UNCHANGED <<at, side, old, results>>
  /\ UNCHANGED <<hunks, available, wanted, got, sessionVars, pipeVars, gitVars>>

ReadDisk ==
  /\ client = "disk"
  /\ Have("disk") \/ GiveUp
  /\ UNCHANGED <<hunks, available, wanted, got, sessionVars, pipeVars, gitVars>>

(***************************************************************************)
(* BatchSession.Fetch.                                                     *)
(***************************************************************************)
\* recordFailure: one more, and the last one poisons the session and kills git.
RecordFailure ==
  /\ failures' = failures + 1
  /\ IF failures' >= FailureLimit THEN poisoned' = TRUE /\ git' = "exited"
     ELSE UNCHANGED <<poisoned, git>>
  /\ GiveUp

Write ==
  /\ client = "write"
  /\ \/ /\ stdinOpen /\ git = "running"
        /\ stdin' = Append(stdin, Asked)
        /\ client' = "header"
        /\ UNCHANGED <<at, side, old, results, failures, poisoned, git>>
     \/ /\ ~stdinOpen \/ git = "exited"
        /\ RecordFailure
        /\ UNCHANGED stdin
  /\ UNCHANGED <<hunks, available, wanted, got, closed, stdinOpen, stdout, pending, reaped>>

\* The header: missing (no failure), a size, anything else, or end of file.
HeaderLine ==
  /\ client = "header"
  /\ \/ /\ stdout # <<>> /\ stdout' = Tail(stdout)
        /\ CASE Head(stdout).kind = "missing" ->
                  /\ client' = "disk" /\ failures' = 0
                  /\ UNCHANGED <<wanted, at, side, old, results, poisoned, git>>
             [] Head(stdout).kind = "header" ->
                  /\ wanted' = Size(Head(stdout).object)
                  /\ client' = (IF wanted' = 0 THEN "newline" ELSE "data")
                  /\ UNCHANGED <<failures, at, side, old, results, poisoned, git>>
             [] OTHER -> RecordFailure /\ UNCHANGED wanted
     \/ /\ stdout = <<>> /\ git = "exited"
        /\ RecordFailure /\ UNCHANGED <<stdout, wanted>>
  /\ UNCHANGED <<hunks, available, closed, stdin, stdinOpen, pending, reaped>>

\* Mutant: the buffer of the previous object is used again.
ReadHeaderKeepsBuffer == HeaderLine /\ UNCHANGED got

ReadHeader == HeaderLine /\ got' = <<>>

\* io.ReadFull of the contents.
ReadData ==
  /\ client = "data"
  /\ \/ /\ stdout # <<>> /\ stdout' = Tail(stdout)
        /\ got' = Append(got, Head(stdout).object) /\ wanted' = wanted - 1
        /\ client' = (IF wanted' = 0 THEN "newline" ELSE "data")
        /\ UNCHANGED <<failures, at, side, old, results, poisoned, git>>
     \/ /\ stdout = <<>> /\ git = "exited"
        /\ RecordFailure /\ UNCHANGED <<stdout, got, wanted>>
  /\ UNCHANGED <<hunks, available, closed, stdin, stdinOpen, pending, reaped>>

\* The blob that was read, by the units it is made of.
Blob == IF got = <<>> THEN Asked
        ELSE IF \A i \in 1 .. Len(got) : got[i] = got[1] THEN got[1] ELSE "mixed"

\* Mutant: the newline after the contents is left in the pipe.
ReadNewlineLeaves ==
  /\ client = "newline"
  /\ failures' = 0 /\ Have(Blob)
  /\ UNCHANGED <<hunks, available, wanted, got, poisoned, closed, pipeVars, gitVars>>

\* The newline after the contents; only now the fetch has succeeded.
ReadNewline ==
  /\ client = "newline"
  /\ \/ /\ stdout # <<>> /\ stdout' = Tail(stdout)
        /\ \/ /\ Head(stdout).kind = "newline"
              /\ failures' = 0 /\ Have(Blob) /\ UNCHANGED <<poisoned, git>>
           \/ Head(stdout).kind # "newline" /\ RecordFailure
     \/ /\ stdout = <<>> /\ git = "exited"
        /\ RecordFailure /\ UNCHANGED stdout
  /\ UNCHANGED <<hunks, available, wanted, got, closed, stdin, stdinOpen, pending, reaped>>

\* Mutant: Close does not close the process's stdin.
CloseKeepsStdin ==
  /\ client = "next" /\ at > Len(hunks)
  /\ client' = "wait"
  /\ closed' = available
  /\ UNCHANGED <<hunks, available, at, side, wanted, got, old, results, failures, poisoned,
                 pipeVars, gitVars>>

\* The reader goroutine ends: Close.
Close ==
  /\ client = "next" /\ at > Len(hunks)
  /\ client' = "wait"
  /\ closed' = available /\ stdinOpen' = FALSE
  /\ UNCHANGED <<hunks, available, at, side, wanted, got, old, results, failures, poisoned,
                 stdin, stdout, gitVars>>

CloseWaits ==
  /\ client = "wait" /\ reaped
  /\ client' = "done"
  /\ UNCHANGED <<hunks, available, at, side, wanted, got, old, results, sessionVars,
                 pipeVars, gitVars>>

Client == \/ FetchNext \/ SingleFetch \/ ReadDisk \/ Write \/ ReadHeader \/ ReadData
          \/ ReadNewline \/ Close \/ CloseWaits

(***************************************************************************)
(* cmd.Wait in its goroutine: once git has exited both pipes are closed;   *)
(* what the reader has buffered by then stays readable, the rest is gone.  *)
(***************************************************************************)
Reap ==
  /\ git = "exited" /\ ~reaped
  /\ reaped' = TRUE /\ stdinOpen' = FALSE
  /\ \E n \in 0 .. Len(stdout) : stdout' = SubSeq(stdout, 1, n)
  /\ UNCHANGED <<hunks, available, clientVars, sessionVars, stdin, git, pending>>

GitRead ==
  /\ git = "running" /\ pending = <<>> /\ stdin # <<>>
  /\ stdin' = Tail(stdin)
  /\ LET o == Head(stdin) IN
     \/ /\ Kind[o] # "corrupt" /\ pending' = Answer(o)
        /\ UNCHANGED <<stdout, git>>
     \/ /\ Kind[o] = "corrupt" /\ git' = "exited"
        /\ stdout' \in {stdout, Append(stdout, Unit("header", o))}
        /\ UNCHANGED pending
  /\ UNCHANGED <<hunks, available, clientVars, sessionVars, stdinOpen, reaped>>

GitWrite ==
  /\ git = "running" /\ pending # <<>>
  /\ stdout' = Append(stdout, Head(pending)) /\ pending' = Tail(pending)
  /\ UNCHANGED <<hunks, available, clientVars, sessionVars, stdin, stdinOpen, git, reaped>>

GitExit ==
  /\ git = "running" /\ pending = <<>> /\ stdin = <<>> /\ ~stdinOpen
  /\ git' = "exited"
  /\ UNCHANGED <<hunks, available, clientVars, sessionVars, pipeVars, pending, reaped>>

\* git dies for a reason of its own: a lazy fetch that fails, memory, a signal.
GitDies ==
  /\ git = "running" /\ git' = "exited"
  /\ UNCHANGED <<hunks, available, clientVars, sessionVars, pipeVars, pending, reaped>>

Git == GitRead \/ GitWrite \/ GitExit

Done == client = "done" /\ UNCHANGED vars

Next == Client \/ Reap \/ Git \/ GitDies \/ Done

\* The two goroutines are scheduled and the process runs; it need not die.
Fairness == WF_vars(Client) /\ WF_vars(Reap) /\ WF_vars(Git)

Spec == Init /\ [][Next]_vars
FairSpec == Spec /\ Fairness

-----------------------------------------------------------------------------
\* Requests and answers stay in step: between two fetches nothing of an earlier
\* answer is left on the way, so no header is read out of another object's contents
\* whatever failed before (batch.go:19-20 "to fetch blobs sequentially").
InStep ==
  client \in {"next", "write", "single", "disk"} /\ git = "running" =>
    stdin = <<>> /\ stdout = <<>> /\ pending = <<>>

\* A rendered hunk has the contents of its own two objects, or a file of the working
\* tree in place of one; never another object's, not even after failures.
OwnBlobs ==
  \A h \in Rendered : \A s \in {1, 2} :
                    /\ results[h][s] \in {hunks[h][s], "disk", "nil"}
                    /\ (results[h][s] = "nil") <=> (Kind[hunks[h][s]] = "zero")

\* A git process that dies costs at most FailureLimit hunks of intact objects their
\* rendering: then the session is given up and single commands fetch what is there.
DeathCostsLittle ==
  Cardinality({h \in Hunks : /\ results[h] = Raw
                             /\ available
                             /\ \A s \in {1, 2} : Kind[hunks[h][s]] \in {"blob", "empty", "zero"}})
    <= FailureLimit

\* The reader's deferred Close returns, whatever happened to the process.
CloseReturns == <>(client = "done")

\* A file of the working tree stands in for an object only when git has no such
\* object: stream.go:657-658 "fetchBlob loads object content from the batch coprocess,
\* falling back to git cat-file or working-tree disk files on missing hashes".
DiskOnlyWhenMissing ==
  available => \A h \in Rendered :
    \A s \in {1, 2} : results[h][s] = "disk" => Kind[hunks[h][s]] \in {"missing", "odd"}
=============================================================================
