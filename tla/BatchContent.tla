---------------------------- MODULE BatchContent ----------------------------
(***************************************************************************)
(* GetBatchContent (internal/git/git.go): the blobs of many requests from  *)
(* one "git cat-file --batch" process.  A goroutine writes the object      *)
(* specs to the process's stdin while the caller reads the answers from    *)
(* its stdout, in the same order; any answer it cannot read makes it wait  *)
(* for the process and fall back to one git command per request.  Both     *)
(* pipes are bounded, as the operating system's are.                       *)
(*                                                                         *)
(* A request is a name.  Kind says what it is to git:                      *)
(*   disk     Revision "": read from the working tree, git is not asked    *)
(*   blob     answered by a header, its contents and a newline             *)
(*   missing  answered by "<spec> missing" (or "ambiguous")                *)
(*   gitlink  a submodule entry, answered by the two words "<oid> submodule"*)
(*            by git versions that report them                             *)
(* The process is external: its behaviour is what git.go relies on.        *)
(***************************************************************************)
EXTENDS Integers, Sequences, FiniteSets

CONSTANTS Names,
          Kind,         \* [Names -> {"disk", "blob", "missing", "gitlink"}]
          RequestLists, \* the request lists considered
          PipeCap,      \* capacity of each pipe: specs, or units of an answer
          BlobUnits     \* how many units of contents a blob has

ASSUME NamesAssumption ==
  /\ Kind \in [Names -> {"disk", "blob", "missing", "gitlink"}]
  /\ \A s \in RequestLists : s \in Seq(Names)
  /\ "unset" \notin Names
ASSUME PipeAssumption == PipeCap \in Nat \ {0} /\ BlobUnits \in Nat

VARIABLES
  reqs,        \* the requests
  specs,       \* catSpecs: the distinct specs, in order of first use
  reader,      \* pc of the caller
  at,          \* the spec whose answer is being read
  wanted,      \* units of that answer still to read (contents and newline)
  got,         \* the contents read so far
  result,      \* [Names -> content], "unset" where the map has no entry
  status,      \* "none", "ok", "error"
  writer, sent,
  stdin, stdinOpen, stdout,
  git, pending \* the process: "running" or "exited", and the rest of its answer

readerVars == <<reader, at, wanted, got, result, status>>
writerVars == <<writer, sent>>
gitVars == <<git, pending>>
vars == <<reqs, specs, readerVars, writerVars, stdin, stdinOpen, stdout, gitVars>>

Unit(k, n) == [kind |-> k, name |-> n]
Asked(n) == Kind[n] # "disk"
Indexes(s) == 1 .. Len(s)

\* What the caller may find for a request: its contents, or nil.
Content(n) == IF Kind[n] \in {"blob", "disk"} THEN n ELSE "nil"

\* The answer of git cat-file --batch to one spec.
Answer(n) ==
  CASE Kind[n] = "blob" -> <<Unit("header", n)>> \o [i \in 1 .. BlobUnits |-> Unit("data", n)]
                           \o <<Unit("newline", n)>>
    [] Kind[n] = "missing" -> <<Unit("missing", n)>>
    [] OTHER -> <<Unit("odd", n)>>

\* Requests for the same spec are asked once.
IsDedup(s, all) ==
  /\ {s[i] : i \in Indexes(s)} = {n \in {all[i] : i \in Indexes(all)} : Asked(n)}
  /\ \A i, k \in Indexes(s) : i < k =>
       \E p \in Indexes(all) : all[p] = s[i] /\ \A q \in 1 .. p : all[q] # s[k]

Dedups(all) == {s \in UNION {[1 .. n -> Names] : n \in 0 .. Len(all)} : IsDedup(s, all)}

Init ==
  /\ reqs \in RequestLists /\ specs \in Dedups(reqs)
  /\ reader = "disk" /\ at = 1 /\ wanted = 0 /\ got = <<>>
  /\ result = [n \in Names |-> "unset"] /\ status = "none"
  /\ writer = "off" /\ sent = 0
  /\ stdin = <<>> /\ stdinOpen = TRUE /\ stdout = <<>>
  /\ git = "running" /\ pending = <<>>

Frame == UNCHANGED <<reqs, specs>>

(***************************************************************************)
(* The caller.                                                             *)
(***************************************************************************)
\* Working-tree requests are read first; one unreadable file fails the batch.
\* Then the process and the writer start, unless nothing is left to ask.
ReadDisk ==
  /\ reader = "disk"
  /\ \/ /\ result' = [n \in Names |-> IF ~Asked(n) /\ \E i \in Indexes(reqs) : reqs[i] = n
                                      THEN Content(n) ELSE "unset"]
        /\ reader' = (IF specs = <<>> THEN "returned" ELSE "header")
        /\ status' = (IF specs = <<>> THEN "ok" ELSE "none")
        /\ writer' = (IF specs = <<>> THEN "off" ELSE "writing")
     \/ /\ \E i \in Indexes(reqs) : ~Asked(reqs[i])
        /\ reader' = "returned" /\ status' = "error"
        /\ UNCHANGED <<result, writer>>
  /\ UNCHANGED <<at, wanted, got, sent, stdin, stdinOpen, stdout, gitVars>> /\ Frame

AnswerDone(n, c) ==
  /\ result' = [result EXCEPT ![n] = c]
  /\ at' = at + 1
  /\ reader' = (IF at' > Len(specs) THEN "wait" ELSE "header")

\* Mutant: the requests are written before the first answer is read.
ReadHeaderAfterWrites ==
  /\ reader = "header" /\ stdout # <<>> /\ writer = "exited"
  /\ stdout' = Tail(stdout)
  /\ \/ /\ Head(stdout).kind = "missing"
        /\ AnswerDone(specs[at], "nil") /\ UNCHANGED <<wanted, got>>
     \/ /\ Head(stdout).kind # "missing"
        /\ reader' = "data" /\ wanted' = BlobUnits + 1 /\ got' = <<>>
        /\ UNCHANGED <<result, at>>
  /\ UNCHANGED <<status, writerVars, stdin, stdinOpen, gitVars>> /\ Frame

\* One header line: missing, a size, or something without a size.
ReadHeader ==
  /\ reader = "header" /\ stdout # <<>>
  /\ stdout' = Tail(stdout)
  /\ \/ /\ Head(stdout).kind = "missing"
        /\ AnswerDone(specs[at], "nil") /\ UNCHANGED <<wanted, got>>
     \/ /\ Head(stdout).kind = "header"
        /\ reader' = "data" /\ wanted' = BlobUnits + 1 /\ got' = <<>>
        /\ UNCHANGED <<result, at>>
     \/ /\ Head(stdout).kind \in {"odd", "data", "newline"}
        /\ reader' = "abort" /\ UNCHANGED <<result, at, wanted, got>>
  /\ UNCHANGED <<status, writerVars, stdin, stdinOpen, gitVars>> /\ Frame

\* The contents of the spec being read; of an empty blob there is nothing to mix up.
Whole(units) == IF units = <<>> THEN specs[at]
                ELSE IF \A i \in Indexes(units) : units[i] = units[1] THEN units[1] ELSE "mixed"

\* io.ReadFull of the contents, then the newline.
ReadData ==
  /\ reader = "data" /\ stdout # <<>>
  /\ stdout' = Tail(stdout)
  /\ got' = Append(got, Head(stdout).name)
  /\ wanted' = wanted - 1
  /\ IF wanted > 1 THEN UNCHANGED <<reader, at, result>>
     ELSE AnswerDone(specs[at], Whole(got'))
  /\ UNCHANGED <<status, writerVars, stdin, stdinOpen, gitVars>> /\ Frame

\* End of file where a header or contents are expected; the error of reading
\* the final newline is ignored.
ReadEOF ==
  /\ reader \in {"header", "data"} /\ stdout = <<>> /\ git = "exited"
  /\ IF reader = "data" /\ wanted = 1
     THEN wanted' = 0 /\ AnswerDone(specs[at], Whole(got))
     ELSE reader' = "abort" /\ UNCHANGED <<at, result, wanted>>
  /\ UNCHANGED <<got, status, writerVars, stdin, stdinOpen, stdout, gitVars>>
  /\ Frame

\* stdin.Close() and cmd.Wait(); nothing reads stdout any more.
Abort ==
  /\ reader = "abort" /\ reader' = "waitAbort"
  /\ stdinOpen' = FALSE
  /\ UNCHANGED <<at, wanted, got, result, status, writerVars, stdin, stdout, gitVars>> /\ Frame

\* cmd.Wait() returns; after an abort every request is read again, one by one.
WaitGit ==
  /\ reader \in {"wait", "waitAbort"} /\ git = "exited"
  /\ reader' = (IF reader = "wait" THEN "returned" ELSE "fallback")
  /\ status' = (IF reader = "wait" THEN "ok" ELSE "none")
  /\ UNCHANGED <<at, wanted, got, result, writerVars, stdin, stdinOpen, stdout, gitVars>> /\ Frame

\* Mutant: the fallback only fills in what the batch did not deliver.
FallbackKeeps ==
  /\ reader = "fallback" /\ reader' = "returned"
  /\ status' = "ok"
  /\ UNCHANGED <<result, at, wanted, got, writerVars, stdin, stdinOpen, stdout, gitVars>> /\ Frame

Fallback ==
  /\ reader = "fallback" /\ reader' = "returned"
  /\ \/ /\ status' = "ok"
        /\ result' = [n \in Names |-> IF \E i \in Indexes(reqs) : reqs[i] = n
                                      THEN Content(n) ELSE "unset"]
     \/ status' = "error" /\ UNCHANGED result
  /\ UNCHANGED <<at, wanted, got, writerVars, stdin, stdinOpen, stdout, gitVars>> /\ Frame

Reader == \/ ReadDisk \/ ReadHeader \/ ReadData \/ ReadEOF \/ Abort \/ WaitGit \/ Fallback

(***************************************************************************)
(* The writer goroutine, which closes stdin when it ends, and the process. *)
(***************************************************************************)
\* Mutant: the writer sends every request, the reader expects every spec once.
WriteEveryRequest ==
  LET asked == SelectSeq(reqs, Asked) IN
  /\ writer = "writing" /\ sent < Len(specs)
  /\ git = "running" /\ stdinOpen /\ Len(stdin) < PipeCap
  /\ stdin' = Append(stdin, asked[sent + 1]) /\ sent' = sent + 1
  /\ UNCHANGED <<writer, readerVars, stdinOpen, stdout, gitVars>> /\ Frame

WriteSpec ==
  /\ writer = "writing" /\ sent < Len(specs)
  /\ git = "running" /\ stdinOpen /\ Len(stdin) < PipeCap
  /\ stdin' = Append(stdin, specs[sent + 1]) /\ sent' = sent + 1
  /\ UNCHANGED <<writer, readerVars, stdinOpen, stdout, gitVars>> /\ Frame

\* All specs are written, or a write fails; the deferred Close.
WriterExit ==
  /\ writer = "writing"
  /\ sent = Len(specs) \/ git = "exited" \/ ~stdinOpen
  /\ writer' = "exited" /\ stdinOpen' = FALSE
  /\ UNCHANGED <<sent, readerVars, stdin, stdout, gitVars>> /\ Frame

Writer == WriteSpec \/ WriterExit

GitRead ==
  /\ git = "running" /\ pending = <<>> /\ stdin # <<>>
  /\ pending' = Answer(Head(stdin)) /\ stdin' = Tail(stdin)
  /\ UNCHANGED <<git, readerVars, writerVars, stdinOpen, stdout>> /\ Frame

GitWrite ==
  /\ git = "running" /\ pending # <<>> /\ Len(stdout) < PipeCap
  /\ stdout' = Append(stdout, Head(pending)) /\ pending' = Tail(pending)
  /\ UNCHANGED <<git, readerVars, writerVars, stdin, stdinOpen>> /\ Frame

GitExit ==
  /\ git = "running" /\ pending = <<>> /\ stdin = <<>> /\ ~stdinOpen
  /\ git' = "exited"
  /\ UNCHANGED <<pending, readerVars, writerVars, stdin, stdinOpen, stdout>> /\ Frame

\* The process dies; what it wrote stays readable.
GitDies ==
  /\ git = "running" /\ writer # "off" /\ git' = "exited"
  /\ UNCHANGED <<pending, readerVars, writerVars, stdin, stdinOpen, stdout>> /\ Frame

Git == GitRead \/ GitWrite \/ GitExit

Returned == reader = "returned" /\ writer # "writing" /\ UNCHANGED vars

Next == Reader \/ Writer \/ Git \/ GitDies \/ Returned

\* The two goroutines are scheduled and the process runs; it need not die.
Fairness == WF_vars(Reader) /\ WF_vars(Writer) /\ WF_vars(Git)

Spec == Init /\ [][Next]_vars
FairSpec == Spec /\ Fairness

-----------------------------------------------------------------------------
\* The answers are matched to the requests by their order alone.  Whatever the
\* batch delivered before it failed, and however the pipes filled, a request is
\* given its own contents, or nil when git has none, and never another's.
OwnContent ==
  \A n \in Names : result[n] # "unset" =>
    result[n] = Content(n) /\ \E i \in Indexes(reqs) : reqs[i] = n

\* A nil error means a complete map: every request has an entry, also after a
\* process that died half-way (newContentJob takes a missing entry as "load it").
CompleteWhenOk ==
  status = "ok" => \A i \in Indexes(reqs) : result[reqs[i]] # "unset"

\* The call returns: the two ends of the pipes never wait for each other, and a
\* failed batch goes on to the single-file queries (cmd/root.go:613 "On batch
\* failure, batchMap remains nil and getContent falls back to single-file queries").
Returns == <>(reader = "returned")
=============================================================================
