------------------------------ MODULE DiffJobs ------------------------------
(***************************************************************************)
(* The concurrent diff runner of cmd/concurrent.go: one feeder, a pool of  *)
(* workers, one printer (the calling goroutine) and a monitor that cancels *)
(* the run when the pager exits.  Jobs travel through two bounded channels *)
(* (workQueue to the workers, inFlight to the printer); a semaphore bounds *)
(* how many jobs are between the feeder and the printer.                   *)
(*                                                                         *)
(* A job is its index.  What a diff contains is abstracted to a verdict:   *)
(*   same       nothing to render (equal contents)                         *)
(*   ok         rendered into j.out                                        *)
(*   renderErr  rendered into j.out, and rendering reported an error       *)
(*   err        loading or diffing failed                                  *)
(*   cancelled  the worker saw ctx done: j.err is ctx.Err()                *)
(***************************************************************************)
EXTENDS Integers, Sequences, FiniteSets

CONSTANTS NumJobs,      \* len(jobs); the empty list returns before any goroutine starts
          Workers,      \* the worker goroutines
          MaxInFlight,  \* capacity of the channels and of the semaphore
          Prefetched,   \* jobs that are built with their contents (load == nil)
          HasPager      \* p != nil

ASSUME NumJobsAssumption == NumJobs \in Nat \ {0}
ASSUME MaxInFlightAssumption == MaxInFlight \in 1 .. NumJobs
ASSUME PrefetchedAssumption == Prefetched \subseteq 1 .. NumJobs
ASSUME HasPagerAssumption == HasPager \in BOOLEAN

Jobs == 1 .. NumJobs

VARIABLES
  cancelled,      \* ctx is done
  pager,          \* "none", "running" or "exited" (doneChan closed)
  pagerInput,     \* is the pager's stdin still open on our side
  monitor,        \* pc of the goroutine watching the pager: "wait", "exited"
  feeder,         \* pc of the feeder: "acquire", "toWork", "toFlight", "exited"
  nextIn,         \* the job the feeder hands out next
  workQueue, inFlight, sem,
  worker,         \* [Workers -> pc]: "idle", "load", "run", "free", "close", "exited"
  holding,        \* [Workers -> Jobs \cup {0}]: the job a worker processes
  bytes,          \* the jobs that hold srcBytes/dstBytes
  out,            \* the jobs that hold the rendered buffer j.out
  verdict,        \* [Jobs -> Verdicts]
  done,           \* [Jobs -> "nil", "open", "closed"]: the channel j.done
  printer,        \* pc of the calling goroutine
  nextOut,        \* the iteration of the printing loop: the job it prints
  current,        \* the job it took from inFlight
  filesRendered, hadErrors,
  written,        \* history: the jobs whose output reached the writer, in order
  lost            \* history: jobs whose write failed with an ordinary error

goroutineVars == <<feeder, nextIn, worker, holding, monitor>>
channelVars == <<workQueue, inFlight, sem>>
jobVars == <<bytes, out, verdict, done>>
pagerVars == <<pager, pagerInput>>
resultVars == <<filesRendered, hadErrors, written, lost>>
printVars == <<printer, nextOut, current>>
vars == <<cancelled, goroutineVars, channelVars, jobVars, pagerVars, resultVars, printVars>>

Verdicts == {"none", "same", "ok", "renderErr", "err", "cancelled"}
Rendered == {"ok", "renderErr"}

FlagsOK ==
  /\ cancelled \in BOOLEAN
  /\ pager \in {"none", "running", "exited"}
  /\ pagerInput \in BOOLEAN
  /\ monitor \in {"wait", "exited"}
  /\ hadErrors \in BOOLEAN
  /\ filesRendered \in Nat

PositionsOK ==
  /\ feeder \in {"acquire", "toWork", "toFlight", "exited"}
  /\ nextIn \in 1 .. NumJobs + 1
  /\ printer \in {"next", "await", "check", "write", "blocked", "release",
                  "cancel", "closePager", "waitPager", "join", "returned"}
  /\ nextOut \in 1 .. NumJobs + 1
  /\ current \in Jobs \cup {0}

ChannelsOK ==
  /\ workQueue \in Seq(Jobs)
  /\ inFlight \in Seq(Jobs)
  /\ sem \in 0 .. MaxInFlight
  /\ written \in Seq(Jobs)
  /\ lost \subseteq Jobs

WorkersOK ==
  /\ worker \in [Workers -> {"idle", "load", "run", "free", "close", "exited"}]
  /\ holding \in [Workers -> Jobs \cup {0}]
  /\ \A w \in Workers : holding[w] # 0 <=> worker[w] \in {"load", "run", "free", "close"}

ResultsOK ==
  /\ bytes \subseteq Jobs
  /\ out \subseteq Jobs
  /\ verdict \in [Jobs -> Verdicts]
  /\ done \in [Jobs -> {"nil", "open", "closed"}]

\* Every variable has its type; in particular the two loops never run past their jobs.
TypeOK == FlagsOK /\ PositionsOK /\ ChannelsOK /\ WorkersOK /\ ResultsOK

Init ==
  /\ cancelled = FALSE
  /\ pager = IF HasPager THEN "running" ELSE "none"
  /\ pagerInput = HasPager
  /\ monitor = IF HasPager THEN "wait" ELSE "exited"
  /\ feeder = "acquire" /\ nextIn = 1
  /\ workQueue = <<>> /\ inFlight = <<>> /\ sem = MaxInFlight
  /\ worker = [w \in Workers |-> "idle"]
  /\ holding = [w \in Workers |-> 0]
  /\ bytes = Prefetched
  /\ out = {}
  /\ verdict = [j \in Jobs |-> "none"]
  /\ done = [j \in Jobs |-> "nil"]
  /\ printer = "next" /\ nextOut = 1 /\ current = 0
  /\ filesRendered = 0 /\ hadErrors = FALSE
  /\ written = <<>> /\ lost = {}

(***************************************************************************)
(* The feeder.  It takes a permit, creates j.done, then sends the job to   *)
(* the workers before it sends it to the printer.                          *)
(***************************************************************************)
\* Mutant: the feeder does not wait for a permit.
FeederAcquireUnbounded ==
  /\ feeder = "acquire" /\ nextIn \in Jobs
  /\ done' = [done EXCEPT ![nextIn] = "open"]
  /\ feeder' = "toWork"
  /\ UNCHANGED <<cancelled, nextIn, worker, holding, monitor, channelVars,
                 bytes, out, verdict, pagerVars, resultVars, printVars>>

FeederAcquire ==
  /\ feeder = "acquire" /\ nextIn \in Jobs /\ sem > 0
  /\ sem' = sem - 1
  /\ done' = [done EXCEPT ![nextIn] = "open"]
  /\ feeder' = "toWork"
  /\ UNCHANGED <<cancelled, nextIn, worker, holding, monitor, workQueue, inFlight,
                 bytes, out, verdict, pagerVars, resultVars, printVars>>

FeederToWork ==
  /\ feeder = "toWork" /\ Len(workQueue) < MaxInFlight
  /\ workQueue' = Append(workQueue, nextIn)
  /\ feeder' = "toFlight"
  /\ UNCHANGED <<cancelled, nextIn, worker, holding, monitor, inFlight, sem,
                 jobVars, pagerVars, resultVars, printVars>>

FeederToFlight ==
  /\ feeder = "toFlight" /\ Len(inFlight) < MaxInFlight
  /\ inFlight' = Append(inFlight, nextIn)
  /\ feeder' = "acquire" /\ nextIn' = nextIn + 1
  /\ UNCHANGED <<cancelled, worker, holding, monitor, workQueue, sem,
                 jobVars, pagerVars, resultVars, printVars>>

\* The loop over jobs ends, or any of the three selects takes ctx.Done().
FeederExit ==
  /\ feeder # "exited"
  /\ cancelled \/ (feeder = "acquire" /\ nextIn > NumJobs)
  /\ feeder' = "exited"
  /\ UNCHANGED <<cancelled, nextIn, worker, holding, monitor, channelVars,
                 jobVars, pagerVars, resultVars, printVars>>

Feeder == FeederAcquire \/ FeederToWork \/ FeederToFlight \/ FeederExit

(***************************************************************************)
(* The workers.  The two deferred calls of processDiffJob run in reverse   *)
(* order: the source bytes are dropped ("free"), then j.done is closed.    *)
(***************************************************************************)
MoveWorker(w, from, to) ==
  /\ worker[w] = from
  /\ worker' = [worker EXCEPT ![w] = to]

WorkerTake(w) ==
  /\ MoveWorker(w, "idle", "load")
  /\ workQueue # <<>>
  /\ holding' = [holding EXCEPT ![w] = Head(workQueue)]
  /\ workQueue' = Tail(workQueue)
  /\ UNCHANGED <<cancelled, feeder, nextIn, monitor, inFlight, sem,
                 jobVars, pagerVars, resultVars, printVars>>

WorkerExit(w) ==
  /\ MoveWorker(w, "idle", "exited")
  /\ cancelled
  /\ UNCHANGED <<cancelled, feeder, nextIn, monitor, holding, channelVars,
                 jobVars, pagerVars, resultVars, printVars>>

\* Mutant: processDiffJob closes j.done at its start instead of deferring it.
WorkerLoadClosesFirst(w) ==
  LET j == holding[w] IN
  /\ MoveWorker(w, "load", IF cancelled THEN "free" ELSE "run")
  /\ done' = [done EXCEPT ![j] = "closed"]
  /\ verdict' = [verdict EXCEPT ![j] = IF cancelled THEN "cancelled" ELSE @]
  /\ bytes' = IF cancelled THEN bytes ELSE bytes \cup {j}
  /\ UNCHANGED <<cancelled, feeder, nextIn, monitor, holding, channelVars,
                 out, pagerVars, resultVars, printVars>>

\* ctx.Err() and then j.load(), unless the job came with its contents.
WorkerLoad(w) ==
  LET j == holding[w] IN
  /\ worker[w] = "load"
  /\ \/ /\ cancelled
        /\ verdict' = [verdict EXCEPT ![j] = "cancelled"]
        /\ MoveWorker(w, "load", "free")
        /\ bytes' = bytes
     \/ /\ ~cancelled
        /\ bytes' = bytes \cup {j}
        /\ \/ MoveWorker(w, "load", "run") /\ verdict' = verdict
           \/ /\ j \notin Prefetched
              /\ MoveWorker(w, "load", "free")
              /\ verdict' = [verdict EXCEPT ![j] = "err"]
  /\ UNCHANGED <<cancelled, feeder, nextIn, monitor, holding, channelVars,
                 out, done, pagerVars, resultVars, printVars>>

\* The second ctx.Err(), then the diff and its rendering into j.out.
WorkerRun(w) ==
  LET j == holding[w] IN
  /\ MoveWorker(w, "run", "free")
  /\ \E v \in IF cancelled THEN {"cancelled"} ELSE {"same", "err"} \cup Rendered :
       /\ verdict' = [verdict EXCEPT ![j] = v]
       /\ out' = IF v \in Rendered THEN out \cup {j} ELSE out
  /\ UNCHANGED <<cancelled, feeder, nextIn, monitor, holding, channelVars,
                 bytes, done, pagerVars, resultVars, printVars>>

\* Mutant: the deferred function no longer drops the source bytes.
WorkerFreeKeeps(w) ==
  /\ MoveWorker(w, "free", "close")
  /\ UNCHANGED <<cancelled, feeder, nextIn, monitor, holding, channelVars,
                 jobVars, pagerVars, resultVars, printVars>>

WorkerFree(w) ==
  /\ MoveWorker(w, "free", "close")
  /\ bytes' = bytes \ {holding[w]}
  /\ UNCHANGED <<cancelled, feeder, nextIn, monitor, holding, channelVars,
                 out, verdict, done, pagerVars, resultVars, printVars>>

WorkerClose(w) ==
  /\ MoveWorker(w, "close", "idle")
  /\ done' = [done EXCEPT ![holding[w]] = "closed"]
  /\ holding' = [holding EXCEPT ![w] = 0]
  /\ UNCHANGED <<cancelled, feeder, nextIn, monitor, channelVars,
                 bytes, out, verdict, pagerVars, resultVars, printVars>>

Worker(w) == \/ WorkerTake(w) \/ WorkerExit(w) \/ WorkerLoad(w)
             \/ WorkerRun(w) \/ WorkerFree(w) \/ WorkerClose(w)

(***************************************************************************)
(* The printer: the calling goroutine, in job order, one job at a time.    *)
(***************************************************************************)
MovePrinter(from, to) == printer = from /\ printer' = to

PrinterTake ==
  /\ MovePrinter("next", "await")
  /\ nextOut <= NumJobs /\ inFlight # <<>>
  /\ current' = Head(inFlight)
  /\ inFlight' = Tail(inFlight)
  /\ UNCHANGED <<cancelled, goroutineVars, workQueue, sem, jobVars, pagerVars,
                 resultVars, nextOut>>

\* Mutant: the printer does not wait for j.done.
PrinterAwaitNothing ==
  /\ MovePrinter("await", "check")
  /\ UNCHANGED <<cancelled, goroutineVars, channelVars, jobVars, pagerVars,
                 resultVars, nextOut, current>>

PrinterAwait ==
  /\ MovePrinter("await", "check")
  /\ done[current] = "closed"
  /\ UNCHANGED <<cancelled, goroutineVars, channelVars, jobVars, pagerVars,
                 resultVars, nextOut, current>>

\* Mutant: the receive from inFlight is not in a select with ctx.Done().
PrinterStopLate ==
  /\ printer \in {"await", "check"}
  /\ cancelled
  /\ printer' = "cancel"
  /\ UNCHANGED <<cancelled, goroutineVars, channelVars, jobVars, pagerVars,
                 resultVars, nextOut, current>>

\* Either select takes ctx.Done(), or ctx.Err() is set when it is checked.
PrinterStop ==
  /\ printer \in {"await", "check"} \/ (printer = "next" /\ nextOut <= NumJobs)
  /\ cancelled
  /\ printer' = "cancel"
  /\ UNCHANGED <<cancelled, goroutineVars, channelVars, jobVars, pagerVars,
                 resultVars, nextOut, current>>

\* Mutant: no ctx.Err() check between <-j.done and the use of the result.
PrinterReportUnchecked ==
  /\ printer = "check"
  /\ printer' = IF verdict[current] \in Rendered THEN "write" ELSE "release"
  /\ hadErrors' = (hadErrors \/ verdict[current] \in {"err", "cancelled"})
  /\ filesRendered' = filesRendered + (IF verdict[current] \in Rendered THEN 1 ELSE 0)
  /\ UNCHANGED <<cancelled, goroutineVars, channelVars, jobVars, pagerVars,
                 written, lost, nextOut, current>>

\* Mutant: a file without differences is counted as rendered.
PrinterReportCountsAll ==
  /\ printer = "check" /\ ~cancelled
  /\ printer' = IF verdict[current] \in Rendered THEN "write" ELSE "release"
  /\ hadErrors' = (hadErrors \/ verdict[current] = "err")
  /\ filesRendered' = filesRendered + (IF verdict[current] = "err" THEN 0 ELSE 1)
  /\ UNCHANGED <<cancelled, goroutineVars, channelVars, jobVars, pagerVars,
                 written, lost, nextOut, current>>

\* The job's error is reported, or its file is counted and will be written.
PrinterReport ==
  /\ printer = "check" /\ ~cancelled
  /\ CASE verdict[current] \in {"err", "cancelled"} ->
            printer' = "release" /\ hadErrors' = TRUE /\ UNCHANGED filesRendered
       [] verdict[current] \in Rendered ->
            printer' = "write" /\ filesRendered' = filesRendered + 1 /\ UNCHANGED hadErrors
       [] OTHER ->
            printer' = "release" /\ UNCHANGED <<hadErrors, filesRendered>>
  /\ UNCHANGED <<cancelled, goroutineVars, channelVars, jobVars, pagerVars,
                 written, lost, nextOut, current>>

\* rc.writer.Write finds the pipe full and waits: it has no ctx.Done() arm.
PrinterBlocks ==
  /\ MovePrinter("write", "blocked")
  /\ pager # "exited"
  /\ UNCHANGED <<cancelled, goroutineVars, channelVars, jobVars, pagerVars,
                 resultVars, nextOut, current>>

\* The write ends at once, or a blocked one does: the reader has taken the rest of
\* the output, or has closed its end of the pipe.
MoveWrite(to) == printer \in {"write", "blocked"} /\ printer' = to

WriteOk ==
  /\ MoveWrite("release")
  /\ pager # "exited"
  /\ written' = Append(written, current)
  /\ hadErrors' = (hadErrors \/ verdict[current] = "renderErr")
  /\ UNCHANGED <<cancelled, goroutineVars, channelVars, jobVars, pagerVars,
                 filesRendered, lost, nextOut, current>>

\* EPIPE, or os.ErrClosed once cmd.Wait has closed the pipe of a dead pager.
WriteBrokenPipe ==
  /\ MoveWrite("cancel")
  /\ UNCHANGED <<cancelled, goroutineVars, channelVars, jobVars, pagerVars,
                 resultVars, nextOut, current>>

WriteFailed ==
  /\ MoveWrite("release")
  /\ pager # "exited"
  /\ lost' = lost \cup {current}
  /\ hadErrors' = TRUE
  /\ UNCHANGED <<cancelled, goroutineVars, channelVars, jobVars, pagerVars,
                 filesRendered, written, nextOut, current>>

PrinterWrite == WriteOk \/ WriteBrokenPipe \/ WriteFailed

\* Mutant: the permit of a job without output is not returned.
PrinterReleaseLeaks ==
  /\ MovePrinter("release", "next")
  /\ out' = out \ {current}
  /\ done' = [done EXCEPT ![current] = "nil"]
  /\ sem' = sem + (IF verdict[current] = "same" THEN 0 ELSE 1)
  /\ nextOut' = nextOut + 1
  /\ UNCHANGED <<cancelled, goroutineVars, workQueue, inFlight, bytes, verdict,
                 pagerVars, resultVars, current>>

\* j.out and j.done are cleared and the permit returned; the send on sem is
\* not in a select: with a full semaphore it would block for ever.
PrinterRelease ==
  /\ MovePrinter("release", "next")
  /\ sem < MaxInFlight
  /\ out' = out \ {current}
  /\ done' = [done EXCEPT ![current] = "nil"]
  /\ sem' = sem + 1
  /\ nextOut' = nextOut + 1
  /\ UNCHANGED <<cancelled, goroutineVars, workQueue, inFlight, bytes, verdict,
                 pagerVars, resultVars, current>>

PrinterFinish ==
  /\ MovePrinter("next", "cancel")
  /\ nextOut > NumJobs
  /\ UNCHANGED <<cancelled, goroutineVars, channelVars, jobVars, pagerVars,
                 resultVars, nextOut, current>>

(***************************************************************************)
(* The deferred teardown: cancel, p.Close (close stdin, wait for the       *)
(* process), wg.Wait.                                                      *)
(***************************************************************************)
TeardownCancel ==
  /\ MovePrinter("cancel", IF HasPager THEN "closePager" ELSE "join")
  /\ cancelled' = TRUE
  /\ UNCHANGED <<goroutineVars, channelVars, jobVars, pagerVars, resultVars,
                 nextOut, current>>

TeardownClosePager ==
  /\ MovePrinter("closePager", "waitPager")
  /\ pagerInput' = FALSE
  /\ UNCHANGED <<cancelled, goroutineVars, channelVars, jobVars, pager,
                 resultVars, nextOut, current>>

TeardownWaitPager ==
  /\ MovePrinter("waitPager", "join")
  /\ pager = "exited"
  /\ UNCHANGED <<cancelled, goroutineVars, channelVars, jobVars, pagerVars,
                 resultVars, nextOut, current>>

GoroutinesExited ==
  /\ feeder = "exited" /\ monitor = "exited"
  /\ \A w \in Workers : worker[w] = "exited"

TeardownJoin ==
  /\ MovePrinter("join", "returned")
  /\ GoroutinesExited
  /\ UNCHANGED <<cancelled, goroutineVars, channelVars, jobVars, pagerVars,
                 resultVars, nextOut, current>>

Printer == \/ PrinterTake \/ PrinterAwait \/ PrinterStop \/ PrinterReport
           \/ PrinterBlocks \/ PrinterWrite \/ PrinterRelease \/ PrinterFinish
           \/ TeardownCancel \/ TeardownClosePager \/ TeardownWaitPager
           \/ TeardownJoin

\* The monitor sees ctx.Done() or p.Done(); in the second case it cancels.
Monitor ==
  /\ monitor = "wait"
  /\ cancelled \/ pager = "exited"
  /\ monitor' = "exited"
  /\ cancelled' = TRUE
  /\ UNCHANGED <<feeder, nextIn, worker, holding, channelVars, jobVars, pagerVars,
                 resultVars, printVars>>

\* The user quits the pager, or the pager has shown everything, or it dies.
PagerExit ==
  /\ pager = "running"
  /\ pager' = "exited"
  /\ UNCHANGED <<cancelled, goroutineVars, channelVars, jobVars, pagerInput,
                 resultVars, printVars>>

Returned == printer = "returned" /\ UNCHANGED vars

Next == \/ Feeder \/ (\E w \in Workers : Worker(w)) \/ Printer \/ Monitor
        \/ PagerExit \/ Returned

\* The printer depends on the reader of the output: it is inside a write to a full
\* pipe, or waits for the pager process to exit.
WaitsForReader == printer \in {"blocked", "waitPager"} /\ pager # "exited"

\* Every goroutine is scheduled.  Nothing is assumed of the reader of the output: it
\* may never read what a blocked write has for it, and a pager may run for ever.
Fairness == /\ WF_vars(Feeder) /\ WF_vars(Monitor)
            /\ WF_vars(Printer /\ ~WaitsForReader)
            /\ \A w \in Workers : WF_vars(Worker(w))

Spec == Init /\ [][Next]_vars
FairSpec == Spec /\ Fairness

-----------------------------------------------------------------------------
FeederHolds == IF feeder \in {"toWork", "toFlight"} THEN 1 ELSE 0
InLoop == printer \in {"next", "await", "check", "write", "blocked", "release"}
Finished == IF printer = "release" THEN 1 .. nextOut ELSE 1 .. nextOut - 1

\* Every permit is in the semaphore, with the feeder, or with a job that was
\* handed out and is not yet printed; only a cancelled feeder drops one.  A
\* permit leaked anywhere (a job skipped by the printer, an early continue)
\* would starve the feeder after MaxInFlight jobs.
PermitsConserved ==
  /\ sem + FeederHolds + (nextIn - nextOut) <= MaxInFlight
  /\ ~cancelled => sem + FeederHolds + (nextIn - nextOut) = MaxInFlight

\* No goroutine ever waits for room in a channel: the feeder's two sends find a
\* free slot, and so does the printer's send on sem, which has no ctx.Done() arm
\* and would hang the whole program (cmd/concurrent.go:237).
NoBlockedSend ==
  /\ feeder = "toWork" => Len(workQueue) < MaxInFlight
  /\ feeder = "toFlight" => Len(inFlight) < MaxInFlight
  /\ printer = "release" => sem < MaxInFlight

\* The writer receives the jobs' output in the order of the jobs, each at most
\* once, however the workers overtake each other; and no rendered job before the
\* printer's position is missing unless its write failed.
PrintedInOrder ==
  /\ \A i, k \in 1 .. Len(written) : i < k => written[i] < written[k]
  /\ \A j \in Jobs : (\E i \in 1 .. Len(written) : written[i] = j)
                     <=> j \in Finished /\ verdict[j] \in Rendered /\ j \notin lost

\* hadErrors (the exit status) and filesRendered (which decides the fallback in
\* runGitMode) say exactly what the printed prefix contained: a job that failed
\* only because the run was cancelled is never reported as an error.
ReportExact ==
  printer \in {"next", "await", "check"} =>
    LET Past == 1 .. nextOut - 1 IN
    /\ hadErrors <=> \E j \in Past : verdict[j] \in {"err", "renderErr"} \/ j \in lost
    /\ filesRendered = Cardinality({j \in Past : verdict[j] \in Rendered})

\* When a job is announced as done its source bytes are already dropped, and a
\* printed job keeps nothing: at most MaxInFlight jobs hold a rendered buffer or
\* contents that were loaded on demand, however far the workers run ahead of a
\* slow pager (cmd/concurrent.go:160 "keeping in-flight memory bounded").
MemoryBounded ==
  /\ \A j \in Jobs : done[j] = "closed" => j \notin bytes
  /\ \A j \in 1 .. nextOut - 1 : j \notin bytes \cup out
  /\ Cardinality(out \cup (bytes \ Prefetched)) <= MaxInFlight

KeepsDoneJobs ==
  \A j \in Jobs : done[j] = "closed" =>
    /\ verdict'[j] = verdict[j]
    /\ done'[j] = "closed" \/ (printer = "release" /\ current = j)
    /\ \A w \in Workers : holding'[w] # j

\* What the printer reads of a job after <-j.done is final: no worker writes the
\* verdict or the output of a job whose channel is closed, or takes it again.
DoneIsFinal == [][KeepsDoneJobs]_vars

\* The call returns: after the last job, or after the pager or the pipe has gone, with
\* every goroutine joined, whatever they were waiting for.  The one exception is a
\* living reader who from some time on leaves the printer waiting for ever, in a write
\* it does not read or after its input was closed (cmd/concurrent.go:221, pager.go:85);
\* a pager that exits releases both.
Termination == <>[]WaitsForReader \/ <>(printer = "returned")

(***************************************************************************)
(* What the caller is promised (OrderedOutput).  A job is consumed at the  *)
(* step that leads to "release"; its verdict is known once j.done closes.  *)
(***************************************************************************)
Consumed == IF printer = "release" THEN nextOut + 1 ELSE nextOut
Known(j) == (j < Consumed \/ done[j] = "closed") /\ verdict[j] # "cancelled"
KnownVerdict == [j \in Jobs |-> IF Known(j) THEN verdict[j] ELSE "unknown"]
FilesConsumed == IF printer \in {"write", "blocked"} THEN filesRendered - 1 ELSE filesRendered
PagerGone == pager = "exited"
Phase == IF InLoop THEN "printing" ELSE IF printer = "returned" THEN "returned" ELSE "stopping"

Promise == INSTANCE OrderedOutput WITH
  verdict <- KnownVerdict, next <- Consumed, shown <- written, count <- FilesConsumed,
  errors <- hadErrors, readerGone <- PagerGone, phase <- Phase

\* The concurrent runner implements the sequential promise: results are decided
\* in any order, but consumed one by one in job order, and the run stops early
\* only when the reader of the output has gone.
ImplementsPromise == Promise!Spec
=============================================================================
