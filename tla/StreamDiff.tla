----------------------------- MODULE StreamDiff -----------------------------
(***************************************************************************)
(* The patch stream processor of internal/streamdiff: a reader splits      *)
(* stdin into raw text and file hunks, workers diff the hunks, a flusher   *)
(* writes everything to out in the order of the input, and Process waits   *)
(* for the flusher, decides the result and tears everything down.          *)
(*                                                                         *)
(* A line of input is its position; what the reader sees of it is a token: *)
(*   commit  "commit ", "From ", "diff --combined ", "diff --cc "          *)
(*   diff    "diff --git "       index  "index <old>..<new>"               *)
(*   body    another line of a patch                                       *)
(*   note    a line that is not part of a patch and matches no prefix      *)
(* The reader cannot tell body from note.  A hunk is named by the position *)
(* of its "diff" line; what a rendered hunk looks like is abstracted to    *)
(* that position.                                                          *)
(***************************************************************************)
EXTENDS Integers, Sequences, FiniteSets

CONSTANTS Setups,      \* the calls of Process considered
          Workers,
          ChunkLimit,  \* rawChunkLimit, counted in lines
          HunkLimit    \* 50000: a longer hunk is passed through raw

ASSUME LimitsAssumption == ChunkLimit \in Nat \ {0} /\ HunkLimit \in Nat \ {0}
ASSUME SetupsAssumption ==
  \A s \in Setups :
    /\ s.stdin \in Seq({"commit", "diff", "index", "body", "note"})
    /\ s.semCap \in Nat \ {0} /\ s.queueCap \in Nat \ {0} /\ s.hasPager \in BOOLEAN

VARIABLES
  setup,         \* the call: the stream on stdin, the capacities, whether there is a pager
  pos,           \* the next line to read
  reader,        \* pc of the reader goroutine
  rawBuf,        \* rawChunkBuffer
  current,       \* the open fileHunk, or NoHunk
  todo,          \* lines the reader is about to write to rawBuf
  then,          \* what it does once flushCurrent has returned
  opening,       \* the hunk whose job is being queued (0: none)
  permit,        \* permitAcquired
  workQueue, streamQueue, closed, permits,
  worker, holding,
  lines, verdict, done, blobs,   \* the jobs, by hunk
  flusher, item,
  emitted,       \* history: the lines, or rendered hunks, written to out
  cancelled, readerErr, flusherErr, workerErr,
  main, result,
  pager, pagerInput, monitor,
  readerGone     \* history: the reader of out was gone before the result was decided

readerVars == <<pos, reader, rawBuf, current, todo, then, opening, permit>>
queueVars == <<workQueue, streamQueue, closed, permits>>
workerVars == <<worker, holding>>
jobVars == <<lines, verdict, done, blobs>>
flusherVars == <<flusher, item, emitted>>
errVars == <<readerErr, flusherErr, workerErr>>
mainVars == <<main, result>>
pagerVars == <<pager, pagerInput, monitor, readerGone>>
vars == <<setup, readerVars, queueVars, workerVars, jobVars, flusherVars,
          cancelled, errVars, mainVars, pagerVars>>

NoHunk == [head |-> 0, lines |-> <<>>, oid |-> FALSE, raw |-> FALSE]
input == setup.stdin        \* the stream on stdin
SemCap == setup.semCap      \* diffJobSemCap, the capacity of sem and of workQueue
QueueCap == setup.queueCap  \* streamQueueCap
HasPager == setup.hasPager  \* cfg.Pager != nil
Lines == 1 .. Len(input)
Raw(s) == [kind |-> "raw", job |-> 0, text |-> s]
JobItem(h) == [kind |-> "job", job |-> h, text |-> <<>>]

Init ==
  /\ setup \in Setups
  /\ pos = 1 /\ reader = "check" /\ rawBuf = <<>> /\ current = NoHunk
  /\ todo = <<>> /\ then = "read" /\ opening = 0 /\ permit = FALSE
  /\ workQueue = <<>> /\ streamQueue = <<>> /\ closed = FALSE /\ permits = 0
  /\ worker = [w \in Workers |-> "idle"] /\ holding = [w \in Workers |-> 0]
  /\ lines = [i \in Lines |-> <<>>] /\ verdict = [i \in Lines |-> "none"]
  /\ done = [i \in Lines |-> FALSE] /\ blobs = [i \in Lines |-> FALSE]
  /\ flusher = "next" /\ item = Raw(<<>>) /\ emitted = <<>>
  /\ cancelled = FALSE
  /\ readerErr = "none" /\ flusherErr = FALSE /\ workerErr = FALSE
  /\ main = "wait" /\ result = "none"
  /\ pager = (IF HasPager THEN "running" ELSE "none") /\ pagerInput = HasPager
  /\ monitor = (IF HasPager THEN "wait" ELSE "exited") /\ readerGone = FALSE

-----------------------------------------------------------------------------
(***************************************************************************)
(* The reader.  Leaving the goroutine closes both queues; an error goes    *)
(* through failReader, which records the first one and cancels.            *)
(***************************************************************************)
ReaderMove(from, to) == reader = from /\ reader' = to
ReaderFrame == UNCHANGED <<setup, workerVars, flusherVars, flusherErr, workerErr,
                           mainVars, pagerVars>>

\* The top of the loop: ctx.Err() returns at once, a pager that is no longer
\* active ends the stream, otherwise the reader blocks in ReadString.
ReaderCheck ==
  /\ reader = "check"
  /\ \/ cancelled /\ reader' = "exited" /\ closed' = TRUE /\ UNCHANGED then
     \/ ~cancelled /\ pager = "exited" /\ reader' = "flush" /\ then' = "end"
        /\ UNCHANGED closed
     \/ ~cancelled /\ pager # "exited" /\ reader' = "read" /\ UNCHANGED <<then, closed>>
  /\ UNCHANGED <<pos, rawBuf, current, todo, opening, permit, workQueue, streamQueue,
                 permits, jobVars, cancelled, readerErr>>
  /\ ReaderFrame

Open(i) == [head |-> i, lines |-> <<i>>, oid |-> FALSE, raw |-> FALSE]

\* A line that opens or ends a hunk flushes the current one first; any other
\* line belongs to the open hunk, or is raw text when there is none.
ReadLine ==
  LET token == input[pos]
      grown == [current EXCEPT !.lines = Append(@, pos), !.oid = @ \/ token = "index"]
  IN
  /\ reader = "read" /\ pos <= Len(input)
  /\ pos' = pos + 1
  /\ \/ /\ token \in {"commit", "diff"}
        /\ reader' = "flush" /\ then' = (IF token = "diff" THEN "open" ELSE "raw")
        /\ UNCHANGED <<current, todo>>
     \/ /\ token \notin {"commit", "diff"}
        /\ then' = "read"
        /\ \/ /\ current = NoHunk \/ current.raw
              /\ reader' = "dump" /\ todo' = <<pos>> /\ UNCHANGED current
           \/ /\ current # NoHunk /\ ~current.raw /\ Len(grown.lines) <= HunkLimit
              /\ current' = grown
              /\ reader' = "check" /\ UNCHANGED todo
           \/ /\ current # NoHunk /\ ~current.raw /\ Len(grown.lines) > HunkLimit
              /\ current' = [current EXCEPT !.lines = <<>>, !.raw = TRUE]
              /\ reader' = "dump" /\ todo' = grown.lines
  /\ UNCHANGED <<rawBuf, opening, permit, queueVars, jobVars, cancelled, readerErr>>
  /\ ReaderFrame

ReadEOF ==
  /\ ReaderMove("read", "flush")
  /\ pos > Len(input)
  /\ then' = "end"
  /\ UNCHANGED <<pos, rawBuf, current, todo, opening, permit, queueVars, jobVars,
                 cancelled, readerErr>>
  /\ ReaderFrame

\* ReadString fails: an I/O error, or the deadline that a cancelled ctx sets.
ReadFails ==
  /\ ReaderMove("read", "exited")
  /\ readerErr' \in {"io"} \cup (IF cancelled THEN {"ignored"} ELSE {})
  /\ cancelled' = TRUE /\ closed' = TRUE
  /\ UNCHANGED <<pos, rawBuf, current, todo, then, opening, permit, workQueue,
                 streamQueue, permits, jobVars>>
  /\ ReaderFrame

\* flushCurrent: nothing to do, dump the lines (no object ids, or the blobs
\* cannot be fetched), or go on to queue a job with the fetched blobs.
FlushCurrent ==
  /\ reader = "flush" /\ current' = NoHunk
  /\ \/ /\ current = NoHunk \/ current.raw
        /\ reader' = "dump" /\ todo' = <<>>
        /\ UNCHANGED <<opening, lines, blobs>>
     \/ /\ current # NoHunk /\ ~current.raw
        /\ ~current.oid \/ ~cancelled
        /\ reader' = "dump" /\ todo' = current.lines
        /\ UNCHANGED <<opening, lines, blobs>>
     \/ /\ current # NoHunk /\ ~current.raw /\ current.oid /\ ~cancelled
        /\ opening' = current.head
        /\ lines' = [lines EXCEPT ![current.head] = current.lines]
        /\ blobs' = [blobs EXCEPT ![current.head] = TRUE]
        /\ reader' = "chunk" /\ UNCHANGED todo
  /\ UNCHANGED <<pos, rawBuf, then, permit, queueVars, verdict, done, cancelled, readerErr>>
  /\ ReaderFrame

\* writeString, line by line, then the continuation chosen in "then".
DumpLines ==
  /\ reader = "dump"
  /\ \/ /\ todo # <<>>
        /\ rawBuf' = Append(rawBuf, Head(todo)) /\ todo' = Tail(todo)
        /\ reader' = (IF Len(rawBuf') >= ChunkLimit THEN "chunk" ELSE "dump")
        /\ UNCHANGED <<then, current>>
     \/ /\ todo = <<>> /\ rawBuf' = rawBuf /\ then' = "read"
        /\ CASE then = "read" -> reader' = "check" /\ UNCHANGED <<todo, current>>
             [] then = "raw"  -> reader' = "dump" /\ todo' = <<pos - 1>> /\ UNCHANGED current
             [] then = "open" -> reader' = "check" /\ current' = Open(pos - 1) /\ UNCHANGED todo
             [] then = "end"  -> reader' = "lastChunk" /\ UNCHANGED <<todo, current>>
  /\ UNCHANGED <<pos, opening, permit, queueVars, jobVars, cancelled, readerErr>>
  /\ ReaderFrame

\* Mutant: a job is queued without flushing the raw text that precedes it.
SendChunkKeeps ==
  /\ reader = "chunk"
  /\ reader' = (IF opening # 0 THEN "permit" ELSE "dump")
  /\ \/ /\ opening # 0 /\ UNCHANGED <<rawBuf, streamQueue>>
     \/ /\ opening = 0 /\ Len(streamQueue) < QueueCap
        /\ streamQueue' = Append(streamQueue, Raw(rawBuf)) /\ rawBuf' = <<>>
  /\ UNCHANGED <<pos, current, todo, then, opening, permit, workQueue, closed, permits,
                 jobVars, cancelled, readerErr>>
  /\ ReaderFrame

\* rawBuf.flush: an empty buffer sends nothing.
SendChunk ==
  /\ reader = "chunk"
  /\ reader' = (IF opening # 0 THEN "permit" ELSE "dump")
  /\ \/ rawBuf = <<>> /\ UNCHANGED <<rawBuf, streamQueue>>
     \/ /\ rawBuf # <<>> /\ Len(streamQueue) < QueueCap
        /\ streamQueue' = Append(streamQueue, Raw(rawBuf)) /\ rawBuf' = <<>>
  /\ UNCHANGED <<pos, current, todo, then, opening, permit, workQueue, closed, permits,
                 jobVars, cancelled, readerErr>>
  /\ ReaderFrame

\* Mutant: the semaphore does not bound the jobs in flight.
TakePermitUnbounded ==
  /\ ReaderMove("permit", "toWork")
  /\ permits' = permits + 1 /\ permit' = TRUE
  /\ UNCHANGED <<pos, rawBuf, current, todo, then, opening, workQueue, streamQueue,
                 closed, jobVars, cancelled, readerErr>>
  /\ ReaderFrame

TakePermit ==
  /\ ReaderMove("permit", "toWork")
  /\ permits < SemCap
  /\ permits' = permits + 1 /\ permit' = TRUE
  /\ UNCHANGED <<pos, rawBuf, current, todo, then, opening, workQueue, streamQueue,
                 closed, jobVars, cancelled, readerErr>>
  /\ ReaderFrame

SendToWorkers ==
  /\ ReaderMove("toWork", "toStream")
  /\ Len(workQueue) < SemCap
  /\ workQueue' = Append(workQueue, opening)
  /\ UNCHANGED <<pos, rawBuf, current, todo, then, opening, permit, streamQueue,
                 closed, permits, jobVars, cancelled, readerErr>>
  /\ ReaderFrame

\* The permit now belongs to the flusher.
SendToStream ==
  /\ ReaderMove("toStream", "dump")
  /\ Len(streamQueue) < QueueCap
  /\ streamQueue' = Append(streamQueue, JobItem(opening))
  /\ opening' = 0 /\ permit' = FALSE /\ todo' = <<>>
  /\ UNCHANGED <<pos, rawBuf, current, then, workQueue, closed, permits, jobVars,
                 cancelled, readerErr>>
  /\ ReaderFrame

\* A select in flushCurrent or rawBuf.flush takes ctx.Done(), or flushCurrent
\* finds ctx.Err() set; the deferred release returns a permit still held.
ReaderCancelled ==
  /\ cancelled
  /\ \/ reader = "chunk" /\ rawBuf # <<>>
     \/ reader \in {"permit", "toWork", "toStream"}
     \/ reader = "flush" /\ current # NoHunk /\ ~current.raw /\ current.oid
  /\ reader' = "exited" /\ closed' = TRUE
  /\ readerErr' = (IF readerErr = "none" THEN "ignored" ELSE readerErr)
  /\ permit' = FALSE
  /\ permits' = (IF permit /\ permits > 0 THEN permits - 1 ELSE permits)
  /\ UNCHANGED <<pos, rawBuf, current, todo, then, opening, workQueue, streamQueue,
                 jobVars, cancelled>>
  /\ ReaderFrame

\* The last rawBuf.flush, whose error is ignored, and the deferred closes.
LastChunk ==
  /\ ReaderMove("lastChunk", "exited")
  /\ \/ (rawBuf = <<>> \/ cancelled) /\ UNCHANGED <<rawBuf, streamQueue>>
     \/ /\ rawBuf # <<>> /\ Len(streamQueue) < QueueCap
        /\ streamQueue' = Append(streamQueue, Raw(rawBuf)) /\ rawBuf' = <<>>
  /\ closed' = TRUE
  /\ UNCHANGED <<pos, current, todo, then, opening, permit, workQueue, permits, jobVars,
                 cancelled, readerErr>>
  /\ ReaderFrame

\* What the reader does without waiting for stdin.
ReaderStep == \/ ReaderCheck \/ FlushCurrent \/ DumpLines \/ SendChunk
              \/ TakePermit \/ SendToWorkers \/ SendToStream
              \/ ReaderCancelled \/ LastChunk
ReaderInput == ReadLine \/ ReadEOF \/ ReadFails

-----------------------------------------------------------------------------
(***************************************************************************)
(* The workers: processStreamJob.  A hunk the pipeline refuses is dumped   *)
(* as it came; a hunk that fails to render has an error and no output.     *)
(***************************************************************************)
WorkerFrame == UNCHANGED <<setup, readerVars, flusherVars, cancelled, errVars, mainVars,
                           pagerVars>>

WorkerTake(w) ==
  /\ worker[w] = "idle" /\ workQueue # <<>>
  /\ worker' = [worker EXCEPT ![w] = "run"]
  /\ holding' = [holding EXCEPT ![w] = Head(workQueue)]
  /\ workQueue' = Tail(workQueue)
  /\ UNCHANGED <<streamQueue, closed, permits, jobVars>>
  /\ WorkerFrame

WorkerRun(w) ==
  /\ worker[w] = "run"
  /\ \E v \in IF cancelled THEN {"cancelled"} ELSE {"same", "ok", "dump", "renderErr"} :
       verdict' = [verdict EXCEPT ![holding[w]] = v]
  /\ worker' = [worker EXCEPT ![w] = "close"]
  /\ UNCHANGED <<holding, queueVars, lines, done, blobs>>
  /\ WorkerFrame

\* The deferred calls: drop the blobs, close job.done.
WorkerClose(w) ==
  /\ worker[w] = "close"
  /\ blobs' = [blobs EXCEPT ![holding[w]] = FALSE]
  /\ done' = [done EXCEPT ![holding[w]] = TRUE]
  /\ worker' = [worker EXCEPT ![w] = "idle"]
  /\ holding' = [holding EXCEPT ![w] = 0]
  /\ UNCHANGED <<queueVars, lines, verdict>>
  /\ WorkerFrame

WorkerExit(w) ==
  /\ worker[w] = "idle" /\ (cancelled \/ (closed /\ workQueue = <<>>))
  /\ worker' = [worker EXCEPT ![w] = "exited"]
  /\ UNCHANGED <<holding, queueVars, jobVars>>
  /\ WorkerFrame

Worker(w) == WorkerTake(w) \/ WorkerRun(w) \/ WorkerClose(w) \/ WorkerExit(w)

-----------------------------------------------------------------------------
(***************************************************************************)
(* The flusher.                                                            *)
(***************************************************************************)
FlusherFrame == UNCHANGED <<setup, readerVars, workerVars, jobVars, readerErr, mainVars,
                            pager, pagerInput, monitor>>

FlusherTake ==
  /\ flusher = "next" /\ streamQueue # <<>>
  /\ item' = Head(streamQueue) /\ streamQueue' = Tail(streamQueue)
  /\ flusher' = (IF item'.kind = "raw" THEN "write" ELSE "await")
  /\ UNCHANGED <<workQueue, closed, permits, emitted, cancelled, flusherErr, workerErr, readerGone>>
  /\ FlusherFrame

\* ctx.Done() in either select, or the queue is closed and drained.
FlusherExit ==
  /\ \/ cancelled /\ flusher \in {"next", "await"}
     \/ flusher = "next" /\ closed /\ streamQueue = <<>>
  /\ flusher' = "exited"
  /\ UNCHANGED <<item, queueVars, emitted, cancelled, flusherErr, workerErr, readerGone>>
  /\ FlusherFrame

\* Mutant: a rendering error is not recorded.
FlusherAwaitSilent ==
  /\ flusher = "await" /\ done[item.job]
  /\ flusher' = (CASE verdict[item.job] = "cancelled" -> "exited"
                   [] verdict[item.job] \in {"ok", "dump"} -> "write"
                   [] OTHER -> "release")
  /\ cancelled' = (cancelled \/ verdict[item.job] = "cancelled")
  /\ UNCHANGED <<item, queueVars, emitted, flusherErr, workerErr, readerGone>>
  /\ FlusherFrame

FlusherAwait ==
  /\ flusher = "await" /\ done[item.job]
  /\ flusher' = (CASE verdict[item.job] = "cancelled" -> "exited"
                   [] verdict[item.job] \in {"ok", "dump"} -> "write"
                   [] OTHER -> "release")
  /\ cancelled' = (cancelled \/ verdict[item.job] = "cancelled")
  /\ workerErr' = (workerErr \/ verdict[item.job] = "renderErr")
  /\ UNCHANGED <<item, queueVars, emitted, flusherErr, readerGone>>
  /\ FlusherFrame

Output == IF item.kind = "raw" THEN item.text
          ELSE IF verdict[item.job] = "ok" THEN <<item.job>> ELSE lines[item.job]

\* out.Write finds the pipe full and waits: it has no ctx.Done() arm.
FlusherBlocks ==
  /\ flusher = "write" /\ flusher' = "blocked"
  /\ pager # "exited"
  /\ UNCHANGED <<item, queueVars, emitted, cancelled, flusherErr, workerErr, readerGone>>
  /\ FlusherFrame

\* The write ends at once, or a blocked one does: the reader has taken the rest of
\* the output, or has closed its end of the pipe.
FlusherWrite ==
  /\ flusher \in {"write", "blocked"}
  /\ \/ /\ pager # "exited"
        /\ emitted' = emitted \o Output
        /\ flusher' = (IF item.kind = "raw" THEN "next" ELSE "release")
        /\ UNCHANGED <<cancelled, flusherErr, readerGone>>
     \/ \* broken pipe
        /\ flusher' = "exited" /\ cancelled' = TRUE /\ readerGone' = TRUE
        /\ UNCHANGED <<emitted, flusherErr>>
     \/ \* another error
        /\ pager # "exited"
        /\ flusher' = "exited" /\ cancelled' = TRUE /\ flusherErr' = TRUE
        /\ UNCHANGED <<emitted, readerGone>>
  /\ UNCHANGED <<item, queueVars, workerErr>>
  /\ FlusherFrame

\* The non-blocking receive from sem.
FlusherRelease ==
  /\ flusher = "release" /\ flusher' = "next"
  /\ permits' = (IF permits > 0 THEN permits - 1 ELSE permits)
  /\ UNCHANGED <<item, workQueue, streamQueue, closed, emitted, cancelled, flusherErr,
                 workerErr, readerGone>>
  /\ FlusherFrame

Flusher == \/ FlusherTake \/ FlusherExit \/ FlusherAwait \/ FlusherBlocks
           \/ FlusherWrite \/ FlusherRelease

-----------------------------------------------------------------------------
(***************************************************************************)
(* Process itself: <-flusherDone, the result, and the deferred teardown,   *)
(* which waits for the flusher, the workers and the monitor but not for    *)
(* the reader, who may be blocked on stdin.                                *)
(***************************************************************************)
MainFrame == UNCHANGED <<setup, readerVars, queueVars, workerVars, jobVars, flusherVars,
                         errVars, pager, monitor, readerGone>>

MainResult ==
  /\ main = "wait" /\ flusher = "exited"
  /\ main' = "cancel"
  /\ result' = (IF flusherErr \/ readerErr = "io" \/ (~cancelled /\ workerErr)
                THEN "error" ELSE "nil")
  /\ UNCHANGED <<cancelled, pagerInput>> /\ MainFrame

MainCancel ==
  /\ main = "cancel"
  /\ main' = (IF HasPager THEN "closePager" ELSE "join")
  /\ cancelled' = TRUE
  /\ UNCHANGED <<result, pagerInput>> /\ MainFrame

MainClosePager ==
  /\ main = "closePager" /\ main' = "waitPager"
  /\ pagerInput' = FALSE
  /\ UNCHANGED <<result, cancelled>> /\ MainFrame

MainPagerGone ==
  /\ main = "waitPager" /\ pager = "exited" /\ main' = "join"
  /\ UNCHANGED <<result, cancelled, pagerInput>> /\ MainFrame

\* Mutant: the teardown waits for the reader too.
MainJoinReader ==
  /\ main = "join" /\ main' = "returned"
  /\ monitor = "exited" /\ reader = "exited" /\ \A w \in Workers : worker[w] = "exited"
  /\ UNCHANGED <<result, cancelled, pagerInput>> /\ MainFrame

MainJoin ==
  /\ main = "join" /\ main' = "returned"
  /\ monitor = "exited" /\ \A w \in Workers : worker[w] = "exited"
  /\ UNCHANGED <<result, cancelled, pagerInput>> /\ MainFrame

Main == MainResult \/ MainCancel \/ MainClosePager \/ MainPagerGone \/ MainJoin

OthersFrame == UNCHANGED <<setup, readerVars, queueVars, workerVars, jobVars, flusherVars,
                           errVars, mainVars, pagerInput>>

Monitor ==
  /\ monitor = "wait" /\ (cancelled \/ pager = "exited")
  /\ monitor' = "exited" /\ cancelled' = TRUE
  /\ UNCHANGED <<pager, readerGone>> /\ OthersFrame

PagerExit ==
  /\ pager = "running" /\ pager' = "exited"
  /\ readerGone' = (readerGone \/ main = "wait")
  /\ UNCHANGED <<cancelled, monitor>> /\ OthersFrame

Returned == main = "returned" /\ UNCHANGED vars

Next == \/ ReaderStep \/ ReaderInput \/ (\E w \in Workers : Worker(w)) \/ Flusher
        \/ Main \/ Monitor \/ PagerExit \/ Returned

\* The flusher is inside a write to a full pipe, or Process waits for the pager to exit.
WaitsForReader == (flusher = "blocked" \/ main = "waitPager") /\ pager # "exited"

\* Goroutines are scheduled.  Nothing is assumed of stdin, which may never deliver
\* another line, nor of the reader of the output, who may never read what a blocked
\* write has for him; a pager may run for ever.
Fairness == /\ WF_vars(ReaderStep) /\ WF_vars(Main) /\ WF_vars(Monitor)
            /\ WF_vars(Flusher /\ ~WaitsForReader)
            /\ \A w \in Workers : WF_vars(Worker(w))

Spec == Init /\ [][Next]_vars
FairSpec == Spec /\ Fairness

-----------------------------------------------------------------------------
Queued == {i \in Lines : \E k \in 1 .. Len(streamQueue) : streamQueue[k] = JobItem(i)}
Flushing == IF flusher \in {"await", "write", "blocked", "release"} /\ item.kind = "job"
            THEN {item.job} ELSE {}

\* Raw text and rendered hunks come out in the order of the input, no line twice,
\* although hunks are diffed concurrently and raw text is batched on the way.
EmittedInOrder == \A i, k \in 1 .. Len(emitted) : i < k => emitted[i] < emitted[k]

\* When Process returns nil and the reader of its output was still there, every
\* line of the input was written as it came, or belongs to a hunk that was
\* rendered or had no difference: no error path (blobs missing, pipeline refusal,
\* a hunk too long, a read or render error) loses a line silently.
NothingLost ==
  result = "nil" /\ ~readerGone =>
    \A i \in Lines :
      \/ \E k \in 1 .. Len(emitted) : emitted[k] = i
      \/ \E h \in Lines : /\ \E k \in 1 .. Len(lines[h]) : lines[h][k] = i
                          /\ \/ verdict[h] = "same"
                             \/ verdict[h] = "ok" /\ \E k \in 1 .. Len(emitted) : emitted[k] = h

\* The semaphore counts the reader's own permit and the jobs between the reader
\* and the end of their flush, so the flusher's non-blocking receive never misses,
\* and sending to the workers never waits.
PermitsExact ==
  /\ ~cancelled =>
       permits = Cardinality(Queued) + Cardinality(Flushing) + (IF permit THEN 1 ELSE 0)
  /\ flusher = "release" => permits > 0
  /\ reader = "toWork" => Len(workQueue) < SemCap

\* Everything that is not a diff is passed through: stream.go:161-162 "runs 2-way
\* diffs through the AST pipeline concurrently across a bounded worker pool, and
\* passes everything else straight to out in order".
PassesEverythingElse ==
  result = "nil" /\ ~readerGone =>
    \A i \in Lines : input[i] = "note" => \E k \in 1 .. Len(emitted) : emitted[k] = i

\* Once the run is cancelled (the user quit the pager, a write failed) or the reader
\* goroutine has exited, Process returns, even if the reader is blocked on stdin for
\* ever.  The one exception is a living reader of the output who from some time on
\* leaves Process waiting for ever, in a write he does not read (stream.go:243, 271;
\* Process waits for the flusher before it closes the pager) or in the pager.
ReturnsWithoutStdin ==
  <>[]WaitsForReader \/ ((cancelled \/ reader = "exited") ~> (main = "returned"))
=============================================================================
