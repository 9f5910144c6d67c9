--------------------------- MODULE DiffJobsProofs ---------------------------
(***************************************************************************)
(* Proofs about the concurrent diff runner, for any number of jobs,        *)
(* workers and permits.                                                    *)
(*                                                                         *)
(* First the runner itself, in two layers: Counting follows a job through  *)
(* the permits and the channel to the printer; Ownership says who may      *)
(* still touch a job.                                                      *)
(*                                                                         *)
(* Then what its caller relies on: the exit status and the count of        *)
(* rendered files, the bound on what is kept in memory, and that the       *)
(* concurrent runner implements the sequential promise of OrderedOutput.   *)
(* Three layers on top: Decided says when a verdict exists and what        *)
(* "cancelled" means, Reporting what the printer has accounted for, Memory *)
(* who still holds contents.                                               *)
(***************************************************************************)
EXTENDS DiffJobs, FiniteSetTheorems, TLAPS

HasJob == printer \in {"await", "check", "write", "blocked", "release"}
PrinterHolds == IF HasJob THEN 1 ELSE 0

\* inFlight holds the jobs handed out and not yet taken, in order; the printer's
\* job is the one before them.  Once the loop is left, inFlight can only grow.
Counting ==
  /\ PermitsConserved
  /\ feeder \in {"toWork", "toFlight"} => nextIn \in Jobs
  /\ HasJob => nextOut \in Jobs /\ current = nextOut
  /\ Len(inFlight) <= nextIn - nextOut
  /\ InLoop => Len(inFlight) = nextIn - nextOut - PrinterHolds
  /\ \A i \in 1 .. Len(inFlight) : inFlight[i] = nextIn - Len(inFlight) + i - 1

\* The first job that has not been sent to the workers.
Unsent == IF feeder \in {"acquire", "toWork"} THEN nextIn ELSE nextIn + 1

\* workQueue holds consecutive jobs, up to the last one that was sent.
QueueConsecutive ==
  /\ \A i, k \in 1 .. Len(workQueue) : workQueue[k] - workQueue[i] = k - i
  /\ feeder # "exited" /\ workQueue # <<>> => workQueue[Len(workQueue)] = Unsent - 1

\* A job that waits for a worker, or is held by one, is open and nobody else's.
QueueOpen ==
  \A i \in 1 .. Len(workQueue) :
    /\ workQueue[i] < Unsent
    /\ done[workQueue[i]] = "open"
    /\ \A w \in Workers : holding[w] # workQueue[i]

HeldOpen ==
  /\ \A w \in Workers : holding[w] # 0 => holding[w] < Unsent /\ done[holding[w]] = "open"
  /\ \A v, w \in Workers : v # w /\ holding[v] # 0 => holding[v] # holding[w]

\* What the printer uses is closed; a job that was printed, or not begun, has no channel.
DoneStates ==
  /\ feeder = "toWork" => done[nextIn] = "open"
  /\ printer \in {"check", "write", "blocked", "release"} => done[current] = "closed"
  /\ \A j \in Jobs : j < nextOut => done[j] = "nil"
  /\ \A j \in Jobs : j > nextIn \/ (feeder = "acquire" /\ j = nextIn) => done[j] = "nil"

Ownership == QueueConsecutive /\ QueueOpen /\ HeldOpen /\ DoneStates

Order ==
  /\ \A i \in 1 .. Len(written) : written[i] \in Finished
  /\ \A j \in lost : j \in Finished
  /\ printer \in {"write", "blocked"} => verdict[current] \in Rendered
  /\ PrintedInOrder

IInv == TypeOK /\ Counting /\ Ownership /\ Order

\* What an action leaves alone is named by tuples of variables.
USE DEF goroutineVars, channelVars, jobVars, pagerVars, resultVars, printVars

-----------------------------------------------------------------------------
LEMMA InitInv == Init => IInv
<1> SUFFICES ASSUME Init
             PROVE  IInv
  OBVIOUS
<1>1. TypeOK
  <2>1. FlagsOK
    BY HasPagerAssumption DEF Init, FlagsOK
  <2>2. PositionsOK
    BY NumJobsAssumption DEF Init, PositionsOK
  <2>3. ChannelsOK
    BY NumJobsAssumption, MaxInFlightAssumption DEF Init, ChannelsOK
  <2>4. WorkersOK
    BY DEF Init, WorkersOK
  <2>5. ResultsOK
    BY PrefetchedAssumption DEF Init, ResultsOK, Jobs, Verdicts
  <2> QED
    BY <2>1, <2>2, <2>3, <2>4, <2>5 DEF TypeOK
<1>2. Counting
  <2>1. PermitsConserved
    BY NumJobsAssumption, MaxInFlightAssumption DEF Init, PermitsConserved, FeederHolds
  <2>2. nextIn = 1 /\ nextOut = 1 /\ printer = "next" /\ feeder = "acquire" /\ Len(inFlight) = 0
    BY DEF Init
  <2>3. Len(inFlight) <= nextIn - nextOut
    BY <2>2
  <2>4. Len(inFlight) = nextIn - nextOut - PrinterHolds
    <3>1. PrinterHolds = 0
      BY <2>2 DEF PrinterHolds, HasJob
    <3> QED
      BY <2>2, <3>1
  <2>5. \A i \in 1 .. Len(inFlight) : inFlight[i] = nextIn - Len(inFlight) + i - 1
    BY <2>2
  <2> QED
    BY <2>1, <2>2, <2>3, <2>4, <2>5 DEF Counting, HasJob
<1>3. Ownership
  BY DEF Init, Ownership, QueueConsecutive, QueueOpen, HeldOpen, DoneStates, Jobs
<1>4. Order
  BY DEF Init, Order, PrintedInOrder, Finished, Jobs, Rendered
<1> QED
  BY <1>1, <1>2, <1>3, <1>4 DEF IInv

-----------------------------------------------------------------------------
LEMMA NextFlagsOK ==
  ASSUME FlagsOK, [Next]_vars
  PROVE  FlagsOK'
<1> USE DEF FlagsOK
<1>1. CASE Feeder
  BY <1>1 DEF Feeder, FeederAcquire, FeederToWork, FeederToFlight, FeederExit
<1>2. ASSUME NEW w \in Workers, Worker(w)
      PROVE  FlagsOK'
  BY <1>2 DEF Worker, WorkerTake, WorkerExit, WorkerLoad, WorkerRun, WorkerFree, WorkerClose
<1>3. CASE PrinterTake \/ PrinterAwait \/ PrinterStop \/ PrinterRelease \/ PrinterFinish
  BY <1>3 DEF PrinterTake, PrinterAwait, PrinterStop, PrinterRelease, PrinterFinish
<1>4. CASE PrinterReport
  <2>1. /\ hadErrors' \in {TRUE, hadErrors}
        /\ filesRendered' \in {filesRendered, filesRendered + 1}
        /\ UNCHANGED <<cancelled, pagerVars, monitor>>
    BY <1>4 DEF PrinterReport
  <2>2. hadErrors' \in BOOLEAN
    BY <2>1, Zenon
  <2> QED
    BY <2>1, <2>2
<1>5. CASE PrinterBlocks \/ PrinterWrite
  BY <1>5 DEF PrinterBlocks, PrinterWrite, MoveWrite, WriteOk, WriteBrokenPipe, WriteFailed
<1>6. CASE TeardownCancel \/ TeardownClosePager \/ TeardownWaitPager \/ TeardownJoin
  BY <1>6 DEF TeardownCancel, TeardownClosePager, TeardownWaitPager, TeardownJoin
<1>7. CASE Monitor \/ PagerExit
  BY <1>7 DEF Monitor, PagerExit
<1>8. CASE Returned \/ UNCHANGED vars
  BY <1>8 DEF Returned, vars
<1> QED
  BY <1>1, <1>2, <1>3, <1>4, <1>5, <1>6, <1>7, <1>8 DEF Next, Printer

LEMMA NextPositionsOK ==
  ASSUME TypeOK, Counting, [Next]_vars
  PROVE  PositionsOK'
<1> USE DEF TypeOK, PositionsOK
<1>1. CASE Feeder
  BY <1>1, NumJobsAssumption DEF Feeder, FeederAcquire, FeederToWork, FeederToFlight, FeederExit, Counting, Jobs
<1>2. ASSUME NEW w \in Workers, Worker(w)
      PROVE  PositionsOK'
  BY <1>2 DEF Worker, WorkerTake, WorkerExit, WorkerLoad, WorkerRun, WorkerFree, WorkerClose
<1>3. CASE PrinterTake
  BY <1>3 DEF PrinterTake, MovePrinter, ChannelsOK
<1>4. CASE PrinterAwait \/ PrinterStop \/ PrinterFinish \/ PrinterBlocks \/ PrinterWrite
  BY <1>4 DEF PrinterAwait, PrinterStop, PrinterFinish, PrinterBlocks, PrinterWrite, MoveWrite, WriteOk, WriteBrokenPipe, WriteFailed, MovePrinter
<1>5. CASE PrinterReport
  BY <1>5 DEF PrinterReport
<1>6. CASE PrinterRelease
  BY <1>6, NumJobsAssumption DEF PrinterRelease, MovePrinter, Counting, HasJob, Jobs
<1>7. CASE TeardownCancel \/ TeardownClosePager \/ TeardownWaitPager \/ TeardownJoin
  BY <1>7 DEF TeardownCancel, TeardownClosePager, TeardownWaitPager, TeardownJoin, MovePrinter
<1>8. CASE Monitor \/ PagerExit \/ Returned \/ UNCHANGED vars
  BY <1>8 DEF Monitor, PagerExit, Returned, vars
<1> QED
  BY <1>1, <1>2, <1>3, <1>4, <1>5, <1>6, <1>7, <1>8 DEF Next, Printer

LEMMA NextChannelsOK ==
  ASSUME TypeOK, Counting, [Next]_vars
  PROVE  ChannelsOK'
<1> USE DEF TypeOK, ChannelsOK
<1>1. CASE Feeder
  <2>1. CASE FeederAcquire
    BY <2>1, MaxInFlightAssumption, NumJobsAssumption DEF FeederAcquire
  <2>2. CASE FeederToWork
    BY <2>2 DEF FeederToWork, Counting
  <2>3. CASE FeederToFlight
    BY <2>3 DEF FeederToFlight, Counting
  <2>4. CASE FeederExit
    BY <2>4 DEF FeederExit
  <2> QED
    BY <1>1, <2>1, <2>2, <2>3, <2>4 DEF Feeder
<1>2. ASSUME NEW w \in Workers, Worker(w)
      PROVE  ChannelsOK'
  <2>1. CASE WorkerTake(w)
    BY <2>1 DEF WorkerTake
  <2>2. CASE ~WorkerTake(w)
    BY <1>2, <2>2 DEF Worker, WorkerExit, WorkerLoad, WorkerRun, WorkerFree, WorkerClose
  <2> QED
    BY <2>1, <2>2
<1>3. CASE PrinterTake
  BY <1>3 DEF PrinterTake
<1>4. CASE PrinterWrite
  <2>1. current \in Jobs
    BY <1>4 DEF PrinterWrite, MoveWrite, WriteOk, WriteBrokenPipe, WriteFailed, MovePrinter, Counting, HasJob
  <2>2. CASE WriteOk
    BY <2>1, <2>2 DEF MoveWrite, WriteOk
  <2>3. CASE WriteBrokenPipe
    BY <2>3 DEF MoveWrite, WriteBrokenPipe
  <2>4. CASE WriteFailed
    BY <2>1, <2>4 DEF MoveWrite, WriteFailed
  <2> QED
    BY <1>4, <2>2, <2>3, <2>4 DEF PrinterWrite
<1>5. CASE PrinterRelease
  BY <1>5, NumJobsAssumption, MaxInFlightAssumption DEF PrinterRelease
<1>6. CASE TeardownCancel \/ TeardownClosePager \/ TeardownWaitPager \/ TeardownJoin
  BY <1>6 DEF TeardownCancel, TeardownClosePager, TeardownWaitPager, TeardownJoin
<1>7. CASE Monitor \/ PagerExit \/ Returned \/ UNCHANGED vars
  BY <1>7 DEF Monitor, PagerExit, Returned, vars
<1>8. CASE PrinterAwait \/ PrinterStop \/ PrinterReport \/ PrinterBlocks \/ PrinterFinish
  BY <1>8 DEF PrinterAwait, PrinterStop, PrinterReport, PrinterBlocks, PrinterFinish
<1> QED
  BY <1>1, <1>2, <1>3, <1>4, <1>5, <1>6, <1>7, <1>8 DEF Next, Printer

LEMMA NextWorkersOK ==
  ASSUME TypeOK, [Next]_vars
  PROVE  WorkersOK'
<1> USE DEF TypeOK, WorkersOK
<1>1. CASE Feeder
  BY <1>1 DEF Feeder, FeederAcquire, FeederToWork, FeederToFlight, FeederExit
<1>2. ASSUME NEW w \in Workers, WorkerTake(w) \/ WorkerExit(w) \/ WorkerClose(w)
      PROVE  WorkersOK'
  <2>1. CASE WorkerTake(w)
    <3>1. Head(workQueue) \in Jobs /\ Head(workQueue) # 0
      BY <2>1, NumJobsAssumption DEF WorkerTake, ChannelsOK, Jobs
    <3> QED
      BY <2>1, <3>1 DEF WorkerTake, MoveWorker
  <2>2. CASE WorkerExit(w)
    BY <2>2 DEF WorkerExit, MoveWorker
  <2>3. CASE WorkerClose(w)
    BY <2>3 DEF WorkerClose, MoveWorker
  <2> QED
    BY <1>2, <2>1, <2>2, <2>3
<1>3. ASSUME NEW w \in Workers, WorkerLoad(w) \/ WorkerRun(w) \/ WorkerFree(w)
      PROVE  WorkersOK'
  BY <1>3 DEF WorkerLoad, WorkerRun, WorkerFree, MoveWorker
<1>4. CASE Printer
  BY <1>4 DEF Printer, PrinterTake, PrinterAwait, PrinterStop, PrinterReport, PrinterBlocks, PrinterWrite, MoveWrite, WriteOk,
              WriteBrokenPipe, WriteFailed, PrinterRelease, PrinterFinish,
              TeardownCancel, TeardownClosePager, TeardownWaitPager, TeardownJoin
<1>5. CASE Monitor \/ PagerExit \/ Returned \/ UNCHANGED vars
  BY <1>5 DEF Monitor, PagerExit, Returned, vars
<1> QED
  BY <1>1, <1>2, <1>3, <1>4, <1>5 DEF Next, Worker

LEMMA NextResultsOK ==
  ASSUME TypeOK, [Next]_vars
  PROVE  ResultsOK'
<1> USE DEF TypeOK, ResultsOK
<1>1. CASE Feeder
  BY <1>1 DEF Feeder, FeederAcquire, FeederToWork, FeederToFlight, FeederExit
<1>2. ASSUME NEW w \in Workers, WorkerTake(w) \/ WorkerExit(w)
      PROVE  ResultsOK'
  BY <1>2 DEF WorkerTake, WorkerExit
<1>3. ASSUME NEW w \in Workers, WorkerLoad(w)
      PROVE  ResultsOK'
  <2>1. holding[w] \in Jobs
    BY <1>3 DEF WorkerLoad, MoveWorker, WorkersOK
  <2>2. \E v \in Verdicts : verdict' = [verdict EXCEPT ![holding[w]] = v]
    BY <1>3, <2>1 DEF WorkerLoad, Verdicts
  <2>3. bytes' \in {bytes, bytes \cup {holding[w]}} /\ UNCHANGED <<out, done>>
    BY <1>3 DEF WorkerLoad
  <2> QED
    BY <2>1, <2>2, <2>3
<1>4. ASSUME NEW w \in Workers, WorkerRun(w)
      PROVE  ResultsOK'
  <2>1. holding[w] \in Jobs
    BY <1>4 DEF WorkerRun, MoveWorker, WorkersOK
  <2>2. \E v \in Verdicts : verdict' = [verdict EXCEPT ![holding[w]] = v]
    BY <1>4 DEF WorkerRun, Verdicts, Rendered
  <2>3. out' \in {out, out \cup {holding[w]}} /\ UNCHANGED <<bytes, done>>
    BY <1>4 DEF WorkerRun
  <2> QED
    BY <2>1, <2>2, <2>3
<1>5. ASSUME NEW w \in Workers, WorkerFree(w) \/ WorkerClose(w)
      PROVE  ResultsOK'
  BY <1>5 DEF WorkerFree, WorkerClose
<1>6. CASE PrinterRelease
  BY <1>6 DEF PrinterRelease
<1>7. CASE Printer /\ ~PrinterRelease
  BY <1>7 DEF Printer, PrinterTake, PrinterAwait, PrinterStop, PrinterReport, PrinterBlocks, PrinterWrite, MoveWrite, WriteOk,
              WriteBrokenPipe, WriteFailed, PrinterFinish,
              TeardownCancel, TeardownClosePager, TeardownWaitPager, TeardownJoin
<1>8. CASE Monitor \/ PagerExit \/ Returned \/ UNCHANGED vars
  BY <1>8 DEF Monitor, PagerExit, Returned, vars
<1> QED
  BY <1>1, <1>2, <1>3, <1>4, <1>5, <1>6, <1>7, <1>8 DEF Next, Worker

LEMMA NextTypeOK ==
  ASSUME TypeOK, Counting, [Next]_vars
  PROVE  TypeOK'
BY NextFlagsOK, NextPositionsOK, NextChannelsOK, NextWorkersOK, NextResultsOK DEF TypeOK

-----------------------------------------------------------------------------
\* The variables that Counting is about.
countVars == <<cancelled, sem, feeder, nextIn, nextOut, inFlight, current, printer>>

LEMMA CountingStutter ==
  ASSUME Counting, UNCHANGED countVars
  PROVE  Counting'
BY DEF countVars, Counting, PermitsConserved, FeederHolds, PrinterHolds, HasJob, InLoop

\* The printer moves, but neither takes nor releases a job.
LEMMA CountingPrinterMoves ==
  ASSUME Counting, UNCHANGED <<sem, feeder, nextIn, nextOut, inFlight, current>>,
         cancelled => cancelled',
         InLoop' => InLoop /\ (HasJob' <=> HasJob), HasJob' => HasJob
  PROVE  Counting'
<1>1. PermitsConserved'
  BY DEF Counting, PermitsConserved, FeederHolds
<1>2. InLoop' => PrinterHolds' = PrinterHolds
  BY DEF PrinterHolds
<1> QED
  BY <1>1, <1>2 DEF Counting

LEMMA NextCounting ==
  ASSUME TypeOK, Counting, [Next]_vars
  PROVE  Counting'
<1> USE DEF TypeOK, PositionsOK, ChannelsOK, FlagsOK
<1>1. CASE FeederAcquire
  <2>1. FeederHolds = 0 /\ FeederHolds' = 1
    BY <1>1 DEF FeederAcquire, FeederHolds
  <2>2. PermitsConserved'
    BY <1>1, <2>1, MaxInFlightAssumption DEF FeederAcquire, Counting, PermitsConserved
  <2>3. PrinterHolds' = PrinterHolds /\ (HasJob' <=> HasJob) /\ (InLoop' <=> InLoop)
    BY <1>1 DEF FeederAcquire, PrinterHolds, HasJob, InLoop
  <2> QED
    BY <1>1, <2>2, <2>3 DEF FeederAcquire, Counting
<1>2. CASE FeederToWork
  <2>1. FeederHolds = 1 /\ FeederHolds' = 1
    BY <1>2 DEF FeederToWork, FeederHolds
  <2>2. PermitsConserved'
    BY <1>2, <2>1 DEF FeederToWork, Counting, PermitsConserved
  <2>3. PrinterHolds' = PrinterHolds /\ (HasJob' <=> HasJob) /\ (InLoop' <=> InLoop)
    BY <1>2 DEF FeederToWork, PrinterHolds, HasJob, InLoop
  <2> QED
    BY <1>2, <2>2, <2>3 DEF FeederToWork, Counting
<1>3. CASE FeederToFlight
  <2>1. FeederHolds = 1 /\ FeederHolds' = 0
    BY <1>3 DEF FeederToFlight, FeederHolds
  <2>2. PermitsConserved'
    BY <1>3, <2>1, MaxInFlightAssumption, NumJobsAssumption DEF FeederToFlight, Counting, PermitsConserved
  <2>3. PrinterHolds' = PrinterHolds /\ (HasJob' <=> HasJob) /\ (InLoop' <=> InLoop)
    BY <1>3 DEF FeederToFlight, PrinterHolds, HasJob, InLoop
  <2>4. PrinterHolds \in {0, 1}
    BY DEF PrinterHolds
  <2>5. Len(inFlight') = Len(inFlight) + 1 /\ nextIn \in Int /\ nextOut \in Int /\ nextIn' = nextIn + 1
    BY <1>3, NumJobsAssumption DEF FeederToFlight
  <2>6. ASSUME NEW i \in 1 .. Len(inFlight')
        PROVE  inFlight'[i] = nextIn' - Len(inFlight') + i - 1
    <3>1. CASE i = Len(inFlight')
      BY <1>3, <2>5, <3>1 DEF FeederToFlight
    <3>2. CASE i \in 1 .. Len(inFlight)
      BY <1>3, <2>5, <3>2 DEF FeederToFlight, Counting
    <3> QED
      BY <2>5, <3>1, <3>2
  <2>7. feeder' = "acquire" /\ nextOut' = nextOut /\ current' = current
    BY <1>3 DEF FeederToFlight
  <2>8. Len(inFlight) \in Nat
    OBVIOUS
  <2> HIDE DEF TypeOK, PositionsOK, ChannelsOK, FlagsOK
  <2>9. /\ Len(inFlight') <= nextIn' - nextOut'
        /\ InLoop' => Len(inFlight') = nextIn' - nextOut' - PrinterHolds'
    BY <2>3, <2>4, <2>5, <2>7, <2>8 DEF Counting
  <2> QED
    BY <2>2, <2>3, <2>6, <2>7, <2>9 DEF Counting
<1>4. CASE FeederExit
  <2>1. FeederHolds' = 0 /\ FeederHolds \in {0, 1} /\ (feeder = "acquire" => FeederHolds = 0)
    BY <1>4 DEF FeederExit, FeederHolds
  <2>2. PermitsConserved'
    BY <1>4, <2>1, MaxInFlightAssumption, NumJobsAssumption DEF FeederExit, Counting, PermitsConserved
  <2>3. PrinterHolds' = PrinterHolds /\ (HasJob' <=> HasJob) /\ (InLoop' <=> InLoop)
    BY <1>4 DEF FeederExit, PrinterHolds, HasJob, InLoop
  <2> QED
    BY <1>4, <2>2, <2>3 DEF FeederExit, Counting
<1>5. ASSUME NEW w \in Workers, Worker(w)
      PROVE  Counting'
  <2>1. UNCHANGED countVars
    BY <1>5 DEF Worker, WorkerTake, WorkerExit, WorkerLoad, WorkerRun, WorkerFree, WorkerClose, countVars
  <2> QED
    BY <2>1, CountingStutter
<1>6. CASE PrinterTake
  <2>1. PrinterHolds = 0 /\ PrinterHolds' = 1 /\ InLoop /\ HasJob'
    BY <1>6 DEF PrinterTake, MovePrinter, PrinterHolds, HasJob, InLoop
  <2>2. PermitsConserved'
    BY <1>6 DEF PrinterTake, Counting, PermitsConserved, FeederHolds
  <2>3. nextOut \in Int /\ nextIn \in Int /\ Len(inFlight) = nextIn - nextOut /\ Len(inFlight) >= 1
    BY <1>6, <2>1, NumJobsAssumption DEF PrinterTake, Counting
  <2>4. Len(inFlight') = Len(inFlight) - 1
    BY <1>6, <2>3 DEF PrinterTake
  <2>5. current' = nextOut /\ nextOut \in Jobs
    BY <1>6, <2>3, NumJobsAssumption DEF PrinterTake, Counting, Jobs
  <2>6. ASSUME NEW i \in 1 .. Len(inFlight')
        PROVE  inFlight'[i] = nextIn' - Len(inFlight') + i - 1
    <3>1. i + 1 \in 1 .. Len(inFlight) /\ inFlight'[i] = inFlight[i + 1]
      BY <1>6, <2>3, <2>4 DEF PrinterTake
    <3>2. inFlight[i + 1] = nextIn - Len(inFlight) + (i + 1) - 1
      BY <3>1 DEF Counting
    <3>3. nextIn' = nextIn
      BY <1>6 DEF PrinterTake
    <3> QED
      BY <2>3, <2>4, <3>1, <3>2, <3>3
  <2>7. UNCHANGED <<nextIn, nextOut, feeder>>
    BY <1>6 DEF PrinterTake
  <2> QED
    BY <2>1, <2>2, <2>3, <2>4, <2>5, <2>6, <2>7 DEF Counting
<1>7. CASE PrinterAwait \/ PrinterStop \/ PrinterReport \/ PrinterBlocks \/ PrinterWrite \/ PrinterFinish
  <2>1. /\ UNCHANGED <<sem, feeder, nextIn, nextOut, inFlight, current, cancelled>>
        /\ InLoop' => InLoop /\ (HasJob' <=> HasJob)
        /\ HasJob' => HasJob
    BY <1>7 DEF PrinterAwait, PrinterStop, PrinterReport, PrinterBlocks, PrinterWrite, MoveWrite, WriteOk, WriteBrokenPipe,
                WriteFailed, PrinterFinish, MovePrinter, HasJob, InLoop
  <2> QED
    BY <2>1, CountingPrinterMoves
<1>8. CASE PrinterRelease
  <2>1. PrinterHolds = 1 /\ PrinterHolds' = 0 /\ InLoop /\ ~HasJob'
    BY <1>8 DEF PrinterRelease, MovePrinter, PrinterHolds, HasJob, InLoop
  <2>2. PermitsConserved'
    BY <1>8, MaxInFlightAssumption, NumJobsAssumption
       DEF PrinterRelease, Counting, PermitsConserved, FeederHolds
  <2> QED
    BY <1>8, <2>1, <2>2, NumJobsAssumption DEF PrinterRelease, Counting
<1>9. CASE TeardownCancel \/ TeardownClosePager \/ TeardownWaitPager \/ TeardownJoin
  <2>1. /\ UNCHANGED <<sem, feeder, nextIn, nextOut, inFlight, current>>
        /\ cancelled => cancelled'
        /\ ~InLoop' /\ ~HasJob'
    BY <1>9 DEF TeardownCancel, TeardownClosePager, TeardownWaitPager, TeardownJoin, MovePrinter,
                HasJob, InLoop
  <2> QED
    BY <2>1, CountingPrinterMoves
<1>10. CASE Monitor
  <2>1. /\ UNCHANGED <<sem, feeder, nextIn, nextOut, inFlight, current>>
        /\ cancelled => cancelled'
        /\ InLoop' => InLoop /\ (HasJob' <=> HasJob)
        /\ HasJob' => HasJob
    BY <1>10 DEF Monitor, HasJob, InLoop
  <2> QED
    BY <2>1, CountingPrinterMoves
<1>11. CASE PagerExit \/ Returned \/ UNCHANGED vars
  <2>1. UNCHANGED countVars
    BY <1>11 DEF PagerExit, Returned, vars, countVars
  <2> QED
    BY <2>1, CountingStutter
<1> QED
  BY <1>1, <1>2, <1>3, <1>4, <1>5, <1>6, <1>7, <1>8, <1>9, <1>10, <1>11 DEF Next, Feeder, Printer

-----------------------------------------------------------------------------
\* Jobs in the queue are consecutive, from at least nextOut to Unsent - 1, so there are
\* no more of them than permits.
LEMMA QueueFits ==
  ASSUME TypeOK, Counting, Ownership, feeder = "toWork"
  PROVE  Len(workQueue) < MaxInFlight
<1>1. nextIn \in Int /\ nextOut \in Int /\ sem \in Nat /\ workQueue \in Seq(Jobs) /\ MaxInFlight \in Nat
  BY MaxInFlightAssumption, NumJobsAssumption DEF TypeOK, PositionsOK, ChannelsOK
<1>2. nextIn - nextOut + 1 <= MaxInFlight /\ 0 <= nextIn - nextOut
  <2>1. FeederHolds = 1
    BY DEF FeederHolds
  <2>2. Len(inFlight) \in Nat
    BY DEF TypeOK, ChannelsOK
  <2> QED
    BY <1>1, <2>1, <2>2 DEF Counting, PermitsConserved
<1>3. CASE workQueue = <<>>
  BY <1>1, <1>2, <1>3
<1>4. CASE workQueue # <<>>
  <2>1. Len(workQueue) \in Nat /\ Len(workQueue) >= 1
    BY <1>1, <1>4
  <2>2. workQueue[1] \in Jobs /\ workQueue[Len(workQueue)] = nextIn - 1
    BY <1>1, <1>4, <2>1 DEF Ownership, QueueConsecutive, Unsent
  <2>3. workQueue[Len(workQueue)] - workQueue[1] = Len(workQueue) - 1
    BY <2>1 DEF Ownership, QueueConsecutive
  <2>4. workQueue[1] >= nextOut
    <3>1. done[workQueue[1]] = "open"
      BY <2>1 DEF Ownership, QueueOpen
    <3> QED
      BY <1>1, <2>2, <3>1 DEF Ownership, DoneStates, Jobs
  <2> QED
    BY <1>1, <1>2, <2>1, <2>2, <2>3, <2>4, NumJobsAssumption DEF Jobs
<1> QED
  BY <1>3, <1>4

LEMMA InvNoBlockedSend == IInv => NoBlockedSend
<1> SUFFICES ASSUME TypeOK, Counting, Ownership
             PROVE  NoBlockedSend
  BY DEF IInv
<1>1. nextIn \in Int /\ nextOut \in Int /\ sem \in Nat /\ Len(inFlight) \in Nat /\ MaxInFlight \in Nat
  BY MaxInFlightAssumption, NumJobsAssumption DEF TypeOK, PositionsOK, ChannelsOK
<1>2. feeder = "toFlight" => Len(inFlight) < MaxInFlight
  <2>1. feeder = "toFlight" => FeederHolds = 1
    BY DEF FeederHolds
  <2> QED
    BY <1>1, <2>1 DEF Counting, PermitsConserved
<1>3. printer = "release" => sem < MaxInFlight
  <2>1. printer = "release" => InLoop /\ PrinterHolds = 1
    BY DEF InLoop, PrinterHolds, HasJob
  <2>2. FeederHolds \in {0, 1}
    BY DEF FeederHolds
  <2> QED
    BY <1>1, <2>1, <2>2 DEF Counting, PermitsConserved
<1> QED
  BY <1>2, <1>3, QueueFits DEF NoBlockedSend

-----------------------------------------------------------------------------
ownVars == <<workQueue, feeder, nextIn, done, holding, nextOut>>

LEMMA OwnershipPrinterMoves ==
  ASSUME Ownership, UNCHANGED ownVars,
         printer' \in {"check", "write", "blocked", "release"} => done[current'] = "closed"
  PROVE  Ownership'
<1> USE DEF ownVars
<1>1. Unsent' = Unsent
  BY DEF Unsent
<1>2. QueueConsecutive' /\ QueueOpen' /\ HeldOpen'
  BY <1>1 DEF Ownership, QueueConsecutive, QueueOpen, HeldOpen
<1>3. DoneStates'
  BY DEF Ownership, DoneStates
<1> QED
  BY <1>2, <1>3 DEF Ownership

\* The printer's position is not beyond the feeder's, and short of it while it has a job.
LEMMA PositionsOrdered ==
  ASSUME TypeOK, Counting
  PROVE  /\ nextIn \in Int /\ nextOut \in Int /\ nextOut <= nextIn
         /\ HasJob => current = nextOut /\ nextOut < nextIn /\ current \in Jobs
<1>1. nextIn \in Int /\ nextOut \in Int /\ Len(inFlight) \in Nat
  BY NumJobsAssumption DEF TypeOK, PositionsOK, ChannelsOK
<1>2. HasJob => InLoop /\ PrinterHolds = 1
  BY DEF HasJob, InLoop, PrinterHolds
<1> QED
  BY <1>1, <1>2 DEF Counting

LEMMA QueueInJobs ==
  ASSUME TypeOK
  PROVE  Len(workQueue) \in Nat /\ \A i \in 1 .. Len(workQueue) : workQueue[i] \in Jobs
BY DEF TypeOK, ChannelsOK

LEMMA FeederKeepsOwnership ==
  ASSUME TypeOK, Counting, Ownership, Feeder
  PROVE  Ownership'
<1> USE DEF Ownership
<1>0. /\ nextIn \in Int /\ nextOut \in Int /\ nextOut <= nextIn
      /\ HasJob => current = nextOut /\ nextOut < nextIn /\ current \in Jobs
      /\ workQueue \in Seq(Jobs) /\ done \in [Jobs -> {"nil", "open", "closed"}]
      /\ holding \in [Workers -> Jobs \cup {0}]
  BY PositionsOrdered DEF TypeOK, ChannelsOK, ResultsOK, WorkersOK
<1>1. CASE FeederAcquire
  <2>1. Unsent = nextIn /\ Unsent' = nextIn /\ nextIn \in Jobs /\ feeder' = "toWork"
    BY <1>1 DEF FeederAcquire, Unsent
  <2>2. done' = [done EXCEPT ![nextIn] = "open"]
        /\ UNCHANGED <<workQueue, nextIn, holding, nextOut, printer, current>>
    BY <1>1 DEF FeederAcquire
  <2>3. QueueConsecutive'
    BY <1>1, <2>1, <2>2 DEF FeederAcquire, QueueConsecutive
  <2>4. QueueOpen'
    BY <1>0, <2>1, <2>2 DEF QueueOpen
  <2>5. HeldOpen'
    BY <1>0, <2>1, <2>2 DEF HeldOpen
  <2>6. DoneStates'
    BY <1>0, <2>1, <2>2 DEF DoneStates, HasJob, Jobs
  <2> QED
    BY <2>3, <2>4, <2>5, <2>6
<1>2. CASE FeederToWork
  <2>1. Unsent = nextIn /\ Unsent' = nextIn + 1 /\ nextIn \in Jobs /\ done[nextIn] = "open"
    BY <1>2 DEF FeederToWork, Unsent, Counting, DoneStates
  <2>2. /\ workQueue' = Append(workQueue, nextIn) /\ feeder' = "toFlight"
        /\ UNCHANGED <<nextIn, holding, nextOut, printer, current, done>>
    BY <1>2 DEF FeederToWork
  <2>3. Len(workQueue') = Len(workQueue) + 1 /\ workQueue'[Len(workQueue) + 1] = nextIn
        /\ \A i \in 1 .. Len(workQueue) : workQueue'[i] = workQueue[i]
    BY <1>0, <2>1, <2>2
  <2>4. QueueConsecutive'
    <3>1. workQueue # <<>> => workQueue[Len(workQueue)] = nextIn - 1 /\ Len(workQueue) \in 1 .. Len(workQueue)
      BY <1>0, <1>2, <2>1 DEF QueueConsecutive, FeederToWork
    <3>2. ASSUME NEW i \in 1 .. Len(workQueue)
          PROVE  nextIn - workQueue[i] = Len(workQueue) + 1 - i
      <4>1. workQueue[Len(workQueue)] - workQueue[i] = Len(workQueue) - i
        BY <1>0, <3>2 DEF QueueConsecutive
      <4>2. workQueue[i] \in Int /\ Len(workQueue) \in Int /\ workQueue # <<>>
        BY <1>0, <3>2 DEF Jobs
      <4> QED
        BY <1>0, <3>1, <4>1, <4>2
    <3>3. ASSUME NEW i \in 1 .. Len(workQueue'), NEW k \in 1 .. Len(workQueue')
          PROVE  workQueue'[k] - workQueue'[i] = k - i
      <4>1. Len(workQueue) \in Nat /\ \A x \in 1 .. Len(workQueue) : workQueue[x] \in Int
        BY <1>0, QueueInJobs DEF Jobs
      <4>2. CASE i = Len(workQueue) + 1 /\ k = Len(workQueue) + 1
        BY <1>0, <2>3, <4>1, <4>2
      <4>3. CASE i = Len(workQueue) + 1 /\ k \in 1 .. Len(workQueue)
        BY <1>0, <2>3, <3>2, <4>1, <4>3
      <4>4. CASE i \in 1 .. Len(workQueue) /\ k = Len(workQueue) + 1
        BY <1>0, <2>3, <3>2, <4>1, <4>4
      <4>5. CASE i \in 1 .. Len(workQueue) /\ k \in 1 .. Len(workQueue)
        BY <2>3, <4>5 DEF QueueConsecutive
      <4> QED
        BY <2>3, <4>1, <4>2, <4>3, <4>4, <4>5
    <3> QED
      BY <1>0, <2>1, <2>2, <2>3, <3>3 DEF QueueConsecutive
  <2>5. QueueOpen'
    <3>1. \A w \in Workers : holding[w] # nextIn
      BY <1>0, <2>1 DEF HeldOpen, Jobs
    <3>2. ASSUME NEW i \in 1 .. Len(workQueue')
          PROVE  /\ workQueue'[i] < nextIn + 1 /\ done[workQueue'[i]] = "open"
                 /\ \A w \in Workers : holding[w] # workQueue'[i]
      <4>1. CASE i = Len(workQueue) + 1
        BY <1>0, <2>1, <2>3, <3>1, <4>1
      <4>2. CASE i \in 1 .. Len(workQueue)
        <5>1. /\ workQueue[i] < nextIn /\ done[workQueue[i]] = "open" /\ workQueue[i] \in Int
              /\ \A w \in Workers : holding[w] # workQueue[i]
          BY <2>1, <4>2, QueueInJobs DEF QueueOpen, Jobs
        <5> QED
          BY <1>0, <2>3, <4>2, <5>1
      <4> QED
        BY <1>0, <2>3, <4>1, <4>2
    <3> QED
      BY <2>1, <2>2, <3>2 DEF QueueOpen
  <2>6. HeldOpen'
    BY <1>0, <2>1, <2>2 DEF HeldOpen, Jobs
  <2>7. DoneStates'
    BY <1>0, <1>2, <2>1, <2>2 DEF DoneStates, FeederToWork
  <2> QED
    BY <2>4, <2>5, <2>6, <2>7
<1>3. CASE FeederToFlight \/ FeederExit
  <2>1. /\ UNCHANGED <<workQueue, done, holding, nextOut, printer, current>>
        /\ \/ feeder' = "acquire" /\ Unsent' = Unsent
           \/ feeder' = "exited" /\ Unsent <= Unsent'
        /\ nextIn' >= nextIn /\ nextIn' \in Int /\ Unsent \in Int /\ Unsent' \in Int
        /\ feeder' = "acquire" => feeder = "toFlight" /\ nextIn' = nextIn + 1
    BY <1>0, <1>3 DEF FeederToFlight, FeederExit, Unsent
  <2>2. QueueConsecutive'
    BY <2>1 DEF QueueConsecutive
  <2>3. QueueOpen'
    <3>1. Unsent <= Unsent'
      BY <2>1
    <3>2. \A i \in 1 .. Len(workQueue) : workQueue[i] \in Int
      BY <1>0, QueueInJobs DEF Jobs
    <3> QED
      BY <2>1, <3>1, <3>2 DEF QueueOpen
  <2>4. HeldOpen'
    BY <1>0, <2>1 DEF HeldOpen, Jobs
  <2>5. DoneStates'
    BY <1>0, <2>1 DEF DoneStates, Jobs
  <2> QED
    BY <2>2, <2>3, <2>4, <2>5
<1> QED
  BY <1>1, <1>2, <1>3 DEF Feeder

LEMMA WorkerKeepsOwnership ==
  ASSUME TypeOK, Counting, Ownership, NEW w \in Workers, Worker(w)
  PROVE  Ownership'
<1> USE DEF Ownership
<1>0. /\ workQueue \in Seq(Jobs) /\ done \in [Jobs -> {"nil", "open", "closed"}]
      /\ holding \in [Workers -> Jobs \cup {0}]
  BY DEF TypeOK, ChannelsOK, ResultsOK, WorkersOK
<1>1. CASE WorkerTake(w)
  <2>1. /\ holding' = [holding EXCEPT ![w] = workQueue[1]]
        /\ workQueue' = Tail(workQueue) /\ workQueue # <<>> /\ holding[w] = 0
        /\ UNCHANGED <<feeder, nextIn, nextOut, printer, current, done>>
    BY <1>1, <1>0 DEF WorkerTake, MoveWorker, TypeOK, WorkersOK
  <2>2. Unsent' = Unsent
    BY <2>1 DEF Unsent
  <2>3. /\ Len(workQueue') = Len(workQueue) - 1 /\ Len(workQueue) \in Nat /\ Len(workQueue) >= 1
        /\ \A i \in 1 .. Len(workQueue') : i + 1 \in 1 .. Len(workQueue) /\ workQueue'[i] = workQueue[i + 1]
    BY <1>0, <2>1
  <2>4. QueueConsecutive'
    <3>1. \A i, k \in 1 .. Len(workQueue') : workQueue'[k] - workQueue'[i] = k - i
      <4>1. ASSUME NEW i \in 1 .. Len(workQueue'), NEW k \in 1 .. Len(workQueue')
            PROVE  workQueue'[k] - workQueue'[i] = k - i
        <5>1. workQueue[k + 1] - workQueue[i + 1] = (k + 1) - (i + 1)
          BY <2>3 DEF QueueConsecutive
        <5>2. workQueue'[k] = workQueue[k + 1] /\ workQueue'[i] = workQueue[i + 1]
          BY <2>3
        <5>3. (k + 1) - (i + 1) = k - i
          BY <2>3
        <5> QED
          BY <5>1, <5>2, <5>3
      <4> QED
        BY <4>1
    <3>2. workQueue' # <<>> => workQueue'[Len(workQueue')] = workQueue[Len(workQueue)]
      BY <1>0, <2>1, <2>3
    <3> QED
      BY <2>1, <2>2, <3>1, <3>2 DEF QueueConsecutive
  <2>5. QueueOpen'
    <3>1. ASSUME NEW i \in 1 .. Len(workQueue')
          PROVE  workQueue[i + 1] # workQueue[1]
      <4>1. workQueue[i + 1] - workQueue[1] = (i + 1) - 1
        BY <2>3 DEF QueueConsecutive
      <4>2. workQueue[i + 1] \in Int /\ workQueue[1] \in Int /\ i \in Int /\ i >= 1
        BY <2>3, QueueInJobs DEF Jobs
      <4> QED
        BY <4>1, <4>2
    <3>2. ASSUME NEW i \in 1 .. Len(workQueue')
          PROVE  /\ workQueue'[i] < Unsent /\ done[workQueue'[i]] = "open"
                 /\ \A v \in Workers : holding'[v] # workQueue'[i]
      BY <1>0, <2>1, <2>3, <3>1 DEF QueueOpen
    <3> QED
      BY <2>1, <2>2, <3>2 DEF QueueOpen
  <2>6. HeldOpen'
    <3>1. /\ workQueue[1] < Unsent /\ done[workQueue[1]] = "open"
          /\ \A v \in Workers : holding[v] # workQueue[1]
      BY <2>3 DEF QueueOpen
    <3> QED
      BY <1>0, <2>1, <2>2, <3>1 DEF HeldOpen
  <2>7. DoneStates'
    BY <2>1 DEF DoneStates
  <2> QED
    BY <2>4, <2>5, <2>6, <2>7
<1>2. CASE WorkerClose(w)
  <2> DEFINE j == holding[w]
  <2>1. /\ done' = [done EXCEPT ![j] = "closed"] /\ holding' = [holding EXCEPT ![w] = 0]
        /\ UNCHANGED <<feeder, nextIn, nextOut, printer, current, workQueue>>
        /\ j \in Jobs /\ j # 0 /\ j < Unsent /\ done[j] = "open"
    BY <1>2 DEF WorkerClose, MoveWorker, TypeOK, WorkersOK, HeldOpen
  <2>2. Unsent' = Unsent
    BY <2>1 DEF Unsent
  <2>3. QueueConsecutive'
    BY <2>1, <2>2 DEF QueueConsecutive
  <2>4. QueueOpen'
    BY <1>0, <2>1, <2>2, NumJobsAssumption, QueueInJobs DEF QueueOpen, Jobs
  <2>5. HeldOpen'
    BY <1>0, <2>1, <2>2 DEF HeldOpen
  <2>6. DoneStates'
    <3>1. feeder = "toWork" => nextIn # j
      BY <2>1 DEF Unsent, Jobs
    <3> QED
      BY <1>0, <2>1, <3>1 DEF DoneStates
  <2> QED
    BY <2>3, <2>4, <2>5, <2>6
<1>3. CASE WorkerExit(w) \/ WorkerLoad(w) \/ WorkerRun(w) \/ WorkerFree(w)
  <2>1. UNCHANGED ownVars /\ UNCHANGED <<printer, current>>
    BY <1>3 DEF WorkerExit, WorkerLoad, WorkerRun, WorkerFree, ownVars
  <2>2. printer' \in {"check", "write", "blocked", "release"} => done[current'] = "closed"
    BY <2>1 DEF DoneStates
  <2> QED
    BY <2>1, <2>2, OwnershipPrinterMoves
<1> QED
  BY <1>1, <1>2, <1>3 DEF Worker

LEMMA PrinterKeepsOwnership ==
  ASSUME TypeOK, Counting, Ownership, Printer
  PROVE  Ownership'
<1>1. CASE PrinterRelease
  <2>1. /\ done' = [done EXCEPT ![nextOut] = "nil"] /\ nextOut' = nextOut + 1 /\ printer' = "next"
        /\ UNCHANGED <<workQueue, feeder, nextIn, holding>>
        /\ nextOut \in Jobs /\ nextOut < nextIn /\ nextIn \in Int /\ done[nextOut] = "closed"
    BY <1>1, PositionsOrdered DEF PrinterRelease, MovePrinter, HasJob, Ownership, DoneStates
  <2>2. Unsent' = Unsent
    BY <2>1 DEF Unsent
  <2>3. done \in [Jobs -> {"nil", "open", "closed"}] /\ holding \in [Workers -> Jobs \cup {0}]
    BY DEF TypeOK, ResultsOK, WorkersOK
  <2>4. QueueConsecutive'
    BY <2>1, <2>2 DEF Ownership, QueueConsecutive
  <2>5. QueueOpen'
    BY <2>1, <2>2, <2>3, QueueInJobs DEF Ownership, QueueOpen
  <2>6. HeldOpen'
    BY <2>1, <2>2, <2>3 DEF Ownership, HeldOpen
  <2>7. DoneStates'
    BY <2>1, <2>3 DEF Ownership, DoneStates, Jobs
  <2> QED
    BY <2>4, <2>5, <2>6, <2>7 DEF Ownership
<1>2. CASE Printer /\ ~PrinterRelease
  <2>1. UNCHANGED ownVars
    BY <1>2 DEF Printer, PrinterTake, PrinterAwait, PrinterStop, PrinterReport, PrinterBlocks, PrinterWrite, MoveWrite, WriteOk,
                WriteBrokenPipe, WriteFailed, PrinterFinish, TeardownCancel, TeardownClosePager,
                TeardownWaitPager, TeardownJoin, ownVars
  <2>2. printer' \in {"check", "write", "blocked", "release"} => done[current'] = "closed"
    <3>1. CASE PrinterTake
      BY <3>1 DEF PrinterTake, MovePrinter
    <3>2. CASE PrinterAwait
      BY <3>2 DEF PrinterAwait, MovePrinter
    <3>3. CASE PrinterReport
      BY <3>3 DEF PrinterReport, Ownership, DoneStates
    <3>4. CASE PrinterBlocks \/ PrinterWrite
      BY <3>4 DEF PrinterBlocks, PrinterWrite, MoveWrite, WriteOk, WriteBrokenPipe, WriteFailed, MovePrinter, Ownership, DoneStates
    <3>5. CASE PrinterStop \/ PrinterFinish \/ TeardownCancel \/ TeardownClosePager
               \/ TeardownWaitPager \/ TeardownJoin
      BY <3>5 DEF PrinterStop, PrinterFinish, TeardownCancel, TeardownClosePager, TeardownWaitPager,
                  TeardownJoin, MovePrinter
    <3> QED
      BY <1>2, <3>1, <3>2, <3>3, <3>4, <3>5 DEF Printer
  <2> QED
    BY <2>1, <2>2, OwnershipPrinterMoves
<1> QED
  BY <1>1, <1>2

LEMMA NextOwnership ==
  ASSUME TypeOK, Counting, Ownership, [Next]_vars
  PROVE  Ownership'
<1>1. CASE Monitor \/ PagerExit \/ Returned \/ UNCHANGED vars
  <2>1. UNCHANGED ownVars /\ UNCHANGED <<printer, current>>
    BY <1>1 DEF Monitor, PagerExit, Returned, vars, ownVars
  <2>2. printer' \in {"check", "write", "blocked", "release"} => done[current'] = "closed"
    BY <2>1 DEF Ownership, DoneStates
  <2> QED
    BY <2>1, <2>2, OwnershipPrinterMoves
<1> QED
  BY <1>1, FeederKeepsOwnership, WorkerKeepsOwnership, PrinterKeepsOwnership DEF Next

-----------------------------------------------------------------------------
\* A worker holds neither a finished job nor the one the printer writes.
LEMMA HeldNotFinished ==
  ASSUME TypeOK, Counting, Ownership, NEW w \in Workers, holding[w] # 0
  PROVE  /\ holding[w] \in Jobs /\ holding[w] \notin Finished
         /\ printer \in {"write", "blocked"} => holding[w] # current
<1>1. holding[w] \in Jobs /\ done[holding[w]] = "open"
  BY DEF TypeOK, WorkersOK, Ownership, HeldOpen
<1>2. printer \in {"check", "write", "blocked", "release"} => done[current] = "closed" /\ current = nextOut
  BY PositionsOrdered DEF Ownership, DoneStates, HasJob
<1>3. ASSUME holding[w] \in Finished
      PROVE  FALSE
  <2>1. nextOut \in Int /\ holding[w] \in Int
    BY <1>1, PositionsOrdered DEF Jobs
  <2>2. holding[w] < nextOut \/ (printer = "release" /\ holding[w] = nextOut)
    BY <1>3, <2>1 DEF Finished
  <2> QED
    BY <1>1, <1>2, <2>2 DEF Ownership, DoneStates
<1> QED
  BY <1>1, <1>2, <1>3

LEMMA OrderStays ==
  ASSUME Order, UNCHANGED <<written, lost>>, Finished' = Finished,
         \A j \in Finished : j \in Jobs => verdict'[j] = verdict[j],
         printer' \in {"write", "blocked"} => verdict'[current'] \in Rendered
  PROVE  Order'
BY DEF Order, PrintedInOrder

LEMMA WorkerKeepsOrder ==
  ASSUME TypeOK, Counting, Ownership, Order, NEW w \in Workers, Worker(w)
  PROVE  Order'
<1>1. UNCHANGED <<written, lost, printer, current, nextOut>>
  BY DEF Worker, WorkerTake, WorkerExit, WorkerLoad, WorkerRun, WorkerFree, WorkerClose
<1>2. Finished' = Finished
  BY <1>1 DEF Finished
<1>3. CASE WorkerLoad(w) \/ WorkerRun(w)
  <2>1. holding[w] # 0
    BY <1>3 DEF WorkerLoad, WorkerRun, MoveWorker, TypeOK, WorkersOK
  <2>2. \A j \in Jobs : j # holding[w] => verdict'[j] = verdict[j]
    <3>1. \E v \in Verdicts : verdict' = [verdict EXCEPT ![holding[w]] = v]
      <4>1. verdict \in [Jobs -> Verdicts] /\ holding[w] \in Jobs
        BY <2>1, HeldNotFinished DEF TypeOK, ResultsOK
      <4> QED
        BY <1>3, <4>1 DEF WorkerLoad, WorkerRun, Verdicts, Rendered
    <3> QED
      BY <3>1 DEF TypeOK, ResultsOK
  <2>3. printer \in {"write", "blocked"} => current \in Jobs
    BY PositionsOrdered DEF HasJob
  <2> QED
    BY <1>1, <1>2, <2>1, <2>2, <2>3, HeldNotFinished, OrderStays DEF Order
<1>4. CASE ~(WorkerLoad(w) \/ WorkerRun(w))
  <2>1. verdict' = verdict
    BY <1>4 DEF Worker, WorkerTake, WorkerExit, WorkerFree, WorkerClose
  <2> QED
    BY <1>1, <1>2, <2>1, OrderStays DEF Order
<1> QED
  BY <1>3, <1>4

\* The step that finishes the printer's job: it is added to written exactly when it was
\* rendered and its write did not fail.
LEMMA OrderFinish ==
  ASSUME TypeOK, Counting, Order, verdict' = verdict, nextOut' = nextOut,
         printer \in {"check", "write", "blocked"}, printer' = "release",
         lost' \in SUBSET (lost \cup {nextOut}),
         \/ /\ written' = written /\ lost' = lost /\ verdict[nextOut] \notin Rendered
         \/ /\ written' = written /\ lost' = lost \cup {nextOut}
         \/ /\ written' = Append(written, nextOut) /\ lost' = lost /\ verdict[nextOut] \in Rendered
  PROVE  Order'
<1>1. nextOut \in Jobs /\ nextOut \in Int
  BY PositionsOrdered DEF HasJob
<1>2. Finished = 1 .. nextOut - 1 /\ Finished' = 1 .. nextOut
  BY DEF Finished
<1>3. written \in Seq(Jobs) /\ Len(written) \in Nat
  BY DEF TypeOK, ChannelsOK
<1>4. /\ nextOut \notin lost
      /\ \A i \in 1 .. Len(written) : written[i] \in 1 .. nextOut - 1
  BY <1>1, <1>2 DEF Order
<1>5. /\ \A i, k \in 1 .. Len(written) : i < k => written[i] < written[k]
      /\ \A j \in Jobs : (\E i \in 1 .. Len(written) : written[i] = j)
                         <=> j \in 1 .. nextOut - 1 /\ verdict[j] \in Rendered /\ j \notin lost
  BY <1>2 DEF Order, PrintedInOrder
<1>6. \A j \in lost' : j \in 1 .. nextOut
  <2>1. \A j \in lost : j \in 1 .. nextOut - 1
    BY <1>2 DEF Order
  <2>2. nextOut \in 1 .. nextOut
    BY <1>1 DEF Jobs
  <2>3. \A j \in 1 .. nextOut - 1 : j \in 1 .. nextOut
    BY <1>1
  <2>4. \A j \in lost' : j \in lost \/ j = nextOut
    OBVIOUS
  <2> QED
    BY <2>1, <2>2, <2>3, <2>4
<1>7. \A j \in Jobs : j \in 1 .. nextOut <=> j \in 1 .. nextOut - 1 \/ j = nextOut
  BY <1>1 DEF Jobs
<1>8. CASE written' = written
  <2>1. \A i \in 1 .. Len(written) : written[i] # nextOut
    BY <1>1, <1>4
  <2>2. \A j \in Jobs : (\E i \in 1 .. Len(written) : written[i] = j)
                        <=> j \in 1 .. nextOut /\ verdict[j] \in Rendered /\ j \notin lost'
    <3>1. verdict[nextOut] \notin Rendered \/ nextOut \in lost'
      BY <1>8, <1>3
    <3>2. \A j \in Jobs : j # nextOut => (j \in lost' <=> j \in lost)
      BY <1>8
    <3> QED
      BY <1>1, <1>4, <1>5, <1>7, <2>1, <3>1, <3>2
  <2>3. \A i \in 1 .. Len(written) : written[i] \in 1 .. nextOut
    BY <1>1, <1>4
  <2> QED
    BY <1>2, <1>5, <1>6, <1>8, <2>2, <2>3 DEF Order, PrintedInOrder
<1>9. CASE written' = Append(written, nextOut) /\ lost' = lost /\ verdict[nextOut] \in Rendered
  <2>1. /\ Len(written') = Len(written) + 1 /\ written'[Len(written) + 1] = nextOut
        /\ \A i \in 1 .. Len(written) : written'[i] = written[i]
    BY <1>1, <1>3, <1>9
  <2>2. \A i \in 1 .. Len(written') : i \in 1 .. Len(written) \/ i = Len(written) + 1
    BY <1>3, <2>1
  <2>3. \A i \in 1 .. Len(written') : written'[i] \in 1 .. nextOut
    BY <1>1, <1>4, <2>1, <2>2, NumJobsAssumption DEF Jobs
  <2>4. \A i, k \in 1 .. Len(written') : i < k => written'[i] < written'[k]
    <3>1. ASSUME NEW i \in 1 .. Len(written'), NEW k \in 1 .. Len(written'), i < k
          PROVE  written'[i] < written'[k]
      <4>1. i \in 1 .. Len(written)
        BY <1>3, <2>1, <3>1
      <4>2. CASE k \in 1 .. Len(written)
        BY <1>5, <2>1, <3>1, <4>1, <4>2
      <4>3. CASE k = Len(written) + 1
        BY <1>1, <1>4, <2>1, <4>1, <4>3
      <4> QED
        BY <2>2, <4>2, <4>3
    <3> QED
      BY <3>1
  <2>5. ASSUME NEW j \in Jobs
        PROVE  (\E i \in 1 .. Len(written') : written'[i] = j)
               <=> j \in 1 .. nextOut /\ verdict[j] \in Rendered /\ j \notin lost
    <3>1. CASE j = nextOut
      <4>1. Len(written) + 1 \in 1 .. Len(written')
        BY <1>3, <2>1
      <4> QED
        BY <1>4, <1>7, <1>9, <2>1, <3>1, <4>1
    <3>2. CASE j # nextOut
      <4>1. (\E i \in 1 .. Len(written') : written'[i] = j) <=> \E i \in 1 .. Len(written) : written[i] = j
        <5>1. \A i \in 1 .. Len(written) : i \in 1 .. Len(written')
          BY <1>3, <2>1
        <5> QED
          BY <2>1, <2>2, <3>2, <5>1
      <4> QED
        BY <1>5, <1>7, <3>2, <4>1
    <3> QED
      BY <3>1, <3>2
  <2> QED
    BY <1>2, <1>6, <1>9, <2>3, <2>4, <2>5 DEF Order, PrintedInOrder
<1> QED
  BY <1>8, <1>9

LEMMA PrinterKeepsOrder ==
  ASSUME TypeOK, Counting, Order, Printer
  PROVE  Order'
<1>0. HasJob => current = nextOut /\ nextOut \in Jobs
  BY DEF Counting
<1>1. CASE PrinterReport
  <2>1. /\ UNCHANGED <<written, lost, verdict, nextOut, current>> /\ printer = "check"
        /\ \/ printer' = "write" /\ verdict[nextOut] \in Rendered
           \/ printer' = "release" /\ verdict[nextOut] \notin Rendered
    BY <1>0, <1>1 DEF PrinterReport, HasJob, Rendered
  <2>2. CASE printer' = "write"
    <3>1. Finished' = Finished
      BY <2>1, <2>2 DEF Finished
    <3> QED
      BY <1>0, <2>1, <2>2, <3>1, OrderStays DEF HasJob
  <2>3. CASE printer' = "release"
    BY <2>1, <2>3, OrderFinish
  <2> QED
    BY <2>1, <2>2, <2>3
<1>2. CASE WriteOk
  <2>1. /\ written' = Append(written, nextOut) /\ printer \in {"write", "blocked"} /\ printer' = "release"
        /\ UNCHANGED <<lost, verdict, nextOut>> /\ verdict[nextOut] \in Rendered
    BY <1>0, <1>2 DEF MoveWrite, WriteOk, MovePrinter, HasJob, Order
  <2> QED
    BY <2>1, OrderFinish
<1>3. CASE WriteFailed
  <2>1. /\ lost' = lost \cup {nextOut} /\ printer \in {"write", "blocked"} /\ printer' = "release"
        /\ UNCHANGED <<written, verdict, nextOut>>
    BY <1>0, <1>3 DEF MoveWrite, WriteFailed, MovePrinter, HasJob
  <2> QED
    BY <2>1, OrderFinish
<1>4. CASE PrinterRelease
  <2>1. /\ UNCHANGED <<written, lost, verdict>> /\ nextOut' = nextOut + 1
        /\ printer = "release" /\ printer' = "next"
    BY <1>4 DEF PrinterRelease, MovePrinter
  <2>2. nextOut \in Int
    BY PositionsOrdered
  <2>3. Finished' = Finished
    BY <2>1, <2>2 DEF Finished
  <2> QED
    BY <2>1, <2>3, OrderStays
<1>5. CASE PrinterTake \/ PrinterAwait \/ PrinterStop \/ WriteBrokenPipe \/ PrinterFinish
           \/ TeardownCancel \/ TeardownClosePager \/ TeardownWaitPager \/ TeardownJoin
  <2>1. /\ UNCHANGED <<written, lost, verdict, nextOut>>
        /\ printer # "release" /\ printer' \notin {"write", "blocked", "release"}
    BY <1>5 DEF PrinterTake, PrinterAwait, PrinterStop, MoveWrite, WriteBrokenPipe, PrinterFinish, TeardownCancel,
                TeardownClosePager, TeardownWaitPager, TeardownJoin, MovePrinter
  <2>2. Finished' = Finished
    BY <2>1 DEF Finished
  <2> QED
    BY <2>1, <2>2, OrderStays
<1>6. CASE PrinterBlocks
  <2>1. /\ UNCHANGED <<written, lost, verdict, nextOut, current>>
        /\ printer = "write" /\ printer' = "blocked"
    BY <1>6 DEF PrinterBlocks, MovePrinter
  <2>2. Finished' = Finished
    BY <2>1 DEF Finished
  <2> QED
    BY <2>1, <2>2, OrderStays DEF Order
<1> QED
  BY <1>1, <1>2, <1>3, <1>4, <1>5, <1>6 DEF Printer, PrinterWrite

LEMMA NextOrder ==
  ASSUME TypeOK, Counting, Ownership, Order, [Next]_vars
  PROVE  Order'
<1>1. CASE Feeder \/ Monitor \/ PagerExit \/ Returned \/ UNCHANGED vars
  <2>1. UNCHANGED <<written, lost, verdict, printer, nextOut, current>>
    BY <1>1 DEF Feeder, FeederAcquire, FeederToWork, FeederToFlight, FeederExit, Monitor, PagerExit,
                Returned, vars
  <2>2. Finished' = Finished
    BY <2>1 DEF Finished
  <2> QED
    BY <2>1, <2>2, OrderStays DEF Order
<1> QED
  BY <1>1, WorkerKeepsOrder, PrinterKeepsOrder DEF Next

LEMMA NextInv == IInv /\ [Next]_vars => IInv'
BY NextTypeOK, NextCounting, NextOwnership, NextOrder DEF IInv

LEMMA SpecInv == Spec => []IInv
BY InitInv, NextInv, PTL DEF Spec

-----------------------------------------------------------------------------
\* Every variable of the runner keeps its type: in particular neither the feeder's nor
\* the printer's loop runs past the last job.
THEOREM DiffJobsTypeOK == Spec => []TypeOK
<1>1. IInv => TypeOK
  BY DEF IInv
<1> QED
  BY <1>1, SpecInv, PTL

\* No permit is lost or made up while the run is not cancelled, whatever the outcome of
\* the jobs.
THEOREM DiffJobsPermitsConserved == Spec => []PermitsConserved
<1>1. IInv => PermitsConserved
  BY DEF IInv, Counting
<1> QED
  BY <1>1, SpecInv, PTL

\* The sends of the feeder and the printer's unguarded send on sem always find room.
THEOREM DiffJobsNoBlockedSend == Spec => []NoBlockedSend
<1>1. IInv => NoBlockedSend
  BY InvNoBlockedSend
<1> QED
  BY <1>1, SpecInv, PTL

\* However the workers overtake each other, output leaves in job order, once each, and
\* none of a finished job is missing.
THEOREM DiffJobsPrintedInOrder == Spec => []PrintedInOrder
<1>1. IInv => PrintedInOrder
  BY DEF IInv, Order
<1> QED
  BY <1>1, SpecInv, PTL

\* Only a worker that holds a job writes its result or closes its channel, and only the
\* printer clears it.
LEMMA StepKeepsDoneJobs ==
  ASSUME IInv, Next
  PROVE  KeepsDoneJobs
<1> SUFFICES ASSUME NEW j \in Jobs, done[j] = "closed"
             PROVE  /\ verdict'[j] = verdict[j]
                    /\ done'[j] = "closed" \/ (printer = "release" /\ current = j)
                    /\ \A w \in Workers : holding'[w] # j
  BY DEF KeepsDoneJobs
<1>0. /\ TypeOK /\ Counting /\ Ownership
      /\ verdict \in [Jobs -> Verdicts] /\ done \in [Jobs -> {"nil", "open", "closed"}]
      /\ holding \in [Workers -> Jobs \cup {0}]
      /\ j # 0
  BY DEF IInv, TypeOK, ResultsOK, WorkersOK, Jobs
<1>1. \A w \in Workers : holding[w] # j
  BY <1>0 DEF Ownership, HeldOpen
<1>2. CASE Feeder
  <2>1. UNCHANGED <<verdict, holding>>
    BY <1>2 DEF Feeder, FeederAcquire, FeederToWork, FeederToFlight, FeederExit
  <2>2. done'[j] = "closed"
    <3>1. CASE FeederAcquire
      BY <1>0, <3>1 DEF FeederAcquire, Ownership, DoneStates
    <3>2. CASE FeederToWork \/ FeederToFlight \/ FeederExit
      BY <3>2 DEF FeederToWork, FeederToFlight, FeederExit
    <3> QED
      BY <1>2, <3>1, <3>2 DEF Feeder
  <2> QED
    BY <1>1, <2>1, <2>2
<1>3. ASSUME NEW w \in Workers, Worker(w)
      PROVE  /\ verdict'[j] = verdict[j] /\ done'[j] = "closed"
             /\ \A v \in Workers : holding'[v] # j
  <2>1. CASE WorkerTake(w)
    <3>1. Head(workQueue) # j /\ holding' = [holding EXCEPT ![w] = Head(workQueue)]
      <4>1. workQueue # <<>> /\ workQueue \in Seq(Jobs)
        BY <1>0, <2>1 DEF WorkerTake, TypeOK, ChannelsOK
      <4>2. done[workQueue[1]] = "open"
        BY <1>0, <4>1 DEF Ownership, QueueOpen
      <4> QED
        BY <2>1, <4>1, <4>2 DEF WorkerTake
    <3> QED
      BY <1>0, <1>1, <2>1, <3>1 DEF WorkerTake
  <2>2. CASE WorkerLoad(w) \/ WorkerRun(w)
    <3>1. UNCHANGED <<done, holding>>
      BY <2>2 DEF WorkerLoad, WorkerRun
    <3>2. \E v : verdict' = [verdict EXCEPT ![holding[w]] = v]
      <4>1. verdict = [verdict EXCEPT ![holding[w]] = verdict[holding[w]]]
        BY <1>0
      <4> QED
        BY <2>2, <4>1 DEF WorkerLoad, WorkerRun
    <3> QED
      BY <1>0, <1>1, <3>1, <3>2
  <2>3. CASE WorkerFree(w) \/ WorkerExit(w)
    BY <1>1, <2>3 DEF WorkerFree, WorkerExit
  <2>4. CASE WorkerClose(w)
    BY <1>0, <1>1, <2>4 DEF WorkerClose
  <2> QED
    BY <1>3, <2>1, <2>2, <2>3, <2>4 DEF Worker
<1>4. CASE Printer
  <2>1. UNCHANGED <<verdict, holding>>
    BY <1>4 DEF Printer, PrinterTake, PrinterAwait, PrinterStop, PrinterReport, PrinterBlocks, PrinterWrite, MoveWrite, WriteOk,
                WriteBrokenPipe, WriteFailed, PrinterRelease, PrinterFinish, TeardownCancel,
                TeardownClosePager, TeardownWaitPager, TeardownJoin
  <2>2. done'[j] = "closed" \/ (printer = "release" /\ current = j)
    <3>1. CASE PrinterRelease
      BY <1>0, <3>1 DEF PrinterRelease, MovePrinter
    <3>2. CASE Printer /\ ~PrinterRelease
      BY <3>2 DEF Printer, PrinterTake, PrinterAwait, PrinterStop, PrinterReport, PrinterBlocks, PrinterWrite, MoveWrite, WriteOk,
                  WriteBrokenPipe, WriteFailed, PrinterFinish, TeardownCancel, TeardownClosePager,
                  TeardownWaitPager, TeardownJoin
    <3> QED
      BY <1>4, <3>1, <3>2
  <2> QED
    BY <1>1, <2>1, <2>2
<1>5. CASE Monitor \/ PagerExit \/ Returned
  BY <1>1, <1>5 DEF Monitor, PagerExit, Returned, vars
<1> QED
  BY <1>2, <1>3, <1>4, <1>5 DEF Next

\* A job announced as done is final: nobody but the printer touches it again, and the
\* printer only to clear it.
THEOREM DiffJobsDoneIsFinal == Spec => DoneIsFinal
<1>1. IInv /\ [Next]_vars => [KeepsDoneJobs]_vars
  BY StepKeepsDoneJobs
<1> QED
  BY <1>1, SpecInv, PTL DEF Spec, DoneIsFinal

-----------------------------------------------------------------------------

\* A result exists from the moment a worker is done with a job.  Within the loop a run
\* is only cancelled because the pager has gone, so a cancelled job is never consumed.
Decided ==
  /\ \A w \in Workers : worker[w] \in {"free", "close"} => verdict[holding[w]] # "none"
  /\ \A j \in Jobs : done[j] = "closed" \/ j < nextOut => verdict[j] # "none"
  /\ \A j \in Jobs : verdict[j] = "cancelled" => cancelled /\ j \notin Finished
  /\ printer \in {"write", "blocked"} => verdict[current] # "cancelled"
  /\ InLoop /\ cancelled => pager = "exited"

\* The jobs whose files are counted: a file is counted before it is written.
Counted == IF printer \in {"write", "blocked", "release"} THEN 1 .. nextOut ELSE 1 .. nextOut - 1
RenderedIn(S) == {j \in S : verdict[j] \in Rendered}
FailedIn(S) == {j \in S : verdict[j] \in {"err", "renderErr"} \/ j \in lost}

Reporting ==
  InLoop => /\ hadErrors <=> FailedIn(Finished) # {}
            /\ filesRendered = Cardinality(RenderedIn(Counted))

\* Contents loaded on demand and rendered buffers belong to jobs that were handed out
\* and not yet printed, and the last job handed out has taken its permit.
Memory ==
  /\ \A w \in Workers : worker[w] = "close" => holding[w] \notin bytes
  /\ \A j \in Jobs : done[j] = "closed" => j \notin bytes
  /\ \A j \in Jobs : j < nextOut => j \notin bytes \cup out
  /\ \A j \in out \cup (bytes \ Prefetched) : done[j] # "nil"
  /\ nextIn \in Jobs /\ done[nextIn] # "nil" => sem + 1 + (nextIn - nextOut) <= MaxInFlight

PInv == IInv /\ Decided /\ Reporting /\ Memory

\* What an action leaves alone is named by tuples of variables.
USE DEF goroutineVars, channelVars, jobVars, pagerVars, resultVars, printVars

-----------------------------------------------------------------------------
LEMMA InitPInv == Init => PInv
<1> SUFFICES ASSUME Init
             PROVE  PInv
  OBVIOUS
<1>1. IInv
  BY InitInv
<1>2. Finished = {} /\ Counted = {} /\ nextOut = 1 /\ printer = "next"
  BY DEF Init, Finished, Counted
<1>3. Decided
  BY <1>2 DEF Init, Decided, Jobs
<1>4. Reporting
  <2>1. FailedIn(Finished) = {} /\ RenderedIn(Counted) = {}
    BY <1>2 DEF FailedIn, RenderedIn
  <2> QED
    BY <1>2, <2>1, FS_EmptySet DEF Init, Reporting
<1>5. Memory
  BY <1>2 DEF Init, Memory, Jobs
<1> QED
  BY <1>1, <1>3, <1>4, <1>5 DEF PInv

-----------------------------------------------------------------------------
\* What the later steps need of the invariant of DiffJobsProofs, in one place.
LEMMA Positions ==
  ASSUME IInv
  PROVE  /\ nextIn \in Int /\ nextOut \in Int /\ nextOut <= nextIn /\ nextOut >= 1
         /\ sem \in Nat /\ MaxInFlight \in Nat
         /\ HasJob => current = nextOut /\ nextOut < nextIn /\ current \in Jobs
         /\ printer \in {"check", "write", "blocked", "release"} => done[current] = "closed"
         /\ done \in [Jobs -> {"nil", "open", "closed"}]
         /\ verdict \in [Jobs -> Verdicts]
         /\ bytes \subseteq Jobs /\ out \subseteq Jobs
BY PositionsOrdered, NumJobsAssumption, MaxInFlightAssumption
   DEF IInv, TypeOK, PositionsOK, ChannelsOK, ResultsOK, Ownership, DoneStates

\* The verdicts a step of worker w can leave: only that of the job it holds changes.
LEMMA WorkerVerdict ==
  ASSUME IInv, NEW w \in Workers, Worker(w)
  PROVE  \/ UNCHANGED verdict
         \/ /\ holding[w] \in Jobs /\ holding[w] \notin Finished
            /\ done[holding[w]] = "open" /\ UNCHANGED done
            /\ printer \in {"check", "write", "blocked", "release"} => holding[w] # current
            /\ \E v \in Verdicts \ {"none"} : /\ verdict' = [verdict EXCEPT ![holding[w]] = v]
                                              /\ v = "cancelled" => cancelled
<1>1. CASE WorkerLoad(w) \/ WorkerRun(w)
  <2>1. holding[w] # 0
    BY <1>1 DEF WorkerLoad, WorkerRun, MoveWorker, IInv, TypeOK, WorkersOK
  <2>2. done[holding[w]] = "open" /\ UNCHANGED done
    BY <1>1, <2>1 DEF WorkerLoad, WorkerRun, IInv, Ownership, HeldOpen
  <2>3. holding[w] \in Jobs /\ holding[w] \notin Finished
    BY <2>1, HeldNotFinished DEF IInv
  <2>4. printer \in {"check", "write", "blocked", "release"} => holding[w] # current
    BY <2>2, Positions
  <2>5. \/ UNCHANGED verdict
        \/ \E v \in Verdicts \ {"none"} : /\ verdict' = [verdict EXCEPT ![holding[w]] = v]
                                          /\ v = "cancelled" => cancelled
    BY <1>1 DEF WorkerLoad, WorkerRun, Verdicts, Rendered
  <2> QED
    BY <2>2, <2>3, <2>4, <2>5
<1>2. CASE ~(WorkerLoad(w) \/ WorkerRun(w))
  BY <1>2 DEF Worker, WorkerTake, WorkerExit, WorkerFree, WorkerClose
<1> QED
  BY <1>1, <1>2

LEMMA WorkerKeepsDecided ==
  ASSUME IInv, Decided, NEW w \in Workers, Worker(w)
  PROVE  Decided'
<1>1. /\ UNCHANGED <<printer, nextOut, current, pager, cancelled, lost>>
      /\ Finished' = Finished /\ InLoop' = InLoop
  BY DEF Worker, WorkerTake, WorkerExit, WorkerLoad, WorkerRun, WorkerFree, WorkerClose, Finished, InLoop
<1>2. /\ worker \in [Workers -> {"idle", "load", "run", "free", "close", "exited"}]
      /\ holding \in [Workers -> Jobs \cup {0}]
      /\ \A x \in Workers : holding[x] # 0 <=> worker[x] \in {"load", "run", "free", "close"}
      /\ \A u, x \in Workers : u # x /\ holding[u] # 0 => holding[u] # holding[x]
  BY DEF IInv, TypeOK, WorkersOK, Ownership, HeldOpen
<1>3. CASE WorkerLoad(w) \/ WorkerRun(w)
  <2>1. UNCHANGED <<holding, done>> /\ \A x \in Workers : x # w => worker'[x] = worker[x]
    BY <1>2, <1>3 DEF WorkerLoad, WorkerRun, MoveWorker
  <2>2. worker'[w] \in {"free", "close"} => verdict'[holding[w]] # "none"
    <3>1. holding[w] \in Jobs
      BY <1>2, <1>3 DEF WorkerLoad, WorkerRun, MoveWorker
    <3>2. CASE WorkerLoad(w)
      BY <1>2, <3>1, <3>2, Positions DEF WorkerLoad, MoveWorker
    <3>3. CASE WorkerRun(w)
      BY <1>2, <3>1, <3>3, Positions DEF WorkerRun, MoveWorker, Rendered
    <3> QED
      BY <1>3, <3>2, <3>3
  <2>3. \A j \in Jobs : j # holding[w] => verdict'[j] = verdict[j]
    BY WorkerVerdict, Positions
  <2>4. \A x \in Workers : worker'[x] \in {"free", "close"} => verdict'[holding[x]] # "none"
    BY <1>2, <2>1, <2>2, <2>3 DEF Decided
  <2>5. \A j \in Jobs : verdict[j] # "none" => verdict'[j] # "none"
    BY WorkerVerdict, Positions
  <2>6. /\ \A j \in Jobs : verdict'[j] = "cancelled" => cancelled /\ j \notin Finished
        /\ printer \in {"write", "blocked"} => verdict'[current] # "cancelled"
    BY WorkerVerdict, Positions DEF Decided, HasJob
  <2> QED
    BY <1>1, <2>1, <2>4, <2>5, <2>6 DEF Decided
<1>4. CASE WorkerTake(w) \/ WorkerExit(w) \/ WorkerFree(w)
  <2>1. UNCHANGED <<verdict, done>>
    BY <1>4 DEF WorkerTake, WorkerExit, WorkerFree
  <2>2. \A x \in Workers : worker'[x] \in {"free", "close"} =>
          worker[x] \in {"free", "close"} /\ holding'[x] = holding[x]
    BY <1>2, <1>4 DEF WorkerTake, WorkerExit, WorkerFree, MoveWorker
  <2> QED
    BY <1>1, <2>1, <2>2 DEF Decided
<1>5. CASE WorkerClose(w)
  <2>1. /\ UNCHANGED verdict /\ done' = [done EXCEPT ![holding[w]] = "closed"]
        /\ verdict[holding[w]] # "none"
    BY <1>5 DEF WorkerClose, MoveWorker, Decided
  <2>2. \A x \in Workers : worker'[x] \in {"free", "close"} =>
          worker[x] \in {"free", "close"} /\ holding'[x] = holding[x]
    BY <1>2, <1>5 DEF WorkerClose, MoveWorker
  <2> QED
    BY <1>1, <2>1, <2>2, Positions DEF Decided
<1> QED
  BY <1>3, <1>4, <1>5 DEF Worker

LEMMA PrinterKeepsDecided ==
  ASSUME IInv, Decided, Printer
  PROVE  Decided'
<1>1. UNCHANGED <<worker, holding, verdict, pager>>
  BY DEF Printer, PrinterTake, PrinterAwait, PrinterStop, PrinterReport, PrinterBlocks, PrinterWrite, MoveWrite, WriteOk,
         WriteBrokenPipe, WriteFailed, PrinterRelease, PrinterFinish,
         TeardownCancel, TeardownClosePager, TeardownWaitPager, TeardownJoin
<1>2. CASE PrinterRelease
  <2>1. /\ done' = [done EXCEPT ![nextOut] = "nil"] /\ nextOut' = nextOut + 1
        /\ printer = "release" /\ printer' = "next" /\ UNCHANGED cancelled
        /\ verdict[nextOut] # "none" /\ nextOut \in Jobs
    BY <1>2, Positions DEF PrinterRelease, MovePrinter, HasJob, Decided
  <2>2. Finished' = Finished
    BY <2>1, Positions DEF Finished
  <2>3. \A j \in Jobs : done'[j] = "closed" \/ j < nextOut' => verdict[j] # "none"
    BY <2>1, Positions DEF Decided, Jobs
  <2> QED
    BY <1>1, <2>1, <2>2, <2>3 DEF Decided, InLoop
<1>3. CASE PrinterReport \/ WriteOk \/ WriteFailed
  <2>1. /\ UNCHANGED <<done, nextOut, current, cancelled>>
        /\ printer \in {"check", "write", "blocked"} /\ printer' \in {"write", "blocked", "release"}
        /\ verdict[nextOut] # "cancelled" /\ current = nextOut /\ nextOut \in Int
    <3>1. CASE PrinterReport
      BY <3>1, Positions DEF PrinterReport, Decided, HasJob
    <3>2. CASE WriteOk \/ WriteFailed
      BY <3>2, Positions DEF MoveWrite, WriteOk, WriteFailed, MovePrinter, Decided, HasJob
    <3> QED
      BY <1>3, <3>1, <3>2
  <2>2. \A j \in Jobs : j \in Finished' => j \in Finished \/ j = nextOut
    BY <2>1 DEF Finished, Jobs
  <2> QED
    BY <1>1, <2>1, <2>2 DEF Decided, InLoop
<1>4. CASE PrinterTake \/ PrinterAwait \/ PrinterStop \/ WriteBrokenPipe \/ PrinterFinish
           \/ TeardownCancel \/ TeardownClosePager \/ TeardownWaitPager \/ TeardownJoin
  <2>1. /\ UNCHANGED <<done, nextOut>>
        /\ cancelled => cancelled'
        /\ printer # "release" /\ printer' \notin {"write", "blocked", "release"}
        /\ InLoop' => InLoop /\ UNCHANGED cancelled
    BY <1>4 DEF PrinterTake, PrinterAwait, PrinterStop, MoveWrite, WriteBrokenPipe, PrinterFinish, TeardownCancel,
                TeardownClosePager, TeardownWaitPager, TeardownJoin, MovePrinter, InLoop
  <2>2. Finished' = Finished
    BY <2>1 DEF Finished
  <2> QED
    BY <1>1, <2>1, <2>2 DEF Decided
<1>5. CASE PrinterBlocks
  <2>1. /\ UNCHANGED <<done, nextOut, current, cancelled>>
        /\ printer = "write" /\ printer' = "blocked"
    BY <1>5 DEF PrinterBlocks, MovePrinter
  <2>2. Finished' = Finished
    BY <2>1 DEF Finished
  <2> QED
    BY <1>1, <2>1, <2>2 DEF Decided, InLoop
<1> QED
  BY <1>2, <1>3, <1>4, <1>5 DEF Printer, PrinterWrite

LEMMA NextDecided ==
  ASSUME IInv, Decided, [Next]_vars
  PROVE  Decided'
<1>1. CASE FeederAcquire
  <2>1. /\ done' = [done EXCEPT ![nextIn] = "open"]
        /\ UNCHANGED <<worker, holding, verdict, pager, printer, nextOut, current, cancelled>>
    BY <1>1 DEF FeederAcquire
  <2> QED
    BY <2>1, Positions DEF Decided, Finished, InLoop
<1>2. CASE FeederToWork \/ FeederToFlight \/ FeederExit \/ Returned \/ UNCHANGED vars
  <2>1. UNCHANGED <<done, worker, holding, verdict, pager, printer, nextOut, current, cancelled>>
    BY <1>2 DEF FeederToWork, FeederToFlight, FeederExit, Returned, vars
  <2> QED
    BY <2>1 DEF Decided, Finished, InLoop
<1>3. CASE Monitor \/ PagerExit
  <2>1. /\ UNCHANGED <<done, worker, holding, verdict, printer, nextOut, current>>
        /\ cancelled => cancelled'
        /\ cancelled' /\ ~cancelled => pager' = "exited"
        /\ pager = "exited" => pager' = "exited"
    BY <1>3 DEF Monitor, PagerExit
  <2> QED
    BY <2>1 DEF Decided, Finished, InLoop
<1> QED
  BY <1>1, <1>2, <1>3, WorkerKeepsDecided, PrinterKeepsDecided DEF Next, Feeder

-----------------------------------------------------------------------------
\* Finished and Counted are the jobs before the printer's position, or up to it.
LEMMA ReportingStays ==
  ASSUME Reporting, UNCHANGED <<lost, hadErrors, filesRendered>>,
         Finished' = Finished, Counted' = Counted, InLoop' => InLoop,
         \A j \in Finished \cup Counted : verdict'[j] = verdict[j]
  PROVE  Reporting'
<1>1. FailedIn(Finished)' = FailedIn(Finished)
  BY DEF FailedIn
<1>2. RenderedIn(Counted)' = RenderedIn(Counted)
  BY DEF RenderedIn
<1> QED
  BY <1>1, <1>2 DEF Reporting

LEMMA WorkerKeepsReporting ==
  ASSUME IInv, Reporting, NEW w \in Workers, Worker(w)
  PROVE  Reporting'
<1>1. UNCHANGED <<lost, hadErrors, filesRendered, printer, nextOut, current>>
  BY DEF Worker, WorkerTake, WorkerExit, WorkerLoad, WorkerRun, WorkerFree, WorkerClose
<1>2. Finished' = Finished /\ Counted' = Counted /\ InLoop' = InLoop
  BY <1>1 DEF Finished, Counted, InLoop
<1>3. \A j \in Counted : j \in Finished \/ (printer \in {"write", "blocked"} /\ j = current)
  BY Positions DEF Finished, Counted, HasJob
<1>4. Finished \cup Counted \subseteq Jobs
  BY <1>3, Positions, NumJobsAssumption DEF Finished, HasJob, Jobs, IInv, TypeOK, PositionsOK
<1>5. \A j \in Finished \cup Counted : verdict'[j] = verdict[j]
  BY <1>3, <1>4, WorkerVerdict, Positions
<1> QED
  BY <1>1, <1>2, <1>5, ReportingStays

\* A job that is reported as failed, or without output, is finished at once; a rendered
\* one is counted first.
LEMMA ReportKeepsReporting ==
  ASSUME IInv, Decided, Reporting, PrinterReport
  PROVE  Reporting'
<1>1. /\ nextOut \in Jobs /\ nextOut \in Nat /\ current = nextOut /\ printer = "check" /\ InLoop
      /\ UNCHANGED <<lost, verdict, nextOut>>
  BY Positions DEF PrinterReport, HasJob, InLoop
<1>2. Finished = 1 .. nextOut - 1 /\ Counted = 1 .. nextOut - 1
  BY <1>1 DEF Finished, Counted
<1>3. /\ hadErrors <=> FailedIn(1 .. nextOut - 1) # {}
      /\ filesRendered = Cardinality(RenderedIn(1 .. nextOut - 1))
      /\ IsFiniteSet(RenderedIn(1 .. nextOut - 1))
  <2>1. IsFiniteSet(1 .. nextOut - 1)
    BY <1>1, FS_Interval
  <2> QED
    BY <1>1, <1>2, <2>1, FS_Subset DEF Reporting, RenderedIn
<1>4. nextOut \notin lost /\ nextOut \notin 1 .. nextOut - 1
  BY <1>1, <1>2 DEF IInv, Order
<1>5. 1 .. nextOut = (1 .. nextOut - 1) \cup {nextOut}
  BY <1>1 DEF Jobs
<1>6. CASE verdict[nextOut] \in Rendered
  <2>1. /\ printer' = "write" /\ filesRendered' = filesRendered + 1 /\ UNCHANGED hadErrors
    BY <1>1, <1>6 DEF PrinterReport, Rendered
  <2>2. Finished' = 1 .. nextOut - 1 /\ Counted' = 1 .. nextOut
    BY <1>1, <2>1 DEF Finished, Counted
  <2>3. RenderedIn(1 .. nextOut) = RenderedIn(1 .. nextOut - 1) \cup {nextOut}
    BY <1>5, <1>6 DEF RenderedIn
  <2>4. nextOut \notin RenderedIn(1 .. nextOut - 1)
    BY <1>4 DEF RenderedIn
  <2>5. Cardinality(RenderedIn(1 .. nextOut)) = filesRendered + 1
    BY <1>3, <2>3, <2>4, FS_AddElement
  <2>6. FailedIn(Finished)' = FailedIn(1 .. nextOut - 1)
    BY <1>1, <2>2 DEF FailedIn
  <2>7. RenderedIn(Counted)' = RenderedIn(1 .. nextOut)
    BY <1>1, <2>2 DEF RenderedIn
  <2> QED
    BY <1>3, <2>1, <2>5, <2>6, <2>7 DEF Reporting
<1>7. CASE verdict[nextOut] \notin Rendered
  <2>1. /\ printer' = "release" /\ UNCHANGED filesRendered
        /\ hadErrors' <=> hadErrors \/ verdict[nextOut] = "err"
    <3>1. verdict[nextOut] # "cancelled"
      BY <1>1 DEF PrinterReport, Decided
    <3>2. CASE verdict[nextOut] = "err"
      <4>1. hadErrors' = TRUE /\ printer' = "release" /\ UNCHANGED filesRendered
        BY <1>1, <3>2 DEF PrinterReport, Rendered
      <4> QED
        BY <3>2, <4>1, Zenon
    <3>3. CASE verdict[nextOut] # "err"
      <4>1. UNCHANGED hadErrors /\ printer' = "release" /\ UNCHANGED filesRendered
        BY <1>1, <1>7, <3>1, <3>3 DEF PrinterReport
      <4> QED
        BY <3>3, <4>1, Zenon
    <3> QED
      BY <3>2, <3>3
  <2>2. Finished' = 1 .. nextOut /\ Counted' = 1 .. nextOut
    BY <1>1, <2>1 DEF Finished, Counted
  <2>3. RenderedIn(Counted)' = RenderedIn(1 .. nextOut - 1)
    BY <1>1, <1>5, <1>7, <2>2 DEF RenderedIn
  <2>4. FailedIn(Finished)' # {} <=> FailedIn(1 .. nextOut - 1) # {} \/ verdict[nextOut] = "err"
    <3>1. FailedIn(Finished)' = FailedIn(1 .. nextOut)
      BY <1>1, <2>2 DEF FailedIn
    <3>2. nextOut \in FailedIn(1 .. nextOut) <=> verdict[nextOut] = "err"
      BY <1>4, <1>5, <1>7 DEF FailedIn, Rendered
    <3>3. FailedIn(1 .. nextOut) \ {nextOut} = FailedIn(1 .. nextOut - 1)
      BY <1>4, <1>5 DEF FailedIn
    <3> QED
      BY <3>1, <3>2, <3>3
  <2> QED
    BY <1>3, <2>1, <2>3, <2>4 DEF Reporting
<1> QED
  BY <1>6, <1>7

\* A written file was counted before; it fails if its rendering or its write did.
LEMMA WriteKeepsReporting ==
  ASSUME IInv, Decided, Reporting, WriteOk \/ WriteFailed
  PROVE  Reporting'
<1>1. /\ nextOut \in Jobs /\ current = nextOut /\ nextOut \in Nat /\ printer \in {"write", "blocked"} /\ printer' = "release"
      /\ InLoop /\ UNCHANGED <<verdict, nextOut, filesRendered>>
      /\ verdict[nextOut] \in Rendered
  BY Positions DEF MoveWrite, WriteOk, WriteFailed, MovePrinter, HasJob, InLoop, IInv, Order
<1>2. Finished = 1 .. nextOut - 1 /\ Finished' = 1 .. nextOut /\ Counted' = Counted /\ Counted = 1 .. nextOut
  BY <1>1 DEF Finished, Counted
<1>3. 1 .. nextOut = (1 .. nextOut - 1) \cup {nextOut} /\ nextOut \notin 1 .. nextOut - 1
  BY <1>1 DEF Jobs
<1>4. nextOut \notin lost
  BY <1>1, <1>2, <1>3 DEF IInv, Order
<1>5. RenderedIn(Counted)' = RenderedIn(Counted)
  BY <1>1, <1>2 DEF RenderedIn
<1>6. FailedIn(Finished)' # {} <=>
        FailedIn(1 .. nextOut - 1) # {} \/ verdict[nextOut] = "renderErr" \/ nextOut \in lost'
  <2>1. lost' = lost \/ lost' = lost \cup {nextOut}
    BY <1>1 DEF MoveWrite, WriteOk, WriteFailed
  <2>2. FailedIn(Finished)' = {j \in 1 .. nextOut : verdict[j] \in {"err", "renderErr"} \/ j \in lost'}
    BY <1>1, <1>2 DEF FailedIn
  <2>3. \A j : j \in FailedIn(Finished)' <=>
                 \/ j \in FailedIn(1 .. nextOut - 1)
                 \/ j = nextOut /\ (verdict[nextOut] = "renderErr" \/ nextOut \in lost')
    BY <1>1, <1>3, <1>4, <2>1, <2>2 DEF FailedIn, Rendered
  <2> QED
    BY <2>3
<1>7. hadErrors <=> FailedIn(1 .. nextOut - 1) # {}
  BY <1>1, <1>2 DEF Reporting
<1>8. hadErrors' <=> hadErrors \/ verdict[nextOut] = "renderErr" \/ nextOut \in lost'
  <2>1. CASE WriteOk
    <3>1. hadErrors' = (hadErrors \/ verdict[nextOut] = "renderErr") /\ lost' = lost
      BY <1>1, <2>1 DEF MoveWrite, WriteOk
    <3> QED
      BY <1>4, <3>1, Zenon
  <2>2. CASE WriteFailed
    <3>1. hadErrors' = TRUE /\ nextOut \in lost'
      BY <1>1, <2>2 DEF MoveWrite, WriteFailed
    <3> QED
      BY <3>1, Zenon
  <2> QED
    BY <2>1, <2>2
<1> QED
  BY <1>1, <1>2, <1>5, <1>6, <1>7, <1>8 DEF Reporting

LEMMA NextReporting ==
  ASSUME IInv, Decided, Reporting, [Next]_vars
  PROVE  Reporting'
<1>1. CASE Feeder \/ Monitor \/ PagerExit \/ Returned \/ UNCHANGED vars
  <2>1. UNCHANGED <<lost, hadErrors, filesRendered, verdict, printer, nextOut>>
    BY <1>1 DEF Feeder, FeederAcquire, FeederToWork, FeederToFlight, FeederExit, Monitor, PagerExit,
                Returned, vars
  <2>2. Finished' = Finished /\ Counted' = Counted /\ InLoop' = InLoop
    BY <2>1 DEF Finished, Counted, InLoop
  <2> QED
    BY <2>1, <2>2, ReportingStays
<1>2. CASE PrinterRelease
  <2>1. /\ UNCHANGED <<lost, hadErrors, filesRendered, verdict>> /\ nextOut' = nextOut + 1
        /\ printer = "release" /\ printer' = "next"
    BY <1>2 DEF PrinterRelease, MovePrinter
  <2>2. Finished' = Finished /\ Counted' = Counted /\ InLoop
    BY <2>1, Positions DEF Finished, Counted, InLoop
  <2> QED
    BY <2>1, <2>2, ReportingStays
<1>3. CASE PrinterTake \/ PrinterAwait
  <2>1. /\ UNCHANGED <<lost, hadErrors, filesRendered, verdict, nextOut>>
        /\ printer \in {"next", "await"} /\ printer' \in {"await", "check"}
    BY <1>3 DEF PrinterTake, PrinterAwait, MovePrinter
  <2>2. Finished' = Finished /\ Counted' = Counted /\ InLoop
    BY <2>1 DEF Finished, Counted, InLoop
  <2> QED
    BY <2>1, <2>2, ReportingStays
<1>4. CASE PrinterStop \/ WriteBrokenPipe \/ PrinterFinish
           \/ TeardownCancel \/ TeardownClosePager \/ TeardownWaitPager \/ TeardownJoin
  <2>1. ~InLoop'
    BY <1>4 DEF PrinterStop, MoveWrite, WriteBrokenPipe, PrinterFinish, TeardownCancel, TeardownClosePager,
                TeardownWaitPager, TeardownJoin, MovePrinter, InLoop
  <2> QED
    BY <2>1 DEF Reporting
<1>5. CASE PrinterBlocks
  <2>1. /\ UNCHANGED <<lost, hadErrors, filesRendered, verdict, nextOut>>
        /\ printer = "write" /\ printer' = "blocked"
    BY <1>5 DEF PrinterBlocks, MovePrinter
  <2>2. Finished' = Finished /\ Counted' = Counted /\ InLoop
    BY <2>1 DEF Finished, Counted, InLoop
  <2> QED
    BY <2>1, <2>2, ReportingStays
<1> QED
  BY <1>1, <1>2, <1>3, <1>4, <1>5, WorkerKeepsReporting, ReportKeepsReporting, WriteKeepsReporting
     DEF Next, Printer, PrinterWrite

-----------------------------------------------------------------------------
LEMMA FeederKeepsMemory ==
  ASSUME IInv, Memory, Feeder
  PROVE  Memory'
<1>1. UNCHANGED <<worker, holding, bytes, out, nextOut>>
  BY DEF Feeder, FeederAcquire, FeederToWork, FeederToFlight, FeederExit
<1>2. CASE FeederAcquire
  <2>1. /\ done' = [done EXCEPT ![nextIn] = "open"] /\ UNCHANGED nextIn /\ sem' = sem - 1
        /\ nextIn \in Jobs /\ feeder = "acquire"
    BY <1>2 DEF FeederAcquire
  <2>2. sem + (nextIn - nextOut) <= MaxInFlight
    <3>1. FeederHolds = 0
      BY <2>1 DEF FeederHolds
    <3> QED
      BY <3>1, Positions DEF IInv, Counting, PermitsConserved
  <2> QED
    BY <1>1, <2>1, <2>2, Positions DEF Memory
<1>3. CASE FeederToWork \/ FeederExit
  BY <1>1, <1>3 DEF FeederToWork, FeederExit, Memory
<1>4. CASE FeederToFlight
  <2>1. nextIn' = nextIn + 1 /\ UNCHANGED <<done, sem>>
    BY <1>4 DEF FeederToFlight
  <2>2. nextIn + 1 \in Jobs => done[nextIn + 1] = "nil"
    BY Positions DEF IInv, Ownership, DoneStates
  <2> QED
    BY <1>1, <2>1, <2>2 DEF Memory
<1> QED
  BY <1>2, <1>3, <1>4 DEF Feeder

LEMMA WorkerKeepsMemory ==
  ASSUME IInv, Memory, NEW w \in Workers, Worker(w)
  PROVE  Memory'
<1>1. /\ worker \in [Workers -> {"idle", "load", "run", "free", "close", "exited"}]
      /\ holding \in [Workers -> Jobs \cup {0}]
      /\ \A x \in Workers : holding[x] # 0 <=> worker[x] \in {"load", "run", "free", "close"}
      /\ \A u, x \in Workers : u # x /\ holding[u] # 0 => holding[u] # holding[x]
      /\ \A x \in Workers : holding[x] # 0 => done[holding[x]] = "open"
  BY DEF IInv, TypeOK, WorkersOK, Ownership, HeldOpen
<1>2. UNCHANGED <<nextIn, nextOut, sem>>
  BY DEF Worker, WorkerTake, WorkerExit, WorkerLoad, WorkerRun, WorkerFree, WorkerClose
<1>3. holding[w] # 0 => holding[w] \in Jobs /\ ~(holding[w] < nextOut)
  BY HeldNotFinished, Positions DEF IInv, Finished, Jobs
<1>4. CASE WorkerTake(w) \/ WorkerExit(w)
  <2>1. /\ UNCHANGED <<done, bytes, out>>
        /\ \A x \in Workers : worker'[x] = "close" => worker[x] = "close" /\ holding'[x] = holding[x]
    BY <1>1, <1>4 DEF WorkerTake, WorkerExit, MoveWorker
  <2> QED
    BY <1>2, <2>1 DEF Memory
<1>5. CASE WorkerLoad(w) \/ WorkerRun(w)
  <2>1. /\ UNCHANGED <<done, holding>> /\ bytes' \in {bytes, bytes \cup {holding[w]}}
        /\ out' \in {out, out \cup {holding[w]}} /\ holding[w] # 0
        /\ \A x \in Workers : worker'[x] = "close" => worker[x] = "close" /\ x # w
    BY <1>1, <1>5 DEF WorkerLoad, WorkerRun, MoveWorker
  <2>2. \A x \in Workers : worker'[x] = "close" => holding[x] \notin bytes'
    BY <1>1, <2>1 DEF Memory
  <2> QED
    BY <1>1, <1>2, <1>3, <2>1, <2>2 DEF Memory
<1>6. CASE WorkerFree(w)
  <2>1. /\ UNCHANGED <<done, holding, out>> /\ bytes' = bytes \ {holding[w]}
        /\ \A x \in Workers : worker'[x] = "close" => worker[x] = "close" \/ x = w
    BY <1>1, <1>6 DEF WorkerFree, MoveWorker
  <2> QED
    BY <1>2, <2>1 DEF Memory
<1>7. CASE WorkerClose(w)
  <2>1. /\ UNCHANGED <<bytes, out>> /\ done' = [done EXCEPT ![holding[w]] = "closed"]
        /\ holding[w] \notin bytes /\ holding[w] \in Jobs /\ done[holding[w]] = "open"
        /\ \A x \in Workers : worker'[x] = "close" => worker[x] = "close" /\ holding'[x] = holding[x]
    BY <1>1, <1>7 DEF WorkerClose, MoveWorker, Memory
  <2> QED
    BY <1>2, <2>1, Positions DEF Memory
<1> QED
  BY <1>4, <1>5, <1>6, <1>7 DEF Worker

LEMMA NextMemory ==
  ASSUME IInv, Memory, [Next]_vars
  PROVE  Memory'
<1>1. CASE PrinterRelease
  <2>1. /\ done' = [done EXCEPT ![nextOut] = "nil"] /\ nextOut' = nextOut + 1 /\ sem' = sem + 1
        /\ out' = out \ {nextOut} /\ UNCHANGED <<bytes, nextIn, worker, holding>>
        /\ nextOut \in Jobs /\ nextOut < nextIn /\ done[nextOut] = "closed"
    BY <1>1, Positions DEF PrinterRelease, MovePrinter, HasJob
  <2>2. nextOut \notin bytes
    BY <2>1 DEF Memory
  <2>3. \A j \in Jobs : j < nextOut' => j < nextOut \/ j = nextOut
    BY <2>1, Positions DEF Jobs
  <2> QED
    BY <2>1, <2>2, <2>3, Positions DEF Memory
<1>2. CASE \/ Printer /\ ~PrinterRelease
           \/ Monitor \/ PagerExit \/ Returned \/ UNCHANGED vars
  <2>1. UNCHANGED <<worker, holding, bytes, out, done, nextIn, nextOut, sem>>
    BY <1>2 DEF Printer, PrinterTake, PrinterAwait, PrinterStop, PrinterReport, PrinterBlocks, PrinterWrite, MoveWrite, WriteOk,
                WriteBrokenPipe, WriteFailed, PrinterFinish, TeardownCancel, TeardownClosePager,
                TeardownWaitPager, TeardownJoin, Monitor, PagerExit, Returned, vars
  <2> QED
    BY <2>1 DEF Memory
<1> QED
  BY <1>1, <1>2, FeederKeepsMemory, WorkerKeepsMemory DEF Next

LEMMA NextPInv == PInv /\ [Next]_vars => PInv'
BY NextInv, NextDecided, NextReporting, NextMemory DEF PInv

LEMMA SpecPInv == Spec => []PInv
BY InitPInv, NextPInv, PTL DEF Spec

-----------------------------------------------------------------------------
LEMMA InvReportExact == PInv => ReportExact
<1> SUFFICES ASSUME PInv, printer \in {"next", "await", "check"}
             PROVE  /\ hadErrors <=> \E j \in 1 .. nextOut - 1 : verdict[j] \in {"err", "renderErr"} \/ j \in lost
                    /\ filesRendered = Cardinality({j \in 1 .. nextOut - 1 : verdict[j] \in Rendered})
  BY DEF ReportExact
<1>1. Finished = 1 .. nextOut - 1 /\ Counted = 1 .. nextOut - 1 /\ InLoop
  BY DEF Finished, Counted, InLoop
<1>2. /\ hadErrors <=> FailedIn(1 .. nextOut - 1) # {}
      /\ filesRendered = Cardinality(RenderedIn(1 .. nextOut - 1))
  BY <1>1 DEF PInv, Reporting
<1> QED
  BY <1>2 DEF FailedIn, RenderedIn

\* The exit status and the number of rendered files describe exactly the printed prefix,
\* whatever failed and however the run was cancelled.
THEOREM DiffJobsReportExact == Spec => []ReportExact
BY InvReportExact, SpecPInv, PTL

\* The jobs that hold anything lie between the printer's position and the feeder's, and
\* each of them has a permit.
LEMMA InvMemoryBounded == PInv => MemoryBounded
<1> SUFFICES ASSUME PInv
             PROVE  MemoryBounded
  OBVIOUS
<1> DEFINE kept == out \cup (bytes \ Prefetched)
<1>1. /\ nextIn \in Int /\ nextOut \in Int /\ nextOut <= nextIn /\ sem \in Nat /\ MaxInFlight \in Nat
      /\ kept \subseteq Jobs
  BY Positions DEF PInv
<1>2. ASSUME NEW j \in kept
      PROVE  j \in Int /\ nextOut <= j /\ j <= nextIn /\ done[j] # "nil"
  <2>1. j \in Jobs /\ done[j] # "nil" /\ ~(j < nextOut)
    BY <1>1 DEF PInv, Memory
  <2>2. ~(j > nextIn)
    BY <2>1 DEF PInv, IInv, Ownership, DoneStates
  <2> QED
    BY <1>1, <2>1, <2>2 DEF Jobs
<1>3. Cardinality(kept) <= MaxInFlight
  <2>1. CASE nextIn \in kept
    <3>1. sem + 1 + (nextIn - nextOut) <= MaxInFlight
      BY <1>1, <1>2, <2>1 DEF PInv, Memory
    <3>2. kept \subseteq nextOut .. nextIn
      BY <1>1, <1>2
    <3>3. IsFiniteSet(nextOut .. nextIn) /\ Cardinality(nextOut .. nextIn) = nextIn - nextOut + 1
      BY <1>1, FS_Interval
    <3>4. Cardinality(kept) <= Cardinality(nextOut .. nextIn) /\ Cardinality(kept) \in Nat
      BY <3>2, <3>3, FS_Subset, FS_CardinalityType
    <3> QED
      BY <1>1, <3>1, <3>3, <3>4
  <2>2. CASE nextIn \notin kept
    <3>1. nextIn - nextOut <= MaxInFlight
      <4>1. FeederHolds \in {0, 1}
        BY DEF FeederHolds
      <4> QED
        BY <1>1, <4>1 DEF PInv, IInv, Counting, PermitsConserved
    <3>2. kept \subseteq nextOut .. nextIn - 1
      BY <1>1, <1>2, <2>2
    <3>3. /\ IsFiniteSet(nextOut .. nextIn - 1)
          /\ Cardinality(nextOut .. nextIn - 1) = nextIn - nextOut
      <4>1. nextIn - 1 \in Int /\ (nextOut > nextIn - 1 => nextIn - nextOut = 0)
        BY <1>1
      <4>2. Cardinality(nextOut .. nextIn - 1)
              = IF nextOut > nextIn - 1 THEN 0 ELSE (nextIn - 1) - nextOut + 1
        BY <1>1, <4>1, FS_Interval
      <4>3. IsFiniteSet(nextOut .. nextIn - 1)
        BY <1>1, <4>1, FS_Interval
      <4>4. CASE nextOut > nextIn - 1
        BY <4>1, <4>2, <4>3, <4>4
      <4>5. CASE ~(nextOut > nextIn - 1)
        <5>1. (nextIn - 1) - nextOut + 1 = nextIn - nextOut
          BY <1>1
        <5> QED
          BY <4>2, <4>3, <4>5, <5>1
      <4> QED
        BY <4>4, <4>5
    <3>4. Cardinality(kept) <= Cardinality(nextOut .. nextIn - 1) /\ Cardinality(kept) \in Nat
      BY <3>2, <3>3, FS_Subset, FS_CardinalityType
    <3> QED
      BY <1>1, <3>1, <3>3, <3>4
  <2> QED
    BY <2>1, <2>2
<1>4. \A j \in 1 .. nextOut - 1 : j \notin bytes \cup out
  BY <1>1, Positions DEF PInv, Memory, Jobs
<1> QED
  BY <1>3, <1>4 DEF MemoryBounded, PInv, Memory

\* However far the workers run ahead of a slow pager, only as many jobs hold loaded
\* contents or rendered output as there are permits; announced jobs hold no contents and
\* printed jobs nothing.
THEOREM DiffJobsMemoryBounded == Spec => []MemoryBounded
BY InvMemoryBounded, SpecPInv, PTL

-----------------------------------------------------------------------------
(***************************************************************************)
(* The refinement of OrderedOutput.                                        *)
(***************************************************************************)
promiseVars == <<KnownVerdict, Consumed, written, FilesConsumed, hadErrors, PagerGone, Phase>>

LEMMA PromiseStutters ==
  ASSUME UNCHANGED promiseVars
  PROVE  UNCHANGED Promise!vars
BY DEF promiseVars, Promise!vars

\* A job is consumed when it is finished.
LEMMA ConsumedIsFinished ==
  ASSUME PInv, NEW j \in Jobs
  PROVE  Consumed \in Int /\ (j < Consumed <=> j \in Finished)
BY Positions DEF PInv, Consumed, Finished, Jobs

LEMMA KnownStays ==
  ASSUME \A j \in Jobs : (Known(j))' <=> Known(j),
         \A j \in Jobs : Known(j) => verdict'[j] = verdict[j]
  PROVE  KnownVerdict' = KnownVerdict
BY DEF KnownVerdict

\* The promise starts where the runner starts: nothing is known of any job.
LEMMA PromiseInit == Init => Promise!Init
<1> SUFFICES ASSUME Init
             PROVE  Promise!Init
  OBVIOUS
<1>1. /\ Consumed = 1 /\ FilesConsumed = 0 /\ Phase = "printing" /\ written = <<>>
      /\ PagerGone = FALSE /\ hadErrors = FALSE
  BY DEF Init, Consumed, FilesConsumed, Phase, PagerGone, InLoop
<1>2. \A j \in Jobs : ~Known(j)
  BY <1>1 DEF Init, Known, Jobs
<1>3. KnownVerdict = [j \in 1 .. NumJobs |-> "unknown"]
  BY <1>2 DEF KnownVerdict, Jobs
<1> QED
  BY <1>1, <1>3 DEF Promise!Init

\* What feeder, monitor and the loading and diffing of a job do is invisible.
LEMMA QuietStep ==
  ASSUME PInv, Feeder \/ Monitor \/ Returned \/ UNCHANGED vars
  PROVE  UNCHANGED promiseVars
<1>1. UNCHANGED <<verdict, printer, nextOut, written, filesRendered, hadErrors, pager>>
  BY DEF Feeder, FeederAcquire, FeederToWork, FeederToFlight, FeederExit, Monitor, Returned, vars
<1>2. UNCHANGED <<Consumed, FilesConsumed, PagerGone, Phase>>
  BY <1>1 DEF Consumed, FilesConsumed, PagerGone, Phase, InLoop
<1>3. \A j \in Jobs : done'[j] = "closed" <=> done[j] = "closed"
  <2>1. CASE FeederAcquire
    <3>1. done' = [done EXCEPT ![nextIn] = "open"] /\ nextIn \in Jobs /\ done[nextIn] = "nil"
      BY <2>1 DEF FeederAcquire, PInv, IInv, Ownership, DoneStates
    <3> QED
      BY <3>1, Positions DEF PInv
  <2>2. CASE ~FeederAcquire
    BY <2>2 DEF Feeder, FeederToWork, FeederToFlight, FeederExit, Monitor, Returned, vars
  <2> QED
    BY <2>1, <2>2
<1>4. KnownVerdict' = KnownVerdict
  BY <1>1, <1>2, <1>3, KnownStays DEF Known
<1> QED
  BY <1>1, <1>2, <1>4 DEF promiseVars

\* Closing j.done decides the job, unless the run was cancelled before it was diffed.
LEMMA WorkerStep ==
  ASSUME PInv, NEW w \in Workers, Worker(w)
  PROVE  Promise!Next \/ UNCHANGED promiseVars
<1>1. UNCHANGED <<printer, nextOut, written, filesRendered, hadErrors, pager>>
  BY DEF Worker, WorkerTake, WorkerExit, WorkerLoad, WorkerRun, WorkerFree, WorkerClose
<1>2. UNCHANGED <<Consumed, FilesConsumed, PagerGone, Phase>>
  BY <1>1 DEF Consumed, FilesConsumed, PagerGone, Phase, InLoop
<1>3. CASE WorkerLoad(w) \/ WorkerRun(w)
  <2>1. UNCHANGED done
    BY <1>3 DEF WorkerLoad, WorkerRun
  <2>2. ASSUME NEW j \in Jobs
        PROVE  ((Known(j))' <=> Known(j)) /\ (Known(j) => verdict'[j] = verdict[j])
    <3>1. CASE verdict'[j] = verdict[j]
      BY <1>2, <2>1, <3>1 DEF Known
    <3>2. CASE verdict'[j] # verdict[j]
      <4>1. j = holding[w] /\ j \notin Finished /\ done[j] = "open"
        BY <3>2, WorkerVerdict, Positions DEF PInv
      <4>2. ~(j < Consumed)
        BY <4>1, ConsumedIsFinished
      <4> QED
        BY <1>2, <2>1, <4>1, <4>2 DEF Known
    <3> QED
      BY <3>1, <3>2
  <2> QED
    BY <1>1, <1>2, <2>2, KnownStays DEF promiseVars
<1>4. CASE WorkerTake(w) \/ WorkerExit(w) \/ WorkerFree(w)
  <2>1. UNCHANGED <<done, verdict>>
    BY <1>4 DEF WorkerTake, WorkerExit, WorkerFree
  <2> QED
    BY <1>1, <1>2, <2>1, KnownStays DEF promiseVars, Known
<1>5. CASE WorkerClose(w)
  <2>0. PICK h \in Jobs : h = holding[w]
    BY <1>5 DEF WorkerClose, MoveWorker, PInv, IInv, TypeOK, WorkersOK
  <2>1. /\ h \notin Finished /\ UNCHANGED verdict
        /\ done' = [done EXCEPT ![h] = "closed"] /\ done[h] = "open"
        /\ verdict[h] \in Verdicts \ {"none"}
    <3>1. h # 0 /\ h \notin Finished
      BY <2>0, HeldNotFinished DEF PInv, IInv, Jobs
    <3>2. done[h] = "open"
      BY <2>0, <3>1 DEF PInv, IInv, Ownership, HeldOpen
    <3>3. verdict[h] # "none"
      BY <1>5, <2>0 DEF WorkerClose, MoveWorker, PInv, Decided
    <3> QED
      BY <1>5, <2>0, <3>1, <3>2, <3>3, Positions DEF WorkerClose, PInv
  <2>2. ~Known(h) /\ ((Known(h))' <=> verdict[h] # "cancelled")
    <3>1. ~(h < Consumed)
      BY <2>1, ConsumedIsFinished
    <3> QED
      BY <1>2, <2>1, <3>1, Positions DEF Known, PInv
  <2>3. \A j \in Jobs : j # h => ((Known(j))' <=> Known(j))
    BY <1>2, <2>1, Positions DEF Known, PInv
  <2>4. CASE verdict[h] = "cancelled"
    <3>1. \A j \in Jobs : ((Known(j))' <=> Known(j))
      BY <2>2, <2>3, <2>4
    <3> QED
      BY <1>1, <1>2, <2>1, <3>1, KnownStays DEF promiseVars
  <2>5. CASE verdict[h] # "cancelled"
    <3>1. KnownVerdict' = [KnownVerdict EXCEPT ![h] = verdict[h]]
      BY <2>1, <2>2, <2>3, <2>5 DEF KnownVerdict
    <3>2. KnownVerdict[h] = "unknown" /\ verdict[h] \in {"same", "ok", "renderErr", "err"}
      BY <2>1, <2>2, <2>5 DEF KnownVerdict, Verdicts
    <3>3. Promise!Decide(h)
      BY <1>1, <1>2, <3>1, <3>2 DEF Promise!Decide
    <3> QED
      BY <2>1, <3>3 DEF Promise!Next, Jobs
  <2> QED
    BY <2>4, <2>5
<1> QED
  BY <1>3, <1>4, <1>5 DEF Worker

\* The job the printer works on is known, and it is the next one to consume.
LEMMA PrinterJobKnown ==
  ASSUME PInv, printer \in {"check", "write", "blocked"}, verdict[current] # "cancelled"
  PROVE  /\ current = nextOut /\ nextOut \in Jobs /\ nextOut \in Nat /\ Consumed = nextOut
         /\ nextOut <= NumJobs /\ KnownVerdict[nextOut] = verdict[nextOut]
         /\ InLoop /\ Phase = "printing"
<1>1. /\ current = nextOut /\ nextOut \in Jobs /\ nextOut \in Nat /\ done[nextOut] = "closed"
      /\ nextOut <= NumJobs
  BY Positions, NumJobsAssumption DEF PInv, HasJob, Jobs
<1>2. Consumed = nextOut /\ InLoop /\ Phase = "printing"
  BY DEF Consumed, InLoop, Phase
<1> QED
  BY <1>1, <1>2 DEF KnownVerdict, Known

\* The step that finishes a job is the step that consumes it; what is known stays.
LEMMA FinishKeepsKnown ==
  ASSUME PInv, printer \in {"check", "write", "blocked"}, printer' = "release",
         verdict[current] # "cancelled", UNCHANGED <<verdict, done, nextOut>>
  PROVE  KnownVerdict' = KnownVerdict /\ Consumed' = Consumed + 1 /\ Phase' = "printing"
<1>1. /\ nextOut \in Jobs /\ nextOut \in Nat /\ done[nextOut] = "closed"
  BY Positions DEF PInv, HasJob, Jobs
<1>2. Consumed = nextOut /\ Consumed' = nextOut + 1 /\ Phase' = "printing"
  BY DEF Consumed, Phase, InLoop
<1>3. \A j \in Jobs : ((Known(j))' <=> Known(j))
  BY <1>1, <1>2 DEF Known, Jobs
<1> QED
  BY <1>2, <1>3, KnownStays

LEMMA ReportStep ==
  ASSUME PInv, PrinterReport
  PROVE  Promise!Next \/ UNCHANGED promiseVars
<1>1. /\ printer = "check" /\ ~cancelled
      /\ UNCHANGED <<verdict, done, nextOut, current, written, pager>>
  BY DEF PrinterReport
<1>2. /\ nextOut \in Jobs /\ verdict[current] # "cancelled" /\ verdict[nextOut] \in Verdicts \ {"none"}
      /\ current = nextOut
  <2>1. current = nextOut /\ nextOut \in Jobs /\ done[current] = "closed"
    BY <1>1, Positions DEF PInv, HasJob
  <2> QED
    BY <1>1, <2>1, Positions DEF PInv, Decided
<1>3. CASE verdict[nextOut] \in Rendered
  <2>1. /\ printer' = "write" /\ filesRendered' = filesRendered + 1 /\ UNCHANGED hadErrors
    BY <1>2, <1>3 DEF PrinterReport, Rendered
  <2>2. UNCHANGED <<Consumed, FilesConsumed, PagerGone, Phase>>
    BY <1>1, <2>1 DEF Consumed, FilesConsumed, PagerGone, Phase, InLoop, PInv, IInv, TypeOK, FlagsOK
  <2>3. KnownVerdict' = KnownVerdict
    BY <1>1, <2>2, KnownStays DEF Known
  <2> QED
    BY <1>1, <2>1, <2>2, <2>3 DEF promiseVars
<1>4. CASE verdict[nextOut] \notin Rendered
  <2>1. /\ printer' = "release" /\ UNCHANGED filesRendered
        /\ \/ verdict[nextOut] = "err" /\ hadErrors' = TRUE
           \/ verdict[nextOut] = "same" /\ UNCHANGED hadErrors
    BY <1>2, <1>4 DEF PrinterReport, Rendered, Verdicts
  <2>2. KnownVerdict' = KnownVerdict /\ Consumed' = Consumed + 1 /\ Phase' = "printing"
    BY <1>1, <1>2, <2>1, FinishKeepsKnown
  <2>3. UNCHANGED <<FilesConsumed, PagerGone>>
    BY <1>1, <2>1 DEF FilesConsumed, PagerGone
  <2>4. /\ Consumed = nextOut /\ nextOut <= NumJobs
        /\ KnownVerdict[nextOut] = verdict[nextOut] /\ Phase = "printing"
    BY <1>1, <1>2, PrinterJobKnown
  <2>5. Promise!Consume
    BY <1>1, <2>1, <2>2, <2>3, <2>4 DEF Promise!Consume
  <2> QED
    BY <2>5 DEF Promise!Next
<1> QED
  BY <1>3, <1>4

LEMMA WriteStep ==
  ASSUME PInv, PrinterWrite
  PROVE  Promise!Next
<1>1. printer \in {"write", "blocked"} /\ UNCHANGED <<verdict, done, nextOut, pager, filesRendered>>
  BY DEF PrinterWrite, MoveWrite, WriteOk, WriteFailed, WriteBrokenPipe, MovePrinter
<1>2. verdict[current] # "cancelled" /\ verdict[current] \in Rendered
  BY <1>1 DEF PInv, Decided, IInv, Order
<1>3. /\ Consumed = nextOut /\ nextOut <= NumJobs /\ current = nextOut /\ nextOut \in Jobs
      /\ KnownVerdict[nextOut] = verdict[nextOut] /\ Phase = "printing"
  BY <1>1, <1>2, PrinterJobKnown
<1>4. KnownVerdict[nextOut] \in {"ok", "renderErr"}
  BY <1>2, <1>3 DEF Rendered
<1>5. filesRendered \in Nat /\ FilesConsumed = filesRendered - 1 /\ PagerGone' = PagerGone
  BY <1>1 DEF FilesConsumed, PagerGone, PInv, IInv, TypeOK, FlagsOK
<1>6. CASE WriteOk \/ WriteFailed
  <2>1. /\ printer' = "release"
        /\ \/ /\ written' = Append(written, nextOut)
              /\ hadErrors' = (hadErrors \/ KnownVerdict[nextOut] = "renderErr")
           \/ written' = written /\ hadErrors' = TRUE
    BY <1>3, <1>6 DEF MoveWrite, WriteOk, WriteFailed, MovePrinter
  <2>2. KnownVerdict' = KnownVerdict /\ Consumed' = Consumed + 1 /\ Phase' = "printing"
    BY <1>1, <1>2, <2>1, FinishKeepsKnown
  <2>3. FilesConsumed' = FilesConsumed + 1
    BY <1>1, <1>5, <2>1 DEF FilesConsumed
  <2>4. Promise!Consume
    BY <1>3, <1>4, <1>5, <2>1, <2>2, <2>3 DEF Promise!Consume
  <2> QED
    BY <2>4 DEF Promise!Next
<1>7. CASE WriteBrokenPipe
  <2>1. printer' = "cancel" /\ UNCHANGED <<written, hadErrors>>
    BY <1>7 DEF MoveWrite, WriteBrokenPipe, MovePrinter
  <2>2. /\ Phase' = "stopping" /\ Consumed' = Consumed
        /\ FilesConsumed' = FilesConsumed + 1
    BY <1>1, <1>5, <2>1 DEF Phase, InLoop, Consumed, FilesConsumed
  <2>3. KnownVerdict' = KnownVerdict
    BY <1>1, <2>2, KnownStays DEF Known
  <2>4. Promise!BrokenPipe
    BY <1>3, <1>4, <1>5, <2>1, <2>2, <2>3 DEF Promise!BrokenPipe
  <2> QED
    BY <2>4 DEF Promise!Next
<1> QED
  BY <1>6, <1>7 DEF PrinterWrite

\* A write that does not end is no step of the promise.
LEMMA BlockStep ==
  ASSUME PInv, PrinterBlocks
  PROVE  UNCHANGED promiseVars
<1>1. /\ printer = "write" /\ printer' = "blocked"
      /\ UNCHANGED <<verdict, done, nextOut, written, filesRendered, hadErrors, pager>>
  BY DEF PrinterBlocks, MovePrinter
<1>2. UNCHANGED <<Consumed, FilesConsumed, PagerGone, Phase>>
  BY <1>1 DEF Consumed, FilesConsumed, PagerGone, Phase, InLoop
<1>3. KnownVerdict' = KnownVerdict
  BY <1>1, <1>2, KnownStays DEF Known
<1> QED
  BY <1>1, <1>2, <1>3 DEF promiseVars

LEMMA ReleaseStep ==
  ASSUME PInv, PrinterRelease
  PROVE  UNCHANGED promiseVars
<1>1. /\ printer = "release" /\ printer' = "next" /\ nextOut' = nextOut + 1
      /\ done' = [done EXCEPT ![nextOut] = "nil"]
      /\ UNCHANGED <<verdict, written, filesRendered, hadErrors, pager>>
      /\ nextOut \in Jobs
  BY Positions DEF PrinterRelease, MovePrinter, PInv, HasJob
<1>2. UNCHANGED <<Consumed, FilesConsumed, PagerGone, Phase>>
  BY <1>1 DEF Consumed, FilesConsumed, PagerGone, Phase, InLoop
<1>3. \A j \in Jobs : ((Known(j))' <=> Known(j))
  <2>1. nextOut < Consumed
    BY <1>1 DEF Consumed, Jobs
  <2> QED
    BY <1>1, <1>2, <2>1, Positions DEF Known, PInv
<1> QED
  BY <1>1, <1>2, <1>3, KnownStays DEF promiseVars

\* The loop is left early only when the pager has gone; then the caller waits.
LEMMA OtherPrinterStep ==
  ASSUME PInv, \/ PrinterTake \/ PrinterAwait \/ PrinterStop \/ PrinterFinish
               \/ TeardownCancel \/ TeardownClosePager \/ TeardownWaitPager \/ TeardownJoin
  PROVE  Promise!Next \/ UNCHANGED promiseVars
<1>1. /\ UNCHANGED <<verdict, done, nextOut, written, filesRendered, hadErrors, pager>>
      /\ printer \notin {"release", "write", "blocked"} /\ printer' \notin {"release", "write", "blocked"}
  BY DEF PrinterTake, PrinterAwait, PrinterStop, PrinterFinish, TeardownCancel, TeardownClosePager,
         TeardownWaitPager, TeardownJoin, MovePrinter
<1>2. UNCHANGED <<Consumed, FilesConsumed, PagerGone>> /\ Consumed = nextOut
  BY <1>1 DEF Consumed, FilesConsumed, PagerGone
<1>3. KnownVerdict' = KnownVerdict
  BY <1>1, <1>2, KnownStays DEF Known
<1>4. CASE PrinterStop \/ PrinterFinish
  <2>1. Phase = "printing" /\ Phase' = "stopping"
    BY <1>4 DEF PrinterStop, PrinterFinish, MovePrinter, Phase, InLoop
  <2>2. nextOut > NumJobs \/ PagerGone
    BY <1>4 DEF PrinterStop, PrinterFinish, MovePrinter, PInv, Decided, InLoop, PagerGone
  <2>3. Promise!Stop
    BY <1>1, <1>2, <1>3, <2>1, <2>2 DEF Promise!Stop
  <2> QED
    BY <2>3 DEF Promise!Next
<1>5. CASE TeardownJoin
  <2>1. Phase = "stopping" /\ Phase' = "returned"
    BY <1>5 DEF TeardownJoin, MovePrinter, Phase, InLoop
  <2>2. Promise!Return
    BY <1>1, <1>2, <1>3, <2>1 DEF Promise!Return
  <2> QED
    BY <2>2 DEF Promise!Next
<1>6. CASE PrinterTake \/ PrinterAwait \/ TeardownCancel \/ TeardownClosePager \/ TeardownWaitPager
  <2>1. Phase' = Phase
    BY <1>6 DEF PrinterTake, PrinterAwait, TeardownCancel, TeardownClosePager, TeardownWaitPager,
                MovePrinter, Phase, InLoop
  <2> QED
    BY <1>1, <1>2, <1>3, <2>1 DEF promiseVars
<1> QED
  BY <1>4, <1>5, <1>6

LEMMA PagerStep ==
  ASSUME PInv, PagerExit
  PROVE  Promise!Next
<1>1. /\ UNCHANGED <<verdict, done, printer, nextOut, written, filesRendered, hadErrors>>
      /\ pager' = "exited"
  BY DEF PagerExit
<1>2. UNCHANGED <<Consumed, FilesConsumed, Phase>> /\ PagerGone' = TRUE
  BY <1>1 DEF Consumed, FilesConsumed, Phase, InLoop, PagerGone
<1>3. KnownVerdict' = KnownVerdict
  BY <1>1, <1>2, KnownStays DEF Known
<1>4. Promise!ReaderLeaves
  BY <1>1, <1>2, <1>3 DEF Promise!ReaderLeaves
<1> QED
  BY <1>4 DEF Promise!Next

LEMMA PromiseNext == PInv /\ [Next]_vars => [Promise!Next]_(Promise!vars)
<1> SUFFICES ASSUME PInv, [Next]_vars
             PROVE  Promise!Next \/ UNCHANGED promiseVars
  BY PromiseStutters
<1> QED
  BY QuietStep, WorkerStep, ReportStep, BlockStep, WriteStep, ReleaseStep, OtherPrinterStep, PagerStep
     DEF Next, Printer

\* The concurrent runner is the sequential promise: jobs are decided in any order, but
\* consumed one at a time in the order of the list, with the exit status and the count
\* that belong to what was consumed, and the run ends early only when its reader has gone.
THEOREM DiffJobsImplementsPromise == Spec => ImplementsPromise
<1>1. Init => Promise!Init
  BY PromiseInit
<1>2. PInv /\ [Next]_vars => [Promise!Next]_(Promise!vars)
  BY PromiseNext
<1> QED
  BY <1>1, <1>2, SpecPInv, PTL DEF Spec, ImplementsPromise, Promise!Spec
=============================================================================
