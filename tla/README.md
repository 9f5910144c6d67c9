# diffmantic in TLA+

diffmantic compares two versions of source files by their syntax trees. The code that is hard to test is of four kinds, and this directory models all four:

1. two concurrent pipelines that diff many files at once and print the results in order through a pager (`cmd/concurrent.go`, `internal/streamdiff`);
2. conversations with an external `git cat-file --batch` process over bounded pipes (`internal/git`);
3. algorithms on mutable trees and maps, whose correctness needs long sequences of operations (`internal/engine/mapping.go`, `internal/engine/top-down.go`, `internal/actions/chawathe.go`);
4. the way of one file from its lines to the screen: a dozen steps that each index into what the step before computed (`internal/pipeline`, `internal/serialize`, `internal/renderutil`, `internal/unified`, `internal/sidebyside`, `internal/comments`).

Every definition is translated from the Go source; `PROJECT.json` gives the lines of each one.

## Inventory

| component | state | operations | interacts with | what makes it correct |
|---|---|---|---|---|
| command line, git mode (`cmd/root.go`) | job list, prefetched blobs, exit status | build jobs, prefetch, run, single-file fallback | batch reader, runner, pager | |
| directory mode (`cmd/directory.go`) | job list | walk two trees, run | runner, pager | |
| concurrent runner (`cmd/concurrent.go`) | `workQueue`, `inFlight`, `sem`, jobs with `done`, `out`, `err` | feed, work, print, cancel, tear down | pager, pipeline | order, permits, exact report, termination |
| stream processor (`internal/streamdiff`) | open hunk, raw chunk buffer, two queues, semaphore | split a patch stream, fetch blobs, diff, flush in order | batch session, pipeline, pager | order, nothing lost, returns although stdin blocks |
| pager (`internal/pager`) | process, stdin pipe, `doneChan` | start, close, done | runner, stream processor | |
| git queries (`internal/git/git.go`) | config, attribute and textconv caches, sandbox flag | status, changed files, content, batch content | git processes | every request its own contents, no deadlock on pipes |
| batch session (`internal/git/batch.go`) | process, failure count, `poisoned`, `closed` | fetch, close | stream processor | request and answer in step |
| pipeline (`internal/pipeline`) | none kept | decide fallback, parse both sides, match, script, comments, serialise | everything below | independent of the order of its goroutines |
| parsing (`internal/treesitter`) | tree, index, trivia | ingest the flat tree, attach comments, answer queries | grammars | |
| line, word and sequence diff (`internal/engine`) | local tables | align, compact, tokenise | partition, rows, words | keeps text and order |
| matching passes (`internal/engine`) | mapping, partition, candidates | top-down, bottom-up, recovery, glue | tree, rules, mapping | only whole free subtrees, recovery is an edit |
| mapping (`internal/engine/mapping.go`) | two maps and `Pairs` | add, remove, sort | the passes | one to one, order kept |
| edit script (`internal/actions`) | working copy of the source tree, order marks | insert, update, move, align, delete | mapping | turns source into destination |
| post-processing (`internal/postprocess`) | the script | collapse, group | script | |
| comment diff (`internal/comments`) | flags of taken comments, actions | extract, five passes, line and word diff | mapping | every comment once |
| envelope and rows (`internal/serialize`) | actions, colours, spans, anchors | align rows, build actions, colour, cut spans | script, comments, mapping | every line once, all changes painted and nothing else |
| hunks and renderers (`internal/renderutil`, `unified`, `sidebyside`) | cursor, current row | form and merge hunks, print, wrap, badge | rows, spans | the unified view is a patch; every character once |
| rules, native bridge, colors, help, environment | tables | | | |

Two pipelines share one shape. A producer takes a permit, hands a job to a pool of workers *and* to an ordered queue; the consumer of the ordered queue waits for each job's `done` channel, writes its output and returns the permit. A monitor cancels everything when the user quits the pager. They differ in what is dangerous: in the runner the consumer is the calling goroutine and returns its permit with an unguarded send; in the stream processor the producer may be blocked on stdin for ever and the ownership of the permit moves from producer to consumer.

Inside one job, `pipeline.Run` is sequential but for two fork-joins: both parses, then the edit script next to the comment diff. What is hard there is not the interleaving but the indices: rows, hunks, spans and word operations are all positions in a text that an earlier step cut differently, and each has a boundary (first line, final newline, empty file, empty side of a hunk) that a unit test of the step alone does not meet.

What is hard in each: see `hazards` in `PROJECT.json`, one entry per line of code where it bites, with the property that would catch it.

## Modules

| module | models | instance |
|---|---|---|
| `OrderedOutput` | what a call of `runConcurrentDiffJobs` promises: verdicts in any order, consumed in job order, an early stop only when the reader has gone | refined by `DiffJobs` |
| `DiffJobs` | `runConcurrentDiffJobs`, `processDiffJob`, and the pager as they use it | `MCDiffJobs` |
| `DiffJobsProofs` | inductive invariant of the runner, what its caller relies on, and the refinement of `OrderedOutput` | TLAPS |
| `StreamDiff` | `streamdiff.Process`, `processStreamJob`, `rawChunkBuffer` | `MCStreamDiff` |
| `StreamDiffProofs` | inductive invariant and proofs | TLAPS |
| `BatchContent` | `GetBatchContent`, `fallbackGetContent`, and git as an external process | `MCBatchContent` |
| `BatchContentProofs` | inductive invariant and proofs | TLAPS |
| `BatchSession` | `git.BatchSession` with `fetchBlob` and `fetchBuffers` as its caller | `MCBatchSession` |
| `BatchSessionProofs` | inductive invariant and proofs | TLAPS |
| `Mapping` | `engine.Mapping` under the passes of `engine.Match` and post-processing | `MCMapping` |
| `MappingProofs` | proofs | TLAPS |
| `EditScript` | `GenerateEditScript` and its helpers | `MCEditScript` |
| `EditScriptProofs` | inductive invariant of the edit script and proofs | TLAPS |
| `FileDiff` | `pipeline.Run` with the renderers: one file from its lines to both views; composes the ten modules below | `MCFileDiff` |
| `FileDiffProofs` | the line diff pairs equal lines forward, its compaction keeps the text, the partition is symmetric | TLAPS |
| `SeqAlign` | `seqdiff.go`: trimming, weighted alignment, longest increasing chains | `FileDiff`, `Paint`, `TopDown` |
| `LineDiff` | `linediff.go`: weights, patience anchors, compaction of groups | `FileDiff`, `TopDown` |
| `LinePartition` | `partition.go`: which nodes are untouched | `FileDiff`, `TopDown` |
| `LineAlign` | `align.go`: anchors, Gotoh tables, band, walk back | `FileDiff` |
| `Syntax` | the tree, its index and queries, the mapping as passes read it | all tree modules |
| `Ingest` | `bridge_ingest.go`, `extract.go`: the flat tree, trivia, comments and their anchors | `FileDiff` |
| `CommentDiff` | `comments/diff.go` | `FileDiff` |
| `Hunks` | `hunks.go`, `unified/render.go` | `FileDiff` |
| `SideBySide` | `sidebyside/render.go`: which hunk gets one column, which rows it has | `FileDiff` |
| `Paint` | from the edit script to coloured rows; composes the five modules below | `MCPaint` |
| `WordDiff` | `worddiff.go` | `Paint` |
| `Envelope` | `json.go`: actions, ranges, footers, separators, move colours | `Paint` |
| `Spans` | `spans.go`, `line.go`: cutting, absorbing, merging, partitioning of spans | `Paint` |
| `Badges` | `badges.go`: where a move badge is shown | `Paint` |
| `Slicer` | `slicer.go`, `cursor.go`: wrapping, padding, styles | `Paint` |
| `TopDown` | `top-down.go`, the guards and rankings it uses, `recovery.go` | `MCTopDown` |
| `TopDownProofs` | inductive invariant of the top-down pass, its folds, the walk of the recovery, and proofs | TLAPS |
| `ZhangShasha` | `zs.go`: tree edit distance and its walk back | `TopDown` |

### DiffJobs

One program counter per goroutine: `feeder`, `worker[w]`, `printer` (the calling goroutine, also the deferred teardown), `monitor`; the pager is a process that may exit at any time. Channels are sequences with a capacity, `sem` a number. A select is one action per arm, so `FeederExit`, `PrinterStop` and `WorkerExit` are the `ctx.Done()` arms, and Go's random choice among ready arms is TLA+'s disjunction. The two `ctx.Err()` checks of `processDiffJob` are the two branches of `WorkerLoad` and `WorkerRun`; its two defers are `WorkerFree` and `WorkerClose`, in the order Go runs them. `PrinterReport` is the check of `ctx.Err()` and the classification of the job; the write ends at once or finds the pipe full (`PrinterBlocks`) and then waits for the reader, with no arm for the cancellation; it has three outcomes. A write to a pager that has exited can only be a broken pipe: `cmd.Wait` closes the pipe.

Abstracted: the contents of a diff are one of six verdicts; stderr messages are left out. Each job has its own `done` channel, so the channel's state is kept per job.

### StreamDiff

The reader's closures `flushCurrent`, `dumpToRawBuf` and `rawBuf.flush` can each block, so they are steps of the reader's program counter, with `todo` (lines still to write) and `then` (what the loop does after `flushCurrent` returns). Reading a line takes one token from the input: the prefixes the code distinguishes, and `body` and `note`, which it does not. A hunk is named by the position of its `diff --git` line and written as that position when it is rendered, so order and completeness are statements about positions. Fetching blobs succeeds or fails; a hunk without both paths and object ids is a hunk without an `index` line. The flusher's write blocks as the printer's does (`FlusherBlocks`), and Process waits for the flusher before it closes the pager. The variable `setup` is the call: the stream, the capacities of the semaphore and of the queue, and whether there is a pager; it never changes, so one run covers several calls.

### BatchContent

The caller, the writer goroutine and the git process, with two bounded pipes. An answer is a sequence of units: a header, `BlobUnits` units of contents, a newline, or one line `missing`, or one line without a size. Git reads a spec, then writes its answer unit by unit, may die at any moment, and exits when its input is closed and everything is written.

### BatchSession

The reader goroutine of the stream processor, one program counter for the statements of `Fetch` and of `fetchBlob` around it: `next` (decide where to ask), `write`, `header`, `data`, `newline`, `single` (a command of its own), `disk`, and `close`/`wait` for the deferred `Close`. The goroutine that waits for git is `Reap`: it closes both pipes once git has exited and may take away what has not been read yet. The pipes hold sequences of units as in `BatchContent`; they are unbounded, because at most one answer is on the way and the reader is always reading it. Git may die at any moment, and always dies on a corrupt object, with or without having written the header. Every blob is represented by its object id, so a result says whose contents it holds. A single `git cat-file -p` fails exactly on the objects that are not intact; it always can be started. `StreamDiff` keeps of all this that fetching succeeds or fails.

### Mapping

`src` and `dst` are total functions with `None` for a missing key. All passes are represented by what they do to the mapping: any `Add` and `Remove` in any order, a sort in the middle, the sort at the end of `engine.Match`, then only removals (post-processing). What `slices.DeleteFunc` and the stable sort leave of `Pairs` is stated by rank (`Arranged`): the k-th entry is the one with k - 1 before it, in the order of the places or of the IDs.

### EditScript

A node is a number, children are in the order of their numbers; that gives every ordered tree of a size. The working copy is `kids`, a function from nodes to sequences. `Visit` is one iteration of the loop over `LevelOrder`: the insertion, or the update and the move, and the first half of `alignChildren`, which marks the children that are in sequence. `Realign` is one move of its second half; `misplaced` holds the children it has still to move, and nothing else happens before it is empty. `DeleteUnmapped` is the final pass. `FindPos`, `InsertChild` and `Detach` are `findPos`, `insertChild` and `deleteChild`; a child is detached by looking for it in the lists, as in the code, so the model does not assume that it is listed once.

The scores of `lcs` are 100 for a match and up to 30 more for rows and columns. Up to four children every best score is a longest sequence, so there the model lets it choose any longest one (`SureSize`); from five on the bonuses of four children can outweigh a fifth, and the model lets it choose any sequence that is in the same order on both sides. The order of the deletions is left out.

### FileDiff and its parts

`FileDiff` has the order of `Run` as its program counter: `decide` (language, binary, conflict markers, force), two parses that finish in either order, `match`, the edit script and the comment diff that finish in either order, the envelope, and the views. Every early return of `Run` is a disjunct. A line is `[key, ind]`: `key` stands for the text without its indentation, so trimming is dropping `ind` and equality up to indentation is equality of keys; similarity of two texts is a table over keys. A tree is the sequence of its nodes in pre-order.

Two parts are open: `Match` may return any mapping that is one to one, keeps kinds and maps the roots, and the script may move any mapped statement or declaration. The properties of `FileDiff` hold whatever these two do, so they do not depend on the heuristics.

The row alignment is complete: the anchors of all tiers, the moves that drive it, the dense and the banded affine-gap table, the walk back, the fallback to the dense table when the walk touches the edge of the band, and the recursive division of gaps that are too large. `BestRows` compares with an enumeration of all walks; in a gap that gets a band the code promises no optimum over all walks, so there the comparison is with the walks that stay on the band.

### Paint and its parts

`Paint` starts from an edit script (any script for the given mapping: what is unmapped is deleted or inserted, what is relabelled updated, and up to three mapped nodes move, one by one or as subtrees, grouped or not) and ends with the cells of the terminal. A text is a sequence of characters with their widths; what the terminal shows is the style that all escape sequences written so far add up to, so a colour that is not reset colours what follows. The plain line diff, where words are compared, is the second branch; there a pair of lines with the same words is skipped unless changes of style are asked for (`EqualIgnoringStyle`).

`Spans` keeps the code's order: cut at lines, absorb delimiters, merge pieces of one kind, partition overlaps. `Envelope` keeps the order in which actions, footers, separators and comments are appended, because later code breaks ties by it. A sort is stable here; the code's `slices.SortFunc` is an insertion sort, hence stable, on up to twelve elements, and no instance has more.

### TopDown and its parts

`OpenHigher` is one iteration of the outer loop that opens the higher side, `MatchLevel` one pass over a level, with unique pairs mapped and ambiguous ones put aside, `Rank` the ranking of the pairs put aside and `TakeBest` one greedy step. `Recover` is the recovery by edit distance for one pair of containers the next pass would map; which ones it maps is left open: any two mapped or free containers with something in common. Fractions are exact pairs. The comparison of candidates is not transitive; with at most twenty candidates the code's stable sort is one insertion sort, and so is the model's.

In `ZhangShasha` the tables are functions filled in the order the code fills them, so what the code reads before it is written is what the model reads. The walk back takes pairs of subtrees from a stack until it is empty; `Backtrack` allows `Len(T) + Len(U)` of them, which is always enough: the subtrees that one visit leaves for later are disjoint and smaller than it in one of the trees, so a visit of subtrees of a and b nodes leads to at most a + b - 1 visits in all.

## Runs

| run | bounds | what it shows |
|---|---|---|
| `DiffJobs` | 3 jobs, 2 permits, 2 workers, pager, the first job prefetched, fairness | `PermitsConserved`, `NoBlockedSend`, `PrintedInOrder`, `ReportExact`, `MemoryBounded`, the refinement of `OrderedOutput`, `DoneIsFinal`, `Termination` |
| `StreamDiff` | four calls: 3 hunks with 2 permits; 2 hunks with 1 permit and a pager; text around a commit with a pager; hunks that are too long, with a pager. 2 workers, chunks of 2 lines, hunks up to 3 lines, fairness | `EmittedInOrder`, `NothingLost`, `PermitsExact`, `ReturnsWithoutStdin` |
| `StreamDiff_passes` | `git log -p --oneline` with two commits | violation, see Findings |
| `BatchContent_ok` | 6 request lists with duplicates, pipes of one unit | `OwnContent`, `CompleteWhenOk`, `Returns` |
| `BatchContent_gitlink` | a submodule entry before the last request, pipes of two units | violation, see Findings |
| `BatchSession_ok` | 4 streams of 5 hunks over 9 objects of every kind, limit 3, fairness | `InStep`, `OwnBlobs`, `DeathCostsLittle`, `CloseReturns` |
| `BatchSession_disk` | three hunks, then one with a corrupt object | violation, see Findings |
| `EditScript_trees` | every pair of trees up to 4 nodes, every mapping | `WorkingCopyIsTree`, `TurnsSrcIntoDst`, `MovesAreMinimal` |
| `Mapping_ops` | 4 nodes on each side | `OneToOne`, `PairsAgree`, `InsertionOrderKept` |
| `text` | 15 programs against each other with every mapping; all files of up to 3 lines over 4 kinds of line; 4-line files of similar lines; conflict markers; binary; 5 settings of the options | `EveryLineOnce`, `BestRows`, `CommentsAccounted`, `UnifiedIsPatch`, `ColumnsComplete`, `UntouchedOnBothSides`, `CompactionKeepsText` |
| `paint` | three pairs of programs with two mappings each, every set of up to 3 moves, subtree or node, grouped or not, two divisions into hunks; all pairs of plain lines of up to 2 characters over 5 kinds and two longer ones; all pairs of lines of up to 3 letters and blanks and two longer ones, with changes of style left out; 7 settings of the terminal | `SpansInOrder`, `ChangesArePainted`, `OnlyChangesArePainted`, `RowsShowTheLine`, `PlainWordsAgree`, `MovesAreSignposted` |
| `trees` | 19 one-function programs against each other and 9 two-function programs against each other, and a statement with an operand that stands at the bottom of an expression in the other; lowest height 2, recovery up to 2 | `OnlyWholeFreeSubtrees`, `RecoveryIsAnEdit`; the pass ends, so deadlock is not checked |

Why the bounds are enough. In the two pipelines every wait is on a neighbour in the queue, on a permit, or on the cancellation; with one permit fewer than jobs a permit has to come back before the last job starts, with two workers a later job finishes first, and with three jobs one is printed, one done and one not yet handed out at the same time. Chunk and hunk limits are small so that a chunk is sent in the middle of a hunk's dump and a hunk overflows. The pipes of `BatchContent` hold less than one answer, so every party blocks on every other. Five hunks let `BatchSession` lose three in a row and go on with two, and let a success come between failures. Four nodes per side give `Mapping` the chain in which one `Add` evicts a rival and releases a partner that a third node wants. Trees of four nodes have three siblings that can be reversed, a grandchild that moves to its grandparent, and a node that moves below a former sibling.

In `text` every limit of the code is scaled down so that both sides of it are met: a table of 16 cells at most, bands of half width 1, full tables up to 4 cells, windows of 16 cells for the line diff, a drift of 1 line. Files of three lines have a first, a middle and a last line, and a fourth that is the empty one behind a final newline; the kinds are a substantive line, the same line indented, punctuation and a blank, which is what the weights tell apart. In `paint` the widths are below the length of a line, so rows break inside spans, badges and wide characters; tabs are not wider than a row, because a wider one would by design make the row wider than the terminal. In `trees` a statement occurs up to three times on either side, so candidates compete, and equal calls stand under different conditions, so a candidate can lose to a later one; in the pair with the deep expression the walk back visits more pairs of subtrees than the smaller statement has nodes; two trees that are equal as a whole never reach the pass.

## Fairness

Each goroutine is weakly fair: the Go runtime schedules runnable goroutines, and a select with a ready arm proceeds. Nothing is assumed of who reads the output. It may leave a write to a full pipe waiting for ever, and a pager may wait for the user for ever, with its stdin open or closed; so the printer and the flusher are fair only while they are not waiting for a living reader (`WaitsForReader`: inside a blocked write, or waiting for the pager process to exit), and `PagerExit` has no fairness. `Termination` and `ReturnsWithoutStdin` name that one exception: either from some time on a living reader leaves the program waiting for ever, or it returns; once the pager has exited nothing can hold it. Nothing is assumed of stdin in `StreamDiff` either: `ReaderInput` has no fairness. In `BatchContent` and `BatchSession` git runs but need not die, and exits once its input is closed; `cmd.Wait` notices. Calls into the pipeline return.

## Proofs

Everything below is proved by TLAPS for every value of the constants that satisfies the named `ASSUME`s of the module: any number of jobs, hunks and requests, any set of workers, any capacities and limits, any stream or list of requests, trees of any size. The assumptions say what the code guarantees of its own parameters: at least one job, between one permit and as many as there are jobs (`DiffJobs`); limits and capacities of at least one (`StreamDiff`, `BatchContent`, `BatchSession`); nodes are numbers and `nil` is none of them (`Mapping`); trees are numbered in pre-order, which is what `EnsureIndex` does (`TreesAssumption` of `TopDown`); both trees have at least one node, the root (`SizeAssumption` of `EditScript`); a file is a sequence of lines (`InputsAssumption` of `FileDiff`), and a node of its tree starts and ends on lines of the file, the end not before the start (`ParseAssumption`): tree-sitter reports rows of the text it was given, and `strings.Split` makes a line of every row, also of the one behind a final newline and of the only one of an empty file; an object id or a name is not one of the words the model uses for `nil`, a file of the working tree or a missing result (`ObjectsAssumption`, `NamesAssumption`).

None of the properties is inductive alone. Each component has one inductive invariant, a conjunction of named layers; each layer is preserved using the layers before it, one step per action. Every layer was checked by TLC as an invariant of the component's run before it was proved. The type invariant is the first layer.

### DiffJobsProofs

`IInv == TypeOK /\ Counting /\ Ownership /\ Order` gives `PermitsConserved`, `NoBlockedSend`, `PrintedInOrder` and the action property `DoneIsFinal`.

- `Counting` says where the permits are: in `sem`, with the feeder, or with the jobs between the printer's and the feeder's position. It bounds the lengths of the channels, so `NoBlockedSend` follows.
- `Ownership` says that every job is in one place: `inFlight` holds consecutive jobs (`QueueConsecutive`), jobs in `workQueue` or with a worker are open (`QueueOpen`, `HeldOpen`), no two workers hold the same one, and the state of `done` follows from the feeder's and the printer's position (`DoneStates`). From it: a closed job is with no worker, which is `DoneIsFinal`.
- `Order` says the printer holds exactly the job of its iteration and what is written is sorted and complete below it.

For the runner's caller there are three more layers, `PInv == IInv /\ Decided /\ Reporting /\ Memory`: `Decided` (when a verdict exists, and that inside the loop a run is cancelled only because the pager has gone), `Reporting` (the error flag and the count describe the finished prefix) and `Memory` (who still holds loaded contents or a rendered buffer). They give `ReportExact`, `MemoryBounded` and the refinement: `DiffJobsImplementsPromise` is `Spec => Promise!Spec` under the mapping of `DiffJobs`. The mapping publishes a verdict when `done` is closed, not when the worker computes it, and counts a file when it is consumed, not when its write begins. One lemma per goroutine shows that a step is a step of `OrderedOutput` or a stutter; `Decided` is what makes it true of a cancelled job, which never gets a verdict and is never consumed.

### StreamDiffProofs

`IInv == TypeOK /\ Control /\ Hunks /\ Flow /\ Jobs /\ Permits /\ Accounts /\ Reasons /\ Outcome`. A line of input is in one of five places: the reader's hand, the raw buffer, the stream queue, the flusher's item, `out`. The program counter `then` decides what "the reader's hand" is, so `Control` and `Hunks` come first.

- `Flow` says that the places, one after the other, are increasing sequences of positions, each before the next. It is one operator of the seven contents (`InOrder`); there is a lemma for each way a line moves on, and each step of the program is one of these moves. `EmittedInOrder` is its first conjunct.
- `Jobs` says who may still touch a hunk: the queue of the workers and the workers hold every job at most once and none that is done. A job is handed to the workers before it is queued for output, so a hunk can be finished while the reader still holds it.
- `Permits` counts the semaphore against the jobs in flight and the reader's own permit, as sets of positions; by `Flow` a hunk is in only one place, so the cardinalities add up. It gives `PermitsExact`.
- `Accounts`, `Reasons` and `Outcome` give `NothingLost`: until something cancels the run every line the reader has passed is in a place or settled; a run is cancelled only for a reason the result reports, or because the reader of `out` has gone; and a result of nil is decided only after reader and flusher have ended with empty hands.

### BatchContentProofs

`IInv == TypeOK /\ SpecsAsked /\ Queued /\ PendingIsRest /\ Placed /\ Reading /\ Delivered /\ OwnContent /\ CompleteWhenOk`. Writer, git and caller run at different places of the same list of answers. `Queued` and `PendingIsRest` say where git is, `Reading` where the caller is, and `Placed` that what is in the output pipe are the units between the two, without a gap, each followed by its successor (`Following`). Once git is gone and the pipe is empty there is nothing to place: the caller may have gone past a newline that never came (`Drained`). With the contents in hand known to be those of the spec being read, `OwnContent` and `CompleteWhenOk` are inductive.

### BatchSessionProofs

`IInv == TypeOK /\ Fetching /\ Pipes /\ Reading /\ Provenance /\ Costs`. `Pipes` says that the request is still waiting, or that what was taken, what is in the pipe and what git has yet to write are the answer to it and nothing else, a part of it if git has died; between two fetches a live session has empty pipes, which is `InStep`. `Reading` follows the contents being put together and `Provenance` the first blob of a hunk while the second is fetched; they give `OwnBlobs`. `Costs` bounds the hunks of intact objects that were passed on raw by the count of failures, and the count by the limit at which the session is given up: `DeathCostsLittle`.

### MappingProofs

The two maps never depend on `Pairs`, so `OneToOne` is inductive with their types (`MapsInv`). `PairsAgree` needs what a filter and a sort keep of every sequence. The lemmas start from finite sets: a strict total order gives the n members of a set the ranks 0 to n - 1, each once (`EveryRank`, by counting), so an arrangement has the entries of its places, each once (`ArrangedEntries`). `PairsInv` adds that `Pairs` lists the map `src`; `WithoutLists`, `SortedLists` and `PutPairLists` turn a list of one map into a list of the next, and `Add` is a removal followed by a put. `InsertionOrderKept` is an action property under `PairsInv`: sources in `Pairs` are what the filter left of the old ones, in their places, followed by the new one if there is one.

### EditScriptProofs

`WorkingCopyIsTree`, `TurnsSrcIntoDst` and `MovesAreMinimal` for every two trees of every size and shape, every mapping of them, every set of relabelled nodes and whatever `lcs` chooses within the freedom above. `IInv` is `Given /\ Types /\ OneTree(kids, Working) /\ Ending` and says that there are a set V of visited destination nodes and a set R of realigned ones with `Progress(V)` and `Thrift(V, R, ...)`.

- `Frontier`: V is the top of the destination tree. With what waits in the queue it has every child of its nodes, and a node is visited once.
- `Placed`: a child of a visited node is marked in order, or still to be moved, exactly if its partner is listed under its parent's partner. So the partners of V hang together under the root of the working copy (`TopIsReached`). A node is only ever moved below one of these, and the node visited is not one of them: nothing it is moved below lies inside it, so no move makes a cycle or cuts anything off (`TreeStays`).
- `Aligned`: children marked in order stand in the order of the destination. `findPos` puts a child behind the marked sibling nearest to its left. That this is also before all those to its right needs `Aligned` itself (`FindPosSplits`): the anchor is the nearest, and the others come after it.
- `AtHome`: a node that has not been moved is still a child of its parent in the source, and such siblings stand in the order of the source. So the set `alignChildren` looks at is given by the two input trees, whatever the script did elsewhere meanwhile (`CommonAre`), and a longest sequence in the working copy is one in the source. `Thrift` counts: every move belongs to a node that changes its parent or to one that is outside that sequence, and each of these is moved once.

At the end V is the whole destination tree (`Frontier` with an empty queue), and `Placed` and `Aligned` are `TurnsSrcIntoDst`. The steps of the script are edits of lists; the lemmas on `RemoveAt` and `InsertAt` say what remains of the order of the others (`RemoveLeaves`, `InsertAtIs`).

### TopDownProofs

`OnlyWholeFreeSubtrees` and `RecoveryIsAnEdit` for every pair of well-formed trees, every table of rules and every partition of the lines. The invariant, `IInv`, holds until the recovery starts. It is about the nodes the pass has still to do with (`Fronts`): a node in a priority list is the root of a subtree nothing is mapped in; a node of a pair put aside is mapped or nothing below it is (`Whole`), before and after the ranking; and no two of these nodes overlap. `Types` adds that candidates are pairs of equal subtrees of the two trees.

The argument has four parts.

- Trees: children of a node do not overlap, and below a pair of equal subtrees the nodes in order are equal subtrees themselves (`ChildrenApart`, `BlockWhole`). Both follow from the numbering.
- `AddIsomorphicPairs` adds the pairs of two subtrees in order and touches nothing else, provided that whoever is mapped there is mapped in order (`AddIsomorphicAdds`). Otherwise `Add` would release partners, which is what the property forbids.
- A level: two pairs without a rival never meet in a subtree (`UniqueOnce`, `BlocksApart`), so the proviso holds for each of them whatever the guards let through before (`TryPairReached`). Nothing is assumed of the guards and similarities: `CanMatch`, dredging, container conflicts and scores may say what they like.
- Opening: a node that was neither mapped nor put aside has nothing mapped below it, so its children are free roots in turn (`LookingStays`). With `OpenUnmatchedAndAside`, the mutant, this step fails: a child of a node that waits would overlap it.

The ranking only needs that it keeps the pairs (`RankedIn`); that its comparison is not transitive does not matter here.

The pass is a fold in a fold in a fold. The induction theorems of the library take an operator as a parameter, which no installed prover can instantiate; `NatSet` states induction with a set instead and is proved from the fact that an injection of a finite set into itself is onto. A fold is a `CHOOSE` of a recursive function over sets of positions: `FoldExists` shows that the recursion has a solution, `FoldRuns` that any solution runs through the values step by step, and for each fold of the model (`ChosenRuns`, `AddRuns`, `TryNodeReached`, `TryAllReached`, `RankedIn`) the recursion is unfolded and put into that form. These five proofs have the same steps, because what differs, the step of the fold, cannot be a parameter of a lemma.

`RecoveryIsAnEdit` is about `zs.go`. The walk back goes through a rectangle of the two post-orders; two nodes it keeps together are paired at once if both are on the leftmost paths, otherwise their subtrees are left for a walk of their own, for which the table is filled anew. The theorem does not need what the tables hold: whatever numbers steer the walk, its result is an edit. A place in post-order is the number of nodes that come before it (`PostOrderLists`), and a subtree is a block of such places (`BlockBefore`, `Nested`), so order and enclosure can be read off the places. The invariant of the walk is `Walking`: the pairs found, all pairs that can come of the subtrees left for later, and all pairs of the rectangle not walked yet agree with each other, in order and in who is inside whom (`AllAgree`). The moves are the lemmas `PairTaken`, `SubtreesLeft` and the two steps to a smaller rectangle; `VisitsExist` is the outer fold, over walks whose tables range over no known set. That the distances are least is another matter and does not hold, see Findings.

### FileDiffProofs

`CompactionKeepsText` and `UntouchedOnBothSides` for all files and all trees on them. Neither is about the order of the goroutines; what is hard is that both speak of the last step of a computation whose steps each index into what the step before has made. The invariant of the specification is short: the files are those the run was given, a side is parsed from its own file, and the matching only begins with both trees there (`FilesInv`). The rest is about the line diff as a function.

- Alignments. `Within(E, a, b, c, d)` are the sequences of pairs of E that go forward on both sides and stay behind a and c, up to b and d. `Join` puts two of them on end, and everything the line diff does is a `Join`: the trimmed head and tail are diagonals (`DiagonalWithin`), the middle is one window (`WindowIn`) or windows between anchors (`PatienceIn`). With E the pairs of lines of the same text, `AlignedIn` says that the whole lies in the files.
- A window. The walk back through the table of the weights may take any turn; a pair is only taken if its weight is positive (`StepBackIn`), and a positive weight means equal text. Whether the table holds the best scores does not matter here.
- Anchors. The piles of `computeLIS` hold, for every candidate, a parent that ends before it, and the depth of the chain it ends (`PilesGood`); the tails of the piles end later and later. So the chain from the last tail has a parent wherever the code asks for one and goes up on both sides (`ChainExists`, `ChainRises`).
- Compaction. `Lists(u, I)` says that u lists the numbers of I in order; a set has one list (`OneList`), and a function that rises moves it (`MovedList`). Sliding a group of changed lines by one maps the unchanged line it runs over to the place it leaves, a line of the same text (`GroupMoves`), so each step keeps the sequence of unchanged texts (`Keeps`, `CompactRuns`). Both sides start with as many unchanged lines as there are pairs and end so (`CompactionKeeps`): `compactLineDiff` pairs them off in order and loses none.
- Partition. The pairs of the compacted diff again have the same text and go forward (`LineDiffIn`), so `matchedA` and `matchedB` are inverse to each other (`MatchedMutual`). If the lines of a node have their partners in a row, the partners have theirs in a row, and as many of them have none (`MutualCount`, `GroupAgrees`).

The folds of the model are treated as in `TopDownProofs`, with the same lemmas `NatSet`, `FoldExists` and `FoldRuns`.

### Only model-checked

- Liveness (`Termination`, `ReturnsWithoutStdin`, `Returns`, `CloseReturns`): the prover has no rule for fairness and `ENABLED`.
- Of `FileDiff`: `EveryLineOnce` and `BestRows` need the range and the optimality of every cell of the tables of `AlignLines`, an induction for each of the three tables and their bands that has to assume gaps short enough for `negInf` (see Findings), and the anchors of all tiers, which are chosen by sorting; `CommentsAccounted` is about five passes over the flags of both sides; `UnifiedIsPatch` and `ColumnsComplete` start from the rows, so they rest on `EveryLineOnce`.
- `Paint` and its parts: the spans and badges depend on a stable sort and on a long chain of folds over strings of characters.

## Findings

1. `PassesEverythingElse` fails. `stream.go:161-162` says that Process passes everything that is not a diff straight to out. After the first hunk, a line that is not part of a patch is appended to the open hunk (`stream.go:468`) and lost when the hunk is rendered. `git log -p --oneline` produces such lines between patches.
2. `Returns` fails when an answer has no size (`BatchContent_gitlink`). The abort path closes stdin and calls `cmd.Wait` without draining stdout (`git.go:785`), so git may block on a full pipe and never exit; the fallback announced at `root.go:613` is not reached. Git versions that answer `<oid> submodule` for a submodule entry produce such a header.
3. `DiskOnlyWhenMissing` fails. `stream.go:657-658` names missing hashes as the reason to fall back to a file of the working tree. `fetchBlob` turns every error of the single `git cat-file -p` into a missing object (`stream.go:672`), so after the session is poisoned a corrupt object is silently replaced by today's file and diffed. Through the session the same object is an error and the hunk is passed on raw. If both sides of a hunk fail and the path is the same, the check at the end of `fetchBuffers` does notice.

Observed while modelling, without a run of their own because no property of the project contradicts them or the comment is one about intent:

- `json.go` says that children that move along inside a moving container inherit its colour. A grouped move, and a child that comes before its parent in the script, gets the colour of its own group or slot.
- `json.go` says that moves within two lines get different colours. There are two slots, so a third move nearby repeats one.
- `extract.go:33` promises comments in source order; they come in the order of the walk, in which a comment that hangs on a later node can follow one of an inner node.
- `zs.go:10` speaks of the optimal mapping. The key roots are visited from the last one down, so `treedist` is read before it is filled; for a source of one leaf and a destination of five nodes a distance of 5 is found where 4 is possible. The result is still an edit, which is what `RecoveryIsAnEdit` states.
- `negInf` (-1000000, `align.go:21`) marks the cells no path reaches, but a table may have a million cells (`align.go:834`) and so up to a million columns, and the border `gapOpen + (j-1)*gapExtend` sinks below it. One line against 499,988 lines that are nothing like it, or 499,995 that are a little like it, is enough: the corner of the layer of the source lines is `negInf + gapExtend` and the best, `alignGapGotohDense` starts there, stays in that layer on row 0 and reads `dp` at a negative index (`align.go:1034`), which panics. A file diffed as plain lines has no limit on its length, and `align_test.go:348` asks for a large asymmetric ratio "without clipping or panic". The tables of the runs are far from it, so `EveryLineOnce` and `BestRows` say nothing of such gaps.
- The last line of a file without a final newline, next to a longer file, is printed without `\ No newline at end of file`.
- The single-file fallback (`root.go:777`) starts a second batch of jobs on a pager the first batch has closed.

## Not modelled

- Command line, git mode and directory mode build lists of jobs for the runner; flags, configuration and wording are I/O.
- Status, configuration and attribute queries of `git.go` parse process output and fill caches under a lock.
- The bottom-up pass, `SimpleRecovery`, the glue passes and the passes of `matcher.go` rank candidates by similarity over hundreds of lines. What a model can say of them is what they do to the mapping (`Mapping`) and that nothing downstream relies on which pairs they choose (`FileDiff`).
- Post-processing rewrites the script by thresholds. `Paint` takes scripts in every grouping instead.
- In `TopDown`: kinds the rules call equivalent are one kind; there are no key-value pairs and no tags, so pair roles are always compatible and no peer of a container has a better claim.
- In `Ingest`: aliases of node types and keywords. In `FileDiff`: the limit on the size of a file is left out and the limit on parse errors is 0. Which tokens a line splits into is modelled for the characters of the instance only.
- In `Paint`: positions and labels of the wire format, JSON encoding, escape codes other than the style they leave, the gutter. A comment of several lines is a matter of rows in `CommentDiff` and is not painted.
- Grammars, the C bridge, terminal and Windows specifics of the pager, colours, help. The parent context of `StreamConfig`, which no caller sets.

## Plan

What is left is proofs about the rows of `LineAlign`: what `NextCell` and `InBand` keep of the band, that the walk back puts every line of a gap on one row, and with it `EveryLineOnce`; then the hunks, whose headers and bodies (`UnifiedIsPatch`) follow from rows that hold every line once.
