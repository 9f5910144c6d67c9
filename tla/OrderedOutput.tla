---------------------------- MODULE OrderedOutput ----------------------------
(***************************************************************************)
(* What runConcurrentDiffJobs promises its caller, without goroutines:     *)
(* every job gets one verdict, in any order; the results are consumed in   *)
(* job order; the caller learns whether anything failed and how many files *)
(* had output.  The run ends after the last job, or early when the reader  *)
(* of the output has gone.                                                 *)
(***************************************************************************)
EXTENDS Integers, Sequences

CONSTANT NumJobs

VARIABLES verdict,     \* [job -> "unknown", "same", "ok", "renderErr", "err"]
          next,        \* the job to consume next
          shown,       \* the jobs whose output was delivered
          count,       \* how many jobs had output
          errors,      \* did anything fail
          readerGone,  \* has the pager exited
          phase        \* "printing", "stopping", "returned"

vars == <<verdict, next, shown, count, errors, readerGone, phase>>

Init ==
  /\ verdict = [j \in 1 .. NumJobs |-> "unknown"]
  /\ next = 1 /\ shown = <<>> /\ count = 0 /\ errors = FALSE
  /\ readerGone = FALSE /\ phase = "printing"

Decide(j) ==
  /\ verdict[j] = "unknown"
  /\ \E v \in {"same", "ok", "renderErr", "err"} : verdict' = [verdict EXCEPT ![j] = v]
  /\ UNCHANGED <<next, shown, count, errors, readerGone, phase>>

Consume ==
  /\ phase = "printing" /\ next <= NumJobs
  /\ next' = next + 1
  /\ \/ /\ verdict[next] = "same"
        /\ UNCHANGED <<shown, count, errors>>
     \/ /\ verdict[next] = "err"
        /\ errors' = TRUE
        /\ UNCHANGED <<shown, count>>
     \/ /\ verdict[next] \in {"ok", "renderErr"}
        /\ count' = count + 1
        /\ \/ shown' = Append(shown, next) /\ errors' = (errors \/ verdict[next] = "renderErr")
           \/ shown' = shown /\ errors' = TRUE
  /\ UNCHANGED <<verdict, readerGone, phase>>

Stop ==
  /\ phase = "printing" /\ phase' = "stopping"
  /\ next > NumJobs \/ readerGone
  /\ UNCHANGED <<verdict, next, shown, count, errors, readerGone>>

\* A broken pipe is met while a file is written: that file was counted.
BrokenPipe ==
  /\ phase = "printing" /\ phase' = "stopping"
  /\ next <= NumJobs /\ verdict[next] \in {"ok", "renderErr"}
  /\ count' = count + 1
  /\ UNCHANGED <<verdict, next, shown, errors, readerGone>>

Return ==
  /\ phase = "stopping" /\ phase' = "returned"
  /\ UNCHANGED <<verdict, next, shown, count, errors, readerGone>>

ReaderLeaves ==
  /\ readerGone' = TRUE
  /\ UNCHANGED <<verdict, next, shown, count, errors, phase>>

Next == \/ (\E j \in 1 .. NumJobs : Decide(j)) \/ Consume \/ Stop \/ BrokenPipe
        \/ Return \/ ReaderLeaves

Spec == Init /\ [][Next]_vars
=============================================================================
