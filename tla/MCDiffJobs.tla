----------------------------- MODULE MCDiffJobs -----------------------------
(* The runner on small instances: fewer permits than jobs, so that permits  *)
(* are reused, and two workers, so that jobs overtake each other.           *)
EXTENDS DiffJobs

FirstJob == {1}
=============================================================================
