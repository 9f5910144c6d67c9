---------------------------- MODULE MCEditScript ----------------------------
(* Every pair of ordered trees up to the two sizes, with every mapping that  *)
(* pairs the roots, every choice of changed labels, at most one unordered    *)
(* container.                                                                *)
EXTENDS EditScript
=============================================================================
