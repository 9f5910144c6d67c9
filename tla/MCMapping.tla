----------------------------- MODULE MCMapping -----------------------------
(* Four nodes on each side: chains of evictions a -> b, c -> b, c -> d have  *)
(* room, and Pairs can be in any order.                                      *)
EXTENDS Mapping

MCT1 == 1 .. 4
MCT2 == 11 .. 14
MCNone == 0
=============================================================================
