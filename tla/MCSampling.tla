----------------------------- MODULE MCSampling -----------------------------
(***************************************************************************)
(* Two user processes, one line with a global loop that wants two          *)
(* benchmarks and one with a local loop that wants a small error.          *)
(***************************************************************************)
EXTENDS Sampling

MCIters == [l \in Loc |-> IF l = "global" THEN 2 ELSE 0]
=============================================================================
