-------------------------- MODULE MCCountingEvent ---------------------------
(***************************************************************************)
(* Instances of CountingEvent for TLC.  The waiters are interchangeable,   *)
(* and so are the updaters.                                                *)
(***************************************************************************)
EXTENDS CountingEvent

Symmetry == Permutations(Waiter) \cup Permutations(Updater)
=============================================================================
