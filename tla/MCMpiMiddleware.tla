-------------------------- MODULE MCMpiMiddleware ---------------------------
(***************************************************************************)
(* Instance of MpiMiddleware for TLC: two applications with arrays of two  *)
(* requests at two addresses.  No call works on both requests and derived  *)
(* handles, so the instance leaves out the states that have both.          *)
(***************************************************************************)
EXTENDS MpiMiddleware, TLC

MCSlot == 1 .. 2

OneHalf == objects = {} \/ \A x \in Addr : heap[x] = Free

MCSpec == Init /\ [][Next /\ OneHalf']_vars

\* Actors and addresses are interchangeable.
MCSymmetry == Permutations(Actor) \cup Permutations(Addr)
=============================================================================
