---------------------------- MODULE MCMatchList -----------------------------
(***************************************************************************)
(* Instances of MatchList for TLC: a USE_ONCE and a persistent entry of    *)
(* the priority list, two overflow entries, and messages of two match      *)
(* bits of which the persistent entries take both.                         *)
(***************************************************************************)
EXTENDS MatchList

MCOverflow == ME \cap {"spare", "spareOnce"}
MCUseOnce  == ME \cap {"once", "spareOnce"}
MCGets     == Message \cap {"get1", "get2"}

MCMatches ==
  {p \in ME \X Message : \/ p[1] \in {"any", "spare"}
                         \/ p[1] = "once" /\ p[2] \in {"put1", "get1"}
                         \/ p[1] = "spareOnce" /\ p[2] \in {"put1", "put2"}}
=============================================================================
