--------------------------- MODULE MCFlowControl ----------------------------
(***************************************************************************)
(* Instances of FlowControl for TLC: messages of one node, m1, m2 and m5   *)
(* from one process to the same process of n1, m3 to another process of    *)
(* n1, m4 to n2.                                                           *)
(***************************************************************************)
EXTENDS FlowControl

MCDest == [m \in Message |-> IF m = "m4" THEN "n2" ELSE "n1"]
MCPair == [m \in Message |-> CASE m \in {"m1", "m2", "m5"} -> "p1"
                               [] m = "m3" -> "p2"
                               [] m = "m4" -> "p3"]
=============================================================================
