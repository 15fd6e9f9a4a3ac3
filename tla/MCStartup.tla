----------------------------- MODULE MCStartup ------------------------------
(***************************************************************************)
(* Instances of Startup for TLC: two applications on one host and one on   *)
(* another, with the NIC actors of the two hosts.                          *)
(***************************************************************************)
EXTENDS Startup

MCPosition == [u \in User |-> IF u = "u1" THEN 0 ELSE IF u = "u2" THEN 1 ELSE 2]
MCHostOf   == [a \in Actor |-> IF a \in {"u3", "i3"} THEN "h2" ELSE "h1"]
MCRole     == [a \in Nic |-> IF a \in {"e1", "e2"} THEN "e2e"
                             ELSE IF a = "t1" THEN "target" ELSE "initiator"]
MCVn       == [a \in Nic |-> IF a = "i2" THEN "response" ELSE "request"]
MCRankProp == [u \in User |-> IF u = "u1" THEN 2 ELSE IF u = "u3" THEN 0 ELSE NoRank]
MCAskedPid == [u \in User |-> IF u = "u1" THEN FirstPid ELSE PidAny]
=============================================================================
