---------------------------- MODULE MCEventQueue ----------------------------
(***************************************************************************)
(* Instances of EventQueue for TLC: three queues over two mailboxes, two   *)
(* actors that issue events.                                               *)
(***************************************************************************)
EXTENDS EventQueue

Mixed == {<<"q1">>, <<"q1", "q2">>, <<"q3", "q2">>}
=============================================================================
