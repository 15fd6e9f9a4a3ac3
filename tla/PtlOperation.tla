----------------------------- MODULE PtlOperation ---------------------------
(***************************************************************************)
(* What one-sided Portals operations promise to their users: an operation  *)
(* takes effect at the target at most once, its initiator is told of its   *)
(* completion at most once, is told of a success only after it took effect *)
(* and never sees an operation take effect after its completion.           *)
(***************************************************************************)
EXTENDS Naturals

CONSTANT Req

VARIABLES issued,     \* operations issued by the user
          effect,     \* how often each operation took effect at the target
          told        \* what the initiator was told of each operation

vars == <<issued, effect, told>>

Init ==
  /\ issued = {}
  /\ effect = [r \in Req |-> 0]
  /\ told = [r \in Req |-> "none"]

Issue(r) ==
  /\ r \notin issued
  /\ issued' = issued \cup {r}
  /\ UNCHANGED <<effect, told>>

TakeEffect(r) ==
  /\ r \in issued
  /\ effect[r] = 0
  /\ told[r] = "none"
  /\ effect' = [effect EXCEPT ![r] = 1]
  /\ UNCHANGED <<issued, told>>

Complete(r, status) ==
  /\ r \in issued
  /\ told[r] = "none"
  /\ status = "ok" => effect[r] = 1
  /\ told' = [told EXCEPT ![r] = status]
  /\ UNCHANGED <<issued, effect>>

\* With QUICK_ACKS the target takes the effect and completes in one step.
EffectAndComplete(r) ==
  /\ r \in issued
  /\ effect[r] = 0
  /\ told[r] = "none"
  /\ effect' = [effect EXCEPT ![r] = 1]
  /\ told' = [told EXCEPT ![r] = "ok"]
  /\ UNCHANGED issued

Next ==
  \E r \in Req :
    \/ Issue(r)
    \/ TakeEffect(r)
    \/ \E status \in {"ok", "fail"} : Complete(r, status)
    \/ EffectAndComplete(r)

Spec == Init /\ [][Next]_vars
=============================================================================
