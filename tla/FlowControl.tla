----------------------------- MODULE FlowControl ----------------------------
(***************************************************************************)
(* Flow control of one node on one VN: the credits of BxiNode, the TX      *)
(* actor that parks a message when a credit is missing, and the RX actors  *)
(* that give credits back and resume what is parked.                       *)
(*                                                                         *)
(* BxiNode::resume_waiting_tx_actors puts the first parked message in the  *)
(* TX queue and pops it only afterwards.  The put is a simcall, so other   *)
(* actors may run between the two.  Which ones depends on the TX queue:    *)
(*  - a mailbox (model_pci_commands) delivers through the network model,   *)
(*    once no actor is runnable any more, so the TX actor takes nothing    *)
(*    that the loop has put before the loop ends;                          *)
(*  - a plain queue with a semaphore wakes a waiting TX actor at once.     *)
(* One RX actor gives back the credits of a VN (except with quick ACKs,    *)
(* where the RX actors of all targets do).                                 *)
(***************************************************************************)
EXTENDS Integers, SequencesExt

CONSTANTS
  Message,        \* the messages the TX queue receives
  Dest,           \* [Message -> nodes], target of a message
  Pair,           \* [Message -> process pairs], flowctrl_process_id
  MaxToTarget,    \* S4BXI_MAX_INFLIGHT_TO_TARGET, 0 when off
  MaxToProcess,   \* S4BXI_MAX_INFLIGHT_TO_PROCESS, 0 when off
  Releaser,       \* RX actors that call release_e2e_entry for this VN
  MailboxQueue,   \* the TX queue is a mailbox
  None            \* no message

ASSUME FlowAssumption ==
  /\ MaxToTarget \in Nat /\ MaxToProcess \in Nat /\ MaxToTarget + MaxToProcess > 0
  /\ MailboxQueue \in BOOLEAN
  /\ None \notin Message

Target  == {Dest[m] : m \in Message}
Process == {Pair[m] : m \in Message}

VARIABLES
  issued,           \* messages given to the TX queue by their creators
  txq,              \* tx_queue
  tx,               \* message the TX actor is sending, or None
  waiting,          \* flowctrl_waiting_messages
  nodeCredits,      \* flowctrl_node_counts
  processCredits,   \* flowctrl_process_counts
  inflight,         \* copies of each message sent and not yet answered
  sent,             \* how often each message was sent
  rx                \* per releaser, what its running loop has put in txq;
                    \* the last message is yet to be popped

vars == <<issued, txq, tx, waiting, nodeCredits, processCredits, inflight, sent, rx>>

Init ==
  /\ issued = {}
  /\ txq = <<>>
  /\ tx = None
  /\ waiting = <<>>
  /\ nodeCredits = [n \in Target |-> MaxToTarget]
  /\ processCredits = [q \in Process |-> MaxToProcess]
  /\ inflight = [m \in Message |-> 0]
  /\ sent = [m \in Message |-> 0]
  /\ rx = [a \in Releaser |-> <<>>]

-----------------------------------------------------------------------------
Issue(m) ==
  /\ m \notin issued
  /\ issued' = issued \cup {m}
  /\ txq' = Append(txq, m)
  /\ UNCHANGED <<tx, waiting, nodeCredits, processCredits, inflight, sent, rx>>

\* BxiNode::check_flowctrl
HasCredit(m) ==
  /\ MaxToTarget > 0 => nodeCredits[Dest[m]] > 0
  /\ MaxToProcess > 0 => processCredits[Pair[m]] > 0

\* Mutant: credits move at the node level only.
AddNodeCredit(m, k) ==
  /\ nodeCredits' = IF MaxToTarget > 0 THEN [nodeCredits EXCEPT ![Dest[m]] = @ + k]
                    ELSE nodeCredits
  /\ UNCHANGED processCredits

AddCredit(m, k) ==
  /\ nodeCredits' = IF MaxToTarget > 0 THEN [nodeCredits EXCEPT ![Dest[m]] = @ + k]
                    ELSE nodeCredits
  /\ processCredits' = IF MaxToProcess > 0 THEN [processCredits EXCEPT ![Pair[m]] = @ + k]
                       ELSE processCredits

\* What a running loop has put in a mailbox is not there yet.
Visible(m) ==
  MailboxQueue => \A a \in Releaser : ~Contains(rx[a], m)

\* The next message of the TX queue
TxTake(m) ==
  /\ tx = None
  /\ txq # <<>>
  /\ m = Head(txq)
  /\ Visible(m)
  /\ txq' = Tail(txq)
  /\ UNCHANGED <<issued, inflight, rx>>

TxSend(m) ==
  /\ TxTake(m)
  /\ HasCredit(m)
  /\ AddCredit(m, -1)
  /\ tx' = m
  /\ sent' = [sent EXCEPT ![m] = @ + 1]
  /\ UNCHANGED waiting

\* Mutant: a message without credit is dropped.
Drop(m) == waiting

\* Without credit the message is parked, unless it is parked already.
Park(m) == IF Contains(waiting, m) THEN waiting ELSE Append(waiting, m)

TxPark(m) ==
  /\ TxTake(m)
  /\ ~HasCredit(m)
  /\ waiting' = Park(m)
  /\ UNCHANGED <<tx, nodeCredits, processCredits, sent>>

TxDone ==
  /\ tx # None
  /\ inflight' = [inflight EXCEPT ![tx] = @ + 1]
  /\ tx' = None
  /\ UNCHANGED <<issued, txq, waiting, nodeCredits, processCredits, sent, rx>>

\* Mutant: nothing is resumed.
ResumeNothing(a, w) == rx' = [rx EXCEPT ![a] = <<>>] /\ UNCHANGED txq

\* An iteration of resume_waiting_tx_actors that finds w parked: the first
\* message is put in the TX queue, to be popped in the next step.
Resume(a, w) ==
  IF w = <<>>
  THEN rx' = [rx EXCEPT ![a] = <<>>] /\ UNCHANGED txq
  ELSE rx' = [rx EXCEPT ![a] = Append(@, Head(w))] /\ txq' = Append(txq, Head(w))

\* BxiNode::release_e2e_entry, for the answer of m, up to the first put
Release(a, m) ==
  /\ rx[a] = <<>>
  /\ inflight[m] > 0
  /\ inflight' = [inflight EXCEPT ![m] = @ - 1]
  /\ AddCredit(m, 1)
  /\ Resume(a, waiting)
  /\ UNCHANGED <<issued, tx, waiting, sent>>

\* pop_front and the next iteration; pop_front of an empty queue is undefined
Pop(a) ==
  /\ rx[a] # <<>>
  /\ waiting # <<>>
  /\ waiting' = Tail(waiting)
  /\ Resume(a, Tail(waiting))
  /\ UNCHANGED <<issued, tx, nodeCredits, processCredits, inflight, sent>>

Tx == TxDone \/ \E m \in Message : TxSend(m) \/ TxPark(m)

Next ==
  \/ \E m \in Message : Issue(m)
  \/ Tx
  \/ \E a \in Releaser : Pop(a) \/ \E m \in Message : Release(a, m)

Spec == Init /\ [][Next]_vars

\* SimGrid runs every ready actor, and every message sent is answered
\* (BxiTransport says when that is so).
Fairness ==
  /\ WF_vars(Tx)
  /\ \A a \in Releaser : WF_vars(Pop(a))
  /\ \A m \in Message : WF_vars(\E a \in Releaser : Release(a, m))

FairSpec == Spec /\ Fairness

-----------------------------------------------------------------------------
\* Type correctness; the credits never go below zero (the panics of
\* check_flowctrl).
TypeOK ==
  /\ issued \subseteq Message
  /\ txq \in Seq(Message)
  /\ tx \in Message \cup {None}
  /\ waiting \in Seq(Message)
  /\ nodeCredits \in [Target -> Nat]
  /\ processCredits \in [Process -> Nat]
  /\ inflight \in [Message -> Nat]
  /\ sent \in [Message -> Nat]
  /\ rx \in [Releaser -> Seq(Message)]

\* Messages of a set S that hold a credit: being sent, or not answered.
Outstanding(S) == Cardinality({m \in S : inflight[m] > 0 \/ tx = m})

\* No more than max_inflight_to_target messages are in flight between two
\* nodes, and max_inflight_to_process between two processes, and no count of
\* credits goes below zero (TypeOK).
InflightWithinLimit ==
  /\ TypeOK
  /\ MaxToTarget > 0 =>
       \A n \in Target : Outstanding({m \in Message : Dest[m] = n}) <= MaxToTarget
  /\ MaxToProcess > 0 =>
       \A q \in Process : Outstanding({m \in Message : Pair[m] = q}) <= MaxToProcess

\* A message without credit is not forgotten: until it is sent it is in the
\* TX queue or parked for the actors that give credits back.
NoMessageLost ==
  \A m \in issued : \/ sent[m] > 0
                    \/ Contains(txq, m)
                    \/ Contains(waiting, m)

\* Every message is eventually sent: a parked message is always resumed by a
\* credit that comes back after it was parked.
EventuallySent == \A m \in Message : m \in issued ~> sent[m] = 1
=============================================================================
