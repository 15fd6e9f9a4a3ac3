---------------------------- MODULE BxiTransport ----------------------------
(***************************************************************************)
(* One-sided Portals operations carried by the simulated BXI NICs.         *)
(*                                                                         *)
(* A user process issues PtlPut, PtlGet, PtlAtomic or PtlFetchAtomic.  The *)
(* command goes through the command queue of its NI to the TX actor of the *)
(* NIC (BxiNicInitiator), over the network to the RX actor of the target   *)
(* NIC (BxiNicTarget), which matches it, answers it with a Portals ACK, a  *)
(* response or an end-to-end ACK, and so on back to the initiator.  The    *)
(* E2E actor of each NIC (BxiNicE2E) retransmits what was not answered     *)
(* before its timeout.                                                     *)
(*                                                                         *)
(* SimGrid actors are cooperative: they interleave only at simcalls.  Each *)
(* action below is what one actor does between two points where another    *)
(* actor can see the difference.  A mailbox with a declared receiver       *)
(* delivers in the order of the puts, so every queue is a FIFO sequence.   *)
(* Time is left out: the E2E actor may find the timeout of the head of its *)
(* queue expired at any moment after the message was launched.             *)
(* Flow control is off here (both MAX_INFLIGHT_* are 0, the default); it   *)
(* is the subject of module FlowControl.                                   *)
(***************************************************************************)
EXTENDS Integers, Sequences, FiniteSets

CONSTANTS
  Node,              \* the nodes of the cluster
  Req,               \* the Portals operations (BxiRequest objects)
  Kind,              \* [Req -> RequestTypes]
  Src, Dst,          \* [Req -> Node], initiator and target of an operation
  AckReq,            \* [Req -> AckReqs], ack_req of a Put or an Atomic
  Buffered,          \* [Req -> BOOLEAN], simulated_size <= 64
  ServiceVn,         \* [Req -> BOOLEAN], service_vn of the request
  Outcome,           \* [Req -> what match_entry may find, entries or NoEntry]
  MaxRetries,        \* S4BXI_MAX_RETRIES
  MaxE2EEntries,     \* MAX_E2E_ENTRIES, capacity of e2e_entries
  CQCapacity,        \* CQ_INITIAL_CAPACITY, capacity of a command queue
  QuickAcks,         \* S4BXI_QUICK_ACKS
  E2EOff,            \* nodes with e2e_off, which have no E2E actor
  ModelPciCommands   \* nodes with model_pci_commands: TX queues are mailboxes

RequestTypes  == {"PUT", "GET", "ATOMIC", "FETCH_ATOMIC"}
ResponseTypes == {"PTL_ACK", "GET_RESPONSE", "FETCH_ATOMIC_RESPONSE"}
MsgTypes      == RequestTypes \cup ResponseTypes \cup {"E2E_ACK"}
AckReqs       == {"NO_ACK_REQ", "CT_ACK_REQ", "ACK_REQ"}

\* enum bxi_req_process_state
CREATED  == 0
RECEIVED == 1
ANSWERED == 2
FINISHED == 3

\* A match list entry as far as a request can tell, or NoEntry.
Entries == [list : {"PRIORITY", "OVERFLOW"}, ackDisable : BOOLEAN]
NoEntry == [list |-> "NONE", ackDisable |-> FALSE]

VN   == 0 .. 3               \* enum bxi_vn
Port == Node \X VN           \* one TX and one RX actor per node and VN

ASSUME ConstantsAssumption ==
  /\ Kind \in [Req -> RequestTypes]
  /\ Src \in [Req -> Node] /\ Dst \in [Req -> Node]
  /\ AckReq \in [Req -> AckReqs]
  /\ Buffered \in [Req -> BOOLEAN] /\ ServiceVn \in [Req -> BOOLEAN]
  /\ Outcome \in [Req -> SUBSET (Entries \cup {NoEntry})]
  /\ MaxRetries \in Nat /\ MaxE2EEntries \in Nat /\ CQCapacity \in Nat
  /\ QuickAcks \in BOOLEAN
  /\ E2EOff \subseteq Node /\ ModelPciCommands \subseteq Node

-----------------------------------------------------------------------------
(***************************************************************************)
(* Messages (BxiMsg).  The initiator and the target of a message follow    *)
(* from its type and, for an E2E ACK, from the type of what it answers.    *)
(***************************************************************************)
MsgFields == [type : MsgTypes, req : Req, retry : 0 .. MaxRetries,
              fail : BOOLEAN, answers : MsgTypes \cup {"NONE"}]

PutLike == {"PUT", "ATOMIC"}
GetLike == {"GET", "FETCH_ATOMIC"}

\* A message is of a type that its parent request calls for.
Msg == {m \in MsgFields :
          /\ m.type \in RequestTypes => m.type = Kind[m.req]
          /\ m.type = "PTL_ACK" => Kind[m.req] \in PutLike
          /\ m.type \in ResponseTypes \ {"PTL_ACK"} => Kind[m.req] \in GetLike}

NewMsg(type, r, fail, answers) ==
  [type |-> type, req |-> r, retry |-> 0, fail |-> fail, answers |-> answers]

\* Mutant: the copy counts its retry once more.
CopyMsgTwice(m, retry) ==
  [type |-> m.type, req |-> m.req, retry |-> retry + 1, fail |-> FALSE,
   answers |-> "NONE"]

\* BxiMsg(const BxiMsg&) copies neither ni_fail_type nor answers_msg.
CopyMsg(m, retry) ==
  [type |-> m.type, req |-> m.req, retry |-> retry, fail |-> FALSE, answers |-> "NONE"]

FromInitiator(m) ==
  \/ m.type \in RequestTypes
  \/ m.type = "E2E_ACK" /\ m.answers \in ResponseTypes

\* Mutant: the E2E ACK of a response keeps the target of what it answers.
TargetOfParent(m) == IF m.type \in RequestTypes THEN Dst[m.req] ELSE Src[m.req]

Target(m) == IF FromInitiator(m) THEN Dst[m.req] ELSE Src[m.req]

\* BxiMsg::get_vn
Vn(type, r) == (IF type \in RequestTypes THEN 0 ELSE 2)
                 + (IF ServiceVn[r] THEN 0 ELSE 1)

\* An idle TX actor holds no message.
Idle == [pc |-> "idle"]
Busy == [pc : {"init", "sent"}, msg : Msg]

VARIABLES
  issued,     \* operations the user has issued
  state,      \* process_state of each request, shared by both sides
  cq,         \* free slots of the command queue of the NI on each node
  txq,        \* tx_queue of each port
  tx,         \* what the TX actor of each port is doing
  rxq,        \* nic_rx_mailbox of each port
  e2eq,       \* queue of the E2E actor of each node
  entries,    \* free e2e_entries of each node
  gaveUp,     \* e2e_gave_up of each node
  orphans,    \* retransmissions put in a mailbox that no actor reads
  matched,    \* list of the entry a request matched, "NONE" before
  getIssued,  \* get_event_issued or fetch_atomic_event_issued
  delivered,  \* times the payload was read or written at the target
  sendEv, ackEv, replyEv, targetEv, \* events issued for each request
  told        \* completion the initiator saw first: "none", "ok", "fail"

vars == <<issued, state, cq, txq, tx, rxq, e2eq, entries, gaveUp, orphans,
          matched, getIssued, delivered, sendEv, ackEv, replyEv,
          targetEv, told>>

eventVars == <<sendEv, ackEv, replyEv, targetEv, told, getIssued>>
nicVars   == <<cq, tx, e2eq, gaveUp, orphans, issued>>

Init ==
  /\ issued = {}
  /\ state = [r \in Req |-> CREATED]
  /\ cq = [n \in Node |-> CQCapacity]
  /\ txq = [p \in Port |-> <<>>]
  /\ tx = [p \in Port |-> Idle]
  /\ rxq = [p \in Port |-> <<>>]
  /\ e2eq = [n \in Node |-> <<>>]
  /\ entries = [n \in Node |-> MaxE2EEntries]
  /\ gaveUp = [n \in Node |-> 0]
  /\ orphans = {}
  /\ matched = [r \in Req |-> "NONE"]
  /\ getIssued = [r \in Req |-> FALSE]
  /\ delivered = [r \in Req |-> 0]
  /\ sendEv = [r \in Req |-> 0]
  /\ ackEv = [r \in Req |-> 0]
  /\ replyEv = [r \in Req |-> 0]
  /\ targetEv = [r \in Req |-> 0]
  /\ told = [r \in Req |-> "none"]

-----------------------------------------------------------------------------
(***************************************************************************)
(* Helpers shared by the handlers.                                         *)
(***************************************************************************)
Bump(f, r) == [f EXCEPT ![r] = @ + 1]

\* Mutants: send_event_issued is not tested, or the test is inverted.
IssueSendAlways(r)   == sendEv' = Bump(sendEv, r)
IssueSendInverted(r) == sendEv' = IF sendEv[r] # 0 THEN Bump(sendEv, r) ELSE sendEv

\* BxiPutRequest::maybe_issue_send
MaybeIssueSend(r) == sendEv' = IF sendEv[r] = 0 THEN Bump(sendEv, r) ELSE sendEv

\* The first completion reported to the initiator; later ones do not undo it.
Tell(r, fail) ==
  told' = IF told[r] # "none" THEN told
          ELSE [told EXCEPT ![r] = IF fail THEN "fail" ELSE "ok"]

\* BxiPutRequest::issue_ack: the ACK counter and, with ACK_REQ, the event.
IssueAck(r, fail) == ackEv' = Bump(ackEv, r) /\ Tell(r, fail)

\* BxiNicActor::maybe_issue_get and maybe_issue_fetch_atomic
MaybeIssueGet(r) ==
  IF getIssued[r]
  THEN UNCHANGED <<getIssued, targetEv>>
  ELSE /\ getIssued' = [getIssued EXCEPT ![r] = TRUE]
       /\ targetEv' = IF matched[r] = "PRIORITY" THEN Bump(targetEv, r) ELSE targetEv

\* BxiNode::release_e2e_entry with flow control off
ReleaseE2EEntry(n) == entries' = IF n \in E2EOff THEN entries ELSE Bump(entries, n)

\* RX actors put what they send in the response TX queue of their class.
ReplyPort(p) == <<p[1], IF p[2] \in {0, 2} THEN 2 ELSE 3>>
Reply(p, m) == txq' = [txq EXCEPT ![ReplyPort(p)] = Append(@, m)]

\* BxiNicTarget::send_ack, entered with process_state = s
SendAck(p, m, type, fail, s) ==
  LET r == m.req IN
  IF QuickAcks
  THEN /\ state' = [state EXCEPT ![r] = FINISHED]
       /\ ReleaseE2EEntry(Src[r])
       /\ MaybeIssueSend(r)
       /\ IssueAck(r, fail)
       /\ UNCHANGED txq
  ELSE /\ state' = [state EXCEPT ![r] = s]
       /\ Reply(p, NewMsg(type, r, fail, m.type))
       /\ UNCHANGED <<entries, sendEv, ackEv, told>>

SendNoAck(r, s) ==
  /\ state' = [state EXCEPT ![r] = s]
  /\ UNCHANGED <<txq, entries, sendEv, ackEv, told>>

-----------------------------------------------------------------------------
(***************************************************************************)
(* The user: PtlPut, PtlGet, PtlAtomic, PtlFetchAtomic, PtlSwap.           *)
(***************************************************************************)
\* Mutant: the command does not take a slot of the command queue.
IssueUncounted(r) ==
  /\ r \notin issued
  /\ issued' = issued \cup {r}
  /\ txq' = [txq EXCEPT ![<<Src[r], Vn(Kind[r], r)>>] =
                Append(@, NewMsg(Kind[r], r, FALSE, "NONE"))]
  /\ UNCHANGED <<state, cq, tx, rxq, e2eq, entries, gaveUp, orphans, matched,
                 delivered, eventVars>>

Issue(r) ==
  LET n == Src[r] IN
  /\ r \notin issued
  /\ cq[n] > 0
  /\ issued' = issued \cup {r}
  /\ cq' = [cq EXCEPT ![n] = @ - 1]
  /\ txq' = [txq EXCEPT ![<<n, Vn(Kind[r], r)>>] =
                Append(@, NewMsg(Kind[r], r, FALSE, "NONE"))]
  /\ UNCHANGED <<state, tx, rxq, e2eq, entries, gaveUp, orphans, matched,
                 delivered, eventVars>>

(***************************************************************************)
(* The TX actor of port p (BxiNicInitiator).                               *)
(***************************************************************************)
\* Takes the next command; handle_put and handle_get free a slot of the
\* command queue, for retransmissions too.
TxGet(p) ==
  LET m == Head(txq[p]) IN
  /\ tx[p] = Idle
  /\ txq[p] # <<>>
  /\ txq' = [txq EXCEPT ![p] = Tail(@)]
  /\ tx' = [tx EXCEPT ![p] = [pc |-> "init", msg |-> m]]
  /\ cq' = IF m.type \in RequestTypes THEN Bump(cq, Src[m.req]) ELSE cq
  /\ UNCHANGED <<issued, state, rxq, e2eq, entries, gaveUp, orphans, matched,
                 delivered, eventVars>>

\* BxiNicE2E::process_message: a first transmission waits for an entry.
ProcessMessage(n, m) ==
  IF n \in E2EOff \/ m.type = "E2E_ACK"
  THEN UNCHANGED <<entries, e2eq>>
  ELSE /\ m.retry = 0 => entries[n] > 0
       /\ entries' = IF m.retry = 0 THEN [entries EXCEPT ![n] = @ - 1] ELSE entries
       /\ e2eq' = [e2eq EXCEPT ![n] = Append(@, m)]

\* What a handler still has to do once the communication is started: the SEND
\* event of a buffered Put, and the target's event of a response when there is
\* no E2E ACK to wait for.
SendsEvent(m) == m.type \in RequestTypes \ {"GET"} /\ Buffered[m.req]
GetsEvent(m)  == /\ Dst[m.req] \in E2EOff
                 /\ m.type \in {"GET_RESPONSE", "FETCH_ATOMIC_RESPONSE"}

\* reliable_comm_init and the start of the communication
TxLaunch(p) ==
  LET m == tx[p].msg IN
  /\ tx[p].pc = "init"
  /\ ProcessMessage(p[1], m)
  /\ rxq' = [rxq EXCEPT ![<<Target(m), p[2]>>] = Append(@, m)]
  /\ tx' = [tx EXCEPT ![p] = IF SendsEvent(m) \/ GetsEvent(m)
                               THEN [pc |-> "sent", msg |-> m] ELSE Idle]
  /\ UNCHANGED <<issued, state, cq, txq, gaveUp, orphans, matched,
                 delivered, eventVars>>

\* The end of handle_put, handle_get_response and handle_fetch_atomic_response
TxDone(p) ==
  LET m == tx[p].msg IN
  /\ tx[p].pc = "sent"
  /\ tx' = [tx EXCEPT ![p] = Idle]
  /\ IF SendsEvent(m) THEN MaybeIssueSend(m.req) ELSE UNCHANGED sendEv
  /\ IF GetsEvent(m) THEN MaybeIssueGet(m.req) ELSE UNCHANGED <<getIssued, targetEv>>
  /\ UNCHANGED <<issued, state, cq, txq, rxq, e2eq, entries, gaveUp, orphans,
                 matched, delivered, ackEv, replyEv, told>>

(***************************************************************************)
(* The E2E actor of node n (BxiNicE2E::operator()).                        *)
(***************************************************************************)
Acknowledged(m) == state[m.req] >= (IF m.type = "PTL_ACK" THEN FINISHED ELSE ANSWERED)

E2EPop(n) ==
  /\ e2eq[n] # <<>>
  /\ e2eq' = [e2eq EXCEPT ![n] = Tail(@)]
  /\ UNCHANGED <<issued, state, cq, tx, rxq, entries, matched,
                 delivered, eventVars>>

E2EDrop(n) ==
  /\ E2EPop(n)
  /\ Acknowledged(Head(e2eq[n]))
  /\ UNCHANGED <<txq, gaveUp, orphans>>

E2EGiveUp(n) ==
  /\ E2EPop(n)
  /\ ~Acknowledged(Head(e2eq[n]))
  /\ Head(e2eq[n]).retry = MaxRetries
  /\ gaveUp' = Bump(gaveUp, n)
  /\ UNCHANGED <<txq, orphans>>

\* The copy goes to the mailbox named after the TX actor.  That mailbox is
\* the TX queue only when PCI commands are modelled.
E2ERetransmit(n) ==
  LET m    == Head(e2eq[n])
      copy == CopyMsg(m, m.retry + 1)
  IN
  /\ E2EPop(n)
  /\ ~Acknowledged(m)
  /\ m.retry < MaxRetries
  /\ IF n \in ModelPciCommands
     THEN /\ txq' = [txq EXCEPT ![<<n, Vn(m.type, m.req)>>] = Append(@, copy)]
          /\ UNCHANGED orphans
     ELSE orphans' = orphans \cup {copy} /\ UNCHANGED txq
  /\ UNCHANGED gaveUp

(***************************************************************************)
(* The RX actor of port p (BxiNicTarget).                                  *)
(***************************************************************************)
RxGet(p, types) ==
  /\ rxq[p] # <<>>
  /\ Head(rxq[p]).type \in types
  /\ rxq' = [rxq EXCEPT ![p] = Tail(@)]
  /\ UNCHANGED nicVars

\* The early return of the four request handlers
RxDuplicate(p) ==
  /\ RxGet(p, RequestTypes)
  /\ state[Head(rxq[p]).req] > CREATED
  /\ UNCHANGED <<state, txq, entries, matched, delivered, eventVars>>

\* Mutant: no duplicate check.
RxFirstUnchecked(p, types) ==
  /\ RxGet(p, types)

RxFirst(p, types) ==
  /\ RxGet(p, types)
  /\ state[Head(rxq[p]).req] = CREATED

\* The payload moves, once for a match.
Deliver(r, e) ==
  /\ matched' = [matched EXCEPT ![r] = e.list]
  /\ delivered' = Bump(delivered, r)

\* handle_put_request and handle_atomic_request, match found
RxPutMatched(p, e) ==
  LET m   == Head(rxq[p])
      r   == m.req
      ptl == ~e.ackDisable /\ AckReq[r] # "NO_ACK_REQ"
  IN
  /\ RxFirst(p, PutLike)
  /\ Deliver(r, e)
  /\ targetEv' = IF e.list = "PRIORITY" THEN Bump(targetEv, r) ELSE targetEv
  /\ IF ptl \/ Src[r] \notin E2EOff
     THEN SendAck(p, m, IF ptl THEN "PTL_ACK" ELSE "E2E_ACK", FALSE, RECEIVED)
     ELSE SendNoAck(r, RECEIVED)
  /\ UNCHANGED <<replyEv, getIssued>>

\* handle_put_request and handle_atomic_request, nothing matches: only a Put
\* that asked for an ACK is answered.
RxPutUnmatched(p) ==
  LET m == Head(rxq[p])
      r == m.req
  IN
  /\ RxFirst(p, PutLike)
  /\ IF m.type = "PUT" /\ AckReq[r] # "NO_ACK_REQ"
     THEN SendAck(p, m, "PTL_ACK", TRUE, CREATED)
     ELSE SendNoAck(r, CREATED)
  /\ UNCHANGED <<matched, delivered, targetEv, replyEv, getIssued>>

ResponseType(type) == IF type = "GET" THEN "GET_RESPONSE" ELSE "FETCH_ATOMIC_RESPONSE"

\* Mutant: the response is prepared and not put in the TX queue.
RxGetMatchedSilent(p, e) ==
  LET r == Head(rxq[p]).req IN
  /\ RxFirst(p, GetLike)
  /\ Deliver(r, e)
  /\ state' = [state EXCEPT ![r] = RECEIVED]
  /\ UNCHANGED <<txq, entries, eventVars>>

\* handle_get_request and handle_fetch_atomic_request, match found
RxGetMatched(p, e) ==
  LET m == Head(rxq[p])
      r == m.req
  IN
  /\ RxFirst(p, GetLike)
  /\ Deliver(r, e)
  /\ state' = [state EXCEPT ![r] = RECEIVED]
  /\ Reply(p, NewMsg(ResponseType(m.type), r, FALSE, "NONE"))
  /\ UNCHANGED <<entries, eventVars>>

\* handle_get_request and handle_fetch_atomic_request, nothing matches
RxGetUnmatched(p) ==
  LET m == Head(rxq[p]) IN
  /\ RxFirst(p, GetLike)
  /\ Reply(p, NewMsg(ResponseType(m.type), m.req, TRUE, "NONE"))
  /\ UNCHANGED <<state, matched, delivered, entries, eventVars>>

\* handle_response: the entry is released before the duplicate check.
RxResponse(p) ==
  LET m == Head(rxq[p])
      r == m.req
  IN
  /\ RxGet(p, {"GET_RESPONSE", "FETCH_ATOMIC_RESPONSE"})
  /\ ReleaseE2EEntry(p[1])
  /\ IF state[r] > RECEIVED
     THEN UNCHANGED <<state, txq, replyEv, told>>
     ELSE /\ state' = [state EXCEPT ![r] = ANSWERED]
          /\ IF Src[r] \in E2EOff THEN UNCHANGED txq
             ELSE Reply(p, NewMsg("E2E_ACK", r, FALSE, m.type))
          /\ replyEv' = Bump(replyEv, r)
          /\ Tell(r, m.fail)
  /\ UNCHANGED <<matched, delivered, sendEv, ackEv, targetEv, getIssued>>

\* handle_ptl_ack: released and answered before the duplicate check.
RxPtlAck(p) ==
  LET m == Head(rxq[p])
      r == m.req
  IN
  /\ RxGet(p, {"PTL_ACK"})
  /\ ReleaseE2EEntry(p[1])
  /\ IF Src[r] \in E2EOff THEN UNCHANGED txq
     ELSE Reply(p, NewMsg("E2E_ACK", r, FALSE, m.type))
  /\ IF state[r] <= RECEIVED
     THEN /\ state' = [state EXCEPT ![r] = ANSWERED]
          /\ MaybeIssueSend(r)
          /\ IssueAck(r, m.fail)
     ELSE UNCHANGED <<state, sendEv, ackEv, told>>
  /\ UNCHANGED <<matched, delivered, replyEv, targetEv, getIssued>>

\* Mutant: an answered request is taken for a finished one.
RxE2EAckEarly(p) ==
  LET r == Head(rxq[p]).req IN
  /\ RxGet(p, {"E2E_ACK"})
  /\ IF state[r] >= ANSWERED
     THEN UNCHANGED <<state, entries>>
     ELSE state' = [state EXCEPT ![r] = FINISHED] /\ ReleaseE2EEntry(p[1])
  /\ UNCHANGED <<txq, matched, delivered, eventVars>>

\* handle_bxi_ack: nothing is left to do for a finished request.
RxE2EAck(p) ==
  LET r == Head(rxq[p]).req IN
  /\ RxGet(p, {"E2E_ACK"})
  /\ IF state[r] >= FINISHED
     THEN UNCHANGED <<state, entries, sendEv, getIssued, targetEv>>
     ELSE /\ state' = [state EXCEPT ![r] = FINISHED]
          /\ ReleaseE2EEntry(p[1])
          /\ IF Kind[r] \in PutLike /\ AckReq[r] = "NO_ACK_REQ"
             THEN MaybeIssueSend(r)
             ELSE UNCHANGED sendEv
          /\ IF Kind[r] \in GetLike
             THEN MaybeIssueGet(r)
             ELSE UNCHANGED <<getIssued, targetEv>>
  /\ UNCHANGED <<txq, matched, delivered, ackEv, replyEv, told>>

-----------------------------------------------------------------------------
Tx(p)  == TxGet(p) \/ TxLaunch(p) \/ TxDone(p)
E2E(n) == E2EDrop(n) \/ E2EGiveUp(n) \/ E2ERetransmit(n)

\* What match_entry may find for the message at the head of the mailbox
Matching(p) == IF rxq[p] = <<>> THEN {} ELSE Outcome[Head(rxq[p]).req]

RxMatched(p) ==
  \E e \in Matching(p) \cap Entries : RxPutMatched(p, e) \/ RxGetMatched(p, e)

RxUnmatched(p) == NoEntry \in Matching(p) /\ (RxPutUnmatched(p) \/ RxGetUnmatched(p))

Rx(p) == \/ RxDuplicate(p) \/ RxMatched(p) \/ RxUnmatched(p)
         \/ RxResponse(p) \/ RxPtlAck(p) \/ RxE2EAck(p)

Next ==
  \/ \E r \in Req : Issue(r)
  \/ \E p \in Port : Tx(p) \/ Rx(p)
  \/ \E n \in Node : E2E(n)

Spec == Init /\ [][Next]_vars

\* SimGrid runs every actor that is ready, and a timeout always expires.
\* Nothing obliges the user to issue an operation.
Fairness ==
  /\ \A p \in Port : WF_vars(Tx(p)) /\ WF_vars(Rx(p))
  /\ \A n \in Node : WF_vars(E2E(n))

FairSpec == Spec /\ Fairness

-----------------------------------------------------------------------------
(***************************************************************************)
(* Properties.                                                             *)
(***************************************************************************)
\* Type correctness of every variable of the transport.
TypeOK ==
  /\ issued \subseteq Req
  /\ state \in [Req -> CREATED .. FINISHED]
  /\ cq \in [Node -> Nat]
  /\ txq \in [Port -> Seq(Msg)]
  /\ tx \in [Port -> {Idle} \cup Busy]
  /\ rxq \in [Port -> Seq(Msg)]
  /\ e2eq \in [Node -> Seq(Msg)]
  /\ entries \in [Node -> Nat]
  /\ gaveUp \in [Node -> Nat]
  /\ orphans \subseteq Msg
  /\ matched \in [Req -> {"NONE", "PRIORITY", "OVERFLOW"}]
  /\ getIssued \in [Req -> BOOLEAN]
  /\ delivered \in [Req -> Nat]
  /\ sendEv \in [Req -> Nat]
  /\ ackEv \in [Req -> Nat]
  /\ replyEv \in [Req -> Nat]
  /\ targetEv \in [Req -> Nat]
  /\ told \in [Req -> {"none", "ok", "fail"}]

\* However often a request is retransmitted, its payload moves at most once
\* (the process_state checks of the four request handlers).
DeliveredAtMostOnce == \A r \in Req : delivered[r] <= 1

\* However often requests, ACKs and responses are duplicated, the user sees
\* each event of an operation at most once, and one kind of completion.
EventsAtMostOnce ==
  \A r \in Req : /\ sendEv[r] <= 1
                 /\ targetEv[r] <= 1
                 /\ ackEv[r] + replyEv[r] <= 1

\* The transport implements what Portals operations promise to their users.
Operation == INSTANCE PtlOperation WITH effect <- delivered
ImplementsOperation == Operation!Spec

\* No entry is given back that was not taken: process_message takes one per
\* new message and release_e2e_entry must return it once.
EntriesWithinPool == \A n \in Node : entries[n] <= MaxE2EEntries

\* BxiNI::fini takes all the slots of the command queue to be sure that the
\* NIC has accepted every command: none is waiting once all slots are free.
FiniWaitsForCommands ==
  \A n \in Node : cq[n] >= CQCapacity =>
     \A p \in Port : \A i \in 1 .. Len(txq[p]) :
        LET m == txq[p][i] IN
        Src[m.req] = n => m.retry > 0 \/ m.type \notin RequestTypes

\* When a Put or an Atomic is finished its SEND event has been issued, by
\* the TX actor, with the Portals ACK or with the E2E ACK.
FinishedImpliesSent ==
  \A r \in Req : Kind[r] \in PutLike /\ state[r] = FINISHED => sendEv[r] = 1

\* Nothing is queued, in flight or being handled anywhere.
Quiescent ==
  /\ \A p \in Port : txq[p] = <<>> /\ rxq[p] = <<>> /\ tx[p] = Idle
  /\ \A n \in Node : e2eq[n] = <<>>

\* Whatever was taken is given back: when all traffic has drained, the pools
\* of E2E entries and the command queues are full again.
DrainedPoolsAreFull ==
  Quiescent => \A n \in Node : entries[n] = MaxE2EEntries /\ cq[n] = CQCapacity

\* An operation that asked for a completion.
Answerable(r) == Kind[r] \in GetLike \/ AckReq[r] # "NO_ACK_REQ"

\* The initiator of every operation that asks for a completion eventually
\* sees it, even if nothing retransmits (e2e_off).
EventuallyTold ==
  \A r \in Req : Answerable(r) => (r \in issued ~> told[r] # "none")

\* Every operation issued on a node with E2E is eventually finished: some E2E ACK tells
\* the last E2E actor that waits for it to forget it.
EventuallyFinished ==
  \A r \in Req : Src[r] \notin E2EOff => (r \in issued ~> state[r] = FINISHED)
=============================================================================
