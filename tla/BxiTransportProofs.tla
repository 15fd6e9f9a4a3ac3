------------------------- MODULE BxiTransportProofs -------------------------
(***************************************************************************)
(* Proofs about BxiTransport for every set of nodes and operations, every  *)
(* retry limit, every pool size and every setting of the options.          *)
(***************************************************************************)
EXTENDS BxiTransport, FiniteSetTheorems, TLAPS

USE ConstantsAssumption

-----------------------------------------------------------------------------
\* Ports are pairs of a node and a VN (TX and RX actors of BxiNicActor).
LEMMA PortParts ==
  ASSUME NEW p \in Port
  PROVE  p[1] \in Node /\ p[2] \in VN /\ ReplyPort(p) \in Port
  BY DEF Port, VN, ReplyPort

\* BxiMsg::get_vn returns a VN, so every message has a port to leave from.
LEMMA VnType ==
  ASSUME NEW r \in Req, NEW type
  PROVE  Vn(type, r) \in VN
  BY DEF Vn, VN

\* A message has a target node.
LEMMA TargetType ==
  ASSUME NEW m \in Msg
  PROVE  Target(m) \in Node
  BY DEF Target, Msg, MsgFields

\* The fields of a message.
LEMMA MsgParts ==
  ASSUME NEW m \in Msg
  PROVE  /\ m.type \in MsgTypes
         /\ m.req \in Req
         /\ m.retry \in 0 .. MaxRetries
         /\ m.fail \in BOOLEAN
         /\ m.answers \in MsgTypes \cup {"NONE"}
         /\ m.type \in RequestTypes => m.type = Kind[m.req]
         /\ m.type = "PTL_ACK" => Kind[m.req] \in PutLike
         /\ m.type \in ResponseTypes \ {"PTL_ACK"} => Kind[m.req] \in GetLike
  BY DEF Msg, MsgFields

\* A new message is well formed if its type suits its request.
LEMMA NewMsgType ==
  ASSUME NEW r \in Req, NEW type \in MsgTypes, NEW fail \in BOOLEAN,
         NEW answers \in MsgTypes \cup {"NONE"},
         type \in RequestTypes => type = Kind[r],
         type = "PTL_ACK" => Kind[r] \in PutLike,
         type \in ResponseTypes \ {"PTL_ACK"} => Kind[r] \in GetLike
  PROVE  NewMsg(type, r, fail, answers) \in Msg
  BY DEF NewMsg, Msg, MsgFields

\* The copy that the E2E actor retransmits is well formed.
LEMMA CopyMsgType ==
  ASSUME NEW m \in Msg, m.retry < MaxRetries
  PROVE  CopyMsg(m, m.retry + 1) \in Msg
  <1>1. m.retry + 1 \in 0 .. MaxRetries
    BY MsgParts
  <1> QED
    BY <1>1, MsgParts DEF CopyMsg, Msg, MsgFields

\* The counters are functions to the natural numbers; Bump adds one at a point.
LEMMA BumpType ==
  ASSUME NEW S, NEW f \in [S -> Nat], NEW x \in S
  PROVE  /\ Bump(f, x) \in [S -> Nat]
         /\ Bump(f, x)[x] = f[x] + 1
         /\ \A y \in S : y # x => Bump(f, x)[y] = f[y]
  BY DEF Bump

\* Queues are popped at the head and extended at the tail.
LEMMA PopType ==
  ASSUME NEW q \in Seq(Msg), q # <<>>
  PROVE  Head(q) \in Msg /\ Tail(q) \in Seq(Msg)
  OBVIOUS

\* A message may be appended to any queue.
LEMMA PushType ==
  ASSUME NEW q \in Seq(Msg), NEW m \in Msg
  PROVE  Append(q, m) \in Seq(Msg)
  OBVIOUS

-----------------------------------------------------------------------------
(***************************************************************************)
(* Type correctness, action by action.                                     *)
(***************************************************************************)
\* The Ptl calls of the user (PtlPut ... PtlSwap) keep the types.
LEMMA IssueType ==
  ASSUME TypeOK, NEW r \in Req, Issue(r)
  PROVE  TypeOK'
  <1>1. Src[r] \in Node /\ <<Src[r], Vn(Kind[r], r)>> \in Port
    BY VnType DEF Port
  <1>2. NewMsg(Kind[r], r, FALSE, "NONE") \in Msg
    BY NewMsgType DEF MsgTypes, ResponseTypes, RequestTypes
  <1>3. txq' \in [Port -> Seq(Msg)]
    BY <1>1, <1>2, PushType DEF TypeOK, Issue
  <1>4. cq' \in [Node -> Nat]
    <2>1. cq \in [Node -> Nat] /\ cq[Src[r]] > 0 /\ cq' = [cq EXCEPT ![Src[r]] = @ - 1]
      BY DEF TypeOK, Issue
    <2>2. cq[Src[r]] - 1 \in Nat
      BY <1>1, <2>1
    <2> QED
      BY <1>1, <2>1, <2>2
  <1>5. issued' \subseteq Req
    BY DEF TypeOK, Issue
  <1> QED
    BY <1>3, <1>4, <1>5 DEF TypeOK, Issue, eventVars

\* Taking a command from the TX queue keeps the types.
LEMMA TxGetType ==
  ASSUME TypeOK, NEW p \in Port, TxGet(p)
  PROVE  TypeOK'
  <1> DEFINE m == Head(txq[p])
  <1>1. m \in Msg /\ Tail(txq[p]) \in Seq(Msg)
    BY PopType DEF TypeOK, TxGet
  <1>2. txq' \in [Port -> Seq(Msg)]
    BY <1>1 DEF TypeOK, TxGet
  <1>3. tx' \in [Port -> {Idle} \cup Busy]
    BY <1>1 DEF TypeOK, TxGet, Busy
  <1>4. cq' \in [Node -> Nat]
    <2>1. cq \in [Node -> Nat] /\ Src[m.req] \in Node
      BY <1>1, MsgParts DEF TypeOK
    <2>2. cq' = cq \/ cq' = Bump(cq, Src[m.req])
      BY DEF TxGet
    <2>3. Bump(cq, Src[m.req]) \in [Node -> Nat]
      BY <2>1, BumpType
    <2> QED
      BY <2>1, <2>2, <2>3
  <1> QED
    BY <1>2, <1>3, <1>4 DEF TypeOK, TxGet, eventVars

\* A busy TX actor holds a message.
LEMMA TxMsg ==
  ASSUME TypeOK, NEW p \in Port, tx[p].pc # "idle"
  PROVE  tx[p].msg \in Msg
  BY DEF TypeOK, Busy, Idle

\* reliable_comm_init keeps the types: a message it queues for E2E and
\* for the target is the one the TX actor holds.
LEMMA TxLaunchType ==
  ASSUME TypeOK, NEW p \in Port, TxLaunch(p)
  PROVE  TypeOK'
  <1> DEFINE m == tx[p].msg
  <1>1. m \in Msg
    BY TxMsg DEF TxLaunch
  <1>2. <<Target(m), p[2]>> \in Port /\ p[1] \in Node
    BY <1>1, TargetType, PortParts DEF Port
  <1>3. rxq' \in [Port -> Seq(Msg)]
    BY <1>1, <1>2, PushType DEF TypeOK, TxLaunch
  <1>4. tx' \in [Port -> {Idle} \cup Busy]
    BY <1>1 DEF TypeOK, TxLaunch, Busy
  <1>5. entries' \in [Node -> Nat]
    <2>1. CASE entries' = entries
      BY <2>1 DEF TypeOK
    <2>2. CASE entries[p[1]] > 0 /\ entries' = [entries EXCEPT ![p[1]] = @ - 1]
      <3>1. entries[p[1]] - 1 \in Nat
        BY <1>2, <2>2 DEF TypeOK
      <3> QED
        BY <1>2, <2>2, <3>1 DEF TypeOK
    <2> QED
      BY <2>1, <2>2 DEF TxLaunch, ProcessMessage
  <1>6. e2eq' \in [Node -> Seq(Msg)]
    <2>1. e2eq \in [Node -> Seq(Msg)] /\ e2eq[p[1]] \in Seq(Msg)
      BY <1>2 DEF TypeOK
    <2>2. Append(e2eq[p[1]], m) \in Seq(Msg)
      BY <1>1, <2>1, PushType
    <2>3. e2eq' = e2eq \/ e2eq' = [e2eq EXCEPT ![p[1]] = Append(e2eq[p[1]], m)]
      BY DEF TxLaunch, ProcessMessage
    <2> QED
      BY <2>1, <2>2, <2>3
  <1> QED
    BY <1>3, <1>4, <1>5, <1>6 DEF TypeOK, TxLaunch, eventVars

\* The end of a TX handler keeps the types.
LEMMA TxDoneType ==
  ASSUME TypeOK, NEW p \in Port, TxDone(p)
  PROVE  TypeOK'
  <1> DEFINE m == tx[p].msg
  <1>1. m \in Msg /\ m.req \in Req
    BY TxMsg, MsgParts DEF TxDone
  <1>2. tx' \in [Port -> {Idle} \cup Busy]
    BY DEF TypeOK, TxDone
  <1>3. sendEv' \in [Req -> Nat]
    <2>1. sendEv \in [Req -> Nat]
      BY DEF TypeOK
    <2>2. sendEv' = sendEv \/ sendEv' = Bump(sendEv, m.req)
      BY DEF TxDone, MaybeIssueSend
    <2> QED
      BY <1>1, <2>1, <2>2, BumpType
  <1>4. targetEv' \in [Req -> Nat]
    <2>1. targetEv \in [Req -> Nat]
      BY DEF TypeOK
    <2>2. targetEv' = targetEv \/ targetEv' = Bump(targetEv, m.req)
      BY DEF TxDone, MaybeIssueGet
    <2> QED
      BY <1>1, <2>1, <2>2, BumpType
  <1>5. getIssued' \in [Req -> BOOLEAN]
    BY <1>1 DEF TypeOK, TxDone, MaybeIssueGet
  <1> QED
    BY <1>2, <1>3, <1>4, <1>5 DEF TypeOK, TxDone

\* Whatever the E2E actor does with the head of its queue keeps the types;
\* a retry stays within MaxRetries.
LEMMA E2EType ==
  ASSUME TypeOK, NEW n \in Node, E2E(n)
  PROVE  TypeOK'
  <1> DEFINE m == Head(e2eq[n])
  <1>1. E2EPop(n)
    BY DEF E2E, E2EDrop, E2EGiveUp, E2ERetransmit
  <1>2. m \in Msg /\ Tail(e2eq[n]) \in Seq(Msg)
    BY <1>1, PopType DEF TypeOK, E2EPop
  <1>3. e2eq' \in [Node -> Seq(Msg)]
    BY <1>1, <1>2 DEF TypeOK, E2EPop
  <1>4. gaveUp' \in [Node -> Nat]
    <2>1. gaveUp \in [Node -> Nat]
      BY DEF TypeOK
    <2>2. gaveUp' = gaveUp \/ gaveUp' = Bump(gaveUp, n)
      BY DEF E2E, E2EDrop, E2EGiveUp, E2ERetransmit
    <2> QED
      BY <2>1, <2>2, BumpType
  <1>5. txq' \in [Port -> Seq(Msg)] /\ orphans' \subseteq Msg
    <2>1. CASE UNCHANGED <<txq, orphans>>
      BY <2>1 DEF TypeOK
    <2>2. CASE E2ERetransmit(n)
      <3>1. CopyMsg(m, m.retry + 1) \in Msg
        BY <1>2, <2>2, CopyMsgType DEF E2ERetransmit
      <3>2. <<n, Vn(m.type, m.req)>> \in Port
        BY <1>2, MsgParts, VnType DEF Port
      <3>3. txq \in [Port -> Seq(Msg)] /\ orphans \subseteq Msg
        BY DEF TypeOK
      <3>4. \/ /\ txq' = [txq EXCEPT ![<<n, Vn(m.type, m.req)>>] =
                             Append(@, CopyMsg(m, m.retry + 1))]
               /\ orphans' = orphans
            \/ orphans' = orphans \cup {CopyMsg(m, m.retry + 1)} /\ txq' = txq
        BY <2>2 DEF E2ERetransmit
      <3>5. Append(txq[<<n, Vn(m.type, m.req)>>], CopyMsg(m, m.retry + 1)) \in Seq(Msg)
        BY <3>1, <3>2, <3>3, PushType
      <3> HIDE DEF m
      <3> QED
        BY <3>1, <3>2, <3>3, <3>4, <3>5
    <2> QED
      BY <2>1, <2>2 DEF E2E, E2EDrop, E2EGiveUp
  <1> QED
    BY <1>1, <1>3, <1>4, <1>5 DEF TypeOK, E2EPop, eventVars

-----------------------------------------------------------------------------
(***************************************************************************)
(* What the helpers of the RX actors do to the types.                      *)
(***************************************************************************)
\* Putting a message in the response queue keeps the type of the queues.
LEMMA ReplyType ==
  ASSUME TypeOK, NEW p \in Port, NEW m \in Msg, Reply(p, m)
  PROVE  txq' \in [Port -> Seq(Msg)]
  <1>1. ReplyPort(p) \in Port /\ txq \in [Port -> Seq(Msg)]
    BY PortParts DEF TypeOK
  <1>2. Append(txq[ReplyPort(p)], m) \in Seq(Msg)
    BY <1>1, PushType
  <1> QED
    BY <1>1, <1>2 DEF Reply

\* release_e2e_entry keeps the pools natural.
LEMMA ReleaseType ==
  ASSUME TypeOK, NEW n \in Node, ReleaseE2EEntry(n)
  PROVE  entries' \in [Node -> Nat]
  <1>1. entries \in [Node -> Nat]
    BY DEF TypeOK
  <1>2. entries' = entries \/ entries' = Bump(entries, n)
    BY DEF ReleaseE2EEntry
  <1> QED
    BY <1>1, <1>2, BumpType

\* maybe_issue_send keeps the type of the SEND counters.
LEMMA SendType ==
  ASSUME TypeOK, NEW r \in Req, MaybeIssueSend(r)
  PROVE  sendEv' \in [Req -> Nat]
  <1>1. sendEv \in [Req -> Nat]
    BY DEF TypeOK
  <1>2. sendEv' = sendEv \/ sendEv' = Bump(sendEv, r)
    BY DEF MaybeIssueSend
  <1> QED
    BY <1>1, <1>2, BumpType

\* A completion is one of those the model knows.
LEMMA TellType ==
  ASSUME TypeOK, NEW r \in Req, NEW fail \in BOOLEAN, Tell(r, fail)
  PROVE  told' \in [Req -> {"none", "ok", "fail"}]
  BY DEF TypeOK, Tell

\* issue_ack keeps the types of the ACK counters and completions.
LEMMA AckType ==
  ASSUME TypeOK, NEW r \in Req, NEW fail \in BOOLEAN, IssueAck(r, fail)
  PROVE  ackEv' \in [Req -> Nat] /\ told' \in [Req -> {"none", "ok", "fail"}]
  <1>1. ackEv \in [Req -> Nat]
    BY DEF TypeOK
  <1>2. ackEv' = Bump(ackEv, r) /\ Tell(r, fail)
    BY DEF IssueAck
  <1> QED
    BY <1>1, <1>2, BumpType, TellType

\* maybe_issue_get keeps the types of its flag and counter.
LEMMA GetEventType ==
  ASSUME TypeOK, NEW r \in Req, MaybeIssueGet(r)
  PROVE  getIssued' \in [Req -> BOOLEAN] /\ targetEv' \in [Req -> Nat]
  <1>1. getIssued' \in [Req -> BOOLEAN]
    BY DEF TypeOK, MaybeIssueGet
  <1>2. targetEv \in [Req -> Nat]
    BY DEF TypeOK
  <1>3. targetEv' = targetEv \/ targetEv' = Bump(targetEv, r)
    BY DEF MaybeIssueGet
  <1> QED
    BY <1>1, <1>2, <1>3, BumpType

\* send_ack keeps the types, whether it acknowledges by message or at once.
LEMMA SendAckType ==
  ASSUME TypeOK, NEW p \in Port, NEW m \in Msg, Kind[m.req] \in PutLike,
         NEW type \in {"PTL_ACK", "E2E_ACK"}, NEW fail \in BOOLEAN,
         NEW s \in CREATED .. FINISHED,
         SendAck(p, m, type, fail, s)
  PROVE  /\ state' \in [Req -> CREATED .. FINISHED]
         /\ txq' \in [Port -> Seq(Msg)]
         /\ entries' \in [Node -> Nat]
         /\ sendEv' \in [Req -> Nat]
         /\ ackEv' \in [Req -> Nat]
         /\ told' \in [Req -> {"none", "ok", "fail"}]
  <1>1. m.req \in Req /\ Src[m.req] \in Node /\ m.type \in MsgTypes
    BY MsgParts
  <1>2. state' \in [Req -> CREATED .. FINISHED]
    <2>1. \E t \in CREATED .. FINISHED : state' = [state EXCEPT ![m.req] = t]
      BY DEF SendAck, CREATED, FINISHED
    <2> QED
      BY <1>1, <2>1 DEF TypeOK
  <1>3. CASE QuickAcks
    <2>1. /\ ReleaseE2EEntry(Src[m.req]) /\ MaybeIssueSend(m.req)
          /\ IssueAck(m.req, fail) /\ txq' = txq
      BY <1>3 DEF SendAck
    <2>2. txq' \in [Port -> Seq(Msg)]
      BY <2>1 DEF TypeOK
    <2> QED
      BY <1>1, <1>2, <2>1, <2>2, ReleaseType, SendType, AckType
  <1>4. CASE ~QuickAcks
    <2>1. NewMsg(type, m.req, fail, m.type) \in Msg
      BY <1>1, NewMsgType DEF MsgTypes, ResponseTypes, RequestTypes
    <2>2. /\ Reply(p, NewMsg(type, m.req, fail, m.type))
          /\ UNCHANGED <<entries, sendEv, ackEv, told>>
      BY <1>4 DEF SendAck
    <2>3. txq' \in [Port -> Seq(Msg)]
      BY <2>1, <2>2, ReplyType
    <2> QED
      BY <1>2, <2>2, <2>3 DEF TypeOK
  <1> QED
    BY <1>3, <1>4

\* A message taken by an RX actor.
LEMMA RxGetType ==
  ASSUME TypeOK, NEW p \in Port, NEW types, RxGet(p, types)
  PROVE  /\ Head(rxq[p]) \in Msg /\ Head(rxq[p]).type \in types
         /\ rxq' \in [Port -> Seq(Msg)]
  <1>1. Head(rxq[p]) \in Msg /\ Tail(rxq[p]) \in Seq(Msg)
    BY PopType DEF TypeOK, RxGet
  <1> QED
    BY <1>1 DEF TypeOK, RxGet

-----------------------------------------------------------------------------
(***************************************************************************)
(* Type correctness of the RX handlers.                                    *)
(***************************************************************************)
\* The early return of the request handlers keeps the types.
LEMMA RxDuplicateType ==
  ASSUME TypeOK, NEW p \in Port, RxDuplicate(p)
  PROVE  TypeOK'
  <1>1. rxq' \in [Port -> Seq(Msg)]
    BY RxGetType DEF RxDuplicate
  <1> QED
    BY <1>1 DEF TypeOK, RxDuplicate, RxGet, nicVars, eventVars

\* A request that goes past the duplicate check.
LEMMA RxFirstType ==
  ASSUME TypeOK, NEW p \in Port, NEW types \in SUBSET RequestTypes, RxFirst(p, types)
  PROVE  /\ Head(rxq[p]) \in Msg /\ Head(rxq[p]).req \in Req
         /\ Head(rxq[p]).type \in types
         /\ Kind[Head(rxq[p]).req] = Head(rxq[p]).type
         /\ rxq' \in [Port -> Seq(Msg)]
         /\ UNCHANGED nicVars
  <1> DEFINE m == Head(rxq[p])
  <1>1. RxGet(p, types)
    BY DEF RxFirst
  <1>2. m \in Msg /\ m.type \in types /\ rxq' \in [Port -> Seq(Msg)]
    BY <1>1, RxGetType
  <1>3. m.req \in Req /\ Kind[m.req] = m.type
    BY <1>2, MsgParts
  <1> QED
    BY <1>1, <1>2, <1>3 DEF RxGet

\* Moving a payload keeps the types.
LEMMA DeliverType ==
  ASSUME TypeOK, NEW r \in Req, NEW e \in Entries, Deliver(r, e)
  PROVE  /\ matched' \in [Req -> {"NONE", "PRIORITY", "OVERFLOW"}]
         /\ delivered' \in [Req -> Nat]
  <1>1. matched' \in [Req -> {"NONE", "PRIORITY", "OVERFLOW"}]
    BY DEF TypeOK, Deliver, Entries
  <1>2. delivered \in [Req -> Nat] /\ delivered' = Bump(delivered, r)
    BY DEF TypeOK, Deliver
  <1> QED
    BY <1>1, <1>2, BumpType

\* handle_put_request and handle_atomic_request with an entry keep the types.
LEMMA RxPutMatchedType ==
  ASSUME TypeOK, NEW p \in Port, NEW e \in Entries, RxPutMatched(p, e)
  PROVE  TypeOK'
  <1> DEFINE m == Head(rxq[p])
             ptl == ~e.ackDisable /\ AckReq[m.req] # "NO_ACK_REQ"
             type == IF ptl THEN "PTL_ACK" ELSE "E2E_ACK"
  <1>1. RxFirst(p, PutLike) /\ Deliver(m.req, e)
    BY DEF RxPutMatched
  <1>2. /\ m \in Msg /\ m.req \in Req /\ Kind[m.req] \in PutLike
        /\ rxq' \in [Port -> Seq(Msg)]
        /\ UNCHANGED nicVars
    BY <1>1, RxFirstType DEF PutLike, RequestTypes
  <1>3. /\ matched' \in [Req -> {"NONE", "PRIORITY", "OVERFLOW"}]
        /\ delivered' \in [Req -> Nat]
    BY <1>1, <1>2, DeliverType
  <1>4. targetEv' \in [Req -> Nat]
    <2>1. targetEv \in [Req -> Nat]
      BY DEF TypeOK
    <2>2. targetEv' = targetEv \/ targetEv' = Bump(targetEv, m.req)
      BY DEF RxPutMatched
    <2>3. Bump(targetEv, m.req) \in [Req -> Nat]
      BY <1>2, <2>1, BumpType
    <2> QED
      BY <2>1, <2>2, <2>3
  <1>5. /\ state' \in [Req -> CREATED .. FINISHED]
        /\ txq' \in [Port -> Seq(Msg)]
        /\ entries' \in [Node -> Nat]
        /\ sendEv' \in [Req -> Nat]
        /\ ackEv' \in [Req -> Nat]
        /\ told' \in [Req -> {"none", "ok", "fail"}]
    <2>1. SendAck(p, m, type, FALSE, RECEIVED) \/ SendNoAck(m.req, RECEIVED)
      BY DEF RxPutMatched
    <2>2. RECEIVED \in CREATED .. FINISHED /\ type \in {"PTL_ACK", "E2E_ACK"}
      BY DEF RECEIVED, CREATED, FINISHED
    <2>3. CASE SendAck(p, m, type, FALSE, RECEIVED)
      <3> HIDE DEF type, m
      <3> QED
        BY <1>2, <2>2, <2>3, SendAckType
    <2>4. CASE SendNoAck(m.req, RECEIVED)
      <3>1. state' = [state EXCEPT ![m.req] = RECEIVED]
        BY <2>4 DEF SendNoAck
      <3>2. state' \in [Req -> CREATED .. FINISHED]
        BY <1>2, <2>2, <3>1 DEF TypeOK
      <3> QED
        BY <2>4, <3>2 DEF TypeOK, SendNoAck
    <2> QED
      BY <2>1, <2>3, <2>4
  <1>6. UNCHANGED <<replyEv, getIssued>>
    BY DEF RxPutMatched
  <1> HIDE DEF m
  <1> QED
    BY <1>2, <1>3, <1>4, <1>5, <1>6 DEF TypeOK, nicVars

\* handle_put_request and handle_atomic_request without entry keep the types.
LEMMA RxPutUnmatchedType ==
  ASSUME TypeOK, NEW p \in Port, RxPutUnmatched(p)
  PROVE  TypeOK'
  <1> DEFINE m == Head(rxq[p])
  <1>1. RxFirst(p, PutLike)
    BY DEF RxPutUnmatched
  <1>2. /\ m \in Msg /\ m.req \in Req /\ Kind[m.req] \in PutLike
        /\ rxq' \in [Port -> Seq(Msg)]
        /\ UNCHANGED nicVars
    BY <1>1, RxFirstType DEF PutLike, RequestTypes
  <1>3. /\ state' \in [Req -> CREATED .. FINISHED]
        /\ txq' \in [Port -> Seq(Msg)]
        /\ entries' \in [Node -> Nat]
        /\ sendEv' \in [Req -> Nat]
        /\ ackEv' \in [Req -> Nat]
        /\ told' \in [Req -> {"none", "ok", "fail"}]
    <2>1. SendAck(p, m, "PTL_ACK", TRUE, CREATED) \/ SendNoAck(m.req, CREATED)
      BY DEF RxPutUnmatched
    <2>2. CREATED \in CREATED .. FINISHED
      BY DEF CREATED, FINISHED
    <2>3. CASE SendAck(p, m, "PTL_ACK", TRUE, CREATED)
      <3> HIDE DEF m
      <3> QED
        BY <1>2, <2>2, <2>3, SendAckType
    <2>4. CASE SendNoAck(m.req, CREATED)
      <3>1. state' = [state EXCEPT ![m.req] = CREATED]
        BY <2>4 DEF SendNoAck
      <3>2. state' \in [Req -> CREATED .. FINISHED]
        BY <1>2, <2>2, <3>1 DEF TypeOK
      <3> QED
        BY <2>4, <3>2 DEF TypeOK, SendNoAck
    <2> QED
      BY <2>1, <2>3, <2>4
  <1>4. UNCHANGED <<matched, delivered, targetEv, replyEv, getIssued>>
    BY DEF RxPutUnmatched
  <1> HIDE DEF m
  <1> QED
    BY <1>2, <1>3, <1>4 DEF TypeOK, nicVars

\* The response to a request that is answered by data.
LEMMA ResponseMsgType ==
  ASSUME NEW r \in Req, Kind[r] \in GetLike, NEW fail \in BOOLEAN
  PROVE  NewMsg(ResponseType(Kind[r]), r, fail, "NONE") \in Msg
  <1>1. ResponseType(Kind[r]) \in ResponseTypes \ {"PTL_ACK"}
    BY DEF ResponseType, ResponseTypes
  <1> HIDE DEF ResponseType
  <1> QED
    BY <1>1, NewMsgType DEF MsgTypes, ResponseTypes, RequestTypes

\* handle_get_request and handle_fetch_atomic_request with an entry keep the types.
LEMMA RxGetMatchedType ==
  ASSUME TypeOK, NEW p \in Port, NEW e \in Entries, RxGetMatched(p, e)
  PROVE  TypeOK'
  <1> DEFINE m == Head(rxq[p])
  <1>1. RxFirst(p, GetLike) /\ Deliver(m.req, e)
    BY DEF RxGetMatched
  <1>2. /\ m \in Msg /\ m.req \in Req /\ Kind[m.req] = m.type /\ m.type \in GetLike
        /\ rxq' \in [Port -> Seq(Msg)]
        /\ UNCHANGED nicVars
    BY <1>1, RxFirstType DEF GetLike, RequestTypes
  <1>3. /\ matched' \in [Req -> {"NONE", "PRIORITY", "OVERFLOW"}]
        /\ delivered' \in [Req -> Nat]
    BY <1>1, <1>2, DeliverType
  <1>4. state' \in [Req -> CREATED .. FINISHED]
    <2>1. state' = [state EXCEPT ![m.req] = RECEIVED]
      BY DEF RxGetMatched
    <2> QED
      BY <1>2, <2>1 DEF TypeOK, RECEIVED, CREATED, FINISHED
  <1>5. txq' \in [Port -> Seq(Msg)]
    <2>1. Reply(p, NewMsg(ResponseType(m.type), m.req, FALSE, "NONE"))
      BY DEF RxGetMatched
    <2>2. NewMsg(ResponseType(m.type), m.req, FALSE, "NONE") \in Msg
      BY <1>2, ResponseMsgType
    <2> QED
      BY <2>1, <2>2, ReplyType
  <1>6. UNCHANGED <<entries, eventVars>>
    BY DEF RxGetMatched
  <1> HIDE DEF m
  <1> QED
    BY <1>2, <1>3, <1>4, <1>5, <1>6 DEF TypeOK, nicVars, eventVars

\* handle_get_request and handle_fetch_atomic_request without entry keep the types.
LEMMA RxGetUnmatchedType ==
  ASSUME TypeOK, NEW p \in Port, RxGetUnmatched(p)
  PROVE  TypeOK'
  <1> DEFINE m == Head(rxq[p])
  <1>1. RxFirst(p, GetLike)
    BY DEF RxGetUnmatched
  <1>2. /\ m \in Msg /\ m.req \in Req /\ Kind[m.req] = m.type /\ m.type \in GetLike
        /\ rxq' \in [Port -> Seq(Msg)]
        /\ UNCHANGED nicVars
    BY <1>1, RxFirstType DEF GetLike, RequestTypes
  <1>3. txq' \in [Port -> Seq(Msg)]
    <2>1. Reply(p, NewMsg(ResponseType(m.type), m.req, TRUE, "NONE"))
      BY DEF RxGetUnmatched
    <2>2. NewMsg(ResponseType(m.type), m.req, TRUE, "NONE") \in Msg
      BY <1>2, ResponseMsgType
    <2> QED
      BY <2>1, <2>2, ReplyType
  <1>4. UNCHANGED <<state, matched, delivered, entries, eventVars>>
    BY DEF RxGetUnmatched
  <1> HIDE DEF m
  <1> QED
    BY <1>2, <1>3, <1>4 DEF TypeOK, nicVars, eventVars

\* handle_response keeps the types.
LEMMA RxResponseType ==
  ASSUME TypeOK, NEW p \in Port, RxResponse(p)
  PROVE  TypeOK'
  <1> DEFINE m == Head(rxq[p])
  <1>1. RxGet(p, {"GET_RESPONSE", "FETCH_ATOMIC_RESPONSE"}) /\ ReleaseE2EEntry(p[1])
    BY DEF RxResponse
  <1>2. m \in Msg /\ rxq' \in [Port -> Seq(Msg)]
    BY <1>1, RxGetType
  <1>3. m.req \in Req /\ m.type \in MsgTypes /\ m.fail \in BOOLEAN
    BY <1>2, MsgParts
  <1>4. entries' \in [Node -> Nat]
    BY <1>1, PortParts, ReleaseType
  <1>5. UNCHANGED nicVars
    BY <1>1 DEF RxGet
  <1>6. UNCHANGED <<matched, delivered, sendEv, ackEv, targetEv, getIssued>>
    BY DEF RxResponse
  <1>7. CASE UNCHANGED <<state, txq, replyEv, told>>
    BY <1>2, <1>4, <1>5, <1>6, <1>7 DEF TypeOK, nicVars
  <1>8. CASE /\ state' = [state EXCEPT ![m.req] = ANSWERED]
             /\ txq' = txq \/ Reply(p, NewMsg("E2E_ACK", m.req, FALSE, m.type))
             /\ replyEv' = Bump(replyEv, m.req)
             /\ Tell(m.req, m.fail)
    <2>1. state' \in [Req -> CREATED .. FINISHED]
      BY <1>3, <1>8 DEF TypeOK, CREATED, ANSWERED, FINISHED
    <2>2. NewMsg("E2E_ACK", m.req, FALSE, m.type) \in Msg
      BY <1>3, NewMsgType DEF MsgTypes, ResponseTypes, RequestTypes
    <2>3. txq' \in [Port -> Seq(Msg)]
      <3>1. CASE txq' = txq
        BY <3>1 DEF TypeOK
      <3>2. CASE Reply(p, NewMsg("E2E_ACK", m.req, FALSE, m.type))
        BY <2>2, <3>2, ReplyType
      <3> QED
        BY <1>8, <3>1, <3>2
    <2>4. replyEv \in [Req -> Nat]
      BY DEF TypeOK
    <2>5. replyEv' \in [Req -> Nat]
      BY <1>3, <1>8, <2>4, BumpType
    <2>6. told' \in [Req -> {"none", "ok", "fail"}]
      BY <1>3, <1>8, TellType
    <2> HIDE DEF m
    <2> QED
      BY <1>2, <1>4, <1>5, <1>6, <2>1, <2>3, <2>5, <2>6 DEF TypeOK, nicVars
  <1> QED
    BY <1>7, <1>8 DEF RxResponse

\* handle_ptl_ack keeps the types.
LEMMA RxPtlAckType ==
  ASSUME TypeOK, NEW p \in Port, RxPtlAck(p)
  PROVE  TypeOK'
  <1> DEFINE m == Head(rxq[p])
  <1>1. RxGet(p, {"PTL_ACK"}) /\ ReleaseE2EEntry(p[1])
    BY DEF RxPtlAck
  <1>2. m \in Msg /\ rxq' \in [Port -> Seq(Msg)]
    BY <1>1, RxGetType
  <1>3. m.req \in Req /\ m.type \in MsgTypes /\ m.fail \in BOOLEAN
    BY <1>2, MsgParts
  <1>4. entries' \in [Node -> Nat]
    BY <1>1, PortParts, ReleaseType
  <1>5. UNCHANGED nicVars
    BY <1>1 DEF RxGet
  <1>6. UNCHANGED <<matched, delivered, replyEv, targetEv, getIssued>>
    BY DEF RxPtlAck
  <1>7. txq' \in [Port -> Seq(Msg)]
    <2>1. NewMsg("E2E_ACK", m.req, FALSE, m.type) \in Msg
      BY <1>3, NewMsgType DEF MsgTypes, ResponseTypes, RequestTypes
    <2>2. txq' = txq \/ Reply(p, NewMsg("E2E_ACK", m.req, FALSE, m.type))
      BY DEF RxPtlAck
    <2>3. CASE txq' = txq
      BY <2>3 DEF TypeOK
    <2>4. CASE Reply(p, NewMsg("E2E_ACK", m.req, FALSE, m.type))
      BY <2>1, <2>4, ReplyType
    <2> QED
      BY <2>2, <2>3, <2>4
  <1>8. CASE UNCHANGED <<state, sendEv, ackEv, told>>
    BY <1>2, <1>4, <1>5, <1>6, <1>7, <1>8 DEF TypeOK, nicVars
  <1>9. CASE /\ state' = [state EXCEPT ![m.req] = ANSWERED]
             /\ MaybeIssueSend(m.req)
             /\ IssueAck(m.req, m.fail)
    <2>1. state' \in [Req -> CREATED .. FINISHED]
      BY <1>3, <1>9 DEF TypeOK, CREATED, ANSWERED, FINISHED
    <2>2. sendEv' \in [Req -> Nat]
      BY <1>3, <1>9, SendType
    <2>3. ackEv' \in [Req -> Nat] /\ told' \in [Req -> {"none", "ok", "fail"}]
      BY <1>3, <1>9, AckType
    <2> HIDE DEF m
    <2> QED
      BY <1>2, <1>4, <1>5, <1>6, <1>7, <2>1, <2>2, <2>3 DEF TypeOK, nicVars
  <1> QED
    BY <1>8, <1>9 DEF RxPtlAck

\* handle_bxi_ack keeps the types.
LEMMA RxE2EAckType ==
  ASSUME TypeOK, NEW p \in Port, RxE2EAck(p)
  PROVE  TypeOK'
  <1> DEFINE r == Head(rxq[p]).req
  <1>1. RxGet(p, {"E2E_ACK"})
    BY DEF RxE2EAck
  <1>2. Head(rxq[p]) \in Msg /\ rxq' \in [Port -> Seq(Msg)]
    BY <1>1, RxGetType
  <1>3. r \in Req
    BY <1>2, MsgParts
  <1>4. UNCHANGED nicVars
    BY <1>1 DEF RxGet
  <1>5. UNCHANGED <<txq, matched, delivered, ackEv, replyEv, told>>
    BY DEF RxE2EAck
  <1>6. CASE UNCHANGED <<state, entries, sendEv, getIssued, targetEv>>
    BY <1>2, <1>4, <1>5, <1>6 DEF TypeOK, nicVars
  <1>7. CASE /\ state' = [state EXCEPT ![r] = FINISHED]
             /\ ReleaseE2EEntry(p[1])
             /\ MaybeIssueSend(r) \/ UNCHANGED sendEv
             /\ MaybeIssueGet(r) \/ UNCHANGED <<getIssued, targetEv>>
    <2>1. state' \in [Req -> CREATED .. FINISHED]
      BY <1>3, <1>7 DEF TypeOK, CREATED, FINISHED
    <2>2. entries' \in [Node -> Nat]
      BY <1>7, PortParts, ReleaseType
    <2>3. sendEv' \in [Req -> Nat]
      <3>1. CASE MaybeIssueSend(r)
        BY <1>3, <3>1, SendType
      <3> QED
        BY <1>7, <3>1 DEF TypeOK
    <2>4. getIssued' \in [Req -> BOOLEAN] /\ targetEv' \in [Req -> Nat]
      <3>1. CASE MaybeIssueGet(r)
        BY <1>3, <3>1, GetEventType
      <3> QED
        BY <1>7, <3>1 DEF TypeOK
    <2> HIDE DEF r
    <2> QED
      BY <1>2, <1>4, <1>5, <2>1, <2>2, <2>3, <2>4 DEF TypeOK, nicVars
  <1> QED
    BY <1>6, <1>7 DEF RxE2EAck

-----------------------------------------------------------------------------
\* A fresh cluster is well typed.
LEMMA InitType == Init => TypeOK
  BY DEF Init, TypeOK, CREATED, FINISHED

\* Every step keeps the types.
LEMMA NextType == TypeOK /\ [Next]_vars => TypeOK'
  <1> SUFFICES ASSUME TypeOK, [Next]_vars PROVE TypeOK'
    OBVIOUS
  <1>1. ASSUME NEW r \in Req, Issue(r) PROVE TypeOK'
    BY <1>1, IssueType
  <1>2. ASSUME NEW p \in Port, Tx(p) PROVE TypeOK'
    BY <1>2, TxGetType, TxLaunchType, TxDoneType DEF Tx
  <1>3. ASSUME NEW p \in Port, Rx(p) PROVE TypeOK'
    <2>1. CASE RxMatched(p)
      BY <2>1, RxPutMatchedType, RxGetMatchedType DEF RxMatched
    <2>2. CASE RxUnmatched(p)
      BY <2>2, RxPutUnmatchedType, RxGetUnmatchedType DEF RxUnmatched
    <2> QED
      BY <1>3, <2>1, <2>2, RxDuplicateType, RxResponseType, RxPtlAckType,
         RxE2EAckType DEF Rx
  <1>4. ASSUME NEW n \in Node, E2E(n) PROVE TypeOK'
    BY <1>4, E2EType
  <1>5. CASE UNCHANGED vars
    BY <1>5 DEF vars, TypeOK
  <1> QED
    BY <1>1, <1>2, <1>3, <1>4, <1>5 DEF Next

\* Every variable of the transport keeps its type, whatever the cluster, the
\* operations and the options: in particular every message that a TX, RX or
\* E2E actor handles is of a type its parent request calls for.
THEOREM TypeCorrect == Spec => []TypeOK
  BY InitType, NextType, PTL DEF Spec

-----------------------------------------------------------------------------
(***************************************************************************)
(* At most once.  The counters that EventsAtMostOnce and                   *)
(* DeliveredAtMostOnce bound are tied to process_state and to the *_issued *)
(* flags, which is what the handlers test before they act.                 *)
(***************************************************************************)
Once(r) ==
  /\ delivered[r] <= 1 /\ (delivered[r] = 1 => state[r] >= RECEIVED)
  /\ sendEv[r] <= 1
  /\ ackEv[r] + replyEv[r] <= 1 /\ (ackEv[r] + replyEv[r] = 1 => state[r] >= ANSWERED)
  /\ Kind[r] \in PutLike => targetEv[r] <= delivered[r]
  /\ Kind[r] \in GetLike => targetEv[r] <= 1 /\ (targetEv[r] = 1 => getIssued[r])

OnceInv == TypeOK /\ \A r \in Req : Once(r)

\* What a step leaves alone for request r.
Same(r) == UNCHANGED <<delivered[r], state[r], sendEv[r], ackEv[r], replyEv[r],
                       targetEv[r], getIssued[r]>>

\* A step that leaves the fields of a request alone keeps its part of the
\* invariant.
LEMMA SameOnce ==
  ASSUME NEW r \in Req, Once(r), Same(r)
  PROVE  Once(r)'
  BY DEF Once, Same

\* The counters of a request are numbers, its state is one of four.
LEMMA Counters ==
  ASSUME TypeOK, NEW r \in Req
  PROVE  /\ delivered[r] \in Nat /\ sendEv[r] \in Nat /\ ackEv[r] \in Nat
         /\ replyEv[r] \in Nat /\ targetEv[r] \in Nat
         /\ getIssued[r] \in BOOLEAN
         /\ state[r] \in {CREATED, RECEIVED, ANSWERED, FINISHED}
         /\ Kind[r] \in PutLike \/ Kind[r] \in GetLike
         /\ ~(Kind[r] \in PutLike /\ Kind[r] \in GetLike)
  BY DEF TypeOK, CREATED, RECEIVED, ANSWERED, FINISHED, PutLike, GetLike, RequestTypes

\* Setting the state of one request.
LEMMA SetState ==
  ASSUME TypeOK, NEW r \in Req, NEW s, state' = [state EXCEPT ![r] = s]
  PROVE  state'[r] = s /\ \A q \in Req \ {r} : state'[q] = state[q]
  BY DEF TypeOK

\* The SEND event is issued once.
LEMMA SendOnce ==
  ASSUME TypeOK, NEW r \in Req, sendEv[r] <= 1,
         MaybeIssueSend(r) \/ UNCHANGED sendEv
  PROVE  sendEv'[r] <= 1 /\ \A q \in Req \ {r} : sendEv'[q] = sendEv[q]
  <1>1. sendEv \in [Req -> Nat] /\ sendEv[r] \in Nat
    BY DEF TypeOK
  <1>2. sendEv' = sendEv \/ (sendEv[r] = 0 /\ sendEv' = Bump(sendEv, r))
    BY DEF MaybeIssueSend
  <1>3. Bump(sendEv, r)[r] = sendEv[r] + 1
    BY <1>1, BumpType
  <1>4. \A q \in Req \ {r} : Bump(sendEv, r)[q] = sendEv[q]
    BY <1>1, BumpType
  <1> QED
    BY <1>1, <1>2, <1>3, <1>4

\* The GET or FETCH_ATOMIC event is issued once.
LEMMA GetOnce ==
  ASSUME TypeOK, NEW r \in Req, targetEv[r] <= 1, targetEv[r] = 1 => getIssued[r],
         MaybeIssueGet(r)
  PROVE  /\ targetEv'[r] <= 1 /\ (targetEv'[r] = 1 => getIssued'[r])
         /\ \A q \in Req \ {r} : targetEv'[q] = targetEv[q] /\ getIssued'[q] = getIssued[q]
  <1>1. targetEv \in [Req -> Nat] /\ targetEv[r] \in Nat /\ getIssued \in [Req -> BOOLEAN]
    BY DEF TypeOK
  <1>2. CASE getIssued[r]
    BY <1>2 DEF MaybeIssueGet
  <1>3. CASE ~getIssued[r]
    <2>1. targetEv[r] = 0
      BY <1>1, <1>3
    <2>2. getIssued' = [getIssued EXCEPT ![r] = TRUE]
      BY <1>3 DEF MaybeIssueGet
    <2>3. targetEv' = targetEv \/ targetEv' = Bump(targetEv, r)
      BY <1>3 DEF MaybeIssueGet
    <2>4. Bump(targetEv, r)[r] = targetEv[r] + 1
      BY <1>1, BumpType
    <2>5. \A q \in Req \ {r} : Bump(targetEv, r)[q] = targetEv[q]
      BY <1>1, BumpType
    <2> QED
      BY <1>1, <2>1, <2>2, <2>3, <2>4, <2>5
  <1> QED
    BY <1>1, <1>2, <1>3

\* issue_ack completes one request.
LEMMA AckOnce ==
  ASSUME TypeOK, NEW r \in Req, NEW fail, IssueAck(r, fail)
  PROVE  ackEv'[r] = ackEv[r] + 1 /\ \A q \in Req \ {r} : ackEv'[q] = ackEv[q]
  <1>1. ackEv \in [Req -> Nat]
    BY DEF TypeOK
  <1>2. ackEv' = Bump(ackEv, r)
    BY DEF IssueAck
  <1> QED
    BY <1>1, <1>2, BumpType

\* send_ack, entered by a request that nothing has completed yet: the state
\* goes to s or, with quick ACKs, to FINISHED with the ACK issued.
LEMMA SendAckOnce ==
  ASSUME TypeOK, NEW p \in Port, NEW m \in Msg, NEW type, NEW fail,
         NEW s \in {CREATED, RECEIVED}, sendEv[m.req] <= 1, ackEv[m.req] = 0,
         SendAck(p, m, type, fail, s) \/ SendNoAck(m.req, s)
  PROVE  /\ sendEv'[m.req] <= 1
         /\ \/ state'[m.req] = s /\ ackEv'[m.req] = 0
            \/ state'[m.req] = FINISHED /\ ackEv'[m.req] = 1
         /\ \A q \in Req \ {m.req} : UNCHANGED <<state[q], sendEv[q], ackEv[q]>>
  <1> DEFINE r == m.req
  <1>1. r \in Req
    BY MsgParts
  <1>2. CASE /\ state' = [state EXCEPT ![r] = FINISHED]
             /\ MaybeIssueSend(r) /\ IssueAck(r, fail)
    <2>1. state'[r] = FINISHED /\ \A q \in Req \ {r} : state'[q] = state[q]
      BY <1>1, <1>2, SetState
    <2>2. sendEv'[r] <= 1 /\ \A q \in Req \ {r} : sendEv'[q] = sendEv[q]
      BY <1>1, <1>2, SendOnce
    <2>3. ackEv'[r] = ackEv[r] + 1 /\ \A q \in Req \ {r} : ackEv'[q] = ackEv[q]
      BY <1>1, <1>2, AckOnce
    <2> QED
      BY <2>1, <2>2, <2>3
  <1>3. CASE state' = [state EXCEPT ![r] = s] /\ UNCHANGED <<sendEv, ackEv>>
    <2>1. state'[r] = s /\ \A q \in Req \ {r} : state'[q] = state[q]
      BY <1>1, <1>3, SetState
    <2> QED
      BY <1>3, <2>1
  <1> QED
    BY <1>2, <1>3 DEF SendAck, SendNoAck

\* A payload moves for one request.
LEMMA DeliverOnce ==
  ASSUME TypeOK, NEW r \in Req, NEW e, Deliver(r, e)
  PROVE  /\ delivered'[r] = delivered[r] + 1
         /\ \A q \in Req \ {r} : delivered'[q] = delivered[q]
  <1>1. delivered \in [Req -> Nat]
    BY DEF TypeOK
  <1>2. delivered' = Bump(delivered, r)
    BY DEF Deliver
  <1> QED
    BY <1>1, <1>2, BumpType

\* Nothing has happened yet to a request that passes the duplicate check.
LEMMA Fresh ==
  ASSUME TypeOK, NEW r \in Req, Once(r), state[r] = CREATED
  PROVE  /\ delivered[r] = 0 /\ sendEv[r] <= 1 /\ ackEv[r] = 0 /\ replyEv[r] = 0
         /\ Kind[r] \in PutLike => targetEv[r] = 0
  <1>1. /\ delivered[r] \in Nat /\ ackEv[r] \in Nat /\ replyEv[r] \in Nat
        /\ targetEv[r] \in Nat
    BY Counters
  <1>2. delivered[r] = 0
    <2>1. delivered[r] <= 1 /\ (delivered[r] = 1 => state[r] >= RECEIVED)
      BY DEF Once
    <2> QED
      BY <1>1, <2>1 DEF CREATED, RECEIVED
  <1>3. ackEv[r] = 0 /\ replyEv[r] = 0
    BY <1>1 DEF Once, CREATED, ANSWERED
  <1> QED
    BY <1>1, <1>2, <1>3 DEF Once

\* Enough to show that a step that handles request r keeps every Once(q).
LEMMA OthersOnce ==
  ASSUME OnceInv, NEW r \in Req, Once(r)', \A q \in Req \ {r} : Same(q)
  PROVE  \A q \in Req : Once(q)'
  <1> SUFFICES ASSUME NEW q \in Req, q # r PROVE Once(q)'
    OBVIOUS
  <1> QED
    BY SameOnce DEF OnceInv

\* A matched Put or Atomic: delivered for the first time.
LEMMA RxPutMatchedOnce ==
  ASSUME OnceInv, NEW p \in Port, NEW e \in Entries, RxPutMatched(p, e)
  PROVE  \A r \in Req : Once(r)'
  <1>1. TypeOK /\ RxFirst(p, PutLike) /\ Deliver(Head(rxq[p]).req, e)
    BY DEF OnceInv, RxPutMatched
  <1>2. PICK m \in Msg : m = Head(rxq[p])
    BY <1>1, RxFirstType DEF PutLike, RequestTypes
  <1>3. PICK r \in Req : r = m.req /\ Kind[r] \in PutLike
    BY <1>1, <1>2, RxFirstType DEF PutLike, RequestTypes
  <1>4. /\ delivered[r] = 0 /\ sendEv[r] <= 1 /\ ackEv[r] = 0
        /\ replyEv[r] = 0 /\ targetEv[r] = 0
    BY <1>1, <1>2, <1>3, Fresh DEF RxFirst, OnceInv
  <1>5. /\ sendEv'[r] <= 1
        /\ \/ state'[r] = RECEIVED /\ ackEv'[r] = 0
           \/ state'[r] = FINISHED /\ ackEv'[r] = 1
        /\ \A q \in Req \ {r} : UNCHANGED <<state[q], sendEv[q], ackEv[q]>>
    <2>1. \E type : SendAck(p, m, type, FALSE, RECEIVED) \/ SendNoAck(r, RECEIVED)
      BY <1>2, <1>3 DEF RxPutMatched
    <2> QED
      BY <1>1, <1>3, <1>4, <2>1, SendAckOnce
  <1>6. delivered'[r] = 1 /\ \A q \in Req \ {r} : delivered'[q] = delivered[q]
    BY <1>1, <1>2, <1>3, <1>4, DeliverOnce
  <1>7. targetEv'[r] <= 1 /\ \A q \in Req \ {r} : targetEv'[q] = targetEv[q]
    <2>1. targetEv \in [Req -> Nat]
      BY <1>1 DEF TypeOK
    <2>2. targetEv' = targetEv \/ targetEv' = Bump(targetEv, r)
      BY <1>2, <1>3 DEF RxPutMatched
    <2>3. Bump(targetEv, r)[r] = targetEv[r] + 1
      BY <2>1, BumpType
    <2>4. \A q \in Req \ {r} : Bump(targetEv, r)[q] = targetEv[q]
      BY <2>1, BumpType
    <2> QED
      BY <1>4, <2>2, <2>3, <2>4
  <1>8. UNCHANGED <<replyEv, getIssued>>
    BY DEF RxPutMatched
  <1>9. Once(r)'
    <2>1. ~(Kind[r] \in GetLike)
      BY <1>1, <1>3, Counters
    <2> QED
      BY <1>4, <1>5, <1>6, <1>7, <1>8, <2>1 DEF Once, RECEIVED, ANSWERED, FINISHED
  <1>10. \A q \in Req \ {r} : Same(q)
    BY <1>5, <1>6, <1>7, <1>8 DEF Same
  <1> QED
    BY <1>9, <1>10, OthersOnce

\* An unmatched Put or Atomic: nothing is delivered, at most a quick ACK.
LEMMA RxPutUnmatchedOnce ==
  ASSUME OnceInv, NEW p \in Port, RxPutUnmatched(p)
  PROVE  \A r \in Req : Once(r)'
  <1>1. TypeOK /\ RxFirst(p, PutLike)
    BY DEF OnceInv, RxPutUnmatched
  <1>2. PICK m \in Msg : m = Head(rxq[p])
    BY <1>1, RxFirstType DEF PutLike, RequestTypes
  <1>3. PICK r \in Req : r = m.req /\ Kind[r] \in PutLike
    BY <1>1, <1>2, RxFirstType DEF PutLike, RequestTypes
  <1>4. /\ delivered[r] = 0 /\ sendEv[r] <= 1 /\ ackEv[r] = 0
        /\ replyEv[r] = 0 /\ targetEv[r] = 0
    BY <1>1, <1>2, <1>3, Fresh DEF RxFirst, OnceInv
  <1>5. /\ sendEv'[r] <= 1
        /\ \/ state'[r] = CREATED /\ ackEv'[r] = 0
           \/ state'[r] = FINISHED /\ ackEv'[r] = 1
        /\ \A q \in Req \ {r} : UNCHANGED <<state[q], sendEv[q], ackEv[q]>>
    <2>1. SendAck(p, m, "PTL_ACK", TRUE, CREATED) \/ SendNoAck(r, CREATED)
      BY <1>2, <1>3 DEF RxPutUnmatched
    <2> QED
      BY <1>1, <1>3, <1>4, <2>1, SendAckOnce
  <1>6. UNCHANGED <<delivered, targetEv, replyEv, getIssued>>
    BY DEF RxPutUnmatched
  <1>7. Once(r)'
    <2>1. ~(Kind[r] \in GetLike)
      BY <1>1, <1>3, Counters
    <2> QED
      BY <1>4, <1>5, <1>6, <2>1 DEF Once, CREATED, RECEIVED, ANSWERED, FINISHED
  <1>8. \A q \in Req \ {r} : Same(q)
    BY <1>5, <1>6 DEF Same
  <1> QED
    BY <1>7, <1>8, OthersOnce

\* A matched Get or FetchAtomic: delivered for the first time.
LEMMA RxGetMatchedOnce ==
  ASSUME OnceInv, NEW p \in Port, NEW e \in Entries, RxGetMatched(p, e)
  PROVE  \A r \in Req : Once(r)'
  <1>1. TypeOK /\ RxFirst(p, GetLike) /\ Deliver(Head(rxq[p]).req, e)
    BY DEF OnceInv, RxGetMatched
  <1>2. PICK r \in Req : r = Head(rxq[p]).req /\ Kind[r] \in GetLike
    BY <1>1, RxFirstType DEF GetLike, RequestTypes
  <1>3. delivered[r] = 0 /\ ackEv[r] = 0 /\ replyEv[r] = 0 /\ Once(r)
    BY <1>1, <1>2, Fresh DEF RxFirst, OnceInv
  <1>4. state' = [state EXCEPT ![r] = RECEIVED]
    BY <1>2 DEF RxGetMatched
  <1>5. state'[r] = RECEIVED /\ \A q \in Req \ {r} : state'[q] = state[q]
    BY <1>1, <1>4, SetState
  <1>6. delivered'[r] = 1 /\ \A q \in Req \ {r} : delivered'[q] = delivered[q]
    BY <1>1, <1>2, <1>3, DeliverOnce
  <1>7. UNCHANGED <<sendEv, ackEv, replyEv, targetEv, getIssued>>
    BY DEF RxGetMatched, eventVars
  <1>8. Once(r)'
    <2>1. ~(Kind[r] \in PutLike)
      BY <1>1, <1>2, Counters
    <2> QED
      BY <1>3, <1>5, <1>6, <1>7, <2>1 DEF Once, RECEIVED, ANSWERED
  <1>9. \A q \in Req \ {r} : Same(q)
    BY <1>5, <1>6, <1>7 DEF Same
  <1> QED
    BY <1>8, <1>9, OthersOnce

\* A response completes a request that nothing has completed before.
LEMMA RxResponseOnce ==
  ASSUME OnceInv, NEW p \in Port, RxResponse(p)
  PROVE  \A r \in Req : Once(r)'
  <1>1. TypeOK /\ RxGet(p, {"GET_RESPONSE", "FETCH_ATOMIC_RESPONSE"})
    BY DEF OnceInv, RxResponse
  <1>2. PICK r \in Req : r = Head(rxq[p]).req
    BY <1>1, RxGetType, MsgParts
  <1>3. UNCHANGED <<delivered, sendEv, ackEv, targetEv, getIssued>>
    BY DEF RxResponse
  <1>4. CASE UNCHANGED <<state, replyEv>>
    BY <1>3, <1>4, SameOnce DEF Same, OnceInv
  <1>5. CASE /\ state[r] <= RECEIVED
             /\ state' = [state EXCEPT ![r] = ANSWERED]
             /\ replyEv' = Bump(replyEv, r)
    <2>1. state'[r] = ANSWERED /\ \A q \in Req \ {r} : state'[q] = state[q]
      BY <1>1, <1>5, SetState
    <2>2. replyEv \in [Req -> Nat]
      BY <1>1 DEF TypeOK
    <2>3. replyEv'[r] = replyEv[r] + 1 /\ \A q \in Req \ {r} : replyEv'[q] = replyEv[q]
      <3>1. Bump(replyEv, r)[r] = replyEv[r] + 1
        BY <2>2, BumpType
      <3>2. \A q \in Req \ {r} : Bump(replyEv, r)[q] = replyEv[q]
        BY <2>2, BumpType
      <3> QED
        BY <1>5, <3>1, <3>2
    <2>4. Once(r)
      BY DEF OnceInv
    <2>5. ackEv[r] = 0 /\ replyEv[r] = 0
      <3>1. /\ ackEv[r] \in Nat /\ replyEv[r] \in Nat
            /\ state[r] \in {CREATED, RECEIVED, ANSWERED, FINISHED}
        BY <1>1, Counters
      <3> QED
        BY <1>5, <2>4, <3>1 DEF Once, CREATED, RECEIVED, ANSWERED, FINISHED
    <2>6. Once(r)'
      BY <1>3, <2>1, <2>3, <2>4, <2>5 DEF Once, RECEIVED, ANSWERED
    <2>7. \A q \in Req \ {r} : Same(q)
      BY <1>3, <2>1, <2>3 DEF Same
    <2> QED
      BY <2>6, <2>7, OthersOnce
  <1>6. state[r] > RECEIVED \/ state[r] <= RECEIVED
    BY <1>1, Counters DEF CREATED, RECEIVED, ANSWERED, FINISHED
  <1> QED
    BY <1>2, <1>4, <1>5, <1>6 DEF RxResponse

\* A Portals ACK completes a request that nothing has completed before.
LEMMA RxPtlAckOnce ==
  ASSUME OnceInv, NEW p \in Port, RxPtlAck(p)
  PROVE  \A r \in Req : Once(r)'
  <1>1. TypeOK /\ RxGet(p, {"PTL_ACK"})
    BY DEF OnceInv, RxPtlAck
  <1>2. PICK r \in Req : r = Head(rxq[p]).req
    BY <1>1, RxGetType, MsgParts
  <1>3. UNCHANGED <<delivered, replyEv, targetEv, getIssued>>
    BY DEF RxPtlAck
  <1>4. CASE UNCHANGED <<state, sendEv, ackEv>>
    BY <1>3, <1>4, SameOnce DEF Same, OnceInv
  <1>5. ASSUME NEW fail, state[r] <= RECEIVED,
               state' = [state EXCEPT ![r] = ANSWERED],
               MaybeIssueSend(r), IssueAck(r, fail)
        PROVE  \A q \in Req : Once(q)'
    <2>1. state'[r] = ANSWERED /\ \A q \in Req \ {r} : state'[q] = state[q]
      BY <1>1, <1>5, SetState
    <2>2. Once(r)
      BY DEF OnceInv
    <2>3. sendEv'[r] <= 1 /\ \A q \in Req \ {r} : sendEv'[q] = sendEv[q]
      BY <1>1, <1>5, <2>2, SendOnce DEF Once
    <2>4. ackEv'[r] = ackEv[r] + 1 /\ \A q \in Req \ {r} : ackEv'[q] = ackEv[q]
      BY <1>1, <1>5, AckOnce
    <2>5. ackEv[r] = 0 /\ replyEv[r] = 0
      <3>1. /\ ackEv[r] \in Nat /\ replyEv[r] \in Nat
            /\ state[r] \in {CREATED, RECEIVED, ANSWERED, FINISHED}
        BY <1>1, Counters
      <3> QED
        BY <1>5, <2>2, <3>1 DEF Once, CREATED, RECEIVED, ANSWERED, FINISHED
    <2>6. Once(r)'
      BY <1>3, <2>1, <2>2, <2>3, <2>4, <2>5 DEF Once, RECEIVED, ANSWERED
    <2>7. \A q \in Req \ {r} : Same(q)
      BY <1>3, <2>1, <2>3, <2>4 DEF Same
    <2> QED
      BY <2>6, <2>7, OthersOnce
  <1> QED
    BY <1>2, <1>4, <1>5 DEF RxPtlAck

\* An E2E ACK issues at most the SEND or the GET event.
LEMMA RxE2EAckOnce ==
  ASSUME OnceInv, NEW p \in Port, RxE2EAck(p)
  PROVE  \A r \in Req : Once(r)'
  <1>1. TypeOK /\ RxGet(p, {"E2E_ACK"})
    BY DEF OnceInv, RxE2EAck
  <1>2. PICK r \in Req : r = Head(rxq[p]).req
    BY <1>1, RxGetType, MsgParts
  <1>3. UNCHANGED <<delivered, ackEv, replyEv>>
    BY DEF RxE2EAck
  <1>4. CASE UNCHANGED <<state, sendEv, getIssued, targetEv>>
    BY <1>3, <1>4, SameOnce DEF Same, OnceInv
  <1>5. CASE /\ state' = [state EXCEPT ![r] = FINISHED]
             /\ MaybeIssueSend(r) \/ UNCHANGED sendEv
             /\ \/ Kind[r] \in GetLike /\ MaybeIssueGet(r)
                \/ UNCHANGED <<getIssued, targetEv>>
    <2>1. state'[r] = FINISHED /\ \A q \in Req \ {r} : state'[q] = state[q]
      BY <1>1, <1>5, SetState
    <2>2. Once(r)
      BY DEF OnceInv
    <2>3. sendEv'[r] <= 1 /\ \A q \in Req \ {r} : sendEv'[q] = sendEv[q]
      BY <1>1, <1>5, <2>2, SendOnce DEF Once
    <2>4. \A q \in Req \ {r} : targetEv'[q] = targetEv[q] /\ getIssued'[q] = getIssued[q]
      BY <1>1, <1>5, <2>2, GetOnce DEF Once
    <2>5. Kind[r] \in PutLike => targetEv'[r] <= delivered'[r]
      BY <1>1, <1>3, <1>5, <2>2, Counters DEF Once
    <2>6. Kind[r] \in GetLike => targetEv'[r] <= 1 /\ (targetEv'[r] = 1 => getIssued'[r])
      BY <1>1, <1>5, <2>2, GetOnce DEF Once
    <2>7. Once(r)'
      BY <1>3, <2>1, <2>2, <2>3, <2>5, <2>6 DEF Once, RECEIVED, ANSWERED, FINISHED
    <2>8. \A q \in Req \ {r} : Same(q)
      BY <1>3, <2>1, <2>3, <2>4 DEF Same
    <2> QED
      BY <2>7, <2>8, OthersOnce
  <1> QED
    BY <1>2, <1>4, <1>5 DEF RxE2EAck

\* The TX actor issues the SEND or the GET event at most once.
LEMMA TxDoneOnce ==
  ASSUME OnceInv, NEW p \in Port, TxDone(p)
  PROVE  \A r \in Req : Once(r)'
  <1>1. TypeOK
    BY DEF OnceInv
  <1>2. PICK m \in Msg : m = tx[p].msg
    BY <1>1, TxMsg DEF TxDone
  <1>3. PICK r \in Req : r = m.req
    BY MsgParts
  <1>4. UNCHANGED <<delivered, state, ackEv, replyEv>>
    BY DEF TxDone
  <1>5. MaybeIssueSend(r) \/ UNCHANGED sendEv
    BY <1>2, <1>3 DEF TxDone
  <1>6. \/ Kind[r] \in GetLike /\ MaybeIssueGet(r)
        \/ UNCHANGED <<getIssued, targetEv>>
    <2>1. CASE GetsEvent(m)
      <3>1. Kind[r] \in GetLike
        BY <1>3, <2>1, MsgParts DEF GetsEvent, ResponseTypes
      <3> QED
        BY <1>2, <1>3, <2>1, <3>1 DEF TxDone
    <2>2. CASE ~GetsEvent(m)
      BY <1>2, <1>3, <2>2 DEF TxDone
    <2> QED
      BY <2>1, <2>2
  <1>7. Once(r)
    BY DEF OnceInv
  <1>8. sendEv'[r] <= 1 /\ \A q \in Req \ {r} : sendEv'[q] = sendEv[q]
    BY <1>1, <1>5, <1>7, SendOnce DEF Once
  <1>9. \A q \in Req \ {r} : targetEv'[q] = targetEv[q] /\ getIssued'[q] = getIssued[q]
    BY <1>1, <1>6, <1>7, GetOnce DEF Once
  <1>10. Kind[r] \in PutLike => targetEv'[r] <= delivered'[r]
    BY <1>1, <1>4, <1>6, <1>7, Counters DEF Once
  <1>11. Kind[r] \in GetLike => targetEv'[r] <= 1 /\ (targetEv'[r] = 1 => getIssued'[r])
    BY <1>1, <1>6, <1>7, GetOnce DEF Once
  <1>12. Once(r)'
    BY <1>4, <1>7, <1>8, <1>10, <1>11 DEF Once
  <1>13. \A q \in Req \ {r} : Same(q)
    BY <1>4, <1>8, <1>9 DEF Same
  <1> QED
    BY <1>12, <1>13, OthersOnce

\* Nothing has happened yet in a fresh cluster.
LEMMA InitOnce == Init => OnceInv
  <1> SUFFICES ASSUME Init, NEW r \in Req PROVE Once(r)
    BY InitType DEF OnceInv
  <1> QED
    BY DEF Init, Once

\* Every step keeps the invariant: the TX, RX and E2E actors one by one.
LEMMA NextOnce == OnceInv /\ [Next]_vars => OnceInv'
  <1> SUFFICES ASSUME OnceInv, [Next]_vars PROVE \A r \in Req : Once(r)'
    BY NextType DEF OnceInv
  <1> USE DEF OnceInv
  <1>1. CASE \A r \in Req : Same(r)
    BY <1>1, SameOnce
  <1>2. ASSUME NEW r \in Req, Issue(r) PROVE \A q \in Req : Same(q)
    BY <1>2 DEF Issue, Same, eventVars
  <1>3. ASSUME NEW p \in Port, TxGet(p) \/ TxLaunch(p) PROVE \A q \in Req : Same(q)
    BY <1>3 DEF TxGet, TxLaunch, Same, eventVars
  <1>4. ASSUME NEW n \in Node, E2E(n) PROVE \A q \in Req : Same(q)
    BY <1>4 DEF E2E, E2EDrop, E2EGiveUp, E2ERetransmit, E2EPop, Same, eventVars
  <1>5. ASSUME NEW p \in Port, RxDuplicate(p) \/ RxGetUnmatched(p)
        PROVE  \A q \in Req : Same(q)
    BY <1>5 DEF RxDuplicate, RxGetUnmatched, Same, eventVars
  <1>6. CASE UNCHANGED vars
    BY <1>1, <1>6 DEF vars, Same
  <1>7. ASSUME NEW p \in Port, Tx(p) PROVE \A r \in Req : Once(r)'
    BY <1>1, <1>3, <1>7, TxDoneOnce DEF Tx
  <1>8. ASSUME NEW p \in Port, Rx(p) PROVE \A r \in Req : Once(r)'
    <2>1. CASE RxMatched(p)
      BY <2>1, RxPutMatchedOnce, RxGetMatchedOnce DEF RxMatched
    <2>2. CASE RxUnmatched(p)
      BY <1>1, <1>5, <2>2, RxPutUnmatchedOnce DEF RxUnmatched
    <2> QED
      BY <1>1, <1>5, <1>8, <2>1, <2>2, RxResponseOnce, RxPtlAckOnce, RxE2EAckOnce DEF Rx
  <1> QED
    BY <1>1, <1>2, <1>4, <1>6, <1>7, <1>8 DEF Next

\* The inductive invariant holds in every reachable state.
LEMMA OnceInvariant == Spec => []OnceInv
  BY InitOnce, NextOnce, PTL DEF Spec

\* For every retry limit and every pattern of duplication, the payload of a
\* request is read or written at the target at most once: the process_state
\* check of the request handlers is enough, although an unmatched request
\* passes it again and again.
THEOREM AtMostOnceDelivery == Spec => []DeliveredAtMostOnce
  <1>1. OnceInv => DeliveredAtMostOnce
    BY DEF OnceInv, Once, DeliveredAtMostOnce
  <1> QED
    BY <1>1, OnceInvariant, PTL

\* For every retry limit the user sees the SEND event, the target event and
\* the completion (ACK or REPLY) of an operation at most once each.
THEOREM AtMostOnceEvents == Spec => []EventsAtMostOnce
  <1>1. OnceInv => EventsAtMostOnce
    <2> SUFFICES ASSUME OnceInv, NEW r \in Req
                 PROVE  sendEv[r] <= 1 /\ targetEv[r] <= 1 /\ ackEv[r] + replyEv[r] <= 1
      BY DEF EventsAtMostOnce
    <2>1. Once(r) /\ TypeOK
      BY DEF OnceInv
    <2>2. delivered[r] \in Nat /\ targetEv[r] \in Nat
      BY <2>1, Counters
    <2>3. Kind[r] \in PutLike \/ Kind[r] \in GetLike
      BY <2>1, Counters
    <2> QED
      BY <2>1, <2>2, <2>3 DEF Once
  <1> QED
    BY <1>1, OnceInvariant, PTL

-----------------------------------------------------------------------------
(***************************************************************************)
(* Refinement.  The hard promise of PtlOperation is that a success is only *)
(* told of an operation that took effect: the copy of a failing answer     *)
(* that the E2E actor retransmits has lost its ni_fail_type (BxiMsg's copy *)
(* constructor) and would tell a success.  It never does, because it comes *)
(* behind the failing answer in the same mailbox, and the handler of that  *)
(* one advances process_state.                                             *)
(***************************************************************************)
\* A message on its way out of, or into, a port, is one of an issued request
\* and in the VN of its type.
Leaving(p, m)  == m.req \in issued /\ p[2] = Vn(m.type, m.req)
Arriving(p, m) == m.req \in issued /\ p = <<Target(m), Vn(m.type, m.req)>>

\* A request whose initiator was told is answered, so it passes no duplicate
\* check any more.
ToldInv == \A r \in Req : told[r] # "none" => state[r] >= ANSWERED

\* A request that neither took effect nor was answered; an answer that says
\* it failed; an answer that says, without ground, that it succeeded.
Unserved(r)   == delivered[r] = 0 /\ state[r] <= RECEIVED
Refusal(m, r) == m.req = r /\ m.type \in ResponseTypes /\ m.fail
Groundless(m) == m.type \in ResponseTypes /\ ~m.fail /\ Unserved(m.req)

\* The mailbox of the initiator where all answers to a request arrive.
AnswerPort(r) == <<Src[r], Vn("PTL_ACK", r)>>
RefusedIn(q, r) == \E j \in 1 .. Len(q) : Refusal(q[j], r)
Refused(r)      == RefusedIn(rxq[AnswerPort(r)], r)

TxqInv ==
  \A p \in Port : \A i \in 1 .. Len(txq[p]) :
     /\ Leaving(p, txq[p][i])
     /\ Groundless(txq[p][i]) => Refused(txq[p][i].req)

TxInv ==
  \A p \in Port : tx[p] # Idle =>
     /\ Leaving(p, tx[p].msg)
     /\ tx[p].pc = "init" /\ Groundless(tx[p].msg) => Refused(tx[p].msg.req)

E2EqInv ==
  \A n \in Node : \A i \in 1 .. Len(e2eq[n]) :
     /\ e2eq[n][i].req \in issued
     /\ e2eq[n][i].type \in ResponseTypes /\ Unserved(e2eq[n][i].req)
          => Refused(e2eq[n][i].req)

RxqInv ==
  \A p \in Port : \A i \in 1 .. Len(rxq[p]) :
     /\ Arriving(p, rxq[p][i])
     /\ Groundless(rxq[p][i]) => \E j \in 1 .. i - 1 : Refusal(rxq[p][j], rxq[p][i].req)

FlowInv == TxqInv /\ TxInv /\ E2EqInv /\ RxqInv
OpInv   == OnceInv /\ FlowInv /\ ToldInv

\* What a queue holds after a put,
LEMMA QueuePut ==
  ASSUME NEW S, NEW f \in [S -> Seq(Msg)], NEW x \in S, NEW m \in Msg,
         NEW g, g = [f EXCEPT ![x] = Append(@, m)]
  PROVE  /\ \A y \in S : \A i \in 1 .. Len(f[y]) : i \in 1 .. Len(g[y]) /\ g[y][i] = f[y][i]
         /\ \A y \in S : \A i \in 1 .. Len(g[y]) :
              \/ i \in 1 .. Len(f[y]) /\ g[y][i] = f[y][i]
              \/ y = x /\ i = Len(f[x]) + 1 /\ g[y][i] = m
         /\ Len(f[x]) + 1 \in 1 .. Len(g[x]) /\ g[x][Len(f[x]) + 1] = m
  <1>1. f[x] \in Seq(Msg) /\ g[x] = Append(f[x], m) /\ \A y \in S : y # x => g[y] = f[y]
    OBVIOUS
  <1>2. /\ Len(f[x]) \in Nat /\ Len(g[x]) = Len(f[x]) + 1 /\ g[x][Len(f[x]) + 1] = m
        /\ \A i \in 1 .. Len(f[x]) : g[x][i] = f[x][i]
    BY <1>1
  <1>3. ASSUME NEW y \in S, NEW i \in 1 .. Len(f[y])
        PROVE  i \in 1 .. Len(g[y]) /\ g[y][i] = f[y][i]
    BY <1>1, <1>2
  <1>4. ASSUME NEW y \in S, NEW i \in 1 .. Len(g[y])
        PROVE  \/ i \in 1 .. Len(f[y]) /\ g[y][i] = f[y][i]
               \/ y = x /\ i = Len(f[x]) + 1 /\ g[y][i] = m
    BY <1>1, <1>2
  <1> QED
    BY <1>2, <1>3, <1>4

\* and after a get.
LEMMA QueueGet ==
  ASSUME NEW S, NEW f \in [S -> Seq(Msg)], NEW x \in S, f[x] # <<>>,
         NEW g, g = [f EXCEPT ![x] = Tail(@)]
  PROVE  /\ 1 \in 1 .. Len(f[x]) /\ Head(f[x]) = f[x][1]
         /\ \A i \in 1 .. Len(g[x]) : i + 1 \in 1 .. Len(f[x]) /\ g[x][i] = f[x][i + 1]
         /\ \A i \in 2 .. Len(f[x]) : i - 1 \in 1 .. Len(g[x]) /\ g[x][i - 1] = f[x][i]
         /\ \A y \in S : y # x => g[y] = f[y]
  <1>1. f[x] \in Seq(Msg) /\ g[x] = Tail(f[x]) /\ \A y \in S : y # x => g[y] = f[y]
    OBVIOUS
  <1>2. /\ Len(f[x]) \in Nat /\ Len(f[x]) > 0 /\ Len(g[x]) = Len(f[x]) - 1
        /\ \A i \in 1 .. Len(f[x]) - 1 : g[x][i] = f[x][i + 1]
    BY <1>1
  <1> QED
    BY <1>1, <1>2

\* Answers to a request are routed to its answer port.
LEMMA AnswerRoute ==
  ASSUME NEW p \in Port, NEW m \in Msg, m.type \in ResponseTypes
  PROVE  /\ <<Target(m), Vn(m.type, m.req)>> = AnswerPort(m.req)
         /\ AnswerPort(m.req) \in Port
  <1>1. ~FromInitiator(m)
    BY DEF FromInitiator, ResponseTypes, RequestTypes
  <1>2. Target(m) = Src[m.req]
    BY <1>1 DEF Target
  <1>3. Vn(m.type, m.req) = Vn("PTL_ACK", m.req)
    BY DEF Vn, ResponseTypes, RequestTypes
  <1>4. m.req \in Req
    BY MsgParts
  <1> QED
    BY <1>2, <1>3, <1>4, VnType DEF AnswerPort, Port

\* The response TX queue of an RX actor is the one of the requests it handles.
LEMMA ReplyRoute ==
  ASSUME NEW p \in Port, NEW m \in Msg, NEW h \in Msg, m.req = h.req,
         p[2] = Vn(h.type, h.req), m.type \notin RequestTypes
  PROVE  ReplyPort(p)[2] = Vn(m.type, m.req)
  BY DEF ReplyPort, Vn

\* Requests are not forgotten, a request does not become unserved again, and
\* while it is unserved its refusals stay in the mailbox.
Onward == issued \subseteq issued' /\ \A r \in Req : Unserved(r)' => Unserved(r)
Kept   == \A r \in Req : Refused(r) /\ Unserved(r)' => Refused(r)'

\* A step that leaves a queue or an actor alone keeps its part.
LEMMA UnmovedFlow ==
  ASSUME TypeOK, FlowInv, Onward, Kept
  PROVE  /\ UNCHANGED txq => TxqInv'
         /\ UNCHANGED tx => TxInv'
         /\ UNCHANGED e2eq => E2EqInv'
         /\ UNCHANGED rxq => RxqInv'
  <1>1. ASSUME UNCHANGED txq, NEW p \in Port, NEW i \in 1 .. Len(txq[p])
        PROVE  /\ Leaving(p, txq[p][i])'
               /\ (Groundless(txq[p][i]) => Refused(txq[p][i].req))'
    <2>1. txq[p][i] \in Msg
      BY DEF TypeOK
    <2>2. txq[p][i].req \in Req
      BY <2>1, MsgParts
    <2>3. Leaving(p, txq[p][i]) /\ (Groundless(txq[p][i]) => Refused(txq[p][i].req))
      BY DEF FlowInv, TxqInv
    <2> QED
      BY <1>1, <2>2, <2>3 DEF Leaving, Groundless, Onward, Kept
  <1>2. ASSUME UNCHANGED tx, NEW p \in Port, tx[p] # Idle
        PROVE  /\ Leaving(p, tx[p].msg)'
               /\ (tx[p].pc = "init" /\ Groundless(tx[p].msg) => Refused(tx[p].msg.req))'
    <2>1. tx[p].msg \in Msg
      BY <1>2 DEF TypeOK, Busy
    <2>2. tx[p].msg.req \in Req
      BY <2>1, MsgParts
    <2>3. /\ Leaving(p, tx[p].msg)
          /\ tx[p].pc = "init" /\ Groundless(tx[p].msg) => Refused(tx[p].msg.req)
      BY <1>2 DEF FlowInv, TxInv
    <2> QED
      BY <1>2, <2>2, <2>3 DEF Leaving, Groundless, Onward, Kept
  <1>3. ASSUME UNCHANGED e2eq, NEW n \in Node, NEW i \in 1 .. Len(e2eq[n])
        PROVE  /\ e2eq'[n][i].req \in issued'
               /\ (e2eq[n][i].type \in ResponseTypes /\ Unserved(e2eq[n][i].req)
                     => Refused(e2eq[n][i].req))'
    <2>1. e2eq[n][i] \in Msg
      BY DEF TypeOK
    <2>2. e2eq[n][i].req \in Req
      BY <2>1, MsgParts
    <2> QED
      BY <1>3, <2>2 DEF FlowInv, E2EqInv, Onward, Kept
  <1>4. ASSUME UNCHANGED rxq, NEW p \in Port, NEW i \in 1 .. Len(rxq[p])
        PROVE  /\ Arriving(p, rxq[p][i])'
               /\ (Groundless(rxq[p][i]) =>
                     \E j \in 1 .. i - 1 : Refusal(rxq[p][j], rxq[p][i].req))'
    <2>1. rxq[p][i] \in Msg
      BY DEF TypeOK
    <2>2. rxq[p][i].req \in Req
      BY <2>1, MsgParts
    <2>3. /\ Arriving(p, rxq[p][i])
          /\ Groundless(rxq[p][i]) => \E j \in 1 .. i - 1 : Refusal(rxq[p][j], rxq[p][i].req)
      BY DEF FlowInv, RxqInv
    <2> QED
      BY <1>4, <2>2, <2>3 DEF Arriving, Groundless, Onward
  <1> QED
    BY <1>1, <1>2, <1>3, <1>4 DEF TxqInv, TxInv, E2EqInv, RxqInv

\* A put in a TX queue, of a message that claims nothing without ground.
LEMMA TxqPut ==
  ASSUME TypeOK, FlowInv, Onward, Kept, NEW p \in Port, NEW m \in Msg, Leaving(p, m)',
         Groundless(m)' => Refused(m.req)',
         txq' = [txq EXCEPT ![p] = Append(@, m)]
  PROVE  TxqInv'
  <1> SUFFICES ASSUME NEW y \in Port, NEW i \in 1 .. Len(txq'[y])
               PROVE  /\ Leaving(y, txq[y][i])'
                      /\ (Groundless(txq[y][i]) => Refused(txq[y][i].req))'
    BY DEF TxqInv
  <1>1. txq \in [Port -> Seq(Msg)]
    BY DEF TypeOK
  <1>2. \/ i \in 1 .. Len(txq[y]) /\ txq'[y][i] = txq[y][i]
        \/ y = p /\ txq'[y][i] = m
    BY <1>1, QueuePut
  <1>3. CASE i \in 1 .. Len(txq[y]) /\ txq'[y][i] = txq[y][i]
    <2>1. txq[y][i] \in Msg
      BY <1>1, <1>3
    <2>2. txq[y][i].req \in Req
      BY <2>1, MsgParts
    <2>3. Leaving(y, txq[y][i]) /\ (Groundless(txq[y][i]) => Refused(txq[y][i].req))
      BY <1>3 DEF FlowInv, TxqInv
    <2> QED
      BY <1>3, <2>2, <2>3 DEF Leaving, Groundless, Onward, Kept
  <1>4. CASE y = p /\ txq'[y][i] = m
    BY <1>4 DEF Leaving, Groundless
  <1> QED
    BY <1>2, <1>3, <1>4

\* A put in a mailbox of the RX actors keeps the refusals that are there.
LEMMA RxqPutKept ==
  ASSUME TypeOK, NEW p \in Port, NEW m \in Msg, rxq' = [rxq EXCEPT ![p] = Append(@, m)]
  PROVE  Kept
  <1> SUFFICES ASSUME NEW r \in Req, Refused(r) PROVE Refused(r)'
    BY DEF Kept
  <1>1. rxq \in [Port -> Seq(Msg)]
    BY DEF TypeOK
  <1>2. AnswerPort(r) \in Port
    BY VnType DEF AnswerPort, Port
  <1>3. PICK j \in 1 .. Len(rxq[AnswerPort(r)]) : Refusal(rxq[AnswerPort(r)][j], r)
    BY DEF Refused, RefusedIn
  <1>4. j \in 1 .. Len(rxq'[AnswerPort(r)])
        /\ rxq'[AnswerPort(r)][j] = rxq[AnswerPort(r)][j]
    BY <1>1, <1>2, QueuePut
  <1> QED
    BY <1>3, <1>4 DEF Refused, RefusedIn, AnswerPort

\* An RX actor takes a message h.  If it refuses a request, the request is
\* answered by that; what the actor sends claims nothing without ground.
LEMMA RxFlow ==
  ASSUME TypeOK, FlowInv, Onward, NEW p \in Port, NEW h \in Msg, h = Head(rxq[p]),
         rxq[p] # <<>>, rxq' = [rxq EXCEPT ![p] = Tail(@)],
         UNCHANGED <<issued, tx, e2eq>>,
         h.type \in ResponseTypes => ~Unserved(h.req)',
         \/ UNCHANGED txq
         \/ \E m \in Msg : /\ m.req = h.req /\ m.type \notin RequestTypes
                           /\ ~Groundless(m)' /\ Reply(p, m)
  PROVE  FlowInv'
  <1>1. rxq \in [Port -> Seq(Msg)]
    BY DEF TypeOK
  <1>2. /\ 1 \in 1 .. Len(rxq[p]) /\ h = rxq[p][1]
        /\ \A i \in 1 .. Len(rxq'[p]) :
              i + 1 \in 1 .. Len(rxq[p]) /\ rxq'[p][i] = rxq[p][i + 1]
        /\ \A i \in 2 .. Len(rxq[p]) :
              i - 1 \in 1 .. Len(rxq'[p]) /\ rxq'[p][i - 1] = rxq[p][i]
        /\ \A y \in Port : y # p => rxq'[y] = rxq[y]
    BY <1>1, QueueGet
  <1>3. Kept
    <2> SUFFICES ASSUME NEW r \in Req, Refused(r), Unserved(r)' PROVE Refused(r)'
      BY DEF Kept
    <2> DEFINE a == AnswerPort(r)
    <2>1. a \in Port
      BY VnType DEF AnswerPort, Port
    <2>2. PICK j \in 1 .. Len(rxq[a]) : Refusal(rxq[a][j], r)
      BY DEF Refused, RefusedIn
    <2>3. CASE a # p
      BY <1>2, <2>1, <2>2, <2>3 DEF Refused, RefusedIn, AnswerPort
    <2>4. CASE a = p
      <3>1. j # 1
        BY <1>2, <2>2, <2>4 DEF Refusal
      <3>2. j \in 2 .. Len(rxq[p])
        BY <1>1, <2>2, <2>4, <3>1
      <3>3. j - 1 \in 1 .. Len(rxq'[p]) /\ rxq'[p][j - 1] = rxq[p][j]
        BY <1>2, <3>2
      <3>4. \E k \in 1 .. Len(rxq'[a]) : Refusal(rxq'[a][k], r)
        BY <2>2, <2>4, <3>3
      <3> QED
        BY <3>4 DEF Refused, RefusedIn, AnswerPort
    <2> QED
      BY <2>3, <2>4
  <1>4. TxqInv'
    <2>1. CASE UNCHANGED txq
      BY <1>3, <2>1, UnmovedFlow
    <2>2. ASSUME NEW m \in Msg, m.req = h.req, m.type \notin RequestTypes,
                 ~Groundless(m)', Reply(p, m)
          PROVE  TxqInv'
      <3>1. ReplyPort(p) \in Port
        BY PortParts
      <3>2. Arriving(p, h)
        BY <1>2 DEF FlowInv, RxqInv
      <3>3. h.req \in issued /\ p[2] = Vn(h.type, h.req)
        BY <3>2 DEF Arriving
      <3>4. ReplyPort(p)[2] = Vn(m.type, m.req)
        BY <2>2, <3>3, ReplyRoute
      <3>5. Leaving(ReplyPort(p), m)'
        BY <2>2, <3>3, <3>4 DEF Leaving, ReplyPort
      <3>6. txq' = [txq EXCEPT ![ReplyPort(p)] = Append(@, m)]
        BY <2>2 DEF Reply
      <3> QED
        BY <1>3, <2>2, <3>1, <3>5, <3>6, TxqPut
    <2> QED
      BY <2>1, <2>2
  <1>5. TxInv' /\ E2EqInv'
    BY <1>3, UnmovedFlow
  <1>6. ASSUME NEW y \in Port, NEW i \in 1 .. Len(rxq'[y])
        PROVE  /\ Arriving(y, rxq[y][i])'
               /\ (Groundless(rxq[y][i]) =>
                     \E j \in 1 .. i - 1 : Refusal(rxq[y][j], rxq[y][i].req))'
    <2>1. CASE y # p
      <3>1. rxq'[y] = rxq[y] /\ i \in 1 .. Len(rxq[y])
        BY <1>2, <2>1
      <3>2. rxq[y][i] \in Msg
        BY <1>1, <3>1
      <3>3. rxq[y][i].req \in Req
        BY <3>2, MsgParts
      <3>4. /\ Arriving(y, rxq[y][i])
            /\ Groundless(rxq[y][i]) =>
                 \E j \in 1 .. i - 1 : Refusal(rxq[y][j], rxq[y][i].req)
        BY <3>1 DEF FlowInv, RxqInv
      <3> QED
        BY <3>1, <3>3, <3>4 DEF Arriving, Groundless, Onward
    <2>2. CASE y = p
      <3>1. i \in Nat /\ i + 1 \in 1 .. Len(rxq[p]) /\ rxq'[p][i] = rxq[p][i + 1]
        BY <1>2, <2>2
      <3>2. rxq[p][i + 1] \in Msg
        BY <1>1, <3>1
      <3>3. PICK m \in Msg : m = rxq[p][i + 1]
        BY <3>2
      <3>4. m.req \in Req
        BY MsgParts
      <3>5. /\ Arriving(p, m)
            /\ Groundless(m) => \E j \in 1 .. (i + 1) - 1 : Refusal(rxq[p][j], m.req)
        BY <3>1, <3>3 DEF FlowInv, RxqInv
      <3>6. Arriving(p, m)'
        BY <3>5 DEF Arriving
      <3>7. ASSUME Groundless(m)'
            PROVE  \E j \in 1 .. i - 1 : Refusal(rxq'[p][j], m.req)
        <4>1. Groundless(m) /\ Unserved(m.req)'
          BY <3>4, <3>7 DEF Groundless, Onward
        <4>2. PICK j \in 1 .. i : Refusal(rxq[p][j], m.req)
          BY <3>1, <3>5, <4>1
        <4>3. j # 1
          BY <1>2, <4>1, <4>2 DEF Refusal
        <4>4. j \in 2 .. Len(rxq[p]) /\ j - 1 \in 1 .. i - 1
          BY <1>1, <3>1, <4>2, <4>3
        <4>5. rxq'[p][j - 1] = rxq[p][j]
          BY <1>2, <4>4
        <4> QED
          BY <4>2, <4>4, <4>5
      <3> QED
        BY <2>2, <3>1, <3>3, <3>6, <3>7 DEF Arriving, Groundless
    <2> QED
      BY <2>1, <2>2
  <1>7. RxqInv'
    BY <1>6 DEF RxqInv
  <1> QED
    BY <1>4, <1>5, <1>7 DEF FlowInv

\* PtlPut, PtlGet, PtlAtomic, PtlFetchAtomic: a request, not an answer.
LEMMA IssueFlow ==
  ASSUME TypeOK, FlowInv, NEW r \in Req, Issue(r)
  PROVE  FlowInv'
  <1>1. PICK m \in Msg : m = NewMsg(Kind[r], r, FALSE, "NONE")
    BY NewMsgType DEF MsgTypes, RequestTypes, ResponseTypes
  <1>2. m.type = Kind[r] /\ m.req = r /\ m.type \notin ResponseTypes
    BY <1>1 DEF NewMsg, RequestTypes, ResponseTypes
  <1>3. /\ Onward /\ Kept
    BY DEF Issue, Onward, Kept, Unserved, Refused, eventVars
  <1>4. PICK p \in Port : p = <<Src[r], Vn(Kind[r], r)>>
    BY VnType DEF Port
  <1>5. Leaving(p, m)' /\ ~Groundless(m)'
    BY <1>2, <1>4 DEF Leaving, Groundless, Issue
  <1>6. txq' = [txq EXCEPT ![p] = Append(@, m)] /\ UNCHANGED <<tx, rxq, e2eq>>
    BY <1>1, <1>4 DEF Issue
  <1>7. TxqInv'
    BY <1>3, <1>5, <1>6, TxqPut
  <1> QED
    BY <1>3, <1>6, <1>7, UnmovedFlow DEF FlowInv

\* The TX actor takes the next message of its queue.
LEMMA TxGetFlow ==
  ASSUME TypeOK, FlowInv, NEW p \in Port, TxGet(p)
  PROVE  FlowInv'
  <1>1. txq \in [Port -> Seq(Msg)] /\ tx \in [Port -> {Idle} \cup Busy]
    BY DEF TypeOK
  <1>2. /\ txq[p] # <<>> /\ txq' = [txq EXCEPT ![p] = Tail(@)]
        /\ tx' = [tx EXCEPT ![p] = [pc |-> "init", msg |-> Head(txq[p])]]
        /\ UNCHANGED <<issued, state, delivered, rxq, e2eq>>
    BY DEF TxGet
  <1>3. /\ 1 \in 1 .. Len(txq[p]) /\ Head(txq[p]) = txq[p][1]
        /\ \A i \in 1 .. Len(txq'[p]) :
              i + 1 \in 1 .. Len(txq[p]) /\ txq'[p][i] = txq[p][i + 1]
        /\ \A y \in Port : y # p => txq'[y] = txq[y]
    BY <1>1, <1>2, QueueGet
  <1>4. Onward /\ Kept
    BY <1>2 DEF Onward, Kept, Unserved, Refused
  <1>5. ASSUME NEW y \in Port, NEW i \in 1 .. Len(txq'[y])
        PROVE  /\ Leaving(y, txq[y][i])'
               /\ (Groundless(txq[y][i]) => Refused(txq[y][i].req))'
    <2>1. PICK k \in 1 .. Len(txq[y]) : txq'[y][i] = txq[y][k]
      BY <1>3
    <2>2. Leaving(y, txq[y][k]) /\ (Groundless(txq[y][k]) => Refused(txq[y][k].req))
      BY DEF FlowInv, TxqInv
    <2> QED
      BY <1>2, <2>1, <2>2 DEF Leaving, Groundless, Unserved, Refused
  <1>6. TxqInv'
    BY <1>5 DEF TxqInv
  <1>7. ASSUME NEW y \in Port, tx'[y] # Idle
        PROVE  /\ Leaving(y, tx[y].msg)'
               /\ (tx[y].pc = "init" /\ Groundless(tx[y].msg) => Refused(tx[y].msg.req))'
    <2>1. CASE y = p
      <3>1. tx'[p].msg = txq[p][1]
        BY <1>1, <1>2, <1>3
      <3>2. Leaving(p, txq[p][1]) /\ (Groundless(txq[p][1]) => Refused(txq[p][1].req))
        BY <1>3 DEF FlowInv, TxqInv
      <3> QED
        BY <1>2, <2>1, <3>1, <3>2 DEF Leaving, Groundless, Unserved, Refused
    <2>2. CASE y # p
      <3>1. tx'[y] = tx[y]
        BY <1>1, <1>2, <2>2
      <3>2. /\ Leaving(y, tx[y].msg)
            /\ tx[y].pc = "init" /\ Groundless(tx[y].msg) => Refused(tx[y].msg.req)
        BY <1>7, <3>1 DEF FlowInv, TxInv
      <3> QED
        BY <1>2, <3>1, <3>2 DEF Leaving, Groundless, Unserved, Refused
    <2> QED
      BY <2>1, <2>2
  <1>8. TxInv'
    BY <1>7 DEF TxInv
  <1> QED
    BY <1>2, <1>4, <1>6, <1>8, UnmovedFlow DEF FlowInv

\* The communication starts: the message goes to the mailbox of its target
\* and, with E2E, to the queue of the E2E actor.  A failing answer is from
\* then on the refusal that stands in front of its own copies.
LEMMA TxLaunchFlow ==
  ASSUME TypeOK, FlowInv, NEW p \in Port, TxLaunch(p)
  PROVE  FlowInv'
  <1>1. /\ rxq \in [Port -> Seq(Msg)] /\ tx \in [Port -> {Idle} \cup Busy]
        /\ e2eq \in [Node -> Seq(Msg)]
    BY DEF TypeOK
  <1>2. PICK m \in Msg : m = tx[p].msg /\ tx[p] # Idle /\ tx[p].pc = "init"
    BY TxMsg DEF TxLaunch, Idle
  <1>3. m.req \in Req
    BY MsgParts
  <1>4. Leaving(p, m) /\ (Groundless(m) => Refused(m.req))
    BY <1>2 DEF FlowInv, TxInv
  <1>5. PICK t \in Port : t = <<Target(m), p[2]>>
    BY TargetType, PortParts DEF Port
  <1>6. rxq' = [rxq EXCEPT ![t] = Append(@, m)] /\ UNCHANGED <<issued, state, delivered, txq>>
    BY <1>2, <1>5 DEF TxLaunch
  <1>7. Onward /\ Kept
    BY <1>6, RxqPutKept DEF Onward, Unserved
  <1>8. TxqInv'
    BY <1>6, <1>7, UnmovedFlow
  <1>9. TxInv'
    <2> SUFFICES ASSUME NEW y \in Port, tx'[y] # Idle
                 PROVE  /\ Leaving(y, tx[y].msg)'
                        /\ (tx[y].pc = "init" /\ Groundless(tx[y].msg)
                              => Refused(tx[y].msg.req))'
      BY DEF TxInv
    <2>1. CASE y = p
      <3>1. tx'[p] = [pc |-> "sent", msg |-> m]
        BY <1>1, <1>2, <2>1 DEF TxLaunch
      <3> QED
        BY <1>4, <1>6, <2>1, <3>1 DEF Leaving
    <2>2. CASE y # p
      <3>1. tx'[y] = tx[y]
        BY <1>1, <2>2 DEF TxLaunch
      <3>2. tx[y].msg \in Msg
        BY <3>1 DEF TypeOK, Busy
      <3>3. tx[y].msg.req \in Req
        BY <3>2, MsgParts
      <3>4. /\ Leaving(y, tx[y].msg)
            /\ tx[y].pc = "init" /\ Groundless(tx[y].msg) => Refused(tx[y].msg.req)
        BY <3>1 DEF FlowInv, TxInv
      <3> QED
        BY <1>7, <3>1, <3>3, <3>4 DEF Leaving, Groundless, Onward, Kept
    <2> QED
      BY <2>1, <2>2
  <1>10. ASSUME m.type \in ResponseTypes
         PROVE  t = AnswerPort(m.req)
    BY <1>4, <1>5, <1>10, AnswerRoute DEF Leaving
  <1>11. /\ Len(rxq[t]) + 1 \in 1 .. Len(rxq'[t]) /\ rxq'[t][Len(rxq[t]) + 1] = m
         /\ \A y \in Port : \A i \in 1 .. Len(rxq[y]) : rxq'[y][i] = rxq[y][i]
         /\ \A y \in Port : \A i \in 1 .. Len(rxq'[y]) :
              \/ i \in 1 .. Len(rxq[y]) /\ rxq'[y][i] = rxq[y][i]
              \/ y = t /\ i = Len(rxq[t]) + 1 /\ rxq'[y][i] = m
    BY <1>1, <1>6, QueuePut
  <1>12. ASSUME m.type \in ResponseTypes, Unserved(m.req)
         PROVE  Refused(m.req)'
    <2>1. CASE m.fail
      <3>1. Refusal(rxq'[t][Len(rxq[t]) + 1], m.req)
        BY <1>11, <1>12, <2>1 DEF Refusal
      <3>2. \E k \in 1 .. Len(rxq'[t]) : Refusal(rxq'[t][k], m.req)
        BY <1>11, <3>1
      <3> QED
        BY <1>10, <1>12, <3>2 DEF Refused, RefusedIn, AnswerPort
    <2>2. CASE ~m.fail
      <3>1. Refused(m.req)
        BY <1>4, <1>12, <2>2 DEF Groundless
      <3> QED
        BY <1>3, <1>6, <1>7, <1>12, <3>1 DEF Kept, Unserved
    <2> QED
      BY <2>1, <2>2
  <1>13. E2EqInv'
    <2>1. CASE UNCHANGED e2eq
      BY <1>7, <2>1, UnmovedFlow
    <2>2. CASE e2eq' = [e2eq EXCEPT ![p[1]] = Append(@, m)]
      <3> SUFFICES ASSUME NEW n \in Node, NEW i \in 1 .. Len(e2eq'[n])
                   PROVE  /\ e2eq'[n][i].req \in issued'
                          /\ (e2eq[n][i].type \in ResponseTypes /\ Unserved(e2eq[n][i].req)
                                => Refused(e2eq[n][i].req))'
        BY DEF E2EqInv
      <3>1. \/ i \in 1 .. Len(e2eq[n]) /\ e2eq'[n][i] = e2eq[n][i]
            \/ e2eq'[n][i] = m
        BY <1>1, <2>2, PortParts, QueuePut
      <3>2. CASE i \in 1 .. Len(e2eq[n]) /\ e2eq'[n][i] = e2eq[n][i]
        <4>1. e2eq[n][i] \in Msg
          BY <1>1, <3>2
        <4>2. e2eq[n][i].req \in Req
          BY <4>1, MsgParts
        <4> QED
          BY <1>7, <3>2, <4>2 DEF FlowInv, E2EqInv, Onward, Kept
      <3>3. CASE e2eq'[n][i] = m
        <4>1. m.req \in issued'
          BY <1>4, <1>6 DEF Leaving
        <4>2. m.type \in ResponseTypes /\ Unserved(m.req)' => Refused(m.req)'
          BY <1>3, <1>7, <1>12 DEF Onward
        <4> QED
          BY <3>3, <4>1, <4>2
      <3> QED
        BY <3>1, <3>2, <3>3
    <2> QED
      BY <1>2, <2>1, <2>2 DEF TxLaunch, ProcessMessage
  <1>14. RxqInv'
    <2> SUFFICES ASSUME NEW y \in Port, NEW i \in 1 .. Len(rxq'[y])
                 PROVE  /\ Arriving(y, rxq[y][i])'
                        /\ (Groundless(rxq[y][i]) =>
                              \E j \in 1 .. i - 1 : Refusal(rxq[y][j], rxq[y][i].req))'
      BY DEF RxqInv
    <2>1. CASE i \in 1 .. Len(rxq[y]) /\ rxq'[y][i] = rxq[y][i]
      <3>1. rxq[y][i] \in Msg
        BY <1>1, <2>1
      <3>2. rxq[y][i].req \in Req
        BY <3>1, MsgParts
      <3>3. /\ Arriving(y, rxq[y][i])
            /\ Groundless(rxq[y][i]) =>
                 \E j \in 1 .. i - 1 : Refusal(rxq[y][j], rxq[y][i].req)
        BY <2>1 DEF FlowInv, RxqInv
      <3>4. \A j \in 1 .. i - 1 : rxq'[y][j] = rxq[y][j]
        BY <1>1, <1>11, <2>1
      <3>5. Arriving(y, rxq[y][i])'
        BY <1>6, <2>1, <3>3 DEF Arriving
      <3>6. (Groundless(rxq[y][i]) =>
               \E j \in 1 .. i - 1 : Refusal(rxq[y][j], rxq[y][i].req))'
        BY <1>7, <2>1, <3>2, <3>3, <3>4 DEF Groundless, Onward
      <3> QED
        BY <3>5, <3>6
    <2>2. CASE y = t /\ i = Len(rxq[t]) + 1 /\ rxq'[y][i] = m
      <3>1. Arriving(t, m)'
        BY <1>4, <1>5, <1>6 DEF Arriving, Leaving
      <3>2. ASSUME Groundless(m)'
            PROVE  \E j \in 1 .. i - 1 : Refusal(rxq'[t][j], m.req)
        <4>1. Groundless(m) /\ m.type \in ResponseTypes
          BY <1>3, <1>7, <3>2 DEF Groundless, Onward
        <4>2. Refused(m.req) /\ t = AnswerPort(m.req)
          BY <1>4, <1>10, <4>1
        <4>3. PICK j \in 1 .. Len(rxq[t]) : Refusal(rxq[t][j], m.req)
          BY <4>2 DEF Refused, RefusedIn
        <4>4. Len(rxq[t]) \in Nat
          BY <1>1
        <4> QED
          BY <1>11, <2>2, <4>3, <4>4
      <3> QED
        BY <2>2, <3>1, <3>2 DEF Arriving, Groundless
    <2> QED
      BY <1>11, <2>1, <2>2
  <1> QED
    BY <1>8, <1>9, <1>13, <1>14 DEF FlowInv

\* The end of a communication: the TX actor forgets the message.
LEMMA TxDoneFlow ==
  ASSUME TypeOK, FlowInv, NEW p \in Port, TxDone(p)
  PROVE  FlowInv'
  <1>1. UNCHANGED <<issued, state, delivered, txq, rxq, e2eq>>
    BY DEF TxDone
  <1>2. Onward /\ Kept
    BY <1>1 DEF Onward, Kept, Unserved, Refused
  <1>3. TxInv'
    <2> SUFFICES ASSUME NEW y \in Port, tx'[y] # Idle
                 PROVE  /\ Leaving(y, tx[y].msg)'
                        /\ (tx[y].pc = "init" /\ Groundless(tx[y].msg)
                              => Refused(tx[y].msg.req))'
      BY DEF TxInv
    <2>1. tx'[y] = tx[y]
      BY DEF TypeOK, TxDone
    <2>2. /\ Leaving(y, tx[y].msg)
          /\ tx[y].pc = "init" /\ Groundless(tx[y].msg) => Refused(tx[y].msg.req)
      BY <2>1 DEF FlowInv, TxInv
    <2> QED
      BY <1>1, <2>1, <2>2 DEF Leaving, Groundless, Unserved, Refused
  <1> QED
    BY <1>1, <1>2, <1>3, UnmovedFlow DEF FlowInv

\* The E2E actor drops the head of its queue or retransmits a copy of it,
\* which has lost its failure.
LEMMA E2EFlow ==
  ASSUME TypeOK, FlowInv, NEW n \in Node, E2E(n)
  PROVE  FlowInv'
  <1>1. e2eq \in [Node -> Seq(Msg)]
    BY DEF TypeOK
  <1>2. /\ e2eq[n] # <<>> /\ e2eq' = [e2eq EXCEPT ![n] = Tail(@)]
        /\ UNCHANGED <<issued, state, delivered, tx, rxq>>
    BY DEF E2E, E2EDrop, E2EGiveUp, E2ERetransmit, E2EPop
  <1>3. /\ 1 \in 1 .. Len(e2eq[n]) /\ Head(e2eq[n]) = e2eq[n][1]
        /\ \A i \in 1 .. Len(e2eq'[n]) :
              i + 1 \in 1 .. Len(e2eq[n]) /\ e2eq'[n][i] = e2eq[n][i + 1]
        /\ \A y \in Node : y # n => e2eq'[y] = e2eq[y]
    BY <1>1, <1>2, QueueGet
  <1>4. Onward /\ Kept
    BY <1>2 DEF Onward, Kept, Unserved, Refused
  <1>5. E2EqInv'
    <2> SUFFICES ASSUME NEW y \in Node, NEW i \in 1 .. Len(e2eq'[y])
                 PROVE  /\ e2eq'[y][i].req \in issued'
                        /\ (e2eq[y][i].type \in ResponseTypes /\ Unserved(e2eq[y][i].req)
                              => Refused(e2eq[y][i].req))'
      BY DEF E2EqInv
    <2>1. PICK k \in 1 .. Len(e2eq[y]) : e2eq'[y][i] = e2eq[y][k]
      BY <1>3
    <2> QED
      BY <1>2, <2>1 DEF FlowInv, E2EqInv, Unserved, Refused
  <1>6. TxqInv'
    <2>1. CASE UNCHANGED txq
      BY <1>4, <2>1, UnmovedFlow
    <2>2. CASE E2ERetransmit(n) /\ ~UNCHANGED txq
      <3>1. PICK h \in Msg : h = Head(e2eq[n])
        BY <1>1, <1>2, PopType
      <3>2. h.retry < MaxRetries
        BY <2>2, <3>1 DEF E2ERetransmit
      <3>3. PICK m \in Msg : m = CopyMsg(h, h.retry + 1)
        BY <3>2, CopyMsgType
      <3>4. m.type = h.type /\ m.req = h.req /\ h.req \in Req
        BY <3>3, MsgParts DEF CopyMsg
      <3>5. PICK p \in Port : p = <<n, Vn(h.type, h.req)>>
        BY <3>4, VnType DEF Port
      <3>6. txq' = [txq EXCEPT ![p] = Append(@, m)]
        BY <2>2, <3>1, <3>3, <3>5 DEF E2ERetransmit
      <3>7. /\ h.req \in issued
            /\ h.type \in ResponseTypes /\ Unserved(h.req) => Refused(h.req)
        BY <1>3, <3>1 DEF FlowInv, E2EqInv
      <3>8. Leaving(p, m)'
        BY <1>2, <3>4, <3>5, <3>7 DEF Leaving
      <3>9. Groundless(m)' => Refused(m.req)'
        BY <1>4, <3>4, <3>7 DEF Groundless, Onward, Kept
      <3> QED
        BY <1>4, <3>6, <3>8, <3>9, TxqPut
    <2> QED
      BY <2>1, <2>2 DEF E2E, E2EDrop, E2EGiveUp
  <1> QED
    BY <1>2, <1>4, <1>5, <1>6, UnmovedFlow DEF FlowInv

\* What an RX actor that takes a message does to the queues, if the only
\* request it may serve or answer is the one of the message.
LEMMA RxStepFlow ==
  ASSUME TypeOK, FlowInv, NEW p \in Port, NEW types, RxGet(p, types),
         NEW h \in Msg, h = Head(rxq[p]),
         \A q \in Req \ {h.req} : UNCHANGED <<state[q], delivered[q]>>,
         Unserved(h.req)' => Unserved(h.req) /\ h.type \notin ResponseTypes,
         \/ UNCHANGED txq
         \/ \E m \in Msg : /\ m.req = h.req /\ m.type \notin RequestTypes
                           /\ ~Groundless(m)' /\ Reply(p, m)
  PROVE  FlowInv'
  <1>1. /\ rxq[p] # <<>> /\ rxq' = [rxq EXCEPT ![p] = Tail(@)]
        /\ UNCHANGED <<issued, tx, e2eq>>
    BY DEF RxGet, nicVars
  <1>2. Onward
    <2> SUFFICES ASSUME NEW q \in Req, Unserved(q)' PROVE Unserved(q)
      BY <1>1 DEF Onward
    <2>1. CASE q = h.req
      BY <2>1
    <2>2. CASE q # h.req
      BY <2>2 DEF Unserved
    <2> QED
      BY <2>1, <2>2
  <1>3. h.type \in ResponseTypes => ~Unserved(h.req)'
    OBVIOUS
  <1> QED
    BY <1>1, <1>2, <1>3, RxFlow

\* The message that an RX actor takes.
LEMMA RxTakes ==
  ASSUME TypeOK, NEW p \in Port, NEW types, RxGet(p, types)
  PROVE  \E h \in Msg : h = Head(rxq[p]) /\ h.type \in types /\ h.req \in Req
  BY RxGetType, MsgParts DEF RxGet

\* send_ack, or nothing to send, for a request that is served or refused.
LEMMA SendAckFlow ==
  ASSUME TypeOK, NEW p \in Port, NEW h \in Msg, NEW type \in {"PTL_ACK", "E2E_ACK"},
         NEW fail \in BOOLEAN, NEW s \in {CREATED, RECEIVED}, h.type \in PutLike,
         fail \/ ~Unserved(h.req)',
         SendAck(p, h, type, fail, s) \/ SendNoAck(h.req, s)
  PROVE  \/ UNCHANGED txq
         \/ \E m \in Msg : /\ m.req = h.req /\ m.type \notin RequestTypes
                           /\ ~Groundless(m)' /\ Reply(p, m)
  <1> DEFINE m == NewMsg(type, h.req, fail, h.type)
  <1>1. h.req \in Req /\ Kind[h.req] \in PutLike
    BY MsgParts DEF PutLike, RequestTypes
  <1>2. m \in Msg
    BY <1>1, NewMsgType DEF MsgTypes, RequestTypes, ResponseTypes, PutLike
  <1>3. m.req = h.req /\ m.type \notin RequestTypes /\ m.fail = fail
    BY DEF NewMsg, RequestTypes
  <1>4. PICK k \in Msg : k = m
    BY <1>2
  <1>5. ~Groundless(k)'
    BY <1>3, <1>4 DEF Groundless
  <1>6. UNCHANGED txq \/ Reply(p, k)
    BY <1>4 DEF SendAck, SendNoAck
  <1> QED
    BY <1>3, <1>4, <1>5, <1>6

\* A delivered payload serves its request.
LEMMA DeliverServes ==
  ASSUME OnceInv, NEW r \in Req, state[r] = CREATED, NEW e, Deliver(r, e)
  PROVE  /\ delivered[r] = 0 /\ delivered' = [delivered EXCEPT ![r] = 1]
         /\ delivered'[r] = 1 /\ ~Unserved(r)'
         /\ \A q \in Req \ {r} : delivered'[q] = delivered[q]
  <1>1. TypeOK /\ Once(r)
    BY DEF OnceInv
  <1>2. delivered[r] = 0 /\ delivered \in [Req -> Nat]
    BY <1>1, Fresh DEF TypeOK
  <1>3. delivered' = [delivered EXCEPT ![r] = 1]
    BY <1>2 DEF Deliver, Bump
  <1> QED
    BY <1>2, <1>3 DEF Unserved

\* A matched Put or Atomic,
LEMMA RxPutMatchedFlow ==
  ASSUME OnceInv, FlowInv, NEW p \in Port, NEW e \in Entries, RxPutMatched(p, e)
  PROVE  FlowInv'
  <1>1. TypeOK /\ RxFirst(p, PutLike) /\ RxGet(p, PutLike)
    BY DEF OnceInv, RxPutMatched, RxFirst
  <1>2. PICK h \in Msg : h = Head(rxq[p]) /\ h.type \in PutLike /\ h.req \in Req
    BY <1>1, RxTakes
  <1>3. ~Unserved(h.req)' /\ \A q \in Req \ {h.req} : delivered'[q] = delivered[q]
    BY <1>1, <1>2, DeliverServes DEF RxPutMatched, RxFirst
  <1>4. PICK type \in {"PTL_ACK", "E2E_ACK"} :
           SendAck(p, h, type, FALSE, RECEIVED) \/ SendNoAck(h.req, RECEIVED)
    BY <1>2 DEF RxPutMatched
  <1>5. \A q \in Req \ {h.req} : UNCHANGED state[q]
    BY <1>1, <1>2, <1>4 DEF SendAck, SendNoAck, TypeOK
  <1>6. \/ UNCHANGED txq
        \/ \E m \in Msg : /\ m.req = h.req /\ m.type \notin RequestTypes
                          /\ ~Groundless(m)' /\ Reply(p, m)
    BY <1>1, <1>2, <1>3, <1>4, SendAckFlow
  <1> QED
    BY <1>1, <1>2, <1>3, <1>5, <1>6, RxStepFlow

\* an unmatched one,
LEMMA RxPutUnmatchedFlow ==
  ASSUME OnceInv, FlowInv, NEW p \in Port, RxPutUnmatched(p)
  PROVE  FlowInv'
  <1>1. TypeOK /\ RxFirst(p, PutLike) /\ RxGet(p, PutLike)
    BY DEF OnceInv, RxPutUnmatched, RxFirst
  <1>2. PICK h \in Msg : h = Head(rxq[p]) /\ h.type \in PutLike /\ h.req \in Req
    BY <1>1, RxTakes
  <1>3. UNCHANGED delivered /\ state[h.req] = CREATED
    BY <1>1, <1>2 DEF RxPutUnmatched, RxFirst
  <1>4. SendAck(p, h, "PTL_ACK", TRUE, CREATED) \/ SendNoAck(h.req, CREATED)
    BY <1>2 DEF RxPutUnmatched
  <1>5. \A q \in Req \ {h.req} : UNCHANGED <<state[q], delivered[q]>>
    BY <1>1, <1>2, <1>3, <1>4 DEF SendAck, SendNoAck, TypeOK
  <1>6. Unserved(h.req)' => Unserved(h.req) /\ h.type \notin ResponseTypes
    BY <1>2, <1>3 DEF Unserved, CREATED, RECEIVED, PutLike, ResponseTypes
  <1>7. \/ UNCHANGED txq
        \/ \E m \in Msg : /\ m.req = h.req /\ m.type \notin RequestTypes
                          /\ ~Groundless(m)' /\ Reply(p, m)
    BY <1>1, <1>2, <1>4, SendAckFlow
  <1> QED
    BY <1>1, <1>2, <1>5, <1>6, <1>7, RxStepFlow

\* The answer to a Get or a FetchAtomic is a response of its type.
LEMMA ResponseFlow ==
  ASSUME TypeOK, NEW p \in Port, NEW h \in Msg, h.type \in GetLike, NEW fail \in BOOLEAN,
         fail \/ ~Unserved(h.req)',
         Reply(p, NewMsg(ResponseType(h.type), h.req, fail, "NONE"))
  PROVE  \E m \in Msg : /\ m.req = h.req /\ m.type \notin RequestTypes
                        /\ ~Groundless(m)' /\ Reply(p, m)
  <1> DEFINE m == NewMsg(ResponseType(h.type), h.req, fail, "NONE")
  <1>1. h.req \in Req /\ Kind[h.req] \in GetLike
    BY MsgParts DEF GetLike, RequestTypes
  <1>2. m \in Msg
    BY <1>1, NewMsgType DEF ResponseType, MsgTypes, RequestTypes, ResponseTypes, GetLike
  <1>3. m.req = h.req /\ m.type \notin RequestTypes /\ m.fail = fail
    BY DEF NewMsg, RequestTypes, ResponseType
  <1>4. PICK k \in Msg : k = m
    BY <1>2
  <1>5. ~Groundless(k)'
    BY <1>3, <1>4 DEF Groundless
  <1> QED
    BY <1>3, <1>4, <1>5

\* a matched Get or FetchAtomic,
LEMMA RxGetMatchedFlow ==
  ASSUME OnceInv, FlowInv, NEW p \in Port, NEW e \in Entries, RxGetMatched(p, e)
  PROVE  FlowInv'
  <1>1. TypeOK /\ RxFirst(p, GetLike) /\ RxGet(p, GetLike)
    BY DEF OnceInv, RxGetMatched, RxFirst
  <1>2. PICK h \in Msg : h = Head(rxq[p]) /\ h.type \in GetLike /\ h.req \in Req
    BY <1>1, RxTakes
  <1>3. ~Unserved(h.req)' /\ \A q \in Req \ {h.req} : delivered'[q] = delivered[q]
    BY <1>1, <1>2, DeliverServes DEF RxGetMatched, RxFirst
  <1>4. \A q \in Req \ {h.req} : UNCHANGED state[q]
    BY <1>1, <1>2 DEF RxGetMatched, TypeOK
  <1>5. Reply(p, NewMsg(ResponseType(h.type), h.req, FALSE, "NONE"))
    BY <1>2 DEF RxGetMatched
  <1>6. \E m \in Msg : /\ m.req = h.req /\ m.type \notin RequestTypes
                       /\ ~Groundless(m)' /\ Reply(p, m)
    BY <1>1, <1>2, <1>3, <1>5, ResponseFlow
  <1> QED
    BY <1>1, <1>2, <1>3, <1>4, <1>6, RxStepFlow

\* an unmatched one.
LEMMA RxGetUnmatchedFlow ==
  ASSUME OnceInv, FlowInv, NEW p \in Port, RxGetUnmatched(p)
  PROVE  FlowInv'
  <1>1. TypeOK /\ RxGet(p, GetLike)
    BY DEF OnceInv, RxGetUnmatched, RxFirst
  <1>2. PICK h \in Msg : h = Head(rxq[p]) /\ h.type \in GetLike /\ h.req \in Req
    BY <1>1, RxTakes
  <1>3. UNCHANGED <<state, delivered>>
    BY DEF RxGetUnmatched
  <1>4. Unserved(h.req)' => Unserved(h.req) /\ h.type \notin ResponseTypes
    BY <1>2, <1>3 DEF Unserved, GetLike, ResponseTypes
  <1>5. Reply(p, NewMsg(ResponseType(h.type), h.req, TRUE, "NONE"))
    BY <1>2 DEF RxGetUnmatched
  <1>6. \E m \in Msg : /\ m.req = h.req /\ m.type \notin RequestTypes
                       /\ ~Groundless(m)' /\ Reply(p, m)
    BY <1>1, <1>2, <1>5, ResponseFlow
  <1> QED
    BY <1>1, <1>2, <1>3, <1>4, <1>6, RxStepFlow

\* The answers, Portals ACK or response: the request is answered at the latest
\* by the one that is handled first.
LEMMA RxAnswerFlow ==
  ASSUME OnceInv, FlowInv, NEW p \in Port, RxResponse(p) \/ RxPtlAck(p)
  PROVE  FlowInv'
  <1>1. TypeOK /\ RxGet(p, ResponseTypes)
    BY DEF OnceInv, RxResponse, RxPtlAck, RxGet, ResponseTypes
  <1>2. PICK h \in Msg : h = Head(rxq[p]) /\ h.type \in ResponseTypes /\ h.req \in Req
    BY <1>1, RxTakes
  <1>3. state[h.req] \in {CREATED, RECEIVED, ANSWERED, FINISHED}
    BY <1>1, <1>2, Counters
  <1>4. /\ UNCHANGED delivered
        /\ \/ state' = [state EXCEPT ![h.req] = ANSWERED]
           \/ state' = state /\ ~(state[h.req] <= RECEIVED)
    <2>1. (state[h.req] > RECEIVED) <=> ~(state[h.req] <= RECEIVED)
      BY <1>3 DEF CREATED, RECEIVED, ANSWERED, FINISHED
    <2>2. CASE RxResponse(p)
      BY <1>2, <2>1, <2>2 DEF RxResponse
    <2>3. CASE RxPtlAck(p)
      BY <1>2, <2>3 DEF RxPtlAck
    <2> QED
      BY <2>2, <2>3
  <1>5. ~Unserved(h.req)' /\ \A q \in Req \ {h.req} : UNCHANGED <<state[q], delivered[q]>>
    <2>1. CASE state' = [state EXCEPT ![h.req] = ANSWERED]
      <3>1. state'[h.req] = ANSWERED /\ \A q \in Req \ {h.req} : state'[q] = state[q]
        BY <1>1, <1>2, <2>1, SetState
      <3> QED
        BY <1>4, <3>1 DEF Unserved, RECEIVED, ANSWERED
    <2>2. CASE state' = state /\ ~(state[h.req] <= RECEIVED)
      BY <1>4, <2>2 DEF Unserved
    <2> QED
      BY <1>4, <2>1, <2>2
  <1> DEFINE m == NewMsg("E2E_ACK", h.req, FALSE, h.type)
  <1>6. PICK k \in Msg : k = m
    BY <1>2, NewMsgType DEF MsgTypes, RequestTypes, ResponseTypes
  <1>7. k.req = h.req /\ k.type \notin RequestTypes /\ k.type \notin ResponseTypes
    BY <1>6 DEF NewMsg, RequestTypes, ResponseTypes
  <1>8. ~Groundless(k)'
    BY <1>7 DEF Groundless
  <1>9. UNCHANGED txq \/ Reply(p, k)
    BY <1>2, <1>6 DEF RxResponse, RxPtlAck
  <1> QED
    BY <1>1, <1>2, <1>5, <1>7, <1>8, <1>9, RxStepFlow

\* Duplicates of requests and E2E ACKs are not answered.
LEMMA RxSilentFlow ==
  ASSUME OnceInv, FlowInv, NEW p \in Port, RxDuplicate(p) \/ RxE2EAck(p)
  PROVE  FlowInv'
  <1>1. TypeOK /\ RxGet(p, RequestTypes \cup {"E2E_ACK"})
    BY DEF OnceInv, RxDuplicate, RxE2EAck, RxGet
  <1>2. PICK h \in Msg : /\ h = Head(rxq[p]) /\ h.type \in RequestTypes \cup {"E2E_ACK"}
                         /\ h.req \in Req
    BY <1>1, RxTakes
  <1>3. /\ UNCHANGED <<txq, delivered>>
        /\ state' = state \/ state' = [state EXCEPT ![h.req] = FINISHED]
    BY <1>2 DEF RxDuplicate, RxE2EAck
  <1>4. \A q \in Req \ {h.req} : UNCHANGED <<state[q], delivered[q]>>
    BY <1>1, <1>2, <1>3 DEF TypeOK
  <1>5. Unserved(h.req)' => Unserved(h.req) /\ h.type \notin ResponseTypes
    <2>1. h.type \notin ResponseTypes
      BY <1>2 DEF ResponseTypes, RequestTypes
    <2>2. CASE state' = state
      BY <1>3, <2>1, <2>2 DEF Unserved
    <2>3. CASE state' = [state EXCEPT ![h.req] = FINISHED]
      <3>1. state'[h.req] = FINISHED
        BY <1>1, <1>2, <2>3, SetState
      <3> QED
        BY <3>1 DEF Unserved, RECEIVED, FINISHED
    <2> QED
      BY <1>3, <2>2, <2>3
  <1> QED
    BY <1>1, <1>2, <1>3, <1>4, <1>5, RxStepFlow

\* Every step keeps the places and the order of the messages.
LEMMA NextFlow ==
  ASSUME OnceInv, FlowInv, [Next]_vars
  PROVE  FlowInv'
  <1>1. TypeOK
    BY DEF OnceInv
  <1>2. CASE UNCHANGED vars
    <2>1. UNCHANGED <<issued, state, delivered, txq, tx, rxq, e2eq>>
      BY <1>2 DEF vars
    <2>2. Onward /\ Kept
      BY <2>1 DEF Onward, Kept, Unserved, Refused
    <2> QED
      BY <1>1, <2>1, <2>2, UnmovedFlow DEF FlowInv
  <1>3. ASSUME NEW p \in Port, Tx(p) PROVE FlowInv'
    BY <1>1, <1>3, TxGetFlow, TxLaunchFlow, TxDoneFlow DEF Tx
  <1>4. ASSUME NEW p \in Port, Rx(p) PROVE FlowInv'
    BY <1>4, RxPutMatchedFlow, RxGetMatchedFlow, RxPutUnmatchedFlow, RxGetUnmatchedFlow,
       RxAnswerFlow, RxSilentFlow DEF Rx, RxMatched, RxUnmatched
  <1> QED
    BY <1>1, <1>2, <1>3, <1>4, IssueFlow, E2EFlow DEF Next

\* What a step is for the abstract specification, and that a request is
\* answered when its initiator is told.
Implemented == ToldInv' /\ [Operation!Next]_(Operation!vars)

\* A step that neither issues, serves nor completes an operation.
LEMMA StutterOp ==
  ASSUME OpInv, UNCHANGED <<issued, delivered, told>>,
         \A r \in Req : state[r] >= ANSWERED => state'[r] >= ANSWERED
  PROVE  Implemented
  <1>1. ToldInv'
    BY DEF OpInv, ToldInv
  <1> QED
    BY <1>1 DEF Implemented, Operation!vars

\* A step that completes request r at most: not before it is issued, not
\* twice, and with a success only if it took effect.
LEMMA CompleteOp ==
  ASSUME OpInv, NEW r \in issued, NEW fail \in BOOLEAN, told[r] = "none", Tell(r, fail),
         ~fail => delivered[r] = 1, UNCHANGED <<issued, delivered>>,
         state'[r] >= ANSWERED, \A q \in Req \ {r} : state'[q] = state[q]
  PROVE  Implemented
  <1>1. TypeOK /\ r \in Req
    BY DEF OpInv, OnceInv, TypeOK
  <1>2. PICK status \in {"ok", "fail"} : status = IF fail THEN "fail" ELSE "ok"
    OBVIOUS
  <1>3. told' = [told EXCEPT ![r] = status]
    BY <1>2 DEF Tell
  <1>4. ToldInv'
    BY <1>1, <1>3 DEF OpInv, ToldInv, TypeOK
  <1>5. Operation!Complete(r, status)
    BY <1>2, <1>3 DEF Operation!Complete
  <1>6. Operation!Next
    BY <1>1, <1>5 DEF Operation!Next
  <1> QED
    BY <1>4, <1>6 DEF Implemented

\* The request of a message that an RX actor takes was issued, and nobody was
\* told of it if it passes a duplicate check.
LEMMA TakenRequest ==
  ASSUME OpInv, NEW p \in Port, NEW types, RxGet(p, types)
  PROVE  /\ Head(rxq[p]).req \in issued
         /\ state[Head(rxq[p]).req] <= RECEIVED => told[Head(rxq[p]).req] = "none"
  <1>1. TypeOK
    BY DEF OpInv, OnceInv
  <1>2. PICK h \in Msg : h = Head(rxq[p]) /\ h.req \in Req
    BY <1>1, RxTakes
  <1>3. 1 \in 1 .. Len(rxq[p]) /\ h = rxq[p][1]
    <2>1. rxq \in [Port -> Seq(Msg)] /\ rxq[p] # <<>>
      BY <1>1 DEF TypeOK, RxGet
    <2> QED
      BY <1>2, <2>1, QueueGet
  <1>4. Arriving(p, h)
    BY <1>3 DEF OpInv, FlowInv, RxqInv
  <1>5. h.req \in issued
    BY <1>4 DEF Arriving
  <1>6. state[h.req] <= RECEIVED => told[h.req] = "none"
    <2>1. state[h.req] \in {CREATED, RECEIVED, ANSWERED, FINISHED}
      BY <1>1, <1>2, Counters
    <2>2. told[h.req] # "none" => state[h.req] >= ANSWERED
      BY <1>2 DEF OpInv, ToldInv
    <2> QED
      BY <2>1, <2>2 DEF CREATED, RECEIVED, ANSWERED, FINISHED
  <1> QED
    BY <1>2, <1>5, <1>6

\* A matched Put or Atomic takes effect, with quick ACKs it completes as well.
LEMMA RxPutMatchedOp ==
  ASSUME OpInv, NEW p \in Port, NEW e \in Entries, RxPutMatched(p, e)
  PROVE  Implemented
  <1>1. OnceInv /\ TypeOK /\ RxGet(p, PutLike)
    BY DEF OpInv, OnceInv, RxPutMatched, RxFirst
  <1>2. PICK r \in Req : r = Head(rxq[p]).req /\ state[r] = CREATED
    BY <1>1, RxTakes DEF RxPutMatched, RxFirst
  <1>3. r \in issued /\ told[r] = "none"
    BY <1>1, <1>2, TakenRequest DEF CREATED, RECEIVED
  <1>4. delivered[r] = 0 /\ delivered' = [delivered EXCEPT ![r] = 1]
    BY <1>1, <1>2, DeliverServes DEF RxPutMatched
  <1>5. UNCHANGED issued
    BY <1>1 DEF RxGet, nicVars
  <1>6. CASE UNCHANGED told /\ state' = [state EXCEPT ![r] = RECEIVED]
    <2>1. \A q \in Req \ {r} : state'[q] = state[q]
      BY <1>1, <1>6, SetState
    <2>2. ToldInv'
      BY <1>3, <1>6, <2>1 DEF OpInv, ToldInv
    <2>3. Operation!TakeEffect(r)
      BY <1>3, <1>4, <1>5, <1>6 DEF Operation!TakeEffect
    <2> QED
      BY <2>2, <2>3 DEF Implemented, Operation!Next
  <1>7. CASE Tell(r, FALSE) /\ state' = [state EXCEPT ![r] = FINISHED]
    <2>1. state'[r] = FINISHED /\ \A q \in Req \ {r} : state'[q] = state[q]
      BY <1>1, <1>7, SetState
    <2>2. told' = [told EXCEPT ![r] = "ok"]
      BY <1>3, <1>7 DEF Tell
    <2>3. \A q \in Req \ {r} : told'[q] = told[q]
      BY <1>1, <2>2 DEF TypeOK
    <2>4. state'[r] >= ANSWERED
      BY <2>1 DEF ANSWERED, FINISHED
    <2>5. ToldInv'
      BY <2>1, <2>3, <2>4 DEF OpInv, ToldInv
    <2>6. Operation!EffectAndComplete(r)
      BY <1>3, <1>4, <1>5, <2>2 DEF Operation!EffectAndComplete
    <2> QED
      BY <2>5, <2>6 DEF Implemented, Operation!Next
  <1> QED
    BY <1>2, <1>6, <1>7 DEF RxPutMatched, SendAck, SendNoAck, IssueAck

\* An unmatched one has no effect; with quick ACKs its failure is told.
LEMMA RxPutUnmatchedOp ==
  ASSUME OpInv, NEW p \in Port, RxPutUnmatched(p)
  PROVE  Implemented
  <1>1. TypeOK /\ RxGet(p, PutLike)
    BY DEF OpInv, OnceInv, RxPutUnmatched, RxFirst
  <1>2. PICK r \in Req : r = Head(rxq[p]).req /\ state[r] = CREATED
    BY <1>1, RxTakes DEF RxPutUnmatched, RxFirst
  <1>3. r \in issued /\ told[r] = "none"
    BY <1>1, <1>2, TakenRequest DEF CREATED, RECEIVED
  <1>4. UNCHANGED <<issued, delivered>>
    BY <1>1 DEF RxGet, nicVars, RxPutUnmatched
  <1>5. CASE UNCHANGED told /\ state' = [state EXCEPT ![r] = CREATED]
    <2>1. state' = state
      BY <1>1, <1>2, <1>5 DEF TypeOK
    <2> QED
      BY <1>4, <1>5, <2>1, StutterOp
  <1>6. CASE Tell(r, TRUE) /\ state' = [state EXCEPT ![r] = FINISHED]
    <2>1. state'[r] = FINISHED /\ \A q \in Req \ {r} : state'[q] = state[q]
      BY <1>1, <1>6, SetState
    <2>2. state'[r] >= ANSWERED
      BY <2>1 DEF ANSWERED, FINISHED
    <2> QED
      BY <1>3, <1>4, <1>6, <2>1, <2>2, CompleteOp
  <1> QED
    BY <1>2, <1>5, <1>6 DEF RxPutUnmatched, SendAck, SendNoAck, IssueAck

\* A matched Get or FetchAtomic takes effect.
LEMMA RxGetMatchedOp ==
  ASSUME OpInv, NEW p \in Port, NEW e \in Entries, RxGetMatched(p, e)
  PROVE  Implemented
  <1>1. OnceInv /\ TypeOK /\ RxGet(p, GetLike)
    BY DEF OpInv, OnceInv, RxGetMatched, RxFirst
  <1>2. PICK r \in Req : r = Head(rxq[p]).req /\ state[r] = CREATED
    BY <1>1, RxTakes DEF RxGetMatched, RxFirst
  <1>3. r \in issued /\ told[r] = "none"
    BY <1>1, <1>2, TakenRequest DEF CREATED, RECEIVED
  <1>4. delivered[r] = 0 /\ delivered' = [delivered EXCEPT ![r] = 1]
    BY <1>1, <1>2, DeliverServes DEF RxGetMatched
  <1>5. UNCHANGED <<issued, told>> /\ state' = [state EXCEPT ![r] = RECEIVED]
    BY <1>1, <1>2 DEF RxGet, nicVars, RxGetMatched, eventVars
  <1>6. \A q \in Req \ {r} : state'[q] = state[q]
    BY <1>1, <1>5, SetState
  <1>7. ToldInv'
    BY <1>3, <1>5, <1>6 DEF OpInv, ToldInv
  <1>8. Operation!TakeEffect(r)
    BY <1>3, <1>4, <1>5 DEF Operation!TakeEffect
  <1> QED
    BY <1>7, <1>8 DEF Implemented, Operation!Next

\* The answer that is handled first completes the operation.  If it says that
\* the operation succeeded, no refusal is in front of it: it took effect.
LEMMA RxAnswerOp ==
  ASSUME OpInv, NEW p \in Port, RxResponse(p) \/ RxPtlAck(p)
  PROVE  Implemented
  <1>1. OnceInv /\ TypeOK /\ RxGet(p, ResponseTypes)
    BY DEF OpInv, OnceInv, RxResponse, RxPtlAck, RxGet, ResponseTypes
  <1>2. PICK h \in Msg : h = Head(rxq[p]) /\ h.type \in ResponseTypes /\ h.req \in Req
    BY <1>1, RxTakes
  <1>3. PICK r \in Req : r = h.req
    BY <1>2
  <1>4. state[r] \in {CREATED, RECEIVED, ANSWERED, FINISHED}
    BY <1>1, Counters
  <1>5. UNCHANGED <<issued, delivered>>
    BY <1>1 DEF RxGet, nicVars, RxResponse, RxPtlAck
  <1>6. CASE state' = state /\ told' = told
    BY <1>5, <1>6, StutterOp
  <1>7. CASE /\ state[r] <= RECEIVED /\ state' = [state EXCEPT ![r] = ANSWERED]
             /\ Tell(r, h.fail)
    <2>1. state'[r] = ANSWERED /\ \A q \in Req \ {r} : state'[q] = state[q]
      BY <1>1, <1>7, SetState
    <2>2. state'[r] >= ANSWERED
      BY <2>1 DEF ANSWERED
    <2>3. r \in issued /\ told[r] = "none"
      BY <1>1, <1>2, <1>3, <1>7, TakenRequest
    <2>4. h.fail \in BOOLEAN
      BY MsgParts
    <2>5. ASSUME ~h.fail PROVE delivered[r] = 1
      <3>1. 1 \in 1 .. Len(rxq[p]) /\ h = rxq[p][1]
        <4>1. rxq \in [Port -> Seq(Msg)] /\ rxq[p] # <<>>
          BY <1>1 DEF TypeOK, RxGet
        <4> QED
          BY <1>2, <4>1, QueueGet
      <3>2. Groundless(h) => \E j \in 1 .. 1 - 1 : Refusal(rxq[p][j], h.req)
        BY <3>1 DEF OpInv, FlowInv, RxqInv
      <3>3. ~Groundless(h)
        BY <3>2
      <3>4. delivered[r] # 0
        BY <1>2, <1>3, <1>7, <2>5, <3>3 DEF Groundless, Unserved
      <3>5. delivered[r] \in Nat /\ delivered[r] <= 1
        BY <1>1, Counters DEF OnceInv, Once
      <3> QED
        BY <3>4, <3>5
    <2> QED
      BY <1>5, <1>7, <2>1, <2>2, <2>3, <2>4, <2>5, CompleteOp
  <1>8. (state[r] > RECEIVED) <=> ~(state[r] <= RECEIVED)
    BY <1>4 DEF CREATED, RECEIVED, ANSWERED, FINISHED
  <1>9. CASE RxResponse(p)
    BY <1>2, <1>3, <1>6, <1>7, <1>8, <1>9 DEF RxResponse
  <1>10. CASE RxPtlAck(p)
    BY <1>2, <1>3, <1>6, <1>7, <1>10 DEF RxPtlAck, IssueAck
  <1> QED
    BY <1>9, <1>10

\* An E2E ACK finishes a request and tells the user nothing new.
LEMMA RxE2EAckOp ==
  ASSUME OpInv, NEW p \in Port, RxE2EAck(p)
  PROVE  Implemented
  <1>1. TypeOK /\ RxGet(p, {"E2E_ACK"})
    BY DEF OpInv, OnceInv, RxE2EAck
  <1>2. PICK r \in Req : r = Head(rxq[p]).req
    BY <1>1, RxTakes
  <1>3. UNCHANGED <<issued, delivered, told>>
    BY <1>1 DEF RxGet, nicVars, RxE2EAck
  <1>4. state' = state \/ state' = [state EXCEPT ![r] = FINISHED]
    BY <1>2 DEF RxE2EAck
  <1>5. ASSUME NEW q \in Req, state[q] >= ANSWERED PROVE state'[q] >= ANSWERED
    <2>1. CASE state' = [state EXCEPT ![r] = FINISHED]
      <3>1. state'[r] = FINISHED /\ (q # r => state'[q] = state[q])
        BY <1>1, <2>1, SetState
      <3> QED
        BY <1>5, <3>1 DEF ANSWERED, FINISHED
    <2> QED
      BY <1>4, <1>5, <2>1
  <1> QED
    BY <1>3, <1>5, StutterOp

\* Every step of the transport is a step of the abstract specification or
\* leaves its variables alone.
LEMMA NextOp ==
  ASSUME OpInv, [Next]_vars
  PROVE  Implemented
  <1>1. ASSUME UNCHANGED <<issued, delivered, told, state>> PROVE Implemented
    BY <1>1, StutterOp
  <1>2. ASSUME NEW r \in Req, Issue(r) PROVE Implemented
    <2>1. Operation!Issue(r)
      BY <1>2 DEF Issue, eventVars, Operation!Issue
    <2>2. ToldInv'
      BY <1>2 DEF Issue, eventVars, OpInv, ToldInv
    <2> QED
      BY <2>1, <2>2 DEF Implemented, Operation!Next
  <1>3. ASSUME NEW p \in Port, Tx(p) PROVE Implemented
    BY <1>1, <1>3 DEF Tx, TxGet, TxLaunch, TxDone, eventVars
  <1>4. ASSUME NEW n \in Node, E2E(n) PROVE Implemented
    BY <1>1, <1>4 DEF E2E, E2EDrop, E2EGiveUp, E2ERetransmit, E2EPop, eventVars
  <1>5. ASSUME NEW p \in Port, Rx(p) PROVE Implemented
    <2>1. CASE RxDuplicate(p) \/ RxGetUnmatched(p)
      BY <1>1, <2>1 DEF RxDuplicate, RxGetUnmatched, RxFirst, RxGet, nicVars, eventVars
    <2> QED
      BY <1>5, <2>1, RxPutMatchedOp, RxGetMatchedOp, RxPutUnmatchedOp, RxAnswerOp,
         RxE2EAckOp DEF Rx, RxMatched, RxUnmatched
  <1>6. CASE UNCHANGED vars
    BY <1>1, <1>6 DEF vars
  <1> QED
    BY <1>2, <1>3, <1>4, <1>5, <1>6 DEF Next

\* Nothing is queued and nobody was told anything at the start.
LEMMA InitOp == Init => OpInv /\ Operation!Init
  <1> SUFFICES ASSUME Init PROVE OpInv /\ Operation!Init
    OBVIOUS
  <1>1. FlowInv
    BY DEF Init, FlowInv, TxqInv, TxInv, E2EqInv, RxqInv
  <1>2. ToldInv /\ Operation!Init
    BY DEF Init, ToldInv, Operation!Init
  <1> QED
    BY <1>1, <1>2, InitOnce DEF OpInv

\* The inductive invariant of the refinement holds in every reachable state.
LEMMA OpInvariant == Spec => []OpInv
  <1>1. OpInv /\ [Next]_vars => OpInv'
    BY NextOnce, NextFlow, NextOp DEF OpInv, Implemented
  <1> QED
    BY <1>1, InitOp, PTL DEF Spec

\* For every cluster, every retry limit and every setting of the options the
\* transport implements PtlOperation: an operation takes effect at most once,
\* completes at most once, is told a success only after it took effect and
\* takes no effect after its completion, although a retransmitted failing
\* answer has forgotten that it failed.
THEOREM TransportImplementsOperation == Spec => ImplementsOperation
  <1>1. OpInv /\ [Next]_vars => [Operation!Next]_(Operation!vars)
    BY NextOp DEF Implemented
  <1> QED
    BY <1>1, InitOp, OpInvariant, PTL DEF Spec, ImplementsOperation, Operation!Spec

-----------------------------------------------------------------------------
(***************************************************************************)
(* SEND events.  A finished Put or Atomic has its SEND event unless the    *)
(* matching entry suppressed the Portals ACK that the user asked for: then *)
(* handle_bxi_ack finishes the request and issues nothing.                 *)
(***************************************************************************)
\* No entry suppresses an ACK that was asked for.
AcksEnabled ==
  \A r \in Req : AckReq[r] # "NO_ACK_REQ" => \A e \in Outcome[r] : ~e.ackDisable

\* The messages in queues, mailboxes and TX actors, and those that the E2E
\* actors watch.
Flying ==
  {m \in Msg : \/ \E p \in Port : \E i \in 1 .. Len(txq[p]) : m = txq[p][i]
               \/ \E p \in Port : tx[p] # Idle /\ m = tx[p].msg
               \/ \E p \in Port : \E i \in 1 .. Len(rxq[p]) : m = rxq[p][i]}
Watched == {m \in Msg : \E n \in Node : \E i \in 1 .. Len(e2eq[n]) : m = e2eq[n][i]}

\* What a put in a queue adds to the messages.
LEMMA PutAdds ==
  ASSUME NEW S, NEW f \in [S -> Seq(Msg)], NEW x \in S, NEW m \in Msg,
         NEW g, g = [f EXCEPT ![x] = Append(@, m)], NEW k,
         \E y \in S : \E i \in 1 .. Len(g[y]) : k = g[y][i]
  PROVE  k = m \/ \E y \in S : \E i \in 1 .. Len(f[y]) : k = f[y][i]
  <1>0. PICK y \in S : \E i \in 1 .. Len(g[y]) : k = g[y][i]
    OBVIOUS
  <1>1. PICK i \in 1 .. Len(g[y]) : k = g[y][i]
    BY <1>0
  <1>2. \/ i \in 1 .. Len(f[y]) /\ g[y][i] = f[y][i]
        \/ g[y][i] = m
    BY QueuePut
  <1> QED
    BY <1>1, <1>2

\* What a get leaves.
LEMMA GetLeaves ==
  ASSUME NEW S, NEW f \in [S -> Seq(Msg)], NEW x \in S, f[x] # <<>>,
         NEW g, g = [f EXCEPT ![x] = Tail(@)]
  PROVE  /\ \E i \in 1 .. Len(f[x]) : Head(f[x]) = f[x][i]
         /\ \A k : (\E y \in S : \E i \in 1 .. Len(g[y]) : k = g[y][i])
                     => \E y \in S : \E i \in 1 .. Len(f[y]) : k = f[y][i]
  <1>1. /\ 1 \in 1 .. Len(f[x]) /\ Head(f[x]) = f[x][1]
        /\ \A i \in 1 .. Len(g[x]) : i + 1 \in 1 .. Len(f[x]) /\ g[x][i] = f[x][i + 1]
        /\ \A y \in S : y # x => g[y] = f[y]
    BY QueueGet
  <1>2. ASSUME NEW y \in S, NEW i \in 1 .. Len(g[y])
        PROVE  \E j \in 1 .. Len(f[y]) : g[y][i] = f[y][j]
    BY <1>1
  <1> QED
    BY <1>1, <1>2

\* PtlPut and the others add one message.
LEMMA IssueFlies ==
  ASSUME TypeOK, NEW r \in Req, Issue(r)
  PROVE  /\ \A m \in Flying' : m \in Flying \/ m.type \in RequestTypes
         /\ Watched' = Watched
  <1>1. PICK k \in Msg : k = NewMsg(Kind[r], r, FALSE, "NONE")
    BY NewMsgType DEF MsgTypes, RequestTypes, ResponseTypes
  <1>2. PICK p \in Port : p = <<Src[r], Vn(Kind[r], r)>>
    BY VnType DEF Port
  <1>3. /\ txq' = [txq EXCEPT ![p] = Append(@, k)] /\ UNCHANGED <<tx, rxq, e2eq>>
        /\ txq \in [Port -> Seq(Msg)]
    BY <1>1, <1>2 DEF Issue, TypeOK
  <1>4. k.type \in RequestTypes
    BY <1>1 DEF NewMsg
  <1>5. ASSUME NEW m \in Flying' PROVE m \in Flying \/ m = k
    BY <1>3, <1>5, PutAdds DEF Flying
  <1> QED
    BY <1>3, <1>4, <1>5 DEF Watched

\* The TX actors move messages; what they let the E2E actor watch is not an
\* E2E ACK.
LEMMA TxFlies ==
  ASSUME TypeOK, NEW p \in Port, Tx(p)
  PROVE  /\ Flying' \subseteq Flying
         /\ \A m \in Watched' : m \in Watched \/ m.type # "E2E_ACK"
  <1>1. /\ txq \in [Port -> Seq(Msg)] /\ rxq \in [Port -> Seq(Msg)]
        /\ e2eq \in [Node -> Seq(Msg)] /\ tx \in [Port -> {Idle} \cup Busy]
    BY DEF TypeOK
  <1>2. CASE TxGet(p)
    <2>1. /\ txq[p] # <<>> /\ txq' = [txq EXCEPT ![p] = Tail(@)] /\ UNCHANGED <<rxq, e2eq>>
          /\ tx' = [tx EXCEPT ![p] = [pc |-> "init", msg |-> Head(txq[p])]]
      BY <1>2 DEF TxGet
    <2>2. /\ \E i \in 1 .. Len(txq[p]) : Head(txq[p]) = txq[p][i]
          /\ \A k : (\E y \in Port : \E i \in 1 .. Len(txq'[y]) : k = txq'[y][i])
                       => \E y \in Port : \E i \in 1 .. Len(txq[y]) : k = txq[y][i]
      BY <1>1, <2>1, GetLeaves
    <2>3. \A y \in Port : tx'[y].msg = Head(txq[p]) \/ tx'[y] = tx[y]
      BY <1>1, <2>1
    <2> QED
      BY <2>1, <2>2, <2>3 DEF Flying, Watched
  <1>3. CASE TxLaunch(p)
    <2>1. PICK k \in Msg : k = tx[p].msg /\ tx[p] # Idle
      BY <1>3, TxMsg DEF TxLaunch, Idle
    <2>2. PICK t \in Port : t = <<Target(k), p[2]>>
      BY TargetType, PortParts DEF Port
    <2>3. rxq' = [rxq EXCEPT ![t] = Append(@, k)] /\ UNCHANGED txq
      BY <1>3, <2>1, <2>2 DEF TxLaunch
    <2>4. \A y \in Port : tx'[y] = tx[y] \/ tx'[y] = Idle \/ (y = p /\ tx'[y].msg = k)
      BY <1>1, <1>3, <2>1 DEF TxLaunch
    <2>5. Flying' \subseteq Flying
      <3> SUFFICES ASSUME NEW m \in Flying' PROVE m \in Flying
        OBVIOUS
      <3>1. k \in Flying
        BY <2>1 DEF Flying
      <3>2. CASE \E y \in Port : \E i \in 1 .. Len(rxq'[y]) : m = rxq'[y][i]
        <4>1. m = k \/ \E y \in Port : \E i \in 1 .. Len(rxq[y]) : m = rxq[y][i]
          BY <1>1, <2>3, <3>2, PutAdds
        <4> QED
          BY <3>1, <4>1 DEF Flying
      <3> QED
        BY <2>3, <2>4, <3>1, <3>2 DEF Flying
    <2>6. CASE UNCHANGED e2eq
      BY <2>5, <2>6 DEF Watched
    <2>7. CASE e2eq' = [e2eq EXCEPT ![p[1]] = Append(@, k)] /\ k.type # "E2E_ACK"
      <3>1. p[1] \in Node
        BY PortParts
      <3>2. ASSUME NEW m \in Watched' PROVE m = k \/ m \in Watched
        BY <1>1, <2>7, <3>1, <3>2, PutAdds DEF Watched
      <3> QED
        BY <2>5, <2>7, <3>2
    <2> QED
      BY <1>3, <2>1, <2>6, <2>7 DEF TxLaunch, ProcessMessage
  <1>4. CASE TxDone(p)
    <2>1. UNCHANGED <<txq, rxq, e2eq>> /\ \A y \in Port : tx'[y] = tx[y] \/ tx'[y] = Idle
      BY <1>1, <1>4 DEF TxDone
    <2> QED
      BY <2>1 DEF Flying, Watched
  <1> QED
    BY <1>2, <1>3, <1>4 DEF Tx

\* The E2E actors retransmit messages of the types that they watch.
LEMMA E2EFlies ==
  ASSUME TypeOK, NEW n \in Node, E2E(n)
  PROVE  /\ \A m \in Flying' : m \in Flying \/ \E k \in Watched : m.type = k.type
         /\ Watched' \subseteq Watched
  <1>1. e2eq \in [Node -> Seq(Msg)] /\ txq \in [Port -> Seq(Msg)]
    BY DEF TypeOK
  <1>2. e2eq[n] # <<>> /\ e2eq' = [e2eq EXCEPT ![n] = Tail(@)] /\ UNCHANGED <<tx, rxq>>
    BY DEF E2E, E2EDrop, E2EGiveUp, E2ERetransmit, E2EPop
  <1>3. PICK h \in Msg : h = Head(e2eq[n])
    BY <1>1, <1>2, PopType
  <1>4. /\ \E i \in 1 .. Len(e2eq[n]) : Head(e2eq[n]) = e2eq[n][i]
        /\ \A k : (\E y \in Node : \E i \in 1 .. Len(e2eq'[y]) : k = e2eq'[y][i])
                     => \E y \in Node : \E i \in 1 .. Len(e2eq[y]) : k = e2eq[y][i]
    BY <1>1, <1>2, GetLeaves
  <1>5. h \in Watched /\ Watched' \subseteq Watched
    BY <1>3, <1>4 DEF Watched
  <1>6. CASE UNCHANGED txq
    BY <1>2, <1>5, <1>6 DEF Flying
  <1>7. CASE E2ERetransmit(n) /\ ~UNCHANGED txq
    <2>1. h.retry < MaxRetries
      BY <1>3, <1>7 DEF E2ERetransmit
    <2>2. PICK k \in Msg : k = CopyMsg(h, h.retry + 1)
      BY <2>1, CopyMsgType
    <2>3. k.type = h.type /\ h.req \in Req
      BY <2>2, MsgParts DEF CopyMsg
    <2>4. PICK p \in Port : p = <<n, Vn(h.type, h.req)>>
      BY <2>3, VnType DEF Port
    <2>5. txq' = [txq EXCEPT ![p] = Append(@, k)]
      BY <1>3, <1>7, <2>2, <2>4 DEF E2ERetransmit
    <2>6. ASSUME NEW m \in Flying' PROVE m \in Flying \/ m = k
      BY <1>1, <1>2, <2>5, <2>6, PutAdds DEF Flying
    <2> QED
      BY <1>5, <2>3, <2>6
  <1> QED
    BY <1>6, <1>7 DEF E2E, E2EDrop, E2EGiveUp

\* The RX actors take one message and put at most one.
LEMMA RxFlies ==
  ASSUME TypeOK, NEW p \in Port, NEW types, RxGet(p, types), NEW k \in Msg,
         UNCHANGED txq \/ Reply(p, k)
  PROVE  /\ Head(rxq[p]) \in Flying
         /\ \A m \in Flying' : m \in Flying \/ (m = k /\ ~UNCHANGED txq)
         /\ Watched' = Watched
  <1>1. /\ txq \in [Port -> Seq(Msg)] /\ rxq \in [Port -> Seq(Msg)] /\ rxq[p] # <<>>
        /\ rxq' = [rxq EXCEPT ![p] = Tail(@)] /\ UNCHANGED <<tx, e2eq>>
    BY DEF TypeOK, RxGet, nicVars
  <1>2. /\ \E i \in 1 .. Len(rxq[p]) : Head(rxq[p]) = rxq[p][i]
        /\ \A m : (\E y \in Port : \E i \in 1 .. Len(rxq'[y]) : m = rxq'[y][i])
                     => \E y \in Port : \E i \in 1 .. Len(rxq[y]) : m = rxq[y][i]
    BY <1>1, GetLeaves
  <1>3. Head(rxq[p]) \in Flying
    BY <1>1, <1>2, PopType DEF Flying
  <1>4. CASE UNCHANGED txq
    BY <1>1, <1>2, <1>3, <1>4 DEF Flying, Watched
  <1>5. CASE Reply(p, k) /\ ~UNCHANGED txq
    <2>1. ReplyPort(p) \in Port /\ txq' = [txq EXCEPT ![ReplyPort(p)] = Append(@, k)]
      BY <1>5, PortParts DEF Reply
    <2>2. ASSUME NEW m \in Flying' PROVE m \in Flying \/ m = k
      BY <1>1, <1>2, <2>1, <2>2, PutAdds DEF Flying
    <2> QED
      BY <1>1, <1>3, <1>5, <2>2 DEF Watched
  <1> QED
    BY <1>4, <1>5

\* The E2E ACK of a Put that asked for an ACK comes after the Portals ACK.
Settled(m) ==
  m.type = "E2E_ACK" /\ Kind[m.req] \in PutLike /\ AckReq[m.req] # "NO_ACK_REQ"
    => state[m.req] >= ANSWERED

SentInv ==
  /\ \A r \in Req : Kind[r] \in PutLike /\ state[r] >= ANSWERED => sendEv[r] = 1
  /\ \A m \in Flying : Settled(m)
  /\ \A m \in Watched : m.type # "E2E_ACK"

\* Enough to show of a step that handles request r.
LEMMA SentStep ==
  ASSUME SentInv, NEW r \in Req,
         \A q \in Req \ {r} : UNCHANGED <<state[q], sendEv[q]>>,
         Kind[r] \in PutLike /\ state'[r] >= ANSWERED => sendEv'[r] = 1,
         state[r] >= ANSWERED => state'[r] >= ANSWERED,
         \A m \in Flying' : m \in Flying \/ Settled(m)',
         \A m \in Watched' : m \in Watched \/ m.type # "E2E_ACK"
  PROVE  SentInv'
  <1>1. ASSUME NEW m \in Flying' PROVE Settled(m)'
    <2>1. CASE m \in Flying
      <3>1. Settled(m) /\ m.req \in Req
        BY <2>1, MsgParts DEF SentInv, Flying
      <3> QED
        BY <3>1 DEF Settled
    <2> QED
      BY <1>1, <2>1
  <1>2. \A q \in Req : Kind[q] \in PutLike /\ state'[q] >= ANSWERED => sendEv'[q] = 1
    BY DEF SentInv
  <1>3. \A m \in Watched' : m.type # "E2E_ACK"
    BY DEF SentInv
  <1> QED
    BY <1>1, <1>2, <1>3 DEF SentInv

\* What maybe_issue_send leaves: the event is issued, others are as before.
LEMMA SendIssued ==
  ASSUME OnceInv, NEW r \in Req, MaybeIssueSend(r)
  PROVE  sendEv'[r] = 1 /\ \A q \in Req \ {r} : sendEv'[q] = sendEv[q]
  <1>1. sendEv \in [Req -> Nat] /\ sendEv[r] <= 1 /\ sendEv[r] \in Nat
    BY DEF OnceInv, Once, TypeOK
  <1>2. sendEv' = (IF sendEv[r] = 0 THEN Bump(sendEv, r) ELSE sendEv)
    BY DEF MaybeIssueSend
  <1>3. Bump(sendEv, r)[r] = sendEv[r] + 1
    BY <1>1, BumpType
  <1>4. \A q \in Req \ {r} : Bump(sendEv, r)[q] = sendEv[q]
    BY <1>1, BumpType
  <1> QED
    BY <1>1, <1>2, <1>3, <1>4

\* The user and the TX actors: no state changes, a SEND event may be issued.
LEMMA TxSent ==
  ASSUME OnceInv, SentInv, NEW p \in Port, Tx(p)
  PROVE  SentInv'
  <1>1. TypeOK
    BY DEF OnceInv
  <1>2. Flying' \subseteq Flying /\ \A m \in Watched' : m \in Watched \/ m.type # "E2E_ACK"
    BY <1>1, TxFlies
  <1>3. UNCHANGED state
    BY DEF Tx, TxGet, TxLaunch, TxDone
  <1>4. CASE UNCHANGED sendEv
    <2>1. \A m \in Flying' : Settled(m)'
      BY <1>2, <1>3 DEF SentInv, Settled
    <2> QED
      BY <1>2, <1>3, <1>4, <2>1 DEF SentInv
  <1>5. ASSUME NEW m \in Msg, MaybeIssueSend(m.req) PROVE SentInv'
    <2>1. m.req \in Req
      BY MsgParts
    <2>2. sendEv'[m.req] = 1 /\ \A q \in Req \ {m.req} : sendEv'[q] = sendEv[q]
      BY <1>5, <2>1, SendIssued
    <2> QED
      BY <1>2, <1>3, <2>1, <2>2, SentStep
  <1>6. CASE TxDone(p)
    <2>1. tx[p].msg \in Msg
      BY <1>1, <1>6, TxMsg DEF TxDone
    <2> QED
      BY <1>4, <1>5, <1>6, <2>1 DEF TxDone
  <1> QED
    BY <1>4, <1>6 DEF Tx, TxGet, TxLaunch, eventVars

\* A Put or an Atomic: acknowledged at once with its SEND event, or by a
\* message that is an E2E ACK only if the user asked for no ACK.
LEMMA SendAckSent ==
  ASSUME OnceInv, SentInv, NEW p \in Port, NEW h \in Msg, h = Head(rxq[p]),
         h.type \in PutLike, state[h.req] = CREATED, RxGet(p, PutLike),
         NEW type \in {"PTL_ACK", "E2E_ACK"}, NEW fail \in BOOLEAN,
         type = "E2E_ACK" => AckReq[h.req] = "NO_ACK_REQ",
         NEW s \in {CREATED, RECEIVED},
         SendAck(p, h, type, fail, s) \/ SendNoAck(h.req, s)
  PROVE  SentInv'
  <1>1. TypeOK /\ h.req \in Req /\ Kind[h.req] \in PutLike
    BY MsgParts DEF OnceInv, PutLike, RequestTypes
  <1>2. PICK k \in Msg : k = NewMsg(type, h.req, fail, h.type)
    BY <1>1, NewMsgType DEF MsgTypes, RequestTypes, ResponseTypes, PutLike
  <1>3. k.req = h.req /\ k.type = type
    BY <1>2 DEF NewMsg
  <1>4. Settled(k)'
    BY <1>3 DEF Settled
  <1>5. UNCHANGED txq \/ Reply(p, k)
    BY <1>2 DEF SendAck, SendNoAck
  <1>6. /\ \A m \in Flying' : m \in Flying \/ Settled(m)'
        /\ \A m \in Watched' : m \in Watched \/ m.type # "E2E_ACK"
    BY <1>1, <1>4, <1>5, RxFlies DEF Settled
  <1>7. ~(state[h.req] >= ANSWERED)
    BY DEF CREATED, ANSWERED
  <1>8. CASE state' = [state EXCEPT ![h.req] = s] /\ UNCHANGED sendEv
    <2>1. state'[h.req] = s /\ \A q \in Req \ {h.req} : state'[q] = state[q]
      BY <1>1, <1>8, SetState
    <2>2. ~(state'[h.req] >= ANSWERED)
      BY <2>1 DEF CREATED, RECEIVED, ANSWERED
    <2> QED
      BY <1>1, <1>6, <1>7, <1>8, <2>1, <2>2, SentStep
  <1>9. CASE state' = [state EXCEPT ![h.req] = FINISHED] /\ MaybeIssueSend(h.req)
    <2>1. \A q \in Req \ {h.req} : state'[q] = state[q]
      BY <1>1, <1>9, SetState
    <2>2. sendEv'[h.req] = 1 /\ \A q \in Req \ {h.req} : sendEv'[q] = sendEv[q]
      BY <1>1, <1>9, SendIssued
    <2> QED
      BY <1>1, <1>6, <1>7, <2>1, <2>2, SentStep
  <1> QED
    BY <1>8, <1>9 DEF SendAck, SendNoAck

\* A matched Put or Atomic.
LEMMA RxPutMatchedSent ==
  ASSUME AcksEnabled, OnceInv, SentInv, NEW p \in Port,
         NEW e \in Matching(p) \cap Entries, RxPutMatched(p, e)
  PROVE  SentInv'
  <1>1. TypeOK /\ RxGet(p, PutLike)
    BY DEF OnceInv, RxPutMatched, RxFirst
  <1>2. PICK h \in Msg : h = Head(rxq[p]) /\ h.type \in PutLike /\ h.req \in Req
    BY <1>1, RxTakes
  <1>3. state[h.req] = CREATED
    BY <1>2 DEF RxPutMatched, RxFirst
  <1>4. e \in Outcome[h.req]
    BY <1>2 DEF Matching
  <1>5. AckReq[h.req] # "NO_ACK_REQ" => ~e.ackDisable
    BY <1>2, <1>4 DEF AcksEnabled
  <1>6. PICK type \in {"PTL_ACK", "E2E_ACK"} :
           /\ type = "E2E_ACK" => AckReq[h.req] = "NO_ACK_REQ"
           /\ SendAck(p, h, type, FALSE, RECEIVED) \/ SendNoAck(h.req, RECEIVED)
    <2> DEFINE ptl == ~e.ackDisable /\ AckReq[h.req] # "NO_ACK_REQ"
    <2>1. CASE ptl
      BY <1>2, <2>1 DEF RxPutMatched
    <2>2. CASE ~ptl
      BY <1>2, <1>5, <2>2 DEF RxPutMatched
    <2> QED
      BY <2>1, <2>2
  <1> QED
    BY <1>1, <1>2, <1>3, <1>6, SendAckSent

\* An unmatched Put or Atomic.
LEMMA RxPutUnmatchedSent ==
  ASSUME OnceInv, SentInv, NEW p \in Port, RxPutUnmatched(p)
  PROVE  SentInv'
  <1>1. TypeOK /\ RxGet(p, PutLike)
    BY DEF OnceInv, RxPutUnmatched, RxFirst
  <1>2. PICK h \in Msg : h = Head(rxq[p]) /\ h.type \in PutLike /\ h.req \in Req
    BY <1>1, RxTakes
  <1>3. state[h.req] = CREATED
    BY <1>2 DEF RxPutUnmatched, RxFirst
  <1>4. SendAck(p, h, "PTL_ACK", TRUE, CREATED) \/ SendNoAck(h.req, CREATED)
    BY <1>2 DEF RxPutUnmatched
  <1> QED
    BY <1>1, <1>2, <1>3, <1>4, SendAckSent

\* Get and FetchAtomic have no SEND event, and are answered by data.
LEMMA RxGetSent ==
  ASSUME OnceInv, SentInv, NEW p \in Port,
         RxGetUnmatched(p) \/ \E e \in Entries : RxGetMatched(p, e)
  PROVE  SentInv'
  <1>1. TypeOK /\ RxGet(p, GetLike) /\ UNCHANGED sendEv
    BY DEF OnceInv, RxGetMatched, RxGetUnmatched, RxFirst, eventVars
  <1>2. PICK h \in Msg : h = Head(rxq[p]) /\ h.type \in GetLike /\ h.req \in Req
    BY <1>1, RxTakes
  <1>3. state[h.req] = CREATED /\ Kind[h.req] \notin PutLike
    BY <1>1, <1>2, MsgParts DEF RxGetMatched, RxGetUnmatched, RxFirst, GetLike, PutLike,
       RequestTypes
  <1>4. PICK fail \in BOOLEAN : Reply(p, NewMsg(ResponseType(h.type), h.req, fail, "NONE"))
    BY <1>2 DEF RxGetMatched, RxGetUnmatched
  <1>5. PICK k \in Msg : k = NewMsg(ResponseType(h.type), h.req, fail, "NONE")
    <2>1. Kind[h.req] = h.type
      BY <1>2, MsgParts DEF GetLike, RequestTypes
    <2> QED
      BY <1>2, <2>1, ResponseMsgType
  <1>6. Settled(k)'
    BY <1>5 DEF Settled, NewMsg, ResponseType
  <1>7. /\ \A m \in Flying' : m \in Flying \/ Settled(m)'
        /\ \A m \in Watched' : m \in Watched \/ m.type # "E2E_ACK"
    BY <1>1, <1>4, <1>5, <1>6, RxFlies DEF Settled
  <1>8. \A q \in Req \ {h.req} : state'[q] = state[q]
    BY <1>1, <1>2 DEF RxGetMatched, RxGetUnmatched, TypeOK
  <1>9. ~(state[h.req] >= ANSWERED)
    BY <1>3 DEF CREATED, ANSWERED
  <1> QED
    BY <1>1, <1>2, <1>3, <1>7, <1>8, <1>9, SentStep

\* A response is of a Get or a FetchAtomic; a Portals ACK issues the SEND
\* event before the E2E ACK that answers it can arrive.
LEMMA RxAnswerSent ==
  ASSUME OnceInv, SentInv, NEW p \in Port, RxResponse(p) \/ RxPtlAck(p)
  PROVE  SentInv'
  <1>1. TypeOK /\ RxGet(p, ResponseTypes)
    BY DEF OnceInv, RxResponse, RxPtlAck, RxGet, ResponseTypes
  <1>2. PICK h \in Msg : h = Head(rxq[p]) /\ h.type \in ResponseTypes /\ h.req \in Req
    BY <1>1, RxTakes
  <1>3. state[h.req] \in {CREATED, RECEIVED, ANSWERED, FINISHED}
    BY <1>1, <1>2, Counters
  <1>4. (state[h.req] > RECEIVED <=> ~(state[h.req] <= RECEIVED))
        /\ (~(state[h.req] <= RECEIVED) => state[h.req] >= ANSWERED)
    BY <1>3 DEF CREATED, RECEIVED, ANSWERED, FINISHED
  <1>5. PICK k \in Msg : k = NewMsg("E2E_ACK", h.req, FALSE, h.type)
    BY <1>2, NewMsgType DEF MsgTypes, RequestTypes, ResponseTypes
  <1>6. UNCHANGED txq \/ Reply(p, k)
    BY <1>2, <1>5 DEF RxResponse, RxPtlAck
  <1>7. \/ state' = [state EXCEPT ![h.req] = ANSWERED]
        \/ state' = state /\ state[h.req] >= ANSWERED
    <2>1. CASE RxResponse(p)
      BY <1>2, <1>4, <2>1 DEF RxResponse
    <2>2. CASE RxPtlAck(p)
      BY <1>2, <1>4, <2>2 DEF RxPtlAck
    <2> QED
      BY <2>1, <2>2
  <1>8. state'[h.req] >= ANSWERED /\ \A q \in Req \ {h.req} : state'[q] = state[q]
    <2>1. CASE state' = [state EXCEPT ![h.req] = ANSWERED]
      <3>1. state'[h.req] = ANSWERED /\ \A q \in Req \ {h.req} : state'[q] = state[q]
        BY <1>1, <1>2, <2>1, SetState
      <3> QED
        BY <3>1 DEF ANSWERED
    <2> QED
      BY <1>7, <2>1
  <1>9. k.req = h.req
    BY <1>5 DEF NewMsg
  <1>10. Settled(k)'
    BY <1>8, <1>9 DEF Settled
  <1>11. /\ \A m \in Flying' : m \in Flying \/ Settled(m)'
         /\ \A m \in Watched' : m \in Watched \/ m.type # "E2E_ACK"
    BY <1>1, <1>6, <1>10, RxFlies DEF Settled
  <1>12. /\ Kind[h.req] \in PutLike => sendEv'[h.req] = 1
         /\ \A q \in Req \ {h.req} : sendEv'[q] = sendEv[q]
    <2>1. CASE RxResponse(p)
      <3>1. h.type \in ResponseTypes \ {"PTL_ACK"} /\ UNCHANGED sendEv
        BY <1>2, <2>1 DEF RxResponse, RxGet, ResponseTypes
      <3>2. Kind[h.req] \notin PutLike
        BY <3>1, MsgParts DEF GetLike, PutLike
      <3> QED
        BY <3>1, <3>2
    <2>2. CASE RxPtlAck(p) /\ state[h.req] <= RECEIVED
      <3>1. MaybeIssueSend(h.req)
        BY <1>2, <2>2 DEF RxPtlAck
      <3> QED
        BY <1>2, <3>1, SendIssued
    <2>3. CASE RxPtlAck(p) /\ ~(state[h.req] <= RECEIVED)
      <3>1. UNCHANGED sendEv
        BY <1>2, <2>3 DEF RxPtlAck
      <3> QED
        BY <1>2, <1>4, <2>3, <3>1 DEF SentInv
    <2> QED
      BY <2>1, <2>2, <2>3
  <1> QED
    BY <1>2, <1>8, <1>11, <1>12, SentStep

\* An E2E ACK issues the SEND event itself or comes after it.
LEMMA RxE2EAckSent ==
  ASSUME OnceInv, SentInv, NEW p \in Port, RxE2EAck(p)
  PROVE  SentInv'
  <1>1. TypeOK /\ RxGet(p, {"E2E_ACK"}) /\ UNCHANGED txq
    BY DEF OnceInv, RxE2EAck
  <1>2. PICK h \in Msg : h = Head(rxq[p]) /\ h.type = "E2E_ACK" /\ h.req \in Req
    BY <1>1, RxTakes
  <1>3. h \in Flying /\ Flying' \subseteq Flying /\ Watched' = Watched
    BY <1>1, <1>2, RxFlies
  <1>4. CASE UNCHANGED <<state, sendEv>>
    <2>1. \A m \in Flying' : Settled(m)'
      BY <1>3, <1>4 DEF SentInv, Settled
    <2> QED
      BY <1>3, <1>4, <2>1 DEF SentInv
  <1>5. CASE /\ state' = [state EXCEPT ![h.req] = FINISHED]
             /\ IF Kind[h.req] \in PutLike /\ AckReq[h.req] = "NO_ACK_REQ"
                THEN MaybeIssueSend(h.req) ELSE UNCHANGED sendEv
    <2>1. state'[h.req] = FINISHED /\ \A q \in Req \ {h.req} : state'[q] = state[q]
      BY <1>1, <1>2, <1>5, SetState
    <2>2. state'[h.req] >= ANSWERED
      BY <2>1 DEF ANSWERED, FINISHED
    <2>3. /\ Kind[h.req] \in PutLike => sendEv'[h.req] = 1
          /\ \A q \in Req \ {h.req} : sendEv'[q] = sendEv[q]
      <3>1. CASE Kind[h.req] \in PutLike /\ AckReq[h.req] = "NO_ACK_REQ"
        BY <1>2, <1>5, <3>1, SendIssued
      <3>2. CASE ~(Kind[h.req] \in PutLike /\ AckReq[h.req] = "NO_ACK_REQ")
        <4>1. Settled(h)
          BY <1>3 DEF SentInv
        <4> QED
          BY <1>2, <1>5, <3>2, <4>1 DEF Settled, SentInv
      <3> QED
        BY <3>1, <3>2
    <2> QED
      BY <1>2, <1>3, <2>1, <2>2, <2>3, SentStep
  <1> QED
    BY <1>2, <1>4, <1>5 DEF RxE2EAck

\* Every step keeps the invariant.
LEMMA NextSent ==
  ASSUME AcksEnabled, OnceInv, SentInv, [Next]_vars
  PROVE  SentInv'
  <1>1. TypeOK
    BY DEF OnceInv
  <1>2. ASSUME UNCHANGED <<state, sendEv>>,
               \A m \in Flying' : m \in Flying \/ m.type # "E2E_ACK",
               \A m \in Watched' : m \in Watched
        PROVE  SentInv'
    BY <1>2 DEF SentInv, Settled
  <1>3. ASSUME NEW r \in Req, Issue(r) PROVE SentInv'
    <2>1. /\ \A m \in Flying' : m \in Flying \/ m.type \in RequestTypes
          /\ Watched' = Watched
      BY <1>1, <1>3, IssueFlies
    <2> QED
      BY <1>2, <1>3, <2>1 DEF Issue, eventVars, RequestTypes
  <1>4. ASSUME NEW n \in Node, E2E(n) PROVE SentInv'
    <2>1. /\ \A m \in Flying' : m \in Flying \/ \E k \in Watched : m.type = k.type
          /\ Watched' \subseteq Watched
      BY <1>1, <1>4, E2EFlies
    <2>2. \A m \in Flying' : m \in Flying \/ m.type # "E2E_ACK"
      BY <2>1 DEF SentInv
    <2>3. UNCHANGED <<state, sendEv>>
      BY <1>4 DEF E2E, E2EDrop, E2EGiveUp, E2ERetransmit, E2EPop, eventVars
    <2> QED
      BY <1>2, <2>1, <2>2, <2>3
  <1>5. ASSUME NEW p \in Port, RxDuplicate(p) PROVE SentInv'
    <2>1. RxGet(p, RequestTypes) /\ UNCHANGED <<txq, state, sendEv>>
      BY <1>5 DEF RxDuplicate, eventVars
    <2>2. PICK h \in Msg : h = Head(rxq[p])
      BY <1>1, <2>1, RxTakes
    <2>3. Flying' \subseteq Flying /\ Watched' = Watched
      BY <1>1, <2>1, <2>2, RxFlies
    <2> QED
      BY <1>2, <2>1, <2>3
  <1>6. ASSUME NEW p \in Port, Rx(p) PROVE SentInv'
    <2>1. CASE RxMatched(p)
      BY <2>1, RxPutMatchedSent, RxGetSent DEF RxMatched
    <2>2. CASE RxUnmatched(p)
      BY <2>2, RxPutUnmatchedSent, RxGetSent DEF RxUnmatched
    <2> QED
      BY <1>5, <1>6, <2>1, <2>2, RxAnswerSent, RxE2EAckSent DEF Rx
  <1>7. CASE UNCHANGED vars
    <2>1. Flying' = Flying /\ Watched' = Watched /\ UNCHANGED <<state, sendEv>>
      BY <1>7 DEF vars, Flying, Watched
    <2> QED
      BY <1>2, <2>1
  <1> QED
    BY <1>3, <1>4, <1>6, <1>7, TxSent DEF Next

\* If no entry suppresses an ACK that was asked for, then for every retry
\* limit and every order of ACKs, copies and E2E ACKs a finished Put or Atomic
\* has issued its SEND event.
THEOREM SendBeforeFinish ==
  ASSUME AcksEnabled
  PROVE  Spec => []FinishedImpliesSent
  <1>1. Init => SentInv
    <2> SUFFICES ASSUME Init PROVE SentInv
      OBVIOUS
    <2>1. Flying = {} /\ Watched = {}
      BY DEF Init, Flying, Watched
    <2> QED
      BY <2>1 DEF Init, SentInv, CREATED, ANSWERED
  <1>2. OnceInv /\ SentInv /\ [Next]_vars => SentInv'
    BY NextSent
  <1>3. SentInv => FinishedImpliesSent
    BY DEF SentInv, FinishedImpliesSent, ANSWERED, FINISHED
  <1> QED
    BY <1>1, <1>2, <1>3, OnceInvariant, PTL DEF Spec

-----------------------------------------------------------------------------
(***************************************************************************)
(* Command queues.  A slot is taken for each command that waits in a TX    *)
(* queue, as long as no retransmission is put there: handle_put frees a    *)
(* slot for it that no command took.                                       *)
(***************************************************************************)
\* The E2E actors give up at once, or have no TX queue to put a copy in.
NoRetransmission == MaxRetries = 0 \/ ModelPciCommands \subseteq E2EOff

IsCommand(p, i) == i \in 1 .. Len(txq[p]) /\ txq[p][i].type \in RequestTypes

\* The commands of the processes of node n that the NIC has not accepted yet.
Commands(n) ==
  {r \in Req : Src[r] = n /\ \E p \in Port : \E i \in Nat : IsCommand(p, i) /\ txq[p][i].req = r}

CommandsDiffer ==
  \A p, q \in Port : \A i, j \in Nat :
     IsCommand(p, i) /\ IsCommand(q, j) /\ txq[p][i].req = txq[q][j].req => p = q /\ i = j

CommandsIssued ==
  \A p \in Port : \A i \in Nat : IsCommand(p, i) => txq[p][i].req \in issued

SlotsCounted ==
  \A n \in Node : /\ IsFiniteSet(Commands(n))
                  /\ cq[n] + Cardinality(Commands(n)) = CQCapacity

NothingWatched == \A n \in E2EOff : e2eq[n] = <<>>

SlotInv == CommandsDiffer /\ CommandsIssued /\ SlotsCounted /\ NothingWatched

\* What an RX actor puts in a TX queue is an answer.
LEMMA RxReplies ==
  ASSUME TypeOK, NEW p \in Port, Rx(p)
  PROVE  \E m \in Msg : m.type \notin RequestTypes /\ (UNCHANGED txq \/ Reply(p, m))
  <1>1. ASSUME NEW h \in Msg, NEW type \in MsgTypes \ RequestTypes, NEW fail \in BOOLEAN,
               NEW answers \in MsgTypes \cup {"NONE"},
               type = "PTL_ACK" => Kind[h.req] \in PutLike,
               type \in ResponseTypes \ {"PTL_ACK"} => Kind[h.req] \in GetLike,
               UNCHANGED txq \/ Reply(p, NewMsg(type, h.req, fail, answers))
        PROVE  \E m \in Msg : m.type \notin RequestTypes /\ (UNCHANGED txq \/ Reply(p, m))
    <2>1. h.req \in Req
      BY MsgParts
    <2>2. NewMsg(type, h.req, fail, answers) \in Msg
      BY <1>1, <2>1, NewMsgType
    <2>3. NewMsg(type, h.req, fail, answers).type = type
      BY DEF NewMsg
    <2> QED
      BY <1>1, <2>2, <2>3
  <1>2. ASSUME NEW h \in Msg, h.type \in PutLike, NEW type \in {"PTL_ACK", "E2E_ACK"},
               NEW fail \in BOOLEAN, NEW s,
               SendAck(p, h, type, fail, s) \/ SendNoAck(h.req, s)
        PROVE  \E m \in Msg : m.type \notin RequestTypes /\ (UNCHANGED txq \/ Reply(p, m))
    <2>1. UNCHANGED txq \/ Reply(p, NewMsg(type, h.req, fail, h.type))
      BY <1>2 DEF SendAck, SendNoAck
    <2>2. Kind[h.req] \in PutLike
      BY <1>2, MsgParts DEF PutLike, RequestTypes
    <2>3. h.type \in MsgTypes
      BY MsgParts
    <2>4. type \in MsgTypes \ RequestTypes /\ type \notin ResponseTypes \ {"PTL_ACK"}
      BY DEF MsgTypes, RequestTypes, ResponseTypes
    <2> QED
      BY <1>1, <1>2, <2>1, <2>2, <2>3, <2>4
  <1>3. ASSUME NEW e, RxPutMatched(p, e) PROVE
           \E m \in Msg : m.type \notin RequestTypes /\ (UNCHANGED txq \/ Reply(p, m))
    <2>1. PICK h \in Msg : h = Head(rxq[p]) /\ h.type \in PutLike
      BY <1>3, RxTakes DEF RxPutMatched, RxFirst
    <2>2. PICK type \in {"PTL_ACK", "E2E_ACK"} :
             SendAck(p, h, type, FALSE, RECEIVED) \/ SendNoAck(h.req, RECEIVED)
      BY <1>3, <2>1 DEF RxPutMatched
    <2> QED
      BY <1>2, <2>1, <2>2
  <1>4. CASE RxPutUnmatched(p)
    <2>1. PICK h \in Msg : h = Head(rxq[p]) /\ h.type \in PutLike
      BY <1>4, RxTakes DEF RxPutUnmatched, RxFirst
    <2>2. SendAck(p, h, "PTL_ACK", TRUE, CREATED) \/ SendNoAck(h.req, CREATED)
      BY <1>4, <2>1 DEF RxPutUnmatched
    <2> QED
      BY <1>2, <2>1, <2>2
  <1>5. CASE RxGetUnmatched(p) \/ \E e : RxGetMatched(p, e)
    <2>1. PICK h \in Msg : h = Head(rxq[p]) /\ h.type \in GetLike
      BY <1>5, RxTakes DEF RxGetMatched, RxGetUnmatched, RxFirst
    <2>2. PICK fail \in BOOLEAN : Reply(p, NewMsg(ResponseType(h.type), h.req, fail, "NONE"))
      BY <1>5, <2>1 DEF RxGetMatched, RxGetUnmatched
    <2>3. Kind[h.req] \in GetLike
      BY <2>1, MsgParts DEF GetLike, RequestTypes
    <2>4. ResponseType(h.type) \in ResponseTypes \ {"PTL_ACK"}
      BY DEF ResponseType, ResponseTypes
    <2>5. ResponseType(h.type) \in MsgTypes \ RequestTypes /\ ResponseType(h.type) # "PTL_ACK"
      BY <2>4 DEF MsgTypes, RequestTypes, ResponseTypes
    <2> QED
      BY <1>1, <2>2, <2>3, <2>5
  <1>6. CASE RxResponse(p) \/ RxPtlAck(p)
    <2>1. RxGet(p, ResponseTypes)
      BY <1>6 DEF RxResponse, RxPtlAck, RxGet, ResponseTypes
    <2>2. PICK h \in Msg : h = Head(rxq[p])
      BY <2>1, RxTakes
    <2>3. UNCHANGED txq \/ Reply(p, NewMsg("E2E_ACK", h.req, FALSE, h.type))
      BY <1>6, <2>2 DEF RxResponse, RxPtlAck
    <2>4. h.type \in MsgTypes /\ "E2E_ACK" \in MsgTypes \ RequestTypes
          /\ "E2E_ACK" \notin ResponseTypes
      BY MsgParts DEF MsgTypes, RequestTypes, ResponseTypes
    <2> QED
      BY <1>1, <2>3, <2>4 DEF ResponseTypes
  <1>7. CASE RxDuplicate(p) \/ RxE2EAck(p)
    <2>1. RxGet(p, RequestTypes \cup {"E2E_ACK"}) /\ UNCHANGED txq
      BY <1>7 DEF RxDuplicate, RxE2EAck, RxGet
    <2>2. PICK h \in Msg : h = Head(rxq[p])
      BY <2>1, RxTakes
    <2>3. "E2E_ACK" \in MsgTypes \ RequestTypes /\ "E2E_ACK" \notin ResponseTypes
      BY DEF MsgTypes, RequestTypes, ResponseTypes
    <2> QED
      BY <1>1, <2>1, <2>3 DEF ResponseTypes
  <1> QED
    BY <1>3, <1>4, <1>5, <1>6, <1>7 DEF Rx, RxMatched, RxUnmatched

\* A step that puts at most an answer in a TX queue.
LEMMA OtherSlots ==
  ASSUME TypeOK, SlotInv, UNCHANGED cq, issued \subseteq issued',
         \A n \in E2EOff : e2eq'[n] = <<>>,
         \/ UNCHANGED txq
         \/ \E p \in Port : \E m \in Msg :
              m.type \notin RequestTypes /\ txq' = [txq EXCEPT ![p] = Append(@, m)]
  PROVE  SlotInv'
  <1>1. ASSUME NEW p \in Port, NEW i \in Nat
        PROVE  /\ IsCommand(p, i)' <=> IsCommand(p, i)
               /\ IsCommand(p, i) => txq'[p][i] = txq[p][i]
    <2>1. CASE UNCHANGED txq
      BY <2>1 DEF IsCommand
    <2>2. ASSUME NEW x \in Port, NEW m \in Msg, m.type \notin RequestTypes,
                 txq' = [txq EXCEPT ![x] = Append(@, m)]
          PROVE  /\ IsCommand(p, i)' <=> IsCommand(p, i)
                 /\ IsCommand(p, i) => txq'[p][i] = txq[p][i]
      <3>1. txq \in [Port -> Seq(Msg)]
        BY DEF TypeOK
      <3>2. /\ \A k \in 1 .. Len(txq[p]) :
                  k \in 1 .. Len(txq'[p]) /\ txq'[p][k] = txq[p][k]
            /\ \A k \in 1 .. Len(txq'[p]) :
                  k \in 1 .. Len(txq[p]) \/ txq'[p][k] = m
        BY <2>2, <3>1, QueuePut
      <3> QED
        BY <2>2, <3>2 DEF IsCommand
    <2> QED
      BY <2>1, <2>2
  <1>2. ASSUME NEW n \in Node PROVE Commands(n)' = Commands(n)
    BY <1>1 DEF Commands
  <1>3. SlotsCounted'
    BY <1>2 DEF SlotInv, SlotsCounted
  <1>4. CommandsIssued'
    BY <1>1 DEF SlotInv, CommandsIssued
  <1>5. CommandsDiffer'
    BY <1>1 DEF SlotInv, CommandsDiffer
  <1> QED
    BY <1>3, <1>4, <1>5 DEF SlotInv, NothingWatched

\* A command takes a slot of the queue of its NI.
LEMMA IssueSlot ==
  ASSUME TypeOK, SlotInv, NEW r \in Req, Issue(r)
  PROVE  SlotInv'
  <1>1. PICK m \in Msg : m = NewMsg(Kind[r], r, FALSE, "NONE")
    BY NewMsgType DEF MsgTypes, RequestTypes, ResponseTypes
  <1>2. m.type \in RequestTypes /\ m.req = r
    BY <1>1 DEF NewMsg
  <1>3. PICK x \in Port : x = <<Src[r], Vn(Kind[r], r)>>
    BY VnType DEF Port
  <1>4. /\ txq \in [Port -> Seq(Msg)] /\ txq' = [txq EXCEPT ![x] = Append(@, m)]
        /\ r \notin issued /\ issued' = issued \cup {r} /\ UNCHANGED e2eq
    BY <1>1, <1>3 DEF Issue, TypeOK
  <1>0. PICK top \in Nat : top = Len(txq[x]) + 1
    BY <1>4
  <1>5. top \in Nat /\ IsCommand(x, top)' /\ txq'[x][top] = m
    <2>1. top \in 1 .. Len(txq'[x]) /\ txq'[x][top] = m
      BY <1>0, <1>4, QueuePut
    <2> QED
      BY <1>2, <2>1 DEF IsCommand
  <1>6. ASSUME NEW p \in Port, NEW i \in Nat
        PROVE  /\ IsCommand(p, i) => IsCommand(p, i)' /\ txq'[p][i] = txq[p][i]
               /\ IsCommand(p, i)' => \/ p = x /\ i = top
                                      \/ IsCommand(p, i) /\ txq'[p][i] = txq[p][i]
    <2>1. /\ \A k \in 1 .. Len(txq[p]) :
                k \in 1 .. Len(txq'[p]) /\ txq'[p][k] = txq[p][k]
          /\ \A k \in 1 .. Len(txq'[p]) :
                \/ k \in 1 .. Len(txq[p]) /\ txq'[p][k] = txq[p][k]
                \/ p = x /\ k = Len(txq[x]) + 1
      BY <1>4, QueuePut
    <2> QED
      BY <1>0, <2>1 DEF IsCommand
  <1>7. \A p \in Port : \A i \in Nat : IsCommand(p, i) => txq[p][i].req # r
    BY <1>4 DEF SlotInv, CommandsIssued
  <1>8. CommandsDiffer'
    BY <1>2, <1>5, <1>6, <1>7 DEF SlotInv, CommandsDiffer
  <1>9. CommandsIssued'
    BY <1>2, <1>4, <1>5, <1>6 DEF SlotInv, CommandsIssued
  <1>10. ASSUME NEW n \in Node
         PROVE  /\ IsFiniteSet(Commands(n)')
                /\ cq'[n] + Cardinality(Commands(n)') = CQCapacity
    <2>0. IsFiniteSet(Commands(n)) /\ cq[n] + Cardinality(Commands(n)) = CQCapacity
          /\ cq \in [Node -> Nat] /\ cq[n] \in Nat
      BY DEF SlotInv, SlotsCounted, TypeOK
    <2>1. CASE n = Src[r]
      <3>1. r \notin Commands(n)
        BY <1>7 DEF Commands
      <3>2. Commands(n)' = Commands(n) \cup {r}
        <4>1. ASSUME NEW q \in Commands(n)' PROVE q \in Commands(n) \cup {r}
          BY <1>2, <1>5, <1>6, <4>1 DEF Commands
        <4>2. ASSUME NEW q \in Commands(n) PROVE q \in Commands(n)'
          BY <1>6, <4>2 DEF Commands
        <4>3. r \in Commands(n)'
          BY <1>2, <1>5, <2>1 DEF Commands
        <4> QED
          BY <4>1, <4>2, <4>3
      <3>3. /\ IsFiniteSet(Commands(n) \cup {r})
            /\ Cardinality(Commands(n) \cup {r}) = Cardinality(Commands(n)) + 1
        BY <2>0, <3>1, FS_AddElement
      <3>4. cq'[n] = cq[n] - 1
        BY <2>0, <2>1 DEF Issue
      <3>5. Cardinality(Commands(n)) \in Nat
        BY <2>0, FS_CardinalityType
      <3> QED
        BY <2>0, <3>2, <3>3, <3>4, <3>5
    <2>2. CASE n # Src[r]
      <3>1. Commands(n)' = Commands(n)
        BY <1>2, <1>5, <1>6, <2>2 DEF Commands
      <3>2. cq'[n] = cq[n]
        BY <2>0, <2>2 DEF Issue
      <3> QED
        BY <2>0, <3>1, <3>2
    <2> QED
      BY <2>1, <2>2
  <1> QED
    BY <1>4, <1>8, <1>9, <1>10 DEF SlotInv, SlotsCounted, NothingWatched

\* handle_put, handle_get and the others free the slot of the command that
\* they accept.
LEMMA TxGetSlot ==
  ASSUME TypeOK, SlotInv, NEW x \in Port, TxGet(x)
  PROVE  SlotInv'
  <1>1. /\ txq \in [Port -> Seq(Msg)] /\ txq[x] # <<>> /\ txq' = [txq EXCEPT ![x] = Tail(@)]
        /\ UNCHANGED <<issued, e2eq>>
    BY DEF TypeOK, TxGet
  <1>2. PICK h \in Msg : h = Head(txq[x])
    BY <1>1, PopType
  <1>3. /\ 1 \in 1 .. Len(txq[x]) /\ h = txq[x][1]
        /\ \A i \in 1 .. Len(txq'[x]) :
              i + 1 \in 1 .. Len(txq[x]) /\ txq'[x][i] = txq[x][i + 1]
        /\ \A i \in 2 .. Len(txq[x]) :
              i - 1 \in 1 .. Len(txq'[x]) /\ txq'[x][i - 1] = txq[x][i]
        /\ \A y \in Port : y # x => txq'[y] = txq[y]
    BY <1>1, <1>2, QueueGet
  <1> DEFINE old(p, i) == IF p = x THEN i + 1 ELSE i
             new(p, i) == IF p = x THEN i - 1 ELSE i
  <1>4. ASSUME NEW p \in Port, NEW i \in Nat, IsCommand(p, i)'
        PROVE  /\ old(p, i) \in Nat /\ IsCommand(p, old(p, i))
               /\ txq'[p][i] = txq[p][old(p, i)] /\ ~(p = x /\ old(p, i) = 1)
    BY <1>1, <1>3, <1>4 DEF IsCommand
  <1>5. ASSUME NEW p \in Port, NEW i \in Nat, IsCommand(p, i), ~(p = x /\ i = 1)
        PROVE  /\ new(p, i) \in Nat /\ IsCommand(p, new(p, i))'
               /\ txq'[p][new(p, i)] = txq[p][i]
    <2>1. CASE p = x
      <3>1. i \in 2 .. Len(txq[x])
        BY <1>1, <1>5, <2>1 DEF IsCommand
      <3> QED
        BY <1>3, <1>5, <2>1, <3>1 DEF IsCommand
    <2>2. CASE p # x
      BY <1>3, <1>5, <2>2 DEF IsCommand
    <2> QED
      BY <2>1, <2>2
  <1>6. CommandsIssued'
    <2> SUFFICES ASSUME NEW p \in Port, NEW i \in Nat, IsCommand(p, i)'
                 PROVE  txq'[p][i].req \in issued
      BY <1>1 DEF CommandsIssued
    <2>1. /\ old(p, i) \in Nat /\ IsCommand(p, old(p, i))
          /\ txq'[p][i] = txq[p][old(p, i)]
      BY <1>4
    <2> HIDE DEF old
    <2> QED
      BY <2>1 DEF SlotInv, CommandsIssued
  <1>7. ASSUME NEW p \in Port, NEW q \in Port, NEW i \in Nat, NEW j \in Nat,
               IsCommand(p, i)', IsCommand(q, j)', txq'[p][i].req = txq'[q][j].req
        PROVE  p = q /\ i = j
    <2>1. p = q /\ old(p, i) = old(q, j)
      <3>1. /\ old(p, i) \in Nat /\ IsCommand(p, old(p, i)) /\ txq'[p][i] = txq[p][old(p, i)]
            /\ old(q, j) \in Nat /\ IsCommand(q, old(q, j)) /\ txq'[q][j] = txq[q][old(q, j)]
        BY <1>4, <1>7
      <3> HIDE DEF old
      <3> QED
        BY <1>7, <3>1 DEF SlotInv, CommandsDiffer
    <2> QED
      BY <2>1
  <1>8. ASSUME NEW n \in Node
        PROVE  /\ IsFiniteSet(Commands(n)')
               /\ cq'[n] + Cardinality(Commands(n)') = CQCapacity
    <2>0. /\ IsFiniteSet(Commands(n)) /\ cq[n] + Cardinality(Commands(n)) = CQCapacity
          /\ cq \in [Node -> Nat] /\ cq[n] \in Nat
      BY DEF SlotInv, SlotsCounted, TypeOK
    <2>1. Commands(n)' \subseteq Commands(n)
      BY <1>4 DEF Commands
    <2>2. Commands(n) \ {h.req} \subseteq Commands(n)'
      BY <1>3, <1>5 DEF Commands
    <2>3. h.req \in Req
      BY MsgParts
    <2>4. CASE h.type \in RequestTypes /\ Src[h.req] = n
      <3>1. IsCommand(x, 1)
        BY <1>3, <2>4 DEF IsCommand
      <3>2. h.req \in Commands(n)
        BY <1>3, <2>3, <2>4, <3>1 DEF Commands
      <3>3. h.req \notin Commands(n)'
        <4>1. ASSUME NEW p \in Port, NEW i \in Nat, IsCommand(p, i)', txq'[p][i].req = h.req
              PROVE  FALSE
          <5>1. /\ old(p, i) \in Nat /\ IsCommand(p, old(p, i))
                /\ txq'[p][i] = txq[p][old(p, i)] /\ ~(p = x /\ old(p, i) = 1)
            BY <1>4, <4>1
          <5> HIDE DEF old
          <5> QED
            BY <1>3, <3>1, <4>1, <5>1 DEF SlotInv, CommandsDiffer
        <4> QED
          BY <4>1 DEF Commands
      <3>4. Commands(n)' = Commands(n) \ {h.req}
        BY <2>1, <2>2, <3>3
      <3>5. /\ IsFiniteSet(Commands(n) \ {h.req})
            /\ Cardinality(Commands(n) \ {h.req}) = Cardinality(Commands(n)) - 1
        BY <2>0, <3>2, FS_RemoveElement
      <3>6. cq'[n] = cq[n] + 1
        <4>1. cq' = Bump(cq, n)
          BY <1>2, <2>4 DEF TxGet
        <4> QED
          BY <2>0, <4>1, BumpType
      <3>7. Cardinality(Commands(n)) \in Nat
        BY <2>0, FS_CardinalityType
      <3> QED
        BY <2>0, <3>4, <3>5, <3>6, <3>7
    <2>5. CASE ~(h.type \in RequestTypes /\ Src[h.req] = n)
      <3>1. Commands(n) \subseteq Commands(n)'
        <4> SUFFICES ASSUME NEW r \in Commands(n) PROVE r \in Commands(n)'
          OBVIOUS
        <4>1. PICK p \in Port : \E i \in Nat : IsCommand(p, i) /\ txq[p][i].req = r
          BY DEF Commands
        <4>2. PICK i \in Nat : IsCommand(p, i) /\ txq[p][i].req = r
          BY <4>1
        <4>3. ~(p = x /\ i = 1)
          BY <1>3, <2>5, <4>2 DEF Commands, IsCommand
        <4> QED
          BY <1>5, <4>2, <4>3 DEF Commands
      <3>2. Commands(n)' = Commands(n)
        BY <2>1, <3>1
      <3>3. cq'[n] = cq[n]
        <4>1. CASE h.type \notin RequestTypes
          BY <1>2, <4>1 DEF TxGet
        <4>2. CASE h.type \in RequestTypes /\ Src[h.req] # n
          <5>1. cq' = Bump(cq, Src[h.req]) /\ Src[h.req] \in Node
            BY <1>2, <2>3, <4>2 DEF TxGet
          <5> QED
            BY <2>0, <4>2, <5>1, BumpType
        <4> QED
          BY <2>5, <4>1, <4>2
      <3> QED
        BY <2>0, <3>2, <3>3
    <2> QED
      BY <2>4, <2>5
  <1> QED
    BY <1>1, <1>6, <1>7, <1>8 DEF SlotInv, CommandsDiffer, SlotsCounted, NothingWatched

\* Every step keeps the slots accounted for.
LEMMA NextSlot ==
  ASSUME NoRetransmission, TypeOK, SlotInv, [Next]_vars
  PROVE  SlotInv'
  <1>1. CASE UNCHANGED vars
    BY <1>1, OtherSlots DEF vars, SlotInv, NothingWatched
  <1>2. ASSUME NEW p \in Port, TxLaunch(p) \/ TxDone(p) PROVE SlotInv'
    <2>1. e2eq \in [Node -> Seq(Msg)] /\ p[1] \in Node
      BY PortParts DEF TypeOK
    <2>2. \A n \in E2EOff : e2eq'[n] = <<>>
      BY <1>2, <2>1 DEF TxLaunch, TxDone, ProcessMessage, SlotInv, NothingWatched
    <2> QED
      BY <1>2, <2>2, OtherSlots DEF TxLaunch, TxDone
  <1>3. ASSUME NEW n \in Node, E2E(n) PROVE SlotInv'
    <2>1. e2eq \in [Node -> Seq(Msg)] /\ e2eq[n] # <<>>
          /\ e2eq' = [e2eq EXCEPT ![n] = Tail(@)] /\ UNCHANGED <<cq, issued>>
      BY <1>3 DEF TypeOK, E2E, E2EDrop, E2EGiveUp, E2ERetransmit, E2EPop
    <2>2. n \notin E2EOff
      BY <2>1 DEF SlotInv, NothingWatched
    <2>3. \A y \in E2EOff : e2eq'[y] = <<>>
      BY <2>1, <2>2 DEF SlotInv, NothingWatched
    <2>4. PICK h \in Msg : h = Head(e2eq[n])
      BY <2>1, PopType
    <2>5. MaxRetries = 0 => ~(h.retry < MaxRetries)
      BY MsgParts
    <2>6. UNCHANGED txq
      BY <1>3, <2>2, <2>4, <2>5 DEF E2E, E2EDrop, E2EGiveUp, E2ERetransmit, NoRetransmission
    <2> QED
      BY <2>1, <2>3, <2>6, OtherSlots
  <1>4. ASSUME NEW p \in Port, NEW types, RxGet(p, types), NEW m \in Msg,
               m.type \notin RequestTypes, UNCHANGED txq \/ Reply(p, m)
        PROVE  SlotInv'
    <2>1. UNCHANGED <<cq, issued, e2eq>>
      BY <1>4 DEF RxGet, nicVars
    <2>2. ReplyPort(p) \in Port
      BY PortParts
    <2>3. \/ UNCHANGED txq
          \/ \E q \in Port : \E k \in Msg :
               k.type \notin RequestTypes /\ txq' = [txq EXCEPT ![q] = Append(@, k)]
      BY <1>4, <2>2 DEF Reply
    <2> QED
      BY <2>1, <2>3, OtherSlots DEF SlotInv, NothingWatched
  <1>5. ASSUME NEW p \in Port, Rx(p) PROVE SlotInv'
    <2>1. PICK types : RxGet(p, types)
      BY <1>5 DEF Rx, RxDuplicate, RxMatched, RxPutMatched, RxGetMatched, RxUnmatched,
         RxPutUnmatched, RxGetUnmatched, RxResponse, RxPtlAck, RxE2EAck, RxFirst
    <2>2. PICK m \in Msg : m.type \notin RequestTypes /\ (UNCHANGED txq \/ Reply(p, m))
      BY <1>5, RxReplies
    <2> QED
      BY <1>4, <2>1, <2>2
  <1> QED
    BY <1>1, <1>2, <1>3, <1>5, IssueSlot, TxGetSlot DEF Next, Tx

\* Without retransmissions the slots are accounted for in every state.
LEMMA SlotInvariant ==
  ASSUME NoRetransmission
  PROVE  Spec => []SlotInv
  <1>1. Init => SlotInv
    <2> SUFFICES ASSUME Init PROVE SlotInv
      OBVIOUS
    <2>1. \A p \in Port : \A i \in Nat : ~IsCommand(p, i)
      BY DEF Init, IsCommand
    <2>2. \A n \in Node : Commands(n) = {}
      BY <2>1 DEF Commands
    <2>3. IsFiniteSet({}) /\ Cardinality({}) = 0
      BY FS_EmptySet
    <2>4. \A n \in Node : cq[n] + 0 = CQCapacity
      BY DEF Init
    <2>5. \A n \in Node : IsFiniteSet(Commands(n)) /\ cq[n] + Cardinality(Commands(n)) = CQCapacity
      BY <2>2, <2>3, <2>4
    <2> QED
      BY <2>1, <2>5 DEF Init, SlotInv, CommandsDiffer, CommandsIssued, SlotsCounted,
         NothingWatched
  <1>2. TypeOK /\ SlotInv /\ [Next]_vars => SlotInv'
    BY NextSlot
  <1> QED
    BY <1>1, <1>2, TypeCorrect, PTL DEF Spec

\* Without retransmissions BxiNI::fini is right: when it holds all the slots
\* of the command queue, no command of its node waits in a TX queue.
THEOREM FiniSeesCommands ==
  ASSUME NoRetransmission
  PROVE  Spec => []FiniWaitsForCommands
  <1>1. TypeOK /\ SlotInv => FiniWaitsForCommands
    <2> SUFFICES ASSUME TypeOK, SlotInv, NEW n \in Node, cq[n] >= CQCapacity,
                        NEW p \in Port, NEW i \in 1 .. Len(txq[p]),
                        Src[txq[p][i].req] = n, txq[p][i].type \in RequestTypes
                 PROVE  FALSE
      BY DEF FiniWaitsForCommands
    <2>1. txq[p][i].req \in Req /\ i \in Nat
      BY MsgParts DEF TypeOK
    <2>2. txq[p][i].req \in Commands(n)
      BY <2>1 DEF Commands, IsCommand
    <2>3. /\ IsFiniteSet(Commands(n)) /\ cq[n] + Cardinality(Commands(n)) = CQCapacity
          /\ cq[n] \in Nat
      BY DEF SlotInv, SlotsCounted, TypeOK
    <2>4. Cardinality(Commands(n)) \in Nat
      BY <2>3, FS_CardinalityType
    <2>5. Cardinality(Commands(n)) = 0
      BY <2>3, <2>4
    <2>6. Commands(n) = {}
      BY <2>3, <2>5, FS_EmptySet
    <2> QED
      BY <2>2, <2>6
  <1> QED
    BY <1>1, TypeCorrect, SlotInvariant, PTL

-----------------------------------------------------------------------------
(***************************************************************************)
(* E2E entries.  Without retransmission there is at most one message of an *)
(* operation on its way, and where it is says which entries the operation  *)
(* holds: one of its initiator from the launch of the request until the    *)
(* answer is handled, one of its target from the launch of the answer      *)
(* until the E2E ACK of the answer is handled.                             *)
(***************************************************************************)
\* A message on its way: where, at which port, at which place, and itself.
Item == {"txq", "tx", "rxq"} \X Port \X Nat \X Msg

InQueue(w, q) == {t \in Item : t[1] = w /\ t[3] \in 1 .. Len(q[t[2]]) /\ q[t[2]][t[3]] = t[4]}
InActor(a)    == {t \in Item : t[1] = "tx" /\ t[3] = 0 /\ a[t[2]].pc = "init" /\ a[t[2]].msg = t[4]}

OnTheWay == InQueue("txq", txq) \cup InQueue("rxq", rxq) \cup InActor(tx)

Origin(m) == IF FromInitiator(m) THEN Src[m.req] ELSE Dst[m.req]

\* A message is what the state of its request calls for, at its own node.
Sound(t) ==
  LET m == t[4] IN
  /\ m.retry = 0 /\ m.req \in issued
  /\ t[2][1] = IF t[1] = "rxq" THEN Target(m) ELSE Origin(m)
  /\ m.type \in RequestTypes => state[m.req] = CREATED
  /\ m.type \in ResponseTypes => state[m.req] <= RECEIVED
  /\ m.type = "PTL_ACK" => AckReq[m.req] # "NO_ACK_REQ"
  /\ m.type = "E2E_ACK" => state[m.req] <= ANSWERED /\ m.answers \in RequestTypes \cup ResponseTypes

OneMessage == \A s, t \in OnTheWay : s[4].req = t[4].req => s = t
AllSound   == \A t \in OnTheWay : Sound(t)
Untouched  == \A r \in Req \ issued : state[r] = CREATED

\* The sides of an operation that have taken an entry and wait for it.
Owes(w, m, side) ==
  \/ /\ side = "src"
     /\ m.type \in RequestTypes => w = "rxq"
     /\ m.type = "E2E_ACK" => m.answers \in RequestTypes
  \/ /\ side = "dst"
     /\ \/ m.type \in ResponseTypes /\ w = "rxq"
        \/ m.type = "E2E_ACK" /\ m.answers \in ResponseTypes

Holder(r, side) == IF side = "src" THEN Src[r] ELSE Dst[r]

\* The entries of node n that the messages of S stand for.
Charge(S, n) ==
  {c \in Req \X {"src", "dst"} :
     /\ Holder(c[1], c[2]) = n
     /\ \E t \in S : t[4].req = c[1] /\ Owes(t[1], t[4], c[2])}

\* From S to T the messages in gone are taken and those in new put; the others
\* at most move up in their queue.
Carries(S, T, gone, new) ==
  /\ gone \subseteq S /\ new \subseteq T
  /\ \E g \in [S \ gone -> T] :
       /\ \A t \in S \ gone : g[t][1] = t[1] /\ g[t][2] = t[2] /\ g[t][4] = t[4]
       /\ \A u \in T : u \in new \/ \E t \in S \ gone : u = g[t]

\* Messages that stay where they are.
LEMMA CarriesInPlace ==
  ASSUME NEW S, NEW gone, gone \subseteq S, NEW new
  PROVE  Carries(S, (S \ gone) \cup new, gone, new)
  <1> DEFINE T == (S \ gone) \cup new
             g == [t \in S \ gone |-> t]
  <1>1. g \in [S \ gone -> T] /\ \A t \in S \ gone : g[t] = t
    OBVIOUS
  <1>2. /\ \A t \in S \ gone : g[t][1] = t[1] /\ g[t][2] = t[2] /\ g[t][4] = t[4]
        /\ \A u \in T : u \in new \/ \E t \in S \ gone : u = g[t]
    BY <1>1
  <1> QED
    BY <1>1, <1>2 DEF Carries

\* A put adds a message to the end of a queue.
Adds(S, T, u) == T = S \cup {u}

LEMMA ItemPut ==
  ASSUME NEW w, w = "txq" \/ w = "rxq", NEW f \in [Port -> Seq(Msg)], NEW x \in Port, NEW m \in Msg,
         NEW g, g = [f EXCEPT ![x] = Append(@, m)]
  PROVE  Adds(InQueue(w, f), InQueue(w, g), <<w, x, Len(f[x]) + 1, m>>)
  <1> DEFINE u == <<w, x, Len(f[x]) + 1, m>>
  <1>1. /\ \A y \in Port : \A i \in 1 .. Len(f[y]) : i \in 1 .. Len(g[y]) /\ g[y][i] = f[y][i]
        /\ \A y \in Port : \A i \in 1 .. Len(g[y]) :
             \/ i \in 1 .. Len(f[y]) /\ g[y][i] = f[y][i]
             \/ y = x /\ i = Len(f[x]) + 1 /\ g[y][i] = m
        /\ Len(f[x]) + 1 \in 1 .. Len(g[x]) /\ g[x][Len(f[x]) + 1] = m
    BY QueuePut
  <1>2. u \in Item
    BY DEF Item
  <1>3. ASSUME NEW t \in InQueue(w, g) PROVE t \in InQueue(w, f) \/ t = u
    <2>1. t \in Item /\ t[1] = w /\ t[3] \in 1 .. Len(g[t[2]]) /\ g[t[2]][t[3]] = t[4]
      BY <1>3 DEF InQueue
    <2>2. t[2] \in Port /\ t = <<t[1], t[2], t[3], t[4]>>
      BY <2>1 DEF Item
    <2>3. CASE t[3] \in 1 .. Len(f[t[2]]) /\ g[t[2]][t[3]] = f[t[2]][t[3]]
      BY <2>1, <2>3 DEF InQueue
    <2>4. CASE t[2] = x /\ t[3] = Len(f[x]) + 1 /\ g[t[2]][t[3]] = m
      BY <2>1, <2>2, <2>4
    <2> QED
      BY <1>1, <2>1, <2>2, <2>3, <2>4
  <1>4. ASSUME NEW t \in InQueue(w, f) PROVE t \in InQueue(w, g)
    <2>1. t \in Item /\ t[1] = w /\ t[3] \in 1 .. Len(f[t[2]]) /\ f[t[2]][t[3]] = t[4]
      BY <1>4 DEF InQueue
    <2>2. t[2] \in Port
      BY <2>1 DEF Item
    <2> QED
      BY <1>1, <2>1, <2>2 DEF InQueue
  <1>5. u \in InQueue(w, g)
    BY <1>1, <1>2 DEF InQueue
  <1>6. InQueue(w, g) = InQueue(w, f) \cup {u}
    BY <1>3, <1>4, <1>5
  <1> QED
    BY <1>6 DEF Adds

\* A get takes the first message of a queue and the others move up.
LEMMA ItemGet ==
  ASSUME NEW w, w = "txq" \/ w = "rxq", NEW f \in [Port -> Seq(Msg)], NEW x \in Port, f[x] # <<>>,
         NEW h, h = [f EXCEPT ![x] = Tail(@)],
         NEW Rest, \A t \in Rest : t[1] # w, NEW new
  PROVE  /\ <<w, x, 1, Head(f[x])>> \in InQueue(w, f)
         /\ Carries(InQueue(w, f) \cup Rest, InQueue(w, h) \cup Rest \cup new,
                    {<<w, x, 1, Head(f[x])>>}, new)
  <1> DEFINE u  == <<w, x, 1, Head(f[x])>>
             S  == InQueue(w, f) \cup Rest
             T  == InQueue(w, h) \cup Rest \cup new
             up(t) == IF t[1] = w /\ t[2] = x THEN <<w, x, t[3] - 1, t[4]>> ELSE t
             g  == [t \in S \ {u} |-> up(t)]
  <1>1. /\ 1 \in 1 .. Len(f[x]) /\ Head(f[x]) = f[x][1]
        /\ \A i \in 1 .. Len(h[x]) : i + 1 \in 1 .. Len(f[x]) /\ h[x][i] = f[x][i + 1]
        /\ \A i \in 2 .. Len(f[x]) : i - 1 \in 1 .. Len(h[x]) /\ h[x][i - 1] = f[x][i]
        /\ \A y \in Port : y # x => h[y] = f[y]
    BY QueueGet
  <1>2. f[x] \in Seq(Msg) /\ h[x] = Tail(f[x]) /\ Head(f[x]) \in Msg /\ Len(f[x]) \in Nat
        /\ Len(h[x]) \in Nat
    OBVIOUS
  <1>3. u \in InQueue(w, f)
    BY <1>1, <1>2 DEF InQueue, Item
  <1>4. ASSUME NEW t \in InQueue(w, f), t # u
        PROVE  up(t) \in InQueue(w, h) /\ up(t)[1] = t[1] /\ up(t)[2] = t[2] /\ up(t)[4] = t[4]
    <2>1. t \in Item /\ t[1] = w /\ t[3] \in 1 .. Len(f[t[2]]) /\ f[t[2]][t[3]] = t[4]
      BY <1>4 DEF InQueue
    <2>2. t[2] \in Port /\ t[3] \in Nat /\ t[4] \in Msg /\ t = <<t[1], t[2], t[3], t[4]>>
      BY <2>1 DEF Item
    <2>3. CASE t[2] = x
      <3>1. t[3] # 1
        BY <1>1, <1>4, <2>1, <2>2, <2>3
      <3>2. t[3] \in 2 .. Len(f[x])
        BY <1>2, <2>1, <2>3, <3>1
      <3>3. t[3] - 1 \in 1 .. Len(h[x]) /\ h[x][t[3] - 1] = t[4]
        BY <1>1, <2>1, <2>3, <3>2
      <3>4. up(t) = <<w, x, t[3] - 1, t[4]>>
        BY <2>1, <2>3
      <3>5. <<w, x, t[3] - 1, t[4]>> \in Item
        BY <2>2, <3>2 DEF Item
      <3>6. <<w, x, t[3] - 1, t[4]>> \in InQueue(w, h)
        BY <3>3, <3>5 DEF InQueue
      <3> QED
        BY <2>1, <2>3, <3>4, <3>6
    <2>4. CASE t[2] # x
      <3>1. t \in InQueue(w, h)
        BY <1>1, <2>1, <2>2, <2>4 DEF InQueue
      <3> QED
        BY <2>4, <3>1
    <2> QED
      BY <2>3, <2>4
  <1>5. ASSUME NEW t \in InQueue(w, h)
        PROVE  \E s \in InQueue(w, f) \ {u} : t = up(s)
    <2>1. t \in Item /\ t[1] = w /\ t[3] \in 1 .. Len(h[t[2]]) /\ h[t[2]][t[3]] = t[4]
      BY <1>5 DEF InQueue
    <2>2. t[2] \in Port /\ t[3] \in Nat /\ t[4] \in Msg /\ t = <<t[1], t[2], t[3], t[4]>>
      BY <2>1 DEF Item
    <2>3. CASE t[2] = x
      <3> DEFINE s == <<w, x, t[3] + 1, t[4]>>
      <3>1. t[3] + 1 \in 1 .. Len(f[x]) /\ f[x][t[3] + 1] = t[4] /\ t[3] >= 1
        BY <1>1, <1>2, <2>1, <2>3
      <3>2. s \in Item
        BY <2>2 DEF Item
      <3>3. s \in InQueue(w, f) /\ s # u
        BY <2>2, <3>1, <3>2 DEF InQueue
      <3>4. up(s) = <<w, x, t[3], t[4]>>
        BY <2>2
      <3>5. up(s) = t
        BY <2>1, <2>2, <2>3, <3>4
      <3> QED
        BY <3>3, <3>5
    <2>4. CASE t[2] # x
      <3>1. t \in InQueue(w, f) /\ t # u
        BY <1>1, <2>1, <2>2, <2>4 DEF InQueue
      <3> QED
        BY <2>4, <3>1
    <2> QED
      BY <2>3, <2>4
  <1>6. ASSUME NEW t \in Rest PROVE up(t) = t /\ t # u
    BY <1>6
  <1> HIDE DEF up, u
  <1>7. ASSUME NEW t \in S \ {u}
        PROVE  up(t) \in T /\ up(t)[1] = t[1] /\ up(t)[2] = t[2] /\ up(t)[4] = t[4]
    BY <1>4, <1>6
  <1>8. g \in [S \ {u} -> T] /\ \A t \in S \ {u} : g[t] = up(t)
    BY <1>7
  <1>9. \A t \in T : t \in new \/ \E s \in S \ {u} : t = g[s]
    <2>1. ASSUME NEW t \in InQueue(w, h) PROVE \E s \in S \ {u} : t = g[s]
      BY <1>5, <1>8, <2>1
    <2>2. ASSUME NEW t \in Rest PROVE \E s \in S \ {u} : t = g[s]
      BY <1>6, <1>8, <2>2
    <2> QED
      BY <2>1, <2>2
  <1>10. {u} \subseteq S /\ new \subseteq T
    BY <1>3
  <1> HIDE DEF S, T, g
  <1>11. Carries(S, T, {u}, new)
    <2>1. \A t \in S \ {u} : g[t][1] = t[1] /\ g[t][2] = t[2] /\ g[t][4] = t[4]
      BY <1>7, <1>8
    <2> QED
      BY <1>8, <1>9, <1>10, <2>1 DEF Carries
  <1> QED
    BY <1>3, <1>11 DEF S, T, u

\* A step takes and puts messages of one operation, at most one of them new.
Moves(r, gone, new) ==
  /\ Carries(OnTheWay, OnTheWay', gone, new)
  /\ \A t \in gone : t[4].req = r
  /\ \A t \in OnTheWay : t[4].req = r => t \in gone
  /\ \A t \in new : t[4].req = r /\ Sound(t)'
  /\ \A s, t \in new : s = t
  /\ r \in issued' /\ issued \subseteq issued'
  /\ \A q \in Req : q # r => state'[q] = state[q]

\* It keeps the others as they are, and changes the entries of that operation
\* only.
LEMMA ItemStep ==
  ASSUME OneMessage, AllSound, NEW r \in Req, NEW gone, NEW new, Moves(r, gone, new)
  PROVE  /\ OneMessage' /\ AllSound'
         /\ \A n \in Node : /\ Charge(gone, n) \subseteq Charge(OnTheWay, n)
                            /\ Charge(OnTheWay, n) \cap Charge(new, n) \subseteq Charge(gone, n)
                            /\ Charge(OnTheWay, n)' =
                                 (Charge(OnTheWay, n) \ Charge(gone, n)) \cup Charge(new, n)
  <1>1. PICK g \in [OnTheWay \ gone -> OnTheWay'] :
          /\ \A t \in OnTheWay \ gone : g[t][1] = t[1] /\ g[t][2] = t[2] /\ g[t][4] = t[4]
          /\ \A u \in OnTheWay' : u \in new \/ \E t \in OnTheWay \ gone : u = g[t]
    BY DEF Moves, Carries
  <1>2. gone \subseteq OnTheWay /\ new \subseteq OnTheWay'
    BY DEF Moves, Carries
  <1>0. /\ \A t \in gone : t[4].req = r
        /\ \A t \in OnTheWay : t[4].req = r => t \in gone
        /\ \A t \in new : t[4].req = r /\ Sound(t)'
        /\ \A s, t \in new : s = t
        /\ r \in issued' /\ issued \subseteq issued'
        /\ \A q \in Req : q # r => state'[q] = state[q]
    BY DEF Moves
  <1>3. \A t \in OnTheWay : t \in Item /\ t[4] \in Msg /\ t[4].req \in Req
    BY MsgParts DEF OnTheWay, InQueue, InActor, Item
  <1>4. ASSUME NEW u \in OnTheWay', u \notin new
        PROVE  \E t \in OnTheWay \ gone :
                 /\ u = g[t] /\ u[1] = t[1] /\ u[2] = t[2] /\ u[4] = t[4] /\ t[4].req # r
                 /\ t[4].req \in Req
    BY <1>0, <1>1, <1>3, <1>4
  <1>5. OneMessage'
    <2> SUFFICES ASSUME NEW s \in OnTheWay', NEW u \in OnTheWay', s[4].req = u[4].req
                 PROVE  s = u
      BY DEF OneMessage
    <2>1. CASE s \in new /\ u \in new
      BY <1>0, <2>1
    <2>2. CASE s \in new /\ u \notin new
      BY <1>0, <1>4, <2>2
    <2>3. CASE s \notin new /\ u \in new
      BY <1>0, <1>4, <2>3
    <2>4. CASE s \notin new /\ u \notin new
      <3>1. PICK a \in OnTheWay \ gone : s = g[a] /\ s[4] = a[4]
        BY <1>4, <2>4
      <3>2. PICK b \in OnTheWay \ gone : u = g[b] /\ u[4] = b[4]
        BY <1>4, <2>4
      <3>3. a = b
        BY <3>1, <3>2 DEF OneMessage
      <3> QED
        BY <3>1, <3>2, <3>3
    <2> QED
      BY <2>1, <2>2, <2>3, <2>4
  <1>6. AllSound'
    <2> SUFFICES ASSUME NEW u \in OnTheWay', u \notin new PROVE Sound(u)'
      BY <1>0 DEF AllSound
    <2>1. PICK t \in OnTheWay \ gone : /\ u[1] = t[1] /\ u[2] = t[2] /\ u[4] = t[4]
                                       /\ t[4].req # r /\ t[4].req \in Req
      BY <1>4
    <2>2. Sound(t)
      BY DEF AllSound
    <2> QED
      BY <1>0, <2>1, <2>2 DEF Sound
  <1>7. ASSUME NEW n \in Node
        PROVE  /\ Charge(gone, n) \subseteq Charge(OnTheWay, n)
               /\ Charge(OnTheWay, n) \cap Charge(new, n) \subseteq Charge(gone, n)
    <2>1. Charge(gone, n) \subseteq Charge(OnTheWay, n)
      BY <1>2 DEF Charge
    <2>2. ASSUME NEW c \in Charge(OnTheWay, n), c \in Charge(new, n) PROVE c \in Charge(gone, n)
      <3>1. c[1] = r
        BY <1>0, <2>2 DEF Charge
      <3>2. PICK t \in OnTheWay : t[4].req = c[1] /\ Owes(t[1], t[4], c[2])
        BY <2>2 DEF Charge
      <3>3. t \in gone
        BY <1>0, <3>1, <3>2
      <3> QED
        BY <2>2, <3>2, <3>3 DEF Charge
    <2> QED
      BY <2>1, <2>2
  <1>8. ASSUME NEW n \in Node
        PROVE  Charge(OnTheWay, n)' = (Charge(OnTheWay, n) \ Charge(gone, n)) \cup Charge(new, n)
    <2>1. ASSUME NEW c \in Charge(OnTheWay', n)
          PROVE  c \in (Charge(OnTheWay, n) \ Charge(gone, n)) \cup Charge(new, n)
      <3>1. PICK u \in OnTheWay' : u[4].req = c[1] /\ Owes(u[1], u[4], c[2])
        BY <2>1 DEF Charge
      <3>2. CASE u \in new
        BY <2>1, <3>1, <3>2 DEF Charge
      <3>3. CASE u \notin new
        <4>1. PICK t \in OnTheWay \ gone : u[1] = t[1] /\ u[4] = t[4] /\ t[4].req # r
          BY <1>4, <3>3
        <4>2. c[1] # r
          BY <3>1, <4>1
        <4>3. c \notin Charge(gone, n)
          BY <1>0, <4>2 DEF Charge
        <4>4. c \in Charge(OnTheWay, n)
          BY <2>1, <3>1, <4>1 DEF Charge
        <4> QED
          BY <4>3, <4>4
      <3> QED
        BY <3>2, <3>3
    <2>2. ASSUME NEW c \in Charge(OnTheWay, n), c \notin Charge(gone, n)
          PROVE  c \in Charge(OnTheWay', n)
      <3>1. PICK t \in OnTheWay : t[4].req = c[1] /\ Owes(t[1], t[4], c[2])
        BY <2>2 DEF Charge
      <3>2. t \notin gone
        BY <2>2, <3>1 DEF Charge
      <3>3. g[t] \in OnTheWay' /\ g[t][1] = t[1] /\ g[t][4] = t[4]
        BY <1>1, <3>2
      <3> QED
        BY <2>2, <3>1, <3>3 DEF Charge
    <2>3. Charge(new, n) \subseteq Charge(OnTheWay', n)
      BY <1>2 DEF Charge
    <2>4. Charge(OnTheWay', n) = (Charge(OnTheWay, n) \ Charge(gone, n)) \cup Charge(new, n)
      BY <2>1, <2>2, <2>3
    <2> QED
      BY <2>4 DEF Charge
  <1> QED
    BY <1>5, <1>6, <1>7, <1>8

\* Every operation that takes an entry gets an answer that gives it back: a
\* Put or Atomic that nothing answers finds a match, and no answer comes from
\* a node with E2E to one without, which sends no E2E ACK.
Conserving ==
  \A r \in Req :
    /\ NoEntry \in Outcome[r] /\ Kind[r] \in PutLike /\ Src[r] \notin E2EOff
         => Kind[r] = "PUT" /\ AckReq[r] # "NO_ACK_REQ"
    /\ Answerable(r) /\ Src[r] \in E2EOff => Dst[r] \in E2EOff

\* The free entries of a node and those its operations hold make up the pool.
Counted(n) ==
  /\ n \in E2EOff => entries[n] = MaxE2EEntries
  /\ n \notin E2EOff =>
       /\ IsFiniteSet(Charge(OnTheWay, n))
       /\ entries[n] + Cardinality(Charge(OnTheWay, n)) <= MaxE2EEntries
       /\ Conserving => entries[n] + Cardinality(Charge(OnTheWay, n)) = MaxE2EEntries

EntryInv == OneMessage /\ AllSound /\ Untouched /\ \A n \in Node : Counted(n)

\* A step that takes gone and puts new takes and returns entries accordingly.
Balanced(n, gone, new) ==
  /\ n \in E2EOff => entries'[n] = entries[n]
  /\ n \notin E2EOff =>
       \/ Charge(new, n) = Charge(gone, n) /\ entries'[n] = entries[n]
       \/ \E c : /\ c \notin Charge(gone, n) /\ Charge(new, n) = Charge(gone, n) \cup {c}
                 /\ entries'[n] = entries[n] - 1
       \/ \E c \in Charge(gone, n) : /\ Charge(new, n) = Charge(gone, n) \ {c}
                                     /\ entries'[n] = entries[n] + 1
       \/ ~Conserving /\ Charge(new, n) \subseteq Charge(gone, n) /\ entries'[n] = entries[n]

\* The sum does not grow when charges are dropped.
LEMMA CountLose ==
  ASSUME NEW A, IsFiniteSet(A), NEW B \in SUBSET A, NEW e \in Nat
  PROVE  IsFiniteSet(B) /\ e + Cardinality(B) <= e + Cardinality(A)
  <1>1. IsFiniteSet(B) /\ Cardinality(B) <= Cardinality(A)
    BY FS_Subset
  <1>2. Cardinality(A) \in Nat /\ Cardinality(B) \in Nat
    BY <1>1, FS_CardinalityType
  <1> QED
    BY <1>1, <1>2

\* Steps that move messages of one operation and are balanced keep the count.
LEMMA EntryStep ==
  ASSUME TypeOK, TypeOK', EntryInv, NEW r \in Req, NEW gone, NEW new,
         Moves(r, gone, new), \A n \in Node : Balanced(n, gone, new)
  PROVE  EntryInv'
  <1>1. /\ OneMessage' /\ AllSound'
        /\ \A n \in Node : /\ Charge(gone, n) \subseteq Charge(OnTheWay, n)
                           /\ Charge(OnTheWay, n) \cap Charge(new, n) \subseteq Charge(gone, n)
                           /\ Charge(OnTheWay, n)' =
                                (Charge(OnTheWay, n) \ Charge(gone, n)) \cup Charge(new, n)
    BY ItemStep DEF EntryInv
  <1>2. ASSUME NEW n \in Node PROVE Counted(n)'
    <2>1. Counted(n) /\ Balanced(n, gone, new)
      BY DEF EntryInv
    <2>2. CASE n \in E2EOff
      BY <2>1, <2>2 DEF Counted, Balanced
    <2>3. CASE n \notin E2EOff
      <3> DEFINE A == Charge(OnTheWay, n)
                 B == Charge(OnTheWay, n)'
                 G == Charge(gone, n)
                 N == Charge(new, n)
      <3>1. /\ IsFiniteSet(A) /\ entries[n] + Cardinality(A) <= MaxE2EEntries
            /\ Conserving => entries[n] + Cardinality(A) = MaxE2EEntries
        BY <2>1, <2>3 DEF Counted
      <3>2. entries[n] \in Nat /\ entries'[n] \in Nat
        BY DEF TypeOK
      <3>3. G \subseteq A /\ A \cap N \subseteq G /\ B = (A \ G) \cup N
        BY <1>1
      <3>4. \/ N = G /\ entries'[n] = entries[n]
            \/ \E c : c \notin G /\ N = G \cup {c} /\ entries'[n] = entries[n] - 1
            \/ \E c \in G : N = G \ {c} /\ entries'[n] = entries[n] + 1
            \/ ~Conserving /\ N \subseteq G /\ entries'[n] = entries[n]
        BY <2>1, <2>3 DEF Balanced
      <3>5. Cardinality(A) \in Nat
        BY <3>1, FS_CardinalityType
      <3> HIDE DEF A, B, G, N
      <3>6. ASSUME N = G, entries'[n] = entries[n]
            PROVE  IsFiniteSet(B) /\ entries'[n] + Cardinality(B) = entries[n] + Cardinality(A)
        <4>1. B = (A \ G) \cup G /\ G \subseteq A
          BY <3>3, <3>6
        <4>2. B = A
          BY <4>1 DEF A, Charge
        <4> QED
          BY <3>1, <3>5, <3>6, <4>2, Zenon
      <3>7. ASSUME NEW c, c \notin G, N = G \cup {c}, entries'[n] = entries[n] - 1
            PROVE  IsFiniteSet(B) /\ entries'[n] + Cardinality(B) = entries[n] + Cardinality(A)
        <4>1. B = A \cup {c} /\ c \notin A
          BY <3>3, <3>7
        <4>2. IsFiniteSet(A \cup {c}) /\ Cardinality(A \cup {c}) = Cardinality(A) + 1
          BY <3>1, <4>1, FS_AddElement
        <4>3. IsFiniteSet(B) /\ Cardinality(B) = Cardinality(A) + 1
          BY <4>1, <4>2, Zenon
        <4> QED
          BY <3>2, <3>5, <3>7, <4>3
      <3>8. ASSUME NEW c \in G, N = G \ {c}, entries'[n] = entries[n] + 1
            PROVE  IsFiniteSet(B) /\ entries'[n] + Cardinality(B) = entries[n] + Cardinality(A)
        <4>1. B = A \ {c} /\ c \in A
          BY <3>3, <3>8
        <4>2. IsFiniteSet(A \ {c}) /\ Cardinality(A \ {c}) = Cardinality(A) - 1
          BY <3>1, <4>1, FS_RemoveElement
        <4>3. IsFiniteSet(B) /\ Cardinality(B) = Cardinality(A) - 1
          BY <4>1, <4>2, Zenon
        <4> QED
          BY <3>2, <3>5, <3>8, <4>3
      <3>9. CASE ~Conserving /\ N \subseteq G /\ entries'[n] = entries[n]
        <4>1. B \in SUBSET A
          BY <3>3, <3>9
        <4>2. IsFiniteSet(B) /\ entries[n] + Cardinality(B) <= entries[n] + Cardinality(A)
          BY <3>1, <3>2, <4>1, CountLose
        <4>3. Cardinality(B) \in Nat
          BY <4>2, FS_CardinalityType
        <4>4. /\ IsFiniteSet(B) /\ entries'[n] + Cardinality(B) <= MaxE2EEntries
              /\ Conserving => entries'[n] + Cardinality(B) = MaxE2EEntries
          BY <3>1, <3>2, <3>5, <3>9, <4>2, <4>3
        <4> QED
          BY <2>3, <4>4 DEF Counted, B
      <3>10. CASE IsFiniteSet(B) /\ entries'[n] + Cardinality(B) = entries[n] + Cardinality(A)
        <4>1. /\ IsFiniteSet(B) /\ entries'[n] + Cardinality(B) <= MaxE2EEntries
              /\ Conserving => entries'[n] + Cardinality(B) = MaxE2EEntries
          BY <3>1, <3>10
        <4> QED
          BY <2>3, <4>1 DEF Counted, B
      <3> QED
        BY <3>4, <3>6, <3>7, <3>8, <3>9, <3>10
    <2> QED
      BY <2>2, <2>3
  <1>3. Untouched'
    BY DEF EntryInv, Untouched, Moves
  <1> QED
    BY <1>1, <1>2, <1>3 DEF EntryInv

\* Nothing on the way moves.
LEMMA EntryStutter ==
  ASSUME TypeOK, TypeOK', EntryInv, UNCHANGED <<issued, state, entries>>, OnTheWay' = OnTheWay
  PROVE  EntryInv'
  <1>1. OneMessage'
    BY DEF EntryInv, OneMessage
  <1>2. AllSound'
    <2> SUFFICES ASSUME NEW t \in OnTheWay PROVE Sound(t)'
      BY DEF AllSound
    <2>1. Sound(t)
      BY DEF EntryInv, AllSound
    <2> QED
      BY <2>1 DEF Sound
  <1>3. ASSUME NEW n \in Node PROVE Counted(n)'
    <2>1. Counted(n)
      BY DEF EntryInv
    <2>2. Charge(OnTheWay, n)' = Charge(OnTheWay, n)
      BY DEF Charge
    <2> QED
      BY <2>1, <2>2 DEF Counted
  <1>4. Untouched'
    BY DEF EntryInv, Untouched
  <1> QED
    BY <1>1, <1>2, <1>3, <1>4 DEF EntryInv

\* Some message of S waits for the entry of this side.
Owing(S, side) == \E t \in S : Owes(t[1], t[4], side)

\* What the messages of one operation stand for.
LEMMA ChargeOf ==
  ASSUME NEW S, NEW r \in Req, \A t \in S : t[4].req = r, NEW n \in Node
  PROVE  Charge(S, n) = {c \in {<<r, "src">>, <<r, "dst">>} :
                           Holder(r, c[2]) = n /\ Owing(S, c[2])}
  <1>1. ASSUME NEW c \in Req \X {"src", "dst"}, c[1] = r
        PROVE  c \in {<<r, "src">>, <<r, "dst">>}
    BY <1>1
  <1>2. Charge(S, n) \subseteq {c \in {<<r, "src">>, <<r, "dst">>} :
                                  Holder(r, c[2]) = n /\ Owing(S, c[2])}
    BY <1>1 DEF Charge, Owing
  <1>3. ASSUME NEW c \in {<<r, "src">>, <<r, "dst">>}, Holder(r, c[2]) = n, Owing(S, c[2])
        PROVE  c \in Charge(S, n)
    <2>1. c \in Req \X {"src", "dst"} /\ c[1] = r
      BY <1>3
    <2> QED
      BY <1>3, <2>1 DEF Charge, Owing
  <1> QED
    BY <1>2, <1>3

\* One side takes its entry, or gives it back, or nothing changes.
LEMMA BalancedBy ==
  ASSUME NEW r \in Req, NEW gone, \A t \in gone : t[4].req = r,
         NEW new, \A t \in new : t[4].req = r, NEW n \in Node,
         NEW side \in {"src", "dst"}, NEW other \in {"src", "dst"}, side # other,
         Owing(gone, other) <=> Owing(new, other),
         \/ (Owing(gone, side) <=> Owing(new, side)) /\ entries'[n] = entries[n]
         \/ /\ ~Owing(gone, side) /\ Owing(new, side)
            /\ entries'[n] = IF n = Holder(r, side) /\ n \notin E2EOff
                             THEN entries[n] - 1 ELSE entries[n]
         \/ /\ Owing(gone, side) /\ ~Owing(new, side)
            /\ entries'[n] = IF n = Holder(r, side) /\ n \notin E2EOff
                             THEN entries[n] + 1 ELSE entries[n]
  PROVE  Balanced(n, gone, new)
  <1> DEFINE G == Charge(gone, n)
             N == Charge(new, n)
             c == <<r, side>>
  <1>1. n \in E2EOff => entries'[n] = entries[n]
    OBVIOUS
  <1>2. \A d : d \in G <=> /\ d \in {<<r, "src">>, <<r, "dst">>}
                           /\ Holder(r, d[2]) = n /\ Owing(gone, d[2])
    BY ChargeOf
  <1>3. \A d : d \in N <=> /\ d \in {<<r, "src">>, <<r, "dst">>}
                           /\ Holder(r, d[2]) = n /\ Owing(new, d[2])
    BY ChargeOf
  <1>4. \A d \in {<<r, "src">>, <<r, "dst">>} : d = c \/ d[2] = other
    OBVIOUS
  <1>5. c[2] = side /\ c \in {<<r, "src">>, <<r, "dst">>}
    OBVIOUS
  <1> HIDE DEF G, N, c
  <1>6. \A d : d # c => (d \in G <=> d \in N)
    BY <1>2, <1>3, <1>4
  <1>7. CASE (Owing(gone, side) <=> Owing(new, side)) \/ n # Holder(r, side)
    <2>1. c \in G <=> c \in N
      BY <1>2, <1>3, <1>5, <1>7
    <2>2. \A d : d \in N <=> d \in G
      BY <1>6, <2>1, Zenon
    <2>0. N = G
      BY <2>2 DEF N, G, Charge
    <2>3. entries'[n] = entries[n]
      <3>1. CASE n # Holder(r, side)
        BY <3>1
      <3>2. CASE Owing(gone, side) <=> Owing(new, side)
        BY <3>2, Zenon
      <3> QED
        BY <1>7, <3>1, <3>2
    <2> QED
      BY <1>1, <2>0, <2>3 DEF Balanced, G, N
  <1>8. CASE ~Owing(gone, side) /\ Owing(new, side) /\ n = Holder(r, side)
    <2>1. c \notin G /\ c \in N
      BY <1>2, <1>3, <1>5, <1>8
    <2>2. N = G \cup {c}
      BY <1>6, <2>1
    <2>3. n \notin E2EOff => entries'[n] = entries[n] - 1
      BY <1>8
    <2> QED
      BY <1>1, <2>1, <2>2, <2>3 DEF Balanced, G, N
  <1>9. CASE Owing(gone, side) /\ ~Owing(new, side) /\ n = Holder(r, side)
    <2>1. c \in G /\ c \notin N
      BY <1>2, <1>3, <1>5, <1>9
    <2>2. N = G \ {c}
      BY <1>6, <2>1
    <2>3. n \notin E2EOff => entries'[n] = entries[n] + 1
      BY <1>9
    <2> QED
      BY <1>1, <2>1, <2>2, <2>3 DEF Balanced, G, N
  <1> QED
    BY <1>7, <1>8, <1>9

\* An operation that is dropped: what it holds is lost, if it is at a node
\* with E2E.
LEMMA BalancedLoss ==
  ASSUME NEW r \in Req, NEW gone, \A t \in gone : t[4].req = r, NEW n \in Node,
         \A side \in {"src", "dst"} :
            Owing(gone, side) /\ Conserving => Holder(r, side) \in E2EOff,
         entries'[n] = entries[n]
  PROVE  Balanced(n, gone, {})
  <1>1. Charge({}, n) = {}
    BY DEF Charge
  <1>2. CASE ~Conserving
    BY <1>1, <1>2 DEF Balanced
  <1>3. CASE Conserving
    <2>1. ASSUME n \notin E2EOff, NEW c \in Charge(gone, n) PROVE FALSE
      <3>1. c \in {<<r, "src">>, <<r, "dst">>} /\ Holder(r, c[2]) = n /\ Owing(gone, c[2])
        BY <2>1, ChargeOf
      <3>2. c[2] \in {"src", "dst"}
        BY <3>1
      <3> QED
        BY <1>3, <2>1, <3>1, <3>2
    <2> QED
      BY <1>1, <2>1 DEF Balanced
  <1> QED
    BY <1>2, <1>3

\* The entries that a message stands for, by its type.
LEMMA OwingOne ==
  ASSUME NEW t, t[4] \in Msg
  PROVE  /\ t[4].type \in RequestTypes =>
              /\ Owing({t}, "src") <=> t[1] = "rxq"
              /\ ~Owing({t}, "dst")
         /\ t[4].type \in ResponseTypes =>
              /\ Owing({t}, "src")
              /\ Owing({t}, "dst") <=> t[1] = "rxq"
         /\ t[4].type = "E2E_ACK" /\ t[4].answers \in RequestTypes =>
              Owing({t}, "src") /\ ~Owing({t}, "dst")
         /\ t[4].type = "E2E_ACK" /\ t[4].answers \in ResponseTypes =>
              ~Owing({t}, "src") /\ Owing({t}, "dst")
  BY DEF Owing, Owes, RequestTypes, ResponseTypes

\* release_e2e_entry on a node.
LEMMA ReleaseCount ==
  ASSUME TypeOK, NEW x \in Node, ReleaseE2EEntry(x), NEW n \in Node
  PROVE  entries'[n] = IF n = x /\ n \notin E2EOff THEN entries[n] + 1 ELSE entries[n]
  <1>1. entries \in [Node -> Nat]
    BY DEF TypeOK
  <1> QED
    BY <1>1, BumpType DEF ReleaseE2EEntry

\* A message on its way is a message with a request.
LEMMA ItemParts ==
  ASSUME NEW t \in OnTheWay
  PROVE  t \in Item /\ t[2] \in Port /\ t[4] \in Msg /\ t[4].req \in Req
  BY MsgParts DEF OnTheWay, InQueue, InActor, Item

\* A new operation holds no entry before its request is launched.
LEMMA IssueEntry ==
  ASSUME TypeOK, TypeOK', EntryInv, NEW r \in Req, Issue(r)
  PROVE  EntryInv'
  <1>1. PICK m \in Msg : m = NewMsg(Kind[r], r, FALSE, "NONE")
    BY NewMsgType DEF MsgTypes, RequestTypes, ResponseTypes
  <1>2. m.type = Kind[r] /\ m.type \in RequestTypes /\ m.req = r /\ m.retry = 0
    BY <1>1 DEF NewMsg
  <1>3. PICK x \in Port : x = <<Src[r], Vn(Kind[r], r)>>
    BY VnType DEF Port
  <1>4. /\ txq \in [Port -> Seq(Msg)] /\ txq' = [txq EXCEPT ![x] = Append(@, m)]
        /\ r \notin issued /\ issued' = issued \cup {r} /\ UNCHANGED <<state, tx, rxq, entries>>
    BY <1>1, <1>3 DEF Issue, TypeOK
  <1>0. PICK u : u = <<"txq", x, Len(txq[x]) + 1, m>>
    OBVIOUS
  <1>5. InQueue("txq", txq') = InQueue("txq", txq) \cup {u}
    <2>1. Adds(InQueue("txq", txq), InQueue("txq", txq'), <<"txq", x, Len(txq[x]) + 1, m>>)
      BY <1>4, ItemPut
    <2> QED
      BY <1>0, <2>1 DEF Adds
  <1>6. OnTheWay' = (OnTheWay \ {}) \cup {u}
    <2>1. OnTheWay' = InQueue("txq", txq') \cup InQueue("rxq", rxq) \cup InActor(tx)
      BY <1>4 DEF OnTheWay
    <2> QED
      BY <1>5, <2>1 DEF OnTheWay
  <1>7. Carries(OnTheWay, OnTheWay', {}, {u})
    <2>1. Carries(OnTheWay, (OnTheWay \ {}) \cup {u}, {}, {u})
      BY CarriesInPlace
    <2> QED
      BY <1>6, <2>1
  <1>8. \A t \in OnTheWay : t[4].req # r
    BY <1>4 DEF EntryInv, AllSound, Sound
  <1>9. u[1] = "txq" /\ u[2] = x /\ u[4] = m
    BY <1>0
  <1>10. state[r] = CREATED
    BY <1>4 DEF EntryInv, Untouched
  <1>11. Sound(u)'
    <2>1. Origin(m) = Src[r] /\ x[1] = Src[r]
      BY <1>2, <1>3 DEF Origin, FromInitiator
    <2>2. m.type \notin ResponseTypes /\ m.type # "E2E_ACK" /\ m.type # "PTL_ACK"
      BY <1>2 DEF RequestTypes, ResponseTypes
    <2> QED
      BY <1>2, <1>4, <1>9, <1>10, <2>1, <2>2 DEF Sound
  <1>12. ~Owing({u}, "src") /\ ~Owing({u}, "dst")
    BY <1>2, <1>9, OwingOne
  <1>13. ASSUME NEW n \in Node PROVE Balanced(n, {}, {u})
    <2>1. ~Owing({}, "src") /\ ~Owing({}, "dst")
      BY DEF Owing
    <2>2. \A t \in {u} : t[4].req = r
      BY <1>2, <1>9
    <2>3. entries'[n] = entries[n]
      BY <1>4
    <2> QED
      BY <1>12, <2>1, <2>2, <2>3, BalancedBy
  <1>14. \A t \in {u} : t[4].req = r /\ Sound(t)'
    BY <1>2, <1>9, <1>11
  <1>15. Moves(r, {}, {u})
    BY <1>4, <1>7, <1>8, <1>14 DEF Moves
  <1> QED
    BY <1>13, <1>15, EntryStep

\* An idle TX actor accepts a message.
LEMMA ActorTakes ==
  ASSUME TypeOK, NEW p \in Port, NEW m \in Msg, tx[p] = Idle,
         tx' = [tx EXCEPT ![p] = [pc |-> "init", msg |-> m]]
  PROVE  Adds(InActor(tx), InActor(tx'), <<"tx", p, 0, m>>)
  <1> DEFINE u == <<"tx", p, 0, m>>
  <1>1. /\ tx'[p] = [pc |-> "init", msg |-> m] /\ \A y \in Port : y # p => tx'[y] = tx[y]
        /\ tx[p].pc # "init"
    BY DEF TypeOK, Idle
  <1>2. u \in Item
    BY DEF Item
  <1>3. ASSUME NEW t \in InActor(tx') PROVE t \in InActor(tx) \/ t = u
    <2>1. t \in Item /\ t[1] = "tx" /\ t[3] = 0 /\ tx'[t[2]].pc = "init" /\ tx'[t[2]].msg = t[4]
      BY <1>3 DEF InActor
    <2>2. t[2] \in Port /\ t = <<t[1], t[2], t[3], t[4]>>
      BY <2>1 DEF Item
    <2>3. CASE t[2] = p
      BY <1>1, <2>1, <2>2, <2>3
    <2>4. CASE t[2] # p
      BY <1>1, <2>1, <2>2, <2>4 DEF InActor
    <2> QED
      BY <2>3, <2>4
  <1>4. ASSUME NEW t \in InActor(tx) PROVE t \in InActor(tx')
    <2>1. t \in Item /\ t[1] = "tx" /\ t[3] = 0 /\ tx[t[2]].pc = "init" /\ tx[t[2]].msg = t[4]
      BY <1>4 DEF InActor
    <2>2. t[2] \in Port /\ t[2] # p
      BY <1>1, <2>1 DEF Item
    <2> QED
      BY <1>1, <2>1, <2>2 DEF InActor
  <1>5. u \in InActor(tx')
    BY <1>1, <1>2 DEF InActor
  <1>6. InActor(tx') = InActor(tx) \cup {u}
    BY <1>3, <1>4, <1>5
  <1> QED
    BY <1>6 DEF Adds

\* A TX actor that has launched its message no longer holds it.
LEMMA ActorDone ==
  ASSUME TypeOK, NEW p \in Port, NEW v, v.pc # "init", tx' = [tx EXCEPT ![p] = v]
  PROVE  InActor(tx') = InActor(tx) \ {<<"tx", p, 0, tx[p].msg>>}
  <1> DEFINE u == <<"tx", p, 0, tx[p].msg>>
  <1>1. tx'[p] = v /\ \A y \in Port : y # p => tx'[y] = tx[y]
    BY DEF TypeOK
  <1>2. ASSUME NEW t \in InActor(tx') PROVE t \in InActor(tx) /\ t # u
    <2>1. t \in Item /\ t[1] = "tx" /\ t[3] = 0 /\ tx'[t[2]].pc = "init" /\ tx'[t[2]].msg = t[4]
      BY <1>2 DEF InActor
    <2>2. t[2] \in Port /\ t[2] # p
      BY <1>1, <2>1 DEF Item
    <2> QED
      BY <1>1, <2>1, <2>2 DEF InActor
  <1>3. ASSUME NEW t \in InActor(tx), t # u PROVE t \in InActor(tx')
    <2>1. t \in Item /\ t[1] = "tx" /\ t[3] = 0 /\ tx[t[2]].pc = "init" /\ tx[t[2]].msg = t[4]
      BY <1>3 DEF InActor
    <2>2. t[2] \in Port /\ t = <<t[1], t[2], t[3], t[4]>>
      BY <2>1 DEF Item
    <2>3. t[2] # p
      BY <1>3, <2>1, <2>2
    <2> QED
      BY <1>1, <2>1, <2>2, <2>3 DEF InActor
  <1> QED
    BY <1>2, <1>3

\* The charge of a message does not change when a TX actor takes it.
LEMMA TxGetEntry ==
  ASSUME TypeOK, TypeOK', EntryInv, NEW p \in Port, TxGet(p)
  PROVE  EntryInv'
  <1>1. /\ txq \in [Port -> Seq(Msg)] /\ txq[p] # <<>> /\ txq' = [txq EXCEPT ![p] = Tail(@)]
        /\ UNCHANGED <<issued, state, rxq, entries>> /\ tx[p] = Idle
    BY DEF TypeOK, TxGet
  <1>2. PICK h \in Msg : h = Head(txq[p])
    BY <1>1, PopType
  <1>3. tx' = [tx EXCEPT ![p] = [pc |-> "init", msg |-> h]]
    BY <1>2 DEF TxGet
  <1>4. PICK a : a = <<"txq", p, 1, h>>
    OBVIOUS
  <1>5. PICK u : u = <<"tx", p, 0, h>>
    OBVIOUS
  <1>6. InActor(tx') = InActor(tx) \cup {u}
    <2>1. Adds(InActor(tx), InActor(tx'), <<"tx", p, 0, h>>)
      BY <1>1, <1>3, ActorTakes
    <2> QED
      BY <1>5, <2>1 DEF Adds
  <1>7. PICK Rest : Rest = InQueue("rxq", rxq) \cup InActor(tx)
    OBVIOUS
  <1>8. /\ OnTheWay = InQueue("txq", txq) \cup Rest
        /\ OnTheWay' = InQueue("txq", txq') \cup Rest \cup {u}
        /\ \A t \in Rest : t[1] # "txq"
    <2>1. OnTheWay' = InQueue("txq", txq') \cup InQueue("rxq", rxq) \cup InActor(tx')
      BY <1>1 DEF OnTheWay
    <2>2. \A t \in Rest : t[1] # "txq"
      BY <1>7 DEF InQueue, InActor
    <2> QED
      BY <1>6, <1>7, <2>1, <2>2 DEF OnTheWay
  <1>9. /\ a \in InQueue("txq", txq)
        /\ Carries(InQueue("txq", txq) \cup Rest, InQueue("txq", txq') \cup Rest \cup {u}, {a}, {u})
    BY <1>1, <1>2, <1>4, <1>8, ItemGet
  <1>10. a \in OnTheWay /\ Carries(OnTheWay, OnTheWay', {a}, {u})
    BY <1>8, <1>9
  <1>11. /\ a[1] = "txq" /\ a[2] = p /\ a[4] = h /\ u[1] = "tx" /\ u[2] = p /\ u[4] = h
         /\ h.req \in Req
    BY <1>4, <1>5, MsgParts
  <1>12. Sound(a)
    BY <1>10 DEF EntryInv, AllSound
  <1>13. Sound(u)'
    BY <1>1, <1>11, <1>12 DEF Sound
  <1>14. \A t \in OnTheWay : t[4].req = h.req => t \in {a}
    BY <1>10, <1>11 DEF EntryInv, OneMessage
  <1>15. h.req \in issued
    BY <1>11, <1>12 DEF Sound
  <1>16. Moves(h.req, {a}, {u})
    BY <1>1, <1>10, <1>11, <1>13, <1>14, <1>15 DEF Moves
  <1>17. ASSUME NEW n \in Node PROVE Balanced(n, {a}, {u})
    <2>1. /\ Owing({a}, "src") <=> Owing({u}, "src")
          /\ Owing({a}, "dst") <=> Owing({u}, "dst")
      BY <1>11 DEF Owing, Owes
    <2>2. (\A t \in {a} : t[4].req = h.req) /\ (\A t \in {u} : t[4].req = h.req)
      BY <1>11
    <2>3. entries'[n] = entries[n]
      BY <1>1
    <2> QED
      BY <1>11, <2>1, <2>2, <2>3, BalancedBy
  <1> QED
    BY <1>11, <1>16, <1>17, EntryStep

\* process_message takes an entry of the node for the message it launches.
LEMMA LaunchCount ==
  ASSUME TypeOK, NEW x \in Node, NEW m \in Msg, m.retry = 0, ProcessMessage(x, m), NEW n \in Node
  PROVE  /\ m.type = "E2E_ACK" => entries'[n] = entries[n]
         /\ m.type # "E2E_ACK" =>
              entries'[n] = IF n = x /\ n \notin E2EOff THEN entries[n] - 1 ELSE entries[n]
  <1>1. entries \in [Node -> Nat]
    BY DEF TypeOK
  <1> QED
    BY <1>1 DEF ProcessMessage

\* A launch charges the node that it leaves from.
LEMMA TxLaunchEntry ==
  ASSUME TypeOK, TypeOK', EntryInv, NEW p \in Port, TxLaunch(p)
  PROVE  EntryInv'
  <1>1. PICK m \in Msg : m = tx[p].msg
    BY TxMsg DEF TxLaunch
  <1>2. m.req \in Req /\ Target(m) \in Node /\ p[1] \in Node /\ p[2] \in VN
    BY MsgParts, TargetType, PortParts
  <1>3. PICK x \in Port : x = <<Target(m), p[2]>>
    BY <1>2 DEF Port
  <1>4. /\ rxq \in [Port -> Seq(Msg)] /\ rxq' = [rxq EXCEPT ![x] = Append(@, m)]
        /\ ProcessMessage(p[1], m) /\ UNCHANGED <<issued, state, txq>> /\ tx[p].pc = "init"
    BY <1>1, <1>3 DEF TxLaunch, TypeOK
  <1>5. PICK v : v.pc # "init" /\ tx' = [tx EXCEPT ![p] = v]
    <2>1. Idle.pc # "init" /\ [pc |-> "sent", msg |-> m].pc # "init"
      BY DEF Idle
    <2>2. tx' = [tx EXCEPT ![p] = [pc |-> "sent", msg |-> m]] \/ tx' = [tx EXCEPT ![p] = Idle]
      BY <1>1 DEF TxLaunch
    <2> QED
      BY <2>1, <2>2
  <1>6. PICK a : a = <<"tx", p, 0, m>>
    OBVIOUS
  <1>7. PICK u : u = <<"rxq", x, Len(rxq[x]) + 1, m>>
    OBVIOUS
  <1>8. /\ a[1] = "tx" /\ a[2] = p /\ a[4] = m /\ u[1] = "rxq" /\ u[2] = x /\ u[4] = m
    BY <1>6, <1>7
  <1>9. InActor(tx') = InActor(tx) \ {a}
    BY <1>1, <1>5, <1>6, ActorDone
  <1>10. InQueue("rxq", rxq') = InQueue("rxq", rxq) \cup {u}
    <2>1. Adds(InQueue("rxq", rxq), InQueue("rxq", rxq'), <<"rxq", x, Len(rxq[x]) + 1, m>>)
      BY <1>4, ItemPut
    <2> QED
      BY <1>7, <2>1 DEF Adds
  <1>11. a \in OnTheWay
    <2>1. a \in Item
      BY <1>6 DEF Item
    <2>2. a[3] = 0
      BY <1>6
    <2> QED
      BY <1>1, <1>4, <1>8, <2>1, <2>2 DEF OnTheWay, InActor
  <1>12. OnTheWay' = (OnTheWay \ {a}) \cup {u}
    <2>1. OnTheWay' = InQueue("txq", txq) \cup InQueue("rxq", rxq') \cup InActor(tx')
      BY <1>4 DEF OnTheWay
    <2>2. a \notin InQueue("txq", txq) /\ a \notin InQueue("rxq", rxq)
      BY <1>8 DEF InQueue
    <2> QED
      BY <1>9, <1>10, <2>1, <2>2 DEF OnTheWay
  <1>13. Carries(OnTheWay, OnTheWay', {a}, {u})
    <2>1. {a} \subseteq OnTheWay
      BY <1>11
    <2>2. Carries(OnTheWay, (OnTheWay \ {a}) \cup {u}, {a}, {u})
      BY <2>1, CarriesInPlace
    <2> QED
      BY <1>12, <2>2
  <1>14. Sound(a)
    BY <1>11 DEF EntryInv, AllSound
  <1>15. /\ m.retry = 0 /\ m.req \in issued /\ p[1] = Origin(m)
         /\ m.type = "E2E_ACK" => m.answers \in RequestTypes \cup ResponseTypes
    BY <1>8, <1>14 DEF Sound
  <1>16. Sound(u)'
    <2>1. x[1] = Target(m)
      BY <1>3
    <2> QED
      BY <1>4, <1>8, <1>14, <2>1 DEF Sound
  <1>17. \A t \in OnTheWay : t[4].req = m.req => t \in {a}
    BY <1>8, <1>11 DEF EntryInv, OneMessage
  <1>18. Moves(m.req, {a}, {u})
    BY <1>4, <1>8, <1>13, <1>15, <1>16, <1>17 DEF Moves
  <1>19. ASSUME NEW n \in Node PROVE Balanced(n, {a}, {u})
    <2>1. (\A t \in {a} : t[4].req = m.req) /\ (\A t \in {u} : t[4].req = m.req)
      BY <1>8
    <2>2. /\ m.type = "E2E_ACK" => entries'[n] = entries[n]
          /\ m.type # "E2E_ACK" =>
               entries'[n] = IF n = p[1] /\ n \notin E2EOff THEN entries[n] - 1 ELSE entries[n]
      BY <1>2, <1>4, <1>15, LaunchCount
    <2>3. CASE m.type \in RequestTypes
      <3>1. ~Owing({a}, "src") /\ Owing({u}, "src") /\ ~Owing({a}, "dst") /\ ~Owing({u}, "dst")
        BY <1>8, <2>3, OwingOne
      <3>2. m.type # "E2E_ACK" /\ p[1] = Holder(m.req, "src")
        BY <1>15, <2>3 DEF Origin, FromInitiator, Holder, RequestTypes
      <3> QED
        BY <1>2, <2>1, <2>2, <3>1, <3>2, BalancedBy
    <2>4. CASE m.type \in ResponseTypes
      <3>1. Owing({a}, "src") /\ Owing({u}, "src") /\ ~Owing({a}, "dst") /\ Owing({u}, "dst")
        BY <1>8, <2>4, OwingOne
      <3>2. m.type # "E2E_ACK" /\ p[1] = Holder(m.req, "dst")
        BY <1>15, <2>4 DEF Origin, FromInitiator, Holder, RequestTypes, ResponseTypes
      <3> QED
        BY <1>2, <2>1, <2>2, <3>1, <3>2, BalancedBy
    <2>5. CASE m.type = "E2E_ACK"
      <3>1. /\ Owing({a}, "src") <=> Owing({u}, "src")
            /\ Owing({a}, "dst") <=> Owing({u}, "dst")
        BY <1>8, <1>15, <2>5, OwingOne
      <3> QED
        BY <1>2, <2>1, <2>2, <2>5, <3>1, BalancedBy
    <2> QED
      BY <2>3, <2>4, <2>5, MsgParts DEF MsgTypes
  <1> QED
    BY <1>2, <1>18, <1>19, EntryStep

\* What remains of a handler after the launch does not concern the entries.
LEMMA TxDoneEntry ==
  ASSUME TypeOK, TypeOK', EntryInv, NEW p \in Port, TxDone(p)
  PROVE  EntryInv'
  <1>1. /\ UNCHANGED <<issued, state, entries, txq, rxq>> /\ tx[p].pc = "sent"
        /\ tx' = [tx EXCEPT ![p] = Idle]
    BY DEF TxDone
  <1>2. InActor(tx') = InActor(tx) \ {<<"tx", p, 0, tx[p].msg>>}
    <2>1. Idle.pc # "init"
      BY DEF Idle
    <2> QED
      BY <1>1, <2>1, ActorDone
  <1>3. <<"tx", p, 0, tx[p].msg>> \notin InActor(tx)
    BY <1>1 DEF InActor
  <1>4. OnTheWay' = OnTheWay
    BY <1>1, <1>2, <1>3 DEF OnTheWay
  <1> QED
    BY <1>1, <1>4, EntryStutter

\* The E2E actor forgets what it watches, and retransmits nothing.
LEMMA E2EEntry ==
  ASSUME NoRetransmission, TypeOK, TypeOK', SlotInv, EntryInv, NEW n \in Node, E2E(n)
  PROVE  EntryInv'
  <1>1. /\ e2eq \in [Node -> Seq(Msg)] /\ e2eq[n] # <<>>
        /\ UNCHANGED <<issued, state, entries, rxq, tx>>
    BY DEF TypeOK, E2E, E2EDrop, E2EGiveUp, E2ERetransmit, E2EPop
  <1>2. n \notin E2EOff
    BY <1>1 DEF SlotInv, NothingWatched
  <1>3. PICK h \in Msg : h = Head(e2eq[n])
    BY <1>1, PopType
  <1>4. MaxRetries = 0 => ~(h.retry < MaxRetries)
    BY MsgParts
  <1>5. UNCHANGED txq
    BY <1>2, <1>3, <1>4 DEF E2E, E2EDrop, E2EGiveUp, E2ERetransmit, NoRetransmission
  <1>6. OnTheWay' = OnTheWay
    BY <1>1, <1>5 DEF OnTheWay
  <1> QED
    BY <1>1, <1>6, EntryStutter

\* What the state of a request says about the message an RX actor takes.
LEMMA RxSound ==
  ASSUME TypeOK, EntryInv, NEW p \in Port, rxq[p] # <<>>, NEW h \in Msg, h = Head(rxq[p])
  PROVE  /\ <<"rxq", p, 1, h>> \in OnTheWay
         /\ h.req \in issued /\ p[1] = Target(h)
         /\ h.type \in RequestTypes => state[h.req] = CREATED
         /\ h.type \in ResponseTypes => state[h.req] <= RECEIVED
         /\ h.type = "PTL_ACK" => AckReq[h.req] # "NO_ACK_REQ"
         /\ h.type = "E2E_ACK" => /\ state[h.req] <= ANSWERED
                                  /\ h.answers \in RequestTypes \cup ResponseTypes
  <1>1. PICK a : a = <<"rxq", p, 1, h>>
    OBVIOUS
  <1>2. a[1] = "rxq" /\ a[2] = p /\ a[4] = h
    BY <1>1
  <1>3. rxq \in [Port -> Seq(Msg)]
    BY DEF TypeOK
  <1>4. a \in InQueue("rxq", rxq)
    <2>1. 1 \in 1 .. Len(rxq[p]) /\ rxq[p][1] = h
      BY <1>3
    <2>2. a \in Item /\ a[3] = 1
      BY <1>1 DEF Item
    <2> QED
      BY <1>2, <2>1, <2>2 DEF InQueue
  <1>5. a \in OnTheWay
    BY <1>4 DEF OnTheWay
  <1>6. Sound(a)
    BY <1>5 DEF EntryInv, AllSound
  <1> QED
    BY <1>1, <1>2, <1>5, <1>6 DEF Sound

\* An RX actor takes the first message of its mailbox and puts at most one of
\* the same operation in a TX queue.
LEMMA RxMoves ==
  ASSUME TypeOK, EntryInv, NEW p \in Port, NEW types, RxGet(p, types),
         NEW h \in Msg, h = Head(rxq[p]),
         NEW new, InQueue("txq", txq') = InQueue("txq", txq) \cup new,
         \A q \in Req : q # h.req => state'[q] = state[q],
         \A t \in new : t[4].req = h.req /\ Sound(t)', \A s, t \in new : s = t
  PROVE  Moves(h.req, {<<"rxq", p, 1, h>>}, new)
  <1>1. /\ rxq \in [Port -> Seq(Msg)] /\ rxq[p] # <<>> /\ rxq' = [rxq EXCEPT ![p] = Tail(@)]
        /\ UNCHANGED <<tx, issued>>
    BY DEF TypeOK, RxGet, nicVars
  <1>2. PICK a : a = <<"rxq", p, 1, h>>
    OBVIOUS
  <1>3. a \in OnTheWay /\ a[4] = h /\ h.req \in issued
    BY <1>1, <1>2, RxSound
  <1>4. PICK Rest : Rest = InQueue("txq", txq) \cup InActor(tx)
    OBVIOUS
  <1>5. \A t \in Rest : t[1] # "rxq"
    BY <1>4 DEF InQueue, InActor
  <1>6. /\ OnTheWay = InQueue("rxq", rxq) \cup Rest
        /\ OnTheWay' = InQueue("rxq", rxq') \cup Rest \cup new
    <2>1. OnTheWay' = InQueue("txq", txq') \cup InQueue("rxq", rxq') \cup InActor(tx)
      BY <1>1 DEF OnTheWay
    <2> QED
      BY <1>4, <2>1 DEF OnTheWay
  <1>7. Carries(InQueue("rxq", rxq) \cup Rest, InQueue("rxq", rxq') \cup Rest \cup new, {a}, new)
    BY <1>1, <1>2, <1>5, ItemGet
  <1>8. Carries(OnTheWay, OnTheWay', {a}, new)
    BY <1>6, <1>7
  <1>9. \A t \in OnTheWay : t[4].req = h.req => t \in {a}
    BY <1>3 DEF EntryInv, OneMessage
  <1> QED
    BY <1>1, <1>2, <1>3, <1>8, <1>9 DEF Moves

\* A message that calls for no answer.
LEMMA RxAbsorbs ==
  ASSUME TypeOK, TypeOK', EntryInv, NEW p \in Port, NEW types, RxGet(p, types),
         NEW h \in Msg, h = Head(rxq[p]), UNCHANGED txq,
         \A q \in Req : q # h.req => state'[q] = state[q],
         \A n \in Node : Balanced(n, {<<"rxq", p, 1, h>>}, {})
  PROVE  EntryInv'
  <1>1. InQueue("txq", txq') = InQueue("txq", txq) \cup {}
    OBVIOUS
  <1>2. Moves(h.req, {<<"rxq", p, 1, h>>}, {})
    BY <1>1, RxMoves
  <1>3. h.req \in Req
    BY MsgParts
  <1> QED
    BY <1>2, <1>3, EntryStep

\* A message that is answered: the initiator's entry may be given back, the
\* target's stays.
LEMMA RxAnswers ==
  ASSUME TypeOK, TypeOK', EntryInv, NEW p \in Port, NEW types, RxGet(p, types),
         NEW h \in Msg, h = Head(rxq[p]),
         NEW m \in Msg, Reply(p, m), m.req = h.req, m.retry = 0, Origin(m) = Target(h),
         \/ m.type \in ResponseTypes /\ state'[h.req] <= RECEIVED
         \/ /\ m.type = "E2E_ACK" /\ state'[h.req] <= ANSWERED
            /\ m.answers \in RequestTypes \cup ResponseTypes,
         m.type = "PTL_ACK" => AckReq[h.req] # "NO_ACK_REQ",
         \A q \in Req : q # h.req => state'[q] = state[q],
         Owes("rxq", h, "dst") <=> Owes("txq", m, "dst"),
         \/ (Owes("rxq", h, "src") <=> Owes("txq", m, "src")) /\ UNCHANGED entries
         \/ /\ Owes("rxq", h, "src") /\ ~Owes("txq", m, "src")
            /\ ReleaseE2EEntry(Src[h.req])
  PROVE  EntryInv'
  <1>1. PICK x \in Port : x = ReplyPort(p) /\ x[1] = p[1]
    BY PortParts DEF ReplyPort
  <1>2. /\ txq \in [Port -> Seq(Msg)] /\ txq' = [txq EXCEPT ![x] = Append(@, m)]
        /\ rxq[p] # <<>> /\ UNCHANGED issued
    BY <1>1 DEF TypeOK, Reply, RxGet, nicVars
  <1>3. PICK u : u = <<"txq", x, Len(txq[x]) + 1, m>>
    OBVIOUS
  <1>4. u[1] = "txq" /\ u[2] = x /\ u[4] = m
    BY <1>3
  <1>5. InQueue("txq", txq') = InQueue("txq", txq) \cup {u}
    <2>1. Adds(InQueue("txq", txq), InQueue("txq", txq'), <<"txq", x, Len(txq[x]) + 1, m>>)
      BY <1>2, ItemPut
    <2> QED
      BY <1>3, <2>1 DEF Adds
  <1>6. p[1] = Target(h) /\ h.req \in issued /\ h.req \in Req /\ Src[h.req] \in Node
    BY <1>2, RxSound, MsgParts
  <1>7. Sound(u)'
    <2>1. m.type \notin RequestTypes /\ ~(m.type \in ResponseTypes /\ m.type = "E2E_ACK")
      BY DEF RequestTypes, ResponseTypes
    <2> QED
      BY <1>1, <1>2, <1>4, <1>6, <2>1 DEF Sound
  <1>8. PICK a : a = <<"rxq", p, 1, h>>
    OBVIOUS
  <1>9. a[1] = "rxq" /\ a[4] = h
    BY <1>8
  <1>10. Moves(h.req, {a}, {u})
    <2>1. \A t \in {u} : t[4].req = h.req /\ Sound(t)'
      BY <1>4, <1>7
    <2>2. \A s, t \in {u} : s = t
      OBVIOUS
    <2> QED
      BY <1>5, <1>8, <2>1, <2>2, RxMoves
  <1>11. ASSUME NEW n \in Node PROVE Balanced(n, {a}, {u})
    <2>1. \A side : /\ Owing({a}, side) <=> Owes("rxq", h, side)
                    /\ Owing({u}, side) <=> Owes("txq", m, side)
      BY <1>4, <1>9 DEF Owing
    <2>2. (\A t \in {a} : t[4].req = h.req) /\ (\A t \in {u} : t[4].req = h.req)
      BY <1>4, <1>9
    <2>3. Owing({a}, "dst") <=> Owing({u}, "dst")
      BY <2>1
    <2>4. CASE (Owes("rxq", h, "src") <=> Owes("txq", m, "src")) /\ UNCHANGED entries
      <3>1. (Owing({a}, "src") <=> Owing({u}, "src")) /\ entries'[n] = entries[n]
        BY <2>1, <2>4
      <3> QED
        BY <1>6, <2>2, <2>3, <3>1, BalancedBy
    <2>5. CASE /\ Owes("rxq", h, "src") /\ ~Owes("txq", m, "src")
               /\ ReleaseE2EEntry(Src[h.req])
      <3>1. Owing({a}, "src") /\ ~Owing({u}, "src")
        BY <2>1, <2>5
      <3>2. entries'[n] = IF n = Holder(h.req, "src") /\ n \notin E2EOff
                          THEN entries[n] + 1 ELSE entries[n]
        <4>1. Holder(h.req, "src") = Src[h.req]
          BY DEF Holder
        <4> QED
          BY <1>6, <2>5, <4>1, ReleaseCount
      <3> QED
        BY <1>6, <2>2, <2>3, <3>1, <3>2, BalancedBy
    <2> QED
      BY <2>4, <2>5
  <1> QED
    BY <1>6, <1>10, <1>11, EntryStep

\* A message whose handling gives back the one entry it stands for.
LEMMA RxReleases ==
  ASSUME TypeOK, TypeOK', EntryInv, NEW p \in Port, NEW types, RxGet(p, types),
         NEW h \in Msg, h = Head(rxq[p]), UNCHANGED txq,
         \A q \in Req : q # h.req => state'[q] = state[q],
         NEW side \in {"src", "dst"}, NEW other \in {"src", "dst"}, side # other,
         Owes("rxq", h, side), ~Owes("rxq", h, other), ReleaseE2EEntry(Holder(h.req, side))
  PROVE  EntryInv'
  <1>1. h.req \in Req /\ Holder(h.req, side) \in Node
    BY MsgParts DEF Holder
  <1>2. PICK a : a = <<"rxq", p, 1, h>>
    OBVIOUS
  <1>3. a[1] = "rxq" /\ a[4] = h
    BY <1>2
  <1>4. ASSUME NEW n \in Node PROVE Balanced(n, {a}, {})
    <2>1. Owing({a}, side) /\ ~Owing({a}, other) /\ ~Owing({}, side) /\ ~Owing({}, other)
      BY <1>3 DEF Owing
    <2>2. (\A t \in {a} : t[4].req = h.req) /\ (\A t \in {} : t[4].req = h.req)
      BY <1>3
    <2>3. entries'[n] = IF n = Holder(h.req, side) /\ n \notin E2EOff
                        THEN entries[n] + 1 ELSE entries[n]
      BY <1>1, ReleaseCount
    <2> QED
      BY <1>1, <2>1, <2>2, <2>3, BalancedBy
  <1> QED
    BY <1>2, <1>4, RxAbsorbs

\* A message that is dropped with the entries it stands for.
LEMMA RxLoses ==
  ASSUME TypeOK, TypeOK', EntryInv, NEW p \in Port, NEW types, RxGet(p, types),
         NEW h \in Msg, h = Head(rxq[p]), UNCHANGED <<txq, entries>>,
         \A q \in Req : q # h.req => state'[q] = state[q],
         Owes("rxq", h, "src") /\ Conserving => Src[h.req] \in E2EOff,
         Owes("rxq", h, "dst") /\ Conserving => Dst[h.req] \in E2EOff
  PROVE  EntryInv'
  <1>1. h.req \in Req
    BY MsgParts
  <1>2. PICK a : a = <<"rxq", p, 1, h>>
    OBVIOUS
  <1>3. a[1] = "rxq" /\ a[4] = h
    BY <1>2
  <1>4. ASSUME NEW n \in Node PROVE Balanced(n, {a}, {})
    <2>1. \A side \in {"src", "dst"} :
            Owing({a}, side) /\ Conserving => Holder(h.req, side) \in E2EOff
      BY <1>3 DEF Owing, Holder
    <2>2. \A t \in {a} : t[4].req = h.req
      BY <1>3
    <2>3. entries'[n] = entries[n]
      OBVIOUS
    <2> QED
      BY <1>1, <2>1, <2>2, <2>3, BalancedLoss
  <1> QED
    BY <1>2, <1>4, RxAbsorbs

\* send_ack returns the initiator's entry at once, or answers for it.
LEMMA SendAckEntry ==
  ASSUME TypeOK, TypeOK', EntryInv, NEW p \in Port, NEW types, RxGet(p, types),
         NEW h \in Msg, h = Head(rxq[p]), h.type \in PutLike,
         NEW type \in {"PTL_ACK", "E2E_ACK"}, NEW fail \in BOOLEAN, NEW s \in {CREATED, RECEIVED},
         type = "PTL_ACK" => AckReq[h.req] # "NO_ACK_REQ", SendAck(p, h, type, fail, s)
  PROVE  EntryInv'
  <1>1. /\ h.req \in Req /\ h.type \in RequestTypes /\ Kind[h.req] \in PutLike
        /\ state \in [Req -> CREATED .. FINISHED]
    BY MsgParts DEF PutLike, RequestTypes, TypeOK
  <1>2. Owes("rxq", h, "src") /\ ~Owes("rxq", h, "dst")
    BY <1>1 DEF Owes, RequestTypes, ResponseTypes
  <1>3. CASE QuickAcks
    <2>1. /\ UNCHANGED txq /\ ReleaseE2EEntry(Src[h.req])
          /\ state' = [state EXCEPT ![h.req] = FINISHED]
      BY <1>3 DEF SendAck
    <2>2. \A q \in Req : q # h.req => state'[q] = state[q]
      BY <1>1, <2>1
    <2>3. ReleaseE2EEntry(Holder(h.req, "src"))
      BY <2>1 DEF Holder
    <2> QED
      BY <1>2, <2>1, <2>2, <2>3, RxReleases
  <1>4. CASE ~QuickAcks
    <2>1. PICK m : m = NewMsg(type, h.req, fail, h.type)
      OBVIOUS
    <2>2. m \in Msg
      <3>1. type \in MsgTypes /\ h.type \in MsgTypes \cup {"NONE"} /\ type \notin RequestTypes
        BY <1>1 DEF MsgTypes, RequestTypes, ResponseTypes
      <3>2. type \notin ResponseTypes \ {"PTL_ACK"}
        BY DEF ResponseTypes
      <3> QED
        BY <1>1, <2>1, <3>1, <3>2, NewMsgType
    <2>3. m.type = type /\ m.req = h.req /\ m.retry = 0 /\ m.answers = h.type
      BY <2>1 DEF NewMsg
    <2>4. /\ Reply(p, m) /\ UNCHANGED entries /\ state' = [state EXCEPT ![h.req] = s]
      BY <1>4, <2>1 DEF SendAck
    <2>5. /\ \A q \in Req : q # h.req => state'[q] = state[q]
          /\ state'[h.req] <= RECEIVED /\ state'[h.req] <= ANSWERED
      BY <1>1, <2>4 DEF CREATED, RECEIVED, ANSWERED
    <2>6. Origin(m) = Target(h)
      BY <1>1, <2>3 DEF Origin, Target, FromInitiator, RequestTypes, ResponseTypes
    <2>7. Owes("txq", m, "src") /\ ~Owes("txq", m, "dst")
      BY <1>1, <2>3 DEF Owes, RequestTypes, ResponseTypes
    <2>8. m.type \in ResponseTypes \/ (m.type = "E2E_ACK" /\ m.answers \in RequestTypes)
      BY <1>1, <2>3 DEF ResponseTypes
    <2> QED
      BY <1>2, <2>2, <2>3, <2>4, <2>5, <2>6, <2>7, <2>8, RxAnswers
  <1> QED
    BY <1>3, <1>4

\* A Put or an Atomic that nothing answers keeps the entry of its initiator.
LEMMA SendNoAckEntry ==
  ASSUME TypeOK, TypeOK', EntryInv, NEW p \in Port, NEW types, RxGet(p, types),
         NEW h \in Msg, h = Head(rxq[p]), h.type \in PutLike, NEW s, SendNoAck(h.req, s),
         Conserving => Src[h.req] \in E2EOff
  PROVE  EntryInv'
  <1>1. /\ h.req \in Req /\ h.type \in RequestTypes
        /\ state \in [Req -> CREATED .. FINISHED]
    BY MsgParts DEF PutLike, RequestTypes, TypeOK
  <1>2. ~Owes("rxq", h, "dst")
    BY <1>1 DEF Owes, RequestTypes, ResponseTypes
  <1>3. UNCHANGED <<txq, entries>> /\ \A q \in Req : q # h.req => state'[q] = state[q]
    BY <1>1 DEF SendNoAck
  <1> QED
    BY <1>2, <1>3, RxLoses

\* handle_get_request and handle_fetch_atomic_request answer every request.
LEMMA GetReplyEntry ==
  ASSUME TypeOK, TypeOK', EntryInv, NEW p \in Port, NEW types, RxGet(p, types),
         NEW h \in Msg, h = Head(rxq[p]), h.type \in GetLike, NEW fail \in BOOLEAN,
         Reply(p, NewMsg(ResponseType(h.type), h.req, fail, "NONE")), UNCHANGED entries,
         UNCHANGED state \/ state' = [state EXCEPT ![h.req] = RECEIVED],
         state[h.req] = CREATED
  PROVE  EntryInv'
  <1>1. /\ h.req \in Req /\ h.type \in RequestTypes /\ Kind[h.req] \in GetLike
        /\ state \in [Req -> CREATED .. FINISHED]
    BY MsgParts DEF GetLike, RequestTypes, TypeOK
  <1>2. Owes("rxq", h, "src") /\ ~Owes("rxq", h, "dst")
    BY <1>1 DEF Owes, RequestTypes, ResponseTypes
  <1>3. PICK m : m = NewMsg(ResponseType(h.type), h.req, fail, "NONE")
    OBVIOUS
  <1>4. /\ ResponseType(h.type) \in MsgTypes /\ ResponseType(h.type) \notin RequestTypes
        /\ ResponseType(h.type) # "PTL_ACK" /\ ResponseType(h.type) \in ResponseTypes
    BY DEF ResponseType, MsgTypes, RequestTypes, ResponseTypes
  <1>5. m \in Msg
    BY <1>1, <1>3, <1>4, NewMsgType
  <1>6. /\ m.type \in ResponseTypes /\ m.type # "PTL_ACK" /\ m.type \notin RequestTypes
        /\ m.type # "E2E_ACK" /\ m.req = h.req /\ m.retry = 0
    BY <1>3, <1>4 DEF NewMsg, ResponseTypes
  <1>7. /\ \A q \in Req : q # h.req => state'[q] = state[q]
        /\ state'[h.req] <= RECEIVED
    BY <1>1 DEF CREATED, RECEIVED
  <1>8. Origin(m) = Target(h)
    BY <1>1, <1>6 DEF Origin, Target, FromInitiator
  <1>9. Owes("txq", m, "src") /\ ~Owes("txq", m, "dst")
    BY <1>6 DEF Owes
  <1> QED
    BY <1>2, <1>3, <1>5, <1>6, <1>7, <1>8, <1>9, RxAnswers

\* The answer of a target gives back the entry of the initiator, whose E2E ACK
\* then stands for the entry of the target.
LEMMA AnswerEntry ==
  ASSUME TypeOK, TypeOK', EntryInv, NEW p \in Port, NEW types, RxGet(p, types),
         NEW h \in Msg, h = Head(rxq[p]), h.type \in ResponseTypes, ReleaseE2EEntry(p[1]),
         state' = [state EXCEPT ![h.req] = ANSWERED],
         IF Src[h.req] \in E2EOff THEN UNCHANGED txq
         ELSE Reply(p, NewMsg("E2E_ACK", h.req, FALSE, h.type))
  PROVE  EntryInv'
  <1>1. /\ h.req \in Req /\ h.type \notin RequestTypes /\ h.type # "E2E_ACK"
        /\ state \in [Req -> CREATED .. FINISHED]
    BY MsgParts DEF ResponseTypes, RequestTypes, TypeOK
  <1>2. Owes("rxq", h, "src") /\ Owes("rxq", h, "dst")
    BY <1>1 DEF Owes
  <1>3. /\ \A q \in Req : q # h.req => state'[q] = state[q]
        /\ state'[h.req] <= ANSWERED
    BY <1>1 DEF ANSWERED
  <1>4. rxq[p] # <<>>
    BY DEF RxGet
  <1>5. /\ p[1] = Target(h) /\ Target(h) = Src[h.req]
        /\ h.type = "PTL_ACK" => AckReq[h.req] # "NO_ACK_REQ"
    BY <1>1, <1>4, RxSound DEF Target, FromInitiator
  <1>6. CASE Src[h.req] \in E2EOff
    <2>1. UNCHANGED <<txq, entries>>
      BY <1>5, <1>6 DEF ReleaseE2EEntry
    <2>2. Answerable(h.req)
      <3>1. h.type # "PTL_ACK" => Kind[h.req] \in GetLike
        BY MsgParts
      <3> QED
        BY <1>5, <3>1 DEF Answerable
    <2>3. Conserving => Dst[h.req] \in E2EOff
      BY <1>1, <1>6, <2>2 DEF Conserving
    <2> QED
      BY <1>3, <1>6, <2>1, <2>3, RxLoses
  <1>7. CASE Src[h.req] \notin E2EOff
    <2>1. PICK m : m = NewMsg("E2E_ACK", h.req, FALSE, h.type)
      OBVIOUS
    <2>2. m \in Msg
      BY <1>1, <2>1, NewMsgType DEF MsgTypes, RequestTypes, ResponseTypes
    <2>3. m.type = "E2E_ACK" /\ m.req = h.req /\ m.retry = 0 /\ m.answers = h.type
      BY <2>1 DEF NewMsg
    <2>4. Reply(p, m) /\ ReleaseE2EEntry(Src[h.req])
      BY <1>5, <1>7, <2>1
    <2>5. Origin(m) = Target(h)
      BY <1>5, <2>3 DEF Origin, FromInitiator
    <2>6. ~Owes("txq", m, "src") /\ Owes("txq", m, "dst")
      BY <1>1, <2>3 DEF Owes, RequestTypes, ResponseTypes
    <2> QED
      BY <1>2, <1>3, <2>2, <2>3, <2>4, <2>5, <2>6, RxAnswers
  <1> QED
    BY <1>6, <1>7

\* Every handler of the RX actor returns or passes on what its message stands
\* for.
LEMMA RxEntry ==
  ASSUME TypeOK, TypeOK', EntryInv, NEW p \in Port, Rx(p)
  PROVE  EntryInv'
  <1>1. PICK types : RxGet(p, types)
    BY DEF Rx, RxDuplicate, RxMatched, RxPutMatched, RxGetMatched, RxUnmatched,
       RxPutUnmatched, RxGetUnmatched, RxResponse, RxPtlAck, RxE2EAck, RxFirst
  <1>2. rxq \in [Port -> Seq(Msg)] /\ rxq[p] # <<>> /\ state \in [Req -> CREATED .. FINISHED]
    BY <1>1 DEF TypeOK, RxGet
  <1>3. PICK h \in Msg : h = Head(rxq[p])
    BY <1>2, PopType
  <1>4. /\ h.req \in Req /\ p[1] = Target(h)
        /\ h.type \in RequestTypes => state[h.req] = CREATED
        /\ h.type \in ResponseTypes => state[h.req] <= RECEIVED
        /\ h.type = "E2E_ACK" => /\ state[h.req] <= ANSWERED
                                 /\ h.answers \in RequestTypes \cup ResponseTypes
    BY <1>2, <1>3, RxSound, MsgParts
  <1>5. CASE RxDuplicate(p)
    BY <1>3, <1>4, <1>5 DEF RxDuplicate, RxGet, CREATED
  <1>6. ASSUME NEW e \in Entries, RxPutMatched(p, e) PROVE EntryInv'
    <2>1. h.type \in PutLike
      BY <1>3, <1>6 DEF RxPutMatched, RxFirst, RxGet
    <2> DEFINE ptl == ~e.ackDisable /\ AckReq[h.req] # "NO_ACK_REQ"
    <2>2. CASE ptl \/ Src[h.req] \notin E2EOff
      <3>1. SendAck(p, h, IF ptl THEN "PTL_ACK" ELSE "E2E_ACK", FALSE, RECEIVED)
        BY <1>3, <1>6, <2>2 DEF RxPutMatched
      <3>2. PICK type \in {"PTL_ACK", "E2E_ACK"} :
              /\ type = IF ptl THEN "PTL_ACK" ELSE "E2E_ACK"
              /\ type = "PTL_ACK" => AckReq[h.req] # "NO_ACK_REQ"
        OBVIOUS
      <3>3. SendAck(p, h, type, FALSE, RECEIVED)
        BY <3>1, <3>2, Zenon
      <3> QED
        BY <1>1, <1>3, <2>1, <3>2, <3>3, SendAckEntry
    <2>3. CASE ~(ptl \/ Src[h.req] \notin E2EOff)
      <3>1. SendNoAck(h.req, RECEIVED)
        BY <1>3, <1>6, <2>3 DEF RxPutMatched
      <3> QED
        BY <1>1, <1>3, <2>1, <2>3, <3>1, SendNoAckEntry
    <2> QED
      BY <2>2, <2>3
  <1>7. CASE NoEntry \in Matching(p) /\ RxPutUnmatched(p)
    <2>1. h.type \in PutLike
      BY <1>3, <1>7 DEF RxPutUnmatched, RxFirst, RxGet
    <2>2. CASE h.type = "PUT" /\ AckReq[h.req] # "NO_ACK_REQ"
      <3>1. SendAck(p, h, "PTL_ACK", TRUE, CREATED)
        BY <1>3, <1>7, <2>2 DEF RxPutUnmatched
      <3> QED
        BY <1>1, <1>3, <2>1, <2>2, <3>1, SendAckEntry
    <2>3. CASE ~(h.type = "PUT" /\ AckReq[h.req] # "NO_ACK_REQ")
      <3>1. SendNoAck(h.req, CREATED)
        BY <1>3, <1>7, <2>3 DEF RxPutUnmatched
      <3>2. NoEntry \in Outcome[h.req]
        BY <1>2, <1>3, <1>7 DEF Matching
      <3>3. h.type = Kind[h.req]
        BY <2>1, MsgParts DEF PutLike, RequestTypes
      <3>4. Conserving => Src[h.req] \in E2EOff
        BY <1>4, <2>1, <2>3, <3>2, <3>3 DEF Conserving
      <3> QED
        BY <1>1, <1>3, <2>1, <3>1, <3>4, SendNoAckEntry
    <2> QED
      BY <2>2, <2>3
  <1>8. ASSUME (\E e \in Entries : RxGetMatched(p, e)) \/ RxGetUnmatched(p) PROVE EntryInv'
    <2>1. h.type \in GetLike /\ state[h.req] = CREATED /\ UNCHANGED entries
      BY <1>3, <1>8 DEF RxGetMatched, RxGetUnmatched, RxFirst, RxGet
    <2>2. PICK fail \in BOOLEAN : Reply(p, NewMsg(ResponseType(h.type), h.req, fail, "NONE"))
      BY <1>3, <1>8 DEF RxGetMatched, RxGetUnmatched
    <2>3. UNCHANGED state \/ state' = [state EXCEPT ![h.req] = RECEIVED]
      BY <1>3, <1>8 DEF RxGetMatched, RxGetUnmatched
    <2> QED
      BY <1>1, <1>3, <2>1, <2>2, <2>3, GetReplyEntry
  <1>9. CASE RxResponse(p) \/ RxPtlAck(p)
    <2>1. h.type \in ResponseTypes
      BY <1>3, <1>9 DEF RxResponse, RxPtlAck, RxGet, ResponseTypes
    <2>2. state[h.req] <= RECEIVED /\ ~(state[h.req] > RECEIVED)
      BY <1>2, <1>4, <2>1 DEF RECEIVED
    <2>3. /\ ReleaseE2EEntry(p[1]) /\ state' = [state EXCEPT ![h.req] = ANSWERED]
          /\ IF Src[h.req] \in E2EOff THEN UNCHANGED txq
             ELSE Reply(p, NewMsg("E2E_ACK", h.req, FALSE, h.type))
      BY <1>3, <1>9, <2>2 DEF RxResponse, RxPtlAck
    <2> QED
      BY <1>1, <1>3, <2>1, <2>3, AnswerEntry
  <1>10. CASE RxE2EAck(p)
    <2>1. h.type = "E2E_ACK"
      BY <1>3, <1>10 DEF RxE2EAck, RxGet
    <2>2. ~(state[h.req] >= FINISHED)
      <3>1. state[h.req] \in CREATED .. FINISHED /\ state[h.req] <= ANSWERED
        BY <1>2, <1>4, <2>1
      <3> QED
        BY <3>1 DEF FINISHED, ANSWERED, CREATED
    <2>3. /\ state' = [state EXCEPT ![h.req] = FINISHED] /\ ReleaseE2EEntry(p[1])
          /\ UNCHANGED txq
      BY <1>3, <1>10, <2>2 DEF RxE2EAck
    <2>4. \A q \in Req : q # h.req => state'[q] = state[q]
      BY <1>2, <2>3
    <2>5. CASE h.answers \in RequestTypes
      <3>1. Owes("rxq", h, "src") /\ ~Owes("rxq", h, "dst")
        BY <2>1, <2>5 DEF Owes, RequestTypes, ResponseTypes
      <3>2. p[1] = Holder(h.req, "src")
        BY <1>4, <2>1, <2>5 DEF Target, FromInitiator, Holder, RequestTypes, ResponseTypes
      <3>3. ReleaseE2EEntry(Holder(h.req, "src"))
        BY <2>3, <3>2
      <3> QED
        BY <1>1, <1>3, <2>3, <2>4, <3>1, <3>3, RxReleases
    <2>6. CASE h.answers \in ResponseTypes
      <3>1. Owes("rxq", h, "dst") /\ ~Owes("rxq", h, "src")
        BY <2>1, <2>6 DEF Owes, RequestTypes, ResponseTypes
      <3>2. p[1] = Holder(h.req, "dst")
        BY <1>4, <2>1, <2>6 DEF Target, FromInitiator, Holder, RequestTypes, ResponseTypes
      <3>3. ReleaseE2EEntry(Holder(h.req, "dst"))
        BY <2>3, <3>2
      <3> QED
        BY <1>1, <1>3, <2>3, <2>4, <3>1, <3>3, RxReleases
    <2> QED
      BY <1>4, <2>1, <2>5, <2>6
  <1> QED
    BY <1>5, <1>6, <1>7, <1>8, <1>9, <1>10 DEF Rx, RxMatched, RxUnmatched

\* Every step keeps the entries accounted for.
LEMMA NextEntry ==
  ASSUME NoRetransmission, TypeOK, TypeOK', SlotInv, EntryInv, [Next]_vars
  PROVE  EntryInv'
  <1>1. CASE UNCHANGED vars
    <2>1. UNCHANGED <<issued, state, entries, txq, rxq, tx>>
      BY <1>1 DEF vars
    <2>2. OnTheWay' = OnTheWay
      BY <2>1 DEF OnTheWay
    <2> QED
      BY <2>1, <2>2, EntryStutter
  <1> QED
    BY <1>1, IssueEntry, TxGetEntry, TxLaunchEntry, TxDoneEntry, RxEntry, E2EEntry DEF Next, Tx

\* Without retransmissions the entries are accounted for in every state.
LEMMA EntryInvariant ==
  ASSUME NoRetransmission
  PROVE  Spec => []EntryInv
  <1>1. Init => EntryInv
    <2> SUFFICES ASSUME Init PROVE EntryInv
      OBVIOUS
    <2>1. OnTheWay = {}
      <3>1. ASSUME NEW t \in OnTheWay PROVE FALSE
        <4>1. t[2] \in Port
          BY <3>1, ItemParts
        <4>2. txq[t[2]] = <<>> /\ rxq[t[2]] = <<>> /\ tx[t[2]].pc # "init"
          BY <4>1 DEF Init, Idle
        <4> QED
          BY <3>1, <4>2 DEF OnTheWay, InQueue, InActor
      <3> QED
        BY <3>1
    <2>2. \A n \in Node : Charge(OnTheWay, n) = {}
      BY <2>1 DEF Charge
    <2>3. IsFiniteSet({}) /\ Cardinality({}) = 0
      BY FS_EmptySet
    <2>4. \A n \in Node : entries[n] = MaxE2EEntries /\ entries[n] + 0 = MaxE2EEntries
      BY ConstantsAssumption DEF Init
    <2>5. ASSUME NEW n \in Node PROVE Counted(n)
      <3>1. /\ IsFiniteSet(Charge(OnTheWay, n))
            /\ entries[n] + Cardinality(Charge(OnTheWay, n)) = MaxE2EEntries
        BY <2>2, <2>3, <2>4
      <3>2. MaxE2EEntries <= MaxE2EEntries
        BY ConstantsAssumption
      <3> QED
        BY <2>4, <3>1, <3>2 DEF Counted
    <2> QED
      BY <2>1, <2>5 DEF Init, EntryInv, OneMessage, AllSound, Untouched
  <1>2. TypeOK /\ SlotInv /\ EntryInv /\ [Next]_vars => EntryInv'
    BY NextEntry, NextType
  <1> QED
    BY <1>1, <1>2, TypeCorrect, SlotInvariant, PTL DEF Spec

\* release_e2e_entry never returns an entry that process_message did not take:
\* as long as nothing is retransmitted, every message that releases one stands
\* for one, on its node, and stands for it once.
THEOREM EntriesReturned ==
  ASSUME NoRetransmission
  PROVE  Spec => []EntriesWithinPool
  <1>1. TypeOK /\ EntryInv => EntriesWithinPool
    <2> SUFFICES ASSUME TypeOK, EntryInv, NEW n \in Node PROVE entries[n] <= MaxE2EEntries
      BY DEF EntriesWithinPool
    <2>1. Counted(n) /\ entries[n] \in Nat /\ MaxE2EEntries \in Nat
      BY ConstantsAssumption DEF EntryInv, TypeOK
    <2>2. CASE n \in E2EOff
      BY <2>1, <2>2 DEF Counted
    <2>3. CASE n \notin E2EOff
      <3>1. /\ IsFiniteSet(Charge(OnTheWay, n))
            /\ entries[n] + Cardinality(Charge(OnTheWay, n)) <= MaxE2EEntries
        BY <2>1, <2>3 DEF Counted
      <3>2. Cardinality(Charge(OnTheWay, n)) \in Nat
        BY <3>1, FS_CardinalityType
      <3> QED
        BY <2>1, <3>1, <3>2
    <2> QED
      BY <2>2, <2>3
  <1> QED
    BY <1>1, TypeCorrect, EntryInvariant, PTL

\* Nothing leaks: as long as nothing is retransmitted, and every operation that
\* takes an entry is answered, whatever was taken is back once the traffic has
\* drained, the E2E entries of every NIC and the slots of every command queue.
THEOREM PoolsRefill ==
  ASSUME NoRetransmission, Conserving
  PROVE  Spec => []DrainedPoolsAreFull
  <1>1. TypeOK /\ SlotInv /\ EntryInv => DrainedPoolsAreFull
    <2> SUFFICES ASSUME TypeOK, SlotInv, EntryInv, Quiescent, NEW n \in Node
                 PROVE  entries[n] = MaxE2EEntries /\ cq[n] = CQCapacity
      BY DEF DrainedPoolsAreFull
    <2>1. OnTheWay = {}
      <3>1. ASSUME NEW t \in OnTheWay PROVE FALSE
        <4>1. t[2] \in Port
          BY <3>1, ItemParts
        <4>2. txq[t[2]] = <<>> /\ rxq[t[2]] = <<>> /\ tx[t[2]].pc # "init"
          BY <4>1 DEF Quiescent, Idle
        <4> QED
          BY <3>1, <4>2 DEF OnTheWay, InQueue, InActor
      <3> QED
        BY <3>1
    <2>2. Charge(OnTheWay, n) = {}
      BY <2>1 DEF Charge
    <2>3. Commands(n) = {}
      BY DEF Commands, IsCommand, Quiescent
    <2>4. Cardinality({}) = 0
      BY FS_EmptySet
    <2>5. entries[n] \in Nat /\ cq[n] \in Nat /\ Counted(n)
      BY DEF TypeOK, EntryInv
    <2>6. entries[n] = MaxE2EEntries
      <3>1. CASE n \in E2EOff
        BY <2>5, <3>1 DEF Counted
      <3>2. CASE n \notin E2EOff
        <4>1. entries[n] + Cardinality(Charge(OnTheWay, n)) = MaxE2EEntries
          BY <2>5, <3>2 DEF Counted
        <4> QED
          BY <2>2, <2>4, <2>5, <4>1
      <3> QED
        BY <3>1, <3>2
    <2>7. cq[n] + Cardinality(Commands(n)) = CQCapacity
      BY DEF SlotInv, SlotsCounted
    <2> QED
      BY <2>3, <2>4, <2>5, <2>6, <2>7
  <1> QED
    BY <1>1, TypeCorrect, SlotInvariant, EntryInvariant, PTL
=============================================================================
