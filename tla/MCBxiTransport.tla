--------------------------- MODULE MCBxiTransport ---------------------------
(***************************************************************************)
(* Instances of BxiTransport for TLC: two nodes that talk to each other, a *)
(* third one that talks to itself without E2E actor, and a table of        *)
(* operations of which each configuration takes a few.                     *)
(***************************************************************************)
EXTENDS BxiTransport

Op(kind, src, dst, ack, buffered) ==
  [kind |-> kind, src |-> src, dst |-> dst, ack |-> ack, buffered |-> buffered]

Ops ==
  [putAck   |-> Op("PUT", "n1", "n2", "ACK_REQ", FALSE),
   putSmall |-> Op("PUT", "n1", "n2", "CT_ACK_REQ", TRUE),
   putNoAck |-> Op("PUT", "n1", "n2", "NO_ACK_REQ", FALSE),
   putBack  |-> Op("PUT", "n2", "n1", "ACK_REQ", FALSE),
   get      |-> Op("GET", "n1", "n2", "NO_ACK_REQ", FALSE),
   getBack  |-> Op("GET", "n2", "n1", "NO_ACK_REQ", FALSE),
   atomic   |-> Op("ATOMIC", "n1", "n2", "ACK_REQ", TRUE),
   fetch    |-> Op("FETCH_ATOMIC", "n2", "n1", "NO_ACK_REQ", TRUE),
   loopGet  |-> Op("GET", "n3", "n3", "NO_ACK_REQ", FALSE)]

MCKind      == [r \in Req |-> Ops[r].kind]
MCSrc       == [r \in Req |-> Ops[r].src]
MCDst       == [r \in Req |-> Ops[r].dst]
MCAckReq    == [r \in Req |-> Ops[r].ack]
MCBuffered  == [r \in Req |-> Ops[r].buffered]
MCServiceVn == [r \in Req |-> r \in {"fetch"}]

Priority == [list |-> "PRIORITY", ackDisable |-> FALSE]
Overflow == [list |-> "OVERFLOW", ackDisable |-> FALSE]
Silent   == [list |-> "PRIORITY", ackDisable |-> TRUE]

\* Outcomes of match_entry: entries that let ACKs go, such an entry or none
\* for all or for some of the operations, or all that the target answers.
Acked        == [r \in Req |-> {Priority, Overflow}]
Mixed        == [r \in Req |-> IF r \in {"putSmall", "fetch"} THEN {Priority, NoEntry}
                               ELSE {Overflow}]
AnyAnswered  ==
  [r \in Req |-> IF Kind[r] \in GetLike \/ (Kind[r] = "PUT" /\ AckReq[r] # "NO_ACK_REQ")
                 THEN {Priority, Silent, NoEntry} ELSE {Overflow, Silent}]
=============================================================================
