-------------------------- MODULE EventQueueProofs --------------------------
(***************************************************************************)
(* Proofs about EventQueue for every set of queues, mailboxes and actors,  *)
(* whatever the application polls and however many events are issued.      *)
(***************************************************************************)
EXTENDS EventQueue, FiniteSetTheorems, TLAPS

USE EventQueueAssumption

-----------------------------------------------------------------------------
(***************************************************************************)
(* Types.                                                                  *)
(***************************************************************************)
Event   == [id : Nat, eq : Eq, arrived : BOOLEAN]
Comm    == [state : {"posted"}] \cup [state : {"flying", "done"}, ev : Event]
Receipt == [id : Nat, eq : Eq, which : Eq, asked : SUBSET Eq]

StateType ==
  /\ mailbox \in [Eq -> Mailbox \cup {None, "freed"}]
  /\ pool \in Seq(Mailbox)
  /\ issuing \in [Issuer -> Eq \cup {None}]
  /\ sent \in Nat
  /\ content \in [Mailbox -> Seq(Event)]
  /\ call \in [kind : {"none", "wait", "poll"}, eqs : Seq(Eq)]
  /\ DOMAIN comms \subseteq Eq /\ comms \in [DOMAIN comms -> Comm]
  /\ returned \in Seq(Receipt)
  /\ givenUp \subseteq Nat

\* A mailbox belongs to one queue, or is in the pool once.
Pooled ==
  /\ \A p, q \in Eq : Live(p) /\ Live(q) /\ mailbox[p] = mailbox[q] => p = q
  /\ \A q \in Eq : Live(q) => \A i \in 1 .. Len(pool) : pool[i] # mailbox[q]
  /\ \A i, j \in 1 .. Len(pool) : pool[i] = pool[j] => i = j

\* The receives that have an event.
Receiving == {q \in DOMAIN comms : comms[q].state # "posted"}

\* Receives are for the queues of the call, which are live, a receive waits only while its mailbox
\* is empty, and the pointer holds the event of one that is done.
Called ==
  /\ Idle => comms = NoComms /\ first = None /\ call.eqs = <<>>
  /\ DOMAIN comms \subseteq ToSet(call.eqs)
  /\ \A q \in ToSet(call.eqs) : Live(q)
  /\ \A q \in DOMAIN comms : comms[q].state = "posted" => content[mailbox[q]] = <<>>
  /\ first # None => \E q \in Receiving : evPtr = comms[q].ev

QueueInv == StateType /\ Pooled /\ Called

-----------------------------------------------------------------------------
\* A call that is over has no queues.
LEMMA NoQueues ==
  ToSet(<<>>) = {}
  BY DEF ToSet

\* The parts of an event.
LEMMA EventParts ==
  ASSUME NEW e \in Event
  PROVE  e.id \in Nat /\ e.eq \in Eq /\ e.arrived \in BOOLEAN
  BY DEF Event

\* The parts of a receive.
LEMMA CommParts ==
  ASSUME StateType, NEW q \in DOMAIN comms
  PROVE  /\ q \in Eq
         /\ comms[q].state \in {"posted", "flying", "done"}
         /\ comms[q].state # "posted" => comms[q].ev \in Event
  BY DEF StateType, Comm

\* Of the queues that have an event, a poll takes the first of its list.
LEMMA FirstOf ==
  ASSUME NEW S \in SUBSET Nat, S # {}
  PROVE  (CHOOSE k \in S : \A l \in S : k <= l) \in S
  <1> DEFINE R == OpToRel(<, Nat)
  <1>1. IsWellFoundedOn(R, Nat)
    BY NatLessThanWellFounded
  <1>2. \A x, y \in Nat : y < x => <<y, x>> \in R
    BY DEF OpToRel
  <1> HIDE DEF R
  <1>3. PICK x \in S : \A y \in S : ~(<<y, x>> \in R)
    BY <1>1, WFMin
  <1>4. ASSUME NEW y \in S PROVE x <= y
    <2>1. ~(y < x)
      BY <1>2, <1>3
    <2> QED
      BY <2>1
  <1> QED
    BY <1>4

\* An event put in a mailbox.
LEMMA BoxPut ==
  ASSUME NEW f \in [Mailbox -> Seq(Event)], NEW m \in Mailbox, NEW e \in Event,
         NEW g, g = [f EXCEPT ![m] = Append(@, e)]
  PROVE  /\ g \in [Mailbox -> Seq(Event)]
         /\ \A x \in Mailbox : x # m => g[x] = f[x]
         /\ Len(f[m]) \in Nat /\ Len(g[m]) = Len(f[m]) + 1 /\ g[m][Len(f[m]) + 1] = e
         /\ \A k \in 1 .. Len(f[m]) : g[m][k] = f[m][k]
  OBVIOUS

\* An event taken from a mailbox.
LEMMA BoxGet ==
  ASSUME NEW f \in [Mailbox -> Seq(Event)], NEW m \in Mailbox, f[m] # <<>>,
         NEW g, g = [f EXCEPT ![m] = Tail(@)]
  PROVE  /\ g \in [Mailbox -> Seq(Event)]
         /\ \A x \in Mailbox : x # m => g[x] = f[x]
         /\ Len(f[m]) \in Nat /\ Len(g[m]) = Len(f[m]) - 1
         /\ 1 \in 1 .. Len(f[m]) /\ Head(f[m]) = f[m][1] /\ Head(f[m]) \in Event
         /\ \A k \in 1 .. Len(g[m]) : k + 1 \in 1 .. Len(f[m]) /\ g[m][k] = f[m][k + 1]
         /\ \A k \in 2 .. Len(f[m]) : k - 1 \in 1 .. Len(g[m]) /\ g[m][k - 1] = f[m][k]
  <1>1. g[m] = Tail(f[m]) /\ f[m] \in Seq(Event) /\ g \in [Mailbox -> Seq(Event)]
    OBVIOUS
  <1> QED
    BY <1>1

\* An arrival changes neither the order nor the identity of the events.
Same(f, g) ==
  \A m \in Mailbox : /\ Len(g[m]) = Len(f[m])
                     /\ \A k \in 1 .. Len(f[m]) : g[m][k].id = f[m][k].id /\ g[m][k].eq = f[m][k].eq

\* The flag of one event is set.
LEMMA BoxArrive ==
  ASSUME NEW f \in [Mailbox -> Seq(Event)], NEW m \in Mailbox, NEW k \in DOMAIN f[m],
         NEW g, g = [f EXCEPT ![m][k].arrived = TRUE]
  PROVE  g \in [Mailbox -> Seq(Event)] /\ Same(f, g)
  <1>1. PICK s \in Seq(Event) : s = f[m]
    OBVIOUS
  <1>2. k \in 1 .. Len(s) /\ s[k] \in Event
    BY <1>1
  <1>3. PICK e : e = [s[k] EXCEPT !.arrived = TRUE]
    OBVIOUS
  <1>4. e \in Event /\ e.id = s[k].id /\ e.eq = s[k].eq
    BY <1>2, <1>3 DEF Event
  <1>5. PICK t : t = [s EXCEPT ![k] = e]
    OBVIOUS
  <1>6. t \in Seq(Event) /\ Len(t) = Len(s) /\ t[k] = e /\ \A l \in 1 .. Len(s) : l # k => t[l] = s[l]
    BY <1>2, <1>4, <1>5
  <1>7. g = [f EXCEPT ![m] = t]
    BY <1>1, <1>3, <1>5
  <1>8. g \in [Mailbox -> Seq(Event)] /\ g[m] = t /\ \A x \in Mailbox : x # m => g[x] = f[x]
    BY <1>6, <1>7
  <1>9. ASSUME NEW x \in Mailbox
        PROVE  /\ Len(g[x]) = Len(f[x])
               /\ \A l \in 1 .. Len(f[x]) : g[x][l].id = f[x][l].id /\ g[x][l].eq = f[x][l].eq
    <2>1. CASE x # m
      BY <1>8, <2>1
    <2>2. CASE x = m
      <3>1. g[x] = t /\ f[x] = s
        BY <1>1, <1>8, <2>2
      <3> QED
        BY <1>2, <1>4, <1>6, <3>1
    <2> QED
      BY <2>1, <2>2
  <1> QED
    BY <1>8, <1>9 DEF Same

-----------------------------------------------------------------------------
(***************************************************************************)
(* What the steps do, by cases.                                            *)
(***************************************************************************)
Queue == <<mailbox, pool, issuing, sent, returned, givenUp>>

\* The receive of q is c, the others are as they were.
Adds(q, c) == comms' = [p \in DOMAIN comms \cup {q} |-> IF p = q THEN c ELSE comms[p]]

\* A receive that waits for an empty mailbox, and one that takes an event.
ReceivePosts(q) ==
  /\ content[mailbox[q]] = <<>>
  /\ Adds(q, [state |-> "posted"])
  /\ UNCHANGED <<content, first, evPtr>>

ReceiveTakes(q, ev) ==
  /\ content[mailbox[q]] # <<>> /\ ev = Head(content[mailbox[q]])
  /\ content' = [content EXCEPT ![mailbox[q]] = Tail(@)]
  /\ \E s \in {"flying", "done"} : Adds(q, [state |-> s, ev |-> ev])
  /\ evPtr' = ev \/ UNCHANGED <<first, evPtr>>

\* A new receive of a call for one of its queues.
Starts(q) ==
  /\ q \in Eq /\ q \notin DOMAIN comms /\ mailbox[q] \in Mailbox
  /\ call' \in [kind : {"none", "wait", "poll"}, eqs : Seq(Eq)] /\ call'.kind # "none"
  /\ q \in ToSet(call'.eqs) /\ DOMAIN comms \subseteq ToSet(call'.eqs)
  /\ \A p \in ToSet(call'.eqs) : Live(p)
  /\ UNCHANGED Queue
  /\ Receive(q)

\* A receive is posted, or takes the oldest event.
LEMMA ReceiveCases ==
  ASSUME StateType, NEW q \in Eq, mailbox[q] \in Mailbox, Receive(q)
  PROVE  ReceivePosts(q) \/ \E ev \in Event : ReceiveTakes(q, ev)
  <1>1. CASE content[mailbox[q]] = <<>>
    BY <1>1 DEF Receive, ReceivePosts, Adds
  <1>2. CASE content[mailbox[q]] # <<>>
    <2>1. PICK ev \in Event : ev = Head(content[mailbox[q]])
      BY <1>2, BoxGet DEF StateType
    <2>2. /\ content' = [content EXCEPT ![mailbox[q]] = Tail(@)]
          /\ Adds(q, [state |-> IF ev.arrived THEN "done" ELSE "flying", ev |-> ev])
          /\ evPtr' = IF ev.arrived THEN ev ELSE evPtr
          /\ first' = IF ev.arrived THEN q ELSE first
      BY <1>2, <2>1 DEF Receive, Adds
    <2>3. evPtr' = ev \/ UNCHANGED <<first, evPtr>>
      BY <2>2
    <2>4. \E s \in {"flying", "done"} : Adds(q, [state |-> s, ev |-> ev])
      <3>1. CASE ev.arrived
        BY <2>2, <3>1
      <3>2. CASE ~ev.arrived
        BY <2>2, <3>2
      <3> QED
        BY <3>1, <3>2
    <2> QED
      BY <1>2, <2>1, <2>2, <2>3, <2>4 DEF ReceiveTakes
  <1> QED
    BY <1>1, <1>2

\* The receives after one was added.
LEMMA AddsParts ==
  ASSUME StateType, NEW q \in Eq, q \notin DOMAIN comms, NEW c \in Comm, Adds(q, c)
  PROVE  /\ DOMAIN comms' = DOMAIN comms \cup {q} /\ DOMAIN comms' \subseteq Eq
         /\ comms' \in [DOMAIN comms' -> Comm]
         /\ comms'[q] = c /\ \A p \in DOMAIN comms : p # q /\ comms'[p] = comms[p]
  <1>1. DOMAIN comms \subseteq Eq /\ comms \in [DOMAIN comms -> Comm]
    BY DEF StateType
  <1>2. DOMAIN comms' = DOMAIN comms \cup {q} /\ comms'[q] = c
        /\ \A p \in DOMAIN comms : p # q /\ comms'[p] = comms[p]
    BY DEF Adds
  <1> QED
    BY <1>1, <1>2 DEF Adds

\* A wait starts its receive,
LEMMA WaitStarts ==
  ASSUME QueueInv, NEW q \in Eq, Wait(q)
  PROVE  Starts(q)
  <1>1. /\ Idle /\ mailbox[q] \in Mailbox /\ Live(q) /\ Receive(q) /\ UNCHANGED Queue
        /\ call' = [kind |-> "wait", eqs |-> <<q>>]
    BY DEF Wait, StartWait, Live, eqVars, Queue
  <1>2. DOMAIN comms = {}
    BY <1>1 DEF QueueInv, Called, NoComms
  <1>3. call' \in [kind : {"none", "wait", "poll"}, eqs : Seq(Eq)] /\ call'.kind # "none"
        /\ ToSet(call'.eqs) = {q}
    BY <1>1 DEF ToSet
  <1> QED
    BY <1>1, <1>2, <1>3 DEF Starts

\* and a poll the next of its own.
LEMMA PostStarts ==
  ASSUME QueueInv, PollPost
  PROVE  \E q \in Eq : Starts(q)
  <1>1. PICK k \in DOMAIN call.eqs : call.eqs[k] \notin DOMAIN comms /\ Receive(call.eqs[k])
    BY DEF PollPost
  <1>2. /\ UNCHANGED <<call, eqVars, issuing, sent, returned, givenUp>> /\ call.kind = "poll"
    BY DEF PollPost, Posting
  <1>3. call \in [kind : {"none", "wait", "poll"}, eqs : Seq(Eq)]
    BY DEF QueueInv, StateType
  <1>4. call.eqs[k] \in Eq /\ call.eqs[k] \in ToSet(call.eqs)
    BY <1>1, <1>3 DEF ToSet
  <1>5. /\ DOMAIN comms \subseteq ToSet(call.eqs) /\ \A p \in ToSet(call.eqs) : Live(p)
    BY DEF QueueInv, Called
  <1>6. mailbox[call.eqs[k]] \in Mailbox
    BY <1>4, <1>5 DEF Live
  <1>7. Starts(call.eqs[k])
    BY <1>1, <1>2, <1>3, <1>4, <1>5, <1>6 DEF Starts, Queue, eqVars
  <1> QED
    BY <1>4, <1>7

\* A poll that finds every mailbox empty has its receives still to post.
PollStarts(qs) ==
  /\ Idle /\ \A q \in ToSet(qs) : q \in Eq /\ Live(q)
  /\ call' = [kind |-> "poll", eqs |-> qs]
  /\ UNCHANGED <<comms, content, first, evPtr>> /\ UNCHANGED Queue

\* A poll starts, or is a wait for one of its queues.
LEMMA PollCases ==
  ASSUME StateType, NEW qs \in Polls, Poll(qs)
  PROVE  PollStarts(qs) \/ \E q \in Eq : Wait(q)
  <1> DEFINE busy == {k \in DOMAIN qs : content[mailbox[qs[k]]] # <<>>}
  <1>1. qs \in Seq(Eq) /\ DOMAIN qs = 1 .. Len(qs) /\ Len(qs) \in Nat
    OBVIOUS
  <1>2. /\ Idle /\ \A k \in DOMAIN qs : Live(qs[k])
        /\ UNCHANGED <<eqVars, issuing, sent, returned, givenUp>>
    BY DEF Poll
  <1>3. CASE busy # {}
    <2>1. PICK k : k = CHOOSE j \in busy : \A l \in busy : j <= l
      OBVIOUS
    <2>2. k \in busy
      <3>1. busy \in SUBSET Nat
        BY <1>1
      <3> QED
        BY <1>3, <2>1, <3>1, FirstOf
    <2>3. StartWait(qs[k])
      BY <1>3, <2>1 DEF Poll
    <2>4. qs[k] \in Eq /\ Live(qs[k])
      BY <1>1, <1>2, <2>2
    <2> QED
      BY <1>2, <2>3, <2>4 DEF Wait
  <1>4. CASE busy = {}
    <2>1. \A q \in ToSet(qs) : q \in Eq /\ Live(q)
      BY <1>1, <1>2 DEF ToSet
    <2>2. call' = [kind |-> "poll", eqs |-> qs] /\ UNCHANGED <<comms, content, first, evPtr>>
      BY <1>4 DEF Poll
    <2> QED
      BY <1>2, <2>1, <2>2 DEF PollStarts, Queue, eqVars
  <1> QED
    BY <1>3, <1>4

\* An event meets a receive, or stays in the mailbox of its queue.
PutTaken(q, ev) ==
  /\ q \in DOMAIN comms /\ comms[q].state = "posted"
  /\ comms' = [comms EXCEPT ![q] = [state |-> "flying", ev |-> ev]]
  /\ UNCHANGED content

PutQueued(q, ev) ==
  /\ q \in DOMAIN comms => comms[q].state # "posted"
  /\ content' = [content EXCEPT ![mailbox[q]] = Append(@, ev)]
  /\ UNCHANGED comms

\* A put meets the receive of its queue, or stays in its mailbox.
LEMMA PutCases ==
  ASSUME StateType, Pooled, NEW i \in Issuer, PutEvent(i)
  PROVE  \E q \in Eq : \E ev \in Event :
           /\ issuing[i] = q /\ mailbox[q] \in Mailbox /\ ev.id = sent /\ ev.eq = q
           /\ sent' = sent + 1 /\ issuing' = [issuing EXCEPT ![i] = None]
           /\ UNCHANGED <<mailbox, pool, call, first, evPtr, returned, givenUp>>
           /\ PutTaken(q, ev) \/ PutQueued(q, ev)
  <1>1. PICK q \in Eq : q = issuing[i] /\ Live(q)
    BY DEF PutEvent, StateType
  <1>2. PICK ev \in Event : ev = [id |-> sent, eq |-> q, arrived |-> FALSE]
    BY DEF StateType, Event
  <1>3. ev.id = sent /\ ev.eq = q
    BY <1>2
  <1>4. PICK p \in Eq : /\ mailbox[p] = mailbox[q]
                        /\ IF p \in DOMAIN comms /\ comms[p].state = "posted"
                           THEN /\ comms' = [comms EXCEPT ![p] = [state |-> "flying", ev |-> ev]]
                                /\ UNCHANGED content
                           ELSE /\ content' = [content EXCEPT ![mailbox[q]] = Append(@, ev)]
                                /\ UNCHANGED comms
    BY <1>1, <1>2 DEF PutEvent
  <1>5. p = q
    BY <1>1, <1>4 DEF Pooled, Live
  <1>6. PutTaken(q, ev) \/ PutQueued(q, ev)
    BY <1>4, <1>5 DEF PutTaken, PutQueued
  <1>7. /\ sent' = sent + 1 /\ issuing' = [issuing EXCEPT ![i] = None]
        /\ UNCHANGED <<mailbox, pool, call, first, evPtr, returned, givenUp>>
    BY <1>1 DEF PutEvent, eqVars
  <1> QED
    BY <1>1, <1>3, <1>6, <1>7 DEF Live

-----------------------------------------------------------------------------
(***************************************************************************)
(* Queues keep their own mailbox, and calls their own receives.            *)
(***************************************************************************)
\* get_random_mailbox gives a mailbox that no other queue has.
LEMMA AllocInv ==
  ASSUME QueueInv, NEW q \in Eq, EQAlloc(q)
  PROVE  QueueInv'
  <1>1. /\ Idle /\ mailbox[q] = None /\ UNCHANGED <<issuing, sent, content, appVars>>
        /\ mailbox \in [Eq -> Mailbox \cup {None, "freed"}] /\ pool \in Seq(Mailbox)
    BY DEF EQAlloc, QueueInv, StateType
  <1>2. PICK m : /\ mailbox' = [mailbox EXCEPT ![q] = m]
                 /\ m \in IF pool # <<>> THEN {Last(pool)} ELSE Mailbox \ Named
    BY DEF EQAlloc
  <1>3. /\ \A p \in Eq : Live(p) => mailbox[p] \in Mailbox
        /\ ~Live(q)
    BY <1>1 DEF Live
  <1>4. /\ m \in Mailbox /\ \A p \in Eq : Live(p) => mailbox[p] # m
        /\ pool' \in Seq(Mailbox)
        /\ \A i \in 1 .. Len(pool') : i \in 1 .. Len(pool) /\ pool'[i] = pool[i] /\ pool'[i] # m
    <2>1. CASE pool # <<>>
      <3>1. Len(pool) \in 1 .. Len(pool) /\ m = pool[Len(pool)] /\ Len(pool) \in Nat
        BY <1>1, <1>2, <2>1 DEF Last
      <3>2. /\ pool' \in Seq(Mailbox) /\ Len(pool') = Len(pool) - 1
            /\ \A i \in 1 .. Len(pool') : pool'[i] = pool[i]
        <4>1. pool' = SubSeq(pool, 1, Len(pool) - 1)
          BY <2>1 DEF EQAlloc, Front
        <4>2. ASSUME NEW s \in Seq(Mailbox), NEW j \in 1 .. Len(s)
              PROVE  /\ SubSeq(s, 1, j - 1) \in Seq(Mailbox) /\ Len(SubSeq(s, 1, j - 1)) = j - 1
                     /\ \A i \in 1 .. j - 1 : SubSeq(s, 1, j - 1)[i] = s[i]
          OBVIOUS
        <4> QED
          BY <1>1, <3>1, <4>1, <4>2
      <3>3. \A i \in 1 .. Len(pool') : i \in 1 .. Len(pool) /\ i # Len(pool)
        BY <3>1, <3>2
      <3>4. \A i \in 1 .. Len(pool') : pool'[i] # m
        BY <3>1, <3>2, <3>3 DEF QueueInv, Pooled
      <3>5. m \in Mailbox
        BY <1>1, <3>1
      <3>6. \A p \in Eq : Live(p) => mailbox[p] # m
        BY <3>1 DEF QueueInv, Pooled
      <3> QED
        BY <3>2, <3>3, <3>4, <3>5, <3>6
    <2>2. CASE pool = <<>>
      <3>1. pool' = <<>> /\ m \in Mailbox \ Named
        BY <1>2, <2>2 DEF EQAlloc
      <3>2. \A p \in Eq : Live(p) => mailbox[p] # m
        BY <3>1 DEF Named
      <3> QED
        BY <3>1, <3>2
    <2> QED
      BY <2>1, <2>2
  <1>5. /\ mailbox' \in [Eq -> Mailbox \cup {None, "freed"}]
        /\ mailbox'[q] = m /\ \A p \in Eq : p # q => mailbox'[p] = mailbox[p]
    BY <1>1, <1>2, <1>4
  <1>6. \A p \in Eq : Live(p)' => p = q \/ Live(p)
    BY <1>5 DEF Live
  <1>7. Pooled'
    <2>1. \A x, y \in Eq : Live(x)' /\ Live(y)' /\ mailbox'[x] = mailbox'[y] => x = y
      BY <1>4, <1>5, <1>6 DEF QueueInv, Pooled
    <2>2. \A x \in Eq : Live(x)' => \A i \in 1 .. Len(pool') : pool'[i] # mailbox'[x]
      BY <1>4, <1>5, <1>6 DEF QueueInv, Pooled
    <2>3. \A i, j \in 1 .. Len(pool') : pool'[i] = pool'[j] => i = j
      BY <1>4 DEF QueueInv, Pooled
    <2> QED
      BY <2>1, <2>2, <2>3 DEF Pooled
  <1>8. StateType'
    BY <1>1, <1>4, <1>5 DEF QueueInv, StateType, appVars
  <1>9. Called'
    <2>1. comms = NoComms /\ UNCHANGED <<call, comms, first, evPtr, content>>
      BY <1>1 DEF QueueInv, Called, appVars
    <2>2. DOMAIN comms = {}
      BY <2>1 DEF NoComms
    <2> QED
      BY <1>1, <2>1, <2>2, NoQueues DEF QueueInv, Called, Receiving, Idle
  <1> QED
    BY <1>7, <1>8, <1>9 DEF QueueInv

\* free_random_mailbox puts the mailbox of the queue in the pool.
LEMMA FreeInv ==
  ASSUME QueueInv, NEW q \in Eq, EQFree(q)
  PROVE  QueueInv'
  <1>1. /\ Idle /\ mailbox[q] \in Mailbox /\ UNCHANGED <<issuing, sent, content, appVars>>
        /\ mailbox \in [Eq -> Mailbox \cup {None, "freed"}] /\ pool \in Seq(Mailbox)
        /\ pool' = Append(pool, mailbox[q]) /\ mailbox' = [mailbox EXCEPT ![q] = "freed"]
    BY DEF EQFree, QueueInv, StateType, Live
  <1>2. /\ mailbox' \in [Eq -> Mailbox \cup {None, "freed"}] /\ mailbox'[q] \notin Mailbox
        /\ \A p \in Eq : p # q => mailbox'[p] = mailbox[p]
    BY <1>1
  <1>3. /\ pool' \in Seq(Mailbox) /\ Len(pool') = Len(pool) + 1 /\ Len(pool) \in Nat
        /\ pool'[Len(pool) + 1] = mailbox[q] /\ \A i \in 1 .. Len(pool) : pool'[i] = pool[i]
    BY <1>1
  <1>4. \A p \in Eq : Live(p)' => p # q /\ Live(p)
    BY <1>2 DEF Live
  <1>5. \A i \in 1 .. Len(pool') : i \in 1 .. Len(pool) \/ i = Len(pool) + 1
    BY <1>3
  <1>6. Live(q)
    BY <1>1 DEF Live
  <1>7. Pooled'
    <2>1. \A x, y \in Eq : Live(x)' /\ Live(y)' /\ mailbox'[x] = mailbox'[y] => x = y
      BY <1>2, <1>4 DEF QueueInv, Pooled
    <2>2. \A x \in Eq : Live(x)' => \A i \in 1 .. Len(pool') : pool'[i] # mailbox'[x]
      BY <1>2, <1>3, <1>4, <1>5, <1>6 DEF QueueInv, Pooled
    <2>3. \A i, j \in 1 .. Len(pool') : pool'[i] = pool'[j] => i = j
      BY <1>3, <1>5, <1>6 DEF QueueInv, Pooled
    <2> QED
      BY <2>1, <2>2, <2>3 DEF Pooled
  <1>8. StateType'
    BY <1>1, <1>2, <1>3 DEF QueueInv, StateType, appVars
  <1>9. Called'
    <2>1. comms = NoComms /\ UNCHANGED <<call, comms, first, evPtr, content>>
      BY <1>1 DEF QueueInv, Called, appVars
    <2>2. DOMAIN comms = {}
      BY <2>1 DEF NoComms
    <2> QED
      BY <1>1, <2>1, <2>2, NoQueues DEF QueueInv, Called, Receiving, Idle
  <1> QED
    BY <1>7, <1>8, <1>9 DEF QueueInv

\* The event that a receive has.
LEMMA ReceivingParts ==
  ASSUME StateType, NEW q \in Receiving
  PROVE  q \in DOMAIN comms /\ q \in Eq /\ comms[q].ev \in Event
  BY CommParts DEF Receiving

\* What is returned is the event that a receive got.
LEMMA ReceiptType ==
  ASSUME StateType, NEW ev \in Event, NEW q \in Eq
  PROVE  Result(ev, q) \in Receipt
  <1>1. call.eqs \in Seq(Eq) /\ ev.id \in Nat /\ ev.eq \in Eq
    BY EventParts DEF StateType
  <1>2. ToSet(call.eqs) \subseteq Eq
    BY <1>1 DEF ToSet
  <1> QED
    BY <1>1, <1>2 DEF Result, Receipt

\* Steps that leave the mailboxes of the queues alone.
LEMMA SamePool ==
  ASSUME Pooled, UNCHANGED <<mailbox, pool>>
  PROVE  Pooled'
  BY DEF Pooled, Live

\* An event is put in a mailbox only if no receive waits there.
LEMMA PutInv ==
  ASSUME QueueInv, NEW i \in Issuer, PutEvent(i)
  PROVE  QueueInv'
  <1>0. StateType /\ Pooled /\ Called
    BY DEF QueueInv
  <1>1. PICK q \in Eq : \E ev \in Event :
           /\ issuing[i] = q /\ mailbox[q] \in Mailbox /\ ev.id = sent /\ ev.eq = q
           /\ sent' = sent + 1 /\ issuing' = [issuing EXCEPT ![i] = None]
           /\ UNCHANGED <<mailbox, pool, call, first, evPtr, returned, givenUp>>
           /\ PutTaken(q, ev) \/ PutQueued(q, ev)
    BY <1>0, PutCases
  <1>2. PICK ev \in Event : PutTaken(q, ev) \/ PutQueued(q, ev)
    BY <1>1
  <1>3. /\ mailbox[q] \in Mailbox /\ sent' = sent + 1 /\ issuing' = [issuing EXCEPT ![i] = None]
        /\ UNCHANGED <<mailbox, pool, call, first, evPtr, returned, givenUp>>
    BY <1>1
  <1>4. Pooled'
    BY <1>0, <1>3, SamePool
  <1>5. sent' \in Nat /\ issuing' \in [Issuer -> Eq \cup {None}]
    BY <1>0, <1>3 DEF StateType
  <1>6. CASE PutTaken(q, ev)
    <2>1. PICK c : c = [state |-> "flying", ev |-> ev]
      OBVIOUS
    <2>2. c \in Comm /\ c.state # "posted" /\ c.ev = ev
      BY <2>1 DEF Comm
    <2>3. /\ q \in DOMAIN comms /\ comms[q].state = "posted" /\ UNCHANGED content
          /\ comms' = [comms EXCEPT ![q] = c]
      BY <1>6, <2>1 DEF PutTaken
    <2>4. /\ DOMAIN comms' = DOMAIN comms /\ comms' \in [DOMAIN comms -> Comm] /\ comms'[q] = c
          /\ \A p \in DOMAIN comms : p # q => comms'[p] = comms[p]
      BY <1>0, <2>2, <2>3 DEF StateType
    <2>5. StateType'
      BY <1>0, <1>3, <1>5, <2>3, <2>4 DEF StateType
    <2>6. Called'
      <3>1. ~Idle
        BY <1>0, <2>3 DEF Called, NoComms
      <3>2. first # None => \E p \in Receiving' : evPtr = comms'[p].ev
        BY <1>0, <2>2, <2>3, <2>4 DEF Called, Receiving
      <3>3. \A p \in DOMAIN comms : comms'[p].state = "posted" => comms[p].state = "posted"
        BY <2>2, <2>4
      <3> QED
        BY <1>0, <1>3, <2>3, <2>4, <3>1, <3>2, <3>3 DEF Called, Idle, Live
    <2> QED
      BY <1>4, <2>5, <2>6 DEF QueueInv
  <1>7. CASE PutQueued(q, ev)
    <2>1. /\ q \in DOMAIN comms => comms[q].state # "posted"
          /\ content' = [content EXCEPT ![mailbox[q]] = Append(@, ev)] /\ UNCHANGED comms
      BY <1>7 DEF PutQueued
    <2>2. /\ content' \in [Mailbox -> Seq(Event)]
          /\ \A x \in Mailbox : x # mailbox[q] => content'[x] = content[x]
      BY <1>0, <1>3, <2>1, BoxPut DEF StateType
    <2>3. StateType'
      BY <1>0, <1>3, <1>5, <2>1, <2>2 DEF StateType
    <2>4. ASSUME NEW p \in DOMAIN comms, comms[p].state = "posted"
          PROVE  content'[mailbox[p]] = <<>>
      <3>1. p \in Eq /\ Live(p) /\ content[mailbox[p]] = <<>> /\ p # q
        BY <1>0, <2>1, <2>4, CommParts DEF Called
      <3>2. mailbox[p] # mailbox[q] /\ mailbox[p] \in Mailbox
        BY <1>0, <1>3, <3>1 DEF Pooled, Live
      <3> QED
        BY <2>2, <3>1, <3>2
    <2>5. Called'
      BY <1>0, <1>3, <2>1, <2>4 DEF Called, Idle, Live, Receiving
    <2> QED
      BY <1>4, <2>3, <2>5 DEF QueueInv
  <1> QED
    BY <1>2, <1>6, <1>7

\* Arrivals.
LEMMA ArriveInv ==
  ASSUME QueueInv, NEW m \in Mailbox, Arrive(m)
  PROVE  QueueInv' /\ Same(content, content') /\ UNCHANGED <<eqVars, issuing, sent, appVars>>
  <1>0. StateType /\ Pooled /\ Called
    BY DEF QueueInv
  <1>1. PICK k \in DOMAIN content[m] : content' = [content EXCEPT ![m][k].arrived = TRUE]
    BY DEF Arrive
  <1>2. UNCHANGED <<eqVars, issuing, sent, appVars>>
    BY DEF Arrive
  <1>3. content' \in [Mailbox -> Seq(Event)] /\ Same(content, content')
    BY <1>0, <1>1, BoxArrive DEF StateType
  <1>4. StateType'
    BY <1>0, <1>2, <1>3 DEF StateType, eqVars, appVars
  <1>5. Pooled'
    BY <1>0, <1>2, SamePool DEF eqVars
  <1>6. \A x \in Mailbox : content[x] = <<>> => content'[x] = <<>>
    <2>1. ASSUME NEW x \in Mailbox, content[x] = <<>> PROVE content'[x] = <<>>
      <3>1. content'[x] \in Seq(Event) /\ Len(content'[x]) = 0
        BY <1>3, <2>1 DEF Same
      <3> QED
        BY <3>1
    <2> QED
      BY <2>1
  <1>7. Called'
    <2>1. \A q \in DOMAIN comms : comms[q].state = "posted" => content'[mailbox[q]] = <<>>
      BY <1>0, <1>6 DEF Called, Live
    <2> QED
      BY <1>0, <1>2, <2>1 DEF Called, Receiving, Idle, Live, eqVars, appVars
  <1> QED
    BY <1>2, <1>3, <1>4, <1>5, <1>7 DEF QueueInv

\* The receive keeps its event, which is in the pointer now.
LEMMA ArriveCommInv ==
  ASSUME QueueInv, NEW q \in Eq, ArriveComm(q)
  PROVE  /\ QueueInv' /\ Receiving' = Receiving
         /\ \A p \in Receiving : comms'[p].ev = comms[p].ev
         /\ UNCHANGED <<eqVars, issuing, sent, content, call, returned, givenUp>>
  <1>0. StateType /\ Pooled /\ Called
    BY DEF QueueInv
  <1>1. /\ q \in DOMAIN comms /\ comms[q].state = "flying" /\ evPtr' = comms[q].ev
        /\ comms' = [comms EXCEPT ![q].state = "done"]
        /\ UNCHANGED <<eqVars, issuing, sent, content, call, returned, givenUp>>
    BY DEF ArriveComm
  <1>2. q \in Receiving
    BY <1>1 DEF Receiving
  <1>3. PICK c : c = [comms[q] EXCEPT !.state = "done"]
    OBVIOUS
  <1>4. c \in Comm /\ c.state # "posted" /\ c.ev = comms[q].ev
    <2>1. comms[q] \in [state : {"flying", "done"}, ev : Event]
      BY <1>0, <1>1 DEF StateType, Comm
    <2> QED
      BY <1>3, <2>1 DEF Comm
  <1>5. /\ DOMAIN comms' = DOMAIN comms /\ comms' \in [DOMAIN comms -> Comm] /\ comms'[q] = c
        /\ \A p \in DOMAIN comms : p # q => comms'[p] = comms[p]
    BY <1>0, <1>1, <1>3, <1>4 DEF StateType
  <1>6. Receiving' = Receiving /\ \A p \in Receiving : comms'[p].ev = comms[p].ev
    BY <1>2, <1>4, <1>5 DEF Receiving
  <1>7. StateType'
    BY <1>0, <1>1, <1>5 DEF StateType, eqVars
  <1>8. Pooled'
    BY <1>0, <1>1, SamePool DEF eqVars
  <1>9. Called'
    <2>1. ~Idle
      BY <1>0, <1>1 DEF Called, NoComms
    <2>2. evPtr' = comms'[q].ev /\ q \in Receiving'
      BY <1>1, <1>2, <1>4, <1>5, <1>6
    <2>3. \A p \in DOMAIN comms : comms'[p].state = "posted" => comms[p].state = "posted"
      BY <1>4, <1>5
    <2> QED
      BY <1>0, <1>1, <1>5, <2>1, <2>2, <2>3 DEF Called, Idle, Live, eqVars
  <1> QED
    BY <1>1, <1>6, <1>7, <1>8, <1>9 DEF QueueInv

\* PtlEQGet takes the oldest event of a mailbox.
LEMMA GetInv ==
  ASSUME QueueInv, NEW q \in Eq, Get(q)
  PROVE  /\ QueueInv' /\ Idle /\ comms = NoComms /\ mailbox[q] \in Mailbox
         /\ content[mailbox[q]] # <<>>
         /\ returned' = Append(returned, Result(Head(content[mailbox[q]]), q))
         /\ content' = [content EXCEPT ![mailbox[q]] = Tail(@)]
         /\ UNCHANGED <<eqVars, issuing, sent, call, comms, first, evPtr, givenUp>>
  <1>0. StateType /\ Pooled /\ Called
    BY DEF QueueInv
  <1>1. /\ Idle /\ mailbox[q] \in Mailbox /\ content[mailbox[q]] # <<>>
        /\ returned' = Append(returned, Result(Head(content[mailbox[q]]), q))
        /\ content' = [content EXCEPT ![mailbox[q]] = Tail(@)]
        /\ UNCHANGED <<eqVars, issuing, sent, call, comms, first, evPtr, givenUp>>
    BY DEF Get, Live
  <1>2. content' \in [Mailbox -> Seq(Event)] /\ Head(content[mailbox[q]]) \in Event
    BY <1>0, <1>1, BoxGet DEF StateType
  <1>3. returned' \in Seq(Receipt)
    <2>1. Result(Head(content[mailbox[q]]), q) \in Receipt
      BY <1>0, <1>2, ReceiptType
    <2> QED
      BY <1>0, <1>1, <2>1 DEF StateType
  <1>4. StateType'
    BY <1>0, <1>1, <1>2, <1>3 DEF StateType, eqVars
  <1>5. Pooled'
    BY <1>0, <1>1, SamePool DEF eqVars
  <1>6. comms = NoComms /\ DOMAIN comms = {}
    BY <1>0, <1>1 DEF Called, NoComms
  <1>7. Called'
    BY <1>0, <1>1, <1>6, NoQueues DEF Called, Idle, Receiving
  <1> QED
    BY <1>1, <1>4, <1>5, <1>6, <1>7 DEF QueueInv

\* A call that starts a receive.
LEMMA StartsInv ==
  ASSUME QueueInv, NEW q \in Eq, Starts(q)
  PROVE  QueueInv'
  <1>0. StateType /\ Pooled /\ Called
    BY DEF QueueInv
  <1>1. /\ q \notin DOMAIN comms /\ mailbox[q] \in Mailbox /\ Receive(q)
        /\ UNCHANGED <<mailbox, pool, issuing, sent, returned, givenUp>>
    BY DEF Starts, Queue
  <1>2. /\ call' \in [kind : {"none", "wait", "poll"}, eqs : Seq(Eq)] /\ ~Idle'
        /\ q \in ToSet(call'.eqs) /\ DOMAIN comms \subseteq ToSet(call'.eqs)
        /\ \A p \in ToSet(call'.eqs) : Live(p)'
    BY <1>1 DEF Starts, Idle, Live
  <1>3. Pooled'
    BY <1>0, <1>1, SamePool
  <1>4. ASSUME NEW c \in Comm, Adds(q, c), content' \in [Mailbox -> Seq(Event)]
        PROVE  StateType' /\ DOMAIN comms' \subseteq ToSet(call'.eqs)
    <2>1. /\ DOMAIN comms' = DOMAIN comms \cup {q} /\ DOMAIN comms' \subseteq Eq
          /\ comms' \in [DOMAIN comms' -> Comm]
      BY <1>0, <1>1, <1>4, AddsParts
    <2> QED
      BY <1>0, <1>1, <1>2, <1>4, <2>1 DEF StateType
  <1>5. CASE ReceivePosts(q)
    <2>1. PICK c : c = [state |-> "posted"]
      OBVIOUS
    <2>2. c \in Comm /\ c.state = "posted"
      BY <2>1 DEF Comm
    <2>3. Adds(q, c) /\ UNCHANGED <<content, first, evPtr>> /\ content[mailbox[q]] = <<>>
      BY <1>5, <2>1 DEF ReceivePosts
    <2>4. StateType' /\ DOMAIN comms' \subseteq ToSet(call'.eqs)
      BY <1>0, <1>4, <2>2, <2>3 DEF StateType
    <2>5. /\ DOMAIN comms' = DOMAIN comms \cup {q} /\ comms'[q] = c
          /\ \A p \in DOMAIN comms : p # q /\ comms'[p] = comms[p]
      BY <1>0, <1>1, <2>2, <2>3, AddsParts
    <2>6. \A p \in DOMAIN comms' : comms'[p].state = "posted" => content'[mailbox'[p]] = <<>>
      BY <1>0, <1>1, <2>3, <2>5 DEF Called
    <2>7. first' # None => \E p \in Receiving' : evPtr' = comms'[p].ev
      BY <1>0, <2>3, <2>5 DEF Called, Receiving
    <2>8. Called'
      BY <1>2, <2>4, <2>6, <2>7 DEF Called
    <2> QED
      BY <1>3, <2>4, <2>8 DEF QueueInv
  <1>6. ASSUME NEW ev \in Event, ReceiveTakes(q, ev) PROVE QueueInv'
    <2>1. PICK s \in {"flying", "done"} : Adds(q, [state |-> s, ev |-> ev])
      BY <1>6 DEF ReceiveTakes
    <2>2. PICK c : c = [state |-> s, ev |-> ev]
      OBVIOUS
    <2>3. c \in Comm /\ c.state # "posted" /\ c.ev = ev
      BY <2>2 DEF Comm
    <2>4. content' \in [Mailbox -> Seq(Event)]
      BY <1>0, <1>1, <1>6, BoxGet DEF StateType, ReceiveTakes
    <2>5. StateType' /\ DOMAIN comms' \subseteq ToSet(call'.eqs)
      BY <1>4, <2>1, <2>2, <2>3, <2>4
    <2>6. /\ DOMAIN comms' = DOMAIN comms \cup {q} /\ comms'[q] = c
          /\ \A p \in DOMAIN comms : p # q /\ comms'[p] = comms[p]
      BY <1>0, <1>1, <2>1, <2>2, <2>3, AddsParts
    <2>7. ASSUME NEW p \in DOMAIN comms', comms'[p].state = "posted"
          PROVE  content'[mailbox'[p]] = <<>>
      <3>1. p \in DOMAIN comms /\ comms[p].state = "posted"
        BY <2>3, <2>6, <2>7
      <3>2. content[mailbox[p]] = <<>> /\ mailbox[p] \in Mailbox
        BY <1>0, <3>1 DEF Called, Live
      <3>3. mailbox[p] # mailbox[q] /\ content' = [content EXCEPT ![mailbox[q]] = Tail(@)]
        BY <1>6, <3>2 DEF ReceiveTakes
      <3> QED
        BY <1>0, <1>1, <3>2, <3>3 DEF StateType
    <2>8. first' # None => \E p \in Receiving' : evPtr' = comms'[p].ev
      <3>1. q \in Receiving' /\ comms'[q].ev = ev
        BY <2>3, <2>6 DEF Receiving
      <3>2. \A p \in Receiving : p \in Receiving' /\ comms'[p].ev = comms[p].ev
        BY <2>6 DEF Receiving
      <3>3. evPtr' = ev \/ UNCHANGED <<first, evPtr>>
        BY <1>6 DEF ReceiveTakes
      <3> QED
        BY <1>0, <3>1, <3>2, <3>3 DEF Called
    <2>9. Called'
      BY <1>2, <2>5, <2>7, <2>8 DEF Called
    <2> QED
      BY <1>3, <2>5, <2>9 DEF QueueInv
  <1> QED
    BY <1>0, <1>1, <1>5, <1>6, ReceiveCases

\* A call that polls has no receive at first.
LEMMA PollStartsInv ==
  ASSUME QueueInv, NEW qs \in Polls, PollStarts(qs)
  PROVE  QueueInv'
  <1>0. StateType /\ Pooled /\ Called
    BY DEF QueueInv
  <1>1. /\ Idle /\ \A q \in ToSet(qs) : q \in Eq /\ Live(q)
        /\ call' = [kind |-> "poll", eqs |-> qs]
        /\ UNCHANGED <<comms, content, first, evPtr, mailbox, pool, issuing, sent, returned, givenUp>>
    BY DEF PollStarts, Queue
  <1>2. /\ call' \in [kind : {"none", "wait", "poll"}, eqs : Seq(Eq)] /\ call'.eqs = qs /\ ~Idle'
    BY <1>1 DEF Idle
  <1>3. StateType'
    BY <1>0, <1>1, <1>2 DEF StateType
  <1>4. Pooled'
    BY <1>0, <1>1, SamePool
  <1>5. comms' = NoComms /\ first' = None /\ DOMAIN comms' = {}
    BY <1>0, <1>1 DEF Called, NoComms
  <1>6. Called'
    BY <1>1, <1>2, <1>5 DEF Called, Live
  <1> QED
    BY <1>3, <1>4, <1>6 DEF QueueInv

\* A call that ends leaves no receive.
LEMMA ReturnInv ==
  ASSUME QueueInv, Return, returned' \in Seq(Receipt), givenUp' \subseteq Nat
  PROVE  /\ QueueInv' /\ comms' = NoComms /\ Receiving' = {}
         /\ UNCHANGED <<mailbox, pool, issuing, sent, content>>
  <1>0. StateType /\ Pooled /\ Called
    BY DEF QueueInv
  <1>1. /\ call' = NoCall /\ comms' = NoComms /\ first' = None /\ evPtr' = None
        /\ UNCHANGED <<mailbox, pool, issuing, sent, content>>
    BY DEF Return, eqVars
  <1>2. DOMAIN comms' = {} /\ comms' \in [DOMAIN comms' -> Comm]
    BY <1>1 DEF NoComms
  <1>3. call' \in [kind : {"none", "wait", "poll"}, eqs : Seq(Eq)] /\ call'.eqs = <<>>
    BY <1>1 DEF NoCall
  <1>4. StateType'
    BY <1>0, <1>1, <1>2, <1>3 DEF StateType
  <1>5. Pooled'
    BY <1>0, <1>1, SamePool
  <1>6. Called'
    BY <1>1, <1>2, <1>3, NoQueues DEF Called
  <1>7. Receiving' = {}
    BY <1>2 DEF Receiving
  <1> QED
    BY <1>1, <1>4, <1>5, <1>6, <1>7 DEF QueueInv

\* The event that a call returns is that of one of its receives.
LEMMA CallEndInv ==
  ASSUME QueueInv, NEW q \in Eq, CallEnd(q)
  PROVE  /\ QueueInv' /\ comms' = NoComms /\ Receiving' = {}
         /\ UNCHANGED <<mailbox, pool, issuing, sent, content>>
         /\ \E p \in Receiving : /\ returned' = Append(returned, Result(comms[p].ev, q))
                                 /\ givenUp' = givenUp \cup (Taken \ {comms[p].ev.id})
  <1>0. StateType /\ Pooled /\ Called
    BY DEF QueueInv
  <1>1. PICK p \in Receiving : evPtr = comms[p].ev
    BY <1>0 DEF Called, CallEnd
  <1>2. /\ returned' = Append(returned, Result(comms[p].ev, q)) /\ Return
        /\ givenUp' = givenUp \cup (Taken \ {comms[p].ev.id})
    BY <1>1 DEF CallEnd
  <1>3. returned' \in Seq(Receipt)
    <2>1. Result(comms[p].ev, q) \in Receipt
      BY <1>0, <1>1, ReceivingParts, ReceiptType
    <2> QED
      BY <1>0, <1>2, <2>1 DEF StateType
  <1>4. Taken \subseteq Nat
    BY <1>0, ReceivingParts, EventParts DEF Taken, Receiving
  <1>5. givenUp' \subseteq Nat
    BY <1>0, <1>2, <1>4 DEF StateType
  <1> QED
    BY <1>1, <1>2, <1>3, <1>5, ReturnInv

\* A poll that times out gives up what its receives had.
LEMMA TimeoutInv ==
  ASSUME QueueInv, PollTimeout
  PROVE  /\ QueueInv' /\ comms' = NoComms /\ Receiving' = {}
         /\ UNCHANGED <<mailbox, pool, issuing, sent, content, returned>>
         /\ givenUp' = givenUp \cup Taken
  <1>0. StateType
    BY DEF QueueInv
  <1>1. Return /\ UNCHANGED returned /\ givenUp' = givenUp \cup Taken
    BY DEF PollTimeout
  <1>2. Taken \subseteq Nat
    BY <1>0, ReceivingParts, EventParts DEF Taken, Receiving
  <1>3. returned' \in Seq(Receipt) /\ givenUp' \subseteq Nat
    BY <1>0, <1>1, <1>2 DEF StateType
  <1> QED
    BY <1>1, <1>3, ReturnInv

\* An issuer that starts changes nothing else.
LEMMA IssueInv ==
  ASSUME QueueInv, NEW i \in Issuer, NEW q \in Eq, IssueEvent(i, q)
  PROVE  QueueInv' /\ UNCHANGED <<eqVars, sent, content, appVars>>
  BY DEF IssueEvent, QueueInv, StateType, Pooled, Called, Live, Idle, Receiving, eqVars, appVars

\* Every step keeps the queues and the calls in order.
LEMMA NextQueue ==
  ASSUME QueueInv, [Next]_vars
  PROVE  QueueInv'
  <1>0. StateType /\ Pooled /\ Called
    BY DEF QueueInv
  <1>1. CASE UNCHANGED vars
    BY <1>1 DEF vars, QueueInv, StateType, Pooled, Called, Live, Idle, Receiving, eqVars, appVars
  <1>2. ASSUME NEW qs \in Polls, Poll(qs) PROVE QueueInv'
    BY <1>0, <1>2, PollCases, PollStartsInv, WaitStarts, StartsInv
  <1>3. ASSUME PollPost \/ \E q \in Eq : Wait(q) PROVE QueueInv'
    BY <1>3, WaitStarts, PostStarts, StartsInv
  <1> QED
    BY <1>1, <1>2, <1>3, AllocInv, FreeInv, ArriveCommInv, GetInv, CallEndInv, TimeoutInv, PutInv,
       IssueInv, ArriveInv DEF Next

-----------------------------------------------------------------------------
(***************************************************************************)
(* Every event is in one place.  The identities in the mailboxes, in the   *)
(* receives, among the events returned and among those given up are apart, *)
(* occur once, and are all that were used.                                 *)
(***************************************************************************)
BoxIds(f) == {n \in Nat : \E m \in Mailbox : \E k \in 1 .. Len(f[m]) : f[m][k].id = n}

BoxesDiffer(f) ==
  \A x, y \in Mailbox : \A k \in 1 .. Len(f[x]) : \A l \in 1 .. Len(f[y]) :
    f[x][k].id = f[y][l].id => x = y /\ k = l

\* So no mailbox holds more events than were put.
BoxesShallow(f) == \A m \in Mailbox : \A k \in 1 .. Len(f[m]) : f[m][k].id >= k - 1

BoxesOK(f) == BoxesDiffer(f) /\ BoxesShallow(f)

GotIds(r)    == {n \in Nat : \E k \in 1 .. Len(r) : r[k].id = n}
GotDiffer(r) == \A i, j \in 1 .. Len(r) : r[i].id = r[j].id => i = j

Apart(A, B, C, D) ==
  /\ \A n \in A : n \notin B /\ n \notin C /\ n \notin D
  /\ \A n \in B : n \notin C /\ n \notin D
  /\ \A n \in C : n \notin D

Placed ==
  /\ BoxesOK(content)
  /\ \A p, q \in Receiving : comms[p].ev.id = comms[q].ev.id => p = q
  /\ GotDiffer(returned)
  /\ Apart(BoxIds(content), Taken, GotIds(returned), givenUp)
  /\ \A n \in Nat : n < sent <=> \/ n \in BoxIds(content) \/ n \in Taken
                                 \/ n \in GotIds(returned) \/ n \in givenUp

PutIn(f, g, m, e) == g = [f EXCEPT ![m] = Append(@, e)]
TakenFrom(f, g, m) == f[m] # <<>> /\ g = [f EXCEPT ![m] = Tail(@)]

\* A new event,
LEMMA IdsPut ==
  ASSUME NEW f \in [Mailbox -> Seq(Event)], NEW m \in Mailbox, NEW e \in Event,
         NEW g, PutIn(f, g, m, e),
         BoxesOK(f), \A n \in BoxIds(f) : n < e.id
  PROVE  BoxesOK(g) /\ \A n : n \in BoxIds(g) <=> (n \in BoxIds(f) \/ n = e.id)
  <1> USE DEF PutIn
  <1>1. /\ g \in [Mailbox -> Seq(Event)] /\ \A x \in Mailbox : x # m => g[x] = f[x]
        /\ Len(f[m]) \in Nat /\ Len(g[m]) = Len(f[m]) + 1 /\ g[m][Len(f[m]) + 1] = e
        /\ \A k \in 1 .. Len(f[m]) : g[m][k] = f[m][k]
    BY BoxPut
  <1>2. ASSUME NEW x \in Mailbox, NEW k \in 1 .. Len(g[x])
        PROVE  \/ k \in 1 .. Len(f[x]) /\ g[x][k] = f[x][k]
               \/ x = m /\ k = Len(f[m]) + 1 /\ g[x][k] = e
    <2>1. CASE x # m
      BY <1>1, <1>2, <2>1
    <2>2. CASE x = m
      BY <1>1, <1>2, <2>2
    <2> QED
      BY <2>1, <2>2
  <1>3. ASSUME NEW x \in Mailbox, NEW k \in 1 .. Len(f[x])
        PROVE  /\ k \in 1 .. Len(g[x]) /\ g[x][k] = f[x][k]
               /\ f[x][k].id \in Nat /\ f[x][k].id \in BoxIds(f) /\ f[x][k].id < e.id
    <2>1. f[x][k] \in Event
      BY <1>3
    <2>2. f[x][k].id \in Nat
      BY <2>1, EventParts
    <2>3. f[x][k].id \in BoxIds(f)
      BY <1>3, <2>2 DEF BoxIds
    <2>4. k \in 1 .. Len(g[x]) /\ g[x][k] = f[x][k]
      BY <1>1, <1>3
    <2> QED
      BY <2>2, <2>3, <2>4
  <1>4. e.id \in Nat
    BY EventParts
  <1>5. BoxesDiffer(g)
    <2> SUFFICES ASSUME NEW x \in Mailbox, NEW y \in Mailbox, NEW k \in 1 .. Len(g[x]),
                        NEW l \in 1 .. Len(g[y]), g[x][k].id = g[y][l].id
                 PROVE  x = y /\ k = l
      BY DEF BoxesDiffer
    <2> QED
      BY <1>2, <1>3, <1>4 DEF BoxesOK, BoxesDiffer
  <1>6. e.id >= Len(f[m])
    <2>1. CASE Len(f[m]) = 0
      BY <1>4, <2>1
    <2>2. CASE Len(f[m]) # 0
      <3>1. Len(f[m]) \in 1 .. Len(f[m])
        BY <1>1, <2>2
      <3>2. f[m][Len(f[m])].id >= Len(f[m]) - 1 /\ f[m][Len(f[m])].id < e.id
            /\ f[m][Len(f[m])].id \in Nat
        BY <1>3, <3>1 DEF BoxesOK, BoxesShallow
      <3> QED
        BY <1>1, <1>4, <3>2
    <2> QED
      BY <2>1, <2>2
  <1>7. BoxesShallow(g)
    <2> SUFFICES ASSUME NEW x \in Mailbox, NEW k \in 1 .. Len(g[x])
                 PROVE  g[x][k].id >= k - 1
      BY DEF BoxesShallow
    <2>1. CASE k \in 1 .. Len(f[x]) /\ g[x][k] = f[x][k]
      BY <2>1 DEF BoxesOK, BoxesShallow
    <2>2. CASE x = m /\ k = Len(f[m]) + 1 /\ g[x][k] = e
      BY <1>1, <1>4, <1>6, <2>2
    <2> QED
      BY <1>2, <2>1, <2>2
  <1>8. ASSUME NEW n \in BoxIds(g) PROVE n \in BoxIds(f) \/ n = e.id
    <2>1. PICK x \in Mailbox : \E k \in 1 .. Len(g[x]) : g[x][k].id = n
      BY <1>8 DEF BoxIds
    <2>2. PICK k \in 1 .. Len(g[x]) : g[x][k].id = n
      BY <2>1
    <2> QED
      BY <1>2, <1>3, <2>2
  <1>9. ASSUME NEW n \in BoxIds(f) PROVE n \in BoxIds(g)
    BY <1>3, <1>9 DEF BoxIds
  <1>10. e.id \in BoxIds(g)
    <2>1. Len(f[m]) + 1 \in 1 .. Len(g[m])
      BY <1>1
    <2> QED
      BY <1>1, <1>4, <2>1 DEF BoxIds
  <1> QED
    BY <1>5, <1>7, <1>8, <1>9, <1>10 DEF BoxesOK

\* an event taken,
LEMMA IdsGet ==
  ASSUME NEW f \in [Mailbox -> Seq(Event)], NEW m \in Mailbox, NEW g, TakenFrom(f, g, m), BoxesOK(f)
  PROVE  /\ BoxesOK(g) /\ Head(f[m]).id \in BoxIds(f)
         /\ \A n : n \in BoxIds(g) <=> (n \in BoxIds(f) /\ n # Head(f[m]).id)
  <1> USE DEF TakenFrom
  <1>1. /\ g \in [Mailbox -> Seq(Event)] /\ \A x \in Mailbox : x # m => g[x] = f[x]
        /\ Len(f[m]) \in Nat /\ Len(g[m]) = Len(f[m]) - 1
        /\ 1 \in 1 .. Len(f[m]) /\ Head(f[m]) = f[m][1] /\ Head(f[m]) \in Event
        /\ \A k \in 1 .. Len(g[m]) : k + 1 \in 1 .. Len(f[m]) /\ g[m][k] = f[m][k + 1]
        /\ \A k \in 2 .. Len(f[m]) : k - 1 \in 1 .. Len(g[m]) /\ g[m][k - 1] = f[m][k]
    BY BoxGet
  <1> DEFINE up(x, k) == IF x = m THEN k + 1 ELSE k
  <1>2. ASSUME NEW x \in Mailbox, NEW k \in 1 .. Len(g[x])
        PROVE  /\ up(x, k) \in 1 .. Len(f[x]) /\ g[x][k] = f[x][up(x, k)]
               /\ ~(x = m /\ up(x, k) = 1) /\ up(x, k) >= k
    BY <1>1, <1>2
  <1>3. ASSUME NEW x \in Mailbox, NEW k \in 1 .. Len(f[x]), ~(x = m /\ k = 1)
        PROVE  \E l \in 1 .. Len(g[x]) : g[x][l] = f[x][k]
    <2>1. CASE x # m
      BY <1>1, <1>3, <2>1
    <2>2. CASE x = m
      <3>1. k \in 2 .. Len(f[m])
        BY <1>1, <1>3, <2>2
      <3> QED
        BY <1>1, <2>2, <3>1
    <2> QED
      BY <2>1, <2>2
  <1>4. BoxesDiffer(g)
    <2> SUFFICES ASSUME NEW x \in Mailbox, NEW y \in Mailbox, NEW k \in 1 .. Len(g[x]),
                        NEW l \in 1 .. Len(g[y]), g[x][k].id = g[y][l].id
                 PROVE  x = y /\ k = l
      BY DEF BoxesDiffer
    <2>1. /\ up(x, k) \in 1 .. Len(f[x]) /\ g[x][k] = f[x][up(x, k)]
          /\ up(y, l) \in 1 .. Len(f[y]) /\ g[y][l] = f[y][up(y, l)]
      BY <1>2
    <2>2. x = y /\ up(x, k) = up(y, l)
      <3> HIDE DEF up
      <3> QED
        BY <2>1 DEF BoxesOK, BoxesDiffer
    <2> QED
      BY <2>2
  <1>5. BoxesShallow(g)
    <2> SUFFICES ASSUME NEW x \in Mailbox, NEW k \in 1 .. Len(g[x])
                 PROVE  g[x][k].id >= k - 1
      BY DEF BoxesShallow
    <2>1. up(x, k) \in 1 .. Len(f[x]) /\ g[x][k] = f[x][up(x, k)] /\ up(x, k) >= k
      BY <1>2
    <2>2. f[x][up(x, k)] \in Event
      BY <2>1
    <2>3. f[x][up(x, k)].id \in Nat
      BY <2>2, EventParts
    <2>4. g[x][k].id >= up(x, k) - 1
      <3> HIDE DEF up
      <3> QED
        BY <2>1 DEF BoxesOK, BoxesShallow
    <2> QED
      BY <2>1, <2>3, <2>4
  <1>6. ASSUME NEW n \in BoxIds(g) PROVE n \in BoxIds(f) /\ n # Head(f[m]).id
    <2>1. PICK x \in Mailbox : \E k \in 1 .. Len(g[x]) : g[x][k].id = n
      BY <1>6 DEF BoxIds
    <2>2. PICK k \in 1 .. Len(g[x]) : g[x][k].id = n
      BY <2>1
    <2>3. /\ up(x, k) \in 1 .. Len(f[x]) /\ f[x][up(x, k)].id = n
          /\ ~(x = m /\ up(x, k) = 1)
      BY <1>2, <2>2
    <2> HIDE DEF up
    <2>4. n \in BoxIds(f)
      BY <1>6, <2>3 DEF BoxIds
    <2>5. n # Head(f[m]).id
      BY <1>1, <2>3 DEF BoxesOK, BoxesDiffer
    <2> QED
      BY <2>4, <2>5
  <1>7. ASSUME NEW n \in BoxIds(f), n # Head(f[m]).id PROVE n \in BoxIds(g)
    <2>1. PICK x \in Mailbox : \E k \in 1 .. Len(f[x]) : f[x][k].id = n
      BY <1>7 DEF BoxIds
    <2>2. PICK k \in 1 .. Len(f[x]) : f[x][k].id = n
      BY <2>1
    <2>3. ~(x = m /\ k = 1)
      BY <1>1, <1>7, <2>2
    <2>4. PICK l \in 1 .. Len(g[x]) : g[x][l] = f[x][k]
      BY <1>3, <2>3
    <2> QED
      BY <1>7, <2>2, <2>4 DEF BoxIds
  <1>8. Head(f[m]).id \in BoxIds(f)
    <2>1. Head(f[m]).id \in Nat
      BY <1>1, EventParts
    <2> QED
      BY <1>1, <2>1 DEF BoxIds
  <1> QED
    BY <1>4, <1>5, <1>6, <1>7, <1>8 DEF BoxesOK

\* and one that arrives.
LEMMA IdsSame ==
  ASSUME NEW f, NEW g, Same(f, g), BoxesOK(f)
  PROVE  BoxesOK(g) /\ BoxIds(g) = BoxIds(f)
  <1>1. \A m \in Mailbox : Len(g[m]) = Len(f[m]) /\ \A k \in 1 .. Len(f[m]) : g[m][k].id = f[m][k].id
    BY DEF Same
  <1>2. BoxesDiffer(g)
    BY <1>1 DEF BoxesOK, BoxesDiffer
  <1>3. BoxesShallow(g)
    BY <1>1 DEF BoxesOK, BoxesShallow
  <1>4. BoxIds(g) = BoxIds(f)
    BY <1>1 DEF BoxIds
  <1> QED
    BY <1>2, <1>3, <1>4 DEF BoxesOK

\* An event that is returned.
LEMMA IdsReturned ==
  ASSUME NEW r \in Seq(Receipt), NEW e \in Receipt, NEW s, s = Append(r, e),
         GotDiffer(r), e.id \notin GotIds(r)
  PROVE  GotDiffer(s) /\ \A n : n \in GotIds(s) <=> (n \in GotIds(r) \/ n = e.id)
  <1>1. /\ Len(s) = Len(r) + 1 /\ Len(r) \in Nat /\ s[Len(r) + 1] = e
        /\ \A i \in 1 .. Len(r) : s[i] = r[i]
    OBVIOUS
  <1>2. \A i \in 1 .. Len(s) : i \in 1 .. Len(r) \/ i = Len(r) + 1
    BY <1>1
  <1>3. \A i \in 1 .. Len(r) : i \in 1 .. Len(s) /\ r[i].id \in Nat /\ r[i].id \in GotIds(r)
    <2>1. ASSUME NEW i \in 1 .. Len(r) PROVE i \in 1 .. Len(s) /\ r[i].id \in Nat
      <3>1. r[i] \in Receipt /\ i \in 1 .. Len(s)
        BY <1>1
      <3> QED
        BY <3>1 DEF Receipt
    <2> QED
      BY <2>1 DEF GotIds
  <1>4. e.id \in Nat /\ Len(r) + 1 \in 1 .. Len(s)
    BY <1>1 DEF Receipt
  <1>5. GotDiffer(s)
    BY <1>1, <1>2, <1>3 DEF GotDiffer
  <1>6. ASSUME NEW n PROVE n \in GotIds(s) <=> (n \in GotIds(r) \/ n = e.id)
    BY <1>1, <1>2, <1>3, <1>4 DEF GotIds
  <1> QED
    BY <1>5, <1>6

\* The identities that receives hold.
LEMMA TakenIds ==
  /\ \A n : n \in Taken <=> \E q \in Receiving : comms[q].ev.id = n
  /\ \A n : n \in Taken' <=> \E q \in Receiving' : comms'[q].ev.id = n
  BY DEF Taken, Receiving

\* Steps that move no event.
LEMMA PlacedStutter ==
  ASSUME StateType, StateType', Placed, UNCHANGED <<sent, content, returned, givenUp>>,
         Receiving' = Receiving, \A p \in Receiving : comms'[p].ev = comms[p].ev
  PROVE  Placed'
  <1>1. \A n : n \in Taken' <=> n \in Taken
    BY DEF Taken, Receiving
  <1>2. \A p, q \in Receiving' : comms'[p].ev.id = comms'[q].ev.id => p = q
    BY DEF Placed
  <1>3. Apart(BoxIds(content), Taken', GotIds(returned), givenUp)
    BY <1>1 DEF Placed, Apart
  <1>4. \A n \in Nat : n < sent <=> \/ n \in BoxIds(content) \/ n \in Taken'
                                    \/ n \in GotIds(returned) \/ n \in givenUp
    BY <1>1 DEF Placed
  <1> QED
    BY <1>2, <1>3, <1>4 DEF Placed

\* A put uses the next identity.
LEMMA PutPlaced ==
  ASSUME QueueInv, QueueInv', Placed, NEW i \in Issuer, PutEvent(i)
  PROVE  Placed'
  <1>0. StateType /\ Pooled /\ Called /\ StateType'
    BY DEF QueueInv
  <1>1. PICK q \in Eq : \E ev \in Event :
           /\ issuing[i] = q /\ mailbox[q] \in Mailbox /\ ev.id = sent /\ ev.eq = q
           /\ sent' = sent + 1 /\ issuing' = [issuing EXCEPT ![i] = None]
           /\ UNCHANGED <<mailbox, pool, call, first, evPtr, returned, givenUp>>
           /\ PutTaken(q, ev) \/ PutQueued(q, ev)
    BY <1>0, PutCases
  <1>2. PICK ev \in Event : ev.id = sent /\ (PutTaken(q, ev) \/ PutQueued(q, ev))
    BY <1>1
  <1>3. mailbox[q] \in Mailbox /\ sent' = sent + 1 /\ UNCHANGED <<returned, givenUp>> /\ sent \in Nat
    BY <1>0, <1>1 DEF StateType
  <1>4. /\ sent \notin BoxIds(content) /\ sent \notin Taken /\ sent \notin GotIds(returned)
        /\ sent \notin givenUp /\ \A n \in BoxIds(content) : n < sent
    BY <1>3 DEF Placed, BoxIds
  <1>5. \A n \in Nat : n < sent' <=> n < sent \/ n = sent
    BY <1>3
  <1>6. CASE PutTaken(q, ev)
    <2>1. PICK c : c = [state |-> "flying", ev |-> ev]
      OBVIOUS
    <2>2. /\ q \in DOMAIN comms /\ comms[q].state = "posted" /\ UNCHANGED content
          /\ comms' = [comms EXCEPT ![q] = c] /\ c.state = "flying" /\ c.ev = ev
      BY <1>6, <2>1 DEF PutTaken
    <2>3. /\ DOMAIN comms' = DOMAIN comms /\ comms'[q] = c
          /\ \A p \in DOMAIN comms : p # q => comms'[p] = comms[p]
      BY <1>0, <2>2 DEF StateType
    <2>4. \A p : p \in Receiving' <=> p \in Receiving \/ p = q
      BY <2>2, <2>3 DEF Receiving
    <2>5. /\ q \notin Receiving /\ comms'[q].ev.id = sent
          /\ \A p \in Receiving : comms'[p].ev.id = comms[p].ev.id
      BY <1>2, <2>2, <2>3 DEF Receiving
    <2>6. \A n : n \in Taken' <=> n \in Taken \/ n = sent
      BY <1>0, <2>4, <2>5, TakenIds
    <2>7. \A p \in Receiving : comms[p].ev.id # sent
      BY <1>0, <1>4, TakenIds
    <2>8. \A p, x \in Receiving' : comms'[p].ev.id = comms'[x].ev.id => p = x
      BY <2>4, <2>5, <2>7 DEF Placed
    <2>9. Apart(BoxIds(content), Taken', GotIds(returned), givenUp)
      BY <1>4, <2>6 DEF Placed, Apart
    <2>10. \A n \in Nat : n < sent' <=> \/ n \in BoxIds(content) \/ n \in Taken'
                                        \/ n \in GotIds(returned) \/ n \in givenUp
      BY <1>5, <2>6 DEF Placed
    <2> QED
      BY <1>3, <2>2, <2>8, <2>9, <2>10 DEF Placed
  <1>7. CASE PutQueued(q, ev)
    <2>1. /\ content' = [content EXCEPT ![mailbox[q]] = Append(@, ev)] /\ UNCHANGED comms
      BY <1>7 DEF PutQueued
    <2>2. BoxesOK(content') /\ \A n : n \in BoxIds(content') <=> (n \in BoxIds(content) \/ n = sent)
      <3>1. content \in [Mailbox -> Seq(Event)] /\ BoxesOK(content) /\ mailbox[q] \in Mailbox
        BY <1>0, <1>3 DEF StateType, Placed
      <3>2. \A n \in BoxIds(content) : n < ev.id
        BY <1>2, <1>4
      <3>3. PICK f, g, m : f = content /\ g = content' /\ m = mailbox[q]
        OBVIOUS
      <3>4. BoxesOK(g) /\ \A n : n \in BoxIds(g) <=> (n \in BoxIds(f) \/ n = ev.id)
        <4>1. f \in [Mailbox -> Seq(Event)] /\ m \in Mailbox /\ BoxesOK(f)
          BY <3>1, <3>3
        <4>2. PutIn(f, g, m, ev) /\ \A n \in BoxIds(f) : n < ev.id
          BY <2>1, <3>2, <3>3 DEF PutIn
        <4> QED
          BY <4>1, <4>2, IdsPut
      <3> QED
        BY <1>2, <3>3, <3>4
    <2>3. Taken' = Taken /\ Receiving' = Receiving
      BY <2>1 DEF Taken, Receiving
    <2>4. Apart(BoxIds(content'), Taken, GotIds(returned), givenUp)
      BY <1>4, <2>2 DEF Placed, Apart
    <2>5. \A n \in Nat : n < sent' <=> \/ n \in BoxIds(content') \/ n \in Taken
                                       \/ n \in GotIds(returned) \/ n \in givenUp
      BY <1>5, <2>2 DEF Placed
    <2> QED
      BY <1>3, <2>1, <2>2, <2>3, <2>4, <2>5 DEF Placed
  <1> QED
    BY <1>2, <1>6, <1>7

\* PtlEQGet moves an event from its mailbox to the application,
LEMMA GetPlaced ==
  ASSUME QueueInv, QueueInv', Placed, NEW q \in Eq, Get(q)
  PROVE  Placed'
  <1>0. StateType /\ Called
    BY DEF QueueInv
  <1>1. /\ mailbox[q] \in Mailbox /\ content[mailbox[q]] # <<>>
        /\ returned' = Append(returned, Result(Head(content[mailbox[q]]), q))
        /\ content' = [content EXCEPT ![mailbox[q]] = Tail(@)]
        /\ UNCHANGED <<sent, comms, givenUp>>
    BY GetInv
  <1>2. PICK ev \in Event : ev = Head(content[mailbox[q]])
    BY <1>0, <1>1, BoxGet DEF StateType
  <1>3. PICK e \in Receipt : e = Result(ev, q) /\ e.id = ev.id
    BY <1>0, ReceiptType DEF Result
  <1>4. /\ BoxesOK(content') /\ ev.id \in BoxIds(content)
        /\ \A n : n \in BoxIds(content') <=> (n \in BoxIds(content) /\ n # ev.id)
    <2>1. content \in [Mailbox -> Seq(Event)] /\ BoxesOK(content)
      BY <1>0 DEF StateType, Placed
    <2>2. PICK f, g, m : f = content /\ g = content' /\ m = mailbox[q]
      OBVIOUS
    <2>3. /\ BoxesOK(g) /\ ev.id \in BoxIds(f)
          /\ \A n : n \in BoxIds(g) <=> (n \in BoxIds(f) /\ n # ev.id)
      <3>1. /\ f \in [Mailbox -> Seq(Event)] /\ m \in Mailbox /\ BoxesOK(f)
            /\ TakenFrom(f, g, m) /\ ev = Head(f[m])
        BY <1>1, <1>2, <2>1, <2>2 DEF TakenFrom
      <3> QED
        BY <3>1, IdsGet
    <2> QED
      BY <2>2, <2>3
  <1>5. ev.id \notin GotIds(returned) /\ ev.id \notin givenUp /\ ev.id \notin Taken
    BY <1>4 DEF Placed, Apart
  <1>6. /\ GotDiffer(returned')
        /\ \A n : n \in GotIds(returned') <=> (n \in GotIds(returned) \/ n = ev.id)
    <2>1. returned' = Append(returned, e) /\ returned \in Seq(Receipt)
      BY <1>0, <1>1, <1>2, <1>3 DEF StateType
    <2> QED
      BY <1>3, <1>5, <2>1, IdsReturned DEF Placed
  <1>7. Taken' = Taken /\ Receiving' = Receiving
    BY <1>1 DEF Taken, Receiving
  <1>8. Apart(BoxIds(content'), Taken, GotIds(returned'), givenUp)
    BY <1>4, <1>5, <1>6 DEF Placed, Apart
  <1>9. \A n \in Nat : n < sent <=> \/ n \in BoxIds(content') \/ n \in Taken
                                    \/ n \in GotIds(returned') \/ n \in givenUp
    BY <1>4, <1>6 DEF Placed
  <1> QED
    BY <1>1, <1>4, <1>6, <1>7, <1>8, <1>9 DEF Placed

\* a receive that starts moves one from its mailbox,
LEMMA StartsPlaced ==
  ASSUME QueueInv, QueueInv', Placed, NEW q \in Eq, Starts(q)
  PROVE  Placed'
  <1>0. StateType /\ Called /\ StateType'
    BY DEF QueueInv
  <1>1. /\ q \notin DOMAIN comms /\ mailbox[q] \in Mailbox /\ Receive(q)
        /\ UNCHANGED <<sent, returned, givenUp>>
    BY DEF Starts, Queue
  <1>4. CASE ReceivePosts(q)
    <2>1. PICK c : c = [state |-> "posted"]
      OBVIOUS
    <2>2. Adds(q, c) /\ UNCHANGED content /\ c.state = "posted" /\ c \in Comm
      BY <1>4, <2>1 DEF ReceivePosts, Comm
    <2>3. /\ DOMAIN comms' = DOMAIN comms \cup {q} /\ comms'[q] = c
          /\ \A p \in DOMAIN comms : p # q /\ comms'[p] = comms[p]
      BY <1>0, <1>1, <2>2, AddsParts
    <2>4. Receiving' = Receiving /\ \A p \in Receiving : comms'[p].ev = comms[p].ev
      BY <2>2, <2>3 DEF Receiving
    <2> QED
      BY <1>0, <1>1, <2>2, <2>4, PlacedStutter
  <1>5. ASSUME NEW ev \in Event, ReceiveTakes(q, ev) PROVE Placed'
    <2>1. PICK s \in {"flying", "done"} : Adds(q, [state |-> s, ev |-> ev])
      BY <1>5 DEF ReceiveTakes
    <2>2. PICK c : c = [state |-> s, ev |-> ev]
      OBVIOUS
    <2>3. c \in Comm /\ c.state # "posted" /\ c.ev = ev
      BY <2>2 DEF Comm
    <2>4. /\ DOMAIN comms' = DOMAIN comms \cup {q} /\ comms'[q] = c
          /\ \A p \in DOMAIN comms : p # q /\ comms'[p] = comms[p]
      BY <1>0, <1>1, <2>1, <2>2, <2>3, AddsParts
    <2>5. /\ \A p : p \in Receiving' <=> (p \in Receiving \/ p = q)
          /\ comms'[q].ev = ev /\ \A p \in Receiving : p # q /\ comms'[p].ev = comms[p].ev
      BY <2>3, <2>4 DEF Receiving
    <2>6. \A n : n \in Taken' <=> (n \in Taken \/ n = ev.id)
      BY <2>5, TakenIds
    <2>7. /\ content[mailbox[q]] # <<>> /\ ev = Head(content[mailbox[q]])
          /\ content' = [content EXCEPT ![mailbox[q]] = Tail(@)]
      BY <1>5 DEF ReceiveTakes
    <2>8. /\ BoxesOK(content') /\ ev.id \in BoxIds(content)
          /\ \A n : n \in BoxIds(content') <=> (n \in BoxIds(content) /\ n # ev.id)
      <3>1. content \in [Mailbox -> Seq(Event)] /\ BoxesOK(content)
        BY <1>0 DEF StateType, Placed
      <3>2. PICK f, g, m : f = content /\ g = content' /\ m = mailbox[q]
        OBVIOUS
      <3>3. /\ BoxesOK(g) /\ ev.id \in BoxIds(f)
            /\ \A n : n \in BoxIds(g) <=> (n \in BoxIds(f) /\ n # ev.id)
        <4>1. /\ f \in [Mailbox -> Seq(Event)] /\ m \in Mailbox /\ BoxesOK(f)
              /\ TakenFrom(f, g, m) /\ ev = Head(f[m])
          BY <1>1, <2>7, <3>1, <3>2 DEF TakenFrom
        <4> QED
          BY <4>1, IdsGet
      <3> QED
        BY <3>2, <3>3
    <2>9. ev.id \notin Taken /\ ev.id \notin GotIds(returned) /\ ev.id \notin givenUp
      BY <2>8 DEF Placed, Apart
    <2>10. Apart(BoxIds(content'), Taken', GotIds(returned), givenUp)
      BY <2>6, <2>8, <2>9 DEF Placed, Apart
    <2>11. \A n \in Nat : n < sent <=> \/ n \in BoxIds(content') \/ n \in Taken'
                                       \/ n \in GotIds(returned) \/ n \in givenUp
      BY <2>6, <2>8 DEF Placed
    <2>12. ASSUME NEW p \in Receiving', NEW r \in Receiving', comms'[p].ev.id = comms'[r].ev.id
           PROVE  p = r
      <3>1. \A x \in Receiving : comms[x].ev.id # ev.id
        BY <2>9, TakenIds
      <3>2. \A x, y \in Receiving : comms[x].ev.id = comms[y].ev.id => x = y
        BY DEF Placed
      <3> QED
        BY <2>5, <2>12, <3>1, <3>2
    <2> QED
      BY <1>1, <2>8, <2>10, <2>11, <2>12 DEF Placed
  <1> QED
    BY <1>0, <1>1, <1>4, <1>5, ReceiveCases

\* a call that ends returns one and gives the others up,
LEMMA CallEndPlaced ==
  ASSUME QueueInv, QueueInv', Placed, NEW q \in Eq, CallEnd(q)
  PROVE  Placed'
  <1>0. StateType
    BY DEF QueueInv
  <1>1. Receiving' = {} /\ UNCHANGED <<sent, content>>
    BY CallEndInv
  <1>2. PICK p \in Receiving : /\ returned' = Append(returned, Result(comms[p].ev, q))
                               /\ givenUp' = givenUp \cup (Taken \ {comms[p].ev.id})
    BY CallEndInv
  <1>3. PICK ev \in Event : ev = comms[p].ev
    BY <1>0, ReceivingParts
  <1>4. PICK e \in Receipt : e = Result(ev, q) /\ e.id = ev.id
    BY <1>0, ReceiptType DEF Result
  <1>5. ev.id \in Taken
    BY <1>0, <1>3, TakenIds
  <1>6. ev.id \notin BoxIds(content) /\ ev.id \notin GotIds(returned) /\ ev.id \notin givenUp
    BY <1>5 DEF Placed, Apart
  <1>7. /\ GotDiffer(returned')
        /\ \A n : n \in GotIds(returned') <=> (n \in GotIds(returned) \/ n = ev.id)
    <2>1. returned' = Append(returned, e) /\ returned \in Seq(Receipt)
      BY <1>0, <1>2, <1>3, <1>4 DEF StateType
    <2> QED
      BY <1>4, <1>6, <2>1, IdsReturned DEF Placed
  <1>8. Taken' = {}
    BY <1>1 DEF Taken, Receiving
  <1>9. \A n : n \in givenUp' <=> n \in givenUp \/ (n \in Taken /\ n # ev.id)
    BY <1>2, <1>3
  <1>10. Apart(BoxIds(content), {}, GotIds(returned'), givenUp')
    BY <1>5, <1>6, <1>7, <1>9 DEF Placed, Apart
  <1>11. \A n \in Nat : n < sent <=> \/ n \in BoxIds(content) \/ n \in {}
                                     \/ n \in GotIds(returned') \/ n \in givenUp'
    BY <1>5, <1>7, <1>9 DEF Placed
  <1> QED
    BY <1>1, <1>7, <1>8, <1>10, <1>11 DEF Placed

\* and a poll that times out gives all of its own up.
LEMMA TimeoutPlaced ==
  ASSUME QueueInv, QueueInv', Placed, PollTimeout
  PROVE  Placed'
  <1>1. /\ Receiving' = {} /\ UNCHANGED <<sent, content, returned>>
        /\ givenUp' = givenUp \cup Taken
    BY TimeoutInv
  <1>2. Taken' = {}
    BY <1>1 DEF Taken, Receiving
  <1>3. Apart(BoxIds(content), {}, GotIds(returned), givenUp')
    BY <1>1 DEF Placed, Apart
  <1>4. \A n \in Nat : n < sent <=> \/ n \in BoxIds(content) \/ n \in {}
                                    \/ n \in GotIds(returned) \/ n \in givenUp'
    BY <1>1 DEF Placed
  <1> QED
    BY <1>1, <1>2, <1>3, <1>4 DEF Placed

\* Every step keeps each event in one place.
LEMMA NextPlaced ==
  ASSUME QueueInv, Placed, [Next]_vars
  PROVE  Placed'
  <1>0. QueueInv' /\ StateType /\ StateType' /\ Called
    BY NextQueue DEF QueueInv
  <1>1. ASSUME UNCHANGED <<sent, content, comms, returned, givenUp>> PROVE Placed'
    BY <1>0, <1>1, PlacedStutter DEF Receiving
  <1>2. ASSUME NEW q \in Eq, EQAlloc(q) \/ EQFree(q) PROVE Placed'
    BY <1>1, <1>2 DEF EQAlloc, EQFree, appVars
  <1>3. ASSUME NEW q \in Eq, ArriveComm(q) PROVE Placed'
    BY <1>0, <1>3, ArriveCommInv, PlacedStutter
  <1>4. ASSUME NEW i \in Issuer, NEW q \in Eq, IssueEvent(i, q) PROVE Placed'
    BY <1>1, <1>4 DEF IssueEvent, appVars
  <1>5. ASSUME NEW m \in Mailbox, Arrive(m) PROVE Placed'
    <2>1. Same(content, content') /\ UNCHANGED <<sent, comms, returned, givenUp>>
      BY <1>5, ArriveInv DEF appVars
    <2>2. BoxesOK(content') /\ BoxIds(content') = BoxIds(content)
      BY <2>1, IdsSame DEF Placed
    <2>3. Receiving' = Receiving /\ Taken' = Taken
      BY <2>1 DEF Receiving, Taken
    <2> QED
      BY <2>1, <2>2, <2>3 DEF Placed
  <1>6. ASSUME NEW qs \in Polls, PollStarts(qs) PROVE Placed'
    BY <1>1, <1>6 DEF PollStarts, Queue
  <1>7. ASSUME NEW qs \in Polls, Poll(qs) PROVE Placed'
    BY <1>0, <1>6, <1>7, PollCases, WaitStarts, StartsPlaced
  <1>8. ASSUME UNCHANGED vars PROVE Placed'
    BY <1>1, <1>8 DEF vars, appVars
  <1>9. ASSUME NEW q \in Eq, Get(q) \/ Wait(q) \/ CallEnd(q) PROVE Placed'
    BY <1>0, <1>9, GetPlaced, WaitStarts, StartsPlaced, CallEndPlaced
  <1>10. ASSUME NEW i \in Issuer, PutEvent(i) PROVE Placed'
    BY <1>0, <1>10, PutPlaced
  <1>11. ASSUME PollTimeout PROVE Placed'
    BY <1>0, <1>11, TimeoutPlaced
  <1>12. ASSUME PollPost PROVE Placed'
    BY <1>0, <1>12, PostStarts, StartsPlaced
  <1> QED
    BY <1>2, <1>3, <1>4, <1>5, <1>7, <1>8, <1>9, <1>10, <1>11, <1>12 DEF Next

-----------------------------------------------------------------------------
(***************************************************************************)
(* The events put, with those about to be, are within the bound.           *)
(***************************************************************************)
Issuing == {i \in Issuer : issuing[i] # None}
Budget  == IsFiniteSet(Issuing) /\ sent + Cardinality(Issuing) <= MaxEvents

\* A put uses what its issuer reserved.
LEMMA NextBudget ==
  ASSUME QueueInv, Budget, [Next]_vars
  PROVE  Budget'
  <1>0. /\ issuing \in [Issuer -> Eq \cup {None}] /\ sent \in Nat
        /\ IsFiniteSet(Issuing) /\ sent + Cardinality(Issuing) <= MaxEvents
    BY DEF QueueInv, StateType, Budget
  <1>1. Cardinality(Issuing) \in Nat
    BY <1>0, FS_CardinalityType
  <1>2. ASSUME UNCHANGED <<issuing, sent>> PROVE Budget'
    BY <1>0, <1>2 DEF Budget, Issuing
  <1>3. ASSUME NEW i \in Issuer, NEW q \in Eq, IssueEvent(i, q) PROVE Budget'
    <2>1. /\ issuing' = [issuing EXCEPT ![i] = q] /\ i \notin Issuing /\ UNCHANGED sent
          /\ sent + Cardinality(Issuing) < MaxEvents
      BY <1>3 DEF IssueEvent, Issuing
    <2>2. Issuing' = Issuing \cup {i}
      BY <1>0, <2>1 DEF Issuing
    <2>3. IsFiniteSet(Issuing \cup {i}) /\ Cardinality(Issuing \cup {i}) = Cardinality(Issuing) + 1
      BY <1>0, <2>1, FS_AddElement
    <2> QED
      BY <1>0, <1>1, <2>1, <2>2, <2>3 DEF Budget
  <1>4. ASSUME NEW i \in Issuer, PutEvent(i) PROVE Budget'
    <2>1. issuing' = [issuing EXCEPT ![i] = None] /\ i \in Issuing /\ sent' = sent + 1
      BY <1>4 DEF PutEvent, Issuing
    <2>2. Issuing' = Issuing \ {i}
      BY <1>0, <2>1 DEF Issuing
    <2>3. IsFiniteSet(Issuing \ {i}) /\ Cardinality(Issuing \ {i}) = Cardinality(Issuing) - 1
      BY <1>0, <2>1, FS_RemoveElement
    <2> QED
      BY <1>0, <1>1, <2>1, <2>2, <2>3 DEF Budget
  <1>5. ASSUME NEW q \in Eq, \/ EQAlloc(q) \/ EQFree(q) \/ ArriveComm(q)
                             \/ Get(q) \/ Wait(q) \/ CallEnd(q)
        PROVE  UNCHANGED <<issuing, sent>>
    BY <1>5 DEF EQAlloc, EQFree, ArriveComm, Get, Wait, CallEnd, Return
  <1>6. ASSUME NEW qs \in Polls, Poll(qs) PROVE UNCHANGED <<issuing, sent>>
    BY <1>6 DEF Poll
  <1>7. PollPost \/ PollTimeout => UNCHANGED <<issuing, sent>>
    BY DEF PollPost, PollTimeout, Return
  <1>8. ASSUME NEW m \in Mailbox, Arrive(m) PROVE UNCHANGED <<issuing, sent>>
    BY <1>8 DEF Arrive
  <1>9. UNCHANGED vars => UNCHANGED <<issuing, sent>>
    BY DEF vars
  <1> QED
    BY <1>2, <1>3, <1>4, <1>5, <1>6, <1>7, <1>8, <1>9 DEF Next

-----------------------------------------------------------------------------
(***************************************************************************)
(* Initially there is no event, and no call.                               *)
(***************************************************************************)
LEMMA InitQueue ==
  ASSUME Init
  PROVE  QueueInv /\ Placed /\ Budget
  <1>1. /\ mailbox = [q \in Eq |-> None] /\ pool = <<>> /\ issuing = [i \in Issuer |-> None]
        /\ sent = 0 /\ content = [m \in Mailbox |-> <<>>] /\ call = NoCall /\ comms = NoComms
        /\ first = None /\ returned = <<>> /\ givenUp = {}
    BY DEF Init
  <1>2. DOMAIN comms = {} /\ comms \in [DOMAIN comms -> Comm] /\ Receiving = {} /\ Taken = {}
    BY <1>1 DEF NoComms, Receiving, Taken
  <1>3. StateType
    BY <1>1, <1>2 DEF StateType, NoCall
  <1>4. Pooled
    BY <1>1 DEF Pooled, Live
  <1>5. Called
    BY <1>1, <1>2, NoQueues DEF Called, NoCall
  <1>6. \A m \in Mailbox : Len(content[m]) = 0
    BY <1>1
  <1>7. BoxesOK(content) /\ BoxIds(content) = {}
    BY <1>6 DEF BoxesOK, BoxesDiffer, BoxesShallow, BoxIds
  <1>8. GotDiffer(returned) /\ GotIds(returned) = {}
    BY <1>1 DEF GotDiffer, GotIds
  <1>9. Placed
    BY <1>1, <1>2, <1>7, <1>8 DEF Placed, Apart
  <1>10. Issuing = {}
    BY <1>1 DEF Issuing
  <1>11. Budget
    BY <1>1, <1>10, FS_EmptySet DEF Budget
  <1> QED
    BY <1>3, <1>4, <1>5, <1>9, <1>11 DEF QueueInv

-----------------------------------------------------------------------------
\* A set of which no two elements differ.
LEMMA AtMostOne ==
  ASSUME NEW S, \A x, y \in S : x = y
  PROVE  /\ S = {} => Cardinality(S) = 0
         /\ S # {} => Cardinality(S) = 1
  <1>1. S = {} => Cardinality(S) = 0
    BY FS_EmptySet
  <1>2. ASSUME S # {} PROVE Cardinality(S) = 1
    <2>1. PICK x : x \in S
      BY <1>2
    <2>2. S = {x}
      BY <2>1
    <2> QED
      BY <2>2, FS_Singleton
  <1> QED
    BY <1>1, <1>2

\* An identity that was used is counted once.
LEMMA HeldOnce ==
  ASSUME QueueInv, Placed, Budget, NEW n \in 0 .. sent - 1
  PROVE  Held(n) + (IF n \in givenUp THEN 1 ELSE 0) = 1
  <1> DEFINE B == {x \in Mailbox \X (1 .. MaxEvents) :
                     x[2] \in DOMAIN content[x[1]] /\ content[x[1]][x[2]].id = n}
             C == {q \in DOMAIN comms : comms[q].state # "posted" /\ comms[q].ev.id = n}
             R == {k \in DOMAIN returned : returned[k].id = n}
  <1>0. /\ StateType /\ content \in [Mailbox -> Seq(Event)] /\ returned \in Seq(Receipt)
        /\ sent \in Nat /\ n \in Nat /\ n < sent
    BY DEF QueueInv, StateType
  <1>1. n < MaxEvents
    <2>1. Cardinality(Issuing) \in Nat /\ sent + Cardinality(Issuing) <= MaxEvents
      BY FS_CardinalityType DEF Budget
    <2> QED
      BY <1>0, <2>1
  <1>2. /\ \A m \in Mailbox : DOMAIN content[m] = 1 .. Len(content[m]) /\ Len(content[m]) \in Nat
        /\ DOMAIN returned = 1 .. Len(returned)
    BY <1>0
  <1>3. /\ \A x, y \in B : x = y
        /\ B # {} <=> n \in BoxIds(content)
    <2>1. ASSUME NEW x \in B, NEW y \in B PROVE x = y
      <3>1. /\ x \in Mailbox \X (1 .. MaxEvents) /\ x[1] \in Mailbox /\ x[2] \in 1 .. Len(content[x[1]])
            /\ content[x[1]][x[2]].id = n
        BY <1>2
      <3>2. /\ y \in Mailbox \X (1 .. MaxEvents) /\ y[1] \in Mailbox /\ y[2] \in 1 .. Len(content[y[1]])
            /\ content[y[1]][y[2]].id = n
        BY <1>2
      <3>3. x[1] = y[1] /\ x[2] = y[2]
        BY <3>1, <3>2 DEF Placed, BoxesOK, BoxesDiffer
      <3> QED
        BY <3>1, <3>2, <3>3
    <2>2. ASSUME NEW x \in B PROVE n \in BoxIds(content)
      <3>1. /\ x[1] \in Mailbox /\ x[2] \in 1 .. Len(content[x[1]])
            /\ content[x[1]][x[2]].id = n
        BY <1>2
      <3> QED
        BY <1>0, <3>1 DEF BoxIds
    <2>3. ASSUME n \in BoxIds(content) PROVE B # {}
      <3>1. PICK m \in Mailbox : \E k \in 1 .. Len(content[m]) : content[m][k].id = n
        BY <2>3 DEF BoxIds
      <3>2. PICK k \in 1 .. Len(content[m]) : content[m][k].id = n
        BY <3>1
      <3>3. n >= k - 1
        BY <3>2 DEF Placed, BoxesOK, BoxesShallow
      <3>4. k \in 1 .. MaxEvents
        BY <1>0, <1>1, <1>2, <3>3
      <3>5. PICK x : x = <<m, k>>
        OBVIOUS
      <3>6. x \in Mailbox \X (1 .. MaxEvents) /\ x[1] = m /\ x[2] = k
        BY <3>4, <3>5
      <3>7. x \in B
        BY <1>2, <3>2, <3>6
      <3> QED
        BY <3>7
    <2> QED
      BY <2>1, <2>2, <2>3
  <1>4. /\ \A x, y \in C : x = y
        /\ C # {} <=> n \in Taken
    BY TakenIds DEF Placed, Receiving
  <1>5. /\ \A x, y \in R : x = y
        /\ R # {} <=> n \in GotIds(returned)
    BY <1>0, <1>2 DEF Placed, GotDiffer, GotIds
  <1>6. Held(n) = Cardinality(B) + Cardinality(C) + Cardinality(R)
    BY DEF Held
  <1> HIDE DEF B, C, R
  <1>7. /\ Cardinality(B) = IF n \in BoxIds(content) THEN 1 ELSE 0
        /\ Cardinality(C) = IF n \in Taken THEN 1 ELSE 0
        /\ Cardinality(R) = IF n \in GotIds(returned) THEN 1 ELSE 0
    <2>1. Cardinality(B) = IF n \in BoxIds(content) THEN 1 ELSE 0
      BY <1>3, AtMostOne
    <2>2. Cardinality(C) = IF n \in Taken THEN 1 ELSE 0
      BY <1>4, AtMostOne
    <2>3. Cardinality(R) = IF n \in GotIds(returned) THEN 1 ELSE 0
      BY <1>5, AtMostOne
    <2> QED
      BY <2>1, <2>2, <2>3
  <1>8. /\ n \in BoxIds(content) \/ n \in Taken \/ n \in GotIds(returned) \/ n \in givenUp
        /\ n \in BoxIds(content) => n \notin Taken /\ n \notin GotIds(returned) /\ n \notin givenUp
        /\ n \in Taken => n \notin GotIds(returned) /\ n \notin givenUp
        /\ n \in GotIds(returned) => n \notin givenUp
    BY <1>0 DEF Placed, Apart
  <1> QED
    BY <1>6, <1>7, <1>8

\* Queues, calls and events at every moment.
LEMMA QueueInvariant == Spec => [](QueueInv /\ Placed /\ Budget)
  <1>1. Init => QueueInv /\ Placed /\ Budget
    BY InitQueue
  <1>2. QueueInv /\ Placed /\ Budget /\ [Next]_vars => (QueueInv /\ Placed /\ Budget)'
    BY NextQueue, NextPlaced, NextBudget
  <1> QED
    BY <1>1, <1>2, PTL DEF Spec

\* The queues, the pool and the call have their types.
LEMMA QueueTypes ==
  ASSUME QueueInv, Budget
  PROVE  TypeOK
  <1>0. StateType /\ Pooled
    BY DEF QueueInv
  <1>1. sent \in 0 .. MaxEvents
    <2>1. Cardinality(Issuing) \in Nat /\ sent + Cardinality(Issuing) <= MaxEvents
      BY FS_CardinalityType DEF Budget
    <2> QED
      BY <1>0, <2>1 DEF StateType
  <1>2. \A q \in Eq : Live(q) => mailbox[q] \notin ToSet(pool)
    <2>1. pool \in Seq(Mailbox)
      BY <1>0 DEF StateType
    <2>2. ToSet(pool) = {pool[i] : i \in 1 .. Len(pool)}
      BY <2>1 DEF ToSet
    <2> QED
      BY <1>0, <2>2 DEF Pooled
  <1> QED
    BY <1>0, <1>1, <1>2 DEF TypeOK, StateType, Pooled

\* Whatever queues are freed and reused, and however calls race with events
\* that travel: every event that issue_event put is in a mailbox, with a
\* receive, returned, or given up by a poll that BxiEQ::poll cancels, and in
\* one of these places only.
THEOREM NoEventLost == Spec => []EventsAreSomewhere
  <1>1. QueueInv /\ Placed /\ Budget => EventsAreSomewhere
    BY QueueTypes, HeldOnce DEF EventsAreSomewhere
  <1> QED
    BY <1>1, QueueInvariant, PTL

-----------------------------------------------------------------------------
(***************************************************************************)
(* Events keep their order, and reach their own queue if the application   *)
(* frees no queue that events are still sent to.                           *)
(***************************************************************************)
\* Events are put in the mailbox of their queue, and received by that queue.
OwnIssuing  == \A i \in Issuer : issuing[i] # None => mailbox[issuing[i]] \in Mailbox
OwnBoxes    == \A m \in Mailbox : \A k \in 1 .. Len(content[m]) : mailbox[content[m][k].eq] = m
OwnReceives == \A q \in Receiving : comms[q].ev.eq = q
OwnReturned == \A k \in 1 .. Len(returned) : returned[k].eq \in returned[k].asked

Owned == OwnIssuing /\ OwnBoxes /\ OwnReceives /\ OwnReturned

\* Of the events of a queue, those returned are older than the one that a
\* receive has, and that one is older than those in the mailbox.
Sorted == \A m \in Mailbox : \A k, l \in 1 .. Len(content[m]) :
            k < l => content[m][k].id < content[m][l].id
ReceivedFirst == \A q \in Receiving : \A k \in 1 .. Len(content[mailbox[q]]) :
                   comms[q].ev.id < content[mailbox[q]][k].id
GotFirst == \A i \in 1 .. Len(returned) : \A m \in Mailbox : \A k \in 1 .. Len(content[m]) :
              returned[i].eq = content[m][k].eq => returned[i].id < content[m][k].id
GotBefore == \A i \in 1 .. Len(returned) : \A q \in Receiving :
               returned[i].eq = comms[q].ev.eq => returned[i].id < comms[q].ev.id
GotSorted == \A i, j \in 1 .. Len(returned) :
               i < j /\ returned[i].eq = returned[j].eq => returned[i].id < returned[j].id

Ordered == Sorted /\ ReceivedFirst /\ GotFirst /\ GotBefore /\ GotSorted

\* The identities used so far are below sent.
LEMMA UsedIds ==
  ASSUME QueueInv, Placed
  PROVE  /\ sent \in Nat
         /\ \A m \in Mailbox : \A k \in 1 .. Len(content[m]) :
              content[m][k].id \in Nat /\ content[m][k].id < sent /\ content[m][k].eq \in Eq
         /\ \A q \in Receiving : comms[q].ev.id \in Nat /\ comms[q].ev.id < sent
         /\ \A i \in 1 .. Len(returned) :
              returned[i].id \in Nat /\ returned[i].id < sent /\ returned[i].eq \in Eq
  <1>0. /\ StateType /\ content \in [Mailbox -> Seq(Event)] /\ returned \in Seq(Receipt) /\ sent \in Nat
        /\ \A n \in Nat : \/ n \in BoxIds(content) \/ n \in Taken \/ n \in GotIds(returned) => n < sent
    BY DEF QueueInv, StateType, Placed
  <1>1. ASSUME NEW m \in Mailbox, NEW k \in 1 .. Len(content[m])
        PROVE  content[m][k].id \in Nat /\ content[m][k].id < sent /\ content[m][k].eq \in Eq
    <2>1. content[m][k] \in Event
      BY <1>0
    <2>2. content[m][k].id \in Nat /\ content[m][k].eq \in Eq
      BY <2>1, EventParts
    <2>3. content[m][k].id \in BoxIds(content)
      BY <2>2 DEF BoxIds
    <2> QED
      BY <1>0, <2>2, <2>3
  <1>2. ASSUME NEW q \in Receiving PROVE comms[q].ev.id \in Nat /\ comms[q].ev.id < sent
    <2>1. comms[q].ev.id \in Nat
      BY <1>0, ReceivingParts, EventParts
    <2>2. comms[q].ev.id \in Taken
      BY TakenIds
    <2> QED
      BY <1>0, <2>1, <2>2
  <1>3. ASSUME NEW i \in 1 .. Len(returned)
        PROVE  returned[i].id \in Nat /\ returned[i].id < sent /\ returned[i].eq \in Eq
    <2>1. returned[i] \in Receipt
      BY <1>0
    <2>2. returned[i].id \in Nat /\ returned[i].eq \in Eq
      BY <2>1 DEF Receipt
    <2>3. returned[i].id \in GotIds(returned)
      BY <2>2 DEF GotIds
    <2> QED
      BY <1>0, <2>2, <2>3
  <1> QED
    BY <1>0, <1>1, <1>2, <1>3

\* Steps that move no event, and leave queues with events their mailbox.
LEMMA OrderStutter ==
  ASSUME Owned, Ordered, UNCHANGED <<content, returned>>,
         Receiving' = Receiving, \A p \in Receiving : comms'[p].ev = comms[p].ev,
         \A p \in Receiving : mailbox'[p] = mailbox[p],
         \A m \in Mailbox : \A k \in 1 .. Len(content[m]) :
           mailbox'[content[m][k].eq] = mailbox[content[m][k].eq],
         OwnIssuing'
  PROVE  Owned' /\ Ordered'
  <1>1. OwnBoxes'
    BY DEF Owned, OwnBoxes
  <1>2. OwnReceives' /\ OwnReturned'
    BY DEF Owned, OwnReceives, OwnReturned
  <1>3. Sorted' /\ GotFirst' /\ GotSorted'
    BY DEF Ordered, Sorted, GotFirst, GotSorted
  <1>4. ReceivedFirst'
    BY DEF Ordered, ReceivedFirst
  <1>5. GotBefore'
    BY DEF Ordered, GotBefore
  <1> QED
    BY <1>1, <1>2, <1>3, <1>4, <1>5 DEF Owned, Ordered

\* A queue gets a mailbox.
LEMMA AllocOrder ==
  ASSUME QueueInv, Owned, Ordered, NEW q \in Eq, EQAlloc(q)
  PROVE  Owned' /\ Ordered'
  <1>0. StateType /\ Called /\ mailbox \in [Eq -> Mailbox \cup {None, "freed"}]
    BY DEF QueueInv, StateType
  <1>1. /\ Idle /\ mailbox[q] = None /\ UNCHANGED <<issuing, content, comms, returned>>
    BY DEF EQAlloc, appVars
  <1>2. PICK m : mailbox' = [mailbox EXCEPT ![q] = m]
    BY DEF EQAlloc
  <1>3. \A p : p # q /\ p \in Eq => mailbox'[p] = mailbox[p]
    BY <1>0, <1>2
  <1>4. Receiving = {} /\ Receiving' = {}
    BY <1>0, <1>1 DEF Called, Receiving, NoComms
  <1>5. OwnIssuing'
    <2> SUFFICES ASSUME NEW i \in Issuer, issuing[i] # None PROVE mailbox'[issuing[i]] \in Mailbox
      BY <1>1 DEF OwnIssuing
    <2>1. mailbox[issuing[i]] \in Mailbox /\ issuing[i] \in Eq
      BY <1>0 DEF Owned, OwnIssuing, StateType
    <2> QED
      BY <1>1, <1>3, <2>1
  <1>6. ASSUME NEW x \in Mailbox, NEW k \in 1 .. Len(content[x])
        PROVE  mailbox'[content[x][k].eq] = mailbox[content[x][k].eq]
    <2>1. content[x][k].eq \in Eq
      <3>1. content[x][k] \in Event
        BY <1>0 DEF StateType
      <3> QED
        BY <3>1, EventParts
    <2>2. mailbox[content[x][k].eq] = x
      BY DEF Owned, OwnBoxes
    <2> QED
      BY <1>1, <1>3, <2>1, <2>2
  <1> QED
    BY <1>1, <1>4, <1>5, <1>6, OrderStutter

\* A queue that nothing is sent to gives its mailbox back.
LEMMA FreeOrder ==
  ASSUME DrainedFrees, QueueInv, Owned, Ordered, NEW q \in Eq, EQFree(q)
  PROVE  Owned' /\ Ordered'
  <1>0. StateType /\ Called /\ mailbox \in [Eq -> Mailbox \cup {None, "freed"}]
    BY DEF QueueInv, StateType
  <1>1. /\ Idle /\ UNCHANGED <<issuing, content, comms, returned>>
        /\ mailbox' = [mailbox EXCEPT ![q] = "freed"]
        /\ content[mailbox[q]] = <<>> /\ \A i \in Issuer : issuing[i] # q
    BY DEF EQFree, appVars
  <1>3. \A p : p # q /\ p \in Eq => mailbox'[p] = mailbox[p]
    BY <1>0, <1>1
  <1>4. Receiving = {} /\ Receiving' = {}
    BY <1>0, <1>1 DEF Called, Receiving, NoComms
  <1>5. OwnIssuing'
    <2> SUFFICES ASSUME NEW i \in Issuer, issuing[i] # None PROVE mailbox'[issuing[i]] \in Mailbox
      BY <1>1 DEF OwnIssuing
    <2>1. mailbox[issuing[i]] \in Mailbox /\ issuing[i] \in Eq
      BY <1>0 DEF Owned, OwnIssuing, StateType
    <2> QED
      BY <1>1, <1>3, <2>1
  <1>6. ASSUME NEW x \in Mailbox, NEW k \in 1 .. Len(content[x])
        PROVE  mailbox'[content[x][k].eq] = mailbox[content[x][k].eq]
    <2>1. content[x][k].eq \in Eq
      <3>1. content[x][k] \in Event
        BY <1>0 DEF StateType
      <3> QED
        BY <3>1, EventParts
    <2>2. mailbox[content[x][k].eq] = x
      BY DEF Owned, OwnBoxes
    <2>3. Len(content[mailbox[q]]) = 0
      BY <1>1
    <2>4. content[x][k].eq # q
      BY <2>2, <2>3
    <2> QED
      BY <1>3, <2>1, <2>4
  <1> QED
    BY <1>1, <1>4, <1>5, <1>6, OrderStutter

\* An event that is put is younger than every other.
LEMMA PutOrder ==
  ASSUME QueueInv, Placed, Owned, Ordered, NEW i \in Issuer, PutEvent(i)
  PROVE  Owned' /\ Ordered'
  <1>0. StateType /\ Pooled /\ Called
    BY DEF QueueInv
  <1>1. PICK q \in Eq : \E ev \in Event :
           /\ issuing[i] = q /\ mailbox[q] \in Mailbox /\ ev.id = sent /\ ev.eq = q
           /\ sent' = sent + 1 /\ issuing' = [issuing EXCEPT ![i] = None]
           /\ UNCHANGED <<mailbox, pool, call, first, evPtr, returned, givenUp>>
           /\ PutTaken(q, ev) \/ PutQueued(q, ev)
    BY <1>0, PutCases
  <1>2. PICK ev \in Event : ev.id = sent /\ ev.eq = q /\ (PutTaken(q, ev) \/ PutQueued(q, ev))
    BY <1>1
  <1>3. /\ mailbox[q] \in Mailbox /\ issuing' = [issuing EXCEPT ![i] = None]
        /\ UNCHANGED <<mailbox, returned>>
    BY <1>1
  <1>4. /\ sent \in Nat
        /\ \A m \in Mailbox : \A k \in 1 .. Len(content[m]) : content[m][k].id < sent
        /\ \A p \in Receiving : comms[p].ev.id < sent
        /\ \A k \in 1 .. Len(returned) : returned[k].id < sent
    BY UsedIds
  <1>5. OwnIssuing'
    BY <1>0, <1>3 DEF Owned, OwnIssuing, StateType
  <1>6. OwnReturned' /\ GotSorted'
    BY <1>3 DEF Owned, OwnReturned, Ordered, GotSorted
  <1>7. CASE PutTaken(q, ev)
    <2>1. PICK c : c = [state |-> "flying", ev |-> ev]
      OBVIOUS
    <2>2. /\ q \in DOMAIN comms /\ comms[q].state = "posted" /\ UNCHANGED content
          /\ comms' = [comms EXCEPT ![q] = c] /\ c.state = "flying" /\ c.ev = ev
      BY <1>7, <2>1 DEF PutTaken
    <2>3. /\ DOMAIN comms' = DOMAIN comms /\ comms'[q] = c
          /\ \A p \in DOMAIN comms : p # q => comms'[p] = comms[p]
      BY <1>0, <2>2 DEF StateType
    <2>4. \A p \in Receiving' : (p \in Receiving /\ comms'[p] = comms[p]) \/ (p = q /\ comms'[p].ev = ev)
      BY <2>2, <2>3 DEF Receiving
    <2>5. Len(content[mailbox[q]]) = 0
      BY <1>0, <2>2 DEF Called
    <2>6. OwnBoxes' /\ Sorted' /\ GotFirst'
      BY <1>3, <2>2 DEF Owned, OwnBoxes, Ordered, Sorted, GotFirst
    <2>7. OwnReceives'
      BY <1>2, <2>4 DEF Owned, OwnReceives
    <2>8. ReceivedFirst'
      BY <1>3, <2>2, <2>4, <2>5 DEF Ordered, ReceivedFirst
    <2>9. GotBefore'
      BY <1>2, <1>3, <1>4, <2>4 DEF Ordered, GotBefore
    <2> QED
      BY <1>5, <1>6, <2>6, <2>7, <2>8, <2>9 DEF Owned, Ordered
  <1>8. CASE PutQueued(q, ev)
    <2>1. content' = [content EXCEPT ![mailbox[q]] = Append(@, ev)] /\ UNCHANGED comms
      BY <1>8 DEF PutQueued
    <2>2. PICK m \in Mailbox : m = mailbox[q]
      BY <1>3
    <2>3. /\ \A x \in Mailbox : x # m => content'[x] = content[x]
          /\ Len(content[m]) \in Nat /\ Len(content'[m]) = Len(content[m]) + 1
          /\ content'[m][Len(content[m]) + 1] = ev
          /\ \A k \in 1 .. Len(content[m]) : content'[m][k] = content[m][k]
      BY <1>0, <2>1, <2>2, BoxPut DEF StateType
    <2>4. ASSUME NEW x \in Mailbox, NEW k \in 1 .. Len(content'[x])
          PROVE  \/ k \in 1 .. Len(content[x]) /\ content'[x][k] = content[x][k]
                 \/ x = m /\ k = Len(content[x]) + 1 /\ content'[x][k] = ev
      <3>1. CASE x # m
        BY <2>3, <2>4, <3>1
      <3>2. CASE x = m
        BY <2>3, <2>4, <3>2
      <3> QED
        BY <3>1, <3>2
    <2>5. Receiving' = Receiving
      BY <2>1 DEF Receiving
    <2>6. OwnBoxes'
      BY <1>2, <1>3, <2>2, <2>4 DEF Owned, OwnBoxes
    <2>7. OwnReceives' /\ GotBefore'
      BY <1>3, <2>1, <2>5 DEF Owned, OwnReceives, Ordered, GotBefore
    <2>8. Sorted'
      <3> SUFFICES ASSUME NEW x \in Mailbox, NEW k \in 1 .. Len(content'[x]),
                          NEW l \in 1 .. Len(content'[x]), k < l
                   PROVE  content'[x][k].id < content'[x][l].id
        BY DEF Sorted
      <3>1. CASE l \in 1 .. Len(content[x]) /\ content'[x][l] = content[x][l]
        <4>1. k \in 1 .. Len(content[x]) /\ content'[x][k] = content[x][k]
          BY <2>3, <2>4, <3>1
        <4> QED
          BY <3>1, <4>1 DEF Ordered, Sorted
      <3>2. CASE x = m /\ l = Len(content[x]) + 1 /\ content'[x][l] = ev
        <4>1. k \in 1 .. Len(content[x])
          BY <2>3, <3>2
        <4>2. content'[x][k] = content[x][k]
          BY <2>3, <3>2, <4>1
        <4> QED
          BY <1>2, <1>4, <3>2, <4>1, <4>2
      <3> QED
        BY <2>4, <3>1, <3>2
    <2>9. ReceivedFirst'
      <3> SUFFICES ASSUME NEW p \in Receiving, NEW k \in 1 .. Len(content'[mailbox[p]])
                   PROVE  comms[p].ev.id < content'[mailbox[p]][k].id
        BY <1>3, <2>1, <2>5 DEF ReceivedFirst
      <3>1. mailbox[p] \in Mailbox
        BY <1>0 DEF Called, Receiving, Live
      <3> QED
        BY <1>2, <1>4, <2>4, <3>1 DEF Ordered, ReceivedFirst
    <2>10. GotFirst'
      <3> SUFFICES ASSUME NEW j \in 1 .. Len(returned), NEW x \in Mailbox, NEW k \in 1 .. Len(content'[x]),
                          returned[j].eq = content'[x][k].eq
                   PROVE  returned[j].id < content'[x][k].id
        BY <1>3 DEF GotFirst
      <3> QED
        BY <1>2, <1>4, <2>4 DEF Ordered, GotFirst
    <2> QED
      BY <1>5, <1>6, <2>6, <2>7, <2>8, <2>9, <2>10 DEF Owned, Ordered
  <1> QED
    BY <1>2, <1>7, <1>8

\* An arrival, in a mailbox or for a receive, changes no order.
LEMMA ArriveOrder ==
  ASSUME QueueInv, Owned, Ordered, NEW m \in Mailbox, Arrive(m)
  PROVE  Owned' /\ Ordered'
  <1>0. StateType /\ Called
    BY DEF QueueInv
  <1>1. Same(content, content') /\ UNCHANGED <<mailbox, issuing, comms, returned>>
    BY ArriveInv DEF eqVars, appVars
  <1>2. \A x \in Mailbox :
          /\ Len(content'[x]) = Len(content[x])
          /\ \A k \in 1 .. Len(content[x]) : /\ content'[x][k].id = content[x][k].id
                                             /\ content'[x][k].eq = content[x][k].eq
    BY <1>1 DEF Same
  <1>3. Receiving' = Receiving /\ \A q \in Receiving : mailbox[q] \in Mailbox
    BY <1>0, <1>1 DEF Receiving, Called, Live
  <1>4. OwnIssuing' /\ OwnReceives' /\ OwnReturned' /\ GotBefore' /\ GotSorted'
    BY <1>1, <1>3 DEF Owned, OwnIssuing, OwnReceives, OwnReturned, Ordered, GotBefore, GotSorted
  <1>5. OwnBoxes' /\ Sorted' /\ GotFirst'
    <2>1. OwnBoxes'
      BY <1>1, <1>2 DEF Owned, OwnBoxes
    <2>2. Sorted'
      BY <1>2 DEF Ordered, Sorted
    <2>3. GotFirst'
      BY <1>1, <1>2 DEF Ordered, GotFirst
    <2> QED
      BY <2>1, <2>2, <2>3
  <1>6. ReceivedFirst'
    BY <1>1, <1>2, <1>3 DEF Ordered, ReceivedFirst
  <1> QED
    BY <1>4, <1>5, <1>6 DEF Owned, Ordered

\* The event that leaves a mailbox is older than those that stay.
LEMMA TookOldest ==
  ASSUME StateType, Sorted, NEW m \in Mailbox, content[m] # <<>>,
         content' = [content EXCEPT ![m] = Tail(@)]
  PROVE  /\ Sorted'
         /\ \A x \in Mailbox : \A k \in 1 .. Len(content'[x]) :
              \E l \in 1 .. Len(content[x]) : content'[x][k] = content[x][l]
         /\ 1 \in 1 .. Len(content[m]) /\ Head(content[m]) = content[m][1] /\ Head(content[m]) \in Event
         /\ \A k \in 1 .. Len(content'[m]) : content[m][1].id < content'[m][k].id
  <1>1. /\ \A x \in Mailbox : x # m => content'[x] = content[x]
        /\ Len(content[m]) \in Nat /\ Len(content'[m]) = Len(content[m]) - 1
        /\ 1 \in 1 .. Len(content[m]) /\ Head(content[m]) = content[m][1] /\ Head(content[m]) \in Event
        /\ \A k \in 1 .. Len(content'[m]) : /\ k + 1 \in 1 .. Len(content[m])
                                            /\ content'[m][k] = content[m][k + 1]
    BY BoxGet DEF StateType
  <1>2. ASSUME NEW x \in Mailbox, NEW k \in 1 .. Len(content'[x])
        PROVE  \E l \in 1 .. Len(content[x]) : content'[x][k] = content[x][l]
    <2>1. CASE x # m
      BY <1>1, <1>2, <2>1
    <2>2. CASE x = m
      BY <1>1, <1>2, <2>2
    <2> QED
      BY <2>1, <2>2
  <1>3. ASSUME NEW k \in 1 .. Len(content'[m]) PROVE content[m][1].id < content'[m][k].id
    <2>1. k + 1 \in 1 .. Len(content[m]) /\ content'[m][k] = content[m][k + 1] /\ 1 < k + 1
      BY <1>1, <1>3
    <2> QED
      BY <1>1, <2>1 DEF Sorted
  <1>4. Sorted'
    <2> SUFFICES ASSUME NEW x \in Mailbox, NEW k \in 1 .. Len(content'[x]),
                        NEW l \in 1 .. Len(content'[x]), k < l
                 PROVE  content'[x][k].id < content'[x][l].id
      BY DEF Sorted
    <2>1. CASE x # m
      BY <1>1, <2>1 DEF Sorted
    <2>2. CASE x = m
      <3>1. /\ k + 1 \in 1 .. Len(content[m]) /\ content'[m][k] = content[m][k + 1]
            /\ l + 1 \in 1 .. Len(content[m]) /\ content'[m][l] = content[m][l + 1]
        BY <1>1, <2>2
      <3>2. k + 1 < l + 1
        BY <1>1, <2>2
      <3> QED
        BY <2>2, <3>1, <3>2 DEF Sorted
    <2> QED
      BY <2>1, <2>2
  <1> QED
    BY <1>1, <1>2, <1>3, <1>4

\* An event that is returned: older ones of its queue were returned before,
\* and those left in mailboxes and receives are younger.
LEMMA ReturnedOrder ==
  ASSUME StateType, Owned, Ordered, NEW e \in Receipt, returned' = Append(returned, e),
         Receiving' = {}, UNCHANGED <<mailbox, issuing>>, Sorted',
         \A x \in Mailbox : \A k \in 1 .. Len(content'[x]) :
           \E l \in 1 .. Len(content[x]) : content'[x][k] = content[x][l],
         e.eq \in e.asked,
         \A i \in 1 .. Len(returned) : returned[i].eq = e.eq => returned[i].id < e.id,
         \A k \in 1 .. Len(content'[mailbox[e.eq]]) : e.id < content'[mailbox[e.eq]][k].id
  PROVE  Owned' /\ Ordered'
  <1>1. /\ Len(returned) \in Nat /\ Len(returned') = Len(returned) + 1
        /\ returned'[Len(returned) + 1] = e
        /\ \A i \in 1 .. Len(returned) : returned'[i] = returned[i]
    BY DEF StateType
  <1>2. \A i \in 1 .. Len(returned') :
          \/ i \in 1 .. Len(returned) /\ returned'[i] = returned[i]
          \/ i = Len(returned) + 1 /\ returned'[i] = e
    BY <1>1
  <1>3. OwnIssuing' /\ OwnReceives' /\ ReceivedFirst' /\ GotBefore'
    BY DEF Owned, OwnIssuing, OwnReceives, ReceivedFirst, GotBefore
  <1>4. OwnReturned'
    BY <1>2 DEF Owned, OwnReturned
  <1>5. OwnBoxes'
    <2> SUFFICES ASSUME NEW x \in Mailbox, NEW k \in 1 .. Len(content'[x])
                 PROVE  mailbox[content'[x][k].eq] = x
      BY DEF OwnBoxes
    <2> QED
      BY DEF Owned, OwnBoxes
  <1>6. GotSorted'
    <2> SUFFICES ASSUME NEW i \in 1 .. Len(returned'), NEW j \in 1 .. Len(returned'), i < j,
                        returned'[i].eq = returned'[j].eq
                 PROVE  returned'[i].id < returned'[j].id
      BY DEF GotSorted
    <2>1. i \in 1 .. Len(returned) /\ returned'[i] = returned[i]
      BY <1>1
    <2>2. CASE j \in 1 .. Len(returned) /\ returned'[j] = returned[j]
      BY <2>1, <2>2 DEF Ordered, GotSorted
    <2>3. CASE returned'[j] = e
      BY <2>1, <2>3
    <2> QED
      BY <1>2, <2>2, <2>3
  <1>7. GotFirst'
    <2> SUFFICES ASSUME NEW i \in 1 .. Len(returned'), NEW x \in Mailbox, NEW k \in 1 .. Len(content'[x]),
                        returned'[i].eq = content'[x][k].eq
                 PROVE  returned'[i].id < content'[x][k].id
      BY DEF GotFirst
    <2>1. CASE i \in 1 .. Len(returned) /\ returned'[i] = returned[i]
      <3>1. PICK l \in 1 .. Len(content[x]) : content'[x][k] = content[x][l]
        OBVIOUS
      <3>2. returned[i].eq = content[x][l].eq
        BY <2>1, <3>1
      <3>3. returned[i].id < content[x][l].id
        BY <2>1, <3>2 DEF Ordered, GotFirst
      <3> QED
        BY <2>1, <3>1, <3>3
    <2>2. CASE returned'[i] = e
      <3>1. x = mailbox[e.eq]
        BY <1>5, <2>2 DEF OwnBoxes
      <3> QED
        BY <2>2, <3>1
    <2> QED
      BY <1>2, <2>1, <2>2
  <1> QED
    BY <1>3, <1>4, <1>5, <1>6, <1>7 DEF Owned, Ordered

\* PtlEQGet returns the oldest event of its queue.
LEMMA GetOrder ==
  ASSUME QueueInv, Owned, Ordered, NEW q \in Eq, Get(q)
  PROVE  Owned' /\ Ordered'
  <1>0. StateType /\ Pooled
    BY DEF QueueInv
  <1>1. /\ comms = NoComms /\ mailbox[q] \in Mailbox /\ content[mailbox[q]] # <<>>
        /\ returned' = Append(returned, Result(Head(content[mailbox[q]]), q))
        /\ content' = [content EXCEPT ![mailbox[q]] = Tail(@)]
        /\ UNCHANGED <<mailbox, issuing, comms>>
    BY GetInv DEF eqVars
  <1>2. PICK m \in Mailbox : m = mailbox[q]
    BY <1>1
  <1>3. /\ Sorted'
        /\ \A x \in Mailbox : \A k \in 1 .. Len(content'[x]) :
             \E l \in 1 .. Len(content[x]) : content'[x][k] = content[x][l]
        /\ 1 \in 1 .. Len(content[m]) /\ Head(content[m]) = content[m][1] /\ Head(content[m]) \in Event
        /\ \A k \in 1 .. Len(content'[m]) : content[m][1].id < content'[m][k].id
    BY <1>0, <1>1, <1>2, TookOldest DEF Ordered
  <1>4. PICK ev \in Event : ev = content[m][1]
    BY <1>3
  <1>5. ev.eq = q
    <2>1. mailbox[ev.eq] = m /\ ev.eq \in Eq
      BY <1>3, <1>4, EventParts DEF Owned, OwnBoxes
    <2> QED
      BY <1>0, <1>1, <1>2, <2>1 DEF Pooled, Live
  <1>6. PICK e \in Receipt : e = Result(ev, q)
    BY <1>0, ReceiptType
  <1>7. e.id = ev.id /\ e.eq = q /\ e.eq \in e.asked
    BY <1>5, <1>6 DEF Result
  <1>8. returned' = Append(returned, e)
    BY <1>1, <1>2, <1>3, <1>4, <1>6
  <1>9. \A i \in 1 .. Len(returned) : returned[i].eq = e.eq => returned[i].id < e.id
    BY <1>3, <1>4, <1>5, <1>7 DEF Ordered, GotFirst
  <1>10. \A k \in 1 .. Len(content'[mailbox[e.eq]]) : e.id < content'[mailbox[e.eq]][k].id
    BY <1>2, <1>3, <1>4, <1>7
  <1>11. Receiving' = {}
    BY <1>1 DEF Receiving, NoComms
  <1> QED
    BY <1>0, <1>1, <1>3, <1>7, <1>8, <1>9, <1>10, <1>11, ReturnedOrder

\* A receive that starts takes the oldest event of its mailbox, if there is one.
LEMMA StartsOrder ==
  ASSUME QueueInv, Owned, Ordered, NEW q \in Eq, Starts(q)
  PROVE  Owned' /\ Ordered'
  <1>0. StateType /\ Pooled /\ Called
    BY DEF QueueInv
  <1>1. /\ q \notin DOMAIN comms /\ mailbox[q] \in Mailbox /\ Receive(q)
        /\ UNCHANGED <<mailbox, issuing, returned>>
    BY DEF Starts, Queue
  <1>4. OwnIssuing'
    BY <1>1 DEF Owned, OwnIssuing
  <1>5. CASE ReceivePosts(q)
    <2>1. PICK c : c = [state |-> "posted"]
      OBVIOUS
    <2>2. Adds(q, c) /\ UNCHANGED content /\ c.state = "posted" /\ c \in Comm
      BY <1>5, <2>1 DEF ReceivePosts, Comm
    <2>3. /\ DOMAIN comms' = DOMAIN comms \cup {q} /\ comms'[q] = c
          /\ \A p \in DOMAIN comms : p # q /\ comms'[p] = comms[p]
      BY <1>0, <1>1, <2>2, AddsParts
    <2>4. Receiving' = Receiving /\ \A p \in Receiving : comms'[p].ev = comms[p].ev
      BY <2>2, <2>3 DEF Receiving
    <2> QED
      BY <1>1, <1>4, <2>2, <2>4, OrderStutter
  <1>6. ASSUME NEW ev \in Event, ReceiveTakes(q, ev) PROVE Owned' /\ Ordered'
    <2>1. PICK s \in {"flying", "done"} : Adds(q, [state |-> s, ev |-> ev])
      BY <1>6 DEF ReceiveTakes
    <2>2. PICK c : c = [state |-> s, ev |-> ev]
      OBVIOUS
    <2>3. c \in Comm /\ c.state # "posted" /\ c.ev = ev
      BY <2>2 DEF Comm
    <2>4. /\ DOMAIN comms' = DOMAIN comms \cup {q} /\ comms'[q] = c
          /\ \A p \in DOMAIN comms : p # q /\ comms'[p] = comms[p]
      BY <1>0, <1>1, <2>1, <2>2, <2>3, AddsParts
    <2>5. /\ \A p : p \in Receiving' <=> (p \in Receiving \/ p = q)
          /\ comms'[q].ev = ev /\ \A p \in Receiving : p # q /\ comms'[p].ev = comms[p].ev
      BY <2>3, <2>4 DEF Receiving
    <2>6. PICK m \in Mailbox : m = mailbox[q]
      BY <1>1
    <2>7. /\ Sorted'
          /\ \A x \in Mailbox : \A k \in 1 .. Len(content'[x]) :
               \E l \in 1 .. Len(content[x]) : content'[x][k] = content[x][l]
          /\ 1 \in 1 .. Len(content[m]) /\ ev = content[m][1]
          /\ \A k \in 1 .. Len(content'[m]) : ev.id < content'[m][k].id
      <3>1. /\ content[mailbox[q]] # <<>> /\ ev = Head(content[mailbox[q]])
            /\ content' = [content EXCEPT ![mailbox[q]] = Tail(@)]
        BY <1>6 DEF ReceiveTakes
      <3> QED
        BY <1>0, <2>6, <3>1, TookOldest DEF Ordered
    <2>8. ev.eq = q
      <3>1. mailbox[ev.eq] = m /\ ev.eq \in Eq
        BY <2>7, EventParts DEF Owned, OwnBoxes
      <3> QED
        BY <1>0, <1>1, <2>6, <3>1 DEF Pooled, Live
    <2>9. OwnReceives' /\ OwnReturned' /\ GotSorted'
      BY <1>1, <2>5, <2>8 DEF Owned, OwnReceives, OwnReturned, Ordered, GotSorted
    <2>10. OwnBoxes'
      <3> SUFFICES ASSUME NEW x \in Mailbox, NEW k \in 1 .. Len(content'[x])
                   PROVE  mailbox[content'[x][k].eq] = x
        BY <1>1 DEF OwnBoxes
      <3>1. PICK l \in 1 .. Len(content[x]) : content'[x][k] = content[x][l]
        BY <2>7
      <3>2. mailbox[content[x][l].eq] = x
        BY DEF Owned, OwnBoxes
      <3> QED
        BY <3>1, <3>2
    <2>11. ReceivedFirst'
      <3> SUFFICES ASSUME NEW p \in Receiving', NEW k \in 1 .. Len(content'[mailbox[p]])
                   PROVE  comms'[p].ev.id < content'[mailbox[p]][k].id
        BY <1>1 DEF ReceivedFirst
      <3>1. CASE p = q
        BY <2>5, <2>6, <2>7, <3>1
      <3>2. CASE p \in Receiving
        <4>1. mailbox[p] \in Mailbox
          BY <1>0, <3>2 DEF Called, Receiving, Live
        <4>2. PICK l \in 1 .. Len(content[mailbox[p]]) :
                content'[mailbox[p]][k] = content[mailbox[p]][l]
          BY <2>7, <4>1
        <4>3. comms[p].ev.id < content[mailbox[p]][l].id
          BY <3>2 DEF Ordered, ReceivedFirst
        <4> QED
          BY <2>5, <3>2, <4>2, <4>3
      <3> QED
        BY <2>5, <3>1, <3>2
    <2>12. GotFirst'
      <3> SUFFICES ASSUME NEW i \in 1 .. Len(returned), NEW x \in Mailbox, NEW k \in 1 .. Len(content'[x]),
                          returned[i].eq = content'[x][k].eq
                   PROVE  returned[i].id < content'[x][k].id
        BY <1>1 DEF GotFirst
      <3>1. PICK l \in 1 .. Len(content[x]) : content'[x][k] = content[x][l]
        BY <2>7
      <3>2. returned[i].id < content[x][l].id
        BY <3>1 DEF Ordered, GotFirst
      <3> QED
        BY <3>1, <3>2
    <2>13. GotBefore'
      <3>1. ASSUME NEW i \in 1 .. Len(returned), returned[i].eq = ev.eq
            PROVE  returned[i].id < ev.id
        BY <2>7, <3>1 DEF Ordered, GotFirst
      <3>2. \A i \in 1 .. Len(returned) : \A p \in Receiving :
              returned[i].eq = comms[p].ev.eq => returned[i].id < comms[p].ev.id
        BY DEF Ordered, GotBefore
      <3> QED
        BY <1>1, <2>5, <3>1, <3>2 DEF GotBefore
    <2> QED
      BY <1>4, <2>7, <2>9, <2>10, <2>11, <2>12, <2>13 DEF Owned, Ordered
  <1> QED
    BY <1>0, <1>1, <1>5, <1>6, ReceiveCases

\* A call that ends returns the event of one of its receives.
LEMMA CallEndOrder ==
  ASSUME QueueInv, Owned, Ordered, NEW q \in Eq, CallEnd(q)
  PROVE  Owned' /\ Ordered'
  <1>0. StateType /\ Called
    BY DEF QueueInv
  <1>1. Receiving' = {} /\ UNCHANGED <<mailbox, issuing, content>>
    BY CallEndInv
  <1>2. PICK p \in Receiving : returned' = Append(returned, Result(comms[p].ev, q))
    BY CallEndInv
  <1>3. PICK ev \in Event : ev = comms[p].ev
    BY <1>0, ReceivingParts
  <1>4. PICK e \in Receipt : e = Result(ev, q)
    BY <1>0, ReceiptType
  <1>5. e.id = ev.id /\ e.eq = ev.eq /\ e.asked = ToSet(call.eqs) \cup {q}
    BY <1>4 DEF Result
  <1>6. ev.eq = p
    BY <1>3 DEF Owned, OwnReceives
  <1>7. p \in ToSet(call.eqs)
    BY <1>0 DEF Called, Receiving
  <1>8. e.eq \in e.asked
    BY <1>5, <1>6, <1>7
  <1>9. \A i \in 1 .. Len(returned) : returned[i].eq = e.eq => returned[i].id < e.id
    BY <1>3, <1>5 DEF Ordered, GotBefore
  <1>10. \A k \in 1 .. Len(content'[mailbox[e.eq]]) : e.id < content'[mailbox[e.eq]][k].id
    BY <1>1, <1>3, <1>5, <1>6 DEF Ordered, ReceivedFirst
  <1>11. Sorted' /\ returned' = Append(returned, e)
    BY <1>1, <1>2, <1>3, <1>4 DEF Ordered, Sorted
  <1>12. \A x \in Mailbox : \A k \in 1 .. Len(content'[x]) :
           \E l \in 1 .. Len(content[x]) : content'[x][k] = content[x][l]
    BY <1>1
  <1> QED
    BY <1>0, <1>1, <1>8, <1>9, <1>10, <1>11, <1>12, ReturnedOrder

\* Every step keeps the order, and the events with their queues.
LEMMA NextOrder ==
  ASSUME DrainedFrees, QueueInv, Placed, Owned, Ordered, [Next]_vars
  PROVE  Owned' /\ Ordered'
  <1>0. StateType /\ Called
    BY DEF QueueInv
  <1>1. ASSUME UNCHANGED <<mailbox, content, comms, returned>>, OwnIssuing' PROVE Owned' /\ Ordered'
    BY <1>1, OrderStutter DEF Receiving
  <1>2. ASSUME UNCHANGED <<mailbox, issuing, content, returned>>, Receiving' = {} PROVE Owned' /\ Ordered'
    <2>1. OwnIssuing' /\ OwnBoxes' /\ OwnReceives' /\ OwnReturned'
      BY <1>2 DEF Owned, OwnIssuing, OwnBoxes, OwnReceives, OwnReturned
    <2>2. Sorted' /\ GotFirst' /\ GotSorted'
      BY <1>2 DEF Ordered, Sorted, GotFirst, GotSorted
    <2>3. ReceivedFirst' /\ GotBefore'
      BY <1>2 DEF ReceivedFirst, GotBefore
    <2> QED
      BY <2>1, <2>2, <2>3 DEF Owned, Ordered
  <1>3. ASSUME NEW q \in Eq, ArriveComm(q) PROVE Owned' /\ Ordered'
    <2>1. /\ Receiving' = Receiving /\ \A p \in Receiving : comms'[p].ev = comms[p].ev
          /\ UNCHANGED <<mailbox, issuing, content, returned>>
      BY <1>3, ArriveCommInv DEF eqVars
    <2>2. OwnIssuing'
      BY <2>1 DEF Owned, OwnIssuing
    <2> QED
      BY <2>1, <2>2, OrderStutter
  <1>4. ASSUME NEW i \in Issuer, NEW q \in Eq, IssueEvent(i, q) PROVE Owned' /\ Ordered'
    <2>1. /\ issuing' = [issuing EXCEPT ![i] = q] /\ mailbox[q] \in Mailbox
          /\ UNCHANGED <<mailbox, content, comms, returned>>
      BY <1>4 DEF IssueEvent, Live, eqVars, appVars
    <2>2. OwnIssuing'
      BY <1>0, <2>1 DEF Owned, OwnIssuing, StateType
    <2> QED
      BY <1>1, <2>1, <2>2
  <1>5. ASSUME NEW qs \in Polls, PollStarts(qs) PROVE Owned' /\ Ordered'
    <2>1. UNCHANGED <<mailbox, issuing, content, comms, returned>>
      BY <1>5 DEF PollStarts, Queue
    <2>2. OwnIssuing'
      BY <2>1 DEF Owned, OwnIssuing
    <2> QED
      BY <1>1, <2>1, <2>2
  <1>6. ASSUME NEW qs \in Polls, Poll(qs) PROVE Owned' /\ Ordered'
    BY <1>0, <1>5, <1>6, PollCases, WaitStarts, StartsOrder
  <1>7. ASSUME UNCHANGED vars PROVE Owned' /\ Ordered'
    <2>1. UNCHANGED <<mailbox, issuing, content, comms, returned>>
      BY <1>7 DEF vars, eqVars, appVars
    <2>2. OwnIssuing'
      BY <2>1 DEF Owned, OwnIssuing
    <2> QED
      BY <1>1, <2>1, <2>2
  <1>8. ASSUME PollTimeout PROVE Owned' /\ Ordered'
    BY <1>2, <1>8, TimeoutInv
  <1>9. ASSUME NEW q \in Eq, EQAlloc(q) \/ EQFree(q) PROVE Owned' /\ Ordered'
    BY <1>9, AllocOrder, FreeOrder
  <1>10. ASSUME NEW q \in Eq, Get(q) \/ Wait(q) \/ CallEnd(q) PROVE Owned' /\ Ordered'
    BY <1>10, GetOrder, WaitStarts, StartsOrder, CallEndOrder
  <1>11. ASSUME NEW i \in Issuer, PutEvent(i) PROVE Owned' /\ Ordered'
    BY <1>11, PutOrder
  <1>12. ASSUME NEW m \in Mailbox, Arrive(m) PROVE Owned' /\ Ordered'
    BY <1>12, ArriveOrder
  <1>13. ASSUME PollPost PROVE Owned' /\ Ordered'
    BY <1>13, PostStarts, StartsOrder
  <1> QED
    BY <1>3, <1>4, <1>6, <1>7, <1>8, <1>9, <1>10, <1>11, <1>12, <1>13 DEF Next

\* If the application frees a queue only once nothing is sent to it any more:
\* a call returns events of the queues it was given, although mailboxes pass
\* from one queue to another (get_random_mailbox), and the events of a queue
\* are returned in the order issue_event put them, whichever of PtlEQGet,
\* PtlEQWait and PtlEQPoll takes them and however they are mixed.
THEOREM EventsInOrder == ASSUME DrainedFrees PROVE Spec => []OwnEventsInOrder
  <1>1. Init => Owned /\ Ordered
    <2> SUFFICES ASSUME Init PROVE Owned /\ Ordered
      OBVIOUS
    <2>1. /\ issuing = [i \in Issuer |-> None] /\ Len(returned) = 0 /\ Receiving = {}
          /\ \A m \in Mailbox : Len(content[m]) = 0
      BY DEF Init, Receiving, NoComms
    <2>2. Owned
      BY <2>1 DEF Owned, OwnIssuing, OwnBoxes, OwnReceives, OwnReturned
    <2>3. Ordered
      BY <2>1 DEF Ordered, Sorted, ReceivedFirst, GotFirst, GotBefore, GotSorted
    <2> QED
      BY <2>2, <2>3
  <1>2. QueueInv /\ Placed /\ Owned /\ Ordered /\ [Next]_vars => Owned' /\ Ordered'
    BY NextOrder
  <1>3. QueueInv /\ Owned /\ Ordered => OwnEventsInOrder
    <2> SUFFICES ASSUME QueueInv, Owned, Ordered PROVE OwnEventsInOrder
      OBVIOUS
    <2>1. DOMAIN returned = 1 .. Len(returned)
      BY DEF QueueInv, StateType
    <2> QED
      BY <2>1 DEF OwnEventsInOrder, Owned, OwnReturned, Ordered, GotSorted
  <1> QED
    BY <1>1, <1>2, <1>3, QueueInvariant, PTL DEF Spec
=============================================================================
