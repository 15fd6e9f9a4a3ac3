---------------------------- MODULE EventQueue ------------------------------
(***************************************************************************)
(* The event queues of an application (BxiEQ).  A queue is a mailbox taken *)
(* from a pool; the NIC actors put events there, each of which travels for *)
(* a while, and the application takes them with PtlEQGet, PtlEQWait or     *)
(* PtlEQPoll, which posts one receive per queue, all of them into the same *)
(* pointer, and cancels them when the first has its event.  Posting one is *)
(* a simcall, at which other actors may put events: it is a step.          *)
(*                                                                         *)
(* Of SimGrid: a mailbox keeps what is sent to it in order; a receive      *)
(* takes the oldest of it or waits for the next; cancelling a receive      *)
(* gives up the transfer that it was matched with.  Transfers end when     *)
(* time passes, which it does not while the application can run on.        *)
(***************************************************************************)
EXTENDS Integers, Sequences, FiniteSets, SequencesExt

CONSTANTS
  Eq,           \* handles of event queues, one per call to PtlEQAlloc
  Mailbox,      \* mailboxes that SimGrid can name
  Issuer,       \* actors that issue events
  Polls,        \* sequences of distinct queues that the application polls
  Timeouts,     \* whether polls have a timeout
  DrainedFrees, \* the application only frees queues that nothing is sent to
  MaxEvents     \* bound on the events issued

CONSTANT None

ASSUME EventQueueAssumption ==
  /\ Polls \subseteq Seq(Eq) /\ \A qs \in Polls : IsInjective(qs)
  /\ None \notin Eq \cup Mailbox /\ "freed" \notin Mailbox
  /\ Timeouts \in BOOLEAN /\ DrainedFrees \in BOOLEAN /\ MaxEvents \in Nat

VARIABLES
  mailbox,   \* mailbox of each live queue, None before PtlEQAlloc, "freed" after
  pool,      \* the stack of mailboxes that were given back
  issuing,   \* the queue that each issuer is about to put an event in
  sent,      \* the number of events put so far: their identities
  content,   \* events in each mailbox, each [id, eq, arrived]
  call,      \* the call the application is in
  comms,     \* its receives, by queue: "posted", "flying" or "done"
  first,     \* the queue of the receive that was done first
  evPtr,     \* ev_ptr of the call
  returned,  \* what the application got: [id, eq, which]
  givenUp    \* events of receives that a poll cancelled or overwrote

eqVars  == <<mailbox, pool>>
appVars == <<call, comms, first, evPtr, returned, givenUp>>
vars    == <<eqVars, issuing, sent, content, appVars>>

NoCall  == [kind |-> "none", eqs |-> <<>>]
NoComms == [q \in {} |-> None]

Init ==
  /\ mailbox = [q \in Eq |-> None]
  /\ pool = <<>>
  /\ issuing = [i \in Issuer |-> None]
  /\ sent = 0
  /\ content = [m \in Mailbox |-> <<>>]
  /\ call = NoCall /\ comms = NoComms /\ first = None /\ evPtr = None
  /\ returned = <<>> /\ givenUp = {}

Live(q) == mailbox[q] \in Mailbox
Idle    == call.kind = "none"

\* get_random_mailbox names a new mailbox if the pool is empty.
Named == {mailbox[q] : q \in {p \in Eq : Live(p)}} \cup ToSet(pool)

-----------------------------------------------------------------------------
(***************************************************************************)
(* PtlEQAlloc and PtlEQFree.                                               *)
(***************************************************************************)
EQAlloc(q) ==
  /\ Idle /\ mailbox[q] = None
  /\ \E m \in IF pool # <<>> THEN {Last(pool)} ELSE Mailbox \ Named :
       mailbox' = [mailbox EXCEPT ![q] = m]
  /\ pool' = IF pool # <<>> THEN Front(pool) ELSE pool
  /\ UNCHANGED <<issuing, sent, content, appVars>>

\* free_random_mailbox does not look at what the mailbox holds.
EQFree(q) ==
  /\ Idle /\ Live(q)
  /\ DrainedFrees => /\ \A i \in Issuer : issuing[i] # q
                     /\ content[mailbox[q]] = <<>>
  /\ pool' = Append(pool, mailbox[q])
  /\ mailbox' = [mailbox EXCEPT ![q] = "freed"]
  /\ UNCHANGED <<issuing, sent, content, appVars>>

-----------------------------------------------------------------------------
(***************************************************************************)
(* BxiNode::issue_event.                                                   *)
(***************************************************************************)
\* The PCI transfer of the event starts.
IssueEvent(i, q) ==
  /\ issuing[i] = None /\ Live(q)
  /\ sent + Cardinality({j \in Issuer : issuing[j] # None}) < MaxEvents
  /\ issuing' = [issuing EXCEPT ![i] = q]
  /\ UNCHANGED <<eqVars, sent, content, appVars>>

\* The event is put in the mailbox of the queue: a posted receive takes it.
PutEvent(i) ==
  LET q  == issuing[i]
      ev == [id |-> sent, eq |-> q, arrived |-> FALSE]
  IN
  /\ q # None /\ Live(q)
  /\ sent' = sent + 1
  /\ issuing' = [issuing EXCEPT ![i] = None]
  /\ \E p \in Eq : mailbox[p] = mailbox[q] /\
       IF p \in DOMAIN comms /\ comms[p].state = "posted"
       THEN /\ comms' = [comms EXCEPT ![p] = [state |-> "flying", ev |-> ev]]
            /\ UNCHANGED content
       ELSE /\ content' = [content EXCEPT ![mailbox[q]] = Append(@, ev)]
            /\ UNCHANGED comms
  /\ UNCHANGED <<eqVars, call, first, evPtr, returned, givenUp>>

\* Mutant: the last receive is forgotten (i < size - 1).
ReceivesButLast(qs) == ToSet(Front(qs))

\* The queues of a poll that a receive is posted on
Receives(qs) == ToSet(qs)

\* The application is in the loop of poll that posts the receives.
Posting == call.kind = "poll" /\ DOMAIN comms # Receives(call.eqs)

\* An event in a mailbox reaches its host.
Arrive(m) ==
  /\ ~Posting
  /\ \E k \in DOMAIN content[m] :
       /\ ~content[m][k].arrived
       /\ content' = [content EXCEPT ![m][k].arrived = TRUE]
  /\ UNCHANGED <<eqVars, issuing, sent, appVars>>

\* So does one that a receive waits for: the pointer is set, and the first
\* of them wakes the application.
ArriveComm(q) ==
  /\ ~Posting
  /\ q \in DOMAIN comms /\ comms[q].state = "flying"
  /\ comms' = [comms EXCEPT ![q].state = "done"]
  /\ evPtr' = comms[q].ev
  /\ first' = IF first = None THEN q ELSE first
  /\ UNCHANGED <<eqVars, issuing, sent, content, call, returned, givenUp>>

-----------------------------------------------------------------------------
(***************************************************************************)
(* PtlEQGet, PtlEQWait and PtlEQPoll.                                      *)
(***************************************************************************)
Result(ev, q) == [id |-> ev.id, eq |-> ev.eq, which |-> q, asked |-> ToSet(call.eqs) \cup {q}]

\* Mutant: the event that arrived is taken from the end of the mailbox.
GetLast(q) ==
  LET m == mailbox[q] IN
  /\ Idle /\ Live(q) /\ content[m] # <<>>
  /\ Last(content[m]).arrived
  /\ returned' = Append(returned, Result(Last(content[m]), q))
  /\ content' = [content EXCEPT ![m] = Front(@)]
  /\ UNCHANGED <<eqVars, issuing, sent, call, comms, first, evPtr, givenUp>>

\* Mutant: the event stays in the mailbox.
GetKeeps(q) ==
  LET m == mailbox[q] IN
  /\ Idle /\ Live(q) /\ content[m] # <<>>
  /\ Head(content[m]).arrived
  /\ returned' = Append(returned, Result(Head(content[m]), q))
  /\ UNCHANGED <<eqVars, issuing, sent, content, call, comms, first, evPtr, givenUp>>

\* BxiEQ::get, when the mailbox is ready.  If it is not, nothing changes.
Get(q) ==
  LET m == mailbox[q] IN
  /\ Idle /\ Live(q) /\ content[m] # <<>>
  /\ Head(content[m]).arrived
  /\ returned' = Append(returned, Result(Head(content[m]), q))
  /\ content' = [content EXCEPT ![m] = Tail(@)]
  /\ UNCHANGED <<eqVars, issuing, sent, call, comms, first, evPtr, givenUp>>

\* A receive takes the oldest event of the mailbox or waits for the next.
Receive(q) ==
  LET m    == mailbox[q]
      ev   == Head(content[m])
      With(r) == [p \in DOMAIN comms \cup {q} |-> IF p = q THEN r ELSE comms[p]]
  IN
  IF content[m] = <<>>
  THEN /\ comms' = With([state |-> "posted"])
       /\ UNCHANGED <<content, first, evPtr>>
  ELSE /\ comms' = With([state |-> IF ev.arrived THEN "done" ELSE "flying", ev |-> ev])
       /\ evPtr' = IF ev.arrived THEN ev ELSE evPtr
       /\ first' = IF ev.arrived THEN q ELSE first
       /\ content' = [content EXCEPT ![m] = Tail(@)]

StartWait(q) == call' = [kind |-> "wait", eqs |-> <<q>>] /\ Receive(q)

\* BxiEQ::wait
Wait(q) ==
  /\ Idle /\ Live(q)
  /\ StartWait(q)
  /\ UNCHANGED <<eqVars, issuing, sent, returned, givenUp>>

\* BxiEQ::poll waits on the first queue that has or will have an event, or
\* starts to post its receives.
Poll(qs) ==
  LET busy == {k \in DOMAIN qs : content[mailbox[qs[k]]] # <<>>} IN
  /\ Idle /\ \A k \in DOMAIN qs : Live(qs[k])
  /\ IF busy # {}
     THEN StartWait(qs[CHOOSE k \in busy : \A l \in busy : k <= l])
     ELSE /\ call' = [kind |-> "poll", eqs |-> qs]
          /\ UNCHANGED <<comms, content, first, evPtr>>
  /\ UNCHANGED <<eqVars, issuing, sent, returned, givenUp>>

\* The next get_async of a poll: the queue may have got an event by now.
PollPost ==
  /\ Posting
  /\ \E k \in DOMAIN call.eqs :
       /\ call.eqs[k] \in Receives(call.eqs) \ DOMAIN comms
       /\ \A l \in 1 .. k - 1 : call.eqs[l] \in DOMAIN comms
       /\ Receive(call.eqs[k])
  /\ UNCHANGED <<eqVars, issuing, sent, call, returned, givenUp>>

Taken == {comms[q].ev.id : q \in {p \in DOMAIN comms : comms[p].state # "posted"}}

Return ==
  /\ call' = NoCall /\ comms' = NoComms /\ first' = None /\ evPtr' = None
  /\ UNCHANGED <<eqVars, issuing, sent, content>>

\* The wait, or wait_any, ends with the receive that was done first; every
\* receive is cancelled, and what the pointer says is returned.
CallEnd(q) ==
  /\ ~Idle /\ ~Posting
  /\ first = q
  /\ returned' = Append(returned, Result(evPtr, q))
  /\ givenUp' = givenUp \cup (Taken \ {evPtr.id})
  /\ Return

\* wait_any_for ends without a result: every receive is cancelled.
PollTimeout ==
  /\ Timeouts /\ call.kind = "poll" /\ ~Posting
  /\ givenUp' = givenUp \cup Taken
  /\ UNCHANGED returned
  /\ Return

-----------------------------------------------------------------------------
Next ==
  \/ \E q \in Eq : \/ EQAlloc(q) \/ EQFree(q) \/ ArriveComm(q)
                   \/ Get(q) \/ Wait(q) \/ CallEnd(q)
  \/ \E qs \in Polls : Poll(qs)
  \/ PollPost \/ PollTimeout
  \/ \E i \in Issuer : PutEvent(i) \/ \E q \in Eq : IssueEvent(i, q)
  \/ \E m \in Mailbox : Arrive(m)

\* Transfers end, an actor whose transfer has ended runs, and so does the
\* application between the simcalls of a poll.
Spec ==
  /\ Init /\ [][Next]_vars
  /\ \A i \in Issuer : WF_vars(PutEvent(i))
  /\ WF_vars(PollPost)
  /\ \A q \in Eq : WF_vars(ArriveComm(q)) /\ WF_vars(CallEnd(q))

-----------------------------------------------------------------------------
(***************************************************************************)
(* Properties.                                                             *)
(***************************************************************************)
\* Type correctness of the queues, the pool and the call.
TypeOK ==
  /\ \A q \in Eq : mailbox[q] \in Mailbox \cup {None, "freed"}
  /\ pool \in Seq(Mailbox)
  /\ \A p, q \in Eq : Live(p) /\ Live(q) /\ p # q => mailbox[p] # mailbox[q]
  /\ \A q \in Eq : Live(q) => mailbox[q] \notin ToSet(pool)
  /\ sent \in 0 .. MaxEvents
  /\ call.kind \in {"none", "wait", "poll"}
  /\ DOMAIN comms \subseteq Eq

Held(n) ==
  Cardinality({x \in Mailbox \X (1 .. MaxEvents) :
                 x[2] \in DOMAIN content[x[1]] /\ content[x[1]][x[2]].id = n})
    + Cardinality({q \in DOMAIN comms : comms[q].state # "posted" /\ comms[q].ev.id = n})
    + Cardinality({k \in DOMAIN returned : returned[k].id = n})

\* Every event that was issued is in a mailbox, on its way to a receive,
\* returned, or given up by a poll, once: nothing else drops or repeats one.
EventsAreSomewhere ==
  /\ TypeOK
  /\ \A n \in 0 .. sent - 1 : Held(n) + (IF n \in givenUp THEN 1 ELSE 0) = 1

\* A call returns an event of a queue it was given, although queues that are
\* freed pass their mailboxes on to others, and the events of a queue are
\* returned in the order they were put there, whether PtlEQGet, PtlEQWait or
\* PtlEQPoll takes them.
OwnEventsInOrder ==
  /\ \A k \in DOMAIN returned : returned[k].eq \in returned[k].asked
  /\ \A k, l \in DOMAIN returned :
       k < l /\ returned[k].eq = returned[l].eq => returned[k].id < returned[l].id

\* A call that was given a queue returns once an event is issued to it, also
\* when the event comes between the moment a poll looks at the queue and the
\* moment it posts its receive there.
EventuallyReturns ==
  \A i \in Issuer, q \in Eq :
    (issuing[i] = q /\ q \in ToSet(call.eqs)) ~> Idle
=============================================================================
