---------------------------- MODULE CountingEvent ---------------------------
(***************************************************************************)
(* Counting events (BxiCT): user actors wait for or poll counters that NIC *)
(* actors and user actors update.                                          *)
(*                                                                         *)
(* on_update walks through the vector of waiters and makes a simcall for   *)
(* each one it wakes, so that other actors run in the middle of its loop:  *)
(* a loop is a sequence of steps here, each up to the next simcall.  The   *)
(* walk goes by index, as it does when the vector is not reallocated.      *)
(***************************************************************************)
EXTENDS Integers, SequencesExt

CONSTANTS
  Counters,     \* number of counters
  Waiter,       \* user actors that call PtlCTWait and PtlCTPoll
  Updater,      \* actors that update counters
  Tests,        \* thresholds waited for
  Amounts,      \* increments of success
  SetValues,    \* values given to PtlCTSet
  Failures,     \* whether failures are counted
  MaxSuccess,   \* bound on the counters
  MaxPolls      \* bound on the calls of PtlCTPoll of an actor

ASSUME CountingAssumption ==
  /\ Counters \in Nat \ {0} /\ MaxSuccess \in Nat /\ MaxPolls \in Nat
  /\ Tests \subseteq Nat \ {0} /\ Amounts \subseteq Nat \ {0} /\ SetValues \subseteq Nat
  /\ Failures \in BOOLEAN

CT == 1 .. Counters

\* A loop of on_update: its counter, the index it goes on from, and whether
\* it waits for a mailbox that nobody reads.
Idle == [ct |-> 0, at |-> 0, blocked |-> FALSE]

VARIABLES
  success, failure,  \* event of each counter
  waiting,           \* waiting vector of each counter (ActorWaitingCT)
  loop,              \* the on_update loop of each updater
  pc,                \* what each waiter is doing
  goal,              \* the threshold each waiter asked of each counter, or 0
  polls,             \* how many polls each waiter has made
  posted             \* how many counters the poll of each waiter has joined

vars == <<success, failure, waiting, loop, pc, goal, polls, posted>>
waiterVars == <<pc, goal, polls, posted>>

\* An entry with poll = 0 is an actor to resume, otherwise the mailbox of a poll.
Entry == [actor : Waiter, poll : Nat, test : Tests]
NoGoal == [c \in CT |-> 0]

Init ==
  /\ success = [c \in CT |-> 0] /\ failure = [c \in CT |-> 0]
  /\ waiting = [c \in CT |-> <<>>]
  /\ loop = [u \in Updater |-> Idle]
  /\ pc = [a \in Waiter |-> "run"]
  /\ goal = [a \in Waiter |-> NoGoal]
  /\ polls = [a \in Waiter |-> 0]
  /\ posted = [a \in Waiter |-> 0]

-----------------------------------------------------------------------------
\* Mutant: everybody is woken.
HitsAll(w, i, s, f) == i .. Len(w)

\* Positions of the waiters that on_update wakes from index i on
Hits(w, i, s, f) == {j \in i .. Len(w) : w[j].test = s \/ f > 0}

\* Mutant: the waiter after the woken one is erased.
EraseNext(w, j) == IF j < Len(w) THEN RemoveAt(w, j + 1) ELSE RemoveAt(w, j)

Erase(w, j) == RemoveAt(w, j)

\* The mailbox of an entry has a reader as long as its poll lasts.
Reads(e) == pc[e.actor] = "polling" /\ polls[e.actor] = e.poll

\* BxiCT::on_update from index i, up to its next simcall, with event (s, f)
OnUpdate(u, c, i, s, f) ==
  LET w == waiting[c]
      H == Hits(w, i, s, f)
      j == Min(H)
      e == w[j]
  IN
  IF H = {}
  THEN /\ loop' = [loop EXCEPT ![u] = Idle]
       /\ UNCHANGED <<waiting, waiterVars>>
  ELSE /\ waiting' = [waiting EXCEPT ![c] = Erase(w, j)]
       /\ loop' = [loop EXCEPT ![u] =
                     [ct |-> c, at |-> j, blocked |-> e.poll > 0 /\ ~Reads(e)]]
       /\ pc' = IF e.poll = 0 THEN [pc EXCEPT ![e.actor] = "woken"] ELSE pc
       /\ UNCHANGED <<goal, polls, posted>>

Update(u, c, s, f) ==
  /\ loop[u] = Idle
  /\ s <= MaxSuccess
  /\ success' = [success EXCEPT ![c] = s]
  /\ failure' = [failure EXCEPT ![c] = f]
  /\ OnUpdate(u, c, 1, s, f)

\* increment_success and increment
Increment(u, c, n) == Update(u, c, success[c] + n, failure[c])

\* increment of the failures
Fail(u, c) == Failures /\ failure[c] = 0 /\ Update(u, c, success[c], 1)

\* set_value
SetValue(u, c, v) == Update(u, c, v, 0)

\* Mutant: `it` is not moved back when its entry is erased.
ContinueSkips(u) ==
  LET c == loop[u].ct IN
  /\ loop[u] # Idle
  /\ ~loop[u].blocked
  /\ OnUpdate(u, c, loop[u].at + 1, success[c], failure[c])
  /\ UNCHANGED <<success, failure>>

\* The loop after a simcall
Continue(u) ==
  LET c == loop[u].ct IN
  /\ loop[u] # Idle
  /\ ~loop[u].blocked
  /\ OnUpdate(u, c, loop[u].at, success[c], failure[c])
  /\ UNCHANGED <<success, failure>>

-----------------------------------------------------------------------------
Reached(c, t) == success[c] >= t \/ failure[c] > 0

Push(c, e) == waiting' = [waiting EXCEPT ![c] = Append(@, e)]

\* BxiCT::wait: returns at once, or joins the waiters and is suspended
Wait(a, c, t) ==
  /\ pc[a] = "run"
  /\ ~Reached(c, t)
  /\ Push(c, [actor |-> a, poll |-> 0, test |-> t])
  /\ pc' = [pc EXCEPT ![a] = "suspended"]
  /\ goal' = [goal EXCEPT ![a] = [NoGoal EXCEPT ![c] = t]]
  /\ UNCHANGED <<success, failure, loop, polls, posted>>

WaitReturn(a) ==
  /\ pc[a] = "woken"
  /\ pc' = [pc EXCEPT ![a] = "run"]
  /\ goal' = [goal EXCEPT ![a] = NoGoal]
  /\ UNCHANGED <<success, failure, waiting, loop, polls, posted>>

\* BxiCT::poll, when none of the tests is passed
Poll(a, g) ==
  /\ pc[a] = "run"
  /\ polls[a] < MaxPolls
  /\ \A c \in CT : ~Reached(c, g[c])
  /\ pc' = [pc EXCEPT ![a] = "polling"]
  /\ goal' = [goal EXCEPT ![a] = g]
  /\ polls' = [polls EXCEPT ![a] = @ + 1]
  /\ posted' = [posted EXCEPT ![a] = 1]
  /\ Push(1, [actor |-> a, poll |-> polls[a] + 1, test |-> g[1]])
  /\ UNCHANGED <<success, failure, loop>>

\* get_async is a simcall: each counter is joined in a step of its own.
PollPost(a) ==
  LET k == posted[a] + 1 IN
  /\ pc[a] = "polling"
  /\ k \in CT
  /\ posted' = [posted EXCEPT ![a] = k]
  /\ Push(k, [actor |-> a, poll |-> polls[a], test |-> goal[a][k]])
  /\ UNCHANGED <<success, failure, loop, pc, goal, polls>>

\* wait_any has a message, or times out.  The entries on the other counters
\* stay where they are.
PollReturn(a) ==
  /\ pc[a] = "polling"
  /\ posted[a] = Counters
  /\ pc' = [pc EXCEPT ![a] = "run"]
  /\ goal' = [goal EXCEPT ![a] = NoGoal]
  /\ posted' = [posted EXCEPT ![a] = 0]
  /\ UNCHANGED <<success, failure, waiting, loop, polls>>

Next ==
  \/ \E u \in Updater : \/ Continue(u)
                        \/ \E c \in CT : \/ \E n \in Amounts : Increment(u, c, n)
                                         \/ \E v \in SetValues : SetValue(u, c, v)
                                         \/ Fail(u, c)
  \/ \E a \in Waiter : \/ \E c \in CT, t \in Tests : Wait(a, c, t)
                       \/ WaitReturn(a)
                       \/ \E g \in [CT -> Tests] : Poll(a, g)
                       \/ PollPost(a)
                       \/ PollReturn(a)

Spec == Init /\ [][Next]_vars

-----------------------------------------------------------------------------
\* Type correctness of the counters, their waiters and the loops.
TypeOK ==
  /\ success \in [CT -> 0 .. MaxSuccess] /\ failure \in [CT -> {0, 1}]
  /\ waiting \in [CT -> Seq(Entry)]
  /\ loop \in [Updater -> [ct : 0 .. Counters, at : Nat, blocked : BOOLEAN]]
  /\ pc \in [Waiter -> {"run", "suspended", "woken", "polling"}]
  /\ goal \in [Waiter -> [CT -> Tests \cup {0}]]
  /\ polls \in [Waiter -> 0 .. MaxPolls]
  /\ posted \in [Waiter -> 0 .. Counters]

\* A suspended actor is never forgotten: it is in the vector of its counter,
\* once, and nobody is there who is not suspended.
SuspendedIsListed ==
  /\ TypeOK
  /\ \A a \in Waiter, c \in CT :
       Cardinality({i \in 1 .. Len(waiting[c]) : waiting[c][i].actor = a
                                                  /\ waiting[c][i].poll = 0})
         = IF pc[a] = "suspended" /\ goal[a][c] > 0 THEN 1 ELSE 0

\* "When somebody increments the CT, they will wake us up if necessary"
\* (comment of BxiCT::wait), as far as on_update goes: whoever waits for the
\* value that the counter has, or for a counter with failures, is still ahead
\* of an on_update loop of that counter, however many loops are under way,
\* erase each other's entries and move the counter meanwhile.
StillToBeWoken ==
  \A c \in CT : \A i \in 1 .. Len(waiting[c]) :
    waiting[c][i].poll = 0 /\ (waiting[c][i].test = success[c] \/ failure[c] > 0) =>
      \E u \in Updater : loop[u].ct = c /\ loop[u].at <= i

\* An actor is woken only when its own test is passed: the entry that
\* on_update erased was that of its PtlCTWait, and the value it was compared
\* with is the value the counter has.
WokenForAReason ==
  [][\A a \in Waiter : pc[a] = "suspended" /\ pc'[a] # "suspended" =>
        \E c \in CT : goal[a][c] > 0 /\ Reached(c, goal[a][c])']_vars
=============================================================================
