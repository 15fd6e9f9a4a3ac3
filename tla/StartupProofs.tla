---------------------------- MODULE StartupProofs ----------------------------
(***************************************************************************)
(* Proofs about Startup, for any deployment: no application starts before  *)
(* every actor has registered and loaded its copy, PtlInit takes a queue   *)
(* of the right kind, local ranks are dense, every peer has published its  *)
(* interface after s4bxi_barrier, and open interfaces have different pids. *)
(*                                                                         *)
(* The first part of the invariant is about SimGrid's rounds.  An actor    *)
(* that is new has not had its turn in the first round, so that nobody is  *)
(* in his second: this is why the barrier, created in the third turn of a  *)
(* user actor, counts all of them.  And the users are in one phase,        *)
(* between two barriers, except those who wait at the next one.            *)
(***************************************************************************)
EXTENDS Startup, FiniteSetTheorems, WellFoundedInduction, TLAPS

-----------------------------------------------------------------------------
(***************************************************************************)
(* The inductive invariant: rounds, deaths and phases.                     *)
(***************************************************************************)
Phase0 == {"new", "e2e_off", "constructed", "yielded", "set_up"}
Phase1 == {"start", "delayed", "PtlInit", "open1", "opened1", "close1", "drained1",
           "PtlNIInit", "published", "panic"}
Phase2 == {"ask", "PtlNIFini", "drained"}
Phase3 == {"end", "done"}

UserPlace == Phase0 \cup Phase1 \cup Phase2 \cup Phase3
NicPlace  == {"new", "daemonized", "looked", "get", "wait", "killed"}
SchedState == {"running", "ready", "asleep", "barrier", "idle", "dead"}

\* The barriers that a user at p has come to
Passed(p) == IF p \in Phase0 THEN 0
             ELSE IF p \in Phase1 THEN 1
             ELSE IF p \in Phase2 THEN 2 ELSE 3

KernelOK ==
  /\ todo \subseteq Actor
  /\ sched \in [Actor -> SchedState]
  /\ pc \in [Actor -> UserPlace \cup NicPlace]
  /\ \A u \in User : pc[u] \in UserPlace
  /\ \A a \in Nic : pc[a] \in NicPlace /\ sched[a] \notin {"asleep", "barrier"}
  /\ \A a \in Actor : a \in todo <=> sched[a] = "running"

\* As long as somebody is new, nobody has had two turns.
FirstRound ==
  \A a, b \in Actor :
    pc[a] = "new" =>
      \/ pc[b] = "new" /\ b \in todo
      \/ pc[b] \in {"e2e_off", "constructed", "daemonized", "killed"} /\ b \notin todo

\* A NIC actor is in its second turn in the second round.
SecondRound ==
  \A a \in Nic : pc[a] = "daemonized" => sched[a] \in {"ready", "running", "dead"}

\* An actor that ended neither by itself nor at once was killed with all.
Deaths ==
  /\ \A u \in User : pc[u] = "done" => sched[u] = "dead"
  /\ \A a, b \in Actor :
       sched[a] = "dead" /\ pc[a] \notin {"done", "killed"} => sched[b] = "dead"

InPlay(u) == sched[u] # "dead" \/ pc[u] = "done"
Waits(u)  == sched[u] = "barrier"

\* Those who wait at a barrier are one ahead of all others.
Phases ==
  \A u, v \in User :
    InPlay(u) /\ InPlay(v) =>
      /\ (Waits(u) <=> Waits(v)) => Passed(pc[u]) = Passed(pc[v])
      /\ Waits(v) /\ ~Waits(u) => Passed(pc[v]) = Passed(pc[u]) + 1

\* A simulation has a process that is not a daemon; SimGrid would end one
\* without after the first round.
Foreground == User \ Daemon # {}

\* The simulation is not ended before all have loaded.
KilledLate ==
  Foreground => \A u, v \in User : ~InPlay(u) => Passed(pc[v]) > 0

\* Once somebody comes out of the sleep of PtlInit, all NIC actors have had
\* their second turn: time does not advance while one is ready.
AfterInit == {"open1", "opened1", "close1", "drained1", "PtlNIInit", "published", "panic"}
             \cup Phase2 \cup Phase3
Woken ==
  /\ \A u \in User : pc[u] = "PtlInit" => sched[u] \in {"asleep", "running", "dead"}
  /\ \A u \in User, a \in Nic :
       (pc[u] = "PtlInit" /\ u \in todo) \/ pc[u] \in AfterInit
         => pc[a] \notin {"new", "daemonized"}

\* The barrier expects all user actors.
BarrierOK ==
  /\ barrier # None => barrier = Cardinality(User) /\ actors = User /\ User # {}
  /\ \A u \in User : pc[u] \notin {"new", "e2e_off", "constructed", "yielded"} => barrier # None

Registered ==
  /\ actors = {u \in User : pc[u] # "new"}
  /\ loaded = {u \in User : Passed(pc[u]) > 0}

RoundInv == /\ KernelOK /\ FirstRound /\ SecondRound /\ Deaths
            /\ Phases /\ KilledLate /\ Woken /\ BarrierOK /\ Registered

-----------------------------------------------------------------------------
(***************************************************************************)
(* The inductive invariant: nodes, ranks and interfaces.                   *)
(***************************************************************************)
Kind(n) == IF PciCommands(n) THEN "mailbox" ELSE "semaphore"
NoneIsNew == \A a \in Actor : pc[a] # "new"

NodeOK ==
  /\ nodePci \in [Host -> BOOLEAN] /\ e2eOff \in [Host -> BOOLEAN]
  /\ e2eActor \in [Host -> Nic \cup {None}]
  /\ queues \in [Host -> [Vns -> {None, "mailbox", "semaphore"}]]
  /\ DOMAIN txQueue = Actor /\ defaultNi \subseteq User

\* A queue is created when the options of the node do not change any more.
QueuesOK ==
  /\ \A n \in Host, v \in Vns : queues[n][v] # None => queues[n][v] = Kind(n) /\ NoneIsNew
  /\ \A a \in Nic : Role[a] = "initiator" =>
       /\ pc[a] \in {"new", "daemonized", "get"}
       /\ pc[a] = "get" /\ Vn[a] \in Vns => queues[HostOf[a]][Vn[a]] # None

\* Every host with applications has an initiator for their requests.
Deployed ==
  \A u \in User : \E a \in Nic :
    HostOf[a] = HostOf[u] /\ Role[a] = "initiator" /\ Vn[a] = "request"

\* The queue that PtlInit took
TakenOK ==
  Deployed => \A u \in User : pc[u] \in AfterInit => txQueue[u] = Kind(HostOf[u])

\* The E2E actor that turns E2E on registers.
E2EOK ==
  /\ \A n \in Host :
       /\ e2eActor[n] # None => NoneIsNew
       /\ ~e2eOff[n] => ~E2EOff /\ \E b \in Nic : HostOf[b] = n /\ Role[b] = "e2e"
  /\ \A b \in Nic : Role[b] = "e2e" =>
       /\ pc[b] \in {"new", "daemonized", "wait", "killed"}
       /\ pc[b] = "killed" => E2EOff
       /\ pc[b] = "wait" => e2eActor[HostOf[b]] # None

\* The users of a host that took a local rank
Entered(n) == {v \in User : HostOf[v] = n /\ pc[v] \notin {"new", "e2e_off", "constructed"}}
RanksOK ==
  /\ localRank \in [User -> Nat \cup {None}]
  /\ localRanks \in [Host -> Nat \cup {None}]
  /\ \A n \in Host :
       /\ Cardinality(Entered(n)) = IF localRanks[n] = None THEN 0 ELSE localRanks[n] + 1
       /\ {localRank[v] : v \in Entered(n)} = 0 .. Cardinality(Entered(n)) - 1

Published ==
  \A u \in User : pc[u] \in {"published"} \cup Phase2 \cup Phase3 => u \in defaultNi

\* The places where an application has an interface, open or closing
Open    == {"opened1", "close1", "published", "ask", "PtlNIFini"}
Closing == {"drained1", "drained"}

Interface == [owner : User, node : Host, pid : Nat, closing : BOOLEAN]
NisOK ==
  /\ nis \subseteq Interface
  /\ \A x \in nis : x.node = HostOf[x.owner]
  /\ \A x, y \in nis : x.owner = y.owner => x = y
  /\ \A x \in nis : pc[x.owner] \in IF x.closing THEN Closing ELSE Open
  /\ \A u \in User : pc[u] \in Open \cup Closing => \E x \in nis : x.owner = u

PidsOK ==
  /\ usedPids \in [Host -> SUBSET Nat]
  /\ \A n \in Host : IsFiniteSet(usedPids[n])
  /\ \A x \in nis : ~x.closing => x.pid \in usedPids[x.node]
  /\ \A x, y \in nis :
       x # y /\ x.node = y.node /\ ~x.closing /\ ~y.closing => x.pid # y.pid

NodeInv == /\ NodeOK /\ QueuesOK /\ TakenOK /\ E2EOK
AppInv  == /\ RanksOK /\ Published /\ NisOK /\ PidsOK

-----------------------------------------------------------------------------
(***************************************************************************)
(* What the steps are to SimGrid: a turn of a user actor inside a phase, a *)
(* turn of a NIC actor, a meeting at a barrier, or a step of the kernel.   *)
(***************************************************************************)
UserTurn(u) ==
  \E p, q \in UserPlace, s \in SchedState :
    /\ Turn(u, p, q, s)
    /\ Passed(q) = Passed(p) /\ q # "new"
    /\ p = "new" => q \in {"e2e_off", "constructed"}
    /\ s \in {"ready", "asleep"} \/ (s = "dead" /\ q = "done")
    /\ q = "done" => s = "dead"
    /\ q = "PtlInit" => s = "asleep"
    /\ q \in AfterInit => p = "PtlInit" \/ p \in AfterInit

NicTurn(a) ==
  \E p, q \in NicPlace, s \in SchedState :
    /\ Turn(a, p, q, s)
    /\ q # "new"
    /\ p = "new" => q \in {"daemonized", "killed"}
    /\ s \in {"ready", "idle"} \/ (s = "dead" /\ q = "killed")
    /\ q = "daemonized" => s = "ready" /\ p = "new"

Meet(u) == \/ BarrierWait(u, "set_up", "start")
           \/ BarrierWait(u, "published", "ask")
           \/ BarrierWait(u, "drained", "end")

Panic(u) ==
  /\ u \in todo /\ pc[u] \in {"open1", "PtlNIInit"}
  /\ todo' = {}
  /\ pc' = [pc EXCEPT ![u] = "panic"]
  /\ sched' = [a \in Actor |-> "dead"]

KernelInv == /\ KernelOK /\ FirstRound /\ SecondRound /\ Deaths
             /\ Phases /\ KilledLate /\ Woken

LEMMA TurnFacts ==
  ASSUME KernelOK, NEW a \in Actor, NEW p, NEW q \in UserPlace \cup NicPlace,
         NEW s \in SchedState, Turn(a, p, q, s)
  PROVE  /\ a \in todo /\ sched[a] = "running" /\ pc[a] = p
         /\ todo' = todo \ {a} /\ todo' \subseteq Actor
         /\ pc'[a] = q /\ sched'[a] = s
         /\ \A b \in Actor \ {a} : pc'[b] = pc[b] /\ sched'[b] = sched[b]
         /\ pc' \in [Actor -> UserPlace \cup NicPlace] /\ sched' \in [Actor -> SchedState]
  BY DEF Turn, KernelOK

LEMMA Disjoint ==
  /\ User \cap Nic = {} /\ User \subseteq Actor /\ Nic \subseteq Actor
  /\ \A a \in Actor : a \in User \/ a \in Nic
  BY StartupAssumption DEF Actor

\* A turn of a user actor inside a phase keeps the rounds in order.
LEMMA UserTurnKernel ==
  ASSUME KernelInv, NEW u \in User, UserTurn(u)
  PROVE  KernelInv'
<1> USE Disjoint
<1>1. PICK p \in UserPlace, q \in UserPlace, s \in SchedState :
        /\ Turn(u, p, q, s)
        /\ Passed(q) = Passed(p) /\ q # "new"
        /\ p = "new" => q \in {"e2e_off", "constructed"}
        /\ s \in {"ready", "asleep"} \/ (s = "dead" /\ q = "done")
        /\ q = "done" => s = "dead"
        /\ q = "PtlInit" => s = "asleep"
        /\ q \in AfterInit => p = "PtlInit" \/ p \in AfterInit
  BY DEF UserTurn
<1>0. /\ KernelOK /\ FirstRound /\ SecondRound /\ Deaths /\ Phases /\ KilledLate /\ Woken
      /\ u \in Actor
  BY DEF KernelInv
<1>2. /\ u \in todo /\ sched[u] = "running" /\ pc[u] = p
      /\ todo' = todo \ {u} /\ todo' \subseteq Actor
      /\ pc'[u] = q /\ sched'[u] = s
      /\ \A b \in Actor \ {u} : pc'[b] = pc[b] /\ sched'[b] = sched[b]
      /\ pc' \in [Actor -> UserPlace \cup NicPlace] /\ sched' \in [Actor -> SchedState]
  BY <1>0, <1>1, TurnFacts
<1>3. s \notin {"running", "barrier"}
  BY <1>1
<1>4. KernelOK'
  BY <1>0, <1>1, <1>2, <1>3 DEF KernelOK
<1>5. FirstRound'
  BY <1>0, <1>1, <1>2 DEF FirstRound
<1>6. SecondRound'
  BY <1>0, <1>2 DEF SecondRound
<1>7. \A a \in Actor : sched[a] = "dead" => pc[a] \in {"done", "killed"}
  BY <1>0, <1>2 DEF Deaths
<1>8. Deaths'
  BY <1>0, <1>1, <1>2, <1>7 DEF Deaths
<1>9. \A v \in User : InPlay(v) /\ (InPlay(v))'
  BY <1>0, <1>1, <1>2, <1>7 DEF InPlay, KernelOK, UserPlace, Phase0, Phase1, Phase2, Phase3
<1>10. \A v \in User : (Waits(v))' = Waits(v) /\ Passed(pc'[v]) = Passed(pc[v])
  BY <1>1, <1>2, <1>3 DEF Waits
<1>11. Phases'
  BY <1>0, <1>9, <1>10 DEF Phases
<1>12. KilledLate'
  BY <1>9 DEF KilledLate
<1>13. Woken'
  BY <1>0, <1>1, <1>2 DEF Woken
<1> QED BY <1>4, <1>5, <1>6, <1>8, <1>11, <1>12, <1>13 DEF KernelInv

LEMMA NicTurnKernel ==
  ASSUME KernelInv, NEW a \in Nic, NicTurn(a)
  PROVE  KernelInv'
<1> USE Disjoint
<1>1. PICK p \in NicPlace, q \in NicPlace, s \in SchedState :
        /\ Turn(a, p, q, s)
        /\ q # "new"
        /\ p = "new" => q \in {"daemonized", "killed"}
        /\ s \in {"ready", "idle"} \/ (s = "dead" /\ q = "killed")
        /\ q = "daemonized" => s = "ready" /\ p = "new"
  BY DEF NicTurn
<1>0. /\ KernelOK /\ FirstRound /\ SecondRound /\ Deaths /\ Phases /\ KilledLate /\ Woken
      /\ a \in Actor
  BY DEF KernelInv
<1>2. /\ a \in todo /\ sched[a] = "running" /\ pc[a] = p
      /\ todo' = todo \ {a} /\ todo' \subseteq Actor
      /\ pc'[a] = q /\ sched'[a] = s
      /\ \A b \in Actor \ {a} : pc'[b] = pc[b] /\ sched'[b] = sched[b]
      /\ pc' \in [Actor -> UserPlace \cup NicPlace] /\ sched' \in [Actor -> SchedState]
  BY <1>0, <1>1, TurnFacts
<1>3. s \notin {"running", "barrier", "asleep"}
  BY <1>1
<1>u. \A u \in User : pc'[u] = pc[u] /\ sched'[u] = sched[u] /\ (u \in todo' <=> u \in todo)
  BY <1>2
<1>4. KernelOK'
  BY <1>0, <1>1, <1>2, <1>3 DEF KernelOK
<1>5. FirstRound'
  BY <1>0, <1>1, <1>2 DEF FirstRound
<1>6. SecondRound'
  BY <1>0, <1>1, <1>2 DEF SecondRound
<1>7. \A b \in Actor : sched[b] = "dead" => pc[b] \in {"done", "killed"}
  BY <1>0, <1>2 DEF Deaths
<1>8. Deaths'
  BY <1>0, <1>1, <1>2, <1>7 DEF Deaths
<1>9. Phases' /\ KilledLate'
  BY <1>0, <1>u DEF Phases, KilledLate, InPlay, Waits
<1>10. Woken'
  BY <1>0, <1>1, <1>2, <1>u DEF Woken
<1> QED BY <1>4, <1>5, <1>6, <1>8, <1>9, <1>10 DEF KernelInv

\* The barrier lets its waiters go when all others wait.
LEMMA MeetKernel ==
  ASSUME KernelInv, BarrierOK, NEW u \in User, Meet(u)
  PROVE  KernelInv'
<1> USE Disjoint
<1>0. /\ KernelOK /\ FirstRound /\ SecondRound /\ Deaths /\ Phases /\ KilledLate /\ Woken
      /\ u \in Actor
  BY DEF KernelInv
<1>1. PICK p \in {"set_up", "published", "drained"}, q \in {"start", "ask", "end"} :
        /\ BarrierWait(u, p, q) /\ Passed(q) = Passed(p) + 1
        /\ q \in AfterInit => p \in AfterInit
  BY DEF Meet, Passed, AfterInit, Phase0, Phase1, Phase2, Phase3
<1> DEFINE waiting == In("barrier")
<1>2. /\ u \in todo /\ pc[u] = p /\ todo' = todo \ {u}
      /\ pc' = [pc EXCEPT ![u] = q]
      /\ sched' = [b \in Actor |->
                     IF Cardinality(waiting) + 1 < barrier
                     THEN IF b = u THEN "barrier" ELSE sched[b]
                     ELSE IF b \in waiting \cup {u} THEN "ready" ELSE sched[b]]
  BY <1>1 DEF BarrierWait
<1>3. sched[u] = "running" /\ waiting \subseteq User \ {u}
  BY <1>0, <1>2 DEF KernelOK, In
<1>b. barrier = Cardinality(User)
  BY <1>1, <1>2 DEF BarrierOK
<1>4. \/ sched' = [sched EXCEPT ![u] = "barrier"]
      \/ /\ waiting = User \ {u}
         /\ sched' = [b \in Actor |-> IF b \in User THEN "ready" ELSE sched[b]]
  <2>1. CASE Cardinality(waiting) + 1 < barrier
    BY <1>0, <1>2, <2>1 DEF KernelOK
  <2>2. CASE ~(Cardinality(waiting) + 1 < barrier)
    <3>1. IsFiniteSet(User)
      BY StartupAssumption
    <3>2. IsFiniteSet(User \ {u}) /\ Cardinality(User \ {u}) = Cardinality(User) - 1
      BY <3>1, FS_RemoveElement
    <3>3. waiting \in SUBSET (User \ {u})
      BY <1>3
    <3>4. /\ IsFiniteSet(waiting) /\ Cardinality(waiting) <= Cardinality(User \ {u})
          /\ Cardinality(User \ {u}) = Cardinality(waiting) => waiting = User \ {u}
      BY <3>2, <3>3, FS_Subset
    <3>5. Cardinality(User) \in Nat /\ Cardinality(waiting) \in Nat
      BY <3>1, <3>4, FS_CardinalityType
    <3>6. waiting = User \ {u}
      BY <3>2, <3>4, <3>5, <2>2, <1>b
    <3>7. sched' = [b \in Actor |-> IF b \in waiting \cup {u} THEN "ready" ELSE sched[b]]
      BY <1>2, <2>2
    <3>8. waiting \cup {u} = User
      BY <3>6
    <3> QED BY <3>6, <3>7, <3>8
  <2> QED BY <2>1, <2>2
<1>5. /\ pc'[u] = q /\ \A b \in Actor \ {u} : pc'[b] = pc[b]
      /\ pc' \in [Actor -> UserPlace \cup NicPlace]
  BY <1>0, <1>2 DEF KernelOK, UserPlace, Phase1, Phase2, Phase3
<1>6. /\ sched' \in [Actor -> SchedState] /\ \A a \in Nic : sched'[a] = sched[a]
      /\ sched'[u] \in {"ready", "barrier"}
      /\ \A v \in User : sched'[v] \in {sched[v], "ready", "barrier"}
  BY <1>0, <1>4 DEF KernelOK, SchedState
<1>7. \A a \in Actor : (a \in todo' <=> sched'[a] = "running") /\ todo' \subseteq Actor
  BY <1>0, <1>2, <1>3, <1>4 DEF KernelOK, In
<1>8. KernelOK'
  BY <1>0, <1>5, <1>6, <1>7 DEF KernelOK, UserPlace, Phase1, Phase2, Phase3
<1>9. FirstRound'
  <2>1. \A a \in Actor : pc[a] # "new"
    BY <1>0, <1>2, <1>1 DEF FirstRound
  <2> QED BY <2>1, <1>5 DEF FirstRound
<1>10. SecondRound'
  BY <1>0, <1>5, <1>6 DEF SecondRound
<1>11. \A a \in Actor : sched[a] = "dead" => pc[a] \in {"done", "killed"}
  BY <1>0, <1>3 DEF Deaths
<1>12. \A a \in Actor : a # u => (sched'[a] = "dead" <=> sched[a] = "dead")
  BY <1>0, <1>4, <1>3 DEF KernelOK, In, Deaths
<1>13. Deaths'
  BY <1>0, <1>5, <1>6, <1>11, <1>12 DEF Deaths
<1>14. \A v \in User : InPlay(v) /\ (InPlay(v))'
  BY <1>0, <1>5, <1>6, <1>11, <1>12 DEF InPlay, KernelOK, UserPlace, Phase0, Phase1, Phase2, Phase3
<1>15. KilledLate'
  BY <1>14 DEF KilledLate
<1>16. Woken'
  <2>1. \A v \in User : pc'[v] = "PtlInit" => v # u /\ ~Waits(v)
    BY <1>0, <1>1, <1>5 DEF Woken, Waits
  <2>2. \A v \in User : v # u /\ ~Waits(v) => sched'[v] = sched[v]
    BY <1>0, <1>4 DEF Waits, In, KernelOK
  <2> QED BY <2>1, <2>2, <1>0, <1>1, <1>2, <1>5 DEF Woken
<1>17. Phases'
  <2>n. \A v \in User : Passed(pc[v]) \in 0 .. 3
    BY DEF Passed
  <2>1. CASE sched' = [sched EXCEPT ![u] = "barrier"]
    <3>1. (Waits(u))' /\ ~Waits(u) /\ \A v \in User \ {u} : (Waits(v))' = Waits(v)
      BY <2>1, <1>0, <1>3 DEF Waits, KernelOK
    <3> SUFFICES ASSUME NEW v \in User, NEW w \in User
                 PROVE  /\ ((Waits(v))' <=> (Waits(w))') => Passed(pc'[v]) = Passed(pc'[w])
                        /\ (Waits(w))' /\ ~(Waits(v))' => Passed(pc'[w]) = Passed(pc'[v]) + 1
      BY DEF Phases
    <3>2. /\ (Waits(v) <=> Waits(w)) => Passed(pc[v]) = Passed(pc[w])
          /\ Waits(w) /\ ~Waits(v) => Passed(pc[w]) = Passed(pc[v]) + 1
          /\ (Waits(v) <=> Waits(u)) => Passed(pc[v]) = Passed(pc[u])
          /\ Waits(v) /\ ~Waits(u) => Passed(pc[v]) = Passed(pc[u]) + 1
          /\ (Waits(w) <=> Waits(u)) => Passed(pc[w]) = Passed(pc[u])
          /\ Waits(w) /\ ~Waits(u) => Passed(pc[w]) = Passed(pc[u]) + 1
      BY <1>0, <1>14 DEF Phases
    <3>3. Passed(pc'[u]) = Passed(pc[u]) + 1
      BY <1>1, <1>2, <1>5
    <3>4. \A x \in User \ {u} : Passed(pc'[x]) = Passed(pc[x])
      BY <1>5
    <3>5. CASE v = u /\ w = u
      BY <3>5
    <3>6. CASE v = u /\ w # u
      BY <3>1, <3>2, <3>3, <3>4, <3>6, <2>n
    <3>7. CASE v # u /\ w = u
      BY <3>1, <3>2, <3>3, <3>4, <3>7, <2>n
    <3>8. CASE v # u /\ w # u
      BY <3>1, <3>2, <3>4, <3>8
    <3> QED BY <3>5, <3>6, <3>7, <3>8
  <2>2. CASE /\ waiting = User \ {u}
             /\ sched' = [b \in Actor |-> IF b \in User THEN "ready" ELSE sched[b]]
    <3>1. \A v \in User : ~(Waits(v))'
      BY <2>2 DEF Waits
    <3>2. \A v \in User \ {u} : Waits(v)
      BY <2>2 DEF Waits, In
    <3>3. \A v \in User \ {u} : Passed(pc[v]) = Passed(pc[u]) + 1
      BY <3>2, <1>0, <1>3, <1>14 DEF Phases, Waits
    <3>4. \A v \in User : Passed(pc'[v]) = Passed(pc[u]) + 1
      BY <3>3, <1>1, <1>2, <1>5
    <3> QED BY <3>1, <3>4 DEF Phases
  <2> QED BY <1>4, <2>1, <2>2
<1> QED BY <1>8, <1>9, <1>10, <1>13, <1>15, <1>16, <1>17 DEF KernelInv

\* A pid in use ends the simulation, in a phase that all have reached.
LEMMA PanicKernel ==
  ASSUME KernelInv, NEW u \in User, Panic(u)
  PROVE  KernelInv'
<1> USE Disjoint
<1>0. /\ KernelOK /\ FirstRound /\ SecondRound /\ Deaths /\ Phases /\ KilledLate /\ Woken
      /\ u \in Actor
  BY DEF KernelInv
<1>1. /\ u \in todo /\ pc[u] \in {"open1", "PtlNIInit"} /\ todo' = {}
      /\ pc' = [pc EXCEPT ![u] = "panic"]
  BY DEF Panic
<1>2. /\ sched' \in [Actor -> SchedState] /\ \A a \in Actor : sched'[a] = "dead"
      /\ sched[u] = "running"
  BY <1>0, <1>1 DEF Panic, SchedState, KernelOK
<1>3. /\ pc'[u] = "panic" /\ \A b \in Actor \ {u} : pc'[b] = pc[b]
      /\ pc' \in [Actor -> UserPlace \cup NicPlace]
  BY <1>0, <1>1 DEF KernelOK, UserPlace, Phase1
<1>4. KernelOK'
  BY <1>0, <1>1, <1>2, <1>3 DEF KernelOK, UserPlace, Phase1
<1>5. FirstRound' /\ SecondRound'
  BY <1>0, <1>1, <1>2, <1>3 DEF FirstRound, SecondRound
<1>6. Deaths'
  BY <1>2 DEF Deaths
<1>7. \A v \in User : InPlay(v)
  BY <1>0, <1>2 DEF Deaths, InPlay, KernelOK, UserPlace, Phase0, Phase1, Phase2, Phase3
<1>8. \A v \in User : Passed(pc'[v]) > 0
  <2>1. Passed(pc[u]) = 1 /\ Passed(pc'[u]) = 1
    BY <1>1, <1>3 DEF Passed, Phase0, Phase1
  <2>2. \A v \in User : Passed(pc[v]) \in {Passed(pc[u]), Passed(pc[u]) + 1}
    BY <1>0, <1>2, <1>7 DEF Phases, Waits
  <2> QED BY <2>1, <2>2, <1>3
<1>9. KilledLate'
  BY <1>8 DEF KilledLate
<1>10. Phases'
  BY <1>2 DEF Phases, InPlay, Waits
<1>11. Woken'
  BY <1>0, <1>1, <1>2, <1>3 DEF Woken, AfterInit
<1> QED BY <1>4, <1>5, <1>6, <1>9, <1>10, <1>11 DEF KernelInv

\* A new round, or a time when some sleeps end
LEMMA RoundKernel ==
  ASSUME KernelInv, NextRound \/ Advance
  PROVE  KernelInv'
<1> USE Disjoint
<1>0. /\ KernelOK /\ FirstRound /\ SecondRound /\ Deaths /\ Phases /\ KilledLate /\ Woken
  BY DEF KernelInv
<1>1. PICK S \in SUBSET Actor :
        /\ todo = {} /\ todo' = S /\ pc' = pc
        /\ sched' = [a \in Actor |-> IF a \in S THEN "running" ELSE sched[a]]
        /\ \/ S = In("ready")
           \/ S \subseteq In("asleep") /\ In("ready") = {}
  <2>1. CASE NextRound
    <3>1. sched' = [a \in Actor |-> IF a \in In("ready") THEN "running" ELSE sched[a]]
      BY <2>1 DEF NextRound, In
    <3> QED BY <2>1, <3>1 DEF NextRound, In
  <2>2. CASE Advance
    BY <2>2 DEF Advance, In
  <2> QED BY <2>1, <2>2
<1>2. /\ sched' \in [Actor -> SchedState]
      /\ \A a \in Actor : /\ a \in S => sched'[a] = "running" /\ sched[a] \in {"ready", "asleep"}
                          /\ a \notin S => sched'[a] = sched[a]
                          /\ sched[a] # "running"
  BY <1>0, <1>1 DEF KernelOK, In, SchedState
<1>3. KernelOK'
  BY <1>0, <1>1, <1>2 DEF KernelOK
<1>4. \A a \in Actor : pc[a] # "new"
  BY <1>0, <1>1 DEF FirstRound
<1>5. FirstRound' /\ SecondRound'
  BY <1>0, <1>1, <1>2, <1>4 DEF FirstRound, SecondRound
<1>6. Deaths'
  BY <1>0, <1>1, <1>2 DEF Deaths
<1>7. \A u \in User : (InPlay(u))' = InPlay(u) /\ (Waits(u))' = Waits(u)
  BY <1>1, <1>2 DEF InPlay, Waits
<1>8. Phases' /\ KilledLate'
  BY <1>0, <1>1, <1>7 DEF Phases, KilledLate
<1>9. Woken'
  <2>1. ASSUME NEW u \in User, NEW a \in Nic, pc[u] = "PtlInit", u \in S
        PROVE  pc[a] \notin {"new", "daemonized"}
    <3>1. sched[u] = "asleep" /\ In("ready") = {}
      BY <2>1, <1>0, <1>1, <1>2 DEF Woken, In
    <3>2. pc[a] = "daemonized" => sched[a] = "dead"
      BY <3>1, <1>0, <1>2 DEF SecondRound, In
    <3>3. sched[a] = "dead" /\ pc[a] = "daemonized" => sched[u] = "dead"
      BY <1>0 DEF Deaths
    <3> QED BY <3>1, <3>2, <3>3, <1>4
  <2> QED BY <2>1, <1>0, <1>1, <1>2 DEF Woken
<1> QED BY <1>3, <1>5, <1>6, <1>8, <1>9 DEF KernelInv

\* The last actor that is not a daemon has passed all barriers.
LEMMA KillKernel ==
  ASSUME KernelInv, KillDaemons
  PROVE  KernelInv'
<1> USE Disjoint
<1>0. /\ KernelOK /\ FirstRound /\ SecondRound /\ Deaths /\ Phases /\ KilledLate /\ Woken
  BY DEF KernelInv
<1>1. todo = {} /\ todo' = todo /\ pc' = pc
  BY DEF KillDaemons
<1>2. sched' \in [Actor -> SchedState] /\ \A a \in Actor : sched'[a] = "dead"
  BY DEF KillDaemons, SchedState
<1>3. KernelOK'
  BY <1>0, <1>1, <1>2 DEF KernelOK
<1>4. FirstRound' /\ SecondRound' /\ Deaths'
  BY <1>0, <1>1, <1>2 DEF FirstRound, SecondRound, Deaths
<1>5. Phases'
  BY <1>2, <1>1 DEF Phases, InPlay, Waits
<1>6. KilledLate'
  <2> SUFFICES ASSUME Foreground PROVE KilledLate'
    BY DEF KilledLate
  <2>1. PICK d \in User : sched[d] = "dead"
    BY DEF Foreground, KillDaemons
  <2>2. ASSUME NEW v \in User PROVE Passed(pc[v]) > 0
    <3>1. CASE ~InPlay(d) \/ ~InPlay(v)
      BY <3>1, <1>0 DEF KilledLate
    <3>2. CASE InPlay(d) /\ InPlay(v)
      <4>1. pc[d] = "done" /\ ~Waits(d)
        BY <2>1, <3>2 DEF InPlay, Waits
      <4>2. Passed(pc[d]) = 3
        BY <4>1 DEF Passed, Phase0, Phase1, Phase2
      <4>3. Passed(pc[v]) \in {3, 4}
        BY <3>2, <4>1, <4>2, <1>0 DEF Phases
      <4> QED BY <4>3
    <3> QED BY <3>1, <3>2
  <2> QED BY <2>2, <1>1 DEF KilledLate
<1>7. Woken'
  BY <1>0, <1>1, <1>2 DEF Woken
<1> QED BY <1>3, <1>4, <1>5, <1>6, <1>7 DEF KernelInv

-----------------------------------------------------------------------------
(***************************************************************************)
(* Every action is one of those steps.                                     *)
(***************************************************************************)
LEMMA NicStepKind ==
  ASSUME NEW a \in Nic, NicStep(a)
  PROVE  NicTurn(a)
<1> USE DEF NicPlace, SchedState
<1>1. CASE NicConstruct(a)
  BY <1>1 DEF NicConstruct, NicTurn
<1>2. CASE Initiator(a)
  BY <1>2 DEF Initiator, NicTurn
<1>3. CASE TargetLooks(a)
  BY <1>3 DEF TargetLooks, NicTurn
<1>4. CASE TargetLooksAgain(a)
  <2>1. Turn(a, "looked", "looked", "ready") \/ Turn(a, "looked", "get", "idle")
    BY <1>4 DEF TargetLooksAgain
  <2> QED BY <2>1 DEF NicTurn
<1>5. CASE E2EConstruct(a)
  <2>1. Turn(a, "new", "killed", "dead") \/ Turn(a, "new", "daemonized", "ready")
    BY <1>5 DEF E2EConstruct
  <2> QED BY <2>1 DEF NicTurn
<1>6. CASE E2ERegister(a)
  BY <1>6 DEF E2ERegister, NicTurn
<1> QED BY <1>1, <1>2, <1>3, <1>4, <1>5, <1>6 DEF NicStep

\* A user turn, from the places where it begins and ends
LEMMA UserTurnIs ==
  ASSUME NEW u \in User, NEW p \in UserPlace, NEW q \in UserPlace,
         NEW s \in {"ready", "asleep", "dead"}, Turn(u, p, q, s),
         Passed(q) = Passed(p), q # "new",
         p = "new" => q \in {"e2e_off", "constructed"},
         s = "dead" <=> q = "done",
         q = "PtlInit" => s = "asleep",
         q \in AfterInit => p = "PtlInit" \/ p \in AfterInit
  PROVE  UserTurn(u)
  BY DEF UserTurn, SchedState

LEMMA UserStepKind ==
  ASSUME NEW u \in User, UserStep(u)
  PROVE  UserTurn(u) \/ Meet(u) \/ Panic(u)
<1> USE DEF UserPlace, Phase0, Phase1, Phase2, Phase3, AfterInit, Passed
<1>c. Command(u) \in {"ready", "asleep"}
  BY DEF Command
<1>1. CASE Construct(u) \/ ConstructDaemon(u) \/ Enter(u) \/ SetupBarrier(u)
  <2>1. PICK p \in Phase0, q \in {"e2e_off", "constructed", "yielded", "set_up"} :
          Turn(u, p, q, "ready") /\ (p = "new" => q \in {"e2e_off", "constructed"})
    BY <1>1 DEF Construct, ConstructDaemon, Enter, SetupBarrier
  <2> QED BY <2>1, UserTurnIs
<1>2. CASE Load(u) \/ Publish(u) \/ AppEnd(u)
  BY <1>2 DEF Load, Publish, AppEnd, Meet
<1>3. CASE DelayStart(u) \/ PtlInit(u)
  <2>1. PICK p \in {"start", "delayed"}, q \in {"delayed", "PtlInit"} : Turn(u, p, q, "asleep")
    BY <1>3 DEF DelayStart, PtlInit
  <2> QED BY <2>1, UserTurnIs
<1>4. CASE PtlInitEnd(u)
  <2>1. PICK q \in {"open1", "PtlNIInit"} : Turn(u, "PtlInit", q, Command(u))
    BY <1>4 DEF PtlInitEnd
  <2>2. PICK s \in {"ready", "asleep"} : s = Command(u)
    BY <1>c
  <2>3. Turn(u, "PtlInit", q, s)
    BY <2>1, <2>2 DEF Turn
  <2> QED BY <2>3, UserTurnIs
<1>5. CASE PtlNIInit(u)
  <2>1. Turn(u, "open1", "opened1", "ready") \/ Turn(u, "PtlNIInit", "published", "ready")
    BY <1>5 DEF PtlNIInit, Opening
  <2> QED BY <2>1, UserTurnIs
<1>6. CASE PtlNIInitPanic(u)
  BY <1>6 DEF PtlNIInitPanic, Panic
<1>7. CASE Ask(u) \/ Reopen(u)
  <2>2. PICK s \in {"ready", "asleep"} : s = Command(u)
    BY <1>c
  <2>1. \/ Turn(u, "ask", "PtlNIFini", s) \/ Turn(u, "opened1", "close1", s)
        \/ Turn(u, "drained1", "PtlNIInit", s)
    BY <1>7, <2>2 DEF Ask, Reopen, Turn
  <2> QED BY <2>1, UserTurnIs
<1>8. CASE PtlNIFini(u)
  <2>1. Turn(u, "PtlNIFini", "drained", "asleep") \/ Turn(u, "close1", "drained1", "asleep")
    BY <1>8 DEF PtlNIFini
  <2> QED BY <2>1, UserTurnIs
<1>9. CASE Exit(u)
  BY <1>9, UserTurnIs DEF Exit
<1> QED BY <1>1, <1>2, <1>3, <1>4, <1>5, <1>6, <1>7, <1>8, <1>9 DEF UserStep

-----------------------------------------------------------------------------
(***************************************************************************)
(* The registered actors and the barrier.                                  *)
(***************************************************************************)
\* The actor a goes from p to q.
Moves(a, p, q) == pc[a] = p /\ pc' = [pc EXCEPT ![a] = q]

LEMMA MovesFacts ==
  ASSUME KernelOK, NEW a \in Actor, NEW p, NEW q, Moves(a, p, q)
  PROVE  pc[a] = p /\ pc'[a] = q /\ \A b \in Actor \ {a} : pc'[b] = pc[b]
  BY DEF Moves, KernelOK

LEMMA PassedIsNat ==
  ASSUME NEW p PROVE Passed(p) \in Nat
  BY DEF Passed

\* A step that registers nobody, loads nothing and creates no barrier
LEMMA RegisteredStays ==
  ASSUME Registered, BarrierOK, KernelOK, NEW a \in Actor, NEW p, NEW q, Moves(a, p, q),
         UNCHANGED <<actors, loaded, barrier>>,
         a \in User => /\ (p = "new" <=> q = "new") /\ (Passed(p) > 0 <=> Passed(q) > 0)
                       /\ q \in {"new", "e2e_off", "constructed", "yielded"}
                           \/ p \notin {"new", "e2e_off", "constructed", "yielded"}
  PROVE  Registered' /\ BarrierOK'
<1>1. pc[a] = p /\ pc'[a] = q /\ \A b \in Actor \ {a} : pc'[b] = pc[b]
  BY MovesFacts
<1>2. \A u \in User :
        /\ pc'[u] = "new" <=> pc[u] = "new"
        /\ Passed(pc'[u]) > 0 <=> Passed(pc[u]) > 0
        /\ pc'[u] \notin {"new", "e2e_off", "constructed", "yielded"}
             => pc[u] \notin {"new", "e2e_off", "constructed", "yielded"}
  <2> SUFFICES ASSUME NEW u \in User
               PROVE  /\ pc'[u] = "new" <=> pc[u] = "new"
                      /\ Passed(pc'[u]) > 0 <=> Passed(pc[u]) > 0
                      /\ pc'[u] \notin {"new", "e2e_off", "constructed", "yielded"}
                          => pc[u] \notin {"new", "e2e_off", "constructed", "yielded"}
    OBVIOUS
  <2>1. CASE u = a
    BY <1>1, <2>1
  <2>2. CASE u # a
    <3>1. pc'[u] = pc[u]
      BY <1>1, <2>2, Disjoint
    <3> QED BY <3>1
  <2> QED BY <2>1, <2>2
<1>3. actors' = {u \in User : pc'[u] # "new"}
  BY <1>2 DEF Registered
<1>4. loaded' = {u \in User : Passed(pc'[u]) > 0}
  BY <1>2 DEF Registered
<1>5. BarrierOK'
  BY <1>2 DEF BarrierOK
<1> QED BY <1>3, <1>4, <1>5 DEF Registered

LEMMA RegisteredStep ==
  ASSUME RoundInv, Next
  PROVE  Registered' /\ BarrierOK'
<1> USE Disjoint
<1>0. KernelOK /\ FirstRound /\ BarrierOK /\ Registered
  BY DEF RoundInv
<1>1. CASE NextRound \/ Advance \/ KillDaemons
  <2>1. UNCHANGED <<pc, actors, loaded, barrier>>
    BY <1>1 DEF NextRound, Advance, KillDaemons, rankVars
  <2> QED BY <2>1, <1>0 DEF Registered, BarrierOK
<1>2. ASSUME NEW a \in Nic, NicStep(a) PROVE Registered' /\ BarrierOK'
  <2>1. UNCHANGED <<actors, loaded, barrier>>
    BY <1>2 DEF NicStep, NicConstruct, Initiator, TargetLooks, TargetLooksAgain,
                E2EConstruct, E2ERegister, rankVars
  <2>2. PICK p, q : Moves(a, p, q)
    BY <1>2, NicStepKind DEF NicTurn, Turn, Moves
  <2> QED BY <2>1, <2>2, <1>0, RegisteredStays
<1>3. ASSUME NEW u \in User, UserStep(u) PROVE Registered' /\ BarrierOK'
  <2> USE DEF Passed, Phase0, Phase1, Phase2, Phase3
  <2>1. CASE Construct(u)
    <3>1. PICK q \in {"e2e_off", "constructed"} : Moves(u, "new", q)
      BY <2>1 DEF Construct, Turn, Moves
    <3>2. pc[u] = "new" /\ pc'[u] = q /\ \A b \in Actor \ {u} : pc'[b] = pc[b]
      BY <3>1, <1>0, MovesFacts
    <3>3. actors' = actors \cup {u} /\ UNCHANGED <<barrier, loaded>>
      BY <2>1 DEF Construct
    <3>4. actors' = {v \in User : pc'[v] # "new"}
      BY <3>2, <3>3, <1>0 DEF Registered
    <3>5. \A v \in User : Passed(pc'[v]) = Passed(pc[v])
      BY <3>2
    <3>6. loaded' = {v \in User : Passed(pc'[v]) > 0}
      BY <3>3, <3>5, <1>0 DEF Registered
    <3>7. barrier = None
      BY <3>2, <1>0 DEF BarrierOK, Registered
    <3>8. \A v \in User : pc[v] \in {"new", "e2e_off", "constructed", "yielded"}
      BY <3>7, <1>0 DEF BarrierOK
    <3> QED BY <3>2, <3>3, <3>4, <3>6, <3>7, <3>8 DEF Registered, BarrierOK
  <2>2. CASE SetupBarrier(u)
    <3>1. /\ Moves(u, "yielded", "set_up") /\ u \in todo
          /\ barrier' = IF barrier = None THEN Cardinality(actors) ELSE barrier
          /\ UNCHANGED <<actors, loaded>>
      BY <2>2 DEF SetupBarrier, Turn, Moves, rankVars
    <3>2. pc[u] = "yielded" /\ pc'[u] = "set_up" /\ \A b \in Actor \ {u} : pc'[b] = pc[b]
      BY <3>1, <1>0, MovesFacts
    <3>3. \A v \in User : pc[v] # "new"
      BY <3>1, <3>2, <1>0 DEF FirstRound
    <3>4. actors = User
      BY <3>3, <1>0 DEF Registered
    <3>5. Cardinality(User) \in Nat /\ None \notin Nat
      BY StartupAssumption, FS_CardinalityType
    <3>6. barrier' = Cardinality(User) /\ barrier' # None
      BY <3>1, <3>4, <3>5, <1>0 DEF BarrierOK
    <3>7. \A v \in User : Passed(pc'[v]) = Passed(pc[v]) /\ pc'[v] # "new"
      BY <3>2, <3>3
    <3> QED BY <3>1, <3>4, <3>6, <3>7, <1>0 DEF Registered, BarrierOK
  <2>3. CASE Load(u)
    <3>1. /\ Moves(u, "set_up", "start") /\ loaded' = loaded \cup {u}
          /\ UNCHANGED <<actors, barrier>>
      BY <2>3 DEF Load, BarrierWait, Moves, rankVars
    <3>2. pc[u] = "set_up" /\ pc'[u] = "start" /\ \A b \in Actor \ {u} : pc'[b] = pc[b]
      BY <3>1, <1>0, MovesFacts
    <3>3. loaded' = {v \in User : Passed(pc'[v]) > 0}
      BY <3>1, <3>2, <1>0 DEF Registered
    <3>4. actors' = {v \in User : pc'[v] # "new"}
      BY <3>1, <3>2, <1>0 DEF Registered
    <3>5. BarrierOK'
      BY <3>1, <3>2, <1>0 DEF BarrierOK
    <3> QED BY <3>3, <3>4, <3>5 DEF Registered
  <2>4. CASE ~(Construct(u) \/ SetupBarrier(u) \/ Load(u))
    <3>1. UNCHANGED <<actors, loaded, barrier>>
      BY <1>3, <2>4 DEF UserStep, ConstructDaemon, Enter, DelayStart, PtlInit, PtlInitEnd,
         PtlNIInit, PtlNIInitPanic, Publish, Ask, PtlNIFini, Reopen, AppEnd, Exit, rankVars
    <3>2. PICK p, q :
            /\ Moves(u, p, q)
            /\ \/ p \in {"e2e_off", "constructed"} /\ q \in {"constructed", "yielded"}
               \/ p \in Phase1 \cup Phase2 \cup Phase3 /\ q \in Phase1 \cup Phase2 \cup Phase3
      <4>1. CASE ConstructDaemon(u) \/ Enter(u)
        BY <4>1 DEF ConstructDaemon, Enter, Turn, Moves
      <4>2. CASE DelayStart(u) \/ PtlInit(u) \/ PtlInitEnd(u)
        BY <4>2 DEF DelayStart, PtlInit, PtlInitEnd, Turn, Moves
      <4>3. CASE PtlNIInit(u) \/ PtlNIInitPanic(u)
        BY <4>3 DEF PtlNIInit, Opening, PtlNIInitPanic, Turn, Moves
      <4>4. CASE Publish(u) \/ AppEnd(u)
        BY <4>4 DEF Publish, AppEnd, BarrierWait, Moves
      <4>5. CASE Ask(u) \/ PtlNIFini(u) \/ Reopen(u) \/ Exit(u)
        BY <4>5 DEF Ask, PtlNIFini, Reopen, Exit, Turn, Moves
      <4> QED BY <1>3, <2>4, <4>1, <4>2, <4>3, <4>4, <4>5 DEF UserStep
    <3>3. /\ p # "new" /\ q # "new" /\ (Passed(p) > 0 <=> Passed(q) > 0)
          /\ q \in {"new", "e2e_off", "constructed", "yielded"}
              \/ p \notin {"new", "e2e_off", "constructed", "yielded"}
      BY <3>2
    <3> HIDE DEF Passed, Phase0, Phase1, Phase2, Phase3
    <3> QED BY <3>1, <3>2, <3>3, <1>0, RegisteredStays
  <2> QED BY <2>1, <2>2, <2>3, <2>4
<1> QED BY <1>1, <1>2, <1>3 DEF Next

-----------------------------------------------------------------------------
(***************************************************************************)
(* The rounds: no application starts early.                                *)
(***************************************************************************)
LEMMA RoundInit == Init => RoundInv
<1> SUFFICES ASSUME Init PROVE RoundInv
  OBVIOUS
<1> USE Disjoint
<1>1. KernelOK
  BY DEF Init, KernelOK, UserPlace, NicPlace, Phase0, SchedState
<1>2. FirstRound /\ SecondRound /\ Deaths /\ Woken
  BY DEF Init, FirstRound, SecondRound, Deaths, Woken, AfterInit, Phase2, Phase3
<1>3. Phases /\ KilledLate
  BY DEF Init, Phases, KilledLate, InPlay, Waits
<1>4. BarrierOK
  BY DEF Init, BarrierOK
<1>5. Registered
  BY DEF Init, Registered, Passed, Phase0
<1> QED BY <1>1, <1>2, <1>3, <1>4, <1>5 DEF RoundInv

LEMMA RoundNext ==
  ASSUME RoundInv, [Next]_vars
  PROVE  RoundInv'
<1>0. KernelInv /\ BarrierOK
  BY DEF RoundInv, KernelInv
<1>1. CASE Next
  <2>1. KernelInv'
    BY <1>0, <1>1, NicStepKind, UserStepKind, NicTurnKernel, UserTurnKernel, MeetKernel,
       PanicKernel, RoundKernel, KillKernel DEF Next
  <2> QED BY <1>1, <2>1, RegisteredStep DEF RoundInv, KernelInv
<1>2. CASE UNCHANGED vars
  BY <1>2 DEF vars, kernelVars, rankVars, RoundInv, KernelOK, FirstRound, SecondRound, Deaths, Phases,
     KilledLate, Woken, BarrierOK, Registered, InPlay, Waits
<1> QED BY <1>1, <1>2

\* The rounds are in order, for every deployment.
THEOREM RoundsInOrder == Spec => []RoundInv
<1>1. RoundInv /\ [Next]_vars => RoundInv'
  BY RoundNext
<1> QED BY <1>1, RoundInit, PTL DEF Spec

\* An application runs after a barrier that all had to reach.
LEMMA InAppFacts ==
  ASSUME Foreground, RoundInv, NEW u \in User, InApp(u)
  PROVE  \A v \in User : Passed(pc[v]) > 0
<1>0. KernelOK /\ Phases /\ KilledLate /\ Registered
  BY DEF RoundInv
<1> SUFFICES ASSUME NEW v \in User PROVE Passed(pc[v]) > 0
  OBVIOUS
<1>1. Passed(pc[u]) \in 1 .. 3 /\ ~Waits(u)
  BY DEF InApp, Passed, Phase0, Phase1, Phase2, Phase3, Waits
<1>2. CASE InPlay(u) /\ InPlay(v)
  <2>1. Passed(pc[v]) \in {Passed(pc[u]), Passed(pc[u]) + 1}
    BY <1>0, <1>1, <1>2 DEF Phases
  <2> QED BY <2>1, <1>1
<1>3. CASE ~(InPlay(u) /\ InPlay(v))
  BY <1>0, <1>3 DEF KilledLate
<1> QED BY <1>2, <1>3

\* No application starts before every user actor is in BxiEngine::actors
\* and has loaded its copy: setup_barrier counts them all, whatever the
\* order of the deployment and the daemons, delays and hosts in it.
THEOREM StartsTogether ==
  ASSUME Foreground
  PROVE  Spec => []NobodyStartsEarly
<1>1. RoundInv => NobodyStartsEarly
  <2> SUFFICES ASSUME RoundInv, NEW u \in User, InApp(u)
               PROVE  actors = User /\ loaded = User
    BY DEF NobodyStartsEarly
  <2>1. \A v \in User : Passed(pc[v]) > 0
    BY InAppFacts
  <2>2. \A v \in User : pc[v] # "new"
    BY <2>1 DEF Passed, Phase0
  <2> QED BY <2>1, <2>2 DEF RoundInv, Registered
<1> QED BY <1>1, RoundsInOrder, PTL

-----------------------------------------------------------------------------
(***************************************************************************)
(* The options, queues and E2E actors of the nodes.                        *)
(***************************************************************************)
LEMMA HostOK ==
  ASSUME NEW a \in Actor PROVE HostOf[a] \in Host
  BY DEF Host

\* An actor in its second turn: all have had their first.
LEMMA SecondTurn ==
  ASSUME RoundInv, NEW a \in todo, pc[a] # "new"
  PROVE  NoneIsNew
  BY DEF RoundInv, KernelOK, FirstRound, NoneIsNew

\* As long as somebody is new, no queue exists, no E2E actor is registered
\* and nobody has taken a queue.
LEMMA NothingYet ==
  ASSUME RoundInv, NodeInv, NEW a \in Actor, pc[a] = "new"
  PROVE  /\ \A n \in Host : e2eActor[n] = None /\ \A v \in Vns : queues[n][v] = None
         /\ \A b \in Actor : pc[b] \in {"new", "e2e_off", "constructed", "daemonized", "killed"}
<1>1. ~NoneIsNew
  BY DEF NoneIsNew
<1>2. \A n \in Host, v \in Vns : queues[n][v] = None
  BY <1>1 DEF NodeInv, QueuesOK
<1>3. \A n \in Host : e2eActor[n] = None
  BY <1>1 DEF NodeInv, E2EOK
<1>4. \A b \in Actor : pc[b] \in {"new", "e2e_off", "constructed", "daemonized", "killed"}
  BY DEF RoundInv, FirstRound
<1> QED BY <1>2, <1>3, <1>4

\* A step that changes nothing of a node
LEMMA NodeQuiet ==
  ASSUME RoundInv, NodeInv, NEW a \in Actor, NEW p, NEW q, Moves(a, p, q), q # "new",
         UNCHANGED <<nodePci, e2eOff, e2eActor, queues, txQueue>>, defaultNi' \subseteq User,
         a \in User => (q \in AfterInit => p \in AfterInit),
         a \in Nic => /\ Role[a] = "initiator" => q = "daemonized"
                      /\ Role[a] = "e2e" => q = "daemonized" \/ (q = "killed" /\ E2EOff)
  PROVE  NodeInv'
<1> USE Disjoint
<1>0. KernelOK /\ NodeOK /\ QueuesOK /\ TakenOK /\ E2EOK
  BY DEF RoundInv, NodeInv
<1>1. pc[a] = p /\ pc'[a] = q /\ \A b \in Actor \ {a} : pc'[b] = pc[b]
  BY <1>0, MovesFacts
<1>2. NoneIsNew => NoneIsNew'
  BY <1>1 DEF NoneIsNew
<1>k. \A n \in Host : (Kind(n))' = Kind(n)
  BY DEF Kind, PciCommands
<1>3. NodeOK'
  BY <1>0 DEF NodeOK
<1>4. QueuesOK'
  <2>1. \A n \in Host, v \in Vns : queues'[n][v] # None => queues'[n][v] = (Kind(n))' /\ NoneIsNew'
    BY <1>0, <1>2, <1>k DEF QueuesOK
  <2>2. \A b \in Nic : Role[b] = "initiator" =>
          /\ pc'[b] \in {"new", "daemonized", "get"}
          /\ pc'[b] = "get" /\ Vn[b] \in Vns => queues'[HostOf[b]][Vn[b]] # None
    BY <1>0, <1>1 DEF QueuesOK
  <2> QED BY <2>1, <2>2 DEF QueuesOK
<1>5. TakenOK'
  BY <1>0, <1>1, <1>k, HostOK DEF TakenOK
<1>6. E2EOK'
  BY <1>0, <1>1, <1>2 DEF E2EOK
<1> QED BY <1>3, <1>4, <1>5, <1>6 DEF NodeInv

\* E2E goes on only on a host that has an E2E actor.
LEMMA SetE2EOffFacts ==
  ASSUME NodeOK, E2EOK, NEW n \in Host, SetE2EOff(n)
  PROVE  /\ e2eOff' \in [Host -> BOOLEAN]
         /\ \A m \in Host : ~e2eOff'[m] =>
              ~E2EOff /\ \E b \in Nic : HostOf[b] = m /\ Role[b] = "e2e"
<1>1. e2eOff \in [Host -> BOOLEAN] /\ E2EOff \in BOOLEAN
  BY StartupAssumption DEF NodeOK
<1>2. CASE E2EOff
  BY <1>1, <1>2 DEF SetE2EOff, E2EOK
<1>3. CASE ~E2EOff /\ \E b \in Nic : HostOf[b] = n /\ Role[b] = "e2e" /\ sched[b] # "dead"
  <2>1. e2eOff' = [e2eOff EXCEPT ![n] = FALSE]
    BY <1>3 DEF SetE2EOff
  <2> QED BY <1>1, <1>3, <2>1 DEF E2EOK
<1>4. CASE ~E2EOff /\ ~\E b \in Nic : HostOf[b] = n /\ Role[b] = "e2e" /\ sched[b] # "dead"
  <2>1. e2eOff' = e2eOff
    BY <1>4 DEF SetE2EOff
  <2> QED BY <1>1, <2>1 DEF E2EOK
<1> QED BY <1>1, <1>2, <1>3, <1>4

LEMMA NodeConstruct ==
  ASSUME RoundInv, NodeInv, NEW u \in User, Construct(u) \/ ConstructDaemon(u)
  PROVE  NodeInv'
<1> USE Disjoint
<1>0. KernelOK /\ NodeOK /\ QueuesOK /\ TakenOK /\ E2EOK /\ HostOf[u] \in Host
  BY HostOK DEF RoundInv, NodeInv
<1>1. PICK p \in {"new", "e2e_off"}, q \in {"e2e_off", "constructed"} :
        /\ Moves(u, p, q)
        /\ p = "e2e_off" => nodePci' = nodePci
        /\ nodePci' = nodePci \/ nodePci' = [nodePci EXCEPT ![HostOf[u]] = u \in PciProp]
        /\ e2eOff' = e2eOff \/ SetE2EOff(HostOf[u])
        /\ UNCHANGED <<e2eActor, queues, txQueue, defaultNi>>
  BY DEF Construct, ConstructDaemon, Turn, Moves, appVars
<1>2. pc[u] = p /\ pc'[u] = q /\ \A b \in Actor \ {u} : pc'[b] = pc[b]
  BY <1>0, <1>1, MovesFacts
<1>3. /\ e2eOff' \in [Host -> BOOLEAN]
      /\ \A m \in Host : ~e2eOff'[m] =>
           ~E2EOff /\ \E b \in Nic : HostOf[b] = m /\ Role[b] = "e2e"
  <2>1. CASE e2eOff' = e2eOff
    BY <2>1, <1>0 DEF NodeOK, E2EOK
  <2>2. CASE SetE2EOff(HostOf[u])
    BY <2>2, <1>0, SetE2EOffFacts
  <2> QED BY <1>1, <2>1, <2>2
<1>4. NodeOK'
  <2>1. nodePci' \in [Host -> BOOLEAN]
    <3>0. (u \in PciProp) \in BOOLEAN
      OBVIOUS
    <3>1. PICK b \in BOOLEAN : b = (u \in PciProp)
      BY <3>0, Zenon
    <3>2. nodePci' = nodePci \/ nodePci' = [nodePci EXCEPT ![HostOf[u]] = b]
      BY <3>1, <1>1, Zenon
    <3>3. nodePci \in [Host -> BOOLEAN]
      BY <1>0 DEF NodeOK
    <3> QED BY <3>2, <3>3
  <2> QED BY <1>0, <1>1, <1>3, <2>1 DEF NodeOK
<1>5. NoneIsNew => NoneIsNew' /\ nodePci' = nodePci
  BY <1>1, <1>2 DEF NoneIsNew
<1>6. QueuesOK'
  <2>1. ASSUME NEW n \in Host, NEW v \in Vns, queues'[n][v] # None
        PROVE  queues'[n][v] = (Kind(n))' /\ NoneIsNew'
    <3>1. queues[n][v] = Kind(n) /\ NoneIsNew /\ queues' = queues
      BY <2>1, <1>0, <1>1 DEF QueuesOK
    <3>2. (Kind(n))' = Kind(n)
      BY <3>1, <1>5 DEF Kind, PciCommands
    <3> QED BY <3>1, <3>2, <1>5
  <2>2. \A b \in Nic : pc'[b] = pc[b]
    BY <1>2
  <2> QED BY <2>1, <2>2, <1>0, <1>1 DEF QueuesOK
<1>7. E2EOK'
  BY <1>0, <1>1, <1>2, <1>3, <1>5 DEF E2EOK
<1>8. TakenOK'
  <2>1. CASE p = "new"
    <3>1. \A v \in User : pc'[v] \in {"new", "e2e_off", "constructed", "daemonized", "killed"}
      BY <2>1, <1>1, <1>2, NothingYet
    <3> QED BY <3>1 DEF TakenOK, AfterInit, Phase2, Phase3
  <2>2. CASE p = "e2e_off"
    <3>1. nodePci' = nodePci /\ txQueue' = txQueue
      BY <2>2, <1>1
    <3>2. \A n \in Host : (Kind(n))' = Kind(n)
      BY <3>1 DEF Kind, PciCommands
    <3>3. \A v \in User : pc'[v] \in AfterInit => pc[v] \in AfterInit
      BY <1>1, <1>2 DEF AfterInit, Phase2, Phase3
    <3> QED BY <3>1, <3>2, <3>3, <1>0, HostOK DEF TakenOK
  <2> QED BY <1>1, <2>1, <2>2
<1> QED BY <1>4, <1>6, <1>7, <1>8 DEF NodeInv

\* The queue is created in the second round, when all user actors have set
\* the options of their nodes.
LEMMA NodeInitiator ==
  ASSUME RoundInv, NodeInv, NEW a \in Nic, Initiator(a)
  PROVE  NodeInv'
<1> USE Disjoint
<1>0. KernelOK /\ NodeOK /\ QueuesOK /\ TakenOK /\ E2EOK /\ HostOf[a] \in Host
  BY HostOK DEF RoundInv, NodeInv
<1> DEFINE n == HostOf[a]
<1>1. /\ Role[a] = "initiator" /\ Moves(a, "daemonized", "get") /\ a \in todo
      /\ queues' = IF queues[n][Vn[a]] # None THEN queues
                   ELSE [queues EXCEPT ![n][Vn[a]] = Kind(n)]
      /\ UNCHANGED <<nodePci, e2eOff, e2eActor, txQueue, defaultNi>>
  BY DEF Initiator, Turn, Moves, appVars, Kind
<1>2. pc[a] = "daemonized" /\ pc'[a] = "get" /\ \A b \in Actor \ {a} : pc'[b] = pc[b]
  BY <1>0, <1>1, MovesFacts
<1>3. NoneIsNew /\ NoneIsNew'
  BY <1>1, <1>2, SecondTurn DEF NoneIsNew
<1>k. /\ \A m \in Host : (Kind(m))' = Kind(m)
      /\ Kind(n) \in {"mailbox", "semaphore"} /\ Kind(n) # None
  BY <1>1, StartupAssumption DEF Kind, PciCommands
<1>q. /\ queues' \in [Host -> [Vns -> {None, "mailbox", "semaphore"}]]
      /\ \A m \in Host, v \in Vns :
           queues'[m][v] = IF queues[m][v] = None /\ m = n /\ v = Vn[a] THEN Kind(n) ELSE queues[m][v]
  <2>1. queues \in [Host -> [Vns -> {None, "mailbox", "semaphore"}]]
    BY <1>0 DEF NodeOK
  <2> HIDE DEF n
  <2> QED BY <1>1, <1>0, <1>k, <2>1 DEF n
<1>4. NodeOK'
  BY <1>0, <1>1, <1>q DEF NodeOK
<1>5. QueuesOK'
  <2>1. ASSUME NEW m \in Host, NEW v \in Vns, queues'[m][v] # None
        PROVE  queues'[m][v] = (Kind(m))' /\ NoneIsNew'
    BY <2>1, <1>0, <1>3, <1>k, <1>q DEF QueuesOK
  <2>2. ASSUME NEW b \in Nic, Role[b] = "initiator"
        PROVE  /\ pc'[b] \in {"new", "daemonized", "get"}
               /\ pc'[b] = "get" /\ Vn[b] \in Vns => queues'[HostOf[b]][Vn[b]] # None
    <3>1. HostOf[b] \in Host
      BY HostOK
    <3>2. CASE b = a
      BY <3>1, <3>2, <1>2, <1>k, <1>q
    <3>3. CASE b # a
      BY <3>1, <3>3, <2>2, <1>0, <1>2, <1>k, <1>q DEF QueuesOK
    <3> QED BY <3>2, <3>3
  <2> QED BY <2>1, <2>2 DEF QueuesOK
<1>6. TakenOK'
  <2>1. \A u \in User : pc'[u] = pc[u] /\ HostOf[u] \in Host
    BY <1>2, HostOK
  <2> QED BY <2>1, <1>0, <1>1, <1>k DEF TakenOK
<1>7. E2EOK'
  BY <1>0, <1>1, <1>2, <1>3 DEF E2EOK
<1> QED BY <1>4, <1>5, <1>6, <1>7 DEF NodeInv

\* A target takes a queue for itself.
LEMMA NodeTarget ==
  ASSUME RoundInv, NodeInv, NEW a \in Nic, TargetLooks(a) \/ TargetLooksAgain(a)
  PROVE  NodeInv'
<1> USE Disjoint
<1>0. KernelOK /\ NodeOK /\ QueuesOK /\ TakenOK /\ E2EOK
  BY DEF RoundInv, NodeInv
<1>1. PICK p \in {"daemonized", "looked"}, q \in {"looked", "get"} :
        /\ Role[a] = "target" /\ Moves(a, p, q)
        /\ txQueue' = txQueue \/ txQueue' = [txQueue EXCEPT ![a] = queues[HostOf[a]]["response"]]
        /\ UNCHANGED <<nodePci, e2eOff, e2eActor, queues, defaultNi>>
  BY DEF TargetLooks, TargetLooksAgain, Turn, Moves, nodeVars
<1>2. pc[a] = p /\ pc'[a] = q /\ \A b \in Actor \ {a} : pc'[b] = pc[b]
  BY <1>0, <1>1, MovesFacts
<1>3. NoneIsNew => NoneIsNew'
  BY <1>1, <1>2 DEF NoneIsNew
<1>k. \A m \in Host : (Kind(m))' = Kind(m)
  BY <1>1 DEF Kind, PciCommands
<1>4. DOMAIN txQueue' = Actor /\ \A u \in User : txQueue'[u] = txQueue[u]
  BY <1>0, <1>1 DEF NodeOK
<1>5. NodeOK'
  BY <1>0, <1>1, <1>4 DEF NodeOK
<1>6. QueuesOK'
  <2>1. \A b \in Nic : Role[b] = "initiator" => pc'[b] = pc[b]
    BY <1>1, <1>2
  <2> QED BY <2>1, <1>0, <1>1, <1>3, <1>k DEF QueuesOK
<1>7. TakenOK'
  <2>1. \A u \in User : pc'[u] = pc[u] /\ HostOf[u] \in Host
    BY <1>2, HostOK
  <2> QED BY <2>1, <1>0, <1>4, <1>k DEF TakenOK
<1>8. E2EOK'
  <2>1. \A b \in Nic : Role[b] = "e2e" => pc'[b] = pc[b]
    BY <1>1, <1>2
  <2> QED BY <2>1, <1>0, <1>1, <1>3 DEF E2EOK
<1> QED BY <1>5, <1>6, <1>7, <1>8 DEF NodeInv

\* In its first turn an E2E actor finds no other registered.
LEMMA NodeE2E ==
  ASSUME RoundInv, NodeInv, NEW a \in Nic, E2EConstruct(a) \/ E2ERegister(a)
  PROVE  NodeInv'
<1> USE Disjoint
<1>0. KernelOK /\ NodeOK /\ QueuesOK /\ TakenOK /\ E2EOK /\ HostOf[a] \in Host
  BY HostOK DEF RoundInv, NodeInv
<1>1. CASE E2EConstruct(a)
  <2>1. PICK q \in {"killed", "daemonized"} :
          /\ Role[a] = "e2e" /\ Moves(a, "new", q)
          /\ q = "killed" => E2EOff \/ e2eActor[HostOf[a]] # None
          /\ UNCHANGED <<nodePci, e2eOff, e2eActor, queues, txQueue, defaultNi>>
    BY <1>1 DEF E2EConstruct, Turn, Moves, nodeVars, appVars
  <2>2. e2eActor[HostOf[a]] = None
    BY <2>1, <1>0, NothingYet DEF Moves
  <2>3. defaultNi' \subseteq User
    BY <2>1, <1>0 DEF NodeOK
  <2> QED BY <2>1, <2>2, <2>3, NodeQuiet
<1>2. CASE E2ERegister(a)
  <2>1. /\ Role[a] = "e2e" /\ Moves(a, "daemonized", "wait") /\ a \in todo
        /\ e2eActor' = [e2eActor EXCEPT ![HostOf[a]] = a]
        /\ UNCHANGED <<nodePci, e2eOff, queues, txQueue, defaultNi>>
    BY <1>2 DEF E2ERegister, Turn, Moves, appVars
  <2>2. pc[a] = "daemonized" /\ pc'[a] = "wait" /\ \A b \in Actor \ {a} : pc'[b] = pc[b]
    BY <1>0, <2>1, MovesFacts
  <2>3. NoneIsNew /\ NoneIsNew'
    BY <2>1, <2>2, SecondTurn DEF NoneIsNew
  <2>k. \A m \in Host : (Kind(m))' = Kind(m)
    BY <2>1 DEF Kind, PciCommands
  <2>4. /\ e2eActor' \in [Host -> Nic \cup {None}] /\ a # None
        /\ \A m \in Host : e2eActor'[m] = IF m = HostOf[a] THEN a ELSE e2eActor[m]
    BY <1>0, <2>1, StartupAssumption DEF NodeOK
  <2>5. NodeOK'
    BY <1>0, <2>1, <2>4 DEF NodeOK
  <2>6. QueuesOK'
    <3>1. \A b \in Nic : Role[b] = "initiator" => pc'[b] = pc[b]
      BY <2>1, <2>2
    <3> QED BY <3>1, <1>0, <2>1, <2>3, <2>k DEF QueuesOK
  <2>7. TakenOK'
    <3>1. \A u \in User : pc'[u] = pc[u] /\ HostOf[u] \in Host
      BY <2>2, HostOK
    <3> QED BY <3>1, <1>0, <2>1, <2>k DEF TakenOK
  <2>8. E2EOK'
    <3>1. \A m \in Host : ~e2eOff'[m] => ~E2EOff /\ \E b \in Nic : HostOf[b] = m /\ Role[b] = "e2e"
      BY <1>0, <2>1 DEF E2EOK
    <3>2. ASSUME NEW b \in Nic, Role[b] = "e2e"
          PROVE  /\ pc'[b] \in {"new", "daemonized", "wait", "killed"}
                 /\ pc'[b] = "killed" => E2EOff
                 /\ pc'[b] = "wait" => e2eActor'[HostOf[b]] # None
      <4>1. HostOf[b] \in Host
        BY HostOK
      <4>2. CASE b = a
        BY <4>2, <2>2, <2>4, <1>0
      <4>3. CASE b # a
        BY <4>1, <4>3, <3>2, <2>2, <2>4, <1>0 DEF E2EOK
      <4> QED BY <4>2, <4>3
    <3> QED BY <3>1, <3>2, <2>3 DEF E2EOK
  <2> QED BY <2>5, <2>6, <2>7, <2>8 DEF NodeInv
<1> QED BY <1>1, <1>2

\* PtlInit ends after a sleep: the queue of its node is there.
LEMMA NodePtlInitEnd ==
  ASSUME RoundInv, NodeInv, NEW u \in User, PtlInitEnd(u)
  PROVE  NodeInv'
<1> USE Disjoint
<1>0. /\ KernelOK /\ Woken /\ NodeOK /\ QueuesOK /\ TakenOK /\ E2EOK
      /\ HostOf[u] \in Host
  BY HostOK DEF RoundInv, NodeInv
<1>1. PICK q \in {"open1", "PtlNIInit"} :
        /\ Moves(u, "PtlInit", q) /\ u \in todo
        /\ txQueue' = [txQueue EXCEPT ![u] = queues[HostOf[u]]["request"]]
        /\ UNCHANGED <<nodePci, e2eOff, e2eActor, queues, defaultNi>>
  BY DEF PtlInitEnd, Turn, Moves, nodeVars
<1>2. pc[u] = "PtlInit" /\ pc'[u] = q /\ \A b \in Actor \ {u} : pc'[b] = pc[b]
  BY <1>0, <1>1, MovesFacts
<1>3. NoneIsNew => NoneIsNew'
  BY <1>1, <1>2 DEF NoneIsNew
<1>k. \A m \in Host : (Kind(m))' = Kind(m)
  BY <1>1 DEF Kind, PciCommands
<1>4. DOMAIN txQueue' = Actor
      /\ \A v \in User : txQueue'[v] = IF v = u THEN queues[HostOf[u]]["request"] ELSE txQueue[v]
  BY <1>0, <1>1 DEF NodeOK
<1>n. \A b \in Nic : pc'[b] = pc[b]
  BY <1>2
<1>5. NodeOK'
  BY <1>0, <1>1, <1>4 DEF NodeOK
<1>6. QueuesOK'
  BY <1>n, <1>0, <1>1, <1>3, <1>k DEF QueuesOK
<1>7. E2EOK'
  BY <1>n, <1>0, <1>1, <1>3 DEF E2EOK
<1>8. TakenOK'
  <2> SUFFICES ASSUME Deployed, NEW v \in User, pc'[v] \in AfterInit
               PROVE  txQueue'[v] = (Kind(HostOf[v]))'
    BY DEF TakenOK
  <2>1. HostOf[v] \in Host
    BY HostOK
  <2>2. CASE v = u
    <3>1. PICK a \in Nic : HostOf[a] = HostOf[u] /\ Role[a] = "initiator" /\ Vn[a] = "request"
      BY DEF Deployed
    <3>2. pc[a] \notin {"new", "daemonized"}
      BY <1>0, <1>1, <1>2 DEF Woken
    <3>3. queues[HostOf[u]]["request"] # None
      BY <1>0, <3>1, <3>2 DEF QueuesOK, Vns
    <3>4. queues[HostOf[u]]["request"] = Kind(HostOf[u])
      BY <1>0, <3>3 DEF QueuesOK, Vns
    <3> QED BY <2>2, <3>4, <1>4, <1>k, <1>0
  <2>3. CASE v # u
    BY <2>1, <2>3, <1>0, <1>2, <1>4, <1>k DEF TakenOK
  <2> QED BY <2>2, <2>3
<1> QED BY <1>5, <1>6, <1>7, <1>8 DEF NodeInv

LEMMA NodeStep ==
  ASSUME RoundInv, NodeInv, Next
  PROVE  NodeInv'
<1> USE Disjoint
<1>0. KernelOK /\ NodeOK
  BY DEF RoundInv, NodeInv
<1>1. CASE NextRound \/ Advance \/ KillDaemons
  <2>1. UNCHANGED <<pc, nodePci, e2eOff, e2eActor, queues, txQueue, defaultNi>>
    BY <1>1 DEF NextRound, Advance, KillDaemons, nodeVars, appVars
  <2> QED BY <2>1 DEF NodeInv, NodeOK, QueuesOK, TakenOK, E2EOK, Kind, PciCommands, NoneIsNew
<1>2. ASSUME NEW a \in Nic, NicStep(a) PROVE NodeInv'
  <2>1. CASE NicConstruct(a)
    <3>1. /\ Role[a] # "e2e" /\ Moves(a, "new", "daemonized")
          /\ UNCHANGED <<nodePci, e2eOff, e2eActor, queues, txQueue, defaultNi>>
      BY <2>1 DEF NicConstruct, Turn, Moves, nodeVars, appVars
    <3>2. defaultNi' \subseteq User
      BY <3>1, <1>0 DEF NodeOK
    <3> QED BY <3>1, <3>2, NodeQuiet
  <2> QED BY <1>2, <2>1, NodeInitiator, NodeTarget, NodeE2E DEF NicStep
<1>3. ASSUME NEW u \in User, UserStep(u) PROVE NodeInv'
  <2>1. CASE Construct(u) \/ ConstructDaemon(u)
    BY <2>1, NodeConstruct
  <2>2. CASE PtlInitEnd(u)
    BY <2>2, NodePtlInitEnd
  <2>3. CASE ~(Construct(u) \/ ConstructDaemon(u) \/ PtlInitEnd(u))
    <3>1. UNCHANGED <<nodePci, e2eOff, e2eActor, queues, txQueue>> /\ defaultNi' \subseteq User
      BY <1>3, <2>3, <1>0 DEF UserStep, Enter, SetupBarrier, Load, DelayStart, PtlInit,
         PtlNIInit, PtlNIInitPanic, Publish, Ask, PtlNIFini, Reopen, AppEnd, Exit, nodeVars,
         appVars, NodeOK
    <3>2. PICK p, q :
            /\ Moves(u, p, q) /\ q # "new"
            /\ q \in AfterInit => p \in AfterInit
      <4> USE DEF AfterInit, Phase2, Phase3
      <4>1. CASE Enter(u) \/ SetupBarrier(u) \/ DelayStart(u) \/ PtlInit(u)
        BY <4>1 DEF Enter, SetupBarrier, DelayStart, PtlInit, Turn, Moves
      <4>2. CASE Load(u) \/ Publish(u) \/ AppEnd(u)
        BY <4>2 DEF Load, Publish, AppEnd, BarrierWait, Moves
      <4>3. CASE PtlNIInit(u) \/ PtlNIInitPanic(u)
        BY <4>3 DEF PtlNIInit, Opening, PtlNIInitPanic, Turn, Moves
      <4>4. CASE Ask(u) \/ PtlNIFini(u) \/ Reopen(u) \/ Exit(u)
        BY <4>4 DEF Ask, PtlNIFini, Reopen, Exit, Turn, Moves
      <4> QED BY <1>3, <2>3, <4>1, <4>2, <4>3, <4>4 DEF UserStep
    <3> QED BY <3>1, <3>2, NodeQuiet
  <2> QED BY <2>1, <2>2, <2>3
<1> QED BY <1>1, <1>2, <1>3 DEF Next

-----------------------------------------------------------------------------
(***************************************************************************)
(* Local ranks.                                                            *)
(***************************************************************************)
Unentered == {"new", "e2e_off", "constructed"}

LEMMA RanksQuiet ==
  ASSUME KernelOK, RanksOK, NEW a \in Actor, NEW p, NEW q, Moves(a, p, q),
         a \in User => (p \in Unentered <=> q \in Unentered),
         UNCHANGED <<localRank, localRanks>>
  PROVE  RanksOK'
<1>1. pc[a] = p /\ pc'[a] = q /\ \A b \in Actor \ {a} : pc'[b] = pc[b]
  BY MovesFacts
<1>2. \A n \in Host : (Entered(n))' = Entered(n)
  BY <1>1, Disjoint DEF Entered, Unentered
<1> QED BY <1>2 DEF RanksOK

\* The ranks given on a host are 0, 1, ... in the order of the actors.
LEMMA RanksEnter ==
  ASSUME KernelOK, RanksOK, NEW u \in User, Enter(u)
  PROVE  RanksOK'
<1> USE Disjoint
<1> DEFINE n == HostOf[u]
           E == Entered(n)
           k == Cardinality(E)
<1>0. n \in Host
  BY HostOK
<1>1. /\ Moves(u, "constructed", "yielded")
      /\ localRanks' = [localRanks EXCEPT ![n] = IF localRanks[n] = None THEN 0 ELSE localRanks[n] + 1]
      /\ localRank' = [localRank EXCEPT ![u] = localRanks'[n]]
  BY DEF Enter, Turn, Moves
<1>2. pc[u] = "constructed" /\ pc'[u] = "yielded" /\ \A b \in Actor \ {u} : pc'[b] = pc[b]
  BY <1>1, MovesFacts
<1>3. /\ (Entered(n))' = E \cup {u} /\ u \notin E
      /\ \A m \in Host \ {n} : (Entered(m))' = Entered(m) /\ u \notin Entered(m)
  BY <1>2 DEF Entered
<1>4. IsFiniteSet(E) /\ k \in Nat
  <2>1. E \in SUBSET User /\ IsFiniteSet(User)
    BY StartupAssumption DEF Entered
  <2>2. IsFiniteSet(E)
    BY <2>1, FS_Subset
  <2> QED BY <2>2, FS_CardinalityType
<1>5. Cardinality(E \cup {u}) = k + 1
  BY <1>3, <1>4, FS_AddElement
<1>6. /\ k = IF localRanks[n] = None THEN 0 ELSE localRanks[n] + 1
      /\ {localRank[v] : v \in E} = 0 .. k - 1
      /\ localRanks \in [Host -> Nat \cup {None}] /\ localRank \in [User -> Nat \cup {None}]
  BY <1>0 DEF RanksOK
<1>n. None \notin Nat
  BY StartupAssumption
<1> HIDE DEF n, E, k
<1>7. localRanks' = [localRanks EXCEPT ![n] = k] /\ localRank' = [localRank EXCEPT ![u] = k]
  BY <1>0, <1>1, <1>6
<1>8. /\ localRanks' \in [Host -> Nat \cup {None}] /\ localRanks'[n] = k
      /\ \A m \in Host \ {n} : localRanks'[m] = localRanks[m]
      /\ localRank' \in [User -> Nat \cup {None}] /\ localRank'[u] = k
      /\ \A v \in User \ {u} : localRank'[v] = localRank[v]
  BY <1>0, <1>4, <1>6, <1>7
<1>9. {localRank'[v] : v \in E \cup {u}} = 0 .. k
  <2>1. E \subseteq User \ {u}
    BY <1>3 DEF E, Entered
  <2>2. {localRank'[v] : v \in E \cup {u}} = {localRank[v] : v \in E} \cup {k}
    BY <2>1, <1>8
  <2>3. 0 .. k = (0 .. k - 1) \cup {k}
    BY <1>4
  <2> QED BY <2>2, <2>3, <1>6
<1>10. ASSUME NEW m \in Host
       PROVE  /\ Cardinality((Entered(m))') = IF localRanks'[m] = None THEN 0 ELSE localRanks'[m] + 1
              /\ {localRank'[v] : v \in (Entered(m))'} = 0 .. Cardinality((Entered(m))') - 1
  <2>1. CASE m = n
    <3>1. Cardinality((Entered(m))') = k + 1
      BY <2>1, <1>3, <1>5
    <3>2. k + 1 - 1 = k
      BY <1>4
    <3>3. {localRank'[v] : v \in (Entered(m))'} = 0 .. k
      BY <2>1, <1>3, <1>9
    <3> QED BY <2>1, <3>1, <3>2, <3>3, <1>8, <1>4, <1>n
  <2>2. CASE m # n
    <3>1. (Entered(m))' = Entered(m) /\ localRanks'[m] = localRanks[m]
      BY <2>2, <1>3, <1>8
    <3>2. Entered(m) \subseteq User \ {u}
      BY <2>2, <1>3 DEF Entered
    <3>3. {localRank'[v] : v \in Entered(m)} = {localRank[v] : v \in Entered(m)}
      BY <3>2, <1>8
    <3> QED BY <3>1, <3>3 DEF RanksOK
  <2> QED BY <2>1, <2>2
<1> QED BY <1>8, <1>10 DEF RanksOK

-----------------------------------------------------------------------------
(***************************************************************************)
(* Network interfaces and pids.                                            *)
(***************************************************************************)
\* A set of numbers that is not empty has a least element.
LEMMA LeastNat ==
  ASSUME NEW T \in SUBSET Nat, T # {}
  PROVE  \E x \in T : \A y \in T : x <= y
<1> DEFINE R == {ss \in Nat \X Nat : ss[1] < ss[2]}
<1>1. IsWellFoundedOn(R, Nat)
  BY NatLessThanWellFounded, Zenon DEF OpToRel
<1>2. PICK x \in T : \A y \in T : ~(<<y, x>> \in R)
  <2> HIDE DEF R
  <2> QED BY <1>1, WFMin
<1>3. ASSUME NEW y \in T PROVE x <= y
  <2>1. ~(y < x)
    BY <1>2
  <2> QED BY <2>1
<1> QED BY <1>3

\* There is a pid to take, and the one taken is not in use.
LEMMA UnusedPidOK ==
  ASSUME NEW used \in SUBSET Nat, IsFiniteSet(used)
  PROVE  UnusedPid(used) \in Nat /\ UnusedPid(used) \notin used
<1> DEFINE c == Cardinality(used)
           I == FirstPid .. FirstPid + c
           T == I \ used
<1>1. c \in Nat
  BY FS_CardinalityType
<1>2. IsFiniteSet(I) /\ Cardinality(I) = c + 1
  <2>1. FirstPid \in Int
    BY DEF FirstPid
  <2>2. PICK b \in Int : b = FirstPid + c
    BY <1>1, <2>1
  <2>3. /\ IsFiniteSet(FirstPid .. b)
        /\ Cardinality(FirstPid .. b) = IF FirstPid > b THEN 0 ELSE b - FirstPid + 1
    BY <2>1, FS_Interval
  <2>4. I = FirstPid .. b
    BY <2>2
  <2> HIDE DEF I, c
  <2> QED BY <1>1, <2>2, <2>3, <2>4 DEF FirstPid
<1>3. T # {}
  <2> SUFFICES ASSUME I \in SUBSET used PROVE FALSE
    OBVIOUS
  <2>1. Cardinality(I) <= c
    BY FS_Subset
  <2> HIDE DEF I, c
  <2> QED BY <2>1, <1>1, <1>2
<1>4. T \in SUBSET Nat
  BY <1>1 DEF FirstPid
<1>5. PICK x \in T : \A y \in T : x <= y
  <2> HIDE DEF T
  <2> QED BY <1>3, <1>4, LeastNat
<1>6. \E p \in I : p \notin used /\ \A q \in FirstPid .. p - 1 : q \in used
  <2>1. x \in I /\ x \notin used /\ x \in Nat
    BY <1>4, <1>5
  <2>2. \A q \in FirstPid .. x - 1 : q \in I /\ ~(x <= q)
    BY <2>1, <1>1 DEF FirstPid
  <2>3. \A q \in FirstPid .. x - 1 : q \in used
    BY <2>2, <1>5
  <2> QED BY <2>1, <2>3
<1>7. UnusedPid(used) \in I /\ UnusedPid(used) \notin used
  BY <1>6 DEF UnusedPid
<1> QED BY <1>7, <1>1 DEF FirstPid

\* A step that opens and closes nothing
LEMMA NisQuiet ==
  ASSUME KernelOK, NisOK, PidsOK, NEW a \in Actor, NEW p, NEW q, Moves(a, p, q),
         a \in User => (p \in Open <=> q \in Open) /\ (p \in Closing <=> q \in Closing),
         UNCHANGED <<nis, usedPids>>
  PROVE  NisOK' /\ PidsOK'
<1>1. pc[a] = p /\ pc'[a] = q /\ \A b \in Actor \ {a} : pc'[b] = pc[b]
  BY MovesFacts
<1>2. \A u \in User : (pc'[u] \in Open <=> pc[u] \in Open)
                      /\ (pc'[u] \in Closing <=> pc[u] \in Closing)
  BY <1>1, Disjoint
<1>3. \A x \in nis : x.owner \in User
  BY DEF NisOK, Interface
<1>4. \A x \in nis : pc'[x.owner] \in IF x.closing THEN Closing ELSE Open
  BY <1>2, <1>3 DEF NisOK
<1>5. \A u \in User : pc'[u] \in Open \cup Closing => \E x \in nis : x.owner = u
  BY <1>2 DEF NisOK
<1>6. NisOK'
  BY <1>4, <1>5 DEF NisOK
<1>7. PidsOK'
  BY DEF PidsOK
<1> QED BY <1>6, <1>7

LEMMA OpenNotClosing == Open \cap Closing = {}
  BY DEF Open, Closing

\* PtlNIInit opens an interface with a pid that no other has.
LEMMA NisOpen ==
  ASSUME KernelOK, NisOK, PidsOK, NEW u \in User, PtlNIInit(u)
  PROVE  NisOK' /\ PidsOK'
<1> USE Disjoint
<1>h. HostOf[u] \in Host /\ u \in Actor
  BY HostOK
<1>u. usedPids \in [Host -> SUBSET Nat] /\ IsFiniteSet(usedPids[HostOf[u]])
  BY <1>h DEF PidsOK
<1>p. PICK r \in Nat :
        /\ r \notin usedPids[HostOf[u]]
        /\ usedPids' = [usedPids EXCEPT ![HostOf[u]] = usedPids[HostOf[u]] \cup {r}]
        /\ nis' = nis \cup {Ni(u, r)}
  <2>1. UnusedPid(usedPids[HostOf[u]]) \in Nat
    BY <1>u, <1>h, UnusedPidOK
  <2>2. AskedPid[u] = PidAny \/ AskedPid[u] \in Nat
    BY StartupAssumption
  <2> QED BY <2>1, <2>2 DEF PtlNIInit
<1>1. PICK p \in {"open1", "PtlNIInit"}, q \in Open : Moves(u, p, q)
  BY DEF PtlNIInit, Opening, Turn, Moves, Open
<1>2. pc[u] = p /\ pc'[u] = q /\ \A b \in Actor \ {u} : pc'[b] = pc[b]
  BY <1>1, MovesFacts
<1>3. \A x \in nis : x.owner \in User /\ x.owner # u
  BY <1>1, <1>2 DEF NisOK, Interface, Open, Closing
<1>x. PICK x \in Interface : /\ x = Ni(u, r) /\ x.owner = u /\ x.node = HostOf[u]
                             /\ x.pid = r /\ ~x.closing
  <2>1. Ni(u, r) \in Interface
    BY <1>h DEF Interface, Ni
  <2>2. /\ Ni(u, r).owner = u /\ Ni(u, r).node = HostOf[u]
        /\ Ni(u, r).pid = r /\ ~Ni(u, r).closing
    BY DEF Ni
  <2> QED BY <2>1, <2>2
<1>4. nis' = nis \cup {x}
  BY <1>p, <1>x
<1>5. NisOK'
  <2>1. nis' \subseteq Interface
    BY <1>4 DEF NisOK
  <2>2. \A y \in nis' : y.node = HostOf[y.owner]
    BY <1>4, <1>x DEF NisOK
  <2>3. \A y, z \in nis' : y.owner = z.owner => y = z
    BY <1>3, <1>4, <1>x DEF NisOK
  <2>4. \A y \in nis' : pc'[y.owner] \in IF y.closing THEN Closing ELSE Open
    BY <1>1, <1>2, <1>3, <1>4, <1>x DEF NisOK
  <2>5. \A v \in User : pc'[v] \in Open \cup Closing => \E y \in nis' : y.owner = v
    BY <1>2, <1>4, <1>x DEF NisOK
  <2> QED BY <2>1, <2>2, <2>3, <2>4, <2>5 DEF NisOK
<1>6. /\ usedPids' \in [Host -> SUBSET Nat]
      /\ usedPids'[HostOf[u]] = usedPids[HostOf[u]] \cup {r}
      /\ \A n \in Host : n # HostOf[u] => usedPids'[n] = usedPids[n]
  BY <1>h, <1>u, <1>p
<1>7. PidsOK'
  <2>1. \A n \in Host : IsFiniteSet(usedPids'[n])
    <3>1. IsFiniteSet(usedPids[HostOf[u]] \cup {r})
      BY <1>u, FS_AddElement
    <3> QED BY <3>1, <1>6 DEF PidsOK
  <2>2. \A y \in nis' : ~y.closing => y.pid \in usedPids'[y.node]
    <3>1. \A y \in nis : y.node \in Host
      BY DEF NisOK, Interface
    <3> QED BY <3>1, <1>4, <1>x, <1>6 DEF PidsOK
  <2>3. ASSUME NEW y \in nis', NEW z \in nis', y # z, y.node = z.node, ~y.closing, ~z.closing
        PROVE  y.pid # z.pid
    <3>1. \A w \in nis : ~w.closing /\ w.node = HostOf[u] => w.pid # r
      BY <1>p DEF PidsOK
    <3> QED BY <3>1, <2>3, <1>4, <1>x DEF PidsOK
  <2> QED BY <2>1, <2>2, <2>3, <1>6 DEF PidsOK
<1> QED BY <1>5, <1>7

\* PtlNIFini gives back the pid of the interface it closes, and no other.
LEMMA NisClose ==
  ASSUME KernelOK, NisOK, PidsOK, NEW u \in User, PtlNIFini(u)
  PROVE  NisOK' /\ PidsOK'
<1> USE Disjoint
<1>h. HostOf[u] \in Host /\ u \in Actor /\ usedPids \in [Host -> SUBSET Nat]
  BY HostOK DEF PidsOK
<1>1. PICK p \in {"PtlNIFini", "close1"}, q \in Closing : Moves(u, p, q)
  BY DEF PtlNIFini, Turn, Moves, Closing
<1>2. pc[u] = p /\ pc'[u] = q /\ \A b \in Actor \ {u} : pc'[b] = pc[b]
  BY <1>1, MovesFacts
<1>3. p \in Open /\ p \notin Closing /\ q \notin Open
  BY <1>1, OpenNotClosing DEF Open, Closing
<1>x. PICK x \in nis :
        /\ x = (CHOOSE y \in nis : y.owner = u) /\ x.owner = u
        /\ x \in Interface
  <2>1. \E y \in nis : y.owner = u
    BY <1>2, <1>3 DEF NisOK
  <2>2. (CHOOSE y \in nis : y.owner = u) \in nis /\ (CHOOSE y \in nis : y.owner = u).owner = u
    BY <2>1
  <2> QED BY <2>2 DEF NisOK
<1>y. PICK y \in Interface : y = [x EXCEPT !.closing = TRUE] /\ y.owner = u /\ y.node = x.node
                             /\ y.closing /\ y.pid = x.pid
  <2>1. [x EXCEPT !.closing = TRUE] \in Interface
    BY <1>x DEF Interface
  <2>2. /\ [x EXCEPT !.closing = TRUE].owner = u /\ [x EXCEPT !.closing = TRUE].node = x.node
        /\ [x EXCEPT !.closing = TRUE].closing /\ [x EXCEPT !.closing = TRUE].pid = x.pid
    BY <1>x DEF Interface
  <2> QED BY <2>1, <2>2
<1>4. /\ usedPids' = [usedPids EXCEPT ![HostOf[u]] = usedPids[HostOf[u]] \ {x.pid}]
      /\ nis' = (nis \ {x}) \cup {y}
  BY <1>x, <1>y DEF PtlNIFini
<1>5. ~x.closing /\ x.node = HostOf[u]
  BY <1>x, <1>2, <1>3 DEF NisOK
<1>6. \A z \in nis \ {x} : z.owner # u /\ z.owner \in User
  BY <1>x DEF NisOK, Interface
<1>7. NisOK'
  <2>1. nis' \subseteq Interface
    BY <1>4 DEF NisOK
  <2>2. \A z \in nis' : z.node = HostOf[z.owner]
    BY <1>4, <1>5, <1>y DEF NisOK
  <2>3. \A z, w \in nis' : z.owner = w.owner => z = w
    BY <1>4, <1>6, <1>y DEF NisOK
  <2>4. \A z \in nis' : pc'[z.owner] \in IF z.closing THEN Closing ELSE Open
    BY <1>1, <1>2, <1>4, <1>6, <1>y DEF NisOK
  <2>5. ASSUME NEW v \in User, pc'[v] \in Open \cup Closing PROVE \E z \in nis' : z.owner = v
    <3>1. CASE v = u
      BY <3>1, <1>4, <1>y
    <3>2. CASE v # u
      <4>1. PICK z \in nis : z.owner = v
        BY <2>5, <3>2, <1>2 DEF NisOK
      <4> QED BY <4>1, <3>2, <1>4, <1>x
    <3> QED BY <3>1, <3>2
  <2> QED BY <2>1, <2>2, <2>3, <2>4, <2>5 DEF NisOK
<1>8. /\ usedPids' \in [Host -> SUBSET Nat]
      /\ usedPids'[HostOf[u]] = usedPids[HostOf[u]] \ {x.pid}
      /\ \A n \in Host : n # HostOf[u] => usedPids'[n] = usedPids[n]
  BY <1>h, <1>4
<1>9. PidsOK'
  <2>1. \A n \in Host : IsFiniteSet(usedPids'[n])
    <3>0. IsFiniteSet(usedPids[HostOf[u]])
      BY <1>h DEF PidsOK
    <3>1. IsFiniteSet(usedPids[HostOf[u]] \ {x.pid})
      BY <3>0, FS_RemoveElement
    <3> QED BY <3>1, <1>8 DEF PidsOK
  <2>2. ASSUME NEW z \in nis', ~z.closing PROVE z.pid \in usedPids'[z.node]
    <3>1. z \in nis \ {x}
      BY <2>2, <1>4, <1>y
    <3>2. z.node \in Host /\ z.pid \in usedPids[z.node]
      BY <2>2, <3>1 DEF NisOK, Interface, PidsOK
    <3>3. z.node = HostOf[u] => z.pid # x.pid
      BY <2>2, <3>1, <1>5 DEF PidsOK
    <3> QED BY <3>2, <3>3, <1>8
  <2>3. ASSUME NEW z \in nis', NEW w \in nis', z # w, z.node = w.node, ~z.closing, ~w.closing
        PROVE  z.pid # w.pid
    BY <2>3, <1>4, <1>y DEF PidsOK
  <2> QED BY <2>1, <2>2, <2>3, <1>8 DEF PidsOK
<1> QED BY <1>7, <1>9

\* The interface is destroyed.
LEMMA NisDestroy ==
  ASSUME KernelOK, NisOK, PidsOK, NEW u \in User, Reopen(u) \/ AppEnd(u)
  PROVE  NisOK' /\ PidsOK'
<1> USE Disjoint
<1>1. PICK p \in {"drained1", "drained"}, q \in {"PtlNIInit", "end"} :
        /\ Moves(u, p, q) /\ nis' = {x \in nis : x.owner # u} /\ usedPids' = usedPids
  BY DEF Reopen, AppEnd, Turn, BarrierWait, Moves
<1>2. pc[u] = p /\ pc'[u] = q /\ \A b \in Actor \ {u} : pc'[b] = pc[b]
  BY <1>1, MovesFacts
<1>3. q \notin Open \cup Closing
  BY <1>1 DEF Open, Closing
<1>4. nis' \subseteq nis /\ \A x \in nis' : x.owner \in User \ {u}
  BY <1>1 DEF NisOK, Interface
<1>5. NisOK'
  <2>1. nis' \subseteq Interface
    BY <1>4 DEF NisOK
  <2>2. \A x \in nis' : pc'[x.owner] \in IF x.closing THEN Closing ELSE Open
    BY <1>2, <1>4 DEF NisOK
  <2>3. \A v \in User : pc'[v] \in Open \cup Closing => \E x \in nis' : x.owner = v
    BY <1>1, <1>2, <1>3 DEF NisOK
  <2> QED BY <2>1, <2>2, <2>3, <1>4 DEF NisOK
<1>6. PidsOK'
  BY <1>1, <1>4 DEF PidsOK
<1> QED BY <1>5, <1>6

-----------------------------------------------------------------------------
(***************************************************************************)
(* The applications.                                                       *)
(***************************************************************************)
LEMMA PublishedStep ==
  ASSUME KernelOK, Published, NEW a \in Actor, NEW p, NEW q, Moves(a, p, q),
         defaultNi \subseteq defaultNi',
         a \in User /\ q \in {"published"} \cup Phase2 \cup Phase3
           => p \in {"published"} \cup Phase2 \cup Phase3 \/ a \in defaultNi'
  PROVE  Published'
<1>1. pc[a] = p /\ pc'[a] = q /\ \A b \in Actor \ {a} : pc'[b] = pc[b]
  BY MovesFacts
<1> SUFFICES ASSUME NEW u \in User, pc'[u] \in {"published"} \cup Phase2 \cup Phase3
             PROVE  u \in defaultNi'
  BY DEF Published
<1>2. CASE u = a
  BY <1>1, <1>2 DEF Published
<1>3. CASE u # a
  BY <1>1, <1>3, Disjoint DEF Published
<1> QED BY <1>2, <1>3

LEMMA AppStep ==
  ASSUME KernelOK, AppInv, Next
  PROVE  AppInv'
<1> USE Disjoint
<1>0. RanksOK /\ Published /\ NisOK /\ PidsOK
  BY DEF AppInv
<1>1. CASE NextRound \/ Advance \/ KillDaemons
  <2>1. UNCHANGED <<pc, localRank, localRanks, defaultNi, nis, usedPids>>
    BY <1>1 DEF NextRound, Advance, KillDaemons, rankVars, appVars
  <2>2. RanksOK' /\ Published'
    BY <2>1, <1>0 DEF RanksOK, Entered, Published
  <2>3. NisOK' /\ PidsOK'
    BY <2>1, <1>0 DEF NisOK, PidsOK
  <2> QED BY <2>2, <2>3 DEF AppInv
<1>2. ASSUME NEW a \in Nic, NicStep(a) PROVE AppInv'
  <2>1. UNCHANGED <<localRank, localRanks, defaultNi, nis, usedPids>>
    BY <1>2 DEF NicStep, NicConstruct, Initiator, TargetLooks, TargetLooksAgain,
                E2EConstruct, E2ERegister, rankVars, appVars
  <2>2. PICK p, q : Moves(a, p, q)
    BY <1>2, NicStepKind DEF NicTurn, Turn, Moves
  <2>3. a \notin User /\ a \in Actor
    OBVIOUS
  <2>4. RanksOK'
    BY <2>1, <2>2, <2>3, <1>0, RanksQuiet
  <2>5. Published'
    BY <2>1, <2>2, <2>3, <1>0, PublishedStep
  <2>6. NisOK' /\ PidsOK'
    BY <2>1, <2>2, <2>3, <1>0, NisQuiet
  <2> QED BY <2>4, <2>5, <2>6 DEF AppInv
<1>3. ASSUME NEW u \in User, UserStep(u) PROVE AppInv'
  <2> USE DEF Unentered, Phase2, Phase3, Open, Closing
  <2>1. CASE Enter(u)
    <3>1. Moves(u, "constructed", "yielded") /\ UNCHANGED <<defaultNi, nis, usedPids>>
      BY <2>1 DEF Enter, Turn, Moves, appVars
    <3> QED BY <2>1, <3>1, <1>0, RanksEnter, PublishedStep, NisQuiet DEF AppInv
  <2>2. CASE PtlNIInit(u)
    <3>1. PICK p \in {"open1", "PtlNIInit"}, q \in {"opened1", "published"} :
            /\ Moves(u, p, q)
            /\ defaultNi' = IF pc'[u] = "published" THEN defaultNi \cup {u} ELSE defaultNi
            /\ UNCHANGED <<localRank, localRanks>>
      BY <2>2 DEF PtlNIInit, Opening, Turn, Moves, rankVars
    <3>2. pc'[u] = q
      BY <3>1, MovesFacts
    <3> QED BY <2>2, <3>1, <3>2, <1>0, RanksQuiet, PublishedStep, NisOpen DEF AppInv
  <2>3. CASE PtlNIFini(u)
    <3>1. PICK p, q :
            /\ Moves(u, p, q) /\ <<p, q>> \in {<<"PtlNIFini", "drained">>, <<"close1", "drained1">>}
            /\ UNCHANGED <<defaultNi, localRank, localRanks>>
      BY <2>3 DEF PtlNIFini, Turn, Moves, rankVars
    <3> QED BY <2>3, <3>1, <1>0, RanksQuiet, PublishedStep, NisClose DEF AppInv
  <2>4. CASE Reopen(u) \/ AppEnd(u)
    <3>1. PICK p, q :
            /\ Moves(u, p, q) /\ <<p, q>> \in {<<"drained1", "PtlNIInit">>, <<"drained", "end">>}
            /\ UNCHANGED <<defaultNi, localRank, localRanks>>
      BY <2>4 DEF Reopen, AppEnd, Turn, BarrierWait, Moves, rankVars
    <3> QED BY <2>4, <3>1, <1>0, RanksQuiet, PublishedStep, NisDestroy DEF AppInv
  <2>5. CASE ~(Enter(u) \/ PtlNIInit(u) \/ PtlNIFini(u) \/ Reopen(u) \/ AppEnd(u))
    <3>1. UNCHANGED <<localRank, localRanks, defaultNi, nis, usedPids>>
      BY <1>3, <2>5 DEF UserStep, Construct, ConstructDaemon, SetupBarrier, Load, DelayStart,
         PtlInit, PtlInitEnd, PtlNIInitPanic, Publish, Ask, Exit, rankVars, appVars
    <3>2. PICK p, q :
            /\ Moves(u, p, q)
            /\ p \in Unentered <=> q \in Unentered
            /\ (p \in Open <=> q \in Open) /\ (p \in Closing <=> q \in Closing)
            /\ q \in {"published"} \cup Phase2 \cup Phase3
                 => p \in {"published"} \cup Phase2 \cup Phase3
      <4>1. CASE Construct(u) \/ ConstructDaemon(u) \/ SetupBarrier(u)
        <5>1. \/ Moves(u, "new", "e2e_off") \/ Moves(u, "new", "constructed")
              \/ Moves(u, "e2e_off", "constructed") \/ Moves(u, "yielded", "set_up")
          BY <4>1 DEF Construct, ConstructDaemon, SetupBarrier, Turn, Moves
        <5> QED BY <5>1
      <4>2. CASE Load(u) \/ Publish(u)
        <5>1. Moves(u, "set_up", "start") \/ Moves(u, "published", "ask")
          BY <4>2 DEF Load, Publish, BarrierWait, Moves
        <5> QED BY <5>1
      <4>3. CASE DelayStart(u) \/ PtlInit(u) \/ PtlInitEnd(u)
        <5>1. \/ Moves(u, "start", "delayed") \/ Moves(u, "start", "PtlInit")
              \/ Moves(u, "delayed", "PtlInit") \/ Moves(u, "PtlInit", "open1")
              \/ Moves(u, "PtlInit", "PtlNIInit")
          BY <4>3 DEF DelayStart, PtlInit, PtlInitEnd, Turn, Moves
        <5> QED BY <5>1
      <4>4. CASE PtlNIInitPanic(u)
        <5>1. Moves(u, "open1", "panic") \/ Moves(u, "PtlNIInit", "panic")
          BY <4>4 DEF PtlNIInitPanic, Moves
        <5> QED BY <5>1
      <4>5. CASE Ask(u) \/ Exit(u)
        <5>1. \/ Moves(u, "ask", "PtlNIFini") \/ Moves(u, "opened1", "close1")
              \/ Moves(u, "end", "done")
          BY <4>5 DEF Ask, Exit, Turn, Moves
        <5> QED BY <5>1
      <4> QED BY <1>3, <2>5, <4>1, <4>2, <4>3, <4>4, <4>5 DEF UserStep
    <3> HIDE DEF Unentered, Phase2, Phase3, Open, Closing
    <3> QED BY <3>1, <3>2, <1>0, RanksQuiet, PublishedStep, NisQuiet DEF AppInv
  <2> QED BY <2>1, <2>2, <2>3, <2>4, <2>5
<1> QED BY <1>1, <1>2, <1>3 DEF Next

LEMMA NodeInit == Init => NodeInv
<1> SUFFICES ASSUME Init PROVE NodeInv
  OBVIOUS
<1> USE Disjoint
<1>1. NodeOK
  BY DEF Init, NodeOK
<1>2. QueuesOK
  BY DEF Init, QueuesOK
<1>3. TakenOK
  BY DEF Init, TakenOK, AfterInit, Phase2, Phase3
<1>4. E2EOK
  BY DEF Init, E2EOK
<1> QED BY <1>1, <1>2, <1>3, <1>4 DEF NodeInv

LEMMA AppInit == Init => AppInv
<1> SUFFICES ASSUME Init PROVE AppInv
  OBVIOUS
<1> USE Disjoint
<1>1. RanksOK
  <2>1. \A n : Entered(n) = {}
    BY DEF Init, Entered
  <2>2. Cardinality({}) = 0
    BY FS_EmptySet
  <2>3. {localRank[v] : v \in {}} = 0 .. 0 - 1
    OBVIOUS
  <2> QED BY <2>1, <2>2, <2>3 DEF Init, RanksOK
<1>2. Published /\ NisOK
  BY DEF Init, Published, NisOK, Phase2, Phase3, Open, Closing
<1>3. PidsOK
  <2>1. IsFiniteSet({})
    BY FS_EmptySet
  <2> QED BY <2>1 DEF Init, PidsOK
<1> QED BY <1>1, <1>2, <1>3 DEF AppInv

-----------------------------------------------------------------------------
(***************************************************************************)
(* The theorems.                                                           *)
(***************************************************************************)
StartupInv == RoundInv /\ NodeInv /\ AppInv

\* The invariant of the rounds, the nodes and the applications holds, for
\* every deployment.
THEOREM StartupCorrect == Spec => []StartupInv
<1>1. Init => StartupInv
  BY RoundInit, NodeInit, AppInit DEF StartupInv
<1>2. StartupInv /\ [Next]_vars => StartupInv'
  <2> SUFFICES ASSUME StartupInv, [Next]_vars PROVE StartupInv'
    OBVIOUS
  <2>1. CASE Next
    BY <2>1, RoundNext, NodeStep, AppStep DEF StartupInv, RoundInv
  <2>2. CASE UNCHANGED vars
    <3>1. RoundInv'
      BY RoundNext DEF StartupInv
    <3>2. NodeInv'
      BY <2>2 DEF vars, kernelVars, nodeVars, appVars, StartupInv, NodeInv, NodeOK, QueuesOK,
         TakenOK, E2EOK, Kind, PciCommands, NoneIsNew
    <3>3. AppInv'
      BY <2>2 DEF vars, kernelVars, rankVars, appVars, StartupInv, AppInv, RanksOK, Entered,
         Published, NisOK, PidsOK
    <3> QED BY <3>1, <3>2, <3>3 DEF StartupInv
  <2> QED BY <2>1, <2>2
<1> QED BY <1>1, <1>2, PTL DEF Spec

\* Interfaces open on a node have different pids, all in used_pids: a pid
\* given back by PtlNIFini is free for PtlNIInit, and no other.
THEOREM PidsDiffer == Spec => []OpenPidsDiffer
<1>1. StartupInv => OpenPidsDiffer
  <2> SUFFICES ASSUME StartupInv PROVE OpenPidsDiffer
    OBVIOUS
  <2>1. todo \subseteq Actor /\ sched \in [Actor -> SchedState]
    BY DEF StartupInv, RoundInv, KernelOK
  <2>2. actors \subseteq User /\ loaded \subseteq User
    BY DEF StartupInv, RoundInv, Registered
  <2>3. barrier \in 1 .. Cardinality(User) \cup {None}
    <3>1. IsFiniteSet(User)
      BY StartupAssumption
    <3>2. Cardinality(User) \in Nat /\ (User # {} => Cardinality(User) # 0)
      BY <3>1, FS_CardinalityType, FS_EmptySet
    <3>3. CASE barrier # None
      <4>1. barrier = Cardinality(User) /\ User # {}
        BY <3>3 DEF StartupInv, RoundInv, BarrierOK
      <4> QED BY <4>1, <3>2
    <3> QED BY <3>3
  <2>4. \A n \in Host : /\ e2eActor[n] \in Nic \cup {None}
                        /\ \A v \in Vns : queues[n][v] \in {None, "mailbox", "semaphore"}
    BY DEF StartupInv, NodeInv, NodeOK
  <2>5. \A n \in Host : localRanks[n] \in Nat \cup {None} /\ usedPids[n] \subseteq Nat
    BY DEF StartupInv, AppInv, RanksOK, PidsOK
  <2>6. \A u \in User : localRank[u] \in Nat \cup {None}
    BY DEF StartupInv, AppInv, RanksOK
  <2>7. TypeOK
    BY <2>1, <2>2, <2>3, <2>4, <2>5, <2>6 DEF TypeOK, SchedState, StartupInv, NodeInv, NodeOK
  <2> QED BY <2>7 DEF OpenPidsDiffer, StartupInv, AppInv, PidsOK
<1> QED BY <1>1, StartupCorrect, PTL

\* The ranks of the deployment are those of get_actor_from_rank's callers.
RanksCover == \A r \in 0 .. Cardinality(User) - 1 : \E v \in User : Rank(v) = r

\* After s4bxi_barrier every rank has an actor, which has published its
\* interface: s4bxi_get_ptl_process_from_rank never finds nothing.
THEOREM PeersAreKnown ==
  ASSUME RanksCover
  PROVE  Spec => []PeersHavePublished
<1>1. StartupInv => PeersHavePublished
  <2> SUFFICES ASSUME StartupInv, NEW u \in User, pc[u] = "ask", sched[u] \in {"ready", "running"},
                      NEW r \in 0 .. Cardinality(User) - 1
               PROVE  ActorFromRank(r) \in defaultNi
    BY DEF PeersHavePublished
  <2>0. KernelOK /\ Phases /\ Deaths /\ Registered /\ Published
    BY DEF StartupInv, RoundInv, AppInv
  <2>1. \A v \in User : InPlay(v)
    BY <2>0, Disjoint DEF Deaths, InPlay, KernelOK, UserPlace, Phase0, Phase1, Phase2, Phase3
  <2>2. Passed(pc[u]) = 2 /\ ~Waits(u)
    BY DEF Passed, Phase0, Phase1, Phase2, Waits
  <2>3. \A v \in User : Passed(pc[v]) \in {2, 3}
    BY <2>0, <2>1, <2>2 DEF Phases
  <2>4. \A v \in User : pc[v] \in Phase2 \cup Phase3
    BY <2>0, <2>3 DEF Passed, KernelOK, UserPlace
  <2>5. actors = User /\ User \subseteq defaultNi
    BY <2>0, <2>4 DEF Registered, Published, Phase2, Phase3
  <2>6. \E v \in actors : Rank(v) = r
    BY <2>5 DEF RanksCover
  <2>7. ActorFromRank(r) \in actors
    BY <2>6 DEF ActorFromRank
  <2> QED BY <2>5, <2>7
<1> QED BY <1>1, StartupCorrect, PTL

\* When PtlInit returns, the queue is there and of the kind that the node's
\* options call for, and a node with E2E on knows its E2E actor; when an
\* application runs, the local ranks of its host are 0, 1, 2, ...
THEOREM NodesReady ==
  ASSUME Foreground, Deployed
  PROVE  Spec => []NodesAreReady
<1>1. StartupInv => NodesAreReady
  <2> SUFFICES ASSUME StartupInv, NEW u \in User
               PROVE  /\ pc[u] \in {"open1", "PtlNIInit"} =>
                           /\ txQueue[u] = IF PciCommands(HostOf[u]) THEN "mailbox" ELSE "semaphore"
                           /\ ~e2eOff[HostOf[u]] => e2eActor[HostOf[u]] # None
                      /\ InApp(u) => {localRank[v] : v \in {w \in User : HostOf[w] = HostOf[u]}}
                                      = 0 .. Cardinality({w \in User : HostOf[w] = HostOf[u]}) - 1
    BY DEF NodesAreReady
  <2>h. HostOf[u] \in Host
    BY HostOK, Disjoint
  <2>1. ASSUME pc[u] \in {"open1", "PtlNIInit"}
        PROVE  /\ txQueue[u] = IF PciCommands(HostOf[u]) THEN "mailbox" ELSE "semaphore"
               /\ ~e2eOff[HostOf[u]] => e2eActor[HostOf[u]] # None
    <3>1. pc[u] \in AfterInit
      BY <2>1 DEF AfterInit
    <3>2. txQueue[u] = Kind(HostOf[u])
      BY <3>1 DEF StartupInv, NodeInv, TakenOK
    <3>3. ASSUME ~e2eOff[HostOf[u]] PROVE e2eActor[HostOf[u]] # None
      <4>1. PICK b \in Nic : HostOf[b] = HostOf[u] /\ Role[b] = "e2e" /\ ~E2EOff
        BY <2>h, <3>3 DEF StartupInv, NodeInv, E2EOK
      <4>2. pc[b] \notin {"new", "daemonized"}
        BY <3>1 DEF StartupInv, RoundInv, Woken
      <4> QED BY <4>1, <4>2 DEF StartupInv, NodeInv, E2EOK
    <3> QED BY <3>2, <3>3 DEF Kind
  <2>2. ASSUME InApp(u)
        PROVE  {localRank[v] : v \in {w \in User : HostOf[w] = HostOf[u]}}
                 = 0 .. Cardinality({w \in User : HostOf[w] = HostOf[u]}) - 1
    <3>1. \A v \in User : Passed(pc[v]) > 0
      BY <2>2, InAppFacts DEF StartupInv
    <3>2. \A v \in User : pc[v] \notin {"new", "e2e_off", "constructed"}
      BY <3>1 DEF Passed, Phase0
    <3>3. Entered(HostOf[u]) = {w \in User : HostOf[w] = HostOf[u]}
      BY <3>2 DEF Entered
    <3> QED BY <3>3, <2>h DEF StartupInv, AppInv, RanksOK
  <2> QED BY <2>1, <2>2
<1> QED BY <1>1, StartupCorrect, PTL
=============================================================================
