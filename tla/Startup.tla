------------------------------ MODULE Startup -------------------------------
(***************************************************************************)
(* The start of a simulation, seen through SimGrid's rounds: the main      *)
(* program deploys the actors of the NICs and of the user applications,    *)
(* every runnable actor runs once per round until its next simcall, and    *)
(* when none is runnable time advances and wakes sleepers.  The actors     *)
(* register, set the options of their node, create the queues that the     *)
(* others look up, and meet at a barrier whose size is the number of       *)
(* actors registered when the first of them creates it; each application   *)
(* then opens a network interface, tells the others about it, and closes   *)
(* it.  The orders inside a round are those of any deployment file.        *)
(***************************************************************************)
EXTENDS Integers, FiniteSets

CONSTANTS
  User,         \* the user_app actors
  Position,     \* the position of each of them in the deployment, from 0
  Nic,          \* the NIC actors
  HostOf,       \* the host (slug) of each actor
  Role,         \* of a NIC actor: "initiator", "target" or "e2e"
  Vn,           \* its virtual network: "request" or "response"
  RankProp,     \* the property "rank" of a user actor, NoRank if not set
  PciProp,      \* user actors whose property model_pci_commands is true
  Daemon,       \* user actors whose property is_daemon is true
  Delayed,      \* user actors that have a property delay_start
  Twice,        \* user actors whose application first opens and closes another
                \* interface
  AskedPid,     \* the pid each application asks for, PidAny if it does not mind
  ModelPci,     \* S4BXI_MODEL_PCI
  ModelPciCommands,  \* S4BXI_MODEL_PCI_COMMANDS
  E2EOff        \* S4BXI_E2E_OFF

CONSTANTS None, NoRank, PidAny

Actor == User \cup Nic
Host  == {HostOf[a] : a \in Actor}
Vns   == {"request", "response"}

ASSUME StartupAssumption ==
  /\ IsFiniteSet(User) /\ User \cap Nic = {}
  /\ Position \in [User -> 0 .. Cardinality(User) - 1]
  /\ Daemon \subseteq User /\ Delayed \subseteq User /\ PciProp \subseteq User
  /\ \A a \in Nic : Role[a] \in {"initiator", "target", "e2e"}
  /\ \A u \in User : AskedPid[u] = PidAny \/ AskedPid[u] \in Nat
  /\ None \notin Nat \cup Nic \cup {"mailbox", "semaphore"}
  /\ ModelPci \in BOOLEAN /\ ModelPciCommands \in BOOLEAN /\ E2EOff \in BOOLEAN

VARIABLES
  todo,       \* actors that have not had their turn in this round
  sched,      \* "ready" for the next round, "asleep", "barrier", "idle", "dead"
  pc,         \* the next thing each actor does
  actors,     \* BxiEngine::actors: the registered main actors
  nodePci,    \* model_pci_commands of each node
  e2eOff,     \* e2e_off of each node
  e2eActor,   \* e2e_actor of each node
  queues,     \* tx_queues of each node: None, "mailbox" or "semaphore"
  txQueue,    \* the queue that each target and each application took
  localRank,  \* my_local_rank
  localRanks, \* local_ranks: the last rank given on each host
  barrier,    \* size of _barrier, None before it is created
  loaded,     \* user actors that loaded their copy of the application
  usedPids,   \* used_pids of each node
  nis,        \* the network interfaces in ni_handles
  defaultNi   \* users that called s4bxi_set_ptl_process_for_rank

kernelVars == <<todo, sched, pc>>
nodeVars   == <<nodePci, e2eOff, e2eActor, queues>>
rankVars   == <<actors, localRank, localRanks>>
appVars    == <<txQueue, usedPids, nis, defaultNi>>
vars       == <<kernelVars, nodeVars, rankVars, appVars, barrier, loaded>>

\* BxiEngine: model_pci_commands is only looked at with model_pci, and a
\* node has an option if its own and the global setting have it.
PciCommands(n) == nodePci[n] /\ ModelPci /\ ModelPciCommands

\* s4bxi_default_main gives a user actor its position as rank, unless the
\* deployment gives another.
Rank(u) == IF RankProp[u] # NoRank THEN RankProp[u] ELSE Position[u]

\* get_actor_from_rank
ActorFromRank(r) ==
  LET found == {v \in actors : Rank(v) = r}
  IN IF found = {} THEN None ELSE CHOOSE v \in found : TRUE

Init ==
  /\ todo = Actor
  /\ sched = [a \in Actor |-> "running"]
  /\ pc = [a \in Actor |-> "new"]
  /\ actors = {}
  /\ nodePci = [n \in Host |-> TRUE]
  /\ e2eOff = [n \in Host |-> TRUE]
  /\ e2eActor = [n \in Host |-> None]
  /\ queues = [n \in Host |-> [v \in Vns |-> None]]
  /\ txQueue = [a \in Actor |-> None]
  /\ localRank = [u \in User |-> None]
  /\ localRanks = [n \in Host |-> None]
  /\ barrier = None
  /\ loaded = {}
  /\ usedPids = [n \in Host |-> {}]
  /\ nis = {} /\ defaultNi = {}

-----------------------------------------------------------------------------
(***************************************************************************)
(* SimGrid: rounds, time, barriers, the end.                               *)
(***************************************************************************)
In(s) == {a \in Actor : sched[a] = s}

\* The actor a, at p, runs until a simcall that leaves it in state s.
Turn(a, p, q, s) ==
  /\ a \in todo /\ pc[a] = p
  /\ todo' = todo \ {a}
  /\ pc' = [pc EXCEPT ![a] = q]
  /\ sched' = [sched EXCEPT ![a] = s]

NextRound ==
  /\ todo = {} /\ In("ready") # {}
  /\ todo' = In("ready")
  /\ sched' = [a \in Actor |-> IF sched[a] = "ready" THEN "running" ELSE sched[a]]
  /\ UNCHANGED <<pc, nodeVars, rankVars, appVars, barrier, loaded>>

\* Time advances to the end of some of the sleeps.
Advance ==
  /\ todo = {} /\ In("ready") = {}
  /\ \E S \in SUBSET In("asleep") \ {{}} :
       /\ todo' = S
       /\ sched' = [a \in Actor |-> IF a \in S THEN "running" ELSE sched[a]]
  /\ UNCHANGED <<pc, nodeVars, rankVars, appVars, barrier, loaded>>

\* _barrier->wait(): the last of the expected actors lets all of them go.
BarrierWait(a, p, q) ==
  LET waiting == In("barrier") IN
  /\ a \in todo /\ pc[a] = p
  /\ todo' = todo \ {a}
  /\ pc' = [pc EXCEPT ![a] = q]
  /\ sched' = [b \in Actor |->
                 IF Cardinality(waiting) + 1 < barrier
                 THEN IF b = a THEN "barrier" ELSE sched[b]
                 ELSE IF b \in waiting \cup {a} THEN "ready" ELSE sched[b]]

\* The simulation ends with the last actor that is not a daemon.
KillDaemons ==
  /\ todo = {}
  /\ \A u \in User \ Daemon : sched[u] = "dead"
  /\ \E a \in Actor : sched[a] # "dead"
  /\ sched' = [a \in Actor |-> "dead"]
  /\ UNCHANGED <<todo, pc, nodeVars, rankVars, appVars, barrier, loaded>>

-----------------------------------------------------------------------------
(***************************************************************************)
(* NIC actors.  daemonize is a simcall.                                    *)
(***************************************************************************)
\* Mutant: the queue is created in the first turn of the actor.
NicConstructAtOnce(a) ==
  /\ Role[a] # "e2e"
  /\ Turn(a, "new", "daemonized", "ready")
  /\ queues' = IF Role[a] = "target" THEN queues
               ELSE [queues EXCEPT ![HostOf[a]][Vn[a]] =
                       IF PciCommands(HostOf[a]) THEN "mailbox" ELSE "semaphore"]
  /\ UNCHANGED <<nodePci, e2eOff, e2eActor, rankVars, appVars, barrier, loaded>>

\* BxiNicActor::BxiNicActor
NicConstruct(a) ==
  /\ Role[a] # "e2e"
  /\ Turn(a, "new", "daemonized", "ready")
  /\ UNCHANGED <<nodeVars, rankVars, appVars, barrier, loaded>>

\* The end of the constructor of BxiNicInitiator, and its wait for a message
Initiator(a) ==
  LET n == HostOf[a] IN
  /\ Role[a] = "initiator"
  /\ Turn(a, "daemonized", "get", "idle")
  /\ queues' = IF queues[n][Vn[a]] # None THEN queues
               ELSE [queues EXCEPT ![n][Vn[a]] =
                       IF PciCommands(n) THEN "mailbox" ELSE "semaphore"]
  /\ UNCHANGED <<nodePci, e2eOff, e2eActor, rankVars, appVars, barrier, loaded>>

\* BxiNicTarget looks for the queue of the response VN until it is there.
TargetLooks(a) ==
  /\ Role[a] = "target"
  /\ Turn(a, "daemonized", "looked", "ready")
  /\ txQueue' = [txQueue EXCEPT ![a] = queues[HostOf[a]]["response"]]
  /\ UNCHANGED <<nodeVars, rankVars, usedPids, nis, defaultNi, barrier, loaded>>

TargetLooksAgain(a) ==
  /\ Role[a] = "target"
  /\ IF txQueue[a] = None
     THEN /\ Turn(a, "looked", "looked", "ready")
          /\ txQueue' = [txQueue EXCEPT ![a] = queues[HostOf[a]]["response"]]
     ELSE Turn(a, "looked", "get", "idle") /\ UNCHANGED txQueue
  /\ UNCHANGED <<nodeVars, rankVars, usedPids, nis, defaultNi, barrier, loaded>>

\* BxiNicE2E::BxiNicE2E kills itself if it is not wanted.
E2EConstruct(a) ==
  /\ Role[a] = "e2e"
  /\ IF E2EOff \/ e2eActor[HostOf[a]] # None
     THEN Turn(a, "new", "killed", "dead")
     ELSE Turn(a, "new", "daemonized", "ready")
  /\ UNCHANGED <<nodeVars, rankVars, appVars, barrier, loaded>>

E2ERegister(a) ==
  /\ Role[a] = "e2e"
  /\ Turn(a, "daemonized", "wait", "idle")
  /\ e2eActor' = [e2eActor EXCEPT ![HostOf[a]] = a]
  /\ UNCHANGED <<nodePci, e2eOff, queues, rankVars, appVars, barrier, loaded>>

-----------------------------------------------------------------------------
(***************************************************************************)
(* User actors: constructor, ranks, barrier, loading.                      *)
(***************************************************************************)
\* E2E is on if the NIC of the node has an actor for that.
SetE2EOff(n) ==
  e2eOff' = IF E2EOff THEN [e2eOff EXCEPT ![n] = TRUE]
            ELSE IF \E b \in Nic : HostOf[b] = n /\ Role[b] = "e2e" /\ sched[b] # "dead"
            THEN [e2eOff EXCEPT ![n] = FALSE]
            ELSE e2eOff

\* Mutant: the barrier is created by the constructor.
ConstructWithBarrier(u) ==
  /\ Turn(u, "new", "constructed", "ready")
  /\ actors' = actors \cup {u}
  /\ nodePci' = [nodePci EXCEPT ![HostOf[u]] = u \in PciProp]
  /\ SetE2EOff(HostOf[u])
  /\ barrier' = IF barrier = None THEN Cardinality(actors) + 1 ELSE barrier
  /\ UNCHANGED <<e2eActor, queues, localRank, localRanks, appVars, loaded>>

\* BxiMainActor::BxiMainActor, until daemonize or on_exit
Construct(u) ==
  /\ Turn(u, "new", IF u \in Daemon THEN "e2e_off" ELSE "constructed", "ready")
  /\ actors' = actors \cup {u}
  /\ nodePci' = [nodePci EXCEPT ![HostOf[u]] = u \in PciProp]
  /\ IF u \in Daemon THEN UNCHANGED e2eOff ELSE SetE2EOff(HostOf[u])
  /\ UNCHANGED <<e2eActor, queues, localRank, localRanks, appVars, barrier, loaded>>

\* The rest of the constructor of a daemon
ConstructDaemon(u) ==
  /\ Turn(u, "e2e_off", "constructed", "ready")
  /\ SetE2EOff(HostOf[u])
  /\ UNCHANGED <<nodePci, e2eActor, queues, rankVars, appVars, barrier, loaded>>

\* BxiUserAppActor::operator(), until the first yield of setup_barrier
Enter(u) ==
  LET n == HostOf[u] IN
  /\ Turn(u, "constructed", "yielded", "ready")
  /\ localRanks' = [localRanks EXCEPT ![n] = IF @ = None THEN 0 ELSE @ + 1]
  /\ localRank' = [localRank EXCEPT ![u] = localRanks'[n]]
  /\ UNCHANGED <<actors, nodeVars, appVars, barrier, loaded>>

\* Mutant: the barrier also expects the actors of the NICs.
SetupBarrierForAll(u) ==
  /\ Turn(u, "yielded", "set_up", "ready")
  /\ barrier' = IF barrier = None THEN Cardinality(Actor) ELSE barrier
  /\ UNCHANGED <<nodeVars, rankVars, appVars, loaded>>

\* The first actor to come here creates the barrier.
SetupBarrier(u) ==
  /\ Turn(u, "yielded", "set_up", "ready")
  /\ barrier' = IF barrier = None THEN Cardinality(actors) ELSE barrier
  /\ UNCHANGED <<nodeVars, rankVars, appVars, loaded>>

\* The copy of the application is made, relinked and loaded; then the
\* actor waits for the others.
Load(u) ==
  /\ BarrierWait(u, "set_up", "start")
  /\ loaded' = loaded \cup {u}
  /\ UNCHANGED <<nodeVars, rankVars, appVars, barrier>>

-----------------------------------------------------------------------------
(***************************************************************************)
(* An application that opens an interface, publishes it, asks for those of *)
(* the others after a barrier, and closes it.  issue_portals_command takes *)
(* time if commands are modelled.                                          *)
(***************************************************************************)
DelayStart(u) ==
  /\ u \in Delayed
  /\ Turn(u, "start", "delayed", "asleep")
  /\ UNCHANGED <<nodeVars, rankVars, appVars, barrier, loaded>>

Command(u) == IF PciCommands(HostOf[u]) THEN "asleep" ELSE "ready"

\* PtlInit sleeps before it takes the queue.
PtlInit(u) ==
  /\ \/ u \notin Delayed /\ Turn(u, "start", "PtlInit", "asleep")
     \/ Turn(u, "delayed", "PtlInit", "asleep")
  /\ UNCHANGED <<nodeVars, rankVars, appVars, barrier, loaded>>

\* The end of PtlInit, and the command of PtlNIInit
PtlInitEnd(u) ==
  /\ Turn(u, "PtlInit", IF u \in Twice THEN "open1" ELSE "PtlNIInit", Command(u))
  /\ txQueue' = [txQueue EXCEPT ![u] = queues[HostOf[u]]["request"]]
  /\ UNCHANGED <<nodeVars, rankVars, usedPids, nis, defaultNi, barrier, loaded>>

FirstPid == 2048

\* The first pid from FirstPid on that is not in use
UnusedPid(used) ==
  CHOOSE p \in FirstPid .. FirstPid + Cardinality(used) :
    /\ p \notin used
    /\ \A q \in FirstPid .. p - 1 : q \in used

Opening(u) == \/ Turn(u, "open1", "opened1", "ready")
              \/ Turn(u, "PtlNIInit", "published", "ready")

Ni(u, p) == [owner |-> u, node |-> HostOf[u], pid |-> p, closing |-> FALSE]

\* Mutant: the pid of the interface is not entered in used_pids.
PtlNIInitForgets(u) ==
  LET n == HostOf[u] IN
  /\ Opening(u)
  /\ nis' = nis \cup {Ni(u, UnusedPid(usedPids[n]))}
  /\ defaultNi' = IF pc'[u] = "published" THEN defaultNi \cup {u} ELSE defaultNi
  /\ UNCHANGED <<nodeVars, rankVars, txQueue, usedPids, barrier, loaded>>

\* PtlNIInit after its command, and s4bxi_set_ptl_process_for_rank.  A pid
\* that is asked for and in use ends the simulation (ptl_panic).
PtlNIInit(u) ==
  LET n == HostOf[u]
      p == IF AskedPid[u] = PidAny THEN UnusedPid(usedPids[n]) ELSE AskedPid[u]
  IN
  /\ p \notin usedPids[n]
  /\ Opening(u)
  /\ usedPids' = [usedPids EXCEPT ![n] = @ \cup {p}]
  /\ nis' = nis \cup {Ni(u, p)}
  /\ defaultNi' = IF pc'[u] = "published" THEN defaultNi \cup {u} ELSE defaultNi
  /\ UNCHANGED <<nodeVars, rankVars, txQueue, barrier, loaded>>

PtlNIInitPanic(u) ==
  /\ AskedPid[u] # PidAny /\ AskedPid[u] \in usedPids[HostOf[u]]
  /\ u \in todo /\ pc[u] \in {"open1", "PtlNIInit"}
  /\ todo' = {}
  /\ pc' = [pc EXCEPT ![u] = "panic"]
  /\ sched' = [a \in Actor |-> "dead"]
  /\ UNCHANGED <<nodeVars, rankVars, appVars, barrier, loaded>>

\* Mutant: the application goes on without the barrier.
PublishAlone(u) ==
  /\ Turn(u, "published", "ask", "ready")
  /\ UNCHANGED <<nodeVars, rankVars, appVars, barrier, loaded>>

\* s4bxi_barrier
Publish(u) ==
  /\ BarrierWait(u, "published", "ask")
  /\ UNCHANGED <<nodeVars, rankVars, appVars, barrier, loaded>>

\* s4bxi_get_ptl_process_from_rank for every rank, and the command of
\* PtlNIFini
Ask(u) ==
  /\ \/ Turn(u, "ask", "PtlNIFini", Command(u))
     \/ Turn(u, "opened1", "close1", Command(u))
  /\ UNCHANGED <<nodeVars, rankVars, appVars, barrier, loaded>>

\* PtlNIFini gives the pid back, then waits for the commands in the queue.
PtlNIFini(u) ==
  LET ni == CHOOSE x \in nis : x.owner = u IN
  /\ \/ Turn(u, "PtlNIFini", "drained", "asleep")
     \/ Turn(u, "close1", "drained1", "asleep")
  /\ usedPids' = [usedPids EXCEPT ![HostOf[u]] = @ \ {ni.pid}]
  /\ nis' = (nis \ {ni}) \cup {[ni EXCEPT !.closing = TRUE]}
  /\ UNCHANGED <<nodeVars, rankVars, txQueue, defaultNi, barrier, loaded>>

\* The interface is destroyed, and the application opens the next one.
Reopen(u) ==
  /\ Turn(u, "drained1", "PtlNIInit", Command(u))
  /\ nis' = {x \in nis : x.owner # u}
  /\ UNCHANGED <<nodeVars, rankVars, txQueue, usedPids, defaultNi, barrier, loaded>>

\* The interface is destroyed, the application returns, and the actor meets
\* the others for the last time.
AppEnd(u) ==
  /\ BarrierWait(u, "drained", "end")
  /\ nis' = {x \in nis : x.owner # u}
  /\ UNCHANGED <<nodeVars, rankVars, txQueue, usedPids, defaultNi, barrier, loaded>>

Exit(u) ==
  /\ Turn(u, "end", "done", "dead")
  /\ UNCHANGED <<nodeVars, rankVars, appVars, barrier, loaded>>

-----------------------------------------------------------------------------
NicStep(a) == \/ NicConstruct(a) \/ Initiator(a) \/ TargetLooks(a)
              \/ TargetLooksAgain(a) \/ E2EConstruct(a) \/ E2ERegister(a)

UserStep(u) == \/ Construct(u) \/ ConstructDaemon(u) \/ Enter(u)
               \/ SetupBarrier(u) \/ Load(u) \/ DelayStart(u)
               \/ PtlInit(u) \/ PtlInitEnd(u) \/ PtlNIInit(u) \/ PtlNIInitPanic(u)
               \/ Publish(u) \/ Ask(u) \/ PtlNIFini(u)
               \/ Reopen(u) \/ AppEnd(u) \/ Exit(u)

Next == \/ \E a \in Nic : NicStep(a)
        \/ \E u \in User : UserStep(u)
        \/ NextRound \/ Advance \/ KillDaemons

\* SimGrid's main loop goes on as long as something can run.
Spec == Init /\ [][Next]_vars /\ WF_vars(Next)

-----------------------------------------------------------------------------
(***************************************************************************)
(* Properties.                                                             *)
(***************************************************************************)
\* Type correctness of the state of the engine, the nodes and the actors.
TypeOK ==
  /\ todo \subseteq Actor
  /\ sched \in [Actor -> {"running", "ready", "asleep", "barrier", "idle", "dead"}]
  /\ actors \subseteq User /\ loaded \subseteq User /\ defaultNi \subseteq User
  /\ nodePci \in [Host -> BOOLEAN] /\ e2eOff \in [Host -> BOOLEAN]
  /\ \A n \in Host : /\ e2eActor[n] \in Nic \cup {None}
                     /\ \A v \in Vns : queues[n][v] \in {None, "mailbox", "semaphore"}
                     /\ localRanks[n] \in Nat \cup {None}
                     /\ usedPids[n] \subseteq Nat
  /\ \A u \in User : localRank[u] \in Nat \cup {None}
  /\ barrier \in 1 .. Cardinality(User) \cup {None}

InApp(u) == pc[u] \in {"start", "delayed", "PtlInit", "PtlNIInit", "published", "ask",
                       "open1", "opened1", "close1", "drained1", "PtlNIFini", "drained", "end", "done"}
                 /\ sched[u] # "barrier"

\* No application starts before every actor has registered and loaded its
\* copy: the barrier is created late enough to count them all.
NobodyStartsEarly ==
  \A u \in User : InApp(u) => actors = User /\ loaded = User

\* When PtlInit returns, the queue is the one of the initiator, of the kind
\* that the options of the node call for whatever the order of deployment,
\* and the node that has E2E on knows its E2E actor. Once an application
\* runs, the local ranks of its host are 0, 1, ... with one actor each, so
\* that s4bxi_global_rank_from_local finds every peer.
NodesAreReady ==
  \A u \in User :
    LET n    == HostOf[u]
        here == {v \in User : HostOf[v] = n}
    IN
    /\ pc[u] \in {"open1", "PtlNIInit"} =>
         /\ txQueue[u] = IF PciCommands(n) THEN "mailbox" ELSE "semaphore"
         /\ ~e2eOff[n] => e2eActor[n] # None
    /\ InApp(u) => {localRank[v] : v \in here} = 0 .. Cardinality(here) - 1

\* Interfaces of a node that are open have different pids, all of them in
\* used_pids, whichever applications open and close theirs meanwhile.
OpenPidsDiffer ==
  /\ TypeOK
  /\ \A x, y \in nis :
       x # y /\ x.node = y.node /\ ~x.closing /\ ~y.closing => x.pid # y.pid
  /\ \A x \in nis : ~x.closing => x.pid \in usedPids[x.node]

\* After s4bxi_barrier an application finds an actor for every rank, and
\* that actor has told its interface (s4bxi_get_ptl_process_from_rank).
PeersHavePublished ==
  \A u \in User : pc[u] = "ask" /\ sched[u] \in {"ready", "running"} =>
     \A r \in 0 .. Cardinality(User) - 1 : ActorFromRank(r) \in defaultNi

\* Every application gets through its barriers and ends, unless one of them
\* asked for a pid in use.
EveryoneEnds ==
  \A u \in User \ Daemon : <>(pc[u] = "done" \/ \E v \in User : pc[v] = "panic")
=============================================================================
