# Verification of S4BXI

S4BXI simulates Portals 4 over the BXI interconnect on top of SimGrid. A user
program makes Portals calls; actors that stand for the parts of a NIC carry
them out. SimGrid actors are cooperative: one runs at a time and others run
only at its *simcalls* (put, get, sleep, resume, semaphore operations). A
datum read before a simcall and used after it may have changed, which is where
most of the difficulty of this code lies. The models below take one step per
stretch of code between two simcalls that others can notice.

## Inventory

| component | state | operations | interacts with |
|---|---|---|---|
| user actor (`BxiMainActor`) | command queue semaphore of its NI | `PtlPut`, `PtlGet`, `PtlAtomic`, `PtlFetchAtomic`, `PtlSwap`, list, counter and event queue calls | TX queues, lists, counters, EQs |
| TX actor (`BxiNicInitiator`), one per node and VN | TX queue, parked messages | `handle_put`, `handle_get`, `handle_response` | E2E actor, RX mailbox of the target |
| RX actor (`BxiNicTarget`), one per node and VN | RX mailbox | four request handlers, `handle_response`, `handle_ptl_ack`, `handle_bxi_ack` | lists, counters, EQs, response TX queue |
| E2E actor (`BxiNicE2E`), one per node | queue of messages with a timeout | retransmit, drop, give up | TX queue |
| node (`BxiNode`) | E2E entries, flow control credits, parked messages | acquire, release, `check_flowctrl`, `resume_waiting_tx_actors` | TX and RX actors |
| request and messages (`BxiRequest`, `BxiMsg`) | `process_state`, event flags, reference counts | `issue_ack`, `maybe_issue_send`, copy, unref | all NIC actors, of both nodes |
| portal table (`BxiPT`, `BxiME`) | priority and overflow lists, unexpected headers, flags of entries | append, unlink, match | user and RX actors |
| counters (`BxiCT`) | value, vector of waiters | wait, poll, increment, set | user, RX and TX actors |
| event queues (`BxiEQ`), mailbox pool | mailbox of each queue, stack of free mailboxes | alloc, free, get, wait, poll | user and NIC actors |
| atomics (`apply_atomic_op`) | memory | 20 operators on 12 types | RX actors |
| network interfaces (`BxiNI`), `BxiMD` | pids in use, limits, maps, default interface | init, fini, bind | user actor |
| engine, deployment, application actor (`BxiEngine`, `BxiUserAppActor`) | registered actors, ranks, barrier, loaded copies | construct, register, load, start, exit | all actors |
| MPI middleware | implementation in use, `smpi_requests`, pairs of derived handles | about 200 MPI entry points | user program, SMPI, linked MPI library |
| benchmarks and sampling | timer, accumulator, `is_sampling`, `samples` | `s4bxi_bench_begin/end`, `s4bxi_execute`, `s4bxi_sample_1..3` | every Portals call |
| shared allocation | `allocs`, `allocs_metadata`, files, mappings | malloc, partial malloc, free, `is_shared`, merge and shift of private blocks | user program |
| C API (`portals4.cpp`, `s4bxi_c_util.cpp`, `s4bxi_redefine.cpp`) | | wrappers that stop the timer and forward | user program |

What is hard: a request object is shared by the actors of both nodes; timeouts
of E2E race with answers that are late and not lost, so every message may be
duplicated; pools (E2E entries, command queue, credits, pids, mailboxes) must be
returned once; loops of `BxiCT`, `BxiPT`, `BxiNode` and `BxiEQ` make simcalls in
the middle; at startup actors look up what others may not have created yet; an
MPI request outlives the setting it was started under; a timer must not run
while somebody else does (and does in `S4BXI_SAMPLE_DELAY`). `PROJECT.json` lists these hazards at their lines.

What makes each part correct:
* transport: an operation takes effect once, its user sees each event once, a
  success is reported only after the effect, nothing happens after a failure;
  every operation ends; what was taken from a pool comes back;
* flow control: limits hold, no message is lost, doubled or parked for ever;
* counters: a waiter whose threshold is met is woken, by some loop, and none before it;
* lists: entries outlive their users, `USE_ONCE` is once, each unexpected
  message is settled by one overflow event;
* event queues: each event is returned once, in order, by a call on its queue,
  and whoever waits for one gets it;
* target memory: a payload stays in its entry, an atomic means what its name says;
* startup: nobody runs before everybody is there, what is looked up exists, pids
  of open interfaces differ, the simulation ends;
* MPI: a handle is never given to the implementation that did not make it, and
  none is leaked or used after it was freed;
* sampling: user time is charged once, to the process that used it;
* shared memory: only what the user shared is shared, files follow the blocks.

## Modules

**`BxiTransport`** is the core: user, TX, RX and E2E actors on any nodes and
VNs. A message is a record of its type, request, retry count, failure flag and
what it answers; initiator and target follow from these. Queues are sequences:
an RX mailbox has a declared receiver (`set_receiver`), so it delivers in the
order of the puts. What a request finds when it is matched is a choice in
`Outcome`, per request. `E2EOff` and `ModelPciCommands` are sets of nodes, as the
flags of `BxiNode` are. Time is absent: the E2E actor may find the head of its queue
expired at any moment, which covers every timeout and every delay. Actions and
code: `Issue` (the five calls of `BxiMainActor`), `TxGet`, `TxLaunch`,
`TxDone` (`BxiNicInitiator`, `reliable_comm_init`), `E2EDrop`, `E2EGiveUp`,
`E2ERetransmit` (the loop of `BxiNicE2E`), `RxDuplicate`, `RxPutMatched`,
`RxPutUnmatched`, `RxGetMatched`, `RxGetUnmatched`, `RxResponse`, `RxPtlAck`,
`RxE2EAck` (the handlers of `BxiNicTarget`). Between the start of a handler
and its end the code sleeps to model PCI; nothing that another actor tests
changes in these sleeps, so a handler is one step. The variables
`delivered`, `*Ev` and `told` are history: they count what users and memory see.

**`PtlOperation`** is the abstract promise: issue, take effect, complete.
`BxiTransport!ImplementsOperation` says that the transport implements it, with
`effect` mapped to `delivered`.

**`FlowControl`** is one VN of one node with credits at both levels. Messages
that are exempt (retransmissions, E2E ACKs) and E2E off are left out. The step
between `put` and `pop_front` of `resume_waiting_tx_actors` is explicit.
`MailboxQueue` tells what a put does: a mailbox delivers through the network
model after the loop has ended, a plain queue with a semaphore (PCI commands not
modelled) wakes the TX actor at once.

**`CountingEvent`** is `BxiCT`. `loop` is the position of a suspended
`on_update`; the walk goes on by index, which is what happens as long as the
vector is not reallocated, and is blocked once it puts to a mailbox without
reader. A poll joins one counter per step, because `get_async` is a simcall.

**`MatchList`** is one `BxiPT` with its entries, headers, the user process and
the RX actors. `freed` records deleted entries, to see uses after it.
Match bits are the relation `Matches`; offsets of `MANAGE_LOCAL` are left out.

**`EventQueue`** is `BxiEQ`, the mailbox pool and `BxiNode::issue_event`. An
issuer names a queue (`IssueEvent`) and puts the event (`PutEvent`); the event is in
`content` of the mailbox until a receive has it (`Arrive`, `ArriveComm`).
`Get`, `Wait`, `Poll` are the calls. `Poll` looks at the queues; each `get_async` that
follows is a simcall and a step (`PollPost`), between which issuers put events. `comms` are
the receives, all of which write `ev_ptr` (`evPtr`); `CallEnd` and `PollTimeout` cancel the ones left.
`givenUp` records the events that a cancelled receive had been promised.

**`TargetData`** is what requests do to one entry and to memory: `Put` goes through
`get_mlength`, `get_offsetted_addr`, `capped_memcpy` and `maybe_auto_unlink`;
`Atomic` through the operators of `apply_atomic_op` on words of `WordBits` bits,
each checked against a meaning stated on integers or on bits (`Means`). The constant of a
swap is not among them: the request does not carry it, and what the handler passes in its
place lies beyond the request (`ThirdOperand`: any word). `copies` and
`applied` are history. It uses `Bitwise`, so nothing is proved here.

**`SharedMemory`** is `s4bxi_shared.cpp` with addresses as numbers: `MallocLocal`,
`MallocPartial` (`Fold` is the arithmetic of the three mappings), the interception
by size (`New`, `MallocIntercept`), `Free`, and the functions on lists of private
blocks (`IsShared`, `Merge`, `ShiftAndFrame`). `held` is what the user asked for,
`mapped` what the system made of it. `MCData` holds it and `TargetData`, which share
no state: a behaviour exercises one of the two.

**`Startup`** is a simulation from deployment to end, in SimGrid's rounds: `todo`
are the actors still to run in this round, `NextRound` and `Advance` start the next
round and wake sleepers. NIC actors construct, create or look up queues and the E2E
actor; applications register (`Construct`), take a local rank (`Enter`), size the
barrier (`SetupBarrier`), load their copy, start after a delay, call `PtlInit`,
open interfaces (`PtlNIInit`, pids of `used_pids`), publish theirs before
`s4bxi_barrier`, ask for that of a peer, close (`PtlNIFini`), meet again and exit.
Copying, relinking and `dlopen` of the application are the one step `Load`.

**`MpiMiddleware`** is the choice of the implementation for each call. `heap` is
the state of each address that both libraries allocate requests at, `smpiRequests` the set
of that name, `derived` the pairs of handles. Calls that erase or store an address after
`s4bxi_bench_end` are two steps (`Suspend`, `Late`), with other actors between them, who may
get a freed address meanwhile. `Undefined` ends the model when a handle reaches the
implementation that did not make it; `given` are the requests of that call. `doubtful` is
history: requests made at an address that was still in `smpi_requests` or about to be erased from
it, and persistent SMPI requests that were completed, which the code erases too.
MPI libraries are external: a request completes at any time and is freed by the
call that sees it. `Nonblocking`, `NonblockingCollective` and `Blocking` stand for the
families of wrappers that one macro generates.

**`Sampling`** is the timer: user code between calls (`Compute`), wrapped calls
(`Call`, `CallBlocks`, `CallReturns`) and those that only read (`InstantCall`),
`Execute`, and the loops of `s4bxi_sample.h`. `SampleDelay` is `S4BXI_SAMPLE_DELAY`, in user
code and in the body of a loop: it executes with the timer on. Actors share one thread, so a timer
that is on counts what the one that runs computes (`Elapse`). `owed` counts what user code has
computed and not been charged for, `alien` what it was charged for others. Which C functions stop the timer is listed by
name in `BenchCalls` and `InstantCalls`.

Composition: `BxiTransport` stands on the guarantees that the smaller modules
check separately (matching is its choice of `Outcome`, credits are always available,
events are counted), so that each race is explored with the participants it has in
the code and no others. An Atomic goes the way of a Put and appears in no run by itself; the
theorems cover it.

`MC*` modules give the constants of each run; the `*Proofs` modules hold the
proofs. Definitions called *Mutant* are faulty variants of the definition that
follows them; no specification uses them.

Every module has a type invariant `TypeOK`; where it is not a property of its own
it is a conjunct of the first invariant of its run.

## Runs

| run | instance | shows |
|---|---|---|
| `transport_retry` | a Put and a Get, one retransmission of every message, matched or not | types, one effect, events once, SEND before the end, refinement of `PtlOperation` |
| `transport_once` | two Puts and a Get the other way, no retransmission, small pools | E2E entries and command slots are given back exactly once, and all are back when the traffic has drained |
| `transport_live` | a FetchAtomic with one retransmission, a Get on a node without E2E actor | both complete and finish under fairness |
| `transport_entries_v` | a Get with one retransmission | expected violation, see below |
| `flow_mailbox` | five messages, both limits | limits hold, nothing is lost, everything is sent |
| `counting_wait` | two actors wait for and poll two counters, two updaters, increments of one and two, resets, failures | suspended actors stay listed, the loops pass nobody over whose test is met, and wake nobody else |
| `match_race` | two RX actors (service and compute VN), four entries, three messages | `USE_ONCE` is once, overflow messages are settled once, no header is left behind, against append, unlink and disable |
| `events` | two issuers, three queues over two mailboxes, three events | each event is somewhere, comes from its own queue in order; waiting calls return, also for events put between two receives of a poll |
| `data` | every layout of one or two shared parts of 4 or 8 bytes, pages of 2; all 4-bit words; three payloads | files, folding, recognition, block arithmetic, offsets, atomics |
| `startup` | three applications and five NIC actors on two hosts | barrier, queues, ranks and pids are right in every order of each round; everyone ends |
| `mpi_switch` | two applications, two requests each over two addresses, one switch, one derived handle, persistent requests of both libraries | only doubtful requests reach the wrong implementation or are tracked wrongly; derived pairs are whole |
| `sampling` | two processes, two operations each, a global and a local loop | timers measure their own process and, in a delay only, others; time is conserved; only a delay in a global loop aborts it; otherwise everyone finishes |

Bounds: `MaxRetries` is 1 with retransmission (the second copy is the first
that can be a duplicate; a third goes the same ways), `MaxE2EEntries` is 2 and
`CQCapacity` 1 where the pools are the question, so that senders wait for them,
and otherwise large enough not to hide an order. Counters go to 2, with thresholds 1
and 2 and increments of 1 and 2: thresholds are met exactly, passed and jumped over while two
loops of `on_update` walk the same vector. Three events over two queues are the fewest with one in a
mailbox, one in flight and one returned. Pages of 2 bytes and blocks of 2 pages give
every alignment of a part's ends to pages and blocks. Words of 4 bits have all sign,
carry and wrap cases of wider ones, for which the code is the same. Two applications
on a host are enough for pids and local ranks to collide, a third on another host for the
barrier to be sized wrongly. One switch separates the start of a request from its end; two
addresses for four variables make the heap hand them out again. `mpi_switch` leaves out states that
have both requests and derived handles, which no call relates (`OneHalf`). `cpu_threshold`
is 2 with durations 1 and 2, so that the accumulator reaches it exactly and passes it; loops have
no iteration or two, one more than a benchmark needs.
Deadlock is not checked: every system may stop when its users do nothing more.
`mpi_switch` is symmetric in actors and in addresses, `counting_wait` in waiters and in updaters,
which no definition tells apart.

What the instances leave out on purpose, because the code does not do it right, is
under the next heading: `DrainedFrees`, `Careful`, mailbox queues, sizes of whole pages,
unanswered operations where pools are the question. Elsewhere the instances let the code go wrong and
the properties say where it may: `givenUp`, `doubtful`, `alien`, `Overtaken`.

### Disagreements between code and comments

`transport_entries_v` refutes a comment of the source, quoted in `PROJECT.json`: a
duplicated answer releases an entry and a credit twice.

The others have no run of their own. They follow from the same models by changing
constants, or from reading, and bound what the passing runs may assume.

Transport:
* an unmatched request is processed at each retransmission (it stays CREATED);
* an unmatched Put without ACK request, or Atomic, is never answered: it does not
  finish and its entry leaks (so `transport_once` lets these always match);
* retransmissions free command slots they did not take (so `FiniWaitsForCommands`
  is checked without retransmission);
* SEND is lost when an `ACK_DISABLE` entry matches a large Put that asked for an
  ACK (so `FinishedImpliesSent` is checked with entries that let ACKs go);
* retransmissions are lost when PCI commands are not modelled (`orphans`).

Flow control (`BxiNode.cpp:215`): with a plain TX queue (`MailboxQueue = FALSE`) the
TX actor runs between `put` and `pop_front`, and a message it parks again is popped: lost.
With quick ACKs several RX actors resume the same messages.

Counters (`BxiCT.cpp:37`): "When somebody increments the CT, they will wake us up if
necessary" (line 90) is not kept. `on_update` tests equality with the value the counter has when
the loop comes to the waiter: an increment by more than one jumps over the threshold, and another
updater may move the counter past it during the simcalls of the loop. That waiter sleeps on.
`StillToBeWoken` is what the loops do guarantee: nobody is passed over whose test the
counter meets. Entries of finished polls stay and block a later update, with all it had still to wake.

Lists: `needs_unlink` is read (`BxiNicTarget.cpp:176`) after the event on which the
user may have freed the entry; an overflow entry marked for unlinking still matches and is then deleted
under the header it just took; `in_use` is one flag for all RX actors.

Event queues (`BxiEQ.cpp:111`): "it seems safe to cancel all comms" loses the events
that cancelled receives were already matched with (`givenUp`). A queue freed with events on their
way passes them to the next owner of its mailbox (`DrainedFrees = FALSE`).

Target memory: `get_mlength` ignores `remote_offset` of entries that are not
`MANAGE_LOCAL`; the loop over several operands of an atomic never advances. `PtlSwap` drops its
constant (`BxiMainActor.cpp:548` creates a `BxiFetchAtomicRequest`), and the target casts that request to
a `BxiSwapRequest` and passes the address of a field beyond it (`BxiNicTarget.cpp:371`, also a pointer
and not what it points to): a conditional or masked swap uses whatever is there.
`AtomicMeaning` is about the three words the operator is given.

Sampling: `S4BXI_SAMPLE_DELAY` (`s4bxi_sample.h:50`) calls `s4bxi_execute` without `s4bxi_bench_end`. The
timer stays on while others run, and their computation is simulated for this process too. In the body of a
global loop another process may meanwhile end the benchmark, and `s4bxi_sample_3` throws
(`THROW_IMPOSSIBLE`, `s4bxi_sample.cpp:155`). `S4BXI_SAMPLE_FLOPS` calls a function that is defined nowhere.

Shared memory: when `size` is not a whole number of pages and the last part ends
at `size`, private bytes of the last page are shared, against the comment at
`s4bxi_shared.cpp:219`; a free in LOCAL mode keeps the metadata of the address while its
location has others; `shift_and_frame_private_blocks` drops a private block that
straddles the start of the window.

Startup: `PtlNIFini` gives the pid back before the interface is closed
(`BxiMainActor.cpp:243`); an application that never returns, or calls
`s4bxi_exit`, keeps the others at the last barrier; a target whose node has no
response initiator yields for ever; two E2E actors of a node both live, against the comment
at `BxiNicE2E.cpp:28`.

MPI: `Waitany`, `Waitsome` and `Request_free` leave addresses in `smpi_requests`
("TODO: clean smpi_requests", line 642), and a request of the linked library that is allocated there
is taken for one of SMPI. `Test`, `Testany` and `Testall` erase an address after `s4bxi_bench_end`
(line 550), when another actor may have got it from SMPI: that request is forgotten. `Test` and
`Wait` forget a persistent SMPI request that will be started again. The requests of these three kinds are
`doubtful` in the model, and nothing is claimed about where a call with one of them goes. `Waitall`
follows the implementation in use (line 673; "technically doesn't do the right thing", line 657), like
`Waitsome`, `Start` and `Request_free`, and `Waitany` that of the first request, so an application must not mix
implementations in an array nor call these after a switch (`Careful`); `Testany` uses an
index that may be `MPI_UNDEFINED`.

## Fairness

* `BxiTransport`: weak fairness of TX, RX and E2E actors. SimGrid runs every actor
  whose simcall can complete, and a simulated timeout always expires. Nothing
  forces the user to issue anything.
* `FlowControl`: the answers are fair too, which `BxiTransport` shows under its own
  conditions.
* `EventQueue`: an issuer puts what it announced, a poll posts its receives, a transfer
  ends, and a call whose receive is done returns. The application and the issuers need not call.
* `Startup`: weak fairness of the whole next-state relation, which is SimGrid's main loop: it
  goes on while any actor can run or any date is left.
* `Sampling`: weak fairness of each process. `MatchList`, `CountingEvent`,
  `SharedMemory` and `MpiMiddleware` have safety properties only.

## Proofs

Checked by TLAPS, for every value of the constants. Each module of proofs extends
its component and the assumptions that module declares, which only type the
constants. What a theorem needs beyond them is a named hypothesis of the theorem.
Facts about sequences and cardinalities come first in the module that needs them.

| Theorem | States | Hypothesis |
|---|---|---|
| `BxiTransportProofs`: `TypeCorrect` | `TypeOK` | |
| `AtMostOnceDelivery`, `AtMostOnceEvents` | `DeliveredAtMostOnce`, `EventsAtMostOnce` | |
| `TransportImplementsOperation` | refinement of `PtlOperation` | |
| `SendBeforeFinish` | `FinishedImpliesSent` | `AcksEnabled` |
| `FiniSeesCommands`, `EntriesReturned` | `FiniWaitsForCommands`, `EntriesWithinPool` | `NoRetransmission` |
| `PoolsRefill` | `DrainedPoolsAreFull` | `NoRetransmission`, `Conserving` |
| `FlowControlProofs`: `InflightLimited` | `InflightWithinLimit` | |
| `ParkedNotLost` | `NoMessageLost` | `OneLoop` |
| `MatchListProofs`: `UseOnceOnce`, `OverflowOnce`, `HeadersAllSeen` | `UseOnceMatchesOnce`, `OverflowSettledOnce`, `NoHeaderLeftBehind` | |
| `CountingEventProofs`: `SuspendedListed`, `WokenWithReason` | `SuspendedIsListed`, `WokenForAReason` (an action property) | |
| `NobodyPassedOver` | `StillToBeWoken` | |
| `EventQueueProofs`: `NoEventLost` | `EventsAreSomewhere` | |
| `EventsInOrder` | `OwnEventsInOrder` | `DrainedFrees` |
| `SamplingProofs`: `TimersMeasureOwnCode`, `NoTimeLost`, `BodiesAreMeasured` | `MeasuresOnlyItself`, `TimeConserved`, `BenchedWhenNeeded` | |
| `StartupProofs`: `PidsDiffer` | `OpenPidsDiffer` | |
| `StartsTogether` | `NobodyStartsEarly` | `Foreground` |
| `NodesReady` | `NodesAreReady` | `Foreground`, `Deployed` |
| `PeersAreKnown` | `PeersHavePublished` | `RanksCover` |
| `MpiMiddlewareProofs`: `PairsAreWhole`, `RequestsTracked` | `FacesMatch`, `RightlyTracked` | |
| `CallsReachTheirLibrary` | `NeverUndefined` | `Careful` |

The hypotheses are where the code needs them, and the runs make the same choice:
* `AcksEnabled`: no matching entry suppresses an ACK that was asked for. Otherwise
  `handle_bxi_ack` finishes the request and issues nothing.
* `NoRetransmission`: `MaxRetries = 0`, or no node has both E2E and a command queue.
  A copy frees a slot that no command took, and a duplicated answer gives an entry
  back twice (`transport_entries_v`).
* `Conserving`: on a node with E2E, a Put or Atomic that is never answered when it
  matches nothing finds a match, and a node without E2E, which sends no E2E ACK, gets no
  answer from a node with E2E. In both cases the code leaks the entry; `EntriesReturned`
  holds all the same.
* `DrainedFrees`: the application frees a queue only when it is empty and nothing is
  being sent to it. `free_random_mailbox` does not look, and the next owner of the
  mailbox would get the events.
* `OneLoop`: the TX queue is a mailbox and one RX actor gives credits back.
  Two loops of `resume_waiting_tx_actors` may pop each other's message.
* `Foreground`: some application is not a daemon; SimGrid ends the others at once.
* `Deployed`, `RanksCover`: the deployment has a request initiator on each host with
  applications, and an application for each rank.
* `Careful`: the application gives no array with requests of both implementations, and no request
  made before a switch to a call that follows the current setting.

None of these properties is inductive. What each proof adds:
* `OnceInv` ties each counter to what the handlers test: a delivered request is at
  least RECEIVED, a completed one at least ANSWERED, a target event needs
  a delivery (Put, Atomic) or `get_event_issued` (Get, FetchAtomic). A request
  that passes the duplicate check is CREATED, so none of its counters has moved. The
  refinement adds what a queued ACK or response says of its request; SEND events, what
  the messages that may finish a request owe; commands, that the free slots and the
  commands in TX queues make up the capacity.
* `EntryInv`, for E2E entries: each operation has at most one message on its way, in a TX
  or RX queue or in the hands of a TX actor (`OneMessage`), and that
  message is what the state of its request calls for, at its own node (`Sound`). So the message
  tells which of the two sides of its operation have an entry out (`Owes`), and
  the free entries of a node and those that are out make up its pool (`Counted`). Each handler is
  shown to move, answer, absorb or lose one message; only losing one leaks an entry,
  and `Conserving` rules that out.
* `EventQueue`: a mailbox belongs to one queue or is in the pool once; a receive waits
  only while its mailbox is empty; `evPtr` is the event of one of the receives
  (`QueueInv`). The identities in mailboxes, in receives, returned and given up are apart, and
  are all those below `sent` (`Placed`); an event at position `k` has an identity of at least
  `k - 1`, so the bound on events bounds the mailboxes, and the sets that
  `Held` counts have at most one element. For the order: events returned are
  older than the one a receive has, and that one is older than those in its mailbox
  (`Ordered`), which needs that an event is never in the mailbox of another queue (`Owned`).
* `FlowControl`: the credits that are left and the messages that hold one make up each
  limit. For `NoMessageLost`, what the loop will pop is the head of the parked messages and
  already in the TX queue.
* `MatchList`: where each entry and each header is at each point of the walk of
  `PtlMEAppend`; a header behind the walk matches nothing that the walk will insert.
* `CountingEvent`: entries of a vector and suspended actors correspond one to one.
  For `StillToBeWoken`, which is inductive on those: a loop that erases an entry stays at its index,
  so that it is not behind what moves there, and another loop which thereby skips an entry leaves
  it to the one that erased.
* `Sampling`: each process is described by where it is, or will be when its execution ends (`At`):
  whether it runs, what its timer and what is left to simulate hold (`Left`), what its location says. The
  data of a global location change under a process in the middle of a body only if it waited
  in `S4BXI_SAMPLE_DELAY` (`Overtaken`), and nobody else has changed them otherwise (`OwnSamples`).
* `Startup`: as long as somebody is new nobody has had two turns, which is why
  the barrier, created in the third turn, counts everybody; and all users are in the
  same phase except those who wait at the next barrier. A pid is unused because there
  are fewer interfaces than pids (a pigeonhole argument).
* `MpiMiddleware`: the two dozen calls on requests change the state in eight ways only,
  and the invariant is proved over those. No request is held by two variables, an
  address about to be erased is free or doubtful (`Erased`), one about to be stored is held by the
  call, and what a blocked `Wait` has forgotten is not put back. A call that reaches
  the wrong implementation was then given a doubtful request (`EndInv`).

The transport theorems hold for both values of `QuickAcks`, and those of
`Sampling` for both of `cpu_accumulate`, options of which the runs set one.

Only model-checked:
* liveness and everything under fairness, which is out of reach of the prover;
* `TargetData`, which uses `Bitwise`, whose operators are recursive;
* `SharedMemory`: merging lists of blocks is recursive, and what it computes needs
  induction over data. `OneFilePerLocation` is within reach and not proved yet.

## Not modelled, and the plan

What could come next:
1. proof of `OneFilePerLocation`: the count of a location is the number of its blocks;
2. reference counts of `BxiMsg` and `BxiRequest` on the paths of `BxiTransport`.

Not modelled:
* reference counts: they decide when memory is freed, which nothing here observes;
* memory descriptors, `PtlPTAlloc`, `PtlPTFree`, logical maps and limits of `BxiNI`:
  single assignments without a second actor;
* PCI and network durations: they only choose an order the models already allow;
* floating point and complex atomics, beyond which of them panic;
* huge pages, file names, `s4bxi_shared_call` and the destruction of shared data;
* the SMPI build of the benchmarks, which forwards to SMPI, timer signals;
* parsing of options, platform and deployment, `dlopen` and relinking of the application;
* string tables, wrappers that throw "unimplemented", MPI calls that panic as unsupported, MPI status
  and group handles;
* what SimGrid's kernel and the NIC actors compute while a timer is left on in `S4BXI_SAMPLE_DELAY`;
* a Portals call in the body of a sampling loop, which aborts (`is_sampling`), and a `break` out of one.
