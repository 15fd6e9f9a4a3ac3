------------------------------ MODULE Sampling ------------------------------
(***************************************************************************)
(* How the time that user code takes on the real machine becomes simulated *)
(* time: the timer of each user process, which s4bxi_bench_begin starts    *)
(* and s4bxi_bench_end stops, the calls that do so (portals4.cpp,          *)
(* s4bxi_c_util.cpp, s4bxi_redefine.cpp), and the S4BXI_SAMPLE_ loops that *)
(* run a few iterations and simulate the others (s4bxi_sample.cpp).        *)
(*                                                                         *)
(* Actors share one thread: turn is the one that runs, until it makes a    *)
(* simcall.  A timer counts the time of that thread, so one that is left   *)
(* on while others run counts their time too.  Each step below is the code *)
(* between two places where another actor or the user code may come in.    *)
(* The build is the one without SMPI; cpu_factor is 1, real numbers are    *)
(* integers and a mean is rounded down.                                    *)
(***************************************************************************)
EXTENDS Integers, FiniteSets, Functions

CONSTANTS
  Actor,          \* user processes
  Loc,            \* source lines with a sampling loop
  Global,         \* those of S4BXI_SAMPLE_GLOBAL
  Iters,          \* iterations to benchmark, per line
  Stderr,         \* lines that also ask for a maximal standard error
  Duration,       \* times a piece of user code may take
  LoopLength,     \* iterations a loop may have
  cpu_threshold, cpu_accumulate,   \* configuration
  MaxOps,         \* bound: operations of a user process
  MaxBench,       \* bound: benchmarks after which the error is small enough
  None

ASSUME SamplingAssumption ==
  /\ Global \subseteq Loc /\ Stderr \subseteq Loc
  /\ Iters \in [Loc -> Nat]
  /\ \A l \in Loc : Iters[l] > 0 \/ l \in Stderr   \* assertion of s4bxi_sample_1
  /\ Duration \subseteq Nat /\ LoopLength \subseteq Nat
  /\ cpu_threshold \in Nat \ {0} /\ cpu_accumulate \in BOOLEAN
  /\ MaxOps \in Nat /\ MaxBench \in Nat /\ MaxBench > 1
  /\ None \notin Actor

VARIABLES
  turn,       \* the actor that runs, or None
  pc,         \* where each actor is
  next,       \* where it goes on after s4bxi_execute
  timer,      \* running or not, and the time measured
  sampling,   \* is_sampling
  acc,        \* cpu_accumulator
  exec,       \* duration of the execution an actor waits for
  samples,    \* LocalData of the locations met so far
  loop,       \* the loop an actor is in
  ops,        \* operations done
  owed,       \* time an actor computed or asked for, less what was simulated
  alien,      \* time of others that a timer added to an actor's own
  delayed     \* actors that have waited in S4BXI_SAMPLE_DELAY

ghosts == <<alien, delayed>>
vars == <<turn, pc, next, timer, sampling, acc, exec, samples, loop, ops, owed, ghosts>>

Off == [on |-> FALSE, t |-> 0]
NoLoop == [loc |-> None, total |-> 0, done |-> 0]

Init ==
  /\ turn = None
  /\ pc = [a \in Actor |-> "start"]
  /\ next = [a \in Actor |-> "start"]
  /\ timer = [a \in Actor |-> Off]
  /\ sampling = [a \in Actor |-> FALSE]
  /\ acc = [a \in Actor |-> 0] /\ exec = [a \in Actor |-> 0]
  /\ samples = << >>
  /\ loop = [a \in Actor |-> NoLoop]
  /\ ops = [a \in Actor |-> 0]
  /\ owed = [a \in Actor |-> 0] /\ alien = [a \in Actor |-> 0] /\ delayed = {}

Set(f, x, v) == f' = [f EXCEPT ![x] = v]
Runs(a, where) == turn = a /\ pc[a] = where

-----------------------------------------------------------------------------
(***************************************************************************)
(* Calls, by the macro or the pattern their wrappers use.                  *)
(***************************************************************************)
\* BENCH_PORTALS_CALL: network interfaces, portal tables and entries
BenchSetup == {"PtlInit", "PtlFini", "PtlNIInit", "PtlNIFini", "PtlPTAlloc", "PtlPTFree",
               "PtlPTEnable", "PtlPTDisable", "PtlMDBind", "PtlMDRelease", "PtlMEAppend",
               "PtlMEUnlink", "PtlLEAppend", "PtlLEUnlink"}
\* ... events and counters
BenchEvents == {"PtlEQAlloc", "PtlEQFree", "PtlEQGet", "PtlEQPoll", "PtlEQWait", "PtlCTAlloc",
                "PtlCTFree", "PtlCTPoll", "PtlCTWait", "PtlCTSet", "PtlCTInc"}
\* ... data movement
BenchData == {"PtlPut", "PtlGet", "PtlAtomic", "PtlFetchAtomic", "PtlSwap", "PtlPutNB",
              "PtlGetNB", "PtlAtomicNB", "PtlFetchAtomicNB", "PtlSwapNB"}
\* s4bxi_c_util.cpp
BenchUtil == {"simtime", "barrier", "use_smpi_implem_log", "yield"}
\* s4bxi_redefine.cpp
BenchLibc == {"gettimeofday", "sleep", "usleep", "nanosleep", "setitimer", "alarm",
              "clock_gettime"}

BenchCalls == BenchSetup \cup BenchEvents \cup BenchData \cup BenchUtil \cup BenchLibc

\* Calls that make a simcall themselves
Yielding == BenchCalls \ {"simtime", "use_smpi_implem_log", "gettimeofday", "clock_gettime"}

\* Mutant: PtlEQGet, which sleeps to slow down active polling, is instant.
InstantEQGet == {"PtlHandleIsEqual", "PtlCTGet", "PtlEQGet"}

\* INSTANT_PORTALS_CALL
InstantCalls == {"PtlHandleIsEqual", "PtlSetMap", "PtlGetMap", "PtlGetUid", "PtlGetId",
                 "PtlGetPhysId", "PtlCTGet"}

-----------------------------------------------------------------------------
(***************************************************************************)
(* s4bxi_execute, s4bxi_bench_begin and s4bxi_bench_end.                   *)
(***************************************************************************)
\* s4bxi_execute: short durations add up until they reach the threshold.
Execute(a, duration, then) ==
  LET d == acc[a] + duration IN
  IF d >= cpu_threshold
  THEN /\ turn' = None /\ Set(pc, a, "exec") /\ Set(next, a, then) /\ Set(exec, a, d)
       /\ UNCHANGED acc
  ELSE /\ Set(pc, a, then)
       /\ IF cpu_accumulate THEN Set(acc, a, d) ELSE UNCHANGED acc
       /\ UNCHANGED <<turn, next, exec>>

\* Mutant: the accumulated time stays after it was simulated.
ExecDoneKeeps(a) ==
  /\ turn = None /\ pc[a] = "exec"
  /\ turn' = a /\ Set(pc, a, next[a]) /\ Set(next, a, "start")
  /\ Set(owed, a, owed[a] - exec[a]) /\ Set(exec, a, 0)
  /\ UNCHANGED <<timer, sampling, acc, samples, loop, ops, ghosts>>

\* The end of the execution s4bxi_execute waits for
ExecDone(a) ==
  /\ turn = None /\ pc[a] = "exec"
  /\ turn' = a /\ Set(pc, a, next[a]) /\ Set(next, a, "start")
  /\ Set(owed, a, owed[a] - exec[a]) /\ Set(exec, a, 0) /\ Set(acc, a, 0)
  /\ UNCHANGED <<timer, sampling, samples, loop, ops, ghosts>>

\* The rest of s4bxi_bench_begin's caller runs with the timer on.
BenchBegin(a, then) == Set(timer, a, [on |-> TRUE, t |-> 0]) /\ Set(pc, a, then)

\* s4bxi_bench_end: "Cannot do recursive benchmarks", or simulate the time
BenchEnd(a, then) ==
  IF sampling[a]
  THEN Set(pc, a, "died") /\ UNCHANGED <<turn, next, timer, acc, exec>>
  ELSE Set(timer, a, Off) /\ Execute(a, timer[a].t, then)

-----------------------------------------------------------------------------
(***************************************************************************)
(* User code outside sampling loops.                                       *)
(***************************************************************************)
\* BxiUserAppActor::operator(): the application begins, and ends.
Start(a) ==
  /\ turn = None /\ pc[a] = "start"
  /\ turn' = a /\ BenchBegin(a, "user")
  /\ UNCHANGED <<next, sampling, acc, exec, samples, loop, ops, owed, ghosts>>

Finish(a) ==
  /\ Runs(a, "user") /\ BenchEnd(a, "final")
  /\ UNCHANGED <<sampling, samples, loop, ops, owed, ghosts>>

Leave(a) ==
  /\ Runs(a, "final")
  /\ turn' = None /\ Set(pc, a, "done")
  /\ UNCHANGED <<next, timer, sampling, acc, exec, samples, loop, ops, owed, ghosts>>

\* The thread computes for a: all timers that are on count the time, and it
\* will be simulated for their actors, unless they measure a loop.
Elapse(a, d) ==
  /\ timer' = [b \in Actor |-> IF timer[b].on THEN [timer[b] EXCEPT !.t = @ + d] ELSE timer[b]]
  /\ alien' = [b \in Actor |-> IF timer[b].on /\ b # a /\ ~sampling[b] THEN alien[b] + d
                              ELSE alien[b]]

Operation(a) == Runs(a, "user") /\ ops[a] < MaxOps /\ Set(ops, a, ops[a] + 1)

Compute(a, d) ==
  /\ Operation(a)
  /\ Elapse(a, d)
  /\ Set(owed, a, owed[a] + d)
  /\ UNCHANGED <<turn, pc, next, sampling, acc, exec, samples, loop, delayed>>

\* S4BXI_SAMPLE_DELAY: s4bxi_execute, with the timer as it is, in user code
\* and in the body of a sampling loop alike
SampleDelay(a, d) ==
  /\ turn = a /\ pc[a] \in {"user", "body"}
  /\ ops[a] < MaxOps /\ Set(ops, a, ops[a] + 1)
  /\ Execute(a, d, pc[a]) /\ Set(owed, a, owed[a] + d)
  /\ delayed' = IF turn' = None THEN delayed \cup {a} ELSE delayed
  /\ UNCHANGED <<timer, sampling, samples, loop, alien>>

\* A call that stops the timer first; what it does then may be a simcall.
Call(a, c) ==
  /\ Operation(a) /\ BenchEnd(a, IF c \in Yielding THEN "call" ELSE "return")
  /\ UNCHANGED <<sampling, samples, loop, owed, ghosts>>

CallBlocks(a) ==
  /\ Runs(a, "call")
  /\ turn' = None /\ Set(pc, a, "blocked")
  /\ UNCHANGED <<next, timer, sampling, acc, exec, samples, loop, ops, owed, ghosts>>

CallReturns(a) ==
  /\ turn = a /\ pc[a] \in {"call", "return"}
  /\ BenchBegin(a, "user")
  /\ UNCHANGED <<turn, next, sampling, acc, exec, samples, loop, ops, owed, ghosts>>

Unblock(a) ==
  /\ turn = None /\ pc[a] = "blocked"
  /\ turn' = a /\ Set(pc, a, "return")
  /\ UNCHANGED <<next, timer, sampling, acc, exec, samples, loop, ops, owed, ghosts>>

\* A call that leaves the timer alone
InstantCall(a, c) ==
  /\ Operation(a)
  /\ IF c \in Yielding THEN turn' = None /\ Set(pc, a, "blocked") ELSE UNCHANGED <<turn, pc>>
  /\ UNCHANGED <<next, timer, sampling, acc, exec, samples, loop, owed, ghosts>>

\* s4bxi_compute_s: simulate d more through s4bxi_execute
ComputeS(a) ==
  /\ Operation(a) /\ BenchEnd(a, "compute_s")
  /\ UNCHANGED <<sampling, samples, loop, owed, ghosts>>

ComputeSExecute(a, d) ==
  /\ Runs(a, "compute_s")
  /\ Execute(a, d, "return")
  /\ Set(owed, a, owed[a] + d)
  /\ UNCHANGED <<timer, sampling, samples, loop, ops, ghosts>>

\* s4bxi_force_compute_s and s4bxi_compute: a given time is simulated at
\* once, whatever the threshold and the accumulator
ForceCompute(a) ==
  /\ Operation(a) /\ BenchEnd(a, "force")
  /\ UNCHANGED <<sampling, samples, loop, owed, ghosts>>

ForceExecute(a) ==
  /\ Runs(a, "force")
  /\ turn' = None /\ Set(pc, a, "blocked")
  /\ UNCHANGED <<next, timer, sampling, acc, exec, samples, loop, ops, owed, ghosts>>

-----------------------------------------------------------------------------
(***************************************************************************)
(* S4BXI_SAMPLE_LOCAL and S4BXI_SAMPLE_GLOBAL.                             *)
(***************************************************************************)
\* SampleLocation: a local location also carries the pid of the actor.
Key(a) == <<loop[a].loc, IF loop[a].loc \in Global THEN None ELSE a>>
Known(a) == Key(a) \in DOMAIN samples
Put(k, v) == samples' = [x \in DOMAIN samples \cup {k} |-> IF x = k THEN v ELSE samples[x]]

\* LocalData::need_more_benchs.  high says that the error is still too high.
NeedMore(a) ==
  LET data == samples[Key(a)]  l == loop[a].loc IN
  data.count < Iters[l] \/ (l \in Stderr /\ (data.count < 2 \/ data.high))

\* The mean of the benchmarks, 0 before the first
Mean(a) ==
  LET data == samples[Key(a)] IN IF data.count = 0 THEN 0 ELSE data.sum \div data.count

\* S4BXI_SAMPLE_LOOP counts the iterations before it begins.
EnterLoop(a, l, n) ==
  /\ Operation(a)
  /\ Set(loop, a, [loc |-> l, total |-> n, done |-> 0]) /\ Set(pc, a, "test")
  /\ UNCHANGED <<turn, next, timer, sampling, acc, exec, samples, owed, ghosts>>

\* The first half of s4bxi_sample_1: only the first one of a loop
\* simulates the time before the loop.
Sample1(a) ==
  /\ Runs(a, "test") /\ loop[a].done < loop[a].total
  /\ IF sampling[a]
     THEN Set(pc, a, "sample_1") /\ UNCHANGED <<turn, next, timer, acc, exec>>
     ELSE BenchEnd(a, "sample_1")
  /\ UNCHANGED <<sampling, samples, loop, ops, owed, ghosts>>

\* Mutant: data that exist already are taken as they are.
Sample1DataKeeps(a) ==
  /\ Runs(a, "sample_1")
  /\ Set(sampling, a, TRUE)
  /\ IF Known(a) THEN UNCHANGED samples
     ELSE Put(Key(a), [count |-> 0, sum |-> 0, high |-> TRUE, benching |-> TRUE])
  /\ Set(pc, a, "sample_2")
  /\ UNCHANGED <<turn, next, timer, acc, exec, loop, ops, owed, ghosts>>

\* The second half: the data of the location, and whether to run once more
Sample1Data(a) ==
  /\ Runs(a, "sample_1")
  /\ Set(sampling, a, TRUE)
  /\ IF Known(a)
     THEN Put(Key(a), [samples[Key(a)] EXCEPT !.benching = NeedMore(a)])
     ELSE Put(Key(a), [count |-> 0, sum |-> 0, high |-> TRUE, benching |-> TRUE])
  /\ Set(pc, a, "sample_2")
  /\ UNCHANGED <<turn, next, timer, acc, exec, loop, ops, owed, ghosts>>

\* Mutant: the loop is left but the actor still counts as sampling.
InjectKeeps(a) ==
  /\ Execute(a, Mean(a) * loop[a].total, "begin")
  /\ Set(owed, a, owed[a] + Mean(a) * loop[a].total)
  /\ UNCHANGED <<timer, sampling>>

\* The loop is over: simulate all its iterations with the mean measured.
Inject(a) ==
  /\ Set(sampling, a, FALSE)
  /\ Execute(a, Mean(a) * loop[a].total, "begin")
  /\ Set(owed, a, owed[a] + Mean(a) * loop[a].total)
  /\ UNCHANGED timer

Sample2(a) ==
  /\ Runs(a, "sample_2")
  /\ IF samples[Key(a)].benching \/ NeedMore(a)
     THEN BenchBegin(a, "body") /\ UNCHANGED <<turn, next, acc, exec, sampling, owed>>
     ELSE Inject(a)
  /\ UNCHANGED <<samples, loop, ops, ghosts>>

\* One iteration of the user's loop
Body(a, d) ==
  /\ Runs(a, "body")
  /\ Elapse(a, d) /\ Set(pc, a, "sample_3")
  /\ UNCHANGED <<turn, next, sampling, acc, exec, samples, loop, ops, owed, delayed>>

\* s4bxi_sample_3 and the step of the loop.  Whether the error is still too
\* high is any of the two, up to MaxBench benchmarks.
Sample3(a) ==
  LET data == samples[Key(a)] IN
  /\ Runs(a, "sample_3")
  /\ IF ~data.benching
     THEN Set(pc, a, "impossible") /\ UNCHANGED <<timer, samples, loop>>
     ELSE /\ \E high \in BOOLEAN :
               /\ high => data.count + 1 < MaxBench
               /\ Put(Key(a), [count |-> data.count + 1, sum |-> data.sum + timer[a].t,
                               high |-> high, benching |-> FALSE])
          /\ Set(timer, a, Off)
          /\ Set(loop, a, [loop[a] EXCEPT !.done = @ + 1]) /\ Set(pc, a, "test")
  /\ UNCHANGED <<turn, next, sampling, acc, exec, ops, owed, ghosts>>

\* s4bxi_sample_exit: the loop ran to its end.  A process that is sampling
\* somewhere else dies.
SampleExit(a) ==
  /\ Runs(a, "test") /\ loop[a].done = loop[a].total
  /\ IF sampling[a] /\ ~Known(a)
     THEN Set(pc, a, "died") /\ UNCHANGED <<turn, next, timer, acc, exec, sampling, owed, loop>>
     ELSE IF sampling[a] THEN Inject(a) /\ UNCHANGED loop
     ELSE /\ Set(pc, a, "user") /\ Set(loop, a, NoLoop)
          /\ UNCHANGED <<turn, next, timer, acc, exec, sampling, owed>>
  /\ UNCHANGED <<samples, ops, ghosts>>

\* The s4bxi_bench_begin that ends s4bxi_sample_2 or s4bxi_sample_exit
LeaveLoop(a) ==
  /\ Runs(a, "begin")
  /\ BenchBegin(a, "user") /\ Set(loop, a, NoLoop)
  /\ UNCHANGED <<turn, next, sampling, acc, exec, samples, ops, owed, ghosts>>

-----------------------------------------------------------------------------
Step(a) ==
  \/ Start(a) \/ Finish(a) \/ Leave(a)
  \/ \E d \in Duration : \/ Compute(a, d) \/ SampleDelay(a, d)
                         \/ ComputeSExecute(a, d) \/ Body(a, d)
  \/ \E c \in BenchCalls : Call(a, c)
  \/ \E c \in InstantCalls : InstantCall(a, c)
  \/ CallBlocks(a) \/ CallReturns(a) \/ ComputeS(a) \/ ForceCompute(a) \/ ForceExecute(a)
  \/ \E l \in Loc, n \in LoopLength : EnterLoop(a, l, n)
  \/ Sample1(a) \/ Sample1Data(a) \/ Sample2(a) \/ Sample3(a) \/ SampleExit(a) \/ LeaveLoop(a)
  \/ ExecDone(a) \/ Unblock(a)

Next == \E a \in Actor : Step(a)

\* SimGrid runs every actor that can run, ends every execution, and the
\* simcalls that block are answered.
Spec == Init /\ [][Next]_vars /\ \A a \in Actor : WF_vars(Step(a))

-----------------------------------------------------------------------------
\* Types, and the accumulator stays below cpu_threshold: a duration that
\* reaches it is simulated.
TypeOK ==
  /\ turn \in Actor \cup {None}
  /\ timer \in [Actor -> [on : BOOLEAN, t : Nat]]
  /\ sampling \in [Actor -> BOOLEAN]
  /\ acc \in [Actor -> 0 .. cpu_threshold - 1]
  /\ exec \in [Actor -> Nat] /\ owed \in [Actor -> Int] /\ alien \in [Actor -> Nat]
  /\ DOMAIN samples \subseteq Loc \X (Actor \cup {None}) /\ delayed \subseteq Actor

\* The actor waits for the execution of its S4BXI_SAMPLE_DELAY.
InDelay(a) == pc[a] = "exec" /\ next[a] \in {"user", "body"}

\* A timer is on in all user code, and whenever another actor may run it is
\* off, but for S4BXI_SAMPLE_DELAY, which nobody stops a timer for: so only
\* an actor that waited there is ever simulated for what others computed.
MeasuresOnlyItself ==
  \A a \in Actor :
    /\ timer[a].on => turn = a \/ InDelay(a)
    /\ pc[a] \in {"user", "body"} => timer[a].on
    /\ alien[a] > 0 => a \in delayed

\* No time is lost or simulated twice (cpu_accumulate): what an actor has
\* computed, what it asked for and what its timer took from others was
\* simulated, is being simulated, waits in the accumulator or is on the
\* timer.
TimeConserved ==
  /\ TypeOK
  /\ cpu_accumulate => \A a \in Actor :
       owed[a] + alien[a] = (IF pc[a] = "exec" THEN exec[a] ELSE acc[a])
                            + (IF sampling[a] THEN 0 ELSE timer[a].t)

\* Somebody else may have ended the benchmark of a: at a global location, if
\* a waited in S4BXI_SAMPLE_DELAY.
Overtaken(a) == loop[a].loc \in Global /\ a \in delayed

\* An iteration of a sampling loop runs only to be measured, also when
\* actors share the location: s4bxi_sample_3 finds that nobody is
\* benchmarking (THROW_IMPOSSIBLE) only if the body of a global loop waited
\* in S4BXI_SAMPLE_DELAY; and a location is measured no more than asked.
BenchedWhenNeeded ==
  /\ \A a \in Actor : /\ pc[a] \in {"body", "sample_3"} => samples[Key(a)].benching \/ Overtaken(a)
                      /\ pc[a] = "impossible" => Overtaken(a)
  /\ \A k \in DOMAIN samples :
        k[1] \notin Stderr => samples[k].count <= Iters[k[1]]

\* Every user process gets to its end, unless s4bxi_sample_3 throws: no
\* sampling loop leaves it marked as sampling, which would abort the next
\* call, or without its turn.
EveryoneFinishes == \A a \in Actor : <>(pc[a] = "done" \/ \E b \in Actor : pc[b] = "impossible")
=============================================================================
