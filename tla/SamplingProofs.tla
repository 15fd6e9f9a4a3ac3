--------------------------- MODULE SamplingProofs ---------------------------
(***************************************************************************)
(* Proofs about Sampling: a timer measures nothing but the code of its own *)
(* process, the time a process has computed is neither lost nor simulated  *)
(* twice, and an iteration of a sampling loop runs only to be measured.    *)
(*                                                                         *)
(* The inductive invariant says what is true of a process wherever it      *)
(* stands, or will stand once its execution has ended.  One process runs   *)
(* at a time.  One that does not run has nothing open, or it waits in      *)
(* S4BXI_SAMPLE_DELAY, with its timer on and maybe a benchmark begun: what *)
(* others compute is then added to its timer, and what they do to the data *)
(* of a location touches its own only if the location is shared.           *)
(***************************************************************************)
EXTENDS Sampling, TLAPS

-----------------------------------------------------------------------------
(***************************************************************************)
(* The inductive invariant.                                                *)
(***************************************************************************)
\* Places where a process does not have the turn
Resting == {"start", "exec", "blocked", "done"}

\* Places inside a sampling loop, and those with the data of the location
InLoop   == {"test", "sample_1", "sample_2", "body", "sample_3", "impossible"}
WithData == {"sample_2", "body", "sample_3", "impossible"}

\* Where s4bxi_execute returns to, and the user code among it, which called
\* S4BXI_SAMPLE_DELAY
UserCode == {"user", "body"}
After == {"final", "call", "return", "compute_s", "force", "sample_1", "begin"}
Back  == After \cup UserCode

Place == Resting \cup InLoop \cup After \cup {"user"}
Data  == [count : Nat, sum : Nat, high : BOOLEAN, benching : BOOLEAN]

StateOK ==
  /\ turn \in Actor \cup {None}
  /\ pc \in [Actor -> Place] /\ next \in [Actor -> Back \cup {"start"}]
  /\ timer \in [Actor -> [on : BOOLEAN, t : Nat]]
  /\ sampling \in [Actor -> BOOLEAN]
  /\ acc \in [Actor -> 0 .. cpu_threshold - 1]
  /\ exec \in [Actor -> Nat] /\ owed \in [Actor -> Int] /\ alien \in [Actor -> Nat]
  /\ loop \in [Actor -> [loc : Loc \cup {None}, total : Nat, done : Nat]]
  /\ delayed \subseteq Actor

\* A location is benchmarked only as long as another measure is wanted.
SamplesOK ==
  /\ DOMAIN samples \subseteq Loc \X (Actor \cup {None})
  /\ \A k \in DOMAIN samples :
       /\ samples[k] \in Data
       /\ k[1] \notin Stderr => /\ samples[k].count <= Iters[k[1]]
                                /\ samples[k].benching => samples[k].count < Iters[k[1]]

\* Where a process is, or will be once its execution has ended
At(a) == IF pc[a] = "exec" THEN next[a] ELSE pc[a]

\* The process that has the turn is not at rest, and the others are.
Running(a) ==
  /\ turn = a <=> pc[a] \notin Resting
  /\ pc[a] = "exec" => next[a] # "start" /\ (next[a] \in UserCode => a \in delayed)

\* The timer is on in user code, before a loop begins and in its body; and
\* only one that stayed on in S4BXI_SAMPLE_DELAY took time from others.
Timed(a) ==
  /\ timer[a].on => At(a) \in {"user", "test", "body", "sample_3", "impossible"}
  /\ ~timer[a].on => timer[a].t = 0
  /\ At(a) \in {"user", "body", "sample_3"} => timer[a].on
  /\ At(a) = "test" => (timer[a].on <=> ~sampling[a])
  /\ alien[a] > 0 => a \in delayed

\* A process is marked as sampling inside a loop only.
Marked(a) ==
  /\ sampling[a] => At(a) \in InLoop
  /\ At(a) \in WithData => sampling[a]
  /\ pc[a] = "exec" /\ sampling[a] => next[a] = "body"

\* A process in a loop, or about to be, knows the line of the loop.
Looping(a) == At(a) \in InLoop => loop[a].loc \in Loc

\* A process marked as sampling has its data, with a measure after the
\* first iteration; and it measures when, and only when, one is wanted,
\* unless it was overtaken.
Measured(a) ==
  /\ sampling[a] => /\ Known(a)
                    /\ At(a) \in {"test", "sample_1"} => samples[Key(a)].count > 0
  /\ At(a) = "sample_2" /\ NeedMore(a) => samples[Key(a)].benching
  /\ At(a) \in {"body", "sample_3"} => samples[Key(a)].benching \/ Overtaken(a)
  /\ At(a) = "impossible" => Overtaken(a)

\* What a process is still to be simulated for: nothing is simulated that
\* it did not compute, ask for or take from others and, with
\* cpu_accumulate, all of it is.
Left(a) == IF pc[a] = "exec" THEN exec[a] ELSE acc[a]
Due(a) == Left(a) + (IF sampling[a] THEN 0 ELSE timer[a].t)
Paid(a) ==
  /\ owed[a] + alien[a] >= Due(a)
  /\ cpu_accumulate => owed[a] + alien[a] = Due(a)

ActorOK(a) == /\ Running(a) /\ Timed(a) /\ Marked(a) /\ Looping(a)
              /\ Measured(a) /\ Paid(a)

SamplingInv == StateOK /\ SamplesOK /\ \A a \in Actor : ActorOK(a)

-----------------------------------------------------------------------------
(***************************************************************************)
(* What a step of a process leaves alone.                                  *)
(***************************************************************************)
\* Of the other processes, all but the timers that are on
Kept(a) ==
  \A b \in Actor \ {a} :
    /\ pc'[b] = pc[b] /\ next'[b] = next[b]
    /\ sampling'[b] = sampling[b] /\ acc'[b] = acc[b] /\ exec'[b] = exec[b]
    /\ loop'[b] = loop[b] /\ owed'[b] = owed[b]
    /\ b \in delayed' <=> b \in delayed
    /\ \/ timer'[b] = timer[b] /\ alien'[b] = alien[b]
       \/ /\ timer[b].on /\ timer'[b].on
          /\ \E d \in Nat : /\ timer'[b].t = timer[b].t + d
                            /\ alien'[b] = IF sampling[b] THEN alien[b] ELSE alien[b] + d

\* Of the samples, all but those of its own location
OwnSamples(a) ==
  /\ DOMAIN samples \subseteq DOMAIN samples'
  /\ \A k \in DOMAIN samples : k # Key(a) => samples'[k] = samples[k]

\* What is shown of each action of the process a
Good(a) ==
  /\ turn \in {a, None} /\ turn' \in {a, None} /\ Kept(a) /\ OwnSamples(a)
  /\ StateOK' /\ SamplesOK' /\ ActorOK(a)'

\* The processes that do not have the turn are at rest.  What another one
\* does to the samples can disturb only one that waits inside a loop, and
\* that one counts as overtaken if it shares the location.
LEMMA OthersAreAtRest ==
  ASSUME SamplingInv, NEW a \in Actor, Good(a)
  PROVE  SamplingInv'
<1> SUFFICES ASSUME NEW b \in Actor, b # a PROVE ActorOK(b)'
  BY DEF SamplingInv, Good
<1>1. turn # b /\ turn' # b /\ None \notin Actor
  BY SamplingAssumption DEF Good
<1>2. ActorOK(b) /\ StateOK /\ StateOK'
  BY DEF SamplingInv, Good
<1>3. pc[b] \in Resting
  BY <1>1, <1>2 DEF ActorOK, Running
<1>4. /\ pc'[b] = pc[b] /\ next'[b] = next[b]
      /\ sampling'[b] = sampling[b] /\ acc'[b] = acc[b] /\ exec'[b] = exec[b]
      /\ loop'[b] = loop[b] /\ owed'[b] = owed[b] /\ (b \in delayed' <=> b \in delayed)
  BY DEF Good, Kept
<1>5. \/ timer'[b] = timer[b] /\ alien'[b] = alien[b]
      \/ /\ timer[b].on /\ timer'[b].on
         /\ \E d \in Nat : /\ timer'[b].t = timer[b].t + d
                           /\ alien'[b] = IF sampling[b] THEN alien[b] ELSE alien[b] + d
  BY DEF Good, Kept
<1>6. (At(b))' = At(b)
  BY <1>4 DEF At
<1>7. Running(b)'
  BY <1>1, <1>2, <1>3, <1>4 DEF ActorOK, Running
<1>8. Marked(b)' /\ Looping(b)'
  BY <1>2, <1>4, <1>6 DEF ActorOK, Marked, Looping
<1>w. timer[b].on \/ sampling[b] => pc[b] = "exec"
  BY <1>2, <1>3 DEF ActorOK, Timed, Marked, At, Resting, InLoop
<1>n. pc[b] = "exec" => next[b] \in Back
  BY <1>2 DEF ActorOK, Running, StateOK
<1>9. Timed(b)'
  <2>1. timer[b].on => b \in delayed
    <3>1. ASSUME timer[b].on PROVE next[b] \in UserCode
      BY <3>1, <1>2, <1>w, <1>n DEF ActorOK, Timed, At, Back, After, UserCode
    <3> QED BY <3>1, <1>w, <1>2 DEF ActorOK, Running
  <2>2. timer'[b].on <=> timer[b].on
    BY <1>5, <1>2 DEF StateOK
  <2>3. ~timer'[b].on => timer'[b].t = 0
    BY <1>5, <1>2, <2>2 DEF ActorOK, Timed
  <2>4. alien'[b] > 0 => b \in delayed'
    BY <1>4, <1>5, <2>1, <1>2 DEF ActorOK, Timed
  <2> QED BY <1>2, <1>4, <1>6, <2>2, <2>3, <2>4 DEF ActorOK, Timed
<1>10. Paid(b)'
  <2>0. /\ owed[b] \in Int /\ alien[b] \in Nat /\ timer[b].t \in Nat /\ acc[b] \in Int
        /\ exec[b] \in Nat
    BY <1>2, SamplingAssumption DEF StateOK
  <2>1. CASE timer'[b] = timer[b] /\ alien'[b] = alien[b]
    BY <2>1, <1>2, <1>4 DEF ActorOK, Paid, Due, Left
  <2>2. ASSUME NEW d \in Nat, timer'[b].t = timer[b].t + d,
               alien'[b] = IF sampling[b] THEN alien[b] ELSE alien[b] + d
        PROVE  Paid(b)'
    <3>1. CASE sampling[b]
      BY <3>1, <2>2, <1>2, <1>4 DEF ActorOK, Paid, Due, Left
    <3>2. CASE ~sampling[b]
      <4>1. (Due(b))' = Due(b) + d /\ Due(b) \in Int
        BY <3>2, <2>0, <2>2, <1>4 DEF Due, Left
      <4>2. alien'[b] = alien[b] + d
        BY <3>2, <2>2
      <4> QED BY <4>1, <4>2, <2>0, <1>2, <1>4 DEF ActorOK, Paid
    <3> QED BY <3>1, <3>2
  <2> QED BY <2>1, <2>2, <1>5
<1>11. Measured(b)'
  <2>1. CASE ~sampling[b]
    BY <2>1, <1>2, <1>4, <1>6 DEF ActorOK, Measured, Marked, WithData
  <2>2. CASE sampling[b]
    <3>1. At(b) = "body" /\ b \in delayed
      <4>1. pc[b] = "exec" /\ next[b] = "body"
        BY <2>2, <1>w, <1>2 DEF ActorOK, Marked
      <4> QED BY <4>1, <1>2 DEF At, ActorOK, Running, UserCode
    <3>2. Known(b) /\ (samples[Key(b)].benching \/ Overtaken(b))
      BY <2>2, <3>1, <1>2 DEF ActorOK, Measured
    <3>3. (Key(b))' = Key(b) /\ ((Overtaken(b))' <=> Overtaken(b))
      BY <1>4 DEF Key, Overtaken
    <3>4. (Known(b))'
      BY <3>2, <3>3 DEF Known, Good, OwnSamples
    <3>5. samples'[Key(b)].benching \/ Overtaken(b)
      <4>1. CASE loop[b].loc \in Global
        BY <4>1, <3>1 DEF Overtaken
      <4>2. CASE loop[b].loc \notin Global
        <5>1. Key(b)[2] = b /\ (Key(a)[2] = a \/ Key(a)[2] = None)
          BY <4>2 DEF Key
        <5>2. Key(b) # Key(a)
          BY <5>1, <1>1
        <5> QED BY <5>2, <3>2 DEF Known, Good, OwnSamples
      <4> QED BY <4>1, <4>2
    <3> QED BY <3>1, <3>3, <3>4, <3>5, <1>6 DEF Measured
  <2> QED BY <2>1, <2>2
<1> QED BY <1>7, <1>8, <1>9, <1>10, <1>11 DEF ActorOK

\* s4bxi_execute waits for the whole time, or adds it to the accumulator.
LEMMA ExecuteAdds ==
  ASSUME StateOK, NEW a \in Actor, NEW d \in Nat, NEW then \in Back, turn = a,
         Execute(a, d, then)
  PROVE  /\ turn' \in {a, None} /\ (turn' = a <=> pc'[a] \notin Resting)
         /\ pc' \in [Actor -> Place] /\ next' \in [Actor -> Back \cup {"start"}]
         /\ acc' \in [Actor -> 0 .. cpu_threshold - 1] /\ exec' \in [Actor -> Nat]
         /\ \A b \in Actor \ {a} : /\ pc'[b] = pc[b] /\ next'[b] = next[b]
                                   /\ acc'[b] = acc[b] /\ exec'[b] = exec[b]
         /\ (At(a))' = then /\ (pc'[a] = "exec" => next'[a] = then /\ turn' = None)
         /\ (Left(a))' \in Nat /\ (Left(a))' <= acc[a] + d
         /\ cpu_accumulate => (Left(a))' = acc[a] + d
<1>0. /\ cpu_threshold \in Nat /\ cpu_accumulate \in BOOLEAN /\ None \notin Actor
      /\ acc[a] \in 0 .. cpu_threshold - 1 /\ acc[a] \in Nat /\ acc[a] + d \in Nat
      /\ acc \in [Actor -> 0 .. cpu_threshold - 1] /\ exec \in [Actor -> Nat]
      /\ pc \in [Actor -> Place] /\ next \in [Actor -> Back \cup {"start"}]
  BY SamplingAssumption DEF StateOK
<1>p. "exec" \in Place /\ then \in Place /\ then \notin Resting /\ then # "exec"
  BY DEF Place, Resting, Back, After, UserCode, InLoop
<1>1. CASE acc[a] + d >= cpu_threshold
  <2>1. /\ turn' = None /\ pc' = [pc EXCEPT ![a] = "exec"]
        /\ next' = [next EXCEPT ![a] = then]
        /\ exec' = [exec EXCEPT ![a] = acc[a] + d] /\ acc' = acc
    BY <1>1 DEF Execute, Set
  <2>2. pc'[a] = "exec" /\ next'[a] = then /\ exec'[a] = acc[a] + d
    BY <2>1, <1>0
  <2>3. (At(a))' = then /\ (Left(a))' = acc[a] + d
    BY <2>2 DEF At, Left
  <2> QED BY <2>1, <2>2, <2>3, <1>0, <1>p DEF Resting
<1>2. CASE ~ (acc[a] + d >= cpu_threshold)
  <2>1. /\ turn' = a /\ pc' = [pc EXCEPT ![a] = then] /\ next' = next /\ exec' = exec
        /\ \/ cpu_accumulate /\ acc' = [acc EXCEPT ![a] = acc[a] + d]
           \/ ~cpu_accumulate /\ acc' = acc
    BY <1>2, <1>0 DEF Execute, Set
  <2>2. acc[a] + d \in 0 .. cpu_threshold - 1
    BY <1>2, <1>0
  <2>3. pc'[a] = then /\ (acc'[a] = acc[a] + d \/ (~cpu_accumulate /\ acc'[a] = acc[a]))
    BY <2>1, <1>0
  <2>4. (At(a))' = then /\ (Left(a))' = acc'[a]
    BY <2>3, <1>p DEF At, Left
  <2> QED BY <2>1, <2>2, <2>3, <2>4, <1>0, <1>p
<1> QED BY <1>1, <1>2

\* s4bxi_bench_end, called outside a loop, simulates what was measured.
LEMMA BenchEndAdds ==
  ASSUME StateOK, NEW a \in Actor, NEW then \in After,
         turn = a, ~sampling[a], BenchEnd(a, then)
  PROVE  /\ timer' = [timer EXCEPT ![a] = Off] /\ timer[a].t \in Nat
         /\ Execute(a, timer[a].t, then)
BY DEF BenchEnd, Set, StateOK

\* What is known of the process that runs
LEMMA ActorFacts ==
  ASSUME SamplingInv, NEW a \in Actor
  PROVE  /\ StateOK /\ SamplesOK /\ None \notin Actor
         /\ Running(a) /\ Timed(a) /\ Marked(a) /\ Looping(a) /\ Measured(a) /\ Paid(a)
         /\ pc[a] \in Place /\ next[a] \in Back \cup {"start"}
         /\ timer[a] \in [on : BOOLEAN, t : Nat] /\ sampling[a] \in BOOLEAN
         /\ acc[a] \in 0 .. cpu_threshold - 1 /\ exec[a] \in Nat /\ owed[a] \in Int
         /\ alien[a] \in Nat /\ timer[a].t \in Nat
         /\ loop[a] \in [loc : Loc \cup {None}, total : Nat, done : Nat]
         /\ cpu_threshold \in Nat /\ cpu_accumulate \in BOOLEAN
  BY SamplingAssumption DEF SamplingInv, ActorOK, StateOK

\* Outside loops nothing is asked of the data of a location.
LEMMA NothingMeasured ==
  ASSUME NEW a \in Actor, ~sampling'[a], (At(a))' \notin WithData
  PROVE  Measured(a)'
  BY DEF Measured, WithData

LEMMA SamplesStay ==
  ASSUME SamplesOK, samples' = samples, NEW a \in Actor
  PROVE  SamplesOK' /\ OwnSamples(a)
  BY DEF SamplesOK, OwnSamples

\* s4bxi_bench_end of a call, of the end of the application, or of the
\* first s4bxi_sample_1 of a loop
LEMMA BenchEndGood ==
  ASSUME SamplingInv, NEW a \in Actor, NEW then \in After,
         turn = a, pc[a] \in {"user", "test"}, ~sampling[a],
         then = "sample_1" => pc[a] = "test",
         BenchEnd(a, then), UNCHANGED <<sampling, samples, loop, owed, alien, delayed>>
  PROVE  Good(a)
<1>0. /\ StateOK /\ SamplesOK /\ None \notin Actor
      /\ Running(a) /\ Timed(a) /\ Marked(a) /\ Looping(a) /\ Measured(a) /\ Paid(a)
      /\ timer[a] \in [on : BOOLEAN, t : Nat] /\ sampling[a] \in BOOLEAN
      /\ acc[a] \in 0 .. cpu_threshold - 1 /\ exec[a] \in Nat /\ owed[a] \in Int
      /\ alien[a] \in Nat /\ cpu_threshold \in Nat /\ cpu_accumulate \in BOOLEAN
  BY ActorFacts
<1>a. At(a) = pc[a] /\ Left(a) = acc[a] /\ then \in Back
  BY DEF At, Left, Back
<1>1. /\ timer' = [timer EXCEPT ![a] = Off] /\ timer[a].t \in Nat
      /\ Execute(a, timer[a].t, then)
  BY <1>0, BenchEndAdds
<1>t. /\ timer' \in [Actor -> [on : BOOLEAN, t : Nat]] /\ ~timer'[a].on /\ timer'[a].t = 0
      /\ \A b \in Actor \ {a} : timer'[b] = timer[b]
  BY <1>0, <1>1 DEF StateOK, Off
<1>d. PICK d \in Nat : d = timer[a].t
  BY <1>1
<1>e. Execute(a, d, then)
  BY <1>1, <1>d DEF Execute
<1>2. /\ turn' \in {a, None} /\ (turn' = a <=> pc'[a] \notin Resting)
      /\ pc' \in [Actor -> Place] /\ next' \in [Actor -> Back \cup {"start"}]
      /\ acc' \in [Actor -> 0 .. cpu_threshold - 1] /\ exec' \in [Actor -> Nat]
      /\ \A b \in Actor \ {a} : /\ pc'[b] = pc[b] /\ next'[b] = next[b]
                                /\ acc'[b] = acc[b] /\ exec'[b] = exec[b]
      /\ (At(a))' = then /\ (pc'[a] = "exec" => next'[a] = then)
      /\ (Left(a))' \in Nat /\ (Left(a))' <= acc[a] + d
      /\ cpu_accumulate => (Left(a))' = acc[a] + d
  BY <1>0, <1>a, <1>e, ExecuteAdds
<1>3. then \notin {"user", "test", "body", "sample_3", "sample_2", "impossible", "start"}
  BY DEF After
<1>4. StateOK' /\ Kept(a)
  BY <1>0, <1>2, <1>t DEF StateOK, Kept
<1>6. Running(a)'
  BY <1>2, <1>3 DEF Running, UserCode
<1>7. Timed(a)' /\ Marked(a)'
  BY <1>0, <1>2, <1>3, <1>t DEF Timed, Marked, WithData
<1>8. Looping(a)'
  <2>1. CASE then = "sample_1"
    BY <2>1, <1>0, <1>a DEF Looping, InLoop
  <2>2. CASE then # "sample_1"
    BY <2>2, <1>2 DEF Looping, InLoop, After
  <2> QED BY <2>1, <2>2
<1>9. Measured(a)'
  BY <1>2, <1>3, NothingMeasured DEF WithData
<1>10. Paid(a)'
  <2>1. Due(a) = acc[a] + d /\ (Due(a))' = (Left(a))'
    BY <1>0, <1>a, <1>d, <1>2, <1>t DEF Due
  <2> QED BY <1>0, <1>2, <2>1 DEF Paid
<1> QED BY <1>0, <1>2, <1>4, <1>6, <1>7, <1>8, <1>9, <1>10, SamplesStay DEF Good, ActorOK

\* s4bxi_bench_begin: the timer starts from nothing, after the rest of the
\* time was simulated.
LEMMA BenchBeginGood ==
  ASSUME SamplingInv, NEW a \in Actor, turn \in {a, None}, turn' = a,
         pc[a] \in {"start", "call", "return", "begin"}, BenchBegin(a, "user"),
         UNCHANGED <<next, sampling, acc, exec, samples, owed, alien, delayed>>,
         loop' = loop \/ Set(loop, a, NoLoop)
  PROVE  Good(a)
<1>0. /\ StateOK /\ SamplesOK /\ None \notin Actor
      /\ Running(a) /\ Timed(a) /\ Marked(a) /\ Looping(a) /\ Measured(a) /\ Paid(a)
      /\ timer[a] \in [on : BOOLEAN, t : Nat] /\ sampling[a] \in BOOLEAN
      /\ acc[a] \in 0 .. cpu_threshold - 1 /\ exec[a] \in Nat /\ owed[a] \in Int
      /\ alien[a] \in Nat /\ cpu_threshold \in Nat /\ cpu_accumulate \in BOOLEAN
  BY ActorFacts
<1>1. /\ timer' = [timer EXCEPT ![a] = [on |-> TRUE, t |-> 0]]
      /\ pc' = [pc EXCEPT ![a] = "user"]
  BY DEF BenchBegin, Set
<1>2. /\ pc'[a] = "user" /\ timer'[a].on /\ timer'[a].t = 0
      /\ \A b \in Actor \ {a} : timer'[b] = timer[b] /\ pc'[b] = pc[b]
      /\ timer' \in [Actor -> [on : BOOLEAN, t : Nat]] /\ pc' \in [Actor -> Place]
  BY <1>0, <1>1 DEF StateOK, Place
<1>3. /\ loop' \in [Actor -> [loc : Loc \cup {None}, total : Nat, done : Nat]]
      /\ \A b \in Actor \ {a} : loop'[b] = loop[b]
  <2>1. NoLoop \in [loc : Loc \cup {None}, total : Nat, done : Nat]
    BY DEF NoLoop
  <2>2. loop' = loop \/ loop' = [loop EXCEPT ![a] = NoLoop]
    BY DEF Set
  <2>3. loop \in [Actor -> [loc : Loc \cup {None}, total : Nat, done : Nat]]
    BY <1>0 DEF StateOK
  <2> QED BY <2>1, <2>2, <2>3
<1>4. StateOK' /\ Kept(a)
  BY <1>0, <1>2, <1>3 DEF StateOK, Kept
<1>a. At(a) = pc[a] /\ Left(a) = acc[a] /\ (At(a))' = "user" /\ (Left(a))' = acc[a]
  BY <1>2 DEF At, Left
<1>5. ~sampling[a] /\ timer[a].t = 0
  BY <1>0, <1>a DEF Marked, InLoop, Timed
<1>6. Running(a)' /\ Timed(a)' /\ Marked(a)' /\ Looping(a)'
  BY <1>0, <1>2, <1>5, <1>a DEF Running, Resting, Timed, Marked, WithData, Looping, InLoop
<1>7. Measured(a)'
  BY <1>a, <1>5, NothingMeasured DEF WithData
<1>8. Paid(a)'
  <2>1. (Due(a))' = acc[a] /\ Due(a) = acc[a]
    BY <1>0, <1>2, <1>5, <1>a DEF Due
  <2> QED BY <1>0, <2>1 DEF Paid
<1> QED BY <1>0, <1>4, <1>6, <1>7, <1>8, SamplesStay DEF Good, ActorOK

\* A simcall, its end, and the end of the application: the timer is off.
LEMMA MoveGood ==
  ASSUME SamplingInv, NEW a \in Actor, turn \in {a, None}, turn' \in {a, None},
         NEW q \in {"done", "blocked", "return"}, pc' = [pc EXCEPT ![a] = q],
         turn' = a <=> q = "return",
         pc[a] \in {"final", "call", "blocked", "force"},
         UNCHANGED <<next, timer, sampling, acc, exec, samples, loop, owed, alien, delayed>>
  PROVE  Good(a)
<1>0. /\ StateOK /\ SamplesOK /\ None \notin Actor
      /\ Running(a) /\ Timed(a) /\ Marked(a) /\ Looping(a) /\ Measured(a) /\ Paid(a)
      /\ acc[a] \in 0 .. cpu_threshold - 1 /\ owed[a] \in Int /\ alien[a] \in Nat
  BY ActorFacts
<1>1. /\ pc'[a] = q /\ \A b \in Actor \ {a} : pc'[b] = pc[b]
      /\ pc' \in [Actor -> Place]
  BY <1>0 DEF StateOK, Place, Resting, After
<1>2. StateOK' /\ Kept(a)
  BY <1>0, <1>1 DEF StateOK, Kept
<1>a. At(a) = pc[a] /\ (At(a))' = q
  BY <1>1 DEF At
<1>3. ~sampling[a]
  BY <1>0, <1>a DEF Marked, InLoop
<1>4. Running(a)' /\ Timed(a)' /\ Marked(a)' /\ Looping(a)'
  BY <1>0, <1>1, <1>3, <1>a DEF Running, Resting, Timed, Marked, WithData, Looping, InLoop
<1>5. Measured(a)'
  BY <1>a, <1>3, NothingMeasured DEF WithData
<1>6. Paid(a)'
  BY <1>0, <1>1 DEF Paid, Due, Left
<1> QED BY <1>0, <1>2, <1>4, <1>5, <1>6, SamplesStay DEF Good, ActorOK

\* A call that leaves the timer alone makes no simcall.
LEMMA InstantGood ==
  ASSUME SamplingInv, NEW a \in Actor, NEW c \in InstantCalls, InstantCall(a, c)
  PROVE  Good(a)
<1>1. c \notin Yielding
  BY DEF InstantCalls, Yielding, BenchCalls, BenchSetup, BenchEvents, BenchData,
         BenchUtil, BenchLibc
<1>2. /\ turn = a
      /\ UNCHANGED <<turn, pc, next, timer, sampling, acc, exec, samples, loop, owed>>
      /\ UNCHANGED <<alien, delayed>>
  BY <1>1 DEF InstantCall, Operation, Runs, ghosts
<1>3. StateOK' /\ SamplesOK' /\ Kept(a) /\ OwnSamples(a)
  BY <1>2, ActorFacts DEF StateOK, SamplesOK, Kept, OwnSamples
<1>4. ActorOK(a)'
  BY <1>2, ActorFacts
     DEF ActorOK, Running, Timed, Marked, Looping, Measured, Paid, Due, Left, At, Known, Key,
         NeedMore, Overtaken
<1> QED BY <1>2, <1>3, <1>4 DEF Good

\* The thread computes for a: the timer of a counts it, and so do those that
\* stayed on in S4BXI_SAMPLE_DELAY.
LEMMA ElapseAdds ==
  ASSUME SamplingInv, NEW a \in Actor, NEW d \in Nat, Elapse(a, d), timer[a].on
  PROVE  /\ timer' \in [Actor -> [on : BOOLEAN, t : Nat]] /\ alien' \in [Actor -> Nat]
         /\ timer'[a].on /\ timer'[a].t = timer[a].t + d /\ alien'[a] = alien[a]
         /\ \A b \in Actor \ {a} :
              \/ timer'[b] = timer[b] /\ alien'[b] = alien[b]
              \/ /\ timer[b].on /\ timer'[b].on
                 /\ \E x \in Nat : /\ timer'[b].t = timer[b].t + x
                                   /\ alien'[b] = IF sampling[b] THEN alien[b] ELSE alien[b] + x
<1>1. timer \in [Actor -> [on : BOOLEAN, t : Nat]] /\ alien \in [Actor -> Nat]
  BY DEF SamplingInv, StateOK
<1>2. \A b \in Actor : timer[b].t \in Nat /\ timer[b].on \in BOOLEAN /\ alien[b] \in Nat
  BY <1>1
<1>3. ASSUME NEW b \in Actor, timer[b].on
      PROVE  /\ timer'[b] \in [on : BOOLEAN, t : Nat] /\ timer'[b].on
             /\ timer'[b].t = timer[b].t + d
             /\ alien'[b] = IF b # a /\ ~sampling[b] THEN alien[b] + d ELSE alien[b]
  <2>1. PICK r \in [on : BOOLEAN, t : Nat] : r = timer[b]
    BY <1>1
  <2>2. timer'[b] = [r EXCEPT !.t = r.t + d]
    BY <1>3, <2>1 DEF Elapse
  <2>3. [r EXCEPT !.t = r.t + d] \in [on : BOOLEAN, t : Nat]
    OBVIOUS
  <2>4. alien'[b] = IF b # a /\ ~sampling[b] THEN alien[b] + d ELSE alien[b]
    BY <1>3 DEF Elapse
  <2> QED BY <1>3, <2>1, <2>2, <2>3, <2>4
<1>4. ASSUME NEW b \in Actor, ~timer[b].on PROVE timer'[b] = timer[b] /\ alien'[b] = alien[b]
  BY <1>4 DEF Elapse
<1>5. timer' \in [Actor -> [on : BOOLEAN, t : Nat]] /\ alien' \in [Actor -> Nat]
  <2>1. \A b \in Actor : timer'[b] \in [on : BOOLEAN, t : Nat] /\ alien'[b] \in Nat
    BY <1>1, <1>2, <1>3, <1>4
  <2> QED BY <2>1 DEF Elapse
<1>6. ASSUME NEW b \in Actor \ {a}
      PROVE  \/ timer'[b] = timer[b] /\ alien'[b] = alien[b]
             \/ /\ timer[b].on /\ timer'[b].on
                /\ \E x \in Nat : /\ timer'[b].t = timer[b].t + x
                                  /\ alien'[b] = IF sampling[b] THEN alien[b] ELSE alien[b] + x
  BY <1>3, <1>4
<1>7. timer'[a].on /\ timer'[a].t = timer[a].t + d /\ alien'[a] = alien[a]
  BY <1>3
<1> QED BY <1>5, <1>6, <1>7

\* User code outside loops computes: the time is owed, and on the timer.
LEMMA ComputeGood ==
  ASSUME SamplingInv, NEW a \in Actor, NEW d \in Duration, Compute(a, d)
  PROVE  Good(a)
<1>0. /\ StateOK /\ SamplesOK /\ None \notin Actor
      /\ Running(a) /\ Timed(a) /\ Marked(a) /\ Looping(a) /\ Measured(a) /\ Paid(a)
      /\ timer[a] \in [on : BOOLEAN, t : Nat] /\ timer[a].t \in Nat
      /\ acc[a] \in 0 .. cpu_threshold - 1 /\ owed[a] \in Int /\ alien[a] \in Nat /\ d \in Nat
  BY ActorFacts, SamplingAssumption
<1>1. /\ turn = a /\ pc[a] = "user" /\ Elapse(a, d)
      /\ owed' = [owed EXCEPT ![a] = owed[a] + d]
      /\ UNCHANGED <<turn, pc, next, sampling, acc, exec, samples, loop, delayed>>
  BY DEF Compute, Operation, Runs, Set
<1>a. /\ At(a) = "user" /\ (At(a))' = "user" /\ Left(a) = acc[a] /\ (Left(a))' = acc[a]
      /\ timer[a].on
  BY <1>0, <1>1 DEF At, Left, Timed
<1>2. /\ timer' \in [Actor -> [on : BOOLEAN, t : Nat]] /\ alien' \in [Actor -> Nat]
      /\ timer'[a].on /\ timer'[a].t = timer[a].t + d /\ alien'[a] = alien[a]
      /\ \A b \in Actor \ {a} :
           \/ timer'[b] = timer[b] /\ alien'[b] = alien[b]
           \/ /\ timer[b].on /\ timer'[b].on
              /\ \E x \in Nat : /\ timer'[b].t = timer[b].t + x
                                /\ alien'[b] = IF sampling[b] THEN alien[b] ELSE alien[b] + x
  BY <1>0, <1>1, <1>a, ElapseAdds
<1>b. /\ owed'[a] = owed[a] + d /\ owed' \in [Actor -> Int]
      /\ \A b \in Actor \ {a} : owed'[b] = owed[b]
  BY <1>0, <1>1 DEF StateOK
<1>3. StateOK'
  BY <1>0, <1>1, <1>2, <1>b DEF StateOK
<1>k. Kept(a)
  BY <1>1, <1>2, <1>b DEF Kept
<1>4. ~sampling[a]
  BY <1>0, <1>a DEF Marked, InLoop
<1>5. Running(a)' /\ Timed(a)' /\ Marked(a)' /\ Looping(a)'
  BY <1>0, <1>1, <1>2, <1>4, <1>a DEF Running, Timed, Marked, Looping, WithData, InLoop
<1>6. Measured(a)'
  BY <1>1, <1>4, <1>a, NothingMeasured DEF WithData
<1>7. Paid(a)'
  <2>1. Due(a) = acc[a] + timer[a].t /\ (Due(a))' = acc[a] + (timer[a].t + d)
    BY <1>0, <1>1, <1>2, <1>4, <1>a DEF Due
  <2>2. /\ owed[a] + alien[a] >= acc[a] + timer[a].t
        /\ cpu_accumulate => owed[a] + alien[a] = acc[a] + timer[a].t
    BY <1>0, <2>1 DEF Paid
  <2>3. owed'[a] + alien'[a] = (owed[a] + alien[a]) + d
    BY <1>0, <1>2, <1>b
  <2> QED BY <1>0, <2>1, <2>2, <2>3 DEF Paid
<1> QED BY <1>0, <1>1, <1>3, <1>k, <1>5, <1>6, <1>7, SamplesStay DEF Good, ActorOK

\* A time that no timer measured is simulated through s4bxi_execute: the
\* argument of s4bxi_compute_s, or the mean of a loop for its iterations.
LEMMA ExecuteGood ==
  ASSUME SamplingInv, NEW a \in Actor, NEW d \in Nat, NEW then \in {"return", "begin"},
         turn = a, pc[a] \in {"compute_s", "sample_2", "test"},
         pc[a] = "test" => sampling[a],
         Execute(a, d, then), owed' = [owed EXCEPT ![a] = owed[a] + d],
         sampling' \in [Actor -> BOOLEAN], ~sampling'[a],
         \A b \in Actor \ {a} : sampling'[b] = sampling[b],
         UNCHANGED <<timer, samples, loop, alien, delayed>>
  PROVE  Good(a)
<1>0. /\ StateOK /\ SamplesOK /\ None \notin Actor
      /\ Running(a) /\ Timed(a) /\ Marked(a) /\ Looping(a) /\ Measured(a) /\ Paid(a)
      /\ timer[a] \in [on : BOOLEAN, t : Nat] /\ sampling[a] \in BOOLEAN
      /\ acc[a] \in 0 .. cpu_threshold - 1 /\ exec[a] \in Nat /\ owed[a] \in Int
      /\ alien[a] \in Nat /\ cpu_threshold \in Nat /\ cpu_accumulate \in BOOLEAN
  BY ActorFacts
<1>1. then \in Back /\ At(a) = pc[a] /\ Left(a) = acc[a]
  BY DEF After, Back, At, Left
<1>2. /\ turn' \in {a, None} /\ (turn' = a <=> pc'[a] \notin Resting)
      /\ pc' \in [Actor -> Place] /\ next' \in [Actor -> Back \cup {"start"}]
      /\ acc' \in [Actor -> 0 .. cpu_threshold - 1] /\ exec' \in [Actor -> Nat]
      /\ \A b \in Actor \ {a} : /\ pc'[b] = pc[b] /\ next'[b] = next[b]
                                /\ acc'[b] = acc[b] /\ exec'[b] = exec[b]
      /\ (At(a))' = then /\ (pc'[a] = "exec" => next'[a] = then)
      /\ (Left(a))' \in Nat /\ (Left(a))' <= acc[a] + d
      /\ cpu_accumulate => (Left(a))' = acc[a] + d
  BY <1>0, <1>1, ExecuteAdds
<1>3. /\ owed' \in [Actor -> Int] /\ owed'[a] = owed[a] + d
      /\ \A b \in Actor \ {a} : owed'[b] = owed[b]
  BY <1>0 DEF StateOK
<1>4. StateOK' /\ Kept(a)
  BY <1>0, <1>2, <1>3 DEF StateOK, Kept
<1>5. ~timer[a].on /\ timer[a].t = 0
  BY <1>0, <1>1 DEF Timed
<1>6. Running(a)'
  BY <1>2 DEF Running, UserCode
<1>7. Timed(a)' /\ Marked(a)' /\ Looping(a)'
  BY <1>0, <1>2, <1>5 DEF Timed, Marked, Looping, InLoop, WithData
<1>8. Measured(a)'
  BY <1>2, NothingMeasured DEF WithData
<1>9. Paid(a)'
  <2>1. Due(a) = acc[a] /\ (Due(a))' = (Left(a))'
    BY <1>0, <1>1, <1>2, <1>5 DEF Due
  <2> QED BY <1>0, <1>2, <1>3, <2>1 DEF Paid
<1> QED BY <1>0, <1>2, <1>4, <1>6, <1>7, <1>8, <1>9, SamplesStay DEF Good, ActorOK

\* S4BXI_SAMPLE_DELAY: the timer, and the benchmark of a loop, stay open.
LEMMA SampleDelayGood ==
  ASSUME SamplingInv, NEW a \in Actor, NEW d \in Duration, SampleDelay(a, d)
  PROVE  Good(a)
<1>0. /\ StateOK /\ SamplesOK /\ None \notin Actor
      /\ Running(a) /\ Timed(a) /\ Marked(a) /\ Looping(a) /\ Measured(a) /\ Paid(a)
      /\ timer[a] \in [on : BOOLEAN, t : Nat] /\ timer[a].t \in Nat /\ sampling[a] \in BOOLEAN
      /\ acc[a] \in 0 .. cpu_threshold - 1 /\ exec[a] \in Nat /\ owed[a] \in Int /\ d \in Nat
      /\ alien[a] \in Nat /\ cpu_threshold \in Nat /\ cpu_accumulate \in BOOLEAN
  BY ActorFacts, SamplingAssumption
<1>w. PICK here \in UserCode : here = pc[a]
  BY DEF SampleDelay, UserCode
<1>1. /\ turn = a /\ Execute(a, d, here)
      /\ owed' = [owed EXCEPT ![a] = owed[a] + d]
      /\ delayed' = IF turn' = None THEN delayed \cup {a} ELSE delayed
      /\ UNCHANGED <<timer, sampling, samples, loop, alien>>
  BY <1>w DEF SampleDelay, Set, Execute
<1>a. here \in Back /\ At(a) = here /\ Left(a) = acc[a]
  BY <1>w DEF Back, At, Left, UserCode
<1>2. /\ turn' \in {a, None} /\ (turn' = a <=> pc'[a] \notin Resting)
      /\ pc' \in [Actor -> Place] /\ next' \in [Actor -> Back \cup {"start"}]
      /\ acc' \in [Actor -> 0 .. cpu_threshold - 1] /\ exec' \in [Actor -> Nat]
      /\ \A b \in Actor \ {a} : /\ pc'[b] = pc[b] /\ next'[b] = next[b]
                                /\ acc'[b] = acc[b] /\ exec'[b] = exec[b]
      /\ (At(a))' = here /\ (pc'[a] = "exec" => next'[a] = here /\ turn' = None)
      /\ (Left(a))' \in Nat /\ (Left(a))' <= acc[a] + d
      /\ cpu_accumulate => (Left(a))' = acc[a] + d
  BY <1>0, <1>1, <1>a, ExecuteAdds
<1>3. /\ owed' \in [Actor -> Int] /\ owed'[a] = owed[a] + d
      /\ \A b \in Actor \ {a} : owed'[b] = owed[b] /\ (b \in delayed' <=> b \in delayed)
      /\ delayed' \subseteq Actor /\ delayed \subseteq delayed'
      /\ pc'[a] = "exec" => a \in delayed'
  BY <1>0, <1>1, <1>2 DEF StateOK
<1>4. StateOK' /\ Kept(a)
  BY <1>0, <1>1, <1>2, <1>3 DEF StateOK, Kept
<1>5. Running(a)'
  BY <1>2, <1>3 DEF Running, UserCode
<1>6. Timed(a)' /\ Looping(a)'
  BY <1>0, <1>1, <1>2, <1>3, <1>a DEF Timed, Looping
<1>7. Marked(a)'
  BY <1>0, <1>1, <1>2, <1>a DEF Marked, UserCode, InLoop
<1>8. Measured(a)'
  <2>1. CASE here = "user"
    BY <2>1, <1>0, <1>1, <1>2, <1>a, NothingMeasured DEF Marked, InLoop, WithData
  <2>2. CASE here = "body"
    <3>1. /\ (Key(a))' = Key(a) /\ ((Known(a))' <=> Known(a))
          /\ samples'[Key(a)].benching <=> samples[Key(a)].benching
          /\ Overtaken(a) => (Overtaken(a))'
      BY <1>1, <1>3 DEF Key, Known, Overtaken
    <3> QED BY <2>2, <3>1, <1>0, <1>1, <1>2, <1>a DEF Measured
  <2> QED BY <2>1, <2>2 DEF UserCode
<1>9. Paid(a)'
  <2>1. PICK m \in Nat : m = IF sampling[a] THEN 0 ELSE timer[a].t
    BY <1>0
  <2>2. Due(a) = acc[a] + m /\ (Due(a))' = (Left(a))' + m
    BY <2>1, <1>0, <1>1, <1>2, <1>a DEF Due
  <2> QED BY <1>0, <1>1, <1>2, <1>3, <2>2 DEF Paid
<1> QED BY <1>0, <1>1, <1>2, <1>4, <1>5, <1>6, <1>7, <1>8, <1>9, SamplesStay DEF Good, ActorOK

\* The execution ends: the accumulator starts again.
LEMMA ExecDoneGood ==
  ASSUME SamplingInv, NEW a \in Actor, ExecDone(a)
  PROVE  Good(a)
<1>0. /\ StateOK /\ SamplesOK /\ None \notin Actor
      /\ Running(a) /\ Timed(a) /\ Marked(a) /\ Looping(a) /\ Measured(a) /\ Paid(a)
      /\ next[a] \in Back \cup {"start"} /\ timer[a] \in [on : BOOLEAN, t : Nat]
      /\ timer[a].t \in Nat /\ sampling[a] \in BOOLEAN
      /\ acc[a] \in 0 .. cpu_threshold - 1 /\ exec[a] \in Nat /\ owed[a] \in Int
      /\ alien[a] \in Nat /\ cpu_threshold \in Nat \ {0} /\ cpu_accumulate \in BOOLEAN
  BY ActorFacts, SamplingAssumption
<1>1. /\ turn = None /\ pc[a] = "exec" /\ turn' = a
      /\ pc' = [pc EXCEPT ![a] = next[a]] /\ next' = [next EXCEPT ![a] = "start"]
      /\ owed' = [owed EXCEPT ![a] = owed[a] - exec[a]]
      /\ exec' = [exec EXCEPT ![a] = 0] /\ acc' = [acc EXCEPT ![a] = 0]
      /\ UNCHANGED <<timer, sampling, samples, loop, alien, delayed>>
  BY DEF ExecDone, Set, ghosts
<1>2. next[a] \in Back
  BY <1>0, <1>1 DEF Running
<1>4. /\ pc'[a] = next[a] /\ owed'[a] = owed[a] - exec[a] /\ acc'[a] = 0
      /\ \A b \in Actor \ {a} : /\ pc'[b] = pc[b] /\ next'[b] = next[b]
                                /\ acc'[b] = acc[b] /\ exec'[b] = exec[b]
                                /\ owed'[b] = owed[b]
  BY <1>0, <1>1 DEF StateOK
<1>n. next[a] # "exec" /\ next[a] \notin Resting
  BY <1>2 DEF Back, After, UserCode, Resting
<1>a. At(a) = next[a] /\ (At(a))' = next[a] /\ Left(a) = exec[a] /\ (Left(a))' = 0
  BY <1>1, <1>4, <1>n DEF At, Left
<1>5. StateOK'
  <2>1. next[a] \in Place /\ owed[a] - exec[a] \in Int /\ 0 \in 0 .. cpu_threshold - 1
    BY <1>0, <1>2 DEF Place, Back, UserCode, InLoop
  <2>2. pc' \in [Actor -> Place] /\ next' \in [Actor -> Back \cup {"start"}]
    BY <1>0, <1>1, <2>1 DEF StateOK
  <2>3. /\ owed' \in [Actor -> Int] /\ exec' \in [Actor -> Nat]
        /\ acc' \in [Actor -> 0 .. cpu_threshold - 1]
    BY <1>0, <1>1, <2>1 DEF StateOK
  <2> QED BY <1>0, <1>1, <2>2, <2>3 DEF StateOK
<1>6. Kept(a)
  BY <1>1, <1>4 DEF Kept
<1>8. Running(a)' /\ Timed(a)' /\ Marked(a)' /\ Looping(a)'
  BY <1>0, <1>1, <1>4, <1>n, <1>a DEF Running, Timed, Marked, Looping
<1>10. Measured(a)'
  <2>1. /\ (Key(a))' = Key(a) /\ ((Known(a))' <=> Known(a)) /\ ((NeedMore(a))' <=> NeedMore(a))
        /\ ((Overtaken(a))' <=> Overtaken(a)) /\ samples' = samples
    BY <1>1 DEF Key, Known, NeedMore, Overtaken
  <2> QED BY <2>1, <1>0, <1>1, <1>a DEF Measured
<1>11. Paid(a)'
  <2>1. PICK m \in Nat : m = IF sampling[a] THEN 0 ELSE timer[a].t
    BY <1>0
  <2>2. Due(a) = exec[a] + m /\ (Due(a))' = m
    BY <2>1, <1>0, <1>1, <1>a DEF Due
  <2> QED BY <1>0, <1>1, <1>4, <2>2 DEF Paid
<1> QED BY <1>0, <1>1, <1>5, <1>6, <1>8, <1>10, <1>11, SamplesStay DEF Good, ActorOK

-----------------------------------------------------------------------------
(***************************************************************************)
(* Sampling loops.                                                         *)
(***************************************************************************)
\* The data of a process in a loop are those of the line of its loop.
LEMMA KeyOK ==
  ASSUME NEW a \in Actor, loop[a].loc \in Loc
  PROVE  Key(a) \in Loc \X (Actor \cup {None}) /\ Key(a)[1] = loop[a].loc
  BY DEF Key

LEMMA PutPuts ==
  ASSUME SamplesOK, NEW k \in Loc \X (Actor \cup {None}), NEW v \in Data, Put(k, v),
         k[1] \notin Stderr => /\ v.count <= Iters[k[1]]
                               /\ v.benching => v.count < Iters[k[1]]
  PROVE  /\ SamplesOK' /\ k \in DOMAIN samples' /\ samples'[k] = v
         /\ DOMAIN samples \subseteq DOMAIN samples'
         /\ \A x \in DOMAIN samples : x # k => samples'[x] = samples[x]
<1>1. /\ DOMAIN samples' = DOMAIN samples \cup {k} /\ samples'[k] = v
      /\ \A x \in DOMAIN samples \ {k} : samples'[x] = samples[x]
  BY DEF Put
<1>2. DOMAIN samples' \subseteq Loc \X (Actor \cup {None})
  BY <1>1 DEF SamplesOK
<1>3. ASSUME NEW x \in DOMAIN samples'
      PROVE  /\ samples'[x] \in Data
             /\ x[1] \notin Stderr =>
                  /\ samples'[x].count <= Iters[x[1]]
                  /\ samples'[x].benching => samples'[x].count < Iters[x[1]]
  <2>1. CASE x = k
    BY <1>1, <2>1
  <2>2. CASE x # k
    BY <1>1, <2>2 DEF SamplesOK
  <2> QED BY <2>1, <2>2
<1> QED BY <1>1, <1>2, <1>3 DEF SamplesOK

\* A step that only moves the process, from before a loop to inside it, or
\* out of a loop that had no iteration
LEMMA StepGood ==
  ASSUME SamplingInv, NEW a \in Actor, turn = a, turn' = a, NEW q \in {"test", "user"},
         pc[a] \in {"test", "user"}, ~sampling[a], pc' = [pc EXCEPT ![a] = q],
         loop' \in [Actor -> [loc : Loc \cup {None}, total : Nat, done : Nat]],
         \A b \in Actor \ {a} : loop'[b] = loop[b],
         q = "test" => loop'[a].loc \in Loc,
         UNCHANGED <<next, timer, sampling, acc, exec, samples, owed, alien, delayed>>
  PROVE  Good(a)
<1>0. /\ StateOK /\ SamplesOK /\ None \notin Actor
      /\ Running(a) /\ Timed(a) /\ Marked(a) /\ Looping(a) /\ Measured(a) /\ Paid(a)
      /\ acc[a] \in 0 .. cpu_threshold - 1 /\ owed[a] \in Int /\ alien[a] \in Nat
  BY ActorFacts
<1>1. /\ pc'[a] = q /\ \A b \in Actor \ {a} : pc'[b] = pc[b]
      /\ pc' \in [Actor -> Place]
  BY <1>0 DEF StateOK, Place, InLoop
<1>2. StateOK' /\ Kept(a)
  BY <1>0, <1>1 DEF StateOK, Kept
<1>3. Running(a)' /\ Timed(a)' /\ Marked(a)' /\ Looping(a)'
  BY <1>0, <1>1 DEF Running, Resting, Timed, Marked, WithData, Looping, InLoop, At
<1>4. Measured(a)'
  BY <1>1, NothingMeasured DEF WithData, At
<1>5. Paid(a)'
  BY <1>0, <1>1 DEF Paid, Due, Left
<1> QED BY <1>0, <1>2, <1>3, <1>4, <1>5, SamplesStay DEF Good, ActorOK

LEMMA EnterLoopGood ==
  ASSUME SamplingInv, NEW a \in Actor, NEW l \in Loc, NEW n \in LoopLength, EnterLoop(a, l, n)
  PROVE  Good(a)
<1>0. StateOK /\ Marked(a) /\ n \in Nat
  BY ActorFacts, SamplingAssumption
<1>1. /\ turn = a /\ pc[a] = "user" /\ pc' = [pc EXCEPT ![a] = "test"]
      /\ loop' = [loop EXCEPT ![a] = [loc |-> l, total |-> n, done |-> 0]]
      /\ UNCHANGED <<turn, next, timer, sampling, acc, exec, samples, owed, alien, delayed>>
  BY DEF EnterLoop, Operation, Runs, Set, ghosts
<1>2. /\ loop' \in [Actor -> [loc : Loc \cup {None}, total : Nat, done : Nat]]
      /\ loop'[a].loc = l /\ \A b \in Actor \ {a} : loop'[b] = loop[b]
  BY <1>0, <1>1 DEF StateOK
<1>3. ~sampling[a]
  BY <1>0, <1>1 DEF Marked, InLoop, At
<1> QED BY <1>1, <1>2, <1>3, StepGood

\* s4bxi_sample_1 simulates the time before the loop, once.
LEMMA Sample1Good ==
  ASSUME SamplingInv, NEW a \in Actor, Sample1(a)
  PROVE  Good(a)
<1>0. /\ StateOK /\ SamplesOK /\ None \notin Actor
      /\ Running(a) /\ Timed(a) /\ Marked(a) /\ Looping(a) /\ Measured(a) /\ Paid(a)
      /\ timer[a] \in [on : BOOLEAN, t : Nat] /\ sampling[a] \in BOOLEAN
      /\ acc[a] \in 0 .. cpu_threshold - 1 /\ owed[a] \in Int /\ alien[a] \in Nat
  BY ActorFacts
<1>1. turn = a /\ pc[a] = "test" /\ UNCHANGED <<sampling, samples, loop, owed, alien, delayed>>
  BY DEF Sample1, Runs, ghosts
<1>2. CASE sampling[a]
  <2>1. pc' = [pc EXCEPT ![a] = "sample_1"] /\ UNCHANGED <<turn, next, timer, acc, exec>>
    BY <1>2 DEF Sample1, Set, ghosts
  <2>2. /\ pc'[a] = "sample_1" /\ \A b \in Actor \ {a} : pc'[b] = pc[b]
        /\ pc' \in [Actor -> Place]
    BY <1>0, <2>1 DEF StateOK, Place, InLoop
  <2>3. StateOK' /\ Kept(a)
    BY <1>0, <1>1, <2>1, <2>2 DEF StateOK, Kept
  <2>4. Running(a)' /\ Timed(a)' /\ Marked(a)' /\ Looping(a)'
    BY <1>0, <1>1, <1>2, <2>1, <2>2
       DEF Running, Resting, Timed, Marked, WithData, Looping, InLoop, At
  <2>5. Measured(a)'
    BY <1>0, <1>1, <1>2, <2>2 DEF Measured, Known, Key, WithData, At
  <2>6. Paid(a)'
    BY <1>0, <1>1, <1>2, <2>1, <2>2 DEF Paid, Due, Left
  <2> QED BY <1>0, <1>1, <2>1, <2>3, <2>4, <2>5, <2>6, SamplesStay DEF Good, ActorOK
<1>3. CASE ~sampling[a]
  <2>1. BenchEnd(a, "sample_1")
    BY <1>3 DEF Sample1
  <2>2. "sample_1" \in After
    BY DEF After
  <2> QED BY <1>1, <1>3, <2>1, <2>2, BenchEndGood
<1> QED BY <1>0, <1>2, <1>3

\* The rest of s4bxi_sample_1: benching says whether a measure is wanted.
LEMMA Sample1DataGood ==
  ASSUME SamplingInv, NEW a \in Actor, Sample1Data(a)
  PROVE  Good(a)
<1>0. /\ StateOK /\ SamplesOK /\ None \notin Actor
      /\ Running(a) /\ Timed(a) /\ Marked(a) /\ Looping(a) /\ Measured(a) /\ Paid(a)
      /\ timer[a] \in [on : BOOLEAN, t : Nat]
      /\ acc[a] \in 0 .. cpu_threshold - 1 /\ owed[a] \in Int /\ alien[a] \in Nat
  BY ActorFacts
<1>1. /\ turn = a /\ pc[a] = "sample_1" /\ pc' = [pc EXCEPT ![a] = "sample_2"]
      /\ sampling' = [sampling EXCEPT ![a] = TRUE]
      /\ UNCHANGED <<turn, next, timer, acc, exec, loop, owed, alien, delayed>>
  BY DEF Sample1Data, Runs, Set, ghosts
<1>2. loop[a].loc \in Loc
  BY <1>0, <1>1 DEF Looping, InLoop, At
<1>i. /\ Iters[loop[a].loc] \in Nat
      /\ Iters[loop[a].loc] > 0 \/ loop[a].loc \in Stderr
  BY <1>2, SamplingAssumption
<1>k. PICK k \in Loc \X (Actor \cup {None}) : k = Key(a) /\ k[1] = loop[a].loc
  BY <1>2, KeyOK
<1>v. PICK v \in Data :
        /\ Put(Key(a), v)
        /\ ~v.benching => v.count >= Iters[loop[a].loc]
        /\ ~v.benching /\ loop[a].loc \in Stderr => v.count >= 2 /\ ~v.high
        /\ v.benching /\ loop[a].loc \notin Stderr => v.count < Iters[loop[a].loc]
        /\ loop[a].loc \notin Stderr => v.count <= Iters[loop[a].loc]
  <2>1. CASE Known(a)
    <3>2. /\ samples[Key(a)] \in Data
          /\ loop[a].loc \notin Stderr => samples[Key(a)].count <= Iters[loop[a].loc]
      BY <2>1, <1>0, <1>k DEF SamplesOK, Known
    <3>3. Put(Key(a), [samples[Key(a)] EXCEPT !.benching = NeedMore(a)])
      BY <2>1 DEF Sample1Data
    <3>4. [samples[Key(a)] EXCEPT !.benching = NeedMore(a)] \in Data
      BY <3>2 DEF Data, NeedMore
    <3> QED BY <3>2, <3>3, <3>4, <1>i DEF NeedMore, Data
  <2>2. CASE ~Known(a)
    <3>1. Put(Key(a), [count |-> 0, sum |-> 0, high |-> TRUE, benching |-> TRUE])
      BY <2>2 DEF Sample1Data
    <3>2. [count |-> 0, sum |-> 0, high |-> TRUE, benching |-> TRUE] \in Data
      BY DEF Data
    <3> QED BY <3>1, <3>2, <1>i
  <2> QED BY <2>1, <2>2
<1>3. SamplesOK' /\ k \in DOMAIN samples' /\ samples'[k] = v /\ OwnSamples(a)
  <2>1. Put(k, v)
    BY <1>k, <1>v DEF Put
  <2> QED BY <2>1, <1>0, <1>k, <1>v, PutPuts DEF OwnSamples
<1>4. /\ pc'[a] = "sample_2" /\ sampling'[a] /\ (Key(a))' = k
      /\ \A b \in Actor \ {a} : pc'[b] = pc[b] /\ sampling'[b] = sampling[b]
      /\ pc' \in [Actor -> Place] /\ sampling' \in [Actor -> BOOLEAN]
  BY <1>0, <1>1, <1>k DEF StateOK, Place, InLoop, Key
<1>5. StateOK' /\ Kept(a)
  BY <1>0, <1>1, <1>4 DEF StateOK, Kept
<1>6. Running(a)' /\ Timed(a)' /\ Marked(a)' /\ Looping(a)'
  BY <1>0, <1>1, <1>2, <1>4 DEF Running, Resting, Timed, Marked, WithData, Looping, InLoop, At
<1>7. Measured(a)'
  <2>1. (NeedMore(a))' => v.benching
    BY <1>1, <1>3, <1>4, <1>v, <1>i DEF NeedMore, Data
  <2> QED BY <1>1, <1>3, <1>4, <1>v, <2>1 DEF Measured, Known, WithData, At
<1>8. Paid(a)'
  <2>1. timer[a].t = 0
    BY <1>0, <1>1 DEF Timed, At
  <2>2. Due(a) = acc[a] /\ (Due(a))' = acc[a]
    BY <2>1, <1>0, <1>1, <1>4 DEF Due, Left
  <2> QED BY <1>0, <1>1, <2>2 DEF Paid
<1> QED BY <1>0, <1>1, <1>3, <1>5, <1>6, <1>7, <1>8 DEF Good, ActorOK

\* The end of a loop: the mean exists, since something was measured.
LEMMA InjectGood ==
  ASSUME SamplingInv, NEW a \in Actor, turn = a, sampling[a], pc[a] \in {"sample_2", "test"},
         samples[Key(a)].count > 0, Inject(a), UNCHANGED <<samples, loop, alien, delayed>>
  PROVE  Good(a)
<1>0. /\ StateOK /\ SamplesOK /\ Measured(a) /\ owed[a] \in Int /\ alien[a] \in Nat
      /\ loop[a] \in [loc : Loc \cup {None}, total : Nat, done : Nat]
  BY ActorFacts
<1>1. samples[Key(a)] \in Data
  BY <1>0 DEF Measured, Known, SamplesOK
<1>2. Mean(a) \in Nat
  BY <1>1 DEF Mean, Data
<1>3. Mean(a) * loop[a].total \in Nat
  BY <1>0, <1>2
<1>d. PICK d \in Nat : d = Mean(a) * loop[a].total
  BY <1>3
<1>4. /\ sampling' = [sampling EXCEPT ![a] = FALSE]
      /\ owed' = [owed EXCEPT ![a] = owed[a] + d] /\ timer' = timer
  BY <1>d DEF Inject, Set
<1>5. Execute(a, d, "begin")
  BY <1>d DEF Inject, Execute
<1>6. /\ sampling' \in [Actor -> BOOLEAN] /\ ~sampling'[a]
      /\ \A b \in Actor \ {a} : sampling'[b] = sampling[b]
  BY <1>0, <1>4 DEF StateOK
<1> QED BY <1>4, <1>5, <1>6, ExecuteGood

LEMMA Sample2Good ==
  ASSUME SamplingInv, NEW a \in Actor, Sample2(a)
  PROVE  Good(a)
<1>0. /\ StateOK /\ SamplesOK /\ None \notin Actor
      /\ Running(a) /\ Timed(a) /\ Marked(a) /\ Looping(a) /\ Measured(a) /\ Paid(a)
      /\ timer[a] \in [on : BOOLEAN, t : Nat]
      /\ acc[a] \in 0 .. cpu_threshold - 1 /\ owed[a] \in Int /\ alien[a] \in Nat
  BY ActorFacts
<1>1. turn = a /\ pc[a] = "sample_2" /\ UNCHANGED <<samples, loop, alien, delayed>>
  BY DEF Sample2, Runs, ghosts
<1>2. sampling[a] /\ loop[a].loc \in Loc /\ Known(a) /\ samples[Key(a)] \in Data
  BY <1>0, <1>1 DEF Marked, WithData, Looping, InLoop, Measured, Known, SamplesOK, At
<1>i. /\ Iters[loop[a].loc] \in Nat
      /\ Iters[loop[a].loc] > 0 \/ loop[a].loc \in Stderr
  BY <1>2, SamplingAssumption
<1>3. CASE samples[Key(a)].benching \/ NeedMore(a)
  <2>1. samples[Key(a)].benching
    BY <1>0, <1>1, <1>3 DEF Measured, At
  <2>2. /\ timer' = [timer EXCEPT ![a] = [on |-> TRUE, t |-> 0]]
        /\ pc' = [pc EXCEPT ![a] = "body"]
        /\ UNCHANGED <<turn, next, acc, exec, sampling, owed, alien, delayed>>
    BY <1>3 DEF Sample2, BenchBegin, Set, ghosts
  <2>3. /\ pc'[a] = "body" /\ timer'[a].on
        /\ \A b \in Actor \ {a} : pc'[b] = pc[b] /\ timer'[b] = timer[b]
        /\ pc' \in [Actor -> Place] /\ timer' \in [Actor -> [on : BOOLEAN, t : Nat]]
    BY <1>0, <2>2 DEF StateOK, Place, InLoop
  <2>4. StateOK' /\ Kept(a)
    BY <1>0, <1>1, <2>2, <2>3 DEF StateOK, Kept
  <2>5. Running(a)' /\ Timed(a)' /\ Marked(a)' /\ Looping(a)'
    BY <1>0, <1>1, <1>2, <2>2, <2>3
       DEF Running, Resting, Timed, Marked, WithData, Looping, InLoop, At
  <2>6. Measured(a)'
    BY <1>0, <1>1, <1>2, <2>1, <2>3 DEF Measured, Known, Key, WithData, At
  <2>7. Paid(a)'
    BY <1>0, <1>1, <1>2, <2>2, <2>3 DEF Paid, Due, Left
  <2> QED BY <1>0, <1>1, <2>2, <2>4, <2>5, <2>6, <2>7, SamplesStay DEF Good, ActorOK
<1>4. CASE ~(samples[Key(a)].benching \/ NeedMore(a))
  <2>1. Inject(a)
    BY <1>4 DEF Sample2
  <2>2. samples[Key(a)].count > 0
    BY <1>4, <1>2, <1>i DEF NeedMore, Data
  <2> QED BY <1>1, <1>2, <2>1, <2>2, InjectGood
<1> QED BY <1>3, <1>4

LEMMA BodyGood ==
  ASSUME SamplingInv, NEW a \in Actor, NEW d \in Duration, Body(a, d)
  PROVE  Good(a)
<1>0. /\ StateOK /\ SamplesOK /\ None \notin Actor
      /\ Running(a) /\ Timed(a) /\ Marked(a) /\ Looping(a) /\ Measured(a) /\ Paid(a)
      /\ timer[a] \in [on : BOOLEAN, t : Nat] /\ timer[a].t \in Nat /\ d \in Nat
      /\ acc[a] \in 0 .. cpu_threshold - 1 /\ owed[a] \in Int /\ alien[a] \in Nat
  BY ActorFacts, SamplingAssumption
<1>1. /\ turn = a /\ pc[a] = "body" /\ pc' = [pc EXCEPT ![a] = "sample_3"] /\ Elapse(a, d)
      /\ UNCHANGED <<turn, next, sampling, acc, exec, samples, loop, owed, delayed>>
  BY DEF Body, Runs, Set
<1>p. /\ pc'[a] = "sample_3" /\ \A b \in Actor \ {a} : pc'[b] = pc[b]
      /\ pc' \in [Actor -> Place]
  BY <1>0, <1>1 DEF StateOK, Place, InLoop
<1>a. At(a) = "body" /\ (At(a))' = "sample_3" /\ timer[a].on /\ sampling[a]
  BY <1>0, <1>1, <1>p DEF At, Timed, Marked, WithData
<1>2. /\ timer' \in [Actor -> [on : BOOLEAN, t : Nat]] /\ alien' \in [Actor -> Nat]
      /\ timer'[a].on /\ timer'[a].t = timer[a].t + d /\ alien'[a] = alien[a]
      /\ \A b \in Actor \ {a} :
           \/ timer'[b] = timer[b] /\ alien'[b] = alien[b]
           \/ /\ timer[b].on /\ timer'[b].on
              /\ \E x \in Nat : /\ timer'[b].t = timer[b].t + x
                                /\ alien'[b] = IF sampling[b] THEN alien[b] ELSE alien[b] + x
  BY <1>0, <1>1, <1>a, ElapseAdds
<1>3. StateOK'
  BY <1>0, <1>1, <1>2, <1>p DEF StateOK
<1>k. Kept(a)
  BY <1>1, <1>2, <1>p DEF Kept
<1>4. Running(a)' /\ Timed(a)' /\ Marked(a)' /\ Looping(a)'
  BY <1>0, <1>1, <1>2, <1>p, <1>a
     DEF Running, Resting, Timed, Marked, WithData, Looping, InLoop
<1>5. Measured(a)'
  BY <1>0, <1>1, <1>a DEF Measured, Known, Key, Overtaken
<1>6. Paid(a)'
  BY <1>0, <1>1, <1>2, <1>p, <1>a DEF Paid, Due, Left
<1> QED BY <1>0, <1>1, <1>3, <1>k, <1>4, <1>5, <1>6, SamplesStay DEF Good, ActorOK

\* s4bxi_sample_3 finds the benchmark it ends, and enters its measure; only
\* a process that was overtaken finds that nobody is benchmarking.
LEMMA Sample3Good ==
  ASSUME SamplingInv, NEW a \in Actor, Sample3(a)
  PROVE  Good(a)
<1>0. /\ StateOK /\ SamplesOK /\ None \notin Actor
      /\ Running(a) /\ Timed(a) /\ Marked(a) /\ Looping(a) /\ Measured(a) /\ Paid(a)
      /\ timer[a] \in [on : BOOLEAN, t : Nat] /\ timer[a].t \in Nat
      /\ loop[a] \in [loc : Loc \cup {None}, total : Nat, done : Nat]
      /\ acc[a] \in 0 .. cpu_threshold - 1 /\ owed[a] \in Int /\ alien[a] \in Nat
  BY ActorFacts
<1>1. /\ turn = a /\ pc[a] = "sample_3"
      /\ UNCHANGED <<turn, next, sampling, acc, exec, owed, alien, delayed>>
  BY DEF Sample3, Runs, ghosts
<1>a. At(a) = "sample_3"
  BY <1>1 DEF At
<1>2. sampling[a] /\ loop[a].loc \in Loc /\ Known(a) /\ samples[Key(a)] \in Data
  BY <1>0, <1>a DEF Marked, WithData, Looping, InLoop, Measured, Known, SamplesOK
<1>i. Iters[loop[a].loc] \in Nat
  BY <1>2, SamplingAssumption
<1>k. PICK k \in Loc \X (Actor \cup {None}) : k = Key(a) /\ k[1] = loop[a].loc
  BY <1>2, KeyOK
<1>b. CASE samples[Key(a)].benching
  <2>3. /\ timer' = [timer EXCEPT ![a] = Off]
        /\ loop' = [loop EXCEPT ![a] = [loop[a] EXCEPT !.done = @ + 1]]
        /\ pc' = [pc EXCEPT ![a] = "test"]
    BY <1>b DEF Sample3, Set
  <2>c. loop[a].loc \notin Stderr => samples[Key(a)].count < Iters[loop[a].loc]
    BY <1>0, <1>2, <1>b, <1>k DEF SamplesOK, Known
  <2>v. PICK v \in Data :
          /\ Put(Key(a), v) /\ v.count > 0 /\ ~v.benching
          /\ loop[a].loc \notin Stderr => v.count <= Iters[loop[a].loc]
    <3>1. PICK high \in BOOLEAN :
            Put(Key(a), [count |-> samples[Key(a)].count + 1,
                         sum |-> samples[Key(a)].sum + timer[a].t,
                         high |-> high, benching |-> FALSE])
      BY <1>b DEF Sample3
    <3>2. samples[Key(a)].count \in Nat /\ samples[Key(a)].sum \in Nat
      BY <1>2 DEF Data
    <3>3. [count |-> samples[Key(a)].count + 1, sum |-> samples[Key(a)].sum + timer[a].t,
           high |-> high, benching |-> FALSE] \in Data
      BY <1>0, <3>2 DEF Data
    <3> QED BY <3>1, <3>2, <3>3, <2>c, <1>i
  <2>4. SamplesOK' /\ k \in DOMAIN samples' /\ samples'[k] = v /\ OwnSamples(a)
    <3>1. Put(k, v)
      BY <1>k, <2>v DEF Put
    <3> QED BY <3>1, <1>0, <1>k, <2>v, PutPuts DEF OwnSamples
  <2>5. /\ pc'[a] = "test" /\ ~timer'[a].on /\ timer'[a].t = 0 /\ loop'[a].loc = loop[a].loc
        /\ \A b \in Actor \ {a} : pc'[b] = pc[b] /\ timer'[b] = timer[b] /\ loop'[b] = loop[b]
    BY <1>0, <2>3 DEF StateOK, Off
  <2>6. /\ pc' \in [Actor -> Place] /\ timer' \in [Actor -> [on : BOOLEAN, t : Nat]]
        /\ loop' \in [Actor -> [loc : Loc \cup {None}, total : Nat, done : Nat]]
    <3>1. Off \in [on : BOOLEAN, t : Nat] /\ "test" \in Place
      BY DEF Off, Place, InLoop
    <3>2. [loop[a] EXCEPT !.done = @ + 1] \in [loc : Loc \cup {None}, total : Nat, done : Nat]
      BY <1>0
    <3> QED BY <1>0, <2>3, <3>1, <3>2 DEF StateOK
  <2>7. (Key(a))' = k /\ (At(a))' = "test"
    BY <2>5, <1>k DEF Key, At
  <2>8. StateOK' /\ Kept(a)
    BY <1>0, <1>1, <2>5, <2>6 DEF StateOK, Kept
  <2>9. Running(a)' /\ Timed(a)' /\ Marked(a)' /\ Looping(a)'
    BY <1>0, <1>1, <1>2, <2>5, <2>7 DEF Running, Resting, Timed, Marked, WithData, Looping, InLoop
  <2>10. Measured(a)'
    BY <1>1, <1>2, <2>4, <2>7, <2>v DEF Measured, Known
  <2>11. Paid(a)'
    BY <1>0, <1>1, <1>2, <2>5 DEF Paid, Due, Left
  <2> QED BY <1>0, <1>1, <2>4, <2>8, <2>9, <2>10, <2>11 DEF Good, ActorOK
<1>c. CASE ~samples[Key(a)].benching
  <2>1. pc' = [pc EXCEPT ![a] = "impossible"] /\ UNCHANGED <<timer, samples, loop>>
    BY <1>c DEF Sample3, Set
  <2>2. /\ pc'[a] = "impossible" /\ \A b \in Actor \ {a} : pc'[b] = pc[b]
        /\ pc' \in [Actor -> Place]
    BY <1>0, <2>1 DEF StateOK, Place, InLoop
  <2>3. (At(a))' = "impossible" /\ Overtaken(a) /\ (Overtaken(a))'
    BY <1>0, <1>1, <1>a, <1>c, <2>1, <2>2 DEF Measured, At, Overtaken
  <2>4. StateOK' /\ Kept(a)
    BY <1>0, <1>1, <2>1, <2>2 DEF StateOK, Kept
  <2>5. Running(a)' /\ Timed(a)' /\ Marked(a)' /\ Looping(a)'
    BY <1>0, <1>1, <1>2, <1>a, <2>1, <2>2, <2>3
       DEF Running, Resting, Timed, Marked, WithData, Looping, InLoop
  <2>6. Measured(a)'
    BY <1>2, <2>1, <2>3 DEF Measured, Known, Key
  <2>7. Paid(a)'
    BY <1>0, <1>1, <2>1, <2>2 DEF Paid, Due, Left
  <2> QED BY <1>0, <1>1, <2>1, <2>4, <2>5, <2>6, <2>7, SamplesStay DEF Good, ActorOK
<1> QED BY <1>b, <1>c

\* s4bxi_sample_exit finds the data of the loop it ends.
LEMMA SampleExitGood ==
  ASSUME SamplingInv, NEW a \in Actor, SampleExit(a)
  PROVE  Good(a)
<1>0. StateOK /\ Measured(a) /\ sampling[a] \in BOOLEAN
  BY ActorFacts
<1>1. turn = a /\ pc[a] = "test" /\ UNCHANGED <<samples, alien, delayed>>
  BY DEF SampleExit, Runs, ghosts
<1>2. CASE sampling[a]
  <2>1. Known(a) /\ samples[Key(a)].count > 0
    BY <1>0, <1>1, <1>2 DEF Measured, At
  <2>2. Inject(a) /\ UNCHANGED loop
    BY <1>2, <2>1 DEF SampleExit
  <2> QED BY <1>1, <1>2, <2>1, <2>2, InjectGood
<1>3. CASE ~sampling[a]
  <2>1. /\ pc' = [pc EXCEPT ![a] = "user"] /\ loop' = [loop EXCEPT ![a] = NoLoop]
        /\ UNCHANGED <<turn, next, timer, acc, exec, sampling, owed, alien, delayed>>
    BY <1>3 DEF SampleExit, Set, ghosts
  <2>2. NoLoop \in [loc : Loc \cup {None}, total : Nat, done : Nat]
    BY DEF NoLoop
  <2>3. /\ loop' \in [Actor -> [loc : Loc \cup {None}, total : Nat, done : Nat]]
        /\ \A b \in Actor \ {a} : loop'[b] = loop[b]
    BY <1>0, <2>1, <2>2 DEF StateOK
  <2> QED BY <1>1, <1>3, <2>1, <2>3, StepGood
<1> QED BY <1>0, <1>2, <1>3

-----------------------------------------------------------------------------
(***************************************************************************)
(* The invariant, and the theorems.                                        *)
(***************************************************************************)
LEMMA SamplingInit == Init => SamplingInv
<1> SUFFICES ASSUME Init PROVE SamplingInv
  OBVIOUS
<1>0. cpu_threshold \in Nat \ {0} /\ None \notin Actor
  BY SamplingAssumption
<1>1. StateOK
  <2>1. Off \in [on : BOOLEAN, t : Nat] /\ "start" \in Place /\ 0 \in 0 .. cpu_threshold - 1
    BY <1>0 DEF Off, Place, Resting
  <2>2. NoLoop \in [loc : Loc \cup {None}, total : Nat, done : Nat]
    BY DEF NoLoop
  <2> QED BY <2>1, <2>2 DEF StateOK, Init
<1>2. SamplesOK
  BY DEF SamplesOK, Init
<1>3. ASSUME NEW a \in Actor PROVE ActorOK(a)
  <2>1. Running(a) /\ Marked(a) /\ Looping(a)
    BY <1>0 DEF Running, Marked, Looping, Init, Resting, InLoop, WithData, At
  <2>2. Timed(a) /\ Paid(a)
    BY DEF Timed, Paid, Due, Left, Init, Off, At
  <2>3. Measured(a)
    BY DEF Measured, Init, WithData, At
  <2> QED BY <2>1, <2>2, <2>3 DEF ActorOK
<1> QED BY <1>1, <1>2, <1>3 DEF SamplingInv

LEMMA StepIsGood ==
  ASSUME SamplingInv, NEW a \in Actor, Step(a)
  PROVE  Good(a)
<1>u. pc[a] = "user" => ~sampling[a]
  BY ActorFacts DEF Marked, InLoop, At
<1>a. {"final", "call", "return", "compute_s", "force"} \subseteq After
      /\ "sample_1" \notin {"final", "call", "return", "compute_s", "force"}
  BY DEF After
<1>1. CASE Start(a)
  BY <1>1, BenchBeginGood DEF Start, ghosts
<1>2. CASE Finish(a)
  BY <1>2, <1>u, <1>a, BenchEndGood DEF Finish, Runs, ghosts
<1>3. CASE Leave(a)
  BY <1>3, MoveGood, SamplingAssumption DEF Leave, Runs, Set, ghosts
<1>4. ASSUME NEW d \in Duration, \/ Compute(a, d) \/ SampleDelay(a, d)
                                 \/ ComputeSExecute(a, d) \/ Body(a, d)
      PROVE  Good(a)
  <2>1. CASE ComputeSExecute(a, d)
    <3>1. /\ turn = a /\ pc[a] = "compute_s" /\ Execute(a, d, "return")
          /\ owed' = [owed EXCEPT ![a] = owed[a] + d]
          /\ UNCHANGED <<timer, sampling, samples, loop, alien, delayed>>
      BY <2>1 DEF ComputeSExecute, Runs, Set, ghosts
    <3>2. ~sampling[a] /\ sampling \in [Actor -> BOOLEAN] /\ d \in Nat
      BY <3>1, ActorFacts, SamplingAssumption DEF Marked, InLoop, StateOK, At
    <3> QED BY <3>1, <3>2, ExecuteGood
  <2> QED BY <1>4, <2>1, ComputeGood, SampleDelayGood, BodyGood
<1>5. ASSUME NEW c \in BenchCalls, Call(a, c) PROVE Good(a)
  <2>1. PICK then \in {"call", "return"} : BenchEnd(a, then)
    BY <1>5 DEF Call
  <2> QED BY <1>5, <2>1, <1>u, <1>a, BenchEndGood DEF Call, Operation, Runs, ghosts
<1>6. ASSUME NEW c \in InstantCalls, InstantCall(a, c) PROVE Good(a)
  BY <1>6, InstantGood
<1>7. CASE CallBlocks(a)
  BY <1>7, MoveGood, SamplingAssumption DEF CallBlocks, Runs, Set, ghosts
<1>8. CASE CallReturns(a)
  BY <1>8, BenchBeginGood DEF CallReturns, ghosts
<1>9. CASE ComputeS(a)
  BY <1>9, <1>u, <1>a, BenchEndGood DEF ComputeS, Operation, Runs, ghosts
<1>10. CASE ForceCompute(a)
  BY <1>10, <1>u, <1>a, BenchEndGood DEF ForceCompute, Operation, Runs, ghosts
<1>11. CASE ForceExecute(a)
  BY <1>11, MoveGood, SamplingAssumption DEF ForceExecute, Runs, Set, ghosts
<1>12. ASSUME NEW l \in Loc, NEW n \in LoopLength, EnterLoop(a, l, n) PROVE Good(a)
  BY <1>12, EnterLoopGood
<1>13. CASE LeaveLoop(a)
  BY <1>13, BenchBeginGood DEF LeaveLoop, Runs, ghosts
<1>14. CASE Unblock(a)
  BY <1>14, MoveGood DEF Unblock, Set, ghosts
<1> QED BY <1>1, <1>2, <1>3, <1>4, <1>5, <1>6, <1>7, <1>8, <1>9, <1>10, <1>11, <1>12, <1>13,
           <1>14, Sample1Good, Sample1DataGood, Sample2Good, Sample3Good, SampleExitGood,
           ExecDoneGood DEF Step

\* The invariant holds of every state.
THEOREM SamplingCorrect == Spec => []SamplingInv
<1>1. SamplingInv /\ [Next]_vars => SamplingInv'
  <2> SUFFICES ASSUME SamplingInv, [Next]_vars PROVE SamplingInv'
    OBVIOUS
  <2>1. CASE Next
    BY <2>1, StepIsGood, OthersAreAtRest DEF Next
  <2>2. CASE UNCHANGED vars
    BY <2>2 DEF vars, SamplingInv, StateOK, SamplesOK, ActorOK, Running, Timed,
       Marked, Looping, Measured, Paid, Due, Left, Known, Key, NeedMore, At, Overtaken, ghosts
  <2> QED BY <2>1, <2>2
<1> QED BY <1>1, SamplingInit, PTL DEF Spec

\* The timer of a process is on in all its user code, and whenever another
\* one may run it is off (s4bxi_bench_begin, s4bxi_bench_end), except in
\* S4BXI_SAMPLE_DELAY: a process that never waits there is simulated for
\* nothing that others computed, for any number of processes, calls, loops
\* and any durations.
THEOREM TimersMeasureOwnCode == Spec => []MeasuresOnlyItself
<1>1. SamplingInv => MeasuresOnlyItself
  <2> SUFFICES ASSUME SamplingInv, NEW a \in Actor
               PROVE  /\ timer[a].on => turn = a \/ InDelay(a)
                      /\ pc[a] \in {"user", "body"} => timer[a].on
                      /\ alien[a] > 0 => a \in delayed
    BY DEF MeasuresOnlyItself
  <2>1. Running(a) /\ Timed(a) /\ next[a] \in Back \cup {"start"}
    BY ActorFacts
  <2>2. pc[a] # "exec" => At(a) = pc[a]
    BY DEF At
  <2>3. pc[a] = "exec" => At(a) = next[a]
    BY DEF At
  <2>4. timer[a].on => turn = a \/ InDelay(a)
    BY <2>1, <2>2, <2>3 DEF Running, Timed, Resting, InDelay, Back, After, UserCode
  <2> QED BY <2>1, <2>2, <2>4 DEF Timed
<1> QED BY <1>1, SamplingCorrect, PTL

\* With cpu_accumulate, s4bxi_execute neither loses nor repeats a time: what
\* was computed, asked for or taken from others is simulated, or is still in
\* the accumulator or on the timer.
THEOREM NoTimeLost == Spec => []TimeConserved
<1>1. SamplingInv => TimeConserved
  BY DEF SamplingInv, StateOK, SamplesOK, ActorOK, Paid, Due, Left, TimeConserved, TypeOK
<1> QED BY <1>1, SamplingCorrect, PTL

\* A loop body runs only between an s4bxi_sample_2 that wants a benchmark
\* and the s4bxi_sample_3 that ends it, unless it waited in
\* S4BXI_SAMPLE_DELAY at a shared location; and there, too, no line without
\* a maximal error is measured more often than asked.
THEOREM BodiesAreMeasured == Spec => []BenchedWhenNeeded
<1>1. SamplingInv => BenchedWhenNeeded
  <2> SUFFICES ASSUME SamplingInv PROVE BenchedWhenNeeded
    OBVIOUS
  <2>1. ASSUME NEW a \in Actor
        PROVE  /\ pc[a] \in {"body", "sample_3"} => samples[Key(a)].benching \/ Overtaken(a)
               /\ pc[a] = "impossible" => Overtaken(a)
    <3>1. Measured(a) /\ (pc[a] # "exec" => At(a) = pc[a])
      BY ActorFacts DEF At
    <3> QED BY <3>1 DEF Measured
  <2>3. \A k \in DOMAIN samples : k[1] \notin Stderr => samples[k].count <= Iters[k[1]]
    BY DEF SamplingInv, SamplesOK
  <2> QED BY <2>1, <2>3 DEF BenchedWhenNeeded
<1> QED BY <1>1, SamplingCorrect, PTL
=============================================================================
