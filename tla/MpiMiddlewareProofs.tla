------------------------ MODULE MpiMiddlewareProofs -------------------------
(***************************************************************************)
(* Proofs about MpiMiddleware, for any applications, arrays of requests    *)
(* and addresses.                                                          *)
(*                                                                         *)
(* The state has two halves that share no variable.  ObjectInv is about    *)
(* the derived communicators and datatypes, RequestInv about the requests  *)
(* and smpi_requests.  The two dozen calls that work on requests change    *)
(* them in eight ways only: the definitions ...Step below.  A lemma says   *)
(* so of each call, and every invariant is then proved over those.         *)
(***************************************************************************)
EXTENDS MpiMiddleware, WellFoundedInduction, TLAPS

WaitCalls == {"Wait", "Waitall", "Waitany", "Waitsome"}
\* A call with undefined behaviour
Ends == \E hs : Undefined(hs)

reqVars == <<pc, waiting, requestVars>>

PC      == {"load", "loaded", "run", "wait", "late", "barrier", "finalized"}
Waiting == [call : WaitCalls \cup {"none", "store", "erase"}, impl : Impl \cup {"none"},
            slots : SUBSET Slot, addrs : SUBSET Addr]

-----------------------------------------------------------------------------
(***************************************************************************)
(* The requests.                                                           *)
(***************************************************************************)
RequestTypes ==
  /\ pc \in [Actor -> PC]
  /\ waiting \in [Actor -> Waiting]
  /\ req \in [Actor -> [Slot -> Nulls \cup Addr]]
  /\ heap \in [Addr -> Object \cup {Free}]
  /\ smpiRequests \subseteq Addr /\ doubtful \subseteq Addr

\* Two variables never hold the same request, and none holds a dead one.
Exclusive ==
  \A a, b \in Actor : \A s, t \in Slot :
    req[a][s] \in Addr /\ req[a][s] = req[b][t] => a = b /\ s = t
Alive == \A a \in Actor, s \in Slot : req[a][s] \in Addr => heap[req[a][s]] \in Object

\* Where an application is, and the call that it is in
CallOK(a) ==
  LET w == waiting[a] IN
  /\ pc[a] = "wait" => /\ w.call \in WaitCalls \cap Calls /\ w.impl \in Impl /\ w.addrs = {}
                       /\ \A s \in w.slots : Knows(w.impl, req[a][s])
  /\ pc[a] = "late" => w.call \in {"store", "erase"} /\ w.slots = {}
  /\ pc[a] \notin {"wait", "late"} => w = NoCall

Stored(a) ==
  waiting[a].call = "store" =>
    \A x \in waiting[a].addrs : heap[x].impl = "smpi" /\ \E s \in Slot : req[a][s] = x

RequestInv ==
  /\ RequestTypes /\ Exclusive /\ Alive
  /\ \A a \in Actor : CallOK(a) /\ Stored(a)

Erased(a) ==
  waiting[a].call = "erase" => \A x \in waiting[a].addrs : heap[x] = Free \/ x \in doubtful

TrackInv == RightlyTracked /\ \A a \in Actor : Erased(a)

-----------------------------------------------------------------------------
(***************************************************************************)
(* Communicators, datatypes and tables.                                    *)
(***************************************************************************)
Faces(a, k) == {Face(i, a, k) : i \in Impl}

ObjectInv ==
  /\ DOMAIN derived = Actor
  /\ \A a \in Actor : DOMAIN derived[a] = Kinds
  /\ \A a \in Actor, k \in Kinds : derived[a][k] \in {{}, Faces(a, k)}
  /\ objects = UNION {derived[a][k] : a \in Actor, k \in Kinds}
  /\ committed \subseteq objects
  /\ \A a \in Actor : derived[a]["type"] \cap committed # {} => derived[a]["type"] \subseteq committed

SetupInv ==
  /\ smpiOps \in BOOLEAN /\ bullOps \subseteq Actor
  /\ useSmpi \in [Actor -> BOOLEAN] /\ switches \in 0 .. MaxSwitches
  /\ ended \in {"no", "undefined"} /\ given \subseteq Addr
  /\ \A a \in Actor : pc[a] # "load" => smpiOps /\ a \in bullOps

-----------------------------------------------------------------------------
(***************************************************************************)
(* What a call does to the requests.                                       *)
(***************************************************************************)
\* The application goes from one part of its life to the next.
PlaceStep ==
  \E a \in Actor, p \in {"loaded", "run", "barrier", "finalized"} :
    /\ pc[a] \notin {"wait", "late"} /\ (pc[a] = "load" => SetOps(a))
    /\ pc' = [pc EXCEPT ![a] = p]
    /\ UNCHANGED <<waiting, requestVars>>

\* Complete, Cancel, Start
StateStep ==
  \E x \in Addr, c \in {"active", "done"} :
    /\ heap[x] \in Object
    /\ heap' = [heap EXCEPT ![x].state = c]
    /\ UNCHANGED <<pc, waiting, req, smpiRequests, doubtful>>

\* Nonblocking, NonblockingCollective, InitPersistent
AllocStep ==
  \E a \in Actor, s \in Slot, i \in Impl, p \in BOOLEAN, x \in Addr :
    /\ pc[a] = "run" /\ req[a][s] \in Nulls
    /\ Allocate(i, x, p)
    /\ req' = [req EXCEPT ![a][s] = x]
    /\ Suspend(a, "store", IF i = "smpi" THEN {x} ELSE {})
    /\ UNCHANGED smpiRequests

\* Test, Testany, Testall
TestStep ==
  \E a \in Actor, S \in SUBSET Slot, i \in Impl, xs \in SUBSET Addr :
    /\ pc[a] = "run"
    /\ \A s \in S : Knows(i, req[a][s])
    /\ Release(a, S, i)
    /\ Suspend(a, "erase", xs)
    /\ xs \subseteq {req[a][s] : s \in S} /\ (xs # {} => i = "smpi")
    /\ UNCHANGED smpiRequests

\* Wait, Waitall, Waitany, Waitsome
BlockStep ==
  \E a \in Actor, S \in SUBSET Slot, i \in Impl, c \in WaitCalls \cap Calls :
    /\ pc[a] = "run"
    /\ \A s \in S : Knows(i, req[a][s])
    /\ pc' = [pc EXCEPT ![a] = "wait"]
    /\ waiting' = [waiting EXCEPT ![a] = [call |-> c, impl |-> i, slots |-> S, addrs |-> {}]]
    /\ smpiRequests' = smpiRequests \ (IF c \in {"Wait", "Waitall"} THEN {req[a][s] : s \in S} ELSE {})
    /\ UNCHANGED <<req, heap, doubtful>>

\* RequestFree
FreeStep ==
  \E a \in Actor, s \in Slot, i \in Impl :
    /\ pc[a] = "run" /\ "Request_free" \in Calls
    /\ req[a][s] \in Addr
    /\ heap' = [heap EXCEPT ![req[a][s]] = Free]
    /\ req' = [req EXCEPT ![a][s] = Null(i)]
    /\ doubtful' = doubtful \ {req[a][s]}
    /\ UNCHANGED <<pc, waiting, smpiRequests>>

RequestStep ==
  \/ UNCHANGED reqVars
  \/ PlaceStep \/ StateStep \/ AllocStep \/ TestStep \/ BlockStep \/ FreeStep
  \/ \E a \in Actor : WaitEnd(a)
  \/ \E a \in Actor : Late(a)

\* The calls of an application that do not return undefined
LEMMA NullsDiffer ==
  /\ Null("smpi") # Null("bull")
  /\ \A i \in Impl : Null(i) \in Nulls /\ Null(i) \notin Addr
BY MiddlewareAssumption DEF Null, Nulls, Impl

LEMMA UndefinedStep == Ends => UNCHANGED reqVars
BY DEF Ends, Undefined, reqVars

LEMMA InUseImpl == \A a : InUse(a) \in Impl
BY DEF InUse, Impl

LEMMA OwnerImpl == \A a, h : OwnerOf(a, h) \in Impl
BY DEF OwnerOf, Impl

LEMMA OwnerAnyImpl == \A a, S : OwnerOfAny(a, S) \in Impl
BY DEF OwnerOfAny, Impl

\* Start, Cancel and Complete
LEMMA StateCalls ==
  ASSUME RequestTypes, NEW a \in Actor, NEW s \in Slot
  PROVE  Cancel(a, s) \/ Start(a, s) => RequestStep
<1>1. CASE Ends
  BY <1>1, UndefinedStep DEF RequestStep
<1>2. ASSUME ~Ends, Cancel(a, s) PROVE StateStep
  <2>1. /\ req[a][s] \in Addr /\ heap[req[a][s]].state = "active"
        /\ heap' = [heap EXCEPT ![req[a][s]].state = "done"]
        /\ UNCHANGED <<pc, waiting, req, smpiRequests, doubtful>>
    BY <1>2 DEF Cancel, Ends
  <2>2. heap[req[a][s]] \in Object
    BY <2>1 DEF RequestTypes, Free
  <2> QED BY <2>1, <2>2 DEF StateStep
<1>3. ASSUME ~Ends, Start(a, s) PROVE StateStep
  <2>1. /\ req[a][s] \in Addr /\ heap[req[a][s]].state = "inactive"
        /\ heap' = [heap EXCEPT ![req[a][s]].state = "active"]
        /\ UNCHANGED <<pc, waiting, req, smpiRequests, doubtful>>
    BY <1>3 DEF Start, Ends
  <2>2. heap[req[a][s]] \in Object
    BY <2>1 DEF RequestTypes, Free
  <2> QED BY <2>1, <2>2 DEF StateStep
<1> QED BY <1>1, <1>2, <1>3 DEF RequestStep

LEMMA CompleteCall ==
  ASSUME RequestTypes, NEW x \in Addr, Complete(x)
  PROVE  RequestStep
<1>1. heap[x] \in Object
  BY DEF RequestTypes, Free, Complete
<1> QED BY <1>1 DEF RequestStep, StateStep, Complete

LEMMA NewCalls ==
  ASSUME NEW a \in Actor, NEW s \in Slot,
         NEW p \in BOOLEAN, NewRequest(a, s, p)
  PROVE  RequestStep
<1>1. PICK x \in Addr : /\ Allocate(InUse(a), x, p)
                        /\ req' = [req EXCEPT ![a][s] = x]
                        /\ Suspend(a, "store", IF InUse(a) = "smpi" THEN {x} ELSE {})
  BY DEF NewRequest
<1>2. pc[a] = "run" /\ req[a][s] \in Nulls /\ UNCHANGED smpiRequests
  BY DEF NewRequest, Running
<1> QED BY <1>1, <1>2, InUseImpl DEF RequestStep, AllocStep

LEMMA FreeCalls ==
  ASSUME NEW a \in Actor, NEW s \in Slot, RequestFree(a, s)
  PROVE  RequestStep
<1>1. CASE Ends
  BY <1>1, UndefinedStep DEF RequestStep
<1>2. CASE ~Ends
  BY <1>2, InUseImpl DEF RequestFree, Ends, Running, RequestStep, FreeStep
<1> QED BY <1>1, <1>2

LEMMA TestCall ==
  ASSUME RequestTypes, NEW a \in Actor, NEW s \in Slot, Test(a, s)
  PROVE  RequestStep
<1> DEFINE h == req[a][s]
           i == OwnerOf(a, h)
           xs == IF i = "smpi" THEN {h} \cap Addr ELSE {}
<1>1. CASE Ends
  BY <1>1, UndefinedStep DEF RequestStep
<1>2. CASE ~Ends
  <2>1. /\ pc[a] = "run" /\ Knows(i, h) /\ Release(a, {s}, i) /\ Suspend(a, "erase", xs)
        /\ UNCHANGED smpiRequests
    BY <1>2 DEF Test, Running, Ends
  <2>3. xs \in SUBSET Addr /\ xs \subseteq {req[a][t] : t \in {s}} /\ (xs # {} => i = "smpi")
    OBVIOUS
  <2>4. \A t \in {s} : Knows(i, req[a][t])
    BY <2>1
  <2>6. i \in Impl /\ {s} \in SUBSET Slot
    BY OwnerImpl
  <2> HIDE DEF i, xs
  <2>7. TestStep
    BY <2>1, <2>3, <2>4, <2>6 DEF TestStep
  <2> QED BY <2>7 DEF RequestStep
<1> QED BY <1>1, <1>2

LEMMA TestanyCall ==
  ASSUME RequestTypes, NEW a \in Actor, NEW S \in SUBSET Slot, Testany(a, S)
  PROVE  RequestStep
<1> DEFINE i == OwnerOfAny(a, S)
<1>1. CASE Ends
  BY <1>1, UndefinedStep DEF RequestStep
<1>2. CASE ~Ends
  <2>1. PICK s \in S : /\ Release(a, {s}, i)
                       /\ Suspend(a, "erase", smpiRequests \cap {req[a][s]})
                       /\ UNCHANGED smpiRequests
    BY <1>2 DEF Testany, Ends
  <2>2. pc[a] = "run" /\ \A t \in S : Knows(i, req[a][t])
    BY <1>2 DEF Testany, Running, Ends
  <2> DEFINE xs == smpiRequests \cap {req[a][s]}
  <2>3. xs \in SUBSET Addr /\ xs \subseteq {req[a][t] : t \in {s}}
    BY DEF RequestTypes
  <2>4. xs # {} => i = "smpi"
    BY DEF OwnerOfAny
  <2>5. i \in Impl /\ {s} \in SUBSET Slot
    BY OwnerAnyImpl
  <2>6. \A t \in {s} : Knows(i, req[a][t])
    BY <2>2
  <2>7. Suspend(a, "erase", xs)
    BY <2>1
  <2> HIDE DEF i, xs
  <2>8. TestStep
    BY <2>1, <2>2, <2>3, <2>4, <2>5, <2>6, <2>7 DEF TestStep
  <2> QED BY <2>8 DEF RequestStep
<1> QED BY <1>1, <1>2

LEMMA TestallCall ==
  ASSUME RequestTypes, NEW a \in Actor, NEW S \in SUBSET Slot, Testall(a, S)
  PROVE  RequestStep
<1> DEFINE i    == OwnerOfAny(a, S)
           gone == {s \in S : req[a][s] \in smpiRequests /\ ~heap[req[a][s]].persistent}
           xs   == {req[a][s] : s \in gone}
<1>1. CASE Ends
  BY <1>1, UndefinedStep DEF RequestStep
<1>2. CASE ~Ends
  <2>1. /\ pc[a] = "run" /\ \A s \in S : Knows(i, req[a][s])
        /\ Release(a, S, i) /\ Suspend(a, "erase", xs)
        /\ UNCHANGED smpiRequests
    BY <1>2 DEF Testall, Running, Ends
  <2>2. xs \in SUBSET Addr /\ xs \subseteq {req[a][t] : t \in S}
    BY DEF RequestTypes
  <2>3. xs # {} => i = "smpi"
    BY DEF OwnerOfAny
  <2>4. i \in Impl
    BY OwnerAnyImpl
  <2> HIDE DEF i, xs
  <2>5. TestStep
    BY <2>1, <2>2, <2>3, <2>4 DEF TestStep
  <2> QED BY <2>5 DEF RequestStep
<1> QED BY <1>1, <1>2

\* The calls that block
LEMMA BlockCall ==
  ASSUME NEW a \in Actor, NEW S \in SUBSET Slot, NEW i \in Impl, NEW c \in WaitCalls \cap Calls,
         pc[a] = "run", Block(a, c, i, S), ~Ends,
         smpiRequests' = smpiRequests \ (IF c \in {"Wait", "Waitall"} THEN {req[a][s] : s \in S} ELSE {})
  PROVE  RequestStep
<1>1. /\ \A s \in S : Knows(i, req[a][s])
      /\ pc' = [pc EXCEPT ![a] = "wait"]
      /\ waiting' = [waiting EXCEPT ![a] = [call |-> c, impl |-> i, slots |-> S, addrs |-> {}]]
      /\ UNCHANGED <<req, heap, doubtful>>
  BY DEF Block, Ends
<1> QED BY <1>1 DEF RequestStep, BlockStep

LEMMA WaitCall ==
  ASSUME RequestTypes, NEW a \in Actor, NEW s \in Slot, Wait(a, s)
  PROVE  RequestStep
<1> DEFINE i == OwnerOf(a, req[a][s])
<1>1. CASE Ends
  BY <1>1, UndefinedStep DEF RequestStep
<1>2. CASE ~Ends
  <2>1. Knows(i, req[a][s])
    BY <1>2 DEF Wait, Block, Ends
  <2>2. smpiRequests' = smpiRequests \ {req[a][s]}
    BY <2>1 DEF Wait, OwnerOf
  <2>3. {req[a][t] : t \in {s}} = {req[a][s]}
    OBVIOUS
  <2>4. /\ pc[a] = "run" /\ "Wait" \in WaitCalls \cap Calls /\ Block(a, "Wait", i, {s})
        /\ i \in Impl /\ {s} \in SUBSET Slot
    BY OwnerImpl DEF Wait, Running, WaitCalls
  <2> HIDE DEF i
  <2> QED BY <1>2, <2>2, <2>3, <2>4, BlockCall
<1> QED BY <1>1, <1>2

LEMMA WaitallCall ==
  ASSUME NEW a \in Actor, NEW S \in SUBSET Slot, Waitall(a, S)
  PROVE  RequestStep
<1>1. CASE Ends
  BY <1>1, UndefinedStep DEF RequestStep
<1>2. CASE ~Ends
  <2>1. smpiRequests' = smpiRequests \ {req[a][s] : s \in S}
    BY <1>2 DEF Waitall, Block, Ends
  <2>2. /\ pc[a] = "run" /\ "Waitall" \in WaitCalls \cap Calls /\ Block(a, "Waitall", InUse(a), S)
        /\ InUse(a) \in Impl
    BY InUseImpl DEF Waitall, Running, WaitCalls
  <2> QED BY <1>2, <2>1, <2>2, BlockCall
<1> QED BY <1>1, <1>2

LEMMA WaitanyCall ==
  ASSUME NEW a \in Actor, NEW S \in SUBSET Slot, Waitany(a, S) \/ Waitsome(a, S)
  PROVE  RequestStep
<1>1. CASE Ends
  BY <1>1, UndefinedStep DEF RequestStep
<1>2. CASE ~Ends /\ Waitany(a, S)
  <2>1. smpiRequests' = smpiRequests \ {}
    BY <1>2 DEF Waitany
  <2>2. /\ pc[a] = "run" /\ "Waitany" \in WaitCalls \cap Calls
        /\ Block(a, "Waitany", OwnerOf(a, req[a][First(S)]), S)
        /\ OwnerOf(a, req[a][First(S)]) \in Impl
    BY <1>2, OwnerImpl DEF Waitany, Running, WaitCalls
  <2> QED BY <1>2, <2>1, <2>2, BlockCall
<1>3. CASE ~Ends /\ Waitsome(a, S)
  <2>1. smpiRequests' = smpiRequests \ {}
    BY <1>3 DEF Waitsome
  <2>2. /\ pc[a] = "run" /\ "Waitsome" \in WaitCalls \cap Calls
        /\ Block(a, "Waitsome", InUse(a), S) /\ InUse(a) \in Impl
    BY <1>3, InUseImpl DEF Waitsome, Running, WaitCalls
  <2> QED BY <1>3, <2>1, <2>2, BlockCall
<1> QED BY <1>1, <1>2, <1>3

\* The calls that only move the application, or touch no request at all
LEMMA OtherCalls ==
  ASSUME NEW a \in Actor,
         \/ SetOps(a) \/ MpiInit(a) \/ Switch(a) \/ Finalize(a) \/ Finalized(a)
         \/ ObjectCall(a)
  PROVE  RequestStep
<1>1. CASE SetOps(a) \/ MpiInit(a) \/ Finalize(a) \/ Finalized(a)
  <2>1. /\ pc[a] \notin {"wait", "late"} /\ UNCHANGED <<waiting, requestVars>>
        /\ \E p \in {"loaded", "run", "barrier", "finalized"} : pc' = [pc EXCEPT ![a] = p]
        /\ pc[a] = "load" => SetOps(a)
    BY <1>1 DEF SetOps, MpiInit, Finalize, Finalized, Running
  <2> QED BY <2>1 DEF RequestStep, PlaceStep
<1>2. CASE Switch(a)
  BY <1>2 DEF Switch, RequestStep, reqVars
<1>3. CASE ObjectCall(a)
  <2>1. CASE Blocking(a)
    <3>1. UNCHANGED vars \/ Ends
      BY <2>1 DEF Blocking, Ends
    <3> QED BY <3>1, UndefinedStep DEF RequestStep, reqVars, vars, requestVars
  <2>2. CASE ~Blocking(a)
    BY <1>3, <2>2 DEF ObjectCall, CommSplit, CommFree, TypeContiguous, TypeFree, TypeCommit,
                      Derive, FreeDerived, RequestStep, reqVars
  <2> QED BY <2>1, <2>2
<1> QED BY <1>1, <1>2, <1>3

LEMMA RequestSteps ==
  ASSUME RequestTypes, [Next]_vars
  PROVE  RequestStep
<1>1. CASE UNCHANGED vars
  BY <1>1 DEF RequestStep, reqVars, vars, requestVars
<1>2. ASSUME NEW x \in Addr, Complete(x) PROVE RequestStep
  BY <1>2, CompleteCall
<1>3. ASSUME NEW a \in Actor, RequestCall(a) PROVE RequestStep
  <2>1. CASE WaitEnd(a) \/ Late(a)
    BY <2>1 DEF RequestStep
  <2>2. ASSUME NEW s \in Slot,
               \/ Nonblocking(a, s) \/ NonblockingCollective(a, s) \/ InitPersistent(a, s)
        PROVE  RequestStep
    BY <2>2, NewCalls DEF Nonblocking, NonblockingCollective, InitPersistent
  <2>3. ASSUME NEW s \in Slot,
               Start(a, s) \/ Test(a, s) \/ Wait(a, s) \/ Cancel(a, s) \/ RequestFree(a, s)
        PROVE  RequestStep
    BY <2>3, StateCalls, TestCall, WaitCall, FreeCalls
  <2>4. ASSUME NEW S \in Arrays,
               Testany(a, S) \/ Testall(a, S) \/ Waitany(a, S) \/ Waitall(a, S) \/ Waitsome(a, S)
        PROVE  RequestStep
    <3>1. S \in SUBSET Slot
      BY DEF Arrays
    <3> QED BY <2>4, <3>1, TestanyCall, TestallCall, WaitallCall, WaitanyCall
  <2> QED BY <1>3, <2>1, <2>2, <2>3, <2>4 DEF RequestCall
<1> QED BY <1>1, <1>2, <1>3, OtherCalls DEF Next

-----------------------------------------------------------------------------
(***************************************************************************)
(* RequestInv: who holds which request, for any constants.                 *)
(***************************************************************************)
LEMMA FreeIsNoObject == Free \notin Object /\ Free.impl = "none" /\ ~Free.persistent
BY DEF Free, Object, Impl

LEMMA NoCallWaits == NoCall \in Waiting /\ NoCall.call = "none"
BY DEF NoCall, Waiting

\* What completing requests of a leaves of everything else
LEMMA ReleaseKeeps ==
  ASSUME RequestTypes, Exclusive, Alive,
         NEW a \in Actor, NEW S \in SUBSET Slot, NEW i \in Impl, Release(a, S, i)
  PROVE  /\ heap' \in [Addr -> Object \cup {Free}]
         /\ req' \in [Actor -> [Slot -> Nulls \cup Addr]]
         /\ doubtful' \subseteq Addr
         /\ Exclusive' /\ Alive'
         /\ \A b \in Actor \ {a} : req'[b] = req[b]
         /\ \A b \in Actor \ {a}, t \in Slot :
              req[b][t] \in Addr => heap'[req[b][t]] = heap[req[b][t]]
         /\ \A x \in Addr : heap'[x].impl # "none" => heap'[x].impl = heap[x].impl
         /\ \A x \in Addr : heap[x] = Free => heap'[x] = Free
<1> DEFINE xs == {req[a][s] : s \in S} \cap Addr
           Next1(x) == IF x \notin xs THEN heap[x]
                       ELSE IF heap[x].persistent THEN [heap[x] EXCEPT !.state = "inactive"]
                       ELSE Free
           gone(s) == s \in S /\ req[a][s] \in Addr /\ ~heap[req[a][s]].persistent
<1>1. heap' = [x \in Addr |-> Next1(x)]
  BY DEF Release
<1>2. req' = [req EXCEPT ![a] = [s \in Slot |-> IF gone(s) THEN Null(i) ELSE req[a][s]]]
  BY DEF Release
<1>3. ASSUME NEW x \in Addr
      PROVE  /\ heap'[x] \in Object \cup {Free}
             /\ heap'[x] = heap[x] \/ x \in xs
             /\ heap[x].persistent => /\ heap'[x] \in Object
                                      /\ heap'[x].impl = heap[x].impl /\ heap'[x].persistent
             /\ heap'[x] = heap[x] \/ heap[x].persistent \/ heap'[x] = Free
             /\ heap[x] = Free => heap'[x] = Free
  <2>1. heap[x] \in Object \cup {Free}
    BY DEF RequestTypes
  <2>2. heap[x].persistent => heap[x] \in Object /\ [heap[x] EXCEPT !.state = "inactive"] \in Object
    BY <2>1, FreeIsNoObject DEF Object
  <2>3. /\ [heap[x] EXCEPT !.state = "inactive"].impl = heap[x].impl
        /\ heap[x].persistent => [heap[x] EXCEPT !.state = "inactive"].persistent
    BY <2>1 DEF Object, Free
  <2> HIDE DEF xs
  <2> QED BY <1>1, <2>1, <2>2, <2>3, FreeIsNoObject
<1>4. heap' \in [Addr -> Object \cup {Free}]
  BY <1>1, <1>3
<1>5. req' \in [Actor -> [Slot -> Nulls \cup Addr]]
  BY <1>2, NullsDiffer DEF RequestTypes
<1>6. ASSUME NEW b \in Actor, NEW t \in Slot
      PROVE  /\ b # a => req'[b] = req[b]
             /\ req'[b][t] = IF b = a /\ gone(t) THEN Null(i) ELSE req[b][t]
  BY <1>2 DEF RequestTypes
<1>7. \A b \in Actor, t \in Slot : req'[b][t] \in Addr => req'[b][t] = req[b][t] /\ ~(b = a /\ gone(t))
  BY <1>6, NullsDiffer
<1>8. ASSUME NEW b \in Actor, NEW t \in Slot, req[b][t] \in Addr, b # a \/ t \notin S
      PROVE  heap'[req[b][t]] = heap[req[b][t]]
  <2>1. req[b][t] \notin xs
    BY <1>8 DEF Exclusive
  <2> QED BY <2>1, <1>8, <1>3
<1>9. Exclusive'
  BY <1>7 DEF Exclusive
<1>10. Alive'
  <2> SUFFICES ASSUME NEW b \in Actor, NEW t \in Slot, req'[b][t] \in Addr
               PROVE  heap'[req'[b][t]] \in Object
    BY DEF Alive
  <2>1. req'[b][t] = req[b][t] /\ heap[req[b][t]] \in Object /\ ~(b = a /\ gone(t))
    BY <1>7 DEF Alive
  <2>2. CASE b # a \/ t \notin S
    BY <2>1, <2>2, <1>8
  <2>3. CASE b = a /\ t \in S
    BY <2>1, <2>3, <1>3
  <2> QED BY <2>2, <2>3
<1>11. doubtful' \subseteq Addr
  BY DEF Release, RequestTypes
<1>12. \A x \in Addr : heap'[x].impl # "none" => heap'[x].impl = heap[x].impl
  BY <1>3, FreeIsNoObject
<1>13. \A b \in Actor \ {a} : req'[b] = req[b]
  BY <1>2 DEF RequestTypes
<1>14. \A x \in Addr : heap[x] = Free => heap'[x] = Free
  BY <1>3
<1> HIDE DEF xs, Next1, gone
<1> QED BY <1>4, <1>5, <1>8, <1>9, <1>10, <1>11, <1>12, <1>13, <1>14

\* What the others are in does not depend on requests they do not hold.
LEMMA OthersKept ==
  ASSUME NEW a \in Actor, NEW b \in Actor, a # b, RequestInv,
         pc'[b] = pc[b], waiting'[b] = waiting[b], req'[b] = req[b],
         \A t \in Slot : req[b][t] \in Addr =>
            heap'[req[b][t]] = heap[req[b][t]]
  PROVE  CallOK(b)' /\ Stored(b)'
<1>1. CallOK(b) /\ Stored(b) /\ waiting[b] \in Waiting
  BY DEF RequestInv, RequestTypes
<1>2. CallOK(b)'
  <2>1. ASSUME NEW s \in waiting[b].slots, NEW i \in Impl, Knows(i, req[b][s])
        PROVE  Knows(i, req[b][s])'
    <3>1. s \in Slot
      BY <1>1 DEF Waiting
    <3> QED BY <2>1, <3>1 DEF Knows
  <2> QED BY <1>1, <2>1 DEF CallOK
<1>3. Stored(b)'
  <2> SUFFICES ASSUME waiting[b].call = "store", NEW x \in waiting[b].addrs
               PROVE  heap'[x].impl = "smpi" /\ \E s \in Slot : req[b][s] = x
    BY DEF Stored
  <2>1. PICK s \in Slot : req[b][s] = x /\ heap[x].impl = "smpi"
    BY <1>1 DEF Stored
  <2>2. x \in Addr
    BY <1>1 DEF Waiting
  <2> QED BY <2>1, <2>2
<1> QED BY <1>2, <1>3

LEMMA PlaceRequests ==
  ASSUME RequestInv, PlaceStep PROVE RequestInv'
<1>1. PICK a \in Actor, p \in {"loaded", "run", "barrier", "finalized"} :
        /\ pc[a] \notin {"wait", "late"} /\ (pc[a] = "load" => SetOps(a))
        /\ pc' = [pc EXCEPT ![a] = p]
        /\ UNCHANGED <<waiting, requestVars>>
  BY DEF PlaceStep
<1>2. RequestTypes' /\ Exclusive' /\ Alive'
  BY <1>1 DEF RequestInv, RequestTypes, Exclusive, Alive, requestVars, PC
<1>3. ASSUME NEW b \in Actor PROVE CallOK(b)' /\ Stored(b)'
  <2>1. pc'[b] = (IF b = a THEN p ELSE pc[b]) /\ CallOK(b) /\ Stored(b)
    BY <1>1 DEF RequestInv, RequestTypes
  <2>2. CallOK(b)'
    BY <1>1, <2>1 DEF CallOK, Knows, requestVars
  <2>3. Stored(b)'
    BY <1>1, <2>1 DEF Stored, requestVars
  <2> QED BY <2>2, <2>3
<1> QED BY <1>2, <1>3 DEF RequestInv

LEMMA StateRequests ==
  ASSUME RequestInv, StateStep PROVE RequestInv'
<1>1. PICK x \in Addr, c \in {"active", "done"} :
        /\ heap[x] \in Object
        /\ heap' = [heap EXCEPT ![x].state = c]
        /\ UNCHANGED <<pc, waiting, req, smpiRequests, doubtful>>
  BY DEF StateStep
<1>2. heap' \in [Addr -> Object \cup {Free}]
  BY <1>1 DEF RequestInv, RequestTypes, Object
<1>3. ASSUME NEW y \in Addr
      PROVE  /\ heap'[y].impl = heap[y].impl /\ heap'[y].persistent = heap[y].persistent
             /\ heap[y] \in Object => heap'[y] \in Object
  BY <1>1 DEF RequestInv, RequestTypes, Object
<1>4. RequestTypes' /\ Exclusive' /\ Alive'
  <2>1. RequestTypes' /\ Exclusive'
    BY <1>1, <1>2 DEF RequestInv, RequestTypes, Exclusive
  <2>2. Alive'
    BY <1>1, <1>3 DEF RequestInv, RequestTypes, Alive
  <2> QED BY <2>1, <2>2
<1>5. ASSUME NEW b \in Actor PROVE CallOK(b)' /\ Stored(b)'
  <2>1. CallOK(b) /\ Stored(b) /\ waiting[b].addrs \subseteq Addr
    BY DEF RequestInv, RequestTypes, Waiting
  <2> QED BY <1>1, <1>3, <2>1 DEF CallOK, Stored, Knows
<1> QED BY <1>4, <1>5 DEF RequestInv

\* Suspend, or the call goes on
LEMMA Suspends ==
  ASSUME RequestTypes, NEW a \in Actor, NEW c \in {"store", "erase"}, NEW xs \in SUBSET Addr,
         Suspend(a, c, xs)
  PROVE  /\ pc' \in [Actor -> PC] /\ waiting' \in [Actor -> Waiting]
         /\ \A b \in Actor \ {a} : pc'[b] = pc[b] /\ waiting'[b] = waiting[b]
         /\ xs = {} => pc'[a] = pc[a] /\ waiting'[a] = waiting[a]
         /\ xs # {} => /\ pc'[a] = "late" /\ waiting'[a].call = c /\ waiting'[a].slots = {}
                       /\ waiting'[a].addrs = xs
<1>1. CASE xs = {}
  BY <1>1 DEF Suspend, RequestTypes
<1>2. CASE xs # {}
  <2> DEFINE w == [NoCall EXCEPT !.call = c, !.addrs = xs]
  <2>1. w \in Waiting /\ w.call = c /\ w.slots = {} /\ w.addrs = xs
    BY DEF Waiting, NoCall
  <2>2. pc' = [pc EXCEPT ![a] = "late"] /\ waiting' = [waiting EXCEPT ![a] = w]
    BY <1>2 DEF Suspend
  <2> HIDE DEF w
  <2> QED BY <1>2, <2>1, <2>2 DEF RequestTypes, PC
<1> QED BY <1>1, <1>2

LEMMA AllocRequests ==
  ASSUME RequestInv, AllocStep PROVE RequestInv'
<1>1. PICK a \in Actor, s \in Slot, i \in Impl, p \in BOOLEAN, x \in Addr :
        /\ pc[a] = "run" /\ req[a][s] \in Nulls
        /\ Allocate(i, x, p)
        /\ req' = [req EXCEPT ![a][s] = x]
        /\ Suspend(a, "store", IF i = "smpi" THEN {x} ELSE {})
        /\ UNCHANGED smpiRequests
  BY DEF AllocStep
<1> DEFINE o  == [impl |-> i, persistent |-> p, state |-> IF p THEN "inactive" ELSE "active"]
           xs == IF i = "smpi" THEN {x} ELSE {}
<1>2. heap[x] = Free /\ heap' = [heap EXCEPT ![x] = o] /\ doubtful' \subseteq doubtful \cup {x}
  BY <1>1 DEF Allocate
<1>3. o \in Object /\ o.impl = i /\ o.persistent = p
  BY DEF Object
<1>4. xs \in SUBSET Addr /\ (x \in xs <=> i = "smpi") /\ \A y \in xs : y = x
  OBVIOUS
<1> HIDE DEF o
<1>5. RequestTypes /\ Exclusive /\ Alive
  BY DEF RequestInv
<1>6. /\ heap' \in [Addr -> Object \cup {Free}] /\ heap'[x] = o
      /\ \A y \in Addr : y # x => heap'[y] = heap[y]
  BY <1>2, <1>3, <1>5 DEF RequestTypes
<1>7. /\ req' \in [Actor -> [Slot -> Nulls \cup Addr]]
      /\ \A b \in Actor \ {a} : req'[b] = req[b]
      /\ \A b \in Actor, t \in Slot : req'[b][t] = IF b = a /\ t = s THEN x ELSE req[b][t]
  BY <1>1, <1>5 DEF RequestTypes
<1>8. \A b \in Actor, t \in Slot : req[b][t] # x
  BY <1>2, <1>5, FreeIsNoObject DEF Alive
<1>9. Suspend(a, "store", xs)
  BY <1>1
<1> HIDE DEF xs
<1>10. /\ pc' \in [Actor -> PC] /\ waiting' \in [Actor -> Waiting]
       /\ \A b \in Actor \ {a} : pc'[b] = pc[b] /\ waiting'[b] = waiting[b]
       /\ xs = {} => pc'[a] = pc[a] /\ waiting'[a] = waiting[a]
       /\ xs # {} => /\ pc'[a] = "late" /\ waiting'[a].call = "store" /\ waiting'[a].slots = {}
                     /\ waiting'[a].addrs = xs
  BY <1>4, <1>5, <1>9, Suspends
<1>11. RequestTypes'
  BY <1>1, <1>2, <1>5, <1>6, <1>7, <1>10 DEF RequestTypes
<1>12. Exclusive'
  BY <1>5, <1>7, <1>8 DEF Exclusive
<1>13. Alive'
  BY <1>3, <1>5, <1>6, <1>7, <1>8 DEF Alive
<1>15. ASSUME NEW b \in Actor PROVE CallOK(b)' /\ Stored(b)'
  <2>1. CASE b # a
    BY <1>6, <1>7, <1>8, <1>10, <2>1, OthersKept
  <2>2. CASE b = a /\ xs = {}
    <3>1. waiting[a] = NoCall
      BY <1>1 DEF RequestInv, CallOK
    <3> QED BY <1>1, <1>10, <2>2, <3>1, NoCallWaits DEF CallOK, Stored
  <2>3. CASE b = a /\ xs # {}
    <3>1. CallOK(b)'
      BY <1>10, <2>3 DEF CallOK
    <3>2. Stored(b)'
      BY <1>3, <1>4, <1>6, <1>7, <1>10, <2>3 DEF Stored
    <3> QED BY <3>1, <3>2
  <2> QED BY <2>1, <2>2, <2>3
<1> QED BY <1>11, <1>12, <1>13, <1>15 DEF RequestInv

LEMMA TestRequests ==
  ASSUME RequestInv, TestStep PROVE RequestInv'
<1>1. PICK a \in Actor, S \in SUBSET Slot, i \in Impl, xs \in SUBSET Addr :
        /\ pc[a] = "run" /\ Release(a, S, i) /\ Suspend(a, "erase", xs)
        /\ UNCHANGED smpiRequests
  BY DEF TestStep
<1>2. RequestTypes /\ Exclusive /\ Alive
  BY DEF RequestInv
<1>3. /\ heap' \in [Addr -> Object \cup {Free}]
      /\ req' \in [Actor -> [Slot -> Nulls \cup Addr]]
      /\ doubtful' \subseteq Addr
      /\ Exclusive' /\ Alive'
      /\ \A b \in Actor \ {a} : req'[b] = req[b]
      /\ \A b \in Actor \ {a}, t \in Slot :
           req[b][t] \in Addr => heap'[req[b][t]] = heap[req[b][t]]
  BY <1>1, <1>2, ReleaseKeeps
<1>4. /\ pc' \in [Actor -> PC] /\ waiting' \in [Actor -> Waiting]
      /\ \A b \in Actor \ {a} : pc'[b] = pc[b] /\ waiting'[b] = waiting[b]
      /\ xs = {} => pc'[a] = pc[a] /\ waiting'[a] = waiting[a]
      /\ xs # {} => pc'[a] = "late" /\ waiting'[a].call = "erase" /\ waiting'[a].slots = {}
  BY <1>1, <1>2, Suspends
<1>5. RequestTypes'
  BY <1>1, <1>2, <1>3, <1>4 DEF RequestTypes
<1>6. ASSUME NEW b \in Actor PROVE CallOK(b)' /\ Stored(b)'
  <2>1. CASE b # a
    BY <1>3, <1>4, <2>1, OthersKept
  <2>2. CASE b = a /\ xs = {}
    <3>1. waiting[a] = NoCall
      BY <1>1 DEF RequestInv, CallOK
    <3> QED BY <1>1, <1>4, <2>2, <3>1, NoCallWaits DEF CallOK, Stored
  <2>3. CASE b = a /\ xs # {}
    BY <1>4, <2>3 DEF CallOK, Stored
  <2> QED BY <2>1, <2>2, <2>3
<1> QED BY <1>3, <1>5, <1>6 DEF RequestInv

LEMMA BlockRequests ==
  ASSUME RequestInv, BlockStep PROVE RequestInv'
<1>1. PICK a \in Actor, S \in SUBSET Slot, i \in Impl, c \in WaitCalls \cap Calls :
        /\ pc[a] = "run"
        /\ \A s \in S : Knows(i, req[a][s])
        /\ pc' = [pc EXCEPT ![a] = "wait"]
        /\ waiting' = [waiting EXCEPT ![a] = [call |-> c, impl |-> i, slots |-> S, addrs |-> {}]]
        /\ smpiRequests' \subseteq smpiRequests
        /\ UNCHANGED <<req, heap, doubtful>>
  BY DEF BlockStep
<1> DEFINE w == [call |-> c, impl |-> i, slots |-> S, addrs |-> {}]
<1>2. w \in Waiting /\ w.call = c /\ w.impl = i /\ w.slots = S /\ w.addrs = {}
  BY DEF Waiting
<1>3. RequestTypes /\ Exclusive /\ Alive
  BY DEF RequestInv
<1>4. waiting' = [waiting EXCEPT ![a] = w]
  BY <1>1
<1> HIDE DEF w
<1>5. /\ pc' \in [Actor -> PC] /\ waiting' \in [Actor -> Waiting]
      /\ pc'[a] = "wait" /\ waiting'[a] = w
      /\ \A b \in Actor \ {a} : pc'[b] = pc[b] /\ waiting'[b] = waiting[b]
  BY <1>1, <1>2, <1>3, <1>4 DEF RequestTypes, PC
<1>6. RequestTypes' /\ Exclusive' /\ Alive'
  BY <1>1, <1>3, <1>5 DEF RequestTypes, Exclusive, Alive
<1>7. ASSUME NEW b \in Actor PROVE CallOK(b)' /\ Stored(b)'
  <2>1. CASE b # a
    BY <1>1, <1>5, <2>1, OthersKept
  <2>2. CASE b = a
    <3>1. CallOK(b)'
      BY <1>1, <1>2, <1>5, <2>2 DEF CallOK, Knows
    <3>2. Stored(b)'
      BY <1>1, <1>2, <1>5, <2>2 DEF Stored, WaitCalls
    <3> QED BY <3>1, <3>2
  <2> QED BY <2>1, <2>2
<1> QED BY <1>6, <1>7 DEF RequestInv

LEMMA FreeRequests ==
  ASSUME RequestInv, FreeStep PROVE RequestInv'
<1>1. PICK a \in Actor, s \in Slot, i \in Impl :
        /\ pc[a] = "run" /\ req[a][s] \in Addr
        /\ heap' = [heap EXCEPT ![req[a][s]] = Free]
        /\ req' = [req EXCEPT ![a][s] = Null(i)]
        /\ doubtful' = doubtful \ {req[a][s]}
        /\ UNCHANGED <<pc, waiting, smpiRequests>>
  BY DEF FreeStep
<1>2. RequestTypes /\ Exclusive /\ Alive
  BY DEF RequestInv
<1>3. PICK x \in Addr : x = req[a][s]
  BY <1>1
<1>4. /\ heap' \in [Addr -> Object \cup {Free}] /\ heap'[x] = Free
      /\ \A y \in Addr : y # x => heap'[y] = heap[y]
  BY <1>1, <1>2, <1>3 DEF RequestTypes
<1>5. /\ req' \in [Actor -> [Slot -> Nulls \cup Addr]]
      /\ \A b \in Actor \ {a} : req'[b] = req[b]
      /\ \A b \in Actor, t \in Slot : req'[b][t] = IF b = a /\ t = s THEN Null(i) ELSE req[b][t]
  BY <1>1, <1>2, NullsDiffer DEF RequestTypes
<1>6. \A b \in Actor, t \in Slot : req[b][t] = x => b = a /\ t = s
  BY <1>2, <1>3 DEF Exclusive
<1>7. RequestTypes'
  BY <1>1, <1>2, <1>4, <1>5 DEF RequestTypes
<1>8. Exclusive'
  BY <1>2, <1>5, NullsDiffer DEF Exclusive
<1>9. Alive'
  BY <1>2, <1>4, <1>5, <1>6, NullsDiffer DEF Alive
<1>11. ASSUME NEW b \in Actor PROVE CallOK(b)' /\ Stored(b)'
  <2>1. CASE b # a
    BY <1>1, <1>4, <1>5, <1>6, <2>1, OthersKept
  <2>2. CASE b = a
    <3>1. waiting[a] = NoCall
      BY <1>1 DEF RequestInv, CallOK
    <3> QED BY <1>1, <2>2, <3>1, NoCallWaits DEF CallOK, Stored
  <2> QED BY <2>1, <2>2
<1> QED BY <1>7, <1>8, <1>9, <1>11 DEF RequestInv

\* What a blocked call completes
LEMMA CompletedSlots ==
  ASSUME RequestTypes, NEW a \in Actor, NEW S \in Completed(waiting[a], a)
  PROVE  /\ S \subseteq waiting[a].slots /\ S \in SUBSET Slot
         /\ waiting[a].call \in {"Wait", "Waitall"} => S = waiting[a].slots
         /\ waiting[a].call \in {"Waitany", "Waitsome"} => \A s \in S : req[a][s] \in Addr
<1>1. waiting[a].slots \in SUBSET Slot
  BY DEF RequestTypes, Waiting
<1> QED BY <1>1 DEF Completed, IsActive

LEMMA WaitEndRequests ==
  ASSUME RequestInv, NEW a \in Actor, WaitEnd(a) PROVE RequestInv'
<1>1. RequestTypes /\ Exclusive /\ Alive /\ CallOK(a)
  BY DEF RequestInv
<1>2. PICK S \in Completed(waiting[a], a) :
        Release(a, S, waiting[a].impl)
  BY DEF WaitEnd
<1>3. /\ pc[a] = "wait" /\ pc' = [pc EXCEPT ![a] = "run"]
      /\ waiting' = [waiting EXCEPT ![a] = NoCall] /\ UNCHANGED smpiRequests
  BY DEF WaitEnd
<1>4. waiting[a].impl \in Impl
  BY <1>1, <1>3 DEF CallOK
<1>5. S \in SUBSET Slot
  BY <1>1, <1>2, CompletedSlots
<1>6. /\ heap' \in [Addr -> Object \cup {Free}]
      /\ req' \in [Actor -> [Slot -> Nulls \cup Addr]]
      /\ doubtful' \subseteq Addr
      /\ Exclusive' /\ Alive'
      /\ \A b \in Actor \ {a} : req'[b] = req[b]
      /\ \A b \in Actor \ {a}, t \in Slot :
           req[b][t] \in Addr => heap'[req[b][t]] = heap[req[b][t]]
  BY <1>1, <1>2, <1>4, <1>5, ReleaseKeeps
<1>7. /\ pc' \in [Actor -> PC] /\ waiting' \in [Actor -> Waiting]
      /\ pc'[a] = "run" /\ waiting'[a] = NoCall
      /\ \A b \in Actor \ {a} : pc'[b] = pc[b] /\ waiting'[b] = waiting[b]
  BY <1>1, <1>3, NoCallWaits DEF RequestTypes, PC
<1>8. RequestTypes'
  BY <1>1, <1>3, <1>5, <1>6, <1>7 DEF RequestTypes
<1>9. ASSUME NEW b \in Actor PROVE CallOK(b)' /\ Stored(b)'
  <2>1. CASE b # a
    BY <1>6, <1>7, <2>1, OthersKept
  <2>2. CASE b = a
    BY <1>7, <2>2, NoCallWaits DEF CallOK, Stored
  <2> QED BY <2>1, <2>2
<1> QED BY <1>6, <1>8, <1>9 DEF RequestInv

LEMMA LateRequests ==
  ASSUME RequestInv, NEW a \in Actor, Late(a) PROVE RequestInv'
<1>1. RequestTypes /\ Exclusive /\ Alive
  BY DEF RequestInv
<1>2. /\ pc' = [pc EXCEPT ![a] = "run"] /\ waiting' = [waiting EXCEPT ![a] = NoCall]
      /\ smpiRequests' \subseteq smpiRequests \cup waiting[a].addrs
      /\ UNCHANGED <<req, heap, doubtful>>
  BY DEF Late
<1>3. waiting[a].addrs \subseteq Addr
  BY <1>1 DEF RequestTypes, Waiting
<1>4. /\ pc' \in [Actor -> PC] /\ waiting' \in [Actor -> Waiting]
      /\ pc'[a] = "run" /\ waiting'[a] = NoCall
      /\ \A b \in Actor \ {a} : pc'[b] = pc[b] /\ waiting'[b] = waiting[b]
  BY <1>1, <1>2, NoCallWaits DEF RequestTypes, PC
<1>5. RequestTypes' /\ Exclusive' /\ Alive'
  BY <1>1, <1>2, <1>3, <1>4 DEF RequestTypes, Exclusive, Alive
<1>6. ASSUME NEW b \in Actor PROVE CallOK(b)' /\ Stored(b)'
  <2>1. CASE b # a
    BY <1>2, <1>4, <2>1, OthersKept
  <2>2. CASE b = a
    BY <1>4, <2>2, NoCallWaits DEF CallOK, Stored
  <2> QED BY <2>1, <2>2
<1> QED BY <1>5, <1>6 DEF RequestInv

LEMMA RequestsKept ==
  ASSUME RequestInv, RequestStep PROVE RequestInv'
<1>1. CASE UNCHANGED reqVars
  BY <1>1 DEF RequestInv, RequestTypes, Exclusive, Alive, CallOK, Stored, Knows,
              reqVars, requestVars
<1> QED BY <1>1, PlaceRequests, StateRequests, AllocRequests, TestRequests, BlockRequests,
           FreeRequests, WaitEndRequests, LateRequests DEF RequestStep

-----------------------------------------------------------------------------
(***************************************************************************)
(* TrackInv: smpi_requests and the live SMPI requests.                     *)
(***************************************************************************)
LEMMA PendingIs ==
  ASSUME NEW c, NEW x
  PROVE  /\ x \in Pending(c) <=> \E a \in Actor : waiting[a].call = c /\ x \in waiting[a].addrs
         /\ x \in Pending(c)' <=> \E a \in Actor : waiting'[a].call = c /\ x \in waiting'[a].addrs
BY DEF Pending

LEMMA ForgottenIs ==
  ASSUME NEW x
  PROVE  /\ x \in Forgotten <=> \E a \in Actor : /\ waiting[a].call \in {"Wait", "Waitall"}
                                                 /\ \E s \in waiting[a].slots : req[a][s] = x
         /\ x \in Forgotten' <=> \E a \in Actor : /\ waiting'[a].call \in {"Wait", "Waitall"}
                                                  /\ \E s \in waiting'[a].slots : req'[a][s] = x
BY DEF Forgotten

\* RightlyTracked, spelled out for one address
Known(x) ==
  \/ x \in smpiRequests
  \/ \E a \in Actor : waiting[a].call = "store" /\ x \in waiting[a].addrs
  \/ \E a \in Actor : /\ waiting[a].call \in {"Wait", "Waitall"}
                      /\ \E s \in waiting[a].slots : req[a][s] = x

LEMMA TrackingIs ==
  /\ RightlyTracked <=> \A x \in Addr : x \notin doubtful =>
                          /\ heap[x].impl = "smpi" => Known(x)
                          /\ heap[x].impl = "bull" => x \notin smpiRequests
  /\ RightlyTracked' <=> \A x \in Addr : x \notin doubtful' =>
                           /\ heap'[x].impl = "smpi" => Known(x)'
                           /\ heap'[x].impl = "bull" => x \notin smpiRequests'
<1>1. \A x : /\ Known(x) <=> x \in smpiRequests \cup Pending("store") \cup Forgotten
             /\ Known(x)' <=> x \in smpiRequests' \cup Pending("store")' \cup Forgotten'
  BY PendingIs, ForgottenIs DEF Known
<1> QED BY <1>1 DEF RightlyTracked

\* What an application that is in no call is not doing
LEMMA RunsFree ==
  ASSUME RequestInv, NEW a \in Actor, pc[a] = "run"
  PROVE  waiting[a].call = "none"
<1>1. waiting[a] = NoCall
  BY DEF RequestInv, CallOK
<1> QED BY <1>1, NoCallWaits

LEMMA ReleaseFrees ==
  ASSUME RequestTypes, NEW a \in Actor, NEW S \in SUBSET Slot, NEW i \in Impl, Release(a, S, i),
         NEW x \in Addr
  PROVE  /\ heap'[x] = heap[x] \/ \E s \in S : req[a][s] = x
         /\ \A s \in S : req[a][s] = x /\ ~heap[x].persistent => heap'[x] = Free
         /\ \A s \in S : req[a][s] = x /\ heap[x].persistent /\ heap[x].impl = "smpi" => x \in doubtful'
         /\ x \in doubtful => x \in doubtful' \/ heap'[x] = Free
BY DEF Release

LEMMA SameTrack ==
  ASSUME TrackInv, UNCHANGED <<waiting, requestVars>>
  PROVE  TrackInv'
BY DEF TrackInv, RightlyTracked, Pending, Forgotten, Erased, requestVars

LEMMA StateTrack ==
  ASSUME RequestInv, TrackInv, StateStep PROVE TrackInv'
<1>1. PICK x \in Addr, c \in {"active", "done"} :
        /\ heap[x] \in Object
        /\ heap' = [heap EXCEPT ![x].state = c]
        /\ UNCHANGED <<pc, waiting, req, smpiRequests, doubtful>>
  BY DEF StateStep
<1>2. ASSUME NEW y \in Addr
      PROVE  heap'[y].impl = heap[y].impl /\ (heap[y] = Free => heap'[y] = Free)
  BY <1>1, FreeIsNoObject DEF RequestInv, RequestTypes, Object
<1>3. RightlyTracked'
  BY <1>1, <1>2 DEF TrackInv, RightlyTracked, Pending, Forgotten
<1>4. ASSUME NEW b \in Actor PROVE Erased(b)'
  <2>1. waiting[b].addrs \subseteq Addr /\ Erased(b)
    BY DEF TrackInv, RequestInv, RequestTypes, Waiting
  <2> QED BY <1>1, <1>2, <2>1 DEF Erased
<1> QED BY <1>3, <1>4 DEF TrackInv

LEMMA AllocTrack ==
  ASSUME RequestInv, TrackInv, AllocStep PROVE TrackInv'
<1>1. PICK a \in Actor, s \in Slot, i \in Impl, p \in BOOLEAN, x \in Addr :
        /\ pc[a] = "run" /\ req[a][s] \in Nulls
        /\ Allocate(i, x, p)
        /\ req' = [req EXCEPT ![a][s] = x]
        /\ Suspend(a, "store", IF i = "smpi" THEN {x} ELSE {})
        /\ UNCHANGED smpiRequests
  BY DEF AllocStep
<1> DEFINE xs == IF i = "smpi" THEN {x} ELSE {}
<1>2. RequestTypes /\ xs \in SUBSET Addr /\ (i = "smpi" => x \in xs) /\ Suspend(a, "store", xs)
  BY <1>1 DEF RequestInv
<1> HIDE DEF xs
<1>3. /\ \A b \in Actor \ {a} : waiting'[b] = waiting[b]
      /\ xs = {} => waiting'[a] = waiting[a]
      /\ xs # {} => waiting'[a].call = "store" /\ waiting'[a].slots = {} /\ waiting'[a].addrs = xs
  BY <1>2, Suspends
<1>4. waiting[a].call = "none"
  BY <1>1, RunsFree
<1>5. \A b \in Actor \ {a} : req'[b] = req[b]
  BY <1>1, <1>2 DEF RequestTypes
<1>6. /\ heap'[x].impl = i
      /\ \A y \in Addr : y # x => heap'[y] = heap[y]
  BY <1>1, <1>2 DEF Allocate, RequestTypes
<1>7. /\ x \in smpiRequests \/ x \in Pending("erase") => x \in doubtful'
      /\ \A y : y # x => (y \in doubtful' <=> y \in doubtful)
  BY <1>1 DEF Allocate
<1>8. ASSUME NEW y \in Addr, y \notin doubtful'
      PROVE  /\ heap'[y].impl = "smpi" => Known(y)'
             /\ heap'[y].impl = "bull" => y \notin smpiRequests'
  <2>1. CASE y = x
    BY <1>1, <1>2, <1>3, <1>6, <1>7, <1>8, <2>1 DEF Known
  <2>2. CASE y # x
    <3>1. /\ heap'[y].impl = "smpi" => Known(y)
          /\ heap'[y].impl = "bull" => y \notin smpiRequests
      BY <1>6, <1>7, <1>8, <2>2, TrackingIs DEF TrackInv
    <3>2. Known(y) => Known(y)'
      BY <1>1, <1>3, <1>4, <1>5 DEF Known
    <3> QED BY <1>1, <3>1, <3>2
  <2> QED BY <2>1, <2>2
<1>9. RightlyTracked'
  BY <1>8, TrackingIs
<1>10. ASSUME NEW b \in Actor PROVE Erased(b)'
  <2>1. waiting[b].addrs \subseteq Addr /\ Erased(b)
    BY DEF TrackInv, RequestInv, RequestTypes, Waiting
  <2>2. CASE b # a
    <3> SUFFICES ASSUME waiting[b].call = "erase", NEW y \in waiting[b].addrs
                 PROVE  heap'[y] = Free \/ y \in doubtful'
      BY <1>3, <2>2 DEF Erased
    <3>1. y \in Pending("erase")
      BY PendingIs
    <3>2. CASE y = x
      BY <1>7, <3>1, <3>2
    <3>3. CASE y # x
      BY <1>6, <1>7, <2>1, <3>3 DEF Erased
    <3> QED BY <3>2, <3>3
  <2>3. CASE b = a
    BY <1>3, <1>4, <2>3 DEF Erased
  <2> QED BY <2>2, <2>3
<1> QED BY <1>9, <1>10 DEF TrackInv

LEMMA TestTrack ==
  ASSUME RequestInv, TrackInv, TestStep PROVE TrackInv'
<1>1. PICK a \in Actor, S \in SUBSET Slot, i \in Impl, xs \in SUBSET Addr :
        /\ pc[a] = "run"
        /\ \A s \in S : Knows(i, req[a][s])
        /\ Release(a, S, i)
        /\ Suspend(a, "erase", xs)
        /\ xs \subseteq {req[a][s] : s \in S} /\ (xs # {} => i = "smpi")
        /\ UNCHANGED smpiRequests
  BY DEF TestStep
<1>2. RequestTypes /\ Exclusive /\ Alive
  BY DEF RequestInv
<1>3. /\ \A b \in Actor \ {a} : waiting'[b] = waiting[b]
      /\ xs = {} => waiting'[a] = waiting[a]
      /\ xs # {} => waiting'[a].call = "erase" /\ waiting'[a].slots = {} /\ waiting'[a].addrs = xs
  BY <1>1, <1>2, Suspends
<1>4. waiting[a].call = "none"
  BY <1>1, RunsFree
<1>5. /\ \A b \in Actor \ {a} : req'[b] = req[b]
      /\ \A x \in Addr : heap'[x].impl # "none" => heap'[x].impl = heap[x].impl
      /\ \A x \in Addr : heap[x] = Free => heap'[x] = Free
  BY <1>1, <1>2, ReleaseKeeps
<1>6. \A x \in Addr : x \in doubtful => x \in doubtful' \/ heap'[x] = Free
  BY <1>1, <1>2, ReleaseFrees
<1>7. ASSUME NEW y \in Addr, y \notin doubtful'
      PROVE  /\ heap'[y].impl = "smpi" => Known(y)'
             /\ heap'[y].impl = "bull" => y \notin smpiRequests'
  <2>1. heap'[y].impl # "none" => y \notin doubtful /\ heap'[y].impl = heap[y].impl
    BY <1>5, <1>6, <1>7, FreeIsNoObject
  <2>2. /\ heap'[y].impl = "smpi" => Known(y)
        /\ heap'[y].impl = "bull" => y \notin smpiRequests
    BY <2>1, TrackingIs DEF TrackInv
  <2>3. Known(y) => Known(y)'
    BY <1>1, <1>3, <1>4, <1>5 DEF Known
  <2> QED BY <1>1, <2>2, <2>3
<1>8. RightlyTracked'
  BY <1>7, TrackingIs
<1>9. ASSUME NEW b \in Actor PROVE Erased(b)'
  <2>1. waiting[b].addrs \subseteq Addr /\ Erased(b)
    BY DEF TrackInv, RequestInv, RequestTypes, Waiting
  <2>2. CASE b # a
    BY <1>3, <1>5, <1>6, <2>1, <2>2 DEF Erased
  <2>3. CASE b = a /\ xs = {}
    BY <1>3, <1>4, <2>3 DEF Erased
  <2>4. CASE b = a /\ xs # {}
    <3>1. ASSUME NEW x \in xs PROVE heap'[x] = Free \/ x \in doubtful'
      <4>1. PICK s \in S : req[a][s] = x
        BY <1>1
      <4>2. heap[x].impl = "smpi"
        BY <1>1, <2>4, <4>1 DEF Knows
      <4> QED BY <1>1, <1>2, <4>1, <4>2, ReleaseFrees
    <3> QED BY <1>3, <2>4, <3>1 DEF Erased
  <2> QED BY <2>2, <2>3, <2>4
<1> QED BY <1>8, <1>9 DEF TrackInv

LEMMA BlockTrack ==
  ASSUME RequestInv, TrackInv, BlockStep PROVE TrackInv'
<1>1. PICK a \in Actor, S \in SUBSET Slot, i \in Impl, c \in WaitCalls \cap Calls :
        /\ pc[a] = "run"
        /\ waiting' = [waiting EXCEPT ![a] = [call |-> c, impl |-> i, slots |-> S, addrs |-> {}]]
        /\ smpiRequests' = smpiRequests \ (IF c \in {"Wait", "Waitall"} THEN {req[a][s] : s \in S} ELSE {})
        /\ UNCHANGED <<req, heap, doubtful>>
  BY DEF BlockStep
<1>2. RequestTypes /\ waiting[a].call = "none"
  BY <1>1, RunsFree DEF RequestInv
<1>3. /\ \A b \in Actor \ {a} : waiting'[b] = waiting[b]
      /\ waiting'[a].call = c /\ waiting'[a].slots = S
  BY <1>1, <1>2 DEF RequestTypes
<1>4. /\ c \in {"Wait", "Waitall"} => smpiRequests' = smpiRequests \ {req[a][s] : s \in S}
      /\ c \notin {"Wait", "Waitall"} => smpiRequests' = smpiRequests
      /\ c \notin {"store", "erase"}
  BY <1>1 DEF WaitCalls
<1>5. ASSUME NEW y, Known(y) PROVE Known(y)'
  <2>1. CASE y \in smpiRequests
    BY <1>1, <1>3, <1>4, <2>1 DEF Known
  <2>2. CASE y \notin smpiRequests
    BY <1>1, <1>2, <1>3, <1>5, <2>2 DEF Known
  <2> QED BY <2>1, <2>2
<1>6. RightlyTracked'
  BY <1>1, <1>5, TrackingIs DEF TrackInv
<1>7. ASSUME NEW b \in Actor PROVE Erased(b)'
  <2>1. Erased(b)
    BY DEF TrackInv
  <2> QED BY <1>1, <1>3, <1>4, <2>1 DEF Erased
<1> QED BY <1>6, <1>7 DEF TrackInv

LEMMA FreeTrack ==
  ASSUME RequestInv, TrackInv, FreeStep PROVE TrackInv'
<1>1. PICK a \in Actor, s \in Slot, i \in Impl :
        /\ pc[a] = "run" /\ req[a][s] \in Addr
        /\ heap' = [heap EXCEPT ![req[a][s]] = Free]
        /\ req' = [req EXCEPT ![a][s] = Null(i)]
        /\ doubtful' = doubtful \ {req[a][s]}
        /\ UNCHANGED <<pc, waiting, smpiRequests>>
  BY DEF FreeStep
<1>2. RequestTypes /\ waiting[a].call = "none"
  BY <1>1, RunsFree DEF RequestInv
<1>3. PICK x \in Addr : x = req[a][s]
  BY <1>1
<1>4. /\ heap'[x] = Free
      /\ \A y \in Addr : y # x => heap'[y] = heap[y]
      /\ \A b \in Actor \ {a} : req'[b] = req[b]
  BY <1>1, <1>2, <1>3 DEF RequestTypes
<1>5. \A y : y # x => (y \in doubtful' <=> y \in doubtful)
  BY <1>1, <1>3
<1>6. ASSUME NEW y \in Addr, y \notin doubtful'
      PROVE  /\ heap'[y].impl = "smpi" => Known(y)'
             /\ heap'[y].impl = "bull" => y \notin smpiRequests'
  <2>1. CASE y = x
    BY <1>4, <2>1, FreeIsNoObject
  <2>2. CASE y # x
    <3>1. /\ heap'[y].impl = "smpi" => Known(y)
          /\ heap'[y].impl = "bull" => y \notin smpiRequests
      BY <1>4, <1>5, <1>6, <2>2, TrackingIs DEF TrackInv
    <3>2. Known(y) => Known(y)'
      BY <1>1, <1>2, <1>4 DEF Known
    <3> QED BY <1>1, <3>1, <3>2
  <2> QED BY <2>1, <2>2
<1>7. RightlyTracked'
  BY <1>6, TrackingIs
<1>8. ASSUME NEW b \in Actor PROVE Erased(b)'
  <2>1. waiting[b].addrs \subseteq Addr /\ Erased(b)
    BY DEF TrackInv, RequestInv, RequestTypes, Waiting
  <2> QED BY <1>1, <1>4, <1>5, <2>1 DEF Erased
<1> QED BY <1>7, <1>8 DEF TrackInv

LEMMA WaitEndTrack ==
  ASSUME RequestInv, TrackInv, NEW a \in Actor, WaitEnd(a) PROVE TrackInv'
<1> DEFINE w == waiting[a]
<1>1. PICK S \in Completed(w, a) : Release(a, S, w.impl)
  BY DEF WaitEnd
<1>2. RequestTypes /\ Exclusive /\ Alive /\ CallOK(a)
  BY DEF RequestInv
<1>3. /\ pc[a] = "wait" /\ waiting' = [waiting EXCEPT ![a] = NoCall] /\ UNCHANGED smpiRequests
  BY DEF WaitEnd
<1>4. w.impl \in Impl /\ w.call \in WaitCalls
  BY <1>2, <1>3 DEF CallOK
<1>5. /\ S \subseteq w.slots /\ S \in SUBSET Slot
      /\ w.call \in {"Wait", "Waitall"} => S = w.slots
  BY <1>2, CompletedSlots
<1>6. /\ \A b \in Actor \ {a} : waiting'[b] = waiting[b]
      /\ waiting'[a].call = "none"
  BY <1>2, <1>3, NoCallWaits DEF RequestTypes
<1>7. /\ \A b \in Actor \ {a} : req'[b] = req[b]
      /\ \A x \in Addr : heap'[x].impl # "none" => heap'[x].impl = heap[x].impl
      /\ \A x \in Addr : heap[x] = Free => heap'[x] = Free
  BY <1>1, <1>2, <1>4, <1>5, ReleaseKeeps
<1>8. \A x \in Addr : x \in doubtful => x \in doubtful' \/ heap'[x] = Free
  BY <1>1, <1>2, <1>4, <1>5, ReleaseFrees
<1>9. ASSUME NEW y \in Addr, y \notin doubtful'
      PROVE  /\ heap'[y].impl = "smpi" => Known(y)'
             /\ heap'[y].impl = "bull" => y \notin smpiRequests'
  <2>1. heap'[y].impl # "none" => y \notin doubtful /\ heap'[y].impl = heap[y].impl
    BY <1>7, <1>8, <1>9, FreeIsNoObject
  <2>2. /\ heap'[y].impl = "smpi" => Known(y)
        /\ heap'[y].impl = "bull" => y \notin smpiRequests
    BY <2>1, TrackingIs DEF TrackInv
  <2>3. ASSUME heap'[y].impl = "smpi" PROVE Known(y)'
    <3>1. ~(w.call \in {"Wait", "Waitall"} /\ \E s \in w.slots : req[a][s] = y)
      <4> SUFFICES ASSUME w.call \in {"Wait", "Waitall"}, NEW s \in w.slots, req[a][s] = y
                   PROVE  FALSE
        OBVIOUS
      <4>1. s \in S /\ heap[y].impl = "smpi"
        BY <1>5, <2>1, <2>3
      <4>2. heap'[y] = Free \/ y \in doubtful'
        BY <1>1, <1>2, <1>4, <1>5, <4>1, ReleaseFrees
      <4> QED BY <1>9, <2>3, <4>2, FreeIsNoObject
    <3>2. w.call # "store"
      BY <1>4 DEF WaitCalls
    <3> QED BY <1>3, <1>6, <1>7, <2>2, <2>3, <3>1, <3>2 DEF Known
  <2> QED BY <1>3, <2>2, <2>3
<1>10. RightlyTracked'
  BY <1>9, TrackingIs
<1>11. ASSUME NEW b \in Actor PROVE Erased(b)'
  <2>1. waiting[b].addrs \subseteq Addr /\ Erased(b)
    BY DEF TrackInv, RequestInv, RequestTypes, Waiting
  <2>2. CASE b # a
    BY <1>6, <1>7, <1>8, <2>1, <2>2 DEF Erased
  <2>3. CASE b = a
    BY <1>6, <2>3 DEF Erased
  <2> QED BY <2>2, <2>3
<1> QED BY <1>10, <1>11 DEF TrackInv

LEMMA LateTrack ==
  ASSUME RequestInv, TrackInv, NEW a \in Actor, Late(a) PROVE TrackInv'
<1> DEFINE w == waiting[a]
<1>1. /\ pc[a] = "late" /\ waiting' = [waiting EXCEPT ![a] = NoCall]
      /\ smpiRequests' = IF w.call = "store" THEN smpiRequests \cup w.addrs
                         ELSE smpiRequests \ w.addrs
      /\ UNCHANGED <<req, heap, doubtful>>
  BY DEF Late
<1>2. /\ RequestTypes /\ CallOK(a) /\ Stored(a) /\ Erased(a)
      /\ w.call \in {"store", "erase"} /\ w.addrs \subseteq Addr
  BY <1>1 DEF RequestInv, TrackInv, CallOK, RequestTypes, Waiting
<1>3. /\ \A b \in Actor \ {a} : waiting'[b] = waiting[b]
      /\ waiting'[a].call = "none"
  BY <1>1, <1>2, NoCallWaits DEF RequestTypes
<1>4. ASSUME NEW y \in Addr, y \notin doubtful'
      PROVE  /\ heap'[y].impl = "smpi" => Known(y)'
             /\ heap'[y].impl = "bull" => y \notin smpiRequests'
  <2>1. /\ heap'[y].impl = "smpi" => Known(y)
        /\ heap'[y].impl = "bull" => y \notin smpiRequests
    BY <1>1, <1>4, TrackingIs DEF TrackInv
  <2>2. CASE w.call = "store"
    <3>1. y \in w.addrs => heap[y].impl = "smpi"
      BY <1>2, <2>2 DEF Stored
    <3>2. Known(y) => Known(y)'
      BY <1>1, <1>3, <2>2 DEF Known
    <3> QED BY <1>1, <2>1, <2>2, <3>1, <3>2
  <2>3. CASE w.call = "erase"
    <3>1. heap[y].impl = "smpi" => y \notin w.addrs
      BY <1>1, <1>2, <1>4, <2>3, FreeIsNoObject DEF Erased
    <3>2. Known(y) /\ y \notin w.addrs => Known(y)'
      BY <1>1, <1>3, <2>3 DEF Known
    <3> QED BY <1>1, <2>1, <2>3, <3>1, <3>2
  <2> QED BY <1>2, <2>2, <2>3
<1>5. RightlyTracked'
  BY <1>4, TrackingIs
<1>6. ASSUME NEW b \in Actor PROVE Erased(b)'
  <2>1. Erased(b)
    BY DEF TrackInv
  <2> QED BY <1>1, <1>3, <2>1 DEF Erased
<1> QED BY <1>5, <1>6 DEF TrackInv

LEMMA TrackKept ==
  ASSUME RequestInv, TrackInv, RequestStep PROVE TrackInv'
<1>1. CASE UNCHANGED reqVars \/ PlaceStep
  BY <1>1, SameTrack DEF reqVars, PlaceStep
<1> QED BY <1>1, StateTrack, AllocTrack, TestTrack, BlockTrack, FreeTrack, WaitEndTrack,
           LateTrack DEF RequestStep

-----------------------------------------------------------------------------
(***************************************************************************)
(* The other variables, and which call changes them.                       *)
(***************************************************************************)
EndStep == UNCHANGED endVars \/ (ended' = "undefined" /\ given' \subseteq Addr)

LEMMA UndefinedLeaves ==
  Ends => /\ UNCHANGED <<setupVars, useSmpi, switches, objectVars>>
          /\ ended' = "undefined" /\ given' \subseteq Addr
BY DEF Ends, Undefined

LEMMA RequestCallsLeave ==
  ASSUME NEW a \in Actor, RequestCall(a)
  PROVE  /\ UNCHANGED <<setupVars, useSmpi, switches, objectVars>>
         /\ EndStep
<1>1. CASE Ends
  BY <1>1, UndefinedLeaves DEF EndStep
<1>2. CASE ~Ends
  <2>1. ASSUME NEW s \in Slot,
               \/ Nonblocking(a, s) \/ NonblockingCollective(a, s) \/ InitPersistent(a, s)
        PROVE  UNCHANGED <<setupVars, useSmpi, switches, objectVars, endVars>>
    BY <2>1 DEF Nonblocking, NonblockingCollective, InitPersistent, NewRequest
  <2>2. ASSUME NEW s \in Slot, Start(a, s) \/ Test(a, s) \/ Cancel(a, s) \/ RequestFree(a, s)
        PROVE  UNCHANGED <<setupVars, useSmpi, switches, objectVars, endVars>>
    BY <1>2, <2>2 DEF Start, Test, Cancel, RequestFree, Ends
  <2>3. ASSUME NEW S \in Arrays, Testany(a, S) \/ Testall(a, S)
        PROVE  UNCHANGED <<setupVars, useSmpi, switches, objectVars, endVars>>
    BY <1>2, <2>3 DEF Testany, Testall, Ends
  <2>4. ASSUME NEW c, NEW i, NEW S, Block(a, c, i, S)
        PROVE  UNCHANGED <<setupVars, useSmpi, switches, objectVars, endVars>>
    BY <1>2, <2>4 DEF Block, Ends
  <2>5. ASSUME NEW s \in Slot, Wait(a, s)
        PROVE  UNCHANGED <<setupVars, useSmpi, switches, objectVars, endVars>>
    BY <2>4, <2>5 DEF Wait
  <2>6. ASSUME NEW S \in Arrays, Waitany(a, S) \/ Waitall(a, S) \/ Waitsome(a, S)
        PROVE  UNCHANGED <<setupVars, useSmpi, switches, objectVars, endVars>>
    BY <2>4, <2>6 DEF Waitany, Waitall, Waitsome
  <2>7. CASE WaitEnd(a) \/ Late(a)
    BY <2>7 DEF WaitEnd, Late, EndStep
  <2> QED BY <2>1, <2>2, <2>3, <2>5, <2>6, <2>7 DEF RequestCall, EndStep
<1> QED BY <1>1, <1>2

LEMMA ObjectCallsLeave ==
  ASSUME NEW a \in Actor, ObjectCall(a)
  PROVE  /\ UNCHANGED <<setupVars, useSmpi, switches>>
         /\ EndStep
         /\ \/ UNCHANGED objectVars
            \/ \E k \in Kinds : Derive(a, k) \/ FreeDerived(a, k)
            \/ TypeCommit(a)
<1>1. CASE Blocking(a)
  <2>1. UNCHANGED vars \/ Ends
    BY <1>1 DEF Blocking, Ends
  <2> QED BY <2>1, UndefinedLeaves DEF vars, setupVars, objectVars, EndStep, endVars
<1>2. CASE TypeCommit(a)
  BY <1>2 DEF TypeCommit, EndStep
<1>3. ASSUME NEW k \in Kinds, Derive(a, k) \/ FreeDerived(a, k)
      PROVE  UNCHANGED <<setupVars, useSmpi, switches, endVars>>
  BY <1>3 DEF Derive, FreeDerived
<1>4. "comm" \in Kinds /\ "type" \in Kinds
  BY DEF Kinds
<1> QED BY <1>1, <1>2, <1>3, <1>4 DEF EndStep, ObjectCall, CommSplit, CommFree, TypeContiguous, TypeFree

LEMMA SetupKept ==
  ASSUME RequestInv, SetupInv, [Next]_vars PROVE SetupInv'
<1>1. RequestStep
  BY RequestSteps DEF RequestInv
<1> DEFINE Quiet == UNCHANGED <<setupVars, useSmpi, switches>>
<1>2. \/ Quiet /\ EndStep
      \/ \E a \in Actor : SetOps(a)
      \/ \E a \in Actor : Switch(a)
  <2>1. CASE UNCHANGED vars
    BY <2>1 DEF vars, setupVars, endVars, EndStep
  <2>2. ASSUME NEW x \in Addr, Complete(x) PROVE Quiet /\ EndStep
    BY <2>2 DEF Complete, EndStep
  <2>3. ASSUME NEW a \in Actor, MpiInit(a) \/ Finalize(a) \/ Finalized(a)
        PROVE  Quiet /\ EndStep
    BY <2>3 DEF MpiInit, Finalize, Finalized, EndStep
  <2>5. ASSUME NEW a \in Actor, RequestCall(a) \/ ObjectCall(a)
        PROVE  Quiet /\ EndStep
    BY <2>5, RequestCallsLeave, ObjectCallsLeave
  <2> HIDE DEF Quiet
  <2> QED BY <2>1, <2>2, <2>3, <2>5 DEF Next
<1>3. \A b \in Actor : pc'[b] # "load" => pc[b] # "load" \/ SetOps(b)
  <2> SUFFICES ASSUME NEW b \in Actor, pc[b] = "load", pc'[b] # "load" PROVE SetOps(b)
    OBVIOUS
  <2>0. RequestTypes
    BY DEF RequestInv
  <2>1. CASE PlaceStep
    BY <2>0, <2>1 DEF PlaceStep, RequestTypes
  <2>2. CASE UNCHANGED reqVars \/ StateStep \/ FreeStep
    BY <2>2 DEF reqVars, StateStep, FreeStep
  <2>3. CASE AllocStep \/ TestStep \/ BlockStep
    BY <2>0, <2>3 DEF AllocStep, TestStep, BlockStep, Suspend, RequestTypes
  <2>4. ASSUME NEW a \in Actor, WaitEnd(a) \/ Late(a) PROVE FALSE
    BY <2>0, <2>4 DEF WaitEnd, Late, RequestTypes
  <2> QED BY <1>1, <2>1, <2>2, <2>3, <2>4 DEF RequestStep
<1>4. CASE Quiet /\ EndStep
  <2>1. \A b \in Actor : SetOps(b) => smpiOps' /\ b \in bullOps'
    BY DEF SetOps
  <2> QED BY <1>3, <1>4, <2>1 DEF SetupInv, setupVars, EndStep, endVars
<1>5. ASSUME NEW a \in Actor, SetOps(a) PROVE SetupInv'
  BY <1>3, <1>5 DEF SetupInv, SetOps, RequestInv, RequestTypes, endVars
<1>6. ASSUME NEW a \in Actor, Switch(a) PROVE SetupInv'
  BY <1>6, MiddlewareAssumption DEF SetupInv, Switch, Running, setupVars, endVars
<1> QED BY <1>2, <1>4, <1>5, <1>6

-----------------------------------------------------------------------------
(***************************************************************************)
(* ObjectInv: pairs of faces.                                              *)
(***************************************************************************)
LEMMA FacesDiffer ==
  ASSUME NEW a, NEW b, NEW k, NEW l, NEW f \in Faces(a, k), f \in Faces(b, l)
  PROVE  a = b /\ k = l
BY DEF Faces, Face

LEMMA ObjectsAre ==
  ASSUME ObjectInv, NEW f
  PROVE  f \in objects <=> \E a \in Actor, k \in Kinds : f \in derived[a][k]
BY DEF ObjectInv

LEMMA DeriveObjects ==
  ASSUME ObjectInv, NEW a \in Actor, NEW k \in Kinds, Derive(a, k) PROVE ObjectInv'
<1>1. /\ derived[a][k] = {} /\ derived' = [derived EXCEPT ![a][k] = Faces(a, k)]
      /\ objects' = objects \cup Faces(a, k) /\ UNCHANGED committed
  BY DEF Derive, Faces
<1>2. /\ DOMAIN derived' = Actor /\ \A b \in Actor : DOMAIN derived'[b] = Kinds
      /\ \A b \in Actor, l \in Kinds :
           derived'[b][l] = IF b = a /\ l = k THEN Faces(a, k) ELSE derived[b][l]
  BY <1>1 DEF ObjectInv
<1>3. \A b \in Actor, l \in Kinds : derived'[b][l] \in {{}, Faces(b, l)}
  BY <1>2 DEF ObjectInv
<1>4. objects' = UNION {derived'[b][l] : b \in Actor, l \in Kinds}
  <2>1. ASSUME NEW f PROVE f \in objects' <=> \E b \in Actor, l \in Kinds : f \in derived'[b][l]
    BY <1>1, <1>2, ObjectsAre
  <2> QED BY <2>1
<1>5. committed' \subseteq objects'
  BY <1>1 DEF ObjectInv
<1>6. ASSUME NEW b \in Actor, derived'[b]["type"] \cap committed' # {}
      PROVE  derived'[b]["type"] \subseteq committed'
  <2>1. "type" \in Kinds
    BY DEF Kinds
  <2>2. CASE b = a /\ k = "type"
    <3>1. PICK f \in Faces(a, k) : f \in objects
      BY <1>1, <1>2, <1>6, <2>1, <2>2 DEF ObjectInv
    <3>2. PICK c \in Actor, l \in Kinds : f \in derived[c][l]
      BY <3>1, ObjectsAre
    <3>3. f \in Faces(c, l)
      BY <3>2 DEF ObjectInv
    <3> QED BY <1>1, <3>1, <3>2, <3>3, FacesDiffer
  <2>3. CASE ~(b = a /\ k = "type")
    BY <1>1, <1>2, <1>6, <2>1, <2>3 DEF ObjectInv
  <2> QED BY <2>2, <2>3
<1> QED BY <1>2, <1>3, <1>4, <1>5, <1>6 DEF ObjectInv

LEMMA FreeObjects ==
  ASSUME ObjectInv, NEW a \in Actor, NEW k \in Kinds, FreeDerived(a, k) PROVE ObjectInv'
<1>1. /\ derived' = [derived EXCEPT ![a][k] = {}]
      /\ objects' = objects \ derived[a][k] /\ committed' = committed \ derived[a][k]
  BY DEF FreeDerived
<1>2. /\ DOMAIN derived' = Actor /\ \A b \in Actor : DOMAIN derived'[b] = Kinds
      /\ \A b \in Actor, l \in Kinds :
           derived'[b][l] = IF b = a /\ l = k THEN {} ELSE derived[b][l]
  BY <1>1 DEF ObjectInv
<1>3. \A b \in Actor, l \in Kinds : derived'[b][l] \in {{}, Faces(b, l)}
  BY <1>2 DEF ObjectInv
<1>4. ASSUME NEW b \in Actor, NEW l \in Kinds, NEW f \in derived[b][l], f \in derived[a][k]
      PROVE  b = a /\ l = k
  <2>1. f \in Faces(b, l) /\ f \in Faces(a, k)
    BY <1>4 DEF ObjectInv
  <2> QED BY <2>1, FacesDiffer
<1>5. objects' = UNION {derived'[b][l] : b \in Actor, l \in Kinds}
  <2>1. ASSUME NEW f PROVE f \in objects' <=> \E b \in Actor, l \in Kinds : f \in derived'[b][l]
    <3>1. ASSUME f \in objects' PROVE \E b \in Actor, l \in Kinds : f \in derived'[b][l]
      <4>1. PICK b \in Actor, l \in Kinds : f \in derived[b][l]
        BY <1>1, <3>1, ObjectsAre
      <4> QED BY <1>1, <1>2, <3>1, <4>1
    <3>2. ASSUME NEW b \in Actor, NEW l \in Kinds, f \in derived'[b][l] PROVE f \in objects'
      <4>1. f \in derived[b][l] /\ ~(b = a /\ l = k)
        BY <1>2, <3>2
      <4>2. f \notin derived[a][k]
        BY <1>4, <4>1
      <4> QED BY <1>1, <4>1, <4>2, ObjectsAre
    <3> QED BY <3>1, <3>2
  <2> QED BY <2>1
<1>6. committed' \subseteq objects'
  BY <1>1 DEF ObjectInv
<1>7. ASSUME NEW b \in Actor, derived'[b]["type"] \cap committed' # {}
      PROVE  derived'[b]["type"] \subseteq committed'
  <2>1. "type" \in Kinds
    BY DEF Kinds
  <2>2. derived'[b]["type"] = derived[b]["type"] /\ ~(b = a /\ k = "type")
    BY <1>2, <1>7, <2>1
  <2>3. derived[b]["type"] \subseteq committed
    BY <1>1, <1>7, <2>2 DEF ObjectInv
  <2> QED BY <1>1, <1>4, <2>1, <2>2, <2>3
<1> QED BY <1>2, <1>3, <1>5, <1>6, <1>7 DEF ObjectInv

LEMMA CommitObjects ==
  ASSUME ObjectInv, NEW a \in Actor, TypeCommit(a) PROVE ObjectInv'
<1>1. committed' = committed \cup derived[a]["type"] /\ UNCHANGED <<derived, objects>>
  BY DEF TypeCommit
<1>2. "type" \in Kinds
  BY DEF Kinds
<1>3. committed' \subseteq objects'
  BY <1>1, <1>2, ObjectsAre DEF ObjectInv
<1>4. ASSUME NEW b \in Actor, derived[b]["type"] \cap committed' # {}
      PROVE  derived[b]["type"] \subseteq committed'
  <2>1. CASE derived[b]["type"] \cap committed # {}
    BY <1>1, <2>1 DEF ObjectInv
  <2>2. CASE derived[b]["type"] \cap committed = {}
    <3>1. PICK f \in derived[b]["type"] : f \in derived[a]["type"]
      BY <1>1, <1>4, <2>2
    <3>2. f \in Faces(b, "type") /\ f \in Faces(a, "type")
      BY <1>2, <3>1 DEF ObjectInv
    <3>3. a = b
      BY <3>2, FacesDiffer
    <3> QED BY <1>1, <3>3
  <2> QED BY <2>1, <2>2
<1> QED BY <1>1, <1>3, <1>4 DEF ObjectInv

LEMMA ObjectKept ==
  ASSUME ObjectInv, [Next]_vars PROVE ObjectInv'
<1>1. CASE UNCHANGED objectVars
  BY <1>1 DEF ObjectInv, objectVars
<1>2. CASE UNCHANGED vars
  BY <1>1, <1>2 DEF vars, objectVars
<1>3. ASSUME NEW x \in Addr, Complete(x) PROVE ObjectInv'
  BY <1>1, <1>3 DEF Complete
<1>4. ASSUME NEW a \in Actor,
             \/ SetOps(a) \/ MpiInit(a) \/ Switch(a) \/ Finalize(a) \/ Finalized(a)
      PROVE  ObjectInv'
  BY <1>1, <1>4 DEF SetOps, MpiInit, Switch, Finalize, Finalized
<1>5. ASSUME NEW a \in Actor, RequestCall(a) PROVE ObjectInv'
  BY <1>1, <1>5, RequestCallsLeave
<1>6. ASSUME NEW a \in Actor, ObjectCall(a) PROVE ObjectInv'
  BY <1>1, <1>6, ObjectCallsLeave, DeriveObjects, FreeObjects, CommitObjects
<1> QED BY <1>2, <1>3, <1>4, <1>5, <1>6 DEF Next

-----------------------------------------------------------------------------
(***************************************************************************)
(* The initial state.                                                      *)
(***************************************************************************)
LEMMA InitOK ==
  ASSUME Init
  PROVE  SetupInv /\ ObjectInv /\ RequestInv /\ TrackInv
<1>1. SetupInv
  <2>1. switches \in 0 .. MaxSwitches /\ \A a \in Actor : pc[a] = "load"
    BY MiddlewareAssumption DEF Init
  <2>2. /\ smpiOps \in BOOLEAN /\ bullOps \subseteq Actor /\ useSmpi \in [Actor -> BOOLEAN]
        /\ ended \in {"no", "undefined"} /\ given \subseteq Addr
    BY Zenon DEF Init
  <2> QED BY <2>1, <2>2, Zenon DEF SetupInv
<1>2. ObjectInv
  <2>1. DOMAIN derived = Actor /\ \A a \in Actor : DOMAIN derived[a] = Kinds
    BY DEF Init
  <2>2. \A a \in Actor, k \in Kinds : derived[a][k] = {}
    BY DEF Init
  <2>3. "type" \in Kinds /\ objects = {} /\ committed = {}
    BY DEF Init, Kinds
  <2> QED BY <2>1, <2>2, <2>3 DEF ObjectInv
<1>3. \A a \in Actor, s \in Slot : req[a][s] \in Nulls /\ req[a][s] \notin Addr
  BY NullsDiffer DEF Init, Impl
<1>4. RequestTypes
  <2>1. req \in [Actor -> [Slot -> Nulls \cup Addr]]
    BY NullsDiffer DEF Init, Impl
  <2> QED BY <2>1, NoCallWaits DEF Init, RequestTypes, PC
<1>5. Exclusive /\ Alive
  BY <1>3 DEF Exclusive, Alive
<1>7. \A a \in Actor : /\ waiting[a] = NoCall /\ pc[a] = "load"
                       /\ waiting[a].call = "none"
  BY NoCallWaits DEF Init
<1>8. \A a \in Actor : CallOK(a) /\ Stored(a) /\ Erased(a)
  BY <1>7 DEF CallOK, Stored, Erased
<1>9. RightlyTracked
  BY FreeIsNoObject DEF Init, RightlyTracked
<1> QED BY <1>1, <1>2, <1>4, <1>5, <1>8, <1>9 DEF RequestInv, TrackInv

\* Type correctness, from the parts
LEMMA PartsTyped ==
  ASSUME SetupInv, ObjectInv, RequestInv PROVE TypeOK
<1>1. ASSUME NEW a \in Actor
      PROVE  /\ waiting[a].impl \in Impl \cup {"none"}
             /\ waiting[a].slots \subseteq Slot /\ waiting[a].addrs \subseteq Addr
  BY DEF RequestInv, RequestTypes, Waiting
<1>2. \A a \in Actor, k \in Kinds : derived[a][k] \subseteq {Face(i, a, k) : i \in Impl}
  BY DEF ObjectInv, Faces
<1> QED BY <1>1, <1>2 DEF TypeOK, SetupInv, ObjectInv, RequestInv, RequestTypes, PC

-----------------------------------------------------------------------------
(***************************************************************************)
(* The theorems.                                                           *)
(***************************************************************************)
Safe == SetupInv /\ ObjectInv /\ RequestInv /\ TrackInv

\* Whatever the application and the libraries do, no request is held twice
\* or held after it was freed, smpi_requests follows them, and the derived
\* handles are whole pairs.
THEOREM MiddlewareCorrect == Spec => []Safe
<1>1. Init => Safe
  BY InitOK DEF Safe
<1>2. Safe /\ [Next]_vars => Safe'
  <2> SUFFICES ASSUME Safe, [Next]_vars PROVE Safe'
    OBVIOUS
  <2>1. RequestStep
    BY RequestSteps DEF Safe, RequestInv
  <2> QED BY <2>1, SetupKept, ObjectKept, RequestsKept, TrackKept DEF Safe
<1> QED BY <1>1, <1>2, PTL DEF Spec

\* MPI_Comm_split, MPI_Type_contiguous and their frees keep one object per
\* implementation behind every derived handle, and leak none.
THEOREM PairsAreWhole == Spec => []FacesMatch
<1>1. Safe => FacesMatch
  BY PartsTyped DEF Safe, FacesMatch, ObjectInv
<1> QED BY <1>1, MiddlewareCorrect, PTL

\* smpi_requests tells the live requests of the two libraries apart, through
\* every call that is suspended half-way and whatever the heap hands out,
\* except for those that the model calls doubtful.
THEOREM RequestsTracked == Spec => []RightlyTracked
<1>1. Safe => RightlyTracked
  BY DEF Safe, TrackInv
<1> QED BY <1>1, MiddlewareCorrect, PTL

-----------------------------------------------------------------------------
(***************************************************************************)
(* No call reaches the wrong library.                                      *)
(***************************************************************************)
\* Undefined behaviour is the fault of a doubtful request.
EndInv == ended = "undefined" => given \cap doubtful # {}
Blamed == given' \cap doubtful' # {}

\* is_smpi_request is right about the requests of an application that runs,
\* except for the doubtful ones.
LEMMA OwnerRight ==
  ASSUME Safe, NEW a \in Actor, Running(a), NEW s \in Slot, req[a][s] \notin doubtful
  PROVE  /\ req[a][s] \in smpiRequests <=> req[a][s] \in Addr /\ heap[req[a][s]].impl = "smpi"
         /\ Knows(OwnerOf(a, req[a][s]), req[a][s])
         /\ \A i \in Impl : Knows(i, req[a][s]) => i = OwnerOf(a, req[a][s])
<1> DEFINE h == req[a][s]
<1>1. /\ RequestTypes /\ Exclusive /\ Alive /\ RightlyTracked
      /\ \A b \in Actor : CallOK(b) /\ Stored(b)
  BY DEF Safe, RequestInv, TrackInv
<1>2. waiting[a].call = "none"
  BY RunsFree DEF Safe, Running
<1>3. h \in Nulls \cup Addr /\ smpiRequests \subseteq Addr
  BY <1>1 DEF RequestTypes
<1>4. h \in Addr => heap[h] \in Object /\ heap[h].impl \in Impl
  BY <1>1 DEF Alive, Object
<1>5. ASSUME h \in Addr, heap[h].impl = "smpi" PROVE h \in smpiRequests
  <2>1. Known(h)
    BY <1>1, <1>5, TrackingIs
  <2>2. ~\E b \in Actor : waiting[b].call = "store" /\ h \in waiting[b].addrs
    <3> SUFFICES ASSUME NEW b \in Actor, waiting[b].call = "store", h \in waiting[b].addrs
                 PROVE  FALSE
      OBVIOUS
    <3>1. PICK t \in Slot : req[b][t] = h
      BY <1>1 DEF Stored
    <3> QED BY <1>1, <1>2, <1>5, <3>1 DEF Exclusive
  <2>3. ~\E b \in Actor : /\ waiting[b].call \in {"Wait", "Waitall"}
                          /\ \E t \in waiting[b].slots : req[b][t] = h
    <3> SUFFICES ASSUME NEW b \in Actor, waiting[b].call \in {"Wait", "Waitall"},
                        NEW t \in waiting[b].slots, req[b][t] = h
                 PROVE  FALSE
      OBVIOUS
    <3>1. t \in Slot
      BY <1>1 DEF RequestTypes, Waiting
    <3> QED BY <1>1, <1>2, <1>5, <3>1 DEF Exclusive
  <2> QED BY <2>1, <2>2, <2>3 DEF Known
<1>6. ASSUME h \in smpiRequests PROVE h \in Addr /\ heap[h].impl = "smpi"
  <2>1. h \in Addr /\ heap[h].impl # "bull"
    BY <1>1, <1>3, <1>6, TrackingIs
  <2> QED BY <1>4, <2>1 DEF Impl
<1>7. h \notin Addr => h = Null("smpi") \/ h = Null("bull")
  BY <1>3 DEF Nulls, Impl
<1>8. /\ h \in Addr => OwnerOf(a, h) = heap[h].impl /\ \A i : Knows(i, h) <=> heap[h].impl = i
      /\ h \notin Addr => \A i : Knows(i, h) <=> h = Null(i)
  BY <1>4, <1>5, <1>6, NullsDiffer DEF Knows, OwnerOf, Impl
<1>9. h \notin Addr => h = Null(OwnerOf(a, h)) /\ \A i \in Impl : h = Null(i) => i = OwnerOf(a, h)
  <2> SUFFICES ASSUME h \notin Addr
               PROVE  h = Null(OwnerOf(a, h)) /\ \A i \in Impl : h = Null(i) => i = OwnerOf(a, h)
    OBVIOUS
  <2>1. h \notin smpiRequests
    BY <1>3
  <2>2. OwnerOf(a, h) = IF h = Null("smpi") THEN "smpi" ELSE "bull"
    BY <2>1 DEF OwnerOf
  <2> QED BY <1>7, <2>2, NullsDiffer DEF Impl
<1>10. Knows(OwnerOf(a, h), h) /\ \A i \in Impl : Knows(i, h) => i = OwnerOf(a, h)
  BY <1>8, <1>9
<1> QED BY <1>5, <1>6, <1>10

\* The first request of an array is one of it.
LEMMA FirstOfArray ==
  ASSUME NEW S \in Arrays PROVE First(S) \in S
<1> DEFINE R == {ss \in Nat \X Nat : ss[1] < ss[2]}
<1>1. S \subseteq Nat /\ S # {}
  BY MiddlewareAssumption DEF Arrays
<1>2. IsWellFoundedOn(R, Nat)
  BY NatLessThanWellFounded, Zenon DEF OpToRel
<1>3. PICK x \in S : \A y \in S : ~(<<y, x>> \in R)
  <2> HIDE DEF R
  <2> QED BY <1>1, <1>2, WFMin
<1>4. ASSUME NEW y \in S PROVE x <= y
  <2>1. x \in Nat /\ y \in Nat /\ ~(y < x)
    BY <1>1, <1>3
  <2> QED BY <2>1
<1> QED BY <1>4 DEF First

\* The calls that take one request
LEMMA SingleDefined ==
  ASSUME Safe, Careful, NEW a \in Actor, NEW s \in Slot,
         \/ Test(a, s) \/ Wait(a, s) \/ Cancel(a, s) \/ Start(a, s) \/ RequestFree(a, s)
  PROVE  ended' = ended \/ Blamed
<1>1. Running(a)
  BY DEF Test, Wait, Cancel, Start, RequestFree
<1>2. ASSUME Undefined({req[a][s]}), req[a][s] \in doubtful PROVE Blamed
  BY <1>2 DEF Undefined, Blamed, requestVars, Safe, RequestInv, RequestTypes
<1>3. req[a][s] \notin doubtful => Knows(OwnerOf(a, req[a][s]), req[a][s])
  BY <1>1, OwnerRight
<1>4. CASE Test(a, s) \/ Cancel(a, s)
  BY <1>2, <1>3, <1>4 DEF Test, Cancel, endVars
<1>5. CASE Wait(a, s)
  <2>1. Given(a, {s}) = {req[a][s]}
    BY DEF Given
  <2> QED BY <1>2, <1>3, <1>5, <2>1 DEF Wait, Block, endVars
<1>6. CASE Start(a, s) \/ RequestFree(a, s)
  <2>1. Knows(InUse(a), req[a][s])
    BY <1>6 DEF Start, RequestFree, Knows
  <2> QED BY <1>6, <2>1 DEF Start, RequestFree, endVars
<1> QED BY <1>4, <1>5, <1>6

\* The calls that take an array
LEMMA ArrayDefined ==
  ASSUME Safe, Careful, NEW a \in Actor, NEW S \in Arrays,
         \/ Testany(a, S) \/ Testall(a, S) \/ Waitany(a, S) \/ Waitall(a, S) \/ Waitsome(a, S)
  PROVE  ended' = ended \/ Blamed
<1>1. Running(a) /\ S \subseteq Slot
  BY DEF Testany, Testall, Waitany, Waitall, Waitsome, Arrays
<1>0. CASE \E s \in S : req[a][s] \in doubtful
  <2>1. Given(a, S) \cap Addr \cap doubtful # {}
    BY <1>0 DEF Given, Safe, RequestInv, RequestTypes
  <2>2. Undefined(Given(a, S)) => Blamed
    BY <2>1 DEF Undefined, Blamed, requestVars
  <2>3. ended' = ended \/ Undefined(Given(a, S))
    BY DEF Testany, Testall, Waitany, Waitall, Waitsome, Block, endVars
  <2> QED BY <2>2, <2>3
<1>2. CASE Waitall(a, S) \/ Waitsome(a, S)
  <2>1. \A s \in S : Knows(InUse(a), req[a][s])
    BY <1>2 DEF Waitall, Waitsome, WellGiven
  <2> QED BY <1>2, <2>1 DEF Waitall, Waitsome, Block, endVars
<1>3. CASE /\ Testany(a, S) \/ Testall(a, S) \/ Waitany(a, S)
           /\ \A s \in S : req[a][s] \notin doubtful
  <2>1. /\ \E s \in S : req[a][s] \in Addr /\ heap[req[a][s]].state # "inactive"
        /\ \E i \in Impl : \A s \in S : Knows(i, req[a][s])
    BY <1>3 DEF Testany, Testall, Waitany, WellGiven
  <2>2. PICK i \in Impl : \A s \in S : Knows(i, req[a][s])
    BY <2>1
  <2>3. PICK t \in S : req[a][t] \in Addr /\ heap[req[a][t]].state # "inactive"
    BY <2>1
  <2>4. OwnerOfAny(a, S) = i
    <3>1. \A s \in S : req[a][s] \in smpiRequests => i = "smpi"
      BY <1>1, <1>3, <2>2, OwnerRight DEF Knows
    <3>2. heap[req[a][t]].impl = i
      BY <2>2, <2>3 DEF Knows
    <3>3. i = "smpi" => req[a][t] \in smpiRequests
      BY <1>1, <1>3, <2>3, <3>2, OwnerRight
    <3> QED BY <2>3, <3>1, <3>3 DEF OwnerOfAny, Impl
  <2>5. OwnerOf(a, req[a][First(S)]) = i
    <3>1. First(S) \in S /\ First(S) \in Slot
      BY <1>1, FirstOfArray
    <3> QED BY <1>1, <1>3, <2>2, <3>1, OwnerRight
  <2>6. {s \in S : IsActive(req[a][s])} # {}
    BY <2>3 DEF IsActive
  <2>7. CASE Testany(a, S)
    BY <2>2, <2>4, <2>6, <2>7 DEF Testany, endVars
  <2>8. CASE Testall(a, S)
    BY <2>2, <2>4, <2>8 DEF Testall, endVars
  <2>9. CASE Waitany(a, S)
    BY <2>2, <2>5, <2>9 DEF Waitany, Block, endVars
  <2> QED BY <1>3, <2>7, <2>8, <2>9
<1> QED BY <1>0, <1>2, <1>3

\* A derived handle has a committed face for each implementation.
LEMMA FaceUsable ==
  ASSUME ObjectInv, NEW a \in Actor, NEW i \in Impl, NEW k \in Kinds, NEW h \in Handles(a, k),
         k = "type" /\ h = DerivedHandle => derived[a]["type"] \cap committed # {}
  PROVE  Usable(i, FaceOf(i, a, k, h))
<1>1. CASE h \in {Predefined(j) : j \in Impl}
  <2>1. FaceOf(i, a, k, h) = Predefined(i) /\ Predefined(i).impl = i /\ Predefined(i).kind = "any"
    BY <1>1 DEF FaceOf, Predefined
  <2> QED BY <2>1 DEF Usable
<1>2. CASE h \notin {Predefined(j) : j \in Impl}
  <2>1. h = DerivedHandle /\ derived[a][k] = Faces(a, k)
    BY <1>2 DEF Handles, ObjectInv
  <2>2. Face(i, a, k) \in derived[a][k] /\ Face(i, a, k).impl = i /\ Face(i, a, k).kind = k
    BY <2>1 DEF Faces, Face
  <2>3. \A f \in derived[a][k] : f.impl = i => f = Face(i, a, k)
    BY <2>1 DEF Faces, Face
  <2>4. FaceOf(i, a, k, h) = Face(i, a, k)
    BY <1>2, <2>2, <2>3 DEF FaceOf
  <2>5. Face(i, a, k) \in objects
    BY <2>2, ObjectsAre
  <2>6. k = "type" => Face(i, a, k) \in committed
    BY <2>1, <2>2 DEF ObjectInv
  <2> QED BY <2>2, <2>4, <2>5, <2>6 DEF Usable
<1> QED BY <1>1, <1>2

LEMMA BlockingDefined ==
  ASSUME ObjectInv, NEW a \in Actor, Blocking(a) PROVE ended' = ended
<1>1. PICK c \in Handles(a, "comm"), t \in Handles(a, "type"), o \in {Predefined(j) : j \in Impl} :
        /\ t = DerivedHandle => derived[a]["type"] \cap committed # {}
        /\ IF \A f \in {ImplemComm(a, c), ImplemDatatype(a, t), ImplemOp(a, o)} : Usable(InUse(a), f)
           THEN UNCHANGED vars ELSE Undefined({})
  BY DEF Blocking
<1>2. Usable(InUse(a), ImplemComm(a, c)) /\ Usable(InUse(a), ImplemDatatype(a, t))
  BY <1>1, FaceUsable, InUseImpl DEF ImplemComm, ImplemDatatype, Kinds
<1>3. Usable(InUse(a), ImplemOp(a, o))
  BY DEF ImplemOp, Usable, Predefined
<1>4. UNCHANGED vars
  BY <1>1, <1>2, <1>3
<1> QED BY <1>4 DEF vars

LEMMA StaysDefined ==
  ASSUME Safe, Careful, [Next]_vars, EndInv
  PROVE  EndInv'
<1>1. CASE UNCHANGED vars
  BY <1>1 DEF vars, EndInv
<1>2. ASSUME NEW x \in Addr, Complete(x) PROVE ended' = ended /\ ended = "no"
  BY <1>2 DEF Complete, endVars
<1>3. ASSUME NEW a \in Actor,
             \/ SetOps(a) \/ MpiInit(a) \/ Switch(a) \/ Finalize(a) \/ Finalized(a)
      PROVE  ended' = ended /\ ended = "no"
  BY <1>3 DEF SetOps, MpiInit, Switch, Finalize, Finalized, Running, endVars
<1>4. ASSUME NEW a \in Actor, RequestCall(a) PROVE (ended' = ended \/ Blamed) /\ ended = "no"
  <2>1. ASSUME NEW s \in Slot,
               \/ Nonblocking(a, s) \/ NonblockingCollective(a, s) \/ InitPersistent(a, s)
        PROVE  ended' = ended /\ ended = "no"
    BY <2>1 DEF Nonblocking, NonblockingCollective, InitPersistent, NewRequest, Running, endVars
  <2>2. CASE WaitEnd(a) \/ Late(a)
    BY <2>2 DEF WaitEnd, Late, endVars
  <2>3. ASSUME NEW s \in Slot,
               \/ Test(a, s) \/ Wait(a, s) \/ Cancel(a, s) \/ Start(a, s) \/ RequestFree(a, s)
        PROVE  (ended' = ended \/ Blamed) /\ ended = "no"
    <3>1. ended = "no"
      BY <2>3 DEF Test, Wait, Cancel, Start, RequestFree, Running
    <3> QED BY <2>3, <3>1, SingleDefined
  <2>4. ASSUME NEW S \in Arrays,
               \/ Testany(a, S) \/ Testall(a, S) \/ Waitany(a, S) \/ Waitall(a, S) \/ Waitsome(a, S)
        PROVE  (ended' = ended \/ Blamed) /\ ended = "no"
    <3>1. ended = "no"
      BY <2>4 DEF Testany, Testall, Waitany, Waitall, Waitsome, Running
    <3> QED BY <2>4, <3>1, ArrayDefined
  <2> QED BY <1>4, <2>1, <2>2, <2>3, <2>4 DEF RequestCall
<1>5. ASSUME NEW a \in Actor, ObjectCall(a) PROVE ended' = ended /\ ended = "no"
  <2>1. CASE Blocking(a)
    <3>1. ended = "no"
      BY <2>1 DEF Blocking, Running
    <3> QED BY <2>1, <3>1, BlockingDefined DEF Safe
  <2>2. CASE ~Blocking(a)
    BY <1>5, <2>2 DEF ObjectCall, CommSplit, CommFree, TypeContiguous, TypeFree, TypeCommit,
                      Derive, FreeDerived, Running, endVars
  <2> QED BY <2>1, <2>2
<1> QED BY <1>1, <1>2, <1>3, <1>4, <1>5 DEF Next, EndInv, Blamed

\* Whenever an application that does not mix implementations in an array
\* switches, every call goes to the implementation that made its handles,
\* unless one of them is a request that the model calls doubtful.
THEOREM CallsReachTheirLibrary ==
  ASSUME Careful
  PROVE  Spec => []NeverUndefined
<1>1. Init => EndInv
  BY DEF Init, EndInv
<1>2. EndInv /\ Safe /\ [Next]_vars => EndInv'
  BY StaysDefined
<1>3. Safe /\ EndInv => NeverUndefined
  BY DEF Safe, SetupInv, EndInv, NeverUndefined
<1> QED BY <1>1, <1>2, <1>3, MiddlewareCorrect, PTL DEF Spec
=============================================================================
