--------------------------- MODULE MpiMiddleware ----------------------------
(***************************************************************************)
(* The MPI middleware: every MPI call of the application goes either to    *)
(* the MPI library it is linked with ("bull", one private copy per actor)  *)
(* or to SMPI ("smpi", one copy for all), as use_smpi_implem of the actor  *)
(* says.  The application may switch at any time, so a request may be      *)
(* completed under another setting than the one it was started under: the  *)
(* middleware keeps the SMPI requests of all actors in smpi_requests.      *)
(* Communicators and datatypes that the application derives are pairs of   *)
(* one object per implementation.                                          *)
(*                                                                         *)
(* What the MPI libraries do is modelled from how the middleware uses      *)
(* them: a request is an address of the one heap of the simulator, freed   *)
(* when it completes unless it is persistent.  A call whose handles belong *)
(* to the other implementation has undefined behaviour, which ends the     *)
(* model.                                                                  *)
(***************************************************************************)
EXTENDS Integers, FiniteSets

CONSTANTS
  Actor,           \* the user application actors
  Slot,            \* indices of the array of requests of an application, 1 .. n
  Addr,            \* addresses of the heap that both libraries allocate from
  Calls,           \* the completion calls that the application makes
  PersistentImpl,  \* implementations that are asked for persistent requests
  Careful,         \* the application never mixes implementations in an array
  MaxSwitches,     \* bound on the calls to s4bxi_use_smpi_implem
  MaxDerived       \* bound on the derived handles that exist at a time

Impl == {"smpi", "bull"}
Kinds == {"comm", "type"}

\* MPI_REQUEST_NULL of the two implementations
Null(i) == IF i = "smpi" THEN "NULL" ELSE "ompi_request_null"
Nulls   == {Null(i) : i \in Impl}

Free   == [impl |-> "none", persistent |-> FALSE, state |-> "free"]
Object == [impl : Impl, persistent : BOOLEAN, state : {"inactive", "active", "done"}]

ASSUME MiddlewareAssumption ==
  /\ Slot \subseteq Nat /\ MaxSwitches \in Nat /\ MaxDerived \in Nat
  /\ Nulls \cap Addr = {}
  /\ PersistentImpl \subseteq Impl /\ Careful \in BOOLEAN

VARIABLES
  smpiOps,       \* smpi_mpi_ops, shared by all actors, is set up
  bullOps,       \* actors whose bull_mpi_ops is set up
  useSmpi,       \* use_smpi_implem of each actor
  switches,      \* number of switches so far
  pc,            \* where each application is
  waiting,       \* the call an application is blocked or suspended in
  req,           \* the requests in the variables of each application
  heap,          \* the request object at each address
  smpiRequests,  \* smpi_requests, shared by all actors
  doubtful,      \* addresses of the requests that smpi_requests may be wrong
                 \* about: allocated at an address which it still has or which
                 \* a suspended call is about to erase, or persistent ones of
                 \* SMPI that were completed once
  derived,       \* derived communicator and datatype: the faces of the pair
  objects,       \* live derived objects of the implementations
  committed,     \* derived datatypes known as committed
  ended,         \* "no", or why the simulation ended
  given          \* the requests given to the call with undefined behaviour

vars == <<smpiOps, bullOps, useSmpi, switches, pc, waiting, req, heap, smpiRequests,
          doubtful, derived, objects, committed, ended, given>>

requestVars == <<req, heap, smpiRequests, doubtful>>
objectVars  == <<derived, objects, committed>>
setupVars   == <<smpiOps, bullOps>>
endVars     == <<ended, given>>

NoCall == [call |-> "none", impl |-> "none", slots |-> {}, addrs |-> {}]

Init ==
  /\ smpiOps = FALSE /\ bullOps = {}
  /\ useSmpi \in [Actor -> BOOLEAN]
  /\ switches = 0
  /\ pc = [a \in Actor |-> "load"]
  /\ waiting = [a \in Actor |-> NoCall]
  /\ req = [a \in Actor |-> [s \in Slot |-> Null(IF useSmpi[a] THEN "smpi" ELSE "bull")]]
  /\ heap = [x \in Addr |-> Free]
  /\ smpiRequests = {} /\ doubtful = {}
  /\ derived = [a \in Actor |-> [k \in Kinds |-> {}]]
  /\ objects = {} /\ committed = {}
  /\ ended = "no" /\ given = {}

-----------------------------------------------------------------------------
(***************************************************************************)
(* Choosing an implementation.                                             *)
(***************************************************************************)
\* S4BXI_MPI_ONE_IMPLEM: the implementation in use
InUse(a) == IF useSmpi[a] THEN "smpi" ELSE "bull"

\* Mutant: the implementation in use is taken for the one of the request.
OwnerInUse(a, h) == InUse(a)

\* is_smpi_request, and the choice that follows from it
OwnerOf(a, h) == IF h = Null("smpi") \/ h \in smpiRequests THEN "smpi" ELSE "bull"

\* Testany and Testall: SMPI if it made one of the requests
OwnerOfAny(a, S) == IF \E s \in S : req[a][s] \in smpiRequests THEN "smpi" ELSE "bull"

\* Waitany looks at the first request of the array.
First(S) == CHOOSE s \in S : \A t \in S : s <= t

Knows(i, h) == IF h \in Addr THEN heap[h].impl = i ELSE h = Null(i)

Running(a) == ended = "no" /\ pc[a] = "run"

Undefined(hs) ==
  /\ ended' = "undefined"
  /\ given' = hs \cap Addr
  /\ UNCHANGED <<setupVars, useSmpi, switches, pc, waiting, requestVars, objectVars>>

\* The requests of an array
Given(a, S) == {req[a][s] : s \in S}

\* An application that is careful gives requests of one implementation, one
\* of them active, and calls what follows the current setting only for
\* requests made under that setting.
WellGiven(a, S, byUse) ==
  Careful => /\ \E s \in S : req[a][s] \in Addr /\ heap[req[a][s]].state # "inactive"
             /\ \E i \in Impl : /\ \A s \in S : Knows(i, req[a][s])
                                /\ byUse => i = InUse(a)

-----------------------------------------------------------------------------
(***************************************************************************)
(* Set up, switch, end.                                                    *)
(***************************************************************************)
\* set_mpi_middleware_ops: each actor fills its own table, the first one
\* also that of SMPI.
SetOps(a) ==
  /\ ended = "no" /\ pc[a] = "load"
  /\ bullOps' = bullOps \cup {a}
  /\ smpiOps' = TRUE
  /\ pc' = [pc EXCEPT ![a] = "loaded"]
  /\ UNCHANGED <<useSmpi, switches, waiting, requestVars, objectVars, endVars>>

\* MPI_Init initialises both implementations.
MpiInit(a) ==
  /\ ended = "no" /\ pc[a] = "loaded"
  /\ pc' = [pc EXCEPT ![a] = "run"]
  /\ UNCHANGED <<setupVars, useSmpi, switches, waiting, requestVars, objectVars, endVars>>

\* s4bxi_use_smpi_implem
Switch(a) ==
  /\ Running(a)
  /\ switches < MaxSwitches
  /\ switches' = switches + 1
  /\ useSmpi' = [useSmpi EXCEPT ![a] = ~@]
  /\ UNCHANGED <<setupVars, pc, waiting, requestVars, objectVars, endVars>>

\* MPI_Finalize starts with a barrier of all actors.
Finalize(a) ==
  /\ Running(a)
  /\ \A s \in Slot : req[a][s] \in Nulls
  /\ \A k \in Kinds : derived[a][k] = {}
  /\ pc' = [pc EXCEPT ![a] = "barrier"]
  /\ UNCHANGED <<setupVars, useSmpi, switches, waiting, requestVars, objectVars, endVars>>

Finalized(a) ==
  /\ ended = "no" /\ pc[a] = "barrier"
  /\ \A b \in Actor : pc[b] \in {"barrier", "finalized"}
  /\ pc' = [pc EXCEPT ![a] = "finalized"]
  /\ UNCHANGED <<setupVars, useSmpi, switches, waiting, requestVars, objectVars, endVars>>

-----------------------------------------------------------------------------
(***************************************************************************)
(* Requests.                                                               *)
(***************************************************************************)
\* s4bxi_bench_end after the MPI call lets the other actors run, before the
\* call stores or erases addresses.
Suspend(a, call, xs) ==
  IF xs = {} THEN UNCHANGED <<pc, waiting>>
  ELSE /\ pc' = [pc EXCEPT ![a] = "late"]
       /\ waiting' = [waiting EXCEPT ![a] = [NoCall EXCEPT !.call = call, !.addrs = xs]]

\* Addresses that suspended calls are about to store, or to erase
Pending(call) == UNION {waiting[a].addrs : a \in {b \in Actor : waiting[b].call = call}}

Late(a) ==
  LET w == waiting[a] IN
  /\ ended = "no" /\ pc[a] = "late"
  /\ smpiRequests' = IF w.call = "store" THEN smpiRequests \cup w.addrs
                     ELSE smpiRequests \ w.addrs
  /\ pc' = [pc EXCEPT ![a] = "run"]
  /\ waiting' = [waiting EXCEPT ![a] = NoCall]
  /\ UNCHANGED <<setupVars, useSmpi, switches, req, heap, doubtful, objectVars, endVars>>

\* The library allocates a request at x, which the heap may hand out again
\* before smpi_requests has been cleaned of it.
Allocate(i, x, persistent) ==
  /\ heap[x] = Free
  /\ heap' = [heap EXCEPT ![x] = [impl |-> i, persistent |-> persistent,
                                  state |-> IF persistent THEN "inactive" ELSE "active"]]
  /\ doubtful' = IF x \in smpiRequests \cup Pending("erase") THEN doubtful \cup {x}
                 ELSE doubtful \ {x}

\* S4BXI_MPI_STORE_REQUEST: the request that the call made is known as an
\* SMPI one once the call has been resumed.
NewRequest(a, s, persistent) ==
  LET i == InUse(a) IN
  /\ Running(a)
  /\ req[a][s] \in Nulls
  /\ \E x \in Addr :
       /\ Allocate(i, x, persistent)
       /\ req' = [req EXCEPT ![a][s] = x]
       /\ Suspend(a, "store", IF i = "smpi" THEN {x} ELSE {})
  /\ UNCHANGED <<setupVars, useSmpi, switches, smpiRequests, objectVars, endVars>>

\* Isend, Irecv, ... and the non-blocking collectives
Nonblocking(a, s) == NewRequest(a, s, FALSE)
NonblockingCollective(a, s) == "Ibarrier" \in Calls /\ NewRequest(a, s, FALSE)

\* Send_init, Recv_init, ...
InitPersistent(a, s) == InUse(a) \in PersistentImpl /\ NewRequest(a, s, TRUE)

\* The implementation brings an operation to its end.
Complete(x) ==
  /\ ended = "no"
  /\ heap[x].state = "active"
  /\ heap' = [heap EXCEPT ![x].state = "done"]
  /\ UNCHANGED <<setupVars, useSmpi, switches, pc, waiting, req, smpiRequests,
                 doubtful, objectVars, endVars>>

IsDone(h)   == IF h \in Addr THEN heap[h].state # "active" ELSE TRUE
IsActive(h) == IF h \in Addr THEN heap[h].state # "inactive" ELSE FALSE

\* The objects and the variables after the requests in S were completed: an
\* object is freed and its variable reset, unless it is persistent.
Release(a, S, i) ==
  LET gone(h) == h \in Addr /\ ~heap[h].persistent
      xs      == {req[a][s] : s \in S} \cap Addr
  IN /\ heap' = [x \in Addr |->
                   IF x \notin xs THEN heap[x]
                   ELSE IF heap[x].persistent THEN [heap[x] EXCEPT !.state = "inactive"]
                   ELSE Free]
     /\ req' = [req EXCEPT ![a] =
                  [s \in Slot |-> IF s \in S /\ gone(req[a][s]) THEN Null(i)
                                  ELSE req[a][s]]]
     /\ doubtful' = (doubtful \ {x \in xs : ~heap[x].persistent})
                      \cup {x \in xs : heap[x].impl = "smpi" /\ heap[x].persistent}

\* A test that finds nothing done changes nothing; here are the others.
Test(a, s) ==
  LET h == req[a][s]
      i == OwnerOf(a, h)
  IN
  /\ Running(a)
  /\ IF ~Knows(i, h) THEN Undefined({h})
     ELSE /\ IsDone(h)
          /\ Release(a, {s}, i)
          /\ Suspend(a, "erase", IF i = "smpi" THEN {h} \cap Addr ELSE {})
          /\ UNCHANGED <<setupVars, useSmpi, switches, smpiRequests, objectVars,
                         endVars>>

\* Mutant: the whole array is taken out of smpi_requests.
TestanyForgets(a, S) ==
  LET i      == OwnerOfAny(a, S)
      active == {s \in S : IsActive(req[a][s])}
  IN
  /\ Running(a) /\ "Testany" \in Calls
  /\ WellGiven(a, S, FALSE)
  /\ \E s \in active : IsDone(req[a][s]) /\ Release(a, {s}, i)
  /\ Suspend(a, "erase", smpiRequests \cap {req[a][s] : s \in S})
  /\ UNCHANGED <<setupVars, useSmpi, switches, smpiRequests, objectVars, endVars>>

Testany(a, S) ==
  LET i      == OwnerOfAny(a, S)
      active == {s \in S : IsActive(req[a][s])}
  IN
  /\ Running(a) /\ "Testany" \in Calls
  /\ WellGiven(a, S, FALSE)
  /\ IF (\E s \in S : ~Knows(i, req[a][s])) \/ active = {} THEN Undefined(Given(a, S))
     ELSE \E s \in active :
          /\ IsDone(req[a][s])
          /\ Release(a, {s}, i)
          /\ Suspend(a, "erase", smpiRequests \cap {req[a][s]})
          /\ UNCHANGED <<setupVars, useSmpi, switches, smpiRequests, objectVars,
                         endVars>>

Testall(a, S) ==
  LET i    == OwnerOfAny(a, S)
      gone == {s \in S : req[a][s] \in smpiRequests /\ ~heap[req[a][s]].persistent}
  IN
  /\ Running(a) /\ "Testall" \in Calls
  /\ WellGiven(a, S, FALSE)
  /\ IF \E s \in S : ~Knows(i, req[a][s]) THEN Undefined(Given(a, S))
     ELSE /\ \A s \in S : IsDone(req[a][s])
          /\ Release(a, S, i)
          /\ Suspend(a, "erase", {req[a][s] : s \in gone})
          /\ UNCHANGED <<setupVars, useSmpi, switches, smpiRequests, objectVars,
                         endVars>>

\* A call that blocks until some or all of its requests are done
Block(a, call, i, S) ==
  /\ IF \E s \in S : ~Knows(i, req[a][s]) THEN Undefined(Given(a, S))
     ELSE /\ pc' = [pc EXCEPT ![a] = "wait"]
          /\ waiting' = [waiting EXCEPT ![a] =
                           [call |-> call, impl |-> i, slots |-> S, addrs |-> {}]]
          /\ UNCHANGED <<setupVars, useSmpi, switches, req, heap, doubtful,
                         objectVars, endVars>>

\* MPI_Wait forgets the request before it waits.
Wait(a, s) ==
  LET h == req[a][s]
      i == OwnerOf(a, h)
  IN
  /\ Running(a) /\ "Wait" \in Calls
  /\ Block(a, "Wait", i, {s})
  /\ smpiRequests' = IF Knows(i, h) /\ i = "smpi" THEN smpiRequests \ {h} ELSE smpiRequests

\* MPI_Waitall forgets all of them, and follows the implementation in use.
Waitall(a, S) ==
  LET i == InUse(a) IN
  /\ Running(a) /\ "Waitall" \in Calls
  /\ WellGiven(a, S, TRUE)
  /\ Block(a, "Waitall", i, S)
  /\ smpiRequests' = IF \A s \in S : Knows(i, req[a][s])
                     THEN smpiRequests \ {req[a][s] : s \in S} ELSE smpiRequests

\* MPI_Waitany and MPI_Waitsome do not clean smpi_requests.
Waitany(a, S) ==
  /\ Running(a) /\ "Waitany" \in Calls
  /\ WellGiven(a, S, FALSE)
  /\ Block(a, "Waitany", OwnerOf(a, req[a][First(S)]), S)
  /\ UNCHANGED smpiRequests

Waitsome(a, S) ==
  /\ Running(a) /\ "Waitsome" \in Calls
  /\ WellGiven(a, S, TRUE)
  /\ Block(a, "Waitsome", InUse(a), S)
  /\ UNCHANGED smpiRequests

\* Which requests a blocked call completes, when it may return
Completed(w, a) ==
  LET done   == {s \in w.slots : IsDone(req[a][s])}
      active == {s \in w.slots : IsActive(req[a][s])}
      some   == done \cap active
  IN IF w.call \in {"Wait", "Waitall"} THEN {done} \cap {w.slots}
     ELSE IF active = {} THEN {{}}
     ELSE IF w.call = "Waitany" THEN {{s} : s \in some}
     ELSE {some} \ {{}}

WaitEnd(a) ==
  LET w == waiting[a] IN
  /\ ended = "no" /\ pc[a] = "wait"
  /\ \E S \in Completed(w, a) : Release(a, S, w.impl)
  /\ pc' = [pc EXCEPT ![a] = "run"]
  /\ waiting' = [waiting EXCEPT ![a] = NoCall]
  /\ UNCHANGED <<setupVars, useSmpi, switches, smpiRequests, objectVars, endVars>>

\* MPI_Cancel: the request still has to be completed.
Cancel(a, s) ==
  LET h == req[a][s]
      i == OwnerOf(a, h)
  IN
  /\ Running(a) /\ "Cancel" \in Calls
  /\ IF ~Knows(i, h) THEN Undefined({h})
     ELSE /\ h \in Addr /\ heap[h].state = "active"
          /\ heap' = [heap EXCEPT ![h].state = "done"]
          /\ UNCHANGED <<setupVars, useSmpi, switches, pc, waiting, req, smpiRequests,
                         doubtful, objectVars, endVars>>

\* MPI_Start and MPI_Request_free follow the implementation in use.
Start(a, s) ==
  LET h == req[a][s] IN
  /\ Running(a)
  /\ h \in Addr /\ heap[h].state = "inactive"
  /\ Careful => heap[h].impl = InUse(a)
  /\ IF ~Knows(InUse(a), h) THEN Undefined({h})
     ELSE /\ heap' = [heap EXCEPT ![h].state = "active"]
          /\ UNCHANGED <<setupVars, useSmpi, switches, pc, waiting, req, smpiRequests,
                         doubtful, objectVars, endVars>>

RequestFree(a, s) ==
  LET h == req[a][s] IN
  /\ Running(a) /\ "Request_free" \in Calls
  /\ h \in Addr /\ heap[h].state # "active"
  /\ Careful => heap[h].impl = InUse(a)
  /\ IF ~Knows(InUse(a), h) THEN Undefined({h})
     ELSE /\ heap' = [heap EXCEPT ![h] = Free]
          /\ req' = [req EXCEPT ![a][s] = Null(InUse(a))]
          /\ doubtful' = doubtful \ {h}
          /\ UNCHANGED <<setupVars, useSmpi, switches, pc, waiting, smpiRequests,
                         objectVars, endVars>>

-----------------------------------------------------------------------------
(***************************************************************************)
(* Communicators and datatypes.  A handle of the application is one of the *)
(* predefined objects of either implementation, or a derived pair.         *)
(***************************************************************************)
Face(i, a, k)  == [impl |-> i, owner |-> a, kind |-> k]
Predefined(i)  == [impl |-> i, owner |-> "predefined", kind |-> "any"]
DerivedHandle  == [impl |-> "both", owner |-> "derived", kind |-> "any"]

\* bull_comm, smpi_comm, bull_datatype and smpi_datatype
FaceOf(i, a, k, h) ==
  IF h \in {Predefined(j) : j \in Impl} THEN Predefined(i)
  ELSE CHOOSE f \in derived[a][k] : f.impl = i

\* implem_comm and implem_datatype
ImplemComm(a, h)     == FaceOf(InUse(a), a, "comm", h)
ImplemDatatype(a, h) == FaceOf(InUse(a), a, "type", h)

\* implem_op: reduction operations are predefined ones, since MPI_Op_create
\* is not supported.
ImplemOp(a, h) == IF h \in {Predefined(j) : j \in Impl} THEN Predefined(InUse(a)) ELSE h

Handles(a, k) == {Predefined(j) : j \in Impl}
                   \cup (IF derived[a][k] = {} THEN {} ELSE {DerivedHandle})

Derive(a, k) ==
  /\ Running(a)
  /\ derived[a][k] = {}
  /\ Cardinality(objects) < 2 * MaxDerived
  /\ derived' = [derived EXCEPT ![a][k] = {Face(i, a, k) : i \in Impl}]
  /\ objects' = objects \cup {Face(i, a, k) : i \in Impl}
  /\ UNCHANGED <<setupVars, useSmpi, switches, pc, waiting, requestVars, committed, endVars>>

\* Mutant: only the face in use is given back.
FreeDerivedInUse(a, k) ==
  /\ Running(a)
  /\ derived[a][k] # {}
  /\ derived' = [derived EXCEPT ![a][k] = {}]
  /\ objects' = objects \ {Face(InUse(a), a, k)}
  /\ committed' = committed \ {Face(InUse(a), a, k)}
  /\ UNCHANGED <<setupVars, useSmpi, switches, pc, waiting, requestVars, endVars>>

FreeDerived(a, k) ==
  /\ Running(a)
  /\ derived[a][k] # {}
  /\ derived' = [derived EXCEPT ![a][k] = {}]
  /\ objects' = objects \ derived[a][k]
  /\ committed' = committed \ derived[a][k]
  /\ UNCHANGED <<setupVars, useSmpi, switches, pc, waiting, requestVars, endVars>>

CommSplit(a)      == Derive(a, "comm")
CommFree(a)       == FreeDerived(a, "comm")
TypeContiguous(a) == Derive(a, "type")
TypeFree(a)       == FreeDerived(a, "type")

\* MPI_Type_commit commits both faces.
TypeCommit(a) ==
  /\ Running(a)
  /\ derived[a]["type"] # {}
  /\ committed' = committed \cup derived[a]["type"]
  /\ UNCHANGED <<setupVars, useSmpi, switches, pc, waiting, requestVars, derived,
                 objects, endVars>>

Usable(i, f) == /\ f.impl = i
                /\ f = Predefined(i) \/ f \in objects
                /\ f.kind = "type" => f \in committed

\* A blocking call (Send, Recv, Bcast, Reduce, ...) with handles that the
\* application committed: each argument is translated for the implementation.
\* What the call does is up to that implementation.
Blocking(a) ==
  /\ Running(a)
  /\ \E c \in Handles(a, "comm"), t \in Handles(a, "type"), o \in {Predefined(j) : j \in Impl} :
       /\ t = DerivedHandle => derived[a]["type"] \cap committed # {}
       /\ IF \A f \in {ImplemComm(a, c), ImplemDatatype(a, t), ImplemOp(a, o)} : Usable(InUse(a), f)
          THEN UNCHANGED vars ELSE Undefined({})

-----------------------------------------------------------------------------
Arrays == (SUBSET Slot) \ {{}}

RequestCall(a) ==
  \/ \E s \in Slot : \/ Nonblocking(a, s) \/ NonblockingCollective(a, s)
                     \/ InitPersistent(a, s) \/ Start(a, s) \/ Test(a, s)
                     \/ Wait(a, s) \/ Cancel(a, s) \/ RequestFree(a, s)
  \/ \E S \in Arrays : \/ Testany(a, S) \/ Testall(a, S) \/ Waitany(a, S)
                       \/ Waitall(a, S) \/ Waitsome(a, S)
  \/ WaitEnd(a) \/ Late(a)

ObjectCall(a) == \/ CommSplit(a) \/ CommFree(a) \/ TypeContiguous(a)
                 \/ TypeFree(a) \/ TypeCommit(a) \/ Blocking(a)

Next ==
  \/ \E a \in Actor : \/ SetOps(a) \/ MpiInit(a) \/ Switch(a)
                      \/ Finalize(a) \/ Finalized(a)
                      \/ RequestCall(a) \/ ObjectCall(a)
  \/ \E x \in Addr : Complete(x)

Spec == Init /\ [][Next]_vars

-----------------------------------------------------------------------------
(***************************************************************************)
(* Properties.                                                             *)
(***************************************************************************)
\* Type correctness of the state of the middleware.
TypeOK ==
  /\ smpiOps \in BOOLEAN /\ bullOps \subseteq Actor
  /\ useSmpi \in [Actor -> BOOLEAN] /\ switches \in 0 .. MaxSwitches
  /\ pc \in [Actor -> {"load", "loaded", "run", "wait", "late", "barrier", "finalized"}]
  /\ \A a \in Actor : /\ waiting[a].impl \in Impl \cup {"none"}
                      /\ waiting[a].slots \subseteq Slot
                      /\ waiting[a].addrs \subseteq Addr
  /\ req \in [Actor -> [Slot -> Nulls \cup Addr]]
  /\ heap \in [Addr -> Object \cup {Free}]
  /\ smpiRequests \subseteq Addr /\ doubtful \subseteq Addr
  /\ \A a \in Actor, k \in Kinds : derived[a][k] \subseteq {Face(i, a, k) : i \in Impl}
  /\ committed \subseteq objects
  /\ ended \in {"no", "undefined"} /\ given \subseteq Addr

\* Every call goes to tables that were set up and, whenever the application
\* switches, to the implementation that made the handles it is given
\* (is_smpi_request, implem_comm, implem_datatype), as long as none of them is
\* doubtful.  What the other actors do while a call is suspended, and which
\* addresses the heap hands out again, can hurt in no other way.
NeverUndefined ==
  /\ ended = "undefined" => given \cap doubtful # {}
  /\ \A a \in Actor : pc[a] # "load" => smpiOps /\ a \in bullOps

\* Addresses that a blocked MPI_Wait or MPI_Waitall has already forgotten
Forgotten ==
  UNION {{req[a][s] : s \in waiting[a].slots} :
           a \in {b \in Actor : waiting[b].call \in {"Wait", "Waitall"}}}

\* Apart from the doubtful ones, an SMPI request is in smpi_requests from the
\* end of the call that made it until it is deallocated or handed to the call
\* that deallocates it, and a request of the linked library never is: one call
\* does not erase the request of another, and the addresses that MPI_Waitany,
\* MPI_Waitsome and MPI_Request_free leave there stand for no other request.
RightlyTracked ==
  \A x \in Addr \ doubtful :
    /\ heap[x].impl = "smpi" => x \in smpiRequests \cup Pending("store") \cup Forgotten
    /\ heap[x].impl = "bull" => x \notin smpiRequests

\* Both implementations have the objects of the derived handles, and no
\* others: none is leaked and none is used after MPI_Comm_free or
\* MPI_Type_free.
FacesMatch ==
  /\ TypeOK
  /\ objects = UNION {derived[a][k] : a \in Actor, k \in Kinds}
=============================================================================
