------------------------- MODULE CountingEventProofs ------------------------
(***************************************************************************)
(* Proofs about CountingEvent for every number of counters, every set of   *)
(* actors and every set of thresholds.                                     *)
(***************************************************************************)
EXTENDS CountingEvent, FiniteSetTheorems, TLAPS

-----------------------------------------------------------------------------
(***************************************************************************)
(* Vectors after push_back and erase: what they contain, and how often.    *)
(***************************************************************************)
\* A set of indices that is not empty has a least element: the first match
\* of a walk through a list.
LEMMA MinProperties ==
  ASSUME NEW S \in SUBSET Nat, S # {}
  PROVE  Min(S) \in S /\ \A y \in S : Min(S) <= y
  <1> DEFINE R == OpToRel(<, Nat)
  <1>1. IsWellFoundedOn(R, Nat)
    BY NatLessThanWellFounded
  <1>2. \A x, y \in Nat : y < x => <<y, x>> \in R
    BY DEF OpToRel
  <1> HIDE DEF R
  <1>3. PICK x \in S : \A y \in S : ~(<<y, x>> \in R)
    BY <1>1, WFMin
  <1>4. ASSUME NEW y \in S
        PROVE  x <= y
    <2>1. ~(y < x)
      BY <1>2, <1>3
    <2> QED
      BY <2>1
  <1> QED
    BY <1>4 DEF Min

\* vector::erase at index j: what was behind j moves by one.
LEMMA RemoveAtProperties ==
  ASSUME NEW S, NEW s \in Seq(S), NEW j \in 1 .. Len(s)
  PROVE  /\ RemoveAt(s, j) \in Seq(S)
         /\ Len(RemoveAt(s, j)) = Len(s) - 1
         /\ \A i \in 1 .. Len(s) - 1 : RemoveAt(s, j)[i] = IF i < j THEN s[i] ELSE s[i + 1]
  <1> DEFINE a == SubSeq(s, 1, j - 1)
             b == SubSeq(s, j + 1, Len(s))
             r == RemoveAt(s, j)
  <1>1. a \in Seq(S) /\ Len(a) = j - 1 /\ \A i \in 1 .. j - 1 : a[i] = s[i]
    OBVIOUS
  <1>2. b \in Seq(S) /\ Len(b) = Len(s) - j /\ \A i \in 1 .. Len(s) - j : b[i] = s[j + i]
    OBVIOUS
  <1>3. r = a \o b
    BY DEF RemoveAt
  <1>4. Len(s) \in Nat
    OBVIOUS
  <1> HIDE DEF a, b, r
  <1>5. r \in Seq(S) /\ Len(r) = Len(s) - 1
    BY <1>1, <1>2, <1>3, <1>4
  <1>6. ASSUME NEW i \in 1 .. Len(s) - 1
        PROVE  r[i] = IF i < j THEN s[i] ELSE s[i + 1]
    <2>1. CASE i < j
      BY <1>1, <1>2, <1>3, <1>4, <2>1
    <2>2. CASE i >= j
      <3>1. r[i] = b[i - (j - 1)]
        BY <1>1, <1>2, <1>3, <1>4, <2>2
      <3>2. i - (j - 1) \in 1 .. Len(s) - j /\ j + (i - (j - 1)) = i + 1
        BY <1>4, <2>2
      <3> QED
        BY <1>2, <2>2, <3>1, <3>2
    <2> QED
      BY <1>4, <2>1, <2>2
  <1> QED
    BY <1>5, <1>6 DEF r

\* vector::erase adds nothing.
LEMMA RemoveAtContents ==
  ASSUME NEW S, NEW s \in Seq(S), NEW j \in 1 .. Len(s)
  PROVE  ToSet(RemoveAt(s, j)) \subseteq ToSet(s)
  <1> DEFINE r == RemoveAt(s, j)
  <1>1. r \in Seq(S) /\ Len(r) = Len(s) - 1 /\ Len(s) \in Nat
        /\ \A i \in 1 .. Len(s) - 1 : r[i] = IF i < j THEN s[i] ELSE s[i + 1]
    BY RemoveAtProperties
  <1> HIDE DEF r
  <1>2. ASSUME NEW i \in 1 .. Len(s) - 1
        PROVE  \E k \in 1 .. Len(s) : r[i] = s[k]
    <2>1. i \in 1 .. Len(s) /\ i + 1 \in 1 .. Len(s)
      BY <1>1
    <2> QED
      BY <1>1, <2>1
  <1>3. DOMAIN r = 1 .. Len(s) - 1 /\ DOMAIN s = 1 .. Len(s)
    BY <1>1
  <1>4. ToSet(r) \subseteq ToSet(s)
    BY <1>2, <1>3 DEF ToSet
  <1> QED
    BY <1>4 DEF r

\* The positions of a list that hold an element of T.
Positions(s, T) == {i \in 1 .. Len(s) : s[i] \in T}

\* A list has finitely many positions.
LEMMA PositionsFinite ==
  ASSUME NEW S, NEW s \in Seq(S), NEW T
  PROVE  IsFiniteSet(Positions(s, T)) /\ Cardinality(Positions(s, T)) \in Nat
  <1>1. Positions(s, T) \in SUBSET (1 .. Len(s)) /\ IsFiniteSet(1 .. Len(s))
    BY FS_Interval DEF Positions
  <1>2. IsFiniteSet(Positions(s, T))
    BY <1>1, FS_Subset
  <1> QED
    BY <1>2, FS_CardinalityType

\* push_back adds one to the number of the elements of its kind.
LEMMA PositionsAppend ==
  ASSUME NEW S, NEW s \in Seq(S), NEW e \in S, NEW T
  PROVE  Cardinality(Positions(Append(s, e), T))
           = Cardinality(Positions(s, T)) + IF e \in T THEN 1 ELSE 0
  <1> DEFINE n == Len(s) + 1
             P == Positions(s, T)
  <1>1. Len(s) \in Nat /\ Len(Append(s, e)) = n /\ Append(s, e)[n] = e
        /\ \A i \in 1 .. Len(s) : Append(s, e)[i] = s[i]
    OBVIOUS
  <1>2. IsFiniteSet(P) /\ Cardinality(P) \in Nat
    BY PositionsFinite
  <1>3. CASE e \in T
    <2>1. Positions(Append(s, e), T) = P \cup {n} /\ n \notin P
      BY <1>1, <1>3 DEF Positions
    <2> HIDE DEF P, n
    <2>2. Cardinality(P \cup {n}) = Cardinality(P) + 1
      BY <1>2, <2>1, FS_AddElement
    <2> QED
      BY <1>3, <2>1, <2>2 DEF P
  <1>4. CASE e \notin T
    <2>1. Positions(Append(s, e), T) = P
      BY <1>1, <1>4 DEF Positions
    <2> QED
      BY <1>2, <1>4, <2>1
  <1> QED
    BY <1>3, <1>4

\* erase takes one from the number of the elements of its kind.
LEMMA PositionsRemoveAt ==
  ASSUME NEW S, NEW s \in Seq(S), NEW j \in 1 .. Len(s), NEW T
  PROVE  Cardinality(Positions(RemoveAt(s, j), T))
           = Cardinality(Positions(s, T)) - IF s[j] \in T THEN 1 ELSE 0
  <1> DEFINE r == RemoveAt(s, j)
             P == Positions(s, T)
             Q == Positions(r, T)
             f == [i \in P \ {j} |-> IF i < j THEN i ELSE i - 1]
  <1>1. r \in Seq(S) /\ Len(r) = Len(s) - 1 /\ Len(s) \in Nat
        /\ \A i \in 1 .. Len(s) - 1 : r[i] = IF i < j THEN s[i] ELSE s[i + 1]
    BY RemoveAtProperties
  <1>2. IsFiniteSet(P) /\ Cardinality(P) \in Nat
    BY PositionsFinite
  <1> HIDE DEF r
  <1>3. f \in [P \ {j} -> Q]
    <2>1. ASSUME NEW i \in P \ {j}
          PROVE  (IF i < j THEN i ELSE i - 1) \in Q
      BY <1>1 DEF Positions
    <2> QED
      BY <2>1
  <1>4. \A i, k \in P \ {j} : f[i] = f[k] => i = k
    BY DEF Positions
  <1>5. ASSUME NEW q \in Q
        PROVE  \E i \in P \ {j} : f[i] = q
    <2>1. CASE q < j
      <3>1. q \in P \ {j} /\ f[q] = q
        BY <1>1, <2>1 DEF Positions
      <3> QED
        BY <3>1
    <2>2. CASE q >= j
      <3>1. q \in 1 .. Len(s) - 1 /\ r[q] \in T /\ r[q] = s[q + 1]
        BY <1>1, <2>2 DEF Positions
      <3>2. q + 1 \in P \ {j}
        BY <1>1, <2>2, <3>1 DEF Positions
      <3>3. f[q + 1] = q
        BY <2>2, <3>1, <3>2
      <3> QED
        BY <3>2, <3>3
    <2>3. q \in Int
      BY DEF Positions
    <2> QED
      BY <2>1, <2>2, <2>3
  <1>6. ExistsBijection(P \ {j}, Q)
    <2> HIDE DEF P, Q, f
    <2>1. DOMAIN f = P \ {j}
      BY <1>3
    <2>2. f \in Injection(P \ {j}, Q)
      BY <1>3, <1>4, <2>1 DEF Injection, IsInjective
    <2>3. f \in Surjection(P \ {j}, Q)
      BY <1>3, <1>5 DEF Surjection
    <2> QED
      BY <2>2, <2>3 DEF ExistsBijection, Bijection
  <1> HIDE DEF P, Q, f
  <1>7. IsFiniteSet(P \ {j}) /\ Cardinality(Q) = Cardinality(P \ {j})
    BY <1>2, <1>6, FS_RemoveElement, FS_Bijection
  <1>8. Cardinality(P \ {j}) = Cardinality(P) - IF j \in P THEN 1 ELSE 0
    <2>1. CASE j \in P
      BY <1>2, <2>1, FS_RemoveElement
    <2>2. CASE j \notin P
      <3>1. P \ {j} = P
        BY <2>2
      <3>2. Cardinality(P \ {j}) = Cardinality(P)
        BY <3>1, Zenon
      <3> QED
        BY <1>2, <2>2, <3>2
    <2> QED
      BY <2>1, <2>2
  <1>9. j \in P <=> s[j] \in T
    BY DEF P, Positions
  <1> QED
    BY <1>7, <1>8, <1>9 DEF P, Q, r

USE CountingAssumption

-----------------------------------------------------------------------------
(***************************************************************************)
(* Types.  A loop of on_update has a counter and a position; a poll has a  *)
(* number and a threshold for every counter.                               *)
(***************************************************************************)
LoopInv == \A u \in Updater : loop[u] # Idle => loop[u].ct \in CT /\ loop[u].at \in Nat \ {0}

PollInv == \A a \in Waiter : pc[a] = "polling" => polls[a] > 0 /\ goal[a] \in [CT -> Tests]

TypeInv == TypeOK /\ LoopInv /\ PollInv

\* The loop of u on counter c, at index i, wakes nobody any more.
Ends(u, c, i, s, f) ==
  /\ \A k \in i .. Len(waiting[c]) : waiting[c][k].test # s /\ ~(f > 0)
  /\ loop' = [loop EXCEPT ![u] = Idle]
  /\ UNCHANGED <<waiting, waiterVars>>

\* It wakes the waiter at index j, the first one whose test is passed.
Wakes(u, c, i, j, s, f) ==
  /\ j \in i .. Len(waiting[c])
  /\ waiting[c][j].test = s \/ f > 0
  /\ \A k \in i .. j - 1 : waiting[c][k].test # s /\ ~(f > 0)
  /\ waiting' = [waiting EXCEPT ![c] = RemoveAt(waiting[c], j)]
  /\ \E b \in BOOLEAN : loop' = [loop EXCEPT ![u] = [ct |-> c, at |-> j, blocked |-> b]]
  /\ pc' = IF waiting[c][j].poll = 0 THEN [pc EXCEPT ![waiting[c][j].actor] = "woken"] ELSE pc
  /\ UNCHANGED <<goal, polls, posted>>

\* One run of on_update up to a simcall ends the loop or wakes one waiter.
LEMMA UpdateCases ==
  ASSUME TypeInv, NEW u \in Updater, NEW c \in CT, NEW i \in Nat \ {0}, NEW s \in Nat,
         NEW f \in Nat, OnUpdate(u, c, i, s, f)
  PROVE  \/ Ends(u, c, i, s, f)
         \/ \E j \in 1 .. Len(waiting[c]) : Wakes(u, c, i, j, s, f)
  <1> DEFINE w == waiting[c]
             H == Hits(w, i, s, f)
             j == Min(H)
  <1>1. w \in Seq(Entry) /\ Len(w) \in Nat
    BY DEF TypeInv, TypeOK
  <1>2. CASE H = {}
    <2>1. \A k \in i .. Len(w) : w[k].test # s /\ ~(f > 0)
      BY <1>2 DEF Hits
    <2>2. loop' = [loop EXCEPT ![u] = Idle] /\ UNCHANGED <<waiting, waiterVars>>
      BY <1>2 DEF OnUpdate
    <2> QED
      BY <2>1, <2>2 DEF Ends
  <1>3. CASE H # {}
    <2>1. H \in SUBSET Nat
      BY <1>1 DEF Hits
    <2>2. j \in H /\ \A k \in H : j <= k
      BY <1>3, <2>1, MinProperties
    <2>3. /\ waiting' = [waiting EXCEPT ![c] = RemoveAt(w, j)]
          /\ loop' = [loop EXCEPT ![u] =
                        [ct |-> c, at |-> j, blocked |-> w[j].poll > 0 /\ ~Reads(w[j])]]
          /\ pc' = IF w[j].poll = 0 THEN [pc EXCEPT ![w[j].actor] = "woken"] ELSE pc
          /\ UNCHANGED <<goal, polls, posted>>
      BY <1>3 DEF OnUpdate, Erase
    <2> HIDE DEF j
    <2>4. j \in i .. Len(w) /\ j \in 1 .. Len(w) /\ (w[j].test = s \/ f > 0)
      BY <1>1, <2>2 DEF Hits
    <2>5. \A k \in i .. j - 1 : w[k].test # s /\ ~(f > 0)
      BY <1>1, <2>2, <2>4 DEF Hits
    <2>6. (w[j].poll > 0 /\ ~Reads(w[j])) \in BOOLEAN
      BY Zenon
    <2>7. \E b \in BOOLEAN : loop' = [loop EXCEPT ![u] = [ct |-> c, at |-> j, blocked |-> b]]
      BY <2>3, <2>6, Zenon
    <2>8. Wakes(u, c, i, j, s, f)
      BY <2>3, <2>4, <2>5, <2>7 DEF Wakes
    <2> QED
      BY <2>4, <2>8
  <1> QED
    BY <1>2, <1>3

\* The updates: a new value, or a loop that goes on with the old one.
Updates(u) ==
  \/ Continue(u)
  \/ \E c \in CT : \/ \E n \in Amounts : Increment(u, c, n)
                   \/ \E v \in SetValues : SetValue(u, c, v)
                   \/ Fail(u, c)

\* How an update of u changes counter c.
Changes(u, c, i) ==
  \/ /\ loop[u] # Idle /\ loop[u].ct = c /\ i = loop[u].at /\ ~loop[u].blocked
     /\ UNCHANGED <<success, failure>>
  \/ /\ loop[u] = Idle /\ i = 1
     /\ \A d \in CT : d # c => success'[d] = success[d] /\ failure'[d] = failure[d]
     /\ \/ success'[c] - success[c] \in Amounts /\ failure'[c] = failure[c]
        \/ success'[c] \in SetValues /\ failure'[c] = 0
        \/ failure'[c] = 1

\* An update is one run of on_update with the value the counter has after it.
LEMMA UpdaterCases ==
  ASSUME TypeInv, NEW u \in Updater, Updates(u)
  PROVE  /\ success' \in [CT -> 0 .. MaxSuccess] /\ failure' \in [CT -> {0, 1}]
         /\ \E c \in CT, i \in Nat \ {0} :
              /\ Changes(u, c, i)
              /\ \/ Ends(u, c, i, success'[c], failure'[c])
                 \/ \E j \in 1 .. Len(waiting[c]) : Wakes(u, c, i, j, success'[c], failure'[c])
  <1>1. success \in [CT -> 0 .. MaxSuccess] /\ failure \in [CT -> {0, 1}]
    BY DEF TypeInv, TypeOK
  <1>2. SUFFICES
          /\ success' \in [CT -> 0 .. MaxSuccess] /\ failure' \in [CT -> {0, 1}]
          /\ \E c \in CT, i \in Nat \ {0} :
               Changes(u, c, i) /\ OnUpdate(u, c, i, success'[c], failure'[c])
    <2>1. ASSUME NEW c \in CT, success' \in [CT -> 0 .. MaxSuccess], failure' \in [CT -> {0, 1}]
          PROVE  success'[c] \in Nat /\ failure'[c] \in Nat
      BY <2>1
    <2> QED
      BY <2>1, UpdateCases
  <1>3. CASE Continue(u)
    <2> DEFINE c == loop[u].ct
               i == loop[u].at
    <2>1. c \in CT /\ i \in Nat \ {0}
      BY <1>3 DEF Continue, TypeInv, LoopInv
    <2>2. OnUpdate(u, c, i, success[c], failure[c]) /\ UNCHANGED <<success, failure>>
      BY <1>3 DEF Continue
    <2>3. Changes(u, c, i)
      BY <1>3, <2>2 DEF Continue, Changes
    <2> QED
      BY <1>1, <2>1, <2>2, <2>3
  <1>4. ASSUME NEW c \in CT, NEW s \in Nat, NEW f \in {0, 1}, Update(u, c, s, f),
               \/ s - success[c] \in Amounts /\ f = failure[c]
               \/ s \in SetValues /\ f = 0
               \/ f = 1
        PROVE  /\ success' \in [CT -> 0 .. MaxSuccess] /\ failure' \in [CT -> {0, 1}]
               /\ Changes(u, c, 1) /\ OnUpdate(u, c, 1, success'[c], failure'[c])
    <2>1. /\ loop[u] = Idle /\ s <= MaxSuccess
          /\ success' = [success EXCEPT ![c] = s] /\ failure' = [failure EXCEPT ![c] = f]
          /\ OnUpdate(u, c, 1, s, f)
      BY <1>4 DEF Update
    <2>2. success'[c] = s /\ failure'[c] = f
      BY <1>1, <2>1
    <2>3. success' \in [CT -> 0 .. MaxSuccess] /\ failure' \in [CT -> {0, 1}]
      BY <1>1, <2>1
    <2>4. Changes(u, c, 1)
      BY <1>1, <1>4, <2>1, <2>2 DEF Changes
    <2> QED
      BY <2>1, <2>2, <2>3, <2>4
  <1>5. ASSUME NEW c \in CT, NEW n \in Amounts, Increment(u, c, n)
        PROVE  \E s \in Nat, f \in {0, 1} :
                 /\ Update(u, c, s, f)
                 /\ s - success[c] \in Amounts /\ f = failure[c]
    <2>1. success[c] + n \in Nat /\ (success[c] + n) - success[c] = n /\ failure[c] \in {0, 1}
      BY <1>1
    <2>2. Update(u, c, success[c] + n, failure[c])
      BY <1>5 DEF Increment
    <2> QED
      BY <2>1, <2>2
  <1>6. ASSUME NEW c \in CT, Fail(u, c)
        PROVE  success[c] \in Nat /\ Update(u, c, success[c], 1)
    BY <1>1, <1>6 DEF Fail
  <1>7. ASSUME NEW c \in CT, NEW v \in SetValues, SetValue(u, c, v)
        PROVE  v \in Nat /\ Update(u, c, v, 0)
    BY <1>7 DEF SetValue
  <1> QED
    BY <1>3, <1>4, <1>5, <1>6, <1>7 DEF Updates

\* The counters' vectors keep their type when an entry is pushed or erased.
LEMMA PushType ==
  ASSUME TypeInv, NEW c \in CT, NEW e \in Entry, Push(c, e)
  PROVE  waiting' \in [CT -> Seq(Entry)]
  <1>1. waiting \in [CT -> Seq(Entry)]
    BY DEF TypeInv, TypeOK
  <1>2. Append(waiting[c], e) \in Seq(Entry)
    BY <1>1
  <1> QED
    BY <1>1, <1>2 DEF Push

\* Waking a waiter keeps the types.
LEMMA WakesType ==
  ASSUME TypeInv, NEW u \in Updater, NEW c \in CT, NEW i \in Nat \ {0}, NEW s, NEW f,
         NEW j \in 1 .. Len(waiting[c]), Wakes(u, c, i, j, s, f)
  PROVE  /\ waiting[c][j] \in Entry
         /\ waiting' \in [CT -> Seq(Entry)]
         /\ loop' \in [Updater -> [ct : 0 .. Counters, at : Nat, blocked : BOOLEAN]]
         /\ LoopInv'
         /\ pc' \in [Waiter -> {"run", "suspended", "woken", "polling"}]
         /\ \A a \in Waiter : pc'[a] = "polling" => pc[a] = "polling"
  <1>1. waiting \in [CT -> Seq(Entry)] /\ waiting[c] \in Seq(Entry) /\ waiting[c][j] \in Entry
    BY DEF TypeInv, TypeOK
  <1>2. RemoveAt(waiting[c], j) \in Seq(Entry)
    BY <1>1, RemoveAtProperties
  <1>3. waiting' \in [CT -> Seq(Entry)]
    BY <1>1, <1>2 DEF Wakes
  <1>4. PICK b \in BOOLEAN : loop' = [loop EXCEPT ![u] = [ct |-> c, at |-> j, blocked |-> b]]
    BY DEF Wakes
  <1>5. loop' \in [Updater -> [ct : 0 .. Counters, at : Nat, blocked : BOOLEAN]]
    <2>1. [ct |-> c, at |-> j, blocked |-> b] \in [ct : 0 .. Counters, at : Nat, blocked : BOOLEAN]
      BY DEF CT
    <2> QED
      BY <1>4, <2>1 DEF TypeInv, TypeOK
  <1>6. LoopInv'
    <2>1. ASSUME NEW v \in Updater, loop'[v] # Idle
          PROVE  loop'[v].ct \in CT /\ loop'[v].at \in Nat \ {0}
      <3>1. CASE v = u
        <4>1. loop'[v] = [ct |-> c, at |-> j, blocked |-> b]
          BY <1>4, <3>1 DEF TypeInv, TypeOK
        <4> QED
          BY <4>1
      <3>2. CASE v # u
        BY <1>4, <2>1, <3>2 DEF TypeInv, TypeOK, LoopInv
      <3> QED
        BY <3>1, <3>2
    <2> QED
      BY <2>1 DEF LoopInv, CT
  <1>7. waiting[c][j].actor \in Waiter
    BY <1>1 DEF Entry
  <1>8. pc' \in [Waiter -> {"run", "suspended", "woken", "polling"}]
        /\ \A a \in Waiter : pc'[a] = "polling" => pc[a] = "polling"
    BY <1>7 DEF Wakes, TypeInv, TypeOK
  <1> QED
    BY <1>1, <1>3, <1>5, <1>6, <1>8

\* Every update keeps the types.
LEMMA UpdaterType ==
  ASSUME TypeInv, NEW u \in Updater, Updates(u)
  PROVE  TypeInv'
  <1>1. success' \in [CT -> 0 .. MaxSuccess] /\ failure' \in [CT -> {0, 1}]
    BY UpdaterCases
  <1>2. PICK c \in CT, i \in Nat \ {0} :
          \/ Ends(u, c, i, success'[c], failure'[c])
          \/ \E j \in 1 .. Len(waiting[c]) : Wakes(u, c, i, j, success'[c], failure'[c])
    BY UpdaterCases
  <1>3. CASE Ends(u, c, i, success'[c], failure'[c])
    <2>1. loop' = [loop EXCEPT ![u] = Idle] /\ UNCHANGED <<waiting, waiterVars>>
      BY <1>3 DEF Ends
    <2>2. loop' \in [Updater -> [ct : 0 .. Counters, at : Nat, blocked : BOOLEAN]]
      BY <2>1 DEF TypeInv, TypeOK, Idle
    <2>3. LoopInv'
      BY <2>1 DEF TypeInv, TypeOK, LoopInv, CT
    <2> QED
      BY <1>1, <2>1, <2>2, <2>3 DEF TypeInv, TypeOK, PollInv, waiterVars
  <1>4. ASSUME NEW j \in 1 .. Len(waiting[c]), Wakes(u, c, i, j, success'[c], failure'[c])
        PROVE  TypeInv'
    <2>1. /\ waiting' \in [CT -> Seq(Entry)]
          /\ loop' \in [Updater -> [ct : 0 .. Counters, at : Nat, blocked : BOOLEAN]]
          /\ LoopInv'
          /\ pc' \in [Waiter -> {"run", "suspended", "woken", "polling"}]
          /\ \A a \in Waiter : pc'[a] = "polling" => pc[a] = "polling"
      BY <1>4, WakesType
    <2>2. UNCHANGED <<goal, polls, posted>>
      BY <1>4 DEF Wakes
    <2>3. PollInv'
      BY <2>1, <2>2 DEF TypeInv, PollInv
    <2> QED
      BY <1>1, <2>1, <2>2, <2>3 DEF TypeInv, TypeOK
  <1> QED
    BY <1>2, <1>3, <1>4

\* The entries that PtlCTWait and PtlCTPoll push, and the thresholds.
LEMMA WaitEntry ==
  ASSUME NEW a \in Waiter, NEW c \in CT, NEW t \in Tests
  PROVE  /\ [actor |-> a, poll |-> 0, test |-> t] \in Entry
         /\ [NoGoal EXCEPT ![c] = t] \in [CT -> Tests \cup {0}]
         /\ NoGoal \in [CT -> Tests \cup {0}]
  BY DEF Entry, NoGoal

\* PtlCTWait and its return keep the types.
LEMMA WaitType ==
  ASSUME TypeInv, NEW a \in Waiter,
         \/ \E c \in CT, t \in Tests : Wait(a, c, t)
         \/ WaitReturn(a)
  PROVE  TypeInv'
  <1>1. ASSUME NEW c \in CT, NEW t \in Tests, Wait(a, c, t)
        PROVE  TypeInv'
    <2>1. waiting' \in [CT -> Seq(Entry)]
      BY <1>1, WaitEntry, PushType DEF Wait
    <2>2. goal' \in [Waiter -> [CT -> Tests \cup {0}]]
      BY <1>1, WaitEntry DEF Wait, TypeInv, TypeOK
    <2>3. pc' \in [Waiter -> {"run", "suspended", "woken", "polling"}]
      BY <1>1 DEF Wait, TypeInv, TypeOK
    <2>4. PollInv' /\ LoopInv'
      BY <1>1 DEF Wait, TypeInv, TypeOK, PollInv, LoopInv
    <2> QED
      BY <1>1, <2>1, <2>2, <2>3, <2>4 DEF Wait, TypeInv, TypeOK
  <1>2. CASE WaitReturn(a)
    <2>1. goal' \in [Waiter -> [CT -> Tests \cup {0}]]
      BY <1>2 DEF NoGoal, WaitReturn, TypeInv, TypeOK
    <2>2. pc' \in [Waiter -> {"run", "suspended", "woken", "polling"}]
      BY <1>2 DEF WaitReturn, TypeInv, TypeOK
    <2>3. PollInv' /\ LoopInv'
      BY <1>2 DEF WaitReturn, TypeInv, TypeOK, PollInv, LoopInv
    <2> QED
      BY <1>2, <2>1, <2>2, <2>3 DEF WaitReturn, TypeInv, TypeOK
  <1> QED
    BY <1>1, <1>2

\* The entry of a poll has its number, which is not 0.
LEMMA PollEntry ==
  ASSUME TypeInv, NEW a \in Waiter
  PROVE  /\ \A g \in [CT -> Tests] : [actor |-> a, poll |-> polls[a] + 1, test |-> g[1]] \in Entry
         /\ pc[a] = "polling" =>
              \A k \in CT : [actor |-> a, poll |-> polls[a], test |-> goal[a][k]] \in Entry
         /\ polls[a] \in Nat /\ 1 \in CT
  <1>1. polls[a] \in Nat /\ 1 \in CT
    BY DEF TypeInv, TypeOK, CT
  <1> QED
    BY <1>1 DEF Entry, TypeInv, PollInv

\* PtlCTPoll, joining the counters and its return keep the types.
LEMMA PollType ==
  ASSUME TypeInv, NEW a \in Waiter,
         \/ \E g \in [CT -> Tests] : Poll(a, g)
         \/ PollPost(a)
         \/ PollReturn(a)
  PROVE  TypeInv'
  <1>1. ASSUME NEW g \in [CT -> Tests], Poll(a, g)
        PROVE  TypeInv'
    <2>1. waiting' \in [CT -> Seq(Entry)]
      BY <1>1, PollEntry, PushType DEF Poll
    <2>2. goal' \in [Waiter -> [CT -> Tests \cup {0}]]
      BY <1>1 DEF Poll, TypeInv, TypeOK
    <2>3. pc' \in [Waiter -> {"run", "suspended", "woken", "polling"}]
      BY <1>1 DEF Poll, TypeInv, TypeOK
    <2>4. polls' \in [Waiter -> 0 .. MaxPolls]
      <3>1. polls[a] + 1 \in 0 .. MaxPolls
        BY <1>1, PollEntry DEF Poll
      <3> QED
        BY <1>1, <3>1 DEF Poll, TypeInv, TypeOK
    <2>5. posted' \in [Waiter -> 0 .. Counters]
      BY <1>1 DEF Poll, TypeInv, TypeOK
    <2>6. PollInv'
      BY <1>1, PollEntry DEF Poll, TypeInv, TypeOK, PollInv
    <2>7. LoopInv'
      BY <1>1 DEF Poll, TypeInv, LoopInv
    <2> QED
      BY <1>1, <2>1, <2>2, <2>3, <2>4, <2>5, <2>6, <2>7 DEF Poll, TypeInv, TypeOK
  <1>2. CASE PollPost(a)
    <2> DEFINE k == posted[a] + 1
    <2>1. k \in CT /\ pc[a] = "polling" /\ Push(k, [actor |-> a, poll |-> polls[a], test |-> goal[a][k]])
      BY <1>2 DEF PollPost
    <2>2. waiting' \in [CT -> Seq(Entry)]
      BY <2>1, PollEntry, PushType
    <2>3. posted' \in [Waiter -> 0 .. Counters]
      BY <1>2, <2>1 DEF PollPost, TypeInv, TypeOK, CT
    <2>4. PollInv' /\ LoopInv'
      BY <1>2 DEF PollPost, TypeInv, PollInv, LoopInv
    <2> QED
      BY <1>2, <2>2, <2>3, <2>4 DEF PollPost, TypeInv, TypeOK
  <1>3. CASE PollReturn(a)
    <2>1. goal' \in [Waiter -> [CT -> Tests \cup {0}]]
      BY <1>3 DEF NoGoal, PollReturn, TypeInv, TypeOK
    <2>2. pc' \in [Waiter -> {"run", "suspended", "woken", "polling"}]
          /\ posted' \in [Waiter -> 0 .. Counters]
      BY <1>3 DEF PollReturn, TypeInv, TypeOK
    <2>3. PollInv' /\ LoopInv'
      BY <1>3 DEF PollReturn, TypeInv, TypeOK, PollInv, LoopInv
    <2> QED
      BY <1>3, <2>1, <2>2, <2>3 DEF PollReturn, TypeInv, TypeOK
  <1> QED
    BY <1>1, <1>2, <1>3

\* Every step keeps the types.
LEMMA TypeStep ==
  ASSUME TypeInv, [Next]_vars
  PROVE  TypeInv'
  <1>1. CASE UNCHANGED vars
    BY <1>1 DEF vars, TypeInv, TypeOK, LoopInv, PollInv
  <1> QED
    BY <1>1, UpdaterType, WaitType, PollType DEF Next, Updates

\* The types hold initially.
LEMMA TypeInit ==
  ASSUME Init
  PROVE  TypeInv
  <1>1. TypeOK
    BY DEF Init, TypeOK, Idle, NoGoal
  <1> QED
    BY <1>1 DEF Init, TypeInv, LoopInv, PollInv

-----------------------------------------------------------------------------
(***************************************************************************)
(* The actors suspended by PtlCTWait are exactly those in the vectors,     *)
(* each once, with the threshold it asked for.                             *)
(***************************************************************************)
Mine(a) == {e \in Entry : e.actor = a /\ e.poll = 0}

Listed(a, c) == Cardinality(Positions(waiting[c], Mine(a)))

ListedInv ==
  \A a \in Waiter, c \in CT :
    Listed(a, c) = IF pc[a] = "suspended" /\ goal[a][c] > 0 THEN 1 ELSE 0

GoalInv ==
  \A a \in Waiter : pc[a] = "suspended" =>
    \A c, d \in CT : goal[a][c] > 0 /\ goal[a][d] > 0 => c = d

TestInv ==
  \A c \in CT : \A e \in ToSet(waiting[c]) : e.poll = 0 => goal[e.actor][c] = e.test

WaitInv == ListedInv /\ GoalInv /\ TestInv

\* The owner of an entry is suspended, for the counter of the vector.
LEMMA OnlySuspended ==
  ASSUME TypeInv, ListedInv, NEW c \in CT, NEW e \in ToSet(waiting[c]), e.poll = 0
  PROVE  /\ e \in Entry /\ e.actor \in Waiter
         /\ pc[e.actor] = "suspended" /\ goal[e.actor][c] > 0
  <1>1. waiting[c] \in Seq(Entry)
    BY DEF TypeInv, TypeOK
  <1>2. PICK k \in 1 .. Len(waiting[c]) : waiting[c][k] = e
    BY <1>1 DEF ToSet
  <1>3. e \in Entry /\ e.actor \in Waiter
    <2>1. e \in Entry
      BY <1>1, <1>2
    <2> QED
      BY <2>1 DEF Entry
  <1>4. k \in Positions(waiting[c], Mine(e.actor))
    BY <1>2, <1>3 DEF Positions, Mine
  <1>5. IsFiniteSet(Positions(waiting[c], Mine(e.actor)))
    BY <1>1, PositionsFinite
  <1>6. Listed(e.actor, c) # 0
    BY <1>4, <1>5, FS_EmptySet DEF Listed
  <1> QED
    BY <1>3, <1>6 DEF ListedInv

\* Pushing an entry of a poll lists nobody.
LEMMA PushPoll ==
  ASSUME TypeInv, NEW c \in CT, NEW e \in Entry, e.poll # 0, Push(c, e), NEW a \in Waiter, NEW d \in CT
  PROVE  Listed(a, d)' = Listed(a, d)
  <1>1. waiting \in [CT -> Seq(Entry)]
    BY DEF TypeInv, TypeOK
  <1>2. CASE d = c
    <2>1. waiting'[c] = Append(waiting[c], e)
      BY <1>1 DEF Push
    <2>2. e \notin Mine(a)
      BY DEF Mine
    <2>3. Listed(a, c)' = Listed(a, c) + 0
      BY <1>1, <2>1, <2>2, PositionsAppend DEF Listed
    <2>4. Listed(a, c) \in Nat
      BY <1>1, PositionsFinite DEF Listed
    <2> QED
      BY <1>2, <2>3, <2>4
  <1>3. CASE d # c
    BY <1>1, <1>3 DEF Push, Listed
  <1> QED
    BY <1>2, <1>3

\* What a vector contains after a push.
LEMMA PushContents ==
  ASSUME TypeInv, NEW c \in CT, NEW e \in Entry, Push(c, e), NEW d \in CT
  PROVE  ToSet(waiting'[d]) \subseteq ToSet(waiting[d]) \cup (IF d = c THEN {e} ELSE {})
  <1>1. waiting \in [CT -> Seq(Entry)]
    BY DEF TypeInv, TypeOK
  <1>2. CASE d = c
    <2>1. waiting'[d] = Append(waiting[d], e) /\ waiting[d] \in Seq(Entry)
      BY <1>1, <1>2 DEF Push
    <2>2. ToSet(Append(waiting[d], e)) \subseteq ToSet(waiting[d]) \cup {e}
      BY <2>1 DEF ToSet
    <2> QED
      BY <1>2, <2>1, <2>2
  <1>3. CASE d # c
    BY <1>1, <1>3 DEF Push
  <1> QED
    BY <1>2, <1>3

\* on_update unlists the waiter it wakes, and nobody else.
LEMMA WakesWait ==
  ASSUME TypeInv, WaitInv, NEW u \in Updater, NEW c \in CT, NEW i \in Nat \ {0}, NEW s, NEW f,
         NEW j \in 1 .. Len(waiting[c]), Wakes(u, c, i, j, s, f)
  PROVE  WaitInv'
  <1> DEFINE e == waiting[c][j]
  <1>1. /\ waiting \in [CT -> Seq(Entry)] /\ waiting[c] \in Seq(Entry) /\ e \in Entry
        /\ pc \in [Waiter -> {"run", "suspended", "woken", "polling"}]
    BY DEF TypeInv, TypeOK
  <1>2. /\ waiting' = [waiting EXCEPT ![c] = RemoveAt(waiting[c], j)]
        /\ pc' = IF e.poll = 0 THEN [pc EXCEPT ![e.actor] = "woken"] ELSE pc
        /\ goal' = goal
    BY DEF Wakes
  <1>3. e \in ToSet(waiting[c])
    BY <1>1 DEF ToSet
  <1>4. e.actor \in Waiter /\ e.poll \in Nat
    BY <1>1 DEF Entry
  <1> HIDE DEF e
  <1>5. ASSUME NEW a \in Waiter, NEW d \in CT
        PROVE  Listed(a, d)' = Listed(a, d) - IF d = c /\ e \in Mine(a) THEN 1 ELSE 0
    <2>1. CASE d = c
      <3>1. waiting'[c] = RemoveAt(waiting[c], j)
        BY <1>1, <1>2
      <3> QED
        BY <1>1, <2>1, <3>1, PositionsRemoveAt DEF Listed, e
    <2>2. CASE d # c
      <3>1. waiting'[d] = waiting[d]
        BY <1>1, <1>2, <2>2
      <3>2. Listed(a, d)' = Listed(a, d)
        BY <3>1 DEF Listed, Positions, Mine
      <3>3. Listed(a, d) \in Nat
        BY <1>1, PositionsFinite DEF Listed
      <3> QED
        BY <2>2, <3>2, <3>3
    <2> QED
      BY <2>1, <2>2
  <1>6. ListedInv'
    <2>1. ASSUME NEW a \in Waiter, NEW d \in CT
          PROVE  Listed(a, d)' = IF pc'[a] = "suspended" /\ goal[a][d] > 0 THEN 1 ELSE 0
      <3>1. Listed(a, d) = IF pc[a] = "suspended" /\ goal[a][d] > 0 THEN 1 ELSE 0
        BY DEF WaitInv, ListedInv
      <3>2. CASE e \notin Mine(a)
        <4>1. pc'[a] = pc[a]
          BY <1>1, <1>2, <1>4, <3>2 DEF Mine
        <4> QED
          BY <1>5, <3>1, <3>2, <4>1
      <3>3. CASE e \in Mine(a)
        <4>1. e.actor = a /\ e.poll = 0 /\ pc'[a] = "woken"
          BY <1>1, <1>2, <1>4, <3>3 DEF Mine
        <4>2. pc[a] = "suspended" /\ goal[a][c] > 0
          BY <1>3, <4>1, OnlySuspended DEF WaitInv
        <4>3. d # c => ~(goal[a][d] > 0)
          BY <4>2 DEF WaitInv, GoalInv
        <4> QED
          BY <1>5, <3>1, <3>3, <4>1, <4>2, <4>3
      <3> QED
        BY <3>2, <3>3
    <2> QED
      BY <1>2, <2>1 DEF ListedInv
  <1>7. GoalInv'
    BY <1>1, <1>2, <1>4 DEF WaitInv, GoalInv
  <1>8. TestInv'
    <2>1. ToSet(RemoveAt(waiting[c], j)) \subseteq ToSet(waiting[c])
      BY <1>1, RemoveAtContents
    <2>2. \A d \in CT : ToSet(waiting'[d]) \subseteq ToSet(waiting[d])
      BY <1>1, <1>2, <2>1
    <2> QED
      BY <1>2, <2>2 DEF WaitInv, TestInv
  <1> QED
    BY <1>6, <1>7, <1>8 DEF WaitInv

\* An update keeps the listing.
LEMMA UpdaterWait ==
  ASSUME TypeInv, WaitInv, NEW u \in Updater, Updates(u)
  PROVE  WaitInv'
  <1>1. PICK c \in CT, i \in Nat \ {0} :
          \/ Ends(u, c, i, success'[c], failure'[c])
          \/ \E j \in 1 .. Len(waiting[c]) : Wakes(u, c, i, j, success'[c], failure'[c])
    BY UpdaterCases
  <1>2. CASE Ends(u, c, i, success'[c], failure'[c])
    <2>1. waiting' = waiting /\ pc' = pc /\ goal' = goal
      BY <1>2 DEF Ends, waiterVars
    <2> QED
      BY <2>1 DEF WaitInv, ListedInv, GoalInv, TestInv, Listed
  <1> QED
    BY <1>1, <1>2, WakesWait

\* An actor that leaves "run" or comes back to it is not listed, so that its
\* new thresholds contradict no entry.
LEMMA NewGoal ==
  ASSUME TypeInv, WaitInv, NEW a \in Waiter, pc[a] # "suspended", NEW g, NEW p, p # "suspended",
         goal' = [goal EXCEPT ![a] = g], pc' = [pc EXCEPT ![a] = p],
         \A b \in Waiter, d \in CT : Listed(b, d)' = Listed(b, d),
         \A d \in CT : \A e \in ToSet(waiting'[d]) : e.poll = 0 => e \in ToSet(waiting[d])
  PROVE  WaitInv'
  <1>1. goal \in [Waiter -> [CT -> Tests \cup {0}]]
        /\ pc \in [Waiter -> {"run", "suspended", "woken", "polling"}]
    BY DEF TypeInv, TypeOK
  <1>2. pc'[a] # "suspended" /\ \A b \in Waiter : b # a => pc'[b] = pc[b] /\ goal'[b] = goal[b]
    BY <1>1
  <1>3. ListedInv'
    BY <1>2 DEF WaitInv, ListedInv
  <1>4. GoalInv'
    BY <1>2 DEF WaitInv, GoalInv
  <1>5. TestInv'
    <2>1. ASSUME NEW d \in CT, NEW e \in ToSet(waiting'[d]), e.poll = 0
          PROVE  goal'[e.actor][d] = e.test
      <3>1. e \in ToSet(waiting[d])
        BY <2>1
      <3>2. e.actor \in Waiter /\ e.actor # a
        BY <2>1, <3>1, OnlySuspended DEF WaitInv
      <3> QED
        BY <1>2, <2>1, <3>1, <3>2 DEF WaitInv, TestInv
    <2> QED
      BY <2>1 DEF TestInv
  <1> QED
    BY <1>3, <1>4, <1>5 DEF WaitInv

\* PtlCTWait lists its actor.
LEMMA WaitWait ==
  ASSUME TypeInv, WaitInv, NEW a \in Waiter, NEW c \in CT, NEW t \in Tests, Wait(a, c, t)
  PROVE  WaitInv'
  <1> DEFINE e == [actor |-> a, poll |-> 0, test |-> t]
             g == [NoGoal EXCEPT ![c] = t]
  <1>1. /\ e \in Entry /\ e.actor = a /\ e.poll = 0 /\ e.test = t /\ t > 0
        /\ g[c] = t /\ \A d \in CT : d # c => g[d] = 0
    BY WaitEntry DEF NoGoal
  <1>2. /\ pc[a] = "run" /\ pc' = [pc EXCEPT ![a] = "suspended"]
        /\ goal' = [goal EXCEPT ![a] = g] /\ Push(c, e)
    BY DEF Wait
  <1> HIDE DEF e, g
  <1>3. /\ waiting \in [CT -> Seq(Entry)] /\ goal \in [Waiter -> [CT -> Tests \cup {0}]]
        /\ pc \in [Waiter -> {"run", "suspended", "woken", "polling"}]
    BY DEF TypeInv, TypeOK
  <1>4. /\ pc'[a] = "suspended" /\ goal'[a] = g
        /\ \A b \in Waiter : b # a => pc'[b] = pc[b] /\ goal'[b] = goal[b]
    BY <1>2, <1>3
  <1>5. ListedInv'
    <2>1. ASSUME NEW b \in Waiter, NEW d \in CT
          PROVE  Listed(b, d)' = Listed(b, d) + IF d = c /\ b = a THEN 1 ELSE 0
      <3>1. Listed(b, d) \in Nat
        BY <1>3, PositionsFinite DEF Listed
      <3>2. CASE d = c
        <4>1. waiting'[c] = Append(waiting[c], e)
          BY <1>2, <1>3 DEF Push
        <4>2. e \in Mine(b) <=> b = a
          BY <1>1 DEF Mine
        <4> QED
          BY <1>1, <1>3, <3>2, <4>1, <4>2, PositionsAppend DEF Listed
      <3>3. CASE d # c
        <4>1. waiting'[d] = waiting[d]
          BY <1>2, <1>3, <3>3 DEF Push
        <4>2. Listed(b, d)' = Listed(b, d)
          BY <4>1 DEF Listed, Positions, Mine
        <4> QED
          BY <3>1, <3>3, <4>2
      <3> QED
        BY <3>2, <3>3
    <2>2. ASSUME NEW b \in Waiter, NEW d \in CT
          PROVE  Listed(b, d)' = IF pc'[b] = "suspended" /\ goal'[b][d] > 0 THEN 1 ELSE 0
      <3>1. Listed(b, d) = IF pc[b] = "suspended" /\ goal[b][d] > 0 THEN 1 ELSE 0
        BY DEF WaitInv, ListedInv
      <3>2. CASE b = a
        BY <1>1, <1>2, <1>4, <2>1, <3>1, <3>2
      <3>3. CASE b # a
        BY <1>4, <2>1, <3>1, <3>3
      <3> QED
        BY <3>2, <3>3
    <2> QED
      BY <2>2 DEF ListedInv
  <1>6. GoalInv'
    BY <1>1, <1>4 DEF WaitInv, GoalInv
  <1>7. TestInv'
    <2>1. ASSUME NEW d \in CT, NEW x \in ToSet(waiting'[d]), x.poll = 0
          PROVE  goal'[x.actor][d] = x.test
      <3>1. x \in ToSet(waiting[d]) \/ (d = c /\ x = e)
        BY <1>1, <1>2, PushContents
      <3>2. CASE x \in ToSet(waiting[d])
        <4>1. x.actor \in Waiter /\ x.actor # a
          BY <1>2, <2>1, <3>2, OnlySuspended DEF WaitInv
        <4> QED
          BY <1>4, <2>1, <3>2, <4>1 DEF WaitInv, TestInv
      <3>3. CASE d = c /\ x = e
        BY <1>1, <1>4, <3>3
      <3> QED
        BY <3>1, <3>2, <3>3
    <2> QED
      BY <2>1 DEF TestInv
  <1> QED
    BY <1>5, <1>6, <1>7 DEF WaitInv

\* Every step keeps the listing.
LEMMA WaitStep ==
  ASSUME TypeInv, WaitInv, [Next]_vars
  PROVE  WaitInv'
  <1>1. ASSUME NEW a \in Waiter, WaitReturn(a)
        PROVE  WaitInv'
    <2>1. waiting' = waiting /\ pc[a] = "woken" /\ pc' = [pc EXCEPT ![a] = "run"]
          /\ goal' = [goal EXCEPT ![a] = NoGoal]
      BY <1>1 DEF WaitReturn
    <2>2. \A b \in Waiter, d \in CT : Listed(b, d)' = Listed(b, d)
      BY <2>1 DEF Listed
    <2> QED
      BY <2>1, <2>2, NewGoal
  <1>2. ASSUME NEW a \in Waiter, NEW g \in [CT -> Tests], Poll(a, g)
        PROVE  WaitInv'
    <2> DEFINE e == [actor |-> a, poll |-> polls[a] + 1, test |-> g[1]]
    <2>1. e \in Entry /\ 1 \in CT /\ e.poll # 0
      BY PollEntry
    <2>2. pc[a] = "run" /\ pc' = [pc EXCEPT ![a] = "polling"]
          /\ goal' = [goal EXCEPT ![a] = g] /\ Push(1, e)
      BY <1>2 DEF Poll
    <2> HIDE DEF e
    <2>3. \A b \in Waiter, d \in CT : Listed(b, d)' = Listed(b, d)
      BY <2>1, <2>2, PushPoll
    <2>4. \A d \in CT : \A x \in ToSet(waiting'[d]) : x.poll = 0 => x \in ToSet(waiting[d])
      BY <2>1, <2>2, PushContents
    <2> QED
      BY <2>2, <2>3, <2>4, NewGoal
  <1>3. ASSUME NEW a \in Waiter, PollPost(a)
        PROVE  WaitInv'
    <2> DEFINE k == posted[a] + 1
               e == [actor |-> a, poll |-> polls[a], test |-> goal[a][k]]
    <2>1. k \in CT /\ pc[a] = "polling" /\ Push(k, e) /\ pc' = pc /\ goal' = goal
      BY <1>3 DEF PollPost
    <2>2. e \in Entry /\ e.poll # 0
      BY <2>1, PollEntry DEF TypeInv, PollInv
    <2> HIDE DEF e, k
    <2>3. \A b \in Waiter, d \in CT : Listed(b, d)' = Listed(b, d)
      BY <2>1, <2>2, PushPoll
    <2>4. \A d \in CT : \A x \in ToSet(waiting'[d]) : x.poll = 0 => x \in ToSet(waiting[d])
      BY <2>1, <2>2, PushContents
    <2> QED
      BY <2>1, <2>3, <2>4 DEF WaitInv, ListedInv, GoalInv, TestInv
  <1>4. ASSUME NEW a \in Waiter, PollReturn(a)
        PROVE  WaitInv'
    <2>1. waiting' = waiting /\ pc[a] = "polling" /\ pc' = [pc EXCEPT ![a] = "run"]
          /\ goal' = [goal EXCEPT ![a] = NoGoal]
      BY <1>4 DEF PollReturn
    <2>2. \A b \in Waiter, d \in CT : Listed(b, d)' = Listed(b, d)
      BY <2>1 DEF Listed
    <2> QED
      BY <2>1, <2>2, NewGoal
  <1>5. CASE UNCHANGED vars
    BY <1>5 DEF vars, WaitInv, ListedInv, GoalInv, TestInv, Listed
  <1> QED
    BY <1>1, <1>2, <1>3, <1>4, <1>5, UpdaterWait, WaitWait DEF Next, Updates

\* Initially nobody waits.
LEMMA WaitInit ==
  ASSUME Init
  PROVE  WaitInv
  <1>1. \A a \in Waiter, c \in CT : Positions(waiting[c], Mine(a)) = {}
    BY DEF Init, Positions
  <1>2. \A a \in Waiter, c \in CT : Listed(a, c) = 0
    BY <1>1, FS_EmptySet DEF Listed
  <1>3. \A c \in CT : ToSet(waiting[c]) = {}
    BY DEF Init, ToSet
  <1>4. \A a \in Waiter : pc[a] = "run"
    BY DEF Init
  <1> QED
    BY <1>2, <1>3, <1>4 DEF WaitInv, ListedInv, GoalInv, TestInv

\* BxiCT::wait suspends an actor and on_update resumes it: at any time an
\* actor is suspended if and only if it is in the vector of its counter, once,
\* whatever updates, polls and waits other actors make in between.
THEOREM SuspendedListed == Spec => []SuspendedIsListed
  <1>1. Init => TypeInv /\ WaitInv
    BY TypeInit, WaitInit
  <1>2. TypeInv /\ WaitInv /\ [Next]_vars => (TypeInv /\ WaitInv)'
    BY TypeStep, WaitStep
  <1>3. TypeInv /\ WaitInv => SuspendedIsListed
    <2> DEFINE Own(a, c) == {i \in 1 .. Len(waiting[c]) : waiting[c][i].actor = a
                                                           /\ waiting[c][i].poll = 0}
    <2>1. ASSUME TypeInv, NEW a \in Waiter, NEW c \in CT
          PROVE  Own(a, c) = Positions(waiting[c], Mine(a))
      <3>1. waiting[c] \in Seq(Entry)
        BY <2>1 DEF TypeInv, TypeOK
      <3>2. \A i \in 1 .. Len(waiting[c]) : waiting[c][i] \in Entry
        BY <3>1
      <3> QED
        BY <3>2 DEF Positions, Mine
    <2>2. ASSUME TypeInv, WaitInv, NEW a \in Waiter, NEW c \in CT
          PROVE  Cardinality(Own(a, c)) = IF pc[a] = "suspended" /\ goal[a][c] > 0 THEN 1 ELSE 0
      <3> HIDE DEF Own
      <3>1. Cardinality(Own(a, c)) = Listed(a, c)
        BY <2>1, <2>2 DEF Listed
      <3> QED
        BY <2>2, <3>1 DEF WaitInv, ListedInv
    <2> QED
      BY <2>2 DEF SuspendedIsListed, TypeInv
  <1> QED
    BY <1>1, <1>2, <1>3, PTL DEF Spec

-----------------------------------------------------------------------------
(***************************************************************************)
(* Who is woken has a reason to be.                                        *)
(***************************************************************************)
\* Only on_update ends a suspension, of the actor of the entry it erases,
\* with the value that the counter has then.
LEMMA WokenStep ==
  ASSUME TypeInv, WaitInv, [Next]_vars,
         NEW a \in Waiter, pc[a] = "suspended", pc'[a] # "suspended"
  PROVE  \E c \in CT : goal[a][c] > 0 /\ Reached(c, goal[a][c])'
  <1>1. pc \in [Waiter -> {"run", "suspended", "woken", "polling"}]
    BY DEF TypeInv, TypeOK
  <1>2. \E u \in Updater : Updates(u)
    <2>1. ~UNCHANGED vars
      BY DEF vars
    <2>2. ASSUME NEW b \in Waiter, \/ \E c \in CT, t \in Tests : Wait(b, c, t)
                                   \/ WaitReturn(b)
                                   \/ \E g \in [CT -> Tests] : Poll(b, g)
                                   \/ PollPost(b)
                                   \/ PollReturn(b)
          PROVE  pc'[a] = pc[a]
      BY <1>1, <2>2 DEF Wait, WaitReturn, Poll, PollPost, PollReturn
    <2> QED
      BY <2>1, <2>2 DEF Next, Updates
  <1>3. PICK u \in Updater : Updates(u)
    BY <1>2
  <1>4. PICK c \in CT, i \in Nat \ {0} :
          \/ Ends(u, c, i, success'[c], failure'[c])
          \/ \E j \in 1 .. Len(waiting[c]) : Wakes(u, c, i, j, success'[c], failure'[c])
    BY <1>3, UpdaterCases
  <1>5. CASE Ends(u, c, i, success'[c], failure'[c])
    BY <1>5 DEF Ends, waiterVars
  <1>6. ASSUME NEW j \in 1 .. Len(waiting[c]), Wakes(u, c, i, j, success'[c], failure'[c])
        PROVE  goal[a][c] > 0 /\ Reached(c, goal[a][c])'
    <2> DEFINE e == waiting[c][j]
    <2>1. e \in Entry /\ e \in ToSet(waiting[c])
      BY DEF ToSet, TypeInv, TypeOK
    <2>2. /\ e.test = success'[c] \/ failure'[c] > 0
          /\ pc' = IF e.poll = 0 THEN [pc EXCEPT ![e.actor] = "woken"] ELSE pc
          /\ goal' = goal
      BY <1>6 DEF Wakes
    <2> HIDE DEF e
    <2>3. e.poll = 0 /\ e.actor = a
      BY <1>1, <2>1, <2>2 DEF Entry
    <2>4. goal[a][c] > 0 /\ goal[a][c] = e.test
      BY <2>1, <2>3, OnlySuspended DEF WaitInv, TestInv
    <2>5. success'[c] \in Nat
      BY <1>3, UpdaterCases
    <2> QED
      BY <2>2, <2>4, <2>5 DEF Reached
  <1> QED
    BY <1>4, <1>5, <1>6

\* on_update resumes an actor only when the counter has the value that its
\* PtlCTWait asked for, or a failure: also when the counter changed between
\* two steps of the loop, and whoever else is in the vector.
THEOREM WokenWithReason == Spec => WokenForAReason
  <1>1. Init => TypeInv /\ WaitInv
    BY TypeInit, WaitInit
  <1>2. TypeInv /\ WaitInv /\ [Next]_vars => (TypeInv /\ WaitInv)'
    BY TypeStep, WaitStep
  <1>3. TypeInv /\ WaitInv /\ [Next]_vars =>
          [\A a \in Waiter : pc[a] = "suspended" /\ pc'[a] # "suspended" =>
              \E c \in CT : goal[a][c] > 0 /\ Reached(c, goal[a][c])']_vars
    BY WokenStep
  <1> QED
    BY <1>1, <1>2, <1>3, PTL DEF Spec, WokenForAReason

-----------------------------------------------------------------------------
(***************************************************************************)
(* Who waits for the value that the counter has is still ahead of a loop.  *)
(* The invariant is inductive as it stands: a loop that wakes the waiter   *)
(* at index j stands at j afterwards, before every waiter that its erasure *)
(* moved, so that a loop which thereby skips one leaves it to the eraser.  *)
(***************************************************************************)
\* on_update resumes the actor of e when the event is (s, f).
Due(e, s, f) == e.poll = 0 /\ (e.test = s \/ f > 0)

\* A loop of counter c will come to index i.
Covered(c, i) == \E u \in Updater : loop[u].ct = c /\ loop[u].at <= i

DueInv ==
  \A c \in CT : \A i \in 1 .. Len(waiting[c]) :
    Due(waiting[c][i], success[c], failure[c]) => Covered(c, i)

\* Who is due on a counter after an update is covered by another loop, or not
\* behind the loop of u.
LEMMA ChangeDue ==
  ASSUME TypeInv, DueInv, NEW u \in Updater, NEW c \in CT, NEW i \in Nat \ {0},
         Changes(u, c, i), NEW d \in CT, NEW k \in 1 .. Len(waiting[d]),
         Due(waiting[d][k], success'[d], failure'[d])
  PROVE  \/ d = c /\ k >= i
         \/ \E v \in Updater \ {u} : loop[v].ct = d /\ loop[v].at <= k
  <1>0. waiting[d] \in Seq(Entry) /\ Len(waiting[d]) \in Nat /\ k \in Nat \ {0}
    BY DEF TypeInv, TypeOK
  <1>1. CASE success'[d] = success[d] /\ failure'[d] = failure[d]
    <2>1. PICK v \in Updater : loop[v].ct = d /\ loop[v].at <= k
      BY <1>1 DEF DueInv, Covered
    <2>2. CASE v # u
      BY <2>1, <2>2
    <2>3. CASE v = u
      <3>1. loop[u] # Idle
        BY <2>1, <2>3 DEF Idle, CT
      <3> QED
        BY <2>1, <2>3, <3>1 DEF Changes
    <2> QED
      BY <2>2, <2>3
  <1>2. CASE ~(success'[d] = success[d] /\ failure'[d] = failure[d])
    <2>1. d = c /\ i = 1
      BY <1>2 DEF Changes
    <2> QED
      BY <1>0, <2>1
  <1> QED
    BY <1>1, <1>2

\* Updates keep the invariant.
LEMMA UpdaterDue ==
  ASSUME TypeInv, DueInv, NEW u \in Updater, Updates(u)
  PROVE  DueInv'
  <1>1. PICK c \in CT, i \in Nat \ {0} :
          /\ Changes(u, c, i)
          /\ \/ Ends(u, c, i, success'[c], failure'[c])
             \/ \E j \in 1 .. Len(waiting[c]) : Wakes(u, c, i, j, success'[c], failure'[c])
    BY UpdaterCases
  <1>2. waiting \in [CT -> Seq(Entry)] /\ waiting[c] \in Seq(Entry) /\ Len(waiting[c]) \in Nat
    BY DEF TypeInv, TypeOK
  <1>3. loop \in [Updater -> [ct : 0 .. Counters, at : Nat, blocked : BOOLEAN]]
    BY DEF TypeInv, TypeOK
  <1>4. CASE Ends(u, c, i, success'[c], failure'[c])
    <2>1. /\ waiting' = waiting /\ loop' = [loop EXCEPT ![u] = Idle]
          /\ \A k \in i .. Len(waiting[c]) : waiting[c][k].test # success'[c] /\ ~(failure'[c] > 0)
      BY <1>4 DEF Ends
    <2>2. \A v \in Updater \ {u} : loop'[v] = loop[v]
      BY <1>3, <2>1
    <2>3. ASSUME NEW d \in CT, NEW k \in 1 .. Len(waiting[d]),
                 Due(waiting[d][k], success'[d], failure'[d])
          PROVE  \E v \in Updater : loop'[v].ct = d /\ loop'[v].at <= k
      <3>1. CASE d = c /\ k >= i
        <4>1. k \in i .. Len(waiting[c])
          BY <1>2, <3>1
        <4> QED
          BY <2>1, <2>3, <3>1, <4>1 DEF Due
      <3>2. CASE \E v \in Updater \ {u} : loop[v].ct = d /\ loop[v].at <= k
        BY <2>2, <3>2
      <3> QED
        BY <1>1, <2>3, <3>1, <3>2, ChangeDue
    <2> QED
      BY <2>1, <2>3 DEF DueInv, Covered
  <1>5. ASSUME NEW j \in 1 .. Len(waiting[c]), Wakes(u, c, i, j, success'[c], failure'[c])
        PROVE  DueInv'
    <2> DEFINE r == RemoveAt(waiting[c], j)
    <2>1. /\ j \in i .. Len(waiting[c])
          /\ \A k \in i .. j - 1 : waiting[c][k].test # success'[c] /\ ~(failure'[c] > 0)
          /\ waiting' = [waiting EXCEPT ![c] = r]
          /\ \E b \in BOOLEAN : loop' = [loop EXCEPT ![u] = [ct |-> c, at |-> j, blocked |-> b]]
      BY <1>5 DEF Wakes
    <2>2. Len(r) = Len(waiting[c]) - 1
          /\ \A k \in 1 .. Len(waiting[c]) - 1 :
               r[k] = IF k < j THEN waiting[c][k] ELSE waiting[c][k + 1]
      BY <1>2, RemoveAtProperties
    <2> HIDE DEF r
    <2>3. waiting'[c] = r /\ \A d \in CT : d # c => waiting'[d] = waiting[d]
      BY <1>2, <2>1
    <2>4. loop'[u].ct = c /\ loop'[u].at = j /\ \A v \in Updater \ {u} : loop'[v] = loop[v]
      <3>1. PICK b \in BOOLEAN : loop' = [loop EXCEPT ![u] = [ct |-> c, at |-> j, blocked |-> b]]
        BY <2>1
      <3>2. loop'[u] = [ct |-> c, at |-> j, blocked |-> b] /\ \A v \in Updater \ {u} : loop'[v] = loop[v]
        BY <1>3, <3>1
      <3> QED
        BY <3>2
    <2>5. ASSUME NEW d \in CT, NEW k \in 1 .. Len(waiting'[d]),
                 Due(waiting'[d][k], success'[d], failure'[d])
          PROVE  \E v \in Updater : loop'[v].ct = d /\ loop'[v].at <= k
      <3>1. CASE d # c
        <4>1. k \in 1 .. Len(waiting[d]) /\ Due(waiting[d][k], success'[d], failure'[d])
          BY <2>3, <2>5, <3>1
        <4>2. PICK v \in Updater \ {u} : loop[v].ct = d /\ loop[v].at <= k
          BY <1>1, <3>1, <4>1, ChangeDue
        <4> QED
          BY <2>4, <4>2
      <3>2. CASE d = c /\ k >= j
        BY <2>4, <3>2
      <3>3. CASE d = c /\ k < j
        <4>1. k \in 1 .. Len(waiting[c]) - 1 /\ k \in 1 .. Len(waiting[c])
          BY <1>2, <2>2, <2>3, <2>5, <3>3
        <4>2. r[k] = waiting[c][k]
          BY <2>2, <3>3, <4>1
        <4>3. Due(waiting[c][k], success'[c], failure'[c])
          BY <2>3, <2>5, <3>3, <4>2
        <4>4. ~(k >= i)
          <5>1. k >= i => k \in i .. j - 1
            BY <3>3, <4>1
          <5> QED
            BY <2>1, <4>3, <5>1 DEF Due
        <4>5. PICK v \in Updater \ {u} : loop[v].ct = c /\ loop[v].at <= k
          BY <1>1, <4>1, <4>3, <4>4, ChangeDue
        <4> QED
          BY <2>4, <3>3, <4>5
      <3>4. k \in Int /\ j \in Int
        BY <2>1
      <3> QED
        BY <3>1, <3>2, <3>3, <3>4
    <2> QED
      BY <2>5 DEF DueInv, Covered
  <1> QED
    BY <1>1, <1>4, <1>5

\* Who is pushed is not due: the test of PtlCTWait is not passed, and a poll
\* has an entry of its own kind.
LEMMA PushDue ==
  ASSUME TypeInv, DueInv, NEW c \in CT, NEW e \in Entry, Push(c, e),
         ~Due(e, success[c], failure[c]), UNCHANGED <<success, failure, loop>>
  PROVE  DueInv'
  <1>1. /\ waiting \in [CT -> Seq(Entry)] /\ waiting[c] \in Seq(Entry) /\ Len(waiting[c]) \in Nat
    BY DEF TypeInv, TypeOK
  <1>2. waiting'[c] = Append(waiting[c], e) /\ \A d \in CT : d # c => waiting'[d] = waiting[d]
    BY <1>1 DEF Push
  <1>3. Len(Append(waiting[c], e)) = Len(waiting[c]) + 1
        /\ \A k \in 1 .. Len(waiting[c]) + 1 :
             Append(waiting[c], e)[k] = IF k = Len(waiting[c]) + 1 THEN e ELSE waiting[c][k]
    BY <1>1
  <1>4. ASSUME NEW d \in CT, NEW k \in 1 .. Len(waiting'[d]),
               Due(waiting'[d][k], success[d], failure[d])
        PROVE  k \in 1 .. Len(waiting[d]) /\ waiting'[d][k] = waiting[d][k]
    <2>1. CASE d # c
      BY <1>2, <1>4, <2>1
    <2>2. CASE d = c
      <3>1. k \in 1 .. Len(waiting[c]) + 1 /\ waiting'[d][k] = Append(waiting[c], e)[k]
        BY <1>2, <1>3, <2>2
      <3>2. k # Len(waiting[c]) + 1
        BY <1>3, <1>4, <2>2, <3>1
      <3> QED
        BY <1>1, <1>3, <2>2, <3>1, <3>2
    <2> QED
      BY <2>1, <2>2
  <1> QED
    BY <1>4 DEF DueInv, Covered

\* Every step keeps the invariant.
LEMMA DueStep ==
  ASSUME TypeInv, DueInv, [Next]_vars
  PROVE  DueInv'
  <1>1. ASSUME NEW a \in Waiter, NEW c \in CT, NEW t \in Tests, Wait(a, c, t)
        PROVE  DueInv'
    <2> DEFINE e == [actor |-> a, poll |-> 0, test |-> t]
    <2>1. e \in Entry /\ Push(c, e) /\ UNCHANGED <<success, failure, loop>>
      BY <1>1, WaitEntry DEF Wait
    <2>2. success[c] \in Nat /\ t \in Nat /\ ~(success[c] >= t) /\ ~(failure[c] > 0)
      BY <1>1 DEF Wait, Reached, TypeInv, TypeOK
    <2>3. ~Due(e, success[c], failure[c])
      BY <2>2 DEF Due
    <2> QED
      BY <2>1, <2>3, PushDue
  <1>2. ASSUME NEW a \in Waiter, NEW g \in [CT -> Tests], Poll(a, g)
        PROVE  DueInv'
    <2> DEFINE e == [actor |-> a, poll |-> polls[a] + 1, test |-> g[1]]
    <2>1. e \in Entry /\ e.poll # 0 /\ 1 \in CT /\ Push(1, e) /\ UNCHANGED <<success, failure, loop>>
      BY <1>2, PollEntry DEF Poll
    <2>2. ~Due(e, success[1], failure[1])
      BY <2>1 DEF Due
    <2> QED
      BY <2>1, <2>2, PushDue
  <1>3. ASSUME NEW a \in Waiter, PollPost(a)
        PROVE  DueInv'
    <2> DEFINE k == posted[a] + 1
               e == [actor |-> a, poll |-> polls[a], test |-> goal[a][k]]
    <2>1. k \in CT /\ pc[a] = "polling" /\ Push(k, e) /\ UNCHANGED <<success, failure, loop>>
      BY <1>3 DEF PollPost
    <2>2. e \in Entry /\ e.poll # 0
      BY <2>1, PollEntry DEF TypeInv, PollInv
    <2> HIDE DEF e, k
    <2>3. ~Due(e, success[k], failure[k])
      BY <2>2 DEF Due
    <2> QED
      BY <2>1, <2>2, <2>3, PushDue
  <1>4. ASSUME UNCHANGED <<success, failure, loop, waiting>>
        PROVE  DueInv'
    BY <1>4 DEF DueInv, Covered
  <1>5. ASSUME \/ UNCHANGED vars
               \/ \E a \in Waiter : WaitReturn(a) \/ PollReturn(a)
        PROVE  DueInv'
    BY <1>4, <1>5 DEF vars, WaitReturn, PollReturn
  <1> QED
    BY <1>1, <1>2, <1>3, <1>5, UpdaterDue DEF Next, Updates

\* No actor in PtlCTWait for the value that its counter has is passed over:
\* a loop of on_update is still to come to it, whatever the number of loops
\* that run at once, the amounts they add and the order of their simcalls.
THEOREM NobodyPassedOver == Spec => []StillToBeWoken
  <1>1. Init => TypeInv /\ DueInv
    <2> SUFFICES ASSUME Init
                 PROVE  TypeInv /\ DueInv
      OBVIOUS
    <2>1. \A c \in CT : Len(waiting[c]) = 0
      BY DEF Init
    <2> QED
      BY <2>1, TypeInit DEF DueInv
  <1>2. TypeInv /\ DueInv /\ [Next]_vars => (TypeInv /\ DueInv)'
    BY TypeStep, DueStep
  <1>3. DueInv => StillToBeWoken
    BY DEF DueInv, Due, Covered, StillToBeWoken
  <1> QED
    BY <1>1, <1>2, <1>3, PTL DEF Spec

=============================================================================
