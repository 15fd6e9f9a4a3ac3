-------------------------- MODULE FlowControlProofs -------------------------
(***************************************************************************)
(* Proofs about FlowControl for every set of messages, every limit and     *)
(* every number of RX actors.                                              *)
(***************************************************************************)
EXTENDS FlowControl, FiniteSetTheorems, TLAPS

-----------------------------------------------------------------------------
(***************************************************************************)
(* Queues after push_back and pop_front, and the size of sets.             *)
(***************************************************************************)
\* A queue after push_back contains what it contained and the new message.
LEMMA ContainsAppend ==
  ASSUME NEW S, NEW s \in Seq(S), NEW e \in S, NEW x
  PROVE  Contains(Append(s, e), x) <=> (Contains(s, x) \/ x = e)
  <1>1. Append(s, e) \in Seq(S) /\ Len(Append(s, e)) = Len(s) + 1 /\ Len(s) \in Nat
    OBVIOUS
  <1>2. ASSUME Contains(Append(s, e), x)
        PROVE  Contains(s, x) \/ x = e
    BY <1>1, <1>2 DEF Contains
  <1>3. ASSUME Contains(s, x)
        PROVE  Contains(Append(s, e), x)
    <2>1. PICK i \in 1 .. Len(s) : s[i] = x
      BY <1>3 DEF Contains
    <2>2. i \in 1 .. Len(Append(s, e)) /\ Append(s, e)[i] = x
      BY <1>1, <2>1
    <2> QED
      BY <2>2 DEF Contains
  <1>4. Contains(Append(s, e), e)
    <2>1. Len(s) + 1 \in 1 .. Len(Append(s, e)) /\ Append(s, e)[Len(s) + 1] = e
      BY <1>1
    <2> QED
      BY <2>1 DEF Contains
  <1> QED
    BY <1>2, <1>3, <1>4

\* A queue before pop_front contains its head and what it contains after.
LEMMA ContainsTail ==
  ASSUME NEW S, NEW s \in Seq(S), s # <<>>, NEW x
  PROVE  Contains(s, x) <=> (x = Head(s) \/ Contains(Tail(s), x))
  <1>1. Len(s) \in Nat /\ Len(s) > 0 /\ Len(Tail(s)) = Len(s) - 1
    OBVIOUS
  <1>2. ASSUME Contains(s, x)
        PROVE  x = Head(s) \/ Contains(Tail(s), x)
    <2>1. PICK i \in 1 .. Len(s) : s[i] = x
      BY <1>2 DEF Contains
    <2>2. CASE i = 1
      BY <2>1, <2>2
    <2>3. CASE i # 1
      <3>1. i - 1 \in 1 .. Len(Tail(s)) /\ Tail(s)[i - 1] = x
        BY <1>1, <2>1, <2>3
      <3> QED
        BY <3>1 DEF Contains
    <2> QED
      BY <2>2, <2>3
  <1>3. ASSUME Contains(Tail(s), x)
        PROVE  Contains(s, x)
    <2>1. PICK i \in 1 .. Len(Tail(s)) : Tail(s)[i] = x
      BY <1>3 DEF Contains
    <2>2. i + 1 \in 1 .. Len(s) /\ s[i + 1] = x
      BY <1>1, <2>1
    <2> QED
      BY <2>2 DEF Contains
  <1>4. Contains(s, Head(s))
    <2>1. 1 \in 1 .. Len(s) /\ s[1] = Head(s)
      BY <1>1
    <2> QED
      BY <2>1 DEF Contains
  <1> QED
    BY <1>2, <1>3, <1>4

\* push_back leaves the front of a queue that is not empty alone, and the
\* message pushed is the last one.
LEMMA AppendEnds ==
  ASSUME NEW S, NEW s \in Seq(S), NEW e \in S
  PROVE  /\ Append(s, e) \in Seq(S)
         /\ Append(s, e) # <<>>
         /\ Last(Append(s, e)) = e
         /\ s # <<>> => Head(Append(s, e)) = Head(s)
  <1>1. Append(s, e) \in Seq(S) /\ Len(Append(s, e)) = Len(s) + 1 /\ Len(s) \in Nat
        /\ Append(s, e)[Len(s) + 1] = e
    OBVIOUS
  <1>2. Append(s, e) # <<>> /\ Last(Append(s, e)) = e
    BY <1>1 DEF Last
  <1>3. s # <<>> => Append(s, e)[1] = s[1]
    BY <1>1
  <1> QED
    BY <1>1, <1>2, <1>3

\* The size of a set with one element more,
LEMMA NewElement ==
  ASSUME NEW T, IsFiniteSet(T), NEW y, y \notin T
  PROVE  IsFiniteSet(T \cup {y}) /\ Cardinality(T \cup {y}) = Cardinality(T) + 1
  BY FS_AddElement

\* with one element less,
LEMMA WithoutElement ==
  ASSUME NEW T, IsFiniteSet(T), NEW x \in T
  PROVE  IsFiniteSet(T \ {x}) /\ Cardinality(T \ {x}) = Cardinality(T) - 1
  BY FS_RemoveElement

\* and with one element exchanged for another.
LEMMA ExchangeElement ==
  ASSUME NEW T, IsFiniteSet(T), NEW x \in T, NEW y, y \notin T
  PROVE  /\ IsFiniteSet((T \ {x}) \cup {y})
         /\ Cardinality((T \ {x}) \cup {y}) = Cardinality(T)
  <1>1. IsFiniteSet(T \ {x}) /\ Cardinality(T \ {x}) = Cardinality(T) - 1
    BY WithoutElement
  <1>2. y \notin T \ {x}
    OBVIOUS
  <1>3. /\ IsFiniteSet((T \ {x}) \cup {y})
        /\ Cardinality((T \ {x}) \cup {y}) = Cardinality(T \ {x}) + 1
    BY <1>1, <1>2, NewElement
  <1>4. Cardinality(T) \in Nat
    BY FS_CardinalityType
  <1> QED
    BY <1>1, <1>3, <1>4

USE FlowAssumption

-----------------------------------------------------------------------------
(***************************************************************************)
(* Types and credits.  A credit is held by every copy of a message that is *)
(* being sent (numbered 0) or that is not answered yet (numbered from 1).  *)
(***************************************************************************)
Copies(S) ==
  {c \in S \X Nat : \/ c[2] = 0 /\ tx = c[1]
                    \/ c[2] > 0 /\ c[2] <= inflight[c[1]]}

ToNode(n)    == {m \in Message : Dest[m] = n}
ToProcess(q) == {m \in Message : Pair[m] = q}

CreditInv ==
  /\ MaxToTarget > 0 =>
       \A n \in Target : /\ IsFiniteSet(Copies(ToNode(n)))
                         /\ nodeCredits[n] + Cardinality(Copies(ToNode(n))) = MaxToTarget
  /\ MaxToProcess > 0 =>
       \A q \in Process :
         /\ IsFiniteSet(Copies(ToProcess(q)))
         /\ processCredits[q] + Cardinality(Copies(ToProcess(q))) = MaxToProcess

\* Taking and giving back a credit keeps the counts natural numbers.
LEMMA AddCreditType ==
  ASSUME TypeOK, NEW m \in Message, NEW k \in {-1, 1}, AddCredit(m, k),
         k = 1 \/ HasCredit(m)
  PROVE  nodeCredits' \in [Target -> Nat] /\ processCredits' \in [Process -> Nat]
  <1>1. Dest[m] \in Target /\ Pair[m] \in Process
    BY DEF Target, Process
  <1>2. nodeCredits' \in [Target -> Nat]
    <2>1. nodeCredits \in [Target -> Nat]
      BY DEF TypeOK
    <2>2. CASE MaxToTarget > 0
      <3>1. nodeCredits[Dest[m]] + k \in Nat
        BY <1>1, <2>1, <2>2 DEF HasCredit
      <3>2. nodeCredits' = [nodeCredits EXCEPT ![Dest[m]] = @ + k]
        BY <2>2 DEF AddCredit
      <3> QED
        BY <2>1, <3>1, <3>2
    <2> QED
      BY <2>1, <2>2 DEF AddCredit
  <1>3. processCredits' \in [Process -> Nat]
    <2>1. processCredits \in [Process -> Nat]
      BY DEF TypeOK
    <2>2. CASE MaxToProcess > 0
      <3>1. processCredits[Pair[m]] + k \in Nat
        BY <1>1, <2>1, <2>2 DEF HasCredit
      <3>2. processCredits' = [processCredits EXCEPT ![Pair[m]] = @ + k]
        BY <2>2 DEF AddCredit
      <3> QED
        BY <2>1, <3>1, <3>2
    <2> QED
      BY <2>1, <2>2 DEF AddCredit
  <1> QED
    BY <1>2, <1>3

\* An iteration of resume_waiting_tx_actors keeps the types.
LEMMA ResumeType ==
  ASSUME TypeOK, NEW a \in Releaser, NEW w \in Seq(Message), Resume(a, w)
  PROVE  txq' \in Seq(Message) /\ rx' \in [Releaser -> Seq(Message)]
  <1>1. txq \in Seq(Message) /\ rx \in [Releaser -> Seq(Message)]
    BY DEF TypeOK
  <1>2. CASE w = <<>>
    BY <1>1, <1>2 DEF Resume
  <1>3. CASE w # <<>>
    <2>1. Head(w) \in Message
      BY <1>3
    <2>2. Append(rx[a], Head(w)) \in Seq(Message) /\ Append(txq, Head(w)) \in Seq(Message)
      BY <1>1, <2>1
    <2> QED
      BY <1>1, <1>3, <2>2 DEF Resume
  <1> QED
    BY <1>2, <1>3

\* Every step keeps the types; check_flowctrl never finds a negative count.
LEMMA TypeStep ==
  ASSUME TypeOK, [Next]_vars
  PROVE  TypeOK'
  <1>1. ASSUME NEW m \in Message, Issue(m)
        PROVE  TypeOK'
    BY <1>1 DEF TypeOK, Issue
  <1>2. ASSUME NEW m \in Message, TxSend(m)
        PROVE  TypeOK'
    <2>1. nodeCredits' \in [Target -> Nat] /\ processCredits' \in [Process -> Nat]
      BY <1>2, AddCreditType DEF TxSend
    <2>2. sent' \in [Message -> Nat]
      BY <1>2 DEF TypeOK, TxSend
    <2>3. txq' \in Seq(Message)
      BY <1>2 DEF TypeOK, TxSend, TxTake
    <2> QED
      BY <1>2, <2>1, <2>2, <2>3 DEF TypeOK, TxSend, TxTake
  <1>3. ASSUME NEW m \in Message, TxPark(m)
        PROVE  TypeOK'
    <2>1. waiting' \in Seq(Message)
      BY <1>3 DEF TypeOK, TxPark, Park
    <2>2. txq' \in Seq(Message)
      BY <1>3 DEF TypeOK, TxPark, TxTake
    <2> QED
      BY <1>3, <2>1, <2>2 DEF TypeOK, TxPark, TxTake
  <1>4. ASSUME TxDone
        PROVE  TypeOK'
    BY <1>4 DEF TypeOK, TxDone
  <1>5. ASSUME NEW a \in Releaser, NEW m \in Message, Release(a, m)
        PROVE  TypeOK'
    <2>1. nodeCredits' \in [Target -> Nat] /\ processCredits' \in [Process -> Nat]
      BY <1>5, AddCreditType DEF Release
    <2>2. txq' \in Seq(Message) /\ rx' \in [Releaser -> Seq(Message)]
      BY <1>5, ResumeType DEF TypeOK, Release
    <2>3. inflight' \in [Message -> Nat]
      BY <1>5 DEF TypeOK, Release
    <2> QED
      BY <1>5, <2>1, <2>2, <2>3 DEF TypeOK, Release
  <1>6. ASSUME NEW a \in Releaser, Pop(a)
        PROVE  TypeOK'
    <2>1. Tail(waiting) \in Seq(Message)
      BY <1>6 DEF TypeOK, Pop
    <2>2. txq' \in Seq(Message) /\ rx' \in [Releaser -> Seq(Message)]
      BY <1>6, <2>1, ResumeType DEF Pop
    <2> QED
      BY <1>6, <2>1, <2>2 DEF TypeOK, Pop
  <1>7. CASE UNCHANGED vars
    BY <1>7 DEF TypeOK, vars
  <1> QED
    BY <1>1, <1>2, <1>3, <1>4, <1>5, <1>6, <1>7 DEF Next, Tx

-----------------------------------------------------------------------------
(***************************************************************************)
(* The copies that hold a credit, step by step, for any set S of messages. *)
(***************************************************************************)
\* Whether m is one of the messages of S, as a number of credits.
Weight(m, S) == IF m \in S THEN 1 ELSE 0

\* A message that the TX actor starts to send holds one more credit.
LEMMA CopiesSend ==
  ASSUME TypeOK, NEW m \in Message, NEW S \in SUBSET Message, IsFiniteSet(Copies(S)),
         tx = None, tx' = m, inflight' = inflight
  PROVE  /\ IsFiniteSet(Copies(S)')
         /\ Cardinality(Copies(S)') = Cardinality(Copies(S)) + Weight(m, S)
  <1>1. CASE m \notin S
    <2>1. Copies(S)' = Copies(S)
      BY <1>1 DEF Copies, TypeOK
    <2> QED
      BY <1>1, <2>1, FS_CardinalityType DEF Weight
  <1>2. CASE m \in S
    <2>1. Copies(S)' = Copies(S) \cup {<<m, 0>>}
      BY <1>2 DEF Copies, TypeOK
    <2>2. <<m, 0>> \notin Copies(S)
      BY DEF Copies
    <2>3. IsFiniteSet(Copies(S)') /\ Cardinality(Copies(S)') = Cardinality(Copies(S)) + 1
      BY <2>1, <2>2, NewElement, Zenon
    <2> QED
      BY <1>2, <2>3 DEF Weight
  <1> QED
    BY <1>1, <1>2

\* Once it is sent it is in flight, for the same credit.
LEMMA CopiesDone ==
  ASSUME TypeOK, NEW S \in SUBSET Message, IsFiniteSet(Copies(S)), TxDone
  PROVE  /\ IsFiniteSet(Copies(S)')
         /\ Cardinality(Copies(S)') = Cardinality(Copies(S))
  <1> DEFINE k == inflight[tx] + 1
             new == <<tx, k>>
             old == <<tx, 0>>
  <1>1. tx \in Message /\ tx' = None /\ inflight \in [Message -> Nat]
        /\ inflight' = [inflight EXCEPT ![tx] = k] /\ k \in Nat /\ k > 0
    BY DEF TypeOK, TxDone
  <1>2. CASE tx \notin S
    <2>1. Copies(S)' = Copies(S)
      BY <1>1, <1>2 DEF Copies
    <2> QED
      BY <2>1
  <1>3. CASE tx \in S
    <2>1. Copies(S)' = (Copies(S) \ {old}) \cup {new}
      <3>1. ASSUME NEW x \in S, NEW j \in Nat
            PROVE  <<x, j>> \in Copies(S)' <=> <<x, j>> \in (Copies(S) \ {old}) \cup {new}
        <4>1. CASE x # tx
          BY <1>1, <4>1 DEF Copies
        <4>2. CASE x = tx
          <5>1. inflight'[x] = k
            BY <1>1, <4>2
          <5> QED
            BY <1>1, <4>2, <5>1 DEF Copies
        <4> QED
          BY <4>1, <4>2
      <3>2. Copies(S)' \subseteq S \X Nat /\ (Copies(S) \ {old}) \cup {new} \subseteq S \X Nat
        BY <1>1, <1>3 DEF Copies
      <3> QED
        BY <3>1, <3>2
    <2>2. old \in Copies(S) /\ new \notin Copies(S) /\ new # old
      BY <1>1, <1>3 DEF Copies
    <2> HIDE DEF old, new
    <2>3. /\ IsFiniteSet((Copies(S) \ {old}) \cup {new})
          /\ Cardinality((Copies(S) \ {old}) \cup {new}) = Cardinality(Copies(S))
      BY <2>2, ExchangeElement
    <2> QED
      BY <2>1, <2>3
  <1> QED
    BY <1>2, <1>3

\* An answer gives back the credit of one copy of its message.
LEMMA CopiesRelease ==
  ASSUME TypeOK, NEW m \in Message, NEW S \in SUBSET Message, IsFiniteSet(Copies(S)),
         inflight[m] > 0, inflight' = [inflight EXCEPT ![m] = @ - 1], tx' = tx
  PROVE  /\ IsFiniteSet(Copies(S)')
         /\ Cardinality(Copies(S)') = Cardinality(Copies(S)) - Weight(m, S)
  <1>1. inflight \in [Message -> Nat] /\ inflight[m] \in Nat
    BY DEF TypeOK
  <1>2. CASE m \notin S
    <2>1. Copies(S)' = Copies(S)
      BY <1>1, <1>2 DEF Copies
    <2> QED
      BY <1>2, <2>1, FS_CardinalityType DEF Weight
  <1>3. CASE m \in S
    <2> DEFINE old == <<m, inflight[m]>>
    <2>1. Copies(S)' = Copies(S) \ {old}
      <3>1. ASSUME NEW x \in S, NEW j \in Nat
            PROVE  <<x, j>> \in Copies(S)' <=> <<x, j>> \in Copies(S) \ {old}
        <4>1. CASE x # m
          BY <1>1, <4>1 DEF Copies
        <4>2. CASE x = m
          <5>1. inflight'[x] = inflight[m] - 1
            BY <1>1, <4>2
          <5> QED
            BY <1>1, <4>2, <5>1 DEF Copies
        <4> QED
          BY <4>1, <4>2
      <3>2. Copies(S)' \subseteq S \X Nat /\ Copies(S) \subseteq S \X Nat
        BY DEF Copies
      <3> QED
        BY <3>1, <3>2
    <2>2. old \in Copies(S)
      BY <1>1, <1>3 DEF Copies
    <2> HIDE DEF old
    <2>3. IsFiniteSet(Copies(S) \ {old}) /\ Cardinality(Copies(S) \ {old}) = Cardinality(Copies(S)) - 1
      BY <2>2, WithoutElement
    <2> QED
      BY <1>3, <2>1, <2>3 DEF Weight
  <1> QED
    BY <1>2, <1>3

\* Credits move with the copies: AddCredit(m, k) changes the counts of m's
\* node and of m's pair of processes by k, and no other.
LEMMA AddCreditInv ==
  ASSUME TypeOK, CreditInv, NEW m \in Message, NEW k \in {-1, 1}, AddCredit(m, k),
         \A S \in SUBSET Message :
           IsFiniteSet(Copies(S)) =>
             /\ IsFiniteSet(Copies(S)')
             /\ Cardinality(Copies(S)') = Cardinality(Copies(S)) - k * Weight(m, S)
  PROVE  CreditInv'
  <1>1. ASSUME MaxToTarget > 0, NEW n \in Target
        PROVE  /\ IsFiniteSet(Copies(ToNode(n))')
               /\ nodeCredits'[n] + Cardinality(Copies(ToNode(n))') = MaxToTarget
    <2>1. ToNode(n) \in SUBSET Message
      BY DEF ToNode
    <2>2. nodeCredits'[n] = nodeCredits[n] + k * Weight(m, ToNode(n))
      BY <1>1 DEF AddCredit, ToNode, Weight, TypeOK
    <2>3. /\ IsFiniteSet(Copies(ToNode(n)))
          /\ nodeCredits[n] + Cardinality(Copies(ToNode(n))) = MaxToTarget
      BY <1>1 DEF CreditInv
    <2>4. nodeCredits[n] \in Int /\ Cardinality(Copies(ToNode(n))) \in Int
          /\ k * Weight(m, ToNode(n)) \in Int
      BY <1>1, <2>3, FS_CardinalityType DEF TypeOK, Weight
    <2> QED
      BY <2>1, <2>2, <2>3, <2>4
  <1>2. ASSUME MaxToProcess > 0, NEW q \in Process
        PROVE  /\ IsFiniteSet(Copies(ToProcess(q))')
               /\ processCredits'[q] + Cardinality(Copies(ToProcess(q))') = MaxToProcess
    <2>1. ToProcess(q) \in SUBSET Message
      BY DEF ToProcess
    <2>2. processCredits'[q] = processCredits[q] + k * Weight(m, ToProcess(q))
      BY <1>2 DEF AddCredit, ToProcess, Weight, TypeOK
    <2>3. /\ IsFiniteSet(Copies(ToProcess(q)))
          /\ processCredits[q] + Cardinality(Copies(ToProcess(q))) = MaxToProcess
      BY <1>2 DEF CreditInv
    <2>4. processCredits[q] \in Int /\ Cardinality(Copies(ToProcess(q))) \in Int
          /\ k * Weight(m, ToProcess(q)) \in Int
      BY <1>2, <2>3, FS_CardinalityType DEF TypeOK, Weight
    <2> QED
      BY <2>1, <2>2, <2>3, <2>4
  <1>3. Target' = Target /\ Process' = Process
    BY DEF Target, Process
  <1> QED
    BY <1>1, <1>2, <1>3 DEF CreditInv, ToNode, ToProcess

\* A step that touches neither the credits nor the copies keeps the sums.
LEMMA SameCopies ==
  ASSUME CreditInv, UNCHANGED <<tx, inflight, nodeCredits, processCredits>>
  PROVE  CreditInv'
  BY DEF CreditInv, Copies, ToNode, ToProcess, Target, Process

\* Every step keeps, for each target node and for each pair of processes,
\* the sum of the free credits and of the copies that hold one.
LEMMA CreditStep ==
  ASSUME TypeOK, CreditInv, [Next]_vars
  PROVE  CreditInv'
  <1>1. ASSUME NEW m \in Message, Issue(m)
        PROVE  CreditInv'
    BY <1>1, SameCopies DEF Issue
  <1>2. ASSUME NEW m \in Message, TxSend(m)
        PROVE  CreditInv'
    <2>1. tx = None /\ tx' = m /\ inflight' = inflight /\ AddCredit(m, -1)
      BY <1>2 DEF TxSend, TxTake
    <2>2. ASSUME NEW S \in SUBSET Message, IsFiniteSet(Copies(S))
          PROVE  /\ IsFiniteSet(Copies(S)')
                 /\ Cardinality(Copies(S)') = Cardinality(Copies(S)) - (-1) * Weight(m, S)
      <3>1. /\ IsFiniteSet(Copies(S)')
            /\ Cardinality(Copies(S)') = Cardinality(Copies(S)) + Weight(m, S)
        BY <2>1, <2>2, CopiesSend
      <3> QED
        BY <2>2, <3>1, FS_CardinalityType DEF Weight
    <2> QED
      BY <2>1, <2>2, AddCreditInv
  <1>3. ASSUME NEW m \in Message, TxPark(m)
        PROVE  CreditInv'
    BY <1>3, SameCopies DEF TxPark, TxTake
  <1>4. ASSUME TxDone
        PROVE  CreditInv'
    <2>1. \A n \in Target : ToNode(n) \in SUBSET Message
      BY DEF ToNode
    <2>2. \A q \in Process : ToProcess(q) \in SUBSET Message
      BY DEF ToProcess
    <2>3. ASSUME NEW S \in SUBSET Message, IsFiniteSet(Copies(S))
          PROVE  IsFiniteSet(Copies(S)') /\ Cardinality(Copies(S)') = Cardinality(Copies(S))
      BY <1>4, <2>3, CopiesDone
    <2>4. nodeCredits' = nodeCredits /\ processCredits' = processCredits
      BY <1>4 DEF TxDone
    <2> QED
      BY <2>1, <2>2, <2>3, <2>4 DEF CreditInv, ToNode, ToProcess, Target, Process
  <1>5. ASSUME NEW a \in Releaser, NEW m \in Message, Release(a, m)
        PROVE  CreditInv'
    <2>1. inflight[m] > 0 /\ inflight' = [inflight EXCEPT ![m] = @ - 1] /\ tx' = tx /\ AddCredit(m, 1)
      BY <1>5 DEF Release
    <2>2. ASSUME NEW S \in SUBSET Message, IsFiniteSet(Copies(S))
          PROVE  /\ IsFiniteSet(Copies(S)')
                 /\ Cardinality(Copies(S)') = Cardinality(Copies(S)) - 1 * Weight(m, S)
      <3>1. /\ IsFiniteSet(Copies(S)')
            /\ Cardinality(Copies(S)') = Cardinality(Copies(S)) - Weight(m, S)
        BY <2>1, <2>2, CopiesRelease
      <3> QED
        BY <2>2, <3>1, FS_CardinalityType DEF Weight
    <2> QED
      BY <2>1, <2>2, AddCreditInv
  <1>6. ASSUME NEW a \in Releaser, Pop(a)
        PROVE  CreditInv'
    BY <1>6, SameCopies DEF Pop
  <1>7. CASE UNCHANGED vars
    BY <1>7, SameCopies DEF vars
  <1> QED
    BY <1>1, <1>2, <1>3, <1>4, <1>5, <1>6, <1>7 DEF Next, Tx

\* Initially every credit is free.
LEMMA CreditInit ==
  ASSUME Init
  PROVE  TypeOK /\ CreditInv
  <1>1. TypeOK
    BY DEF Init, TypeOK
  <1>2. ASSUME NEW S \in SUBSET Message
        PROVE  Copies(S) = {}
    BY DEF Init, Copies
  <1>3. \A n \in Target : ToNode(n) \in SUBSET Message /\ nodeCredits[n] = MaxToTarget
    BY DEF Init, ToNode
  <1>4. \A q \in Process : ToProcess(q) \in SUBSET Message /\ processCredits[q] = MaxToProcess
    BY DEF Init, ToProcess
  <1> QED
    BY <1>1, <1>2, <1>3, <1>4, FS_EmptySet DEF CreditInv

\* There are no more outstanding messages than copies that hold a credit.
LEMMA OutstandingCopies ==
  ASSUME TypeOK, NEW S \in SUBSET Message, IsFiniteSet(Copies(S))
  PROVE  Outstanding(S) \in Nat /\ Outstanding(S) <= Cardinality(Copies(S))
  <1> DEFINE T == {m \in S : inflight[m] > 0 \/ tx = m}
             f == [c \in Copies(S) |-> c[1]]
  <1>1. f \in [Copies(S) -> T]
    <2>1. ASSUME NEW c \in Copies(S)
          PROVE  c[1] \in T
      BY DEF Copies, TypeOK
    <2> QED
      BY <2>1
  <1>2. ASSUME NEW m \in T
        PROVE  \E c \in Copies(S) : f[c] = m
    <2>1. CASE tx = m
      <3>1. <<m, 0>> \in Copies(S)
        BY <2>1 DEF Copies
      <3> QED
        BY <3>1
    <2>2. CASE inflight[m] > 0
      <3>1. <<m, 1>> \in Copies(S)
        BY <2>2 DEF Copies, TypeOK
      <3> QED
        BY <3>1
    <2> QED
      BY <2>1, <2>2
  <1>3. f \in Surjection(Copies(S), T)
    BY <1>1, <1>2 DEF Surjection
  <1> HIDE DEF T, f
  <1>4. IsFiniteSet(T) /\ Cardinality(T) <= Cardinality(Copies(S))
    BY <1>3, FS_Surjection
  <1>5. Cardinality(T) \in Nat
    BY <1>4, FS_CardinalityType
  <1> QED
    BY <1>4, <1>5 DEF Outstanding, T

\* check_flowctrl takes a credit before a message leaves and
\* release_e2e_entry gives it back with the answer: the messages in flight
\* to a node, and between two processes, never exceed their limits, and no
\* count goes below zero.
THEOREM InflightLimited == Spec => []InflightWithinLimit
  <1>1. Init => TypeOK /\ CreditInv
    BY CreditInit
  <1>2. TypeOK /\ CreditInv /\ [Next]_vars => (TypeOK /\ CreditInv)'
    BY TypeStep, CreditStep
  <1>3. TypeOK /\ CreditInv => InflightWithinLimit
    <2> SUFFICES ASSUME TypeOK, CreditInv
                 PROVE  InflightWithinLimit
      OBVIOUS
    <2>1. ASSUME MaxToTarget > 0, NEW n \in Target
          PROVE  Outstanding(ToNode(n)) <= MaxToTarget
      <3>1. /\ IsFiniteSet(Copies(ToNode(n)))
            /\ nodeCredits[n] + Cardinality(Copies(ToNode(n))) = MaxToTarget
            /\ nodeCredits[n] \in Nat
        BY <2>1 DEF CreditInv, TypeOK
      <3>2. ToNode(n) \in SUBSET Message
        BY DEF ToNode
      <3>3. Outstanding(ToNode(n)) \in Nat /\ Outstanding(ToNode(n)) <= Cardinality(Copies(ToNode(n)))
        BY <3>1, <3>2, OutstandingCopies
      <3>4. Cardinality(Copies(ToNode(n))) \in Nat
        BY <3>1, FS_CardinalityType
      <3> QED
        BY <3>1, <3>3, <3>4
    <2>2. ASSUME MaxToProcess > 0, NEW q \in Process
          PROVE  Outstanding(ToProcess(q)) <= MaxToProcess
      <3>1. /\ IsFiniteSet(Copies(ToProcess(q)))
            /\ processCredits[q] + Cardinality(Copies(ToProcess(q))) = MaxToProcess
            /\ processCredits[q] \in Nat
        BY <2>2 DEF CreditInv, TypeOK
      <3>2. ToProcess(q) \in SUBSET Message
        BY DEF ToProcess
      <3>3. Outstanding(ToProcess(q)) \in Nat /\ Outstanding(ToProcess(q)) <= Cardinality(Copies(ToProcess(q)))
        BY <3>1, <3>2, OutstandingCopies
      <3>4. Cardinality(Copies(ToProcess(q))) \in Nat
        BY <3>1, FS_CardinalityType
      <3> QED
        BY <3>1, <3>3, <3>4
    <2> QED
      BY <2>1, <2>2 DEF InflightWithinLimit, ToNode, ToProcess
  <1> QED
    BY <1>1, <1>2, <1>3, PTL DEF Spec

-----------------------------------------------------------------------------
(***************************************************************************)
(* No message is lost, when the TX queue is a mailbox and one RX actor     *)
(* gives back the credits of the VN.  While its loop runs, the message it  *)
(* will pop next is the head of the parked ones and is, like everything    *)
(* the loop has put, in the TX queue, where the TX actor cannot take it.   *)
(***************************************************************************)
OneLoop == MailboxQueue /\ \A a, b \in Releaser : a = b

LoopInv ==
  \A a \in Releaser : rx[a] # <<>> =>
    /\ waiting # <<>> /\ Head(waiting) = Last(rx[a])
    /\ \A x : Contains(rx[a], x) => Contains(txq, x)

LossInv == LoopInv /\ NoMessageLost

\* The message that pop_front will drop is one that the loop has put.
LEMMA LastIsContained ==
  ASSUME NEW s \in Seq(Message), s # <<>>
  PROVE  Contains(s, Last(s))
  <1>1. Len(s) \in 1 .. Len(s)
    OBVIOUS
  <1> QED
    BY <1>1 DEF Contains, Last

\* A queue that is empty contains nothing.
LEMMA EmptyContains ==
  ASSUME NEW x
  PROVE  ~Contains(<<>>, x)
  BY DEF Contains

\* Taking m from the TX queue leaves every other message of the queue there.
LEMMA TakeKeepsOthers ==
  ASSUME TypeOK, NEW m \in Message, TxTake(m), NEW x, x # m, Contains(txq, x)
  PROVE  Contains(txq', x)
  BY ContainsTail DEF TypeOK, TxTake

\* Nothing that the running loop has put is taken from a mailbox.
LEMMA TakeKeepsLoop ==
  ASSUME OneLoop, TypeOK, LoopInv, NEW m \in Message, TxTake(m),
         NEW a \in Releaser, rx[a] # <<>>, NEW x, Contains(rx[a], x)
  PROVE  Contains(txq', x)
  <1>1. x # m
    BY DEF OneLoop, TxTake, Visible
  <1>2. Contains(txq, x)
    BY DEF LoopInv
  <1> QED
    BY <1>1, <1>2, TakeKeepsOthers

\* One iteration of the loop, on the parked messages w that pop_front left.
LEMMA ResumeInv ==
  ASSUME OneLoop, TypeOK, NEW a \in Releaser, Resume(a, waiting'), waiting' \in Seq(Message),
         \A x : Contains(rx[a], x) => Contains(txq, x)
  PROVE  /\ LoopInv'
         /\ \A x : Contains(txq, x) => Contains(txq', x)
  <1>1. rx \in [Releaser -> Seq(Message)] /\ txq \in Seq(Message) /\ Releaser = {a}
    BY DEF TypeOK, OneLoop
  <1>2. CASE waiting' = <<>>
    BY <1>1, <1>2 DEF Resume, LoopInv
  <1>3. CASE waiting' # <<>>
    <2> DEFINE h == Head(waiting')
    <2>1. h \in Message
      BY <1>3
    <2>2. rx'[a] = Append(rx[a], h) /\ txq' = Append(txq, h)
      BY <1>1, <1>3 DEF Resume
    <2> HIDE DEF h
    <2>3. \A x : Contains(rx'[a], x) <=> (Contains(rx[a], x) \/ x = h)
      BY <1>1, <2>1, <2>2, ContainsAppend
    <2>4. \A x : Contains(txq', x) <=> (Contains(txq, x) \/ x = h)
      BY <1>1, <2>1, <2>2, ContainsAppend
    <2>5. Last(rx'[a]) = h
      BY <1>1, <2>1, <2>2, AppendEnds
    <2> QED
      BY <1>1, <1>3, <2>3, <2>4, <2>5 DEF LoopInv, h
  <1> QED
    BY <1>2, <1>3

\* Every step keeps the messages and the loop's view of them.
LEMMA LossStep ==
  ASSUME OneLoop, TypeOK, LossInv, [Next]_vars
  PROVE  LossInv'
  <1>1. ASSUME NEW m \in Message, Issue(m)
        PROVE  LossInv'
    <2>1. \A x : Contains(txq', x) <=> (Contains(txq, x) \/ x = m)
      BY <1>1, ContainsAppend DEF Issue, TypeOK
    <2>2. LoopInv'
      BY <1>1, <2>1 DEF Issue, LossInv, LoopInv
    <2>3. NoMessageLost'
      BY <1>1, <2>1 DEF Issue, LossInv, NoMessageLost
    <2> QED
      BY <2>2, <2>3 DEF LossInv
  <1>2. ASSUME NEW m \in Message, TxSend(m)
        PROVE  LossInv'
    <2>1. TxTake(m) /\ rx' = rx /\ waiting' = waiting /\ issued' = issued
      BY <1>2 DEF TxSend, TxTake
    <2>2. LoopInv'
      BY <2>1, TakeKeepsLoop DEF LossInv, LoopInv
    <2>3. sent'[m] > 0 /\ \A x \in Message : x # m => sent'[x] = sent[x]
      BY <1>2 DEF TxSend, TypeOK
    <2>4. NoMessageLost'
      BY <2>1, <2>3, TakeKeepsOthers DEF LossInv, NoMessageLost, TypeOK
    <2> QED
      BY <2>2, <2>4 DEF LossInv
  <1>3. ASSUME NEW m \in Message, TxPark(m)
        PROVE  LossInv'
    <2>1. TxTake(m) /\ rx' = rx /\ sent' = sent /\ issued' = issued
      BY <1>3 DEF TxPark, TxTake
    <2>2. waiting \in Seq(Message) /\ waiting' = Park(m)
      BY <1>3 DEF TxPark, TypeOK
    <2>3. Contains(waiting', m) /\ \A x : Contains(waiting, x) => Contains(waiting', x)
      BY <2>2, ContainsAppend DEF Park
    <2>4. waiting # <<>> => waiting' # <<>> /\ Head(waiting') = Head(waiting)
      BY <2>2, AppendEnds DEF Park
    <2>5. LoopInv'
      BY <2>1, <2>4, TakeKeepsLoop DEF LossInv, LoopInv
    <2>6. NoMessageLost'
      BY <2>1, <2>3, TakeKeepsOthers DEF LossInv, NoMessageLost
    <2> QED
      BY <2>5, <2>6 DEF LossInv
  <1>4. ASSUME TxDone
        PROVE  LossInv'
    BY <1>4 DEF TxDone, LossInv, LoopInv, NoMessageLost
  <1>5. ASSUME NEW a \in Releaser, NEW m \in Message, Release(a, m)
        PROVE  LossInv'
    <2>1. rx[a] = <<>> /\ waiting' = waiting /\ waiting \in Seq(Message) /\ Resume(a, waiting')
          /\ issued' = issued /\ sent' = sent
      BY <1>5 DEF Release, TypeOK
    <2>2. LoopInv' /\ \A x : Contains(txq, x) => Contains(txq', x)
      BY <2>1, ResumeInv, EmptyContains
    <2> QED
      BY <2>1, <2>2 DEF LossInv, NoMessageLost
  <1>6. ASSUME NEW a \in Releaser, Pop(a)
        PROVE  LossInv'
    <2>1. rx[a] # <<>> /\ waiting # <<>> /\ waiting' = Tail(waiting) /\ waiting \in Seq(Message)
          /\ Resume(a, waiting') /\ issued' = issued /\ sent' = sent
      BY <1>6 DEF Pop, TypeOK
    <2>2. Head(waiting) = Last(rx[a]) /\ \A x : Contains(rx[a], x) => Contains(txq, x)
      BY <2>1 DEF LossInv, LoopInv
    <2>3. LoopInv' /\ \A x : Contains(txq, x) => Contains(txq', x)
      BY <2>1, <2>2, ResumeInv
    <2>4. Contains(txq, Head(waiting))
      BY <2>1, <2>2, LastIsContained DEF TypeOK
    <2>5. \A x : Contains(waiting, x) => x = Head(waiting) \/ Contains(waiting', x)
      BY <2>1, ContainsTail
    <2> QED
      BY <2>1, <2>3, <2>4, <2>5 DEF LossInv, NoMessageLost
  <1>7. CASE UNCHANGED vars
    BY <1>7 DEF vars, LossInv, LoopInv, NoMessageLost
  <1> QED
    BY <1>1, <1>2, <1>3, <1>4, <1>5, <1>6, <1>7 DEF Next, Tx

\* resume_waiting_tx_actors puts a parked message before it pops it.  With a
\* mailbox as TX queue and one RX actor that gives credits back, no message
\* is lost in between, whatever the messages, the limits and the order of
\* the answers.
THEOREM ParkedNotLost ==
  ASSUME OneLoop
  PROVE  Spec => []NoMessageLost
  <1>1. Init => TypeOK /\ LossInv
    BY CreditInit DEF Init, LossInv, LoopInv, NoMessageLost
  <1>2. TypeOK /\ LossInv /\ [Next]_vars => (TypeOK /\ LossInv)'
    BY TypeStep, LossStep
  <1>3. LossInv => NoMessageLost
    BY DEF LossInv
  <1> QED
    BY <1>1, <1>2, <1>3, PTL DEF Spec

=============================================================================
