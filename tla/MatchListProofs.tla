--------------------------- MODULE MatchListProofs --------------------------
(***************************************************************************)
(* Proofs about MatchList for every set of entries, messages and RX        *)
(* actors, and every relation between their match bits.                    *)
(***************************************************************************)
EXTENDS MatchList, FiniteSetTheorems, TLAPS

-----------------------------------------------------------------------------
(***************************************************************************)
(* Lists after push_back and erase: what they contain, and how often.      *)
(***************************************************************************)
\* A set of indices that is not empty has a least element: the first match
\* of a walk through a list.
LEMMA MinProperties ==
  ASSUME NEW S \in SUBSET Nat, S # {}
  PROVE  Min(S) \in S /\ \A y \in S : Min(S) <= y
  <1> DEFINE R == OpToRel(<, Nat)
  <1>1. IsWellFoundedOn(R, Nat)
    BY NatLessThanWellFounded
  <1>2. \A x, y \in Nat : y < x => <<y, x>> \in R
    BY DEF OpToRel
  <1> HIDE DEF R
  <1>3. PICK x \in S : \A y \in S : ~(<<y, x>> \in R)
    BY <1>1, WFMin
  <1>4. ASSUME NEW y \in S
        PROVE  x <= y
    <2>1. ~(y < x)
      BY <1>2, <1>3
    <2> QED
      BY <2>1
  <1> QED
    BY <1>4 DEF Min

\* vector::erase at index j: what was behind j moves by one.
LEMMA RemoveAtProperties ==
  ASSUME NEW S, NEW s \in Seq(S), NEW j \in 1 .. Len(s)
  PROVE  /\ RemoveAt(s, j) \in Seq(S)
         /\ Len(RemoveAt(s, j)) = Len(s) - 1
         /\ \A i \in 1 .. Len(s) - 1 : RemoveAt(s, j)[i] = IF i < j THEN s[i] ELSE s[i + 1]
  <1> DEFINE a == SubSeq(s, 1, j - 1)
             b == SubSeq(s, j + 1, Len(s))
             r == RemoveAt(s, j)
  <1>1. a \in Seq(S) /\ Len(a) = j - 1 /\ \A i \in 1 .. j - 1 : a[i] = s[i]
    OBVIOUS
  <1>2. b \in Seq(S) /\ Len(b) = Len(s) - j /\ \A i \in 1 .. Len(s) - j : b[i] = s[j + i]
    OBVIOUS
  <1>3. r = a \o b
    BY DEF RemoveAt
  <1>4. Len(s) \in Nat
    OBVIOUS
  <1> HIDE DEF a, b, r
  <1>5. r \in Seq(S) /\ Len(r) = Len(s) - 1
    BY <1>1, <1>2, <1>3, <1>4
  <1>6. ASSUME NEW i \in 1 .. Len(s) - 1
        PROVE  r[i] = IF i < j THEN s[i] ELSE s[i + 1]
    <2>1. CASE i < j
      BY <1>1, <1>2, <1>3, <1>4, <2>1
    <2>2. CASE i >= j
      <3>1. r[i] = b[i - (j - 1)]
        BY <1>1, <1>2, <1>3, <1>4, <2>2
      <3>2. i - (j - 1) \in 1 .. Len(s) - j /\ j + (i - (j - 1)) = i + 1
        BY <1>4, <2>2
      <3> QED
        BY <1>2, <2>2, <3>1, <3>2
    <2> QED
      BY <1>4, <2>1, <2>2
  <1> QED
    BY <1>5, <1>6 DEF r

\* vector::erase adds nothing.
LEMMA RemoveAtContents ==
  ASSUME NEW S, NEW s \in Seq(S), NEW j \in 1 .. Len(s)
  PROVE  ToSet(RemoveAt(s, j)) \subseteq ToSet(s)
  <1> DEFINE r == RemoveAt(s, j)
  <1>1. r \in Seq(S) /\ Len(r) = Len(s) - 1 /\ Len(s) \in Nat
        /\ \A i \in 1 .. Len(s) - 1 : r[i] = IF i < j THEN s[i] ELSE s[i + 1]
    BY RemoveAtProperties
  <1> HIDE DEF r
  <1>2. ASSUME NEW i \in 1 .. Len(s) - 1
        PROVE  \E k \in 1 .. Len(s) : r[i] = s[k]
    <2>1. i \in 1 .. Len(s) /\ i + 1 \in 1 .. Len(s)
      BY <1>1
    <2> QED
      BY <1>1, <2>1
  <1>3. DOMAIN r = 1 .. Len(s) - 1 /\ DOMAIN s = 1 .. Len(s)
    BY <1>1
  <1>4. ToSet(r) \subseteq ToSet(s)
    BY <1>2, <1>3 DEF ToSet
  <1> QED
    BY <1>4 DEF r

\* erase(remove(...)) of an entry leaves a list of entries that were there.
LEMMA RemoveFirstProperties ==
  ASSUME NEW S, NEW s \in Seq(S), NEW e
  PROVE  /\ RemoveFirst(s, e) \in Seq(S)
         /\ ToSet(RemoveFirst(s, e)) \subseteq ToSet(s)
  <1>1. CASE ~ \E i \in 1 .. Len(s) : s[i] = e
    BY <1>1 DEF RemoveFirst
  <1>2. CASE \E i \in 1 .. Len(s) : s[i] = e
    <2> DEFINE I == {i \in 1 .. Len(s) : s[i] = e}
    <2>1. I \in SUBSET Nat /\ I # {}
      BY <1>2
    <2>2. Min(I) \in 1 .. Len(s)
      BY <2>1, MinProperties
    <2>3. RemoveFirst(s, e) = RemoveAt(s, Min(I))
      BY <1>2 DEF RemoveFirst, SelectInSeq
    <2> HIDE DEF I
    <2> QED
      BY <2>2, <2>3, RemoveAtProperties, RemoveAtContents
  <1> QED
    BY <1>1, <1>2

\* The positions of a list that hold an element of T.
Positions(s, T) == {i \in 1 .. Len(s) : s[i] \in T}

\* A list has finitely many positions.
LEMMA PositionsFinite ==
  ASSUME NEW S, NEW s \in Seq(S), NEW T
  PROVE  IsFiniteSet(Positions(s, T)) /\ Cardinality(Positions(s, T)) \in Nat
  <1>1. Positions(s, T) \in SUBSET (1 .. Len(s)) /\ IsFiniteSet(1 .. Len(s))
    BY FS_Interval DEF Positions
  <1>2. IsFiniteSet(Positions(s, T))
    BY <1>1, FS_Subset
  <1> QED
    BY <1>2, FS_CardinalityType

\* push_back adds one to the number of the elements of its kind.
LEMMA PositionsAppend ==
  ASSUME NEW S, NEW s \in Seq(S), NEW e \in S, NEW T
  PROVE  Cardinality(Positions(Append(s, e), T))
           = Cardinality(Positions(s, T)) + IF e \in T THEN 1 ELSE 0
  <1> DEFINE n == Len(s) + 1
             P == Positions(s, T)
  <1>1. Len(s) \in Nat /\ Len(Append(s, e)) = n /\ Append(s, e)[n] = e
        /\ \A i \in 1 .. Len(s) : Append(s, e)[i] = s[i]
    OBVIOUS
  <1>2. IsFiniteSet(P) /\ Cardinality(P) \in Nat
    BY PositionsFinite
  <1>3. CASE e \in T
    <2>1. Positions(Append(s, e), T) = P \cup {n} /\ n \notin P
      BY <1>1, <1>3 DEF Positions
    <2> HIDE DEF P, n
    <2>2. Cardinality(P \cup {n}) = Cardinality(P) + 1
      BY <1>2, <2>1, FS_AddElement
    <2> QED
      BY <1>3, <2>1, <2>2 DEF P
  <1>4. CASE e \notin T
    <2>1. Positions(Append(s, e), T) = P
      BY <1>1, <1>4 DEF Positions
    <2> QED
      BY <1>2, <1>4, <2>1
  <1> QED
    BY <1>3, <1>4

\* erase takes one from the number of the elements of its kind.
LEMMA PositionsRemoveAt ==
  ASSUME NEW S, NEW s \in Seq(S), NEW j \in 1 .. Len(s), NEW T
  PROVE  Cardinality(Positions(RemoveAt(s, j), T))
           = Cardinality(Positions(s, T)) - IF s[j] \in T THEN 1 ELSE 0
  <1> DEFINE r == RemoveAt(s, j)
             P == Positions(s, T)
             Q == Positions(r, T)
             f == [i \in P \ {j} |-> IF i < j THEN i ELSE i - 1]
  <1>1. r \in Seq(S) /\ Len(r) = Len(s) - 1 /\ Len(s) \in Nat
        /\ \A i \in 1 .. Len(s) - 1 : r[i] = IF i < j THEN s[i] ELSE s[i + 1]
    BY RemoveAtProperties
  <1>2. IsFiniteSet(P) /\ Cardinality(P) \in Nat
    BY PositionsFinite
  <1> HIDE DEF r
  <1>3. f \in [P \ {j} -> Q]
    <2>1. ASSUME NEW i \in P \ {j}
          PROVE  (IF i < j THEN i ELSE i - 1) \in Q
      BY <1>1 DEF Positions
    <2> QED
      BY <2>1
  <1>4. \A i, k \in P \ {j} : f[i] = f[k] => i = k
    BY DEF Positions
  <1>5. ASSUME NEW q \in Q
        PROVE  \E i \in P \ {j} : f[i] = q
    <2>1. CASE q < j
      <3>1. q \in P \ {j} /\ f[q] = q
        BY <1>1, <2>1 DEF Positions
      <3> QED
        BY <3>1
    <2>2. CASE q >= j
      <3>1. q \in 1 .. Len(s) - 1 /\ r[q] \in T /\ r[q] = s[q + 1]
        BY <1>1, <2>2 DEF Positions
      <3>2. q + 1 \in P \ {j}
        BY <1>1, <2>2, <3>1 DEF Positions
      <3>3. f[q + 1] = q
        BY <2>2, <3>1, <3>2
      <3> QED
        BY <3>2, <3>3
    <2>3. q \in Int
      BY DEF Positions
    <2> QED
      BY <2>1, <2>2, <2>3
  <1>6. ExistsBijection(P \ {j}, Q)
    <2> HIDE DEF P, Q, f
    <2>1. DOMAIN f = P \ {j}
      BY <1>3
    <2>2. f \in Injection(P \ {j}, Q)
      BY <1>3, <1>4, <2>1 DEF Injection, IsInjective
    <2>3. f \in Surjection(P \ {j}, Q)
      BY <1>3, <1>5 DEF Surjection
    <2> QED
      BY <2>2, <2>3 DEF ExistsBijection, Bijection
  <1> HIDE DEF P, Q, f
  <1>7. IsFiniteSet(P \ {j}) /\ Cardinality(Q) = Cardinality(P \ {j})
    BY <1>2, <1>6, FS_RemoveElement, FS_Bijection
  <1>8. Cardinality(P \ {j}) = Cardinality(P) - IF j \in P THEN 1 ELSE 0
    <2>1. CASE j \in P
      BY <1>2, <2>1, FS_RemoveElement
    <2>2. CASE j \notin P
      <3>1. P \ {j} = P
        BY <2>2
      <3>2. Cardinality(P \ {j}) = Cardinality(P)
        BY <3>1, Zenon
      <3> QED
        BY <1>2, <2>2, <3>2
    <2> QED
      BY <2>1, <2>2
  <1>9. j \in P <=> s[j] \in T
    BY DEF P, Positions
  <1> QED
    BY <1>7, <1>8, <1>9 DEF P, Q, r

USE MatchAssumption

-----------------------------------------------------------------------------
(***************************************************************************)
(* Types.  A PtlMEAppend that is under way has an entry of the priority    *)
(* list and a position in the unexpected headers; an RX actor that is not  *)
(* idle has an entry.                                                      *)
(***************************************************************************)
UserInv ==
  user # UserIdle =>
    /\ user.me \in ME \ Overflow
    /\ user.me \in used
    /\ user.at \in 1 .. Len(headers) + 1

RxInv == \A x \in Rx : rx[x].pc # "idle" => rx[x].me \in ME

\* The priority list holds no entry of the overflow list.
ListInv == \A me \in ToSet(lists["PRIORITY"]) : me \notin Overflow

TypeInv == TypeOK /\ UserInv /\ RxInv /\ ListInv

\* Both lists keep their type when an entry is inserted or unlinked.
LEMMA ListsAppend ==
  ASSUME TypeInv, NEW me \in ME, lists' = [lists EXCEPT ![ListOf(me)] = Append(@, me)]
  PROVE  /\ lists' \in [{"PRIORITY", "OVERFLOW"} -> Seq(ME)]
         /\ ListInv'
         /\ ToSet(lists'["PRIORITY"]) \subseteq
              ToSet(lists["PRIORITY"]) \cup (IF me \in Overflow THEN {} ELSE {me})
  <1> DEFINE l == lists["PRIORITY"]
  <1>1. lists \in [{"PRIORITY", "OVERFLOW"} -> Seq(ME)]
    BY DEF TypeInv, TypeOK
  <1>2. lists' \in [{"PRIORITY", "OVERFLOW"} -> Seq(ME)]
    BY <1>1 DEF ListOf
  <1>3. CASE me \in Overflow
    <2>1. lists'["PRIORITY"] = l
      BY <1>1, <1>3 DEF ListOf
    <2> QED
      BY <1>2, <1>3, <2>1 DEF TypeInv, ListInv
  <1>4. CASE me \notin Overflow
    <2>1. lists'["PRIORITY"] = Append(l, me) /\ l \in Seq(ME)
      BY <1>1, <1>4 DEF ListOf
    <2>2. ToSet(Append(l, me)) \subseteq ToSet(l) \cup {me}
      BY <2>1 DEF ToSet
    <2> QED
      BY <1>2, <1>4, <2>1, <2>2 DEF TypeInv, ListInv
  <1> QED
    BY <1>3, <1>4

\* BxiME::unlink takes an entry from its list and adds none.
LEMMA ListsRemove ==
  ASSUME TypeInv, NEW me \in ME, lists' = [lists EXCEPT ![ListOf(me)] = RemoveFirst(@, me)]
  PROVE  /\ lists' \in [{"PRIORITY", "OVERFLOW"} -> Seq(ME)]
         /\ ListInv'
         /\ ToSet(lists'["PRIORITY"]) \subseteq ToSet(lists["PRIORITY"])
  <1>1. lists \in [{"PRIORITY", "OVERFLOW"} -> Seq(ME)]
    BY DEF TypeInv, TypeOK
  <1>2. ListOf(me) \in {"PRIORITY", "OVERFLOW"}
    BY DEF ListOf
  <1>3. RemoveFirst(lists[ListOf(me)], me) \in Seq(ME)
        /\ ToSet(RemoveFirst(lists[ListOf(me)], me)) \subseteq ToSet(lists[ListOf(me)])
    BY <1>1, <1>2, RemoveFirstProperties
  <1>4. lists' \in [{"PRIORITY", "OVERFLOW"} -> Seq(ME)]
    BY <1>1, <1>2, <1>3
  <1>5. ToSet(lists'["PRIORITY"]) \subseteq ToSet(lists["PRIORITY"])
    <2>1. CASE ListOf(me) = "PRIORITY"
      BY <1>1, <1>3, <2>1
    <2>2. CASE ListOf(me) # "PRIORITY"
      BY <1>1, <2>2
    <2> QED
      BY <2>1, <2>2
  <1> QED
    BY <1>4, <1>5 DEF TypeInv, ListInv

\* BxiME::unlink adds nothing to the priority list, whether the entry is in
\* use or not.
LEMMA UnlinkLists ==
  ASSUME TypeInv, NEW me \in ME, Unlink(me)
  PROVE  /\ lists' \in [{"PRIORITY", "OVERFLOW"} -> Seq(ME)]
         /\ ListInv'
         /\ ToSet(lists'["PRIORITY"]) \subseteq ToSet(lists["PRIORITY"])
         /\ needsUnlink' \subseteq ME /\ freed' \subseteq ME
  <1>1. CASE me \in inUse
    BY <1>1 DEF Unlink, TypeInv, TypeOK, ListInv
  <1>2. CASE me \notin inUse
    BY <1>2, ListsRemove DEF Unlink, TypeInv, TypeOK
  <1> QED
    BY <1>1, <1>2

\* The end of PtlMEAppend: the entry is in its list or deleted.
LEMMA InsertLists ==
  ASSUME TypeInv, NEW me \in ME, NEW hit, Insert(me, hit)
  PROVE  /\ lists' \in [{"PRIORITY", "OVERFLOW"} -> Seq(ME)]
         /\ ListInv'
         /\ ToSet(lists'["PRIORITY"]) \subseteq
              ToSet(lists["PRIORITY"]) \cup (IF me \in Overflow THEN {} ELSE {me})
         /\ hit /\ me \in UseOnce => lists' = lists
         /\ freed' \subseteq ME
         /\ user' = UserIdle
         /\ UNCHANGED <<headers, used, matches, overflowEv>>
  <1>1. CASE hit /\ me \in UseOnce
    BY <1>1 DEF Insert, TypeInv, TypeOK, ListInv
  <1>2. CASE ~(hit /\ me \in UseOnce)
    BY <1>2, ListsAppend DEF Insert, TypeInv, TypeOK
  <1> QED
    BY <1>1, <1>2

\* The entry that walk_through_lists finds is in one of the lists and
\* matches; it is one of the overflow list only if none of the priority
\* list matches.
LEMMA FoundMatches ==
  ASSUME TypeInv, NEW m \in Message, Found(m) # None
  PROVE  /\ Found(m) \in ME
         /\ MatchesRequest(Found(m), m)
         /\ Found(m) \in Overflow =>
              \A me \in ToSet(lists["PRIORITY"]) : ~MatchesRequest(me, m)
  <1>1. lists["PRIORITY"] \in Seq(ME) /\ lists["OVERFLOW"] \in Seq(ME)
    BY DEF TypeInv, TypeOK
  <1>2. \A l \in {"PRIORITY", "OVERFLOW"} : Candidates(l, m) \in SUBSET Nat
    BY <1>1 DEF Candidates
  <1>3. CASE Candidates("PRIORITY", m) # {}
    <2> DEFINE i == Min(Candidates("PRIORITY", m))
    <2>1. i \in Candidates("PRIORITY", m)
      BY <1>2, <1>3, MinProperties
    <2>2. Found(m) = lists["PRIORITY"][i]
      BY <1>3 DEF Found
    <2> HIDE DEF i
    <2>3. i \in 1 .. Len(lists["PRIORITY"]) /\ MatchesRequest(lists["PRIORITY"][i], m)
      BY <2>1 DEF Candidates
    <2>4. lists["PRIORITY"][i] \in ME /\ lists["PRIORITY"][i] \in ToSet(lists["PRIORITY"])
      BY <1>1, <2>3 DEF ToSet
    <2> QED
      BY <2>2, <2>3, <2>4 DEF TypeInv, ListInv
  <1>4. CASE Candidates("PRIORITY", m) = {}
    <2> DEFINE i == Min(Candidates("OVERFLOW", m))
    <2>1. Candidates("OVERFLOW", m) # {} /\ Found(m) = lists["OVERFLOW"][i]
      BY <1>4 DEF Found
    <2>2. i \in Candidates("OVERFLOW", m)
      BY <1>2, <2>1, MinProperties
    <2> HIDE DEF i
    <2>3. i \in 1 .. Len(lists["OVERFLOW"]) /\ MatchesRequest(lists["OVERFLOW"][i], m)
      BY <2>2 DEF Candidates
    <2>4. lists["OVERFLOW"][i] \in ME
      BY <1>1, <2>3
    <2>5. \A me \in ToSet(lists["PRIORITY"]) : ~MatchesRequest(me, m)
      BY <1>1, <1>4 DEF Candidates, ToSet
    <2> QED
      BY <2>1, <2>3, <2>4, <2>5
  <1> QED
    BY <1>3, <1>4

-----------------------------------------------------------------------------
(***************************************************************************)
(* The walk through the unexpected headers.                                *)
(***************************************************************************)
\* The walk of entry me from index i on erases the header at index j, the
\* first one that matches.
WalkHit(me, i, j) ==
  /\ me \notin Overflow
  /\ j \in i .. Len(headers)
  /\ MatchesRequest(me, headers[j])
  /\ \A k \in i .. j - 1 : ~MatchesRequest(me, headers[k])
  /\ headers' = RemoveAt(headers, j)
  /\ overflowEv' = [overflowEv EXCEPT ![headers[j]] = @ + 1]
  /\ used' = used \cup {me}
  /\ matches' = [matches EXCEPT ![me] = @ + 1]
  /\ user' = [me |-> me, at |-> j, hit |-> TRUE]
  /\ UNCHANGED <<lists, freed>>

\* A walk erases one header, or ends with the insertion of an entry that no
\* header from i on matches.
LEMMA WalkCases ==
  ASSUME TypeInv, NEW me \in ME, NEW i \in 1 .. Len(headers) + 1, NEW hit, WalkUHs(me, i, hit)
  PROVE  \/ /\ Insert(me, hit)
            /\ me \in Overflow \/ \A k \in i .. Len(headers) : ~MatchesRequest(me, headers[k])
         \/ \E j \in 1 .. Len(headers) : WalkHit(me, i, j)
  <1> DEFINE H == {k \in i .. Len(headers) : MatchesRequest(me, headers[k])}
             j == Min(H)
  <1>1. headers \in Seq(Message) /\ Len(headers) \in Nat
    BY DEF TypeInv, TypeOK
  <1>2. CASE me \in Overflow \/ H = {}
    BY <1>2 DEF WalkUHs
  <1>3. CASE me \notin Overflow /\ H # {}
    <2>1. H \in SUBSET Nat
      BY <1>1
    <2>2. j \in H /\ \A k \in H : j <= k
      BY <1>3, <2>1, MinProperties
    <2>3. /\ headers' = RemoveAt(headers, j)
          /\ overflowEv' = [overflowEv EXCEPT ![headers[j]] = @ + 1]
          /\ used' = used \cup {me}
          /\ matches' = [matches EXCEPT ![me] = @ + 1]
          /\ user' = [me |-> me, at |-> j, hit |-> TRUE]
          /\ UNCHANGED <<lists, freed>>
      BY <1>3 DEF WalkUHs
    <2> HIDE DEF j
    <2>4. j \in i .. Len(headers) /\ MatchesRequest(me, headers[j])
      BY <2>2
    <2>5. \A k \in i .. j - 1 : ~MatchesRequest(me, headers[k])
      BY <1>1, <2>2, <2>4
    <2>6. WalkHit(me, i, j) /\ j \in 1 .. Len(headers)
      BY <1>1, <1>3, <2>3, <2>4, <2>5 DEF WalkHit
    <2> QED
      BY <2>6
  <1> QED
    BY <1>2, <1>3

\* A step of PtlMEAppend is the insertion of its entry or one header erased.
LEMMA AppendCases ==
  ASSUME TypeInv, \/ AppendGoesOn
                  \/ \E me \in ME : AppendME(me)
  PROVE  \E me \in ME, i \in 1 .. Len(headers) + 1, hit \in BOOLEAN :
           /\ user # UserIdle => me = user.me /\ i = user.at
           /\ user = UserIdle => i = 1
           /\ \/ /\ Insert(me, hit)
                 /\ \/ me \in Overflow
                    \/ hit /\ me \in UseOnce
                    \/ \A k \in i .. Len(headers) : ~MatchesRequest(me, headers[k])
              \/ \E j \in 1 .. Len(headers) : WalkHit(me, i, j)
  <1>1. headers \in Seq(Message) /\ Len(headers) \in Nat /\ user.hit \in BOOLEAN
    BY DEF TypeInv, TypeOK
  <1>2. ASSUME NEW me \in ME, AppendME(me)
        PROVE  \/ Insert(me, FALSE) /\ (\/ me \in Overflow
                                        \/ \A k \in 1 .. Len(headers) : ~MatchesRequest(me, headers[k]))
               \/ \E j \in 1 .. Len(headers) : WalkHit(me, 1, j)
    <2>1. WalkUHs(me, 1, FALSE)
      BY <1>2, Zenon DEF AppendME
    <2>2. 1 \in 1 .. Len(headers) + 1
      BY <1>1
    <2> QED
      BY <2>1, <2>2, WalkCases
  <1>3. ASSUME NEW me \in ME, AppendME(me)
        PROVE  user = UserIdle /\ 1 \in 1 .. Len(headers) + 1
    BY <1>1, <1>3 DEF AppendME
  <1>4. CASE \E me \in ME : AppendME(me)
    BY <1>2, <1>3, <1>4
  <1>5. CASE AppendGoesOn
    <2>1. user # UserIdle /\ user.me \in ME /\ user.at \in 1 .. Len(headers) + 1
      BY <1>5 DEF AppendGoesOn, TypeInv, UserInv
    <2>2. CASE user.me \in UseOnce
      <3>1. Insert(user.me, TRUE)
        BY <1>5, <2>2 DEF AppendGoesOn
      <3> QED
        BY <2>1, <2>2, <3>1
    <2>3. CASE user.me \notin UseOnce
      <3>1. WalkUHs(user.me, user.at, user.hit)
        BY <1>5, <2>3 DEF AppendGoesOn
      <3>2. \/ /\ Insert(user.me, user.hit)
               /\ \/ user.me \in Overflow
                  \/ \A k \in user.at .. Len(headers) : ~MatchesRequest(user.me, headers[k])
            \/ \E j \in 1 .. Len(headers) : WalkHit(user.me, user.at, j)
        BY <2>1, <3>1, WalkCases
      <3> QED
        BY <1>1, <2>1, <3>2
    <2> QED
      BY <2>2, <2>3
  <1> QED
    BY <1>4, <1>5

\* The headers and the types after a header was erased.
LEMMA WalkHitType ==
  ASSUME TypeInv, NEW me \in ME, NEW i \in 1 .. Len(headers) + 1,
         NEW j \in 1 .. Len(headers), WalkHit(me, i, j)
  PROVE  /\ headers[j] \in Message
         /\ headers' \in Seq(Message)
         /\ Len(headers') = Len(headers) - 1
         /\ \A k \in 1 .. Len(headers) - 1 :
              headers'[k] = IF k < j THEN headers[k] ELSE headers[k + 1]
         /\ overflowEv' \in [Message -> Nat] /\ matches' \in [ME -> Nat] /\ used' \subseteq ME
         /\ user' \in [me : ME \cup {None}, at : Nat, hit : BOOLEAN]
         /\ UserInv'
  <1>1. headers \in Seq(Message) /\ Len(headers) \in Nat /\ headers[j] \in Message
    BY DEF TypeInv, TypeOK
  <1>2. /\ headers' \in Seq(Message)
        /\ Len(headers') = Len(headers) - 1
        /\ \A k \in 1 .. Len(headers) - 1 :
             headers'[k] = IF k < j THEN headers[k] ELSE headers[k + 1]
    BY <1>1, RemoveAtProperties DEF WalkHit
  <1>3. overflowEv' \in [Message -> Nat] /\ matches' \in [ME -> Nat] /\ used' \subseteq ME
    BY <1>1 DEF WalkHit, TypeInv, TypeOK
  <1>4. user' = [me |-> me, at |-> j, hit |-> TRUE] /\ me \notin Overflow /\ me \in used'
    BY DEF WalkHit
  <1>5. user' \in [me : ME \cup {None}, at : Nat, hit : BOOLEAN]
    BY <1>4
  <1>6. UserInv'
    <2>1. user'.me = me /\ user'.at = j
      BY <1>4
    <2>2. j \in 1 .. Len(headers') + 1
      BY <1>1, <1>2
    <2> QED
      BY <1>4, <2>1, <2>2 DEF UserInv
  <1> QED
    BY <1>1, <1>2, <1>3, <1>5, <1>6

\* A step of PtlMEAppend keeps the types.
LEMMA AppendType ==
  ASSUME TypeInv, \/ AppendGoesOn
                  \/ \E me \in ME : AppendME(me)
  PROVE  TypeInv'
  <1>1. /\ enabled' = enabled /\ inUse' = inUse /\ needsUnlink' = needsUnlink /\ rx' = rx
        /\ arrived' = arrived /\ home' = home /\ appended' \subseteq ME
    BY DEF AppendGoesOn, AppendME, TypeInv, TypeOK
  <1>2. PICK me \in ME, i \in 1 .. Len(headers) + 1, hit \in BOOLEAN :
           \/ Insert(me, hit)
           \/ \E j \in 1 .. Len(headers) : WalkHit(me, i, j)
    BY AppendCases
  <1>3. CASE Insert(me, hit)
    <2>1. /\ lists' \in [{"PRIORITY", "OVERFLOW"} -> Seq(ME)] /\ ListInv' /\ freed' \subseteq ME
          /\ user' = UserIdle /\ UNCHANGED <<headers, used, matches, overflowEv>>
      BY <1>3, InsertLists
    <2>2. user' \in [me : ME \cup {None}, at : Nat, hit : BOOLEAN] /\ UserInv'
      BY <2>1 DEF UserIdle, UserInv
    <2> QED
      BY <1>1, <2>1, <2>2 DEF TypeInv, TypeOK, RxInv
  <1>4. ASSUME NEW j \in 1 .. Len(headers), WalkHit(me, i, j)
        PROVE  TypeInv'
    <2>1. /\ headers' \in Seq(Message) /\ overflowEv' \in [Message -> Nat]
          /\ matches' \in [ME -> Nat] /\ used' \subseteq ME
          /\ user' \in [me : ME \cup {None}, at : Nat, hit : BOOLEAN]
          /\ UserInv'
      BY <1>4, WalkHitType
    <2>2. lists' = lists /\ freed' = freed
      BY <1>4 DEF WalkHit
    <2> QED
      BY <1>1, <2>1, <2>2 DEF TypeInv, TypeOK, RxInv, ListInv
  <1> QED
    BY <1>2, <1>3, <1>4

\* A message that matches keeps the types; the headers may get longer.
LEMMA RxMatchType ==
  ASSUME TypeInv, NEW x \in Rx, NEW m \in Message, RxMatch(x, m)
  PROVE  TypeInv'
  <1> DEFINE me == Found(m)
  <1>1. me \in ME
    BY FoundMatches DEF RxMatch
  <1> HIDE DEF me
  <1>2. headers \in Seq(Message) /\ headers' = IF me \in Overflow THEN Append(headers, m) ELSE headers
    BY DEF RxMatch, TypeInv, TypeOK, me
  <1>3. headers' \in Seq(Message) /\ Len(headers') >= Len(headers)
    BY <1>2
  <1>4. rx' \in [Rx -> [pc : {"idle", "using", "event"}, me : ME \cup {None}, msg : Message \cup {None}]]
    BY <1>1 DEF RxMatch, TypeInv, TypeOK, me
  <1>5. RxInv'
    BY <1>1 DEF RxMatch, TypeInv, TypeOK, RxInv, me
  <1>6. user' = user /\ used \subseteq used' /\ used' \subseteq ME /\ inUse' \subseteq ME
        /\ lists' = lists /\ enabled' = enabled /\ appended' = appended
        /\ needsUnlink' = needsUnlink /\ freed' = freed /\ overflowEv' = overflowEv
        /\ arrived' \subseteq Message
    BY <1>1 DEF RxMatch, RxTake, TypeInv, TypeOK, me
  <1>7. home' \in [Message -> ME \cup {None}] /\ matches' \in [ME -> Nat]
    BY <1>1 DEF RxMatch, TypeInv, TypeOK, me
  <1>8. UserInv'
    <2>1. SUFFICES ASSUME user # UserIdle
                   PROVE  user.me \in ME \ Overflow /\ user.me \in used' /\ user.at \in 1 .. Len(headers') + 1
      BY <1>6 DEF UserInv
    <2>2. user.me \in ME \ Overflow /\ user.me \in used /\ user.at \in 1 .. Len(headers) + 1
      BY <2>1 DEF TypeInv, UserInv
    <2> QED
      BY <1>2, <1>3, <1>6, <2>2
  <1> QED
    BY <1>3, <1>4, <1>5, <1>6, <1>7, <1>8 DEF TypeInv, TypeOK, ListInv

\* The end of the use of an entry keeps the types.
LEMMA RxReleaseType ==
  ASSUME TypeInv, NEW x \in Rx, RxRelease(x)
  PROVE  TypeInv' /\ ToSet(lists'["PRIORITY"]) \subseteq ToSet(lists["PRIORITY"])
  <1> DEFINE me == rx[x].me
  <1>1. me \in ME
    BY DEF RxRelease, TypeInv, RxInv
  <1>2. /\ lists' \in [{"PRIORITY", "OVERFLOW"} -> Seq(ME)] /\ ListInv' /\ freed' \subseteq ME
        /\ ToSet(lists'["PRIORITY"]) \subseteq ToSet(lists["PRIORITY"])
    <2>1. CASE lists' = lists /\ freed' = freed
      BY <2>1 DEF TypeInv, TypeOK, ListInv
    <2>2. CASE lists' = [lists EXCEPT ![ListOf(me)] = RemoveFirst(@, me)] /\ freed' = freed \cup {me}
      BY <1>1, <2>2, ListsRemove DEF TypeInv, TypeOK
    <2> QED
      BY <2>1, <2>2 DEF RxRelease
  <1>3. rx' = [rx EXCEPT ![x] = RxIdle] \/ rx' = [rx EXCEPT ![x].pc = "event"]
    BY DEF RxRelease, Leave
  <1>4. rx \in [Rx -> [pc : {"idle", "using", "event"}, me : ME \cup {None}, msg : Message \cup {None}]]
    BY DEF TypeInv, TypeOK
  <1>5. rx' \in [Rx -> [pc : {"idle", "using", "event"}, me : ME \cup {None}, msg : Message \cup {None}]]
    BY <1>3, <1>4 DEF RxIdle
  <1>6. RxInv'
    BY <1>1, <1>3, <1>4 DEF TypeInv, RxInv, RxIdle
  <1>7. UserInv'
    BY DEF RxRelease, TypeInv, UserInv
  <1> QED
    BY <1>2, <1>5, <1>6, <1>7 DEF RxRelease, TypeInv, TypeOK

\* Reading the mark of an entry after its event keeps the types.
LEMMA RxAfterEventType ==
  ASSUME TypeInv, NEW x \in Rx, RxAfterEvent(x)
  PROVE  TypeInv' /\ ToSet(lists'["PRIORITY"]) \subseteq ToSet(lists["PRIORITY"])
  <1> DEFINE me == rx[x].me
  <1>1. me \in ME
    BY DEF RxAfterEvent, TypeInv, RxInv
  <1>2. /\ lists' \in [{"PRIORITY", "OVERFLOW"} -> Seq(ME)] /\ ListInv'
        /\ ToSet(lists'["PRIORITY"]) \subseteq ToSet(lists["PRIORITY"])
        /\ needsUnlink' \subseteq ME /\ freed' \subseteq ME
    <2>1. CASE Unlink(me)
      BY <1>1, <2>1, UnlinkLists
    <2>2. CASE UNCHANGED <<lists, needsUnlink, freed>>
      BY <2>2 DEF TypeInv, TypeOK, ListInv
    <2> QED
      BY <2>1, <2>2 DEF RxAfterEvent
  <1>3. rx' = [rx EXCEPT ![x] = RxIdle]
        /\ rx \in [Rx -> [pc : {"idle", "using", "event"}, me : ME \cup {None}, msg : Message \cup {None}]]
    BY DEF RxAfterEvent, Leave, TypeInv, TypeOK
  <1>4. rx' \in [Rx -> [pc : {"idle", "using", "event"}, me : ME \cup {None}, msg : Message \cup {None}]]
        /\ RxInv'
    BY <1>3 DEF RxIdle, TypeInv, RxInv
  <1>5. UserInv'
    BY DEF RxAfterEvent, TypeInv, UserInv
  <1> QED
    BY <1>2, <1>4, <1>5 DEF RxAfterEvent, TypeInv, TypeOK

\* PtlMEUnlink keeps the types.
LEMMA UnlinkMEType ==
  ASSUME TypeInv, NEW me \in ME, UnlinkME(me)
  PROVE  TypeInv' /\ ToSet(lists'["PRIORITY"]) \subseteq ToSet(lists["PRIORITY"])
  <1>1. /\ lists' \in [{"PRIORITY", "OVERFLOW"} -> Seq(ME)] /\ ListInv'
        /\ ToSet(lists'["PRIORITY"]) \subseteq ToSet(lists["PRIORITY"])
        /\ needsUnlink' \subseteq ME /\ freed' \subseteq ME
    BY UnlinkLists DEF UnlinkME
  <1>2. UserInv' /\ RxInv'
    BY DEF UnlinkME, TypeInv, UserInv, RxInv
  <1> QED
    BY <1>1, <1>2 DEF UnlinkME, TypeInv, TypeOK

\* Every step keeps the types.
LEMMA TypeStep ==
  ASSUME TypeInv, [Next]_vars
  PROVE  TypeInv'
  <1>1. ASSUME NEW me \in ME, UnlinkME(me)
        PROVE  TypeInv'
    BY <1>1, UnlinkMEType
  <1>2. CASE AppendGoesOn \/ \E me \in ME : AppendME(me)
    BY <1>2, AppendType
  <1>3. CASE SwitchPT
    BY <1>3 DEF SwitchPT, flagVars, TypeInv, TypeOK, UserInv, RxInv, ListInv
  <1>4. ASSUME NEW x \in Rx, RxRelease(x)
        PROVE  TypeInv'
    BY <1>4, RxReleaseType
  <1>5. ASSUME NEW x \in Rx, RxAfterEvent(x)
        PROVE  TypeInv'
    BY <1>5, RxAfterEventType
  <1>6. ASSUME NEW x \in Rx, NEW m \in Message, RxMatch(x, m)
        PROVE  TypeInv'
    BY <1>6, RxMatchType
  <1>7. ASSUME NEW x \in Rx, NEW m \in Message, RxNoMatch(x, m)
        PROVE  TypeInv'
    BY <1>7 DEF RxNoMatch, RxTake, TypeInv, TypeOK, UserInv, RxInv, ListInv
  <1>8. CASE UNCHANGED vars
    BY <1>8 DEF vars, TypeInv, TypeOK, UserInv, RxInv, ListInv
  <1> QED
    BY <1>1, <1>2, <1>3, <1>4, <1>5, <1>6, <1>7, <1>8 DEF Next

\* The types hold initially.
LEMMA TypeInit ==
  ASSUME Init
  PROVE  TypeInv
  <1>1. TypeOK
    BY DEF Init, TypeOK, UserIdle, RxIdle
  <1>2. UserInv /\ RxInv
    BY DEF Init, UserInv, RxInv, RxIdle
  <1>3. ListInv
    BY DEF Init, ListInv, ToSet
  <1> QED
    BY <1>1, <1>2, <1>3 DEF TypeInv

-----------------------------------------------------------------------------
(***************************************************************************)
(* USE_ONCE: an entry that was never used has matched nothing.             *)
(***************************************************************************)
OnceInv == \A me \in UseOnce : matches[me] <= 1 /\ (me \notin used => matches[me] = 0)

\* An entry is matched only if matches_request accepts it, which marks it.
LEMMA OnceMatch ==
  ASSUME TypeInv, OnceInv, NEW me \in ME, NEW m, MatchesRequest(me, m),
         used' = used \cup {me}, matches' = [matches EXCEPT ![me] = @ + 1]
  PROVE  OnceInv'
  <1>1. matches \in [ME -> Nat]
    BY DEF TypeInv, TypeOK
  <1>2. me \in UseOnce => matches[me] = 0
    BY DEF MatchesRequest, OnceInv
  <1> QED
    BY <1>1, <1>2 DEF OnceInv

\* Every step keeps the count of the USE_ONCE entries.
LEMMA OnceStep ==
  ASSUME TypeInv, OnceInv, [Next]_vars
  PROVE  OnceInv'
  <1>1. CASE AppendGoesOn \/ \E me \in ME : AppendME(me)
    <2>1. PICK me \in ME, i \in 1 .. Len(headers) + 1, hit \in BOOLEAN :
             \/ Insert(me, hit)
             \/ \E j \in 1 .. Len(headers) : WalkHit(me, i, j)
      BY <1>1, AppendCases
    <2>2. CASE Insert(me, hit)
      BY <2>2 DEF Insert, OnceInv
    <2>3. ASSUME NEW j \in 1 .. Len(headers), WalkHit(me, i, j)
          PROVE  OnceInv'
      BY <2>3, OnceMatch DEF WalkHit
    <2> QED
      BY <2>1, <2>2, <2>3
  <1>2. ASSUME NEW x \in Rx, NEW m \in Message, RxMatch(x, m)
        PROVE  OnceInv'
    <2> DEFINE me == Found(m)
    <2>1. me \in ME /\ MatchesRequest(me, m)
      BY <1>2, FoundMatches DEF RxMatch
    <2>2. used' = used \cup {me} /\ matches' = [matches EXCEPT ![me] = @ + 1]
      BY <1>2 DEF RxMatch
    <2> HIDE DEF me
    <2> QED
      BY <2>1, <2>2, OnceMatch
  <1>3. ASSUME UNCHANGED <<used, matches>>
        PROVE  OnceInv'
    BY <1>3 DEF OnceInv
  <1>4. ASSUME \/ \E me \in ME : UnlinkME(me)
               \/ SwitchPT
               \/ UNCHANGED vars
               \/ \E x \in Rx : \/ RxRelease(x)
                                \/ RxAfterEvent(x)
                                \/ \E m \in Message : RxNoMatch(x, m)
        PROVE  UNCHANGED <<used, matches>>
    BY <1>4 DEF UnlinkME, SwitchPT, vars, flagVars, RxRelease, RxAfterEvent, RxNoMatch
  <1> QED
    BY <1>1, <1>2, <1>3, <1>4 DEF Next

\* BxiME::matches_request refuses a USE_ONCE entry that was used, and every
\* match marks the entry before the next simcall: such an entry takes one
\* message or one unexpected header, however the RX actors and PtlMEAppend
\* interleave.
THEOREM UseOnceOnce == Spec => []UseOnceMatchesOnce
  <1>1. Init => TypeInv /\ OnceInv
    BY TypeInit DEF Init, OnceInv
  <1>2. TypeInv /\ OnceInv /\ [Next]_vars => (TypeInv /\ OnceInv)'
    BY TypeStep, OnceStep
  <1>3. OnceInv => UseOnceMatchesOnce
    BY DEF OnceInv, UseOnceMatchesOnce
  <1> QED
    BY <1>1, <1>2, <1>3, PTL DEF Spec

-----------------------------------------------------------------------------
(***************************************************************************)
(* Unexpected headers: a message that matched in the overflow list is a    *)
(* header or has had its event, and a message that did not arrive yet has  *)
(* matched nothing.                                                        *)
(***************************************************************************)
Waiting(m) == Cardinality(Positions(headers, {m}))

SettledInv ==
  \A m \in Message :
    /\ m \notin arrived => home[m] = None
    /\ overflowEv[m] + Waiting(m) = IF home[m] \in Overflow THEN 1 ELSE 0

\* How often a message is in the headers.
LEMMA WaitingIsCount ==
  ASSUME TypeInv, NEW m \in Message
  PROVE  Count(headers, m) = Waiting(m) /\ Waiting(m) \in Nat
  <1>1. headers \in Seq(Message)
    BY DEF TypeInv, TypeOK
  <1>2. {i \in DOMAIN headers : headers[i] = m} = Positions(headers, {m})
    BY <1>1 DEF Positions
  <1> QED
    BY <1>1, <1>2, PositionsFinite DEF Count, Waiting

\* Every step keeps each message settled once.
LEMMA SettledStep ==
  ASSUME TypeInv, SettledInv, [Next]_vars
  PROVE  SettledInv'
  <1>1. headers \in Seq(Message) /\ overflowEv \in [Message -> Nat]
        /\ home \in [Message -> ME \cup {None}]
        /\ \A m \in Message : Waiting(m) \in Nat
    BY WaitingIsCount DEF TypeInv, TypeOK
  <1>2. CASE AppendGoesOn \/ \E me \in ME : AppendME(me)
    <2>1. PICK me \in ME, i \in 1 .. Len(headers) + 1, hit \in BOOLEAN :
             \/ Insert(me, hit)
             \/ \E j \in 1 .. Len(headers) : WalkHit(me, i, j)
      BY <1>2, AppendCases
    <2>2. arrived' = arrived /\ home' = home
      BY <1>2 DEF AppendGoesOn, AppendME
    <2>3. CASE Insert(me, hit)
      BY <2>2, <2>3 DEF Insert, SettledInv, Waiting
    <2>4. ASSUME NEW j \in 1 .. Len(headers), WalkHit(me, i, j)
          PROVE  SettledInv'
      <3> DEFINE h == headers[j]
      <3>1. h \in Message
        BY <1>1
      <3>2. headers' = RemoveAt(headers, j) /\ overflowEv' = [overflowEv EXCEPT ![h] = @ + 1]
        BY <2>4 DEF WalkHit
      <3>3. ASSUME NEW m \in Message
            PROVE  Waiting(m)' = Waiting(m) - IF h \in {m} THEN 1 ELSE 0
        BY <1>1, <3>2, PositionsRemoveAt DEF Waiting
      <3> HIDE DEF h
      <3>4. ASSUME NEW m \in Message
            PROVE  overflowEv'[m] + Waiting(m)' = overflowEv[m] + Waiting(m)
        <4>1. Waiting(m) \in Nat /\ overflowEv[m] \in Nat
          BY <1>1
        <4>2. CASE m = h
          BY <1>1, <3>1, <3>2, <3>3, <4>1, <4>2
        <4>3. CASE m # h
          BY <1>1, <3>1, <3>2, <3>3, <4>1, <4>3
        <4> QED
          BY <4>2, <4>3
      <3> QED
        BY <2>2, <3>4 DEF SettledInv
    <2> QED
      BY <2>1, <2>3, <2>4
  <1>3. ASSUME NEW x \in Rx, NEW m \in Message, RxMatch(x, m)
        PROVE  SettledInv'
    <2> DEFINE me == Found(m)
    <2>1. me \in ME
      BY <1>3, FoundMatches DEF RxMatch
    <2>2. /\ m \notin arrived /\ arrived' = arrived \cup {m} /\ overflowEv' = overflowEv
          /\ home' = [home EXCEPT ![m] = me]
          /\ headers' = IF me \in Overflow THEN Append(headers, m) ELSE headers
      BY <1>3 DEF RxMatch, RxTake
    <2> HIDE DEF me
    <2>3. home[m] = None /\ home[m] \notin Overflow /\ overflowEv[m] + Waiting(m) = 0
      BY <2>2 DEF SettledInv
    <2>4. ASSUME NEW n \in Message
          PROVE  Waiting(n)' = Waiting(n) + IF n = m /\ me \in Overflow THEN 1 ELSE 0
      <3>1. CASE me \in Overflow
        BY <1>1, <2>2, <3>1, PositionsAppend DEF Waiting
      <3>2. CASE me \notin Overflow
        BY <1>1, <2>2, <3>2 DEF Waiting
      <3> QED
        BY <3>1, <3>2
    <2>5. ASSUME NEW n \in Message
          PROVE  /\ n \notin arrived' => home'[n] = None
                 /\ overflowEv'[n] + Waiting(n)' = IF home'[n] \in Overflow THEN 1 ELSE 0
      <3>1. CASE n = m
        BY <1>1, <2>1, <2>2, <2>3, <2>4, <3>1
      <3>2. CASE n # m
        BY <1>1, <2>2, <2>4, <3>2 DEF SettledInv
      <3> QED
        BY <3>1, <3>2
    <2> QED
      BY <2>5 DEF SettledInv
  <1>4. ASSUME UNCHANGED <<headers, overflowEv, home>>, arrived \subseteq arrived'
        PROVE  SettledInv'
    BY <1>4 DEF SettledInv, Waiting
  <1>5. ASSUME \/ \E me \in ME : UnlinkME(me)
               \/ SwitchPT
               \/ UNCHANGED vars
               \/ \E x \in Rx : \/ RxRelease(x)
                                \/ RxAfterEvent(x)
                                \/ \E m \in Message : RxNoMatch(x, m)
        PROVE  UNCHANGED <<headers, overflowEv, home>> /\ arrived \subseteq arrived'
    BY <1>5 DEF UnlinkME, SwitchPT, vars, flagVars, RxRelease, RxAfterEvent, RxNoMatch, RxTake
  <1> QED
    BY <1>2, <1>3, <1>4, <1>5 DEF Next

\* A message that no entry of the priority list wanted waits as an unexpected
\* header until one PtlMEAppend takes it and issues its overflow event: it is
\* neither taken twice nor dropped, although messages arrive during the walk.
THEOREM OverflowOnce == Spec => []OverflowSettledOnce
  <1>1. Init => TypeInv /\ SettledInv
    <2> SUFFICES ASSUME Init
                 PROVE  TypeInv /\ SettledInv
      OBVIOUS
    <2>1. \A m \in Message : Positions(headers, {m}) = {}
      BY DEF Init, Positions
    <2>2. \A m \in Message : Waiting(m) = 0
      BY <2>1, FS_EmptySet DEF Waiting
    <2>3. \A m \in Message : home[m] = None /\ overflowEv[m] = 0
      BY DEF Init
    <2> QED
      BY <2>2, <2>3, TypeInit DEF SettledInv
  <1>2. TypeInv /\ SettledInv /\ [Next]_vars => (TypeInv /\ SettledInv)'
    BY TypeStep, SettledStep
  <1>3. TypeInv /\ SettledInv => OverflowSettledOnce
    BY WaitingIsCount DEF SettledInv, OverflowSettledOnce, TypeInv
  <1> QED
    BY <1>1, <1>2, <1>3, PTL DEF Spec

-----------------------------------------------------------------------------
(***************************************************************************)
(* No header is left behind.  At all times no header matches an entry of   *)
(* the priority list, and none before the position of a walk matches the   *)
(* entry of the walk.                                                      *)
(***************************************************************************)
HeaderInv ==
  /\ \A h \in ToSet(headers), me \in ToSet(lists["PRIORITY"]) : ~MatchesRequest(me, h)
  /\ user # UserIdle =>
       \A k \in 1 .. user.at - 1 : ~MatchesRequest(user.me, headers[k])

\* A used entry stays used: matches_request accepts less and less.
LEMMA MatchesLess ==
  ASSUME used \subseteq used', NEW me, NEW m, ~MatchesRequest(me, m)
  PROVE  ~MatchesRequest(me, m)'
  BY DEF MatchesRequest

\* Every step keeps the headers apart from the entries that would take them.
LEMMA HeaderStep ==
  ASSUME TypeInv, HeaderInv, [Next]_vars
  PROVE  HeaderInv'
  <1>1. headers \in Seq(Message) /\ Len(headers) \in Nat
    BY DEF TypeInv, TypeOK
  <1>2. CASE AppendGoesOn \/ \E me \in ME : AppendME(me)
    <2>1. PICK me \in ME, i \in 1 .. Len(headers) + 1, hit \in BOOLEAN :
            /\ user # UserIdle => me = user.me /\ i = user.at
            /\ user = UserIdle => i = 1
            /\ \/ /\ Insert(me, hit)
                  /\ \/ me \in Overflow
                     \/ hit /\ me \in UseOnce
                     \/ \A k \in i .. Len(headers) : ~MatchesRequest(me, headers[k])
               \/ \E j \in 1 .. Len(headers) : WalkHit(me, i, j)
      BY <1>2, AppendCases
    <2>2. \A k \in 1 .. i - 1 : ~MatchesRequest(me, headers[k])
      BY <2>1 DEF HeaderInv
    <2>3. CASE Insert(me, hit) /\ (me \in Overflow \/ (hit /\ me \in UseOnce))
      <3>1. /\ ToSet(lists'["PRIORITY"]) \subseteq ToSet(lists["PRIORITY"])
            /\ headers' = headers /\ used' = used /\ user' = UserIdle
        BY <2>3, InsertLists
      <3> QED
        BY <3>1, MatchesLess DEF HeaderInv
    <2>4. CASE Insert(me, hit) /\ \A k \in i .. Len(headers) : ~MatchesRequest(me, headers[k])
      <3>1. /\ ToSet(lists'["PRIORITY"]) \subseteq ToSet(lists["PRIORITY"]) \cup {me}
            /\ headers' = headers /\ used' = used /\ user' = UserIdle
        BY <2>4, InsertLists
      <3>2. \A h \in ToSet(headers) : ~MatchesRequest(me, h)
        BY <1>1, <2>2, <2>4 DEF ToSet
      <3> QED
        BY <3>1, <3>2, MatchesLess DEF HeaderInv
    <2>5. ASSUME NEW j \in 1 .. Len(headers), WalkHit(me, i, j)
          PROVE  HeaderInv'
      <3>1. /\ headers' \in Seq(Message) /\ Len(headers') = Len(headers) - 1
            /\ \A k \in 1 .. Len(headers) - 1 :
                 headers'[k] = IF k < j THEN headers[k] ELSE headers[k + 1]
        BY <2>5, WalkHitType
      <3>2. /\ user' = [me |-> me, at |-> j, hit |-> TRUE]
            /\ lists' = lists /\ used \subseteq used' /\ j \in i .. Len(headers)
            /\ \A k \in i .. j - 1 : ~MatchesRequest(me, headers[k])
        BY <2>5 DEF WalkHit
      <3>3. ToSet(headers') \subseteq ToSet(headers)
        BY <1>1, <2>5, RemoveAtContents DEF WalkHit
      <3>4. ASSUME NEW k \in 1 .. j - 1
            PROVE  ~MatchesRequest(me, headers[k]) /\ headers'[k] = headers[k]
        <4>1. k \in 1 .. i - 1 \/ k \in i .. j - 1
          BY <1>1
        <4>2. k \in 1 .. Len(headers) - 1 /\ k < j
          BY <1>1
        <4> QED
          BY <2>2, <3>1, <3>2, <4>1, <4>2
      <3>5. user'.me = me /\ user'.at = j
        BY <3>2
      <3> QED
        BY <3>2, <3>3, <3>4, <3>5, MatchesLess DEF HeaderInv
    <2> QED
      BY <2>1, <2>3, <2>4, <2>5
  <1>3. ASSUME NEW x \in Rx, NEW m \in Message, RxMatch(x, m)
        PROVE  HeaderInv'
    <2>1. Found(m) \in Overflow => \A me \in ToSet(lists["PRIORITY"]) : ~MatchesRequest(me, m)
      BY <1>3, FoundMatches DEF RxMatch
    <2>2. /\ lists' = lists /\ user' = user /\ used \subseteq used'
          /\ headers' = IF Found(m) \in Overflow THEN Append(headers, m) ELSE headers
      BY <1>3 DEF RxMatch, RxTake
    <2>3. ASSUME NEW h \in ToSet(headers'), NEW me \in ToSet(lists["PRIORITY"])
          PROVE  ~MatchesRequest(me, h)
      <3>1. CASE Found(m) \in Overflow
        <4>1. headers' = Append(headers, m)
          BY <2>2, <3>1
        <4>2. ToSet(headers') \subseteq ToSet(headers) \cup {m}
          BY <1>1, <4>1 DEF ToSet
        <4> QED
          BY <2>1, <2>3, <3>1, <4>2 DEF HeaderInv
      <3>2. CASE Found(m) \notin Overflow
        BY <2>2, <2>3, <3>2 DEF HeaderInv
      <3> QED
        BY <3>1, <3>2
    <2>4. ASSUME user # UserIdle, NEW k \in 1 .. user.at - 1
          PROVE  ~MatchesRequest(user.me, headers'[k])
      <3>1. user.at \in 1 .. Len(headers) + 1
        BY <2>4 DEF TypeInv, UserInv
      <3>2. headers'[k] = headers[k]
        BY <1>1, <2>2, <2>4, <3>1
      <3> QED
        BY <2>4, <3>2 DEF HeaderInv
    <2> QED
      BY <2>2, <2>3, <2>4, MatchesLess DEF HeaderInv
  <1>4. ASSUME UNCHANGED <<headers, user, used>>,
               ToSet(lists'["PRIORITY"]) \subseteq ToSet(lists["PRIORITY"])
        PROVE  HeaderInv'
    BY <1>4, MatchesLess DEF HeaderInv
  <1>5. ASSUME NEW me \in ME, UnlinkME(me)
        PROVE  HeaderInv'
    BY <1>4, <1>5, UnlinkMEType DEF UnlinkME
  <1>6. ASSUME NEW x \in Rx, RxRelease(x)
        PROVE  HeaderInv'
    BY <1>4, <1>6, RxReleaseType DEF RxRelease
  <1>7. ASSUME NEW x \in Rx, RxAfterEvent(x)
        PROVE  HeaderInv'
    BY <1>4, <1>7, RxAfterEventType DEF RxAfterEvent
  <1>8. ASSUME \/ SwitchPT
               \/ UNCHANGED vars
               \/ \E x \in Rx, m \in Message : RxNoMatch(x, m)
        PROVE  HeaderInv'
    BY <1>4, <1>8 DEF SwitchPT, vars, flagVars, RxNoMatch, RxTake
  <1> QED
    BY <1>2, <1>3, <1>5, <1>6, <1>7, <1>8 DEF Next

\* PtlMEAppend looks at every unexpected header before it inserts an entry,
\* the ones that arrive while its events are issued included: no header ever
\* waits for an entry that is in the priority list.
THEOREM HeadersAllSeen == Spec => []NoHeaderLeftBehind
  <1>1. Init => TypeInv /\ HeaderInv
    BY TypeInit DEF Init, HeaderInv, ToSet
  <1>2. TypeInv /\ HeaderInv /\ [Next]_vars => (TypeInv /\ HeaderInv)'
    BY TypeStep, HeaderStep
  <1>3. HeaderInv => NoHeaderLeftBehind
    BY DEF HeaderInv, NoHeaderLeftBehind
  <1> QED
    BY <1>1, <1>2, <1>3, PTL DEF Spec

=============================================================================
