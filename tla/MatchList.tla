------------------------------ MODULE MatchList -----------------------------
(***************************************************************************)
(* Matching on one portal table entry (BxiPT, BxiME): the priority and the *)
(* overflow lists, the unexpected headers, the user process that appends   *)
(* and unlinks entries and the RX actors that match messages with them.    *)
(*                                                                         *)
(* Issuing an event is a simcall, and so is waking the waiters of a        *)
(* counter: the walk through the unexpected headers and the use of an      *)
(* entry by an RX actor are sequences of steps.  Deleting an entry is      *)
(* recorded in freed, so that a later use of it can be seen.               *)
(***************************************************************************)
EXTENDS Integers, SequencesExt

CONSTANTS
  ME,        \* the match list entries the user may append
  Message,   \* the messages that may arrive
  Rx,        \* the RX actors of the node
  Matches,   \* pairs <<entry, message>> whose match bits agree
  Overflow,  \* entries meant for the overflow list
  UseOnce,   \* entries with PTL_ME_USE_ONCE
  Gets,      \* messages that are Gets or FetchAtomics
  None       \* no entry, no message

ASSUME MatchAssumption ==
  /\ Matches \subseteq ME \X Message
  /\ Overflow \subseteq ME /\ UseOnce \subseteq ME
  /\ Gets \subseteq Message
  /\ None \notin ME \cup Message

VARIABLES
  lists,        \* priority_list and overflow_list
  headers,      \* unexpected_headers
  enabled,      \* enabled flag of the BxiPT
  appended,     \* entries the user has appended
  used, inUse, needsUnlink,   \* flags of the entries
  freed,        \* entries that were deleted
  user,         \* the PtlMEAppend under way
  rx,           \* the message each RX actor is handling
  arrived,      \* messages taken by an RX actor
  home,         \* entry each message matched when it arrived
  matches,      \* how many messages and headers each entry has matched
  overflowEv    \* PUT_OVERFLOW and GET_OVERFLOW events of each message

vars == <<lists, headers, enabled, appended, used, inUse, needsUnlink, freed, user, rx,
          arrived, home, matches, overflowEv>>
flagVars == <<used, inUse, needsUnlink, freed>>

Count(s, x) == Cardinality({i \in DOMAIN s : s[i] = x})

ListOf(me) == IF me \in Overflow THEN "OVERFLOW" ELSE "PRIORITY"
UserIdle == [me |-> None, at |-> 0, hit |-> FALSE]
RxIdle   == [pc |-> "idle", me |-> None, msg |-> None]

Init ==
  /\ lists = [l \in {"PRIORITY", "OVERFLOW"} |-> <<>>]
  /\ headers = <<>>
  /\ enabled = TRUE
  /\ appended = {} /\ used = {} /\ inUse = {} /\ needsUnlink = {} /\ freed = {}
  /\ user = UserIdle
  /\ rx = [x \in Rx |-> RxIdle]
  /\ arrived = {}
  /\ home = [m \in Message |-> None]
  /\ matches = [me \in ME |-> 0]
  /\ overflowEv = [m \in Message |-> 0]

\* Mutant: a used USE_ONCE entry still matches.
MatchesBits(me, m) == <<me, m>> \in Matches

\* BxiME::matches_request
MatchesRequest(me, m) == <<me, m>> \in Matches /\ ~(me \in UseOnce /\ me \in used)

\* BxiME::unlink: an entry in use is only marked.
Unlink(me) ==
  IF me \in inUse
  THEN needsUnlink' = needsUnlink \cup {me} /\ UNCHANGED <<lists, freed>>
  ELSE /\ lists' = [lists EXCEPT ![ListOf(me)] = RemoveFirst(@, me)]
       /\ freed' = freed \cup {me}
       /\ UNCHANGED needsUnlink

-----------------------------------------------------------------------------
(***************************************************************************)
(* The user process.                                                       *)
(***************************************************************************)
\* The end of BxiME::append: a USE_ONCE entry that matched a header is
\* deleted, any other entry is inserted.
Insert(me, hit) ==
  /\ user' = UserIdle
  /\ IF hit /\ me \in UseOnce
     THEN freed' = freed \cup {me} /\ UNCHANGED lists
     ELSE lists' = [lists EXCEPT ![ListOf(me)] = Append(@, me)] /\ UNCHANGED freed
  /\ UNCHANGED <<headers, used, matches, overflowEv>>

\* Mutant: the walk stops at the first header.
WalkFirst(me, i, hit) ==
  LET H == {j \in i .. Len(headers) : j = 1 /\ MatchesRequest(me, headers[j])} IN
  IF hit \/ H = {} THEN Insert(me, hit)
  ELSE /\ headers' = Tail(headers)
       /\ overflowEv' = [overflowEv EXCEPT ![Head(headers)] = @ + 1]
       /\ used' = used \cup {me}
       /\ matches' = [matches EXCEPT ![me] = @ + 1]
       /\ user' = [me |-> me, at |-> 1, hit |-> TRUE]
       /\ UNCHANGED <<lists, freed>>

\* Mutant: the header that matched is not erased.
WalkKeeps(me, i, hit) ==
  LET H == {j \in i .. Len(headers) : MatchesRequest(me, headers[j])} IN
  IF me \in Overflow \/ H = {}
  THEN Insert(me, hit)
  ELSE /\ overflowEv' = [overflowEv EXCEPT ![headers[Min(H)]] = @ + 1]
       /\ used' = used \cup {me}
       /\ matches' = [matches EXCEPT ![me] = @ + 1]
       /\ user' = [me |-> me, at |-> Min(H) + 1, hit |-> TRUE]
       /\ UNCHANGED <<lists, headers, freed>>

\* BxiPT::walk_through_UHs from index i, up to the next event issued
WalkUHs(me, i, hit) ==
  LET H == {j \in i .. Len(headers) : MatchesRequest(me, headers[j])}
      j == Min(H)
  IN
  IF me \in Overflow \/ H = {}
  THEN Insert(me, hit)
  ELSE /\ headers' = RemoveAt(headers, j)
       /\ overflowEv' = [overflowEv EXCEPT ![headers[j]] = @ + 1]
       /\ used' = used \cup {me}
       /\ matches' = [matches EXCEPT ![me] = @ + 1]
       /\ user' = [me |-> me, at |-> j, hit |-> TRUE]
       /\ UNCHANGED <<lists, freed>>

\* PtlMEAppend, up to its first simcall
AppendME(me) ==
  /\ user = UserIdle
  /\ me \notin appended
  /\ appended' = appended \cup {me}
  /\ WalkUHs(me, 1, FALSE)
  /\ UNCHANGED <<enabled, inUse, needsUnlink, rx, arrived, home>>

\* PtlMEAppend after an overflow event
AppendGoesOn ==
  /\ user # UserIdle
  /\ IF user.me \in UseOnce THEN Insert(user.me, TRUE)
     ELSE WalkUHs(user.me, user.at, user.hit)
  /\ UNCHANGED <<enabled, appended, inUse, needsUnlink, rx, arrived, home>>

\* PtlMEUnlink of an entry that the user knows to be linked: refused while
\* an unexpected header matches an overflow entry.
UnlinkME(me) ==
  /\ user = UserIdle
  /\ me \in ToSet(lists[ListOf(me)])
  /\ me \notin needsUnlink
  /\ me \in Overflow => \A h \in ToSet(headers) : ~MatchesRequest(me, h)
  /\ Unlink(me)
  /\ UNCHANGED <<headers, enabled, appended, used, inUse, user, rx, arrived, home,
                 matches, overflowEv>>

\* PtlPTEnable and PtlPTDisable
SwitchPT ==
  /\ user = UserIdle
  /\ enabled' = ~enabled
  /\ UNCHANGED <<lists, headers, appended, flagVars, user, rx, arrived, home, matches,
                 overflowEv>>

-----------------------------------------------------------------------------
(***************************************************************************)
(* The RX actors.                                                          *)
(***************************************************************************)
\* BxiPT::walk_through_lists: the first entry of the priority list, then of
\* the overflow list, that matches.
Candidates(l, m) == {i \in 1 .. Len(lists[l]) : MatchesRequest(lists[l][i], m)}

Found(m) ==
  IF Candidates("PRIORITY", m) # {}
  THEN lists["PRIORITY"][Min(Candidates("PRIORITY", m))]
  ELSE IF Candidates("OVERFLOW", m) # {}
  THEN lists["OVERFLOW"][Min(Candidates("OVERFLOW", m))]
  ELSE None

RxTake(x, m) ==
  /\ rx[x].pc = "idle"
  /\ m \notin arrived
  /\ arrived' = arrived \cup {m}
  /\ UNCHANGED <<lists, enabled, appended, needsUnlink, freed, user, overflowEv>>

\* The start of a request handler: the entry is looked for and taken.
RxMatch(x, m) ==
  LET me == Found(m) IN
  /\ RxTake(x, m)
  /\ enabled
  /\ me # None
  /\ used' = used \cup {me}
  /\ inUse' = inUse \cup {me}
  /\ home' = [home EXCEPT ![m] = me]
  /\ matches' = [matches EXCEPT ![me] = @ + 1]
  /\ headers' = IF me \in Overflow THEN Append(headers, m) ELSE headers
  /\ rx' = [rx EXCEPT ![x] = [pc |-> "using", me |-> me, msg |-> m]]

RxNoMatch(x, m) ==
  /\ RxTake(x, m)
  /\ ~enabled \/ Found(m) = None
  /\ UNCHANGED <<headers, used, inUse, home, matches, rx>>

Leave(x) == rx' = [rx EXCEPT ![x] = RxIdle]

\* The entry is not in use any more.  A USE_ONCE entry is unlinked at once.
\* The mark of another one is tested at once after a Get, or after a Put that
\* matched in the overflow list, which has no event now; else only once the
\* event of the Put is issued.
RxRelease(x) ==
  LET me      == rx[x].me
      noEvent == rx[x].msg \in Gets \/ me \in Overflow
      unlinks == me \in UseOnce \/ (noEvent /\ me \in needsUnlink)
  IN
  /\ rx[x].pc = "using"
  /\ inUse' = inUse \ {me}
  /\ IF unlinks
     THEN /\ lists' = [lists EXCEPT ![ListOf(me)] = RemoveFirst(@, me)]
          /\ freed' = freed \cup {me}
     ELSE UNCHANGED <<lists, freed>>
  /\ IF unlinks \/ noEvent THEN Leave(x) ELSE rx' = [rx EXCEPT ![x].pc = "event"]
  /\ UNCHANGED <<headers, enabled, appended, used, needsUnlink, user, arrived, home,
                 matches, overflowEv>>

\* The mark of the entry is read after the event was issued.
RxAfterEvent(x) ==
  LET me == rx[x].me IN
  /\ rx[x].pc = "event"
  /\ Leave(x)
  /\ IF me \in needsUnlink THEN Unlink(me) ELSE UNCHANGED <<lists, needsUnlink, freed>>
  /\ UNCHANGED <<headers, enabled, appended, used, inUse, user, arrived, home, matches,
                 overflowEv>>

Next ==
  \/ \E me \in ME : AppendME(me) \/ UnlinkME(me)
  \/ AppendGoesOn
  \/ SwitchPT
  \/ \E x \in Rx : \/ RxRelease(x)
                   \/ RxAfterEvent(x)
                   \/ \E m \in Message : RxMatch(x, m) \/ RxNoMatch(x, m)

Spec == Init /\ [][Next]_vars

-----------------------------------------------------------------------------
\* Type correctness of the lists, the flags and the actors.
TypeOK ==
  /\ lists \in [{"PRIORITY", "OVERFLOW"} -> Seq(ME)]
  /\ headers \in Seq(Message)
  /\ enabled \in BOOLEAN
  /\ appended \subseteq ME /\ used \subseteq ME /\ inUse \subseteq ME
  /\ needsUnlink \subseteq ME /\ freed \subseteq ME
  /\ user \in [me : ME \cup {None}, at : Nat, hit : BOOLEAN]
  /\ rx \in [Rx -> [pc : {"idle", "using", "event"}, me : ME \cup {None},
                    msg : Message \cup {None}]]
  /\ arrived \subseteq Message
  /\ home \in [Message -> ME \cup {None}]
  /\ matches \in [ME -> Nat]
  /\ overflowEv \in [Message -> Nat]

\* A USE_ONCE entry matches one message or one unexpected header, not both.
UseOnceMatchesOnce == \A me \in UseOnce : matches[me] <= 1

\* A message that went to the overflow list waits in the unexpected headers
\* until exactly one overflow event is issued for it.
OverflowSettledOnce ==
  /\ TypeOK
  /\ \A m \in Message :
       overflowEv[m] + Count(headers, m) = IF home[m] \in Overflow THEN 1 ELSE 0

\* No header waits for an entry that is there: messages that arrive while
\* PtlMEAppend walks through the headers are not missed.
NoHeaderLeftBehind ==
  user = UserIdle =>
    \A h \in ToSet(headers), me \in ToSet(lists["PRIORITY"]) : ~MatchesRequest(me, h)
=============================================================================
