----------------------------- MODULE TargetData -----------------------------
(***************************************************************************)
(* What the target of an operation does to memory: where in a match list   *)
(* entry a payload goes (BxiME) and what an atomic operation computes      *)
(* (BxiNicTarget::apply_atomic_op).  One entry is enough here: which entry *)
(* a request matches, and when, is the matter of MatchList and             *)
(* BxiTransport.                                                           *)
(*                                                                         *)
(* An operand is a word of WordBits bits, a number of 0 .. 2^WordBits - 1. *)
(* Floating point and complex operands are left out: for them only the     *)
(* set of operations that panics is modelled.                              *)
(***************************************************************************)
EXTENDS Integers, Sequences, Bitwise

CONSTANTS
  WordBits,    \* width of an operand
  MaxLength,   \* bound: bytes of a match list entry
  MaxPayload,  \* bound: bytes of a payload
  MaxPuts,     \* bound: Puts to the entry
  MaxAtomics,  \* bound: atomic requests
  MaxMemcpy    \* max_memcpy of the configuration, -1 for no limit

ASSUME DataAssumption ==
  /\ WordBits \in Nat \ {0, 1}
  /\ MaxLength \in Nat /\ MaxPayload \in Nat /\ MaxPuts \in Nat /\ MaxAtomics \in Nat
  /\ MaxMemcpy \in Nat \cup {-1}

VARIABLES
  entry,    \* the entry: [length, minFree, manageLocal, useOnce, offset]
  linked,   \* whether it is in a list
  copies,   \* what the Puts copied into it: [at, payload, mlength, copied]
  applied   \* the atomic requests, with what each found and left

targetVars == <<entry, linked, copies, applied>>

\* Entries of BxiME: the MANAGE_LOCAL ones, and one without options
Entries == [length : 0 .. MaxLength, minFree : 0 .. MaxPayload, manageLocal : {TRUE},
            useOnce : BOOLEAN, offset : {0}]
PlainEntry == [length |-> MaxLength, minFree |-> 0, manageLocal |-> FALSE,
               useOnce |-> FALSE, offset |-> 0]

Smaller(a, b) == IF a < b THEN a ELSE b

-----------------------------------------------------------------------------
(***************************************************************************)
(* Offsets.                                                                *)
(***************************************************************************)
\* Mutant: the part that is already used is not subtracted.
GetMlengthWhole(me, payload) == Smaller(me.length, payload)

\* BxiME::get_mlength
GetMlength(me, payload) == Smaller(me.length - me.offset, payload)

\* BxiME::get_offsetted_addr, relative to the start of the entry
OffsettedAddr(me, remoteOffset) == IF me.manageLocal THEN me.offset ELSE remoteOffset

\* get_offsetted_addr with update_manage_local_offset
Advance(me, payload) ==
  IF me.manageLocal THEN [me EXCEPT !.offset = Smaller(@ + payload, me.length)] ELSE me

\* The test of BxiME::maybe_auto_unlink
ShouldUnlink(me) == me.useOnce \/ (me.manageLocal /\ me.offset + me.minFree > me.length)

\* BxiNicTarget::capped_memcpy
CappedMemcpy(n) == IF MaxMemcpy = -1 THEN n ELSE Smaller(MaxMemcpy, n)

\* A Put that matches the entry: copy, advance, unlink
Put(payload, remoteOffset) ==
  LET m == GetMlength(entry, payload) IN
  /\ linked /\ Len(copies) < MaxPuts
  /\ copies' = Append(copies, [at      |-> OffsettedAddr(entry, remoteOffset),
                               payload |-> payload,
                               mlength |-> m,
                               copied  |-> CappedMemcpy(m)])
  /\ entry' = Advance(entry, payload)
  /\ linked' = ~ShouldUnlink(entry')
  /\ UNCHANGED applied

-----------------------------------------------------------------------------
(***************************************************************************)
(* apply_atomic_op.                                                        *)
(***************************************************************************)
Swaps == {"SWAP", "CSWAP", "CSWAP_NE", "CSWAP_LE", "CSWAP_LT", "CSWAP_GE", "CSWAP_GT"}
Bitops == {"BOR", "BAND", "BXOR", "LOR", "LAND", "LXOR"}
AtomicOps == {"MIN", "MAX", "SUM", "PROD", "MSWAP"} \cup Swaps \cup Bitops
IntTypes == {"INT", "UINT"}
AtomicTypes == IntTypes \cup {"FLOAT", "COMPLEX"}

Word == 0 .. 2^WordBits - 1
Wrap(n) == n % 2^WordBits

\* The number a word stands for
Val(type, w) == IF type = "INT" /\ w >= 2^(WordBits - 1) THEN w - 2^WordBits ELSE w

\* The types for which each operation reaches no "unhandled atomic type"
Handled(op, type) ==
  \/ type \in IntTypes
  \/ type = "FLOAT" /\ op \notin Bitops
  \/ type = "COMPLEX" /\ op \notin Bitops \cup {"MIN", "MAX"}

\* Mutant: all integers are compared as signed ones.
AtomicMinSigned(type, me, rx) == IF Val("INT", me) > Val("INT", rx) THEN rx ELSE me

AtomicMin(type, me, rx) == IF Val(type, me) > Val(type, rx) THEN rx ELSE me
AtomicMax(type, me, rx) == IF Val(type, me) < Val(type, rx) THEN rx ELSE me

\* Both kinds of integers are added as signed ones, the sum keeps its width.
AtomicSum(me, rx) == Wrap(Val("INT", me) + Val("INT", rx))
AtomicProd(type, me, rx) == Wrap(Val(type, me) * Val(type, rx))

AtomicBor(me, rx)  == me | rx
AtomicBand(me, rx) == me & rx
AtomicBxor(me, rx) == me ^^ rx

Truth(b) == IF b THEN 1 ELSE 0
AtomicLor(me, rx)  == Truth(me # 0 \/ rx # 0)
AtomicLand(me, rx) == Truth(me # 0 /\ rx # 0)
AtomicLxor(me, rx) == Truth((me # 0) # (rx # 0))

\* SWAP and the conditional swaps: le says that the constant is at most the
\* target, ge that it is at least the target.
AtomicSwap(op, type, me, cst, rx) ==
  LET eq == Val(type, me) = Val(type, cst)
      le == Val(type, me) >= Val(type, cst)
      ge == Val(type, me) <= Val(type, cst)
      swap == CASE op = "CSWAP"    -> eq
                [] op = "CSWAP_NE" -> ~eq
                [] op = "CSWAP_LE" -> le
                [] op = "CSWAP_LT" -> le /\ ~eq
                [] op = "CSWAP_GE" -> ge
                [] op = "CSWAP_GT" -> ge /\ ~eq
                [] OTHER           -> TRUE
  IN  IF swap THEN rx ELSE me

AtomicMswap(me, cst, rx) == (me & (2^WordBits - 1 - cst)) | (rx & cst)

AtomicOnce(op, type, me, cst, rx) ==
  CASE op = "MIN"  -> AtomicMin(type, me, rx)
    [] op = "MAX"  -> AtomicMax(type, me, rx)
    [] op = "SUM"  -> AtomicSum(me, rx)
    [] op = "PROD" -> AtomicProd(type, me, rx)
    [] op = "BOR"  -> AtomicBor(me, rx)
    [] op = "BAND" -> AtomicBand(me, rx)
    [] op = "BXOR" -> AtomicBxor(me, rx)
    [] op = "LOR"  -> AtomicLor(me, rx)
    [] op = "LAND" -> AtomicLand(me, rx)
    [] op = "LXOR" -> AtomicLxor(me, rx)
    [] op = "MSWAP" -> AtomicMswap(me, cst, rx)
    [] OTHER       -> AtomicSwap(op, type, me, cst, rx)

\* The loop over the n operands of a request.  No pointer advances in it:
\* every turn works on the first operand.
ApplyAtomicOp(op, type, me, cst, rx, n) ==
  LET v[i \in 0 .. n] ==
        IF i = 0 THEN me ELSE AtomicOnce(op, type, v[i - 1], cst, rx)
  IN  IF n > 0 /\ (~Handled(op, type) \/ (op \in Swaps /\ n # 1)) THEN "panic" ELSE v[n]

\* BxiFetchAtomicRequest::is_swap_request
IsSwapRequest(op) == op \in Swaps \cup {"MSWAP"}

\* The words that may be third operand.  The constant given to PtlSwap is not
\* among the arguments of the request it creates, a BxiFetchAtomicRequest.  The
\* handler casts that request to a BxiSwapRequest and passes the address of a
\* field which lies beyond it: whatever is there.  For the other operations it
\* passes the operand itself, which is not used.
ThirdOperand(op, rx) == IF IsSwapRequest(op) THEN Word ELSE {rx}

\* An Atomic, FetchAtomic or Swap with operand rx at an entry without options
\* of its own, which finds the word me in the memory of the user
Atomic(op, type, me, rx) ==
  /\ \E third \in ThirdOperand(op, rx) :
       applied' = Append(applied,
                         [op |-> op, type |-> type, me |-> me, third |-> third, rx |-> rx,
                          out |-> ApplyAtomicOp(op, type, me, third, rx, 1)])
  /\ UNCHANGED <<entry, linked, copies>>

TargetInit ==
  /\ entry \in Entries \cup {PlainEntry}
  /\ linked = TRUE
  /\ copies = <<>> /\ applied = <<>>

\* Puts and atomic requests do not meet in what is modelled here, so a
\* behaviour has one or the other.
TargetNext ==
  \/ /\ applied = <<>>
     /\ \E payload, remoteOffset \in 0 .. MaxPayload : Put(payload, remoteOffset)
  \/ /\ entry = PlainEntry /\ copies = <<>> /\ Len(applied) < MaxAtomics
     /\ \E op \in AtomicOps, type \in IntTypes, me, rx \in Word : Atomic(op, type, me, rx)

-----------------------------------------------------------------------------
\* MANAGE_LOCAL entries (get_mlength, get_offsetted_addr, maybe_auto_unlink):
\* whatever payloads arrive, for whatever remote offset, the copies follow each
\* other without gap or overlap and end inside the entry, only the last one is
\* truncated, and an entry that may be used again stays linked exactly while
\* min_free bytes are left.
DepositsFit ==
  LET n      == Len(copies)
      end(i) == IF i = 0 THEN 0 ELSE copies[i].at + copies[i].mlength
  IN
  entry.manageLocal =>
    /\ \A i \in 1 .. n :
         /\ copies[i].at = end(i - 1) /\ end(i) <= entry.length
         /\ copies[i].copied <= copies[i].mlength
         /\ copies[i].mlength < copies[i].payload => end(i) = entry.length
    /\ linked <=> n = 0 \/ (~entry.useOnce /\ end(n) + entry.minFree <= entry.length)

\* The bits of a word
Bits(w) == {i \in 0 .. WordBits - 1 : (w \div 2^i) % 2 = 1}

\* What Portals means by the operation on one operand: numbers for the
\* arithmetic, sets of bits for the bitwise ones
Means(op, type, me, cst, rx, out) ==
  LET a == Val(type, me)  b == Val(type, rx)  c == Val(type, cst)  o == Val(type, out)
      swapped(cond) == out = (IF cond THEN rx ELSE me)
  IN
  CASE op = "MIN"  -> o \in {a, b} /\ o <= a /\ o <= b
    [] op = "MAX"  -> o \in {a, b} /\ o >= a /\ o >= b
    [] op = "SUM"  -> (o - (a + b)) % 2^WordBits = 0
    [] op = "PROD" -> (o - a * b) % 2^WordBits = 0
    [] op = "BOR"  -> Bits(out) = Bits(me) \cup Bits(rx)
    [] op = "BAND" -> Bits(out) = Bits(me) \cap Bits(rx)
    [] op = "BXOR" -> Bits(out) = (Bits(me) \cup Bits(rx)) \ (Bits(me) \cap Bits(rx))
    [] op = "LOR"  -> out \in {0, 1} /\ (out = 0 <=> me = 0 /\ rx = 0)
    [] op = "LAND" -> out \in {0, 1} /\ (out = 1 <=> me # 0 /\ rx # 0)
    [] op = "LXOR" -> out \in {0, 1} /\ (out = 1 <=> (me = 0 /\ rx # 0) \/ (me # 0 /\ rx = 0))
    [] op = "MSWAP" -> Bits(out) = (Bits(me) \ Bits(cst)) \cup (Bits(rx) \cap Bits(cst))
    [] op = "SWAP" -> out = rx
    [] op = "CSWAP"    -> swapped(c = a)
    [] op = "CSWAP_NE" -> swapped(c # a)
    [] op = "CSWAP_LE" -> swapped(c <= a)
    [] op = "CSWAP_LT" -> swapped(c < a)
    [] op = "CSWAP_GE" -> swapped(c >= a)
    [] op = "CSWAP_GT" -> swapped(c > a)

\* apply_atomic_op on one integer operand: the code adds unsigned words as
\* signed ones, writes back truncated results and names its comparisons from
\* the other side.  MIN to LXOR and SWAP still leave what they mean for the two
\* operands of the user, at every boundary of the width, whatever the third
\* operand points to; a conditional or masked swap leaves what it means for the
\* word it finds there, which is not the constant the user gave to PtlSwap.
\* None of them panics.
AtomicMeaning ==
  \A i \in DOMAIN applied :
    LET a == applied[i] IN
    a.out \in Word /\ Means(a.op, a.type, a.me, a.third, a.rx, a.out)
=============================================================================
