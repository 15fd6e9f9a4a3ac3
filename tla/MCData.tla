------------------------------- MODULE MCData -------------------------------
(***************************************************************************)
(* Instance of SharedMemory for TLC: pages of 2 bytes, blocks of 2 pages,  *)
(* and every way to share one or two parts of a block of 4 or 8 bytes.     *)
(* TargetData is checked over all words of 4 bits and all sequences of     *)
(* three payloads.  The two share no state, so a behaviour exercises one   *)
(* of them and leaves the other in an initial state.                       *)
(***************************************************************************)
EXTENDS SharedMemory, TargetData

OneBlock(size)  == {<<b>> : b \in {c \in (0 .. size) \X (0 .. size) : c[1] < c[2]}}
TwoBlocks(size) == {<<b[1], c[1]>> : <<b, c>> \in
                     {p \in OneBlock(size) \X OneBlock(size) : p[1][1][2] < p[2][1][1]}}

MCLayout == {[size |-> s, blocks |-> b] : s \in {4}, b \in OneBlock(4) \cup TwoBlocks(4)}
            \cup {[size |-> 8, blocks |-> b] : b \in OneBlock(8) \cup TwoBlocks(8)}

VARIABLE part   \* the component that moves

MCInit ==
  /\ Init /\ TargetInit
  /\ \/ part = "shared" /\ entry = PlainEntry
     \/ part = "target" /\ mode = "none"

MCNext ==
  \/ part = "shared" /\ SharedNext /\ UNCHANGED <<part, targetVars>>
  \/ part = "target" /\ TargetNext /\ UNCHANGED <<part, vars>>

MCSpec == MCInit /\ [][MCNext]_<<part, vars, targetVars>>
=============================================================================
