---------------------------- MODULE SharedMemory ----------------------------
(***************************************************************************)
(* Shared allocations (s4bxi_shared.cpp).  With shared-malloc "local" all  *)
(* the allocations of one source line are mappings of one file; with       *)
(* "global" the parts of a block that the user shares are folded on one    *)
(* bogus file and the other parts keep memory of their own.                *)
(*                                                                         *)
(* Addresses are numbers of bytes.  mmap gives any free pages of           *)
(* 0 .. MapEnd - 1, operator new gives addresses above, one per block.     *)
(* held is what the user asked for and has not freed; mapped is what the   *)
(* system made of it.  A call that fails ends the simulation (xbt_die).    *)
(***************************************************************************)
EXTENDS SequencesExt, FiniteSetsExt

CONSTANTS
  Location,    \* source lines that allocate
  Size,        \* sizes asked with s4bxi_shared_malloc
  Layout,      \* [size, blocks] asked with s4bxi_shared_malloc_partial
  Threshold,   \* auto_shared_malloc_thresh
  PAGE_SIZE,
  Blocksize,   \* shared_malloc_blocksize
  MapEnd,      \* bound: bytes that mmap gives away
  MaxHeld      \* bound: blocks the user holds at once

ASSUME SharedAssumption ==
  /\ PAGE_SIZE \in Nat \ {0} /\ Blocksize \in Nat \ {0} /\ Blocksize % PAGE_SIZE = 0
  /\ MapEnd \in Nat /\ MapEnd % PAGE_SIZE = 0 /\ MaxHeld \in Nat \ {0}
  /\ Size \subseteq Nat /\ Threshold \in Nat
  \* The assertions of s4bxi_shared_malloc_partial
  /\ \A l \in Layout :
        /\ l.blocks # <<>>
        /\ \A i \in DOMAIN l.blocks :
              /\ l.blocks[i][1] < l.blocks[i][2] /\ l.blocks[i][2] <= l.size
              /\ i < Len(l.blocks) => l.blocks[i][2] < l.blocks[i + 1][1]

VARIABLES
  mode,     \* SharedMallocType of the configuration
  allocs,   \* source location -> file descriptor and count
  meta,     \* allocs_metadata: address -> size, private_blocks and location
  openFds,  \* open file descriptors of temporary shm
  mapped,   \* address -> bytes mapped on a file, and the file
  held      \* address -> what the user was given there

vars == <<mode, allocs, meta, openFds, mapped, held>>

HeapAddr == MapEnd + 1 .. MapEnd + MaxHeld
Bogus == 0

Without(f, x) == Restrict(f, DOMAIN f \ {x})
With(f, x, v) == [y \in DOMAIN f \cup {x} |-> IF y = x THEN v ELSE f[y]]

AlignUp(n, a)   == ((n + a - 1) \div a) * a
AlignDown(n, a) == (n \div a) * a
Min2(a, b) == IF a < b THEN a ELSE b
Max2(a, b) == IF a < b THEN b ELSE a

\* Bytes of a sequence of blocks <<first, past the last>>
Bytes(blocks) == UNION {blocks[i][1] .. blocks[i][2] - 1 : i \in DOMAIN blocks}

-----------------------------------------------------------------------------
(***************************************************************************)
(* The algorithms on blocks.                                               *)
(***************************************************************************)
\* Mutant: the tail of a block is always mapped up to its stop offset.
FoldUnaligned(size, b) ==
  LET startBlock == AlignUp(b[1], Blocksize)
      stopBlock  == AlignDown(b[2], Blocksize)
  IN  Bytes(<< <<startBlock, stopBlock>>, <<stopBlock, b[2]>> >>)

\* The bytes of one shared block [b[1], b[2]) that are mapped on the bogus
\* file: whole blocks of Blocksize bytes, the pages before them, and the
\* pages after them.
Fold(size, b) ==
  LET startBlock == AlignUp(b[1], Blocksize)
      stopBlock  == AlignDown(b[2], Blocksize)
      stopPage   == AlignDown(b[2], PAGE_SIZE)
      lowStart   == AlignUp(b[1], PAGE_SIZE)
      lowStop    == Min2(startBlock, stopPage)
      highStop   == IF b[2] = size THEN size ELSE stopPage
  IN  Bytes(<< <<startBlock, stopBlock>>,
               <<lowStart, lowStop>>,
               <<stopBlock, IF lowStop <= stopBlock THEN highStop ELSE stopBlock>> >>)

\* private_blocks: what lies before, between and after the shared blocks
PrivateBlocks(size, blocks) ==
  LET n == Len(blocks) IN
    (IF blocks[1][1] > 0 THEN << <<0, blocks[1][1]>> >> ELSE <<>>)
    \o [i \in 1 .. n - 1 |-> <<blocks[i][2], blocks[i + 1][1]>>]
    \o (IF blocks[n][2] < size THEN << <<blocks[n][2], size>> >> ELSE <<>>)

\* shift_and_frame_private_blocks: size_t is unsigned, so a bound below the
\* offset wraps around and is framed to buffSize.
ShiftAndFrame(blocks, offset, buffSize) ==
  LET shift(x) == IF x < offset THEN buffSize ELSE Min2(x - offset, buffSize)
      framed   == [i \in DOMAIN blocks |-> <<shift(blocks[i][1]), shift(blocks[i][2])>>]
  IN  SelectSeq(framed, LAMBDA b : b[2] > 0 /\ b[1] < buffSize)

\* Mutant: after an overlap the block of the source is always left behind.
MergeSourceFirst(src, dst) ==
  LET merge[i \in 1 .. Len(src) + 1, j \in 1 .. Len(dst) + 1] ==
        IF i > Len(src) \/ j > Len(dst) THEN <<>>
        ELSE IF src[i][2] <= dst[j][1] THEN merge[i + 1, j]
        ELSE IF dst[j][2] <= src[i][1] THEN merge[i, j + 1]
        ELSE << <<Max2(src[i][1], dst[j][1]), Min2(src[i][2], dst[j][2])>> >>
             \o merge[i + 1, j]
  IN  merge[1, 1]

\* merge_private_blocks
Merge(src, dst) ==
  LET merge[i \in 1 .. Len(src) + 1, j \in 1 .. Len(dst) + 1] ==
        IF i > Len(src) \/ j > Len(dst) THEN <<>>
        ELSE IF src[i][2] <= dst[j][1] THEN merge[i + 1, j]
        ELSE IF dst[j][2] <= src[i][1] THEN merge[i, j + 1]
        ELSE << <<Max2(src[i][1], dst[j][1]), Min2(src[i][2], dst[j][2])>> >>
             \o (IF src[i][2] < dst[j][2] THEN merge[i + 1, j] ELSE merge[i, j + 1])
  IN  merge[1, 1]

\* s4bxi_is_shared: the metadata with the largest address up to ptr
IsShared(ptr) ==
  LET low == {a \in DOMAIN meta : a <= ptr}
      a   == Max(low)
  IN  IF mode = "none" \/ low = {} \/ (ptr # a /\ ptr >= a + meta[a].size)
      THEN [shared |-> FALSE]
      ELSE [shared |-> TRUE, offset |-> ptr - a, private |-> meta[a].private]

-----------------------------------------------------------------------------
Init ==
  /\ mode \in {"none", "local", "global"}
  /\ allocs = << >> /\ meta = << >> /\ mapped = << >> /\ held = << >>
  /\ openFds = {}

\* The system: addresses where mmap(nullptr, size) may put a new mapping
Mmap(size) ==
  LET taken == UNION {a .. a + AlignUp(held[a].size, PAGE_SIZE) - 1 : a \in DOMAIN mapped}
  IN  {a \in 0 .. MapEnd - size :
         a % PAGE_SIZE = 0 /\ (a .. a + AlignUp(size, PAGE_SIZE) - 1) \cap taken = {}}

\* ::operator new, also taken below the threshold of the interceptions
New(size) ==
  \E a \in HeapAddr \ DOMAIN held :
    /\ held' = With(held, a, [size |-> size, kind |-> "new", blocks |-> <<>>])
    /\ UNCHANGED <<mode, allocs, meta, openFds, mapped>>

\* Mutant: every allocation opens a file of its own.
MallocLocalAlone(size, loc) ==
  LET fd == Min(1 .. MaxHeld + 1 \ openFds) IN
  \E a \in Mmap(size) :
    /\ allocs' = With(allocs, loc, [fd |-> fd, count |-> IF loc \in DOMAIN allocs
                                                         THEN allocs[loc].count + 1 ELSE 1])
    /\ openFds' = openFds \cup {fd}
    /\ meta' = With(meta, a, [size |-> size, private |-> <<>>, loc |-> loc])
    /\ mapped' = With(mapped, a, [fd |-> fd, bytes |-> 0 .. size - 1])
    /\ held' = With(held, a, [size |-> size, kind |-> loc, blocks |-> << <<0, size>> >>])
    /\ UNCHANGED mode

\* s4bxi_shared_malloc_local, s4bxi_temp_shm_get and shm_map: the first
\* allocation of a location opens its file, the others map it again.
MallocLocal(size, loc) ==
  LET fresh == loc \notin DOMAIN allocs
      fd    == IF fresh THEN Min(1 .. MaxHeld + 1 \ openFds) ELSE allocs[loc].fd
      count == IF fresh THEN 1 ELSE allocs[loc].count + 1
  IN
  \E a \in Mmap(size) :
    /\ allocs' = With(allocs, loc, [fd |-> fd, count |-> count])
    /\ openFds' = openFds \cup {fd}
    /\ meta' = With(meta, a, [size |-> size, private |-> <<>>, loc |-> loc])
    /\ mapped' = With(mapped, a, [fd |-> fd, bytes |-> 0 .. size - 1])
    /\ held' = With(held, a, [size |-> size, kind |-> loc, blocks |-> << <<0, size>> >>])
    /\ UNCHANGED mode

\* s4bxi_shared_malloc_partial: reserve the memory, fold the shared blocks
\* on the bogus file, and register what stays private.
MallocPartial(size, blocks) ==
  \E a \in Mmap(size) :
    /\ meta' = With(meta, a, [size |-> size, private |-> PrivateBlocks(size, blocks),
                              loc |-> "bogus"])
    /\ mapped' = With(mapped, a, [fd |-> Bogus,
                                  bytes |-> UNION {Fold(size, blocks[i]) : i \in DOMAIN blocks}])
    /\ held' = With(held, a, [size |-> size, kind |-> "partial", blocks |-> blocks])
    /\ UNCHANGED <<mode, allocs, openFds>>

\* s4bxi_shared_malloc.  A size of 0 ends the simulation in mode global.
Malloc(size, loc) ==
  IF size > 0 /\ mode = "local" THEN MallocLocal(size, loc)
  ELSE IF mode = "global" THEN size > 0 /\ MallocPartial(size, << <<0, size>> >>)
  ELSE New(size)

\* s4bxi_shared_malloc_intercept and s4bxi_shared_calloc_intercept
MallocIntercept(size, loc) ==
  IF Threshold = 0 \/ size < Threshold THEN New(size) ELSE Malloc(size, loc)

\* s4bxi_shared_free in mode local: the metadata of an address stay while
\* its location has other mappings.
FreeLocal(p) ==
  LET loc == meta[p].loc IN
  IF allocs[loc].count <= 1
  THEN /\ openFds' = openFds \ {allocs[loc].fd}
       /\ allocs' = Without(allocs, loc)
       /\ meta' = Without(meta, p)
  ELSE /\ allocs' = [allocs EXCEPT ![loc].count = @ - 1]
       /\ UNCHANGED <<openFds, meta>>


\* s4bxi_shared_free
Free(p) ==
  /\ p \in DOMAIN held
  /\ held' = Without(held, p)
  /\ IF mode = "none" \/ p \notin DOMAIN meta
     THEN UNCHANGED <<allocs, meta, openFds, mapped>>
     ELSE /\ mapped' = Without(mapped, p)
          /\ IF mode = "local" THEN FreeLocal(p)
             ELSE meta' = Without(meta, p) /\ UNCHANGED <<allocs, openFds>>
  /\ UNCHANGED mode

SharedNext ==
  \/ /\ Cardinality(DOMAIN held) < MaxHeld
     /\ \/ \E size \in Size, loc \in Location : Malloc(size, loc) \/ MallocIntercept(size, loc)
        \/ mode = "global" /\ \E l \in Layout : MallocPartial(l.size, l.blocks)
  \/ \E p \in DOMAIN held : Free(p)

Spec == Init /\ [][SharedNext]_vars

-----------------------------------------------------------------------------
\* Type correctness: counts of files and mappings stay in their ranges, and
\* what is mapped is what the user holds and operator new did not give.
TypeOK ==
  /\ mode \in {"none", "local", "global"}
  /\ DOMAIN allocs \subseteq Location
  /\ \A l \in DOMAIN allocs : allocs[l].fd \in openFds /\ allocs[l].count \in 1 .. MaxHeld
  /\ DOMAIN held \subseteq 0 .. MapEnd - 1 \cup HeapAddr
  /\ DOMAIN mapped = DOMAIN held \ HeapAddr

\* Files are opened and closed in step with what the user holds (LOCAL): a
\* location has a file exactly while the user holds one of its blocks, its
\* count is the number of them, all of them map that file, and no file is
\* open without a location.
OneFilePerLocation ==
  LET blocksOf(l) == {p \in DOMAIN held : held[p].kind = l} IN
  /\ TypeOK
  /\ DOMAIN allocs = {l \in Location : blocksOf(l) # {}}
  /\ \A l \in DOMAIN allocs :
        /\ allocs[l].count = Cardinality(blocksOf(l))
        /\ \A p \in blocksOf(l) : mapped[p].fd = allocs[l].fd
  /\ openFds = {allocs[l].fd : l \in DOMAIN allocs}
  /\ Cardinality(openFds) = Cardinality(DOMAIN allocs)

\* s4bxi_shared_malloc_partial: "Even indices are the start offsets
\* (included) [...] The others are not": a byte the user did not share never
\* lies on the bogus file (for sizes that are whole pages), and every page
\* that lies in a shared block is folded: none is left between the whole
\* blocks and the pages around them.
FoldsSharedPagesOnly ==
  \A p \in DOMAIN mapped :
    /\ mapped[p].bytes \subseteq Bytes(held[p].blocks)
    /\ \A b \in Range(held[p].blocks) :
         AlignUp(b[1], PAGE_SIZE) .. AlignDown(b[2], PAGE_SIZE) - 1 \subseteq mapped[p].bytes


\* What a copy from p to q must really move is what is private in both:
\* merge_private_blocks returns exactly that, in disjoint increasing blocks.
MergeIsIntersection ==
  \A p, q \in DOMAIN mapped :
    LET m == Merge(meta[p].private, meta[q].private) IN
    /\ Bytes(m) = Bytes(meta[p].private) \cap Bytes(meta[q].private)
    /\ \A i \in 1 .. Len(m) - 1 : m[i][2] <= m[i + 1][1]

\* shift_and_frame_private_blocks never claims a byte that is shared, and is
\* exact when no private block straddles the start of the window.
FrameIsSound ==
  \A p \in DOMAIN mapped : \A o \in 0 .. held[p].size - 1 : \A n \in 1 .. held[p].size - o :
    LET private == {x - o : x \in Bytes(meta[p].private) \cap (o .. o + n - 1)}
        framed  == Bytes(ShiftAndFrame(meta[p].private, o, n))
        clean   == \A i \in DOMAIN meta[p].private :
                     ~(meta[p].private[i][1] < o /\ o < meta[p].private[i][2])
    IN  framed \subseteq private /\ (clean => framed = private)

\* The lists of private blocks stand for sets of bytes: what
\* merge_private_blocks and shift_and_frame_private_blocks do with their
\* indices is what the copy means.
PrivateBlocksAreSets == MergeIsIntersection /\ FrameIsSound
=============================================================================
