------------------------------- MODULE Malloc -------------------------------
(***************************************************************************)
(* The malloc layer of Dmf-x86os (src/kernel/mem/alloc.c) on top of the    *)
(* physical allocator, which alloc_ops points at in the shipped kernel.    *)
(* memalign() asks the allocator for room for the block, its alignment and *)
(* two words of metadata, and writes these in front of the block.          *)
(*                                                                         *)
(* A client is in alloc.c (stage) and, while stage is "in", in the         *)
(* allocator below (pc of PhysAlloc).                                      *)
(***************************************************************************)
EXTENDS PhysAlloc

CONSTANTS
  PtrSize,       \* sizeof(uintptr_t), 4 in the code
  MinAligns,     \* arguments of phys_alloc_set_minimum_alignment(); the first
  FirstMinAlign, \*   value is DEFAULT_MINIMUM_ALIGNMENT
  Aligns, Asked, \* alignments and sizes asked of memalign() and malloc()
  Arrays,        \* [nmemb, size] pairs asked of calloc()
  MapTop         \* first address the page directory of os.c does not map

ASSUME PtrAssumption == PtrSize \in Nat \ {0} /\ 2 * PtrSize < Word
AllMinAligns == MinAligns \cup {FirstMinAlign}
\* powers of two, as phys_alloc_set_minimum_alignment() asserts
ASSUME MinAlignAssumption ==
  /\ AllMinAligns \subseteq 1..Word - 1
  /\ \A m \in AllMinAligns : m > PtrSize => m % PtrSize = 0
ASSUME AskedAssumption ==
  /\ Aligns \subseteq 1..Word - 1 /\ Asked \subseteq 0..Word - 1
  /\ Arrays \subseteq [nmemb : 0..Word - 1, size : 0..Word - 1]
ASSUME MapAssumption == MapTop \in Nat

NULL == 0

VARIABLES
  align_min,     \* early_alloc_ops.align_min
  stage, req,    \* each client's place in alloc.c and its locals
  blocks         \* history: blocks returned and not freed

mallocVars == <<align_min, stage, req, blocks>>
allVars    == <<vars, mallocVars>>

NoReq == [alignment |-> PtrSize, size |-> 0, asked |-> 0, zero |-> FALSE,
          blkalign |-> 1, p |-> NULL]

MallocInit ==
  /\ Init
  /\ align_min = FirstMinAlign
  /\ stage = [c \in Client |-> "out"]
  /\ req = [c \in Client |-> NoReq]
  /\ blocks = {}

METADATA_EXTRA == 2 * PtrSize

(***************************************************************************)
(* The arithmetic of memalign(), in unsigned words.                        *)
(***************************************************************************)
Alignment(alignment) == IF alignment <= PtrSize THEN PtrSize ELSE alignment
Enlarged_Never(alignment, size) == size
Enlarged(alignment, size) ==
  IF alignment <= PtrSize THEN size ELSE (size + alignment - 1) % Word
MAX(a, b) == IF a > b THEN a ELSE b
TotalSize_BlockOnly(size) == ALIGN(size, align_min)
TotalSize(size) == ALIGN((size + METADATA_EXTRA) % Word, align_min)

(***************************************************************************)
(* The requests memalign() makes of the allocator stay within a word, with *)
(* whatever minimum alignments it reads; and the metadata of one that is   *)
(* refused, which lands at its alignment, lies below the pool: nobody asks *)
(* for an alignment of 3 MB, where mem_init() puts it.                     *)
(***************************************************************************)
AlignArgs == Aligns \cup {PtrSize}
SizeArgs  == Asked \cup {(q.nmemb * q.size) % Word : q \in Arrays}
ASSUME SmallCallsAssumption ==
  \A a \in AlignArgs, s \in SizeArgs, m, n \in AllMinAligns :
    Small([size  |-> ALIGN((Enlarged(a, s) + METADATA_EXTRA) % Word, n),
           align |-> MAX(Alignment(a), m)])
ASSUME BottomAssumption ==
  \A a \in AlignArgs : ALIGN(METADATA_EXTRA, Alignment(a)) <= PoolBase

\* the block in the memory at p, behind its metadata
BlockAddress(p, alignment) == ALIGN((p + METADATA_EXTRA) % Word, alignment)

Return(c) == /\ stage' = [stage EXCEPT ![c] = "out"]
             /\ req' = [req EXCEPT ![c] = NoReq]

-----------------------------------------------------------------------------
(***************************************************************************)
(* memalign(), malloc() and calloc() read align_min twice, without its     *)
(* lock: for the alignment they ask for and for the size.                  *)
(***************************************************************************)
Enter(c, alignment, size, asked, zero) ==
  /\ stage[c] = "out" /\ pc[c] = "idle" /\ calls[c] < MaxCalls
  /\ stage' = [stage EXCEPT ![c] = "size"]
  /\ req' = [req EXCEPT ![c] =
       [alignment |-> Alignment(alignment), size |-> Enlarged(alignment, size),
        asked |-> asked, zero |-> zero,
        blkalign |-> MAX(Alignment(alignment), align_min), p |-> NULL]]
  /\ UNCHANGED <<vars, align_min, blocks>>

malloc(c)   == \E s \in Asked : Enter(c, PtrSize, s, s, FALSE)
memalign(c) == \E a \in Aligns, s \in Asked : Enter(c, a, s, s, FALSE)
calloc(c)   == \E q \in Arrays : LET n == q.nmemb * q.size
                                 IN Enter(c, PtrSize, n % Word, n, TRUE)

CallAllocator(c) ==
  LET total == TotalSize(req[c].size)
  IN /\ stage[c] = "size"
     /\ early_memalign(c, [size |-> total, align |-> req[c].blkalign])
     /\ stage' = [stage EXCEPT ![c] = "in"]
     /\ req' = [req EXCEPT ![c].size = total]
     /\ UNCHANGED <<align_min, blocks>>

(***************************************************************************)
(* The steps inside the allocator; the last one returns an address or, for *)
(* a request that does not fit, NULL.                                      *)
(***************************************************************************)
InAllocator(c) ==
  /\ stage[c] = "in"
  /\ AcquireForAlloc(c) \/ Compute(c) \/ Commit(c)
  /\ IF pc'[c] = "idle"
     THEN /\ stage' = [stage EXCEPT ![c] = "meta"]
          /\ req' = [req EXCEPT ![c].p = IF pc[c] = "commit" THEN loc[c].addr ELSE NULL]
     ELSE UNCHANGED <<stage, req>>
  /\ UNCHANGED <<align_min, blocks>>

(***************************************************************************)
(* The metadata is written without a look at p; an access that the page    *)
(* directory does not map ends the kernel, which handles no page faults.   *)
(***************************************************************************)
WriteMetadata(c) ==
  LET mem == BlockAddress(req[c].p, req[c].alignment)
  IN /\ stage[c] = "meta"
     /\ IF mem > MapTop
        THEN stage' = [stage EXCEPT ![c] = "fault"] /\ UNCHANGED <<req, blocks>>
        ELSE /\ \/ req[c].zero /\ mem # NULL /\ UNCHANGED req
                                 /\ stage' = [stage EXCEPT ![c] = "fill"]
                \/ ~(req[c].zero /\ mem # NULL) /\ Return(c)
             /\ blocks' = blocks \cup {[to |-> c, no |-> calls[c], mem |-> mem, p |-> req[c].p,
                                        size |-> req[c].size, asked |-> req[c].asked,
                                        alignment |-> req[c].alignment]}
     /\ UNCHANGED <<vars, align_min>>

\* the memset() of calloc()
Fill(c) ==
  LET mem == BlockAddress(req[c].p, req[c].alignment)
  IN /\ stage[c] = "fill"
     /\ \/ mem + (req[c].asked % Word) <= MapTop /\ Return(c)
        \/ /\ mem + (req[c].asked % Word) > MapTop
           /\ stage' = [stage EXCEPT ![c] = "fault"] /\ UNCHANGED req
     /\ UNCHANGED <<vars, align_min, blocks>>

(***************************************************************************)
(* free(): early_alloc_ops has no free function, nothing is given back.    *)
(***************************************************************************)
free(c) ==
  /\ stage[c] = "out" /\ pc[c] = "idle"
  /\ \E b \in blocks : b.to = c /\ blocks' = blocks \ {b}
  /\ UNCHANGED <<vars, align_min, stage, req>>

phys_alloc_set_minimum_alignment(c) ==
  /\ stage[c] = "out" /\ pc[c] = "idle"
  /\ lock = Free
  /\ \E align \in MinAligns : align_min' = align
  /\ UNCHANGED <<vars, stage, req, blocks>>

phys_alloc_get_unused(c) == stage[c] = "out" /\ Unused(c) /\ UNCHANGED mallocVars

-----------------------------------------------------------------------------

Inside(c) == CallAllocator(c) \/ InAllocator(c) \/ WriteMetadata(c) \/ Fill(c)
Outside(c) == \/ malloc(c) \/ memalign(c) \/ calloc(c) \/ free(c)
              \/ phys_alloc_set_minimum_alignment(c)

Crashed == \E c \in Client : stage[c] = "fault"
AllDone == AllCallsMade /\ (\A c \in Client : stage[c] = "out") /\ UNCHANGED allVars

MallocNext ==
  \/ ~Crashed /\ \E c \in Client : Outside(c) \/ Inside(c) \/ phys_alloc_get_unused(c)
  \/ AllDone

(***************************************************************************)
(* The timer lets every client run on inside a call, as in PhysAlloc.      *)
(***************************************************************************)
InUnused(c) == GetUnusedTest(c) \/ AcquireForUnused(c) \/ GetUnused(c)
MallocSpec     == MallocInit /\ [][MallocNext]_allVars
MallocFairSpec ==
  MallocSpec /\ \A c \in Client :
    WF_allVars(~Crashed /\ (Inside(c) \/ (InUnused(c) /\ UNCHANGED mallocVars)))

-----------------------------------------------------------------------------

(***************************************************************************)
(* A request that does not overflow a word on its way to the allocator.    *)
(***************************************************************************)
Representable(b) ==
  \A a \in AllMinAligns :
    b.asked + b.alignment + 2 * PtrSize + 2 * a < Word
Sound(b) == b.p # NULL /\ Representable(b)

(***************************************************************************)
(* What memalign() returns is aligned, has room for what was asked, and    *)
(* its metadata and it are inside the memory the allocator granted for it, *)
(* also when the minimum alignment changes under it.                       *)
(***************************************************************************)
BlockFitsGrant ==
  \A b \in blocks : Sound(b) =>
    /\ b.mem % b.alignment = 0
    /\ b.p <= b.mem - 2 * PtrSize /\ b.mem + b.asked <= b.p + b.size

(***************************************************************************)
(* No call writes its metadata over a block in use or the metadata of one, *)
(* not even a call that was refused and writes it at the bottom of memory. *)
(* A size that wraps is left out: its grant may be smaller than its        *)
(* metadata.                                                               *)
(***************************************************************************)
MetadataIntact ==
  \A b, d \in blocks : b # d /\ Representable(b) /\ Sound(d) =>
    b.mem <= d.mem - 2 * PtrSize \/ d.mem + d.asked <= b.mem - 2 * PtrSize

(***************************************************************************)
(* HARDCODED_MEMORY.md on the pool that lies outside of the 4 MB the page  *)
(* directory maps: accesses to it "need no mapping in the page table".     *)
(***************************************************************************)
NoMappingNeeded == ~Crashed
=============================================================================
