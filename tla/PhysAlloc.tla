----------------------------- MODULE PhysAlloc -----------------------------
(***************************************************************************)
(* The physical memory allocator of Dmf-x86os (src/kernel/mem/alloc_phy.c):*)
(* a pool that is handed out from its base upwards and never taken back,   *)
(* and a log of what was handed out.  A spin lock protects both; its       *)
(* callers, the kernel and the tasks, preempt each other anywhere.         *)
(***************************************************************************)
EXTENDS Integers, Sequences

Free == "free"

CONSTANTS
  Client,        \* who calls the allocator
  Word,          \* number of values of a phys_addr_t, 2^32 in the code
  PoolBase, PoolSize,       \* the arguments of phys_alloc_init() in mem_init()
  PHYS_ALLOC_NR_REGIONS,    \* entries of the log, 256 in the code
  Requests,      \* [size, align] pairs asked for
  MaxCalls       \* bound on the calls each client makes

ASSUME WordAssumption == Word \in Nat /\ Word > 1
ASSUME PoolAssumption ==
  PoolBase \in Nat /\ PoolSize \in Nat /\ PoolBase + PoolSize < Word
ASSUME RegionsAssumption == PHYS_ALLOC_NR_REGIONS \in Nat
ASSUME ClientAssumption == Free \notin Client
ASSUME RequestsAssumption ==
  Requests \subseteq [size : 0..Word - 1, align : 1..Word - 1]

(***************************************************************************)
(* A request whose sums stay within a word: its size with its padding, and *)
(* the end of the pool aligned.  Sizes and alignments within a few bytes   *)
(* of 4 GB are not: their sum wraps to a small need.                       *)
(***************************************************************************)
PoolTop == PoolBase + PoolSize
Small(q) == q.size + q.align <= Word /\ PoolTop + q.align <= Word
ASSUME SmallAssumption == \A q \in Requests : Small(q)
ASSUME CallsAssumption == MaxCalls \in Nat

VARIABLES
  base, top,     \* what is left of the pool
  regions,       \* the log
  lock,          \* the holder of the spin lock, or Free
  pc, loc,       \* each client's place in the code and its locals
  calls,         \* calls each client has made
  granted        \* history: what clients have been given

vars == <<base, top, regions, lock, pc, loc, calls, granted>>

NoLocals == [size |-> 0, align |-> 1, addr |-> 0, need |-> 0, p_top |-> 0]

(***************************************************************************)
(* The macro ALIGN of alloc.h on unsigned words: a is a power of two.      *)
(***************************************************************************)
ALIGN_Down(x, a) == (x \div a) * a
ALIGN(x, a) == (((x + a - 1) % Word) \div a) * a

(***************************************************************************)
(* mem_init() has called phys_alloc_init() before anyone else runs.        *)
(***************************************************************************)
Init_TopIsSize ==
  /\ base = PoolBase /\ top = PoolSize
  /\ regions = << >> /\ lock = Free /\ granted = {}
  /\ pc = [c \in Client |-> "idle"]
  /\ loc = [c \in Client |-> NoLocals]
  /\ calls = [c \in Client |-> 0]
Init ==
  /\ base = PoolBase /\ top = PoolBase + PoolSize
  /\ regions = << >> /\ lock = Free /\ granted = {}
  /\ pc = [c \in Client |-> "idle"]
  /\ loc = [c \in Client |-> NoLocals]
  /\ calls = [c \in Client |-> 0]

Goto(c, place) == pc' = [pc EXCEPT ![c] = place]

Call(c, place) ==
  /\ pc[c] = "idle" /\ calls[c] < MaxCalls
  /\ calls' = [calls EXCEPT ![c] = @ + 1]
  /\ Goto(c, place)

\* spin_lock(&lock), and the place reached once it is held
spin_lock_Ignored(c) == lock' = c
spin_lock(c) == lock = Free /\ lock' = c

-----------------------------------------------------------------------------
(***************************************************************************)
(* early_memalign() and phys_alloc_aligned_safe().                         *)
(***************************************************************************)
early_memalign(c, q) ==
  /\ Call(c, "lock")
  /\ loc' = [loc EXCEPT ![c] = [NoLocals EXCEPT !.size = q.size, !.align = q.align]]
  /\ UNCHANGED <<base, top, regions, lock, granted>>

AcquireForAlloc(c) ==
  /\ pc[c] = "lock"
  /\ spin_lock(c)
  /\ Goto(c, "compute")
  /\ UNCHANGED <<base, top, regions, loc, calls, granted>>

(***************************************************************************)
(* The aligned address, the size with its padding, and the check against   *)
(* what is left; all of it in unsigned words.                              *)
(***************************************************************************)
Need(c, addr) == (loc[c].size + addr - base) % Word
Fits_Overdrawn(need) == top >= base
Fits(need) == (top - base) % Word >= need

\* a request that does not fit: INVALID_PHYS_ADDR
Refuse_Locked(c) ==
  /\ loc' = [loc EXCEPT ![c] = NoLocals]
  /\ Goto(c, "idle")
  /\ UNCHANGED lock
Refuse(c) ==
  /\ loc' = [loc EXCEPT ![c] = NoLocals]
  /\ Goto(c, "idle")
  /\ lock' = Free

Compute(c) ==
  LET addr == ALIGN(base, loc[c].align)
      need == Need(c, addr)
  IN /\ pc[c] = "compute"
     /\ \/ /\ Fits(need)
           /\ loc' = [loc EXCEPT ![c].addr = addr, ![c].need = need]
           /\ Goto(c, "commit")
           /\ UNCHANGED lock
        \/ ~Fits(need) /\ Refuse(c)
     /\ UNCHANGED <<base, top, regions, calls, granted>>

\* the log entry, while there is one left
Logged_OneLeft(r) ==
  IF Len(regions) < PHYS_ALLOC_NR_REGIONS - 1 THEN Append(regions, r) ELSE regions
Logged(r) == IF Len(regions) < PHYS_ALLOC_NR_REGIONS THEN Append(regions, r) ELSE regions

Commit(c) ==
  LET r == [base |-> loc[c].addr, size |-> loc[c].size]
  IN /\ pc[c] = "commit"
     /\ base' = (base + loc[c].need) % Word
     /\ regions' = Logged(r)
     /\ granted' = granted \cup {[base |-> r.base, size |-> r.size, by |-> "memalign",
                                to |-> c, no |-> calls[c]]}
     /\ lock' = Free
     /\ loc' = [loc EXCEPT ![c] = NoLocals]
     /\ Goto(c, "idle")
     /\ UNCHANGED <<top, calls>>

-----------------------------------------------------------------------------
(***************************************************************************)
(* phys_alloc_get_unused(): reads base and top, and base once more for its *)
(* test, before it takes the lock; what it returns was read then.          *)
(***************************************************************************)
GetUnusedRead(c) ==
  /\ Call(c, "unused_test")
  /\ loc' = [loc EXCEPT ![c] = [NoLocals EXCEPT !.addr = base, !.p_top = top]]
  /\ UNCHANGED <<base, top, regions, lock, granted>>

GetUnusedTest(c) ==
  /\ pc[c] = "unused_test"
  /\ IF base = top
     THEN Goto(c, "idle") /\ loc' = [loc EXCEPT ![c] = NoLocals]
     ELSE Goto(c, "unused_lock") /\ UNCHANGED loc
  /\ UNCHANGED <<base, top, regions, lock, calls, granted>>

AcquireForUnused(c) ==
  /\ pc[c] = "unused_lock"
  /\ spin_lock(c)
  /\ Goto(c, "unused")
  /\ UNCHANGED <<base, top, regions, loc, calls, granted>>

GetUnused(c) ==
  /\ pc[c] = "unused"
  /\ regions' = Append(regions, [base |-> base, size |-> (top - base) % Word])
  /\ base' = top
  /\ granted' = granted \cup {[base |-> loc[c].addr, size |-> loc[c].p_top - loc[c].addr,
                               by |-> "unused", to |-> c, no |-> calls[c]]}
  /\ lock' = Free
  /\ loc' = [loc EXCEPT ![c] = NoLocals]
  /\ Goto(c, "idle")
  /\ UNCHANGED <<top, calls>>

-----------------------------------------------------------------------------

Alloc(c)  == \/ \E q \in Requests : early_memalign(c, q)
             \/ AcquireForAlloc(c) \/ Compute(c) \/ Commit(c)
Unused(c) == \/ GetUnusedRead(c) \/ GetUnusedTest(c)
             \/ AcquireForUnused(c) \/ GetUnused(c)

AllCallsMade == \A c \in Client : pc[c] = "idle" /\ calls[c] = MaxCalls
Done == AllCallsMade /\ UNCHANGED vars

Next == (\E c \in Client : Alloc(c) \/ Unused(c)) \/ Done

(***************************************************************************)
(* The timer lets every client run, and each call is a few instructions    *)
(* long.  A spinning client may miss the lock as often as it is taken, so  *)
(* nothing is assumed of it but that it gets a lock that stays free.       *)
(***************************************************************************)
Step(c) == \/ AcquireForAlloc(c) \/ Compute(c) \/ Commit(c)
           \/ GetUnusedTest(c) \/ AcquireForUnused(c) \/ GetUnused(c)
Fairness == \A c \in Client : WF_vars(Step(c))

Spec     == Init /\ [][Next]_vars
FairSpec == Spec /\ Fairness

-----------------------------------------------------------------------------

(***************************************************************************)
(* Every variable has its type: the addresses the allocator computes stay  *)
(* addresses, and the log, kept or not, describes memory.                  *)
(***************************************************************************)
TypeOK ==
  /\ base \in 0..Word - 1 /\ top = PoolTop
  /\ regions \in Seq([base : 0..Word - 1, size : 0..Word - 1])
  /\ lock \in Client \cup {Free}
  /\ pc \in [Client -> {"idle", "lock", "compute", "commit",
                        "unused_test", "unused_lock", "unused"}]
  /\ loc \in [Client -> [size : 0..Word - 1, align : 1..Word - 1, addr : 0..Word - 1,
                         need : 0..Word - 1, p_top : 0..Word - 1]]
  /\ calls \in [Client -> 0..MaxCalls]
  /\ granted \subseteq [base : 0..Word - 1, size : 0..Word - 1,
                         by : {"memalign", "unused"}, to : Client, no : 1..MaxCalls]

(***************************************************************************)
(* Two blocks handed out by early_memalign() never share a byte, whoever   *)
(* preempts whom.                                                          *)
(***************************************************************************)
Disjoint(g, h) == \/ g.size = 0 \/ h.size = 0
                  \/ g.base + g.size <= h.base \/ h.base + h.size <= g.base
Blocks == {g \in granted : g.by = "memalign"}
NoOverlap == \A g, h \in Blocks : g # h => Disjoint(g, h)

(***************************************************************************)
(* phys_alloc_get_unused() returns "the newly allocated memory's base and  *)
(* top addresses" (alloc_phy.h): memory no one else was given.             *)
(***************************************************************************)
UnusedIsUnused == \A g \in granted, h \in Blocks : g # h => Disjoint(g, h)

(***************************************************************************)
(* Every block lies in the part of the pool below base, however tight the  *)
(* pool and whatever the padding.                                          *)
(***************************************************************************)
InsidePool ==
  /\ base \in PoolBase..PoolTop
  /\ \A g \in granted : PoolBase <= g.base /\ g.base + g.size <= base

(***************************************************************************)
(* The log phys_alloc_show() prints is in ascending order, without         *)
(* overlaps, and misses a block only when it is full.                      *)
(***************************************************************************)
LogFaithful ==
  /\ \A i, k \in DOMAIN regions :
       i < k => regions[i].base + regions[i].size <= regions[k].base
  /\ Len(regions) < PHYS_ALLOC_NR_REGIONS =>
       \A g \in Blocks : \E i \in DOMAIN regions :
         regions[i] = [base |-> g.base, size |-> g.size]

(***************************************************************************)
(* Nothing that was handed out becomes free again: base only moves up, and *)
(* only in a step that hands out memory.                                   *)
(***************************************************************************)
BumpOnly == [][base' >= base /\ (base' # base => granted' # granted)]_vars

(***************************************************************************)
(* Every call returns when finitely many are made: the lock is released on *)
(* every path, that of a request that does not fit included.               *)
(***************************************************************************)
Answered == \A c \in Client : pc[c] # "idle" ~> pc[c] = "idle"
=============================================================================
