----------------------------- MODULE PageAlloc -----------------------------
(***************************************************************************)
(* The page allocator of Dmf-x86os (src/kernel/mem/alloc_page.c): a list   *)
(* of free pages threaded through the first word of each page.  A client   *)
(* that holds a page may write anything into that word.                    *)
(*                                                                         *)
(* A page is its page frame number, so p + 1 is the next page and a block  *)
(* of n pages is naturally aligned when n divides its first page.          *)
(***************************************************************************)
EXTENDS Integers, FiniteSets

CONSTANTS
  Client,        \* who calls the allocator
  Donor,         \* the client that owns the memory given to the allocator
  Page,          \* the page frames
  FirstPage,     \* the page freelist points at when the kernel starts
  ZeroWord,      \* what the word at address 0 reads as
  Data,          \* what clients write into the first word of their pages
  Sizes,         \* numbers of pages asked of page_memalign() and freed
  MaxCalls       \* bound on the calls each client makes

NULL == 0

ASSUME ClientAssumption == Donor \in Client
ASSUME PageAssumption ==
  Page \subseteq Nat \ {NULL} /\ IsFiniteSet(Page) /\ FirstPage \in Page
ASSUME WordsAssumption == ZeroWord \in Page \cup {NULL} /\ Data \subseteq Page \cup {NULL}
ASSUME SizesAssumption == Sizes \subseteq Nat
ASSUME CallsAssumption == MaxCalls \in Nat

VARIABLES
  freelist, word,   \* the head of the list; the first word of every page
  lock,             \* the holder of the spin lock, or Free
  pc, loc,          \* each client's place in the code and its locals
  own,              \* history: the pages each client holds
  cleared,          \* history: pages forgotten by free_pages(mem, 0)
  slack,            \* history: pages taken for a block and not part of it
  calls             \* calls each client has made

vars == <<freelist, word, lock, pc, loc, own, cleared, slack, calls>>

Free == "free"
NoLocals == [n |-> 1, asked |-> 1, curr |-> NULL, next |-> NULL, run |-> 0,
             run_start |-> NULL, run_prev |-> NULL, run_next_pa |-> NULL, mem |-> NULL]

(***************************************************************************)
(* The k-th page of the list, and the pages on it.                         *)
(***************************************************************************)
Nth[k \in Nat] == IF k = 0 THEN freelist
                  ELSE IF Nth[k - 1] = NULL THEN NULL ELSE word[Nth[k - 1]]
Length == Cardinality(Page)
OnList == {Nth[k] : k \in 0..Length} \ {NULL}

Block_OneMore(mem, n) == mem..(mem + n)
Block(mem, n) == mem..(mem + n - 1)

(***************************************************************************)
(* The list starts as the one page at 0x200000, whose memory is zero; all  *)
(* other pages are the donor's, who may give them to the allocator.        *)
(***************************************************************************)
Init ==
  /\ freelist = FirstPage
  /\ word = [p \in Page \cup {NULL} |-> IF p = NULL THEN ZeroWord ELSE NULL]
  /\ lock = Free
  /\ pc = [c \in Client |-> "idle"] /\ loc = [c \in Client |-> NoLocals]
  /\ own = [c \in Client |-> IF c = Donor THEN Page \ {FirstPage} ELSE {}]
  /\ cleared = {} /\ slack = {} /\ calls = [c \in Client |-> 0]

Goto(c, place) == pc' = [pc EXCEPT ![c] = place]

Call(c, place) ==
  /\ pc[c] = "idle" /\ calls[c] < MaxCalls
  /\ calls' = [calls EXCEPT ![c] = @ + 1]
  /\ Goto(c, place)

Acquire(c, from, to) ==
  /\ pc[c] = from
  /\ lock = Free /\ lock' = c
  /\ Goto(c, to)
  /\ UNCHANGED <<freelist, word, loc, own, cleared, slack, calls>>

\* spin_unlock(&lock) and return
Return_Locked(c) ==
  /\ Goto(c, "idle")
  /\ loc' = [loc EXCEPT ![c] = NoLocals]
  /\ UNCHANGED lock
Return(c) ==
  /\ lock' = Free
  /\ Goto(c, "idle")
  /\ loc' = [loc EXCEPT ![c] = NoLocals]

(***************************************************************************)
(* A client uses a page it holds.                                          *)
(***************************************************************************)
Use(c) ==
  \E p \in own[c], d \in Data :
    /\ pc[c] = "idle"
    /\ word' = [word EXCEPT ![p] = d]
    /\ UNCHANGED <<freelist, lock, pc, loc, own, cleared, slack, calls>>

-----------------------------------------------------------------------------
(***************************************************************************)
(* alloc_page(): tests freelist before it takes the lock and takes the     *)
(* head, whatever it is by then, afterwards.                               *)
(***************************************************************************)
alloc_page(c) ==
  /\ Call(c, IF freelist = NULL THEN "idle" ELSE "page_lock")
  /\ UNCHANGED <<freelist, word, lock, loc, own, cleared, slack>>

TakeHead(c) ==
  /\ pc[c] = "page"
  /\ freelist' = word[freelist]
  /\ own' = [own EXCEPT ![c] = @ \cup ({freelist} \ {NULL})]
  /\ Return(c)
  /\ UNCHANGED <<word, cleared, slack, calls>>

-----------------------------------------------------------------------------
(***************************************************************************)
(* alloc_pages(order): reads freelist before it takes the lock, then walks *)
(* the list for n = 2^order pages in ascending order that start aligned.   *)
(***************************************************************************)
alloc_pages(c, order, asked) ==
  /\ Call(c, "walk_lock")
  /\ loc' = [loc EXCEPT ![c] = [NoLocals EXCEPT !.n = 2 ^ order, !.asked = asked,
                                               !.next = freelist]]
  /\ UNCHANGED <<freelist, word, lock, own, cleared, slack>>

\* the locals after the page pa, one pass of the loop
Extended_NoAlign(l, pa) ==
  CASE l.run = 0 -> [l EXCEPT !.run = 1, !.run_start = pa, !.run_prev = l.curr,
                              !.run_next_pa = pa + 1]
    [] l.run # 0 /\ pa = l.run_next_pa -> [l EXCEPT !.run = @ + 1, !.run_next_pa = @ + 1]
    [] OTHER -> [l EXCEPT !.run = 0]
Extended(l, pa) ==
  CASE l.run = 0 /\ pa % l.n = 0 ->
         [l EXCEPT !.run = 1, !.run_start = pa, !.run_prev = l.curr, !.run_next_pa = pa + 1]
    [] l.run = 0 /\ pa % l.n # 0 -> l
    [] l.run # 0 /\ pa = l.run_next_pa -> [l EXCEPT !.run = @ + 1, !.run_next_pa = @ + 1]
    [] OTHER -> [l EXCEPT !.run = 0]

WalkEnds(c) ==                          \* no page left: returns NULL
  /\ pc[c] = "walk" /\ loc[c].next = NULL
  /\ Return(c)
  /\ UNCHANGED <<freelist, word, own, cleared, slack, calls>>

\* what the list looks like without the run, whose last page points at next
Unlink_KeepsHead(run_prev, next) ==
  /\ word' = IF run_prev # NULL THEN [word EXCEPT ![run_prev] = next] ELSE word
  /\ UNCHANGED freelist
Unlink(run_prev, next) ==
  IF run_prev # NULL
  THEN word' = [word EXCEPT ![run_prev] = next] /\ UNCHANGED freelist
  ELSE freelist' = next /\ UNCHANGED word

WalkOn(c) ==
  LET curr == loc[c].next
      next == word[curr]
      l    == Extended(loc[c], curr)
  IN /\ pc[c] = "walk" /\ curr # NULL
     /\ \/ /\ l.run = l.n
           /\ Unlink(l.run_prev, next)
           /\ own' = [own EXCEPT ![c] = @ \cup Block(l.run_start, l.asked)]
           /\ slack' = slack \cup Block(l.run_start + l.asked, l.n - l.asked)
           /\ Return(c)
        \/ /\ l.run # l.n
           /\ loc' = [loc EXCEPT ![c] = [l EXCEPT !.curr = curr, !.next = next]]
           /\ UNCHANGED <<freelist, word, lock, pc, own, slack>>
     /\ UNCHANGED <<cleared, calls>>

(***************************************************************************)
(* page_memalign() for a size of n pages takes the power of two that       *)
(* covers it.  Its caller, memalign(), keeps the size of the n pages, and  *)
(* free() gives page_free() that one: the rest is nobody's.                *)
(***************************************************************************)
fls(n) == CHOOSE k \in 0..n : 2 ^ k <= n /\ n < 2 ^ (k + 1)
is_power_of_2(n) == n = 2 ^ fls(n)

page_memalign(c) ==
  \E n \in Sizes :
    IF n = 0
    THEN Call(c, "idle") /\ UNCHANGED <<freelist, word, lock, loc, own, cleared, slack>>
    ELSE alloc_pages(c, IF is_power_of_2(n) THEN fls(n) ELSE fls(n) + 1, n)

-----------------------------------------------------------------------------
(***************************************************************************)
(* free_page(page), and free_pages(mem, size), also as page_free().  A     *)
(* client frees pages it holds.                                            *)
(***************************************************************************)
GiveBack(c, mem, n, place) ==
  /\ Block(mem, n) \subseteq own[c]
  /\ Call(c, place)
  /\ own' = [own EXCEPT ![c] = @ \ Block(mem, n)]
  /\ loc' = [loc EXCEPT ![c] = [NoLocals EXCEPT !.mem = mem, !.n = n]]
  /\ UNCHANGED <<freelist, word, lock, cleared, slack>>

free_page(c) == \E mem \in own[c] : GiveBack(c, mem, 1, "free_lock")

free_pages(c) ==
  \E n \in Sizes \ {0}, mem \in own[c] : GiveBack(c, mem, n, "free_lock")

\* every page of the block points at the next one, the last at the old list
Threaded_Dropped(mem, n, last) ==
  [p \in DOMAIN word |-> IF p \in Block(mem, n)
                         THEN IF p = mem + n - 1 THEN NULL ELSE p + 1
                         ELSE word[p]]
Threaded(mem, n, last) ==
  [p \in DOMAIN word |-> IF p \in Block(mem, n)
                         THEN IF p = mem + n - 1 THEN last ELSE p + 1
                         ELSE word[p]]

PutBack(c) ==
  /\ pc[c] = "free"
  /\ word' = Threaded(loc[c].mem, loc[c].n, freelist)
  /\ freelist' = loc[c].mem
  /\ Return(c)
  /\ UNCHANGED <<own, cleared, slack, calls>>

free_pages_none(c) ==                   \* size 0: the list is dropped, unlocked
  /\ 0 \in Sizes
  /\ Call(c, "idle")
  /\ freelist' = NULL /\ cleared' = cleared \cup OnList
  /\ UNCHANGED <<word, lock, loc, own, slack>>

-----------------------------------------------------------------------------

Calls(c) == \/ Use(c) \/ alloc_page(c) \/ page_memalign(c)
            \/ free_page(c) \/ free_pages(c) \/ free_pages_none(c)

Locks(c) == \/ Acquire(c, "page_lock", "page")
            \/ Acquire(c, "walk_lock", "walk")
            \/ Acquire(c, "free_lock", "free")

Holds(c) == TakeHead(c) \/ WalkEnds(c) \/ WalkOn(c) \/ PutBack(c)

Done == (\A c \in Client : pc[c] = "idle" /\ calls[c] = MaxCalls) /\ UNCHANGED vars

Next == (\E c \in Client : Calls(c) \/ Locks(c) \/ Holds(c)) \/ Done

Spec == Init /\ [][Next]_vars

(***************************************************************************)
(* A caller keeps running once it is in the allocator, and a spinning one  *)
(* gets a lock that stays free.                                            *)
(***************************************************************************)
FairSpec == Spec /\ \A c \in Client : WF_vars(Locks(c) \/ Holds(c))

-----------------------------------------------------------------------------

(***************************************************************************)
(* Every variable has its type: what the functions leave in freelist and   *)
(* in the pages are page addresses, NULL or data of the clients.           *)
(***************************************************************************)
TypeOK ==
  /\ freelist \in Page \cup {NULL}
  /\ word \in [Page \cup {NULL} -> Page \cup {NULL}]
  /\ lock \in Client \cup {Free}
  /\ pc \in [Client -> {"idle", "page_lock", "page", "walk_lock", "walk", "free_lock", "free"}]
  /\ \A c \in Client : loc[c].curr \in Page \cup {NULL} /\ loc[c].run \in 0..Length
  /\ own \in [Client -> SUBSET Page] /\ cleared \cup slack \subseteq Page
  /\ calls \in [Client -> 0..MaxCalls]

(***************************************************************************)
(* The list is a chain of different pages that ends in NULL, and no page   *)
(* on it is held by a client, whatever the clients wrote into the pages    *)
(* they hold and in whatever order blocks came back.                       *)
(***************************************************************************)
ListSound ==
  /\ Nth[Length] = NULL
  /\ Cardinality(OnList) = Cardinality({k \in 0..Length : Nth[k] # NULL})
  /\ \A c \in Client : own[c] \cap OnList = {}

(***************************************************************************)
(* No page is lost but in two ways: it is on the list, held, on its way    *)
(* back, or it was dropped by free_pages(mem, 0) or left behind by         *)
(* page_memalign() for a number of pages that is no power of two.          *)
(***************************************************************************)
Returning == UNION {Block(loc[c].mem, loc[c].n) : c \in {d \in Client : pc[d] \in {"free_lock", "free"}}}
NothingLost ==
  Page = OnList \cup (UNION {own[c] : c \in Client}) \cup Returning \cup cleared \cup slack

(***************************************************************************)
(* "Allocates (1 << order) physically contiguous and naturally aligned     *)
(* pages" (alloc_pages): the pages a caller gains were all free, and are   *)
(* the aligned block it asked for.                                         *)
(***************************************************************************)
AlignedBlock(pages, n) == \E mem \in pages : mem % n = 0 /\ pages = Block(mem, n)
BlocksAligned ==
  [][\A c \in Client :
       LET gained == (own'[c] \ own[c]) \cup (slack' \ slack)
       IN pc[c] = "walk" /\ gained # {} =>
            AlignedBlock(gained, loc[c].n) /\ gained \subseteq OnList]_vars

(***************************************************************************)
(* Every call returns: the walk along the list ends.                       *)
(***************************************************************************)
Returns == \A c \in Client : pc[c] # "idle" ~> pc[c] = "idle"

(***************************************************************************)
(* Allocated pages have one holder ("Allocates ... pages", alloc_pages).   *)
(***************************************************************************)
Exclusive == \A c, d \in Client : c # d => own[c] \cap own[d] = {}

(***************************************************************************)
(* "Returns NULL if there's no memory left" (alloc_pages): when it returns *)
(* NULL there are no n pages in a row on the list that would do.           *)
(***************************************************************************)
RunOnList(n) ==
  \E i \in 0..Length : /\ Nth[i] # NULL /\ Nth[i] % n = 0
                       /\ \A k \in 0..n - 1 : Nth[i + k] = Nth[i] + k
NullMeansNone ==
  [][\A c \in Client : pc[c] = "walk" /\ pc'[c] = "idle" /\ own'[c] = own[c]
       => ~RunOnList(loc[c].n)]_vars
=============================================================================
