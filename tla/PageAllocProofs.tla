-------------------------- MODULE PageAllocProofs --------------------------
(***************************************************************************)
(* Theorems about the page allocator of Dmf-x86os, for all page frames,    *)
(* block sizes and numbers of calls.  The type invariant holds for any     *)
(* number of clients; what the list promises holds when no second client   *)
(* can run between an unlocked read of freelist and its use.               *)
(***************************************************************************)
EXTENDS PageAlloc, NatInduction, FiniteSetTheorems, FunctionTheorems, TLAPS

-----------------------------------------------------------------------------
(***************************************************************************)
(* What a step function does again and again is a function.                *)
(***************************************************************************)
Starts(V, x, g, h, n) ==
  h \in [0..n -> V] /\ h[0] = x /\ \A i \in 0..n - 1 : h[i + 1] = g[h[i]]

LEMMA StartsAgree ==
  ASSUME NEW V, NEW x, NEW g, NEW n \in Nat, NEW m \in Nat, NEW h, NEW e,
         Starts(V, x, g, h, n), Starts(V, x, g, e, m)
  PROVE  \A i \in Nat : i <= n /\ i <= m => h[i] = e[i]
<1> DEFINE Same == {i \in Nat : i <= n /\ i <= m => h[i] = e[i]}
<1>1. 0 \in Same
  BY DEF Starts
<1>2. ASSUME NEW i \in Nat, i \in Same PROVE i + 1 \in Same
  BY <1>2 DEF Starts
<1>3. Nat \subseteq Same
  <2> HIDE DEF Same
  <2> QED BY <1>1, <1>2, NatSetInduction
<1> QED BY <1>3

LEMMA Iterated ==
  ASSUME NEW V, NEW x \in V, NEW g \in [V -> V]
  PROVE  \E f \in [Nat -> V] : f[0] = x /\ \A i \in Nat : f[i + 1] = g[f[i]]
<1> DEFINE Good == {n \in Nat : \E h : Starts(V, x, g, h, n)}
<1>1. Nat \subseteq Good
  <2>1. 0 \in Good
    <3>1. Starts(V, x, g, [i \in 0..0 |-> x], 0)
      BY DEF Starts
    <3> QED BY <3>1
  <2>2. ASSUME NEW n \in Nat, n \in Good PROVE n + 1 \in Good
    <3>1. PICK h : Starts(V, x, g, h, n)
      BY <2>2
    <3>2. Starts(V, x, g, [i \in 0..n + 1 |-> IF i = n + 1 THEN g[h[n]] ELSE h[i]], n + 1)
      BY <3>1 DEF Starts
    <3> QED BY <3>2
  <2> HIDE DEF Good
  <2> QED BY <2>1, <2>2, NatSetInduction
<1> DEFINE H == [n \in Nat |-> CHOOSE h : Starts(V, x, g, h, n)]
           f == [n \in Nat |-> H[n][n]]
<1>2. \A n \in Nat : Starts(V, x, g, H[n], n)
  BY <1>1
<1> HIDE DEF H
<1>3. f \in [Nat -> V] /\ f[0] = x
  BY <1>2 DEF Starts
<1>4. ASSUME NEW i \in Nat PROVE f[i + 1] = g[f[i]]
  <2>1. i + 1 \in Nat /\ i <= i + 1 /\ i <= i
    OBVIOUS
  <2>2. Starts(V, x, g, H[i + 1], i + 1) /\ Starts(V, x, g, H[i], i)
    BY <1>2, <2>1
  <2>3. H[i + 1][i + 1] = g[H[i + 1][i]]
    BY <2>1, <2>2 DEF Starts
  <2>4. H[i + 1][i] = H[i][i]
    <3>1. PICK j, h, e : j = i + 1 /\ h = H[i + 1] /\ e = H[i]
      OBVIOUS
    <3>2. j \in Nat /\ i \in Nat /\ Starts(V, x, g, h, j) /\ Starts(V, x, g, e, i)
      BY <2>1, <2>2, <3>1
    <3>3. \A k \in Nat : k <= j /\ k <= i => h[k] = e[k]
      BY ONLY <3>2, StartsAgree
    <3> QED BY <2>1, <3>1, <3>3
  <2> QED BY <2>1, <2>3, <2>4
<1> HIDE DEF f
<1> QED BY <1>3, <1>4

(***************************************************************************)
(* Powers of two, counted as sets of subsets.                              *)
(***************************************************************************)
LEMMA PowerIsCount ==
  ASSUME NEW i \in Nat
  PROVE  /\ IsFiniteSet(SUBSET (1..i)) /\ Cardinality(SUBSET (1..i)) = 2 ^ i
         /\ 2 ^ i \in Nat
<1>1. IsFiniteSet(1..i) /\ Cardinality(1..i) = i
  BY FS_Interval
<1>2. IsFiniteSet(SUBSET (1..i)) /\ Cardinality(SUBSET (1..i)) = 2 ^ Cardinality(1..i)
  BY <1>1, FS_SUBSET
<1> QED BY <1>1, <1>2, FS_CardinalityType

LEMMA PowerDoubles ==
  ASSUME NEW i \in Nat
  PROVE  2 ^ (i + 1) = 2 * 2 ^ i
<1> DEFINE A == SUBSET (1..i)
           B == {T \cup {i + 1} : T \in A}
           f == [T \in A |-> T \cup {i + 1}]
<1>1. f \in Bijection(A, B)
  <2>1. f \in [A -> B] /\ \A t \in B : \E s \in A : f[s] = t
    OBVIOUS
  <2>2. ASSUME NEW s \in A, NEW t \in A, f[s] = f[t] PROVE s = t
    <3>1. i + 1 \notin s /\ i + 1 \notin t
      OBVIOUS
    <3>2. s \cup {i + 1} = t \cup {i + 1}
      BY <2>2
    <3> QED BY <3>1, <3>2
  <2> HIDE DEF A, B, f
  <2> QED BY <2>1, <2>2, Fun_IsBij
<1>2. SUBSET (1..i + 1) = A \cup B
  <2>1. ASSUME NEW T \in SUBSET (1..i + 1) PROVE T \in A \cup B
    <3>1. CASE i + 1 \in T
      <4>1. T \ {i + 1} \in A /\ T = (T \ {i + 1}) \cup {i + 1}
        BY <3>1
      <4> QED BY <4>1
    <3>2. CASE i + 1 \notin T
      BY <3>2
    <3> QED BY <3>1, <3>2
  <2>2. ASSUME NEW T \in A \cup B PROVE T \in SUBSET (1..i + 1)
    OBVIOUS
  <2> QED BY <2>1, <2>2
<1>3. A \cap B = {}
  OBVIOUS
<1>4. IsFiniteSet(A) /\ Cardinality(A) = 2 ^ i /\ 2 ^ i \in Nat
  BY PowerIsCount
<1>5. IsFiniteSet(B) /\ Cardinality(B) = 2 ^ i
  <2> HIDE DEF A, B, f
  <2> QED BY <1>1, <1>4, FS_Bijection DEF ExistsBijection
<1>6. Cardinality(A \cup B) = 2 ^ i + 2 ^ i
  <2> HIDE DEF A, B, f
  <2>1. Cardinality(A \cup B) = Cardinality(A) + Cardinality(B) - Cardinality(A \cap B)
    BY <1>4, <1>5, FS_Union
  <2>2. Cardinality(A \cap B) = 0
    BY <1>3, FS_EmptySet
  <2> QED BY <2>1, <2>2, <1>4, <1>5
<1>7. Cardinality(SUBSET (1..i + 1)) = 2 ^ (i + 1)
  BY PowerIsCount, i + 1 \in Nat
<1>8. Cardinality(SUBSET (1..i + 1)) = 2 ^ i + 2 ^ i
  BY <1>2, <1>6
<1> HIDE DEF A, B
<1> QED BY <1>4, <1>7, <1>8

LEMMA PowerAbove ==
  ASSUME NEW i \in Nat
  PROVE  i < 2 ^ i
<1> DEFINE S == {n \in Nat : n < 2 ^ n}
<1>1. 0 \in S
  BY 2 ^ 0 = 1
<1>2. ASSUME NEW n \in Nat, n \in S PROVE n + 1 \in S
  BY <1>2, PowerDoubles, PowerIsCount
<1>3. Nat \subseteq S
  <2> HIDE DEF S
  <2> QED BY <1>1, <1>2, NatSetInduction
<1> QED BY <1>3

(***************************************************************************)
(* page_memalign() asks for at least as many pages as it was asked for.    *)
(***************************************************************************)
LEMMA OrderCovers ==
  ASSUME NEW n \in Nat \ {0}
  PROVE  LET order == IF is_power_of_2(n) THEN fls(n) ELSE fls(n) + 1
         IN  2 ^ order \in Nat /\ n <= 2 ^ order
<1> DEFINE Above == {i \in Nat : n < 2 ^ (i + 1)}
<1>1. \A i \in Nat : 2 ^ i \in Nat /\ 2 ^ (i + 1) = 2 * 2 ^ i /\ i < 2 ^ i
  BY PowerIsCount, PowerDoubles, PowerAbove
<1>2. n \in Above
  BY <1>1
<1>3. PICK m \in Above : \A i \in Above : m <= i
  <2> HIDE DEF Above
  <2>1. Above \subseteq Nat
    BY DEF Above
  <2> QED BY <1>2, <2>1, LeastNat
<1>4. m \in 0..n /\ 2 ^ m <= n /\ n < 2 ^ (m + 1)
  <2>1. m <= n
    BY <1>2, <1>3
  <2>2. CASE m = 0
    BY <2>1, <2>2, <1>3, 2 ^ 0 = 1
  <2>3. CASE m # 0
    <3>1. m - 1 \in Nat /\ m - 1 \notin Above
      BY <2>3, <1>3
    <3>2. ~(n < 2 ^ ((m - 1) + 1)) /\ (m - 1) + 1 = m
      BY <3>1
    <3> QED BY <3>2, <2>1, <1>3, <1>1
  <2> QED BY <2>2, <2>3
<1>5. fls(n) \in 0..n /\ 2 ^ fls(n) <= n /\ n < 2 ^ (fls(n) + 1)
  BY <1>4 DEF fls
<1> QED BY <1>5, <1>1 DEF is_power_of_2

-----------------------------------------------------------------------------
(***************************************************************************)
(* The type invariant.  The pages alloc_pages() has counted so far are one *)
(* after the other, start aligned and are page frames; what is on its way  *)
(* back is page frames.                                                    *)
(***************************************************************************)
Link == Page \cup {NULL}
Places == {"idle", "page_lock", "page", "walk_lock", "walk", "free_lock", "free"}
Locals == [n : Nat \ {0}, asked : Nat \ {0}, curr : Link, next : Link, run : Nat,
           run_start : Link, run_prev : Link, run_next_pa : Nat, mem : Link]

RunOK(l) ==
  /\ l.asked <= l.n
  /\ l.run \in 0..Length
  /\ l.run > 0 => /\ l.run_start \in Page /\ l.run_start % l.n = 0
                  /\ l.run_next_pa = l.run_start + l.run
                  /\ Block(l.run_start, l.run) \subseteq Page

VarsTyped ==
  /\ freelist \in Link /\ word \in [Link -> Link]
  /\ lock \in Client \cup {Free} /\ pc \in [Client -> Places]
  /\ own \in [Client -> SUBSET Page] /\ cleared \in SUBSET Page /\ slack \in SUBSET Page
  /\ calls \in [Client -> 0..MaxCalls]
  /\ loc \in [Client -> Locals]

LocalsOK(c) ==
  /\ RunOK(loc[c])
  /\ pc[c] \in {"free_lock", "free"} =>
       loc[c].mem \in Page /\ Block(loc[c].mem, loc[c].n) \subseteq Page

TypeInv == VarsTyped /\ \A c \in Client : LocalsOK(c)

-----------------------------------------------------------------------------
(***************************************************************************)
(* The walk along the links of a memory, one link after the other.         *)
(***************************************************************************)
NthOf(head, w) ==
  CHOOSE N : N = [k \in Nat |-> IF k = 0 THEN head
                                ELSE IF N[k - 1] = NULL THEN NULL ELSE w[N[k - 1]]]

LEMMA NthIsNthOf == Nth = NthOf(freelist, word)
BY DEF Nth, NthOf

LEMMA NthOfSteps ==
  ASSUME NEW head \in Link, NEW w, w \in [Link -> Link]
  PROVE  /\ NthOf(head, w) \in [Nat -> Link]
         /\ NthOf(head, w)[0] = head
         /\ \A k \in Nat : NthOf(head, w)[k + 1]
                             = IF NthOf(head, w)[k] = NULL THEN NULL ELSE w[NthOf(head, w)[k]]
<1>1. PICK g \in [Link -> Link] :
        \A v \in Link : g[v] = IF v = NULL THEN NULL ELSE w[v]
  <2>1. [v \in Link |-> IF v = NULL THEN NULL ELSE w[v]] \in [Link -> Link]
    BY DEF Link
  <2> QED BY <2>1
<1>2. PICK f \in [Nat -> Link] : f[0] = head /\ \A i \in Nat : f[i + 1] = g[f[i]]
  <2>1. head \in Link /\ g \in [Link -> Link]
    OBVIOUS
  <2> QED BY ONLY <2>1, Iterated
<1> DEFINE Is(N) == N = [k \in Nat |-> IF k = 0 THEN head
                                       ELSE IF N[k - 1] = NULL THEN NULL ELSE w[N[k - 1]]]
<1>3. Is(f)
  <2>1. ASSUME NEW k \in Nat
        PROVE f[k] = IF k = 0 THEN head
                     ELSE IF f[k - 1] = NULL THEN NULL ELSE w[f[k - 1]]
    <3>1. CASE k = 0
      BY <3>1, <1>2
    <3>2. CASE k # 0
      <4>1. k - 1 \in Nat /\ (k - 1) + 1 = k
        BY <3>2
      <4>2. f[k] = g[f[k - 1]] /\ f[k - 1] \in Link
        BY <4>1, <1>2
      <4> QED BY <3>2, <4>2, <1>1
    <3> QED BY <3>1, <3>2
  <2> QED BY <2>1
<1>4. Is(NthOf(head, w))
  BY <1>3 DEF NthOf
<1> DEFINE N == NthOf(head, w)
<1>5. DOMAIN N = Nat /\ N[0] = head
  BY <1>4
<1>6. ASSUME NEW k \in Nat PROVE N[k + 1] = IF N[k] = NULL THEN NULL ELSE w[N[k]]
  <2>1. k + 1 \in Nat /\ k + 1 # 0 /\ (k + 1) - 1 = k
    OBVIOUS
  <2> HIDE DEF N
  <2>2. Is(N)
    BY <1>4 DEF N
  <2> QED BY <2>1, <2>2
<1> DEFINE S == {k \in Nat : N[k] \in Link}
<1>7. Nat \subseteq S
  <2> HIDE DEF N, Is
  <2>1. ASSUME NEW k \in Nat, k \in S PROVE k + 1 \in S
    BY <2>1, <1>6 DEF Link
  <2>2. 0 \in S
    BY <1>5
  <2> HIDE DEF S
  <2> QED BY <2>1, <2>2, NatSetInduction
<1>8. N \in [Nat -> Link]
  <2> HIDE DEF N
  <2>1. N = [k \in Nat |-> N[k]]
    BY <1>4 DEF N
  <2> QED BY <1>7, <2>1
<1> QED BY <1>5, <1>6, <1>8

-----------------------------------------------------------------------------
(***************************************************************************)
(* Pages in a row are no more than there are pages; the walk's pass over   *)
(* a page keeps its count right.                                           *)
(***************************************************************************)
LEMMA LengthNat == Length \in Nat
BY PageAssumption, FS_CardinalityType DEF Length

LEMMA RunFits ==
  ASSUME NEW a \in Nat, NEW r \in Nat, Block(a, r) \subseteq Page
  PROVE  r <= Length
<1>1. Cardinality(a..a + r - 1) = r /\ a..a + r - 1 \in SUBSET Page
  BY FS_Interval DEF Block
<1> QED BY <1>1, PageAssumption, FS_Subset DEF Length

LEMMA NoLocalsOK == NoLocals \in Locals /\ RunOK(NoLocals)
BY LengthNat DEF NoLocals, Locals, RunOK, Link, NULL

LEMMA NoLocalsIs ==
  /\ NoLocals.n = 1 /\ NoLocals.asked = 1 /\ NoLocals.curr = NULL /\ NoLocals.next = NULL
  /\ NoLocals.run = 0 /\ NoLocals.run_start = NULL /\ NoLocals.run_prev = NULL
  /\ NoLocals.run_next_pa = NULL /\ NoLocals.mem = NULL
BY DEF NoLocals

LEMMA WalkLocals ==
  ASSUME NEW n, NEW asked, NEW next
  PROVE  [NoLocals EXCEPT !.n = n, !.asked = asked, !.next = next]
         = [n |-> n, asked |-> asked, curr |-> NULL, next |-> next, run |-> 0,
            run_start |-> NULL, run_prev |-> NULL, run_next_pa |-> NULL, mem |-> NULL]
<1>1. PICK r : r = NoLocals
  OBVIOUS
<1>2. r \in Locals
  BY <1>1, NoLocalsOK
<1>3. PICK e : e = [r EXCEPT !.n = n, !.asked = asked, !.next = next]
  OBVIOUS
<1>4. e = [n |-> n, asked |-> asked, curr |-> r.curr, next |-> next, run |-> r.run,
           run_start |-> r.run_start, run_prev |-> r.run_prev,
           run_next_pa |-> r.run_next_pa, mem |-> r.mem]
  BY <1>2, <1>3 DEF Locals
<1>5. /\ r.curr = NULL /\ r.run = 0 /\ r.run_start = NULL /\ r.run_prev = NULL
      /\ r.run_next_pa = NULL /\ r.mem = NULL
  BY <1>1, NoLocalsIs
<1> QED BY <1>1, <1>3, <1>4, <1>5

LEMMA FreeLocals ==
  ASSUME NEW n, NEW mem
  PROVE  [NoLocals EXCEPT !.mem = mem, !.n = n]
         = [n |-> n, asked |-> 1, curr |-> NULL, next |-> NULL, run |-> 0,
            run_start |-> NULL, run_prev |-> NULL, run_next_pa |-> NULL, mem |-> mem]
<1>1. PICK r : r = NoLocals
  OBVIOUS
<1>2. r \in Locals
  BY <1>1, NoLocalsOK
<1>3. PICK e : e = [r EXCEPT !.mem = mem, !.n = n]
  OBVIOUS
<1>4. e = [n |-> n, asked |-> r.asked, curr |-> r.curr, next |-> r.next, run |-> r.run,
           run_start |-> r.run_start, run_prev |-> r.run_prev,
           run_next_pa |-> r.run_next_pa, mem |-> mem]
  BY <1>2, <1>3 DEF Locals
<1>5. /\ r.asked = 1 /\ r.curr = NULL /\ r.next = NULL /\ r.run = 0 /\ r.run_start = NULL
      /\ r.run_prev = NULL /\ r.run_next_pa = NULL
  BY <1>1, NoLocalsIs
<1> QED BY <1>1, <1>3, <1>4, <1>5

LEMMA ExtendedTyped ==
  ASSUME NEW l \in Locals, RunOK(l), NEW pa \in Page
  PROVE  /\ Extended(l, pa) \in Locals /\ RunOK(Extended(l, pa))
         /\ Extended(l, pa).n = l.n /\ Extended(l, pa).asked = l.asked
<1> DEFINE e == Extended(l, pa)
<1>1. pa \in Nat /\ pa \in Link /\ Page \subseteq Nat /\ l.n \in Nat \ {0} /\ l.curr \in Link /\ l.run \in Nat
  BY PageAssumption DEF Link, Locals
<1>2. CASE l.run = 0 /\ pa % l.n = 0
  <2>1. e = [l EXCEPT !.run = 1, !.run_start = pa, !.run_prev = l.curr, !.run_next_pa = pa + 1]
    BY <1>2 DEF Extended
  <2> HIDE DEF e
  <2>2. e = [n |-> l.n, asked |-> l.asked, curr |-> l.curr, next |-> l.next, run |-> 1,
             run_start |-> pa, run_prev |-> l.curr, run_next_pa |-> pa + 1, mem |-> l.mem]
    BY <2>1 DEF Locals
  <2>3. e \in Locals
    BY <2>2, <1>1 DEF Locals
  <2>4. e.n = l.n /\ e.asked = l.asked /\ e.run = 1 /\ e.run_start = pa
        /\ e.run_next_pa = pa + 1
    BY <2>2
  <2>5. Block(pa, 1) \subseteq Page
    BY <1>1 DEF Block
  <2>6. 1 <= Length
    BY <2>5, <1>1, RunFits
  <2>7. RunOK(e)
    BY <2>4, <2>5, <2>6, <1>1, <1>2, LengthNat DEF RunOK
  <2> QED BY <2>3, <2>4, <2>7 DEF e
<1>3. CASE l.run = 0 /\ pa % l.n # 0
  BY <1>3 DEF Extended
<1>4. CASE l.run # 0 /\ pa = l.run_next_pa
  <2>1. e = [l EXCEPT !.run = @ + 1, !.run_next_pa = @ + 1]
    BY <1>4 DEF Extended
  <2> HIDE DEF e
  <2>2. e = [n |-> l.n, asked |-> l.asked, curr |-> l.curr, next |-> l.next,
             run |-> l.run + 1, run_start |-> l.run_start, run_prev |-> l.run_prev,
             run_next_pa |-> l.run_next_pa + 1, mem |-> l.mem]
    BY <2>1 DEF Locals
  <2>3. e \in Locals
    BY <2>2, <1>1 DEF Locals
  <2>4. /\ e.n = l.n /\ e.asked = l.asked /\ e.run = l.run + 1
        /\ e.run_start = l.run_start /\ e.run_next_pa = l.run_next_pa + 1
    BY <2>2
  <2>5. /\ l.run_start \in Page /\ l.run_start % l.n = 0
        /\ l.run_next_pa = l.run_start + l.run
        /\ Block(l.run_start, l.run) \subseteq Page
    BY <1>1, <1>4 DEF RunOK
  <2>6. Block(l.run_start, l.run + 1) \subseteq Page
    <3>1. l.run_start \in Nat
      BY <2>5, <1>1
    <3>2. ASSUME NEW p \in Block(l.run_start, l.run + 1)
          PROVE p \in Block(l.run_start, l.run) \/ p = pa
      BY <3>1, <2>5, <1>1, <1>4 DEF Block
    <3> QED BY <3>2, <2>5
  <2>7. l.run + 1 <= Length
    <3>1. l.run_start \in Nat
      BY <2>5, <1>1
    <3>2. l.run + 1 \in Nat
      BY <1>1
    <3> QED BY <2>6, <3>1, <3>2, RunFits
  <2>8. RunOK(e)
    <3>1. e.run \in 0..Length
      BY <2>4, <2>7, <1>1, LengthNat
    <3>2. e.run_next_pa = e.run_start + e.run
      <4>1. l.run_start \in Nat
        BY <2>5, <1>1
      <4> QED BY <4>1, <2>4, <2>5, <1>1
    <3>3. Block(e.run_start, e.run) \subseteq Page /\ e.asked <= e.n
      BY <2>4, <2>6 DEF RunOK
    <3> QED BY <2>4, <2>5, <3>1, <3>2, <3>3 DEF RunOK
  <2> QED BY <2>3, <2>4, <2>8 DEF e
<1>5. CASE l.run # 0 /\ pa # l.run_next_pa
  <2>1. e = [l EXCEPT !.run = 0]
    BY <1>5 DEF Extended
  <2>2. e \in Locals /\ e.n = l.n /\ e.asked = l.asked /\ e.run = 0
    BY <2>1, <1>1 DEF Locals
  <2> QED BY <2>2, LengthNat DEF RunOK
<1> QED BY <1>2, <1>3, <1>4, <1>5

-----------------------------------------------------------------------------
LEMMA TypeInit == Init => TypeInv
<1> SUFFICES ASSUME Init PROVE TypeInv
  OBVIOUS
<1>1. VarsTyped
  <2>1. freelist \in Link /\ word \in [Link -> Link]
    BY PageAssumption, WordsAssumption DEF Init, Link
  <2>2. pc \in [Client -> Places] /\ calls \in [Client -> 0..MaxCalls] /\ loc \in [Client -> Locals]
    BY NoLocalsOK, CallsAssumption DEF Init, Places
  <2>3. own \in [Client -> SUBSET Page]
    BY DEF Init
  <2> QED BY <2>1, <2>2, <2>3 DEF VarsTyped, Init
<1>2. \A c \in Client : LocalsOK(c)
  BY NoLocalsOK DEF Init, LocalsOK
<1> QED BY <1>1, <1>2 DEF TypeInv

(***************************************************************************)
(* A step of one client leaves the others' locals alone.                   *)
(***************************************************************************)
LEMMA OthersKeep ==
  ASSUME TypeInv, VarsTyped', NEW c \in Client, LocalsOK(c)',
         \A d \in Client \ {c} : pc'[d] = pc[d] /\ loc'[d] = loc[d]
  PROVE  TypeInv'
<1>1. ASSUME NEW d \in Client, d # c PROVE LocalsOK(d)'
  BY <1>1 DEF TypeInv, LocalsOK
<1> QED BY <1>1 DEF TypeInv

LEMMA CallTyped ==
  ASSUME TypeInv, NEW c \in Client, NEW place \in Places, Call(c, place)
  PROVE  /\ pc' \in [Client -> Places] /\ calls' \in [Client -> 0..MaxCalls]
         /\ pc'[c] = place /\ pc[c] = "idle"
         /\ \A d \in Client \ {c} : pc'[d] = pc[d]
BY CallsAssumption DEF TypeInv, VarsTyped, Call, Goto

LEMMA HomeTyped ==
  ASSUME TypeInv, NEW c \in Client, Return(c)
  PROVE  /\ pc' \in [Client -> Places] /\ loc' \in [Client -> Locals]
         /\ lock' \in Client \cup {Free} /\ LocalsOK(c)'
         /\ pc'[c] = "idle" /\ loc'[c] = NoLocals
         /\ \A d \in Client \ {c} : pc'[d] = pc[d] /\ loc'[d] = loc[d]
<1>1. /\ pc' = [pc EXCEPT ![c] = "idle"] /\ loc' = [loc EXCEPT ![c] = NoLocals]
      /\ pc \in [Client -> Places] /\ loc \in [Client -> Locals] /\ lock' = Free
  BY DEF Return, Goto, TypeInv, VarsTyped
<1>2. pc'[c] = "idle" /\ loc'[c] = NoLocals
  BY <1>1
<1>3. LocalsOK(c)'
  BY <1>2, NoLocalsOK DEF LocalsOK
<1> QED BY <1>1, <1>2, <1>3, NoLocalsOK DEF Places

LEMMA TypeUse ==
  ASSUME TypeInv, NEW c \in Client, Use(c) PROVE TypeInv'
<1>1. PICK p \in own[c], d \in Data :
        /\ word' = [word EXCEPT ![p] = d]
        /\ UNCHANGED <<freelist, lock, pc, loc, own, cleared, slack, calls>>
  BY DEF Use
<1>2. word' \in [Link -> Link]
  BY <1>1, WordsAssumption DEF TypeInv, VarsTyped, Link
<1>3. VarsTyped'
  BY <1>1, <1>2 DEF TypeInv, VarsTyped
<1>4. LocalsOK(c)'
  BY <1>1 DEF TypeInv, LocalsOK
<1> QED BY <1>1, <1>3, <1>4, OthersKeep

LEMMA TypeAllocPage ==
  ASSUME TypeInv, NEW c \in Client, alloc_page(c) PROVE TypeInv'
<1>1. PICK place \in {"idle", "page_lock"} : Call(c, place)
  BY DEF alloc_page
<1>2. /\ pc' \in [Client -> Places] /\ calls' \in [Client -> 0..MaxCalls]
      /\ pc'[c] = place /\ \A d \in Client \ {c} : pc'[d] = pc[d]
  BY <1>1, CallTyped DEF Places
<1>3. UNCHANGED <<freelist, word, lock, loc, own, cleared, slack>>
  BY DEF alloc_page
<1>4. VarsTyped'
  BY <1>2, <1>3 DEF TypeInv, VarsTyped
<1>5. LocalsOK(c)'
  BY <1>2, <1>3 DEF TypeInv, LocalsOK
<1> QED BY <1>2, <1>3, <1>4, <1>5, OthersKeep

LEMMA TypeMemalign ==
  ASSUME TypeInv, NEW c \in Client, page_memalign(c) PROVE TypeInv'
<1>1. PICK n \in Sizes :
        IF n = 0
        THEN Call(c, "idle") /\ UNCHANGED <<freelist, word, lock, loc, own, cleared, slack>>
        ELSE alloc_pages(c, IF is_power_of_2(n) THEN fls(n) ELSE fls(n) + 1, n)
  BY DEF page_memalign
<1>2. CASE n = 0
  <2>1. Call(c, "idle") /\ UNCHANGED <<freelist, word, lock, loc, own, cleared, slack>>
    BY <1>1, <1>2
  <2>2. /\ pc' \in [Client -> Places] /\ calls' \in [Client -> 0..MaxCalls]
        /\ pc'[c] = "idle" /\ \A d \in Client \ {c} : pc'[d] = pc[d]
    BY <2>1, CallTyped DEF Places
  <2>3. VarsTyped'
    BY <2>1, <2>2 DEF TypeInv, VarsTyped
  <2>4. LocalsOK(c)'
    BY <2>1, <2>2 DEF TypeInv, LocalsOK
  <2> QED BY <2>1, <2>2, <2>3, <2>4, OthersKeep
<1>3. CASE n # 0
  <2> DEFINE order == IF is_power_of_2(n) THEN fls(n) ELSE fls(n) + 1
             l == [NoLocals EXCEPT !.n = 2 ^ order, !.asked = n, !.next = freelist]
  <2>1. n \in Nat \ {0}
    BY <1>3, SizesAssumption
  <2>2. 2 ^ order \in Nat /\ n <= 2 ^ order
    BY <2>1, OrderCovers
  <2>3. /\ Call(c, "walk_lock") /\ loc' = [loc EXCEPT ![c] = l]
        /\ UNCHANGED <<freelist, word, lock, own, cleared, slack>>
    BY <1>1, <1>3 DEF alloc_pages
  <2>4. /\ pc' \in [Client -> Places] /\ calls' \in [Client -> 0..MaxCalls]
        /\ pc'[c] = "walk_lock" /\ \A d \in Client \ {c} : pc'[d] = pc[d]
    BY <2>3, CallTyped DEF Places
  <2> HIDE DEF order
  <2>5. l = [n |-> 2 ^ order, asked |-> n, curr |-> NULL, next |-> freelist, run |-> 0,
             run_start |-> NULL, run_prev |-> NULL, run_next_pa |-> NULL, mem |-> NULL]
    BY WalkLocals
  <2>6. freelist \in Link /\ NULL \in Link /\ 2 ^ order \in Nat \ {0} /\ NULL \in Nat
    BY <2>1, <2>2 DEF TypeInv, VarsTyped, Link, NULL
  <2> HIDE DEF l
  <2>7. l \in Locals
    BY <2>1, <2>5, <2>6 DEF Locals
  <2>8. RunOK(l)
    BY <2>2, <2>5, LengthNat DEF RunOK
  <2>9. VarsTyped' /\ loc'[c] = l /\ \A d \in Client \ {c} : loc'[d] = loc[d]
    BY <2>3, <2>4, <2>7 DEF TypeInv, VarsTyped
  <2>10. LocalsOK(c)'
    BY <2>4, <2>8, <2>9 DEF LocalsOK
  <2> QED BY <2>4, <2>9, <2>10, OthersKeep
<1> QED BY <1>2, <1>3

LEMMA TypeGiveBack ==
  ASSUME TypeInv, NEW c \in Client, NEW n \in Nat \ {0}, NEW mem \in own[c],
         GiveBack(c, mem, n, "free_lock")
  PROVE  TypeInv'
<1> DEFINE l == [NoLocals EXCEPT !.mem = mem, !.n = n]
<1>1. /\ Block(mem, n) \subseteq own[c] /\ Call(c, "free_lock")
      /\ own' = [own EXCEPT ![c] = @ \ Block(mem, n)]
      /\ loc' = [loc EXCEPT ![c] = l]
      /\ UNCHANGED <<freelist, word, lock, cleared, slack>>
  BY DEF GiveBack
<1>2. /\ pc' \in [Client -> Places] /\ calls' \in [Client -> 0..MaxCalls]
      /\ pc'[c] = "free_lock" /\ \A d \in Client \ {c} : pc'[d] = pc[d]
  BY <1>1, CallTyped DEF Places
<1>3. mem \in Page /\ Block(mem, n) \subseteq Page
  BY <1>1 DEF TypeInv, VarsTyped
<1>4. l = [n |-> n, asked |-> 1, curr |-> NULL, next |-> NULL, run |-> 0,
           run_start |-> NULL, run_prev |-> NULL, run_next_pa |-> NULL, mem |-> mem]
  BY FreeLocals
<1>5. NULL \in Link /\ NULL \in Nat /\ mem \in Link
  BY <1>3 DEF Link, NULL
<1> HIDE DEF l
<1>6. l \in Locals
  BY <1>4, <1>5 DEF Locals
<1>7. RunOK(l)
  BY <1>4, LengthNat DEF RunOK
<1>8. VarsTyped' /\ loc'[c] = l /\ \A d \in Client \ {c} : loc'[d] = loc[d]
  BY <1>1, <1>2, <1>6 DEF TypeInv, VarsTyped
<1>9. LocalsOK(c)'
  BY <1>2, <1>3, <1>4, <1>7, <1>8 DEF LocalsOK
<1> QED BY <1>2, <1>8, <1>9, OthersKeep

LEMMA TypeFreeNone ==
  ASSUME TypeInv, NEW c \in Client, free_pages_none(c) PROVE TypeInv'
<1>1. /\ Call(c, "idle") /\ freelist' = NULL /\ cleared' = cleared \cup OnList
      /\ UNCHANGED <<word, lock, loc, own, slack>>
  BY DEF free_pages_none
<1>2. /\ pc' \in [Client -> Places] /\ calls' \in [Client -> 0..MaxCalls]
      /\ pc'[c] = "idle" /\ \A d \in Client \ {c} : pc'[d] = pc[d]
  BY <1>1, CallTyped DEF Places
<1>3. OnList \subseteq Page
  <2>1. Nth \in [Nat -> Link]
    BY NthIsNthOf, NthOfSteps DEF TypeInv, VarsTyped
  <2>2. 0..Length \subseteq Nat
    BY LengthNat
  <2> QED BY <2>1, <2>2 DEF OnList, Link
<1>4. VarsTyped'
  BY <1>1, <1>2, <1>3 DEF TypeInv, VarsTyped, Link
<1>5. LocalsOK(c)'
  BY <1>1, <1>2 DEF TypeInv, LocalsOK
<1> QED BY <1>1, <1>2, <1>4, <1>5, OthersKeep

LEMMA TypeLocks ==
  ASSUME TypeInv, NEW c \in Client, Locks(c) PROVE TypeInv'
<1>1. PICK pair \in {<<"page_lock", "page">>, <<"walk_lock", "walk">>, <<"free_lock", "free">>} :
        Acquire(c, pair[1], pair[2])
  BY DEF Locks
<1>2. /\ pc[c] = pair[1] /\ pc' = [pc EXCEPT ![c] = pair[2]] /\ lock' = c
      /\ UNCHANGED <<freelist, word, loc, own, cleared, slack, calls>>
  BY <1>1 DEF Acquire, Goto
<1>3. pair[2] \in Places /\ (pair[2] \in {"free_lock", "free"} => pair[1] = "free_lock")
  BY DEF Places
<1>4. VarsTyped' /\ pc'[c] = pair[2] /\ \A d \in Client \ {c} : pc'[d] = pc[d]
  BY <1>2, <1>3 DEF TypeInv, VarsTyped
<1>5. LocalsOK(c)'
  BY <1>2, <1>3, <1>4 DEF TypeInv, LocalsOK
<1> QED BY <1>2, <1>4, <1>5, OthersKeep

LEMMA TypeTakeHead ==
  ASSUME TypeInv, NEW c \in Client, TakeHead(c) PROVE TypeInv'
<1>1. /\ freelist' = word[freelist] /\ own' = [own EXCEPT ![c] = @ \cup ({freelist} \ {NULL})]
      /\ Return(c) /\ UNCHANGED <<word, cleared, slack, calls>>
  BY DEF TakeHead
<1>2. freelist' \in Link /\ own' \in [Client -> SUBSET Page]
  BY <1>1 DEF TypeInv, VarsTyped, Link
<1>3. VarsTyped'
  BY <1>1, <1>2, HomeTyped DEF TypeInv, VarsTyped
<1> QED BY <1>1, <1>3, HomeTyped, OthersKeep

LEMMA TypeWalkEnds ==
  ASSUME TypeInv, NEW c \in Client, WalkEnds(c) PROVE TypeInv'
<1>1. Return(c) /\ UNCHANGED <<freelist, word, own, cleared, slack, calls>>
  BY DEF WalkEnds
<1>2. VarsTyped'
  BY <1>1, HomeTyped DEF TypeInv, VarsTyped
<1> QED BY <1>1, <1>2, HomeTyped, OthersKeep

LEMMA TypeWalkOn ==
  ASSUME TypeInv, NEW c \in Client, WalkOn(c) PROVE TypeInv'
<1>1. PICK curr, next, l :
        /\ curr = loc[c].next /\ next = word[curr] /\ l = Extended(loc[c], curr)
        /\ pc[c] = "walk" /\ curr # NULL
        /\ \/ /\ l.run = l.n
              /\ Unlink(l.run_prev, next)
              /\ own' = [own EXCEPT ![c] = @ \cup Block(l.run_start, l.asked)]
              /\ slack' = slack \cup Block(l.run_start + l.asked, l.n - l.asked)
              /\ Return(c)
           \/ /\ l.run # l.n
              /\ loc' = [loc EXCEPT ![c] = [l EXCEPT !.curr = curr, !.next = next]]
              /\ UNCHANGED <<freelist, word, lock, pc, own, slack>>
        /\ UNCHANGED <<cleared, calls>>
  BY DEF WalkOn
<1>2. loc[c] \in Locals /\ RunOK(loc[c])
  BY DEF TypeInv, VarsTyped, LocalsOK
<1>3. curr \in Page /\ next \in Link
  BY <1>1, <1>2 DEF TypeInv, VarsTyped, Link, Locals
<1>4. l \in Locals /\ RunOK(l)
  BY <1>1, <1>2, <1>3, ExtendedTyped
<1>5. CASE l.run = l.n
  <2>1. /\ Unlink(l.run_prev, next) /\ Return(c) /\ UNCHANGED <<cleared, calls>>
        /\ own' = [own EXCEPT ![c] = @ \cup Block(l.run_start, l.asked)]
        /\ slack' = slack \cup Block(l.run_start + l.asked, l.n - l.asked)
    BY <1>1, <1>5
  <2>2. freelist' \in Link /\ word' \in [Link -> Link]
    <3>1. l.run_prev \in Link
      BY <1>4 DEF Locals
    <3> QED BY <2>1, <3>1, <1>3 DEF TypeInv, VarsTyped, Unlink
  <2>3. /\ Block(l.run_start, l.asked) \subseteq Page
        /\ Block(l.run_start + l.asked, l.n - l.asked) \subseteq Page
    <3>1. /\ l.n \in Nat \ {0} /\ l.asked \in Nat \ {0} /\ l.asked <= l.n
          /\ l.run_start \in Page /\ Block(l.run_start, l.n) \subseteq Page
      BY <1>4, <1>5 DEF Locals, RunOK
    <3>2. l.run_start \in Nat
      BY <3>1, PageAssumption
    <3>3. Block(l.run_start, l.asked) \subseteq Block(l.run_start, l.n)
      BY <3>1, <3>2 DEF Block
    <3>4. Block(l.run_start + l.asked, l.n - l.asked) \subseteq Block(l.run_start, l.n)
      BY <3>1, <3>2 DEF Block
    <3> QED BY <3>1, <3>3, <3>4
  <2>4. own' \in [Client -> SUBSET Page] /\ slack' \in SUBSET Page
    BY <2>1, <2>3 DEF TypeInv, VarsTyped
  <2>5. VarsTyped'
    BY <2>1, <2>2, <2>4, HomeTyped DEF TypeInv, VarsTyped
  <2> QED BY <2>1, <2>5, HomeTyped, OthersKeep
<1>6. CASE l.run # l.n
  <2>1. /\ loc' = [loc EXCEPT ![c] = [l EXCEPT !.curr = curr, !.next = next]]
        /\ UNCHANGED <<freelist, word, lock, pc, own, slack, cleared, calls>>
    BY <1>1, <1>6
  <2>2. PICK e : e = [l EXCEPT !.curr = curr, !.next = next]
    OBVIOUS
  <2>3. e = [n |-> l.n, asked |-> l.asked, curr |-> curr, next |-> next, run |-> l.run,
             run_start |-> l.run_start, run_prev |-> l.run_prev,
             run_next_pa |-> l.run_next_pa, mem |-> l.mem]
    BY <1>4, <2>2 DEF Locals
  <2>4. e \in Locals
    BY <2>3, <1>3, <1>4 DEF Locals, Link
  <2>5. RunOK(e)
    BY <2>3, <1>4 DEF RunOK
  <2>6. VarsTyped' /\ loc'[c] = e /\ \A d \in Client \ {c} : loc'[d] = loc[d]
    BY <2>1, <2>2, <2>4 DEF TypeInv, VarsTyped
  <2>7. LocalsOK(c)'
    BY <2>1, <2>5, <2>6, <1>1 DEF LocalsOK
  <2> QED BY <2>1, <2>6, <2>7, OthersKeep
<1> QED BY <1>5, <1>6

LEMMA TypePutBack ==
  ASSUME TypeInv, NEW c \in Client, PutBack(c) PROVE TypeInv'
<1>1. PICK mem, n : mem = loc[c].mem /\ n = loc[c].n
  OBVIOUS
<1>2. /\ pc[c] = "free" /\ word' = Threaded(mem, n, freelist) /\ freelist' = mem
      /\ Return(c) /\ UNCHANGED <<own, cleared, slack, calls>>
  BY <1>1 DEF PutBack
<1>3. n \in Nat \ {0} /\ mem \in Page /\ Block(mem, n) \subseteq Page /\ mem \in Nat
  BY <1>1, <1>2, PageAssumption DEF TypeInv, VarsTyped, LocalsOK, Locals
<1>4. word' \in [Link -> Link]
  <2>1. word \in [Link -> Link] /\ freelist \in Link
    BY DEF TypeInv, VarsTyped
  <2>2. \A p \in Block(mem, n) : p # mem + n - 1 => p + 1 \in Block(mem, n)
    BY <1>3 DEF Block
  <2>3. \A p \in Block(mem, n) : p # mem + n - 1 => p + 1 \in Link
    BY <2>2, <1>3 DEF Link
  <2>4. word' = [p \in Link |-> IF p \in Block(mem, n)
                                THEN IF p = mem + n - 1 THEN freelist ELSE p + 1
                                ELSE word[p]]
    BY <1>2, <2>1 DEF Threaded
  <2> HIDE DEF Block
  <2> QED BY <2>1, <2>3, <2>4
<1>5. VarsTyped'
  BY <1>2, <1>3, <1>4, HomeTyped DEF TypeInv, VarsTyped, Link
<1> QED BY <1>2, <1>5, HomeTyped, OthersKeep

LEMMA TypeStep == TypeInv /\ [Next]_vars => TypeInv'
<1> SUFFICES ASSUME TypeInv, [Next]_vars PROVE TypeInv'
  OBVIOUS
<1>1. CASE UNCHANGED vars
  BY <1>1 DEF vars, TypeInv, VarsTyped, LocalsOK
<1>2. ASSUME NEW c \in Client, Calls(c) PROVE TypeInv'
  <2>1. CASE Use(c)
    BY <2>1, TypeUse
  <2>2. CASE alloc_page(c)
    BY <2>2, TypeAllocPage
  <2>3. CASE page_memalign(c)
    BY <2>3, TypeMemalign
  <2>4. CASE free_page(c)
    BY <2>4, TypeGiveBack DEF free_page
  <2>5. CASE free_pages(c)
    <3>1. PICK n \in Sizes \ {0}, mem \in own[c] : GiveBack(c, mem, n, "free_lock")
      BY <2>5 DEF free_pages
    <3>2. n \in Nat \ {0}
      BY SizesAssumption
    <3> QED BY <3>1, <3>2, TypeGiveBack
  <2>6. CASE free_pages_none(c)
    BY <2>6, TypeFreeNone
  <2> QED BY <1>2, <2>1, <2>2, <2>3, <2>4, <2>5, <2>6 DEF Calls
<1>3. ASSUME NEW c \in Client, Holds(c) PROVE TypeInv'
  BY <1>3, TypeTakeHead, TypeWalkEnds, TypeWalkOn, TypePutBack DEF Holds
<1>4. ASSUME NEW c \in Client, Locks(c) PROVE TypeInv'
  BY <1>4, TypeLocks
<1>5. CASE Done
  BY <1>1, <1>5 DEF Done
<1> QED BY <1>1, <1>2, <1>3, <1>4, <1>5 DEF Next

(***************************************************************************)
(* For any number of clients: what the allocator leaves in freelist and in *)
(* the pages, and what it gives to a client, is page frames, NULL or what  *)
(* a client wrote; the walk counts no more pages than there are.           *)
(***************************************************************************)
THEOREM TypeCorrect == Spec => []TypeOK
<1>1. TypeInv => TypeOK
  BY DEF TypeInv, VarsTyped, LocalsOK, RunOK, TypeOK, Link, Places, Locals
<1> QED BY TypeInit, TypeStep, <1>1, PTL DEF Spec

-----------------------------------------------------------------------------
(***************************************************************************)
(* One client.  There is a chain of n different pages from freelist to     *)
(* NULL.  The client in its walk is on it, and the pages it has counted    *)
(* are the ones it passed last.  A page has one place.                     *)
(***************************************************************************)
ChainOf(f, n, head, w) ==
  /\ n \in Nat /\ f \in [0..n -> Link]
  /\ f[0] = head /\ f[n] = NULL
  /\ \A i \in 0..n - 1 : f[i] # NULL /\ w[f[i]] = f[i + 1]
  /\ \A i, j \in 0..n - 1 : f[i] = f[j] => i = j

Pages(f, n) == {f[i] : i \in 0..n - 1}

Before(f, i) == IF i = 0 THEN NULL ELSE f[i - 1]
Counted(l, f, i) ==
  /\ l.run <= i
  /\ l.run > 0 => l.run_prev = Before(f, i - l.run)
  /\ \A j \in 0..l.run - 1 : f[i - l.run + j] = l.run_start + j
Walked(l, f, i) ==
  l.next = f[i] /\ l.curr = Before(f, i) /\ l.run < l.n /\ Counted(l, f, i)

ChainInv ==
  \E n \in Nat : \E f \in [0..n -> Link] :
    /\ ChainOf(f, n, freelist, word)
    /\ pc[Donor] \in {"walk_lock", "walk"} => \E i \in 0..n : Walked(loc[Donor], f, i)

Back == IF pc[Donor] \in {"free_lock", "free"}
        THEN Block(loc[Donor].mem, loc[Donor].n) ELSE {}
PlacesInv ==
  /\ own[Donor] \cap OnList = {} /\ own[Donor] \cap slack = {} /\ slack \cap OnList = {}
  /\ Back \cap OnList = {} /\ Back \cap own[Donor] = {} /\ Back \cap slack = {}
  /\ Page = OnList \cup own[Donor] \cup Back \cup cleared \cup slack

HeadInv == pc[Donor] \in {"page_lock", "page"} => freelist # NULL

OneInv == TypeInv /\ ChainInv /\ PlacesInv /\ HeadInv

-----------------------------------------------------------------------------
(***************************************************************************)
(* A chain is what the links say, and is no longer than there are pages.   *)
(***************************************************************************)
OnListOf(head, w) == {NthOf(head, w)[k] : k \in 0..Length} \ {NULL}

LEMMA ChainFits ==
  ASSUME NEW f, NEW n, NEW head, NEW w, ChainOf(f, n, head, w)
  PROVE  n \in 0..Length
<1>1. n \in Nat /\ f \in [0..n -> Link]
  BY DEF ChainOf
<1> DEFINE g == [i \in 0..n - 1 |-> f[i]]
<1>2. g \in [0..n - 1 -> Page] /\ \A i, j \in 0..n - 1 : g[i] = g[j] => i = j
  BY <1>1 DEF ChainOf, Link
<1>3. g \in Injection(0..n - 1, Page)
  <2> HIDE DEF g
  <2> QED BY <1>2, Fun_IsInj
<1>4. Cardinality(0..n - 1) <= Cardinality(Page)
  <2> HIDE DEF g
  <2> QED BY <1>3, PageAssumption, FS_Injection
<1>5. Cardinality(0..n - 1) = n
  BY <1>1, FS_Interval
<1> QED BY <1>1, <1>4, <1>5, LengthNat DEF Length

LEMMA ChainIsNth ==
  ASSUME NEW f, NEW n, NEW head \in Link, NEW w, w \in [Link -> Link],
         ChainOf(f, n, head, w)
  PROVE  \A k \in Nat : NthOf(head, w)[k] = IF k <= n THEN f[k] ELSE NULL
<1> DEFINE S == {k \in Nat : NthOf(head, w)[k] = IF k <= n THEN f[k] ELSE NULL}
<1>1. n \in Nat /\ f[0] = head /\ f[n] = NULL
      /\ \A i \in 0..n - 1 : f[i] # NULL /\ w[f[i]] = f[i + 1]
  BY DEF ChainOf
<1>2. 0 \in S
  BY <1>1, NthOfSteps
<1>3. ASSUME NEW k \in Nat, k \in S PROVE k + 1 \in S
  <2>1. NthOf(head, w)[k + 1]
          = IF NthOf(head, w)[k] = NULL THEN NULL ELSE w[NthOf(head, w)[k]]
    BY NthOfSteps
  <2>2. NthOf(head, w)[k] = IF k <= n THEN f[k] ELSE NULL
    BY <1>3
  <2>3. CASE k < n
    BY <2>1, <2>2, <2>3, <1>1
  <2>4. CASE k >= n
    <3>1. NthOf(head, w)[k] = NULL
      BY <2>2, <2>4, <1>1
    <3> QED BY <2>1, <2>4, <3>1, <1>1
  <2> QED BY <2>3, <2>4, <1>1
<1>4. Nat \subseteq S
  <2> HIDE DEF S
  <2> QED BY <1>2, <1>3, NatSetInduction
<1> QED BY <1>4

LEMMA ChainIsList ==
  ASSUME NEW f, NEW n, NEW head \in Link, NEW w, w \in [Link -> Link],
         ChainOf(f, n, head, w)
  PROVE  OnListOf(head, w) = Pages(f, n)
<1>1. \A k \in Nat : NthOf(head, w)[k] = IF k <= n THEN f[k] ELSE NULL
  BY ChainIsNth
<1>2. n \in 0..Length /\ Length \in Nat /\ n \in Nat
  BY ChainFits, LengthNat
<1>3. f[n] = NULL /\ \A i \in 0..n - 1 : f[i] # NULL
  BY DEF ChainOf
<1>4. ASSUME NEW p \in Pages(f, n) PROVE p \in OnListOf(head, w)
  <2>1. PICK i \in 0..n - 1 : p = f[i]
    BY DEF Pages
  <2>2. i \in 0..Length /\ p = NthOf(head, w)[i] /\ p # NULL
    BY <2>1, <1>1, <1>2, <1>3
  <2> QED BY <2>2 DEF OnListOf
<1>5. ASSUME NEW p \in OnListOf(head, w) PROVE p \in Pages(f, n)
  <2>1. PICK k \in 0..Length : p = NthOf(head, w)[k] /\ p # NULL
    BY DEF OnListOf
  <2>2. k \in 0..n - 1 /\ p = f[k]
    BY <2>1, <1>1, <1>2, <1>3
  <2> QED BY <2>2 DEF Pages
<1> QED BY <1>4, <1>5

LEMMA OnListIs ==
  /\ OnList = OnListOf(freelist, word)
  /\ OnList' = OnListOf(freelist', word')
<1>1. OnList = OnListOf(freelist, word)
  BY NthIsNthOf DEF OnList, OnListOf
<1>2. Nth' = NthOf(freelist', word')
  BY DEF Nth, NthOf
<1>3. OnList' = OnListOf(freelist', word')
  BY <1>2 DEF OnList, OnListOf, Length
<1> QED BY <1>1, <1>3

-----------------------------------------------------------------------------
(***************************************************************************)
(* What the operations do to a chain: a page outside of it is written, m   *)
(* pages from place a on are taken out, a block is put in front.           *)
(***************************************************************************)
LEMMA ChainUntouched ==
  ASSUME NEW f, NEW n, NEW head, NEW w, w \in [Link -> Link], ChainOf(f, n, head, w),
         NEW p, p \notin Pages(f, n), NEW d
  PROVE  ChainOf(f, n, head, [w EXCEPT ![p] = d])
<1>1. \A i \in 0..n - 1 : f[i] # p
  BY DEF Pages
<1>2. \A i \in 0..n - 1 : f[i] \in Link
  BY DEF ChainOf
<1>3. \A i \in 0..n - 1 : [w EXCEPT ![p] = d][f[i]] = w[f[i]]
  BY <1>1, <1>2
<1> QED BY <1>3 DEF ChainOf

CutWord(f, w, a, m) == IF a = 0 THEN w ELSE [w EXCEPT ![f[a - 1]] = f[a + m]]
CutHead(f, head, a, m) == IF a = 0 THEN f[m] ELSE head

CutChain(f, n, a, m) == [i \in 0..n - m |-> IF i < a THEN f[i] ELSE f[i + m]]
Stretch(f, a, m) == {f[i] : i \in a..a + m - 1}

LEMMA ChainCut ==
  ASSUME NEW f, NEW n, NEW head, NEW w, NEW a \in Nat, NEW m \in Nat,
         w \in [Link -> Link], ChainOf(f, n, head, w), a + m <= n
  PROVE  /\ ChainOf(CutChain(f, n, a, m), n - m, CutHead(f, head, a, m), CutWord(f, w, a, m))
         /\ Pages(CutChain(f, n, a, m), n - m) = Pages(f, n) \ Stretch(f, a, m)
<1> DEFINE e == CutChain(f, n, a, m)
<1>1. /\ n \in Nat /\ f \in [0..n -> Link] /\ f[0] = head /\ f[n] = NULL
      /\ \A i \in 0..n - 1 : f[i] # NULL /\ w[f[i]] = f[i + 1]
      /\ \A i, j \in 0..n - 1 : f[i] = f[j] => i = j
  BY DEF ChainOf
<1>2. n - m \in Nat /\ e \in [0..n - m -> Link]
  BY <1>1 DEF CutChain
<1>3. \A i \in 0..n - m : e[i] = IF i < a THEN f[i] ELSE f[i + m]
  BY DEF CutChain
<1> HIDE DEF e
<1>4. e[0] = CutHead(f, head, a, m)
  BY <1>1, <1>2, <1>3 DEF CutHead
<1>5. e[n - m] = NULL
  BY <1>1, <1>2, <1>3
<1>6. ASSUME NEW i \in 0..n - m - 1
      PROVE  e[i] # NULL /\ CutWord(f, w, a, m)[e[i]] = e[i + 1]
  <2>1. i \in 0..n - m /\ i + 1 \in 0..n - m
    BY <1>1
  <2>2. CASE a = 0
    <3>1. e[i] = f[i + m] /\ e[i + 1] = f[i + 1 + m] /\ i + m \in 0..n - 1
      BY <2>1, <2>2, <1>1, <1>3
    <3> QED BY <2>2, <3>1, <1>1 DEF CutWord
  <2>3. CASE a # 0 /\ i = a - 1
    <3>1. e[i] = f[a - 1] /\ e[i + 1] = f[a + m] /\ a - 1 \in 0..n - 1
      BY <2>1, <2>3, <1>1, <1>3
    <3>2. f[a - 1] \in Link
      BY <3>1, <1>1
    <3>3. [w EXCEPT ![f[a - 1]] = f[a + m]][f[a - 1]] = f[a + m]
      BY <3>2
    <3> QED BY <2>3, <3>1, <3>3, <1>1 DEF CutWord
  <2>4. CASE a # 0 /\ i < a - 1
    <3>1. e[i] = f[i] /\ e[i + 1] = f[i + 1] /\ i \in 0..n - 1 /\ a - 1 \in 0..n - 1
      BY <2>1, <2>4, <1>1, <1>3
    <3>2. f[i] # f[a - 1] /\ f[i] \in Link
      BY <2>4, <3>1, <1>1
    <3>3. [w EXCEPT ![f[a - 1]] = f[a + m]][f[i]] = w[f[i]]
      BY <3>2
    <3> QED BY <2>4, <3>1, <3>3, <1>1 DEF CutWord
  <2>5. CASE a # 0 /\ i >= a
    <3>1. e[i] = f[i + m] /\ e[i + 1] = f[i + m + 1] /\ i + m \in 0..n - 1 /\ a - 1 \in 0..n - 1
      BY <2>1, <2>5, <1>1, <1>3
    <3>2. f[i + m] # f[a - 1] /\ f[i + m] \in Link
      BY <2>5, <3>1, <1>1
    <3>3. [w EXCEPT ![f[a - 1]] = f[a + m]][f[i + m]] = w[f[i + m]]
      BY <3>2
    <3> QED BY <2>5, <3>1, <3>3, <1>1 DEF CutWord
  <2> QED BY <2>1, <2>2, <2>3, <2>4, <2>5
<1>7. ASSUME NEW i \in 0..n - m - 1, NEW j \in 0..n - m - 1, e[i] = e[j] PROVE i = j
  <2> DEFINE at(k) == IF k < a THEN k ELSE k + m
  <2>1. e[i] = f[at(i)] /\ e[j] = f[at(j)] /\ at(i) \in 0..n - 1 /\ at(j) \in 0..n - 1
    BY <1>1, <1>3
  <2>2. at(i) = at(j)
    BY <2>1, <1>1, <1>7
  <2> QED BY <2>2
<1>8. ChainOf(e, n - m, CutHead(f, head, a, m), CutWord(f, w, a, m))
  BY <1>2, <1>4, <1>5, <1>6, <1>7 DEF ChainOf
<1>9. ASSUME NEW p \in Pages(e, n - m)
      PROVE  p \in Pages(f, n) \ {f[i] : i \in a..a + m - 1}
  <2>1. PICK i \in 0..n - m - 1 : p = e[i]
    BY DEF Pages
  <2>2. PICK k \in 0..n - 1 : p = f[k] /\ k \notin a..a + m - 1
    <3>1. CASE i < a
      BY <2>1, <3>1, <1>1, <1>3
    <3>2. CASE i >= a
      <4>1. i + m \in 0..n - 1 /\ p = f[i + m] /\ i + m \notin a..a + m - 1
        BY <2>1, <3>2, <1>1, <1>3
      <4> QED BY <4>1
    <3> QED BY <3>1, <3>2
  <2>3. \A i_1 \in a..a + m - 1 : f[i_1] # p
    BY <2>2, <1>1
  <2> QED BY <2>2, <2>3 DEF Pages
<1>10. ASSUME NEW p \in Pages(f, n), p \notin {f[i] : i \in a..a + m - 1}
       PROVE  p \in Pages(e, n - m)
  <2>1. PICK k \in 0..n - 1 : p = f[k] /\ k \notin a..a + m - 1
    BY <1>10 DEF Pages
  <2>2. CASE k < a
    <3>1. k \in 0..n - m - 1 /\ p = e[k]
      BY <2>1, <2>2, <1>1, <1>3
    <3> QED BY <3>1 DEF Pages
  <2>3. CASE k >= a + m
    <3>1. k - m \in 0..n - m - 1 /\ ~(k - m < a) /\ (k - m) + m = k
      BY <2>1, <2>3, <1>1
    <3>2. p = e[k - m]
      BY <2>1, <3>1, <1>1, <1>3
    <3> QED BY <3>1, <3>2 DEF Pages
  <2> QED BY <2>1, <2>2, <2>3, <1>1
<1>11. Pages(e, n - m) = Pages(f, n) \ {f[i] : i \in a..a + m - 1}
  BY <1>9, <1>10
<1> QED BY <1>8, <1>11 DEF e, Stretch

ThreadedWord(w, mem, m, last) ==
  [p \in DOMAIN w |-> IF p \in Block(mem, m)
                      THEN IF p = mem + m - 1 THEN last ELSE p + 1
                      ELSE w[p]]

LEMMA ChainGrown ==
  ASSUME NEW f, NEW n, NEW head, NEW w, w \in [Link -> Link], ChainOf(f, n, head, w),
         NEW mem \in Nat, NEW m \in Nat \ {0}, Block(mem, m) \subseteq Page,
         Block(mem, m) \cap Pages(f, n) = {}
  PROVE  LET e == [i \in 0..n + m |-> IF i < m THEN mem + i ELSE f[i - m]]
         IN  /\ ChainOf(e, n + m, mem, ThreadedWord(w, mem, m, head))
             /\ Pages(e, n + m) = Pages(f, n) \cup Block(mem, m)
<1> DEFINE e == [i \in 0..n + m |-> IF i < m THEN mem + i ELSE f[i - m]]
<1>1. /\ n \in Nat /\ m \in Nat /\ m > 0
      /\ f \in [0..n -> Link] /\ f[0] = head /\ f[n] = NULL
      /\ \A i \in 0..n - 1 : f[i] # NULL /\ w[f[i]] = f[i + 1]
      /\ \A i, j \in 0..n - 1 : f[i] = f[j] => i = j
  BY DEF ChainOf
<1>2. \A i \in 0..m - 1 : mem + i \in Block(mem, m) /\ mem + i \in Page /\ mem + i # NULL
  <2>1. \A i \in 0..m - 1 : mem + i \in Block(mem, m)
    BY DEF Block
  <2> QED BY <2>1, PageAssumption
<1>3. \A i \in 0..n + m : e[i] = IF i < m THEN mem + i ELSE f[i - m]
  OBVIOUS
<1>4. n + m \in Nat /\ e \in [0..n + m -> Link]
  <2>1. ASSUME NEW i \in 0..n + m PROVE (IF i < m THEN mem + i ELSE f[i - m]) \in Link
    <3>1. CASE i < m
      <4>1. i \in 0..m - 1
        BY ONLY <3>1, <1>1, i \in 0..n + m
      <4>2. mem + i \in Page
        BY <4>1, <1>2
      <4> QED BY ONLY <3>1, <4>2 DEF Link
    <3>2. CASE ~(i < m)
      <4>1. i - m \in 0..n
        BY <3>2, <1>1
      <4> QED BY <4>1, <3>2, <1>1
    <3> QED BY <3>1, <3>2, <1>1
  <2>2. n + m \in Nat
    BY <1>1
  <2> QED BY <2>1, <2>2
<1> HIDE DEF e
<1>5. e[0] = mem /\ e[n + m] = NULL
  BY <1>1, <1>3
<1>6. ASSUME NEW i \in 0..n + m - 1
      PROVE  e[i] # NULL /\ ThreadedWord(w, mem, m, head)[e[i]] = e[i + 1]
  <2>1. i \in 0..n + m /\ i + 1 \in 0..n + m
    BY <1>1
  <2>2. CASE i < m
    <3>1. e[i] = mem + i /\ mem + i \in Block(mem, m) /\ mem + i \in Page /\ mem + i # NULL
      BY <2>1, <2>2, <1>2, <1>3
    <3>2. ThreadedWord(w, mem, m, head)[mem + i]
            = IF mem + i = mem + m - 1 THEN head ELSE mem + i + 1
      BY <3>1 DEF ThreadedWord, Link
    <3>3. CASE i = m - 1
      <4>1. e[i + 1] = head
        BY <2>1, <3>3, <1>1, <1>3
      <4> QED BY <3>1, <3>2, <3>3, <4>1
    <3>4. CASE i # m - 1
      <4>1. e[i + 1] = mem + (i + 1)
        BY <2>1, <2>2, <3>4, <1>1, <1>3
      <4> QED BY <3>1, <3>2, <3>4, <4>1
    <3> QED BY <3>3, <3>4
  <2>3. CASE i >= m
    <3>1. i - m \in 0..n - 1 /\ e[i] = f[i - m] /\ e[i + 1] = f[(i - m) + 1]
      BY <2>1, <2>3, <1>1, <1>3
    <3>2. f[i - m] \notin Block(mem, m)
      BY <3>1 DEF Pages
    <3>3. f[i - m] \in Link /\ f[i - m] # NULL /\ w[f[i - m]] = f[(i - m) + 1]
      BY <3>1, <1>1
    <3>4. ThreadedWord(w, mem, m, head)[f[i - m]] = w[f[i - m]]
      BY <3>2, <3>3 DEF ThreadedWord
    <3> QED BY <3>1, <3>3, <3>4
  <2> QED BY <2>1, <2>2, <2>3, <1>1
<1>7. ASSUME NEW i \in 0..n + m - 1, NEW j \in 0..n + m - 1, e[i] = e[j] PROVE i = j
  <2>1. ASSUME NEW k \in 0..n + m - 1
        PROVE  \/ k < m /\ e[k] = mem + k /\ e[k] \in Block(mem, m)
               \/ k >= m /\ k - m \in 0..n - 1 /\ e[k] = f[k - m] /\ e[k] \notin Block(mem, m)
    <3>1. CASE k < m
      BY <3>1, <1>1, <1>2, <1>3
    <3>2. CASE k >= m
      <4>1. k - m \in 0..n - 1 /\ k \in 0..n + m /\ ~(k < m)
        BY <3>2, <1>1
      <4>2. e[k] = f[k - m]
        BY <4>1, <1>3
      <4>3. f[k - m] \in Pages(f, n)
        BY <4>1 DEF Pages
      <4> QED BY <3>2, <4>1, <4>2, <4>3
    <3> QED BY <3>1, <3>2, <1>1
  <2>2. CASE e[i] \in Block(mem, m)
    BY <2>1, <2>2, <1>7
  <2>3. CASE e[i] \notin Block(mem, m)
    <3>1. i - m \in 0..n - 1 /\ j - m \in 0..n - 1 /\ f[i - m] = f[j - m]
      BY <2>1, <2>3, <1>7
    <3>2. i - m = j - m
      BY <3>1, <1>1
    <3> QED BY <3>2, <1>1
  <2> QED BY <2>2, <2>3
<1>8. ChainOf(e, n + m, mem, ThreadedWord(w, mem, m, head))
  BY <1>4, <1>5, <1>6, <1>7 DEF ChainOf
<1>9. ASSUME NEW p \in Pages(e, n + m) PROVE p \in Pages(f, n) \cup Block(mem, m)
  <2>1. PICK i \in 0..n + m - 1 : p = e[i]
    BY <1>1 DEF Pages
  <2>2. CASE i < m
    BY <2>1, <2>2, <1>1, <1>2, <1>3
  <2>3. CASE i >= m
    <3>1. i \in 0..n + m /\ ~(i < m) /\ i - m \in 0..n - 1
      BY <2>3, <1>1
    <3>2. p = f[i - m]
      BY <2>1, <3>1, <1>3
    <3> QED BY <3>1, <3>2 DEF Pages
  <2> QED BY <2>1, <2>2, <2>3, <1>1
<1>10. ASSUME NEW p \in Pages(f, n) PROVE p \in Pages(e, n + m)
  <2>1. PICK i \in 0..n - 1 : p = f[i]
    BY DEF Pages
  <2>2. i + m \in 0..n + m - 1 /\ ~(i + m < m) /\ (i + m) - m = i
    BY <1>1
  <2>3. p = e[i + m]
    BY <2>1, <2>2, <1>1, <1>3
  <2> QED BY <2>2, <2>3, <1>1 DEF Pages
<1>11. ASSUME NEW p \in Block(mem, m) PROVE p \in Pages(e, n + m)
  <2>1. p - mem \in 0..n + m - 1 /\ p - mem < m /\ p = mem + (p - mem)
    BY <1>1 DEF Block
  <2>2. p = e[p - mem]
    BY <2>1, <1>1, <1>3
  <2> QED BY <2>1, <2>2, <1>1 DEF Pages
<1> QED BY <1>8, <1>9, <1>10, <1>11 DEF e

-----------------------------------------------------------------------------
(***************************************************************************)
(* The invariant of one client.                                            *)
(***************************************************************************)
LEMMA ListNow ==
  ASSUME TypeInv, NEW f, NEW n, ChainOf(f, n, freelist, word)
  PROVE  OnList = Pages(f, n)
<1>1. freelist \in Link /\ word \in [Link -> Link]
  BY DEF TypeInv, VarsTyped
<1> QED BY <1>1, OnListIs, ChainIsList

LEMMA ListNext ==
  ASSUME TypeInv', NEW f, NEW n, ChainOf(f, n, freelist', word')
  PROVE  OnList' = Pages(f, n)
<1>1. freelist' \in Link /\ word' \in [Link -> Link]
  BY DEF TypeInv, VarsTyped, Link
<1>2. PICK head, w : head = freelist' /\ w = word'
  OBVIOUS
<1>3. OnListOf(head, w) = Pages(f, n)
  BY <1>1, <1>2, ChainIsList
<1> QED BY <1>2, <1>3, OnListIs

LEMMA OneInit == Init => ChainInv /\ PlacesInv /\ HeadInv
<1> SUFFICES ASSUME Init PROVE ChainInv /\ PlacesInv /\ HeadInv
  OBVIOUS
<1>1. TypeInv
  BY TypeInit
<1> DEFINE f == [i \in 0..1 |-> IF i = 0 THEN FirstPage ELSE NULL]
<1>2. FirstPage \in Page /\ FirstPage # NULL /\ freelist = FirstPage /\ word[FirstPage] = NULL
  BY PageAssumption DEF Init
<1>3. ChainOf(f, 1, freelist, word)
  <2>1. f \in [0..1 -> Link] /\ f[0] = FirstPage /\ f[1] = NULL
    BY <1>2 DEF Link
  <2>2. \A i \in 0..1 - 1 : i = 0
    OBVIOUS
  <2> HIDE DEF f
  <2> QED BY <1>2, <2>1, <2>2 DEF ChainOf
<1>4. pc[Donor] = "idle" /\ slack = {} /\ cleared = {} /\ own[Donor] = Page \ {FirstPage}
  BY ClientAssumption DEF Init
<1>5. OnList = {FirstPage}
  <2>1. OnList = Pages(f, 1)
    <3> HIDE DEF f
    <3> QED BY <1>1, <1>3, ListNow
  <2>2. f[0] = FirstPage /\ 0..1 - 1 = {0}
    OBVIOUS
  <2> HIDE DEF f
  <2> QED BY <2>1, <2>2 DEF Pages
<1>6. ChainInv
  <2>1. f \in [0..1 -> Link]
    BY <1>3 DEF ChainOf
  <2> HIDE DEF f
  <2> QED BY <1>3, <1>4, <2>1 DEF ChainInv
<1>7. PlacesInv /\ HeadInv
  BY <1>2, <1>4, <1>5 DEF PlacesInv, Back, HeadInv
<1> QED BY <1>6, <1>7

(***************************************************************************)
(* The chain after a step in or to a place that is not the walk.           *)
(***************************************************************************)
LEMMA ChainKept ==
  ASSUME NEW f, NEW n, ChainOf(f, n, freelist', word'),
         pc'[Donor] \notin {"walk_lock", "walk"}
  PROVE  ChainInv'
<1>1. n \in Nat /\ f \in [0..n -> Link]
  BY DEF ChainOf
<1>2. ChainOf(f, n, freelist, word)'
  BY DEF ChainOf, Link
<1> QED BY <1>1, <1>2 DEF ChainInv, Link

LEMMA OneUse ==
  ASSUME OneInv, TypeInv', Use(Donor)
  PROVE  ChainInv' /\ PlacesInv' /\ HeadInv'
<1>1. PICK p \in own[Donor], d \in Data :
        /\ pc[Donor] = "idle" /\ word' = [word EXCEPT ![p] = d]
        /\ UNCHANGED <<freelist, lock, pc, loc, own, cleared, slack, calls>>
  BY DEF Use
<1>2. PICK n \in Nat : \E f \in [0..n -> Link] : ChainOf(f, n, freelist, word)
  BY DEF OneInv, ChainInv
<1>3. PICK f \in [0..n -> Link] : ChainOf(f, n, freelist, word)
  BY <1>2
<1>4. OnList = Pages(f, n)
  BY <1>3, ListNow DEF OneInv
<1>5. p \notin Pages(f, n)
  BY <1>4 DEF OneInv, PlacesInv
<1>6. ChainOf(f, n, freelist', word')
  <2>1. PICK w : w = word /\ w \in [Link -> Link]
    BY DEF OneInv, TypeInv, VarsTyped
  <2>2. PICK head : head = freelist
    OBVIOUS
  <2>3. ChainOf(f, n, head, [w EXCEPT ![p] = d])
    <3>1. ChainOf(f, n, head, w)
      BY <1>3, <2>1, <2>2
    <3>2. PICK q : q = p
      OBVIOUS
    <3> QED BY <3>1, <3>2, <2>1, <1>5, ChainUntouched
  <2> QED BY <1>1, <2>1, <2>2, <2>3
<1>7. OnList' = OnList
  BY <1>4, <1>6, ListNext
<1>8. Back' = Back
  BY <1>1 DEF Back
<1>9. PlacesInv' /\ HeadInv'
  BY <1>1, <1>7, <1>8 DEF OneInv, PlacesInv, HeadInv
<1> QED BY <1>1, <1>6, <1>9, ChainKept

LEMMA ListSame ==
  ASSUME UNCHANGED <<freelist, word>>
  PROVE  OnList' = OnList
BY OnListIs

(***************************************************************************)
(* A call that does not touch the list, and is no walk.                    *)
(***************************************************************************)
LEMMA ChainSame ==
  ASSUME OneInv, UNCHANGED <<freelist, word>>, pc'[Donor] \notin {"walk_lock", "walk"}
  PROVE  ChainInv'
<1>1. PICK n \in Nat : \E f \in [0..n -> Link] : ChainOf(f, n, freelist, word)
  BY DEF OneInv, ChainInv
<1>2. PICK f \in [0..n -> Link] : ChainOf(f, n, freelist, word)
  BY <1>1
<1>3. ChainOf(f, n, freelist', word')
  BY <1>2
<1> QED BY <1>3, ChainKept

LEMMA OneAllocPage ==
  ASSUME OneInv, TypeInv', alloc_page(Donor)
  PROVE  ChainInv' /\ PlacesInv' /\ HeadInv'
<1>1. /\ Call(Donor, IF freelist = NULL THEN "idle" ELSE "page_lock")
      /\ UNCHANGED <<freelist, word, lock, loc, own, cleared, slack>>
  BY DEF alloc_page
<1>2. pc[Donor] = "idle" /\ pc'[Donor] = IF freelist = NULL THEN "idle" ELSE "page_lock"
  BY <1>1, CallTyped, ClientAssumption DEF OneInv, Places
<1>3. OnList' = OnList
  BY <1>1, ListSame
<1>4. Back' = Back
  BY <1>1, <1>2 DEF Back
<1>5. PlacesInv' /\ HeadInv'
  BY <1>1, <1>2, <1>3, <1>4 DEF OneInv, PlacesInv, HeadInv
<1> QED BY <1>1, <1>2, <1>5, ChainSame

LEMMA OneMemalign ==
  ASSUME OneInv, TypeInv', page_memalign(Donor)
  PROVE  ChainInv' /\ PlacesInv' /\ HeadInv'
<1>1. PICK n \in Sizes :
        IF n = 0
        THEN /\ Call(Donor, "idle")
             /\ UNCHANGED <<freelist, word, lock, loc, own, cleared, slack>>
        ELSE alloc_pages(Donor, IF is_power_of_2(n) THEN fls(n) ELSE fls(n) + 1, n)
  BY DEF page_memalign
<1>2. UNCHANGED <<freelist, word, own, cleared, slack>>
  BY <1>1 DEF alloc_pages
<1>3. PICK place \in {"idle", "walk_lock"} : Call(Donor, place) /\ (n = 0 <=> place = "idle")
  BY <1>1 DEF alloc_pages
<1>4. pc[Donor] = "idle" /\ pc'[Donor] = place
  BY <1>3, CallTyped, ClientAssumption DEF OneInv, Places
<1>5. OnList' = OnList /\ Back' = Back
  BY <1>2, <1>4, ListSame DEF Back
<1>6. PlacesInv' /\ HeadInv'
  BY <1>2, <1>4, <1>5 DEF OneInv, PlacesInv, HeadInv
<1>7. CASE n = 0
  BY <1>2, <1>3, <1>4, <1>6, <1>7, ChainSame
<1>8. CASE n # 0
  <2> DEFINE order == IF is_power_of_2(n) THEN fls(n) ELSE fls(n) + 1
             l == [NoLocals EXCEPT !.n = 2 ^ order, !.asked = n, !.next = freelist]
  <2>1. loc' = [loc EXCEPT ![Donor] = l]
    BY <1>1, <1>8 DEF alloc_pages
  <2>2. l.next = freelist /\ l.curr = NULL /\ l.run = 0
    BY WalkLocals
  <2>3. loc'[Donor] = l
    BY <2>1, ClientAssumption DEF OneInv, TypeInv, VarsTyped
  <2> HIDE DEF l
  <2>4. l.n \in Nat \ {0}
    BY <2>3, ClientAssumption DEF TypeInv, VarsTyped, Locals
  <2>5. PICK m \in Nat : \E f \in [0..m -> Link] : ChainOf(f, m, freelist, word)
    BY DEF OneInv, ChainInv
  <2>6. PICK f \in [0..m -> Link] : ChainOf(f, m, freelist, word)
    BY <2>5
  <2>7. Walked(l, f, 0)
    BY <2>2, <2>4, <2>6 DEF Walked, Counted, Before, ChainOf
  <2>8. ChainOf(f, m, freelist', word') /\ Walked(loc'[Donor], f, 0) /\ 0 \in 0..m
    BY <1>2, <2>3, <2>6, <2>7
  <2>9. ChainInv'
    BY <2>8 DEF ChainInv, ChainOf, Walked, Counted, Before, Link
  <2> QED BY <1>6, <2>9
<1> QED BY <1>7, <1>8

LEMMA OneGiveBack ==
  ASSUME OneInv, TypeInv', NEW n \in Nat \ {0}, NEW mem \in own[Donor],
         GiveBack(Donor, mem, n, "free_lock")
  PROVE  ChainInv' /\ PlacesInv' /\ HeadInv'
<1> DEFINE l == [NoLocals EXCEPT !.mem = mem, !.n = n]
<1>1. /\ Block(mem, n) \subseteq own[Donor] /\ Call(Donor, "free_lock")
      /\ own' = [own EXCEPT ![Donor] = @ \ Block(mem, n)]
      /\ loc' = [loc EXCEPT ![Donor] = l]
      /\ UNCHANGED <<freelist, word, lock, cleared, slack>>
  BY DEF GiveBack
<1>2. pc[Donor] = "idle" /\ pc'[Donor] = "free_lock"
  BY <1>1, CallTyped, ClientAssumption DEF OneInv, Places
<1>3. l.mem = mem /\ l.n = n
  BY FreeLocals
<1>4. loc'[Donor] = l /\ own'[Donor] = own[Donor] \ Block(mem, n)
  BY <1>1, ClientAssumption DEF OneInv, TypeInv, VarsTyped
<1> HIDE DEF l
<1>5. Back = {} /\ Back' = Block(mem, n)
  BY <1>2, <1>3, <1>4 DEF Back
<1>6. OnList' = OnList
  BY <1>1, ListSame
<1>7. PlacesInv' /\ HeadInv'
  BY <1>1, <1>2, <1>4, <1>5, <1>6 DEF OneInv, PlacesInv, HeadInv
<1> QED BY <1>1, <1>2, <1>7, ChainSame

LEMMA OneFreeNone ==
  ASSUME OneInv, TypeInv', free_pages_none(Donor)
  PROVE  ChainInv' /\ PlacesInv' /\ HeadInv'
<1>1. /\ Call(Donor, "idle") /\ freelist' = NULL /\ cleared' = cleared \cup OnList
      /\ UNCHANGED <<word, lock, loc, own, slack>>
  BY DEF free_pages_none
<1>2. pc[Donor] = "idle" /\ pc'[Donor] = "idle"
  BY <1>1, CallTyped, ClientAssumption DEF OneInv, Places
<1> DEFINE f == [i \in 0..0 |-> NULL]
<1>3. ChainOf(f, 0, freelist', word')
  <2>1. f \in [0..0 -> Link] /\ f[0] = NULL /\ 0..0 - 1 = {}
    BY DEF Link
  <2> HIDE DEF f
  <2> QED BY <1>1, <2>1 DEF ChainOf
<1>4. OnList' = {}
  <2> HIDE DEF f
  <2>1. OnList' = Pages(f, 0)
    BY <1>3, ListNext
  <2> QED BY <2>1 DEF Pages
<1>5. Back = {} /\ Back' = {}
  BY <1>2 DEF Back
<1>6. PlacesInv' /\ HeadInv'
  BY <1>1, <1>2, <1>4, <1>5 DEF OneInv, PlacesInv, HeadInv
<1>7. ChainInv'
  <2> HIDE DEF f
  <2> QED BY <1>2, <1>3, ChainKept
<1> QED BY <1>6, <1>7

LEMMA OneLocks ==
  ASSUME OneInv, TypeInv', Locks(Donor)
  PROVE  ChainInv' /\ PlacesInv' /\ HeadInv'
<1>1. PICK pair \in {<<"page_lock", "page">>, <<"walk_lock", "walk">>, <<"free_lock", "free">>} :
        Acquire(Donor, pair[1], pair[2])
  BY DEF Locks
<1>2. /\ pc[Donor] = pair[1] /\ pc' = [pc EXCEPT ![Donor] = pair[2]]
      /\ UNCHANGED <<freelist, word, loc, own, cleared, slack>>
  BY <1>1 DEF Acquire, Goto
<1>3. pc'[Donor] = pair[2]
  BY <1>2, ClientAssumption DEF OneInv, TypeInv, VarsTyped
<1>4. OnList' = OnList
  BY <1>2, ListSame
<1>5. Back' = Back
  BY <1>2, <1>3 DEF Back
<1>6. PlacesInv' /\ HeadInv'
  BY <1>2, <1>3, <1>4, <1>5 DEF OneInv, PlacesInv, HeadInv
<1>7. ChainInv'
  <2>1. CASE pair[1] # "walk_lock"
    <3>1. pc'[Donor] \notin {"walk_lock", "walk"}
      BY <1>3, <2>1
    <3> QED BY <1>2, <3>1, ChainSame
  <2>2. CASE pair[1] = "walk_lock"
    <3>1. PICK n, f :
            ChainOf(f, n, freelist, word) /\ \E i \in 0..n : Walked(loc[Donor], f, i)
      BY <1>2, <2>2 DEF OneInv, ChainInv
    <3>2. PICK i \in 0..n : Walked(loc[Donor], f, i)
      BY <3>1
    <3>3. ChainOf(f, n, freelist', word') /\ Walked(loc'[Donor], f, i)
      BY <1>2, <3>1, <3>2
    <3> QED BY <3>3 DEF ChainInv, ChainOf, Walked, Counted, Before, Link
  <2> QED BY <2>1, <2>2
<1> QED BY <1>6, <1>7

LEMMA OneTakeHead ==
  ASSUME OneInv, TypeInv', TakeHead(Donor)
  PROVE  ChainInv' /\ PlacesInv' /\ HeadInv'
<1>1. /\ pc[Donor] = "page" /\ freelist' = word[freelist]
      /\ own' = [own EXCEPT ![Donor] = @ \cup ({freelist} \ {NULL})]
      /\ Return(Donor) /\ UNCHANGED <<word, cleared, slack, calls>>
  BY DEF TakeHead
<1>2. pc'[Donor] = "idle"
  BY <1>1, HomeTyped, ClientAssumption DEF OneInv
<1>3. freelist # NULL
  BY <1>1 DEF OneInv, HeadInv
<1>4. own'[Donor] = own[Donor] \cup {freelist}
  BY <1>1, <1>3, ClientAssumption DEF OneInv, TypeInv, VarsTyped
<1>5. PICK n, f : ChainOf(f, n, freelist, word)
  BY DEF OneInv, ChainInv
<1>6. n \in Nat /\ n # 0 /\ f[0] = freelist /\ word[freelist] = f[1]
  BY <1>3, <1>5 DEF ChainOf
<1>7. PICK head, w : head = freelist /\ w = word /\ w \in [Link -> Link]
  BY DEF OneInv, TypeInv, VarsTyped
<1> DEFINE e == CutChain(f, n, 0, 1)
<1>8. /\ ChainOf(e, n - 1, CutHead(f, head, 0, 1), CutWord(f, w, 0, 1))
      /\ Pages(e, n - 1) = Pages(f, n) \ Stretch(f, 0, 1)
  <2>1. ChainOf(f, n, head, w) /\ 0 + 1 <= n /\ 0 \in Nat /\ 1 \in Nat
    BY <1>5, <1>6, <1>7
  <2> QED BY <2>1, <1>7, ChainCut
<1> HIDE DEF e
<1>9. ChainOf(e, n - 1, freelist', word')
  BY <1>1, <1>6, <1>7, <1>8 DEF CutHead, CutWord
<1>10. Stretch(f, 0, 1) = {freelist}
  <2>1. 0..0 + 1 - 1 = {0}
    OBVIOUS
  <2> QED BY <2>1, <1>6 DEF Stretch
<1>11. OnList = Pages(f, n)
  BY <1>5, ListNow DEF OneInv
<1>12. OnList' = OnList \ {freelist}
  BY <1>8, <1>9, <1>10, <1>11, ListNext
<1>13. freelist \in OnList
  <2>1. 0 \in 0..n - 1
    BY <1>6
  <2> QED BY <1>6, <1>11, <2>1 DEF Pages
<1>14. Back = {} /\ Back' = {}
  BY <1>1, <1>2 DEF Back
<1>15. PlacesInv' /\ HeadInv'
  BY <1>1, <1>2, <1>4, <1>12, <1>13, <1>14 DEF OneInv, PlacesInv, HeadInv
<1> QED BY <1>2, <1>9, <1>15, ChainKept

LEMMA OneWalkEnds ==
  ASSUME OneInv, TypeInv', WalkEnds(Donor)
  PROVE  ChainInv' /\ PlacesInv' /\ HeadInv'
<1>1. pc[Donor] = "walk" /\ Return(Donor) /\ UNCHANGED <<freelist, word, own, cleared, slack, calls>>
  BY DEF WalkEnds
<1>2. pc'[Donor] = "idle"
  BY <1>1, HomeTyped, ClientAssumption DEF OneInv
<1>3. OnList' = OnList /\ Back = {} /\ Back' = {}
  BY <1>1, <1>2, ListSame DEF Back
<1>4. PlacesInv' /\ HeadInv'
  BY <1>1, <1>2, <1>3 DEF OneInv, PlacesInv, HeadInv
<1> QED BY <1>1, <1>2, <1>4, ChainSame

LEMMA OnePutBack ==
  ASSUME OneInv, TypeInv', PutBack(Donor)
  PROVE  ChainInv' /\ PlacesInv' /\ HeadInv'
<1>1. PICK mem, m : mem = loc[Donor].mem /\ m = loc[Donor].n
  OBVIOUS
<1>2. /\ pc[Donor] = "free" /\ word' = Threaded(mem, m, freelist) /\ freelist' = mem
      /\ Return(Donor) /\ UNCHANGED <<own, cleared, slack, calls>>
  BY <1>1 DEF PutBack
<1>3. m \in Nat \ {0} /\ mem \in Nat /\ Block(mem, m) \subseteq Page
  BY <1>1, <1>2, PageAssumption, ClientAssumption
     DEF OneInv, TypeInv, VarsTyped, LocalsOK, Locals
<1>4. pc'[Donor] = "idle"
  BY <1>2, HomeTyped, ClientAssumption DEF OneInv
<1>5. Back = Block(mem, m) /\ Back' = {}
  BY <1>1, <1>2, <1>4 DEF Back
<1>6. PICK n, f : ChainOf(f, n, freelist, word)
  BY DEF OneInv, ChainInv
<1>7. OnList = Pages(f, n)
  BY <1>6, ListNow DEF OneInv
<1>8. PICK head, w : head = freelist /\ w = word /\ w \in [Link -> Link]
  BY DEF OneInv, TypeInv, VarsTyped
<1> DEFINE e == [i \in 0..n + m |-> IF i < m THEN mem + i ELSE f[i - m]]
<1>9. /\ ChainOf(e, n + m, mem, ThreadedWord(w, mem, m, head))
      /\ Pages(e, n + m) = Pages(f, n) \cup Block(mem, m)
  <2>1. ChainOf(f, n, head, w)
    BY <1>6, <1>8
  <2>2. Block(mem, m) \cap Pages(f, n) = {}
    BY <1>5, <1>7 DEF OneInv, PlacesInv
  <2> QED BY <2>1, <2>2, <1>3, <1>8, ChainGrown
<1>10. ChainOf(e, n + m, freelist', word')
  <2>1. word' = ThreadedWord(w, mem, m, head)
    BY <1>2, <1>8 DEF Threaded, ThreadedWord
  <2> HIDE DEF e
  <2> QED BY <1>2, <1>9, <2>1
<1> HIDE DEF e
<1>11. OnList' = OnList \cup Back
  BY <1>5, <1>7, <1>9, <1>10, ListNext
<1>12. PlacesInv' /\ HeadInv'
  BY <1>2, <1>4, <1>5, <1>11 DEF OneInv, PlacesInv, HeadInv
<1> QED BY <1>4, <1>10, <1>12, ChainKept

(***************************************************************************)
(* What one pass of the walk finds.                                        *)
(***************************************************************************)
LEMMA ExtendedCounted ==
  ASSUME NEW l \in Locals, RunOK(l), NEW f, NEW i \in Nat, l.run < l.n,
         l.curr = Before(f, i), Counted(l, f, i), NEW pa \in Page, pa = f[i]
  PROVE  Counted(Extended(l, pa), f, i + 1) /\ Extended(l, pa).run <= l.n
<1>0. PICK e : e = Extended(l, pa)
  OBVIOUS
<1>1. /\ l.n \in Nat \ {0} /\ l.run \in Nat /\ l.run <= i /\ pa \in Nat
      /\ l.run > 0 => l.run_prev = Before(f, i - l.run)
      /\ \A j \in 0..l.run - 1 : f[i - l.run + j] = l.run_start + j
  BY PageAssumption DEF Locals, Counted
<1>2. CASE l.run = 0 /\ pa % l.n = 0
  <2>1. e = [l EXCEPT !.run = 1, !.run_start = pa, !.run_prev = l.curr, !.run_next_pa = pa + 1]
    BY <1>0, <1>2 DEF Extended
  <2>2. e.run = 1 /\ e.run_start = pa /\ e.run_prev = Before(f, i)
    BY <2>1 DEF Locals
  <2>3. \A j \in 0..e.run - 1 : f[i + 1 - e.run + j] = e.run_start + j
    <3>1. \A j \in 0..1 - 1 : j = 0
      OBVIOUS
    <3>2. f[i + 1 - 1 + 0] = pa + 0
      BY <1>1
    <3> QED BY <2>2, <3>1, <3>2
  <2>4. e.run <= i + 1 /\ e.run <= l.n /\ i + 1 - e.run = i
    BY <1>1, <2>2
  <2> QED BY <2>2, <2>3, <2>4, <1>0 DEF Counted
<1>3. CASE l.run = 0 /\ pa % l.n # 0
  BY <1>1, <1>3 DEF Extended, Counted
<1>4. CASE l.run # 0 /\ pa = l.run_next_pa
  <2>1. e = [l EXCEPT !.run = @ + 1, !.run_next_pa = @ + 1]
    BY <1>0, <1>4 DEF Extended
  <2>2. e.run = l.run + 1 /\ e.run_start = l.run_start /\ e.run_prev = l.run_prev
    BY <2>1 DEF Locals
  <2>3. l.run_start \in Nat /\ pa = l.run_start + l.run
    <3>1. l.run_start \in Page /\ l.run_next_pa = l.run_start + l.run
      BY <1>1, <1>4 DEF RunOK
    <3> QED BY <3>1, <1>4, PageAssumption
  <2>4. i + 1 - e.run = i - l.run /\ l.run > 0
    BY <1>1, <1>4, <2>2
  <2>5. ASSUME NEW j \in 0..e.run - 1 PROVE f[i + 1 - e.run + j] = e.run_start + j
    <3>1. CASE j < l.run
      BY <3>1, <1>1, <2>2, <2>4
    <3>2. CASE j = l.run
      <4>1. i + 1 - e.run + j = i
        BY <3>2, <1>1, <2>2
      <4> QED BY <3>2, <4>1, <2>2, <2>3
    <3> QED BY <3>1, <3>2, <1>1, <2>2
  <2>6. e.run <= i + 1 /\ e.run <= l.n /\ e.run_prev = Before(f, i + 1 - e.run)
    BY <1>1, <2>2, <2>4
  <2>7. Counted(e, f, i + 1)
    <3>1. \A j \in 0..l.run : f[i - l.run + j] = l.run_start + j
      BY <2>2, <2>4, <2>5, <1>1
    <3> QED BY <2>2, <2>4, <2>6, <3>1, <1>1 DEF Counted
  <2> QED BY <2>6, <2>7, <1>0
<1>5. CASE l.run # 0 /\ pa # l.run_next_pa
  <2>1. e = [l EXCEPT !.run = 0]
    BY <1>0, <1>5 DEF Extended
  <2>2. e.run = 0 /\ 0..0 - 1 = {}
    BY <2>1 DEF Locals
  <2>3. e.run <= i + 1 /\ e.run <= l.n /\ ~(e.run > 0) /\ 0..e.run - 1 = {}
    BY <1>1, <2>2
  <2> QED BY <2>3, <1>0 DEF Counted
<1> QED BY <1>2, <1>3, <1>4, <1>5

LEMMA WalkFinds ==
  ASSUME OneInv, pc[Donor] = "walk", loc[Donor].next # NULL
  PROVE  \E n, f, i :
           LET l == Extended(loc[Donor], loc[Donor].next)
           IN /\ n \in Nat /\ i \in Nat /\ i < n /\ ChainOf(f, n, freelist, word)
              /\ loc[Donor].next = f[i] /\ word[f[i]] = f[i + 1] /\ f[i] \in Page
              /\ l \in Locals /\ RunOK(l) /\ l.n = loc[Donor].n
              /\ l.run <= l.n /\ Counted(l, f, i + 1)
<1>1. PICK n, f : /\ ChainOf(f, n, freelist, word)
                  /\ \E i \in 0..n : Walked(loc[Donor], f, i)
  BY DEF OneInv, ChainInv
<1>2. PICK i \in 0..n : Walked(loc[Donor], f, i)
  BY <1>1
<1>3. n \in Nat /\ i \in Nat /\ f[n] = NULL
  BY <1>1 DEF ChainOf
<1>4. loc[Donor].next = f[i] /\ i < n
  BY <1>2, <1>3 DEF Walked
<1>5. word[f[i]] = f[i + 1] /\ f[i] \in Page
  BY <1>1, <1>3, <1>4 DEF ChainOf, Link
<1>6. PICK d : d = loc[Donor]
  OBVIOUS
<1>7. d \in Locals /\ RunOK(d) /\ d.run < d.n /\ d.curr = Before(f, i) /\ Counted(d, f, i)
  BY <1>2, <1>6, ClientAssumption DEF OneInv, TypeInv, VarsTyped, LocalsOK, Walked
<1>8. PICK pa \in Page : pa = f[i]
  BY <1>5
<1>9. /\ Extended(d, pa) \in Locals /\ RunOK(Extended(d, pa)) /\ Extended(d, pa).n = d.n
      /\ Counted(Extended(d, pa), f, i + 1) /\ Extended(d, pa).run <= d.n
  BY <1>3, <1>7, <1>8, ExtendedTyped, ExtendedCounted
<1> QED BY <1>1, <1>3, <1>4, <1>5, <1>6, <1>8, <1>9

LEMMA PagesAreNumbers == Page \subseteq Nat /\ Link \subseteq Nat
BY PageAssumption DEF Link, NULL

(***************************************************************************)
(* A run that is long enough is a block of the list.                       *)
(***************************************************************************)
LEMMA RunIsBlock ==
  ASSUME NEW n \in Nat, NEW f, NEW i \in Nat, i < n, NEW l \in Locals, RunOK(l),
         Counted(l, f, i + 1), l.run = l.n
  PROVE  /\ i + 1 - l.n \in Nat
         /\ {f[k] : k \in (i + 1 - l.n)..(i + 1 - l.n) + l.n - 1} = Block(l.run_start, l.n)
         /\ Block(l.run_start, l.n) \subseteq Pages(f, n)
         /\ l.run_prev = Before(f, i + 1 - l.n)
<1>0. PICK m, a : m = l.n /\ a = i + 1 - m
  OBVIOUS
<1>1. /\ m \in Nat /\ m > 0 /\ m <= i + 1 /\ a \in Nat
      /\ l.run_start \in Nat /\ l.run_prev = Before(f, a)
  <2>1. m \in Nat /\ m > 0
    BY <1>0 DEF Locals
  <2>2. m <= i + 1 /\ l.run_prev = Before(f, i + 1 - m)
    BY <1>0, <2>1 DEF Counted
  <2>3. l.run_start \in Nat
    BY <1>0, <2>1, PagesAreNumbers DEF RunOK
  <2> QED BY <1>0, <2>1, <2>2, <2>3
<1>2. \A j \in 0..m - 1 : f[a + j] = l.run_start + j
  BY <1>0, <1>1 DEF Counted
<1>3. ASSUME NEW k \in a..a + m - 1 PROVE f[k] \in Block(l.run_start, m)
  <2>1. k - a \in 0..m - 1 /\ a + (k - a) = k
    BY <1>1
  <2>2. f[k] = l.run_start + (k - a)
    BY <1>2, <2>1
  <2> QED BY <1>1, <2>1, <2>2 DEF Block
<1>4. ASSUME NEW p \in Block(l.run_start, m) PROVE \E k \in a..a + m - 1 : p = f[k]
  <2>1. p - l.run_start \in 0..m - 1 /\ p \in Int
    BY <1>1 DEF Block
  <2>2. f[a + (p - l.run_start)] = p
    BY <1>1, <1>2, <2>1
  <2> QED BY <1>1, <2>1, <2>2
<1>5. {f[k] : k \in a..a + m - 1} = Block(l.run_start, m)
  BY <1>3, <1>4
<1>6. Block(l.run_start, m) \subseteq Pages(f, n)
  <2>1. ASSUME NEW k \in a..a + m - 1 PROVE k \in 0..n - 1
    BY <1>0, <1>1
  <2> QED BY <1>5, <2>1 DEF Pages
<1> QED BY <1>0, <1>1, <1>5, <1>6

LEMMA BlockSplit ==
  ASSUME NEW r \in Nat, NEW n \in Nat, NEW a \in Nat, a <= n
  PROVE  /\ Block(r, a) \cup Block(r + a, n - a) = Block(r, n)
         /\ Block(r, a) \cap Block(r + a, n - a) = {}
         /\ n > 0 => r \in Block(r, n)
BY DEF Block

LEMMA OneWalkOn ==
  ASSUME OneInv, TypeInv', WalkOn(Donor)
  PROVE  ChainInv' /\ PlacesInv' /\ HeadInv'
<1>1. pc[Donor] = "walk" /\ loc[Donor].next # NULL
  BY DEF WalkOn
<1>2. PICK l : l = Extended(loc[Donor], loc[Donor].next)
  OBVIOUS
<1>3. PICK n, f, i :
        /\ n \in Nat /\ i \in Nat /\ i < n /\ ChainOf(f, n, freelist, word)
        /\ loc[Donor].next = f[i] /\ word[f[i]] = f[i + 1] /\ f[i] \in Page
        /\ l \in Locals /\ RunOK(l) /\ l.n = loc[Donor].n
        /\ l.run <= l.n /\ Counted(l, f, i + 1)
  BY <1>1, <1>2, WalkFinds
<1>4. /\ \/ /\ l.run = l.n
            /\ Unlink(l.run_prev, f[i + 1])
            /\ own' = [own EXCEPT ![Donor] = @ \cup Block(l.run_start, l.asked)]
            /\ slack' = slack \cup Block(l.run_start + l.asked, l.n - l.asked)
            /\ Return(Donor)
         \/ /\ l.run # l.n
            /\ loc' = [loc EXCEPT ![Donor] = [l EXCEPT !.curr = f[i], !.next = f[i + 1]]]
            /\ UNCHANGED <<freelist, word, lock, pc, own, slack>>
      /\ UNCHANGED <<cleared, calls>>
  BY <1>2, <1>3 DEF WalkOn
<1>5. OnList = Pages(f, n)
  BY <1>3, ListNow DEF OneInv
<1>6. CASE l.run # l.n
  <2>1. /\ loc' = [loc EXCEPT ![Donor] = [l EXCEPT !.curr = f[i], !.next = f[i + 1]]]
        /\ UNCHANGED <<freelist, word, lock, pc, own, slack, cleared>>
    BY <1>4, <1>6
  <2>2. PICK e : e = [l EXCEPT !.curr = f[i], !.next = f[i + 1]]
    OBVIOUS
  <2>3. loc'[Donor] = e
    BY <2>1, <2>2, ClientAssumption DEF OneInv, TypeInv, VarsTyped
  <2>4. /\ e.curr = f[i] /\ e.next = f[i + 1] /\ e.run = l.run /\ e.n = l.n
        /\ e.run_start = l.run_start /\ e.run_prev = l.run_prev
    BY <1>3, <2>2 DEF Locals
  <2>5. Walked(e, f, i + 1)
    <3>1. e.curr = Before(f, i + 1)
      BY <1>3, <2>4 DEF Before
    <3>2. e.run < e.n
      BY <1>3, <1>6, <2>4 DEF Locals
    <3>3. Counted(e, f, i + 1)
      BY <1>3, <2>4 DEF Counted
    <3> QED BY <2>4, <3>1, <3>2, <3>3 DEF Walked
  <2>6. ChainOf(f, n, freelist', word') /\ Walked(loc'[Donor], f, i + 1) /\ i + 1 \in 0..n
    BY <1>3, <2>1, <2>3, <2>5
  <2>7. ChainInv'
    BY <2>6 DEF ChainInv, ChainOf, Walked, Counted, Before, Link
  <2>8. OnList' = OnList /\ Back = {} /\ Back' = {}
    BY <1>1, <2>1, ListSame DEF Back
  <2>9. PlacesInv' /\ HeadInv'
    BY <1>1, <2>1, <2>8 DEF OneInv, PlacesInv, HeadInv
  <2> QED BY <2>7, <2>9
<1>7. CASE l.run = l.n
  <2>0. PICK m, a : m = l.n /\ a = i + 1 - m
    OBVIOUS
  <2> DEFINE G == Block(l.run_start, l.asked)
             S == Block(l.run_start + l.asked, m - l.asked)
             B == Block(l.run_start, m)
  <2>1. /\ Unlink(l.run_prev, f[i + 1]) /\ Return(Donor) /\ UNCHANGED cleared
        /\ own' = [own EXCEPT ![Donor] = @ \cup G] /\ slack' = slack \cup S
    BY <1>4, <1>7, <2>0
  <2>2. pc'[Donor] = "idle" /\ own'[Donor] = own[Donor] \cup G
    BY <2>1, HomeTyped, ClientAssumption DEF OneInv, TypeInv, VarsTyped
  <2>3. /\ a \in Nat /\ {f[k] : k \in a..a + m - 1} = B
        /\ B \subseteq Pages(f, n) /\ l.run_prev = Before(f, a)
    <3> HIDE DEF B
    <3>1. /\ i + 1 - l.n \in Nat
          /\ {f[k] : k \in (i + 1 - l.n)..(i + 1 - l.n) + l.n - 1} = Block(l.run_start, l.n)
          /\ Block(l.run_start, l.n) \subseteq Pages(f, n)
          /\ l.run_prev = Before(f, i + 1 - l.n)
      BY <1>3, <1>7, RunIsBlock
    <3> QED BY <2>0, <3>1 DEF B
  <2>4. /\ m \in Nat /\ m > 0 /\ a + m = i + 1 /\ a + m <= n
        /\ l.asked \in Nat /\ l.asked <= m /\ l.asked > 0
        /\ l.run_start \in Nat
    <3>1. m \in Nat \ {0} /\ l.asked \in Nat \ {0} /\ l.asked <= m /\ l.run_start \in Link
      BY <2>0, <1>3 DEF Locals, RunOK
    <3>2. l.run_start \in Nat
      BY <3>1, PagesAreNumbers
    <3> QED BY <3>1, <3>2, <1>3, <2>0, <2>3
  <2>5. G \cup S = B /\ G \cap S = {}
    BY <2>4, BlockSplit
  <2> HIDE DEF G, S, B
  <2>6. PICK head, w : head = freelist /\ w = word /\ w \in [Link -> Link]
    BY DEF OneInv, TypeInv, VarsTyped
  <2> DEFINE e == CutChain(f, n, a, m)
  <2>7. /\ ChainOf(e, n - m, CutHead(f, head, a, m), CutWord(f, w, a, m))
        /\ Pages(e, n - m) = Pages(f, n) \ B
    <3>1. ChainOf(f, n, head, w)
      BY <1>3, <2>6
    <3>2. a \in Nat /\ m \in Nat /\ a + m <= n
      BY <2>3, <2>4
    <3>3. /\ ChainOf(e, n - m, CutHead(f, head, a, m), CutWord(f, w, a, m))
          /\ Pages(e, n - m) = Pages(f, n) \ Stretch(f, a, m)
      BY <2>6, <3>1, <3>2, ChainCut
    <3> QED BY <2>3, <3>3 DEF Stretch
  <2> HIDE DEF e
  <2>8. freelist' = CutHead(f, head, a, m) /\ word' = CutWord(f, w, a, m)
    <3>1. CASE a = 0
      <4>1. l.run_prev = NULL /\ i + 1 = m
        BY <2>3, <2>4, <3>1 DEF Before
      <4> QED BY <2>1, <2>6, <3>1, <4>1 DEF Unlink, CutHead, CutWord
    <3>2. CASE a # 0
      <4>1. l.run_prev = f[a - 1] /\ a - 1 \in 0..n - 1
        BY <2>3, <2>4, <3>2, <1>3 DEF Before
      <4>2. l.run_prev # NULL
        BY <4>1, <1>3 DEF ChainOf
      <4> QED BY <2>1, <2>4, <2>6, <3>2, <4>1, <4>2 DEF Unlink, CutHead, CutWord
    <3> QED BY <3>1, <3>2
  <2>9. ChainOf(e, n - m, freelist', word')
    BY <2>7, <2>8
  <2>10. OnList' = OnList \ B /\ B \subseteq OnList
    BY <1>5, <2>3, <2>7, <2>9, ListNext
  <2>11. Back = {} /\ Back' = {}
    BY <1>1, <2>2 DEF Back
  <2>12. PlacesInv' /\ HeadInv'
    BY <2>1, <2>2, <2>5, <2>10, <2>11 DEF OneInv, PlacesInv, HeadInv
  <2> QED BY <2>2, <2>9, <2>12, ChainKept
<1> QED BY <1>6, <1>7

LEMMA OneStep ==
  ASSUME Client = {Donor}, OneInv, [Next]_vars
  PROVE  OneInv'
<1>1. TypeInv'
  BY TypeStep DEF OneInv
<1>2. CASE UNCHANGED vars
  <2>1. UNCHANGED <<freelist, word, pc, loc, own, cleared, slack>>
    BY <1>2 DEF vars
  <2>2. OnList' = OnList /\ Back' = Back
    BY <2>1, ListSame DEF Back
  <2>3. PlacesInv' /\ HeadInv'
    BY <2>1, <2>2 DEF OneInv, PlacesInv, HeadInv
  <2>4. ChainInv'
    <3>1. CASE pc[Donor] \notin {"walk_lock", "walk"}
      BY <2>1, <3>1, ChainSame
    <3>2. CASE pc[Donor] \in {"walk_lock", "walk"}
      <4>1. PICK n, f : /\ ChainOf(f, n, freelist, word)
                        /\ \E i \in 0..n : Walked(loc[Donor], f, i)
        BY <3>2 DEF OneInv, ChainInv
      <4>2. PICK i \in 0..n : Walked(loc[Donor], f, i)
        BY <4>1
      <4>3. ChainOf(f, n, freelist', word') /\ Walked(loc'[Donor], f, i)
        BY <2>1, <4>1, <4>2
      <4> QED BY <4>3 DEF ChainInv, ChainOf, Walked, Counted, Before, Link
    <3> QED BY <3>1, <3>2
  <2> QED BY <1>1, <2>3, <2>4 DEF OneInv
<1>3. CASE Calls(Donor)
  <2>1. CASE free_pages(Donor)
    <3>1. PICK n \in Sizes \ {0}, mem \in own[Donor] : GiveBack(Donor, mem, n, "free_lock")
      BY <2>1 DEF free_pages
    <3>2. n \in Nat \ {0}
      BY SizesAssumption
    <3> QED BY <1>1, <3>1, <3>2, OneGiveBack DEF OneInv
  <2>2. CASE free_page(Donor)
    <3>1. PICK mem \in own[Donor] : GiveBack(Donor, mem, 1, "free_lock")
      BY <2>2 DEF free_page
    <3> QED BY <1>1, <3>1, OneGiveBack DEF OneInv
  <2>3. CASE Use(Donor)
    BY <1>1, <2>3, OneUse DEF OneInv
  <2>4. CASE alloc_page(Donor)
    BY <1>1, <2>4, OneAllocPage DEF OneInv
  <2>5. CASE page_memalign(Donor)
    BY <1>1, <2>5, OneMemalign DEF OneInv
  <2>6. CASE free_pages_none(Donor)
    BY <1>1, <2>6, OneFreeNone DEF OneInv
  <2> QED BY <1>3, <2>1, <2>2, <2>3, <2>4, <2>5, <2>6 DEF Calls
<1>4. CASE Locks(Donor)
  BY <1>1, <1>4, OneLocks DEF OneInv
<1>5. CASE Holds(Donor)
  <2>1. CASE TakeHead(Donor)
    BY <1>1, <2>1, OneTakeHead DEF OneInv
  <2>2. CASE WalkEnds(Donor)
    BY <1>1, <2>2, OneWalkEnds DEF OneInv
  <2>3. CASE WalkOn(Donor)
    BY <1>1, <2>3, OneWalkOn DEF OneInv
  <2>4. CASE PutBack(Donor)
    BY <1>1, <2>4, OnePutBack DEF OneInv
  <2> QED BY <1>5, <2>1, <2>2, <2>3, <2>4 DEF Holds
<1>6. CASE Done
  BY <1>2, <1>6 DEF Done
<1> QED BY <1>2, <1>3, <1>4, <1>5, <1>6 DEF Next

LEMMA OneSafe ==
  ASSUME Client = {Donor}
  PROVE  Spec => []OneInv
<1>1. Init => OneInv
  BY TypeInit, OneInit DEF OneInv
<1>2. OneInv /\ [Next]_vars => OneInv'
  BY OneStep
<1> QED BY <1>1, <1>2, PTL DEF Spec

-----------------------------------------------------------------------------
(***************************************************************************)
(* Whatever the client writes into the pages it holds, and in whatever     *)
(* order it gives blocks back (free_page, free_pages), the list is a chain *)
(* of different pages that ends in NULL and that the client holds none of. *)
(***************************************************************************)
LEMMA ListSoundNow ==
  ASSUME Client = {Donor}
  PROVE  OneInv => ListSound
<1> SUFFICES ASSUME OneInv PROVE ListSound
  OBVIOUS
<1>1. PICK n, f : ChainOf(f, n, freelist, word)
  BY DEF OneInv, ChainInv
<1>2. PICK N : N = Nth
  OBVIOUS
<1>3. \A k \in Nat : N[k] = IF k <= n THEN f[k] ELSE NULL
  <2>1. freelist \in Link /\ word \in [Link -> Link]
    BY DEF OneInv, TypeInv, VarsTyped
  <2> QED BY <1>1, <1>2, <2>1, NthIsNthOf, ChainIsNth
<1>4. n \in 0..Length /\ Length \in Nat
  BY <1>1, ChainFits, LengthNat
<1>5. /\ f[n] = NULL /\ \A i \in 0..n - 1 : f[i] # NULL
      /\ \A i, j \in 0..n - 1 : f[i] = f[j] => i = j
  BY <1>1 DEF ChainOf
<1>6. Nth[Length] = NULL
  BY <1>2, <1>3, <1>4, <1>5
<1>7. OnList = Pages(f, n)
  BY <1>1, ListNow DEF OneInv
<1>8. {k \in 0..Length : N[k] # NULL} = 0..n - 1
  <2>1. ASSUME NEW k \in 0..Length, N[k] # NULL PROVE k \in 0..n - 1
    BY <2>1, <1>3, <1>4, <1>5
  <2>2. ASSUME NEW k \in 0..n - 1 PROVE k \in 0..Length /\ N[k] # NULL
    BY <1>3, <1>4, <1>5
  <2> QED BY <2>1, <2>2
<1>9. Cardinality(Pages(f, n)) = Cardinality(0..n - 1)
  <2> DEFINE g == [i \in 0..n - 1 |-> f[i]]
  <2>1. g \in [0..n - 1 -> Pages(f, n)] /\ \A t \in Pages(f, n) : \E i \in 0..n - 1 : g[i] = t
    BY DEF Pages
  <2>2. \A i, j \in 0..n - 1 : g[i] = g[j] => i = j
    BY <1>5
  <2>3. IsFiniteSet(0..n - 1)
    BY <1>4, FS_Interval
  <2> HIDE DEF g
  <2>4. g \in Bijection(0..n - 1, Pages(f, n))
    BY <2>1, <2>2, Fun_IsBij
  <2> QED BY <2>3, <2>4, FS_Bijection DEF ExistsBijection
<1>10. \A c \in Client : own[c] \cap OnList = {}
  BY DEF OneInv, PlacesInv
<1> QED BY <1>2, <1>6, <1>7, <1>8, <1>9, <1>10 DEF ListSound

THEOREM ListKept ==
  ASSUME Client = {Donor}
  PROVE  Spec => []ListSound
BY OneSafe, ListSoundNow, PTL

(***************************************************************************)
(* Every page is on the list, held, on its way back, dropped by            *)
(* free_pages(mem, 0), or left behind by page_memalign().                  *)
(***************************************************************************)
LEMMA NothingLostNow ==
  ASSUME Client = {Donor}
  PROVE  OneInv => NothingLost
<1> SUFFICES ASSUME OneInv PROVE NothingLost
  OBVIOUS
<1>1. (UNION {own[c] : c \in Client}) = own[Donor]
  OBVIOUS
<1>2. Returning = Back
  BY DEF Returning, Back
<1>3. Page = OnList \cup own[Donor] \cup Back \cup cleared \cup slack
  BY DEF OneInv, PlacesInv
<1> QED BY <1>1, <1>2, <1>3 DEF NothingLost

THEOREM PagesKept ==
  ASSUME Client = {Donor}
  PROVE  Spec => []NothingLost
BY OneSafe, NothingLostNow, PTL

(***************************************************************************)
(* A block that alloc_pages() takes off the list is naturally aligned, of  *)
(* the 2^order pages it wanted, and was on the list page by page.          *)
(***************************************************************************)
LEMMA BlockTaken ==
  ASSUME OneInv, pc[Donor] = "walk", Holds(Donor)
  PROVE  LET gained == (own'[Donor] \ own[Donor]) \cup (slack' \ slack)
         IN gained # {} => AlignedBlock(gained, loc[Donor].n) /\ gained \subseteq OnList
<1> DEFINE gained == (own'[Donor] \ own[Donor]) \cup (slack' \ slack)
<1> SUFFICES gained # {} => AlignedBlock(gained, loc[Donor].n) /\ gained \subseteq OnList
  OBVIOUS
<1>1. CASE UNCHANGED <<own, slack>>
  BY <1>1
<1>2. CASE WalkOn(Donor)
  <2>1. loc[Donor].next # NULL
    BY <1>2 DEF WalkOn
  <2>2. PICK l : l = Extended(loc[Donor], loc[Donor].next)
    OBVIOUS
  <2>3. PICK n, f, i :
          /\ n \in Nat /\ i \in Nat /\ i < n /\ ChainOf(f, n, freelist, word)
          /\ loc[Donor].next = f[i] /\ word[f[i]] = f[i + 1] /\ f[i] \in Page
          /\ l \in Locals /\ RunOK(l) /\ l.n = loc[Donor].n
          /\ l.run <= l.n /\ Counted(l, f, i + 1)
    BY <2>1, <2>2, WalkFinds
  <2>4. \/ UNCHANGED <<own, slack>>
        \/ /\ l.run = l.n
           /\ own' = [own EXCEPT ![Donor] = @ \cup Block(l.run_start, l.asked)]
           /\ slack' = slack \cup Block(l.run_start + l.asked, l.n - l.asked)
    BY <1>2, <2>2 DEF WalkOn
  <2>5. CASE l.run = l.n /\ ~UNCHANGED <<own, slack>>
    <3>1. PICK G, S, B : /\ G = Block(l.run_start, l.asked)
                         /\ S = Block(l.run_start + l.asked, l.n - l.asked)
                         /\ B = Block(l.run_start, l.n)
      OBVIOUS
    <3>2. /\ l.n \in Nat /\ l.n > 0 /\ l.asked \in Nat /\ l.asked <= l.n
          /\ l.run_start \in Page /\ l.run_start % l.n = 0
      BY <2>3, <2>5 DEF Locals, RunOK
    <3>3. l.run_start \in Nat
      BY <3>2, PagesAreNumbers
    <3>4. G \cup S = B /\ l.run_start \in B
      BY <3>1, <3>2, <3>3, BlockSplit
    <3>5. B \subseteq OnList
      BY <2>3, <2>5, <3>1, RunIsBlock, ListNow DEF OneInv
    <3>6. own'[Donor] = own[Donor] \cup G /\ slack' = slack \cup S
      BY <2>4, <2>5, <3>1, ClientAssumption DEF OneInv, TypeInv, VarsTyped
    <3>7. gained = B
      BY <3>4, <3>5, <3>6 DEF OneInv, PlacesInv
    <3>8. AlignedBlock(B, loc[Donor].n)
      BY <2>3, <3>1, <3>2, <3>4 DEF AlignedBlock
    <3> QED BY <3>5, <3>7, <3>8
  <2> QED BY <1>1, <2>4, <2>5
<1> QED BY <1>1, <1>2 DEF Holds, TakeHead, WalkEnds, PutBack

THEOREM AlignedBlocks ==
  ASSUME Client = {Donor}
  PROVE  Spec => BlocksAligned
<1> DEFINE A == \A c \in Client :
                  LET gained == (own'[c] \ own[c]) \cup (slack' \ slack)
                  IN pc[c] = "walk" /\ gained # {} =>
                       AlignedBlock(gained, loc[c].n) /\ gained \subseteq OnList
<1>1. OneInv /\ [Next]_vars => [A]_vars
  <2> SUFFICES ASSUME OneInv, Next, pc[Donor] = "walk",
                      (own'[Donor] \ own[Donor]) \cup (slack' \ slack) # {}
               PROVE  LET gained == (own'[Donor] \ own[Donor]) \cup (slack' \ slack)
                      IN AlignedBlock(gained, loc[Donor].n) /\ gained \subseteq OnList
    OBVIOUS
  <2>1. CASE Holds(Donor)
    BY <2>1, BlockTaken
  <2>2. CASE Calls(Donor)
    <3>1. pc[Donor] = "idle"
      BY <2>2 DEF Calls, Use, alloc_page, page_memalign, alloc_pages, free_page, free_pages,
                  free_pages_none, GiveBack, Call
    <3> QED BY <3>1
  <2>3. CASE Locks(Donor)
    BY <2>3 DEF Locks, Acquire
  <2>4. CASE Done
    BY <2>4 DEF Done, vars
  <2> QED BY <2>1, <2>2, <2>3, <2>4 DEF Next
<1> QED BY <1>1, OneSafe, PTL DEF Spec, BlocksAligned

=============================================================================
