---------------------------- MODULE MallocProofs ----------------------------
(***************************************************************************)
(* Proofs about Malloc: the allocator below keeps its invariants whoever   *)
(* is inside memalign(), and the blocks memalign() returns fit the memory  *)
(* that was granted for them, whatever happens to the minimum alignment.   *)
(***************************************************************************)
EXTENDS Malloc, PhysAllocProofs

-----------------------------------------------------------------------------
(***************************************************************************)
(* The types of memalign()'s arithmetic.                                   *)
(***************************************************************************)
LEMMA Constants ==
  /\ PtrSize \in Nat \ {0} /\ METADATA_EXTRA \in Nat /\ METADATA_EXTRA < Word
  /\ METADATA_EXTRA = 2 * PtrSize
  /\ \A m \in AllMinAligns : m \in Nat \ {0}
  /\ \A a \in AlignArgs : /\ a \in Nat \ {0} /\ a < Word
                          /\ Alignment(a) \in Nat \ {0} /\ Alignment(a) < Word
                          /\ Alignment(a) >= PtrSize
  /\ \A s \in SizeArgs : s \in 0..Word - 1
  <1>1. \A q \in Arrays : (q.nmemb * q.size) % Word \in 0..Word - 1
    <2> SUFFICES ASSUME NEW q \in Arrays
                 PROVE  (q.nmemb * q.size) % Word \in 0..Word - 1
      OBVIOUS
    <2> DEFINE n == q.nmemb * q.size
    <2>1. q.nmemb \in Nat /\ q.size \in Nat
      BY AskedAssumption, Numbers
    <2>2. n \in Nat
      BY <2>1
    <2> HIDE DEF n
    <2>3. n % Word \in 0..Word - 1
      BY <2>2, Numbers, Remainder
    <2>4. QED
      BY <2>3 DEF n
  <1>2. QED
    BY <1>1, Numbers, PtrAssumption, MinAlignAssumption, AskedAssumption
       DEF METADATA_EXTRA, AlignArgs, SizeArgs, Alignment

LEMMA EnlargedWord ==
  ASSUME NEW a \in AlignArgs, NEW s \in SizeArgs
  PROVE  Enlarged(a, s) \in 0..Word - 1
  <1>1. a \in Nat /\ s \in 0..Word - 1 /\ Word \in Nat \ {0}
    BY Constants, Numbers
  <1>2. s + a - 1 \in Int
    BY <1>1
  <1>3. (s + a - 1) % Word \in 0..Word - 1
    BY <1>1, <1>2, Remainder
  <1>4. QED
    BY <1>1, <1>3 DEF Enlarged

\* the size asked of the allocator for a size memalign() goes on with
Total(size, m) == ALIGN((size + METADATA_EXTRA) % Word, m)

LEMMA TotalWord ==
  ASSUME NEW size \in 0..Word - 1, NEW m \in AllMinAligns
  PROVE  Total(size, m) \in 0..Word - 1
  <1>1. size + METADATA_EXTRA \in Int /\ Word \in Nat \ {0} /\ m \in Nat \ {0}
    BY Constants, Numbers
  <1>2. (size + METADATA_EXTRA) % Word \in Int
    BY <1>1, Remainder
  <1>3. QED
    BY <1>1, <1>2, AlignWord DEF Total

(***************************************************************************)
(* Where a client is in alloc.c and in the allocator, and what it carries: *)
(* a call with an alignment a, a size s and the minimum alignments m and n *)
(* it read.                                                                *)
(***************************************************************************)
Reqs == [alignment : Nat, size : Nat, asked : Nat, zero : BOOLEAN, blkalign : Nat, p : Nat]
BlockRecords == [to : Client, no : Nat, mem : Nat, p : Nat, size : Nat, asked : Nat,
                 alignment : Nat]
Stages == {"out", "size", "in", "meta", "fill", "fault"}

MallocTyped ==
  /\ align_min \in AllMinAligns
  /\ stage \in [Client -> Stages]
  /\ req \in [Client -> Reqs]
  /\ blocks \subseteq BlockRecords

PlacesAgree ==
  \A c \in Client :
    /\ stage[c] = "in" <=> Asking(c)
    /\ stage[c] \in {"size", "meta", "fill", "fault"} => pc[c] = "idle"

Carries(r, a, s, m) ==
  /\ r.alignment = Alignment(a) /\ r.blkalign = MAX(Alignment(a), m)
  /\ r.asked \in Nat /\ r.asked % Word = s

AskedFor(c) ==
  \E a \in AlignArgs, s \in SizeArgs, m \in AllMinAligns :
    Carries(req[c], a, s, m) /\ req[c].size = Enlarged(a, s)

AskedTotal(c) ==
  \E a \in AlignArgs, s \in SizeArgs, m, n \in AllMinAligns :
    Carries(req[c], a, s, m) /\ req[c].size = Total(Enlarged(a, s), n)

\* what the allocator granted for a call
GrantFor(c, no, p, size) ==
  [base |-> p, size |-> size, by |-> "memalign", to |-> c, no |-> no]

Carried(c) ==
  /\ stage[c] = "size" => AskedFor(c)
  /\ stage[c] = "in" => /\ AskedTotal(c)
                        /\ loc[c].size = req[c].size /\ loc[c].align = req[c].blkalign
  /\ stage[c] = "meta" => /\ AskedTotal(c)
                          /\ \/ req[c].p = NULL
                             \/ /\ GrantFor(c, calls[c], req[c].p, req[c].size) \in granted
                                /\ req[c].p % req[c].blkalign = 0
ReqCarried == \A c \in Client : Carried(c)

(***************************************************************************)
(* A block fits what was granted for its call; calls have one block each,  *)
(* so that two blocks have two grants, which NoOverlap keeps apart.        *)
(***************************************************************************)
FitsGrant(b) ==
  /\ b.mem % b.alignment = 0
  /\ b.p <= b.mem - 2 * PtrSize /\ b.mem + b.asked <= b.p + b.size

BlocksGranted ==
  \A b \in blocks :
    /\ b.p = NULL => b.mem <= PoolBase
    /\ Sound(b) => FitsGrant(b) /\ GrantFor(b.to, b.no, b.p, b.size) \in granted

OneBlockPerCall ==
  /\ \A b \in blocks : /\ b.no <= calls[b.to]
                       /\ stage[b.to] \in {"in", "meta"} => b.no < calls[b.to]
  /\ \A b, d \in blocks : b.to = d.to /\ b.no = d.no => b = d

MallocInv == /\ Inv /\ PoolInv
             /\ MallocTyped /\ PlacesAgree /\ ReqCarried /\ BlocksGranted /\ OneBlockPerCall

(***************************************************************************)
(* The arithmetic of a block that was granted: no sum of memalign() wraps  *)
(* for a Representable request, and what it adds to the size makes up for  *)
(* the alignment.  For an alignment of at most a word nothing is added:    *)
(* there the grant itself is aligned well enough.                          *)
(***************************************************************************)
LEMMA BlockFits ==
  ASSUME NEW a \in AlignArgs, NEW s \in SizeArgs, NEW m \in AllMinAligns,
         NEW n \in AllMinAligns,
         s + Alignment(a) + METADATA_EXTRA + 2 * n < Word,
         NEW p \in Nat, p % MAX(Alignment(a), m) = 0,
         p + Total(Enlarged(a, s), n) <= PoolTop
  PROVE  /\ BlockAddress(p, Alignment(a)) \in Nat
         /\ BlockAddress(p, Alignment(a)) % Alignment(a) = 0
         /\ p <= BlockAddress(p, Alignment(a)) - METADATA_EXTRA
         /\ BlockAddress(p, Alignment(a)) + s <= p + Total(Enlarged(a, s), n)
  <1> DEFINE x == Enlarged(a, s)
             t == Total(x, n)
             A == Alignment(a)
             mem == BlockAddress(p, A)
             E == METADATA_EXTRA
  <1>1. /\ s \in Nat /\ a \in Nat \ {0} /\ A \in Nat \ {0} /\ E \in Nat
        /\ n \in Nat \ {0} /\ m \in Nat \ {0} /\ PtrSize \in Nat \ {0}
        /\ A >= a /\ A >= PtrSize /\ Word \in Nat /\ E = 2 * PtrSize
    BY Constants, Numbers DEF Alignment
  <1>2. x = IF a <= PtrSize THEN s ELSE s + A - 1
    <2>1. CASE a <= PtrSize
      BY <2>1 DEF Enlarged
    <2>2. CASE ~(a <= PtrSize)
      <3> DEFINE k == s + a - 1
      <3>1. A = a /\ x = k % Word
        BY <2>2 DEF Enlarged, Alignment
      <3>2. k \in 0..Word - 1
        BY <1>1, <3>1
      <3>3. k % Word = k
        <4> HIDE DEF k
        <4> QED BY <1>1, <3>2, SMT
      <3>4. QED
        BY <2>2, <3>1, <3>3
    <2>3. QED
      BY <2>1, <2>2
  <1>3. t \in Nat /\ t >= x + E /\ x \in Nat /\ x >= s
    <2> DEFINE k == x + E
    <2>1. k \in Nat /\ k + n <= Word /\ k < Word /\ x \in Nat /\ x >= s
      BY <1>1, <1>2
    <2>2. k % Word = k
      <3> HIDE DEF k
      <3> QED BY <1>1, <2>1, SMT
    <2>3. t = ALIGN(k, n)
      BY <2>2 DEF Total
    <2>4. ALIGN(k, n) \in k..(k + n - 1)
      <3> HIDE DEF k
      <3> QED BY <1>1, <2>1, AlignUp
    <2>5. QED
      BY <1>1, <2>1, <2>3, <2>4
  <1>4. PoolTop + A <= Word
    <2>1. Small([size |-> t, align |-> MAX(A, m)])
      BY SmallCallsAssumption DEF Total
    <2>2. MAX(A, m) >= A /\ MAX(A, m) \in Nat
      BY <1>1 DEF MAX
    <2>3. PoolTop + MAX(A, m) <= Word
      BY <2>1 DEF Small
    <2>4. PoolTop \in Nat
      BY Numbers
    <2> HIDE DEF A, t
    <2>5. QED
      BY <1>1, <2>2, <2>3, <2>4
  <1>5. p + E \in Nat /\ p + E + A <= Word /\ p + E < Word
    <2> HIDE DEF A, x, t, E
    <2> QED BY <1>1, <1>3, <1>4, Numbers DEF A, x, t, E
  <1>6. mem = ALIGN(p + E, A)
    <2> DEFINE k == p + E
    <2>1. k % Word = k
      <3> HIDE DEF k
      <3> QED BY <1>1, <1>5, SMT DEF k
    <2>2. QED
      BY <2>1 DEF BlockAddress
  <1>7. mem \in (p + E)..(p + E + A - 1) /\ mem % A = 0
    <2> DEFINE k == p + E
    <2>1. k \in Nat /\ k + A <= Word
      BY <1>5
    <2>2. ALIGN(k, A) \in k..(k + A - 1) /\ ALIGN(k, A) % A = 0
      <3> HIDE DEF k, A
      <3> QED BY <1>1, <2>1, AlignUp
    <2>3. QED
      BY <1>6, <2>2
  <1>8. mem + s <= p + t
    <2>1. CASE ~(a <= PtrSize)
      <3> HIDE DEF A, x, t, E, mem
      <3> QED BY <1>1, <1>2, <1>3, <1>7, <2>1
    <2>2. CASE a <= PtrSize
      <3>1. A = PtrSize
        BY <2>2 DEF Alignment
      <3>2. p % A = 0
        <4>1. CASE m > A
          <5>1. m % A = 0 /\ p % m = 0
            BY <3>1, <4>1, MinAlignAssumption, Constants, Numbers DEF MAX
          <5> HIDE DEF A
          <5>2. QED
            BY <1>1, <5>1, MultipleOfMultiple
        <4>2. CASE ~(m > A)
          <5>1. MAX(A, m) = A
            BY <1>1, <4>2 DEF MAX
          <5>2. QED
            BY <5>1
        <4>3. QED
          BY <4>1, <4>2
      <3>3. (p + E) % A = 0
        <4> DEFINE k == p \div A
        <4> HIDE DEF A
        <4>1. k \in Nat /\ p = k * A
          BY <1>1, <3>2, Division, Multiple
        <4> HIDE DEF k
        <4>2. p + E = (k + 2) * A
          BY <1>1, <3>1, <4>1, SMT
        <4>3. k + 2 \in Nat
          BY <4>1
        <4>4. QED
          BY <1>1, <4>2, <4>3, Multiple
      <3> DEFINE k == p + E
      <3>4. mem = k
        <4> HIDE DEF A, mem
        <4>1. k \in Nat /\ k % A = 0 /\ mem % A = 0 /\ mem \in k..(k + A - 1)
          BY <1>5, <1>7, <3>3
        <4> HIDE DEF k
        <4>2. QED
          BY <1>1, <4>1, NextMultiple
      <3> HIDE DEF A, x, t, E, mem
      <3>5. QED
        BY <1>1, <1>2, <1>3, <2>2, <3>4
    <2>3. QED
      BY <2>1, <2>2
  <1> HIDE DEF A, x, t, E, mem
  <1>9. mem \in Nat /\ p <= mem - E
    BY <1>1, <1>5, <1>7
  <1>10. QED
    BY <1>7, <1>8, <1>9 DEF A, x, t, E, mem

-----------------------------------------------------------------------------
LEMMA MallocInvInit == MallocInit => MallocInv
  <1> SUFFICES ASSUME MallocInit PROVE MallocInv
    OBVIOUS
  <1>1. Inv /\ PoolInv
    BY InvInit, PoolInit DEF MallocInit
  <1>2. NoReq \in Reqs
    BY Constants DEF NoReq, NULL, Reqs
  <1>3. MallocTyped
    BY <1>2 DEF MallocInit, MallocTyped, AllMinAligns, Stages
  <1>4. PlacesAgree /\ ReqCarried /\ BlocksGranted /\ OneBlockPerCall
    BY DEF MallocInit, Init, PlacesAgree, Asking, ReqCarried, Carried, BlocksGranted, OneBlockPerCall
  <1>5. QED
    BY <1>1, <1>3, <1>4 DEF MallocInv

\* what the blocks are promised lasts while nothing takes a block or a grant away
LEMMA BlocksKept ==
  ASSUME MallocInv, blocks' \subseteq blocks, granted \subseteq granted',
         \A c \in Client : /\ calls[c] <= calls'[c]
                           /\ stage'[c] \in {"in", "meta"} =>
                                stage[c] \in {"in", "meta"} \/ calls[c] < calls'[c],
         calls' \in [Client -> 0..MaxCalls]
  PROVE  BlocksGranted' /\ OneBlockPerCall'
  <1>1. \A b \in blocks : b.to \in Client /\ b.no \in Nat
    BY DEF MallocInv, MallocTyped, BlockRecords
  <1>2. BlocksGranted'
    BY DEF MallocInv, BlocksGranted, FitsGrant, Sound, Representable, GrantFor
  <1>3. \A c \in Client : calls[c] \in Nat /\ calls'[c] \in Nat
    BY Numbers DEF MallocInv, Inv, TypeOK
  <1>4. ASSUME NEW b \in blocks'
        PROVE  /\ b.no <= calls'[b.to]
               /\ stage'[b.to] \in {"in", "meta"} => b.no < calls'[b.to]
    <2>1. b.to \in Client /\ b.no \in Nat /\ b \in blocks
      BY <1>1, <1>4
    <2>2. /\ b.no <= calls[b.to]
          /\ stage[b.to] \in {"in", "meta"} => b.no < calls[b.to]
      BY <2>1 DEF MallocInv, OneBlockPerCall
    <2>3. QED
      BY <1>3, <2>1, <2>2
  <1>5. \A b, d \in blocks' : b.to = d.to /\ b.no = d.no => b = d
    BY DEF MallocInv, OneBlockPerCall
  <1>6. QED
    BY <1>2, <1>4, <1>5 DEF OneBlockPerCall

\* a client that does not move carries what it carried
LEMMA CarriedKept ==
  ASSUME ReqCarried, NEW d \in Client, req'[d] = req[d], stage'[d] = stage[d],
         stage[d] = "in" => loc'[d].size = loc[d].size /\ loc'[d].align = loc[d].align,
         calls'[d] = calls[d], granted \subseteq granted'
  PROVE  Carried(d)'
  <1>1. Carried(d)
    BY DEF ReqCarried
  <1>2. AskedFor(d) => AskedFor(d)'
    BY DEF AskedFor, Carries
  <1>3. AskedTotal(d) => AskedTotal(d)'
    BY DEF AskedTotal, Carries
  <1>4. QED
    BY <1>1, <1>2, <1>3 DEF Carried

LEMMA EnterStep ==
  ASSUME MallocInv, NEW c \in Client, NEW a \in AlignArgs, NEW s \in SizeArgs,
         NEW asked \in Nat, asked % Word = s, NEW zero \in BOOLEAN,
         Enter(c, a, s, asked, zero)
  PROVE  MallocInv'
  <1> DEFINE r == [alignment |-> Alignment(a), size |-> Enlarged(a, s),
                   asked |-> asked, zero |-> zero,
                   blkalign |-> MAX(Alignment(a), align_min), p |-> NULL]
  <1>1. /\ stage[c] = "out" /\ pc[c] = "idle"
        /\ stage' = [stage EXCEPT ![c] = "size"] /\ req' = [req EXCEPT ![c] = r]
        /\ UNCHANGED <<vars, align_min, blocks>>
    BY DEF Enter
  <1>2. Inv' /\ PoolInv'
    BY <1>1, InvIdle, PoolIdle DEF MallocInv
  <1>3. r \in Reqs
    BY Constants, EnlargedWord, Numbers DEF Reqs, MAX, NULL, MallocInv, MallocTyped
  <1>4. Carries(r, a, s, align_min) /\ r.size = Enlarged(a, s)
    BY DEF Carries
  <1> HIDE DEF r
  <1>5. MallocTyped'
    BY <1>1, <1>3 DEF MallocInv, MallocTyped, Stages
  <1>6. PlacesAgree'
    BY <1>1 DEF MallocInv, MallocTyped, PlacesAgree, Asking, vars
  <1>7. ReqCarried'
    <2>1. \A d \in Client : d # c => req'[d] = req[d] /\ stage'[d] = stage[d]
      BY <1>1 DEF MallocInv, MallocTyped
    <2>2. stage'[c] = "size" /\ req'[c] = r
      BY <1>1 DEF MallocInv, MallocTyped
    <2>3. AskedFor(c)'
      BY <1>4, <2>2 DEF AskedFor, MallocInv, MallocTyped, Carries
    <2>4. UNCHANGED <<loc, calls, granted>>
      BY <1>1 DEF vars
    <2>5. \A d \in Client : d # c => Carried(d)'
      BY <2>1, <2>4, CarriedKept DEF MallocInv
    <2>6. Carried(c)'
      BY <2>2, <2>3 DEF Carried
    <2>7. QED
      BY <2>5, <2>6 DEF ReqCarried
  <1>8. BlocksGranted' /\ OneBlockPerCall'
    <2>1. UNCHANGED <<calls, granted, blocks>> /\ calls \in [Client -> 0..MaxCalls]
      BY <1>1 DEF vars, MallocInv, Inv, TypeOK
    <2>2. \A d \in Client : stage'[d] \in {"in", "meta"} => stage[d] \in {"in", "meta"}
      BY <1>1 DEF MallocInv, MallocTyped
    <2>3. QED
      BY <2>1, <2>2, BlocksKept, Numbers
  <1>9. QED
    BY <1>2, <1>5, <1>6, <1>7, <1>8 DEF MallocInv

LEMMA CallAllocatorStep ==
  ASSUME MallocInv, NEW c \in Client, CallAllocator(c)
  PROVE  MallocInv'
  <1> DEFINE total == TotalSize(req[c].size)
             q == [size |-> total, align |-> req[c].blkalign]
  <1>1. /\ stage[c] = "size" /\ stage' = [stage EXCEPT ![c] = "in"]
        /\ early_memalign(c, q) /\ req' = [req EXCEPT ![c].size = total]
        /\ UNCHANGED <<align_min, blocks>>
    BY DEF CallAllocator
  <1>2. PICK a \in AlignArgs, s \in SizeArgs, m \in AllMinAligns :
          Carries(req[c], a, s, m) /\ req[c].size = Enlarged(a, s)
    BY <1>1 DEF MallocInv, ReqCarried, Carried, AskedFor
  <1>3. total = Total(Enlarged(a, s), align_min) /\ align_min \in AllMinAligns
    BY <1>2 DEF TotalSize, Total, MallocInv, MallocTyped
  <1>4. total \in 0..Word - 1
    BY <1>3, EnlargedWord, TotalWord
  <1>5. q \in Words /\ Small(q)
    <2>1. Small([size |-> total, align |-> MAX(Alignment(a), m)])
      BY <1>3, SmallCallsAssumption DEF Total
    <2>2. req[c].blkalign = MAX(Alignment(a), m)
      BY <1>2 DEF Carries
    <2>3. req[c].blkalign \in 1..Word - 1
      BY <2>2, Constants, Numbers, MinAlignAssumption DEF MAX
    <2>4. QED
      BY <1>4, <2>1, <2>2, <2>3 DEF Words
  <1> HIDE DEF total
  <1>6. Inv' /\ PoolInv'
    BY <1>1, <1>5, InvCall, PoolCall DEF MallocInv
  <1>7. /\ pc' = [pc EXCEPT ![c] = "lock"] /\ calls' = [calls EXCEPT ![c] = @ + 1]
        /\ loc' = [loc EXCEPT ![c] = [NoLocals EXCEPT !.size = total, !.align = req[c].blkalign]]
        /\ UNCHANGED granted
    BY <1>1 DEF early_memalign, Call, Goto
  <1>8. MallocTyped'
    BY <1>1, <1>4, Numbers DEF MallocInv, MallocTyped, Stages, Reqs
  <1>9. PlacesAgree'
    BY <1>1, <1>7 DEF MallocInv, MallocTyped, Inv, TypeOK, PlacesAgree, Asking
  <1>10. ReqCarried'
    <2>1. \A d \in Client : d # c => /\ req'[d] = req[d] /\ stage'[d] = stage[d]
                                    /\ loc'[d] = loc[d] /\ calls'[d] = calls[d]
      BY <1>1, <1>7 DEF MallocInv, MallocTyped, Inv, TypeOK
    <2>2. /\ stage'[c] = "in" /\ req'[c] = [req[c] EXCEPT !.size = total]
          /\ loc'[c].size = total /\ loc'[c].align = req[c].blkalign
      BY <1>1, <1>7 DEF MallocInv, MallocTyped, Inv, TypeOK, NoLocals
    <2>3. /\ req'[c].size = total /\ req'[c].alignment = req[c].alignment
          /\ req'[c].blkalign = req[c].blkalign /\ req'[c].asked = req[c].asked
      BY <2>2 DEF MallocInv, MallocTyped, Reqs
    <2>4. Carries(req'[c], a, s, m)
      BY <1>2, <2>3 DEF Carries
    <2>5. AskedTotal(c)'
      BY <1>3, <2>3, <2>4 DEF AskedTotal, Carries
    <2>6. \A d \in Client : d # c => Carried(d)'
      BY <1>7, <2>1, CarriedKept DEF MallocInv
    <2>7. Carried(c)'
      BY <2>2, <2>3, <2>5 DEF Carried
    <2>8. QED
      BY <2>6, <2>7 DEF ReqCarried
  <1>11. BlocksGranted' /\ OneBlockPerCall'
    <2>1. \A d \in Client : calls[d] \in Nat /\ calls'[d] = IF d = c THEN calls[d] + 1 ELSE calls[d]
      BY <1>7, Numbers DEF MallocInv, Inv, TypeOK
    <2>2. calls' \in [Client -> 0..MaxCalls]
      BY <1>6 DEF Inv, TypeOK
    <2>3. \A d \in Client : d # c => stage'[d] = stage[d]
      BY <1>1 DEF MallocInv, MallocTyped
    <2>4. QED
      BY <1>1, <1>7, <2>1, <2>2, <2>3, BlocksKept
  <1>12. QED
    BY <1>6, <1>8, <1>9, <1>10, <1>11 DEF MallocInv

\* what the allocator commits is aligned as it was asked to
LEMMA CommitAligned ==
  ASSUME Inv, SmallAsked, NEW c \in Client, pc[c] = "commit"
  PROVE  loc[c].addr % loc[c].align = 0
  <1>1. loc[c] \in Locals /\ base \in 0..PoolTop
    BY Numbers DEF Inv, TypeOK, Locals, BaseInPool
  <1>2. /\ loc[c].align \in Nat \ {0} /\ PoolTop + loc[c].align <= Word
        /\ loc[c].addr = ALIGN(base, loc[c].align)
    BY <1>1, Numbers DEF Inv, CommitFits, SmallAsked, Asking, Small, Locals
  <1>3. base \in Nat /\ base + loc[c].align <= Word
    BY <1>1, <1>2, Numbers
  <1>4. QED
    BY <1>2, <1>3, AlignUp

LEMMA InAllocatorStep ==
  ASSUME MallocInv, NEW c \in Client, InAllocator(c)
  PROVE  MallocInv'
  <1>1. /\ stage[c] = "in"
        /\ AcquireForAlloc(c) \/ Compute(c) \/ Commit(c)
        /\ UNCHANGED <<align_min, blocks>>
    BY DEF InAllocator
  <1>2. Inv' /\ PoolInv'
    BY <1>1, InvInner, PoolInner DEF InnerStep, MallocInv
  <1>3. /\ UNCHANGED calls /\ granted \subseteq granted'
        /\ \A d \in Client : d # c => loc'[d] = loc[d] /\ pc'[d] = pc[d]
        /\ Asking(c)' \/ pc'[c] = "idle"
        /\ Asking(c)' => loc'[c].size = loc[c].size /\ loc'[c].align = loc[c].align
    <2>1. pc \in [Client -> Places] /\ loc \in [Client -> Locals]
      BY DEF MallocInv, Inv, TypeOK, Places, Locals
    <2>2. CASE AcquireForAlloc(c)
      BY <2>1, <2>2 DEF AcquireForAlloc, Goto, Asking
    <2>3. CASE Compute(c)
      <3> DEFINE x == ALIGN(base, loc[c].align)
                 n == Need(c, x)
      <3>1. /\ \/ /\ loc' = [loc EXCEPT ![c].addr = x, ![c].need = n]
                  /\ pc' = [pc EXCEPT ![c] = "commit"]
               \/ /\ loc' = [loc EXCEPT ![c] = NoLocals] /\ pc' = [pc EXCEPT ![c] = "idle"]
            /\ UNCHANGED <<calls, granted>>
        BY <2>3 DEF Compute, Refuse, Goto
      <3> HIDE DEF x, n
      <3>2. QED
        BY <2>1, <3>1 DEF Asking, Locals
    <2>4. CASE Commit(c)
      BY <2>1, <2>4 DEF Commit, Goto, Asking
    <2>5. QED
      BY <1>1, <2>2, <2>3, <2>4
  <1>4. CASE pc'[c] # "idle"
    <2>1. UNCHANGED <<stage, req>>
      BY <1>4 DEF InAllocator
    <2>2. MallocTyped'
      BY <1>1, <2>1 DEF MallocInv, MallocTyped
    <2>3. PlacesAgree'
      <3>1. Asking(c)' /\ stage[c] = "in"
        BY <1>1, <1>3, <1>4
      <3>2. \A d \in Client : d # c => (Asking(d)' <=> Asking(d)) /\ pc'[d] = pc[d]
        BY <1>3 DEF Asking
      <3>3. QED
        BY <2>1, <3>1, <3>2 DEF MallocInv, PlacesAgree
    <2>4. ReqCarried'
      <3>1. \A d \in Client : loc'[d].size = loc[d].size /\ loc'[d].align = loc[d].align
        BY <1>3, <1>4
      <3>2. QED
        BY <1>3, <2>1, <3>1, CarriedKept DEF MallocInv, ReqCarried
    <2>5. BlocksGranted' /\ OneBlockPerCall'
      BY <1>1, <1>2, <1>3, <2>1, BlocksKept, Numbers DEF Inv, TypeOK
    <2>6. QED
      BY <1>2, <2>2, <2>3, <2>4, <2>5 DEF MallocInv
  <1>5. CASE pc'[c] = "idle"
    <2> DEFINE p == IF pc[c] = "commit" THEN loc[c].addr ELSE NULL
    <2>1. stage' = [stage EXCEPT ![c] = "meta"] /\ req' = [req EXCEPT ![c].p = p]
      BY <1>5 DEF InAllocator
    <2>2. p \in Nat
      BY Numbers DEF MallocInv, Inv, TypeOK, NULL
    <2>3. \/ p = NULL
          \/ /\ GrantFor(c, calls[c], p, loc[c].size) \in granted'
             /\ p % loc[c].align = 0
      <3>1. CASE pc[c] = "commit"
        <4>1. Commit(c)
          BY <1>1, <3>1 DEF AcquireForAlloc, Compute
        <4>2. GrantFor(c, calls[c], p, loc[c].size) \in granted'
          BY <3>1, <4>1 DEF Commit, GrantFor
        <4>3. QED
          BY <3>1, <4>2, CommitAligned DEF MallocInv, PoolInv
      <3>2. QED
        BY <3>1
    <2> HIDE DEF p
    <2>4. MallocTyped'
      BY <1>1, <2>1, <2>2 DEF MallocInv, MallocTyped, Stages, Reqs
    <2>5. PlacesAgree'
      BY <1>3, <1>5, <2>1 DEF MallocInv, MallocTyped, PlacesAgree, Asking
    <2>6. ReqCarried'
      <3>1. \A d \in Client : d # c => req'[d] = req[d] /\ stage'[d] = stage[d]
        BY <2>1 DEF MallocInv, MallocTyped
      <3>2. stage'[c] = "meta" /\ req'[c] = [req[c] EXCEPT !.p = p]
        BY <2>1 DEF MallocInv, MallocTyped
      <3>3. /\ req'[c].size = req[c].size /\ req'[c].alignment = req[c].alignment
            /\ req'[c].blkalign = req[c].blkalign /\ req'[c].asked = req[c].asked
            /\ req'[c].p = p
        BY <3>2 DEF MallocInv, MallocTyped, Reqs
      <3>4. /\ AskedTotal(c) /\ loc[c].size = req[c].size /\ loc[c].align = req[c].blkalign
        BY <1>1 DEF MallocInv, ReqCarried, Carried
      <3>5. AskedTotal(c)'
        BY <3>3, <3>4 DEF AskedTotal, Carries
      <3>6. \A d \in Client : d # c => Carried(d)'
        BY <1>3, <3>1, CarriedKept DEF MallocInv
      <3>7. Carried(c)'
        BY <1>3, <2>3, <3>2, <3>3, <3>4, <3>5 DEF Carried
      <3>8. QED
        BY <3>6, <3>7 DEF ReqCarried
    <2>7. BlocksGranted' /\ OneBlockPerCall'
      <3>1. \A d \in Client : stage'[d] \in {"in", "meta"} => stage[d] \in {"in", "meta"}
        <4>1. stage \in [Client -> Stages] /\ stage[c] = "in"
          BY <1>1 DEF MallocInv, MallocTyped
        <4>2. QED
          BY <2>1, <4>1
      <3>2. calls' \in [Client -> 0..MaxCalls]
        BY <1>2 DEF Inv, TypeOK
      <3>3. QED
        BY <1>1, <1>3, <3>1, <3>2, BlocksKept, Numbers
    <2>8. QED
      BY <1>2, <2>4, <2>5, <2>6, <2>7 DEF MallocInv
  <1>6. QED
    BY <1>4, <1>5

(***************************************************************************)
(* The block memalign() returns: one that was refused lies, with its       *)
(* metadata, below the pool; a sound one fits its grant.                   *)
(***************************************************************************)
NewBlock(c) ==
  [to |-> c, no |-> calls[c], mem |-> BlockAddress(req[c].p, req[c].alignment), p |-> req[c].p,
   size |-> req[c].size, asked |-> req[c].asked, alignment |-> req[c].alignment]

LEMMA NewBlockGood ==
  ASSUME MallocInv, NEW c \in Client, stage[c] = "meta", NEW b, b = NewBlock(c)
  PROVE  /\ b \in BlockRecords
         /\ b.p = NULL => b.mem <= PoolBase
         /\ Sound(b) => FitsGrant(b) /\ GrantFor(b.to, b.no, b.p, b.size) \in granted
  <1>1. PICK a \in AlignArgs, s \in SizeArgs, m \in AllMinAligns, n \in AllMinAligns :
          /\ Carries(req[c], a, s, m) /\ req[c].size = Total(Enlarged(a, s), n)
    BY DEF MallocInv, ReqCarried, Carried, AskedTotal
  <1>2. \/ req[c].p = NULL
        \/ /\ GrantFor(c, calls[c], req[c].p, req[c].size) \in granted
           /\ req[c].p % req[c].blkalign = 0
    BY DEF MallocInv, ReqCarried, Carried
  <1>3. /\ b.to = c /\ b.no = calls[c] /\ b.p = req[c].p /\ b.size = req[c].size
        /\ b.asked = req[c].asked /\ b.alignment = Alignment(a)
        /\ b.mem = BlockAddress(req[c].p, Alignment(a))
        /\ b = [to |-> b.to, no |-> b.no, mem |-> b.mem, p |-> b.p, size |-> b.size,
                asked |-> b.asked, alignment |-> b.alignment]
    BY <1>1 DEF NewBlock, Carries
  <1>4. req[c] \in Reqs /\ calls[c] \in Nat
    BY Numbers DEF MallocInv, MallocTyped, Inv, TypeOK
  <1>5. /\ Alignment(a) \in Nat \ {0} /\ METADATA_EXTRA \in Nat
        /\ req[c].p \in Nat /\ Word \in Nat \ {0}
    BY <1>4, Constants, Numbers DEF Reqs
  <1>6. b \in BlockRecords
    <2> DEFINE k == (req[c].p + METADATA_EXTRA) % Word
    <2>1. k \in Int
      BY <1>5, Remainder
    <2> HIDE DEF k
    <2>2. ALIGN(k, Alignment(a)) \in 0..Word - 1
      BY <1>5, <2>1, AlignWord
    <2>3. b.mem \in Nat
      BY <1>3, <2>2, <1>5 DEF BlockAddress, k
    <2>4. b.to \in Client /\ b.no \in Nat /\ b.p \in Nat /\ b.size \in Nat /\ b.asked \in Nat
      BY <1>3, <1>4 DEF Reqs
    <2>5. b.alignment \in Nat
      BY <1>3, <1>5
    <2>6. QED
      BY <1>3, <2>3, <2>4, <2>5 DEF BlockRecords
  <1>7. ASSUME b.p = NULL PROVE b.mem <= PoolBase
    <2>1. (0 + METADATA_EXTRA) % Word = METADATA_EXTRA
      BY Constants, Numbers, SMT
    <2>2. b.mem = ALIGN(METADATA_EXTRA, Alignment(a))
      BY <1>3, <1>7, <2>1 DEF BlockAddress, NULL
    <2>3. QED
      BY <2>2, BottomAssumption
  <1>8. ASSUME Sound(b)
        PROVE  FitsGrant(b) /\ GrantFor(b.to, b.no, b.p, b.size) \in granted
    <2>1. GrantFor(c, calls[c], b.p, b.size) \in granted /\ b.p % req[c].blkalign = 0
      BY <1>2, <1>3, <1>8 DEF Sound
    <2>2. b.asked + Alignment(a) + METADATA_EXTRA + 2 * n < Word
      BY <1>3, <1>8 DEF Sound, Representable, METADATA_EXTRA
    <2>3. s = b.asked
      <3>1. b.asked \in Nat /\ s = b.asked % Word
        BY <1>1, <1>3 DEF Carries
      <3>2. b.asked < Word
        BY <1>5, <2>2, <3>1, Constants
      <3>3. QED
        BY <1>5, <3>1, <3>2, SMT
    <2>4. b.p + b.size <= PoolTop
      <3>1. /\ GrantFor(c, calls[c], b.p, b.size).base + GrantFor(c, calls[c], b.p, b.size).size
               <= base
            /\ base <= PoolTop /\ base \in Int
        BY <2>1, Numbers DEF MallocInv, PoolInv, InsidePool
      <3>2. b.p + b.size <= base /\ b.p \in Nat /\ b.size \in Nat
        BY <1>3, <1>4, <3>1 DEF GrantFor, Reqs
      <3>3. QED
        BY <3>1, <3>2, Numbers
    <2>5. b.p % MAX(Alignment(a), m) = 0
      BY <1>1, <2>1 DEF Carries
    <2>6. /\ b.mem % Alignment(a) = 0 /\ b.p <= b.mem - METADATA_EXTRA
          /\ b.mem + s <= b.p + b.size
      <3>1. b.size = Total(Enlarged(a, s), n) /\ b.p \in Nat
        BY <1>1, <1>3, <1>5
      <3>2. b.mem = BlockAddress(b.p, Alignment(a))
        BY <1>3
      <3>3. s + Alignment(a) + METADATA_EXTRA + 2 * n < Word
        BY <2>2, <2>3
      <3>4. b.p + Total(Enlarged(a, s), n) <= PoolTop
        BY <2>4, <3>1
      <3>5. QED
        BY <2>5, <3>1, <3>2, <3>3, <3>4, BlockFits
    <2>7. QED
      BY <1>3, <2>1, <2>3, <2>6 DEF FitsGrant, METADATA_EXTRA
  <1>9. QED
    BY <1>6, <1>7, <1>8

LEMMA WriteMetadataStep ==
  ASSUME MallocInv, NEW c \in Client, WriteMetadata(c)
  PROVE  MallocInv'
  <1> DEFINE b == NewBlock(c)
  <1>1. stage[c] = "meta" /\ pc[c] = "idle" /\ UNCHANGED <<vars, align_min>>
    BY DEF WriteMetadata, MallocInv, PlacesAgree
  <1>2. PICK place \in {"fault", "fill", "out"} :
          /\ stage' = [stage EXCEPT ![c] = place]
          /\ req' = req \/ req' = [req EXCEPT ![c] = NoReq]
          /\ blocks' = blocks \/ blocks' = blocks \cup {b}
    BY DEF WriteMetadata, Return, NewBlock
  <1>3. /\ b \in BlockRecords /\ b.to = c /\ b.no = calls[c]
        /\ b.p = NULL => b.mem <= PoolBase
        /\ Sound(b) => FitsGrant(b) /\ GrantFor(b.to, b.no, b.p, b.size) \in granted
    BY <1>1, NewBlockGood DEF NewBlock
  <1> HIDE DEF b
  <1>4. Inv' /\ PoolInv' /\ UNCHANGED <<pc, loc, calls, granted>>
    BY <1>1, InvIdle, PoolIdle DEF MallocInv, vars
  <1>5. MallocTyped'
    <2>1. NoReq \in Reqs
      BY Constants DEF NoReq, NULL, Reqs
    <2>2. QED
      BY <1>1, <1>2, <1>3, <2>1 DEF MallocInv, MallocTyped, Stages
  <1>6. /\ stage'[c] = place
        /\ \A d \in Client : d # c => stage'[d] = stage[d] /\ req'[d] = req[d]
    BY <1>2 DEF MallocInv, MallocTyped
  <1>7. PlacesAgree'
    BY <1>1, <1>4, <1>6 DEF MallocInv, PlacesAgree, Asking
  <1>8. ReqCarried'
    <2>1. \A d \in Client : d # c => Carried(d)'
      BY <1>4, <1>6, CarriedKept DEF MallocInv
    <2>2. Carried(c)'
      BY <1>6 DEF Carried
    <2>3. QED
      BY <2>1, <2>2 DEF ReqCarried
  <1>9. BlocksGranted'
    BY <1>2, <1>3, <1>4 DEF MallocInv, BlocksGranted, FitsGrant, Sound, Representable, GrantFor
  <1>10. OneBlockPerCall'
    <2>1. \A d \in Client : calls[d] \in Nat
      BY Numbers DEF MallocInv, Inv, TypeOK
    <2>2. \A d \in blocks : d.to = c => d.no < calls[c]
      BY <1>1 DEF MallocInv, OneBlockPerCall
    <2>3. \A d \in blocks : d.to \in Client /\ d.no \in Nat
      BY DEF MallocInv, MallocTyped, BlockRecords
    <2>4. \A d, e \in blocks' : d.to = e.to /\ d.no = e.no => d = e
      BY <1>2, <1>3, <2>1, <2>2, <2>3 DEF MallocInv, OneBlockPerCall
    <2>5. ASSUME NEW d \in blocks'
          PROVE  /\ d.no <= calls[d.to]
                 /\ stage'[d.to] \in {"in", "meta"} => d.no < calls[d.to]
      <3>1. CASE d = b
        BY <1>3, <1>6, <2>1, <3>1
      <3>2. CASE d \in blocks
        BY <1>6, <2>3, <3>2 DEF MallocInv, OneBlockPerCall
      <3>3. QED
        BY <1>2, <2>5, <3>1, <3>2
    <2>6. QED
      BY <1>4, <2>4, <2>5 DEF OneBlockPerCall
  <1>11. QED
    BY <1>4, <1>5, <1>7, <1>8, <1>9, <1>10 DEF MallocInv

\* memset() in calloc(), free() and phys_alloc_set_minimum_alignment()
LEMMA QuietStep ==
  ASSUME MallocInv, NEW c \in Client,
         Fill(c) \/ free(c) \/ phys_alloc_set_minimum_alignment(c)
  PROVE  MallocInv'
  <1>1. /\ UNCHANGED vars /\ blocks' \subseteq blocks
        /\ align_min' \in AllMinAligns
        /\ \/ UNCHANGED <<stage, req>>
           \/ /\ stage[c] = "fill"
              /\ \E place \in {"out", "fault"} : stage' = [stage EXCEPT ![c] = place]
              /\ req' = req \/ req' = [req EXCEPT ![c] = NoReq]
    BY DEF Fill, free, phys_alloc_set_minimum_alignment, Return, AllMinAligns, MallocInv, MallocTyped
  <1>2. Inv' /\ PoolInv' /\ UNCHANGED <<pc, loc, calls, granted>>
    BY <1>1, InvIdle, PoolIdle DEF MallocInv, vars
  <1>3. MallocTyped'
    <2>1. NoReq \in Reqs
      BY Constants DEF NoReq, NULL, Reqs
    <2>2. QED
      BY <1>1, <2>1 DEF MallocInv, MallocTyped, Stages
  <1>4. \A d \in Client : \/ /\ stage'[d] = stage[d] /\ req'[d] = req[d]
                         \/ /\ stage[d] = "fill" /\ stage'[d] \in {"out", "fault"}
    BY <1>1 DEF MallocInv, MallocTyped
  <1>5. PlacesAgree'
    BY <1>2, <1>4 DEF MallocInv, PlacesAgree, Asking
  <1>6. ReqCarried'
    <2>1. ASSUME NEW d \in Client, stage'[d] = stage[d], req'[d] = req[d] PROVE Carried(d)'
      BY <1>2, <2>1, CarriedKept DEF MallocInv
    <2>2. ASSUME NEW d \in Client, stage'[d] \in {"out", "fault"} PROVE Carried(d)'
      BY <2>2 DEF Carried
    <2>3. QED
      BY <1>4, <2>1, <2>2 DEF ReqCarried
  <1>7. BlocksGranted' /\ OneBlockPerCall'
    <2>1. calls \in [Client -> 0..MaxCalls]
      BY DEF MallocInv, Inv, TypeOK
    <2>2. \A d \in Client : stage'[d] \in {"in", "meta"} => stage[d] \in {"in", "meta"}
      BY <1>4
    <2>3. QED
      BY <1>1, <1>2, <2>1, <2>2, BlocksKept, Numbers
  <1>8. QED
    BY <1>2, <1>3, <1>5, <1>6, <1>7 DEF MallocInv

LEMMA UnusedStep ==
  ASSUME MallocInv, NEW c \in Client, phys_alloc_get_unused(c)
  PROVE  MallocInv'
  <1>1. stage[c] = "out" /\ Unused(c) /\ UNCHANGED <<align_min, stage, req, blocks>>
    BY DEF phys_alloc_get_unused, mallocVars
  <1>2. Inv' /\ PoolInv'
    BY <1>1, InvInner, PoolInner DEF InnerStep, Unused, MallocInv
  <1>3. /\ \A d \in Client : d # c => /\ loc'[d] = loc[d] /\ pc'[d] = pc[d]
                                     /\ calls'[d] = calls[d]
        /\ ~Asking(c)' /\ calls[c] <= calls'[c] /\ granted \subseteq granted'
    <2>1. /\ pc \in [Client -> Places] /\ loc \in [Client -> Locals]
          /\ calls \in [Client -> 0..MaxCalls] /\ MaxCalls \in Nat
      BY Numbers DEF MallocInv, Inv, TypeOK, Places, Locals
    <2>2. CASE GetUnusedRead(c)
      BY <2>1, <2>2 DEF GetUnusedRead, Call, Goto, Asking
    <2>3. CASE GetUnusedTest(c)
      BY <2>1, <2>3 DEF GetUnusedTest, Goto, Asking
    <2>4. CASE AcquireForUnused(c)
      BY <2>1, <2>4 DEF AcquireForUnused, Goto, Asking
    <2>5. CASE GetUnused(c)
      BY <2>1, <2>5 DEF GetUnused, Goto, Asking
    <2>6. QED
      BY <1>1, <2>2, <2>3, <2>4, <2>5 DEF Unused
  <1>4. MallocTyped'
    BY <1>1 DEF MallocInv, MallocTyped
  <1>5. PlacesAgree'
    <2>1. \A d \in Client : d # c => (Asking(d)' <=> Asking(d))
      BY <1>3 DEF Asking
    <2>2. QED
      BY <1>1, <1>3, <2>1 DEF MallocInv, PlacesAgree
  <1>6. ReqCarried'
    <2>1. \A d \in Client : d # c => Carried(d)'
      BY <1>1, <1>3, CarriedKept DEF MallocInv
    <2>2. Carried(c)'
      BY <1>1 DEF Carried
    <2>3. QED
      BY <2>1, <2>2 DEF ReqCarried
  <1>7. BlocksGranted' /\ OneBlockPerCall'
    <2>1. ASSUME NEW d \in Client PROVE calls[d] <= calls'[d]
      <3>1. calls[d] \in Nat
        BY Numbers DEF MallocInv, Inv, TypeOK
      <3>2. QED
        BY <1>3, <3>1
    <2>2. calls' \in [Client -> 0..MaxCalls]
      BY <1>2 DEF Inv, TypeOK
    <2>3. QED
      BY <1>1, <1>3, <2>1, <2>2, BlocksKept
  <1>8. QED
    BY <1>2, <1>4, <1>5, <1>6, <1>7 DEF MallocInv

-----------------------------------------------------------------------------
LEMMA MallocStep ==
  ASSUME MallocInv, [MallocNext]_allVars
  PROVE  MallocInv'
  <1>1. ASSUME NEW c \in Client, malloc(c) \/ memalign(c) \/ calloc(c)
        PROVE  MallocInv'
    <2>1. PICK a \in AlignArgs, s \in SizeArgs, asked \in Nat, zero \in BOOLEAN :
            asked % Word = s /\ Enter(c, a, s, asked, zero)
      <3>1. \A s \in Asked : s \in Nat /\ s \in SizeArgs /\ s % Word = s
        <4> SUFFICES ASSUME NEW s \in Asked PROVE s \in Nat /\ s \in SizeArgs /\ s % Word = s
          OBVIOUS
        <4>1. s \in 0..Word - 1 /\ s \in SizeArgs
          BY AskedAssumption DEF SizeArgs
        <4>2. QED
          BY <4>1, Numbers, SMT
      <3>2. CASE malloc(c)
        BY <3>1, <3>2 DEF malloc, AlignArgs
      <3>3. CASE memalign(c)
        BY <3>1, <3>3 DEF memalign, AlignArgs
      <3>4. CASE calloc(c)
        <4>1. PICK q \in Arrays :
                Enter(c, PtrSize, (q.nmemb * q.size) % Word, q.nmemb * q.size, TRUE)
          BY <3>4 DEF calloc
        <4>2. q.nmemb \in Nat /\ q.size \in Nat
          BY AskedAssumption, Numbers
        <4>3. q.nmemb * q.size \in Nat
          BY <4>2
        <4>4. QED
          BY <4>1, <4>3 DEF AlignArgs, SizeArgs
      <3>5. QED
        BY <1>1, <3>2, <3>3, <3>4
    <2>2. QED
      BY <2>1, EnterStep
  <1>2. CASE UNCHANGED allVars
    <2>1. Inv' /\ PoolInv'
      BY <1>2, InvIdle, PoolIdle DEF MallocInv, allVars
    <2>2. MallocTyped' /\ PlacesAgree'
      BY <1>2 DEF allVars, vars, mallocVars, MallocInv, MallocTyped, PlacesAgree, Asking
    <2>3. ReqCarried'
      BY <1>2, CarriedKept DEF allVars, vars, mallocVars, MallocInv, ReqCarried
    <2>4. BlocksGranted' /\ OneBlockPerCall'
      BY <1>2 DEF allVars, vars, mallocVars, MallocInv, BlocksGranted, FitsGrant, Sound,
                  Representable, GrantFor, OneBlockPerCall
    <2>5. QED
      BY <2>1, <2>2, <2>3, <2>4 DEF MallocInv
  <1>3. QED
    BY <1>1, <1>2, CallAllocatorStep, InAllocatorStep, WriteMetadataStep, QuietStep, UnusedStep
       DEF MallocNext, AllDone, Outside, Inside

LEMMA MallocInvHolds == MallocSpec => []MallocInv
  <1>1. MallocInit => MallocInv
    BY MallocInvInit
  <1>2. MallocInv /\ [MallocNext]_allVars => MallocInv'
    BY MallocStep
  <1>3. QED
    BY <1>1, <1>2, PTL DEF MallocSpec

(***************************************************************************)
(* Below memalign(), malloc() and calloc() the allocator keeps what it     *)
(* keeps for callers of its own, with the sizes that memalign() computes   *)
(* from what it was asked, wrapped or not.                                 *)
(***************************************************************************)
THEOREM PoolKept == MallocSpec => [](TypeOK /\ InsidePool /\ NoOverlap /\ LogFaithful)
  <1>1. MallocInv => TypeOK /\ InsidePool /\ NoOverlap /\ LogFaithful
    BY DEF MallocInv, Inv, PoolInv
  <1>2. QED
    BY <1>1, MallocInvHolds, PTL

(***************************************************************************)
(* A block is aligned as it was asked and lies, metadata and all, in the   *)
(* memory granted for it, for every alignment, size and minimum alignment, *)
(* and with the minimum alignment changing between the two reads of it.    *)
(***************************************************************************)
THEOREM BlocksFit == MallocSpec => []BlockFitsGrant
  <1>1. MallocInv => BlockFitsGrant
    BY DEF MallocInv, BlocksGranted, BlockFitsGrant, FitsGrant
  <1>2. QED
    BY <1>1, MallocInvHolds, PTL

(***************************************************************************)
(* No metadata is written into a block in use: two sound blocks have two   *)
(* grants, and a refused call writes below the pool.                       *)
(***************************************************************************)
LEMMA MetadataApart ==
  ASSUME MallocInv, NEW b \in blocks, NEW d \in blocks, b # d, Representable(b), Sound(d)
  PROVE  b.mem <= d.mem - 2 * PtrSize \/ d.mem + d.asked <= b.mem - 2 * PtrSize
  <1> DEFINE gb == GrantFor(b.to, b.no, b.p, b.size)
             gd == GrantFor(d.to, d.no, d.p, d.size)
  <1>1. /\ b \in BlockRecords /\ d \in BlockRecords
        /\ b.mem \in Nat /\ d.mem \in Nat /\ b.asked \in Nat /\ d.asked \in Nat
        /\ b.p \in Nat /\ d.p \in Nat /\ b.size \in Nat /\ d.size \in Nat
        /\ PtrSize \in Nat \ {0} /\ PoolBase \in Nat
    <2>1. b \in BlockRecords /\ d \in BlockRecords
      BY DEF MallocInv, MallocTyped
    <2>2. QED
      BY <2>1, Constants, Numbers DEF BlockRecords
  <1>2. /\ FitsGrant(d) /\ gd \in granted
        /\ PoolBase <= d.p
    <2>1. FitsGrant(d) /\ gd \in granted
      BY DEF MallocInv, BlocksGranted
    <2>2. PoolBase <= gd.base
      BY <2>1 DEF MallocInv, PoolInv, InsidePool
    <2>3. QED
      BY <2>1, <2>2 DEF GrantFor
  <1>3. CASE b.p = NULL
    <2>1. b.mem <= PoolBase
      BY <1>3 DEF MallocInv, BlocksGranted
    <2>2. QED
      BY <1>1, <1>2, <2>1 DEF FitsGrant
  <1>4. CASE b.p # NULL
    <2>1. FitsGrant(b) /\ gb \in granted
      BY <1>4 DEF MallocInv, BlocksGranted, Sound
    <2>2. gb # gd
      <3>1. b.to # d.to \/ b.no # d.no
        BY DEF MallocInv, OneBlockPerCall
      <3>2. gb.to = b.to /\ gd.to = d.to /\ gb.no = b.no /\ gd.no = d.no
        BY DEF GrantFor
      <3>3. QED
        BY <3>1, <3>2
    <2>3. gb \in Blocks /\ gd \in Blocks
      BY <1>2, <2>1 DEF Blocks, GrantFor
    <2>4. Disjoint(gb, gd)
      BY <2>2, <2>3 DEF MallocInv, PoolInv, NoOverlap
    <2>5. \/ b.size = 0 \/ d.size = 0
          \/ b.p + b.size <= d.p \/ d.p + d.size <= b.p
      BY <2>4 DEF Disjoint, GrantFor
    <2>6. QED
      BY <1>1, <1>2, <2>1, <2>5 DEF FitsGrant
  <1>5. QED
    BY <1>3, <1>4

THEOREM MetadataSafe == MallocSpec => []MetadataIntact
  <1>1. MallocInv => MetadataIntact
    BY MetadataApart DEF MetadataIntact
  <1>2. QED
    BY <1>1, MallocInvHolds, PTL

(***************************************************************************)
(* Nor does memalign() ever make base move without a block to show for it. *)
(***************************************************************************)
THEOREM PoolNeverTakenBack == MallocSpec => BumpOnly
  <1>1. ASSUME MallocInv, [MallocNext]_allVars
        PROVE  [base' >= base /\ (base' # base => granted' # granted)]_vars
    <2>1. \/ UNCHANGED vars
          \/ \E c \in Client : InnerStep(c) \/ CallAllocator(c)
      BY <1>1 DEF MallocNext, AllDone, allVars, Outside, Inside, malloc, memalign, calloc, Enter,
                  free, phys_alloc_set_minimum_alignment, phys_alloc_get_unused, Unused,
                  InAllocator, WriteMetadata, Fill, InnerStep
    <2>2. ASSUME NEW c \in Client, CallAllocator(c)
          PROVE  base' >= base /\ base' = base
      <3>1. base \in Nat
        BY <1>1 DEF MallocInv, Inv, TypeOK
      <3>2. QED
        BY <2>2, <3>1 DEF CallAllocator, early_memalign
    <2>3. QED
      BY <1>1, <2>1, <2>2, BumpInner DEF MallocInv
  <1>2. QED
    BY <1>1, MallocInvHolds, PTL DEF MallocSpec, BumpOnly

=============================================================================
