-------------------------- MODULE PhysAllocProofs --------------------------
(***************************************************************************)
(* Proofs about PhysAlloc, for every pool, every number of clients and     *)
(* every size of the log.  The lemmas about the single steps name a client *)
(* and a request, so that Malloc, which calls the allocator with requests  *)
(* of its own, uses them too.                                              *)
(***************************************************************************)
EXTENDS PhysAlloc, TLAPS

-----------------------------------------------------------------------------
(***************************************************************************)
(* Arithmetic: division, remainder, and what the macro ALIGN returns.      *)
(***************************************************************************)
LEMMA Division ==
  ASSUME NEW x \in Nat, NEW a \in Nat \ {0}
  PROVE  /\ x \div a \in Nat
         /\ (x \div a) * a <= x
         /\ x < (x \div a) * a + a
  BY SMT

LEMMA Remainder ==
  ASSUME NEW x \in Int, NEW a \in Nat \ {0}
  PROVE  x % a \in 0..a - 1
  BY SMT

\* multiples of a: what they are, and that there is one in every a numbers
LEMMA Multiple ==
  ASSUME NEW x \in Nat, NEW a \in Nat \ {0}
  PROVE  /\ x % a = 0 => x = (x \div a) * a
         /\ \A k \in Nat : (k * a) % a = 0
  <1>1. ASSUME NEW k \in Nat PROVE (k * a) % a = 0
    BY <1>1, SMT
  <1>2. x % a = 0 => x = (x \div a) * a
    BY SMT
  <1>3. QED
    BY <1>1, <1>2

LEMMA MultipleOfMultiple ==
  ASSUME NEW x \in Nat, NEW b \in Nat \ {0}, NEW a \in Nat \ {0},
         x % b = 0, b % a = 0
  PROVE  x % a = 0
  <1> DEFINE k == x \div b
             j == b \div a
  <1>1. k \in Nat /\ j \in Nat
    BY Division
  <1>2. x = k * b /\ b = j * a
    BY Multiple
  <1> HIDE DEF k, j
  <1>3. x = (k * j) * a /\ k * j \in Nat
    BY <1>1, <1>2, SMT
  <1>4. QED
    BY <1>3, Multiple

LEMMA NextMultiple ==
  ASSUME NEW x \in Nat, NEW y \in Nat, NEW a \in Nat \ {0},
         x % a = 0, y % a = 0, y \in x..(x + a - 1)
  PROVE  y = x
  <1> DEFINE k == x \div a
             j == y \div a
  <1>1. k \in Nat /\ j \in Nat
    BY Division
  <1>2. x = k * a /\ y = j * a
    BY Multiple
  <1> HIDE DEF k, j
  <1>3. j < k + 1
    <2> SUFFICES ASSUME j >= k + 1 PROVE FALSE
      BY <1>1
    <2>1. j * a >= (k + 1) * a
      BY <1>1, SMT
    <2>2. (k + 1) * a = k * a + a
      BY <1>1, SMT
    <2>3. QED
      BY <1>1, <1>2, <2>1, <2>2, SMT
  <1>4. k < j + 1
    <2> SUFFICES ASSUME k >= j + 1 PROVE FALSE
      BY <1>1
    <2>1. k * a >= (j + 1) * a
      BY <1>1, SMT
    <2>2. (j + 1) * a = j * a + a
      BY <1>1, SMT
    <2>3. QED
      BY <1>1, <1>2, <2>1, <2>2, SMT
  <1>5. QED
    BY <1>1, <1>2, <1>3, <1>4, SMT

\* ALIGN returns a word, and one at or above x when x + a does not wrap
LEMMA AlignWord ==
  ASSUME NEW x \in Int, NEW a \in Nat \ {0}
  PROVE  ALIGN(x, a) \in 0..Word - 1
  <1> DEFINE y == (x + a - 1) % Word
  <1>1. y \in 0..Word - 1
    BY WordAssumption, Remainder
  <1>2. y \div a \in Nat /\ (y \div a) * a <= y
    BY <1>1, WordAssumption, Division
  <1>3. (y \div a) * a \in Nat
    BY <1>2
  <1>4. QED
    BY <1>1, <1>2, <1>3, WordAssumption DEF ALIGN

LEMMA AlignUp ==
  ASSUME NEW x \in Nat, NEW a \in Nat \ {0}, x + a <= Word
  PROVE  /\ ALIGN(x, a) \in x..(x + a - 1)
         /\ ALIGN(x, a) % a = 0
  <1> DEFINE y == x + a - 1
             k == y \div a
  <1>1. y \in Nat /\ y % Word = y
    <2>1. y \in Nat /\ y < Word
      BY WordAssumption
    <2>2. QED
      <3> HIDE DEF y
      <3> QED BY <2>1, WordAssumption, SMT
  <1>2. k \in Nat /\ k * a <= y /\ y < k * a + a
    BY <1>1, Division
  <1>3. (k * a) % a = 0
    <2> HIDE DEF k
    <2> QED BY <1>2, SMT
  <1>4. ALIGN(x, a) = k * a
    BY <1>1 DEF ALIGN
  <1>5. k * a \in Nat
    BY <1>2
  <1>6. QED
    BY <1>2, <1>3, <1>4, <1>5

-----------------------------------------------------------------------------
(***************************************************************************)
(* Type correctness needs four facts besides: the spin lock is held where  *)
(* the code holds it; what Compute found fits while it is committed; base  *)
(* never leaves the pool; and what phys_alloc_get_unused() read lies below *)
(* what is left.  None of them is about the sizes that are asked for.      *)
(***************************************************************************)
Places == {"idle", "lock", "compute", "commit", "unused_test", "unused_lock", "unused"}
Regions == [base : 0..Word - 1, size : 0..Word - 1]
Words   == [size : 0..Word - 1, align : 1..Word - 1]
Locals  == [size : 0..Word - 1, align : 1..Word - 1, addr : 0..Word - 1,
            need : 0..Word - 1, p_top : 0..Word - 1]
Grants  == [base : 0..Word - 1, size : 0..Word - 1, by : {"memalign", "unused"},
            to : Client, no : 1..MaxCalls]

Holds(c) == pc[c] \in {"compute", "commit", "unused"}
LockHeld == \A c \in Client : Holds(c) <=> lock = c

BaseInPool == base \in PoolBase..PoolTop

CommitFits ==
  \A c \in Client : pc[c] = "commit" =>
    /\ loc[c].addr = ALIGN(base, loc[c].align)
    /\ loc[c].need = Need(c, loc[c].addr)
    /\ loc[c].need <= top - base

UnusedRead ==
  \A c \in Client : pc[c] \in {"unused_test", "unused_lock", "unused"} =>
    loc[c].addr \in PoolBase..base /\ loc[c].p_top = top

\* a client has been given what its finished calls asked for, nothing else
GrantsPast ==
  /\ \A c \in Client : pc[c] # "idle" => calls[c] > 0
  /\ \A g \in granted : /\ g.no <= calls[g.to]
                        /\ pc[g.to] # "idle" => g.no < calls[g.to]

Inv == TypeOK /\ LockHeld /\ BaseInPool /\ CommitFits /\ UnusedRead /\ GrantsPast

\* the numbers of the pool, and the locals of a client outside of a call
LEMMA Numbers ==
  /\ Word \in Nat /\ Word > 1 /\ MaxCalls \in Nat
  /\ PoolBase \in 0..Word - 1 /\ PoolTop \in PoolBase..Word - 1
  /\ NoLocals \in Locals
  BY WordAssumption, PoolAssumption, CallsAssumption DEF PoolTop, NoLocals, Locals

LEMMA InvInit == Init => Inv
  <1> SUFFICES ASSUME Init PROVE Inv
    OBVIOUS
  <1> USE WordAssumption, PoolAssumption, ClientAssumption, CallsAssumption DEF Init, NoLocals, PoolTop
  <1>1. TypeOK
    BY DEF TypeOK
  <1>2. LockHeld
    BY DEF LockHeld, Holds
  <1>3. BaseInPool /\ CommitFits /\ UnusedRead /\ GrantsPast
    BY DEF BaseInPool, CommitFits, UnusedRead, GrantsPast
  <1>4. QED
    BY <1>1, <1>2, <1>3 DEF Inv

\* whoever enters the allocator has made one more call than those it was answered
LEMMA PastCall ==
  ASSUME TypeOK, GrantsPast, NEW c \in Client, NEW place, Call(c, place),
         UNCHANGED granted
  PROVE  GrantsPast'
  <1>1. calls \in [Client -> Nat] /\ pc \in [Client -> Places]
    BY Numbers DEF TypeOK, Places
  <1>2. \A d \in Client : /\ calls'[d] = IF d = c THEN calls[d] + 1 ELSE calls[d]
                          /\ d # c => pc'[d] = pc[d]
    BY <1>1 DEF Call, Goto
  <1>3. \A g \in granted : g.to \in Client /\ g.no \in Nat
    <2>1. granted \subseteq Grants
      BY DEF TypeOK, Grants
    <2>2. QED
      BY <2>1, Numbers DEF Grants
  <1>4. ASSUME NEW d \in Client, pc'[d] # "idle" PROVE calls'[d] > 0
    BY <1>1, <1>2, <1>4 DEF GrantsPast
  <1>5. ASSUME NEW g \in granted
        PROVE  g.no <= calls'[g.to] /\ (pc'[g.to] # "idle" => g.no < calls'[g.to])
    BY <1>1, <1>2, <1>3, <1>5 DEF GrantsPast
  <1>6. QED
    BY <1>4, <1>5 DEF GrantsPast

\* a client whose call ends, and what it was given at that
LEMMA PastReturn ==
  ASSUME TypeOK, GrantsPast, NEW c \in Client, pc[c] # "idle",
         pc' = [pc EXCEPT ![c] = "idle"], UNCHANGED calls,
         \A g \in granted' \ granted : g.to = c /\ g.no = calls[c]
  PROVE  GrantsPast'
  <1>1. calls \in [Client -> Nat] /\ pc \in [Client -> Places]
    BY Numbers DEF TypeOK, Places
  <1>2. granted \subseteq Grants
    BY DEF TypeOK, Grants
  <1>3. \A g \in granted : g.to \in Client /\ g.no \in Nat
    BY <1>2, Numbers DEF Grants
  <1>4. QED
    BY <1>1, <1>3 DEF GrantsPast

\* the lock goes back, and with it the client's locals
LEMMA HeldReturn ==
  ASSUME TypeOK, LockHeld, NEW c \in Client, Holds(c),
         pc' = [pc EXCEPT ![c] = "idle"], lock' = Free
  PROVE  LockHeld'
  BY ClientAssumption DEF TypeOK, LockHeld, Holds

LEMMA InvCall ==
  ASSUME Inv, NEW c \in Client, NEW q \in Words, early_memalign(c, q)
  PROVE  Inv'
  <1> USE DEF Inv, early_memalign, Call, Goto
  <1>1. TypeOK'
    <2>1. loc' \in [Client -> Locals]
      <3> DEFINE l == [NoLocals EXCEPT !.size = q.size, !.align = q.align]
      <3>1. l \in Locals
        BY Numbers DEF Locals, Words
      <3>2. loc' = [loc EXCEPT ![c] = l]
        OBVIOUS
      <3> HIDE DEF l
      <3>3. QED
        BY <3>1, <3>2 DEF TypeOK, Locals
    <2>2. calls' \in [Client -> 0..MaxCalls]
      BY CallsAssumption DEF TypeOK
    <2>3. QED
      BY <2>1, <2>2 DEF TypeOK, Locals
  <1>2. LockHeld'
    BY DEF TypeOK, LockHeld, Holds
  <1>3. BaseInPool' /\ CommitFits' /\ UnusedRead'
    BY DEF TypeOK, BaseInPool, CommitFits, Need, UnusedRead
  <1>4. GrantsPast'
    BY PastCall
  <1>5. QED
    BY <1>1, <1>2, <1>3, <1>4 DEF Inv

LEMMA InvAcquire ==
  ASSUME Inv, NEW c \in Client,
         AcquireForAlloc(c) \/ AcquireForUnused(c) \/ GetUnusedTest(c)
  PROVE  Inv'
  <1> USE DEF Inv, AcquireForAlloc, AcquireForUnused, GetUnusedTest, spin_lock, Goto
  <1>1. TypeOK'
    BY Numbers DEF TypeOK, Locals
  <1>2. LockHeld'
    BY ClientAssumption DEF TypeOK, LockHeld, Holds
  <1>3. BaseInPool' /\ CommitFits' /\ UnusedRead'
    BY DEF TypeOK, BaseInPool, CommitFits, Need, UnusedRead
  <1>4. GrantsPast'
    BY Numbers DEF TypeOK, GrantsPast
  <1>5. QED
    BY <1>1, <1>2, <1>3, <1>4 DEF Inv

LEMMA InvGetUnusedRead ==
  ASSUME Inv, NEW c \in Client, GetUnusedRead(c)
  PROVE  Inv'
  <1> USE DEF Inv, GetUnusedRead, Call, Goto
  <1>1. TypeOK'
    <2>1. loc' \in [Client -> Locals]
      <3> DEFINE l == [NoLocals EXCEPT !.addr = base, !.p_top = top]
      <3>1. l \in Locals
        <4>1. base \in 0..Word - 1 /\ top \in 0..Word - 1
          BY Numbers DEF TypeOK
        <4>2. QED
          BY <4>1, Numbers DEF Locals
      <3>2. loc' = [loc EXCEPT ![c] = l]
        OBVIOUS
      <3> HIDE DEF l
      <3>3. QED
        BY <3>1, <3>2 DEF TypeOK, Locals
    <2>2. calls' \in [Client -> 0..MaxCalls]
      BY CallsAssumption DEF TypeOK
    <2>3. QED
      BY <2>1, <2>2 DEF TypeOK, Locals
  <1>2. LockHeld'
    BY DEF TypeOK, LockHeld, Holds
  <1>3. BaseInPool' /\ CommitFits'
    BY DEF TypeOK, BaseInPool, CommitFits, Need
  <1>6. UnusedRead'
    <2>1. loc'[c].addr = base /\ loc'[c].p_top = top
      BY Numbers DEF TypeOK, Locals
    <2>2. \A d \in Client : d # c => loc'[d] = loc[d] /\ pc'[d] = pc[d]
      BY DEF TypeOK
    <2>3. base \in PoolBase..base
      BY Numbers DEF BaseInPool
    <2>4. QED
      BY <2>1, <2>2, <2>3 DEF UnusedRead
  <1>4. GrantsPast'
    BY PastCall
  <1>5. QED
    BY <1>1, <1>2, <1>3, <1>4, <1>6 DEF Inv

\* what is left, as Fits computes it
LEMMA LeftOver ==
  ASSUME TypeOK, BaseInPool
  PROVE  top - base \in 0..Word - 1 /\ (top - base) % Word = top - base
  <1>1. top - base \in 0..Word - 1
    BY WordAssumption, PoolAssumption DEF TypeOK, BaseInPool, PoolTop
  <1>2. QED
    <2> DEFINE d == top - base
    <2>1. d \in 0..Word - 1
      BY <1>1
    <2> HIDE DEF d
    <2>2. d % Word = d
      BY <2>1, WordAssumption, SMT
    <2>3. QED
      BY <1>1, <2>2 DEF d

LEMMA InvCompute ==
  ASSUME Inv, NEW c \in Client, Compute(c)
  PROVE  Inv'
  <1> DEFINE addr == ALIGN(base, loc[c].align)
             need == Need(c, addr)
  <1> USE DEF Inv, Compute, Goto
  <1>1. addr \in 0..Word - 1 /\ need \in 0..Word - 1
    <2>1. loc[c] \in Locals /\ base \in Nat
      BY DEF TypeOK, Locals
    <2>2. loc[c].align \in Nat \ {0} /\ loc[c].size \in Nat
      BY <2>1, Numbers DEF Locals
    <2>3. addr \in 0..Word - 1
      BY <2>1, <2>2, AlignWord
    <2>4. need \in 0..Word - 1
      BY <2>1, <2>2, <2>3, Numbers, Remainder DEF Need
    <2>5. QED
      BY <2>3, <2>4
  <1>2. CASE Fits(need)
    <2> HIDE DEF addr, need
    <2>1. /\ loc' = [loc EXCEPT ![c].addr = addr, ![c].need = need]
          /\ pc' = [pc EXCEPT ![c] = "commit"]
          /\ UNCHANGED <<base, top, regions, lock, calls, granted>>
      BY <1>2 DEF addr, need, Refuse
    <2>2. TypeOK'
      BY <1>1, <2>1 DEF TypeOK
    <2>3. LockHeld'
      BY <2>1 DEF TypeOK, LockHeld, Holds
    <2>4. CommitFits'
      <3>1. need <= top - base
        BY <1>2, LeftOver DEF Fits
      <3>2. /\ loc'[c].addr = addr /\ loc'[c].need = need
            /\ loc'[c].align = loc[c].align /\ loc'[c].size = loc[c].size
        BY <2>1 DEF TypeOK
      <3>3. \A d \in Client : d # c => loc'[d] = loc[d] /\ pc'[d] = pc[d]
        BY <2>1 DEF TypeOK
      <3>4. addr = ALIGN(base, loc[c].align) /\ need = (loc[c].size + addr - base) % Word
        BY DEF addr, need, Need
      <3>5. QED
        BY <2>1, <3>1, <3>2, <3>3, <3>4 DEF CommitFits, Need
    <2>5. BaseInPool' /\ UnusedRead'
      BY <2>1 DEF TypeOK, BaseInPool, UnusedRead
    <2>6. GrantsPast'
      BY <2>1 DEF TypeOK, GrantsPast
    <2>7. QED
      BY <2>2, <2>3, <2>4, <2>5, <2>6
  <1>3. CASE ~Fits(need)
    <2>1. /\ loc' = [loc EXCEPT ![c] = NoLocals]
          /\ pc' = [pc EXCEPT ![c] = "idle"] /\ pc[c] = "compute"
          /\ lock' = Free /\ UNCHANGED <<base, top, regions, calls, granted>>
      BY <1>3 DEF Refuse
    <2>2. QED
      <3>1. TypeOK'
        BY <2>1, Numbers DEF TypeOK, Locals
      <3>2. LockHeld' /\ GrantsPast'
        BY <2>1, HeldReturn, PastReturn DEF Holds
      <3>3. BaseInPool' /\ UnusedRead' /\ CommitFits'
        BY <2>1 DEF TypeOK, BaseInPool, UnusedRead, CommitFits, Need
      <3>4. QED
        BY <3>1, <3>2, <3>3
  <1>4. QED
    BY <1>2, <1>3

\* base moves up by what the block needs, padding included, and stays in the pool
LEMMA Bump ==
  ASSUME Inv, NEW c \in Client, pc[c] = "commit"
  PROVE  /\ (base + loc[c].need) % Word = base + loc[c].need
         /\ base + loc[c].need \in base..PoolTop
         /\ loc[c].need \in 0..Word - 1
  <1> DEFINE b == base + loc[c].need
  <1>1. loc[c] \in Locals
    BY DEF Inv, TypeOK, Locals
  <1>2. loc[c].need \in 0..Word - 1 /\ loc[c].need <= PoolTop - base
    BY <1>1 DEF Inv, TypeOK, CommitFits, Locals
  <1>3. b \in base..PoolTop
    BY <1>2, Numbers DEF Inv, BaseInPool
  <1>4. b % Word = b
    <2>1. b \in 0..Word - 1
      BY <1>3, Numbers DEF Inv, BaseInPool
    <2> HIDE DEF b
    <2>2. QED
      BY <2>1, Numbers, SMT
  <1>5. QED
    BY <1>2, <1>3, <1>4

LEMMA InvCommit ==
  ASSUME Inv, NEW c \in Client, Commit(c)
  PROVE  Inv'
  <1> DEFINE r == [base |-> loc[c].addr, size |-> loc[c].size]
             g == [base |-> r.base, size |-> r.size, by |-> "memalign",
                   to |-> c, no |-> calls[c]]
  <1> USE DEF Inv
  <1>1. /\ pc[c] = "commit" /\ pc' = [pc EXCEPT ![c] = "idle"]
        /\ base' = (base + loc[c].need) % Word /\ regions' = Logged(r)
        /\ granted' = granted \cup {g}
        /\ lock' = Free /\ loc' = [loc EXCEPT ![c] = NoLocals]
        /\ UNCHANGED <<top, calls>>
    BY DEF Commit, Goto
  <1>2. base' \in base..PoolTop
    BY <1>1, Bump
  <1>3. TypeOK'
    <2>1. loc[c] \in Locals /\ calls[c] \in 1..MaxCalls
      <3>1. loc[c] \in Locals /\ calls[c] \in 0..MaxCalls
        BY DEF TypeOK, Locals
      <3>2. calls[c] > 0
        BY <1>1 DEF GrantsPast
      <3>3. QED
        BY <3>1, <3>2, Numbers
    <2>2. r \in Regions /\ g \in Grants
      BY <2>1 DEF Locals, Regions, Grants
    <2>3. regions' \in Seq(Regions)
      <3>1. regions \in Seq(Regions)
        BY DEF TypeOK, Regions
      <3> HIDE DEF r
      <3>2. QED
        BY <1>1, <2>2, <3>1 DEF Logged
    <2>4. granted' \subseteq Grants
      <3>1. granted \subseteq Grants
        BY DEF TypeOK, Grants
      <3> HIDE DEF g
      <3>2. QED
        BY <1>1, <2>2, <3>1
    <2>5. base' \in 0..Word - 1
      BY <1>2, Numbers DEF BaseInPool
    <2>6. pc' \in [Client -> Places] /\ loc' \in [Client -> Locals]
      BY <1>1, Numbers DEF TypeOK, Places, Locals
    <2>7. QED
      BY <1>1, <2>3, <2>4, <2>5, <2>6 DEF TypeOK, Regions, Grants, Places, Locals
  <1>4. LockHeld' /\ GrantsPast'
    <2>1. \A h \in granted' \ granted : h.to = c /\ h.no = calls[c]
      BY <1>1
    <2> HIDE DEF g, r
    <2>2. LockHeld'
      BY <1>1, HeldReturn DEF Holds
    <2>3. GrantsPast'
      BY <1>1, <2>1, PastReturn
    <2>4. QED
      BY <2>2, <2>3
  <1>5. BaseInPool'
    BY <1>2, Numbers DEF BaseInPool
  <1>6. CommitFits'
    <2>1. \A d \in Client : pc'[d] # "commit"
      BY <1>1 DEF TypeOK, LockHeld, Holds
    <2>2. QED
      BY <2>1 DEF CommitFits
  <1>7. UnusedRead'
    <2> HIDE DEF g, r
    <2>1. \A d \in Client : pc'[d] # "idle" => pc'[d] = pc[d] /\ loc'[d] = loc[d]
      BY <1>1 DEF TypeOK
    <2>2. \A d \in Client : loc[d].addr \in PoolBase..base => loc[d].addr \in PoolBase..base'
      BY <1>2, Numbers DEF BaseInPool
    <2>3. QED
      BY <1>1, <2>1, <2>2 DEF UnusedRead
  <1>8. QED
    BY <1>3, <1>4, <1>5, <1>6, <1>7

LEMMA InvGetUnused ==
  ASSUME Inv, NEW c \in Client, GetUnused(c)
  PROVE  Inv'
  <1> DEFINE r == [base |-> base, size |-> (top - base) % Word]
             g == [base |-> loc[c].addr, size |-> loc[c].p_top - loc[c].addr,
                   by |-> "unused", to |-> c, no |-> calls[c]]
  <1> USE DEF Inv
  <1>1. /\ pc[c] = "unused" /\ pc' = [pc EXCEPT ![c] = "idle"]
        /\ base' = top /\ regions' = Append(regions, r)
        /\ granted' = granted \cup {g}
        /\ lock' = Free /\ loc' = [loc EXCEPT ![c] = NoLocals]
        /\ UNCHANGED <<top, calls>>
    BY DEF GetUnused, Goto
  <1>2. top = PoolTop /\ base' \in base..PoolTop
    BY <1>1, Numbers DEF TypeOK, BaseInPool
  <1>3. TypeOK'
    <2>1. loc[c] \in Locals /\ calls[c] \in 1..MaxCalls
      <3>1. loc[c] \in Locals /\ calls[c] \in 0..MaxCalls
        BY DEF TypeOK, Locals
      <3>2. calls[c] > 0
        BY <1>1 DEF GrantsPast
      <3>3. QED
        BY <3>1, <3>2, Numbers
    <2>2. r \in Regions
      BY LeftOver DEF TypeOK, Regions
    <2>3. g \in Grants
      <3>1. loc[c].addr \in PoolBase..base /\ loc[c].p_top = PoolTop
        BY <1>1, <1>2 DEF UnusedRead
      <3>2. loc[c].p_top - loc[c].addr \in 0..Word - 1
        BY <3>1, Numbers DEF BaseInPool
      <3>3. QED
        BY <2>1, <3>2 DEF Grants, Locals
    <2>4. regions' \in Seq(Regions)
      <3>1. regions \in Seq(Regions)
        BY DEF TypeOK, Regions
      <3> HIDE DEF r
      <3>2. QED
        BY <1>1, <2>2, <3>1
    <2>5. granted' \subseteq Grants
      <3>1. granted \subseteq Grants
        BY DEF TypeOK, Grants
      <3> HIDE DEF g
      <3>2. QED
        BY <1>1, <2>3, <3>1
    <2>6. base' \in 0..Word - 1
      BY <1>2, Numbers DEF BaseInPool
    <2>7. pc' \in [Client -> Places] /\ loc' \in [Client -> Locals]
      BY <1>1, Numbers DEF TypeOK, Places, Locals
    <2>8. QED
      BY <1>1, <2>4, <2>5, <2>6, <2>7 DEF TypeOK, Regions, Grants, Places, Locals
  <1>4. LockHeld' /\ GrantsPast'
    <2>1. \A h \in granted' \ granted : h.to = c /\ h.no = calls[c]
      BY <1>1
    <2> HIDE DEF g, r
    <2>2. LockHeld'
      BY <1>1, HeldReturn DEF Holds
    <2>3. GrantsPast'
      BY <1>1, <2>1, PastReturn
    <2>4. QED
      BY <2>2, <2>3
  <1>5. BaseInPool'
    BY <1>2, Numbers DEF BaseInPool
  <1>6. CommitFits'
    <2>1. \A d \in Client : pc'[d] # "commit"
      BY <1>1 DEF TypeOK, LockHeld, Holds
    <2>2. QED
      BY <2>1 DEF CommitFits
  <1>7. UnusedRead'
    <2> HIDE DEF g, r
    <2>1. \A d \in Client : pc'[d] # "idle" => pc'[d] = pc[d] /\ loc'[d] = loc[d]
      BY <1>1 DEF TypeOK
    <2>2. \A d \in Client : loc[d].addr \in PoolBase..base => loc[d].addr \in PoolBase..base'
      BY <1>2, Numbers DEF BaseInPool
    <2>3. QED
      BY <1>1, <2>1, <2>2 DEF UnusedRead
  <1>8. QED
    BY <1>3, <1>4, <1>5, <1>6, <1>7

\* a step of a client inside the allocator, whoever called it
InnerStep(c) == \/ AcquireForAlloc(c) \/ Compute(c) \/ Commit(c) \/ GetUnusedRead(c)
                \/ GetUnusedTest(c) \/ AcquireForUnused(c) \/ GetUnused(c)

LEMMA InvInner ==
  ASSUME Inv, NEW c \in Client, InnerStep(c)
  PROVE  Inv'
  BY InvAcquire, InvCompute, InvCommit, InvGetUnusedRead, InvGetUnused DEF InnerStep

LEMMA InvIdle ==
  ASSUME Inv, UNCHANGED vars
  PROVE  Inv'
  BY DEF Inv, vars, TypeOK, LockHeld, Holds, BaseInPool, CommitFits, Need, UnusedRead, GrantsPast

LEMMA NextSteps ==
  ASSUME [Next]_vars
  PROVE  \/ UNCHANGED vars
         \/ \E c \in Client : InnerStep(c) \/ \E q \in Requests : early_memalign(c, q)
  BY DEF Next, Alloc, Unused, Done, InnerStep

LEMMA InvHolds == Spec => []Inv
  <1>1. Init => Inv
    BY InvInit
  <1>2. Inv /\ [Next]_vars => Inv'
    <2>1. ASSUME Inv, NEW c \in Client, NEW q \in Requests, early_memalign(c, q)
          PROVE  Inv'
      <3>1. q \in Words
        BY RequestsAssumption DEF Words
      <3>2. QED
        BY <2>1, <3>1, InvCall
    <2>2. QED
      BY <2>1, NextSteps, InvInner, InvIdle
  <1>3. QED
    BY <1>1, <1>2, PTL DEF Spec

(***************************************************************************)
(* The type invariant: every address and size the allocator computes is a  *)
(* word, and phys_alloc_get_unused() returns a range, never a negative     *)
(* one, although what it returns was read before it took the lock.         *)
(***************************************************************************)
THEOREM TypeCorrect == Spec => []TypeOK
  <1>1. Inv => TypeOK
    BY DEF Inv
  <1>2. QED
    BY <1>1, InvHolds, PTL

(***************************************************************************)
(* A step never gives memory back and never takes any without handing it   *)
(* to a client, sizes that wrap included: the client is given a block it   *)
(* was not given by an earlier call.                                       *)
(***************************************************************************)
LEMMA BumpInner ==
  ASSUME Inv, NEW c \in Client, InnerStep(c)
  PROVE  base' >= base /\ (base' # base => granted' # granted)
  <1> USE DEF Inv
  <1>1. base \in Nat
    BY DEF TypeOK
  <1>2. \A g : g.to = c /\ g.no = calls[c] /\ pc[c] # "idle" => g \notin granted
    <2>1. calls[c] \in Nat
      BY Numbers DEF TypeOK
    <2>2. QED
      BY <2>1 DEF GrantsPast
  <1>3. CASE Commit(c)
    <2> DEFINE g == [base |-> loc[c].addr, size |-> loc[c].size, by |-> "memalign",
                     to |-> c, no |-> calls[c]]
    <2>1. pc[c] = "commit" /\ granted' = granted \cup {g}
      BY <1>3 DEF Commit
    <2>2. g.to = c /\ g.no = calls[c]
      OBVIOUS
    <2>3. g \notin granted
      <3> HIDE DEF g
      <3> QED BY <1>2, <2>1, <2>2
    <2>4. base' \in base..PoolTop
      BY <1>3, <2>1, Bump DEF Commit
    <2>5. QED
      BY <1>1, <2>1, <2>3, <2>4
  <1>4. CASE GetUnused(c)
    <2> DEFINE g == [base |-> loc[c].addr, size |-> loc[c].p_top - loc[c].addr,
                     by |-> "unused", to |-> c, no |-> calls[c]]
    <2>1. pc[c] = "unused" /\ granted' = granted \cup {g} /\ base' = top
      BY <1>4 DEF GetUnused
    <2>2. g.to = c /\ g.no = calls[c]
      OBVIOUS
    <2>3. g \notin granted
      <3> HIDE DEF g
      <3> QED BY <1>2, <2>1, <2>2
    <2>4. base' >= base
      BY <2>1, Numbers DEF TypeOK, BaseInPool
    <2>5. QED
      BY <2>1, <2>3, <2>4
  <1>5. CASE ~Commit(c) /\ ~GetUnused(c)
    <2>1. UNCHANGED base
      BY <1>5 DEF InnerStep, AcquireForAlloc, Compute, GetUnusedRead, GetUnusedTest,
                  AcquireForUnused
    <2>2. QED
      BY <1>1, <2>1
  <1>6. QED
    BY <1>3, <1>4, <1>5

THEOREM NeverTakenBack == Spec => BumpOnly
  <1>1. Inv /\ [Next]_vars => [base' >= base /\ (base' # base => granted' # granted)]_vars
    <2> SUFFICES ASSUME Inv, [Next]_vars
                 PROVE  (base' >= base /\ (base' # base => granted' # granted))
                        \/ UNCHANGED vars
      OBVIOUS
    <2>1. ASSUME NEW c \in Client, NEW q \in Requests, early_memalign(c, q)
          PROVE  base' >= base /\ base' = base
      <3>1. base \in Nat
        BY DEF Inv, TypeOK
      <3>2. QED
        BY <2>1, <3>1 DEF early_memalign
    <2>2. QED
      BY <2>1, NextSteps, BumpInner
  <1>2. QED
    BY <1>1, InvHolds, PTL DEF Spec, BumpOnly

-----------------------------------------------------------------------------
(***************************************************************************)
(* Safety of the pool, for requests that are Small.  Everything handed out *)
(* or logged ends at or below base, so that the next block, at or above    *)
(* base, meets none of it.                                                 *)
(***************************************************************************)
Asking(c) == pc[c] \in {"lock", "compute", "commit"}
SmallAsked == \A c \in Client : Asking(c) => Small(loc[c])
LogBelow == \A i \in DOMAIN regions : regions[i].base + regions[i].size <= base

PoolInv == SmallAsked /\ LogBelow /\ InsidePool /\ NoOverlap /\ LogFaithful

LEMMA PoolInit == Init => PoolInv
  BY Numbers DEF Init, PoolInv, SmallAsked, Asking, LogBelow, InsidePool, NoOverlap, LogFaithful, Blocks

LEMMA PoolQuiet ==
  ASSUME PoolInv, UNCHANGED <<base, regions, granted>>, SmallAsked'
  PROVE  PoolInv'
  BY DEF PoolInv, LogBelow, InsidePool, NoOverlap, LogFaithful, Blocks, Disjoint

LEMMA PoolCall ==
  ASSUME Inv, PoolInv, NEW c \in Client, NEW q \in Words, Small(q), early_memalign(c, q)
  PROVE  PoolInv'
  <1>1. UNCHANGED <<base, regions, granted>>
    BY DEF early_memalign
  <1>2. SmallAsked'
    <2>1. loc'[c].size = q.size /\ loc'[c].align = q.align
      BY DEF early_memalign, Inv, TypeOK, NoLocals
    <2>2. \A d \in Client : d # c => loc'[d] = loc[d] /\ pc'[d] = pc[d]
      BY DEF early_memalign, Call, Goto, Inv, TypeOK
    <2>3. QED
      BY <2>1, <2>2 DEF PoolInv, SmallAsked, Asking, Small
  <1>3. QED
    BY <1>1, <1>2, PoolQuiet

LEMMA PoolMove ==
  ASSUME Inv, PoolInv, NEW c \in Client, InnerStep(c), ~Commit(c), ~GetUnused(c)
  PROVE  PoolInv'
  <1>1. UNCHANGED <<base, regions, granted>>
    BY DEF InnerStep, AcquireForAlloc, Compute, GetUnusedRead, GetUnusedTest, AcquireForUnused
  <1>2. /\ \A d \in Client : d # c => loc'[d] = loc[d] /\ pc'[d] = pc[d]
        /\ Asking(c)' => /\ Asking(c)
                        /\ loc'[c].size = loc[c].size /\ loc'[c].align = loc[c].align
    <2>1. pc \in [Client -> Places] /\ loc \in [Client -> Locals]
      BY DEF Inv, TypeOK, Places, Locals
    <2>2. CASE AcquireForAlloc(c) \/ AcquireForUnused(c) \/ GetUnusedTest(c) \/ GetUnusedRead(c)
      BY <2>1, <2>2 DEF AcquireForAlloc, AcquireForUnused, GetUnusedTest, GetUnusedRead,
                        Call, Goto, Asking
    <2>3. CASE Compute(c)
      <3> DEFINE a == ALIGN(base, loc[c].align)
                 n == Need(c, a)
      <3>1. \/ /\ loc' = [loc EXCEPT ![c].addr = a, ![c].need = n]
               /\ pc' = [pc EXCEPT ![c] = "commit"]
            \/ /\ loc' = [loc EXCEPT ![c] = NoLocals] /\ pc' = [pc EXCEPT ![c] = "idle"]
        BY <2>3 DEF Compute, Refuse, Goto
      <3>2. pc[c] = "compute"
        BY <2>3 DEF Compute
      <3> HIDE DEF a, n
      <3>3. QED
        BY <2>1, <3>1, <3>2 DEF Asking, Locals
    <2>4. QED
      BY <2>2, <2>3 DEF InnerStep
  <1>3. SmallAsked'
    BY <1>2 DEF PoolInv, SmallAsked, Asking, Small
  <1>4. QED
    BY <1>1, <1>3, PoolQuiet

\* a block begins at or above what was left and ends where the rest begins
LEMMA BlockAtBase ==
  ASSUME Inv, SmallAsked, NEW c \in Client, Commit(c)
  PROVE  /\ loc[c].addr \in Nat /\ loc[c].size \in Nat
         /\ base <= loc[c].addr
         /\ loc[c].addr + loc[c].size = base'
  <1>1. /\ pc[c] = "commit" /\ loc[c] \in Locals
        /\ base \in 0..PoolTop /\ base' = (base + loc[c].need) % Word
    BY Numbers DEF Commit, Inv, TypeOK, Locals, BaseInPool
  <1>2. /\ loc[c].size \in Nat /\ loc[c].align \in Nat \ {0} /\ loc[c].addr \in Nat
        /\ loc[c].size + loc[c].align <= Word /\ PoolTop + loc[c].align <= Word
    BY <1>1, Numbers DEF SmallAsked, Asking, Small, Locals
  <1>3. /\ loc[c].addr = ALIGN(base, loc[c].align)
        /\ loc[c].need = (loc[c].size + loc[c].addr - base) % Word
    BY <1>1 DEF Inv, CommitFits, Need
  <1>4. loc[c].addr \in base..(base + loc[c].align - 1)
    <2>1. base \in Nat /\ base + loc[c].align <= Word
      BY <1>1, <1>2, Numbers
    <2>2. QED
      BY <1>2, <1>3, <2>1, AlignUp
  <1>5. loc[c].need = loc[c].size + loc[c].addr - base
    <2> DEFINE n == loc[c].size + loc[c].addr - base
    <2>1. n \in 0..Word - 1
      BY <1>1, <1>2, <1>4, Numbers
    <2> HIDE DEF n
    <2>2. n % Word = n
      BY <2>1, Numbers, SMT
    <2>3. QED
      BY <1>3, <2>2 DEF n
  <1>6. base' = base + loc[c].need
    BY <1>1, Bump
  <1>7. QED
    BY <1>1, <1>2, <1>4, <1>5, <1>6, Numbers

LEMMA PoolCommit ==
  ASSUME Inv, PoolInv, NEW c \in Client, Commit(c)
  PROVE  PoolInv'
  <1> DEFINE r == [base |-> loc[c].addr, size |-> loc[c].size]
             g == [base |-> r.base, size |-> r.size, by |-> "memalign",
                   to |-> c, no |-> calls[c]]
  <1>1. /\ pc[c] = "commit" /\ pc' = [pc EXCEPT ![c] = "idle"]
        /\ regions' = Logged(r) /\ granted' = granted \cup {g}
        /\ loc' = [loc EXCEPT ![c] = NoLocals]
    BY DEF Commit, Goto
  <1>2. /\ r.base \in Nat /\ r.size \in Nat /\ base <= r.base /\ r.base + r.size = base'
        /\ g.base = r.base /\ g.size = r.size
    BY BlockAtBase DEF PoolInv
  <1>3. /\ base \in PoolBase..PoolTop /\ base' \in base..PoolTop
        /\ regions \in Seq(Regions)
        /\ \A h \in granted : h.base \in Nat /\ h.size \in Nat
    <2>1. base' \in base..PoolTop
      BY <1>1, Bump DEF Commit
    <2>2. granted \subseteq Grants
      BY DEF Inv, TypeOK, Grants
    <2>3. \A h \in granted : h.base \in Nat /\ h.size \in Nat
      BY <2>2, Numbers DEF Grants
    <2>4. QED
      BY <2>1, <2>3 DEF Inv, TypeOK, BaseInPool, Regions
  <1>4. SmallAsked'
    BY <1>1 DEF Inv, TypeOK, PoolInv, SmallAsked, Asking, Small
  <1> HIDE DEF r
  <1>5. \A i \in DOMAIN regions : /\ regions[i].base \in Nat /\ regions[i].size \in Nat
                                 /\ regions[i].base + regions[i].size <= base
    <2>1. \A i \in DOMAIN regions : regions[i] \in Regions
      BY <1>3
    <2>2. QED
      BY <2>1, Numbers DEF Regions, PoolInv, LogBelow
  <1>6. LogBelow'
    BY <1>1, <1>2, <1>3, <1>5, Numbers DEF LogBelow, Logged
  <1>7. InsidePool'
    <2> HIDE DEF g
    <2> QED BY <1>1, <1>2, <1>3, Numbers DEF PoolInv, InsidePool
  <1>8. NoOverlap'
    <2> HIDE DEF g
    <2>1. \A h \in granted : h.base + h.size <= g.base
      BY <1>2, <1>3, Numbers DEF PoolInv, InsidePool
    <2>2. \A h \in granted : Disjoint(g, h) /\ Disjoint(h, g)
      BY <2>1 DEF Disjoint
    <2>3. QED
      BY <1>1, <2>2 DEF PoolInv, NoOverlap, Blocks, Disjoint
  <1>9. LogFaithful'
    <2>1. CASE Len(regions) < PHYS_ALLOC_NR_REGIONS
      <3>1. regions' = Append(regions, r)
        BY <1>1, <2>1 DEF Logged
      <3>2. \A i \in DOMAIN regions : i \in DOMAIN regions' /\ regions'[i] = regions[i]
        BY <1>3, <3>1
      <3>3. Len(regions') \in DOMAIN regions' /\ regions'[Len(regions')] = r
        BY <1>3, <3>1
      <3>4. \A i, k \in DOMAIN regions' :
              i < k => regions'[i].base + regions'[i].size <= regions'[k].base
        BY <1>2, <1>3, <1>5, <3>1, Numbers DEF PoolInv, LogFaithful
      <3>5. \A h \in Blocks' : \E i \in DOMAIN regions' :
              regions'[i] = [base |-> h.base, size |-> h.size]
        <4> SUFFICES ASSUME NEW h \in Blocks'
                     PROVE  \E i \in DOMAIN regions' :
                              regions'[i] = [base |-> h.base, size |-> h.size]
          OBVIOUS
        <4>1. CASE h \in granted
          BY <2>1, <3>2, <4>1 DEF PoolInv, LogFaithful, Blocks
        <4>2. CASE h = g
          BY <3>3, <4>2, <1>2 DEF r
        <4>3. QED
          BY <1>1, <4>1, <4>2 DEF Blocks
      <3>6. QED
        BY <3>4, <3>5 DEF LogFaithful
    <2>2. CASE ~(Len(regions) < PHYS_ALLOC_NR_REGIONS)
      BY <1>1, <2>2 DEF PoolInv, LogFaithful, Logged
    <2>3. QED
      BY <2>1, <2>2
  <1>10. QED
    BY <1>4, <1>6, <1>7, <1>8, <1>9 DEF PoolInv

LEMMA PoolGetUnused ==
  ASSUME Inv, PoolInv, NEW c \in Client, GetUnused(c)
  PROVE  PoolInv'
  <1> DEFINE r == [base |-> base, size |-> (top - base) % Word]
             g == [base |-> loc[c].addr, size |-> loc[c].p_top - loc[c].addr,
                   by |-> "unused", to |-> c, no |-> calls[c]]
  <1>1. /\ pc[c] = "unused" /\ pc' = [pc EXCEPT ![c] = "idle"]
        /\ base' = top /\ regions' = Append(regions, r) /\ granted' = granted \cup {g}
        /\ loc' = [loc EXCEPT ![c] = NoLocals]
    BY DEF GetUnused, Goto
  <1>2. /\ base \in PoolBase..PoolTop /\ base' = PoolTop /\ top = PoolTop
        /\ regions \in Seq(Regions) /\ PHYS_ALLOC_NR_REGIONS \in Nat
        /\ \A h \in granted : h.base \in Nat /\ h.size \in Nat
    <2>1. granted \subseteq Grants
      BY DEF Inv, TypeOK, Grants
    <2>2. \A h \in granted : h.base \in Nat /\ h.size \in Nat
      BY <2>1, Numbers DEF Grants
    <2>3. QED
      BY <1>1, <2>2, RegionsAssumption DEF Inv, TypeOK, BaseInPool, Regions
  <1>3. r.base \in Nat /\ r.size \in Nat /\ base = r.base /\ r.base + r.size = base'
    BY <1>2, LeftOver, Numbers DEF Inv
  <1>4. PoolBase <= g.base /\ g.base + g.size <= base' /\ g.by = "unused"
    BY <1>1, <1>2, Numbers DEF Inv, UnusedRead
  <1>5. SmallAsked'
    BY <1>1 DEF Inv, TypeOK, PoolInv, SmallAsked, Asking, Small
  <1> HIDE DEF r, g
  <1>6. \A i \in DOMAIN regions : /\ regions[i].base \in Nat /\ regions[i].size \in Nat
                                 /\ regions[i].base + regions[i].size <= base
    <2>1. \A i \in DOMAIN regions : regions[i] \in Regions
      BY <1>2
    <2>2. QED
      BY <2>1, Numbers DEF Regions, PoolInv, LogBelow
  <1>7. LogBelow'
    BY <1>1, <1>2, <1>3, <1>6, Numbers DEF LogBelow
  <1>8. InsidePool'
    BY <1>1, <1>2, <1>4, Numbers DEF PoolInv, InsidePool
  <1>9. Blocks' = Blocks
    BY <1>1, <1>4 DEF Blocks
  <1>10. NoOverlap'
    BY <1>9 DEF PoolInv, NoOverlap, Disjoint
  <1>11. LogFaithful'
    <2>1. \A i \in DOMAIN regions : i \in DOMAIN regions' /\ regions'[i] = regions[i]
      BY <1>1, <1>2
    <2>2. \A i, k \in DOMAIN regions' :
            i < k => regions'[i].base + regions'[i].size <= regions'[k].base
      BY <1>1, <1>2, <1>3, <1>6, Numbers DEF PoolInv, LogFaithful
    <2>3. Len(regions') < PHYS_ALLOC_NR_REGIONS => Len(regions) < PHYS_ALLOC_NR_REGIONS
      BY <1>1, <1>2
    <2>4. QED
      BY <1>9, <2>1, <2>2, <2>3 DEF PoolInv, LogFaithful
  <1>12. QED
    BY <1>5, <1>7, <1>8, <1>10, <1>11 DEF PoolInv

LEMMA PoolInner ==
  ASSUME Inv, PoolInv, NEW c \in Client, InnerStep(c)
  PROVE  PoolInv'
  BY PoolMove, PoolCommit, PoolGetUnused

LEMMA PoolIdle ==
  ASSUME PoolInv, UNCHANGED vars
  PROVE  PoolInv'
  <1>1. SmallAsked'
    BY DEF PoolInv, SmallAsked, Asking, vars
  <1>2. QED
    BY <1>1, PoolQuiet DEF vars

LEMMA PoolHolds == Spec => []PoolInv
  <1>1. Init => PoolInv
    BY PoolInit
  <1>2. Inv /\ PoolInv /\ [Next]_vars => PoolInv'
    <2>1. ASSUME Inv, PoolInv, NEW c \in Client, NEW q \in Requests, early_memalign(c, q)
          PROVE  PoolInv'
      <3>1. q \in Words /\ Small(q)
        BY RequestsAssumption, SmallAssumption DEF Words
      <3>2. QED
        BY <2>1, <3>1, PoolCall
    <2>2. QED
      BY <2>1, NextSteps, PoolInner, PoolIdle
  <1>3. QED
    BY <1>1, <1>2, InvHolds, PTL DEF Spec

(***************************************************************************)
(* Two blocks of early_memalign() never share a byte: the lock keeps       *)
(* Compute and Commit of one client together, so that no two blocks are    *)
(* computed from the same base.                                            *)
(***************************************************************************)
THEOREM BlocksDisjoint == Spec => []NoOverlap
  BY PoolHolds, PTL DEF PoolInv

(***************************************************************************)
(* Blocks and what is left of the pool stay inside the pool and apart,     *)
(* however tight it is and whatever the padding of a block.                *)
(***************************************************************************)
THEOREM BlocksInPool == Spec => []InsidePool
  BY PoolHolds, PTL DEF PoolInv

(***************************************************************************)
(* What phys_alloc_show() prints is ascending and without overlaps, and it *)
(* lists every block until the log is full.                                *)
(***************************************************************************)
THEOREM LogTold == Spec => []LogFaithful
  BY PoolHolds, PTL DEF PoolInv

=============================================================================
